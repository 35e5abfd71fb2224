--------------------------- MODULE OutputHistory ---------------------------
(***************************************************************************)
(* OutputController with two history variables, for the promises that      *)
(* relate a step to the past: what an output was told when it last went    *)
(* off, and how long its device has really been on.                        *)
(***************************************************************************)
EXTENDS OutputController

VARIABLES
  held_until,   \* off_until as it was when the device last went off
  on_time       \* seconds the device has been on

hvars == <<vars, held_until, on_time>>

HInit == /\ Init
         /\ held_until = [o \in Outputs |-> 0]
         /\ on_time = [o \in Outputs |-> 0]

HNext ==
  /\ Next
  /\ held_until' = [o \in Outputs |->
                      IF dev[o] /\ ~dev'[o] THEN off_until[o] ELSE held_until[o]]
  /\ on_time' = [o \in Outputs |->
                   IF now' # now /\ dev[o] THEN on_time[o] + (now' - now) ELSE on_time[o]]

HSpec == HInit /\ [][HNext]_hvars

(***************************************************************************)
(* Properties                                                              *)
(***************************************************************************)
\* An output that went off while it had to stay off for a minimum time is not
\* switched on again before that time (min_off of output_on_off, off_until).
StaysOff ==
  [][\A o \in Outputs \ Direct : ~dev[o] /\ dev'[o] => held_until[o] <= now]_hvars

\* The measurement database is never told that an output was on for longer than
\* its device was (the durations output_on_off writes when an output is
\* switched off or given a new duration).
NotOverRecorded ==
  \A o \in Outputs : Quiet => recorded[o] <= on_time[o]
=============================================================================
