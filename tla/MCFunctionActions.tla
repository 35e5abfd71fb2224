------------------------- MODULE MCFunctionActions -------------------------
(***************************************************************************)
(* Small instances of FunctionActions for TLC.                             *)
(***************************************************************************)
EXTENDS FunctionActions, TLC

CONSTANTS f1, f2, p1, o1

Do(do, on, by) == [do |-> do, on |-> on, by |-> by]

\* One sets a PID to work, the other stops both and itself.
SetAndStop ==
  (f1 :> <<Do("set", p1, 1), Do("activate", p1, 0), Do("raise", p1, 1), Do("resume", p1, 0)>>) @@
  (f2 :> <<Do("on", o1, 0), Do("deactivate", p1, 0), Do("set", p1, 2), Do("raise", p1, -1), Do("off", o1, 0),
           Do("deactivate", f1, 0), Do("deactivate", f2, 0), Do("email", f2, 0)>>)

\* For what the README tells of two that mail.
BothMail == f1 :> <<Do("email", f1, 0)>> @@ f2 :> <<Do("email", f2, 0), Do("photo_email", f2, 0)>>

\* One that mails photos.
PhotoAlone == f1 :> <<Do("photo_email", f1, 0)>> @@ f2 :> <<>>
=============================================================================
