------------------------------ MODULE BytePipe ------------------------------
(***************************************************************************)
(* What one direction of a mysocket promises: a reliable byte pipe.  The   *)
(* writer adds bytes until it shuts the pipe; the reader receives them in  *)
(* order, and is told once that the pipe has ended, after the last byte.   *)
(***************************************************************************)
EXTENDS Naturals

VARIABLES
  sent,    \* bytes the writer has put in
  rcvd,    \* bytes the reader has got, the first rcvd ones
  shut,    \* the writer has finished
  ended,   \* the reader has been told so
  intact   \* every byte received is the byte sent at its position

pipeVars == <<sent, rcvd, shut, ended, intact>>

Init == sent = 0 /\ rcvd = 0 /\ shut = FALSE /\ ended = FALSE /\ intact = TRUE

Send == /\ ~shut
        /\ sent' \in Nat /\ sent' >= sent
        /\ UNCHANGED <<rcvd, shut, ended, intact>>

Receive == /\ ~ended
           /\ rcvd' \in Nat /\ rcvd' >= rcvd /\ rcvd' <= sent
           /\ UNCHANGED <<sent, shut, ended, intact>>

Shut == /\ shut' = TRUE
        /\ UNCHANGED <<sent, rcvd, ended, intact>>

End == /\ shut /\ ~ended /\ rcvd = sent
       /\ ended' = TRUE
       /\ UNCHANGED <<sent, rcvd, shut, intact>>

Next == Send \/ Receive \/ Shut \/ End

Spec == Init /\ [][Next]_pipeVars
=============================================================================
