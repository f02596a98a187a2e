---------------------------- MODULE FileCustody ----------------------------
(***************************************************************************)
(* What a program promises that lends personal data to somebody else: a    *)
(* file is handed out for an open batch only, is not handed out again once *)
(* it was erased, and a batch is closed only when nothing of it is abroad. *)
(* VerificationUploads implements it for the files of bulk verification.   *)
(***************************************************************************)
CONSTANTS Files, Batches, BatchOf

VARIABLES
  custody,  \* Files -> Places
  closed    \* batches that are over

Places == {"home", "abroad", "erased"}

Init == custody = [f \in Files |-> "home"] /\ closed = {}

HandOut(f) ==
  /\ custody[f] = "home"
  /\ BatchOf[f] \notin closed
  /\ custody' = [custody EXCEPT ![f] = "abroad"]
  /\ UNCHANGED closed

Settled(B) == \A f \in Files : BatchOf[f] \in B => custody'[f] # "abroad"

\* Files come back or are erased; batches without a file abroad are closed or
\* opened again.
Return ==
  /\ custody' \in [Files -> Places]
  /\ \A f \in Files : custody'[f] = custody[f] \/ custody[f] = "abroad"
  /\ closed' \in SUBSET Batches
  /\ Settled(closed')

Next == Return \/ \E f \in Files : HandOut(f)

Spec == Init /\ [][Next]_<<custody, closed>>
=============================================================================
