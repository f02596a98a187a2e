---- MODULE MCVerificationUploads ----
(* Instances of VerificationUploads: one job that owns every chunk. *)
EXTENDS VerificationUploads
MCOwner == [c \in Chunks |-> 1]
====
