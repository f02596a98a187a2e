---------------------------- MODULE MCEventDrain ----------------------------
(* The instance of EventDrain that TLC checks: three events, of which an    *)
(* ingress handler also processes one and one fails whenever it likes.      *)
EXTENDS EventDrain

CONSTANTS e1, e2, e3

MCEvents == {e1, e2, e3}
MCInline == {e2}
MCPoison == {e1}
=============================================================================
