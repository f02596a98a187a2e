------------------------ MODULE MCAttentionSelection ------------------------
(* The instance of AttentionSelection that TLC checks: a campaign with a     *)
(* deadline and an urgent automated message contest one slot of a contact,   *)
(* and a batch reads fewer rows than are due.                                *)
EXTENDS AttentionSelection

CONSTANTS Urgent, Short

MCSlotOf == [r \in Rows |-> 1]
MCTier == [r \in Rows |-> IF r \in Urgent THEN 2 ELSE 1]
MCPriority == [r \in Rows |-> r]
MCTtl == [r \in Rows |-> IF r \in Short THEN 1 ELSE 0]
=============================================================================
