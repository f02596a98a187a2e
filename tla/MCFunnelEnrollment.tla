------------------------- MODULE MCFunnelEnrollment -------------------------
(* The instance of FunnelEnrollment that TLC checks: a fork with a fork in   *)
(* one of its paths, whose threads end at once or by an event or a timer and *)
(* an action; a reply in the other path, an action behind the nested fork;   *)
(* the main flow goes on to an exit.                                         *)
EXTENDS FunnelEnrollment

MCPaths == {"a", "b", "c", "d"}
MCScript ==
  [p \in {"main"} \cup MCPaths |->
     CASE p = "main" -> <<"wait", "fork", "exit">>
       [] p = "a" -> <<"wait", "fork", "action">>
       [] p = "b" -> <<"wait_for_reply">>
       [] p = "c" -> <<"wait_until", "action">>
       [] p = "d" -> <<"exit">>]
MCBranches ==
  [p \in {"main"} \cup MCPaths |->
     CASE p = "main" -> <<"a", "b">> [] p = "a" -> <<"c", "d">> [] OTHER -> <<>>]
=============================================================================
