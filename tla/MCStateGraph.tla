---------------------------- MODULE MCStateGraph ----------------------------
(***************************************************************************)
(* Two branches that join in a loop: START leads to a and b, both lead to  *)
(* c, which repeats until it moves on to d.  The node b asks a person and  *)
(* may end the graph, c may fail and d may be skipped.                     *)
(***************************************************************************)
EXTENDS StateGraph

CONSTANTS a, b, c, d

Fork == <<a, b>>

Leads == [n \in Nodes |-> CASE n = a -> {<<c>>}
                            [] n = b -> {<<c>>, <<End>>}
                            [] n = c -> {<<c>>, <<d>>}
                            [] n = d -> {<<End>>, << >>}]

Ways == [n \in Nodes |-> CASE n = a -> {"completed"}
                           [] n = b -> {"completed", "interrupted"}
                           [] n = c -> {"completed", "failed"}
                           [] n = d -> {"completed", "skipped"}]

\* Without gates; gated on the loop; and gated on one branch, pausing after d, and
\* not saving every step.
Settings == {[before |-> {}, after |-> {}, every_step |-> TRUE],
             [before |-> {c}, after |-> {}, every_step |-> TRUE],
             [before |-> {b}, after |-> {d}, every_step |-> FALSE]}
=============================================================================
