---------------------------- MODULE MCGatedCalls ----------------------------
(***************************************************************************)
(* One gated tool, called by svc and decided by ann.  The verdict on a     *)
(* call may pass, fall short (a hold) or fail (a deny), and may differ     *)
(* from one time it is asked to the next.                                  *)
(***************************************************************************)
EXTENDS GatedCalls, TLC

CONSTANTS svc, ann, c1, e1

MCRules == << [labels |-> {}, approvers |-> {ann}, roles |-> {}, quorum |-> 1,
               allow_self_approval |-> FALSE] >>
MCDelegations == << >>
MCRolesOf == [p \in Principals |-> {}]
MCRequesterOf == [c \in Calls |-> svc]
MCLabelSets == {{}}

Refund(cost) == [labels |-> {}, blast_radius |-> 1, cost |-> cost]
MCActionOf == [c \in Calls, a \in Arguments |-> Refund(IF a = NoEdit THEN 2 ELSE 1)]

Passes == [survives |-> TRUE, score |-> 2]
FallsShort == [survives |-> TRUE, score |-> 1]
Fails == [survives |-> FALSE, score |-> 0]
AnyEvidence == {Passes, FallsShort, Fails}

MCPolicy == [deny_for |-> {}, require_sandbox_for |-> {}, require_human_for |-> {},
             min_severity |-> 0, require_score |-> 2, max_blast_radius |-> 1,
             human_over |-> None, spend_limit |-> None]

Interchangeable == Permutations(Workers)
=============================================================================
