--------------------------- MODULE MCFileApprovals ---------------------------
(***************************************************************************)
(* Small processes over a small approval file, with one rule: both of ann  *)
(* and bob, or one of them.                                                *)
(***************************************************************************)
EXTENDS FileApprovals

CONSTANTS svc, ann, bob

ASSUME OneAuthority

Rule(approvers, quorum) ==
    [labels |-> {}, approvers |-> approvers, roles |-> {}, quorum |-> quorum,
     allow_self_approval |-> FALSE]

MCRequesterOf == [c \in Calls |-> svc]
MCRolesOf == [p \in Principals |-> {}]
MCLabelSets == {{}}
NoDelegations == << >>
QuorumTwo == <<Rule({ann, bob}, 2)>>
QuorumOne == <<Rule({ann, bob}, 1)>>
=============================================================================
