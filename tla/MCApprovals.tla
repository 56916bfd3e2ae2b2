---------------------------- MODULE MCApprovals ----------------------------
(***************************************************************************)
(* One payment asked for by fay, who holds the finance role and lends it   *)
(* to dan: separation of duties has something to refuse.  Finance and the  *)
(* CFO must both approve, and both is in both groups; dan may also stand   *)
(* in for frank, until time 1.                                             *)
(***************************************************************************)
EXTENDS Approvals, TLC

CONSTANTS fay, frank, both, carol, dan

Rule(labels, roles, quorum) ==
    [labels |-> labels, approvers |-> {}, roles |-> roles, quorum |-> quorum,
     allow_self_approval |-> FALSE]

Grant(from, to, labels, deadline) ==
    [grantor |-> from, grantee |-> to, labels |-> labels, expires_at |-> deadline]

MCRoles == {"finance", "cfo"}
MCRolesOf == [p \in Principals |->
    IF p \in {fay, frank} THEN {"finance"} ELSE IF p = carol THEN {"cfo"}
    ELSE IF p = both THEN {"finance", "cfo"} ELSE {}]
MCRequesterOf == [c \in Calls |-> fay]
MCLabels == {"payment", "production"}

MCRules == <<Rule({"payment"}, {"finance"}, 1), Rule({}, {"cfo"}, 1)>>
MCDelegations == <<Grant(fay, dan, {}, 2), Grant(frank, dan, {"payment"}, 1)>>
MCLabelSets == {{"payment"}}
=============================================================================
