----------------------------- MODULE MCPlaybook -----------------------------
(***************************************************************************)
(* Every acyclic playbook of three steps whose branches lead to steps that *)
(* come after them, in one parallel group or none, larger ones with tools, *)
(* a join and a step that a person does, and steps that two others lead    *)
(* to.                                                                     *)
(***************************************************************************)
EXTENDS Playbook

CONSTANTS look, pay

Plain(n) == [after |-> [s \in 1 .. n |-> {}], branches |-> [s \in 1 .. n |-> {}],
             group |-> [s \in 1 .. n |-> 0], joins |-> [s \in 1 .. n |-> 0],
             uses |-> [s \in 1 .. n |-> {}],
             least |-> [s \in 1 .. n |-> 0], most |-> [s \in 1 .. n |-> 9],
             tasks |-> {}, deciders |-> {}, required |-> 1 .. n, block |-> FALSE]

\* A step comes after steps before it in the order, and some of those name it in a branch.
Orders(n) == {after \in [1 .. n -> SUBSET (1 .. n)] : \A s \in 1 .. n : \A d \in after[s] : d < s}
Named(n, after) == {b \in [1 .. n -> SUBSET (1 .. n)] : \A s \in 1 .. n : \A t \in b[s] : s \in after[t]}
Groups(n) == [1 .. n -> {0, 1}]
Small == UNION {{[Plain(3) EXCEPT !.after = after, !.branches = b, !.group = g] :
                    b \in Named(3, after), g \in Groups(3)} : after \in Orders(3)}

\* The example of the tests: a triage, two kinds of evidence and a decision.
Refund == [Plain(4) EXCEPT !.after = <<{}, {1}, {1}, {1}>>, !.branches = <<{2, 3}, {}, {}, {}>>,
                           !.group = <<0, 1, 1, 0>>, !.joins = <<0, 0, 0, 1>>,
                           !.uses = <<{look}, {look}, {look, pay}, {}>>,
                           !.least = <<1, 0, 0, 0>>, !.most = <<2, 1, 1, 1>>,
                           !.deciders = {4}, !.required = {1, 4}, !.block = TRUE]
\* A check, a call back that a person makes, and what it leads to.
Vendor == [Plain(4) EXCEPT !.after = <<{}, {1}, {2}, {2}>>, !.branches = <<{}, {3, 4}, {}, {}>>,
                           !.uses = <<{look}, {}, {pay}, {}>>, !.tasks = {2}]
\* Steps that are routed out one after the other, up to one that a step defined before it
\* joins.
Chain == [Plain(5) EXCEPT !.after = <<{}, {1}, {1}, {3}, {4}>>,
                          !.branches = <<{3}, {}, {4}, {}, {}>>,
                          !.group = <<0, 0, 0, 0, 1>>, !.joins = <<0, 1, 0, 0, 0>>]

\* The one of the tests in which two steps lead to a third that comes after neither, and
\* one in which either of the two may be left with no call run.
TwoRouters == [Plain(3) EXCEPT !.after = <<{}, {1}, {}>>, !.branches = <<{3}, {3}, {}>>,
                               !.required = {1, 2}]
EitherLook == [Plain(3) EXCEPT !.after = <<{}, {1}, {1, 2}>>, !.branches = <<{3}, {3}, {}>>,
                               !.uses = <<{look}, {look}, {pay}>>]

Built == Small \cup {Refund, Vendor, Chain, EitherLook}
All == Built \cup {TwoRouters}

ASSUME (\A p \in Built : WellBuilt(p)) /\ ~WellBuilt(TwoRouters)
=============================================================================
