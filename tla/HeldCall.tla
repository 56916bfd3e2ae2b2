------------------------------ MODULE HeldCall ------------------------------
(***************************************************************************)
(* What a held call is promised: an approval is opened, answered once, and *)
(* closed.  Only a granted one gives a permit, closing it as it does; a    *)
(* permit is for one run of the call and may be lost before that run.      *)
(* GatedCalls implements this over a store, workers and crashes.           *)
(***************************************************************************)
EXTENDS Naturals

CONSTANT Approvals

VARIABLES
    stage,   \* per approval: absent, open, granted, refused or closed
    permits, \* approvals redeemed for a run that has not happened yet
    ran      \* how many times each approval's call ran on it

heldVars == <<stage, permits, ran>>

HeldInit ==
    /\ stage = [a \in Approvals |-> "absent"]
    /\ permits = {}
    /\ ran = [a \in Approvals |-> 0]

Moves(a, from, to) == stage[a] \in from /\ stage' = [stage EXCEPT ![a] = to]

Open(a) == Moves(a, {"absent"}, "open") /\ UNCHANGED <<permits, ran>>
Answer(a) ==
    /\ Moves(a, {"open"}, "granted") \/ Moves(a, {"open"}, "refused")
    /\ UNCHANGED <<permits, ran>>
Close(a) == Moves(a, {"granted", "refused"}, "closed") /\ UNCHANGED <<permits, ran>>

RedeemApproval(a) ==
    /\ Moves(a, {"granted"}, "closed")
    /\ permits' = permits \cup {a}
    /\ UNCHANGED ran
Run(a) ==
    /\ a \in permits
    /\ permits' = permits \ {a}
    /\ ran' = [ran EXCEPT ![a] = @ + 1]
    /\ UNCHANGED stage
Lose(a) == a \in permits /\ permits' = permits \ {a} /\ UNCHANGED <<stage, ran>>

HeldNext ==
    \E a \in Approvals : Open(a) \/ Answer(a) \/ Close(a)
                         \/ RedeemApproval(a) \/ Run(a) \/ Lose(a)

HeldSpec == HeldInit /\ [][HeldNext]_heldVars

\* No approval's call runs twice on it, nor on an approval that is not closed.
AtMostOnce ==
    \A a \in Approvals : ran[a] <= 1 /\ (ran[a] > 0 => stage[a] = "closed" /\ a \notin permits)

=============================================================================
