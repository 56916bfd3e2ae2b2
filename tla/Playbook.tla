------------------------------ MODULE Playbook ------------------------------
(***************************************************************************)
(* A run of a playbook of version 2 (tulip.playbooks.v2.engine): the step  *)
(* graph with its branches, parallel groups and joins, the calls that are  *)
(* admitted to its steps and credited to them, pauses, the decision, and a *)
(* runtime rebuilt elsewhere from the records of the one before.           *)
(*                                                                         *)
(* What a condition reads, a selection and a form are data: a step that    *)
(* closes may take any of its branches.  Steps are numbered in the order   *)
(* of their definition.  An operator named Mut... is a wrong variant of    *)
(* the one after it.                                                       *)
(***************************************************************************)
EXTENDS Naturals, Sequences, FiniteSets

CONSTANTS
    Playbooks,  \* the definitions a run may follow
    Tools,
    NoRoute,    \* a step whose routing is not settled, a record without targets
    Nobody,     \* the owner of a call no active step admits
    MaxCalls,   \* bound: calls that are started
    MaxPauses,  \* bound: pauses
    MaxMoves    \* bound: times the run is restored

\* What the code reads of a definition, by step: the steps it comes after, its parallel
\* group and the group it joins (0 for none), the targets of its branches, its tools and
\* the floor and ceiling of its calls; the steps people do, the ones that decide, the
\* required ones; and whether the contract is enforced.
ASSUME PlaybookAssumption ==
    /\ \A p \in Playbooks : LET steps == DOMAIN p.after IN
          /\ IsFiniteSet(steps) /\ steps = 1 .. Cardinality(steps) /\ steps # {}
          /\ p.after \in [steps -> SUBSET steps] /\ p.branches \in [steps -> SUBSET steps]
          /\ p.group \in [steps -> Nat] /\ p.joins \in [steps -> Nat]
          /\ p.uses \in [steps -> SUBSET Tools]
          /\ p.least \in [steps -> Nat] /\ p.most \in [steps -> Nat]
          /\ p.tasks \subseteq steps /\ p.deciders \subseteq steps /\ p.required \subseteq steps
          /\ p.block \in BOOLEAN
          /\ \A taken \in SUBSET steps : taken # NoRoute
    /\ IsFiniteSet(Tools)
    /\ MaxCalls \in Nat /\ MaxPauses \in Nat /\ MaxMoves \in Nat

VARIABLES
    playbook,   \* the definition of this run
    status,     \* per step
    routed,     \* per step: the targets it enabled, once its routing is settled
    attempts,   \* per step: calls admitted
    executed,   \* per step: calls credited that ran
    fruitless,  \* per step: calls credited that did not run, or failed (history)
    unrun,      \* the steps a call of which did not execute
    owners,     \* per tool: the steps its admitted calls were attributed to, oldest first
    calls,      \* the calls in progress, in the order their results are folded
    decided,
    record,     \* per step: its last playbook_step record
    started, paused, moved  \* calls, pauses and moves so far

playbookVars == <<playbook, status, routed, attempts, executed, fruitless, unrun, owners,
                  calls, decided, record, started, paused, moved>>

Steps == DOMAIN playbook.after
Terminal == {"done", "waived", "not_executed"}
Satisfies == {"done", "not_executed"}
Statuses == {"pending", "active", "blocked"} \cup Terminal

PlaybookTypeOK ==
    /\ playbook \in Playbooks
    /\ status \in [Steps -> Statuses]
    /\ routed \in [Steps -> (SUBSET Steps) \cup {NoRoute}]
    /\ attempts \in [Steps -> Nat] /\ executed \in [Steps -> Nat]
    /\ fruitless \in [Steps -> Nat]
    /\ unrun \subseteq Steps
    /\ owners \in [Tools -> Seq(Steps)]
    /\ calls \in Seq([tool : Tools, step : Steps \cup {Nobody}])
    /\ decided \in BOOLEAN
    /\ record \in [Steps -> [status : Statuses, calls : Nat, enabled : (SUBSET Steps) \cup {NoRoute}]]
    /\ started \in Nat /\ paused \in Nat /\ moved \in Nat

Lowest(S) == {s \in S : \A r \in S : s <= r}

-----------------------------------------------------------------------------
\* StepGraph.  _gate(): whether the branches that name a step let it run.
Routers(s) == {r \in Steps : s \in playbook.branches[r]}
Gate(s, rt) ==
    IF \/ Routers(s) = {}
       \/ \E r \in Routers(s) : rt[r] # NoRoute /\ s \in rt[r] THEN "open"
    ELSE IF \A r \in Routers(s) : rt[r] # NoRoute THEN "shut"
    ELSE "wait"

\* _readiness()
MutReady(s, st, rt) ==
    /\ Gate(s, rt) = "open"
    /\ \A d \in playbook.after[s] : st[d] \in Satisfies
Ready(s, st, rt) ==
    /\ Gate(s, rt) = "open"
    /\ \A d \in playbook.after[s] : st[d] \in Satisfies
    /\ playbook.joins[s] # 0 =>
          \A m \in Steps : playbook.group[m] = playbook.joins[s] => st[m] \in Terminal

\* advance(): first the steps that are routed out, and the ones after them.
Pending(st) == {s \in Steps : st[s] = "pending"}
MutWaived(st, rt) == {s \in Pending(st) : Gate(s, rt) = "shut"}
Waived(st, rt) ==
    LET out(W) == \A s \in Pending(st) :
                     \/ Gate(s, rt) = "shut"
                     \/ \E d \in playbook.after[s] : st[d] = "waived" \/ d \in W
                     => s \in W
    IN  {s \in Pending(st) : \A W \in SUBSET Pending(st) : out(W) => s \in W}

\* Then, when no step is active, the first that is ready and the ready ones of its group.
Activated(st, rt) ==
    LET ready == {s \in Pending(st) : Ready(s, st, rt)}
    IN  IF \E s \in Steps : st[s] \in {"active", "blocked"} THEN {}
        ELSE {s \in ready : \E first \in Lowest(ready) :
                 \/ s = first
                 \/ playbook.group[s] = playbook.group[first] /\ playbook.group[first] # 0}

Advanced(st, rt) ==
    LET out == Waived(st, rt)
        left == [s \in Steps |-> IF s \in out THEN "waived" ELSE st[s]]
        on == Activated(left, rt)
    IN  [s \in Steps |-> IF s \in on THEN "active" ELSE left[s]]

Active == {s \in Steps : status[s] \in {"active", "blocked"}}
Unresolved == {s \in Steps : status[s] \notin Terminal}

\* _step_event(): a record of each step whose status changes.  The record of a step that
\* closes as done has the targets it enabled.
MutRecorded(st, enabled) ==
    /\ status' = st
    /\ record' = [s \in Steps |->
                    IF st[s] \in {status[s], "waived"} THEN record[s]
                    ELSE [status |-> st[s], calls |-> executed[s],
                          enabled |-> IF s \in DOMAIN enabled THEN enabled[s] ELSE NoRoute]]
Recorded(st, enabled) ==
    /\ status' = st
    /\ record' = [s \in Steps |->
                    IF st[s] = status[s] THEN record[s]
                    ELSE [status |-> st[s], calls |-> executed[s],
                          enabled |-> IF s \in DOMAIN enabled THEN enabled[s] ELSE NoRoute]]

\* start()
Init ==
    /\ playbook \in Playbooks
    /\ routed = [s \in Steps |-> NoRoute]
    /\ status = Advanced([s \in Steps |-> "pending"], routed)
    /\ record = [s \in Steps |-> [status |-> status[s], calls |-> 0, enabled |-> NoRoute]]
    /\ attempts = [s \in Steps |-> 0] /\ executed = [s \in Steps |-> 0]
    /\ fruitless = [s \in Steps |-> 0]
    /\ unrun = {} /\ decided = FALSE
    /\ owners = [t \in Tools |-> << >>] /\ calls = << >>
    /\ started = 0 /\ paused = 0 /\ moved = 0

-----------------------------------------------------------------------------
\* _admit(), before a call: the first active step that allows the tool owns it.
Allowing(t) == {s \in Active : t \in playbook.uses[s] /\ s \notin playbook.tasks}
Owned(t, s) ==
    /\ ~decided /\ s \in Lowest(Allowing(t))
    /\ playbook.block => attempts[s] < playbook.most[s]
    /\ attempts' = [attempts EXCEPT ![s] = @ + 1]
    /\ owners' = [owners EXCEPT ![t] = Append(@, s)]

\* A call of nobody's is only recorded, unless the contract is enforced or all that is
\* active is done by people.
Unowned(t) ==
    /\ ~playbook.block
    /\ \/ decided
       \/ Allowing(t) = {} /\ (Active = {} \/ ~(Active \subseteq playbook.tasks))
    /\ UNCHANGED <<attempts, owners>>

Admit(t) == \E s \in Steps \cup {Nobody} :
    /\ started < MaxCalls
    /\ started' = started + 1
    /\ IF s = Nobody THEN Unowned(t) ELSE Owned(t, s)
    /\ calls' = Append(calls, [tool |-> t, step |-> s])
    /\ UNCHANGED <<playbook, status, routed, executed, fruitless, unrun, decided, record,
                   paused, moved>>

\* _credit(), after a call: to the step of the tool's oldest admission.
Credit(outcome) == LET t == Head(calls).tool IN
    /\ calls # << >>
    /\ calls' = Tail(calls)
    /\ IF owners[t] = << >> THEN UNCHANGED <<owners, executed, fruitless, unrun>>
       ELSE LET s == Head(owners[t])
            IN  /\ owners' = [owners EXCEPT ![t] = Tail(@)]
                /\ executed' = [executed EXCEPT ![s] = IF outcome = "ran" THEN @ + 1 ELSE @]
                /\ fruitless' = [fruitless EXCEPT ![s] = IF outcome = "ran" THEN @ ELSE @ + 1]
                /\ unrun' = IF outcome = "not run" THEN unrun \cup {s} ELSE unrun
    /\ UNCHANGED <<playbook, status, routed, attempts, decided, record, started, paused, moved>>

\* A call that a later hook cancelled, or that an earlier result answers: the hook that
\* credits it is not called.
Unfinished ==
    /\ calls # << >>
    /\ calls' = Tail(calls)
    /\ UNCHANGED <<playbook, status, routed, attempts, executed, fruitless, unrun, owners,
                   decided, record, started, paused, moved>>

\* pause(): the calls in progress are held, and their admissions released.
Admissions(s) ==
    {a \in Tools \X (1 .. started) : a[2] \in DOMAIN owners[a[1]] /\ owners[a[1]][a[2]] = s}
MutReleased ==
    /\ owners' = [t \in Tools |-> << >>]
    /\ UNCHANGED attempts
Released ==
    /\ attempts' = [s \in Steps |-> attempts[s] - Cardinality(Admissions(s))]
    /\ owners' = [t \in Tools |-> << >>]

Pause ==
    /\ Active # {} /\ paused < MaxPauses
    /\ paused' = paused + 1
    /\ Released
    /\ calls' = << >>
    /\ Recorded([s \in Steps |-> IF status[s] = "active" THEN "blocked" ELSE status[s]], << >>)
    /\ UNCHANGED <<playbook, routed, executed, fruitless, unrun, decided, started, moved>>
Unpause ==
    /\ \E s \in Steps : status[s] = "blocked"
    /\ Recorded([s \in Steps |-> IF status[s] = "blocked" THEN "active" ELSE status[s]], << >>)
    /\ UNCHANGED <<playbook, routed, attempts, executed, fruitless, unrun, owners, calls,
                   decided, started, paused, moved>>

-----------------------------------------------------------------------------
\* _after_close(): the branches taken, and the graph settled.
Closes(s, as) == \E taken \in SUBSET playbook.branches[s] :
    /\ routed' = IF playbook.branches[s] = {} THEN routed ELSE [routed EXCEPT ![s] = taken]
    /\ Recorded(Advanced([status EXCEPT ![s] = as], routed'),
                [r \in {s} \cap {q \in Steps : as = "done" /\ playbook.branches[q] # {}} |-> taken])
    /\ UNCHANGED <<playbook, attempts, executed, fruitless, unrun, owners, calls, decided,
                   started, paused, moved>>

\* complete_step(): a step whose tools ran nothing closes as that, one below its floor
\* stays open if the contract is enforced.  complete_task(): a person's step.
RanNothing(s) == executed[s] = 0 /\ s \in unrun
CompleteStep(s) ==
    /\ s \in Active \ playbook.tasks
    /\ \/ RanNothing(s) /\ Closes(s, "not_executed")
       \/ /\ ~RanNothing(s)
          /\ playbook.block => executed[s] >= playbook.least[s]
          /\ Closes(s, "done")
CompleteTask(s) == s \in Active \cap playbook.tasks /\ Closes(s, "done")

\* submit_decision(): it closes the steps that decide, and the rest is waived.
Converged ==
    IF playbook.deciders # {} THEN playbook.deciders \cap Active # {}
    ELSE \A s \in playbook.required : status[s] \in {"done", "waived"}
SubmitDecision(inconclusive) ==
    /\ ~decided
    /\ Converged \/ inconclusive \/ ~playbook.block
    /\ decided' = TRUE
    /\ Recorded([s \in Steps |-> IF s \notin Unresolved THEN status[s]
                                 ELSE IF s \in Active \cap playbook.deciders THEN "done"
                                 ELSE "waived"], << >>)
    /\ UNCHANGED <<playbook, routed, attempts, executed, fruitless, unrun, owners, calls,
                   started, paused, moved>>

\* restore(): a new runtime, from the last record of each step.
MutRestoredRoutes == [s \in Steps |->
    IF playbook.branches[s] = {} \/ record[s].status \notin Terminal THEN NoRoute
    ELSE {t \in playbook.branches[s] : record[t].status # "waived"}]
RestoredRoutes == [s \in Steps |->
    IF playbook.branches[s] = {} \/ record[s].status \notin Terminal THEN NoRoute
    ELSE IF record[s].enabled # NoRoute THEN record[s].enabled
    ELSE {t \in playbook.branches[s] : record[t].status # "waived"}]
Restore ==
    /\ moved < MaxMoves
    /\ moved' = moved + 1
    /\ status' = [s \in Steps |-> record[s].status]
    /\ routed' = RestoredRoutes
    /\ executed' = [s \in Steps |-> record[s].calls]
    /\ attempts' = executed' /\ fruitless' = [s \in Steps |-> 0]
    /\ unrun' = {} /\ decided' = FALSE
    /\ owners' = [t \in Tools |-> << >>] /\ calls' = << >>
    /\ UNCHANGED <<playbook, record, started, paused>>

Next ==
    \/ (\E t \in Tools : Admit(t))
    \/ (\E outcome \in {"ran", "not run", "failed"} : Credit(outcome))
    \/ Unfinished \/ Pause \/ Unpause
    \/ (\E s \in Steps : CompleteStep(s) \/ CompleteTask(s))
    \/ (\E inconclusive \in BOOLEAN : SubmitDecision(inconclusive))
    \/ Restore

Spec == Init /\ [][Next]_playbookVars

-----------------------------------------------------------------------------
\* A step that has begun waited for its turn: the steps it comes after have finished, a
\* branch took it if any names it, and the group it joins is over.  Nothing undoes that:
\* not the close of a later step, nor a decision, nor a move to another runtime.
StepsWaitForTheirTurn ==
    \A s \in Steps : status[s] \notin {"pending", "waived"} =>
        /\ \A d \in playbook.after[s] : status[d] \in Satisfies
        /\ Routers(s) # {} => \E r \in Routers(s) : routed[r] # NoRoute /\ s \in routed[r]
        /\ playbook.joins[s] # 0 =>
              {m \in Steps : playbook.group[m] = playbook.joins[s]} \cap Unresolved = {}

\* A definition in which the steps do not wait for one another in a circle, neither by
\* what they come after nor by the group they join, and the branches of a step lead to
\* steps that come after it.
Needs(p, s) ==
    p.after[s] \cup {m \in DOMAIN p.after : p.joins[s] # 0 /\ p.group[m] = p.joins[s]}
WellBuilt(p) ==
    /\ \A S \in SUBSET DOMAIN p.after : S # {} => \E s \in S : Needs(p, s) \cap S = {}
    /\ \A r, s \in DOMAIN p.after : s \in p.branches[r] => r \in p.after[s]

\* "The graph moves on rather than deadlocking the run": a step is open as long as one is
\* left, whatever was taken, waived or not executed.
NothingIsStuck == Unresolved # {} => Active # {}

\* A record says what a step that is done took, not what one that was not executed took,
\* nor that a waived one takes nothing.  A step that a waived one leads to, or one not
\* executed and others besides, may be open to the next runtime and not to this one.
Vague(s) == \E r \in Routers(s) :
    \/ status[r] = "waived"
    \/ status[r] = "not_executed" /\ Routers(s) # {r}

\* A runtime rebuilt from the records is where the one before it was: its steps have the
\* status they had, and a step that waits still waits for the same branches, whichever of
\* the steps those lead to have moved on.
TraceTellsWhereTheRunIs ==
    \A s \in Steps :
        /\ record[s].status = status[s]
        /\ status[s] = "pending" /\ ~Vague(s) => Gate(s, RestoredRoutes) = Gate(s, routed)

\* A call counts once against the ceiling of its step, not less and not twice: what is
\* counted are the calls that were credited, ran they or not, and the admissions still to
\* be credited.  A call that a pause held is one when it is admitted again.
CallsAreCountedOnce ==
    \A s \in Steps : attempts[s] = executed[s] + fruitless[s] + Cardinality(Admissions(s))

\* "Statuses a step does not leave", in this runtime or in the next.
ClosedStepsStayClosed ==
    [][\A s \in Steps : status[s] \in Terminal => status'[s] = status[s]]_playbookVars
=============================================================================
