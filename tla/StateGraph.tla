----------------------------- MODULE StateGraph -----------------------------
(***************************************************************************)
(* One thread of a StateGraph (tulip.multiagent.graph): calls of execute() *)
(* that start it or resume it, supersteps of nodes that run in parallel,   *)
(* pauses before and inside nodes, and a checkpoint that outlives the      *)
(* process.                                                                *)
(*                                                                         *)
(* The graph's state is the number of updates each node has merged into    *)
(* it.  What a router or a Command decides is any of the node's Routes,    *)
(* and an execution of a node, its attempts included, ends in any of its   *)
(* Ends.  An operator named Mut... is a wrong variant of the one after it. *)
(***************************************************************************)
EXTENDS Integers, Sequences, FiniteSets

CONSTANTS
    Nodes,
    End,            \* the virtual node END
    None,           \* no node
    Entry,          \* the successors of START, in the order of their edges
    Routes,         \* per node: the successors it may choose, as sequences
    Ends,           \* per node: how an execution of it may end
    Configs,        \* the GraphConfigs that calls pass
    MaxIterations,
    MaxCalls        \* bound: calls of execute() on the thread

Results == {"completed", "failed", "skipped", "interrupted"}
Config == [before: SUBSET Nodes, after: SUBSET Nodes, every_step: BOOLEAN]

\* START's edges name different nodes; two edges to one node would run it twice in
\* the first superstep, and only there.
ASSUME GraphAssumption ==
    /\ End \notin Nodes /\ None \notin Nodes /\ None # End
    /\ Entry \in Seq(Nodes)
    /\ \A i, j \in DOMAIN Entry : Entry[i] = Entry[j] => i = j
    /\ Routes \in [Nodes -> SUBSET Seq(Nodes \cup {End})]
    /\ Ends \in [Nodes -> SUBSET Results]
    /\ Configs \subseteq Config
    /\ MaxIterations \in Nat \ {0} /\ MaxCalls \in Nat

VARIABLES
    checkpoint, \* the thread's latest: graph_state and interrupted_node
    run,        \* the locals of the execute() in progress
    outcome,    \* how the last call ended, for its caller
    calls,      \* calls so far
    orderly,    \* history variable: the thread was started once and since then resumed
                \* only when paused
    torn,       \* history variable: a pause left other nodes of its superstep behind
    scheduled,  \* history variable, per node: supersteps it was put in
    ran,        \* history variable, per node: executions that ended, and not in a pause
    gated,      \* history variable, per node: executions while it was to be paused before
    passed      \* history variable, per node: calls that resumed the thread at it

tallies == <<scheduled, ran, gated, passed>>
graphVars == <<checkpoint, run, outcome, calls, orderly, torn, tallies>>

Never == [n \in Nodes |-> 0]
NodesIn(seq) == {seq[i] : i \in DOMAIN seq}
IsFirst(i, places) == i \in places /\ \A j \in places : i <= j
Stages == {"idle", "loop", "running", "settling"}

NoRun == [stage |-> "idle", cfg |-> [before |-> {}, after |-> {}, every_step |-> FALSE],
          nodes |-> << >>, resumed |-> None, state |-> Never, results |-> << >>,
          todo |-> {}, next |-> << >>, iterations |-> 0, failed |-> {}]

\* The places of a superstep's nodes: the first of each, and END runs nothing
\* (current_nodes is next_nodes without its duplicates).
MutPlaces(nodes) == {i \in DOMAIN nodes : nodes[i] # End}
Places(nodes) == {i \in DOMAIN nodes : nodes[i] # End /\ \A j \in 1 .. i - 1 : nodes[j] # nodes[i]}

\* What a node's results and successors are kept under stays within the superstep.
GraphTypeOK ==
    /\ checkpoint \in [state: [Nodes -> Nat], at: Nodes \cup {None}]
    /\ run.stage \in Stages /\ run.cfg \in Config
    /\ run.nodes \in Seq(Nodes \cup {End}) /\ run.next \in Seq(Nodes \cup {End})
    /\ run.resumed \in Nodes \cup {None}
    /\ run.state \in [Nodes -> Nat]
    /\ DOMAIN run.results \subseteq Places(run.nodes)
    /\ \A i \in DOMAIN run.results : run.results[i] \in Ends[run.nodes[i]]
    /\ run.todo \subseteq DOMAIN run.results
    /\ run.iterations \in 0 .. MaxIterations /\ run.failed \subseteq Nodes
    /\ outcome \in {"none", "paused", "done", "failed", "raised", "lost"}
    /\ calls \in 0 .. MaxCalls /\ orderly \in BOOLEAN /\ torn \in BOOLEAN
    /\ {scheduled, ran, gated, passed} \subseteq [Nodes -> Nat]

GraphInit ==
    /\ checkpoint = [state |-> Never, at |-> None]
    /\ run = NoRun
    /\ outcome = "none" /\ calls = 0 /\ orderly = TRUE /\ torn = FALSE
    /\ scheduled = Never /\ ran = Never /\ gated = Never /\ passed = Never

Counted(tally, nodes) == [n \in Nodes |-> IF n \in nodes THEN tally[n] + 1 ELSE tally[n]]

(***************************************************************************)
(* Calls                                                                   *)
(***************************************************************************)

\* From the beginning, or at the node the thread is paused at.
Start(cfg, state, at) ==
    /\ run.stage = "idle"
    /\ calls < MaxCalls
    /\ calls' = calls + 1
    /\ run' = [NoRun EXCEPT !.stage = "loop", !.cfg = cfg, !.state = state, !.resumed = at,
                            !.nodes = IF at = None THEN Entry ELSE <<at>>]
    /\ scheduled' = Counted(scheduled, IF at = None THEN NodesIn(Entry) ELSE {})
    /\ outcome' = "none"
    /\ UNCHANGED <<checkpoint, torn, ran, gated>>

\* execute() with inputs does not look at the checkpoint.
Execute(cfg) ==
    /\ Start(cfg, Never, None)
    /\ orderly' = (calls = 0)
    /\ UNCHANGED passed

\* execute() with Command(resume=...). A latest checkpoint that is not a pause, or
\* none at all, has no interrupted_node.
MutResume(cfg) ==
    /\ Start(cfg, Never, checkpoint.at)
    /\ orderly' = (orderly /\ outcome = "paused")
    /\ passed' = Counted(passed, {checkpoint.at})

MutResumeAfresh(cfg) ==
    /\ Start(cfg, checkpoint.state, None)
    /\ orderly' = (orderly /\ outcome = "paused")
    /\ passed' = Counted(passed, {checkpoint.at})

Resume(cfg) ==
    /\ Start(cfg, checkpoint.state, checkpoint.at)
    /\ orderly' = (orderly /\ outcome = "paused")
    /\ passed' = Counted(passed, {checkpoint.at})

Return(result) ==
    /\ run' = NoRun
    /\ outcome' = result
    /\ UNCHANGED calls

\* What a pause saves: the merged state and the one node to go on with.
PauseAt(n) ==
    /\ checkpoint' = [state |-> run.state, at |-> n]
    /\ Return("paused")
    /\ torn' = (torn \/ Cardinality(Places(run.nodes)) > 1)
    /\ UNCHANGED <<orderly, tallies>>

\* The process of a call dies.
Crash ==
    /\ run.stage # "idle"
    /\ Return("lost")
    /\ UNCHANGED <<checkpoint, orderly, torn, tallies>>

(***************************************************************************)
(* Supersteps                                                              *)
(***************************************************************************)

Verdict == IF run.failed = {} THEN "done" ELSE "failed"

LoopEnds ==
    /\ run.stage = "loop"
    /\ run.nodes = << >> \/ run.iterations = MaxIterations
    /\ Return(Verdict)
    /\ UNCHANGED <<checkpoint, orderly, torn, tallies>>

EntersSuperstep ==
    /\ run.stage = "loop"
    /\ run.nodes # << >> /\ run.iterations < MaxIterations

\* The nodes to pause before; the one the call resumed at passes in its first superstep.
Passing == IF run.iterations = 0 THEN {run.resumed} ELSE {}
MutAtGate == {i \in Places(run.nodes) : i = 1 /\ run.nodes[i] \in run.cfg.before \ Passing}
AtGate == {i \in Places(run.nodes) : run.nodes[i] \in run.cfg.before \ Passing}

PauseBefore ==
    /\ EntersSuperstep
    /\ \E i \in AtGate : IsFirst(i, AtGate) /\ PauseAt(run.nodes[i])

Proceed ==
    /\ EntersSuperstep
    /\ AtGate = {}
    /\ run' = [run EXCEPT !.stage = "running", !.iterations = @ + 1]
    /\ UNCHANGED <<checkpoint, outcome, calls, orderly, torn, tallies>>

\* A node's execution ends: every node of the superstep works on the state the
\* superstep began with, so their order does not matter.
RunNode(i) ==
    /\ run.stage = "running"
    /\ i \in Places(run.nodes) \ DOMAIN run.results
    /\ LET n == run.nodes[i]
       IN  \E result \in Ends[n] :
              /\ run' = [run EXCEPT
                    !.results = [j \in DOMAIN @ \cup {i} |-> IF j = i THEN result ELSE @[j]],
                    !.failed = IF result = "failed" THEN @ \cup {n} ELSE @ \ {n}]
              /\ ran' = Counted(ran, IF result = "interrupted" THEN {} ELSE {n})
              /\ gated' = Counted(gated, {n} \cap run.cfg.before)
    /\ UNCHANGED <<checkpoint, outcome, calls, orderly, torn, scheduled, passed>>

\* gather() returns, and the resume value is used up.
Gather ==
    /\ run.stage = "running"
    /\ DOMAIN run.results = Places(run.nodes)
    /\ run' = [run EXCEPT !.stage = "settling", !.resumed = None, !.todo = Places(run.nodes)]
    /\ UNCHANGED <<checkpoint, outcome, calls, orderly, torn, tallies>>

\* The result at place i is the next to settle, and it is one of kinds.
Settles(i, kinds) ==
    /\ run.stage = "settling"
    /\ IsFirst(i, run.todo)
    /\ run.results[i] \in kinds

SettleInterrupted ==
    \E i \in run.todo : Settles(i, {"interrupted"}) /\ PauseAt(run.nodes[i])

\* A node to pause after ends the call: the pause has no interrupt to show, and the
\* model of it rejects that.
GoesOn(i, state, next) ==
    /\ IF run.nodes[i] \in run.cfg.after THEN Return("raised")
       ELSE /\ run' = [run EXCEPT !.todo = @ \ {i}, !.state = state, !.next = next]
            /\ UNCHANGED <<outcome, calls>>
    /\ UNCHANGED <<checkpoint, orderly, torn, tallies>>

SettleCompleted ==
    \E i \in run.todo :
       /\ Settles(i, {"completed"})
       /\ \E route \in Routes[run.nodes[i]] :
             GoesOn(i, [run.state EXCEPT ![run.nodes[i]] = @ + 1], run.next \o route)

\* Neither has an update, nor successors.
MutSettleOther ==
    \E i \in run.todo : Settles(i, {"skipped"}) /\ GoesOn(i, run.state, run.next)

SettleOther ==
    \E i \in run.todo : Settles(i, {"failed", "skipped"}) /\ GoesOn(i, run.state, run.next)

Saved(saving) == IF saving THEN [state |-> run.state, at |-> None] ELSE checkpoint

\* The superstep is saved, and END among its nodes or successors ends the graph.
MutStep ==
    /\ run.stage = "settling" /\ run.todo = {}
    /\ IF End \in NodesIn(run.nodes) \cup NodesIn(run.next)
       THEN checkpoint' = Saved(run.cfg.every_step) /\ Return(Verdict) /\ UNCHANGED scheduled
       ELSE /\ run' = [run EXCEPT !.stage = "loop", !.nodes = run.next, !.next = << >>,
                                  !.results = << >>]
            /\ scheduled' = Counted(scheduled, IF run.iterations < MaxIterations
                                               THEN NodesIn(run.next) ELSE {})
            /\ UNCHANGED <<checkpoint, outcome, calls>>
    /\ UNCHANGED <<orderly, torn, ran, gated, passed>>

Step ==
    /\ run.stage = "settling" /\ run.todo = {}
    /\ checkpoint' = Saved(run.cfg.every_step)
    /\ IF End \in NodesIn(run.nodes) \cup NodesIn(run.next)
       THEN Return(Verdict) /\ UNCHANGED scheduled
       ELSE /\ run' = [run EXCEPT !.stage = "loop", !.nodes = run.next, !.next = << >>,
                                  !.results = << >>]
            /\ scheduled' = Counted(scheduled, IF run.iterations < MaxIterations
                                               THEN NodesIn(run.next) ELSE {})
            /\ UNCHANGED <<outcome, calls>>
    /\ UNCHANGED <<orderly, torn, ran, gated, passed>>

\* A call keeps going, and the executions it awaits end.
CallGoesOn ==
    \/ LoopEnds \/ PauseBefore \/ Proceed
    \/ \E i \in DOMAIN run.nodes : RunNode(i)
    \/ Gather \/ SettleInterrupted \/ SettleCompleted \/ SettleOther \/ Step

GraphNext ==
    \/ \E cfg \in Configs : Execute(cfg) \/ Resume(cfg)
    \/ CallGoesOn
    \/ Crash

GraphSpec == GraphInit /\ [][GraphNext]_graphVars

FairGraphSpec == GraphSpec /\ WF_graphVars(CallGoesOn)

(***************************************************************************)
(* Properties                                                              *)
(***************************************************************************)

\* Nobody gets past an interrupt_before without a resume at that node: a node to
\* pause before executes at most once for each call that resumed the thread there,
\* through loops, crashes and changes of the configuration.
GatesHold == \A n \in Nodes : gated[n] <= passed[n]

\* A node runs on a state that holds the result of a node which leads to it, also when
\* another process resumes the thread or starts it over from what a crash left.
RunsOnItsPredecessors ==
    \A n \in NodesIn(run.nodes) \ (NodesIn(Entry) \cup {End}) :
       \E p \in Nodes : run.state[p] > 0 /\ \E route \in Routes[p] : n \in NodesIn(route)

\* A thread that is only resumed when it is paused runs a node to its end at most
\* once each time the node is scheduled: pausing and resuming repeat nothing, and
\* branches that join in one superstep run their successor once.
PausesRepeatNothing == orderly => \A n \in Nodes : ran[n] <= scheduled[n]

\* Such a thread has run, when it is over, every node that was scheduled, as long as
\* whatever paused was alone in its superstep.
NothingSkipped ==
    orderly /\ outcome \in {"done", "failed"} => \A n \in Nodes : ran[n] >= scheduled[n]

LonePausesSkipNothing == ~torn => NothingSkipped

\* With a checkpoint after every step a crash loses no more than the superstep it hit.
CrashLosesOneSuperstep ==
    run.stage # "idle" /\ run.cfg.every_step =>
       \A n \in Nodes : run.state[n] > checkpoint.state[n] => n \in NodesIn(run.nodes)

\* Every call of execute() returns, loops in the graph or not, if its nodes do.
CallsReturn == run.stage # "idle" ~> run.stage = "idle"
=============================================================================
