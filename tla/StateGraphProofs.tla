-------------------------- MODULE StateGraphProofs --------------------------
(***************************************************************************)
(* Proofs about a graph's thread, for every graph, routing, configuration, *)
(* number of calls and of crashes.                                         *)
(***************************************************************************)
EXTENDS StateGraph, SequenceTheorems, FiniteSetTheorems, WellFoundedInduction, TLAPS

(***************************************************************************)
(* Types                                                                   *)
(***************************************************************************)

Successors == Seq(Nodes \cup {End})

\* The locals r of execute() are a record of these fields, and make sense together.
Locals(r) ==
    /\ r = [stage |-> r.stage, cfg |-> r.cfg, nodes |-> r.nodes, resumed |-> r.resumed,
            state |-> r.state, results |-> r.results, todo |-> r.todo, next |-> r.next,
            iterations |-> r.iterations, failed |-> r.failed]
    /\ r.stage \in Stages /\ r.cfg \in Config
    /\ r.nodes \in Successors /\ r.next \in Successors
    /\ r.resumed \in Nodes \cup {None}
    /\ r.state \in [Nodes -> Nat]
    /\ DOMAIN r.results \subseteq Places(r.nodes)
    /\ \A i \in DOMAIN r.results : r.results[i] \in Ends[r.nodes[i]]
    /\ r.todo \subseteq DOMAIN r.results
    /\ r.iterations \in 0 .. MaxIterations /\ r.failed \subseteq Nodes

Thread ==
    /\ checkpoint \in [state: [Nodes -> Nat], at: Nodes \cup {None}]
    /\ outcome \in {"none", "paused", "done", "failed", "raised", "lost"}
    /\ calls \in 0 .. MaxCalls /\ orderly \in BOOLEAN /\ torn \in BOOLEAN
    /\ scheduled \in [Nodes -> Nat] /\ ran \in [Nodes -> Nat]
    /\ gated \in [Nodes -> Nat] /\ passed \in [Nodes -> Nat]

Typed == Locals(run) /\ Thread

LEMMA TypedIsTyped == Typed => GraphTypeOK
  BY DEF Typed, Locals, Thread, GraphTypeOK, Successors

LEMMA CountedType ==
    ASSUME NEW tally \in [Nodes -> Nat], NEW nodes
    PROVE  /\ Counted(tally, nodes) \in [Nodes -> Nat]
           /\ \A n \in Nodes : Counted(tally, nodes)[n] = IF n \in nodes THEN tally[n] + 1 ELSE tally[n]
  BY DEF Counted

LEMMA PlacesHold ==
    ASSUME NEW nodes \in Successors, NEW i \in Places(nodes)
    PROVE  i \in DOMAIN nodes /\ nodes[i] \in Nodes
<1>1. i \in 1 .. Len(nodes) /\ nodes[i] # End
  BY LenProperties DEF Places, Successors
<1> QED
  BY <1>1, ElementOfSeq, LenProperties DEF Successors

\* A sequence of one node has one place.
LEMMA OnePlace ==
    ASSUME NEW n \in Nodes
    PROVE  <<n>> \in Successors /\ NodesIn(<<n>>) = {n} /\ \A i \in Places(<<n>>) : i = 1 /\ <<n>>[i] = n
<1>1. <<n>> \in Seq(Nodes \cup {End})
  <2>1. n \in Nodes \cup {End}
    OBVIOUS
  <2> QED
    BY <2>1
<1>2. DOMAIN <<n>> = {1} /\ <<n>>[1] = n
  OBVIOUS
<1> QED
  BY <1>1, <1>2 DEF Successors, NodesIn, Places

\* The locals of no call.
LEMMA NoLocals == Locals(NoRun) /\ NoRun.stage = "idle" /\ NoRun.nodes = << >>
<1>1. MaxIterations \in Nat
  BY GraphAssumption
<1>2. << >> \in Successors /\ DOMAIN << >> = {}
  BY EmptySeq DEF Successors
<1> QED
  BY <1>1, <1>2 DEF Locals, NoRun, Config, Stages, Never

\* A call begins with typed locals.
LEMMA StartLocals ==
    ASSUME Typed, NEW cfg \in Configs, NEW state \in [Nodes -> Nat],
           NEW at \in Nodes \cup {None}, Start(cfg, state, at)
    PROVE  /\ Locals(run')
           /\ run'.stage = "loop" /\ run'.cfg = cfg /\ run'.state = state /\ run'.resumed = at
           /\ run'.nodes = IF at = None THEN Entry ELSE <<at>>
           /\ run'.results = << >> /\ run'.next = << >> /\ run'.iterations = 0
<1>1. cfg \in Config /\ Entry \in Successors /\ MaxIterations \in Nat /\ Entry \in Seq(Nodes)
  <2>1. Entry \in Seq(Nodes)
    BY GraphAssumption
  <2>2. Entry \in Seq(Nodes \cup {End})
    BY <2>1, SeqMonotonic
  <2> QED
    BY <2>1, <2>2, GraphAssumption DEF Successors
<1> DEFINE nodes == IF at = None THEN Entry ELSE <<at>>
<1>2. nodes \in Successors
  BY <1>1, OnePlace
<1>3. << >> \in Successors /\ DOMAIN << >> = {}
  BY EmptySeq DEF Successors
<1>4. run' = [NoRun EXCEPT !.stage = "loop", !.cfg = cfg, !.state = state, !.resumed = at,
                           !.nodes = nodes]
  BY DEF Start
<1> HIDE DEF nodes
<1>5. /\ run'.stage = "loop" /\ run'.cfg = cfg /\ run'.state = state /\ run'.resumed = at
      /\ run'.nodes = nodes
      /\ run'.results = << >> /\ run'.next = << >> /\ run'.iterations = 0
      /\ run'.todo = {} /\ run'.failed = {}
      /\ run' = [stage |-> "loop", cfg |-> cfg, nodes |-> nodes, resumed |-> at,
            state |-> state, results |-> << >>, todo |-> {}, next |-> << >>,
            iterations |-> 0, failed |-> {}]
  BY <1>4 DEF NoRun
<1> DEFINE r == run'
<1>6. Locals(r)
  <2> HIDE DEF r
  <2>1. r.stage = "loop" /\ r.cfg = cfg /\ r.state = state /\ r.resumed = at /\ r.nodes = nodes
        /\ r.results = << >> /\ r.next = << >> /\ r.iterations = 0 /\ r.todo = {} /\ r.failed = {}
        /\ r = [stage |-> "loop", cfg |-> cfg, nodes |-> nodes, resumed |-> at,
            state |-> state, results |-> << >>, todo |-> {}, next |-> << >>,
            iterations |-> 0, failed |-> {}]
    BY <1>5 DEF r
  <2> QED
    BY <2>1, <1>1, <1>2, <1>3 DEF Locals, Stages
<1> QED
  BY <1>5, <1>6 DEF nodes

\* Entering a superstep.
LEMMA ProceedLocals ==
    ASSUME NEW r, Locals(r), r.iterations < MaxIterations, NEW s,
           s = [r EXCEPT !.stage = "running", !.iterations = @ + 1]
    PROVE  /\ Locals(s)
           /\ s.stage = "running" /\ s.iterations = r.iterations + 1
           /\ s.cfg = r.cfg /\ s.nodes = r.nodes /\ s.resumed = r.resumed /\ s.state = r.state
           /\ s.results = r.results /\ s.next = r.next
<1>1. MaxIterations \in Nat
  BY GraphAssumption
<1>2. r.iterations + 1 \in 0 .. MaxIterations
  BY <1>1 DEF Locals
<1> DEFINE k == r.iterations + 1
<1>3. s = [r EXCEPT !.stage = "running", !.iterations = k]
  OBVIOUS
<1> HIDE DEF k
<1> QED
  BY <1>2, <1>3 DEF Locals, Stages, k

\* An execution that ends.
LEMMA RunLocals ==
    ASSUME Typed, NEW i, RunNode(i)
    PROVE  /\ Locals(run')
           /\ i \in Places(run.nodes) \ DOMAIN run.results /\ run.nodes[i] \in Nodes
           /\ run'.stage = run.stage /\ run'.iterations = run.iterations
           /\ run'.cfg = run.cfg /\ run'.nodes = run.nodes /\ run'.resumed = run.resumed
           /\ run'.state = run.state /\ run'.next = run.next
           /\ \E result \in Ends[run.nodes[i]] :
                 /\ run'.results = [j \in DOMAIN run.results \cup {i} |->
                                       IF j = i THEN result ELSE run.results[j]]
                 /\ ran' = Counted(ran, IF result = "interrupted" THEN {} ELSE {run.nodes[i]})
           /\ gated' = Counted(gated, {run.nodes[i]} \cap run.cfg.before)
<1>1. PICK result \in Ends[run.nodes[i]] :
        /\ run' = [run EXCEPT
             !.results = [j \in DOMAIN @ \cup {i} |-> IF j = i THEN result ELSE @[j]],
             !.failed = IF result = "failed" THEN @ \cup {run.nodes[i]} ELSE @ \ {run.nodes[i]}]
        /\ ran' = Counted(ran, IF result = "interrupted" THEN {} ELSE {run.nodes[i]})
        /\ gated' = Counted(gated, {run.nodes[i]} \cap run.cfg.before)
  BY DEF RunNode
<1> DEFINE results == [j \in DOMAIN run.results \cup {i} |->
                         IF j = i THEN result ELSE run.results[j]]
           failed == IF result = "failed" THEN run.failed \cup {run.nodes[i]}
                     ELSE run.failed \ {run.nodes[i]}
<1>2. Locals(run) /\ i \in Places(run.nodes) \ DOMAIN run.results
  BY DEF Typed, RunNode
<1>3. run.nodes[i] \in Nodes
  BY <1>2, PlacesHold DEF Locals
<1>4. failed \subseteq Nodes
  BY <1>2, <1>3 DEF Locals
<1>5. DOMAIN results = DOMAIN run.results \cup {i}
      /\ \A j \in DOMAIN results : results[j] = IF j = i THEN result ELSE run.results[j]
  OBVIOUS
<1>6. run' = [run EXCEPT !.results = results, !.failed = failed]
  BY <1>1
<1> HIDE DEF results, failed
<1> DEFINE r == run
           s == run'
<1>7. Locals(r) /\ s = [r EXCEPT !.results = results, !.failed = failed]
  BY <1>2, <1>6
<1>8. r = run /\ s = run'
  OBVIOUS
<1> HIDE DEF r, s
<1>9. /\ s.stage = r.stage /\ s.iterations = r.iterations /\ s.todo = r.todo
      /\ s.cfg = r.cfg /\ s.nodes = r.nodes /\ s.resumed = r.resumed /\ s.state = r.state
      /\ s.next = r.next /\ s.results = results /\ s.failed = failed
      /\ s = [stage |-> s.stage, cfg |-> s.cfg, nodes |-> s.nodes, resumed |-> s.resumed,
            state |-> s.state, results |-> s.results, todo |-> s.todo, next |-> s.next,
            iterations |-> s.iterations, failed |-> s.failed]
  BY <1>7 DEF Locals
<1>10. \A j \in DOMAIN s.results : s.results[j] \in Ends[s.nodes[j]]
  BY <1>5, <1>7, <1>8, <1>9 DEF Locals
<1>11. DOMAIN s.results \subseteq Places(s.nodes) /\ s.todo \subseteq DOMAIN s.results
  BY <1>2, <1>5, <1>7, <1>8, <1>9 DEF Locals
<1>12. Locals(s)
  BY <1>4, <1>7, <1>9, <1>10, <1>11 DEF Locals
<1>13. run'.results = [j \in DOMAIN run.results \cup {i} |->
                        IF j = i THEN result ELSE run.results[j]]
  BY <1>8, <1>9 DEF results
<1> QED
  BY <1>1, <1>2, <1>3, <1>8, <1>9, <1>12, <1>13

\* The end of a superstep's executions.
LEMMA GatherLocals ==
    ASSUME NEW r, Locals(r), DOMAIN r.results = Places(r.nodes), NEW s,
           s = [r EXCEPT !.stage = "settling", !.resumed = None, !.todo = Places(r.nodes)]
    PROVE  /\ Locals(s)
           /\ s.stage = "settling" /\ s.resumed = None /\ s.todo = Places(r.nodes)
           /\ s.cfg = r.cfg /\ s.nodes = r.nodes /\ s.state = r.state
           /\ s.results = r.results /\ s.next = r.next /\ s.iterations = r.iterations
  BY DEF Locals, Stages

\* A result that settles.
LEMMA SettleLocals ==
    ASSUME NEW r, Locals(r), NEW i, NEW state \in [Nodes -> Nat], NEW next \in Successors, NEW s,
           s = [r EXCEPT !.todo = @ \ {i}, !.state = state, !.next = next]
    PROVE  /\ Locals(s)
           /\ s.todo = r.todo \ {i} /\ s.state = state /\ s.next = next
           /\ s.stage = r.stage /\ s.resumed = r.resumed /\ s.cfg = r.cfg /\ s.nodes = r.nodes
           /\ s.results = r.results /\ s.iterations = r.iterations
  BY DEF Locals

\* The end of a superstep.
LEMMA StepLocals ==
    ASSUME NEW r, Locals(r), r.todo = {}, NEW s,
           s = [r EXCEPT !.stage = "loop", !.nodes = r.next, !.next = << >>, !.results = << >>]
    PROVE  /\ Locals(s)
           /\ s.stage = "loop" /\ s.nodes = r.next /\ s.next = << >> /\ s.results = << >>
           /\ s.cfg = r.cfg /\ s.resumed = r.resumed /\ s.state = r.state
           /\ s.iterations = r.iterations
<1>1. << >> \in Successors /\ DOMAIN << >> = {}
  BY EmptySeq DEF Successors
<1> QED
  BY <1>1 DEF Locals, Stages

\* What a settled result is followed by, and adds.
LEMMA SettledType ==
    ASSUME Typed, NEW i \in run.todo, NEW route \in Routes[run.nodes[i]]
    PROVE  /\ run.nodes[i] \in Nodes /\ i \in Places(run.nodes)
           /\ route \in Successors
           /\ run.next \o route \in Successors
           /\ NodesIn(run.next \o route) = NodesIn(run.next) \cup NodesIn(route)
           /\ [run.state EXCEPT ![run.nodes[i]] = @ + 1] \in [Nodes -> Nat]
<1>1. run.nodes[i] \in Nodes /\ i \in Places(run.nodes)
  BY PlacesHold DEF Typed, Locals
<1>2. route \in Successors
  BY <1>1, GraphAssumption DEF Successors
<1>3. run.next \in Successors
  BY DEF Typed, Locals
<1>4. run.next \o route \in Successors
  BY <1>2, <1>3, ConcatProperties DEF Successors
<1>5. NodesIn(run.next \o route) = NodesIn(run.next) \cup NodesIn(route)
  <2> DEFINE both == run.next \o route
  <2>1. /\ DOMAIN run.next = 1 .. Len(run.next) /\ DOMAIN route = 1 .. Len(route)
        /\ DOMAIN both = 1 .. Len(both) /\ Len(both) = Len(run.next) + Len(route)
        /\ Len(run.next) \in Nat /\ Len(route) \in Nat
        /\ \A j \in 1 .. Len(run.next) + Len(route) :
              both[j] = IF j <= Len(run.next) THEN run.next[j] ELSE route[j - Len(run.next)]
    BY <1>2, <1>3, <1>4, ConcatProperties, LenProperties DEF Successors
  <2> HIDE DEF both
  <2> DEFINE m == Len(run.next)
             n == Len(route)
  <2>2. \A j \in DOMAIN run.next : j \in DOMAIN both /\ both[j] = run.next[j]
    BY <2>1
  <2>3. ASSUME NEW j \in DOMAIN route
        PROVE  \E k \in DOMAIN both : both[k] = route[j]
    <3>1. j \in Int /\ 1 <= j /\ j <= n
      BY <2>1
    <3>2. j + m \in 1 .. m + n /\ ~(j + m <= m) /\ (j + m) - m = j
      BY <2>1, <3>1
    <3>3. both[j + m] = route[(j + m) - m]
      BY <2>1, <3>2
    <3> QED
      BY <2>1, <3>2, <3>3
  <2>4. ASSUME NEW j \in DOMAIN both
        PROVE  both[j] \in NodesIn(run.next) \cup NodesIn(route)
    <3>1. j \in 1 .. m + n
      BY <2>1
    <3>2. CASE j <= m
      BY <2>1, <3>1, <3>2 DEF NodesIn
    <3>3. CASE ~(j <= m)
      <4>1. j - m \in 1 .. n /\ both[j] = route[j - m]
        BY <2>1, <3>1, <3>3
      <4> QED
        BY <2>1, <4>1 DEF NodesIn
    <3> QED
      BY <3>2, <3>3
  <2>5. NodesIn(both) = NodesIn(run.next) \cup NodesIn(route)
    BY <2>2, <2>3, <2>4 DEF NodesIn
  <2> QED
    BY <2>5 DEF both
<1> QED
  BY <1>1, <1>2, <1>4, <1>5 DEF Typed, Locals

\* What ends a call leaves the locals of none, and the thread as typed as what it saves.
LEMMA ReturnTyped ==
    ASSUME Typed, NEW result \in {"paused", "done", "failed", "raised", "lost"}, Return(result),
           checkpoint' \in [state: [Nodes -> Nat], at: Nodes \cup {None}],
           orderly' \in BOOLEAN, torn' \in BOOLEAN, UNCHANGED tallies
    PROVE  Typed'
<1>1. run' = NoRun /\ outcome' = result /\ calls' = calls
  BY DEF Return
<1>2. Locals(run')
  BY <1>1, NoLocals
<1>3. Thread'
  BY <1>1 DEF Typed, Thread, tallies
<1> QED
  BY <1>2, <1>3 DEF Typed

LEMMA VerdictType == Verdict \in {"done", "failed"}
  BY DEF Verdict

LEMMA PauseTyped ==
    ASSUME Typed, NEW i \in Places(run.nodes), PauseAt(run.nodes[i])
    PROVE  Typed'
<1>1. run.nodes[i] \in Nodes
  BY PlacesHold DEF Typed, Locals
<1>2. /\ Return("paused") /\ checkpoint' = [state |-> run.state, at |-> run.nodes[i]]
      /\ orderly' = orderly /\ torn' \in BOOLEAN /\ UNCHANGED tallies
  BY DEF PauseAt, Typed, Thread
<1>3. run.state \in [Nodes -> Nat] /\ orderly \in BOOLEAN
  BY DEF Typed, Locals, Thread
<1> QED
  BY <1>1, <1>2, <1>3, ReturnTyped

LEMMA StartTyped ==
    ASSUME Typed, NEW cfg \in Configs, NEW state \in [Nodes -> Nat],
           NEW at \in Nodes \cup {None}, Start(cfg, state, at),
           orderly' \in BOOLEAN, passed' \in [Nodes -> Nat]
    PROVE  Typed'
<1>1. Locals(run')
  BY StartLocals
<1>2. MaxCalls \in Nat
  BY GraphAssumption
<1>3. scheduled' \in [Nodes -> Nat]
  BY CountedType DEF Start, Typed, Thread
<1>4. Thread'
  BY <1>2, <1>3 DEF Start, Typed, Thread
<1> QED
  BY <1>1, <1>4 DEF Typed

LEMMA GoesOnTyped ==
    ASSUME Typed, NEW i \in run.todo, NEW state \in [Nodes -> Nat], NEW next \in Successors,
           GoesOn(i, state, next)
    PROVE  Typed'
<1>1. CASE Return("raised")
  BY <1>1, ReturnTyped DEF GoesOn, Typed, Thread
<1>2. CASE run' = [run EXCEPT !.todo = @ \ {i}, !.state = state, !.next = next]
           /\ UNCHANGED <<outcome, calls>>
  <2>1. Locals(run')
    BY <1>2, SettleLocals DEF Typed
  <2>2. Thread'
    BY <1>2 DEF GoesOn, Typed, Thread, tallies
  <2> QED
    BY <2>1, <2>2 DEF Typed
<1> QED
  BY <1>1, <1>2 DEF GoesOn

LEMMA TypedStep == Typed /\ [GraphNext]_graphVars => Typed'
<1> SUFFICES ASSUME Typed, [GraphNext]_graphVars PROVE Typed'
  OBVIOUS
<1>1. ASSUME NEW cfg \in Configs, Execute(cfg) PROVE Typed'
  <2>1. Never \in [Nodes -> Nat] /\ orderly' \in BOOLEAN /\ passed' = passed
    BY <1>1 DEF Execute, Never
  <2> QED
    BY <1>1, <2>1, StartTyped DEF Execute, Typed, Thread
<1>2. ASSUME NEW cfg \in Configs, Resume(cfg) PROVE Typed'
  <2>1. checkpoint.state \in [Nodes -> Nat] /\ checkpoint.at \in Nodes \cup {None}
        /\ orderly' \in BOOLEAN /\ passed' \in [Nodes -> Nat]
    BY <1>2, CountedType DEF Resume, Typed, Thread
  <2> QED
    BY <1>2, <2>1, StartTyped DEF Resume
<1>3. CASE LoopEnds
  BY <1>3, VerdictType, ReturnTyped DEF LoopEnds, Typed, Thread
<1>4. CASE PauseBefore
  <2>1. PICK i \in Places(run.nodes) : PauseAt(run.nodes[i])
    BY <1>4 DEF PauseBefore, AtGate
  <2> QED
    BY <2>1, PauseTyped
<1>5. CASE Proceed
  <2>1. Locals(run')
    BY <1>5, ProceedLocals DEF Proceed, EntersSuperstep, Typed
  <2> QED
    BY <1>5, <2>1 DEF Proceed, Typed, Thread, tallies
<1>6. ASSUME NEW i, RunNode(i) PROVE Typed'
  <2>1. PICK result \in Ends[run.nodes[i]] :
          ran' = Counted(ran, IF result = "interrupted" THEN {} ELSE {run.nodes[i]})
    BY <1>6, RunLocals
  <2>2. Locals(run') /\ gated' = Counted(gated, {run.nodes[i]} \cap run.cfg.before)
    BY <1>6, RunLocals
  <2>3. ran' \in [Nodes -> Nat] /\ gated' \in [Nodes -> Nat]
    BY <2>1, <2>2, CountedType DEF Typed, Thread
  <2> QED
    BY <1>6, <2>2, <2>3 DEF RunNode, Typed, Thread
<1>7. CASE Gather
  <2>1. Locals(run')
    BY <1>7, GatherLocals DEF Gather, Typed
  <2> QED
    BY <1>7, <2>1 DEF Gather, Typed, Thread, tallies
<1>8. CASE SettleInterrupted
  <2>1. PICK i \in Places(run.nodes) : PauseAt(run.nodes[i])
    BY <1>8 DEF SettleInterrupted, Typed, Locals
  <2> QED
    BY <2>1, PauseTyped
<1>9. CASE SettleCompleted
  <2>1. PICK i \in run.todo : \E route \in Routes[run.nodes[i]] :
           GoesOn(i, [run.state EXCEPT ![run.nodes[i]] = @ + 1], run.next \o route)
    BY <1>9 DEF SettleCompleted
  <2>2. PICK route \in Routes[run.nodes[i]] :
           GoesOn(i, [run.state EXCEPT ![run.nodes[i]] = @ + 1], run.next \o route)
    BY <2>1
  <2> QED
    BY <2>2, SettledType, GoesOnTyped
<1>10. CASE SettleOther
  BY <1>10, GoesOnTyped DEF SettleOther, Typed, Locals
<1>11. CASE Step
  <2>1. checkpoint' \in [state: [Nodes -> Nat], at: Nodes \cup {None}]
    BY <1>11 DEF Step, Saved, Typed, Locals, Thread
  <2>2. CASE End \in NodesIn(run.nodes) \cup NodesIn(run.next)
    BY <1>11, <2>1, <2>2, VerdictType, ReturnTyped DEF Step, Typed, Thread, tallies
  <2>3. CASE ~(End \in NodesIn(run.nodes) \cup NodesIn(run.next))
    <3>1. Locals(run')
      BY <1>11, <2>3, StepLocals DEF Step, Typed
    <3>2. scheduled' \in [Nodes -> Nat]
      BY <1>11, <2>3, CountedType DEF Step, Typed, Thread
    <3> QED
      BY <1>11, <2>1, <2>3, <3>1, <3>2 DEF Step, Typed, Thread
  <2> QED
    BY <2>2, <2>3
<1>12. CASE Crash
  BY <1>12, ReturnTyped DEF Crash, Typed, Thread
<1>13. CASE UNCHANGED graphVars
  BY <1>13 DEF graphVars, tallies, Typed, Thread
<1> QED
  BY <1>1, <1>2, <1>3, <1>4, <1>5, <1>6, <1>7, <1>8, <1>9, <1>10, <1>11, <1>12, <1>13
  DEF GraphNext, CallGoesOn

LEMMA TypedStart == GraphInit => Typed
<1> SUFFICES ASSUME GraphInit PROVE Typed
  OBVIOUS
<1>1. MaxCalls \in Nat
  BY GraphAssumption
<1>2. run = NoRun
  BY DEF GraphInit
<1>3. Locals(run)
  BY <1>2, NoLocals, Zenon
<1>4. Thread
  <2>1. Never \in [Nodes -> Nat]
    BY DEF Never
  <2>2. checkpoint \in [state: [Nodes -> Nat], at: Nodes \cup {None}]
    BY <2>1 DEF GraphInit
  <2>3. orderly \in BOOLEAN /\ torn \in BOOLEAN
    BY Zenon DEF GraphInit
  <2>4. calls \in 0 .. MaxCalls /\ outcome = "none"
    BY <1>1 DEF GraphInit
  <2>5. scheduled \in [Nodes -> Nat] /\ ran \in [Nodes -> Nat]
        /\ gated \in [Nodes -> Nat] /\ passed \in [Nodes -> Nat]
    BY <2>1 DEF GraphInit
  <2> QED
    BY <2>2, <2>3, <2>4, <2>5, Zenon DEF Thread
<1> QED
  BY <1>3, <1>4 DEF Typed

\* Types, and the bounds on the locals, hold throughout.
THEOREM GraphTypeCorrect == GraphSpec => []GraphTypeOK
  BY TypedStart, TypedStep, TypedIsTyped, PTL DEF GraphSpec

(***************************************************************************)
(* Gates                                                                   *)
(***************************************************************************)

\* A call passes one gate, the one it was resumed at, with the credit of its resume,
\* until the executions of its first superstep are over.
OneGate ==
    /\ run.stage = "loop" /\ run.resumed # None => gated[run.resumed] < passed[run.resumed]
    /\ run.stage = "running" =>
          \A i \in Places(run.nodes) : run.nodes[i] \in run.cfg.before =>
             /\ run.nodes[i] = run.resumed
             /\ i \notin DOMAIN run.results => gated[run.nodes[i]] < passed[run.nodes[i]]
    /\ run.stage = "settling" => run.resumed = None

Gates == Typed /\ GatesHold /\ OneGate

LEMMA PlacesDiffer ==
    ASSUME NEW nodes \in Successors, NEW i \in Places(nodes), NEW j \in Places(nodes),
           nodes[i] = nodes[j]
    PROVE  i = j
<1>1. i \in 1 .. Len(nodes) /\ j \in 1 .. Len(nodes) /\ Len(nodes) \in Nat
  BY LenProperties DEF Places, Successors
<1>2. ~(i < j) /\ ~(j < i)
  BY <1>1 DEF Places
<1> QED
  BY <1>1, <1>2

\* A call that starts or resumes the thread.
LEMMA StartGates ==
    ASSUME Gates, NEW cfg \in Configs, NEW state \in [Nodes -> Nat],
           NEW at \in Nodes \cup {None}, Start(cfg, state, at), passed' = Counted(passed, {at})
    PROVE  GatesHold' /\ OneGate'
<1>1. run'.stage = "loop" /\ run'.resumed = at /\ gated' = gated
  BY StartLocals DEF Gates, Start
<1>2. /\ gated \in [Nodes -> Nat] /\ passed \in [Nodes -> Nat]
      /\ \A n \in Nodes : gated[n] <= passed[n]
  BY DEF Gates, GatesHold, Typed, Thread
<1>3. \A n \in Nodes : passed'[n] = IF n \in {at} THEN passed[n] + 1 ELSE passed[n]
  BY <1>2, CountedType
<1>4. GatesHold'
  BY <1>1, <1>2, <1>3 DEF GatesHold
<1>5. ASSUME at # None PROVE gated'[at] < passed'[at]
  <2>1. /\ at \in Nodes /\ passed'[at] = passed[at] + 1 /\ gated'[at] = gated[at]
        /\ gated[at] \in Nat /\ passed[at] \in Nat /\ gated[at] <= passed[at]
    BY <1>1, <1>2, <1>3, <1>5
  <2> QED
    BY <2>1
<1> QED
  BY <1>1, <1>4, <1>5 DEF OneGate

\* An execution uses the credit of the call's resume.
LEMMA RunGates ==
    ASSUME Gates, NEW i, RunNode(i)
    PROVE  GatesHold' /\ OneGate'
<1> DEFINE n == run.nodes[i]
<1>1. /\ i \in Places(run.nodes) \ DOMAIN run.results /\ n \in Nodes
      /\ run.stage = "running" /\ run'.stage = run.stage
      /\ run'.cfg = run.cfg /\ run'.nodes = run.nodes /\ run'.resumed = run.resumed
      /\ gated' = Counted(gated, {n} \cap run.cfg.before) /\ passed' = passed
  BY RunLocals DEF Gates, RunNode
<1>2. DOMAIN run'.results = DOMAIN run.results \cup {i}
  <2>0. Typed
    BY DEF Gates
  <2>1. PICK result \in Ends[run.nodes[i]] :
          /\ run'.results = [j \in DOMAIN run.results \cup {i} |->
                            IF j = i THEN result ELSE run.results[j]]
          /\ ran' = Counted(ran, IF result = "interrupted" THEN {} ELSE {run.nodes[i]})
    BY <2>0, RunLocals, Zenon
  <2> QED
    BY <2>1
<1>3. /\ gated \in [Nodes -> Nat] /\ passed \in [Nodes -> Nat]
      /\ \A m \in Nodes : gated[m] <= passed[m]
  BY DEF Gates, GatesHold, Typed, Thread
<1>4. \A m \in Nodes : gated'[m] = IF m \in {n} \cap run.cfg.before THEN gated[m] + 1 ELSE gated[m]
  BY <1>1, <1>3, CountedType
<1>5. n \in run.cfg.before => gated[n] < passed[n]
  BY <1>1 DEF Gates, OneGate
<1> HIDE DEF n
<1>6. GatesHold'
  BY SMTT(20), <1>1, <1>3, <1>4, <1>5 DEF GatesHold
<1>7. ASSUME NEW j \in Places(run.nodes), run.nodes[j] \in run.cfg.before
      PROVE  /\ run.nodes[j] = run.resumed
             /\ j \notin DOMAIN run.results \cup {i} => gated'[run.nodes[j]] < passed[run.nodes[j]]
  <2>1. /\ run.nodes[j] = run.resumed
        /\ j \notin DOMAIN run.results => gated[run.nodes[j]] < passed[run.nodes[j]]
    BY <1>1, <1>7 DEF Gates, OneGate
  <2>2. run.nodes \in Successors
    BY DEF Gates, Typed, Locals
  <2>3. run.nodes[j] \in Nodes /\ (j # i => run.nodes[j] # n)
    BY <1>1, <2>2, PlacesHold, PlacesDiffer DEF n
  <2> QED
    BY <1>4, <2>1, <2>3
<1> QED
  BY <1>1, <1>2, <1>6, <1>7 DEF OneGate

LEMMA GatesStep == Gates /\ [GraphNext]_graphVars => Gates'
<1> SUFFICES ASSUME Gates, [GraphNext]_graphVars PROVE GatesHold' /\ OneGate'
  BY TypedStep DEF Gates
<1>0. Typed /\ Locals(run) /\ GatesHold /\ OneGate
  BY DEF Gates, Typed
<1>1. ASSUME NEW cfg \in Configs, Execute(cfg) PROVE GatesHold' /\ OneGate'
  <2>1. Never \in [Nodes -> Nat] /\ passed \in [Nodes -> Nat] /\ None \notin Nodes
    BY <1>0, GraphAssumption DEF Never, Typed, Thread
  <2>2. passed = Counted(passed, {None})
    BY <2>1 DEF Counted
  <2> QED
    BY <1>1, <2>1, <2>2, StartGates DEF Execute
<1>2. ASSUME NEW cfg \in Configs, Resume(cfg) PROVE GatesHold' /\ OneGate'
  <2>1. checkpoint.state \in [Nodes -> Nat] /\ checkpoint.at \in Nodes \cup {None}
    BY <1>0 DEF Typed, Thread
  <2> QED
    BY <1>2, <2>1, StartGates DEF Resume
<1>3. ASSUME NEW result, Return(result), UNCHANGED <<gated, passed>> PROVE GatesHold' /\ OneGate'
  <2>1. run'.stage = "idle"
    BY <1>3, NoLocals DEF Return
  <2> QED
    BY <1>0, <1>3, <2>1 DEF GatesHold, OneGate
<1>4. CASE Proceed
  <2>1. /\ run'.stage = "running" /\ run'.cfg = run.cfg /\ run'.nodes = run.nodes
        /\ run'.resumed = run.resumed /\ run.stage = "loop" /\ AtGate = {}
        /\ gated' = gated /\ passed' = passed
    BY <1>0, <1>4, ProceedLocals DEF Proceed, EntersSuperstep, tallies
  <2>2. ASSUME NEW i \in Places(run.nodes), run.nodes[i] \in run.cfg.before
        PROVE  run.nodes[i] = run.resumed /\ gated[run.nodes[i]] < passed[run.nodes[i]]
    <3>1. run.nodes[i] \in Passing
      BY <2>1, <2>2 DEF AtGate
    <3>2. run.nodes[i] = run.resumed
      BY <3>1 DEF Passing
    <3>3. run.nodes[i] \in Nodes /\ None \notin Nodes
      BY <1>0, PlacesHold, GraphAssumption DEF Locals
    <3> QED
      BY <1>0, <2>1, <3>2, <3>3 DEF OneGate
  <2> QED
    BY <1>0, <2>1, <2>2 DEF GatesHold, OneGate
<1>5. ASSUME NEW i, RunNode(i) PROVE GatesHold' /\ OneGate'
  BY <1>5, RunGates
<1>6. CASE Gather
  <2>1. run'.stage = "settling" /\ run'.resumed = None /\ gated' = gated /\ passed' = passed
    BY <1>0, <1>6, GatherLocals DEF Gather, tallies
  <2> QED
    BY <1>0, <2>1 DEF GatesHold, OneGate
<1>7. ASSUME NEW i, NEW state, NEW next, run.stage = "settling", GoesOn(i, state, next)
      PROVE  GatesHold' /\ OneGate'
  <2>1. CASE Return("raised")
    BY <1>3, <1>7, <2>1 DEF GoesOn, tallies
  <2>2. CASE run' = [run EXCEPT !.todo = @ \ {i}, !.state = state, !.next = next]
    <3>1. run'.stage = run.stage /\ run'.resumed = run.resumed
      BY <1>0, <2>2 DEF Locals
    <3> QED
      BY <1>0, <1>7, <3>1 DEF GoesOn, tallies, GatesHold, OneGate
  <2> QED
    BY <1>7, <2>1, <2>2 DEF GoesOn
<1>8. CASE Step
  <2>1. CASE End \in NodesIn(run.nodes) \cup NodesIn(run.next)
    BY <1>3, <1>8, <2>1 DEF Step
  <2>2. CASE ~(End \in NodesIn(run.nodes) \cup NodesIn(run.next))
    <3>1. /\ run'.stage = "loop" /\ run'.resumed = run.resumed /\ run.stage = "settling"
          /\ gated' = gated /\ passed' = passed
      BY <1>0, <1>8, <2>2, StepLocals DEF Step
    <3> QED
      BY <1>0, <3>1 DEF GatesHold, OneGate
  <2> QED
    BY <2>1, <2>2
<1>9. CASE UNCHANGED graphVars
  BY <1>0, <1>9 DEF graphVars, tallies, GatesHold, OneGate
<1>10. CASE LoopEnds
  BY <1>3, <1>10 DEF LoopEnds, tallies
<1>11. CASE PauseBefore
  BY <1>3, <1>11 DEF PauseBefore, PauseAt, tallies
<1>12. CASE SettleInterrupted
  BY <1>3, <1>12 DEF SettleInterrupted, PauseAt, tallies
<1>13. CASE SettleCompleted
  BY <1>7, <1>13 DEF SettleCompleted, Settles
<1>14. CASE SettleOther
  BY <1>7, <1>14 DEF SettleOther, Settles
<1>15. CASE Crash
  BY <1>3, <1>15 DEF Crash, tallies
<1> QED
  BY <1>1, <1>2, <1>4, <1>5, <1>6, <1>8, <1>9, <1>10, <1>11, <1>12, <1>13, <1>14, <1>15
  DEF GraphNext, CallGoesOn

LEMMA GatesStart == GraphInit => Gates
<1> SUFFICES ASSUME GraphInit PROVE Gates
  OBVIOUS
<1>1. run.stage = "idle"
  BY NoLocals DEF GraphInit
<1>2. GatesHold
  BY DEF GraphInit, GatesHold, Never
<1> QED
  BY <1>1, <1>2, TypedStart DEF Gates, OneGate

\* Nobody gets past an interrupt_before without a resume at that node.
THEOREM GatesAlwaysHold == GraphSpec => []GatesHold
<1>1. Gates => GatesHold
  BY DEF Gates
<1> QED
  BY <1>1, GatesStart, GatesStep, PTL DEF GraphSpec

(***************************************************************************)
(* What a node runs on                                                     *)
(***************************************************************************)

\* The state holds the result of a node that leads to n.
Fed(n, state) ==
    \/ n \in NodesIn(Entry) \cup {End}
    \/ \E p \in Nodes : state[p] > 0 /\ \E route \in Routes[p] : n \in NodesIn(route)

\* So it is with the nodes of the superstep, those that follow, and the node of a pause.
FedNodes ==
    /\ \A n \in NodesIn(run.nodes) \cup NodesIn(run.next) : Fed(n, run.state)
    /\ checkpoint.at # None => Fed(checkpoint.at, checkpoint.state)

FedThread == Typed /\ FedNodes

LEMMA EmptyNodes == NodesIn(<< >>) = {} /\ NodesIn(NoRun.nodes) = {} /\ NodesIn(NoRun.next) = {}
<1>1. DOMAIN << >> = {}
  OBVIOUS
<1> QED
  BY <1>1 DEF NodesIn, NoRun

\* A call that starts or resumes the thread.
LEMMA StartFed ==
    ASSUME FedThread, NEW cfg \in Configs, NEW state \in [Nodes -> Nat],
           NEW at \in Nodes \cup {None}, Start(cfg, state, at), at # None => Fed(at, state)
    PROVE  FedNodes'
<1>1. /\ run'.nodes = IF at = None THEN Entry ELSE <<at>>
      /\ run'.next = << >> /\ run'.state = state /\ checkpoint' = checkpoint
  BY StartLocals DEF FedThread, Start
<1>2. NodesIn(run'.next) = {}
  BY <1>1, EmptyNodes
<1>3. ASSUME NEW n \in NodesIn(run'.nodes) PROVE Fed(n, state)
  <2>1. CASE at = None
    BY <1>1, <1>3, <2>1 DEF Fed
  <2>2. CASE at # None
    <3>1. NodesIn(<<at>>) = {at}
      BY <2>2, OnePlace
    <3> QED
      BY <1>1, <1>3, <2>2, <3>1
  <2> QED
    BY <2>1, <2>2
<1> QED
  BY <1>1, <1>2, <1>3 DEF FedThread, FedNodes

\* A result that is merged feeds the successors its node chose.
LEMMA MergeFed ==
    ASSUME FedThread, NEW i \in run.todo, NEW route \in Routes[run.nodes[i]],
           run' = [run EXCEPT !.todo = @ \ {i},
                              !.state = [run.state EXCEPT ![run.nodes[i]] = @ + 1],
                              !.next = run.next \o route],
           checkpoint' = checkpoint
    PROVE  FedNodes'
<1> DEFINE m == run.nodes[i]
           state == [run.state EXCEPT ![m] = @ + 1]
           next == run.next \o route
<1>1. /\ m \in Nodes /\ next \in Successors /\ state \in [Nodes -> Nat]
      /\ NodesIn(next) = NodesIn(run.next) \cup NodesIn(route)
  BY SettledType DEF FedThread
<1>2. run.state \in [Nodes -> Nat] /\ Locals(run)
  BY DEF FedThread, Typed, Locals
<1>3. run' = [run EXCEPT !.todo = @ \ {i}, !.state = state, !.next = next]
  OBVIOUS
<1>4. \A n \in Nodes : run.state[n] \in Nat /\ state[n] = IF n = m THEN run.state[n] + 1 ELSE run.state[n]
  BY <1>1, <1>2
<1> HIDE DEF state, next
<1>5. run'.state = state /\ run'.next = next /\ run'.nodes = run.nodes
  BY <1>2, <1>3 DEF Locals
<1>6. \A n \in Nodes : run.state[n] > 0 => state[n] > 0
  BY <1>4
<1>7. state[m] > 0
  BY <1>1, <1>4
<1>8. \A n : Fed(n, run.state) => Fed(n, state)
  BY <1>6 DEF Fed
<1>9. \A n \in NodesIn(route) : Fed(n, state)
  BY <1>1, <1>7 DEF Fed
<1> QED
  BY <1>1, <1>5, <1>8, <1>9 DEF FedThread, FedNodes

LEMMA FedStep == FedThread /\ [GraphNext]_graphVars => FedThread'
<1> SUFFICES ASSUME FedThread, [GraphNext]_graphVars PROVE FedNodes'
  BY TypedStep DEF FedThread
<1>0. Typed /\ Locals(run) /\ FedNodes
  BY DEF FedThread, Typed
<1>1. ASSUME NEW cfg \in Configs, Execute(cfg) PROVE FedNodes'
  <2>1. Never \in [Nodes -> Nat]
    BY DEF Never
  <2> QED
    BY <1>1, <2>1, StartFed DEF Execute
<1>2. ASSUME NEW cfg \in Configs, Resume(cfg) PROVE FedNodes'
  <2>1. checkpoint.state \in [Nodes -> Nat] /\ checkpoint.at \in Nodes \cup {None}
    BY <1>0 DEF Typed, Thread
  <2> QED
    BY <1>0, <1>2, <2>1, StartFed DEF Resume, FedNodes
<1>3. ASSUME NEW result, Return(result),
             checkpoint'.at # None => Fed(checkpoint'.at, checkpoint'.state)
      PROVE  FedNodes'
  BY <1>3, EmptyNodes DEF Return, FedNodes
<1>4. ASSUME NEW i \in Places(run.nodes), PauseAt(run.nodes[i]) PROVE FedNodes'
  <2>1. checkpoint'.at = run.nodes[i] /\ checkpoint'.state = run.state
    BY <1>4 DEF PauseAt
  <2>2. Fed(run.nodes[i], run.state)
    BY <1>0 DEF FedNodes, NodesIn, Places
  <2> QED
    BY <1>3, <1>4, <2>1, <2>2 DEF PauseAt
<1>5. ASSUME run'.nodes = run.nodes, run'.next = run.next, run'.state = run.state,
             checkpoint' = checkpoint
      PROVE  FedNodes'
  BY <1>0, <1>5 DEF FedNodes
<1>6. CASE LoopEnds
  BY <1>0, <1>3, <1>6 DEF LoopEnds, FedNodes
<1>7. CASE PauseBefore
  BY <1>4, <1>7 DEF PauseBefore, AtGate
<1>8. CASE Proceed
  BY <1>0, <1>5, <1>8, ProceedLocals DEF Proceed, EntersSuperstep
<1>9. ASSUME NEW i, RunNode(i) PROVE FedNodes'
  BY <1>0, <1>5, <1>9, RunLocals DEF RunNode
<1>10. CASE Gather
  BY <1>0, <1>5, <1>10, GatherLocals DEF Gather
<1>11. CASE SettleInterrupted
  BY <1>0, <1>4, <1>11 DEF SettleInterrupted, Locals
<1>12. CASE SettleCompleted
  <2>1. PICK i \in run.todo : \E route \in Routes[run.nodes[i]] :
           GoesOn(i, [run.state EXCEPT ![run.nodes[i]] = @ + 1], run.next \o route)
    BY <1>12 DEF SettleCompleted
  <2>2. PICK route \in Routes[run.nodes[i]] :
           GoesOn(i, [run.state EXCEPT ![run.nodes[i]] = @ + 1], run.next \o route)
    BY <2>1
  <2>3. CASE Return("raised")
    BY <1>0, <1>3, <2>2, <2>3 DEF GoesOn, FedNodes
  <2>4. CASE run' = [run EXCEPT !.todo = @ \ {i},
                                !.state = [run.state EXCEPT ![run.nodes[i]] = @ + 1],
                                !.next = run.next \o route]
    BY <2>2, <2>4, MergeFed DEF GoesOn
  <2> QED
    BY <2>2, <2>3, <2>4 DEF GoesOn
<1>13. CASE SettleOther
  <2>1. PICK i \in run.todo : GoesOn(i, run.state, run.next)
    BY <1>13 DEF SettleOther
  <2>2. CASE Return("raised")
    BY <1>0, <1>3, <2>1, <2>2 DEF GoesOn, FedNodes
  <2>3. CASE run' = [run EXCEPT !.todo = @ \ {i}, !.state = run.state, !.next = run.next]
    <3>1. run'.nodes = run.nodes /\ run'.next = run.next /\ run'.state = run.state
      BY <1>0, <2>3 DEF Locals
    <3> QED
      BY <1>5, <2>1, <3>1 DEF GoesOn
  <2> QED
    BY <2>1, <2>2, <2>3 DEF GoesOn
<1>14. CASE Step
  <2>1. checkpoint'.at # None => Fed(checkpoint'.at, checkpoint'.state)
    BY <1>0, <1>14 DEF Step, Saved, FedNodes
  <2>2. CASE End \in NodesIn(run.nodes) \cup NodesIn(run.next)
    BY <1>3, <1>14, <2>1, <2>2 DEF Step
  <2>3. CASE ~(End \in NodesIn(run.nodes) \cup NodesIn(run.next))
    <3>1. run'.nodes = run.next /\ run'.next = << >> /\ run'.state = run.state
      BY ZenonT(60), <1>0, <1>14, <2>3, StepLocals DEF Step
    <3> QED
      BY <1>0, <2>1, <3>1, EmptyNodes DEF FedNodes
  <2> QED
    BY <2>2, <2>3
<1>15. CASE Crash
  BY <1>0, <1>3, <1>15 DEF Crash, FedNodes
<1>16. CASE UNCHANGED graphVars
  BY <1>5, <1>16 DEF graphVars
<1> QED
  BY <1>1, <1>2, <1>6, <1>7, <1>8, <1>9, <1>10, <1>11, <1>12, <1>13, <1>14, <1>15, <1>16
  DEF GraphNext, CallGoesOn

LEMMA FedStart == GraphInit => FedThread
<1> SUFFICES ASSUME GraphInit PROVE FedNodes
  BY TypedStart DEF FedThread
<1> QED
  BY EmptyNodes DEF GraphInit, FedNodes

\* A node runs on a state that holds the result of a node which leads to it.
THEOREM AlwaysRunsOnItsPredecessors == GraphSpec => []RunsOnItsPredecessors
<1>1. FedThread => RunsOnItsPredecessors
  BY DEF FedThread, FedNodes, Fed, RunsOnItsPredecessors
<1> QED
  BY <1>1, FedStart, FedStep, PTL DEF GraphSpec

(***************************************************************************)
(* What a crash loses                                                      *)
(***************************************************************************)

\* Between supersteps everything merged is saved, and within one what is not comes
\* from its nodes.
SavedSteps ==
    run.cfg.every_step =>
       /\ run.stage \in {"loop", "running"} =>
             \A n \in Nodes : run.state[n] <= checkpoint.state[n]
       /\ run.stage = "settling" =>
             \A n \in Nodes : run.state[n] > checkpoint.state[n] => n \in NodesIn(run.nodes)

SavedThread == Typed /\ SavedSteps

LEMMA SavedStep == SavedThread /\ [GraphNext]_graphVars => SavedThread'
<1> SUFFICES ASSUME SavedThread, [GraphNext]_graphVars PROVE SavedSteps'
  BY TypedStep DEF SavedThread
<1>0. /\ Typed /\ Locals(run) /\ SavedSteps
      /\ checkpoint.state \in [Nodes -> Nat] /\ run.state \in [Nodes -> Nat]
  BY DEF SavedThread, Typed, Thread, Locals
<1>1. ASSUME NEW cfg \in Configs, Execute(cfg) PROVE SavedSteps'
  <2>1. Never \in [Nodes -> Nat] /\ None \in Nodes \cup {None}
    BY DEF Never
  <2>2. run'.state = Never /\ run'.stage = "loop" /\ checkpoint' = checkpoint
    BY <1>0, <1>1, <2>1, StartLocals DEF Execute, Start
  <2> QED
    BY <1>0, <2>2 DEF SavedSteps, Never
<1>2. ASSUME NEW cfg \in Configs, Resume(cfg) PROVE SavedSteps'
  <2>1. checkpoint.at \in Nodes \cup {None}
    BY <1>0 DEF Typed, Thread
  <2>2. run'.state = checkpoint.state /\ run'.stage = "loop" /\ checkpoint' = checkpoint
    BY ZenonT(60), <1>0, <1>2, <2>1, StartLocals DEF Resume, Start
  <2> QED
    BY <1>0, <2>2 DEF SavedSteps
<1>3. ASSUME NEW result, Return(result) PROVE SavedSteps'
  <2>1. run'.stage = "idle"
    BY <1>3, NoLocals DEF Return
  <2> QED
    BY <2>1 DEF SavedSteps
<1>4. CASE Proceed
  <2>1. /\ run'.state = run.state /\ run'.cfg = run.cfg /\ run'.stage = "running"
        /\ run.stage = "loop" /\ checkpoint' = checkpoint
    BY <1>0, <1>4, ProceedLocals DEF Proceed, EntersSuperstep
  <2> QED
    BY <1>0, <2>1 DEF SavedSteps
<1>5. ASSUME NEW i, RunNode(i) PROVE SavedSteps'
  <2>1. /\ run'.state = run.state /\ run'.cfg = run.cfg /\ run'.stage = run.stage
        /\ run.stage = "running" /\ checkpoint' = checkpoint
    BY <1>0, <1>5, RunLocals DEF RunNode
  <2> QED
    BY <1>0, <2>1 DEF SavedSteps
<1>6. CASE Gather
  <2>1. /\ run'.state = run.state /\ run'.cfg = run.cfg /\ run'.stage = "settling"
        /\ run.stage = "running" /\ checkpoint' = checkpoint
    BY <1>0, <1>6, GatherLocals DEF Gather
  <2>2. ASSUME run.cfg.every_step, NEW n \in Nodes PROVE ~(run.state[n] > checkpoint.state[n])
    <3>1. run.state[n] \in Nat /\ checkpoint.state[n] \in Nat /\ run.state[n] <= checkpoint.state[n]
      BY <1>0, <2>1, <2>2 DEF SavedSteps
    <3> QED
      BY <3>1
  <2> QED
    BY <2>1, <2>2 DEF SavedSteps
<1>7. CASE SettleCompleted
  <2>1. PICK i \in run.todo : \E route \in Routes[run.nodes[i]] :
           GoesOn(i, [run.state EXCEPT ![run.nodes[i]] = @ + 1], run.next \o route)
    BY <1>7 DEF SettleCompleted
  <2>2. PICK route \in Routes[run.nodes[i]] :
           GoesOn(i, [run.state EXCEPT ![run.nodes[i]] = @ + 1], run.next \o route)
    BY <2>1
  <2> DEFINE m == run.nodes[i]
             state == [run.state EXCEPT ![m] = @ + 1]
             next == run.next \o route
  <2>3. /\ m \in Nodes /\ i \in Places(run.nodes)
        /\ next \in Successors /\ state \in [Nodes -> Nat]
    BY <1>0, SettledType
  <2>4. run.stage = "settling"
    BY <1>7 DEF SettleCompleted, Settles
  <2>5. GoesOn(i, state, next)
    BY <2>2
  <2>6. \A n \in Nodes : n # m => state[n] = run.state[n]
    BY <1>0
  <2>7. m \in NodesIn(run.nodes)
    BY <2>3 DEF NodesIn, Places
  <2> HIDE DEF state, next, m
  <2>8. CASE Return("raised")
    BY <1>3, <2>8
  <2>9. CASE run' = [run EXCEPT !.todo = @ \ {i}, !.state = state, !.next = next]
    <3>1. /\ run'.state = state /\ run'.nodes = run.nodes /\ run'.cfg = run.cfg
          /\ run'.stage = "settling" /\ checkpoint' = checkpoint
      BY <1>0, <2>4, <2>5, <2>9 DEF Locals, GoesOn
    <3> QED
      BY <1>0, <2>4, <2>6, <2>7, <3>1 DEF SavedSteps
  <2> QED
    BY <2>5, <2>8, <2>9 DEF GoesOn
<1>8. CASE SettleOther
  <2>1. PICK i \in run.todo : GoesOn(i, run.state, run.next)
    BY <1>8 DEF SettleOther
  <2>2. CASE Return("raised")
    BY <1>3, <2>2
  <2>3. CASE run' = [run EXCEPT !.todo = @ \ {i}, !.state = run.state, !.next = run.next]
    <3>1. /\ run'.state = run.state /\ run'.nodes = run.nodes /\ run'.cfg = run.cfg
          /\ run'.stage = run.stage /\ checkpoint' = checkpoint
      BY <1>0, <2>1, <2>3 DEF Locals, GoesOn
    <3> QED
      BY <1>0, <3>1 DEF SavedSteps
  <2> QED
    BY <2>1, <2>2, <2>3 DEF GoesOn
<1>9. CASE Step
  <2>1. CASE End \in NodesIn(run.nodes) \cup NodesIn(run.next)
    BY <1>3, <1>9, <2>1 DEF Step
  <2>2. CASE ~(End \in NodesIn(run.nodes) \cup NodesIn(run.next))
    <3>1. /\ run'.state = run.state /\ run'.cfg = run.cfg /\ run'.stage = "loop"
          /\ checkpoint' = Saved(run.cfg.every_step)
      BY <1>0, <1>9, <2>2, StepLocals DEF Step
    <3>2. run.cfg.every_step => checkpoint'.state = run.state
      BY <3>1 DEF Saved
    <3>3. \A n \in Nodes : run.state[n] <= run.state[n]
      BY <1>0
    <3> QED
      BY <3>1, <3>2, <3>3 DEF SavedSteps
  <2> QED
    BY <2>1, <2>2
<1>10. CASE UNCHANGED graphVars
  BY <1>0, <1>10 DEF graphVars, SavedSteps
<1>11. CASE LoopEnds
  BY <1>3, <1>11 DEF LoopEnds
<1>12. CASE PauseBefore
  BY <1>3, <1>12 DEF PauseBefore, PauseAt
<1>13. CASE SettleInterrupted
  BY <1>3, <1>13 DEF SettleInterrupted, PauseAt
<1>14. CASE Crash
  BY <1>3, <1>14 DEF Crash
<1> QED
  BY <1>1, <1>2, <1>4, <1>5, <1>6, <1>7, <1>8, <1>9, <1>10, <1>11, <1>12, <1>13, <1>14
  DEF GraphNext, CallGoesOn

LEMMA SavedStart == GraphInit => SavedThread
<1> SUFFICES ASSUME GraphInit PROVE SavedSteps
  BY TypedStart DEF SavedThread
<1>1. run.stage = "idle"
  BY NoLocals DEF GraphInit
<1> QED
  BY <1>1 DEF SavedSteps

LEMMA SavedLosesOneSuperstep == SavedThread => CrashLosesOneSuperstep
<1> SUFFICES ASSUME SavedThread, run.stage # "idle", run.cfg.every_step,
                    NEW n \in Nodes, run.state[n] > checkpoint.state[n]
             PROVE  n \in NodesIn(run.nodes)
  BY DEF CrashLosesOneSuperstep
<1>1. /\ SavedSteps /\ run.stage \in Stages
      /\ checkpoint.state[n] \in Nat /\ run.state[n] \in Nat
  BY DEF SavedThread, Typed, Thread, Locals
<1>2. CASE run.stage \in {"loop", "running"}
  <2>1. run.state[n] <= checkpoint.state[n]
    BY <1>1, <1>2 DEF SavedSteps
  <2> QED
    BY <1>1, <2>1
<1>3. CASE run.stage = "settling"
  BY <1>1, <1>3 DEF SavedSteps
<1> QED
  BY <1>1, <1>2, <1>3 DEF Stages

\* With a checkpoint after every step a crash loses no more than the superstep it hit.
THEOREM CrashAlwaysLosesOneSuperstep == GraphSpec => []CrashLosesOneSuperstep
  BY SavedStart, SavedStep, SavedLosesOneSuperstep, PTL DEF GraphSpec

(***************************************************************************)
(* Repetition                                                              *)
(***************************************************************************)

\* A node is owed an execution: it was scheduled more often than it ran to an end.
Owed(n) == ran[n] < scheduled[n]

\* An orderly thread owes one to every node of the superstep that is still to run or
\* was interrupted, and to the node it is paused at.
Owing ==
    /\ calls = 0 => run.stage = "idle" /\ \A n \in Nodes : ran[n] <= scheduled[n]
    /\ orderly =>
          /\ run.stage = "loop" /\ run.iterations < MaxIterations =>
                \A i \in Places(run.nodes) : Owed(run.nodes[i])
          /\ run.stage \in {"running", "settling"} =>
                \A i \in Places(run.nodes) :
                   (i \in DOMAIN run.results => run.results[i] = "interrupted") => Owed(run.nodes[i])
          /\ run.stage = "idle" /\ outcome = "paused" => checkpoint.at \in Nodes /\ Owed(checkpoint.at)

OwingThread == Typed /\ PausesRepeatNothing /\ Owing

LEMMA OneMore ==
    ASSUME NEW tally \in [Nodes -> Nat], NEW nodes, NEW n \in Nodes
    PROVE  /\ tally[n] \in Nat
           /\ Counted(tally, nodes)[n] \in {tally[n], tally[n] + 1}
           /\ n \in nodes => Counted(tally, nodes)[n] = tally[n] + 1
           /\ n \notin nodes => Counted(tally, nodes)[n] = tally[n]
  BY CountedType

LEMMA ExecuteOwes ==
    ASSUME OwingThread, NEW cfg \in Configs, Execute(cfg)
    PROVE  PausesRepeatNothing' /\ Owing'
<1>1. /\ run.stage = "idle" /\ calls' = calls + 1 /\ ran' = ran /\ orderly' = (calls = 0)
      /\ scheduled' = Counted(scheduled, NodesIn(Entry)) /\ calls \in Nat
      /\ scheduled \in [Nodes -> Nat] /\ ran \in [Nodes -> Nat]
  <2>1. MaxCalls \in Nat
    BY GraphAssumption
  <2> QED
    BY <2>1 DEF Execute, Start, OwingThread, Typed, Thread
<1>2. run'.stage = "loop" /\ run'.nodes = Entry /\ Entry \in Seq(Nodes)
  <2>1. Never \in [Nodes -> Nat] /\ Entry \in Seq(Nodes)
    BY GraphAssumption DEF Never
  <2> QED
    BY <2>1, StartLocals DEF Execute, OwingThread
<1>3. calls' # 0
  BY <1>1
<1>4. ASSUME calls = 0, NEW n \in Nodes
      PROVE  ran'[n] <= scheduled'[n] /\ (n \in NodesIn(Entry) => ran'[n] < scheduled'[n])
  <2>1. ran[n] <= scheduled[n] /\ ran[n] \in Nat
    BY <1>1, <1>4 DEF OwingThread, Owing
  <2>2. /\ scheduled[n] \in Nat /\ scheduled'[n] \in {scheduled[n], scheduled[n] + 1}
        /\ n \in NodesIn(Entry) => scheduled'[n] = scheduled[n] + 1
    BY <1>1, OneMore
  <2> QED
    BY <1>1, <2>1, <2>2
<1>5. ASSUME calls = 0, NEW i \in Places(Entry) PROVE ran'[Entry[i]] < scheduled'[Entry[i]]
  <2>1. Entry[i] \in Nodes /\ Entry[i] \in NodesIn(Entry)
    BY <1>2, ElementOfSeq, LenProperties DEF Places, NodesIn
  <2> QED
    BY <1>4, <1>5, <2>1
<1> QED
  BY <1>1, <1>2, <1>3, <1>4, <1>5 DEF PausesRepeatNothing, Owing, Owed

LEMMA ResumeOwes ==
    ASSUME OwingThread, NEW cfg \in Configs, Resume(cfg)
    PROVE  PausesRepeatNothing' /\ Owing'
<1>1. /\ run.stage = "idle" /\ calls' = calls + 1 /\ ran' = ran
      /\ (orderly' => orderly /\ outcome = "paused") /\ calls \in Nat
      /\ scheduled' = Counted(scheduled, IF checkpoint.at = None THEN NodesIn(Entry) ELSE {})
      /\ scheduled \in [Nodes -> Nat] /\ None \notin Nodes
  <2>1. MaxCalls \in Nat /\ None \notin Nodes
    BY GraphAssumption
  <2>2. orderly' => orderly /\ outcome = "paused"
    BY Zenon DEF Resume
  <2> QED
    BY <2>1, <2>2 DEF Resume, Start, OwingThread, Typed, Thread
<1>2. /\ run'.stage = "loop"
      /\ run'.nodes = IF checkpoint.at = None THEN Entry ELSE <<checkpoint.at>>
  <2>1. /\ checkpoint.state \in [Nodes -> Nat] /\ checkpoint.at \in Nodes \cup {None} /\ Typed
        /\ Start(cfg, checkpoint.state, checkpoint.at)
    BY DEF OwingThread, Typed, Thread, Resume
  <2> QED
    BY <2>1, StartLocals
<1>3. calls' # 0
  BY <1>1
<1>4. ASSUME orderly'
      PROVE  /\ \A n \in Nodes : ran'[n] <= scheduled'[n]
             /\ \A i \in Places(run'.nodes) : ran'[run'.nodes[i]] < scheduled'[run'.nodes[i]]
  <2>1. /\ orderly /\ outcome = "paused" /\ checkpoint.at \in Nodes /\ Owed(checkpoint.at)
        /\ \A n \in Nodes : ran[n] <= scheduled[n]
    BY <1>1, <1>4 DEF OwingThread, Owing, PausesRepeatNothing
  <2>2. scheduled' = scheduled
    BY <1>1, <2>1 DEF Counted
  <2>3. \A i \in Places(run'.nodes) : run'.nodes[i] = checkpoint.at
    BY <1>1, <1>2, <2>1, OnePlace
  <2> QED
    BY <1>1, <2>1, <2>2, <2>3 DEF Owed
<1> QED
  BY <1>1, <1>2, <1>3, <1>4 DEF PausesRepeatNothing, Owing, Owed

LEMMA RunOwes ==
    ASSUME OwingThread, NEW i, RunNode(i)
    PROVE  PausesRepeatNothing' /\ Owing'
<1>0. Typed /\ run.nodes \in Successors
  BY DEF OwingThread, Typed, Locals
<1>1. PICK result \in Ends[run.nodes[i]] :
        /\ run'.results = [j \in DOMAIN run.results \cup {i} |->
                              IF j = i THEN result ELSE run.results[j]]
        /\ ran' = Counted(ran, IF result = "interrupted" THEN {} ELSE {run.nodes[i]})
  BY <1>0, RunLocals, Zenon
<1>2. /\ i \in Places(run.nodes) \ DOMAIN run.results /\ run.nodes[i] \in Nodes
      /\ run.stage = "running" /\ run'.stage = run.stage /\ run'.nodes = run.nodes
      /\ scheduled' = scheduled /\ calls' = calls /\ orderly' = orderly
      /\ ran \in [Nodes -> Nat] /\ scheduled \in [Nodes -> Nat]
  BY <1>0, RunLocals DEF RunNode, Typed, Thread
<1>3. calls # 0
  BY <1>2 DEF OwingThread, Owing
<1> DEFINE ended == IF result = "interrupted" THEN {} ELSE {run.nodes[i]}
<1>4. ASSUME NEW n \in Nodes
      PROVE  /\ ran[n] \in Nat
             /\ ran'[n] \in {ran[n], ran[n] + 1}
             /\ n \notin ended => ran'[n] = ran[n]
  <2> HIDE DEF ended
  <2>1. ran' = Counted(ran, ended)
    BY <1>1 DEF ended
  <2> QED
    BY <1>2, <2>1, OneMore
<1>5. DOMAIN run'.results = DOMAIN run.results \cup {i}
      /\ \A j \in DOMAIN run'.results : run'.results[j] = IF j = i THEN result ELSE run.results[j]
  BY <1>1
<1>6. ASSUME orderly PROVE run.nodes[i] \in Nodes /\ Owed(run.nodes[i])
  BY <1>2, <1>6 DEF OwingThread, Owing
<1>7. ASSUME orderly, NEW n \in Nodes PROVE ran'[n] <= scheduled'[n]
  <2>1. ran[n] <= scheduled[n] /\ scheduled[n] \in Nat
    BY <1>2, <1>7 DEF OwingThread, PausesRepeatNothing
  <2>2. n \in ended => ran[n] < scheduled[n]
    BY <1>6, <1>7 DEF Owed
  <2> HIDE DEF ended
  <2> QED
    BY <1>2, <1>4, <2>1, <2>2
<1>8. ASSUME orderly, NEW j \in Places(run.nodes),
             j \in DOMAIN run'.results => run'.results[j] = "interrupted"
      PROVE  ran'[run.nodes[j]] < scheduled'[run.nodes[j]]
  <2>1. run.nodes[j] \in Nodes /\ run.nodes[j] \notin ended
    <3>1. CASE j = i
      BY <1>2, <1>5, <1>8, <3>1
    <3>2. CASE j # i
      BY <1>0, <1>2, <3>2, PlacesHold, PlacesDiffer
    <3> QED
      BY <3>1, <3>2
  <2>2. j \in DOMAIN run.results => run.results[j] = "interrupted"
    BY <1>2, <1>5, <1>8
  <2>3. Owed(run.nodes[j])
    BY <1>2, <1>8, <2>2 DEF OwingThread, Owing
  <2> HIDE DEF ended
  <2> QED
    BY <1>2, <1>4, <2>1, <2>3 DEF Owed
<1> HIDE DEF ended
<1> QED
  BY <1>2, <1>3, <1>7, <1>8 DEF PausesRepeatNothing, Owing, Owed

\* The end of a call: paused at a node that is owed, or not paused.
LEMMA ReturnOwes ==
    ASSUME OwingThread, NEW result, Return(result), UNCHANGED <<orderly, scheduled, ran>>,
           run.stage # "idle",
           orderly /\ result = "paused" => (checkpoint'.at \in Nodes /\ Owed(checkpoint'.at))
    PROVE  PausesRepeatNothing' /\ Owing'
<1>1. run'.stage = "idle" /\ outcome' = result /\ calls' = calls /\ calls # 0
  BY NoLocals DEF Return, OwingThread, Owing
<1> QED
  BY <1>1 DEF OwingThread, PausesRepeatNothing, Owing, Owed

\* A superstep's successors are owed an execution each.
LEMMA StepOwes ==
    ASSUME OwingThread, Step, ~(End \in NodesIn(run.nodes) \cup NodesIn(run.next))
    PROVE  PausesRepeatNothing' /\ Owing'
<1>0. Typed /\ Locals(run) /\ run.next \in Successors
  BY DEF OwingThread, Typed, Locals
<1>1. /\ run'.stage = "loop" /\ run'.nodes = run.next /\ run'.iterations = run.iterations
      /\ run.stage = "settling" /\ calls' = calls /\ orderly' = orderly /\ ran' = ran
      /\ scheduled' = Counted(scheduled, IF run.iterations < MaxIterations
                                         THEN NodesIn(run.next) ELSE {})
      /\ scheduled \in [Nodes -> Nat] /\ ran \in [Nodes -> Nat]
  BY <1>0, StepLocals DEF Step, Typed, Thread
<1>2. calls # 0
  BY <1>1 DEF OwingThread, Owing
<1>3. ASSUME orderly, NEW n \in Nodes
      PROVE  /\ ran[n] <= scheduled'[n]
             /\ run.iterations < MaxIterations /\ n \in NodesIn(run.next) => ran[n] < scheduled'[n]
  <2>1. ran[n] <= scheduled[n] /\ ran[n] \in Nat
    BY <1>1, <1>3 DEF OwingThread, PausesRepeatNothing
  <2> DEFINE next == IF run.iterations < MaxIterations THEN NodesIn(run.next) ELSE {}
  <2>2. run.iterations < MaxIterations => next = NodesIn(run.next)
    OBVIOUS
  <2> HIDE DEF next
  <2>3. scheduled' = Counted(scheduled, next)
    BY <1>1 DEF next
  <2>4. /\ scheduled[n] \in Nat /\ scheduled'[n] \in {scheduled[n], scheduled[n] + 1}
        /\ n \in next => scheduled'[n] = scheduled[n] + 1
    BY <1>1, <2>3, OneMore
  <2> QED
    BY <2>1, <2>2, <2>4
<1>4. ASSUME orderly, run.iterations < MaxIterations, NEW i \in Places(run.next)
      PROVE  ran[run.next[i]] < scheduled'[run.next[i]]
  <2>1. run.next[i] \in Nodes /\ run.next[i] \in NodesIn(run.next)
    BY <1>0, PlacesHold DEF Places, NodesIn
  <2> QED
    BY <1>3, <1>4, <2>1
<1> QED
  BY <1>1, <1>2, <1>3, <1>4 DEF PausesRepeatNothing, Owing, Owed

LEMMA OwingStep == OwingThread /\ [GraphNext]_graphVars => OwingThread'
<1> SUFFICES ASSUME OwingThread, [GraphNext]_graphVars PROVE PausesRepeatNothing' /\ Owing'
  BY TypedStep DEF OwingThread
<1>0. Typed /\ Locals(run) /\ PausesRepeatNothing /\ Owing
  BY DEF OwingThread, Typed
<1>1. ASSUME NEW i \in Places(run.nodes), PauseAt(run.nodes[i]), run.stage # "idle",
             orderly => Owed(run.nodes[i])
      PROVE  PausesRepeatNothing' /\ Owing'
  <2>1. run.nodes[i] \in Nodes
    BY <1>0, PlacesHold DEF Locals
  <2> QED
    BY <1>1, <2>1, ReturnOwes DEF PauseAt, tallies
<1>2. ASSUME run'.stage = run.stage, run'.nodes = run.nodes, run'.results = run.results,
             run'.iterations = run.iterations, run.stage # "idle",
             UNCHANGED <<calls, orderly, scheduled, ran>>
      PROVE  PausesRepeatNothing' /\ Owing'
  BY <1>0, <1>2 DEF PausesRepeatNothing, Owing, Owed
<1>3. CASE LoopEnds
  <2>1. Verdict # "paused"
    BY VerdictType
  <2> QED
    BY <1>3, <2>1, ReturnOwes DEF LoopEnds, tallies
<1>4. CASE PauseBefore
  <2>1. PICK i \in Places(run.nodes) : PauseAt(run.nodes[i])
    BY <1>4 DEF PauseBefore, AtGate
  <2>2. run.stage # "idle" /\ (orderly => Owed(run.nodes[i]))
    BY <1>0, <1>4 DEF PauseBefore, EntersSuperstep, Owing
  <2> QED
    BY <1>1, <2>1, <2>2
<1>5. CASE Proceed
  <2>1. /\ run'.stage = "running" /\ run'.nodes = run.nodes /\ run'.results = run.results
        /\ run.stage = "loop" /\ run.iterations < MaxIterations
        /\ UNCHANGED <<calls, orderly, scheduled, ran>>
    BY <1>0, <1>5, ProceedLocals DEF Proceed, EntersSuperstep, tallies
  <2> QED
    BY <1>0, <2>1 DEF PausesRepeatNothing, Owing, Owed
<1>6. CASE Gather
  <2>1. /\ run'.stage = "settling" /\ run'.nodes = run.nodes /\ run'.results = run.results
        /\ run.stage = "running" /\ UNCHANGED <<calls, orderly, scheduled, ran>>
    BY <1>0, <1>6, GatherLocals DEF Gather, tallies
  <2> QED
    BY <1>0, <2>1 DEF PausesRepeatNothing, Owing, Owed
<1>7. CASE SettleInterrupted
  <2>1. PICK i \in run.todo : run.stage = "settling" /\ run.results[i] = "interrupted"
                            /\ PauseAt(run.nodes[i])
    BY <1>7 DEF SettleInterrupted, Settles
  <2>2. i \in Places(run.nodes)
    BY <1>0 DEF Locals
  <2>3. orderly => Owed(run.nodes[i])
    BY <1>0, <2>1, <2>2 DEF Owing
  <2> QED
    BY <1>1, <2>1, <2>2, <2>3
<1>8. ASSUME NEW i, NEW state, NEW next, run.stage = "settling", GoesOn(i, state, next)
      PROVE  PausesRepeatNothing' /\ Owing'
  <2>1. CASE Return("raised")
    BY <1>8, <2>1, ReturnOwes DEF GoesOn, tallies
  <2>2. CASE run' = [run EXCEPT !.todo = @ \ {i}, !.state = state, !.next = next]
             /\ UNCHANGED <<outcome, calls>>
    <3>1. run'.stage = run.stage /\ run'.nodes = run.nodes /\ run'.results = run.results
          /\ run'.iterations = run.iterations
      BY <1>0, <2>2 DEF Locals
    <3> QED
      BY <1>2, <1>8, <2>2, <3>1 DEF GoesOn, tallies
  <2> QED
    BY <1>8, <2>1, <2>2 DEF GoesOn
<1>9. CASE SettleCompleted
  BY <1>8, <1>9 DEF SettleCompleted, Settles
<1>10. CASE SettleOther
  BY <1>8, <1>10 DEF SettleOther, Settles
<1>11. CASE Step
  <2>1. CASE End \in NodesIn(run.nodes) \cup NodesIn(run.next)
    <3>1. Verdict # "paused"
      BY VerdictType
    <3> QED
      BY <1>11, <2>1, <3>1, ReturnOwes DEF Step
  <2>2. CASE ~(End \in NodesIn(run.nodes) \cup NodesIn(run.next))
    BY <1>11, <2>2, StepOwes
  <2> QED
    BY <2>1, <2>2
<1>12. CASE Crash
  BY <1>12, ReturnOwes DEF Crash, tallies
<1>13. CASE UNCHANGED graphVars
  BY <1>0, <1>13 DEF graphVars, tallies, PausesRepeatNothing, Owing, Owed
<1> QED
  BY <1>3, <1>4, <1>5, <1>6, <1>7, <1>9, <1>10, <1>11, <1>12, <1>13,
     ExecuteOwes, ResumeOwes, RunOwes
  DEF GraphNext, CallGoesOn

LEMMA OwingStart == GraphInit => OwingThread
<1> SUFFICES ASSUME GraphInit PROVE PausesRepeatNothing /\ Owing
  BY TypedStart DEF OwingThread
<1>1. run.stage = "idle" /\ outcome = "none"
  BY NoLocals DEF GraphInit
<1>2. \A n \in Nodes : ran[n] <= scheduled[n]
  BY DEF GraphInit, Never
<1> QED
  BY <1>1, <1>2 DEF PausesRepeatNothing, Owing

\* A thread that is only resumed when it is paused runs a node to its end at most
\* once each time the node is scheduled.
THEOREM PausesNeverRepeat == GraphSpec => []PausesRepeatNothing
<1>1. OwingThread => PausesRepeatNothing
  BY DEF OwingThread
<1> QED
  BY <1>1, OwingStart, OwingStep, PTL DEF GraphSpec

(***************************************************************************)
(* Nothing skipped                                                         *)
(***************************************************************************)

\* No node was scheduled more often than it ran to an end, except for one execution of
\* each of these.
Paid(nodes) == \A n \in Nodes : scheduled[n] <= IF n \in nodes THEN ran[n] + 1 ELSE ran[n]

\* The superstep's nodes that have not run to an end.
ToEnd == {n \in NodesIn(run.nodes) :
            \A i \in DOMAIN run.results : run.nodes[i] = n => run.results[i] = "interrupted"}

\* Of a superstep, everything has a result when its results settle, and an
\* interrupt is not passed over.
Settling ==
    /\ run.stage # "idle" => outcome = "none"
    /\ run.stage = "loop" => run.results = << >>
    /\ run.stage = "settling" =>
          /\ DOMAIN run.results = Places(run.nodes)
          /\ \A i \in DOMAIN run.results : run.results[i] = "interrupted" => i \in run.todo

\* What an untorn thread still has to run is at hand: in the superstep, or at the pause.
AtHand ==
    /\ calls = 0 => run.stage = "idle" /\ Paid({})
    /\ orderly /\ ~torn =>
          /\ run.stage = "loop" =>
                Paid(IF run.iterations < MaxIterations THEN NodesIn(run.nodes) ELSE {})
          /\ run.stage \in {"running", "settling"} => Paid(ToEnd)
          /\ run.stage = "idle" /\ outcome = "paused" =>
                checkpoint.at \in Nodes /\ Paid({checkpoint.at})
          /\ run.stage = "idle" /\ outcome \in {"done", "failed"} => Paid({})

UntornThread == Typed /\ Settling /\ AtHand

LEMMA SmallestPlace ==
    ASSUME NEW places \in SUBSET Nat, places # {}
    PROVE  \E i \in places : \A j \in places : i <= j
<1> DEFINE Below == {ss \in Nat \X Nat : ss[1] < ss[2]}
<1>1. IsWellFoundedOn(Below, Nat)
  BY NatLessThanWellFounded DEF OpToRel
<1> HIDE DEF Below
<1>2. PICK i \in places : \A j \in places : ~(<<j, i>> \in Below)
  BY <1>1, WFMin
<1>3. ASSUME NEW j \in places PROVE i <= j
  <2>1. i \in Nat /\ j \in Nat /\ ~(<<j, i>> \in Below)
    BY <1>2
  <2>2. ~(j < i)
    BY <2>1 DEF Below
  <2> QED
    BY <2>1, <2>2
<1> QED
  BY <1>3

\* Each node of a superstep has its place.
LEMMA PlaceOfNode ==
    ASSUME NEW nodes \in Successors, NEW n \in NodesIn(nodes), n # End
    PROVE  \E i \in Places(nodes) : nodes[i] = n
<1> DEFINE places == {i \in DOMAIN nodes : nodes[i] = n}
<1>1. DOMAIN nodes = 1 .. Len(nodes) /\ Len(nodes) \in Nat
  BY LenProperties DEF Successors
<1>2. places \in SUBSET Nat /\ places # {}
  BY <1>1 DEF NodesIn
<1> HIDE DEF places
<1>3. PICK i \in places : \A j \in places : i <= j
  BY <1>2, SmallestPlace
<1>4. i \in DOMAIN nodes /\ nodes[i] = n /\ i \in Nat
  BY <1>2, <1>3 DEF places
<1>5. ASSUME NEW j \in 1 .. i - 1 PROVE nodes[j] # nodes[i]
  <2>1. j \in DOMAIN nodes /\ ~(i <= j)
    BY <1>1, <1>4
  <2> QED
    BY <1>3, <1>4, <2>1 DEF places
<1> QED
  BY <1>4, <1>5 DEF Places

\* A pause that leaves the thread untorn is at the only node of its superstep.
LEMMA LonePause ==
    ASSUME Typed, NEW i \in Places(run.nodes), ~(Cardinality(Places(run.nodes)) > 1),
           NEW n \in Nodes, n \in NodesIn(run.nodes)
    PROVE  n = run.nodes[i]
<1>1. run.nodes \in Successors /\ End \notin Nodes
  BY GraphAssumption DEF Typed, Locals
<1>2. PICK j \in Places(run.nodes) : run.nodes[j] = n
  BY <1>1, PlaceOfNode
<1>3. IsFiniteSet(Places(run.nodes))
  <2>1. DOMAIN run.nodes = 1 .. Len(run.nodes) /\ Len(run.nodes) \in Nat
    BY <1>1, LenProperties DEF Successors
  <2>2. IsFiniteSet(1 .. Len(run.nodes))
    <3>1. 1 \in Int /\ Len(run.nodes) \in Int
      BY <2>1
    <3> QED
      BY <3>1, FS_Interval
  <2>3. Places(run.nodes) \subseteq 1 .. Len(run.nodes)
    BY <2>1 DEF Places
  <2> QED
    BY <2>2, <2>3, FS_Subset
<1>4. Cardinality(Places(run.nodes)) \in Nat /\ Cardinality(Places(run.nodes)) # 0
  BY <1>2, <1>3, FS_CardinalityType, FS_EmptySet
<1>5. Cardinality(Places(run.nodes)) = 1
  BY <1>4
<1>6. \E x : Places(run.nodes) = {x}
  BY <1>3, <1>5, FS_Singleton
<1> QED
  BY <1>2, <1>6

LEMMA ExecutePays ==
    ASSUME UntornThread, NEW cfg \in Configs, Execute(cfg)
    PROVE  Settling' /\ AtHand'
<1>1. /\ calls' = calls + 1 /\ ran' = ran /\ orderly' = (calls = 0) /\ outcome' = "none"
      /\ scheduled' = Counted(scheduled, NodesIn(Entry)) /\ calls \in Nat
      /\ scheduled \in [Nodes -> Nat] /\ ran \in [Nodes -> Nat]
  <2>1. MaxCalls \in Nat
    BY GraphAssumption
  <2> QED
    BY <2>1 DEF Execute, Start, UntornThread, Typed, Thread
<1>2. /\ run'.stage = "loop" /\ run'.nodes = Entry /\ run'.results = << >>
      /\ run'.iterations = 0
  <2>1. Never \in [Nodes -> Nat]
    BY DEF Never
  <2> QED
    BY <2>1, StartLocals DEF Execute, UntornThread
<1>3. calls' # 0 /\ 0 < MaxIterations
  BY <1>1, GraphAssumption
<1>4. ASSUME calls = 0, NEW n \in Nodes
      PROVE  scheduled'[n] <= IF n \in NodesIn(Entry) THEN ran'[n] + 1 ELSE ran'[n]
  <2>1. scheduled[n] <= ran[n] /\ ran[n] \in Nat
    BY <1>1, <1>4 DEF UntornThread, AtHand, Paid
  <2>2. /\ scheduled[n] \in Nat
        /\ n \in NodesIn(Entry) => scheduled'[n] = scheduled[n] + 1
        /\ n \notin NodesIn(Entry) => scheduled'[n] = scheduled[n]
    BY <1>1, OneMore
  <2> QED
    BY <1>1, <2>1, <2>2
<1> QED
  BY <1>1, <1>2, <1>3, <1>4 DEF Settling, AtHand, Paid

LEMMA ResumePays ==
    ASSUME UntornThread, NEW cfg \in Configs, Resume(cfg)
    PROVE  Settling' /\ AtHand'
<1>1. /\ run.stage = "idle" /\ calls' = calls + 1 /\ ran' = ran /\ outcome' = "none"
      /\ (orderly' => orderly /\ outcome = "paused") /\ calls \in Nat /\ torn' = torn
      /\ scheduled' = Counted(scheduled, IF checkpoint.at = None THEN NodesIn(Entry) ELSE {})
      /\ scheduled \in [Nodes -> Nat] /\ None \notin Nodes
  <2>1. MaxCalls \in Nat /\ None \notin Nodes
    BY GraphAssumption
  <2>2. orderly' => orderly /\ outcome = "paused"
    BY Zenon DEF Resume
  <2> QED
    BY <2>1, <2>2 DEF Resume, Start, UntornThread, Typed, Thread
<1>2. /\ run'.stage = "loop" /\ run'.results = << >> /\ run'.iterations = 0
      /\ run'.nodes = IF checkpoint.at = None THEN Entry ELSE <<checkpoint.at>>
  <2>1. /\ checkpoint.state \in [Nodes -> Nat] /\ checkpoint.at \in Nodes \cup {None} /\ Typed
        /\ Start(cfg, checkpoint.state, checkpoint.at)
    BY DEF UntornThread, Typed, Thread, Resume
  <2> QED
    BY <2>1, StartLocals
<1>3. calls' # 0 /\ 0 < MaxIterations
  BY <1>1, GraphAssumption
<1>4. ASSUME orderly', ~torn'
      PROVE  \A n \in Nodes :
                scheduled'[n] <= IF n \in NodesIn(run'.nodes) THEN ran'[n] + 1 ELSE ran'[n]
  <2>1. checkpoint.at \in Nodes /\ Paid({checkpoint.at})
    BY <1>1, <1>4 DEF UntornThread, AtHand
  <2>2. scheduled' = scheduled
    BY <1>1, <2>1 DEF Counted
  <2>3. NodesIn(run'.nodes) = {checkpoint.at}
    BY <1>1, <1>2, <2>1, OnePlace
  <2> QED
    BY <1>1, <2>1, <2>2, <2>3 DEF Paid
<1> QED
  BY <1>1, <1>2, <1>3, <1>4 DEF Settling, AtHand, Paid

LEMMA RunPays ==
    ASSUME UntornThread, NEW i, RunNode(i)
    PROVE  Settling' /\ AtHand'
<1>0. Typed /\ run.nodes \in Successors
  BY DEF UntornThread, Typed, Locals
<1>1. PICK result \in Ends[run.nodes[i]] :
        /\ run'.results = [j \in DOMAIN run.results \cup {i} |->
                              IF j = i THEN result ELSE run.results[j]]
        /\ ran' = Counted(ran, IF result = "interrupted" THEN {} ELSE {run.nodes[i]})
  BY <1>0, RunLocals, Zenon
<1>2. /\ i \notin DOMAIN run.results /\ run.nodes[i] \in Nodes
      /\ run.stage = "running" /\ run'.stage = run.stage /\ run'.nodes = run.nodes
      /\ scheduled' = scheduled /\ calls' = calls /\ orderly' = orderly /\ torn' = torn
      /\ outcome' = outcome /\ ran \in [Nodes -> Nat] /\ scheduled \in [Nodes -> Nat]
  BY <1>0, RunLocals DEF RunNode, Typed, Thread
<1>3. calls # 0 /\ outcome = "none"
  BY <1>2 DEF UntornThread, AtHand, Settling
<1>4. DOMAIN run'.results = DOMAIN run.results \cup {i}
      /\ \A j \in DOMAIN run'.results : run'.results[j] = IF j = i THEN result ELSE run.results[j]
  BY <1>1
<1> DEFINE ended == IF result = "interrupted" THEN {} ELSE {run.nodes[i]}
<1>5. ASSUME NEW n \in Nodes
      PROVE  /\ ran[n] \in Nat /\ scheduled[n] \in Nat
             /\ n \in ended => ran'[n] = ran[n] + 1
             /\ n \notin ended => ran'[n] = ran[n]
  <2> HIDE DEF ended
  <2>1. ran' = Counted(ran, ended)
    BY <1>1 DEF ended
  <2> QED
    BY <1>2, <2>1, OneMore
<1>6. ASSUME NEW n \in ToEnd, n \notin ended PROVE n \in ToEnd'
  BY <1>2, <1>4, <1>6 DEF ToEnd
<1>7. ASSUME orderly, ~torn PROVE Paid(ToEnd)'
  <2>1. Paid(ToEnd)
    BY <1>2, <1>7 DEF UntornThread, AtHand
  <2> SUFFICES ASSUME NEW n \in Nodes
               PROVE  scheduled[n] <= IF n \in ToEnd' THEN ran'[n] + 1 ELSE ran'[n]
    BY <1>2 DEF Paid
  <2>2. scheduled[n] <= IF n \in ToEnd THEN ran[n] + 1 ELSE ran[n]
    BY <2>1 DEF Paid
  <2> HIDE DEF ended
  <2>3. CASE n \in ended
    BY <1>5, <2>2, <2>3
  <2>4. CASE n \notin ended
    BY <1>5, <1>6, <2>2, <2>4
  <2> QED
    BY <2>3, <2>4
<1> QED
  BY <1>2, <1>3, <1>7 DEF Settling, AtHand

\* The end of a call that does not pause, or that pauses at a node which is all that is
\* left to run.
LEMMA ReturnPays ==
    ASSUME UntornThread, NEW result, Return(result), UNCHANGED <<orderly, scheduled, ran>>,
           run.stage # "idle", ~torn' => ~torn,
           orderly /\ ~torn' /\ result = "paused" =>
              checkpoint'.at \in Nodes /\ Paid({checkpoint'.at}),
           orderly /\ ~torn /\ result \in {"done", "failed"} => Paid({})
    PROVE  Settling' /\ AtHand'
<1>1. run'.stage = "idle" /\ outcome' = result /\ calls' = calls /\ calls # 0
  BY NoLocals DEF Return, UntornThread, AtHand
<1> QED
  BY <1>1 DEF Settling, AtHand, Paid

\* Once a superstep has settled, each of its nodes has run to an end.
LEMMA SettledPaid ==
    ASSUME UntornThread, run.stage = "settling", run.todo = {}, orderly, ~torn
    PROVE  Paid({})
<1>1. Paid(ToEnd) /\ run.nodes \in Successors /\ DOMAIN run.results = Places(run.nodes)
      /\ \A i \in DOMAIN run.results : run.results[i] # "interrupted"
  BY DEF UntornThread, AtHand, Settling, Typed, Locals
<1>2. ASSUME NEW n \in Nodes PROVE n \notin ToEnd
  <2>1. SUFFICES ASSUME n \in NodesIn(run.nodes) PROVE n \notin ToEnd
    BY DEF ToEnd
  <2>2. PICK i \in Places(run.nodes) : run.nodes[i] = n
    BY <1>1, <2>1, PlaceOfNode, GraphAssumption
  <2> QED
    BY <1>1, <2>2 DEF ToEnd
<1> QED
  BY <1>1, <1>2 DEF Paid

\* A superstep's successors are scheduled, and all of them follow.
LEMMA StepPays ==
    ASSUME UntornThread, Step, ~(End \in NodesIn(run.nodes) \cup NodesIn(run.next))
    PROVE  Settling' /\ AtHand'
<1>0. Typed /\ Locals(run)
  BY DEF UntornThread, Typed
<1> DEFINE next == IF run.iterations < MaxIterations THEN NodesIn(run.next) ELSE {}
<1>1. /\ run'.stage = "loop" /\ run'.nodes = run.next /\ run'.iterations = run.iterations
      /\ run'.results = << >> /\ run.stage = "settling" /\ run.todo = {}
      /\ calls' = calls /\ orderly' = orderly /\ torn' = torn /\ ran' = ran /\ outcome' = outcome
      /\ scheduled' = Counted(scheduled, next)
      /\ scheduled \in [Nodes -> Nat] /\ ran \in [Nodes -> Nat]
  BY <1>0, StepLocals DEF Step, Typed, Thread
<1>2. calls # 0 /\ outcome = "none"
  BY <1>1 DEF UntornThread, AtHand, Settling
<1>3. (IF run'.iterations < MaxIterations THEN NodesIn(run'.nodes) ELSE {}) = next
  BY <1>1
<1> HIDE DEF next
<1>4. ASSUME orderly, ~torn, NEW n \in Nodes
      PROVE  scheduled'[n] <= IF n \in next THEN ran'[n] + 1 ELSE ran'[n]
  <2>1. scheduled[n] <= ran[n] /\ ran[n] \in Nat
    BY <1>1, <1>4, SettledPaid DEF Paid
  <2>2. /\ scheduled[n] \in Nat
        /\ n \in next => scheduled'[n] = scheduled[n] + 1
        /\ n \notin next => scheduled'[n] = scheduled[n]
    BY <1>1, OneMore
  <2> QED
    BY <1>1, <2>1, <2>2
<1> QED
  BY <1>1, <1>2, <1>3, <1>4 DEF Settling, AtHand, Paid

LEMMA UntornStep == UntornThread /\ [GraphNext]_graphVars => UntornThread'
<1> SUFFICES ASSUME UntornThread, [GraphNext]_graphVars PROVE Settling' /\ AtHand'
  BY TypedStep DEF UntornThread
<1>0. Typed /\ Locals(run) /\ Settling /\ AtHand
  BY DEF UntornThread, Typed
\* A pause at one place, when what is left to run is in the superstep.
<1>1. ASSUME NEW i \in Places(run.nodes), PauseAt(run.nodes[i]), run.stage # "idle",
             NEW nodes \in SUBSET NodesIn(run.nodes), orderly /\ ~torn => Paid(nodes)
      PROVE  Settling' /\ AtHand'
  <2>1. run.nodes[i] \in Nodes /\ checkpoint'.at = run.nodes[i] /\ Return("paused")
    BY <1>0, <1>1, PlacesHold DEF Locals, PauseAt
  <2>2. ~torn' => ~torn /\ ~(Cardinality(Places(run.nodes)) > 1)
    BY <1>1, Zenon DEF PauseAt
  <2>3. ASSUME orderly, ~torn' PROVE Paid({run.nodes[i]})
    <3>1. Paid(nodes)
      BY <1>1, <2>2, <2>3
    <3>2. \A n \in Nodes : n \in nodes => n = run.nodes[i]
      BY <1>0, <2>2, <2>3, LonePause
    <3>3. \A n \in Nodes : ran[n] \in Nat /\ scheduled[n] \in Nat
      BY <1>0 DEF Typed, Thread
    <3> QED
      BY <3>1, <3>2, <3>3 DEF Paid
  <2> QED
    BY <1>1, <2>1, <2>2, <2>3, ReturnPays DEF PauseAt, tallies
<1>2. CASE LoopEnds
  <2>1. Verdict # "paused"
    BY VerdictType
  <2>2. run.stage = "loop" /\ (run.nodes = << >> \/ run.iterations = MaxIterations)
        /\ MaxIterations \in Nat
    BY <1>2, GraphAssumption DEF LoopEnds
  <2>3. orderly /\ ~torn => Paid({})
    <3>1. (IF run.iterations < MaxIterations THEN NodesIn(run.nodes) ELSE {}) = {}
      BY <2>2, EmptyNodes
    <3> QED
      BY <1>0, <2>2, <3>1 DEF AtHand
  <2> QED
    BY <1>2, <2>1, <2>2, <2>3, ReturnPays DEF LoopEnds, tallies
<1>3. CASE PauseBefore
  <2>1. PICK i \in Places(run.nodes) : PauseAt(run.nodes[i])
    BY <1>3 DEF PauseBefore, AtGate
  <2>2. run.stage # "idle" /\ (orderly /\ ~torn => Paid(NodesIn(run.nodes)))
    BY <1>0, <1>3 DEF PauseBefore, EntersSuperstep, AtHand
  <2> QED
    BY <1>1, <2>1, <2>2
<1>4. CASE Proceed
  <2>1. /\ run'.stage = "running" /\ run'.nodes = run.nodes /\ run'.results = run.results
        /\ run.stage = "loop" /\ run.iterations < MaxIterations
        /\ UNCHANGED <<calls, orderly, torn, outcome, scheduled, ran>>
    BY <1>0, <1>4, ProceedLocals DEF Proceed, EntersSuperstep, tallies
  <2>2. ToEnd' = NodesIn(run.nodes)
    <3>1. DOMAIN run'.results = {}
      BY <1>0, <2>1 DEF Settling
    <3> QED
      BY <2>1, <3>1 DEF ToEnd
  <2> QED
    BY <1>0, <2>1, <2>2 DEF Settling, AtHand, Paid
<1>5. CASE Gather
  <2>1. /\ run'.stage = "settling" /\ run'.nodes = run.nodes /\ run'.results = run.results
        /\ run'.todo = Places(run.nodes) /\ DOMAIN run.results = Places(run.nodes)
        /\ run.stage = "running" /\ UNCHANGED <<calls, orderly, torn, outcome, scheduled, ran>>
    BY <1>0, <1>5, GatherLocals DEF Gather, tallies
  <2>2. ToEnd' = ToEnd
    BY <2>1 DEF ToEnd
  <2> QED
    BY <1>0, <2>1, <2>2 DEF Settling, AtHand, Paid
<1>6. CASE SettleInterrupted
  <2>1. PICK i \in run.todo : run.stage = "settling" /\ PauseAt(run.nodes[i])
    BY <1>6 DEF SettleInterrupted, Settles
  <2>2. i \in Places(run.nodes)
    BY <1>0 DEF Locals
  <2>3. ToEnd \in SUBSET NodesIn(run.nodes) /\ (orderly /\ ~torn => Paid(ToEnd))
    BY <1>0, <2>1 DEF AtHand, ToEnd
  <2> QED
    BY <1>1, <2>1, <2>2, <2>3
<1>7. ASSUME NEW i, NEW state, NEW next, run.stage = "settling", run.results[i] # "interrupted",
             GoesOn(i, state, next)
      PROVE  Settling' /\ AtHand'
  <2>1. CASE Return("raised")
    BY <1>7, <2>1, ReturnPays DEF GoesOn, tallies
  <2>2. CASE run' = [run EXCEPT !.todo = @ \ {i}, !.state = state, !.next = next]
             /\ UNCHANGED <<outcome, calls>>
    <3>1. run'.stage = run.stage /\ run'.nodes = run.nodes /\ run'.results = run.results
          /\ run'.todo = run.todo \ {i} /\ UNCHANGED <<calls, orderly, torn, outcome, scheduled, ran>>
      BY <1>0, <1>7, <2>2 DEF Locals, GoesOn, tallies
    <3>2. ToEnd' = ToEnd
      BY <3>1 DEF ToEnd
    <3>3. Settling'
      BY <1>0, <1>7, <3>1 DEF Settling
    <3> QED
      BY <1>0, <1>7, <3>1, <3>2, <3>3 DEF AtHand, Paid
  <2> QED
    BY <1>7, <2>1, <2>2 DEF GoesOn
<1>8. CASE SettleCompleted
  BY <1>7, <1>8 DEF SettleCompleted, Settles
<1>9. CASE SettleOther
  BY <1>7, <1>9 DEF SettleOther, Settles
<1>10. CASE Step
  <2>1. CASE End \in NodesIn(run.nodes) \cup NodesIn(run.next)
    <3>1. Verdict # "paused" /\ (orderly /\ ~torn => Paid({}))
      BY <1>10, VerdictType, SettledPaid DEF Step
    <3> QED
      BY <1>10, <2>1, <3>1, ReturnPays DEF Step
  <2>2. CASE ~(End \in NodesIn(run.nodes) \cup NodesIn(run.next))
    BY <1>10, <2>2, StepPays
  <2> QED
    BY <2>1, <2>2
<1>11. CASE Crash
  BY <1>11, ReturnPays DEF Crash, tallies
<1>12. CASE UNCHANGED graphVars
  BY <1>0, <1>12 DEF graphVars, tallies, Settling, AtHand, Paid, ToEnd
<1> QED
  BY <1>2, <1>3, <1>4, <1>5, <1>6, <1>8, <1>9, <1>10, <1>11, <1>12,
     ExecutePays, ResumePays, RunPays
  DEF GraphNext, CallGoesOn

LEMMA UntornStart == GraphInit => UntornThread
<1> SUFFICES ASSUME GraphInit PROVE Settling /\ AtHand
  BY TypedStart DEF UntornThread
<1>1. run.stage = "idle" /\ outcome = "none"
  BY NoLocals DEF GraphInit
<1>2. Paid({})
  BY DEF GraphInit, Never, Paid
<1> QED
  BY <1>1, <1>2 DEF Settling, AtHand

LEMMA UntornSkipsNothing == UntornThread => LonePausesSkipNothing
<1> SUFFICES ASSUME UntornThread, ~torn, orderly, outcome \in {"done", "failed"}, NEW n \in Nodes
             PROVE  ran[n] >= scheduled[n]
  BY DEF LonePausesSkipNothing, NothingSkipped
<1>1. Paid({})
  BY DEF UntornThread, Settling, AtHand
<1>2. ran[n] \in Nat /\ scheduled[n] \in Nat
  BY DEF UntornThread, Typed, Thread
<1> QED
  BY <1>1, <1>2 DEF Paid

\* A thread that is only resumed when it is paused has run, when it is over, every node
\* that was scheduled, if whatever paused was alone in its superstep.
THEOREM LonePausesNeverSkip == GraphSpec => []LonePausesSkipNothing
<1> QED
  BY UntornStart, UntornStep, UntornSkipsNothing, PTL DEF GraphSpec
=============================================================================
