# tulip-agents: a verification development

This directory holds TLA+ models of tulip-agents, the configurations that check
them with TLC, and proofs that TLAPS checks. Paths below are relative to the
repository (`src/tulip/...`).

The core of the system, and of this project, is the control layer: what decides
whether an agent's tool call runs, and with it what keeps a thread of work across
pauses and crashes. The control layer is small, concurrent (parallel calls of a
turn, several agents, several processes), durable (an approval file, a ledger,
an audit trail, checkpoints), and its promises are about histories ("an approval
is used once", "two people approve the same thing") that no unit test of one
call reaches.

| Module | What it is |
| --- | --- |
| `Approvals` | the approval store and the authority over it |
| `FileApprovals` | the same store in a file that several processes read and rename |
| `ControlPolicy` | `approve()` and `_combine()`, as operators |
| `GatedCalls` | `gate_tool` over `admit`, with workers, evidence, holds, spend, audit and crashes |
| `HeldCall` | what a held call is promised, in thirty lines; `GatedCalls` implements it |
| `EventBus` | the in-process event bus |
| `StateGraph` | one thread of a graph: supersteps, gates, pauses, checkpoints, crashes |
| `AgentTurns` | an agent's threads: runs, pauses, answers, continuations, cancellation, crashes |
| `Playbook` | a run of a version 2 playbook: the step graph, its calls, pauses, records and restores |
| `Fallback` | a chain of models behind circuit breakers |
| `RunnerEvents` | a box runner's events on their way to the gateway |
| `MC*` | constants for TLC; the `.cfg` files name the runs |
| `*Proofs` | theorems about the module of that name |

An operator named `Mut...` is a wrong variant of the operator after it, the way a
plausible bug would make it. No specification uses it; it shows that a property
can fail.

## Inventory

For each component: its state, its operations, whom it talks to, what is hard
about it, and what makes it correct.

### Control layer

**Approval store** (`control/approvals.py`). State: records by id, each with
labels, status, decisions and rejections; for the file variant, one JSON file.
Operations: `submit`, `decide`, `consume`, `get`, `pending`. An `ApprovalAuthority`
(rules with quorums, roles, delegations with deadlines, self-approval,
`count_once`) says who may decide. The gate submits and consumes, a command, a
service or a playbook decides. Hard: two callers redeem at once; several
processes share one file; the authority of a record is named only after the
record exists; quorums that share people. Correct when: one live record per
call, records only advance, a quorum of the right people behind every approval,
nobody decides its own call, everybody approved the same arguments, one use.

**Control policy** (`control/policy.py`). No state. `approve()` weighs labels,
sandbox, findings, verification, blast radius, cost and the scope's spend;
`_combine` lets a control model only tighten. Correct when monotone: more risk
never buys a weaker decision.

**Admission and gate** (`control/admission.py`, `gate.py`, `spend.py`). State:
the ledger's totals, the audit trail, and what a call in flight has read.
Operations: `gated()` (evidence, admission, hold, look at the record, weigh an
edit again, consume, perform, spend). Talks to store, policy, ledger, trail and
control model, with an await between most pairs. Hard: every pair of those calls
is a window; a crash anywhere; an edit that changes what was weighed; evidence
that differs from one call to the next. Correct when: one effect per approval,
only approved or allowed calls run, nothing denied runs, every effect has its
decision in the trail.

**Audit trail** (`control/audit.py`). State: a hash-chained file. Hard: two trail
objects on one file, a crash in the middle of a line.

**Permissions, shell and action rules, verification** (`control/permissions.py`,
`shell.py`, `action.py`, `verification.py`, ...). Pure functions over text.

### Agents

**Agent runs** (`agent/agent.py`, `runtime_loop.py`). State: the conversation, the
paused conversations in memory, the checkpoints, the runs in progress with their
cancel flags, one signal for all of them. Operations: `run`, `resume`,
`continue_turn`, `cancel`. Talks to the model, the tools, the checkpointer, and
through gated tools to the approval store. Hard: a pause is in memory, then saved,
then announced, and the save may fail; a reply with several calls is paused at one of
them; the process dies with calls in flight; a cancellation meets runs that begin and
end. Correct when: a pause in memory is never behind what was saved, an answer reaches
the call that was held, no call whose result is saved runs again, checkpoints do not go
back, a cancelled run stops.

**Construction, subagents, hooks, tools, memory, checkpoint backends.** Subagents
sit in an LRU registry; executors run calls in sequence or in parallel;
compaction rewrites messages; backends store checkpoints with an index per
thread. Hard: eviction during a conversation, an index updated by two processes.

### Multi-agent

**State graph** (`multiagent/graph.py`). State: the node outputs, the current nodes,
the checkpoint of a thread. Operations: supersteps of nodes in parallel,
interrupts before, after and inside nodes, resume. Hard: what of a superstep
survives when one of its nodes interrupts; what a restart makes of a step
checkpoint; gates in loops; `END` on one branch. Correct when: nobody passes a gate
without a resume there, a node runs on its predecessors' results, pausing repeats
and forgets nothing, a crash loses a superstep at most, every call returns.

**Playbooks** (`playbooks/v2/engine.py`, `approvals.py`). State: a status per step, the
branches taken, the calls admitted to and credited to each step, the decision; and
the trace, a record per change of a step. Operations: the hooks before and after a
call, `complete_step`, `complete_task`, `submit_decision`, `pause`, `unpause`,
`restore`. Hard: calls of several steps in flight together, a call that is held and
comes again, steps routed out one after another, a run that goes on in another
process from its trace. Correct when: steps wait for their turn, none waits for ever,
a call counts once, a closed step stays closed, the trace tells where the run is.

**Orchestrator, swarm, handoff, router, deep agent.** Fan-out over model calls.

### Around them

**Event bus** (`observability/event_bus.py`). State: histories per run, closed runs,
subscribers and their bounded queues. Operations: publish (a put per subscriber,
each with a timeout), subscribe, subscribe_global, close, drop, evict. Hard: a
publish goes on after others have subscribed, left or closed; full queues at
every point where something must get in. Correct when: events arrive once and in
order, a drop is always the fault of the subscriber's own queue, and whoever
waits is woken.

**Model fallback and credentials** (`models/fallback.py`). State: a circuit breaker per
tier: its state, recent failures, when it opened, whether its probe is out.
Operations: `complete`, `stream`, both over one loop of tiers. Hard: calls that began
before a breaker opened and end after it, a probe whose call fails for reasons of its
own or is cancelled, an exception on the way to the report. Correct when: a probe that is
out is being waited for, a call ends, a primary that recovers is used again.

**Box runner** (`runner/main.py`, `events.py`, `client.py`). State: the batch in memory,
the spool and the next event number in the box's volume. Operations: `emit`, `flush`,
the result's report, and a client that sends a call again when that is safe. Hard: an
answer that is lost, a batch replayed after others, a call that arrives long after it
was given up, a runner that dies or parks and another that goes on. Correct when: the
gateway's stream is what was emitted, once and in order, and a result is sent once.

**Clients, retrieval, voice, evaluation, harness, A2A, servers, integrations,
command line, security package.** Input, output and text around the above.

`PROJECT.json` lists every component with its sources and status, and every
hazard at its line with the property that covers it or the reason none does.

## How the models correspond to the code

### Approvals

Every operation of `_Approvals` runs under one lock around one load and one save,
so each is one action. A call is what `call_digest` hashes; an id is a call with
its generation, as in `appr-<digest>-<n>`; `NextId` counts the records of the
call, as `submit` does. The lists of decisions are sets, since nothing reads
their order. `Basis`, `Grants`, `Check`, `Narrowed`, `Satisfied` are the
authority's methods; the loop over delegations picks the first that fits
(`First`). `Tick` is the clock that delegations expire by.

An authority may be a callable over records, as playbooks use it. It can say
something about a record only after `submit` has returned its id and the caller
has stored the authority under it: `Install` is that step, and between the two
`Governed` is false and `DecideUngoverned` is what `_decided` does.

### FileApprovals

The file store's lock is a `threading.Lock`: one process's. An operation is two
steps, `Begin...` (read and compute) and `Save` (rename), and `WriterDies` between them
leaves the file as it was. Within a process no other operation comes in between;
between processes any may. `Gates` are processes that run agents, `Deciders` those
that decide.

### ControlPolicy and GatedCalls

`Denies` and `NeedsHuman` are the checks of `approve()`, by what they do when they
fire; the strongest wins. `GatedCalls` gives each worker (a parallel call of a
turn, or an agent) a stage, the name of the next thing `gated()` does:

    evidence -> weigh -> perform -> spend -> done
                     \-> hold -> look -> paused | turn down | [edit ->] reweigh
                                             reweigh -> redeem -> perform
                                             reweigh -> void   -> refused

`Issue` is a call of the tool, first or again on resume. `Modes` are the gates'
`on_refusal`: "raise" ends in an error, "return" refuses and names the approval,
"interrupt" goes on through the store. A step is the code between two awaits or
two lock-protected calls. `Crash` forgets the worker's stage and nothing else: the
store, ledger and trail are durable, and what the tool did is done. `effects` is a
history variable: what ran, and what the gate knew when it let it.

### HeldCall

Approvals open, are answered and closed; redeeming one closes it and gives a
permit; a permit is one run, or is lost. `Held` in `GatedCalls` maps to it: a
permit is a worker at stage "perform" with an approval.

### EventBus

No critical section of the bus awaits, so a method up to its next await is one
step. `publish` takes its list of subscribers under the lock and then puts into
their queues one at a time: `sending[p]` is what is left of that loop, its event and
who is still to get it; `Deliver`, `GiveUp` (the timeout) and `Cancel` are its ends.
Global subscribers are registered under the channel `Everything`. `last`, `since` and
`missed` are history variables that the properties compare with.

### StateGraph

One thread, that is one `thread_id` with a checkpointer, and one call of `execute()`
at a time. `run` holds the locals of that call and its `stage` the place it is at;
`checkpoint` is the thread's latest (`graph_state`, `interrupted_node`).

    idle -Execute, Resume-> loop -Proceed-> running -Gather-> settling -Step-> loop
                            loop -PauseBefore, LoopEnds-> idle
                            settling -SettleInterrupted, interrupt_after, END-> idle

A superstep's nodes execute in any order between `Proceed` and `Gather` (`RunNode`,
which stands for `Node.execute` with its attempts); after it their results are settled
in the order of the nodes, each by `SettleInterrupted`, `SettleCompleted` or
`SettleOther`. The graph's state is abstracted to how many updates of each node it
holds, routers and `Command(goto=...)` to a choice among `Routes`, an execution to a
choice among `Ends`. `Places` is the deduplication of `current_nodes`. `Crash` is the
end of the process, or an exception that leaves `execute()`: locals are lost and the
checkpoint stays. A call that dies after its last save is to the thread one that
returned.

`scheduled`, `ran`, `gated`, `passed`, `orderly` and `torn` are history variables. A
thread is orderly as long as it was started once and each later call resumed it
from a pause; `torn` says that some pause had company in its superstep.

### AgentTurns

A conversation is what the properties tell apart of `AgentState.messages`: the last
reply with tool calls, what was folded for each of its calls, and whether the model has
answered since. A call is `<<thread, reply, position>>`; it is plain, gated, or a
question to a person (`ask_user`). A thread has one segment at a time, since its caller
drives or closes a generator before it starts the next; threads run together.

    none -Run, ContinueTurn-> loop -Top-> model -Reply-> tools -FoldBatch, AllInOrder-> loop
    none -Resume-> folding -Fold-> loop      tools -Interrupts, InOrder-> pausing -Pause-> paused
    pausing -PauseFails-> stopped;           pausing -PauseMislaid-> tools
    loop, model, tools -Top, Answer, Fails-> stopped;  stopped, paused -Clear-> ending -EndRun-> none

`run()` executes a reply's calls together (`Executes`, `Interrupts`, `FoldBatch`, its
phases 1 to 3) and drops the results of a reply that pauses; a resumed or continued
segment executes them in order and folds each at once (`InOrder`). Whether an iteration
is checkpointed is a choice, so every `checkpoint_every_n_iterations` is covered. `Top`
stands for every way the loop ends by itself. `Fold` is `_fold_resume_response`: `Dangling`
is the call it answers. A hook may cancel a call ("cancelled") or raise (`HookRaises`,
`FailsToRun`). `Clear` and `EndRun` are the `finally` of a segment.

Any save may raise, with or without the checkpoint written (`MaySave`). One that raises
at an iteration's end or a pause stops the run; one in `_checkpoint_final` is swallowed.
A pause is parked before it is saved, so after `PauseFails` it is in memory and the
checkpoint may be an older conversation: `resume()` goes on from it, `continue_turn()`
refuses, and a process that dies has lost it. In `run()` the save is inside the `try`
that reads the held call's result as JSON (`runtime_loop.py:1691-1711`), so that a
`ValueError` or a `KeyError` of the save is taken for one of the result: `PauseMislaid`,
after which the run goes on although its thread is paused. `mislaid` remembers these
threads.

`filed`, `approved` and `denied` are what the approval store has: the gated calls it was
asked about, which a gate files when it holds one, whether the run is told or not, and
what a person decided about them, which may be at any time later. They are taken as
`HeldCall` promises: redeeming uses an approval up, and a call is decided once. `Crash`
keeps the checkpoints and the approval store. `asked`, `told`, `ran`, `settled`,
`replied` and `mislaid` are history variables.

### Playbook

The definition of a playbook is a value of the variable `playbook`, chosen once, so one
run of TLC covers many. `Gate`, `Ready`, `Waived`, `Activated` are `_gate`, `_readiness` and
the two halves of `advance()`; `Waived` is the least set its loop reaches. `Admit` and
`Credit` are the hooks around a call: `owners` is `_owners`, per tool the steps of the
admissions not credited yet, oldest first. `Unfinished` is a call whose after-hook is
never called, because a later hook cancelled it or a cached result answered it. `record`
is the trace: the last `playbook_step` record of each step; `Restore` builds the runtime
anew from it, in this process or in another. `fruitless` is a history variable: the
credited calls of a step that did not run or failed, which `attempts` counts too.

### Fallback

Code between two awaits is one step: `Begin` and `GoOn` go down the tiers to the one that
admits the call, `Served`, `ProviderFails`, `RequestFails`, `Unreported`, `Cancel` are the
ways the await of the tier's model ends, `StreamEnds` is the rest of a stream. A breaker's
times are ages that stop growing when they are past everything they are compared with, so
that the clock can run for ever. `left` is a history variable of a breaker: a call that had
the probe ended and told it nothing. There are three ways to that:

- `tier.model.stream(...)` or its `__aiter__()` raises (`fallback.py:468-469`, outside the
  `try`): the second half of `Send`, which for the forced primary is in `Begin`;
- `should_fallback` raises in `_handle_failure` (537, before 546-549): `Unreported`;
- the task is cancelled in `_aclose` of a stream that failed (481): `Unreported`.

The claimed probe then stays: a half-open breaker with its probe out refuses (179) until
another call reports to it, and when another tier is closed no call is sent there again.

### RunnerEvents

A runner is one task; a step goes from one attempt at a call to the next. `Reach` is the
gateway handling the call, `Answered` its answer coming back; a call that fails in
between was handled and its runner does not know. `Loses` and `ReachLate`: a call given up
may arrive at any later time. The gateway is external, and does what the client relies
on: it drops the events whose numbers it has. A runner whose agent cannot be built
reports that and ends.

## What the runs check

Each `.cfg` is a run of the module named in `PROJECT.json`. Fairness is assumed where a
property says that something happens:

- `FairGraphSpec` has weak fairness of the next step of a call of `execute()`. That is
  what an event loop gives a coroutine, provided the node executions it awaits end; the
  repository's own provision for that is a node's `timeout_ms`.
- `Fallback!FairSpec` has weak fairness of the clock, of a task's next call and of the end
  of each attempt (the client's timeouts), and strong fairness of the primary serving a
  call that is sent to it while it is up: not every call is cancelled or itself at fault.
  Without that a recovered primary may be sent nothing but bad requests, which
  say nothing about its health.
- `RunnerEvents!FairSpec` has weak fairness of the end of the agent's run and of each
  attempt at a call, which the client's timeout ends one way or the other. The gateway
  owes nothing.

Crashes, new calls, answers and outages have no fairness. `CHECK_DEADLOCK FALSE` is set
because the models end, their counters being bounded and their calls over (`Fallback`
runs for ever).

| Run | Bounds | Shows |
| --- | --- | --- |
| `MCApprovals` | 1 call, 2 generations, 4 people of 2 groups, 2 grants, 1 tick, 1 edit, `count_once`, an authority per record | one live record, quorum by people with standing, separation of duties, one set of arguments, each group its own people, records only advance |
| `MCFileApprovals` | 1 process, quorum of 2, 2 generations, an edit, crashes | the file implements `Approvals`, and an approval is used once |
| `MCGatedCalls` | 2 workers, 2 issues each, 1 call, 1 edit, 3 kinds of evidence, pausing and returning gates | one effect per approval, effects were approved, nothing denied runs, effects are audited, `HeldCall` is implemented |
| `MCGatedUnheeded` | 1 worker, 3 issues | *violated*: `DenialsAreHeeded` |
| `MCEventBus` | 2 runs of which 1 is retained, queues of 2, history of 1, 2 subscribers, 1 global, 1 publisher, 3 events | once and in order, no silent gaps, closed streams end |
| `MCStateGraph` | 4 nodes, 3 calls of at most 4 iterations, 3 configurations | gates hold, nodes run on their predecessors, pauses repeat nothing, lone pauses skip nothing, a crash loses one superstep, every call returns |
| `MCStateGraphForgets` | the same | *violated*: `NothingSkipped` |
| `MCAgentTurns` | 1 thread with 2 replies, which ask or have a gated call before a plain one; 1 thread that only talks; 3 segments between them | a pause in memory is not stale, calls run once, checkpoints go forward, settled calls stay settled, cancelled runs stop |
| `MCAgentHeldCall` | 1 thread, replies with a plain call before a gated one | *violated*: `AnswerReachesTheHeldCall` |
| `MCFallback` | 2 tiers, 2 tasks, threshold 2, window and cooldown 1 | probes are under way unless left, calls end, a recovered primary is trusted again |
| `MCPlaybook` | every acyclic playbook of 3 steps whose branch targets come after their routers, with one group or none, and 5 others, two of which have a step with two routers; 3 calls, 1 pause, 1 restore | steps wait for their turn, nothing is stuck, the trace tells where the run is, calls count once, closed steps stay closed |
| `MCRunnerEvents` | batches of 2, 4 events, 3 runners, 1 retry | every event is kept, recorded once, a result is reported once, runners end |

Why the bounds are enough to meet the hazards:

- Approvals: two generations are a call held again after its record was consumed;
  one person in both groups and one requester who lends its authority are the
  cases `count_once` and separation of duties exist for; a grant that expires at
  the last tick is used before and at its deadline. The theorems below lift these
  properties to every bound.
- FileApprovals: one lost update needs two processes and one operation of each.
- GatedCalls: two workers race for one approval; two issues each are a pause with
  its resume, a crash with its retry, and a second call after a first. Evidence
  that passes, falls short or fails, chosen anew at each look, is every way the
  two weighings of one call can disagree. The call's cost and the edit's differ.
- EventBus: each buffer is smaller than the number of events, so each overflows;
  one retained run of two makes every second publish evict. The history is
  smaller than the queue, as with the defaults.

- StateGraph: two branches that join, a node that leads to itself, one that asks a
  person, one that fails and one that is skipped are each way a superstep can go.
  Three calls are a start and two resumes, so a gate is met again after it was
  passed; four iterations are the loop entered twice. Each call picks its own
  configuration: no gates, a gate on the loop, or a gate on one branch with a
  pause after the last node and no checkpoint per step.

- AgentTurns: three segments are a run, an answer to its pause and one more of any kind,
  with any of the saves between them failing; the replies have a held call first and
  alone, and `MCAgentHeldCall` has one that comes second. The second thread is what a
  cancel-all meets while the first begins or ends.
- Playbook: three steps are a router with two targets, a chain that is routed out, and a
  pair of parallel steps with what follows; the larger ones add joins, a person's step,
  ceilings and floors of calls. `TwoRouters` is the playbook of the restore test
  (`tests/unit/playbooks_v2/test_restore.py:241-284`), in which two steps lead to a third
  that comes after neither; `EitherLook` is one like it whose routers may close as not
  executed. Three calls are two in flight with a third over the
  ceiling of a step.
- Fallback: a call begun before a breaker opened comes back while another probes the
  tier; a threshold of two lets a failure age out of the window before the next.
- RunnerEvents: a full batch, one of a single event, and a spool of both that is replayed
  in part; the third runner numbers on from the second.

`MCGatedCalls` and `MCEventBus` use symmetry where the
permuted values are interchangeable and the properties are invariants, or a
refinement whose steps do not name them.

## Disagreements between code and documentation

Three runs end in a counterexample; each contradicts a sentence of the repository,
quoted in `PROJECT.json`.

1. `MCGatedUnheeded`: a re-issued call is admitted on fresh evidence before the
   store is asked, so a call a person denied runs when its evidence has improved.
   In the same way an approver's edit is ignored.
2. `MCStateGraphForgets`: a resumed graph runs the interrupted node alone. The
   `pending_nodes` a pause saves are read by nobody, and what the other nodes of its
   superstep returned is lost unless they settled before it; their successors are
   lost in every case. The thread then ends as a success.
3. `MCAgentHeldCall`: a pause leaves all calls of its reply unanswered, and the answer is
   folded into the first of them. With a plain call before the held one,
   `resume(perform_dangling=True)` performs the plain call and never the approved one.

More are found by the models at hand, with other constants or one more invariant than the
runs of this project have:

- `QuorumOfAuthority` as an invariant of `MCApprovals.cfg`: a decision between `submit` and
  the installation of the record's authority settles the call without any quorum, since
  no authority yet looks the same as none at all (`approvals.py:538`). The example of
  `playbooks/v2/approvals.py:670` calls `submit` first.
- `UsedOnce` in `MCFileApprovals.cfg` with a second process and a second call: a decision
  about one call, saved by another process, puts a consumed approval of another call
  back, and it is used twice.
- `close_global` on a full queue drops the end marker and forgets the subscriber
  (`event_bus.py:304`), who waits for ever: an invariant that says of every waiting
  subscriber that it is still registered fails in `MCEventBus` with a second publisher.
- `ProbeIsUnderWay` without `left` fails in `MCFallback`: `_handle_failure` asks the user's
  `should_fallback` before it tells the breaker, and `stream()` and `__aiter__()` of a tier's
  model are called outside the `try`, so that a claimed probe is never given back.
- `PauseIsNotStale` without `mislaid` fails in `MCAgentTurns`: `run()` takes a `ValueError` or
  a `KeyError` of the checkpointer at a pause for one of the held call's result, and goes on
  with its thread paused in memory; a later answer to that pause then starts from the older
  conversation, and a call that a checkpoint has an answer to may take effect.

Smaller observations, made while modelling and not stated as properties:

- `_register`'s comment says the oldest entries of a long history are dropped; the
  code keeps the oldest and drops the newest. With a history as long as the queue
  the end marker of a closed run is lost as well, so `ClosedStreamsEnd` is checked
  with a shorter one.
- A run evicted from the bus is unknown again: its late subscriber waits, closed or
  not.
- The spend limit is read before and written after the effect. It bounds one
  call after another; calls in flight together, or a crash after the effect, pass
  it. `NothingDeniedRuns` therefore weighs an effect against the policy with
  nothing spent.
- `_combine`'s docstring says asking the control model about a held action could
  not change the answer; a "deny" would.
- A finding lost altogether, unlike a weaker one, loosens the policy: `Weaker` and
  the findings in `RiskNeverLoosens` are stated accordingly.
- A gate that returns its refusal submits the call without its labels, and
  nothing in the gate redeems that approval.
- A graph's gate and the gated node's own `interrupt()` share one resume value, so the
  approval of the gate is taken for the node's answer. A `Send` to a node of
  `interrupt_before` runs it without its gate, and an interrupt inside a `Send`'s
  target, or inside a subgraph, does not pause the graph.
- `interrupt_after` ends the call with a validation error, since the model of a pause
  requires an interrupt to show (`GoesOn`, outcome "raised").
- A resume of a thread whose latest checkpoint is not a pause starts over from `START`
  with the saved state; so does one after a crash, and one delivered twice.
- A call cut off by `max_iterations` is reported as a success.
- The example in `resume`'s docstring resumes inside the loop over the events of the run
  that paused. When that outer loop then closes, its `finally` saves the paused
  conversation over whatever the resumed segment has saved (`_checkpoint_final`), although
  its comment says a resume never downgrades durability. `AgentTurns` has one segment per
  thread at a time and does not show it.
- A cancel-all also stops a run that started after it, when another run was still to clear
  the signal; one that comes between the clearing and the end of a run stops the next.
- Two processes that rehydrate the same pause both perform its plain calls.
- Of a breaker's promise of a single probe: a call that began before the breaker opened
  and fails for its own reasons releases the probe of another call, and a second probe
  goes out.
- A step waived because its router was is not settled as a router itself: a branch target
  that does not come after it waits for ever when nothing else leads to it. Parsing
  (`engine.py:531-615`) allows such playbooks; `NothingIsStuck` is about those whose targets
  come after their routers (`WellBuilt`), and about `TwoRouters`, where it holds as well.
- A call admitted to a step and never credited (a later hook cancelled it, or a cached
  result answered it) leaves its admission at the head of its tool's queue, and the next
  call's credit goes to that step.
- A restored playbook has no decision, so a second one can be submitted; a router that
  closed as `not_executed` is restored as if it had enabled every target that was not
  waived, so one that still waits for a second router is opened. So is one that a waived
  router leads to, which in the live run may wait for ever. `TraceTellsWhereTheRunIs` leaves
  out exactly these waiting steps (`Vague`), not the playbooks that have them.
- `_write_seq` swallows an `OSError` (`main.py:139-140`), and the spool is rewritten in place,
  so that a failing disk, or a death in the middle of the rewrite, loses what the model has
  both keep: there they succeed as one step each.
- A runner that dies before `_write_seq` has the next one reuse its numbers, and the gateway
  drops the new events as known. A 4xx during the replay of the spool leaves the spool as
  it was, and every later flush fails on it. The last flush's `False` is ignored, so what it
  spooled stays in the box when no runner follows.

## What is proved

TLAPS checks the theorems for every value of the constants that satisfies the
modules' named assumptions, without the bounds of the runs.

- `ApprovalsProofs`, from `AuthorityAssumption`: `TypeCorrect`,
  `RecordsAdvance` (a decided record keeps its answer, a consumed one is final),
  `InstalledInTimeCorrect` and `SeparationOfDuties` from the invariant `AllBacked`,
  `ArgumentsCorrect` from `AllAgreed`, `OneLiveCorrect` and `CountingCorrect`.
  `QuorumCorrect` assumes `~PerRecord`, an authority that exists before any
  record does: without it the property is false, as described above. `EachGroupCorrect`
  assumes `CountOnce`, which the property is about.
  None of these properties is inductive. That an approved record has its quorum
  needs to know that each of its decisions was made on a basis with standing
  (`AllBacked`), and that a settled set of approvals agrees needs to know that every
  partial set did (`AllAgreed`). That `submit` makes up a new id needs
  `Counting`: no generation is above the number of the call's records. Every decision
  goes through `Outcome`, the lemma that says what a decision can do to a record.
  For `EachGroupCorrect` the quorums of the rules are counted as seats, pairs of a rule and
  a number up to its quorum: an approval of a waiting record fills the next seat of one
  rule that is short (`OneMoreSeat`), so that there are as many approvers as filled seats
  (`Seated`).
  Of the store in one file, with `OneAuthority` (an authority that does not depend on the
  record, as the command line and the gate have it): `OneProcessImplements` and
  `OneProcessUsesOnce` say that one process, whose threads share a lock and which may
  die at any point, implements `Approvals` and uses an approval once. The invariant is
  `UpToDate`: what a process is about to save is what an operation makes of the file as it is
  now, since nobody else has written since it read. With several processes that is false,
  and so are both properties; `SharedFileIsSound` says what still holds then. Whatever
  order the processes read and rename in, what the file holds is approved by the quorum of
  its authority, with nobody dealing for itself, on one set of arguments, and with one live
  record per call. Each process makes what it saves of a content that had these properties,
  and adds one record or changes one (`MadeIsSound`); a lost update brings an older content
  back, which had them too. What a lost update breaks is only that records advance.
- `GatedCallsProofs`, from the assumptions of the store, the policy (`NoneIsNoNumber`) and
  `GateAssumption`. About the policy alone: `AdviceOnlyTightens` (a control model makes a
  decision stricter or leaves it) and `RiskNeverLoosens` (an action with more labels, cost
  or reach, less evidence and less of a sandbox is decided at least as strictly). About the
  gate: `GateInvariant` establishes `Gate`, and from it `GateTypeCorrect`,
  `OneEffectCorrect`, `HeldEffectsCorrect`, `NothingDeniedCorrect` and `AuditCorrect`,
  for any number of workers, calls and crashes. `Gate` says for each stage of a
  worker what must already be true (`OnItsWay`: before "redeem" the evidence is about
  the arguments that will run, and the record approved these arguments), for each
  effect what let it happen (`Grounded`, `Backing`), and that a redeemed approval is
  with one worker or in one effect and never both (`Exclusive`). It is needed
  because a worker acts on what it read several steps ago: the properties hold
  only since what it read is final by then.
  `GateUsesTheStore` proves that every step of the gate is a step of `Approvals`, so
  the store's theorems hold under the gate (`ApprovalsUnderTheGate`).
  `PromiseKept` proves that the gate implements `HeldCall`, step by step
  (`PromiseStep`): a step of one worker holds, answers, redeems, runs or loses at
  most one permit. `RunsAtMostOnce` is about `HeldCall` itself, from `Promise` (a permit is
  for a closed approval that has not run).
- `StateGraphProofs`, from `GraphAssumption`: `GraphTypeCorrect`, `GatesAlwaysHold`,
  `AlwaysRunsOnItsPredecessors`, `CrashAlwaysLosesOneSuperstep`, `PausesNeverRepeat` and
  `LonePausesNeverSkip`, for every graph, routing and configuration. Each has an invariant
  of its own over the locals of a call and the checkpoint, needed because a property of
  what has run rests on what a paused or running call still may do: `OneGate` (a resume is a credit
  for one execution of one node, which its place in the first superstep holds until
  it ends), `FedNodes` (successors and the node of a pause have a predecessor in the
  state), `SavedSteps` (between supersteps everything merged is saved), `Owing` (a
  node in a superstep, or paused at, is owed an execution) and its converse `AtHand`
  (what an untorn thread is owed is in its superstep, or it is paused there). The lemmas
  `StartLocals` to `StepLocals` say what each step does to the locals and are shared by
  all six.
- `EventBusProofs`, from `BusAssumption` and `EndAssumption`: `BusTypeCorrect`,
  `AlwaysOnceAndInOrder`, `NeverSilentGaps` and, for histories shorter than the queues,
  `ClosedStreamsAlwaysEnd`, for any number of runs, subscribers, publishers and events. A
  publisher's events in a queue lie between two numbers (`Ordered`): the last the
  subscriber saw, and the one its publisher is about to put or would give its next event
  (`High`). Each step keeps a queue ordered between its bounds, or raises the upper one; a
  replayed history fits below it because nobody sends to a subscriber that has not come
  (`Fresh`). `Gapless` says the same of what is missing, event by event, and `Ending` that
  who reads a run and is no longer on its list has the end marker.
- `AgentTurnsProofs`, from `TurnsAssumption`: `TurnsTypeCorrect`, `PauseNeverStale`,
  `CheckpointsAlwaysForward`, `SettledAlwaysStaySettled`, `CancelledAlwaysStop` and
  `CallsAlwaysRunOnce`, for any number of threads, replies, calls of a reply, segments,
  crashes and failing saves. The invariant `Turns` says of each thread in which stages of a
  run a pause may be in memory, and that it is then the run's own conversation (`Records`),
  and that neither the checkpoint, nor the pause, nor the run in progress is behind an answer
  that was ever saved (`Known`); without the last a run could save an older conversation.
  Both are about threads that are not in `mislaid`, and so are the three properties that
  rest on them; how often a call takes effect and that a cancelled run stops are proved of
  every thread. `CallsAlwaysRunOnce` adds `Once`: while a caller has a pause to answer, the
  checkpoint is that pause or has no open call (`Asking`), so that what an answer performs is
  the held call or one before it; an approval is for a call that has not run, and a plain
  call that a run has still to execute has not run either (`Counts`). That nobody decides
  about a call that was not made is `Register`.
- `PlaybookProofs`, from `PlaybookAssumption`: `PlaybookTypeCorrect`, `StepsAlwaysWait`,
  `CallsAlwaysCountedOnce` and `ClosedAlwaysStayClosed`, for every definition of steps, any
  tools and any number of calls, pauses and restores. The invariant `Playing` has two parts.
  `Graph`: a step that has begun waited for its turn, a route is settled only when its step
  has closed, and the records agree with both, which is what a restore needs to know.
  `Ledger`: what is counted against a ceiling is what was credited, ran or not, and what is
  still to be credited, one for one; it counts admissions as pairs of a tool and a place in its queue, and a credit is an injection of
  the places left into those before (`AdmTail`).
  `TraceAlwaysTells` is of every definition too, and leaves out the waiting steps of which
  the records do not say enough (`Vague`). Its invariant `Told` says that, as long as a step
  is left, no waiting step is routed out (`NoneOut`: `advance()` has waived them all,
  `WaivedIsClosed`), the finished steps have settled their branches (`Routes`), which a
  decision does not but then nothing is left, and the records have what the done ones took
  (`Recalls`). `NothingEverStuck` alone assumes something of the definitions, that they are
  `WellBuilt`: the steps do not wait for one another in a circle, and branches lead to steps
  that come after. Among waiting steps one then waits for no other, and once all that is
  routed out is waived that one is ready (`FreeIsReady`). `MCPlaybook` has TLC confirm that
  the definitions of its run are `WellBuilt`, but for that of the restore test, which is not.
- `FallbackProofs`, from `ChainAssumption`: `ChainTypeCorrect` and `ProbeAlwaysUnderWay`,
  from the invariant `Chain`: of every probe that is out, a task is still at its tier, or one
  ended without telling the breaker (`left`).
- `RunnerEventsProofs`, from `RunnerAssumption`: `AlwaysRecordedOnce`,
  `AlwaysReportedOnce` and `AlwaysKeepsEveryEvent`, for every size of a batch and any number
  of events, runners, retries, lost calls and late ones. What makes the first hold is
  `Numbered`: an event has one number wherever it is (the buffer, a batch, the spool, a call
  that was given up), and once it is recorded the gateway has seen that number, so that no
  copy of it is taken again. The second rests on `ReportsOnce`: the result of a runner is with
  the gateway, in one call that was given up, or still to be sent. The third is about runs
  without a death or a refusal, and its invariant `Unbroken` says where each event is: what
  the gateway has, each event under its own number (`Recorded`), what is spooled, in hand and
  buffered follow on from one another without a gap (`Lined`), and no late call is ahead of
  what the gateway has (`LateBehind`), so that nothing it drops as seen is new.

Every invariant that a run checks is the subject of a theorem. Out of the prover's reach, and
left to TLC, are liveness and `ENABLED`: `CallsReturn`, `CallsEnd`, `PrimaryIsTrustedAgain`,
`RunnersEnd`. The theorems with a hypothesis beyond their module's assumptions are those
named above: `QuorumCorrect`, `EachGroupCorrect`, `OneProcessImplements`,
`OneProcessUsesOnce`, `SharedFileIsSound`, `ClosedStreamsAlwaysEnd` and `NothingEverStuck`.
Some properties leave out what follows a step of the code that breaks them, and say which:
`PauseIsNotStale`, `SettledCallsStaySettled` and `CheckpointsGoForward` (`mislaid`),
`ProbeIsUnderWay` and `PrimaryIsTrustedAgain` (`left`), `TraceTellsWhereTheRunIs` (`Vague`).

## What is not modelled

The reasons are in `PROJECT.json`, component by component. In short: text (parsing
of commands, prompts, serialisation, hashes), input and output (providers,
databases, servers), and adapters. Within modelled components: the order inside a
record's lists, timestamps other than deadlines, what a held record shows its
approvers, the file ledger (its lost updates are those of `FileApprovals`), the
trail's file, and a put of the bus that times out in the very turn of the event
loop that made room for it. Of the graph: `Send` fan-out, runs without a checkpointer
(the caller carries the resume node then), `aupdate_state` and `afork`, subgraphs, the
node cache, and two calls on one thread at once. `END` among several successors ends
the graph whatever the others are, and the model does the same.

Of an agent's runs: two segments of one thread at once, runs without a thread,
`update_state` and forks, hooks that ask for a retry, a resume inside the loop over the
events of the run that paused, verification and compaction beyond that they end a run or an
iteration, and a second approval of a call that is held again after it took effect. Of
playbooks: conditions, forms and selections are choices, and `ask_user` questions are left
out. Of the fallback: the pool of keys. Of the box runner: its manifest, its build and the
commands the gateway answers with.

The sessions of `integrations/fastmcp.py` are not modelled. Reading them showed what a
model should look at: `_close_identity` deletes the lock of a key between its release and
the wake-up of a waiter, so that a third caller makes a new lock and two sessions of one
identity are opened; `_evict_idle` goes over a snapshot across awaits and can close a busy
session that was opened since under the same key; two requests that find the default session
dead both connect, and the first of the two runners is never closed.

## Plan

What a continuation of this project would take up, in this order:

1. `DurableRun`: the workflow of `durable/dbos.py`, agent segments that run at most
   once, the event that tells what is pending, and the messages that answer it.
   Properties: a segment is never repeated, an answer is taken by the pause it
   answers, a workflow with answers ends (a liveness property under the engine's
   recovery). An answer sent twice is the case to look at: the second is a message
   like any other.
2. `McpSessions`: the session cache described above, with its locks, its eviction and its
   shutdown. Properties: one session per identity, no session in use is closed, none is
   left open after a shutdown.
3. `AgentTurns` with a resume while the run that paused is still closing, and two processes
   on one checkpoint.
4. Proofs: that the gate over the file store of one process is the gate over `Approvals`, by
   composing `OneProcessImplements` with `GateUsesTheStore`; the modules above.
