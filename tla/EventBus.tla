------------------------------ MODULE EventBus ------------------------------
(***************************************************************************)
(* The in-process pub/sub bus of tulip.observability.event_bus: a channel  *)
(* per run with a replayed history, global subscribers, bounded queues and *)
(* an end marker that terminates a subscriber's loop.                      *)
(*                                                                         *)
(* No critical section of the bus awaits, so a method's code up to its     *)
(* next await is one step; publish() alone goes on after it, and delivers  *)
(* to the subscribers it found one put at a time while everybody else      *)
(* runs.  Publishers are the tasks that await emit().  An operator named   *)
(* Mut... is a wrong variant of the one after it.                          *)
(***************************************************************************)
EXTENDS Naturals, Sequences, FiniteSets, SequencesExt

CONSTANTS
    Runs,
    Everything,     \* what a global subscriber listens to, as if it were a run
    Subscribers,    \* each subscribes at most once
    Publishers,
    QueueSize,      \* max_queue_size
    HistoryPerRun,  \* history_per_run
    MaxRuns,        \* max_runs_retained
    MaxGlobals,     \* _max_global_subscribers
    End,            \* the sentinel None
    MaxEvents       \* bound: events published

ASSUME BusAssumption ==
    /\ Everything \notin Runs
    /\ \A size \in {QueueSize, HistoryPerRun, MaxRuns, MaxGlobals} : size \in Nat \ {0}
    /\ MaxEvents \in Nat

Channels == Runs \cup {Everything}
Event == [run: Runs, by: Publishers, n: 1 .. MaxEvents]
ASSUME EndAssumption == End \notin Event

VARIABLES
    history,    \* _history: run -> its last events
    retained,   \* the runs of _history, in insertion order
    closed,     \* _closed_runs
    registered, \* _queues, and _global_subscribers under Everything
    queue,      \* per subscriber: what its queue holds
    reader,     \* per subscriber: "new", "reading" or "done"
    target,     \* per subscriber: the channel it reads
    sending,    \* per publisher: its event and who is still to get it
    published,  \* history variable: every event, in the order of publishing
    last,       \* history variable, per subscriber: the number of the last event of each
                \* publisher that its loop yielded
    since,      \* history variable, per subscriber: events before it registered
    missed      \* history variable, per subscriber: what was dropped for it

busVars == <<history, retained, closed, registered, queue, reader, target,
             sending, published, last, since, missed>>

Reading(s) == reader[s] = "reading"
Listens(s, c) == Contains(registered[c], s)
Idle == [event |-> End, to |-> << >>]
Sends(p) == sending[p].to # << >>
SeenNothing == [p \in Publishers |-> 0]

\* The buffers keep their bounds, whatever is published, and nobody is registered
\* twice or on two channels.
TypeOK ==
    /\ \A r \in Runs : /\ history[r] \in Seq(Event) /\ Len(history[r]) <= HistoryPerRun
                       /\ history[r] # << >> <=> Contains(retained, r)
    /\ IsInjective(retained) /\ Len(retained) <= MaxRuns
    /\ closed \subseteq Runs
    /\ \A c \in Channels : IsInjective(registered[c])
    /\ Len(registered[Everything]) <= MaxGlobals
    /\ \A s \in Subscribers :
          /\ queue[s] \in Seq(Event \cup {End}) /\ Len(queue[s]) <= QueueSize
          /\ \A c \in Channels : Listens(s, c) => Reading(s) /\ target[s] = c

Init ==
    /\ history = [r \in Runs |-> << >>] /\ retained = << >> /\ closed = {}
    /\ registered = [c \in Channels |-> << >>]
    /\ queue = [s \in Subscribers |-> << >>]
    /\ reader = [s \in Subscribers |-> "new"]
    /\ target = [s \in Subscribers |-> Everything]
    /\ sending = [p \in Publishers |-> Idle]
    /\ published = << >>
    /\ last = [s \in Subscribers |-> SeenNothing]
    /\ since = [s \in Subscribers |-> 0]
    /\ missed = [s \in Subscribers |-> {}]

ReadersUnchanged == UNCHANGED <<queue, reader, target, last, since, missed>>

(***************************************************************************)
(* Publishing                                                              *)
(***************************************************************************)

Latest(events) ==
    SubSeq(events, IF Len(events) > HistoryPerRun THEN Len(events) - HistoryPerRun + 1 ELSE 1,
           Len(events))

\* _evict_old_runs_locked: at most one run is over the limit, the oldest.
Evicted(runs) == IF Len(runs) > MaxRuns THEN {Head(runs)} ELSE {}

Remembers(r, event) ==
    LET runs == IF Contains(retained, r) THEN retained ELSE Append(retained, r)
        gone == Evicted(runs)
    IN  /\ history' = [x \in Runs |->
              IF x \in gone THEN << >>
              ELSE IF x = r THEN Latest(Append(history[r], event)) ELSE history[x]]
        /\ retained' = IF gone = {} THEN runs ELSE Tail(runs)
        /\ closed' = closed \ gone

\* The subscribers are looked up when the event is sent, past the lock.
MutPublish(p, r) ==
    /\ ~Sends(p)
    /\ Len(published) < MaxEvents
    /\ LET event == [run |-> r, by |-> p, n |-> Len(published) + 1]
       IN  /\ Remembers(r, event)
           /\ published' = Append(published, event)
           /\ sending' = [sending EXCEPT ![p] =
                  [event |-> event, to |-> SetToSeq({s \in Subscribers : reader[s] # "done"})]]
    /\ UNCHANGED registered /\ ReadersUnchanged

Publish(p, r) ==
    /\ ~Sends(p)
    /\ Len(published) < MaxEvents
    /\ LET event == [run |-> r, by |-> p, n |-> Len(published) + 1]
           to == registered[r] \o registered[Everything]
       IN  /\ Remembers(r, event)
           /\ published' = Append(published, event)
           /\ sending' = [sending EXCEPT ![p] = IF to = << >> THEN Idle
                                                ELSE [event |-> event, to |-> to]]
    /\ UNCHANGED registered /\ ReadersUnchanged

Next1(p) == Head(sending[p].to)
MovesOn(p) ==
    sending' = [sending EXCEPT ![p] =
        IF Len(@.to) = 1 THEN Idle ELSE [event |-> @.event, to |-> Tail(@.to)]]

BusUnchanged == UNCHANGED <<history, retained, closed, registered, published>>

Misses(s, events) == missed' = [missed EXCEPT ![s] = @ \cup events]

\* _deliver: the put goes through.  A queue nobody reads any more takes it too.
Deliver(p) ==
    /\ Sends(p)
    /\ LET s == Next1(p)
       IN  /\ Len(queue[s]) < QueueSize
           /\ queue' = [queue EXCEPT ![s] = Append(@, sending[p].event)]
    /\ MovesOn(p)
    /\ BusUnchanged /\ UNCHANGED <<reader, target, last, since, missed>>

\* The timeout ends the publish, not only the put.
MutGiveUp(p) ==
    /\ Sends(p)
    /\ Len(queue[Next1(p)]) = QueueSize
    /\ Misses(Next1(p), {sending[p].event})
    /\ sending' = [sending EXCEPT ![p] = Idle]
    /\ BusUnchanged /\ UNCHANGED <<queue, reader, target, last, since>>

\* _deliver: the put timed out on a full queue; the event is dropped for that
\* subscriber and the publish goes on to the others.
GiveUp(p) ==
    /\ Sends(p)
    /\ Len(queue[Next1(p)]) = QueueSize
    /\ Misses(Next1(p), {sending[p].event})
    /\ MovesOn(p)
    /\ BusUnchanged /\ UNCHANGED <<queue, reader, target, last, since>>

\* The publishing task is cancelled in a put.
Cancel(p) ==
    /\ Sends(p)
    /\ missed' = [s \in Subscribers |->
          missed[s] \cup IF Contains(sending[p].to, s) THEN {sending[p].event} ELSE {}]
    /\ sending' = [sending EXCEPT ![p] = Idle]
    /\ BusUnchanged /\ UNCHANGED <<queue, reader, target, last, since>>

(***************************************************************************)
(* Subscribing                                                             *)
(***************************************************************************)

Starts(s, c) ==
    /\ reader[s] = "new"
    /\ reader' = [reader EXCEPT ![s] = "reading"]
    /\ target' = [target EXCEPT ![s] = c]

Registers(s, c) ==
    /\ since' = [since EXCEPT ![s] = Len(published)]
    /\ registered' = [registered EXCEPT ![c] = Append(@, s)]
\* The subscriber is gone and its queue stays.
MutRemoved(s) == registered
Removed(s) == [c \in Channels |-> RemoveFirst(registered[c], s)]

\* _register: the history as far as the queue holds it, from the oldest on, and
\* the end at once when the run is closed and there is room for it.
Subscribe(s, r) ==
    /\ Starts(s, r)
    /\ LET fits == SubSeq(history[r], 1, IF Len(history[r]) < QueueSize
                                         THEN Len(history[r]) ELSE QueueSize)
       IN  /\ Misses(s, ToSet(history[r]) \ ToSet(fits))
           /\ \/ /\ r \in closed
                 /\ queue' = [queue EXCEPT ![s] =
                       IF Len(fits) < QueueSize THEN Append(fits, End) ELSE fits]
                 /\ UNCHANGED <<registered, since>>
              \/ /\ r \notin closed
                 /\ queue' = [queue EXCEPT ![s] = fits]
                 /\ Registers(s, r)
    /\ UNCHANGED <<history, retained, closed, sending, published, last>>

SubscribeGlobal(s) ==
    /\ Len(registered[Everything]) < MaxGlobals
    /\ Starts(s, Everything)
    /\ Registers(s, Everything)
    /\ UNCHANGED <<history, retained, closed, queue, sending, published, last, missed>>

\* Over the cap the loop ends before it began.
RejectGlobal(s) ==
    /\ Len(registered[Everything]) = MaxGlobals
    /\ reader[s] = "new"
    /\ reader' = [reader EXCEPT ![s] = "done"]
    /\ UNCHANGED <<history, retained, closed, registered, queue, target, sending,
                   published, last, since, missed>>

Get(s) ==
    /\ Reading(s)
    /\ queue[s] # << >> /\ Head(queue[s]) # End
    /\ last' = [last EXCEPT ![s][Head(queue[s]).by] = Head(queue[s]).n]
    /\ queue' = [queue EXCEPT ![s] = Tail(@)]
    /\ BusUnchanged /\ UNCHANGED <<reader, target, sending, since, missed>>

\* The loop is over and its finally unregisters: at the end marker, or because
\* the consumer left it.  Its history is over too.
Finishes(s) ==
    /\ reader' = [reader EXCEPT ![s] = "done"]
    /\ registered' = Removed(s)
    /\ last' = [last EXCEPT ![s] = SeenNothing]
    /\ since' = [since EXCEPT ![s] = 0]
    /\ missed' = [missed EXCEPT ![s] = {}]
    /\ UNCHANGED <<history, retained, closed, target, sending, published>>

ReadEnd(s) ==
    /\ Reading(s)
    /\ queue[s] # << >> /\ Head(queue[s]) = End
    /\ queue' = [queue EXCEPT ![s] = Tail(@)]
    /\ Finishes(s)

Leave(s) == Reading(s) /\ Finishes(s) /\ UNCHANGED queue

(***************************************************************************)
(* Closing                                                                 *)
(***************************************************************************)

Full(s) == Len(queue[s]) = QueueSize

\* A full queue is left as it is.
MutCloseStream(r) ==
    /\ queue' = [s \in Subscribers |->
          IF Listens(s, r) /\ ~Full(s) THEN Append(queue[s], End) ELSE queue[s]]
    /\ registered' = [registered EXCEPT ![r] = << >>]
    /\ closed' = closed \cup {r}
    /\ UNCHANGED <<history, retained, reader, target, sending, published, last, since, missed>>

\* A full queue loses its oldest event to the end marker.
CloseStream(r) ==
    /\ queue' = [s \in Subscribers |->
          IF ~Listens(s, r) THEN queue[s]
          ELSE Append(IF Full(s) THEN Tail(queue[s]) ELSE queue[s], End)]
    /\ missed' = [s \in Subscribers |->
          missed[s] \cup IF Listens(s, r) /\ Full(s) THEN {Head(queue[s])} ELSE {}]
    /\ registered' = [registered EXCEPT ![r] = << >>]
    /\ closed' = closed \cup {r}
    /\ UNCHANGED <<history, retained, reader, target, sending, published, last, since>>

DropHistory(r) ==
    /\ history' = [history EXCEPT ![r] = << >>]
    /\ retained' = RemoveFirst(retained, r)
    /\ closed' = closed \ {r}
    /\ UNCHANGED <<registered, sending, published>> /\ ReadersUnchanged

\* close_global: a full queue stays full, and its end marker is dropped.
CloseGlobal ==
    /\ registered[Everything] # << >>
    /\ queue' = [s \in Subscribers |->
          IF Listens(s, Everything) /\ ~Full(s) THEN Append(queue[s], End) ELSE queue[s]]
    /\ registered' = [registered EXCEPT ![Everything] = << >>]
    /\ UNCHANGED <<history, retained, closed, reader, target, sending, published,
                   last, since, missed>>

Next ==
    \/ \E p \in Publishers : \/ \E r \in Runs : Publish(p, r)
                             \/ Deliver(p) \/ GiveUp(p) \/ Cancel(p)
    \/ \E s \in Subscribers : \/ \E r \in Runs : Subscribe(s, r)
                              \/ SubscribeGlobal(s) \/ RejectGlobal(s)
                              \/ Get(s) \/ ReadEnd(s) \/ Leave(s)
    \/ \E r \in Runs : CloseStream(r) \/ DropHistory(r)
    \/ CloseGlobal

Spec == Init /\ [][Next]_busVars

(***************************************************************************)
(* Properties                                                              *)
(***************************************************************************)

\* What s may still get from p: its places in the queue, and last the put under way.
Coming(p, s) ==
    {<<i, queue[s][i]>> : i \in {j \in DOMAIN queue[s] : queue[s][j] # End /\ queue[s][j].by = p}}
    \cup IF Contains(sending[p].to, s) THEN {<<QueueSize + 1, sending[p].event>>} ELSE {}

Addressed(e, s) == target[s] \in {e.run, Everything}

\* "Events appear in the order they were emitted on the consumer side": a consumer
\* sees what one task emits in that order and never twice, the replayed history
\* included, and only its own run's events.
OnceAndInOrder ==
    \A s \in Subscribers, p \in Publishers : \A x \in Coming(p, s) :
        /\ Addressed(x[2], s)
        /\ last[s][p] < x[2].n
        /\ \A y \in Coming(p, s) : x[1] < y[1] => x[2].n < y[2].n

\* A slow subscriber costs only itself: what was published while a subscriber was
\* registered and it has not seen is in its queue or on its way there, unless its
\* own queue was full for it or the publishing task was cancelled.
NoSilentGaps ==
    \A s \in Subscribers : Listens(s, target[s]) =>
        \A n \in since[s] + 1 .. Len(published) :
            LET e == published[n]
            IN  Addressed(e, s) => \/ n <= last[s][e.by]
                                   \/ \E x \in Coming(e.by, s) : x[2] = e
                                   \/ e \in missed[s]

\* "Close must always reach the consumer": whoever still reads a closed run has
\* the end of its loop in its queue, however full that was, and whenever it came.
ClosedStreamsEnd ==
    \A s \in Subscribers : Reading(s) /\ target[s] \in closed => Contains(queue[s], End)
=============================================================================
