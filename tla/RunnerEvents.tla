---------------------------- MODULE RunnerEvents ----------------------------
(***************************************************************************)
(* A box runner's progress on its way to the gateway (tulip.runner): the   *)
(* batches, the spool and the event number kept in the box's volume, the   *)
(* client that sends a call again when that is safe, and a runner that     *)
(* ends, dies and is started again.                                        *)
(*                                                                         *)
(* A runner is one task, so a step goes from one attempt at a call to the  *)
(* next.  A call may be lost on the way out or on the way back, or arrive  *)
(* long after the client gave it up.  An event is its place among all the  *)
(* events emitted.  An operator named Mut... is a wrong variant of the one *)
(* after it.                                                               *)
(***************************************************************************)
EXTENDS Integers, Sequences, SequencesExt

CONSTANTS
    BatchSize,  \* batch_size
    Retries,    \* GATEWAY_RETRIES
    MaxEvents,  \* bound: events emitted in all
    MaxStarts   \* bound: runners started

ASSUME RunnerAssumption == BatchSize \in Nat \ {0} /\ {Retries, MaxEvents, MaxStarts} \subseteq Nat

VARIABLES
    box,        \* the runner's process
    spool,      \* events.jsonl: the batches the gateway could not take
    seqFile,    \* events.seq: the number of the next event
    late,       \* calls given up that may yet arrive
    stream,     \* the events the gateway has recorded, in order
    seen,       \* the numbers they came under
    reports,    \* per runner: how many results the gateway has of it
    emitted,    \* how many events were emitted
    starts,     \* how many runners were started
    faults      \* a runner died, a call was refused

kept == <<spool, seqFile>>
gateway == <<stream, seen, reports>>
runnerVars == <<box, kept, late, gateway, emitted, starts, faults>>

NoBatch == [from |-> 0, events |-> << >>]
Down == [phase |-> "down", ending |-> FALSE, seq |-> 0, pending |-> << >>, batch |-> NoBatch,
         backlog |-> << >>, tries |-> 0, handled |-> FALSE]

Init ==
    /\ box = Down /\ spool = << >> /\ seqFile = 0 /\ late = {}
    /\ stream = << >> /\ seen = {} /\ reports = [n \in 1 .. MaxStarts |-> 0]
    /\ emitted = 0 /\ starts = 0 /\ faults = {}

\* The call being made: a spooled batch, the batch in hand, or the result.
Payload(b) == CASE b.phase = "reporting" -> [report |-> starts]
                [] b.phase = "flushing" /\ b.backlog # << >> -> Head(b.backlog)
                [] OTHER -> b.batch
Calling == \/ box.phase = "reporting"
           \/ box.phase = "flushing" /\ Payload(box) # NoBatch

Numbers(batch) == batch.from .. batch.from + Len(batch.events) - 1

\* The gateway drops the events whose numbers it has, and records the others in order.
Fresh(batch) == {i \in DOMAIN batch.events : batch.from + i - 1 \notin seen}
Ascending(s) == \A i, j \in DOMAIN s : i < j => s[i] < s[j]
Records(batch) ==
    /\ \E new \in SeqOf(Fresh(batch), Len(batch.events)) :
          /\ ToSet(new) = Fresh(batch) /\ Ascending(new)
          /\ stream' = stream \o [k \in DOMAIN new |-> batch.events[new[k]]]
    /\ seen' = seen \cup Numbers(batch)
    /\ UNCHANGED reports
Handle(call) ==
    IF "report" \in DOMAIN call
    THEN /\ reports' = [reports EXCEPT ![call.report] = @ + 1]
         /\ UNCHANGED <<stream, seen>>
    ELSE Records(call)

-----------------------------------------------------------------------------
\* flush() takes what is pending, and what is spooled is sent first.
Flushing(b) ==
    [b EXCEPT !.phase = "flushing", !.pending = << >>, !.seq = @ + Len(b.pending), !.backlog = spool,
              !.batch = IF b.pending = << >> THEN NoBatch ELSE [from |-> b.seq, events |-> b.pending]]

\* A new runner numbers its events on from where the last one stopped.  One whose agent
\* cannot be built reports that.
Begin ==
    /\ box.phase = "down" /\ starts < MaxStarts
    /\ starts' = starts + 1
    /\ \E phase \in {"running", "reporting"} : box' = [Down EXCEPT !.phase = phase, !.seq = seqFile]
    /\ UNCHANGED <<kept, late, gateway, emitted, faults>>

\* emit() flushes a batch that is full.
Emit ==
    /\ box.phase = "running" /\ emitted < MaxEvents
    /\ emitted' = emitted + 1
    /\ LET b == [box EXCEPT !.pending = Append(@, emitted + 1)]
       IN box' = IF Len(b.pending) >= BatchSize THEN Flushing(b) ELSE b
    /\ UNCHANGED <<kept, late, gateway, starts, faults>>

\* The agent's run is over, is parked or has failed: the last flush.
Finish ==
    /\ box.phase = "running"
    /\ box' = Flushing([box EXCEPT !.ending = TRUE])
    /\ UNCHANGED <<kept, late, gateway, emitted, starts, faults>>

\* The flush has returned.  After the last one the next number is left for the next
\* runner, and the result is reported.
Enters(b, phase) == box' = [b EXCEPT !.phase = phase, !.batch = NoBatch, !.backlog = << >>,
                                     !.tries = 0, !.handled = FALSE]
MutFlushed(b) == Enters(b, IF b.ending THEN "reporting" ELSE "running") /\ UNCHANGED seqFile
Flushed(b) == \/ b.ending /\ Enters(b, "reporting") /\ seqFile' = b.seq
              \/ ~b.ending /\ Enters(b, "running") /\ UNCHANGED seqFile

NothingToSend ==
    /\ box.phase = "flushing" /\ ~Calling
    /\ Flushed(box)
    /\ UNCHANGED <<spool, late, gateway, emitted, starts, faults>>

-----------------------------------------------------------------------------
Reach ==
    /\ Calling /\ ~box.handled
    /\ Handle(Payload(box))
    /\ box' = [box EXCEPT !.handled = TRUE]
    /\ UNCHANGED <<kept, late, emitted, starts, faults>>

\* A call that was given up arrives.
ReachLate == \E call \in late :
    /\ Handle(call)
    /\ late' = late \ {call}
    /\ UNCHANGED <<box, kept, emitted, starts, faults>>

\* The answer comes back.  The spool goes once all of it is sent.
Answered ==
    /\ Calling /\ box.handled
    /\ LET sent == [box EXCEPT !.backlog = Tail(@), !.tries = 0, !.handled = FALSE]
       IN CASE box.phase = "reporting" -> box' = Down /\ UNCHANGED kept
            [] box.phase = "flushing" /\ box.backlog # << >> ->
                   /\ box' = sent
                   /\ spool' = IF sent.backlog = << >> THEN << >> ELSE spool
                   /\ UNCHANGED seqFile
            [] OTHER -> Flushed(box) /\ UNCHANGED spool
    /\ UNCHANGED <<late, gateway, emitted, starts, faults>>

\* What is lost on the way may still arrive.
Loses == late' \in IF box.handled THEN {late} ELSE {late, late \cup {Payload(box)}}

\* A call that never connected is always safe to send again; after that only one whose
\* repetition changes nothing.
MutSafeToRepeat == TRUE
SafeToRepeat == box.phase = "flushing"
MayRetry == box.tries < Retries
MutTriesAgain == box' = [box EXCEPT !.handled = FALSE]
TriesAgain == box' = [box EXCEPT !.tries = @ + 1, !.handled = FALSE]
NotConnected ==
    /\ Calling /\ ~box.handled /\ MayRetry
    /\ TriesAgain
    /\ UNCHANGED <<kept, late, gateway, emitted, starts, faults>>
SendAgain ==
    /\ Calling /\ MayRetry /\ SafeToRepeat
    /\ Loses
    /\ TriesAgain
    /\ UNCHANGED <<kept, gateway, emitted, starts, faults>>

\* No answer, or a 5xx.  What the spool still held is written back, and the batch in hand
\* after it.  A result that cannot be reported ends the runner.
MutSpooled == box.backlog \o IF box.batch = NoBatch THEN << >>
                             ELSE <<[box.batch EXCEPT !.from = box.seq]>>
Spooled == box.backlog \o IF box.batch = NoBatch THEN << >> ELSE <<box.batch>>
Unavailable ==
    /\ Calling
    /\ Loses
    /\ IF box.phase = "reporting"
       THEN box' = Down /\ UNCHANGED kept
       ELSE spool' = Spooled /\ Flushed(box)
    /\ UNCHANGED <<gateway, emitted, starts, faults>>

\* A 4xx is raised: out of emit() it fails the run, out of the last flush it ends the
\* runner.  The batch in hand is gone, and the spool is as it was.
Refused ==
    /\ Calling /\ ~box.handled
    /\ box' = IF box.phase = "flushing" /\ ~box.ending
              THEN Flushing([box EXCEPT !.ending = TRUE, !.tries = 0])
              ELSE Down
    /\ faults' = faults \cup {"refused"}
    /\ UNCHANGED <<kept, late, gateway, emitted, starts>>

\* The box is lost or killed; its volume stays.
Dies ==
    /\ box.phase # "down"
    /\ IF Calling THEN Loses ELSE UNCHANGED late
    /\ box' = Down
    /\ faults' = faults \cup {"died"}
    /\ UNCHANGED <<kept, gateway, emitted, starts>>

CallEnds == Answered \/ NotConnected \/ SendAgain \/ Unavailable \/ Refused
Next == \/ Begin \/ Emit \/ Finish \/ NothingToSend \/ Reach \/ ReachLate
        \/ CallEnds \/ Dies

Spec == Init /\ [][Next]_runnerVars

\* An agent's run ends, and the client's timeout ends every attempt at a call.
FairSpec == Spec /\ WF_runnerVars(Finish) /\ WF_runnerVars(NothingToSend) /\ WF_runnerVars(CallEnds)

-----------------------------------------------------------------------------
EventsOf(batch) == ToSet(batch.events)

\* Through every outage, lost answer, park and restart, the gateway's stream is what was
\* emitted, in order, and what it does not have yet is in the spool or in the runner's
\* hands -- unless a runner died with it or the gateway refused it.
KeepsEveryEvent ==
    faults = {} =>
        /\ \A i \in DOMAIN stream : stream[i] = i
        /\ 1 .. emitted \subseteq ToSet(stream) \cup (UNION {EventsOf(batch) : batch \in ToSet(spool)})
                                    \cup EventsOf(box.batch) \cup ToSet(box.pending)

\* Whatever died or was refused: no event is recorded twice, although batches are sent
\* again, spooled and replayed.
RecordedOnce == \A i, j \in DOMAIN stream : stream[i] = stream[j] => i = j

\* A result is never sent twice: "the first may have arrived".
ReportedOnce == \A n \in 1 .. MaxStarts : reports[n] <= 1

\* A runner ends, also when the gateway never answers.
RunnersEnd == box.phase # "down" ~> box.phase = "down"
=============================================================================
