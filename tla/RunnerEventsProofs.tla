------------------------- MODULE RunnerEventsProofs -------------------------
(***************************************************************************)
(* Proofs about a box runner's progress, for every size of its batches and *)
(* any number of events, retries and runners.                              *)
(***************************************************************************)
EXTENDS RunnerEvents, SequenceTheorems, WellFoundedInduction, TLAPS

Batch == [from : Nat, events : Seq(Nat)]
Report == [report : 1 .. MaxStarts]
Box == [phase : {"down", "running", "flushing", "reporting"}, ending : BOOLEAN, seq : Nat,
        pending : Seq(Nat), batch : Batch, backlog : Seq(Batch), tries : Nat, handled : BOOLEAN]

\* The types, and what a phase leaves empty: only a flush has batches at hand, and only a
\* running agent has events that no flush has taken.
RunnerTyped ==
    /\ box \in Box
    /\ spool \in Seq(Batch) /\ seqFile \in Nat
    /\ late \subseteq Batch \cup Report
    /\ stream \in Seq(Nat) /\ seen \subseteq Nat
    /\ reports \in [1 .. MaxStarts -> Nat]
    /\ emitted \in Nat
    /\ starts \in 0 .. MaxStarts
    /\ box.phase # "down" => starts \in 1 .. MaxStarts
    /\ box.phase # "running" => box.pending = << >>
    /\ box.phase # "flushing" => box.batch = NoBatch /\ box.backlog = << >>
    /\ box.batch # NoBatch => box.batch.events # << >>

\* One number more than the last of a batch.
End(batch) == batch.from + Len(batch.events)

\* The events that no flush has taken, as the batch they are going to be.
InHand == [from |-> box.seq, events |-> box.pending]

\* The batches that are on their way, wherever they are.
Carried == ToSet(spool) \cup ToSet(box.backlog) \cup {box.batch, InHand} \cup (late \cap Batch)

\* An event and the number it has in a batch.
Pairs(batch) == {<<batch.from + i - 1, batch.events[i]>> : i \in DOMAIN batch.events}
Tags == UNION {Pairs(batch) : batch \in Carried}

\* An event on its way has one number wherever it is, and if it is recorded, the gateway
\* has seen that number.
Numbered ==
    /\ \A p, q \in Tags : p[2] = q[2] => p[1] = q[1]
    /\ \A p \in Tags : p[2] \in 1 .. emitted /\ (p[2] \in ToSet(stream) => p[1] \in seen)
    /\ ToSet(stream) \subseteq 1 .. emitted

\* A runner's result is with the gateway, or in one late call, or still to be sent.
Sent(n) == [report |-> n] \in late
ReportsOnce ==
    /\ \A n \in 1 .. MaxStarts :
          /\ reports[n] <= 1
          /\ n > starts => reports[n] = 0 /\ ~Sent(n)
          /\ Sent(n) => reports[n] = 0
    /\ box.phase # "down" =>
          ~Sent(starts) /\ (reports[starts] # 0 => box.phase = "reporting" /\ box.handled)

\* Batches that follow one another without a gap, up to a number.
Chained(s, upto) ==
    \A i \in DOMAIN s : /\ s[i].events # << >>
                        /\ End(s[i]) = IF i = Len(s) THEN upto ELSE s[i + 1].from
Start(s, upto) == IF s = << >> THEN upto ELSE s[1].from

\* Before a fault: the number of the next event that no flush has taken; what is to be
\* sent, and from which number the batch in hand goes on.
Top == IF box.phase = "down" THEN seqFile ELSE box.seq
After == IF box.batch = NoBatch THEN Top ELSE box.batch.from
ToSend == IF box.phase = "flushing" THEN box.backlog ELSE spool

\* The gateway has the first events, each under its number, and events travel under theirs.
Recorded == seen = 0 .. Len(stream) - 1 /\ \A i \in DOMAIN stream : stream[i] = i
InPlace(batch) == \A i \in DOMAIN batch.events : batch.events[i] = batch.from + i
Shaped == \A batch \in Carried : InPlace(batch)

\* What the gateway does not have follows in batches without a gap.
Lined ==
    /\ Len(stream) <= Top /\ Top + Len(box.pending) = emitted
    /\ Chained(ToSend, After) /\ Start(ToSend, After) <= Len(stream)
    /\ box.batch # NoBatch => End(box.batch) = Top

\* No late call is ahead of the gateway.
Behind(call) == call.from <= Len(stream) /\ End(call) <= Top
LateBehind == \A call \in late \cap Batch : Behind(call)

\* What a phase says of the files and of the call being made.
Flushes ==
    /\ box.phase = "flushing" =>
          /\ Calling /\ box.handled => End(Payload(box)) <= Len(stream)
          /\ ToSet(box.backlog) \subseteq ToSet(spool)
          /\ box.backlog = << >> => spool = << >>
    /\ box.phase = "reporting" => seqFile = box.seq
    /\ box.phase = "running" => ~box.handled

\* Without a fault the gateway has a first part of what was emitted, and the rest is on its
\* way to it.
Contiguous == Recorded /\ Shaped /\ Lined /\ LateBehind /\ Flushes
Unbroken == faults = {} => Contiguous

(***************************************************************************)
(* Sequences                                                               *)
(***************************************************************************)

\* A sequence and what follows it.
LEMMA ConcatParts ==
    ASSUME NEW S, NEW a \in Seq(S), NEW b \in Seq(S)
    PROVE  /\ a \o b \in Seq(S) /\ Len(a \o b) = Len(a) + Len(b)
           /\ \A i \in 1 .. Len(a) : (a \o b)[i] = a[i]
           /\ \A k \in 1 .. Len(b) : (a \o b)[Len(a) + k] = b[k]
<1> DEFINE ab == a \o b
<1>1. /\ Len(a) \in Nat /\ Len(b) \in Nat /\ ab \in Seq(S) /\ Len(ab) = Len(a) + Len(b)
      /\ \A k \in 1 .. Len(a) + Len(b) : ab[k] = IF k <= Len(a) THEN a[k] ELSE b[k - Len(a)]
  BY ConcatProperties, LenProperties
<1> HIDE DEF ab
<1>2. \A i \in 1 .. Len(a) : ab[i] = a[i]
  BY <1>1
<1>3. ASSUME NEW k \in 1 .. Len(b) PROVE ab[Len(a) + k] = b[k]
  <2>1. Len(a) + k \in 1 .. Len(a) + Len(b) /\ ~(Len(a) + k <= Len(a)) /\ Len(a) + k - Len(a) = k
    BY <1>1
  <2> QED
    BY <1>1, <2>1
<1> QED
  BY <1>1, <1>2, <1>3 DEF ab

(***************************************************************************)
(* Types                                                                   *)
(***************************************************************************)

\* The batch of no events is a batch, and a runner that is down is one.
LEMMA NoBatchType ==
    /\ NoBatch \in Batch /\ NoBatch.from = 0 /\ NoBatch.events = << >>
    /\ Down \in Box
    /\ Down.phase = "down" /\ Down.pending = << >> /\ Down.batch = NoBatch
    /\ Down.backlog = << >> /\ Down.seq = 0 /\ Down.handled = FALSE
<1>1. << >> \in Seq(Nat) /\ << >> \in Seq(Batch)
  BY EmptySeq
<1>2. NoBatch \in Batch
  BY <1>1 DEF NoBatch, Batch
<1>3. Down \in Box
  BY <1>1, <1>2 DEF Down, Box
<1> QED
  BY <1>2, <1>3 DEF Down, NoBatch

\* flush() leaves a runner with nothing pending, the spool at hand, and no batch or one
\* that has events.
LEMMA FlushingType ==
    ASSUME NEW b \in Box, spool \in Seq(Batch)
    PROVE  /\ Flushing(b) \in Box
           /\ Flushing(b).phase = "flushing" /\ Flushing(b).pending = << >>
           /\ Flushing(b).batch # NoBatch => Flushing(b).batch.events # << >>
<1>1. Len(b.pending) \in Nat /\ b.seq \in Nat /\ b.pending \in Seq(Nat)
  BY LenProperties DEF Box
<1>2. << >> \in Seq(Nat)
  BY EmptySeq
<1>3. [from |-> b.seq, events |-> b.pending] \in Batch
  BY <1>1 DEF Batch
<1> DEFINE batch == IF b.pending = << >> THEN NoBatch ELSE [from |-> b.seq, events |-> b.pending]
           next == b.seq + Len(b.pending)
<1>4. batch \in Batch /\ next \in Nat /\ (batch # NoBatch => batch.events # << >>)
  BY <1>1, <1>3, NoBatchType
<1> HIDE DEF batch, next
<1>5. Flushing(b) = [b EXCEPT !.phase = "flushing", !.pending = << >>, !.seq = next,
                              !.backlog = spool, !.batch = batch]
  BY DEF Flushing, batch, next
<1>6. Flushing(b) = [phase |-> "flushing", ending |-> b.ending, seq |-> next, pending |-> << >>,
                     batch |-> batch, backlog |-> spool, tries |-> b.tries, handled |-> b.handled]
  BY <1>5 DEF Box
<1>7. b.ending \in BOOLEAN /\ b.tries \in Nat /\ b.handled \in BOOLEAN
  BY DEF Box
<1> QED
  BY <1>2, <1>4, <1>6, <1>7 DEF Box

\* A runner that has flushed is running again or reports.
LEMMA FlushedType ==
    ASSUME RunnerTyped, NEW b \in Box, b.pending = << >>, b.phase # "down", b.phase = box.phase,
           Flushed(b)
    PROVE  /\ box' \in Box /\ seqFile' \in Nat
           /\ box'.phase \in {"running", "reporting"} /\ box'.pending = << >>
           /\ box'.batch = NoBatch /\ box'.backlog = << >>
<1>1. << >> \in Seq(Nat) /\ << >> \in Seq(Batch)
  BY EmptySeq
<1>2. ASSUME NEW phase \in {"running", "reporting"}, Enters(b, phase)
      PROVE  /\ box' \in Box /\ box'.phase = phase /\ box'.pending = << >>
             /\ box'.batch = NoBatch /\ box'.backlog = << >>
  <2>1. box' = [phase |-> phase, ending |-> b.ending, seq |-> b.seq, pending |-> << >>,
                batch |-> NoBatch, backlog |-> << >>, tries |-> 0, handled |-> FALSE]
    BY <1>2 DEF Enters, Box
  <2>2. b.ending \in BOOLEAN /\ b.seq \in Nat
    BY DEF Box
  <2> QED
    BY <1>1, <2>1, <2>2, NoBatchType DEF Box
<1>3. b.seq \in Nat /\ seqFile \in Nat
  BY DEF Box, RunnerTyped
<1> QED
  BY <1>2, <1>3 DEF Flushed

\* What is being called with is a batch or a result.
LEMMA PayloadType ==
    ASSUME RunnerTyped, Calling
    PROVE  /\ box.phase = "reporting" => Payload(box) = [report |-> starts] /\ Payload(box) \in Report
           /\ box.phase # "reporting" =>
                 /\ box.phase = "flushing" /\ Payload(box) \in Batch
                 /\ Payload(box) = IF box.backlog # << >> THEN box.backlog[1] ELSE box.batch
                 /\ Payload(box) \in Carried
                 /\ box.backlog # << >> => 1 \in 1 .. Len(box.backlog) /\ box.backlog[1] \in Batch
<1>1. CASE box.phase = "reporting"
  BY <1>1 DEF Payload, RunnerTyped, Report
<1>2. CASE box.phase # "reporting"
  <2>1. box.phase = "flushing"
    BY <1>2 DEF Calling
  <2>2. box \in Box /\ box.backlog \in Seq(Batch) /\ box.batch \in Batch
    BY DEF RunnerTyped, Box
  <2>3. CASE box.backlog # << >>
    <3>1. Head(box.backlog) = box.backlog[1] /\ 1 \in 1 .. Len(box.backlog)
      BY <2>2, <2>3, EmptySeq, LenProperties
    <3>2. box.backlog[1] \in Batch
      BY <2>2, <3>1, ElementOfSeq
    <3>3. box.backlog[1] \in ToSet(box.backlog)
      BY <2>2, <3>1, LenProperties DEF ToSet
    <3> QED
      BY <2>1, <2>3, <3>1, <3>2, <3>3 DEF Payload, Carried
  <2>4. CASE box.backlog = << >>
    BY <2>1, <2>2, <2>4 DEF Payload, Carried
  <2> QED
    BY <1>2, <2>3, <2>4
<1> QED
  BY <1>1, <1>2

\* The events of a batch that are recorded, and what the stream is then.
TakenIn(batch, new) ==
    /\ new \in SeqOf(Fresh(batch), Len(batch.events))
    /\ stream' = stream \o [k \in DOMAIN new |-> batch.events[new[k]]]
    /\ seen' = seen \cup Numbers(batch)
Lengthened(batch, new) ==
    /\ stream' \in Seq(Nat) /\ seen' \subseteq Nat
    /\ new \in Seq(Fresh(batch)) /\ Len(new) \in Nat /\ DOMAIN new = 1 .. Len(new)
    /\ Fresh(batch) \subseteq 1 .. Len(batch.events)
    /\ Len(stream') = Len(stream) + Len(new)
    /\ \A i \in 1 .. Len(stream) : stream'[i] = stream[i]
    /\ \A k \in 1 .. Len(new) : stream'[Len(stream) + k] = batch.events[new[k]]

\* Recording some of a batch's events adds to the stream, and only those.
LEMMA RecordsType ==
    ASSUME RunnerTyped, NEW batch \in Batch, NEW new, TakenIn(batch, new)
    PROVE  Lengthened(batch, new)
<1> DEFINE added == [k \in DOMAIN new |-> batch.events[new[k]]]
<1>1. PICK m \in 0 .. Len(batch.events) : new \in [1 .. m -> Fresh(batch)]
  BY DEF TakenIn, SeqOf
<1>2. batch.events \in Seq(Nat) /\ Len(batch.events) \in Nat /\ batch.from \in Nat
      /\ DOMAIN batch.events = 1 .. Len(batch.events)
  BY LenProperties DEF Batch
<1>3. m \in Nat
  BY <1>2
<1>4. new \in Seq(Fresh(batch)) /\ Len(new) = m /\ DOMAIN new = 1 .. m
  BY <1>1, <1>3
<1>5. \A k \in 1 .. m : new[k] \in 1 .. Len(batch.events) /\ batch.events[new[k]] \in Nat
  BY <1>1, <1>2, ElementOfSeq DEF Fresh
<1>6. added \in Seq(Nat) /\ Len(added) = m /\ \A k \in 1 .. m : added[k] = batch.events[new[k]]
  BY <1>3, <1>4, <1>5
<1>7. stream \in Seq(Nat)
  BY DEF RunnerTyped
<1>8. Numbers(batch) \subseteq Nat
  BY <1>2 DEF Numbers
<1> HIDE DEF added
<1>9. stream' = stream \o added
  BY DEF TakenIn, added
<1>10. /\ stream' \in Seq(Nat) /\ Len(stream') = Len(stream) + m
       /\ \A i \in 1 .. Len(stream) : stream'[i] = stream[i]
       /\ \A k \in 1 .. m : stream'[Len(stream) + k] = added[k]
  <2>0. added \in Seq(Nat)
    BY <1>6
  <2>1. /\ stream \o added \in Seq(Nat) /\ Len(stream \o added) = Len(stream) + Len(added)
        /\ \A i \in 1 .. Len(stream) : (stream \o added)[i] = stream[i]
        /\ \A k \in 1 .. Len(added) : (stream \o added)[Len(stream) + k] = added[k]
    <3>1. stream \o added \in Seq(Nat) /\ Len(stream \o added) = Len(stream) + Len(added)
      BY <1>7, <2>0, ConcatParts
    <3>2. \A i \in 1 .. Len(stream) : (stream \o added)[i] = stream[i]
      BY <1>7, <2>0, ConcatParts
    <3>3. \A k \in 1 .. Len(added) : (stream \o added)[Len(stream) + k] = added[k]
      BY <1>7, <2>0, ConcatParts
    <3> QED
      BY <3>1, <3>2, <3>3
  <2> QED
    BY <1>6, <1>9, <2>1
<1>12. Fresh(batch) \subseteq 1 .. Len(batch.events)
  BY <1>2 DEF Fresh
<1>13. seen' \subseteq Nat
  BY <1>8 DEF TakenIn, RunnerTyped
<1>14. \A k \in 1 .. m : stream'[Len(stream) + k] = batch.events[new[k]]
  BY <1>6, <1>10
<1> QED
  BY <1>3, <1>4, <1>10, <1>12, <1>13, <1>14 DEF Lengthened

\* What a call does at the gateway keeps the types there.
LEMMA HandleType ==
    ASSUME RunnerTyped, NEW call \in Batch \cup Report, Handle(call)
    PROVE  stream' \in Seq(Nat) /\ seen' \subseteq Nat /\ reports' \in [1 .. MaxStarts -> Nat]
<1>1. CASE call \in Report
  <2>1. "report" \in DOMAIN call /\ call.report \in 1 .. MaxStarts
    BY <1>1 DEF Report
  <2>2. reports' = [reports EXCEPT ![call.report] = reports[call.report] + 1]
        /\ UNCHANGED <<stream, seen>>
    BY <2>1 DEF Handle
  <2>3. reports[call.report] + 1 \in Nat
    BY <2>1 DEF RunnerTyped
  <2>4. reports' \in [1 .. MaxStarts -> Nat]
    BY <2>2, <2>3 DEF RunnerTyped
  <2> QED
    BY <2>2, <2>4 DEF RunnerTyped
<1>2. CASE call \in Batch
  <2>1. "report" \notin DOMAIN call
    BY <1>2 DEF Batch
  <2>2. Records(call)
    BY <2>1 DEF Handle
  <2>3. PICK new : TakenIn(call, new)
    BY <2>2 DEF Records, TakenIn
  <2>4. Lengthened(call, new)
    BY <1>2, <2>3, RecordsType
  <2> QED
    BY <2>2, <2>4 DEF Records, RunnerTyped, Lengthened
<1> QED
  BY <1>1, <1>2

\* A runner that is flushing on its way to a call, an answer or the next try.
LEMMA BoxParts ==
    ASSUME NEW b, NEW s \in Seq(Batch), NEW n \in Nat, NEW h \in BOOLEAN, b \in Box
    PROVE  /\ [b EXCEPT !.handled = h] \in Box
           /\ [b EXCEPT !.tries = n, !.handled = h] \in Box
           /\ [b EXCEPT !.backlog = s, !.tries = n, !.handled = h] \in Box
           /\ [b EXCEPT !.ending = h] \in Box
           /\ [b EXCEPT !.ending = h, !.tries = n] \in Box
  BY DEF Box

\* Every step of the runner, the network and the gateway keeps the types.
LEMMA RunnerTypedStep ==
    ASSUME RunnerTyped, [Next]_runnerVars
    PROVE  RunnerTyped'
<1> USE DEF kept, gateway
<1>0. /\ box \in Box /\ spool \in Seq(Batch) /\ box.backlog \in Seq(Batch) /\ box.batch \in Batch
      /\ box.tries \in Nat /\ box.seq \in Nat /\ box.pending \in Seq(Nat)
  BY DEF RunnerTyped, Box
<1>00. << >> \in Seq(Nat) /\ << >> \in Seq(Batch)
  BY EmptySeq
<1>01. Calling => Payload(box) \in Batch \cup Report
  BY PayloadType
<1>02. Loses /\ Calling => late' \subseteq Batch \cup Report
  BY <1>01 DEF Loses, RunnerTyped
<1>1. CASE Begin
  <2>1. PICK phase \in {"running", "reporting"} : box' = [Down EXCEPT !.phase = phase, !.seq = seqFile]
    BY <1>1 DEF Begin
  <2>2. box' = [phase |-> phase, ending |-> FALSE, seq |-> seqFile, pending |-> << >>,
                batch |-> NoBatch, backlog |-> << >>, tries |-> 0, handled |-> FALSE]
    BY <2>1 DEF Down
  <2>3. box' \in Box
    BY <1>00, <2>2, NoBatchType DEF RunnerTyped, Box
  <2>4. starts' \in 1 .. MaxStarts /\ starts' \in 0 .. MaxStarts
    BY <1>1, RunnerAssumption DEF Begin, RunnerTyped
  <2>5. box'.pending = << >> /\ box'.batch = NoBatch /\ box'.backlog = << >>
    BY <2>2
  <2> QED
    BY <1>1, <2>3, <2>4, <2>5 DEF Begin, RunnerTyped
<1>2. CASE Emit
  <2> DEFINE b == [box EXCEPT !.pending = Append(@, emitted + 1)]
  <2>1. Append(box.pending, emitted + 1) \in Seq(Nat)
    BY <1>0, AppendProperties DEF RunnerTyped
  <2>2. b \in Box /\ b.phase = "running" /\ b.batch = NoBatch /\ b.backlog = << >>
    BY <1>2, <2>1 DEF Emit, RunnerTyped, Box
  <2>3. box' = Flushing(b) \/ box' = b
    BY <1>2 DEF Emit
  <2> HIDE DEF b
  <2>4. /\ box' \in Box /\ box'.phase \in {"running", "flushing"}
        /\ box'.phase # "running" => box'.pending = << >>
        /\ box'.phase # "flushing" => box'.batch = NoBatch /\ box'.backlog = << >>
        /\ box'.batch # NoBatch => box'.batch.events # << >>
    BY <1>0, <2>2, <2>3, FlushingType
  <2>5. emitted' \in Nat /\ starts' \in 1 .. MaxStarts
    BY <1>2 DEF Emit, RunnerTyped
  <2> QED
    BY <1>2, <2>4, <2>5 DEF Emit, RunnerTyped
<1>3. CASE Finish
  <2> DEFINE b == [box EXCEPT !.ending = TRUE]
  <2>1. b \in Box /\ b.batch = NoBatch
    BY <1>0, <1>3 DEF Finish, RunnerTyped, Box
  <2>2. box' = Flushing(b)
    BY <1>3 DEF Finish
  <2> HIDE DEF b
  <2>3. /\ box' \in Box /\ box'.phase = "flushing" /\ box'.pending = << >>
        /\ box'.batch # NoBatch => box'.batch.events # << >>
    BY <1>0, <2>1, <2>2, FlushingType
  <2> QED
    BY <1>3, <2>3 DEF Finish, RunnerTyped
<1>4. CASE NothingToSend
  <2>1. box.pending = << >> /\ Flushed(box)
    BY <1>4 DEF NothingToSend, RunnerTyped
  <2>2. /\ box' \in Box /\ seqFile' \in Nat
        /\ box'.phase \in {"running", "reporting"} /\ box'.pending = << >>
        /\ box'.batch = NoBatch /\ box'.backlog = << >>
    BY <1>0, <1>4, <2>1, FlushedType DEF NothingToSend
  <2> QED
    BY <1>4, <2>2 DEF NothingToSend, RunnerTyped
<1>5. CASE Reach
  <2>1. stream' \in Seq(Nat) /\ seen' \subseteq Nat /\ reports' \in [1 .. MaxStarts -> Nat]
    BY <1>01, <1>5, HandleType DEF Reach
  <2>2. box' \in Box /\ box' = [box EXCEPT !.handled = TRUE]
    BY <1>0, <1>5, BoxParts DEF Reach
  <2>3. box'.phase = box.phase /\ box'.pending = box.pending /\ box'.batch = box.batch
        /\ box'.backlog = box.backlog
    BY <1>0, <2>2 DEF Box
  <2> QED
    BY <1>5, <2>1, <2>2, <2>3 DEF Reach, RunnerTyped
<1>6. CASE ReachLate
  <2>1. PICK call \in late : Handle(call) /\ late' = late \ {call}
    BY <1>6 DEF ReachLate
  <2>2. stream' \in Seq(Nat) /\ seen' \subseteq Nat /\ reports' \in [1 .. MaxStarts -> Nat]
    BY <2>1, HandleType DEF RunnerTyped
  <2> QED
    BY <1>6, <2>1, <2>2 DEF ReachLate, RunnerTyped
<1>7. CASE Answered
  <2>1. CASE box.phase = "reporting"
    <3>1. box' = Down /\ UNCHANGED kept
      BY <1>7, <2>1 DEF Answered
    <3> QED
      BY <1>7, <3>1, NoBatchType DEF Answered, RunnerTyped
  <2>2. CASE box.phase = "flushing" /\ box.backlog # << >>
    <3>1. Tail(box.backlog) \in Seq(Batch)
      BY <1>0, <2>2, HeadTailProperties
    <3>2. box' = [box EXCEPT !.backlog = Tail(box.backlog), !.tries = 0, !.handled = FALSE]
      BY <1>7, <2>2 DEF Answered
    <3>3. box' \in Box
      BY <1>0, <3>1, <3>2, BoxParts
    <3>4. box'.phase = box.phase /\ box'.pending = box.pending /\ box'.batch = box.batch
      BY <1>0, <3>2 DEF Box
    <3>5. spool' \in Seq(Batch) /\ seqFile' = seqFile
      BY <1>0, <1>00, <1>7, <2>2 DEF Answered
    <3> QED
      BY <1>7, <2>2, <3>3, <3>4, <3>5 DEF Answered, RunnerTyped
  <2>3. CASE box.phase = "flushing" /\ box.backlog = << >>
    <3>1. Flushed(box) /\ spool' = spool /\ box.pending = << >>
      BY <1>7, <2>3 DEF Answered, RunnerTyped
    <3>2. /\ box' \in Box /\ seqFile' \in Nat
          /\ box'.phase \in {"running", "reporting"} /\ box'.pending = << >>
          /\ box'.batch = NoBatch /\ box'.backlog = << >>
      BY <1>0, <2>3, <3>1, FlushedType
    <3> QED
      BY <1>7, <2>3, <3>1, <3>2 DEF Answered, RunnerTyped
  <2> QED
    BY <1>7, <2>1, <2>2, <2>3 DEF Answered, Calling
<1>8. CASE NotConnected \/ SendAgain
  <2>1. box' = [box EXCEPT !.tries = box.tries + 1, !.handled = FALSE]
    BY <1>8 DEF NotConnected, SendAgain, TriesAgain
  <2>2. box' \in Box
    <3>1. box.tries + 1 \in Nat
      BY <1>0
    <3> QED
      BY <1>0, <1>00, <2>1, <3>1, BoxParts
  <2>3. box'.phase = box.phase /\ box'.pending = box.pending /\ box'.batch = box.batch
        /\ box'.backlog = box.backlog
    BY <1>0, <2>1 DEF Box
  <2>4. late' \subseteq Batch \cup Report
    BY <1>02, <1>8 DEF NotConnected, SendAgain, RunnerTyped
  <2> QED
    BY <1>8, <2>2, <2>3, <2>4 DEF NotConnected, SendAgain, RunnerTyped
<1>9. CASE Unavailable
  <2>1. late' \subseteq Batch \cup Report
    BY <1>02, <1>9 DEF Unavailable
  <2>2. CASE box.phase = "reporting"
    <3>1. box' = Down /\ UNCHANGED kept
      BY <1>9, <2>2 DEF Unavailable
    <3> QED
      BY <1>9, <2>1, <3>1, NoBatchType DEF Unavailable, RunnerTyped
  <2>3. CASE box.phase = "flushing"
    <3>1. Flushed(box) /\ spool' = Spooled /\ box.pending = << >>
      BY <1>9, <2>3 DEF Unavailable, RunnerTyped
    <3>2. /\ box' \in Box /\ seqFile' \in Nat
          /\ box'.phase \in {"running", "reporting"} /\ box'.pending = << >>
          /\ box'.batch = NoBatch /\ box'.backlog = << >>
      BY <1>0, <2>3, <3>1, FlushedType
    <3>3. spool' \in Seq(Batch)
      <4>1. << >> \in Seq(Batch) /\ <<box.batch>> \in Seq(Batch)
        BY <1>0, <1>00
      <4> QED
        BY <1>0, <3>1, <4>1, ConcatProperties DEF Spooled
    <3> QED
      BY <1>9, <2>1, <2>3, <3>2, <3>3 DEF Unavailable, RunnerTyped
  <2> QED
    BY <1>9, <2>2, <2>3 DEF Unavailable, Calling
<1>10. CASE Refused
  <2>1. CASE box' = Down
    BY <1>10, <2>1, NoBatchType DEF Refused, RunnerTyped
  <2>2. CASE box.phase = "flushing" /\ ~box.ending
    <3> DEFINE b == [box EXCEPT !.ending = TRUE, !.tries = 0]
    <3>1. box' = Flushing(b)
      BY <1>10, <2>2 DEF Refused
    <3>2. b \in Box
      BY <1>0, <1>00, BoxParts
    <3> HIDE DEF b
    <3>3. /\ box' \in Box /\ box'.phase = "flushing" /\ box'.pending = << >>
          /\ box'.batch # NoBatch => box'.batch.events # << >>
      BY <1>0, <3>1, <3>2, FlushingType
    <3> QED
      BY <1>10, <2>2, <3>3 DEF Refused, RunnerTyped
  <2> QED
    BY <1>10, <2>1, <2>2 DEF Refused
<1>11. CASE Dies
  <2>1. late' \subseteq Batch \cup Report
    BY <1>02, <1>11 DEF Dies, RunnerTyped
  <2> QED
    BY <1>11, <2>1, NoBatchType DEF Dies, RunnerTyped
<1>12. CASE UNCHANGED runnerVars
  BY <1>12 DEF runnerVars, RunnerTyped
<1> QED
  BY <1>1, <1>2, <1>3, <1>4, <1>5, <1>6, <1>7, <1>8, <1>9, <1>10, <1>11, <1>12 DEF Next, CallEnds

\* The types hold whatever the gateway, the network and the box do.
LEMMA RunnerTypes == Init => RunnerTyped
<1> SUFFICES ASSUME Init PROVE RunnerTyped
  OBVIOUS
<1>1. << >> \in Seq(Nat) /\ << >> \in Seq(Batch)
  BY EmptySeq
<1>2. starts = 0 /\ 0 \in 0 .. MaxStarts
  BY RunnerAssumption DEF Init
<1>3. reports \in [1 .. MaxStarts -> Nat]
  BY DEF Init
<1>4. box = Down /\ spool = << >> /\ seqFile = 0 /\ late = {} /\ stream = << >> /\ seen = {} /\ emitted = 0
  BY DEF Init
<1> QED
  BY <1>1, <1>2, <1>3, <1>4, NoBatchType DEF RunnerTyped

(***************************************************************************)
(* What is on its way                                                      *)
(***************************************************************************)

\* The batches on their way with a runner b.
Under(b) == ToSet(spool) \cup ToSet(b.backlog)
                \cup {b.batch, [from |-> b.seq, events |-> b.pending]} \cup (late \cap Batch)

\* A sequence of batches has the batches it has.
LEMMA ElementsOf ==
    ASSUME NEW S, NEW s \in Seq(S)
    PROVE  /\ DOMAIN s = 1 .. Len(s) /\ Len(s) \in Nat
           /\ \A i \in 1 .. Len(s) : s[i] \in S /\ s[i] \in ToSet(s)
           /\ \A x \in ToSet(s) : x \in S /\ \E i \in 1 .. Len(s) : s[i] = x
<1>1. DOMAIN s = 1 .. Len(s) /\ Len(s) \in Nat
  BY LenProperties
<1>2. \A i \in 1 .. Len(s) : s[i] \in S
  BY ElementOfSeq
<1> QED
  BY <1>1, <1>2 DEF ToSet

\* What is sent of a backlog leaves the rest, and what is written back is what is left and
\* the batch in hand.
LEMMA TailOf ==
    ASSUME NEW S, NEW s \in Seq(S), s # << >>
    PROVE  /\ Tail(s) \in Seq(S) /\ Len(Tail(s)) = Len(s) - 1 /\ Len(s) \in Nat /\ Len(s) > 0
           /\ \A i \in 1 .. Len(s) - 1 : Tail(s)[i] = s[i + 1]
           /\ ToSet(Tail(s)) \subseteq ToSet(s)
<1>1. Len(s) \in Nat /\ Len(s) > 0
  BY LenProperties, EmptySeq
<1>2. /\ Tail(s) \in Seq(S) /\ Len(Tail(s)) = Len(s) - 1
      /\ \A i \in 1 .. Len(s) - 1 : Tail(s)[i] = s[i + 1]
  BY HeadTailProperties
<1>3. \A i \in 1 .. Len(s) - 1 : i + 1 \in 1 .. Len(s)
  BY <1>1
<1>4. ToSet(Tail(s)) \subseteq ToSet(s)
  <2>1. DOMAIN s = 1 .. Len(s) /\ DOMAIN Tail(s) = 1 .. Len(s) - 1
    BY <1>2, ElementsOf
  <2> QED
    BY <1>2, <1>3, <2>1 DEF ToSet
<1> QED
  BY <1>1, <1>2, <1>4

LEMMA AddedTo ==
    ASSUME NEW S, NEW s \in Seq(S), NEW x \in S
    PROVE  /\ s \o <<x>> \in Seq(S) /\ Len(s \o <<x>>) = Len(s) + 1
           /\ \A i \in 1 .. Len(s) : (s \o <<x>>)[i] = s[i]
           /\ (s \o <<x>>)[Len(s) + 1] = x
           /\ ToSet(s \o <<x>>) = ToSet(s) \cup {x}
<1>1. <<x>> \in Seq(S) /\ Len(<<x>>) = 1 /\ <<x>>[1] = x
  OBVIOUS
<1>2. s \o <<x>> \in Seq(S) /\ Len(s \o <<x>>) = Len(s) + Len(<<x>>)
  BY <1>1, ConcatParts
<1>3. \A i \in 1 .. Len(s) : (s \o <<x>>)[i] = s[i]
  BY <1>1, ConcatParts
<1>4. (s \o <<x>>)[Len(s) + 1] = x
  <2>1. \A k \in 1 .. Len(<<x>>) : (s \o <<x>>)[Len(s) + k] = <<x>>[k]
    BY <1>1, ConcatParts
  <2> QED
    BY <1>1, <2>1
<1>5. /\ DOMAIN s = 1 .. Len(s) /\ DOMAIN (s \o <<x>>) = 1 .. Len(s) + 1 /\ Len(s) \in Nat
  BY <1>1, <1>2, ElementsOf
<1> DEFINE more == s \o <<x>>
<1> HIDE DEF more
<1>6. \A y : y \in ToSet(more) <=> y \in ToSet(s) \/ y = x
  BY <1>3, <1>4, <1>5 DEF ToSet, more
<1> QED
  BY <1>1, <1>2, <1>3, <1>4, <1>6 DEF more

\* Nothing comes on its way in a step of these, but what is emitted: a batch moves, or is
\* gone.
Moves == \A batch \in Carried' : batch \in Carried \/ batch.events = << >>

LEMMA FlushingMoves ==
    ASSUME RunnerTyped, NEW b \in Box, UNCHANGED <<spool, late>>,
           box' = Flushing(b)
    PROVE  \A batch \in Carried' : batch \in Under(b) \/ batch.events = << >>
<1>1. /\ box'.batch = IF b.pending = << >> THEN NoBatch ELSE [from |-> b.seq, events |-> b.pending]
      /\ box'.backlog = spool /\ box'.pending = << >>
  BY DEF Flushing, Box
<1>2. Carried' = ToSet(spool) \cup {box'.batch, [from |-> box'.seq, events |-> << >>]} \cup (late \cap Batch)
  BY <1>1 DEF Carried, InHand
<1> QED
  BY <1>1, <1>2, NoBatchType DEF Under

LEMMA EntersMoves ==
    ASSUME RunnerTyped, box.phase = "flushing", NEW phase, Enters(box, phase),
           \A batch \in ToSet(spool') : batch \in Carried,
           \A call \in late' : call \in late \/ call \in Carried \/ call \notin Batch
    PROVE  Moves
<1>1. box'.batch = NoBatch /\ box'.backlog = << >> /\ box'.pending = << >>
  BY DEF Enters, RunnerTyped, Box
<1>2. Carried' = ToSet(spool') \cup {NoBatch, [from |-> box'.seq, events |-> << >>]} \cup (late' \cap Batch)
  BY <1>1 DEF Carried, InHand, ToSet
<1> QED
  BY <1>2, NoBatchType DEF Moves, Carried

\* A runner that is down has nothing on its way but the spool and late calls.
LEMMA DownMoves ==
    ASSUME RunnerTyped, box' = Down, ToSet(spool') \subseteq ToSet(spool),
           \A call \in late' : call \in late \/ call \in Carried \/ call \notin Batch
    PROVE  Moves
<1>1. box'.batch = NoBatch /\ box'.backlog = << >> /\ box'.pending = << >>
  BY NoBatchType
<1>2. Carried' = ToSet(spool') \cup {NoBatch, [from |-> box'.seq, events |-> << >>]} \cup (late' \cap Batch)
  BY <1>1 DEF Carried, InHand, ToSet
<1> QED
  BY <1>2, NoBatchType DEF Moves, Carried

\* A call that is lost was on its way.
LEMMA LosesMoves ==
    ASSUME RunnerTyped, Calling, Loses
    PROVE  \A call \in late' : call \in late \/ call \in Carried \/ call \notin Batch
<1>1. Payload(box) \in Report \/ Payload(box) \in Carried
  BY PayloadType
<1>2. \A call \in Report : call \notin Batch
  BY DEF Report, Batch
<1> QED
  BY <1>1, <1>2 DEF Loses

\* No step but emit() puts a batch on its way.
LEMMA StepMoves ==
    ASSUME RunnerTyped, [Next]_runnerVars, ~Emit
    PROVE  Moves
<1> USE DEF kept, gateway
<1>0. /\ box \in Box /\ spool \in Seq(Batch) /\ box.backlog \in Seq(Batch) /\ box.batch \in Batch
  BY DEF RunnerTyped, Box
<1>1. CASE Begin
  <2>1. PICK phase \in {"running", "reporting"} : box' = [Down EXCEPT !.phase = phase, !.seq = seqFile]
    BY <1>1 DEF Begin
  <2>2. box'.batch = NoBatch /\ box'.backlog = << >> /\ box'.pending = << >>
    BY <2>1, NoBatchType DEF Down
  <2>3. Carried' = ToSet(spool) \cup {NoBatch, [from |-> box'.seq, events |-> << >>]} \cup (late \cap Batch)
    BY <1>1, <2>2 DEF Begin, Carried, InHand, ToSet
  <2> QED
    BY <2>3, NoBatchType DEF Moves, Carried
<1>2. CASE Finish
  <2> DEFINE b == [box EXCEPT !.ending = TRUE]
  <2>1. b \in Box /\ Under(b) = Carried
    BY <1>0 DEF Box, Under, Carried, InHand
  <2>2. box' = Flushing(b)
    BY <1>2 DEF Finish
  <2> HIDE DEF b
  <2> QED
    BY <1>2, <2>1, <2>2, FlushingMoves DEF Moves, Finish
<1>3. CASE NothingToSend
  <2>1. box.phase = "flushing" /\ UNCHANGED <<spool, late>> /\ \E phase : Enters(box, phase)
    BY <1>3 DEF NothingToSend, Flushed
  <2>2. \A batch \in ToSet(spool') : batch \in Carried
    BY <2>1 DEF Carried
  <2> QED
    BY <2>1, <2>2, EntersMoves
<1>4. CASE Reach
  <2>1. box' = [box EXCEPT !.handled = TRUE]
    BY <1>4 DEF Reach
  <2>2. box'.pending = box.pending /\ box'.batch = box.batch /\ box'.backlog = box.backlog
        /\ box'.seq = box.seq
    BY <1>0, <2>1 DEF Box
  <2>3. Carried' = Carried
    BY <1>4, <2>2 DEF Reach, Carried, InHand
  <2> QED
    BY <2>3 DEF Moves
<1>5. CASE ReachLate
  <2>1. UNCHANGED <<box, spool>> /\ late' \subseteq late
    BY <1>5 DEF ReachLate
  <2> QED
    BY <2>1 DEF Moves, Carried, InHand
<1>6. CASE Answered
  <2>1. CASE box.phase = "reporting"
    <3>1. box' = Down /\ UNCHANGED <<spool, late>>
      BY <1>6, <2>1 DEF Answered
    <3> QED
      BY <3>1, DownMoves
  <2>2. CASE box.phase = "flushing" /\ box.backlog # << >>
    <3>1. box' = [box EXCEPT !.backlog = Tail(box.backlog), !.tries = 0, !.handled = FALSE]
      BY <1>6, <2>2 DEF Answered
    <3>2. /\ box'.backlog = Tail(box.backlog) /\ box'.batch = box.batch
          /\ box'.pending = box.pending /\ box'.seq = box.seq
      BY <1>0, <3>1 DEF Box
    <3>3. ToSet(spool') \subseteq ToSet(spool) /\ late' = late
      BY <1>6, <2>2 DEF Answered, ToSet
    <3>4. ToSet(box'.backlog) \subseteq ToSet(box.backlog)
      BY <1>0, <2>2, <3>2, TailOf
    <3> QED
      BY <3>2, <3>3, <3>4 DEF Moves, Carried, InHand
  <2>3. CASE box.phase = "flushing" /\ box.backlog = << >>
    <3>1. UNCHANGED <<spool, late>> /\ \E phase : Enters(box, phase)
      BY <1>6, <2>3 DEF Answered, Flushed
    <3>2. \A batch \in ToSet(spool') : batch \in Carried
      BY <3>1 DEF Carried
    <3> QED
      BY <2>3, <3>1, <3>2, EntersMoves
  <2> QED
    BY <1>6, <2>1, <2>2, <2>3 DEF Answered, Calling
<1>7. CASE NotConnected \/ SendAgain
  <2>1. box' = [box EXCEPT !.tries = box.tries + 1, !.handled = FALSE] /\ spool' = spool
    BY <1>7 DEF NotConnected, SendAgain, TriesAgain
  <2>2. box'.pending = box.pending /\ box'.batch = box.batch /\ box'.backlog = box.backlog
        /\ box'.seq = box.seq
    BY <1>0, <2>1 DEF Box
  <2>3. \A call \in late' : call \in late \/ call \in Carried \/ call \notin Batch
    BY <1>7, LosesMoves DEF NotConnected, SendAgain
  <2> QED
    BY <2>1, <2>2, <2>3 DEF Moves, Carried, InHand
<1>8. CASE Unavailable
  <2>1. \A call \in late' : call \in late \/ call \in Carried \/ call \notin Batch
    BY <1>8, LosesMoves DEF Unavailable
  <2>2. CASE box.phase = "reporting"
    <3>1. box' = Down /\ UNCHANGED spool
      BY <1>8, <2>2 DEF Unavailable
    <3> QED
      BY <2>1, <3>1, DownMoves
  <2>3. CASE box.phase = "flushing"
    <3>1. spool' = Spooled /\ \E phase : Enters(box, phase)
      BY <1>8, <2>3 DEF Unavailable, Flushed
    <3>2. \A batch \in ToSet(spool') : batch \in Carried
      <4>1. CASE box.batch = NoBatch
        <5>1. spool' = box.backlog
          BY <1>0, <3>1, <4>1, ConcatEmptySeq DEF Spooled
        <5> QED
          BY <5>1 DEF Carried
      <4>2. CASE box.batch # NoBatch
        <5>1. ToSet(box.backlog \o <<box.batch>>) = ToSet(box.backlog) \cup {box.batch}
          BY <1>0, AddedTo
        <5>2. spool' = box.backlog \o <<box.batch>>
          BY <3>1, <4>2 DEF Spooled
        <5> QED
          BY <5>1, <5>2 DEF Carried
      <4> QED
        BY <4>1, <4>2
    <3> QED
      BY <2>1, <2>3, <3>1, <3>2, EntersMoves
  <2> QED
    BY <1>8, <2>2, <2>3 DEF Unavailable, Calling
<1>9. CASE Refused
  <2>1. CASE box' = Down
    BY <1>9, <2>1, DownMoves DEF Refused
  <2>2. CASE box.phase = "flushing" /\ ~box.ending
    <3> DEFINE b == [box EXCEPT !.ending = TRUE, !.tries = 0]
    <3>1. box' = Flushing(b)
      BY <1>9, <2>2 DEF Refused
    <3>2. b \in Box /\ Under(b) = Carried
      BY <1>0 DEF Box, Under, Carried, InHand
    <3> HIDE DEF b
    <3> QED
      BY <1>9, <3>1, <3>2, FlushingMoves DEF Refused, Moves
  <2> QED
    BY <1>9, <2>1, <2>2 DEF Refused
<1>10. CASE Dies
  <2>1. \A call \in late' : call \in late \/ call \in Carried \/ call \notin Batch
    BY <1>10, LosesMoves DEF Dies
  <2> QED
    BY <1>10, <2>1, DownMoves DEF Dies
<1>11. CASE UNCHANGED runnerVars
  BY <1>11 DEF runnerVars, Moves, Carried, InHand
<1> QED
  BY <1>1, <1>2, <1>3, <1>4, <1>5, <1>6, <1>7, <1>8, <1>9, <1>10, <1>11 DEF Next, CallEnds

\* emit() gives the new event the number after those of the events it has.
LEMMA EmitTags ==
    ASSUME RunnerTyped, Emit
    PROVE  /\ \E n : Tags' \subseteq Tags \cup {<<n, emitted + 1>>}
           /\ emitted' = emitted + 1 /\ UNCHANGED gateway
<1>0. /\ box \in Box /\ box.pending \in Seq(Nat) /\ emitted + 1 \in Nat /\ box.seq \in Nat
      /\ Len(box.pending) \in Nat
  BY LenProperties DEF RunnerTyped, Box
<1> DEFINE more == Append(box.pending, emitted + 1)
           b == [box EXCEPT !.pending = more]
           n == box.seq + Len(box.pending)
<1>1. /\ more \in Seq(Nat) /\ Len(more) = Len(box.pending) + 1
      /\ \A i \in 1 .. Len(box.pending) : more[i] = box.pending[i]
      /\ more[Len(box.pending) + 1] = emitted + 1
  BY <1>0, AppendProperties
<1>2. DOMAIN more = 1 .. Len(box.pending) + 1 /\ DOMAIN box.pending = 1 .. Len(box.pending)
  BY <1>0, <1>1, ElementsOf
<1> HIDE DEF more
<1>3. b \in Box /\ b.batch = box.batch /\ b.backlog = box.backlog /\ b.seq = box.seq /\ b.pending = more
  BY <1>0, <1>1 DEF Box
<1>4. box' = Flushing(b) \/ box' = b
  BY <1>3 DEF Emit, more
<1> HIDE DEF b
<1>5. UNCHANGED <<spool, late>>
  BY DEF Emit, kept
<1>6. \A batch \in Carried' : batch \in Under(b) \/ batch.events = << >>
  <2>1. CASE box' = Flushing(b)
    BY <1>3, <1>5, <2>1, FlushingMoves
  <2>2. CASE box' = b
    BY <1>5, <2>2 DEF Carried, Under, InHand
  <2> QED
    BY <1>4, <2>1, <2>2
<1>7. \A batch \in Under(b) : batch \in Carried \/ batch = [from |-> box.seq, events |-> more]
  BY <1>3 DEF Under, Carried
<1>8. Pairs([from |-> box.seq, events |-> more]) \subseteq Pairs(InHand) \cup {<<n, emitted + 1>>}
  <2> SUFFICES ASSUME NEW i \in 1 .. Len(box.pending) + 1
               PROVE  <<box.seq + i - 1, more[i]>> \in Pairs(InHand) \cup {<<n, emitted + 1>>}
    BY <1>2 DEF Pairs
  <2>1. CASE i = Len(box.pending) + 1
    BY <1>0, <1>1, <2>1
  <2>2. CASE i \in 1 .. Len(box.pending)
    BY <1>1, <1>2, <2>2 DEF Pairs, InHand
  <2> QED
    BY <1>0, <2>1, <2>2
<1>9. InHand \in Carried
  BY DEF Carried
<1>10. \A batch \in Carried' : Pairs(batch) \subseteq Tags \cup {<<n, emitted + 1>>}
  <2> SUFFICES ASSUME NEW batch \in Carried' PROVE Pairs(batch) \subseteq Tags \cup {<<n, emitted + 1>>}
    OBVIOUS
  <2>1. CASE batch.events = << >>
    BY <2>1 DEF Pairs
  <2>2. CASE batch \in Carried
    BY <2>2 DEF Tags
  <2>3. CASE batch = [from |-> box.seq, events |-> more]
    BY <1>8, <1>9, <2>3 DEF Tags
  <2> QED
    BY <1>6, <1>7, <2>1, <2>2, <2>3
<1>11. Tags' \subseteq Tags \cup {<<n, emitted + 1>>}
  BY <1>10 DEF Tags
<1> QED
  BY <1>11 DEF Emit

(***************************************************************************)
(* No event is recorded twice                                              *)
(***************************************************************************)

\* The pairs of what is on its way are gone or are the ones there were.
LEMMA TagsMove == ASSUME Moves PROVE Tags' \subseteq Tags
<1> SUFFICES ASSUME NEW batch \in Carried' PROVE Pairs(batch) \subseteq Tags
  BY DEF Tags
<1>1. CASE batch \in Carried
  BY <1>1 DEF Tags
<1>2. CASE batch.events = << >>
  BY <1>2 DEF Pairs
<1> QED
  BY <1>1, <1>2 DEF Moves

\* A batch that arrives records the events whose numbers are new, and with one number for
\* an event none of them is in the stream.
LEMMA RecordsOnce ==
    ASSUME RunnerTyped, Numbered, RecordedOnce, NEW call \in Batch, call \in Carried, Records(call),
           Tags' \subseteq Tags, emitted' = emitted
    PROVE  Numbered' /\ RecordedOnce'
<1>1. PICK new : Ascending(new) /\ TakenIn(call, new)
  BY DEF Records, TakenIn
<1>2. seen' = seen \cup Numbers(call)
  BY DEF Records
<1>20. Lengthened(call, new)
  BY <1>1, RecordsType
<1>3. /\ stream' \in Seq(Nat)
      /\ new \in Seq(Fresh(call)) /\ Len(new) \in Nat /\ DOMAIN new = 1 .. Len(new)
      /\ Fresh(call) \subseteq 1 .. Len(call.events)
      /\ Len(stream') = Len(stream) + Len(new)
      /\ \A i \in 1 .. Len(stream) : stream'[i] = stream[i]
      /\ \A k \in 1 .. Len(new) : stream'[Len(stream) + k] = call.events[new[k]]
  BY <1>20 DEF Lengthened
<1>4. /\ DOMAIN stream = 1 .. Len(stream) /\ Len(stream) \in Nat
      /\ DOMAIN stream' = 1 .. Len(stream) + Len(new)
      /\ \A i \in 1 .. Len(stream) : stream[i] \in ToSet(stream)
  BY <1>3, ElementsOf DEF RunnerTyped
<1>5. /\ call.events \in Seq(Nat) /\ call.from \in Nat /\ Len(call.events) \in Nat
      /\ DOMAIN call.events = 1 .. Len(call.events)
  BY ElementsOf DEF Batch
<1>6. \A k \in 1 .. Len(new) : new[k] \in Fresh(call) /\ new[k] \in 1 .. Len(call.events)
  BY <1>3, ElementsOf
<1>7. \A i \in 1 .. Len(call.events) : <<call.from + i - 1, call.events[i]>> \in Tags
  BY <1>5 DEF Tags, Pairs
<1>8. \A i \in 1 .. Len(stream) + Len(new) :
         \/ i \in 1 .. Len(stream)
         \/ \E k \in 1 .. Len(new) : i = Len(stream) + k
  <2> SUFFICES ASSUME NEW i \in 1 .. Len(stream) + Len(new), ~(i \in 1 .. Len(stream))
               PROVE  \E k \in 1 .. Len(new) : i = Len(stream) + k
    OBVIOUS
  <2>1. i - Len(stream) \in 1 .. Len(new) /\ i = Len(stream) + (i - Len(stream))
    BY <1>3, <1>4
  <2> QED
    BY <2>1
<1>9. ASSUME NEW e \in ToSet(stream'), e \notin ToSet(stream)
      PROVE  \E k \in 1 .. Len(new) : e = call.events[new[k]]
  <2>1. PICK i \in 1 .. Len(stream) + Len(new) : stream'[i] = e
    BY <1>4, <1>9 DEF ToSet
  <2>2. ~(i \in 1 .. Len(stream))
    BY <1>3, <1>4, <1>9, <2>1
  <2> QED
    BY <1>3, <1>8, <2>1, <2>2
<1>10. \A i \in 1 .. Len(call.events) : call.from + i - 1 \in seen'
  BY <1>2, <1>5 DEF Numbers
<1>11. Numbered'
  <2>1. \A p, q \in Tags' : p[2] = q[2] => p[1] = q[1]
    BY DEF Numbered
  <2>2. ASSUME NEW p \in Tags' PROVE p[2] \in 1 .. emitted' /\ (p[2] \in ToSet(stream') => p[1] \in seen')
    <3>1. p \in Tags /\ p[2] \in 1 .. emitted'
      BY DEF Numbered
    <3>2. CASE p[2] \in ToSet(stream)
      BY <1>2, <3>1, <3>2 DEF Numbered
    <3>3. CASE p[2] \in ToSet(stream') /\ p[2] \notin ToSet(stream)
      <4>1. PICK k \in 1 .. Len(new) : p[2] = call.events[new[k]]
        BY <1>9, <3>3
      <4> DEFINE q == <<call.from + new[k] - 1, call.events[new[k]]>>
      <4>2. q \in Tags /\ q[1] \in seen' /\ q[2] = p[2]
        BY <1>6, <1>7, <1>10, <4>1
      <4> QED
        BY <3>1, <4>2 DEF Numbered
    <3> QED
      BY <3>1, <3>2, <3>3
  <2>3. ToSet(stream') \subseteq 1 .. emitted'
    <3> SUFFICES ASSUME NEW e \in ToSet(stream'), e \notin ToSet(stream) PROVE e \in 1 .. emitted
      BY DEF Numbered
    <3>1. PICK k \in 1 .. Len(new) : e = call.events[new[k]]
      BY <1>9
    <3> DEFINE q == <<call.from + new[k] - 1, call.events[new[k]]>>
    <3>2. q \in Tags /\ q[2] = e
      BY <1>6, <1>7, <3>1
    <3> QED
      BY <3>2 DEF Numbered
  <2> QED
    BY <2>1, <2>2, <2>3 DEF Numbered
<1>12. ASSUME NEW i \in 1 .. Len(stream), NEW k \in 1 .. Len(new)
       PROVE  stream'[i] # stream'[Len(stream) + k]
  <2> SUFFICES ASSUME stream[i] = call.events[new[k]] PROVE FALSE
    BY <1>3
  <2> DEFINE q == <<call.from + new[k] - 1, call.events[new[k]]>>
  <2>1. q \in Tags /\ q[2] \in ToSet(stream) /\ q[1] = call.from + new[k] - 1
    BY <1>4, <1>6, <1>7
  <2>2. call.from + new[k] - 1 \in seen
    BY <2>1 DEF Numbered
  <2> QED
    BY <1>6, <2>2 DEF Fresh
<1>13. ASSUME NEW k \in 1 .. Len(new), NEW l \in 1 .. Len(new),
              stream'[Len(stream) + k] = stream'[Len(stream) + l]
       PROVE  k = l
  <2> DEFINE p == <<call.from + new[k] - 1, call.events[new[k]]>>
             q == <<call.from + new[l] - 1, call.events[new[l]]>>
  <2>1. p \in Tags /\ q \in Tags /\ p[2] = q[2]
    BY <1>3, <1>6, <1>7, <1>13
  <2>2. p[1] = q[1]
    BY <2>1 DEF Numbered
  <2>3. new[k] = new[l] /\ new[k] \in Nat
    BY <1>5, <1>6, <2>2
  <2>4. (k < l => new[k] < new[l]) /\ (l < k => new[l] < new[k])
    BY <1>1, <1>3 DEF Ascending
  <2>5. ~(new[k] < new[l]) /\ ~(new[l] < new[k])
    BY <2>3
  <2> QED
    BY <1>3, <2>4, <2>5
<1>14. RecordedOnce'
  <2> SUFFICES ASSUME NEW i \in DOMAIN stream', NEW j \in DOMAIN stream', stream'[i] = stream'[j]
               PROVE  i = j
    BY DEF RecordedOnce
  <2>1. i \in 1 .. Len(stream) \/ \E k \in 1 .. Len(new) : i = Len(stream) + k
    BY <1>4, <1>8
  <2>2. j \in 1 .. Len(stream) \/ \E k \in 1 .. Len(new) : j = Len(stream) + k
    BY <1>4, <1>8
  <2>3. CASE i \in 1 .. Len(stream) /\ j \in 1 .. Len(stream)
    BY <1>3, <1>4, <2>3 DEF RecordedOnce
  <2> QED
    BY <1>12, <1>13, <2>1, <2>2, <2>3
<1> QED
  BY <1>11, <1>14

\* The numbers of the events stay what they are.
LEMMA NumberedStep ==
    ASSUME RunnerTyped, Numbered, RecordedOnce, [Next]_runnerVars
    PROVE  Numbered' /\ RecordedOnce'
<1> USE DEF kept, gateway
<1>1. CASE Emit
  <2>1. PICK n : Tags' \subseteq Tags \cup {<<n, emitted + 1>>}
    BY <1>1, EmitTags
  <2>2. emitted' = emitted + 1 /\ UNCHANGED <<stream, seen>> /\ emitted \in Nat
    BY <1>1, EmitTags DEF RunnerTyped
  <2>3. \A p \in Tags : p[2] \in 1 .. emitted /\ p[2] # emitted + 1 /\ p[2] \in 1 .. emitted + 1
    BY <2>2 DEF Numbered
  <2>4. emitted + 1 \notin ToSet(stream) /\ ToSet(stream) \subseteq 1 .. emitted + 1
    BY <2>2 DEF Numbered
  <2>5. \A p \in Tags' : p \in Tags \/ p = <<n, emitted + 1>>
    BY <2>1
  <2>6. \A p, q \in Tags' : p[2] = q[2] => p[1] = q[1]
    BY <2>3, <2>5 DEF Numbered
  <2>7. \A p \in Tags' : p[2] \in 1 .. emitted + 1 /\ (p[2] \in ToSet(stream) => p[1] \in seen)
    BY <2>2, <2>3, <2>4, <2>5 DEF Numbered
  <2> QED
    BY <2>2, <2>4, <2>6, <2>7 DEF Numbered, RecordedOnce
<1>2. CASE ~Emit
  <2>1. Tags' \subseteq Tags
    BY <1>2, StepMoves, TagsMove
  <2>2. CASE UNCHANGED <<stream, seen, emitted>>
    BY <2>1, <2>2 DEF Numbered, RecordedOnce
  <2>3. ASSUME NEW call \in Batch, call \in Carried, Handle(call), emitted' = emitted
        PROVE  Numbered' /\ RecordedOnce'
    <3>1. "report" \notin DOMAIN call
      BY DEF Batch
    <3>2. Records(call)
      BY <2>3, <3>1 DEF Handle
    <3> QED
      BY <2>1, <2>3, <3>2, RecordsOnce
  <2>4. ASSUME NEW call \in Report, Handle(call)
        PROVE  UNCHANGED <<stream, seen>>
    BY <2>4 DEF Handle, Report
  <2>5. CASE Reach
    BY <2>2, <2>3, <2>4, <2>5, PayloadType DEF Reach
  <2>6. CASE ReachLate
    <3>1. PICK call \in late : Handle(call)
      BY <2>6 DEF ReachLate
    <3>2. call \in Batch => call \in Carried
      BY DEF Carried
    <3> QED
      BY <2>2, <2>3, <2>4, <2>6, <3>1, <3>2 DEF ReachLate, RunnerTyped
  <2>7. CASE [Next]_runnerVars /\ ~Reach /\ ~ReachLate
    BY <1>2, <2>2, <2>7
       DEF Next, CallEnds, Begin, Finish, NothingToSend, Answered, NotConnected, SendAgain, Unavailable,
           Refused, Dies, runnerVars
  <2> QED
    BY <2>5, <2>6, <2>7
<1> QED
  BY <1>1, <1>2

\* No event is recorded twice, although batches are sent again, spooled and replayed,
\* runners die, and a call that was given up arrives late (GatewayEvents.flush and
\* _drain_spool, GatewayClient.request).
THEOREM AlwaysRecordedOnce == Spec => []RecordedOnce
<1>1. Init => RunnerTyped /\ Numbered /\ RecordedOnce
  <2> SUFFICES ASSUME Init PROVE Numbered /\ RecordedOnce
    BY RunnerTypes
  <2>1. spool = << >> /\ box = Down /\ late = {} /\ stream = << >>
    BY DEF Init
  <2>2. \A batch \in Carried : batch.events = << >>
    BY <2>1, NoBatchType DEF Carried, InHand, ToSet
  <2>3. Tags = {}
    BY <2>2 DEF Tags, Pairs
  <2> QED
    BY <2>1, <2>3 DEF Numbered, RecordedOnce, ToSet
<1>2. RunnerTyped /\ Numbered /\ RecordedOnce /\ [Next]_runnerVars => (RunnerTyped /\ Numbered /\ RecordedOnce)'
  BY RunnerTypedStep, NumberedStep
<1> QED
  BY <1>1, <1>2, PTL DEF Spec

(***************************************************************************)
(* No result is reported twice                                             *)
(***************************************************************************)

\* A batch that reaches the gateway, or is lost, is no report.
LEMMA BatchReports ==
    ASSUME NEW call \in Batch
    PROVE  /\ Handle(call) => reports' = reports
           /\ \A n : call # [report |-> n]
<1>1. "report" \notin DOMAIN call
  BY DEF Batch
<1> QED
  BY <1>1 DEF Handle, Records

\* A result is sent by one attempt of one runner: the ways a step can treat it.
LEMMA ReportsOnceStep ==
    ASSUME RunnerTyped, ReportsOnce, [Next]_runnerVars
    PROVE  ReportsOnce'
<1> USE DEF kept, gateway
<1>0. /\ box \in Box /\ starts \in 0 .. MaxStarts /\ late \subseteq Batch \cup Report
      /\ reports \in [1 .. MaxStarts -> Nat] /\ MaxStarts \in Nat
      /\ box.phase # "down" => starts \in 1 .. MaxStarts
  BY RunnerAssumption DEF RunnerTyped
<1>1. ASSUME UNCHANGED <<reports, starts>>, \A n \in 1 .. MaxStarts : Sent(n)' => Sent(n),
             \/ box'.phase = "down"
             \/ /\ box.phase # "down"
                /\ reports[starts] # 0 => box'.phase = "reporting" /\ box'.handled
      PROVE  ReportsOnce'
  BY <1>0, <1>1 DEF ReportsOnce, Sent
<1>2. ASSUME NEW call \in Batch, late' \subseteq late \cup {call} PROVE \A n : Sent(n)' => Sent(n)
  BY <1>2, BatchReports DEF Sent
<1>3. ASSUME Calling, Loses
      PROVE  /\ box.phase # "reporting" => \A n : Sent(n)' => Sent(n)
             /\ box.handled => late' = late
             /\ box.phase = "reporting" => late' \subseteq late \cup {[report |-> starts]}
  <2>1. late' \subseteq late \cup {Payload(box)}
    BY <1>3 DEF Loses
  <2>2. box.phase # "reporting" => \A n : Sent(n)' => Sent(n)
    BY <1>2, <1>3, <2>1, PayloadType
  <2> QED
    BY <1>3, <2>1, <2>2, PayloadType DEF Loses
<1>4. box.phase \notin {"down", "reporting"} => reports[starts] = 0
  BY DEF ReportsOnce
<1>5. CASE Begin
  <2>1. PICK phase \in {"running", "reporting"} : box' = [Down EXCEPT !.phase = phase, !.seq = seqFile]
    BY <1>5 DEF Begin
  <2>2. starts' = starts + 1 /\ starts' \in 1 .. MaxStarts /\ UNCHANGED <<reports, late>>
    BY <1>0, <1>5 DEF Begin
  <2>3. reports[starts'] = 0 /\ ~Sent(starts')
    BY <1>0, <2>2 DEF ReportsOnce
  <2>4. \A n \in 1 .. MaxStarts : n > starts' => n > starts
    BY <1>0, <2>2
  <2> QED
    BY <2>2, <2>3, <2>4 DEF ReportsOnce, Sent
<1>6. CASE Emit \/ Finish
  <2>1. box.phase = "running" /\ UNCHANGED <<late, reports, starts>>
    BY <1>6 DEF Emit, Finish
  <2> QED
    BY <1>1, <1>4, <2>1 DEF Sent
<1>7. CASE NothingToSend
  BY <1>1, <1>4, <1>7 DEF NothingToSend, Sent
<1>8. CASE Reach
  <2>1. /\ box' = [box EXCEPT !.handled = TRUE] /\ UNCHANGED <<late, starts>>
        /\ Calling /\ ~box.handled /\ Handle(Payload(box))
    BY <1>8 DEF Reach
  <2>2. box'.phase = box.phase /\ box'.handled = TRUE
    BY <1>0, <2>1 DEF Box
  <2>3. CASE box.phase # "reporting"
    <3>1. reports' = reports /\ box.phase = "flushing"
      BY <2>1, <2>3, PayloadType, BatchReports
    <3> QED
      BY <1>1, <1>4, <2>1, <3>1 DEF Sent
  <2>4. CASE box.phase = "reporting"
    <3>1. reports' = [reports EXCEPT ![starts] = reports[starts] + 1]
      BY <2>1, <2>4, PayloadType DEF Handle
    <3>2. reports[starts] = 0 /\ ~Sent(starts) /\ starts \in 1 .. MaxStarts
      BY <1>0, <2>1, <2>4 DEF ReportsOnce
    <3>3. \A n \in 1 .. MaxStarts : reports'[n] = IF n = starts THEN 1 ELSE reports[n]
      BY <1>0, <3>1, <3>2
    <3>4. \A n \in 1 .. MaxStarts : n > starts => n # starts
      BY <1>0
    <3> QED
      BY <2>1, <2>2, <2>4, <3>2, <3>3, <3>4 DEF ReportsOnce, Sent
  <2> QED
    BY <2>3, <2>4
<1>9. CASE ReachLate
  <2>1. PICK call \in late : Handle(call) /\ late' = late \ {call}
    BY <1>9 DEF ReachLate
  <2>2. UNCHANGED <<box, starts>>
    BY <1>9 DEF ReachLate
  <2>3. CASE call \in Batch
    <3>1. reports' = reports
      BY <2>1, <2>3, BatchReports
    <3>2. \/ box'.phase = "down"
          \/ /\ box.phase # "down"
             /\ reports[starts] # 0 => box'.phase = "reporting" /\ box'.handled
      BY <2>2 DEF ReportsOnce
    <3> QED
      BY <1>1, <2>1, <2>2, <3>1, <3>2 DEF Sent
  <2>4. CASE call \in Report
    <3>1. PICK m \in 1 .. MaxStarts : call = [report |-> m]
      BY <2>4 DEF Report
    <3>2. call.report = m /\ "report" \in DOMAIN call
      BY <3>1
    <3>3. reports' = [reports EXCEPT ![m] = reports[m] + 1]
      BY <2>1, <3>2 DEF Handle
    <3>4. Sent(m) /\ reports[m] = 0 /\ ~(m > starts)
      BY <2>1, <3>1 DEF Sent, ReportsOnce
    <3>5. \A n \in 1 .. MaxStarts : reports'[n] = IF n = m THEN 1 ELSE reports[n]
      BY <1>0, <3>3, <3>4
    <3>6. ~Sent(m)' /\ \A n : Sent(n)' => Sent(n)
      BY <2>1, <3>1 DEF Sent
    <3>7. box.phase # "down" => starts # m
      BY <3>4 DEF ReportsOnce
    <3> QED
      BY <1>0, <2>2, <3>4, <3>5, <3>6, <3>7 DEF ReportsOnce
  <2> QED
    BY <1>0, <2>1, <2>3, <2>4
<1>10. CASE Answered
  <2>1. UNCHANGED <<late, reports, starts>> /\ Calling
    BY <1>10 DEF Answered
  <2>2. CASE box.phase = "reporting"
    <3>1. box' = Down
      BY <1>10, <2>2 DEF Answered
    <3>2. box'.phase = "down"
      BY <3>1, NoBatchType
    <3> QED
      BY <1>1, <2>1, <3>2 DEF Sent
  <2>3. CASE box.phase = "flushing"
    BY <1>1, <1>4, <2>1, <2>3 DEF Sent
  <2> QED
    BY <2>1, <2>2, <2>3 DEF Calling
<1>11. CASE NotConnected
  <2>1. UNCHANGED <<late, reports, starts>> /\ ~box.handled /\ Calling
    BY <1>11 DEF NotConnected
  <2>2. box.phase # "down" /\ reports[starts] = 0
    BY <2>1 DEF ReportsOnce, Calling
  <2> QED
    BY <1>1, <2>1, <2>2 DEF Sent
<1>12. CASE SendAgain
  <2>1. box.phase = "flushing" /\ UNCHANGED <<reports, starts>> /\ \A n : Sent(n)' => Sent(n)
    BY <1>3, <1>12 DEF SendAgain, SafeToRepeat
  <2> QED
    BY <1>1, <1>4, <2>1
<1>13. ASSUME box'.phase = "down", box.phase # "down", UNCHANGED <<reports, starts>>,
              IF Calling THEN Loses ELSE UNCHANGED late
       PROVE  ReportsOnce'
  <2>1. CASE Calling /\ box.phase = "reporting" /\ ~box.handled
    <3>1. reports[starts] = 0 /\ starts \in 1 .. MaxStarts
      BY <1>0, <2>1 DEF ReportsOnce
    <3>2. \A n : Sent(n)' => Sent(n) \/ n = starts
      BY <1>3, <1>13, <2>1 DEF Sent
    <3>3. \A n \in 1 .. MaxStarts : n > starts => n # starts
      BY <1>0
    <3> QED
      BY <1>13, <3>1, <3>2, <3>3 DEF ReportsOnce
  <2>2. CASE ~(Calling /\ box.phase = "reporting" /\ ~box.handled)
    <3>1. \A n : Sent(n)' => Sent(n)
      BY <1>3, <1>13, <2>2 DEF Sent
    <3> QED
      BY <1>1, <1>13, <3>1
  <2> QED
    BY <2>1, <2>2
<1>14. CASE Unavailable
  <2>1. CASE box.phase = "reporting"
    BY <1>13, <1>14, <2>1, NoBatchType DEF Unavailable
  <2>2. CASE box.phase = "flushing"
    BY <1>1, <1>3, <1>4, <1>14, <2>2 DEF Unavailable
  <2> QED
    BY <1>14, <2>1, <2>2 DEF Unavailable, Calling
<1>15. CASE Refused
  <2>1. UNCHANGED <<late, reports, starts>> /\ Calling
    BY <1>15 DEF Refused
  <2>2. CASE box' = Down
    BY <1>1, <2>1, <2>2, NoBatchType DEF Sent
  <2>3. CASE box.phase = "flushing"
    BY <1>1, <1>4, <2>1, <2>3 DEF Sent
  <2> QED
    BY <1>15, <2>2, <2>3 DEF Refused
<1>16. CASE Dies
  BY <1>13, <1>16, NoBatchType DEF Dies
<1>17. CASE UNCHANGED runnerVars
  BY <1>17 DEF runnerVars, ReportsOnce, Sent
<1> QED
  BY <1>5, <1>6, <1>7, <1>8, <1>9, <1>10, <1>11, <1>12, <1>14, <1>15, <1>16, <1>17 DEF Next, CallEnds

\* A runner's result reaches the gateway at most once: a report that may have arrived is
\* not sent again (_safe_to_repeat, GatewayClient.request).
THEOREM AlwaysReportedOnce == Spec => []ReportedOnce
<1>1. Init => RunnerTyped /\ ReportsOnce
  <2> SUFFICES ASSUME Init PROVE ReportsOnce
    BY RunnerTypes
  <2> QED
    BY NoBatchType DEF Init, ReportsOnce, Sent
<1>2. RunnerTyped /\ ReportsOnce /\ [Next]_runnerVars => (RunnerTyped /\ ReportsOnce)'
  BY RunnerTypedStep, ReportsOnceStep
<1>3. ReportsOnce => ReportedOnce
  BY DEF ReportsOnce, ReportedOnce
<1> QED
  BY <1>1, <1>2, <1>3, PTL DEF Spec


(***************************************************************************)
(* Batches without a gap                                                   *)
(***************************************************************************)

LEMMA SmallestPlace ==
    ASSUME NEW places \in SUBSET Nat, places # {}
    PROVE  \E i \in places : \A j \in places : i <= j
<1> DEFINE Below == {ss \in Nat \X Nat : ss[1] < ss[2]}
<1>1. IsWellFoundedOn(Below, Nat)
  BY NatLessThanWellFounded DEF OpToRel
<1> HIDE DEF Below
<1>2. PICK i \in places : \A j \in places : ~(<<j, i>> \in Below)
  BY <1>1, WFMin
<1>3. ASSUME NEW j \in places PROVE i <= j
  <2>1. i \in Nat /\ j \in Nat /\ ~(<<j, i>> \in Below)
    BY <1>2
  <2>2. ~(j < i)
    BY <2>1 DEF Below
  <2> QED
    BY <2>1, <2>2
<1> QED
  BY <1>2, <1>3

\* A number that comes after another one, by how far.
LEMMA Distance ==
    ASSUME NEW lo \in Int, NEW len \in Int, NEW i \in Int, lo < i, i <= lo + len
    PROVE  i - lo \in 1 .. len /\ lo + (i - lo) = i
  OBVIOUS

\* The numbers between two others, in order, are those numbers one by one.
LEMMA OneByOne ==
    ASSUME NEW a \in Int, NEW b \in Int, a <= b, NEW s \in Seq(Int), Ascending(s), ToSet(s) = a + 1 .. b
    PROVE  Len(s) = b - a /\ \A k \in 1 .. Len(s) : s[k] = a + k
<1>1. /\ DOMAIN s = 1 .. Len(s) /\ Len(s) \in Nat
      /\ \A k \in 1 .. Len(s) : s[k] \in a + 1 .. b
      /\ \A x \in a + 1 .. b : \E k \in 1 .. Len(s) : s[k] = x
  <2>1. /\ DOMAIN s = 1 .. Len(s) /\ Len(s) \in Nat
        /\ \A k \in 1 .. Len(s) : s[k] \in Int /\ s[k] \in ToSet(s)
        /\ \A x \in ToSet(s) : x \in Int /\ \E k \in 1 .. Len(s) : s[k] = x
    BY ElementsOf
  <2> QED
    BY <2>1
<1>2. \A i, j \in 1 .. Len(s) : i < j => s[i] < s[j]
  BY <1>1 DEF Ascending
<1>3. \A k \in 1 .. Len(s) : s[k] = a + k
  <2> DEFINE wrong == {k \in 1 .. Len(s) : s[k] # a + k}
  <2> SUFFICES ASSUME wrong # {} PROVE FALSE
    OBVIOUS
  <2>1. wrong \in SUBSET Nat
    BY <1>1
  <2>2. PICK k \in wrong : \A j \in wrong : k <= j
    BY <2>1, SmallestPlace
  <2>3. k \in 1 .. Len(s) /\ k \in Nat /\ s[k] # a + k /\ s[k] \in a + 1 .. b
    BY <1>1, <2>2
  <2>4. \A j \in 1 .. Len(s) : j < k => s[j] = a + j
    BY <1>1, <2>2, <2>3
  <2> HIDE DEF wrong
  <2>5. CASE s[k] < a + k
    <3>0. s[k] \in Int /\ a < s[k] /\ k <= Len(s) /\ Len(s) \in Nat /\ k \in Int
      BY <1>1, <2>3
    <3>4. s[k] <= a + Len(s) /\ s[k] - a < k
      BY <2>5, <3>0
    <3>1. s[k] - a \in 1 .. Len(s) /\ a + (s[k] - a) = s[k]
      BY <3>0, <3>4, Distance
    <3>2. s[s[k] - a] = s[k]
      BY <2>4, <3>1, <3>4
    <3>3. s[s[k] - a] < s[k]
      BY <1>2, <2>3, <3>1, <3>4
    <3> QED
      BY <3>0, <3>2, <3>3
  <2>6. CASE s[k] > a + k
    <3>1. a + k \in a + 1 .. b
      BY <2>3, <2>6
    <3>2. PICK j \in 1 .. Len(s) : s[j] = a + k
      BY <1>1, <3>1
    <3>3. j < k => a + j = a + k
      BY <2>4, <3>2
    <3>4. j = k => s[k] = a + k
      BY <3>2
    <3>5. k < j => s[k] < a + k
      BY <1>2, <2>3, <3>2
    <3>6. j \in Nat /\ s[k] \in Int
      BY <1>1, <2>3
    <3> QED
      BY <2>3, <2>6, <3>3, <3>4, <3>5, <3>6
  <2>07. s[k] \in Int /\ a + k \in Int /\ s[k] # a + k
    BY <1>1, <2>3
  <2>7. s[k] < a + k \/ s[k] > a + k
    BY <2>07
  <2> QED
    BY <2>5, <2>6, <2>7
<1>4. Len(s) <= b - a
  <2> SUFFICES ASSUME Len(s) > b - a PROVE FALSE
    BY <1>1
  <2>1. Len(s) \in 1 .. Len(s)
    BY <1>1
  <2>2. s[Len(s)] = a + Len(s) /\ s[Len(s)] \in a + 1 .. b
    BY <1>1, <1>3, <2>1
  <2> QED
    BY <1>1, <2>2
<1>5. Len(s) >= b - a
  <2> SUFFICES ASSUME Len(s) < b - a PROVE FALSE
    BY <1>1
  <2>1. a + Len(s) + 1 \in a + 1 .. b
    BY <1>1
  <2>2. PICK k \in 1 .. Len(s) : s[k] = a + Len(s) + 1
    BY <1>1, <2>1
  <2>3. s[k] = a + k
    BY <1>3
  <2>4. k \in Nat /\ k <= Len(s) /\ Len(s) \in Nat
    BY <1>1
  <2> QED
    BY <2>2, <2>3, <2>4
<1> QED
  BY <1>1, <1>3, <1>4, <1>5

\* A batch that is not ahead of the gateway brings it as far as the batch goes, if it was
\* not there already.
LEMMA RecordsInOrder ==
    ASSUME RunnerTyped, Recorded, NEW batch \in Batch, InPlace(batch), batch.from <= Len(stream),
           Records(batch)
    PROVE  /\ Recorded'
           /\ Len(stream') \in Nat /\ Len(stream) \in Nat
           /\ Len(stream) <= Len(stream') /\ End(batch) <= Len(stream')
           /\ Len(stream') \in {Len(stream), End(batch)}
<1>1. PICK new : ToSet(new) = Fresh(batch) /\ Ascending(new) /\ TakenIn(batch, new)
  BY DEF Records, TakenIn
<1>2. seen' = seen \cup Numbers(batch)
  BY DEF Records
<1>20. Lengthened(batch, new)
  BY <1>1, RecordsType
<1>3. /\ stream' \in Seq(Nat)
      /\ new \in Seq(Fresh(batch)) /\ Len(new) \in Nat /\ DOMAIN new = 1 .. Len(new)
      /\ Fresh(batch) \subseteq 1 .. Len(batch.events)
      /\ Len(stream') = Len(stream) + Len(new)
      /\ \A i \in 1 .. Len(stream) : stream'[i] = stream[i]
      /\ \A k \in 1 .. Len(new) : stream'[Len(stream) + k] = batch.events[new[k]]
  BY <1>20 DEF Lengthened
<1>4. /\ batch.events \in Seq(Nat) /\ Len(batch.events) \in Nat /\ batch.from \in Nat
      /\ DOMAIN batch.events = 1 .. Len(batch.events)
      /\ Len(stream) \in Nat /\ DOMAIN stream = 1 .. Len(stream) /\ DOMAIN stream' = 1 .. Len(stream')
  BY <1>3, ElementsOf DEF Batch, RunnerTyped
<1> DEFINE a == Len(stream) - batch.from
           n == Len(batch.events)
<1>5. a \in Int /\ n \in Int /\ 0 <= a
  BY <1>4
<1>6. Fresh(batch) = a + 1 .. n
  <2>1. \A i \in 1 .. n : batch.from + i - 1 \notin 0 .. Len(stream) - 1 <=> i > a
    BY <1>4
  <2>2. Fresh(batch) = {i \in 1 .. n : batch.from + i - 1 \notin 0 .. Len(stream) - 1}
    BY <1>4 DEF Fresh, Recorded
  <2>3. Fresh(batch) = {i \in 1 .. n : i > a}
    BY <2>1, <2>2
  <2> HIDE DEF a, n
  <2> QED
    BY <1>5, <2>3
<1>7. new \in Seq(Int)
  <2>1. Fresh(batch) \subseteq Int
    BY <1>6
  <2> QED
    BY <1>3, <2>1
<1>8. CASE n <= a
  <2>1. Len(new) = 0
    <3> SUFFICES ASSUME Len(new) # 0 PROVE FALSE
      OBVIOUS
    <3>1. 1 \in 1 .. Len(new)
      BY <1>3
    <3>2. new[1] \in Fresh(batch)
      BY <1>3, <3>1, ElementsOf
    <3> QED
      BY <1>5, <1>6, <1>8, <3>2
  <2>2. Len(stream') = Len(stream) /\ End(batch) <= Len(stream)
    BY <1>3, <1>4, <1>8, <2>1 DEF End
  <2>3. Numbers(batch) \subseteq 0 .. Len(stream) - 1
    BY <1>4, <1>8 DEF Numbers
  <2>4. Recorded'
    BY <1>2, <1>3, <1>4, <2>2, <2>3 DEF Recorded
  <2> QED
    BY <1>4, <2>2, <2>4
<1>9. CASE a < n
  <2>1. a <= n
    BY <1>5, <1>9
  <2> HIDE DEF a, n
  <2>2. Len(new) = n - a /\ \A k \in 1 .. Len(new) : new[k] = a + k
    BY <1>1, <1>5, <1>6, <1>7, <2>1, OneByOne
  <2> USE DEF a, n
  <2>00. /\ Len(stream) \in Nat /\ Len(batch.events) \in Nat /\ batch.from \in Nat /\ Len(new) \in Nat
         /\ Len(stream') = Len(stream) + Len(new)
    BY <1>3, <1>4
  <2>3. /\ Len(stream') = End(batch) /\ Len(stream) < End(batch)
        /\ Len(new) = Len(batch.events) - (Len(stream) - batch.from)
    <3>1. Len(new) = n - a /\ a < n
      BY <1>9, <2>2
    <3> QED
      BY <2>00, <3>1 DEF End
  <2>4. ASSUME NEW k \in 1 .. Len(new) PROVE stream'[Len(stream) + k] = Len(stream) + k
    <3>1. new[k] = a + k
      BY <2>2
    <3>2. a + k \in 1 .. n /\ batch.from + (a + k) = Len(stream) + k
      <4>1. a + k \in 1 .. n
        <5> HIDE DEF a, n
        <5>1. Len(new) = n - a /\ k \in 1 .. n - a /\ k \in Nat
          BY <1>5, <2>2
        <5> QED
          BY <1>5, <5>1
      <4>2. k \in Nat /\ batch.from + (a + k) = Len(stream) + k
        BY <2>00
      <4> QED
        BY <4>1, <4>2
    <3>3. a + k \in DOMAIN batch.events
      BY <1>4, <3>2
    <3>4. batch.events[a + k] = batch.from + (a + k)
      BY <3>3 DEF InPlace
    <3>5. stream'[Len(stream) + k] = batch.events[new[k]]
      BY <1>3
    <3> QED
      BY <3>1, <3>2, <3>4, <3>5
  <2>5. ASSUME NEW i \in 1 .. Len(stream') PROVE stream'[i] = i
    <3>1. CASE i \in 1 .. Len(stream)
      BY <1>3, <1>4, <3>1 DEF Recorded
    <3>2. CASE ~(i \in 1 .. Len(stream))
      <4>0. Len(stream) \in Nat /\ Len(new) \in Nat /\ Len(stream') = Len(stream) + Len(new)
        BY <1>3, <1>4
      <4>1. i - Len(stream) \in 1 .. Len(new) /\ Len(stream) + (i - Len(stream)) = i
        BY <3>2, <4>0
      <4> QED
        BY <2>4, <4>1
    <3> QED
      BY <3>1, <3>2
  <2>6. seen' = 0 .. End(batch) - 1
    <3>1. Numbers(batch) = batch.from .. End(batch) - 1
      BY <2>00 DEF Numbers, End
    <3>2. End(batch) \in Nat
      BY <2>00 DEF End
    <3>3. \A m : m \in 0 .. End(batch) - 1 <=> m \in 0 .. Len(stream) - 1 \/ m \in batch.from .. End(batch) - 1
      <4>1. Len(stream) <= End(batch) /\ batch.from <= Len(stream)
        BY <2>00, <2>3, <3>2
      <4> QED
        BY <2>00, <3>2, <4>1
    <3> QED
      BY <1>2, <3>1, <3>3 DEF Recorded
  <2>7. Recorded'
    BY <1>4, <2>3, <2>5, <2>6 DEF Recorded
  <2> QED
    BY <2>00, <2>3, <2>7
<1> QED
  BY <1>5, <1>8, <1>9


\* Of batches without a gap: what the first one is, that none goes beyond the end, and
\* that every number from the first on is in one of them.
LEMMA ChainParts ==
    ASSUME NEW s \in Seq(Batch), NEW upto \in Nat, Chained(s, upto)
    PROVE  /\ Start(s, upto) \in Nat
           /\ \A i \in 1 .. Len(s) : s[i] # NoBatch /\ End(s[i]) <= upto /\ End(s[i]) \in Nat
           /\ s # << >> => s[1] \in Batch /\ Start(s, upto) = s[1].from /\ 1 \in 1 .. Len(s)
           /\ s = << >> => Start(s, upto) = upto
<1>1. /\ DOMAIN s = 1 .. Len(s) /\ Len(s) \in Nat
      /\ \A i \in 1 .. Len(s) : s[i] \in Batch
  BY ElementsOf
<1>2. \A i \in 1 .. Len(s) : End(s[i]) \in Nat /\ s[i].from \in Nat /\ s[i].from <= End(s[i])
  <2> SUFFICES ASSUME NEW i \in 1 .. Len(s)
               PROVE  End(s[i]) \in Nat /\ s[i].from \in Nat /\ s[i].from <= End(s[i])
    OBVIOUS
  <2>1. s[i].from \in Nat /\ Len(s[i].events) \in Nat
    BY <1>1, LenProperties DEF Batch
  <2> QED
    BY <2>1 DEF End
<1>3. \A i \in 1 .. Len(s) : End(s[i]) <= upto
  <2> DEFINE beyond == {k \in 0 .. Len(s) - 1 : ~(End(s[Len(s) - k]) <= upto)}
  <2>1. beyond = {}
    <3> SUFFICES ASSUME beyond # {} PROVE FALSE
      OBVIOUS
    <3>1. beyond \in SUBSET Nat
      BY <1>1
    <3>2. PICK k \in beyond : \A j \in beyond : k <= j
      BY <3>1, SmallestPlace
    <3>0. k \in 0 .. Len(s) - 1 /\ Len(s) \in Nat
      BY <1>1, <3>2
    <3>03. Len(s) - k \in 1 .. Len(s)
      BY <3>0
    <3>3. PICK i \in 1 .. Len(s) : i = Len(s) - k
      BY <3>03
    <3>4. ~(End(s[i]) <= upto) /\ k \in Nat
      BY <3>1, <3>2, <3>3
    <3>5. End(s[i]) = IF i = Len(s) THEN upto ELSE s[i + 1].from
      BY <1>1, <3>3 DEF Chained
    <3>6. i # Len(s)
      BY <3>4, <3>5
    <3>7. /\ i + 1 \in 1 .. Len(s) /\ k - 1 \in 0 .. Len(s) - 1 /\ ~(k <= k - 1)
          /\ Len(s) - (k - 1) = i + 1
      BY <3>0, <3>3, <3>6
    <3>8. End(s[i + 1]) <= upto
      BY <3>2, <3>7
    <3> HIDE DEF beyond
    <3>9. End(s[i]) = s[i + 1].from
      BY <3>5, <3>6
    <3>10. s[i + 1].from <= End(s[i + 1]) /\ s[i + 1].from \in Nat /\ End(s[i + 1]) \in Nat
      BY <1>2, <3>7
    <3> QED
      BY <3>4, <3>8, <3>9, <3>10
  <2>2. ASSUME NEW i \in 1 .. Len(s) PROVE End(s[i]) <= upto
    <3>1. Len(s) - i \in 0 .. Len(s) - 1 /\ Len(s) - (Len(s) - i) = i
      BY <1>1
    <3> QED
      BY <2>1, <3>1
  <2> QED
    BY <2>2
<1>4. \A i \in 1 .. Len(s) : s[i] # NoBatch
  BY <1>1, NoBatchType DEF Chained
<1>5. s # << >> => 1 \in 1 .. Len(s)
  BY <1>1, EmptySeq
<1> QED
  BY <1>1, <1>2, <1>3, <1>4, <1>5 DEF Start

LEMMA ChainCovers ==
    ASSUME NEW s \in Seq(Batch), NEW upto \in Nat, Chained(s, upto), \A batch \in ToSet(s) : InPlace(batch),
           NEW e \in Nat, Start(s, upto) < e, e <= upto
    PROVE  \E batch \in ToSet(s) : e \in EventsOf(batch)
<1>1. /\ DOMAIN s = 1 .. Len(s) /\ Len(s) \in Nat
      /\ \A i \in 1 .. Len(s) : s[i] \in Batch /\ s[i] \in ToSet(s)
  BY ElementsOf
<1>2. /\ \A i \in 1 .. Len(s) : End(s[i]) \in Nat
      /\ s # << >> /\ Start(s, upto) = s[1].from /\ 1 \in 1 .. Len(s)
  BY ChainParts
<1> DEFINE reach == {i \in 1 .. Len(s) : e <= End(s[i])}
<1>3. Len(s) \in reach
  <2>1. Len(s) \in 1 .. Len(s)
    BY <1>1, <1>2
  <2>2. End(s[Len(s)]) = upto
    BY <1>1, <2>1 DEF Chained
  <2> QED
    BY <2>1, <2>2
<1>4. reach \in SUBSET Nat
  OBVIOUS
<1>5. PICK i \in reach : \A j \in reach : i <= j
  BY <1>3, <1>4, SmallestPlace
<1>6. i \in 1 .. Len(s) /\ e <= End(s[i]) /\ s[i] \in Batch
  BY <1>1, <1>5
<1>7. s[i].from < e
  <2>1. CASE i = 1
    BY <1>2, <2>1
  <2>2. CASE i # 1
    <3>1. i - 1 \in 1 .. Len(s) /\ ~(i <= i - 1) /\ i - 1 # Len(s) /\ (i - 1) + 1 = i
      BY <1>1, <1>6, <2>2
    <3>2. ~(e <= End(s[i - 1]))
      BY <1>5, <3>1
    <3>3. End(s[i - 1]) = s[i].from
      BY <1>1, <3>1 DEF Chained
    <3> QED
      BY <1>2, <3>1, <3>2, <3>3
  <2> QED
    BY <2>1, <2>2
<1>8. /\ s[i].from \in Nat /\ s[i].events \in Seq(Nat) /\ Len(s[i].events) \in Nat
      /\ DOMAIN s[i].events = 1 .. Len(s[i].events)
  BY <1>6, LenProperties DEF Batch
<1>9. e - s[i].from \in 1 .. Len(s[i].events) /\ s[i].from + (e - s[i].from) = e
  BY <1>6, <1>7, <1>8 DEF End
<1>10. s[i].events[e - s[i].from] = e
  BY <1>1, <1>6, <1>8, <1>9 DEF InPlace
<1>11. e \in EventsOf(s[i])
  BY <1>8, <1>9, <1>10 DEF EventsOf, ToSet
<1> QED
  BY <1>1, <1>6, <1>11

\* The rest of a backlog has no gap, and starts where the batch that was sent ends.
LEMMA ChainTail ==
    ASSUME NEW s \in Seq(Batch), NEW upto \in Nat, Chained(s, upto), s # << >>
    PROVE  Chained(Tail(s), upto) /\ Start(Tail(s), upto) = End(s[1])
<1>1. /\ Tail(s) \in Seq(Batch) /\ Len(Tail(s)) = Len(s) - 1 /\ Len(s) \in Nat /\ Len(s) > 0
      /\ \A i \in 1 .. Len(s) - 1 : Tail(s)[i] = s[i + 1]
  BY TailOf
<1>2. DOMAIN s = 1 .. Len(s) /\ DOMAIN Tail(s) = 1 .. Len(s) - 1
  BY <1>1, ElementsOf
<1>3. ASSUME NEW i \in 1 .. Len(s) - 1
      PROVE  /\ Tail(s)[i].events # << >>
             /\ End(Tail(s)[i]) = IF i = Len(Tail(s)) THEN upto ELSE Tail(s)[i + 1].from
  <2>1. i + 1 \in 1 .. Len(s) /\ (i + 1 = Len(s) <=> i = Len(s) - 1)
    BY <1>1
  <2>2. s[i + 1].events # << >> /\ End(s[i + 1]) = IF i + 1 = Len(s) THEN upto ELSE s[(i + 1) + 1].from
    BY <1>2, <2>1 DEF Chained
  <2>3. i # Len(s) - 1 => i + 1 \in 1 .. Len(s) - 1
    <3>1. Len(s) \in Nat
      BY <1>1
    <3> QED
      BY <3>1
  <2> QED
    BY <1>1, <2>1, <2>2, <2>3
<1>4. Chained(Tail(s), upto)
  BY <1>2, <1>3 DEF Chained
<1>5. 1 \in 1 .. Len(s) /\ End(s[1]) = IF 1 = Len(s) THEN upto ELSE s[2].from
  <2>1. 1 \in 1 .. Len(s)
    BY <1>1
  <2> QED
    BY <1>2, <2>1 DEF Chained
<1>6. CASE Len(s) = 1
  <2>0. Tail(s) \in Seq(Batch) /\ Len(Tail(s)) = 0
    BY <1>1, <1>6
  <2>1. Tail(s) = << >>
    BY <2>0, EmptySeq
  <2> QED
    BY <1>4, <1>5, <1>6, <2>1 DEF Start
<1>7. CASE Len(s) # 1
  <2>1. 1 \in 1 .. Len(s) - 1 /\ Len(Tail(s)) # 0 /\ Tail(s) \in Seq(Batch)
    BY <1>1, <1>7
  <2>2. Tail(s) # << >>
    BY <2>1, EmptySeq
  <2>3. Tail(s)[1] = s[2]
    BY <1>1, <2>1
  <2> QED
    BY <1>4, <1>5, <1>7, <2>2, <2>3 DEF Start
<1> QED
  BY <1>6, <1>7

\* A batch written back after what the spool still held.
LEMMA ChainMore ==
    ASSUME NEW s \in Seq(Batch), NEW batch \in Batch, batch.events # << >>, Chained(s, batch.from)
    PROVE  /\ Chained(s \o <<batch>>, End(batch))
           /\ Start(s \o <<batch>>, End(batch)) = Start(s, batch.from)
<1> DEFINE more == s \o <<batch>>
<1>1. /\ more \in Seq(Batch) /\ Len(more) = Len(s) + 1
      /\ \A i \in 1 .. Len(s) : more[i] = s[i]
      /\ more[Len(s) + 1] = batch
  BY AddedTo
<1> HIDE DEF more
<1>2. DOMAIN s = 1 .. Len(s) /\ DOMAIN more = 1 .. Len(s) + 1 /\ Len(s) \in Nat
  BY <1>1, ElementsOf
<1>3. ASSUME NEW i \in 1 .. Len(s) + 1
      PROVE  /\ more[i].events # << >>
             /\ End(more[i]) = IF i = Len(more) THEN End(batch) ELSE more[i + 1].from
  <2>1. CASE i = Len(s) + 1
    BY <1>1, <2>1
  <2>2. CASE i # Len(s) + 1
    <3>1. i \in 1 .. Len(s) /\ more[i] = s[i] /\ i # Len(more)
      BY <1>1, <1>2, <2>2
    <3>2. s[i].events # << >> /\ End(s[i]) = IF i = Len(s) THEN batch.from ELSE s[i + 1].from
      BY <1>2, <3>1 DEF Chained
    <3>3. i = Len(s) => more[i + 1] = batch
      BY <1>1
    <3>4. i # Len(s) => more[i + 1] = s[i + 1]
      <4>1. i # Len(s) => i + 1 \in 1 .. Len(s)
        BY <1>2, <3>1
      <4> QED
        BY <1>1, <4>1
    <3> QED
      BY <3>1, <3>2, <3>3, <3>4
  <2> QED
    BY <2>1, <2>2
<1>4. Chained(more, End(batch))
  BY <1>2, <1>3 DEF Chained
<1>5. more # << >>
  BY <1>1, <1>2, EmptySeq
<1>6. more[1] = IF s = << >> THEN batch ELSE s[1]
  <2>1. CASE s = << >>
    BY <1>1, <2>1, EmptySeq
  <2>2. CASE s # << >>
    BY <1>1, <1>2, <2>2, EmptySeq
  <2> QED
    BY <2>1, <2>2
<1> QED
  BY <1>4, <1>5, <1>6 DEF Start, more


(***************************************************************************)
(* Every event is kept                                                     *)
(***************************************************************************)

LEMMA LineTypes ==
    ASSUME RunnerTyped
    PROVE  /\ Top \in Nat /\ After \in Nat /\ ToSend \in Seq(Batch) /\ Len(stream) \in Nat
           /\ box.phase # "flushing" => box.batch = NoBatch /\ After = Top
  BY LenProperties DEF RunnerTyped, Box, Batch, Top, After, ToSend

\* The call being made is not ahead of the gateway.
LEMMA PayloadBehind ==
    ASSUME RunnerTyped, Contiguous, Calling, box.phase # "reporting"
    PROVE  Payload(box) \in Batch /\ InPlace(Payload(box)) /\ Behind(Payload(box))
<1>1. /\ box.phase = "flushing" /\ Payload(box) \in Batch /\ Payload(box) \in Carried
      /\ Payload(box) = IF box.backlog # << >> THEN box.backlog[1] ELSE box.batch
  BY PayloadType
<1>2. /\ Top \in Nat /\ After \in Nat /\ Len(stream) \in Nat
      /\ box.backlog \in Seq(Batch) /\ box.batch \in Batch
  BY LineTypes DEF RunnerTyped, Box
<1>3. /\ ToSend = box.backlog
      /\ Chained(box.backlog, After) /\ Start(box.backlog, After) <= Len(stream)
      /\ box.batch # NoBatch => End(box.batch) = Top
  BY <1>1 DEF Contiguous, Lined, ToSend
<1>4. After <= Top
  <2>1. CASE box.batch = NoBatch
    BY <1>2, <2>1 DEF After
  <2>2. CASE box.batch # NoBatch
    <3>1. box.batch.from \in Nat /\ Len(box.batch.events) \in Nat
      BY <1>2, LenProperties DEF Batch
    <3> QED
      BY <1>2, <1>3, <2>2, <3>1 DEF After, End
  <2> QED
    BY <2>1, <2>2
<1>5. CASE box.backlog # << >>
  <2>1. /\ End(box.backlog[1]) <= After /\ End(box.backlog[1]) \in Nat
        /\ Start(box.backlog, After) = box.backlog[1].from
    BY <1>2, <1>3, <1>5, ChainParts
  <2> QED
    BY <1>1, <1>2, <1>3, <1>4, <1>5, <2>1 DEF Behind, Contiguous, Shaped
<1>6. CASE box.backlog = << >>
  <2>1. box.batch # NoBatch
    BY <1>1, <1>6 DEF Calling
  <2>2. Start(box.backlog, After) = box.batch.from
    BY <1>6, <2>1 DEF Start, After
  <2> QED
    BY <1>1, <1>2, <1>3, <1>6, <2>1, <2>2 DEF Behind, Contiguous, Shaped
<1> QED
  BY <1>5, <1>6

\* A call that is given up is late, and not ahead of the gateway.
LEMMA LosesBehind ==
    ASSUME RunnerTyped, Contiguous, Calling, Loses, stream' = stream, Top' = Top
    PROVE  LateBehind'
<1>1. Payload(box) \in Batch => Behind(Payload(box))
  <2>1. CASE box.phase = "reporting"
    BY <2>1, PayloadType, BatchReports
  <2>2. CASE box.phase # "reporting"
    BY <2>2, PayloadBehind
  <2> QED
    BY <2>1, <2>2
<1>2. \A call \in late' \cap Batch : Behind(call)
  BY <1>1 DEF Loses, Contiguous, LateBehind
<1> QED
  BY <1>2 DEF LateBehind, Behind

\* A flush takes what is pending as the batch that follows what is spooled.
LEMMA FlushingLine ==
    ASSUME RunnerTyped, NEW b \in Box, box' = Flushing(b), UNCHANGED <<kept, late, gateway>>, ~b.handled,
           Chained(spool, b.seq), Start(spool, b.seq) <= Len(stream), Len(stream) <= b.seq,
           b.seq + Len(b.pending) = emitted'
    PROVE  Lined' /\ Flushes' /\ Top' = b.seq + Len(b.pending)
<1>1. /\ b.seq \in Nat /\ b.pending \in Seq(Nat) /\ Len(b.pending) \in Nat
      /\ Len(stream) \in Nat /\ spool \in Seq(Batch)
  BY LenProperties DEF Box, RunnerTyped
<1>2. /\ box'.phase = "flushing" /\ box'.pending = << >> /\ box'.seq = b.seq + Len(b.pending)
      /\ box'.backlog = spool /\ box'.handled = FALSE
      /\ box'.batch = IF b.pending = << >> THEN NoBatch ELSE [from |-> b.seq, events |-> b.pending]
  BY DEF Flushing, Box
<1>3. Top' = b.seq + Len(b.pending) /\ ToSend' = spool /\ spool' = spool /\ stream' = stream
  BY <1>2 DEF Top, ToSend, kept, gateway
<1>4. After' = b.seq /\ (box'.batch # NoBatch => End(box'.batch) = b.seq + Len(b.pending))
  <2>1. CASE b.pending = << >>
    <3>1. Len(b.pending) = 0
      BY <1>1, <2>1, EmptySeq
    <3> QED
      BY <1>1, <1>2, <1>3, <2>1, <3>1 DEF After
  <2>2. CASE b.pending # << >>
    <3>1. box'.batch = [from |-> b.seq, events |-> b.pending]
      BY <1>2, <2>2
    <3>2. box'.batch # NoBatch /\ box'.batch.from = b.seq /\ box'.batch.events = b.pending
      BY <2>2, <3>1, NoBatchType
    <3> QED
      BY <3>2 DEF After, End
  <2> QED
    BY <2>1, <2>2
<1>5. Len(<< >>) = 0
  OBVIOUS
<1>6. Lined'
  <2>1. Len(stream') <= Top' /\ Top' + Len(box'.pending) = emitted'
    BY <1>1, <1>2, <1>3, <1>5
  <2> QED
    BY <1>3, <1>4, <2>1 DEF Lined
<1>7. Flushes'
  BY <1>2, <1>3 DEF Flushes
<1> QED
  BY <1>3, <1>6, <1>7

\* A flush that has returned, with the batches it has written back, if any.
LEMMA FlushedLine ==
    ASSUME RunnerTyped, box.phase = "flushing", Flushed(box), stream' = stream, emitted' = emitted,
           Top + Len(box.pending) = emitted, Len(stream) <= Top,
           Chained(spool', box.seq), Start(spool', box.seq) <= Len(stream)
    PROVE  Lined' /\ Flushes' /\ Top' = Top
<1>1. box \in Box /\ box.pending = << >> /\ Top = box.seq
  BY DEF RunnerTyped, Top
<1>2. PICK phase \in {"running", "reporting"} : Enters(box, phase) /\ (phase = "reporting" => seqFile' = box.seq)
  BY DEF Flushed
<1>3. /\ box'.phase = phase /\ box'.pending = << >> /\ box'.seq = box.seq /\ box'.batch = NoBatch
      /\ box'.handled = FALSE
  BY <1>1, <1>2 DEF Enters, Box
<1>4. Top' = box.seq /\ After' = box.seq /\ ToSend' = spool'
  BY <1>3 DEF Top, After, ToSend
<1>5. Lined'
  BY <1>1, <1>3, <1>4 DEF Lined
<1>6. Flushes'
  BY <1>2, <1>3 DEF Flushes
<1> QED
  BY <1>1, <1>4, <1>5, <1>6

\* A runner that has reported, or has given up to report, leaves its number in the file.
LEMMA ReportedLine ==
    ASSUME RunnerTyped, Contiguous, box.phase = "reporting", box' = Down,
           UNCHANGED <<kept, gateway, emitted>>
    PROVE  Lined' /\ Flushes' /\ Top' = Top
<1>1. /\ box'.phase = "down" /\ box'.pending = << >> /\ box'.batch = NoBatch
      /\ box.pending = << >> /\ box.batch = NoBatch
      /\ UNCHANGED <<spool, seqFile, stream>>
  BY NoBatchType DEF RunnerTyped, kept, gateway
<1>2. Top' = seqFile /\ Top = box.seq /\ seqFile = box.seq
  BY <1>1 DEF Top, Contiguous, Flushes
<1>3. After' = Top' /\ After = Top /\ ToSend' = spool /\ ToSend = spool
  BY <1>1 DEF After, ToSend
<1>4. Lined'
  BY <1>1, <1>2, <1>3 DEF Contiguous, Lined
<1>5. Flushes'
  BY <1>1 DEF Flushes
<1> QED
  BY <1>2, <1>4, <1>5


\* A step in which the box has no fault keeps the line of the events.
LEMMA ContiguousStep ==
    ASSUME RunnerTyped, Contiguous, Next, ~Refused, ~Dies
    PROVE  Contiguous'
<1> USE DEF kept, gateway
<1>0. /\ box \in Box /\ spool \in Seq(Batch) /\ box.backlog \in Seq(Batch) /\ box.batch \in Batch
      /\ box.pending \in Seq(Nat) /\ box.seq \in Nat
      /\ Top \in Nat /\ After \in Nat /\ Len(stream) \in Nat /\ emitted \in Nat
      /\ box.phase # "flushing" => box.batch = NoBatch /\ After = Top
  BY LineTypes DEF RunnerTyped, Box
<1>1. Lined /\ LateBehind /\ Flushes /\ Shaped /\ Recorded
  BY DEF Contiguous
<1>2. ~Emit => Shaped'
  <2>1. ~Emit => Moves
    BY StepMoves
  <2>2. \A batch : batch.events = << >> => InPlace(batch)
    BY DEF InPlace
  <2>3. ~Emit => \A batch \in Carried' : InPlace(batch)
    BY <1>1, <2>1, <2>2 DEF Moves, Shaped
  <2> QED
    BY <2>3 DEF Shaped, InPlace
<1>3. ASSUME UNCHANGED gateway, Lined', LateBehind', Flushes', Shaped' PROVE Contiguous'
  BY <1>1, <1>3 DEF Contiguous, Recorded
<1>4. ASSUME UNCHANGED <<late, stream>>, Top <= Top', Top' \in Nat PROVE LateBehind'
  <2>1. \A call \in late' \cap Batch : End(call) <= Top /\ End(call) \in Nat /\ call.from <= Len(stream)
    <3>1. \A call \in Batch : call.from \in Nat /\ Len(call.events) \in Nat
      BY LenProperties DEF Batch
    <3> QED
      BY <1>1, <1>4, <3>1 DEF LateBehind, Behind, End
  <2>2. \A call \in late' \cap Batch : End(call) <= Top'
    BY <1>0, <1>4, <2>1
  <2> QED
    BY <1>4, <2>1, <2>2 DEF LateBehind, Behind
<1>5. CASE Begin
  <2>1. PICK phase \in {"running", "reporting"} : box' = [Down EXCEPT !.phase = phase, !.seq = seqFile]
    BY <1>5 DEF Begin
  <2>2. /\ box'.phase = phase /\ box'.seq = seqFile /\ box'.pending = << >> /\ box'.batch = NoBatch
        /\ box'.handled = FALSE
    BY <2>1, NoBatchType DEF Down
  <2>3. /\ box.phase = "down" /\ box.pending = << >> /\ box.batch = NoBatch
        /\ UNCHANGED <<spool, seqFile, late, gateway, emitted, stream>>
    BY <1>5 DEF Begin, RunnerTyped
  <2>4. Top' = Top /\ After' = After /\ ToSend' = ToSend
    BY <2>2, <2>3 DEF Top, After, ToSend
  <2>5. Lined'
    BY <1>1, <2>2, <2>3, <2>4 DEF Lined
  <2>6. Flushes'
    BY <2>2, <2>3 DEF Flushes
  <2> QED
    BY <1>0, <1>2, <1>3, <1>4, <1>5, <2>3, <2>4, <2>5, <2>6 DEF Begin, Emit
<1>6. CASE Emit
  <2> DEFINE more == Append(box.pending, emitted + 1)
             b == [box EXCEPT !.pending = more]
  <2>1. /\ more \in Seq(Nat) /\ Len(more) = Len(box.pending) + 1 /\ Len(box.pending) \in Nat
        /\ \A i \in 1 .. Len(box.pending) : more[i] = box.pending[i]
        /\ more[Len(box.pending) + 1] = emitted + 1
    BY <1>0, AppendProperties, LenProperties
  <2>2. DOMAIN more = 1 .. Len(box.pending) + 1 /\ DOMAIN box.pending = 1 .. Len(box.pending)
    BY <1>0, <2>1, ElementsOf
  <2> HIDE DEF more
  <2>3. /\ b \in Box /\ b.batch = box.batch /\ b.backlog = box.backlog /\ b.seq = box.seq
        /\ b.pending = more /\ b.phase = box.phase /\ b.handled = box.handled
    BY <1>0, <2>1 DEF Box
  <2>4. box' = Flushing(b) \/ box' = b
    BY <1>6 DEF Emit, more
  <2> HIDE DEF b
  <2>5. /\ UNCHANGED <<spool, seqFile, late, gateway, stream, seen>> /\ box.phase = "running"
        /\ emitted' = emitted + 1
    BY <1>6 DEF Emit
  <2>6. Top = box.seq /\ After = Top /\ ToSend = spool /\ box.batch = NoBatch
        /\ ~box.handled /\ box.seq + Len(box.pending) = emitted
    BY <1>0, <1>1, <2>5 DEF Top, After, ToSend, Flushes, Lined
  <2>7. /\ Len(stream) <= box.seq /\ Chained(spool, box.seq) /\ Start(spool, box.seq) <= Len(stream)
    BY <1>1, <2>6 DEF Lined
  <2>06. /\ Len(more) = Len(box.pending) + 1 /\ Len(box.pending) \in Nat /\ box.seq \in Nat
         /\ emitted' = emitted + 1 /\ emitted = box.seq + Len(box.pending) /\ Top = box.seq
    BY <1>0, <2>1, <2>5, <2>6
  <2>8. box.seq + Len(more) = emitted' /\ Top <= box.seq + Len(more) /\ box.seq + Len(more) \in Nat
    BY <2>06
  <2>9. Lined' /\ Flushes' /\ Top <= Top' /\ Top' \in Nat
    <3>1. CASE box' = Flushing(b)
      <4>1. Lined' /\ Flushes' /\ Top' = box.seq + Len(more)
        BY <2>3, <2>5, <2>6, <2>7, <2>8, <3>1, FlushingLine
      <4> QED
        BY <2>8, <4>1
    <3>2. CASE box' = b
      <4>1. Top' = Top /\ After' = After /\ ToSend' = ToSend
        BY <2>3, <2>5, <2>6, <3>2 DEF Top, After, ToSend
      <4>2. Lined'
        BY <1>1, <2>3, <2>5, <2>6, <2>8, <3>2, <4>1 DEF Lined
      <4>3. Flushes'
        BY <2>3, <2>5, <2>6, <3>2 DEF Flushes
      <4> QED
        BY <1>0, <4>1, <4>2, <4>3
    <3> QED
      BY <2>4, <3>1, <3>2
  <2>10. InPlace([from |-> box.seq, events |-> more])
    <3> SUFFICES ASSUME NEW i \in 1 .. Len(box.pending) + 1 PROVE more[i] = box.seq + i
      BY <2>2 DEF InPlace
    <3>1. InPlace(InHand)
      BY <1>1 DEF Shaped, Carried
    <3>2. \A k \in 1 .. Len(box.pending) : box.pending[k] = box.seq + k
      BY <2>2, <3>1 DEF InPlace, InHand
    <3>3. CASE i = Len(box.pending) + 1
      <4>1. more[i] = emitted + 1
        BY <2>1, <3>3
      <4> QED
        BY <2>06, <3>3, <4>1
    <3>4. CASE i # Len(box.pending) + 1
      <4>1. i \in 1 .. Len(box.pending)
        BY <2>1, <3>4
      <4> QED
        BY <2>1, <3>2, <4>1
    <3> QED
      BY <3>3, <3>4
  <2>11. \A batch \in Carried' : batch \in Under(b) \/ batch.events = << >>
    <3>1. CASE box' = Flushing(b)
      BY <2>3, <2>5, <3>1, FlushingMoves
    <3>2. CASE box' = b
      BY <2>5, <3>2 DEF Carried, Under, InHand
    <3> QED
      BY <2>4, <3>1, <3>2
  <2>12. \A batch \in Under(b) : batch \in Carried \/ batch = [from |-> box.seq, events |-> more]
    BY <2>3 DEF Under, Carried
  <2>13. \A batch \in Carried' : InPlace(batch)
    BY <1>1, <2>10, <2>11, <2>12 DEF Shaped, InPlace
  <2>14. Shaped'
    BY <2>13 DEF Shaped, InPlace
  <2> QED
    BY <1>3, <1>4, <2>5, <2>9, <2>14
<1>7. CASE Finish
  <2> DEFINE b == [box EXCEPT !.ending = TRUE]
  <2>1. /\ b \in Box /\ b.seq = box.seq /\ b.pending = box.pending /\ b.handled = box.handled
    BY <1>0 DEF Box
  <2>2. box' = Flushing(b) /\ box.phase = "running" /\ UNCHANGED <<kept, late, gateway, emitted, stream>>
    BY <1>7 DEF Finish
  <2> HIDE DEF b
  <2>3. /\ Top = box.seq /\ After = Top /\ ToSend = spool /\ ~box.handled
        /\ box.seq + Len(box.pending) = emitted
    BY <1>0, <1>1, <2>2 DEF Top, ToSend, Flushes, Lined
  <2>4. /\ Len(stream) <= box.seq /\ Chained(spool, box.seq) /\ Start(spool, box.seq) <= Len(stream)
    BY <1>1, <2>3 DEF Lined
  <2>5. Lined' /\ Flushes' /\ Top' = box.seq + Len(box.pending)
    BY <2>1, <2>2, <2>3, <2>4, FlushingLine
  <2>6. Top <= Top' /\ Top' \in Nat
    BY <1>0, <2>3, <2>5, LenProperties
  <2>7. ~Emit
    <3> SUFFICES ASSUME Emit PROVE FALSE
      OBVIOUS
    <3>1. emitted' = emitted + 1 /\ emitted' = emitted
      BY <1>7 DEF Emit, Finish
    <3> QED
      BY <1>0, <3>1
  <2>8. LateBehind' /\ Shaped'
    BY <1>2, <1>4, <2>2, <2>6, <2>7
  <2> QED
    BY <1>3, <2>2, <2>5, <2>8
<1>8. ASSUME box.phase = "flushing", Flushed(box), UNCHANGED <<gateway, emitted>>, ~Emit,
             Chained(spool', box.seq), Start(spool', box.seq) <= Len(stream),
             late' = late \/ (Calling /\ Loses)
      PROVE  Contiguous'
  <2>1. Top + Len(box.pending) = emitted /\ Len(stream) <= Top /\ stream' = stream
    BY <1>1, <1>8 DEF Lined
  <2>2. Lined' /\ Flushes' /\ Top' = Top
    BY <1>8, <2>1, FlushedLine
  <2>3. LateBehind'
    BY <1>0, <1>4, <1>8, <2>1, <2>2, LosesBehind
  <2> QED
    BY <1>2, <1>3, <1>8, <2>2, <2>3
<1>9. ASSUME box.phase = "flushing", box.backlog = << >>, box.batch = NoBatch \/ End(box.batch) <= Len(stream),
             spool' = spool
      PROVE  Chained(spool', box.seq) /\ Start(spool', box.seq) <= Len(stream)
  <2>1. spool' = << >> /\ Top = box.seq /\ (box.batch # NoBatch => End(box.batch) = Top)
    BY <1>1, <1>9 DEF Flushes, Lined, Top
  <2>2. Start(<< >>, After) <= Len(stream)
    BY <1>1, <1>9 DEF Lined, ToSend
  <2>3. box.seq <= Len(stream)
    BY <1>9, <2>1, <2>2 DEF Start, After
  <2> QED
    BY <2>1, <2>3 DEF Chained, Start
<1>10. box.phase = "flushing" => Chained(box.backlog, After) /\ Start(box.backlog, After) <= Len(stream)
  BY <1>1 DEF Lined, ToSend
<1>11. CASE NothingToSend
  <2>1. box.phase = "flushing" /\ ~Calling /\ Flushed(box) /\ UNCHANGED <<spool, late, gateway, emitted>>
    BY <1>11 DEF NothingToSend
  <2>2. box.backlog = << >>
    <3> SUFFICES ASSUME box.backlog # << >> PROVE FALSE
      OBVIOUS
    <3>1. 1 \in 1 .. Len(box.backlog) /\ box.backlog[1] # NoBatch
      BY <1>0, <1>10, <2>1, ChainParts
    <3>2. Payload(box) = box.backlog[1]
      BY <1>0, <2>1, <3>1 DEF Payload
    <3> QED
      BY <2>1, <3>1, <3>2 DEF Calling
  <2>3. box.batch = NoBatch
    BY <2>1, <2>2 DEF Calling, Payload
  <2>4. Chained(spool', box.seq) /\ Start(spool', box.seq) <= Len(stream)
    BY <1>9, <2>1, <2>2, <2>3
  <2>5. ~Emit
    BY <2>1 DEF Emit
  <2> QED
    BY <1>8, <2>1, <2>4, <2>5

<1>12. ASSUME UNCHANGED <<kept, emitted>>, ~Emit, Top' = Top, After' = After, ToSend' = ToSend,
              box'.pending = box.pending, box'.batch = box.batch, Len(stream') \in Nat,
              Len(stream) <= Len(stream'), Len(stream') <= Top, Recorded', LateBehind', Flushes'
       PROVE  Contiguous'
  <2>1. Start(ToSend, After) \in Nat
    BY <1>0, <1>1, ChainParts, LineTypes DEF Lined
  <2>2. Lined'
    BY <1>0, <1>1, <1>12, <2>1 DEF Lined
  <2> QED
    BY <1>2, <1>12, <2>2 DEF Contiguous
<1>13. ASSUME NEW call \in Batch, Behind(call), InPlace(call), Handle(call)
       PROVE  /\ Recorded' /\ Len(stream') \in Nat /\ Len(stream) <= Len(stream')
              /\ End(call) <= Len(stream') /\ Len(stream') <= Top
  <2>1. Records(call)
    <3>1. "report" \notin DOMAIN call
      BY DEF Batch
    <3> QED
      BY <1>13, <3>1 DEF Handle
  <2>2. call.from <= Len(stream) /\ End(call) <= Top
    BY <1>13 DEF Behind
  <2>3. /\ Recorded' /\ Len(stream') \in Nat /\ Len(stream) <= Len(stream')
        /\ End(call) <= Len(stream') /\ Len(stream') \in {Len(stream), End(call)}
    BY <1>1, <1>13, <2>1, <2>2, RecordsInOrder
  <2> QED
    BY <1>1, <2>2, <2>3 DEF Lined
<1>14. ASSUME NEW call \in Report, Handle(call)
       PROVE  Recorded' /\ stream' = stream
  BY <1>1, <1>14 DEF Handle, Report, Recorded
<1>15. ASSUME Len(stream') \in Nat, Len(stream) <= Len(stream'), Top' = Top, late' \subseteq late
       PROVE  LateBehind'
  <2>1. \A call \in late' \cap Batch : End(call) <= Top /\ call.from \in Nat /\ call.from <= Len(stream)
    BY <1>1, <1>15 DEF LateBehind, Behind, Batch
  <2>2. \A call \in late' \cap Batch : call.from <= Len(stream')
    BY <1>0, <1>15, <2>1
  <2> QED
    BY <1>15, <2>1, <2>2 DEF LateBehind, Behind
<1>16. CASE Reach
  <2>1. /\ Calling /\ ~box.handled /\ Handle(Payload(box)) /\ box' = [box EXCEPT !.handled = TRUE]
        /\ UNCHANGED <<kept, late, emitted, starts, faults>>
    BY <1>16 DEF Reach
  <2>2. /\ box'.phase = box.phase /\ box'.pending = box.pending /\ box'.batch = box.batch
        /\ box'.backlog = box.backlog /\ box'.seq = box.seq
    BY <1>0, <2>1 DEF Box
  <2>3. /\ Top' = Top /\ After' = After /\ ToSend' = ToSend
        /\ box.phase # "reporting" => Payload(box') = Payload(box)
    BY <2>1, <2>2 DEF Top, After, ToSend, Payload
  <2>4. /\ Recorded' /\ Len(stream') \in Nat /\ Len(stream) <= Len(stream') /\ Len(stream') <= Top
        /\ box.phase # "reporting" => End(Payload(box)) <= Len(stream')
    <3>1. CASE box.phase = "reporting"
      BY <1>0, <1>1, <1>14, <2>1, <3>1, PayloadType DEF Lined
    <3>2. CASE box.phase # "reporting"
      BY <1>13, <2>1, <3>2, PayloadBehind
    <3> QED
      BY <3>1, <3>2
  <2>5. Flushes'
    <3>1. box.phase # "running"
      BY <2>1 DEF Calling
    <3>2. box.phase = "flushing" => End(Payload(box'))  <= Len(stream')
      BY <2>3, <2>4
    <3>3. box.phase = "flushing" => Payload(box)' = Payload(box')
      BY <2>2 DEF Payload
    <3> QED
      BY <1>1, <2>1, <2>2, <3>1, <3>2, <3>3 DEF Flushes
  <2>6. LateBehind'
    BY <1>15, <2>1, <2>3, <2>4
  <2>7. ~Emit
    BY <2>1 DEF Calling, Emit
  <2> QED
    BY <1>12, <2>1, <2>2, <2>3, <2>4, <2>5, <2>6, <2>7
<1>17. CASE ReachLate
  <2>1. PICK call \in late : Handle(call) /\ late' = late \ {call}
    BY <1>17 DEF ReachLate
  <2>2. UNCHANGED <<box, kept, emitted>>
    BY <1>17 DEF ReachLate
  <2>3. /\ Recorded' /\ Len(stream') \in Nat /\ Len(stream) <= Len(stream') /\ Len(stream') <= Top
    <3>1. CASE call \in Report
      BY <1>0, <1>1, <1>14, <2>1, <3>1 DEF Lined
    <3>2. CASE call \in Batch
      <4>1. Behind(call) /\ InPlace(call)
        BY <1>1, <2>1, <3>2 DEF LateBehind, Shaped, Carried
      <4> QED
        BY <1>13, <2>1, <3>2, <4>1
    <3> QED
      BY <2>1, <3>1, <3>2 DEF RunnerTyped
  <2>4. Top' = Top /\ After' = After /\ ToSend' = ToSend
    BY <2>2 DEF Top, After, ToSend
  <2>5. LateBehind'
    BY <1>15, <2>1, <2>3, <2>4
  <2>6. Flushes'
    <3>1. Calling' = Calling /\ Payload(box)' = Payload(box)
      BY <1>17, <2>2 DEF ReachLate, Calling, Payload
    <3>2. CASE box.phase = "flushing" /\ Calling /\ box.handled
      <4>1. Payload(box) \in Batch /\ End(Payload(box)) <= Len(stream)
        BY <1>1, <3>2, PayloadType DEF Flushes
      <4>2. End(Payload(box)) \in Nat
        BY <4>1, LenProperties DEF Batch, End
      <4>3. End(Payload(box)) <= Len(stream')
        BY <1>0, <2>3, <4>1, <4>2
      <4> QED
        BY <1>1, <2>2, <3>1, <4>3 DEF Flushes
    <3>3. CASE ~(box.phase = "flushing" /\ Calling /\ box.handled)
      BY <1>1, <2>2, <3>1, <3>3 DEF Flushes
    <3> QED
      BY <3>2, <3>3
  <2> QED
    BY <1>12, <1>17, <2>2, <2>3, <2>4, <2>5, <2>6 DEF ReachLate, Emit
<1>18. CASE Answered
  <2>1. Calling /\ box.handled /\ UNCHANGED <<late, gateway, emitted, stream>>
    BY <1>18 DEF Answered
  <2>2. CASE box.phase = "reporting"
    <3>1. box' = Down /\ UNCHANGED kept
      BY <1>18, <2>2 DEF Answered
    <3>2. Lined' /\ Flushes' /\ Top' = Top
      BY <2>1, <2>2, <3>1, ReportedLine
    <3> QED
      BY <1>0, <1>2, <1>3, <1>4, <2>1, <2>2, <3>2 DEF Emit
  <2>3. CASE box.phase = "flushing" /\ box.backlog # << >>
    <3>1. box' = [box EXCEPT !.backlog = Tail(box.backlog), !.tries = 0, !.handled = FALSE]
      BY <1>18, <2>3 DEF Answered
    <3>2. /\ box'.phase = box.phase /\ box'.batch = box.batch /\ box'.backlog = Tail(box.backlog)
          /\ box'.pending = box.pending /\ box'.seq = box.seq /\ box'.handled = FALSE
      BY <1>0, <3>1 DEF Box
    <3>3. spool' = IF Tail(box.backlog) = << >> THEN << >> ELSE spool
      BY <1>0, <1>18, <2>3, <3>2 DEF Answered
    <3>4. Chained(Tail(box.backlog), After) /\ Start(Tail(box.backlog), After) = End(box.backlog[1])
      BY <1>0, <1>10, <2>3, ChainTail
    <3>5. End(box.backlog[1]) <= Len(stream)
      <4>1. Payload(box) = box.backlog[1]
        BY <2>1, <2>3, PayloadType
      <4> QED
        BY <1>1, <2>1, <2>3, <4>1 DEF Flushes
    <3>6. Top' = Top /\ After' = After /\ ToSend' = Tail(box.backlog)
      BY <2>3, <3>2 DEF Top, After, ToSend
    <3>7. Lined'
      BY <1>1, <2>1, <3>2, <3>4, <3>5, <3>6 DEF Lined
    <3>8. Flushes'
      <4>1. ToSet(Tail(box.backlog)) \subseteq ToSet(box.backlog)
        BY <1>0, <2>3, TailOf
      <4>2. ToSet(box.backlog) \subseteq ToSet(spool)
        BY <1>1, <2>3 DEF Flushes
      <4>3. ToSet(Tail(box.backlog)) \subseteq ToSet(spool')
        BY <3>3, <4>1, <4>2
      <4> QED
        BY <2>3, <3>2, <3>3, <4>3 DEF Flushes
    <3> QED
      BY <1>0, <1>2, <1>3, <1>4, <2>1, <2>3, <3>6, <3>7, <3>8 DEF Emit
  <2>4. CASE box.phase = "flushing" /\ box.backlog = << >>
    <3>1. Flushed(box) /\ spool' = spool
      BY <1>18, <2>4 DEF Answered
    <3>2. Payload(box) = box.batch
      BY <2>1, <2>4, PayloadType
    <3>3. End(box.batch) <= Len(stream)
      BY <1>1, <2>1, <2>4, <3>2 DEF Flushes
    <3>4. Chained(spool', box.seq) /\ Start(spool', box.seq) <= Len(stream)
      BY <1>9, <2>4, <3>1, <3>3
    <3>5. ~Emit
      BY <2>4 DEF Emit
    <3> QED
      BY <1>8, <2>1, <2>4, <3>1, <3>4, <3>5
  <2> QED
    BY <2>1, <2>2, <2>3, <2>4 DEF Calling
<1>19. CASE NotConnected \/ SendAgain
  <2>1. /\ Calling /\ box' = [box EXCEPT !.tries = box.tries + 1, !.handled = FALSE]
        /\ UNCHANGED <<kept, gateway, emitted, stream>> /\ (late' = late \/ Loses)
    BY <1>19 DEF NotConnected, SendAgain, TriesAgain
  <2>2. /\ box'.phase = box.phase /\ box'.batch = box.batch /\ box'.backlog = box.backlog
        /\ box'.pending = box.pending /\ box'.seq = box.seq /\ box'.handled = FALSE
    BY <1>0, <2>1 DEF Box
  <2>3. Top' = Top /\ After' = After /\ ToSend' = ToSend
    BY <2>1, <2>2 DEF Top, After, ToSend
  <2>4. Lined'
    BY <1>1, <2>1, <2>2, <2>3 DEF Lined
  <2>5. Flushes'
    BY <1>1, <2>1, <2>2 DEF Flushes
  <2>6. LateBehind'
    BY <1>0, <1>4, <2>1, <2>3, LosesBehind
  <2>7. box.phase # "running"
    BY <2>1 DEF Calling
  <2> QED
    BY <1>2, <1>3, <2>1, <2>4, <2>5, <2>6, <2>7 DEF Emit
<1>20. CASE Unavailable
  <2>1. Calling /\ Loses /\ UNCHANGED <<gateway, emitted, stream>>
    BY <1>20 DEF Unavailable
  <2>2. CASE box.phase = "reporting"
    <3>1. box' = Down /\ UNCHANGED kept
      BY <1>20, <2>2 DEF Unavailable
    <3>2. Lined' /\ Flushes' /\ Top' = Top
      BY <2>1, <2>2, <3>1, ReportedLine
    <3>3. LateBehind'
      BY <2>1, <3>2, LosesBehind
    <3> QED
      BY <1>2, <1>3, <2>1, <2>2, <3>2, <3>3 DEF Emit
  <2>3. CASE box.phase = "flushing"
    <3>1. spool' = Spooled /\ Flushed(box)
      BY <1>20, <2>3 DEF Unavailable
    <3>2. Top = box.seq
      BY <2>3 DEF Top
    <3>3. Chained(spool', box.seq) /\ Start(spool', box.seq) <= Len(stream)
      <4>1. CASE box.batch = NoBatch
        <5>1. spool' = box.backlog /\ After = box.seq
          BY <1>0, <3>1, <3>2, <4>1, ConcatEmptySeq DEF Spooled, After
        <5> QED
          BY <1>10, <2>3, <5>1
      <4>2. CASE box.batch # NoBatch
        <5>1. spool' = box.backlog \o <<box.batch>> /\ After = box.batch.from
              /\ box.batch.events # << >> /\ End(box.batch) = box.seq
          BY <1>1, <3>1, <3>2, <4>2 DEF Spooled, After, RunnerTyped, Lined
        <5>2. /\ Chained(box.backlog \o <<box.batch>>, box.seq)
              /\ Start(box.backlog \o <<box.batch>>, box.seq) = Start(box.backlog, After)
          BY <1>0, <1>10, <2>3, <5>1, ChainMore
        <5> QED
          BY <1>10, <2>3, <5>1, <5>2
      <4> QED
        BY <4>1, <4>2
    <3> QED
      BY <1>8, <2>1, <2>3, <3>1, <3>3 DEF Emit
  <2> QED
    BY <2>1, <2>2, <2>3 DEF Calling
<1> QED
  BY <1>5, <1>6, <1>7, <1>11, <1>16, <1>17, <1>18, <1>19, <1>20 DEF Next, CallEnds

\* What Contiguous says of the events: each is recorded, spooled, in the batch in hand, or
\* waiting in the runner.
LEMMA ContiguousKeeps ==
    ASSUME RunnerTyped, Contiguous
    PROVE  /\ \A i \in DOMAIN stream : stream[i] = i
           /\ 1 .. emitted \subseteq ToSet(stream) \cup (UNION {EventsOf(batch) : batch \in ToSet(spool)})
                                       \cup EventsOf(box.batch) \cup ToSet(box.pending)
<1>1. /\ Top \in Nat /\ After \in Nat /\ ToSend \in Seq(Batch) /\ Len(stream) \in Nat
      /\ box.batch \in Batch /\ box.pending \in Seq(Nat) /\ box.seq \in Nat
      /\ DOMAIN stream = 1 .. Len(stream) /\ Len(box.pending) \in Nat
      /\ DOMAIN box.pending = 1 .. Len(box.pending)
  BY LineTypes, LenProperties DEF RunnerTyped, Box
<1>2. \A i \in DOMAIN stream : stream[i] = i
  BY DEF Contiguous, Recorded
<1>3. ASSUME NEW e \in 1 .. emitted
      PROVE  \/ e \in ToSet(stream) \/ e \in EventsOf(box.batch) \/ e \in ToSet(box.pending)
             \/ \E batch \in ToSet(spool) : e \in EventsOf(batch)
  <2>0. e \in Nat /\ e >= 1 /\ e <= Top + Len(box.pending)
    BY DEF Contiguous, Lined, RunnerTyped
  <2>1. CASE e <= Len(stream)
    <3>1. e \in DOMAIN stream /\ stream[e] = e
      BY <1>1, <1>2, <2>0, <2>1
    <3> QED
      BY <3>1 DEF ToSet
  <2>2. CASE Len(stream) < e /\ e <= After
    <3>1. Chained(ToSend, After) /\ Start(ToSend, After) <= Len(stream)
      BY DEF Contiguous, Lined
    <3>2. Start(ToSend, After) \in Nat
      BY <1>1, <3>1, ChainParts
    <3>3. Start(ToSend, After) < e
      BY <1>1, <2>0, <2>2, <3>1, <3>2
    <3>4. ToSet(ToSend) \subseteq ToSet(spool) /\ \A batch \in ToSet(ToSend) : InPlace(batch)
      BY DEF Contiguous, Flushes, Shaped, Carried, ToSend
    <3> QED
      BY <1>1, <2>0, <2>2, <3>1, <3>3, <3>4, ChainCovers
  <2>3. CASE After < e /\ e <= Top
    <3>1. box.batch # NoBatch /\ After = box.batch.from
      BY <1>1, <2>0, <2>3 DEF After
    <3>2. End(box.batch) = Top /\ InPlace(box.batch)
      BY <3>1 DEF Contiguous, Lined, Shaped, Carried
    <3>3. /\ box.batch.from \in Nat /\ Len(box.batch.events) \in Nat
          /\ DOMAIN box.batch.events = 1 .. Len(box.batch.events)
      BY <1>1, LenProperties DEF Batch
    <3>4. e - box.batch.from \in 1 .. Len(box.batch.events) /\ box.batch.from + (e - box.batch.from) = e
      BY <2>0, <2>3, <3>1, <3>2, <3>3 DEF End
    <3>5. box.batch.events[e - box.batch.from] = e
      BY <3>2, <3>3, <3>4 DEF InPlace
    <3> QED
      BY <3>3, <3>4, <3>5 DEF EventsOf, ToSet
  <2>4. CASE Top < e
    <3>1. box.phase = "running"
      <4> SUFFICES ASSUME box.phase # "running" PROVE FALSE
        OBVIOUS
      <4>1. Len(box.pending) = 0
        BY <1>1, EmptySeq DEF RunnerTyped
      <4> QED
        BY <1>1, <2>0, <2>4, <4>1
    <3>2. Top = box.seq /\ InPlace(InHand)
      BY <3>1 DEF Top, Contiguous, Shaped, Carried
    <3>5. box.seq \in Int /\ Len(box.pending) \in Int /\ e \in Int /\ box.seq < e /\ e <= box.seq + Len(box.pending)
      BY <1>1, <2>0, <2>4, <3>2
    <3>3. e - box.seq \in 1 .. Len(box.pending) /\ box.seq + (e - box.seq) = e
      BY <3>5, Distance
    <3>4. box.pending[e - box.seq] = e
      BY <1>1, <3>2, <3>3 DEF InPlace, InHand
    <3> QED
      BY <1>1, <3>3, <3>4 DEF ToSet
  <2> QED
    BY <1>1, <2>0, <2>1, <2>2, <2>3, <2>4
<1>4. \A batch \in ToSet(spool) :
         EventsOf(batch) \subseteq UNION {EventsOf(spooled) : spooled \in ToSet(spool)}
  OBVIOUS
<1> QED
  BY <1>2, <1>3, <1>4

\* As long as no runner dies and the gateway refuses nothing, it records what was emitted,
\* in order and without a gap, and what it does not have yet is in the spool or in the
\* runner's hands: through outages, calls that are lost or late, and runners that are
\* started again (GatewayEvents, and the event number kept in the box's volume).
THEOREM AlwaysKeepsEveryEvent == Spec => []KeepsEveryEvent
<1>1. Init => RunnerTyped /\ Unbroken
  <2> SUFFICES ASSUME Init PROVE Contiguous
    BY RunnerTypes DEF Unbroken
  <2>1. /\ spool = << >> /\ box = Down /\ late = {} /\ stream = << >> /\ seen = {} /\ seqFile = 0
        /\ emitted = 0
    BY DEF Init
  <2>2. \A batch \in Carried : batch.events = << >>
    BY <2>1, NoBatchType DEF Carried, InHand, ToSet
  <2>3. Recorded /\ Shaped /\ LateBehind /\ Flushes
    BY <2>1, <2>2, NoBatchType DEF Recorded, Shaped, InPlace, LateBehind, Flushes
  <2>4. Top = 0 /\ After = 0 /\ ToSend = << >>
    BY <2>1, NoBatchType DEF Top, After, ToSend
  <2>5. Lined
    BY <2>1, <2>4, NoBatchType DEF Lined, Chained, Start
  <2> QED
    BY <2>3, <2>5 DEF Contiguous
<1>2. RunnerTyped /\ Unbroken /\ [Next]_runnerVars => (RunnerTyped /\ Unbroken)'
  <2> SUFFICES ASSUME RunnerTyped, Unbroken, [Next]_runnerVars PROVE Unbroken'
    BY RunnerTypedStep
  <2>1. CASE UNCHANGED runnerVars
    BY <2>1 DEF runnerVars, kept, gateway, Unbroken, Contiguous, Recorded, Shaped, Carried, InHand, Lined,
                LateBehind, Behind, Flushes, Top, After, ToSend, InPlace, Calling, Payload
  <2>2. CASE Refused \/ Dies
    BY <2>2 DEF Refused, Dies, Unbroken
  <2>3. CASE Next /\ ~Refused /\ ~Dies
    <3>1. faults' = faults
      BY <2>3 DEF Next, CallEnds, Begin, Emit, Finish, NothingToSend, Reach, ReachLate, Answered, NotConnected,
                  SendAgain, Unavailable
    <3> QED
      BY <2>3, <3>1, ContiguousStep DEF Unbroken
  <2> QED
    BY <2>1, <2>2, <2>3
<1>3. RunnerTyped /\ Unbroken => KeepsEveryEvent
  BY ContiguousKeeps DEF Unbroken, KeepsEveryEvent
<1> QED
  BY <1>1, <1>2, <1>3, PTL DEF Spec
=============================================================================
