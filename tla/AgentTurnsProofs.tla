-------------------------- MODULE AgentTurnsProofs --------------------------
(***************************************************************************)
(* Proofs about the turns of an agent's threads, for every number of       *)
(* threads, replies and segments, and every reply a model can give.        *)
(***************************************************************************)
EXTENDS AgentTurns, SequenceTheorems, TLAPS

(***************************************************************************)
(* The inductive invariant                                                 *)
(***************************************************************************)

\* A conversation of a thread whose model replied rep: an answer, or none yet, for each
\* call of its last reply.
WellFormed(rep, s) ==
    /\ s \in Conversation
    /\ s.reply <= Len(rep)
    /\ IF s.reply = 0 THEN s.answers = << >> ELSE Len(s.answers) = Len(rep[s.reply])

\* A thread with its replies, checkpoint, pause in memory and segment.
Shape(t, rep, cp, pk, seg) ==
    /\ rep \in Seq(Batches) /\ Len(rep) <= MaxReplies[t]
    /\ cp # None => WellFormed(rep, cp)
    /\ pk # None => WellFormed(rep, pk)
    /\ WellFormed(rep, seg.state)
    /\ seg.at \in {"tools", "pausing"} => seg.state.reply # 0
    /\ seg.at = "tools" \/ (seg.at = "pausing" /\ seg.batch) =>
          /\ Len(seg.results) = Len(seg.state.answers)
          /\ seg.batch => \A i \in DOMAIN seg.state.answers : seg.state.answers[i] = "none"
    /\ seg.at = "pausing" =>
          /\ seg.pause \in DOMAIN seg.state.answers
          /\ seg.batch => \A i \in DOMAIN seg.results : seg.results[i] # "none"

\* The pause in memory while a run is in progress: the run's own, or none.
Records(pk, seg) ==
    /\ seg.at \in {"folding", "loop", "model", "tools"} => pk = None
    /\ seg.at \in {"pausing", "paused"} => pk = seg.state
    /\ seg.at \in {"stopped", "ending"} => pk = None \/ pk = seg.state

\* A settled call was issued, and neither the checkpoint, nor the pause in memory, nor the
\* run is behind its answer.
Known(rep, cp, pk, seg, c) ==
    /\ c[2] \in 1 .. Len(rep) /\ c[3] \in 1 .. Len(rep[c[2]])
    /\ cp # None /\ Ahead(cp, c)
    /\ pk # None => Ahead(pk, c)
    /\ seg.at # "none" => Ahead(seg.state, c)

Tables ==
    /\ checkpoint \in [Threads -> Conversation \cup {None}]
    /\ parked \in [Threads -> Conversation \cup {None}]
    /\ segment \in [Threads -> Segment]
    /\ replied \in [Threads -> Seq(Batches)]
Books ==
    /\ signal \in BOOLEAN
    /\ approved \subseteq CallIds /\ denied \subseteq CallIds /\ filed \subseteq CallIds
    /\ started \in Nat /\ asked \in [Threads -> CallIds \cup {None}]
    /\ ran \in [CallIds -> Nat]

ThreadOK(t) ==
    /\ Shape(t, replied[t], checkpoint[t], parked[t], segment[t])
    /\ t \notin mislaid =>
          /\ Records(parked[t], segment[t])
          /\ \A c \in settled : c[1] = t => Known(replied[t], checkpoint[t], parked[t], segment[t], c)
    /\ t \in told => segment[t].at # "none" /\ segment[t].cancel

Turns ==
    /\ Tables /\ Books
    /\ settled \subseteq CallIds /\ told \subseteq Threads /\ mislaid \subseteq Threads
    /\ \A t \in Threads : ThreadOK(t)

(***************************************************************************)
(* Conversations                                                           *)
(***************************************************************************)

LEMMA CallsOfAReply ==
    ASSUME NEW t \in Threads, NEW rep \in Seq(Batches), Len(rep) <= MaxReplies[t], NEW s,
           WellFormed(rep, s), NEW i \in DOMAIN s.answers
    PROVE  /\ Call(t, s, i) \in CallIds /\ s.reply \in 1 .. Len(rep)
           /\ Call(t, s, i)[1] = t /\ Call(t, s, i)[2] = s.reply /\ Call(t, s, i)[3] = i
           /\ i \in 1 .. Len(rep[s.reply])
<1>1. s.reply \in Nat /\ s.answers \in Seq(Answers) /\ DOMAIN s.answers = 1 .. Len(s.answers)
  BY LenProperties DEF WellFormed, Conversation
<1>2. s.reply # 0
  BY <1>1, EmptySeq DEF WellFormed
<1>3. Len(rep) \in Nat /\ s.reply \in 1 .. Len(rep)
  BY <1>1, <1>2, LenProperties DEF WellFormed
<1>4. rep[s.reply] \in Batches
  BY <1>3, ElementOfSeq
<1>5. Len(rep[s.reply]) <= Longest /\ Len(rep[s.reply]) \in Nat /\ Longest \in Nat
  BY <1>4, TurnsAssumption, LenProperties
<1>6. i \in 1 .. Len(rep[s.reply])
  BY <1>1, <1>2 DEF WellFormed
<1>7. i \in 1 .. Longest
  BY <1>5, <1>6
<1>8. s.reply \in 1 .. MaxReplies[t]
  BY <1>3, TurnsAssumption
<1>9. Call(t, s, i) \in CallIds
  BY <1>7, <1>8 DEF Call, CallIds
<1> QED
  BY <1>3, <1>6, <1>9 DEF Call

\* Answering a call, or all that are open, keeps a conversation in form and behind nothing.
With(s, i, a) == [s EXCEPT !.answers[i] = a]

LEMMA AnswerOne ==
    ASSUME NEW rep \in Seq(Batches), NEW s, WellFormed(rep, s), NEW i \in DOMAIN s.answers,
           NEW a \in Answers \ {"none"}
    PROVE  LET n == With(s, i, a)
           IN  /\ n \in Conversation /\ WellFormed(rep, n) /\ n.reply = s.reply
               /\ DOMAIN n.answers = DOMAIN s.answers
               /\ \A c : c[2] \in 1 .. Len(rep) /\ c[3] \in 1 .. Len(rep[c[2]]) /\ Ahead(s, c) => Ahead(n, c)
<1> DEFINE n == With(s, i, a)
           answers == [s.answers EXCEPT ![i] = a]
<1>1. s.answers \in Seq(Answers) /\ s.reply \in Nat
  BY DEF WellFormed, Conversation
<1>2. i \in 1 .. Len(s.answers) /\ DOMAIN s.answers = 1 .. Len(s.answers)
  BY <1>1, LenProperties
<1>3. answers \in Seq(Answers) /\ Len(answers) = Len(s.answers) /\ DOMAIN answers = DOMAIN s.answers
  BY <1>1, <1>2, ExceptSeq
<1>4. answers[i] = a /\ \A j \in DOMAIN s.answers \ {i} : answers[j] = s.answers[j]
  OBVIOUS
<1>5. n = [s EXCEPT !.answers = answers]
  BY DEF With
<1> HIDE DEF answers, n
<1>6. n \in Conversation /\ n.reply = s.reply /\ n.answers = answers
  BY <1>3, <1>5 DEF WellFormed, Conversation
<1>7. s.reply # 0
  BY <1>2, EmptySeq DEF WellFormed
<1>8. WellFormed(rep, n)
  BY <1>3, <1>6, <1>7 DEF WellFormed
<1>9. ASSUME NEW c, c[2] \in 1 .. Len(rep), c[3] \in 1 .. Len(rep[c[2]]), Ahead(s, c)
      PROVE  Ahead(n, c)
  <2>1. CASE s.reply > c[2]
    BY <2>1, <1>6 DEF Ahead
  <2>2. CASE s.reply = c[2] /\ s.answers[c[3]] # "none"
    <3>1. c[3] \in DOMAIN s.answers
      BY <2>2, <1>2, <1>7, <1>9 DEF WellFormed
    <3>2. answers[c[3]] # "none"
      BY <2>2, <3>1, <1>4
    <3> QED
      BY <2>2, <3>2, <1>6 DEF Ahead
  <2> QED
    BY <2>1, <2>2, <1>9 DEF Ahead
<1> QED
  BY <1>3, <1>6, <1>8, <1>9 DEF n

LEMMA CloseAll ==
    ASSUME NEW rep \in Seq(Batches), NEW s, WellFormed(rep, s), NEW n, n = Closed(s)
    PROVE  /\ WellFormed(rep, n) /\ n.reply = s.reply
           /\ \A c : c[2] \in 1 .. Len(rep) /\ c[3] \in 1 .. Len(rep[c[2]]) /\ Ahead(s, c) => Ahead(n, c)
<1> DEFINE answers == [i \in DOMAIN s.answers |-> IF s.answers[i] = "none" THEN "unknown" ELSE s.answers[i]]
<1>1. s.answers \in Seq(Answers) /\ s.reply \in Nat
  BY DEF WellFormed, Conversation
<1>2. DOMAIN s.answers = 1 .. Len(s.answers) /\ Len(s.answers) \in Nat
  BY <1>1, LenProperties
<1>3. \A i \in DOMAIN s.answers : s.answers[i] \in Answers
  BY <1>1, <1>2, ElementOfSeq
<1>4. answers \in [1 .. Len(s.answers) -> Answers]
  BY <1>2, <1>3 DEF Answers
<1>5. answers \in Seq(Answers) /\ Len(answers) = Len(s.answers)
  BY <1>2, <1>4
<1>6. n = [s EXCEPT !.answers = answers]
  BY DEF Closed
<1>7. \A i \in DOMAIN s.answers : answers[i] # "none"
  OBVIOUS
<1>8. s.answers = << >> => answers = << >>
  BY <1>5, <1>2, EmptySeq
<1> HIDE DEF answers
<1>9. n \in Conversation /\ n.reply = s.reply /\ n.answers = answers
  BY <1>5, <1>6 DEF WellFormed, Conversation
<1>10. WellFormed(rep, n)
  BY <1>5, <1>8, <1>9 DEF WellFormed
<1>11. ASSUME NEW c, c[2] \in 1 .. Len(rep), c[3] \in 1 .. Len(rep[c[2]]), Ahead(s, c)
       PROVE  Ahead(n, c)
  <2>1. CASE s.reply > c[2]
    BY <2>1, <1>9 DEF Ahead
  <2>2. CASE s.reply = c[2]
    <3>1. c[3] \in DOMAIN s.answers
      BY <2>2, <1>2, <1>11, LenProperties DEF WellFormed
    <3> QED
      BY <2>2, <3>1, <1>7, <1>9 DEF Ahead
  <2> QED
    BY <2>1, <2>2, <1>11 DEF Ahead
<1> QED
  BY <1>9, <1>10, <1>11

\* The start of a segment that goes on from s.
Begun(stage, s, batch, perform) ==
    [NoSegment EXCEPT !.at = stage, !.state = s, !.batch = batch, !.perform = perform]

LEMMA NewSegment ==
    ASSUME NEW stage \in Stages, NEW s \in Conversation, NEW batch \in BOOLEAN, NEW perform \in BOOLEAN
    PROVE  /\ Begun(stage, s, batch, perform) \in Segment
           /\ Begun(stage, s, batch, perform).at = stage
           /\ Begun(stage, s, batch, perform).state = s
<1>1. << >> \in Seq(Answers)
  BY EmptySeq
<1> QED
  BY <1>1 DEF NoSegment, Segment, Begun

LEMMA NoRun ==
    /\ NoSegment \in Segment /\ NoSegment.at = "none" /\ NoSegment.state = Fresh
    /\ Fresh \in Conversation
    /\ \A rep \in Seq(Batches) : WellFormed(rep, Fresh)
<1>1. << >> \in Seq(Answers)
  BY EmptySeq
<1>2. \A rep \in Seq(Batches) : 0 <= Len(rep)
  BY LenProperties
<1> QED
  BY <1>1, <1>2 DEF NoSegment, Segment, Fresh, Conversation, Stages, WellFormed

\* What a thread's conversations are.
LEMMA ThreadTypes ==
    ASSUME Turns, NEW t \in Threads
    PROVE  /\ segment[t] \in Segment /\ segment[t].state \in Conversation
           /\ segment[t].results \in Seq(Answers)
           /\ replied[t] \in Seq(Batches)
           /\ Shape(t, replied[t], checkpoint[t], parked[t], segment[t])
           /\ WellFormed(replied[t], segment[t].state)
           /\ t \notin mislaid => Records(parked[t], segment[t])
           /\ t \notin mislaid =>
                 \A c \in settled : c[1] = t => Known(replied[t], checkpoint[t], parked[t], segment[t], c)
           /\ t \in told => segment[t].at # "none" /\ segment[t].cancel
  BY DEF Turns, Tables, ThreadOK, Shape, Segment

(***************************************************************************)
(* A step of one thread                                                    *)
(***************************************************************************)

\* A step that changes what there is of thread t, and keeps it in order.
LEMMA ThreadStep ==
    ASSUME Turns, NEW t \in Threads, Tables', Books', ThreadOK(t)',
           \A u \in Threads \ {t} : /\ replied'[u] = replied[u] /\ checkpoint'[u] = checkpoint[u]
                                    /\ parked'[u] = parked[u] /\ segment'[u] = segment[u],
           settled' \subseteq CallIds, \A c \in settled' \ settled : c[1] = t,
           told' \subseteq told, mislaid \subseteq mislaid', mislaid' \subseteq Threads
    PROVE  Turns'
<1>1. ASSUME NEW u \in Threads \ {t}
      PROVE  ThreadOK(u)'
  <2>1. ThreadOK(u)
    BY DEF Turns
  <2>2. \A c \in settled' : c[1] = u => c \in settled
    OBVIOUS
  <2>3. (u \in told' => u \in told) /\ (u \notin mislaid' => u \notin mislaid)
    OBVIOUS
  <2> QED
    BY <2>1, <2>2, <2>3 DEF ThreadOK
<1>2. told' \subseteq Threads
  BY DEF Turns
<1> QED
  BY <1>1, <1>2 DEF Turns

\* A step that moves the run of a thread, and saves nothing.
LEMMA RunStep ==
    ASSUME Turns, NEW t \in Threads,
           NEW seg \in Segment, segment' = [segment EXCEPT ![t] = seg],
           UNCHANGED <<checkpoint, replied, settled>>,
           NEW pk, parked' = [parked EXCEPT ![t] = pk], pk = None \/ WellFormed(replied[t], pk),
           told' \subseteq told, mislaid \subseteq mislaid', mislaid' \subseteq Threads,
           Books',
           Shape(t, replied[t], checkpoint[t], pk, seg),
           t \notin mislaid' => Records(pk, seg),
           t \notin mislaid' =>
               \A c \in settled : c[1] = t => Known(replied[t], checkpoint[t], pk, seg, c),
           t \in told' => seg.at # "none" /\ seg.cancel
    PROVE  Turns'
<1>1. /\ replied'[t] = replied[t] /\ checkpoint'[t] = checkpoint[t] /\ parked'[t] = pk /\ segment'[t] = seg
      /\ \A u \in Threads \ {t} : /\ replied'[u] = replied[u] /\ checkpoint'[u] = checkpoint[u]
                                  /\ parked'[u] = parked[u] /\ segment'[u] = segment[u]
  BY DEF Turns, Tables
<1>2. pk \in Conversation \cup {None}
  BY DEF WellFormed
<1>3. Tables'
  BY <1>2 DEF Turns, Tables
<1>4. ThreadOK(t)'
  BY <1>1 DEF ThreadOK
<1>5. settled' \subseteq CallIds /\ settled' = settled
  BY DEF Turns
<1> QED
  BY <1>1, <1>3, <1>4, <1>5, ThreadStep

\* A step that saves s, the conversation the run of the thread goes on with or ends with,
\* or that fails to.
LEMMA SaveStep ==
    ASSUME Turns, NEW t \in Threads, NEW s, WellFormed(replied[t], s), MaySave(t, s),
           NEW seg \in Segment, segment' = [segment EXCEPT ![t] = seg],
           UNCHANGED <<parked, replied>>,
           told' \subseteq told, mislaid \subseteq mislaid', mislaid' \subseteq Threads,
           Books',
           Shape(t, replied[t], s, parked[t], seg),
           t \notin mislaid' => /\ Records(parked[t], seg)
                                /\ parked[t] = None \/ parked[t] = s
                                /\ seg.at # "none" => seg.state = s
                                /\ \A c \in settled : c[1] = t => Ahead(s, c),
           t \in told' => seg.at # "none" /\ seg.cancel
    PROVE  Turns'
<1> DEFINE more == {Call(t, s, i) : i \in DOMAIN s.answers \ Unanswered(s)}
           pk == parked[t]
<1>1. CASE Saved(t, s)
  <2>1. checkpoint' = [checkpoint EXCEPT ![t] = s] /\ settled' = settled \cup more
    BY <1>1 DEF Saved
  <2>2. /\ replied'[t] = replied[t] /\ checkpoint'[t] = s /\ parked'[t] = pk /\ segment'[t] = seg
        /\ \A u \in Threads \ {t} : /\ replied'[u] = replied[u] /\ checkpoint'[u] = checkpoint[u]
                                    /\ parked'[u] = parked[u] /\ segment'[u] = segment[u]
    BY <2>1 DEF Turns, Tables
  <2>3. s \in Conversation /\ s # None
    BY TurnsAssumption DEF WellFormed
  <2>4. Tables'
    BY <2>1, <2>3 DEF Turns, Tables
  <2>5. ASSUME NEW c \in more
        PROVE  c \in CallIds /\ c[1] = t /\ (t \notin mislaid' => Known(replied[t], s, pk, seg, c))
    <3>1. PICK i \in DOMAIN s.answers \ Unanswered(s) : c = Call(t, s, i)
      OBVIOUS
    <3>2. /\ c \in CallIds /\ c[1] = t /\ c[2] = s.reply /\ c[3] = i
          /\ s.reply \in 1 .. Len(replied[t]) /\ i \in 1 .. Len(replied[t][s.reply])
      BY <3>1, CallsOfAReply, ThreadTypes DEF Shape
    <3>3. Ahead(s, c)
      BY <3>1, <3>2 DEF Ahead, Unanswered
    <3> QED
      BY <3>2, <3>3, <2>3 DEF Known
  <2> HIDE DEF more
  <2>6. ASSUME NEW c \in settled, c[1] = t, t \notin mislaid'
        PROVE  Known(replied[t], s, pk, seg, c)
    <3>1. Known(replied[t], checkpoint[t], pk, segment[t], c)
      BY <2>6, ThreadTypes
    <3>2. Ahead(s, c) /\ (pk = None \/ pk = s) /\ (seg.at # "none" => seg.state = s)
      BY <2>6
    <3> QED
      BY <3>1, <3>2, <2>3 DEF Known
  <2>7. t \notin mislaid' => \A c \in settled' : c[1] = t => Known(replied[t], s, pk, seg, c)
    BY <2>1, <2>5, <2>6
  <2>8. ThreadOK(t)'
    BY <2>2, <2>7 DEF ThreadOK
  <2>9. settled' \subseteq CallIds /\ \A c \in settled' \ settled : c[1] = t
    BY <2>1, <2>5 DEF Turns
  <2> QED
    BY <2>2, <2>4, <2>8, <2>9, ThreadStep
<1>2. CASE UNCHANGED <<checkpoint, settled>>
  <2>1. t \notin mislaid' =>
           \A c \in settled : c[1] = t => Known(replied[t], checkpoint[t], pk, seg, c)
    BY ThreadTypes DEF Known
  <2>2. Shape(t, replied[t], checkpoint[t], pk, seg) /\ (pk = None \/ WellFormed(replied[t], pk))
    BY ThreadTypes DEF Shape
  <2>3. parked' = [parked EXCEPT ![t] = pk]
    BY DEF Turns, Tables
  <2> HIDE DEF pk
  <2> QED
    BY <1>2, <2>1, <2>2, <2>3, RunStep DEF pk
<1> QED
  BY <1>1, <1>2 DEF MaySave

(***************************************************************************)
(* A segment begins                                                        *)
(***************************************************************************)

LEMMA StartsTurns ==
    ASSUME Turns, NEW t \in Threads, NEW stage \in {"loop", "folding"},
           NEW s, WellFormed(replied[t], s), NEW batch \in BOOLEAN, NEW perform \in BOOLEAN,
           Starts(t, stage, s, batch, perform),
           parked' = [parked EXCEPT ![t] = None],
           asked' \in [Threads -> CallIds \cup {None}],
           t \notin mislaid => \A c \in settled : c[1] = t => Ahead(s, c)
    PROVE  Turns'
<1> DEFINE seg == Begun(stage, s, batch, perform)
<1>1. seg \in Segment /\ seg.at = stage /\ seg.state = s
  <2>1. stage \in Stages /\ s \in Conversation
    BY DEF WellFormed, Stages
  <2> QED
    BY <2>1, NewSegment
<1>2. segment' = [segment EXCEPT ![t] = seg] /\ segment[t].at = "none"
  BY DEF Starts, Goes, Begun
<1>3. t \notin told /\ told' = told
  BY <1>2, ThreadTypes DEF Starts
<1>4. Books'
  <2>1. started' \in Nat /\ UNCHANGED <<signal, approved, denied, filed, ran>>
    BY DEF Turns, Books, Starts
  <2> QED
    BY <2>1 DEF Turns, Books
<1> HIDE DEF seg
<1>5. Shape(t, replied[t], checkpoint[t], None, seg)
  BY <1>1, ThreadTypes DEF Shape
<1>6. Records(None, seg)
  BY <1>1 DEF Records
<1>7. t \notin mislaid => \A c \in settled : c[1] = t => Known(replied[t], checkpoint[t], None, seg, c)
  BY <1>1, ThreadTypes DEF Known
<1>8. UNCHANGED <<checkpoint, replied, settled, mislaid>> /\ mislaid \subseteq Threads
  BY DEF Starts, Turns
<1> QED
  BY <1>1, <1>2, <1>3, <1>4, <1>5, <1>6, <1>7, <1>8, RunStep

\* Where a thread stands between segments.
LEMMA Between ==
    ASSUME Turns, NEW t \in Threads, segment[t].at = "none"
    PROVE  /\ t \notin told
           /\ checkpoint[t] # None => WellFormed(replied[t], checkpoint[t])
           /\ parked[t] # None => WellFormed(replied[t], parked[t])
           /\ t \notin mislaid => \A c \in settled : c[1] = t =>
                 /\ c[2] \in 1 .. Len(replied[t]) /\ c[3] \in 1 .. Len(replied[t][c[2]])
                 /\ checkpoint[t] # None /\ Ahead(checkpoint[t], c)
                 /\ parked[t] # None => Ahead(parked[t], c)
<1> QED
  BY ThreadTypes DEF Shape, Known

LEMMA NewTurnIsAhead ==
    ASSUME Turns, NEW t \in Threads, segment[t].at = "none"
    PROVE  LET s == NewTurn(checkpoint[t])
           IN  /\ WellFormed(replied[t], s)
               /\ t \notin mislaid => \A c \in settled : c[1] = t => Ahead(s, c)
<1>1. replied[t] \in Seq(Batches)
  BY ThreadTypes
<1>2. CASE checkpoint[t] = None
  BY <1>1, <1>2, Between, NoRun DEF NewTurn
<1>3. CASE checkpoint[t] # None
  <2> DEFINE n == Closed(checkpoint[t])
             s == [n EXCEPT !.over = FALSE]
  <2>1. WellFormed(replied[t], checkpoint[t])
    BY <1>3, Between
  <2>2. WellFormed(replied[t], n) /\ (t \notin mislaid => \A c \in settled : c[1] = t => Ahead(n, c))
    BY <1>1, <2>1, CloseAll, Between
  <2> HIDE DEF n
  <2>3. s \in Conversation /\ s.reply = n.reply /\ s.answers = n.answers
    BY <2>2 DEF WellFormed, Conversation
  <2>4. WellFormed(replied[t], s) /\ (t \notin mislaid => \A c \in settled : c[1] = t => Ahead(s, c))
    <3> HIDE DEF s
    <3> QED
      BY <2>2, <2>3 DEF WellFormed, Ahead
  <2>5. NewTurn(checkpoint[t]) = s
    BY <1>3 DEF NewTurn, n
  <2> QED
    BY <2>4, <2>5
<1> QED
  BY <1>2, <1>3

LEMMA AskedType ==
    ASSUME Turns, NEW t \in Threads, asked' = [asked EXCEPT ![t] = None] \/ asked' = asked
    PROVE  asked' \in [Threads -> CallIds \cup {None}]
  BY DEF Turns, Books

LEMMA RunTurns == ASSUME Turns, NEW t \in Threads, Run(t) PROVE Turns'
<1> DEFINE s == NewTurn(checkpoint[t])
<1>1. segment[t].at = "none" /\ Starts(t, "loop", s, TRUE, FALSE)
  BY DEF Run, Starts
<1>2. WellFormed(replied[t], s) /\ (t \notin mislaid => \A c \in settled : c[1] = t => Ahead(s, c))
  BY <1>1, NewTurnIsAhead
<1>3. parked' = [parked EXCEPT ![t] = None] /\ asked' \in [Threads -> CallIds \cup {None}]
  BY AskedType DEF Run
<1> HIDE DEF s
<1> QED
  BY <1>1, <1>2, <1>3, StartsTurns

LEMMA FailsToRunTurns == ASSUME Turns, NEW t \in Threads, FailsToRun(t) PROVE Turns'
<1> DEFINE seg == segment[t]
<1>1. /\ seg.at = "none" /\ segment' = [segment EXCEPT ![t] = seg] /\ told' = told
      /\ parked' = [parked EXCEPT ![t] = None] /\ UNCHANGED <<checkpoint, replied, settled, mislaid>>
  BY DEF FailsToRun, Turns, Tables
<1>2. Books'
  BY AskedType DEF Turns, Books, FailsToRun
<1>3. seg \in Segment /\ Shape(t, replied[t], checkpoint[t], None, seg) /\ Records(None, seg)
  BY <1>1, ThreadTypes DEF Shape, Records
<1>4. /\ t \notin told /\ mislaid \subseteq Threads
      /\ t \notin mislaid => \A c \in settled : c[1] = t => Known(replied[t], checkpoint[t], None, seg, c)
  BY <1>1, ThreadTypes DEF Known, Turns
<1> HIDE DEF seg
<1> QED
  BY <1>1, <1>2, <1>3, <1>4, RunStep

LEMMA ResumeTurns ==
    ASSUME Turns, NEW t \in Threads, NEW perform \in BOOLEAN, Resume(t, perform)
    PROVE  Turns'
<1> DEFINE s == IF parked[t] # None THEN parked[t] ELSE checkpoint[t]
<1>1. segment[t].at = "none" /\ Starts(t, "folding", s, FALSE, perform)
  BY DEF Resume, Starts
<1>2. parked[t] # None \/ checkpoint[t] # None
  BY DEF Resume
<1>3. WellFormed(replied[t], s) /\ (t \notin mislaid => \A c \in settled : c[1] = t => Ahead(s, c))
  BY <1>1, <1>2, Between
<1>4. parked' = [parked EXCEPT ![t] = None] /\ asked' \in [Threads -> CallIds \cup {None}]
  BY AskedType DEF Resume
<1> HIDE DEF s
<1> QED
  BY <1>1, <1>2, <1>3, <1>4, StartsTurns

LEMMA ContinueTurns == ASSUME Turns, NEW t \in Threads, ContinueTurn(t) PROVE Turns'
<1> DEFINE s == Closed(checkpoint[t])
<1>1. /\ segment[t].at = "none" /\ Starts(t, "loop", s, FALSE, FALSE) /\ checkpoint[t] # None
      /\ parked[t] = None
  BY DEF ContinueTurn, Starts
<1>2. WellFormed(replied[t], s) /\ (t \notin mislaid => \A c \in settled : c[1] = t => Ahead(s, c))
  BY <1>1, Between, CloseAll, ThreadTypes
<1>3. parked' = [parked EXCEPT ![t] = None]
  BY <1>1 DEF ContinueTurn, Turns, Tables
<1>4. asked' \in [Threads -> CallIds \cup {None}]
  BY AskedType DEF ContinueTurn
<1> HIDE DEF s
<1> QED
  BY <1>1, <1>2, <1>3, <1>4, StartsTurns

(***************************************************************************)
(* The answer to a pause                                                   *)
(***************************************************************************)

LEMMA EffectsType ==
    ASSUME Turns, NEW calls, Effects(calls)
    PROVE  ran' \in [CallIds -> Nat]
  BY DEF Turns, Books, Effects

\* A call is performed, or nothing is.
LEMMA BooksAfter ==
    ASSUME Turns, UNCHANGED <<signal, denied, started>>,
           approved' \subseteq approved, filed' \subseteq CallIds,
           ran' = ran \/ (\E calls : Effects(calls)),
           asked' \in [Threads -> CallIds \cup {None}]
    PROVE  Books'
<1>1. ran' \in [CallIds -> Nat]
  BY EffectsType DEF Turns, Books
<1> QED
  BY <1>1 DEF Turns, Books

LEMMA PerformsBooks ==
    ASSUME Turns, NEW t, NEW s, NEW i, Nothing \/ Performs(t, s, i)
    PROVE  approved' \subseteq approved /\ (ran' = ran \/ (\E calls : Effects(calls)))
  BY DEF Nothing, Performs

\* The run of a thread goes on with one more answer.
LEMMA AnswerStep ==
    ASSUME Turns, NEW t \in Threads, segment[t].at \in {"folding", "tools"},
           NEW i \in DOMAIN segment[t].state.answers, NEW a \in Answers \ {"none"},
           NEW seg \in Segment, segment' = [segment EXCEPT ![t] = seg],
           seg.at \in {"loop", "tools"}, seg.state = With(segment[t].state, i, a), seg.cancel = segment[t].cancel,
           seg.at = "tools" => /\ segment[t].at = "tools" /\ ~seg.batch
                               /\ seg.results = segment[t].results,
           UNCHANGED <<checkpoint, parked, replied, settled, told, mislaid>>,
           Books'
    PROVE  Turns'
<1> DEFINE n == With(segment[t].state, i, a)
           pk == parked[t]
<1>1. /\ WellFormed(replied[t], segment[t].state) /\ replied[t] \in Seq(Batches)
      /\ Shape(t, replied[t], checkpoint[t], pk, segment[t])
  BY ThreadTypes DEF Shape
<1>2. /\ WellFormed(replied[t], n) /\ n.reply = segment[t].state.reply
      /\ DOMAIN n.answers = DOMAIN segment[t].state.answers
      /\ \A c : c[2] \in 1 .. Len(replied[t]) /\ c[3] \in 1 .. Len(replied[t][c[2]])
                /\ Ahead(segment[t].state, c) => Ahead(n, c)
  BY <1>1, AnswerOne
<1> HIDE DEF n
<1>3. Len(n.answers) = Len(segment[t].state.answers)
  <2>1. n.answers \in Seq(Answers) /\ segment[t].state.answers \in Seq(Answers)
    BY <1>1, <1>2 DEF WellFormed, Conversation
  <2> QED
    BY <2>1, <1>2, LenProperties
<1>4. seg.state = n
  BY DEF n
<1>5. Shape(t, replied[t], checkpoint[t], pk, seg)
  BY <1>1, <1>2, <1>3, <1>4 DEF Shape
<1>6. t \notin mislaid => Records(pk, seg)
  BY ThreadTypes DEF Records
<1>7. t \notin mislaid => \A c \in settled : c[1] = t => Known(replied[t], checkpoint[t], pk, seg, c)
  BY <1>2, <1>4, ThreadTypes DEF Known
<1>8. parked' = [parked EXCEPT ![t] = pk] /\ (pk = None \/ WellFormed(replied[t], pk)) /\ mislaid \subseteq Threads
  BY <1>1 DEF Turns, Tables, Shape
<1>9. t \in told' => seg.at # "none" /\ seg.cancel
  BY ThreadTypes
<1> HIDE DEF pk
<1> QED
  BY <1>5, <1>6, <1>7, <1>8, <1>9, RunStep

\* The run of a thread moves within its loop, its conversation with the answers it had.
LEMMA StageStep ==
    ASSUME Turns, NEW t \in Threads, segment[t].at \in {"folding", "loop", "model", "tools"},
           NEW seg \in Segment, segment' = [segment EXCEPT ![t] = seg],
           seg.at \in {"loop", "model", "stopped"}, seg.cancel = segment[t].cancel,
           seg.state \in Conversation,
           seg.state.reply = segment[t].state.reply /\ seg.state.answers = segment[t].state.answers,
           UNCHANGED <<checkpoint, parked, replied, settled, told, mislaid>>,
           Books'
    PROVE  Turns'
<1> DEFINE pk == parked[t]
<1>1. Shape(t, replied[t], checkpoint[t], pk, seg) /\ (pk = None \/ WellFormed(replied[t], pk))
  BY ThreadTypes DEF Shape, WellFormed
<1>2. t \notin mislaid => Records(pk, seg)
  BY ThreadTypes DEF Records
<1>3. t \notin mislaid => \A c \in settled : c[1] = t => Known(replied[t], checkpoint[t], pk, seg, c)
  BY ThreadTypes DEF Known, Ahead
<1>4. parked' = [parked EXCEPT ![t] = pk] /\ mislaid \subseteq Threads
  BY DEF Turns, Tables
<1>5. t \in told' => seg.at # "none" /\ seg.cancel
  BY ThreadTypes
<1> HIDE DEF pk
<1> QED
  BY <1>1, <1>2, <1>3, <1>4, <1>5, RunStep

LEMMA FoldTurns == ASSUME Turns, NEW t \in Threads, Fold(t) PROVE Turns'
<1> DEFINE s == segment[t].state
<1>1. /\ segment[t].at = "folding" /\ UNCHANGED <<checkpoint, parked, replied, settled, told, mislaid>>
      /\ UNCHANGED <<signal, denied, started, asked>> /\ filed' \subseteq CallIds
      /\ asked' \in [Threads -> CallIds \cup {None}]
  BY DEF Fold, Turns, Books
<1>2. segment[t] \in Segment
  BY ThreadTypes
<1>3. CASE Nothing /\ Goes(t, [segment[t] EXCEPT !.at = "loop", !.perform = FALSE])
  <2> DEFINE seg == [segment[t] EXCEPT !.at = "loop", !.perform = FALSE]
  <2>1. seg \in Segment /\ seg.at = "loop" /\ seg.state = s /\ seg.cancel = segment[t].cancel
    BY <1>2 DEF Segment, Stages
  <2>2. segment' = [segment EXCEPT ![t] = seg] /\ s \in Conversation
    BY <1>2, <1>3 DEF Goes, Segment
  <2>3. Books'
    BY <1>1, <1>3, BooksAfter DEF Nothing
  <2> HIDE DEF seg
  <2> QED
    BY <1>1, <1>2, <2>1, <2>2, <2>3, StageStep
<1>4. ASSUME NEW i \in Dangling(t, s), NEW a \in {"text", "cancelled", "result"},
             Answered(t, i, a), Nothing \/ Performs(t, s, i)
      PROVE  Turns'
  <2> DEFINE n == With(s, i, a)
             seg == [segment[t] EXCEPT !.at = "loop", !.perform = FALSE, !.state = n]
  <2>1. i \in DOMAIN s.answers /\ a \in Answers \ {"none"}
    BY DEF Dangling, First, Asks, Unanswered, Answers
  <2>2. n \in Conversation
    BY <2>1, ThreadTypes, AnswerOne
  <2>3. segment' = [segment EXCEPT ![t] = seg]
    BY <1>4 DEF Answered, Goes, With
  <2>4. Books'
    BY <1>1, <1>4, PerformsBooks, BooksAfter
  <2> HIDE DEF n
  <2>6. seg \in Segment /\ seg.at = "loop" /\ seg.state = n /\ seg.cancel = segment[t].cancel
    BY <1>2, <2>2 DEF Segment, Stages
  <2>7. seg.state = With(segment[t].state, i, a)
    BY <2>6 DEF n
  <2> HIDE DEF seg
  <2> QED
    BY <1>1, <1>2, <2>1, <2>3, <2>4, <2>6, <2>7, AnswerStep
<1> QED
  BY <1>3, <1>4 DEF Fold

\* A segment that ends with nothing saved leaves a pause in memory that is behind no answer,
\* or none.
LEMMA LeavesStep ==
    ASSUME Turns, NEW t \in Threads,
           NEW pk, pk = None \/ WellFormed(replied[t], pk),
           t \notin mislaid => \A c \in settled : c[1] = t => pk = None \/ Ahead(pk, c),
           parked' = [parked EXCEPT ![t] = pk],
           Goes(t, NoSegment), UNCHANGED <<checkpoint, replied, settled, mislaid>>,
           told' = told \ {t}, Books'
    PROVE  Turns'
<1> DEFINE seg == NoSegment
<1>1. seg \in Segment /\ seg.at = "none" /\ segment' = [segment EXCEPT ![t] = seg]
  BY NoRun DEF Goes
<1>2. seg.state = Fresh /\ WellFormed(replied[t], Fresh)
  BY NoRun, ThreadTypes
<1> HIDE DEF seg
<1>3. Shape(t, replied[t], checkpoint[t], pk, seg)
  BY <1>1, <1>2, ThreadTypes DEF Shape
<1>4. Records(pk, seg)
  BY <1>1 DEF Records
<1>5. t \notin mislaid => \A c \in settled : c[1] = t => Known(replied[t], checkpoint[t], pk, seg, c)
  BY <1>1, ThreadTypes DEF Known
<1>6. told' \subseteq told /\ t \notin told' /\ mislaid \subseteq Threads
  BY DEF Turns
<1> QED
  BY <1>1, <1>3, <1>4, <1>5, <1>6, RunStep

\* The approval store is asked about calls of the run.
LEMMA FilesType ==
    ASSUME Turns, NEW t \in Threads, NEW S, S \subseteq DOMAIN segment[t].state.answers,
           Files(t, segment[t].state, S)
    PROVE  filed' \subseteq CallIds
<1> DEFINE s == segment[t].state
<1>1. \A i \in S : Call(t, s, i) \in CallIds
  BY CallsOfAReply, ThreadTypes DEF Shape
<1>2. filed' \subseteq filed \cup {Call(t, s, i) : i \in S}
  BY DEF Files
<1> HIDE DEF s
<1> QED
  BY <1>1, <1>2 DEF Turns, Books

LEMMA HeldAgainTurns == ASSUME Turns, NEW t \in Threads, HeldAgain(t) PROVE Turns'
<1> DEFINE s == segment[t].state
<1>1. /\ segment[t].at = "folding" /\ parked' = [parked EXCEPT ![t] = s]
      /\ Goes(t, NoSegment) /\ told' = told \ {t}
      /\ UNCHANGED <<checkpoint, signal, approved, denied, started, replied, asked, ran, settled, mislaid>>
  BY DEF HeldAgain
<1>2. WellFormed(replied[t], s) /\ (t \notin mislaid => \A c \in settled : c[1] = t => Ahead(s, c))
  BY <1>1, ThreadTypes DEF Known
<1>3. filed' \subseteq CallIds
  <2>1. PICK i \in Unanswered(s) : Files(t, s, {i})
    BY DEF HeldAgain, Dangling, First, Asks
  <2> QED
    BY <2>1, FilesType DEF Unanswered
<1>4. Books'
  BY <1>1, <1>3 DEF Turns, Books
<1> HIDE DEF s
<1> QED
  BY <1>1, <1>2, <1>4, LeavesStep

LEMMA HookRaisesTurns == ASSUME Turns, NEW t \in Threads, HookRaises(t) PROVE Turns'
<1> DEFINE pk == parked[t]
<1>1. /\ segment[t].at = "folding" /\ Goes(t, NoSegment) /\ told' = told \ {t}
      /\ UNCHANGED <<checkpoint, parked, signal, denied, filed, started, replied, asked, settled, mislaid>>
  BY DEF HookRaises
<1>2. parked' = [parked EXCEPT ![t] = pk] /\ (pk = None \/ WellFormed(replied[t], pk))
  BY <1>1, ThreadTypes DEF Shape, Turns, Tables
<1>3. \E s, i : Nothing \/ Performs(t, s, i)
  BY DEF HookRaises
<1>4. asked' \in [Threads -> CallIds \cup {None}] /\ filed' \subseteq CallIds
  BY <1>1 DEF Turns, Books
<1>5. Books'
  BY <1>1, <1>3, <1>4, PerformsBooks, BooksAfter
<1>6. t \notin mislaid => \A c \in settled : c[1] = t => pk = None \/ Ahead(pk, c)
  BY ThreadTypes DEF Known
<1> HIDE DEF pk
<1> QED
  BY <1>1, <1>2, <1>5, <1>6, LeavesStep

(***************************************************************************)
(* The loop                                                                *)
(***************************************************************************)

\* A step that changes nothing but the run and what the caller was told.
LEMMA StaysBooks ==
    ASSUME Turns, Stays, asked' \in [Threads -> CallIds \cup {None}]
    PROVE  Books' /\ UNCHANGED <<checkpoint, parked, replied, settled, told, mislaid>>
  BY DEF Stays, Turns, Books

LEMMA StopsTurns ==
    ASSUME Turns, NEW t \in Threads, segment[t].at \in {"loop", "model", "tools"}, Stops(t), Stays
    PROVE  Turns'
<1> DEFINE seg == [segment[t] EXCEPT !.at = "stopped", !.results = << >>]
<1>1. segment[t] \in Segment /\ << >> \in Seq(Answers)
  BY ThreadTypes, EmptySeq
<1>2. /\ seg \in Segment /\ seg.at = "stopped" /\ seg.state = segment[t].state /\ seg.cancel = segment[t].cancel
      /\ segment[t].state \in Conversation
  BY <1>1 DEF Segment, Stages
<1>3. segment' = [segment EXCEPT ![t] = seg] /\ asked' \in [Threads -> CallIds \cup {None}]
  BY AskedType DEF Stops, Goes
<1>4. Books' /\ UNCHANGED <<checkpoint, parked, replied, settled, told, mislaid>>
  BY <1>3, StaysBooks
<1> HIDE DEF seg
<1> QED
  BY <1>2, <1>3, <1>4, StageStep

LEMMA AtTurns ==
    ASSUME Turns, NEW t \in Threads, segment[t].at \in {"loop", "model"}, NEW stage \in {"loop", "model"},
           At(t, stage), Stays, UNCHANGED asked
    PROVE  Turns'
<1> DEFINE seg == [segment[t] EXCEPT !.at = stage]
<1>1. segment[t] \in Segment
  BY ThreadTypes
<1>2. /\ seg \in Segment /\ seg.at = stage /\ seg.state = segment[t].state /\ seg.cancel = segment[t].cancel
      /\ segment[t].state \in Conversation
  BY <1>1 DEF Segment, Stages
<1>3. segment' = [segment EXCEPT ![t] = seg] /\ asked' \in [Threads -> CallIds \cup {None}]
  BY AskedType DEF At, Goes
<1>4. Books' /\ UNCHANGED <<checkpoint, parked, replied, settled, told, mislaid>>
  BY <1>3, StaysBooks
<1> HIDE DEF seg
<1> QED
  BY <1>2, <1>3, <1>4, StageStep

LEMMA TopTurns == ASSUME Turns, NEW t \in Threads, Top(t) PROVE Turns'
  BY StopsTurns, AtTurns DEF Top

LEMMA AnswerTurns == ASSUME Turns, NEW t \in Threads, Answer(t) PROVE Turns'
<1>1. segment[t].at = "model" /\ Stays
  BY DEF Answer
<1>2. CASE /\ Goes(t, [segment[t] EXCEPT !.at = "stopped", !.state.over = TRUE])
           /\ asked' = [asked EXCEPT ![t] = None]
  <2> DEFINE s == [segment[t].state EXCEPT !.over = TRUE]
             seg == [segment[t] EXCEPT !.at = "stopped", !.state = s]
  <2>1. segment[t] \in Segment /\ segment[t].state \in Conversation
    BY ThreadTypes
  <2>2. s \in Conversation /\ s.reply = segment[t].state.reply /\ s.answers = segment[t].state.answers
    BY <2>1 DEF Conversation
  <2>3. segment' = [segment EXCEPT ![t] = seg] /\ asked' \in [Threads -> CallIds \cup {None}]
    BY <1>2, AskedType DEF Goes
  <2> HIDE DEF s
  <2>4. seg \in Segment /\ seg.at = "stopped" /\ seg.state = s /\ seg.cancel = segment[t].cancel
    BY <2>1, <2>2 DEF Segment, Stages
  <2>5. Books' /\ UNCHANGED <<checkpoint, parked, replied, settled, told, mislaid>>
    BY <1>1, <2>3, StaysBooks
  <2> HIDE DEF seg
  <2> QED
    BY <1>1, <2>2, <2>3, <2>4, <2>5, StageStep
<1>3. CASE Stops(t)
  BY <1>1, <1>3, StopsTurns
<1>4. CASE At(t, "loop") /\ UNCHANGED asked
  BY <1>1, <1>4, AtTurns
<1> QED
  BY <1>2, <1>3, <1>4 DEF Answer

\* A reply's calls are new: no checkpoint had an answer to them.
LEMMA ReplyTurns == ASSUME Turns, NEW t \in Threads, Reply(t) PROVE Turns'
<1>1. PICK b \in Batches :
          /\ segment[t].at = "model" /\ Len(replied[t]) < MaxReplies[t]
          /\ replied' = [replied EXCEPT ![t] = Append(@, b)]
          /\ LET open == [i \in DOMAIN b |-> "none"]
             IN  Goes(t, [segment[t] EXCEPT !.at = "tools", !.results = open,
                          !.state = [reply |-> Len(replied[t]) + 1, answers |-> open, over |-> FALSE]])
          /\ UNCHANGED <<checkpoint, parked, signal, approved, denied, filed, started, asked, told, ran, settled, mislaid>>
  BY DEF Reply
<1> DEFINE old == replied[t]
           rep == Append(old, b)
           open == [i \in DOMAIN b |-> "none"]
           s == [reply |-> Len(old) + 1, answers |-> open, over |-> FALSE]
           pk == parked[t]
           seg == [segment[t] EXCEPT !.at = "tools", !.results = open, !.state = s]
<1>2. old \in Seq(Batches) /\ Len(old) \in Nat /\ segment[t] \in Segment /\ MaxReplies[t] \in Nat
  BY ThreadTypes, LenProperties, TurnsAssumption
<1>3. /\ rep \in Seq(Batches) /\ Len(rep) = Len(old) + 1 /\ rep[Len(old) + 1] = b
      /\ \A i \in 1 .. Len(old) : rep[i] = old[i]
  BY <1>2, AppendProperties
<1>4. DOMAIN b = 1 .. Len(b) /\ Len(b) \in Nat
  BY TurnsAssumption, LenProperties
<1>5. open \in Seq(Answers) /\ Len(open) = Len(b) /\ DOMAIN open = DOMAIN b
      /\ \A i \in DOMAIN open : open[i] = "none"
  <2>1. open \in [1 .. Len(b) -> Answers]
    BY <1>4 DEF Answers
  <2> QED
    BY <1>4, <2>1
<1>6. replied' = [replied EXCEPT ![t] = rep] /\ segment' = [segment EXCEPT ![t] = seg]
  BY <1>1 DEF Goes
<1> HIDE DEF rep, open
<1>7. s \in Conversation /\ s.reply = Len(old) + 1 /\ s.answers = open
  BY <1>2, <1>5 DEF Conversation
<1> HIDE DEF s
<1>8. /\ seg \in Segment /\ seg.at = "tools" /\ seg.state = s /\ seg.results = open
      /\ seg.cancel = segment[t].cancel
  BY <1>2, <1>5, <1>7 DEF Segment, Stages
<1> HIDE DEF seg
<1>10. WellFormed(rep, s)
  BY <1>2, <1>3, <1>5, <1>7 DEF WellFormed
<1>11. ASSUME NEW x, WellFormed(old, x)
       PROVE  WellFormed(rep, x)
  BY <1>2, <1>3, <1>11 DEF WellFormed, Conversation
<1>12. Shape(t, rep, checkpoint[t], pk, seg)
  <2>1. Len(rep) <= MaxReplies[t] /\ s.reply # 0
    BY <1>1, <1>2, <1>3, <1>7
  <2>2. (checkpoint[t] # None => WellFormed(rep, checkpoint[t])) /\ (pk # None => WellFormed(rep, pk))
    BY <1>11, ThreadTypes DEF Shape
  <2>3. Len(seg.results) = Len(seg.state.answers) /\ \A i \in DOMAIN seg.state.answers : seg.state.answers[i] = "none"
    BY <1>5, <1>7, <1>8
  <2> QED
    BY <2>1, <2>2, <2>3, <1>3, <1>8, <1>10 DEF Shape
<1>13. t \notin mislaid => Records(pk, seg)
  BY <1>1, <1>8, ThreadTypes DEF Records
<1>14. ASSUME NEW c \in settled, c[1] = t, t \notin mislaid
       PROVE  Known(rep, checkpoint[t], pk, seg, c)
  <2>1. Known(old, checkpoint[t], pk, segment[t], c)
    BY <1>14, ThreadTypes
  <2>2. Ahead(s, c)
    BY <2>1, <1>2, <1>7 DEF Known, Ahead
  <2> QED
    BY <2>1, <2>2, <1>2, <1>3, <1>8 DEF Known
<1>15. Tables'
  BY <1>1, <1>3, <1>6, <1>8 DEF Turns, Tables
<1>16. Books' /\ settled' \subseteq CallIds /\ settled' = settled /\ told' = told
       /\ mislaid' = mislaid /\ mislaid \subseteq Threads
  BY <1>1 DEF Turns, Books
<1>17. /\ replied'[t] = rep /\ checkpoint'[t] = checkpoint[t] /\ parked'[t] = pk /\ segment'[t] = seg
       /\ \A u \in Threads \ {t} : /\ replied'[u] = replied[u] /\ checkpoint'[u] = checkpoint[u]
                                   /\ parked'[u] = parked[u] /\ segment'[u] = segment[u]
  BY <1>1, <1>6 DEF Turns, Tables
<1>18. ThreadOK(t)'
  BY <1>8, <1>12, <1>13, <1>14, <1>16, <1>17, ThreadTypes DEF ThreadOK
<1> QED
  BY <1>15, <1>16, <1>17, <1>18, ThreadStep

(***************************************************************************)
(* The calls of a reply                                                    *)
(***************************************************************************)

\* The end of an iteration: s answers what the run's conversation did, and may be saved.
LEMMA IterationEndsTurns ==
    ASSUME Turns, NEW t \in Threads, segment[t].at = "tools", NEW s, WellFormed(replied[t], s),
           t \notin mislaid => \A c \in settled : c[1] = t => Ahead(s, c), IterationEnds(t, s)
    PROVE  Turns'
<1>1. PICK at \in {"loop", "stopped"} :
          /\ Goes(t, [segment[t] EXCEPT !.at = at, !.state = s, !.results = << >>])
          /\ asked' = IF at = "stopped" THEN [asked EXCEPT ![t] = None] ELSE asked
  BY DEF IterationEnds
<1> DEFINE seg == [segment[t] EXCEPT !.at = at, !.state = s, !.results = << >>]
<1>2. /\ segment' = [segment EXCEPT ![t] = seg] /\ MaySave(t, s)
      /\ UNCHANGED <<parked, signal, approved, denied, filed, started, replied, told, ran, mislaid>>
  BY <1>1 DEF IterationEnds, Goes
<1>3. segment[t] \in Segment /\ s \in Conversation /\ << >> \in Seq(Answers)
  BY ThreadTypes, EmptySeq DEF WellFormed
<1>4. seg \in Segment /\ seg.at = at /\ seg.state = s /\ seg.cancel = segment[t].cancel
  BY <1>3 DEF Segment, Stages
<1> HIDE DEF seg
<1>5. Books'
  <2>1. asked' \in [Threads -> CallIds \cup {None}]
    BY <1>1, AskedType
  <2> QED
    BY <1>2, <2>1 DEF Turns, Books
<1>6. Shape(t, replied[t], s, parked[t], seg)
  BY <1>4, ThreadTypes DEF Shape
<1>7. t \notin mislaid => Records(parked[t], seg) /\ parked[t] = None
  BY <1>4, ThreadTypes DEF Records
<1>8. (t \in told' => seg.at # "none" /\ seg.cancel) /\ mislaid \subseteq Threads
  BY <1>2, <1>4, ThreadTypes DEF Turns
<1> QED
  BY <1>2, <1>4, <1>5, <1>6, <1>7, <1>8, SaveStep

LEMMA AllInOrderTurns == ASSUME Turns, NEW t \in Threads, AllInOrder(t) PROVE Turns'
<1>1. segment[t].at = "tools" /\ IterationEnds(t, segment[t].state)
  BY DEF AllInOrder
<1>2. /\ WellFormed(replied[t], segment[t].state)
      /\ t \notin mislaid => \A c \in settled : c[1] = t => Ahead(segment[t].state, c)
  BY <1>1, ThreadTypes DEF Known
<1> QED
  BY <1>1, <1>2, IterationEndsTurns

LEMMA FoldBatchTurns == ASSUME Turns, NEW t \in Threads, FoldBatch(t) PROVE Turns'
<1> DEFINE x == segment[t].state
           results == segment[t].results
           s == [x EXCEPT !.answers = results]
<1>1. segment[t].at = "tools" /\ segment[t].batch /\ Waiting(t) = {} /\ IterationEnds(t, s)
  BY DEF FoldBatch
<1>2. /\ x \in Conversation /\ results \in Seq(Answers) /\ Len(results) = Len(x.answers) /\ x.reply # 0
      /\ WellFormed(replied[t], x)
  BY <1>1, ThreadTypes DEF Shape
<1>3. \A i \in 1 .. Len(results) : results[i] # "none"
  BY <1>1, <1>2, LenProperties DEF Waiting
<1> HIDE DEF results
<1>4. s \in Conversation /\ s.reply = x.reply /\ s.answers = results
  BY <1>2 DEF Conversation
<1> HIDE DEF s
<1>5. WellFormed(replied[t], s)
  BY <1>2, <1>4 DEF WellFormed
<1>6. ASSUME NEW c \in settled, c[1] = t, t \notin mislaid
      PROVE  Ahead(s, c)
  <2>1. Ahead(x, c) /\ c[3] \in 1 .. Len(replied[t][c[2]])
    BY <1>1, <1>6, ThreadTypes DEF Known
  <2>2. x.reply = c[2] => c[3] \in 1 .. Len(results)
    BY <2>1, <1>2 DEF WellFormed
  <2> QED
    BY <2>1, <2>2, <1>3, <1>4 DEF Ahead
<1> QED
  BY <1>1, <1>5, <1>6, IterationEndsTurns

LEMMA ExecutesTurns ==
    ASSUME Turns, NEW t \in Threads, NEW i, Executes(t, i)
    PROVE  Turns'
<1>1. PICK a \in {"result", "cancelled"} :
          /\ Nothing \/ Performs(t, segment[t].state, i)
          /\ Goes(t, [segment[t] EXCEPT !.results[i] = a])
  BY DEF Executes
<1>2. /\ segment[t].at = "tools" /\ segment[t].batch /\ i \in DOMAIN segment[t].results
      /\ UNCHANGED <<checkpoint, parked, signal, denied, filed, started, replied, asked, told, settled, mislaid>>
  BY DEF Executes, InBatch, Waiting
<1> DEFINE results == [segment[t].results EXCEPT ![i] = a]
           pk == parked[t]
           seg == [segment[t] EXCEPT !.results = results]
<1>3. /\ segment[t] \in Segment /\ segment[t].results \in Seq(Answers) /\ a \in Answers
  BY ThreadTypes DEF Answers
<1>4. i \in 1 .. Len(segment[t].results)
  BY <1>2, <1>3, LenProperties
<1>5. results \in Seq(Answers) /\ Len(results) = Len(segment[t].results)
  BY <1>3, <1>4, ExceptSeq
<1>6. segment' = [segment EXCEPT ![t] = seg]
  BY <1>1 DEF Goes
<1> HIDE DEF results
<1>7. /\ seg \in Segment /\ seg.at = "tools" /\ seg.state = segment[t].state /\ seg.results = results
      /\ seg.cancel = segment[t].cancel /\ seg.batch = segment[t].batch
  BY <1>2, <1>3, <1>5 DEF Segment
<1> HIDE DEF seg
<1>8. Shape(t, replied[t], checkpoint[t], pk, seg) /\ (t \notin mislaid => Records(pk, seg))
  BY <1>2, <1>5, <1>7, ThreadTypes DEF Shape, Records
<1>9. t \notin mislaid => \A c \in settled : c[1] = t => Known(replied[t], checkpoint[t], pk, seg, c)
  BY <1>2, <1>7, ThreadTypes DEF Known
<1>10. asked' \in [Threads -> CallIds \cup {None}] /\ filed' \subseteq CallIds
  BY <1>2 DEF Turns, Books
<1>11. Books'
  BY <1>1, <1>2, <1>10, PerformsBooks, BooksAfter
<1>12. parked' = [parked EXCEPT ![t] = pk] /\ (pk = None \/ WellFormed(replied[t], pk)) /\ mislaid \subseteq Threads
  BY <1>2, ThreadTypes DEF Turns, Tables, Shape
<1>13. t \in told' => seg.at # "none" /\ seg.cancel
  BY <1>2, <1>7, ThreadTypes
<1> HIDE DEF pk
<1> QED
  BY <1>2, <1>6, <1>7, <1>8, <1>9, <1>11, <1>12, <1>13, RunStep

\* A pause puts the run's conversation in memory.
LEMMA ParksTurns ==
    ASSUME Turns, NEW t \in Threads, segment[t].at = "tools",
           NEW i \in DOMAIN segment[t].state.answers, NEW results \in Seq(Answers), Parks(t, i, results),
           segment[t].batch => /\ Len(results) = Len(segment[t].state.answers)
                               /\ \A j \in DOMAIN results : results[j] # "none",
           UNCHANGED <<checkpoint, replied, settled, told, mislaid>>, Books'
    PROVE  Turns'
<1> DEFINE s == segment[t].state
           seg == [segment[t] EXCEPT !.at = "pausing", !.pause = i, !.results = results]
<1>1. segment' = [segment EXCEPT ![t] = seg] /\ parked' = [parked EXCEPT ![t] = s]
  BY DEF Parks, Goes
<1>2. /\ segment[t] \in Segment /\ s.answers \in Seq(Answers)
      /\ s.reply # 0 /\ WellFormed(replied[t], s)
  BY ThreadTypes DEF Shape, Conversation
<1>3. i \in Nat
  BY <1>2, LenProperties
<1>4. /\ seg \in Segment /\ seg.at = "pausing" /\ seg.state = s /\ seg.pause = i
      /\ seg.cancel = segment[t].cancel /\ seg.batch = segment[t].batch /\ seg.results = results
  BY <1>2, <1>3 DEF Segment, Stages
<1> HIDE DEF seg
<1>5. Shape(t, replied[t], checkpoint[t], s, seg)
  BY <1>2, <1>4, ThreadTypes DEF Shape
<1>6. Records(s, seg)
  BY <1>4 DEF Records
<1>7. t \notin mislaid => \A c \in settled : c[1] = t => Known(replied[t], checkpoint[t], s, seg, c)
  BY <1>4, ThreadTypes DEF Known
<1>8. (t \in told' => seg.at # "none" /\ seg.cancel) /\ mislaid \subseteq Threads
  BY <1>4, ThreadTypes DEF Turns
<1> HIDE DEF s
<1> QED
  BY <1>1, <1>2, <1>4, <1>5, <1>6, <1>7, <1>8, RunStep

LEMMA InterruptsTurns ==
    ASSUME Turns, NEW t \in Threads, NEW i, Interrupts(t, i)
    PROVE  Turns'
<1> DEFINE s == segment[t].state
           results == [j \in DOMAIN s.answers |->
                          IF j = i THEN "text"
                          ELSE IF j \in Waiting(t) THEN "cancelled" ELSE segment[t].results[j]]
<1>1. PICK reached \in SUBSET (Waiting(t) \ {i}) :
          /\ Effects({Call(t, s, j) : j \in {k \in reached : KindOf(Call(t, s, k)) = "plain"}})
          /\ Files(t, s, reached \cup {i})
  BY DEF Interrupts
<1>2. /\ segment[t].at = "tools" /\ i \in Waiting(t) /\ Parks(t, i, results)
      /\ UNCHANGED <<checkpoint, signal, approved, denied, started, replied, asked, told, settled, mislaid>>
  BY DEF Interrupts, InBatch
<1>3. /\ DOMAIN segment[t].results = DOMAIN s.answers /\ DOMAIN s.answers = 1 .. Len(s.answers)
      /\ segment[t].results \in Seq(Answers) /\ Len(s.answers) \in Nat
  <2>1. segment[t].results \in Seq(Answers) /\ s.answers \in Seq(Answers)
    BY ThreadTypes DEF Conversation
  <2>2. Len(segment[t].results) = Len(s.answers)
    BY <1>2, ThreadTypes DEF Shape
  <2> QED
    BY <2>1, <2>2, LenProperties
<1>4. Waiting(t) \subseteq DOMAIN s.answers
  BY <1>3 DEF Waiting
<1>5. \A j \in DOMAIN s.answers : results[j] \in Answers /\ results[j] # "none"
  <2>1. \A j \in DOMAIN s.answers : segment[t].results[j] \in Answers
    BY <1>3, ElementOfSeq
  <2> QED
    BY <1>3, <2>1 DEF Answers, Waiting
<1>6. results \in Seq(Answers) /\ Len(results) = Len(s.answers) /\ DOMAIN results = DOMAIN s.answers
  <2>1. results \in [1 .. Len(s.answers) -> Answers]
    BY <1>3, <1>5
  <2> QED
    BY <1>3, <2>1
<1>7. filed' \subseteq CallIds
  BY <1>1, <1>2, <1>4, FilesType
<1>8. Books'
  <2>1. asked' \in [Threads -> CallIds \cup {None}]
    BY <1>2 DEF Turns, Books
  <2> QED
    BY <1>1, <1>2, <1>7, <2>1, BooksAfter
<1>9. \A j \in DOMAIN results : results[j] # "none"
  BY <1>5, <1>6
<1> HIDE DEF results
<1> QED
  BY <1>2, <1>4, <1>6, <1>8, <1>9, ParksTurns

LEMMA InOrderTurns == ASSUME Turns, NEW t \in Threads, InOrder(t) PROVE Turns'
<1> DEFINE s == segment[t].state
<1>1. PICK i \in First(Unanswered(s)) :
          \/ \E a \in {"result", "cancelled"} :
                /\ Nothing \/ Performs(t, s, i)
                /\ Goes(t, [segment[t] EXCEPT !.state.answers[i] = a]) /\ UNCHANGED <<parked, filed>>
          \/ Nothing /\ Files(t, s, {i}) /\ Parks(t, i, << >>)
  BY DEF InOrder
<1>2. /\ segment[t].at = "tools" /\ ~segment[t].batch
      /\ UNCHANGED <<checkpoint, signal, denied, started, replied, asked, told, settled, mislaid>>
  BY DEF InOrder
<1>3. i \in DOMAIN s.answers
  BY DEF First, Unanswered
<1>4. asked' \in [Threads -> CallIds \cup {None}]
  BY <1>2 DEF Turns, Books
<1>5. ASSUME NEW a \in {"result", "cancelled"}, Nothing \/ Performs(t, s, i),
             Goes(t, [segment[t] EXCEPT !.state.answers[i] = a]), UNCHANGED <<parked, filed>>
      PROVE  Turns'
  <2> DEFINE n == With(s, i, a)
             seg == [segment[t] EXCEPT !.state = n]
  <2>1. a \in Answers \ {"none"}
    BY DEF Answers
  <2>2. n \in Conversation /\ segment[t] \in Segment
    BY <1>3, <2>1, ThreadTypes, AnswerOne
  <2>3. segment' = [segment EXCEPT ![t] = seg]
    BY <1>5 DEF Goes, With
  <2>4. filed' \subseteq CallIds
    BY <1>5 DEF Turns, Books
  <2>5. Books'
    BY <1>2, <1>4, <1>5, <2>4, PerformsBooks, BooksAfter
  <2> HIDE DEF n
  <2>6. /\ seg \in Segment /\ seg.at = "tools" /\ seg.state = n /\ seg.cancel = segment[t].cancel
        /\ ~seg.batch /\ seg.results = segment[t].results
    BY <1>2, <2>2 DEF Segment
  <2>7. seg.state = With(segment[t].state, i, a)
    BY <2>6 DEF n
  <2> HIDE DEF seg
  <2> QED
    BY <1>2, <1>3, <1>5, <2>1, <2>3, <2>5, <2>6, <2>7, AnswerStep
<1>6. CASE Nothing /\ Files(t, s, {i}) /\ Parks(t, i, << >>)
  <2>1. filed' \subseteq CallIds
    BY <1>3, <1>6, FilesType
  <2>2. Books'
    BY <1>2, <1>4, <1>6, <2>1, PerformsBooks, BooksAfter
  <2>3. << >> \in Seq(Answers)
    BY EmptySeq
  <2> QED
    BY <1>2, <1>3, <1>6, <2>2, <2>3, ParksTurns
<1> QED
  BY <1>1, <1>5, <1>6

LEMMA FailsTurns == ASSUME Turns, NEW t \in Threads, Fails(t) PROVE Turns'
  BY StopsTurns DEF Fails

(***************************************************************************)
(* A segment ends                                                          *)
(***************************************************************************)

LEMMA PauseTurns == ASSUME Turns, NEW t \in Threads, Pause(t) PROVE Turns'
<1> DEFINE s == segment[t].state
           c == Call(t, s, segment[t].pause)
           seg == [segment[t] EXCEPT !.at = "paused", !.results = << >>]
<1>1. /\ segment[t].at = "pausing" /\ MaySave(t, s) /\ asked' = [asked EXCEPT ![t] = c]
      /\ segment' = [segment EXCEPT ![t] = seg]
      /\ UNCHANGED <<parked, signal, approved, denied, filed, started, replied, told, ran, mislaid>>
  BY DEF Pause, MaySave, Goes
<1>2. segment[t] \in Segment /\ WellFormed(replied[t], s) /\ << >> \in Seq(Answers)
  BY ThreadTypes, EmptySeq
<1>3. c \in CallIds
  BY <1>1, ThreadTypes, CallsOfAReply DEF Shape
<1> HIDE DEF c
<1>4. Books'
  BY <1>1, <1>3 DEF Turns, Books
<1>5. seg \in Segment /\ seg.at = "paused" /\ seg.state = s /\ seg.cancel = segment[t].cancel
  BY <1>2 DEF Segment, Stages
<1> HIDE DEF seg
<1>6. Shape(t, replied[t], s, parked[t], seg)
  BY <1>2, <1>5, ThreadTypes DEF Shape
<1>7. t \notin mislaid' => /\ Records(parked[t], seg)
                           /\ parked[t] = None \/ parked[t] = s
                           /\ \A d \in settled : d[1] = t => Ahead(s, d)
  BY <1>1, <1>5, ThreadTypes DEF Records, Known
<1>8. (t \in told' => seg.at # "none" /\ seg.cancel) /\ mislaid \subseteq Threads
  BY <1>1, <1>5, ThreadTypes DEF Turns
<1> HIDE DEF s
<1> QED
  BY <1>1, <1>2, <1>4, <1>5, <1>6, <1>7, <1>8, SaveStep DEF s

LEMMA PauseFailsTurns == ASSUME Turns, NEW t \in Threads, PauseFails(t) PROVE Turns'
<1> DEFINE s == segment[t].state
           seg == [segment[t] EXCEPT !.at = "stopped", !.results = << >>]
<1>1. /\ segment[t].at = "pausing" /\ MaySave(t, s) /\ asked' = [asked EXCEPT ![t] = None]
      /\ segment' = [segment EXCEPT ![t] = seg]
      /\ UNCHANGED <<parked, signal, approved, denied, filed, started, replied, told, ran, mislaid>>
  BY DEF PauseFails, Stops, Goes
<1>2. segment[t] \in Segment /\ WellFormed(replied[t], s) /\ << >> \in Seq(Answers)
  BY ThreadTypes, EmptySeq
<1>3. Books'
  <2>1. asked' \in [Threads -> CallIds \cup {None}]
    BY <1>1, AskedType
  <2> QED
    BY <1>1, <2>1 DEF Turns, Books
<1>4. seg \in Segment /\ seg.at = "stopped" /\ seg.state = s /\ seg.cancel = segment[t].cancel
  BY <1>2 DEF Segment, Stages
<1> HIDE DEF seg
<1>5. Shape(t, replied[t], s, parked[t], seg)
  BY <1>2, <1>4, ThreadTypes DEF Shape
<1>6. t \notin mislaid' => /\ Records(parked[t], seg)
                           /\ parked[t] = None \/ parked[t] = s
                           /\ \A d \in settled : d[1] = t => Ahead(s, d)
  BY <1>1, <1>4, ThreadTypes DEF Records, Known
<1>7. (t \in told' => seg.at # "none" /\ seg.cancel) /\ mislaid \subseteq Threads
  BY <1>1, <1>4, ThreadTypes DEF Turns
<1> HIDE DEF s
<1> QED
  BY <1>1, <1>2, <1>3, <1>4, <1>5, <1>6, <1>7, SaveStep DEF s

LEMMA PauseMislaidTurns == ASSUME Turns, NEW t \in Threads, PauseMislaid(t) PROVE Turns'
<1> DEFINE s == segment[t].state
           seg == [segment[t] EXCEPT !.at = "tools"]
<1>1. /\ segment[t].at = "pausing" /\ segment[t].batch /\ MaySave(t, s)
      /\ segment' = [segment EXCEPT ![t] = seg] /\ mislaid' = mislaid \cup {t}
      /\ UNCHANGED <<parked, signal, approved, denied, filed, started, replied, asked, told, ran>>
  BY DEF PauseMislaid, At, Goes
<1>2. segment[t] \in Segment /\ WellFormed(replied[t], s)
  BY ThreadTypes
<1>3. Books'
  BY <1>1 DEF Turns, Books
<1>4. /\ seg \in Segment /\ seg.at = "tools" /\ seg.state = s /\ seg.cancel = segment[t].cancel
      /\ seg.batch = segment[t].batch /\ seg.results = segment[t].results
  BY <1>2 DEF Segment, Stages
<1> HIDE DEF seg
<1>5. Shape(t, replied[t], s, parked[t], seg)
  BY <1>1, <1>2, <1>4, ThreadTypes DEF Shape
<1>6. t \in mislaid' /\ mislaid \subseteq mislaid' /\ mislaid' \subseteq Threads
  BY <1>1 DEF Turns
<1>7. t \in told' => seg.at # "none" /\ seg.cancel
  BY <1>1, <1>4, ThreadTypes
<1> HIDE DEF s
<1> QED
  BY <1>1, <1>2, <1>3, <1>4, <1>5, <1>6, <1>7, SaveStep DEF s

LEMMA ClearTurns == ASSUME Turns, NEW t \in Threads, Clear(t) PROVE Turns'
<1> DEFINE s == segment[t].state
           pk == parked[t]
           seg == [segment[t] EXCEPT !.at = "ending"]
<1>1. /\ segment[t].at \in {"stopped", "paused"} /\ signal' = FALSE
      /\ segment' = [segment EXCEPT ![t] = seg]
      /\ UNCHANGED <<checkpoint, parked, approved, denied, filed, started, replied, asked, told, ran, settled, mislaid>>
  BY DEF Clear, At, Goes
<1>2. segment[t] \in Segment /\ WellFormed(replied[t], s)
  BY ThreadTypes
<1>3. Books'
  BY <1>1 DEF Turns, Books
<1>4. seg \in Segment /\ seg.at = "ending" /\ seg.state = s /\ seg.cancel = segment[t].cancel
  BY <1>2 DEF Segment, Stages
<1> HIDE DEF seg
<1>5. Shape(t, replied[t], checkpoint[t], pk, seg) /\ (t \notin mislaid => Records(pk, seg))
  BY <1>1, <1>2, <1>4, ThreadTypes DEF Shape, Records
<1>6. t \notin mislaid => \A c \in settled : c[1] = t => Known(replied[t], checkpoint[t], pk, seg, c)
  BY <1>1, <1>4, ThreadTypes DEF Known
<1>7. parked' = [parked EXCEPT ![t] = pk] /\ (pk = None \/ WellFormed(replied[t], pk)) /\ mislaid \subseteq Threads
  BY <1>1, ThreadTypes DEF Turns, Tables, Shape
<1>8. t \in told' => seg.at # "none" /\ seg.cancel
  BY <1>1, <1>4, ThreadTypes
<1> HIDE DEF pk
<1> QED
  BY <1>1, <1>3, <1>4, <1>5, <1>6, <1>7, <1>8, RunStep

LEMMA EndRunTurns == ASSUME Turns, NEW t \in Threads, EndRun(t) PROVE Turns'
<1> DEFINE s == segment[t].state
           seg == NoSegment
<1>1. /\ segment[t].at = "ending" /\ MaySave(t, s) /\ segment' = [segment EXCEPT ![t] = seg]
      /\ told' = told \ {t}
      /\ UNCHANGED <<parked, signal, approved, denied, filed, started, replied, asked, ran, mislaid>>
  BY DEF EndRun, Goes
<1>2. WellFormed(replied[t], s)
  BY ThreadTypes
<1>3. Books'
  BY <1>1 DEF Turns, Books
<1>4. seg \in Segment /\ seg.at = "none" /\ seg.state = Fresh /\ WellFormed(replied[t], Fresh)
  BY NoRun, ThreadTypes
<1> HIDE DEF seg
<1>5. Shape(t, replied[t], s, parked[t], seg)
  BY <1>2, <1>4, ThreadTypes DEF Shape
<1>6. t \notin mislaid' => /\ Records(parked[t], seg)
                           /\ parked[t] = None \/ parked[t] = s
                           /\ \A d \in settled : d[1] = t => Ahead(s, d)
  BY <1>1, <1>4, ThreadTypes DEF Records, Known
<1>7. told' \subseteq told /\ t \notin told' /\ mislaid \subseteq Threads
  BY <1>1 DEF Turns
<1> HIDE DEF s
<1> QED
  BY <1>1, <1>2, <1>3, <1>4, <1>5, <1>6, <1>7, SaveStep DEF s

(***************************************************************************)
(* Cancellation, decisions and crashes                                     *)
(***************************************************************************)

LEMMA CancelTurns ==
    ASSUME Turns, NEW threads \in SUBSET Registered, Signalled(threads), signal' \in BOOLEAN
    PROVE  Turns'
<1> DEFINE seg(t) == [segment[t] EXCEPT !.cancel = TRUE]
<1>1. ASSUME NEW t \in Threads
      PROVE  /\ seg(t) \in Segment /\ seg(t).at = segment[t].at /\ seg(t).state = segment[t].state
             /\ seg(t).results = segment[t].results /\ seg(t).batch = segment[t].batch
             /\ seg(t).pause = segment[t].pause /\ seg(t).cancel
  BY ThreadTypes DEF Segment
<1>2. /\ segment' = [t \in Threads |-> IF t \in threads THEN seg(t) ELSE segment[t]]
      /\ told' = told \cup threads
      /\ UNCHANGED <<checkpoint, parked, approved, denied, filed, started, replied, asked, ran, settled, mislaid>>
  BY DEF Signalled
<1> HIDE DEF seg
<1>3. Tables' /\ Books' /\ settled' \subseteq CallIds
  BY <1>1, <1>2 DEF Turns, Tables, Books
<1>4. told' \subseteq Threads /\ mislaid' \subseteq Threads
  BY <1>2 DEF Turns, Registered
<1>5. ASSUME NEW t \in Threads
      PROVE  ThreadOK(t)'
  <2>1. /\ segment'[t].at = segment[t].at /\ segment'[t].state = segment[t].state
        /\ segment'[t].results = segment[t].results /\ segment'[t].batch = segment[t].batch
        /\ segment'[t].pause = segment[t].pause
        /\ segment[t].cancel \/ t \in threads => segment'[t].cancel
    BY <1>1, <1>2
  <2>2. Shape(t, replied[t], checkpoint[t], parked[t], segment'[t])
    BY <2>1, ThreadTypes DEF Shape
  <2>3. t \notin mislaid => Records(parked[t], segment'[t])
    BY <2>1, ThreadTypes DEF Records
  <2>4. t \notin mislaid =>
           \A c \in settled : c[1] = t => Known(replied[t], checkpoint[t], parked[t], segment'[t], c)
    BY <2>1, ThreadTypes DEF Known
  <2>5. t \in told' => segment'[t].at # "none" /\ segment'[t].cancel
    BY <1>2, <2>1, ThreadTypes DEF Registered
  <2> QED
    BY <1>2, <2>2, <2>3, <2>4, <2>5 DEF ThreadOK
<1> QED
  BY <1>3, <1>4, <1>5 DEF Turns

\* What no thread's order depends on.
LEMMA BooksOnly ==
    ASSUME Turns, UNCHANGED <<checkpoint, parked, segment, replied, settled, told, mislaid>>, Books'
    PROVE  Turns'
  BY DEF Turns, Tables, ThreadOK

LEMMA DecideTurns == ASSUME Turns, Decide PROVE Turns'
<1>1. PICK c \in filed : approved' \subseteq approved \cup {c} /\ denied' \subseteq denied \cup {c}
  BY DEF Decide
<1>2. UNCHANGED <<checkpoint, parked, segment, signal, filed, started, replied, asked, told, ran, settled, mislaid>>
  BY DEF Decide
<1>3. Books'
  BY <1>1, <1>2 DEF Turns, Books
<1> QED
  BY <1>2, <1>3, BooksOnly

LEMMA CrashTurns == ASSUME Turns, Crash PROVE Turns'
<1>1. /\ segment' = [t \in Threads |-> NoSegment] /\ parked' = [t \in Threads |-> None]
      /\ signal' = FALSE /\ told' = {}
      /\ UNCHANGED <<checkpoint, approved, denied, filed, started, replied, asked, ran, settled, mislaid>>
  BY DEF Crash
<1>2. Tables' /\ Books' /\ settled' \subseteq CallIds /\ told' \subseteq Threads /\ mislaid' \subseteq Threads
  BY <1>1, NoRun DEF Turns, Tables, Books
<1>3. ASSUME NEW t \in Threads
      PROVE  ThreadOK(t)'
  <2>1. segment'[t] = NoSegment /\ parked'[t] = None
    BY <1>1
  <2>2. Shape(t, replied[t], checkpoint[t], None, NoSegment)
    BY ThreadTypes, NoRun DEF Shape
  <2>3. Records(None, NoSegment)
    BY NoRun DEF Records
  <2>4. t \notin mislaid =>
           \A c \in settled : c[1] = t => Known(replied[t], checkpoint[t], None, NoSegment, c)
    BY ThreadTypes, NoRun DEF Known
  <2> QED
    BY <1>1, <2>1, <2>2, <2>3, <2>4 DEF ThreadOK
<1> QED
  BY <1>2, <1>3 DEF Turns

LEMMA InitTurns == Init => Turns
<1> SUFFICES ASSUME Init
             PROVE  Turns
  OBVIOUS
<1>1. << >> \in Seq(Batches) /\ Len(<< >>) = 0
  BY EmptySeq
<1>2. Tables
  BY <1>1, NoRun DEF Init, Tables
<1>3. Books
  BY DEF Init, Books
<1>4. ASSUME NEW t \in Threads
      PROVE  ThreadOK(t)
  <2>1. /\ segment[t] = NoSegment /\ parked[t] = None /\ checkpoint[t] = None /\ replied[t] = << >>
        /\ settled = {} /\ told = {}
    BY DEF Init
  <2>2. Len(replied[t]) <= MaxReplies[t]
    BY <1>1, <2>1, TurnsAssumption
  <2>3. Shape(t, replied[t], checkpoint[t], parked[t], segment[t])
    BY <1>1, <2>1, <2>2, NoRun DEF Shape
  <2>4. Records(parked[t], segment[t])
    BY <2>1, NoRun DEF Records
  <2> QED
    BY <2>1, <2>3, <2>4 DEF ThreadOK
<1> QED
  BY <1>2, <1>3, <1>4 DEF Init, Turns

LEMMA NextTurns == Turns /\ [Next]_turnVars => Turns'
<1> SUFFICES ASSUME Turns, [Next]_turnVars
             PROVE  Turns'
  OBVIOUS
<1>1. ASSUME NEW t \in Threads, Step(t)
      PROVE  Turns'
  <2>1. CASE Run(t) \/ FailsToRun(t) \/ (\E perform \in BOOLEAN : Resume(t, perform)) \/ ContinueTurn(t)
    BY <2>1, RunTurns, FailsToRunTurns, ResumeTurns, ContinueTurns
  <2>2. CASE Fold(t) \/ HeldAgain(t) \/ HookRaises(t) \/ Top(t) \/ Answer(t) \/ Reply(t)
    BY <2>2, FoldTurns, HeldAgainTurns, HookRaisesTurns, TopTurns, AnswerTurns, ReplyTurns
  <2>3. CASE \/ (\E i \in DOMAIN segment[t].results : Executes(t, i) \/ Interrupts(t, i))
             \/ FoldBatch(t) \/ InOrder(t) \/ AllInOrder(t) \/ Fails(t)
    BY <2>3, ExecutesTurns, InterruptsTurns, FoldBatchTurns, InOrderTurns, AllInOrderTurns, FailsTurns
  <2>4. CASE Pause(t) \/ PauseFails(t) \/ PauseMislaid(t) \/ Clear(t) \/ EndRun(t)
    BY <2>4, PauseTurns, PauseFailsTurns, PauseMislaidTurns, ClearTurns, EndRunTurns
  <2>5. CASE Cancel(t)
    <3>1. {t} \in SUBSET Registered /\ Signalled({t}) /\ signal' \in BOOLEAN
      BY <2>5 DEF Cancel, Turns, Books
    <3> QED
      BY <3>1, CancelTurns
  <2> QED
    BY <1>1, <2>1, <2>2, <2>3, <2>4, <2>5 DEF Step
<1>2. CASE CancelAll
  BY <1>2, CancelTurns DEF CancelAll
<1>3. CASE Crash \/ Decide
  BY <1>3, CrashTurns, DecideTurns
<1>4. CASE UNCHANGED turnVars
  BY <1>4 DEF turnVars, Turns, Tables, Books, ThreadOK
<1> QED
  BY <1>1, <1>2, <1>3, <1>4 DEF Next

\* The strengthening the properties follow from: what a segment, the pause in memory and
\* the checkpoint of each thread know of its calls.
THEOREM TurnsInvariant == Spec => []Turns
  BY InitTurns, NextTurns, PTL DEF Spec

(***************************************************************************)
(* The theorems                                                            *)
(***************************************************************************)

\* Checkpoints, pauses, segments and books are always what TurnsTypeOK says, and a run's
\* conversation has as many answers as its last reply has calls.
THEOREM TurnsTypeCorrect == Spec => []TurnsTypeOK
<1>1. Turns => TurnsTypeOK
  <2> SUFFICES ASSUME Turns
               PROVE  TurnsTypeOK
    OBVIOUS
  <2>1. ASSUME NEW t \in Threads
        PROVE  /\ segment[t].state.reply <= Len(replied[t])
               /\ segment[t].state.reply > 0 =>
                     Len(segment[t].state.answers) = Len(replied[t][segment[t].state.reply])
    BY ThreadTypes DEF WellFormed, Conversation
  <2> QED
    BY <2>1 DEF Turns, Tables, Books, TurnsTypeOK
<1> QED
  BY <1>1, TurnsInvariant, PTL

\* Between segments a pause in memory is behind no answer that a checkpoint of its thread
\* had, whatever ended the segment and whether its saves were written, unless a run of the
\* thread went on although it was paused.
THEOREM PauseNeverStale == Spec => []PauseIsNotStale
<1>1. Turns => PauseIsNotStale
  <2> SUFFICES ASSUME Turns, NEW c \in settled, c[1] \notin mislaid, parked[c[1]] # None
               PROVE  Ahead(parked[c[1]], c)
    BY DEF PauseIsNotStale
  <2>1. c[1] \in Threads
    BY DEF Turns, CallIds
  <2> QED
    BY <2>1, ThreadTypes DEF Known
<1> QED
  BY <1>1, TurnsInvariant, PTL

\* No checkpoint goes back behind an answer of an earlier one, unless a run of the thread
\* went on although it was paused.
THEOREM CheckpointsAlwaysForward == Spec => []CheckpointsGoForward
<1>1. Turns => CheckpointsGoForward
  <2> SUFFICES ASSUME Turns, NEW c \in settled, c[1] \notin mislaid
               PROVE  Ahead(checkpoint[c[1]], c)
    BY DEF CheckpointsGoForward
  <2>1. c \in CallIds
    BY DEF Turns
  <2>2. c[1] \in Threads
    BY <2>1 DEF CallIds
  <2> QED
    BY <2>2, ThreadTypes DEF Known
<1> QED
  BY <1>1, TurnsInvariant, PTL

\* A call a run has still to answer is not one a checkpoint had an answer to.
LEMMA OpenCallsAreNew ==
    ASSUME Turns, NEW t \in Threads, t \notin mislaid, segment[t].at # "none", NEW i \in Unanswered(segment[t].state)
    PROVE  Call(t, segment[t].state, i) \notin settled
<1> DEFINE s == segment[t].state
           c == Call(t, s, i)
<1>1. c[1] = t /\ c[2] = s.reply /\ c[3] = i /\ s.reply \in Nat /\ s.answers[i] = "none"
  BY ThreadTypes DEF Call, Unanswered, Conversation
<1> HIDE DEF c
<1>2. ~Ahead(s, c)
  BY <1>1 DEF Ahead
<1>3. c \notin settled
  BY <1>1, <1>2, ThreadTypes DEF Known
<1> QED
  BY <1>3 DEF c

LEMMA EffectsSpare ==
    ASSUME Turns, NEW calls, Effects(calls), NEW c \in settled, c \notin calls
    PROVE  ran'[c] = ran[c]
<1>1. c \in CallIds /\ ran[c] \in Nat
  BY DEF Turns, Books
<1> QED
  BY <1>1 DEF Effects

LEMMA PerformsSpare ==
    ASSUME Turns, NEW t \in Threads, segment[t].at # "none", NEW i \in Unanswered(segment[t].state),
           Nothing \/ Performs(t, segment[t].state, i), NEW c \in settled, c[1] \notin mislaid
    PROVE  ran'[c] = ran[c]
<1>1. CASE Nothing
  BY <1>1 DEF Nothing
<1>2. CASE Performs(t, segment[t].state, i)
  <2> DEFINE calls == {Call(t, segment[t].state, i)} \ denied
  <2>1. Effects(calls) /\ c \notin calls
    <3>1. t \notin mislaid => Call(t, segment[t].state, i) # c
      BY OpenCallsAreNew
    <3>2. Call(t, segment[t].state, i)[1] = t
      BY DEF Call
    <3> QED
      BY <1>2, <3>1, <3>2 DEF Performs
  <2> HIDE DEF calls
  <2> QED
    BY <2>1, EffectsSpare
<1> QED
  BY <1>1, <1>2

\* What waits in a batch is unanswered.
LEMMA WaitingIsOpen ==
    ASSUME Turns, NEW t \in Threads, NEW i, InBatch(t, i)
    PROVE  segment[t].at # "none" /\ Waiting(t) \subseteq Unanswered(segment[t].state) /\ i \in Waiting(t)
<1>1. segment[t].at = "tools" /\ segment[t].batch /\ i \in Waiting(t)
  BY DEF InBatch
<1>2. segment[t].results \in Seq(Answers) /\ segment[t].state.answers \in Seq(Answers)
  BY ThreadTypes DEF Conversation
<1>3. /\ Len(segment[t].results) = Len(segment[t].state.answers)
      /\ \A j \in DOMAIN segment[t].state.answers : segment[t].state.answers[j] = "none"
  BY <1>1, ThreadTypes DEF Shape
<1>4. DOMAIN segment[t].results = DOMAIN segment[t].state.answers
  BY <1>2, <1>3, LenProperties
<1> QED
  BY <1>1, <1>3, <1>4 DEF Waiting, Unanswered

\* The calls of a batch that take effect while it is interrupted are plain and were waiting.
LEMMA InterruptsEffects ==
    ASSUME NEW t, NEW i, Interrupts(t, i)
    PROVE  \E done \in SUBSET {j \in Waiting(t) \ {i} : KindOf(Call(t, segment[t].state, j)) = "plain"} :
              Effects({Call(t, segment[t].state, j) : j \in done})
<1>1. PICK reached \in SUBSET (Waiting(t) \ {i}) :
          Effects({Call(t, segment[t].state, j) :
                      j \in {k \in reached : KindOf(Call(t, segment[t].state, k)) = "plain"}})
  BY DEF Interrupts
<1>2. {k \in reached : KindOf(Call(t, segment[t].state, k)) = "plain"}
         \in SUBSET {j \in Waiting(t) \ {i} : KindOf(Call(t, segment[t].state, j)) = "plain"}
  OBVIOUS
<1> QED
  BY <1>1, <1>2

LEMMA StepSpares ==
    ASSUME Turns, NEW t \in Threads, Step(t), NEW c \in settled, c[1] \notin mislaid
    PROVE  ran'[c] = ran[c]
<1>1. CASE UNCHANGED ran
  BY <1>1
<1>2. CASE Fold(t) \/ HookRaises(t)
  <2>1. segment[t].at # "none"
    BY <1>2 DEF Fold, HookRaises
  <2>2. \/ Nothing
        \/ \E i \in Unanswered(segment[t].state) : Performs(t, segment[t].state, i)
    BY <1>2 DEF Fold, HookRaises, Dangling, First, Asks
  <2>3. CASE Nothing
    BY <2>3 DEF Nothing
  <2> QED
    BY <2>1, <2>2, <2>3, PerformsSpare
<1>3. CASE InOrder(t)
  <2>1. segment[t].at # "none"
    BY <1>3 DEF InOrder
  <2>2. \E i \in Unanswered(segment[t].state) : Nothing \/ Performs(t, segment[t].state, i)
    BY <1>3 DEF InOrder, First
  <2> QED
    BY <2>1, <2>2, PerformsSpare
<1>4. ASSUME NEW i, Executes(t, i)
      PROVE  ran'[c] = ran[c]
  BY <1>4, WaitingIsOpen, PerformsSpare DEF Executes
<1>5. ASSUME NEW i, Interrupts(t, i)
      PROVE  ran'[c] = ran[c]
  <2>1. PICK done \in SUBSET Waiting(t) : Effects({Call(t, segment[t].state, j) : j \in done})
    BY <1>5, InterruptsEffects
  <2> DEFINE calls == {Call(t, segment[t].state, j) : j \in done}
  <2>2. c \notin calls
    <3>1. segment[t].at # "none" /\ done \subseteq Unanswered(segment[t].state)
      BY <1>5, WaitingIsOpen DEF Interrupts
    <3>2. t \notin mislaid => \A j \in done : Call(t, segment[t].state, j) # c
      BY <3>1, OpenCallsAreNew
    <3>3. \A j \in done : Call(t, segment[t].state, j)[1] = t
      BY DEF Call
    <3> QED
      BY <3>2, <3>3
  <2>3. Effects(calls)
    BY <2>1
  <2> HIDE DEF calls
  <2> QED
    BY <2>2, <2>3, EffectsSpare
<1>6. \/ UNCHANGED ran \/ Fold(t) \/ HookRaises(t) \/ InOrder(t)
      \/ \E i : Executes(t, i) \/ Interrupts(t, i)
  BY DEF Step, Run, FailsToRun, Resume, ContinueTurn, Starts, HeldAgain, Top, Answer, Reply, Stays,
         FoldBatch, AllInOrder, IterationEnds, Fails, Pause, PauseFails, PauseMislaid, Clear, EndRun, Cancel, Signalled
<1> QED
  BY <1>1, <1>2, <1>3, <1>4, <1>5, <1>6

\* A call that a checkpoint has an answer to does not take effect again, through any
\* sequence of resumes, continued turns, crashes and batches.
THEOREM SettledAlwaysStaySettled == Spec => SettledCallsStaySettled
<1>1. Turns /\ [Next]_turnVars =>
          [\A c \in settled : c[1] \notin mislaid => ran'[c] = ran[c]]_turnVars
  <2> SUFFICES ASSUME Turns, Next, NEW c \in settled, c[1] \notin mislaid
               PROVE  ran'[c] = ran[c]
    OBVIOUS
  <2>1. CASE CancelAll \/ Crash \/ Decide
    BY <2>1 DEF CancelAll, Signalled, Crash, Decide
  <2> QED
    BY <2>1, StepSpares DEF Next
<1> QED
  BY <1>1, TurnsInvariant, PTL DEF Spec, SettledCallsStaySettled

\* The step of a thread leaves the run of another where it is.
LEMMA StepIsItsOwn ==
    ASSUME Turns, NEW t \in Threads, Step(t), NEW u \in Threads \ {t}
    PROVE  segment'[u].at = segment[u].at
<1>1. segment \in [Threads -> Segment]
  BY DEF Turns, Tables
<1>2. (\E seg : Goes(t, seg)) \/ UNCHANGED segment \/ Signalled({t})
  BY DEF Step, Run, FailsToRun, Resume, ContinueTurn, Starts, HeldAgain, HookRaises, Top, Answer, Reply,
         Fold, Answered, InOrder, Executes, Interrupts, Parks, At, Stops,
         FoldBatch, AllInOrder, IterationEnds, Fails, Pause, PauseFails, PauseMislaid, Clear, EndRun, Cancel
<1>3. ASSUME NEW seg, Goes(t, seg)
      PROVE  segment'[u].at = segment[u].at
  BY <1>1, <1>3 DEF Goes
<1>4. CASE Signalled({t})
  BY <1>1, <1>4 DEF Signalled
<1> QED
  BY <1>2, <1>3, <1>4

\* A run that was cancelled in progress does not ask the model again, whatever other runs
\* begin or end in between and clear the shared signal.
THEOREM CancelledAlwaysStop == Spec => CancelledRunsStop
<1>1. Turns /\ [Next]_turnVars =>
          [\A t \in told : segment[t].at = "loop" => segment'[t].at # "model"]_turnVars
  <2> SUFFICES ASSUME Turns, Next, NEW t \in told, segment[t].at = "loop"
               PROVE  segment'[t].at # "model"
    OBVIOUS
  <2>1. t \in Threads /\ segment[t].cancel /\ segment \in [Threads -> Segment]
    BY ThreadTypes DEF Turns, Tables
  <2>2. CASE Step(t)
    <3>1. Top(t) \/ Cancel(t)
      BY <2>2 DEF Step, Run, FailsToRun, Resume, ContinueTurn, Starts, HeldAgain, HookRaises, Answer, Reply,
                  Fold, InOrder, Executes, Interrupts, InBatch, FoldBatch, AllInOrder, Fails, Pause, PauseFails,
                  PauseMislaid, Clear, EndRun
    <3>2. CASE Top(t)
      <4>1. Goes(t, [segment[t] EXCEPT !.at = "stopped", !.results = << >>])
        BY <3>2, <2>1 DEF Top, Stops, Cancelled
      <4> QED
        BY <4>1, <2>1 DEF Goes, Segment
    <3>3. CASE Cancel(t)
      BY <3>3, <2>1 DEF Cancel, Signalled, Segment
    <3> QED
      BY <3>1, <3>2, <3>3
  <2>3. ASSUME NEW u \in Threads \ {t}, Step(u)
        PROVE  segment'[t].at # "model"
    BY <2>1, <2>3, StepIsItsOwn
  <2>4. CASE CancelAll
    BY <2>4, <2>1 DEF CancelAll, Signalled, Segment
  <2>5. CASE Crash \/ Decide
    BY <2>5, <2>1, NoRun DEF Crash, Decide
  <2> QED
    BY <2>1, <2>2, <2>3, <2>4, <2>5 DEF Next
<1> QED
  BY <1>1, TurnsInvariant, PTL DEF Spec, CancelledRunsStop

(***************************************************************************)
(* No call takes effect twice                                              *)
(***************************************************************************)

Issued(rep, c) == c[2] \in DOMAIN rep /\ c[3] \in DOMAIN rep[c[2]]

\* No later call of its reply can be held.
Last(rep, c) == \A j \in DOMAIN rep[c[2]] : j > c[3] => rep[c[2]][j] = "plain"

\* A conversation with an open call that was held, or with none.
Open(rep, s) == Unanswered(s) = {} \/ \E k \in Unanswered(s) : rep[s.reply][k] # "plain"

\* A run still has to execute c.
Pending(seg, c) ==
    /\ seg.at = "tools" /\ seg.state.reply = c[2]
    /\ IF seg.batch THEN seg.results[c[3]] = "none" ELSE seg.state.answers[c[3]] = "none"

\* A pause in memory has an open call that was held, or none that is open; so has the
\* checkpoint of a caller that has a pause to answer, and what an answer is folded into.
Asking(t, rep, ask, cp, pk, seg) ==
    /\ ask # None /\ cp # None => Open(rep, cp)
    /\ pk # None => Open(rep, pk)
    /\ seg.at \in {"folding", "pausing", "paused"} => Open(rep, seg.state)
    /\ seg.at = "ending" /\ ask # None => Open(rep, seg.state)
    /\ seg.at = "stopped" => ask = None

\* An approved call has not run, and a plain one has not that a run has still to execute.
Counts(c, rep, seg, n, ok) ==
    /\ n > 0 => Issued(rep, c)
    /\ ok => Issued(rep, c) /\ rep[c[2]][c[3]] = "gated" /\ n = 0
    /\ Issued(rep, c) /\ Last(rep, c) =>
          n <= 1 /\ (rep[c[2]][c[3]] = "plain" /\ Pending(seg, c) => n = 0)

OnceOK(t) ==
    /\ Asking(t, replied[t], asked[t], checkpoint[t], parked[t], segment[t])
    /\ \A c \in CallIds : c[1] = t => Counts(c, replied[t], segment[t], ran[c], c \in approved)
Once == \A t \in Threads : OnceOK(t)

\* What the approval store was asked about is a gated call of a reply there was.
Register == \A c \in filed : Issued(replied[c[1]], c) /\ KindOf(c) = "gated"

\* The call of an open place is one the model issued, of a kind it has.
LEMMA OpenCall ==
    ASSUME Turns, NEW t \in Threads, NEW i \in Unanswered(segment[t].state)
    PROVE  LET c == Call(t, segment[t].state, i)
           IN  /\ c \in CallIds /\ c[1] = t /\ c[2] = segment[t].state.reply /\ c[3] = i
               /\ Issued(replied[t], c) /\ KindOf(c) = replied[t][c[2]][c[3]] /\ KindOf(c) \in Kinds
<1> DEFINE s == segment[t].state
           c == Call(t, s, i)
           rep == replied[t]
<1>1. rep \in Seq(Batches) /\ Len(rep) <= MaxReplies[t] /\ WellFormed(rep, s) /\ i \in DOMAIN s.answers
  BY ThreadTypes DEF Shape, Unanswered
<1> HIDE DEF s, rep
<1>2. /\ c \in CallIds /\ c[1] = t /\ c[2] = s.reply /\ c[3] = i
      /\ c[2] \in 1 .. Len(rep) /\ c[3] \in 1 .. Len(rep[c[2]])
  BY <1>1, CallsOfAReply
<1> HIDE DEF c
<1>3. DOMAIN rep = 1 .. Len(rep) /\ rep[c[2]] \in Batches
  BY <1>1, <1>2, LenProperties, ElementOfSeq
<1>4. rep[c[2]] \in Seq(Kinds)
  BY <1>3, TurnsAssumption
<1>5. DOMAIN rep[c[2]] = 1 .. Len(rep[c[2]]) /\ rep[c[2]][c[3]] \in Kinds
  BY <1>2, <1>4, LenProperties, ElementOfSeq
<1>6. Issued(rep, c)
  BY <1>2, <1>3, <1>5 DEF Issued
<1> QED
  BY <1>2, <1>5, <1>6 DEF s, c, rep, KindOf

\* A step that executes nothing, saves nothing and asks nobody.
LEMMA QuietOnce ==
    ASSUME Turns, Once, NEW t \in Threads, UNCHANGED <<checkpoint, replied, approved, ran>>,
           parked'[t] \in {None, parked[t], segment[t].state},
           parked'[t] = segment[t].state => parked[t] = segment[t].state \/ Open(replied[t], segment[t].state),
           NEW seg, segment'[t] = seg, \A c : Pending(seg, c) => Pending(segment[t], c),
           asked'[t] = asked[t] \/ asked'[t] = None,
           seg.at \in {"folding", "pausing", "paused"} => Open(replied[t], seg.state),
           seg.at = "ending" /\ asked'[t] # None => Open(replied[t], seg.state),
           seg.at = "stopped" => asked'[t] = None
    PROVE  OnceOK(t)'
<1>1. OnceOK(t)
  BY DEF Once
<1>2. Asking(t, replied'[t], asked'[t], checkpoint'[t], parked'[t], segment'[t])
  BY <1>1 DEF OnceOK, Asking
<1>3. ASSUME NEW c \in CallIds, c[1] = t
      PROVE  Counts(c, replied'[t], segment'[t], ran'[c], c \in approved')
  BY <1>1, <1>3 DEF OnceOK, Counts
<1> QED
  BY <1>2, <1>3 DEF OnceOK

\* The same, for a run that does not come to execute calls by it.
LEMMA MovesOnce ==
    ASSUME Turns, Once, NEW t \in Threads, UNCHANGED <<checkpoint, replied, approved, ran>>,
           parked'[t] \in {None, parked[t]},
           NEW seg, segment' = [segment EXCEPT ![t] = seg],
           seg.at \in {"none", "loop", "model", "stopped", "folding"},
           asked' = asked \/ asked' = [asked EXCEPT ![t] = None],
           seg.at = "stopped" => asked'[t] = None,
           seg.at = "folding" => Open(replied[t], seg.state)
    PROVE  OnceOK(t)'
<1>1. segment'[t] = seg /\ (asked'[t] = asked[t] \/ asked'[t] = None)
  BY DEF Turns, Tables, Books
<1>2. \A c : ~Pending(seg, c)
  BY DEF Pending
<1>3. parked'[t] = segment[t].state => parked[t] = segment[t].state \/ Open(replied[t], segment[t].state)
  <2>1. segment[t].state # None
    BY ThreadTypes, TurnsAssumption
  <2> QED
    BY <2>1
<1> QED
  BY <1>1, <1>2, <1>3, QuietOnce

LEMMA BeginsOnce ==
    ASSUME Turns, Once, NEW t \in Threads,
           Run(t) \/ FailsToRun(t) \/ (\E perform \in BOOLEAN : Resume(t, perform)) \/ ContinueTurn(t)
    PROVE  OnceOK(t)'
<1>1. segment[t] \in Segment /\ segment \in [Threads -> Segment] /\ asked \in [Threads -> CallIds \cup {None}]
  BY ThreadTypes DEF Turns, Tables, Books
<1>2. parked'[t] \in {None, parked[t]}
  BY DEF Run, FailsToRun, Resume, ContinueTurn, Turns, Tables
<1>3. ASSUME NEW stage \in {"loop", "folding"}, NEW s, NEW batch, NEW perform, Starts(t, stage, s, batch, perform),
             asked' = asked \/ asked' = [asked EXCEPT ![t] = None],
             stage = "folding" => Open(replied[t], s)
      PROVE  OnceOK(t)'
  <2> DEFINE seg == [NoSegment EXCEPT !.at = stage, !.state = s, !.batch = batch, !.perform = perform]
  <2>1. seg.at = stage /\ seg.state = s
    BY DEF NoSegment
  <2>2. segment' = [segment EXCEPT ![t] = seg] /\ UNCHANGED <<checkpoint, replied, approved, ran>>
    BY <1>3 DEF Starts, Goes
  <2> HIDE DEF seg
  <2> QED
    BY <1>2, <1>3, <2>1, <2>2, MovesOnce
<1>4. CASE Run(t)
  BY <1>3, <1>4 DEF Run
<1>5. CASE ContinueTurn(t)
  BY <1>3, <1>5 DEF ContinueTurn
<1>6. CASE \E perform \in BOOLEAN : Resume(t, perform)
  <2> DEFINE s == IF parked[t] # None THEN parked[t] ELSE checkpoint[t]
  <2>1. PICK perform \in BOOLEAN : Starts(t, "folding", s, FALSE, perform) /\ asked' = asked
    BY <1>6 DEF Resume
  <2>2. Open(replied[t], s)
    BY <1>6 DEF Resume, Once, OnceOK, Asking
  <2> HIDE DEF s
  <2> QED
    BY <1>3, <2>1, <2>2
<1>7. CASE FailsToRun(t)
  <2>1. segment' = [segment EXCEPT ![t] = segment[t]] /\ segment[t].at = "none"
    BY <1>1, <1>7 DEF FailsToRun
  <2> QED
    BY <1>2, <1>7, <2>1, MovesOnce DEF FailsToRun
<1> QED
  BY <1>4, <1>5, <1>6, <1>7

LEMMA HeldAgainOnce == ASSUME Turns, Once, NEW t \in Threads, HeldAgain(t) PROVE OnceOK(t)'
<1>1. /\ segment[t].at = "folding" /\ parked'[t] = segment[t].state /\ segment'[t] = NoSegment
      /\ UNCHANGED <<checkpoint, replied, approved, ran, asked>>
  BY DEF HeldAgain, Goes, Turns, Tables
<1>2. Open(replied[t], segment[t].state)
  BY <1>1 DEF Once, OnceOK, Asking
<1>3. \A c : ~Pending(NoSegment, c)
  BY NoRun DEF Pending
<1> QED
  BY <1>1, <1>2, <1>3, NoRun, QuietOnce

LEMMA LoopOnce ==
    ASSUME Turns, Once, NEW t \in Threads, Top(t) \/ Answer(t) \/ Fails(t)
    PROVE  OnceOK(t)'
<1>1. segment[t] \in Segment /\ asked \in [Threads -> CallIds \cup {None}]
  BY ThreadTypes DEF Turns, Books
<1>2. UNCHANGED <<checkpoint, parked, replied, approved, ran>>
  BY DEF Top, Answer, Fails, Stays
<1>3. CASE Stops(t)
  <2> DEFINE seg == [segment[t] EXCEPT !.at = "stopped", !.results = << >>]
  <2>1. seg.at = "stopped"
    BY <1>1 DEF Segment
  <2>2. segment' = [segment EXCEPT ![t] = seg] /\ asked' = [asked EXCEPT ![t] = None]
    BY <1>3 DEF Stops, Goes
  <2> HIDE DEF seg
  <2>3. asked'[t] = None
    BY <1>1, <2>2
  <2> QED
    BY <1>2, <2>1, <2>2, <2>3, MovesOnce
<1>4. ASSUME NEW stage \in {"loop", "model"}, At(t, stage), UNCHANGED asked
      PROVE  OnceOK(t)'
  <2> DEFINE seg == [segment[t] EXCEPT !.at = stage]
  <2>1. seg.at = stage
    BY <1>1 DEF Segment
  <2>2. segment' = [segment EXCEPT ![t] = seg]
    BY <1>4 DEF At, Goes
  <2> HIDE DEF seg
  <2> QED
    BY <1>2, <1>4, <2>1, <2>2, MovesOnce
<1>5. ASSUME Goes(t, [segment[t] EXCEPT !.at = "stopped", !.state.over = TRUE]), asked' = [asked EXCEPT ![t] = None]
      PROVE  OnceOK(t)'
  <2> DEFINE seg == [segment[t] EXCEPT !.at = "stopped", !.state.over = TRUE]
  <2>1. seg.at = "stopped"
    BY <1>1 DEF Segment
  <2>2. segment' = [segment EXCEPT ![t] = seg] /\ asked'[t] = None
    BY <1>1, <1>5 DEF Goes
  <2> HIDE DEF seg
  <2> QED
    BY <1>2, <1>5, <2>1, <2>2, MovesOnce
<1> QED
  BY <1>3, <1>4, <1>5 DEF Top, Answer, Fails

\* A step that saves s or fails to, of a run that does not come to execute calls by it.
LEMMA SavesOnce ==
    ASSUME Turns, Once, NEW t \in Threads, NEW s, MaySave(t, s),
           UNCHANGED <<parked, replied, approved, ran>>,
           NEW seg, segment'[t] = seg, seg.at \in {"none", "loop", "tools", "paused", "stopped"},
           \A c \in CallIds : c[1] = t /\ Issued(replied[t], c) => ~Pending(seg, c),
           asked'[t] # None => Open(replied[t], s),
           asked'[t] # None => asked[t] # None \/ Saved(t, s),
           seg.at = "stopped" => asked'[t] = None,
           seg.at = "paused" => Open(replied[t], seg.state)
    PROVE  OnceOK(t)'
<1>1. OnceOK(t) /\ (checkpoint'[t] = s \/ (checkpoint' = checkpoint /\ ~Saved(t, s)))
  BY DEF Once, Turns, Tables, MaySave, Saved
<1>2. Asking(t, replied'[t], asked'[t], checkpoint'[t], parked'[t], segment'[t])
  BY <1>1 DEF OnceOK, Asking
<1>3. ASSUME NEW c \in CallIds, c[1] = t
      PROVE  Counts(c, replied'[t], segment'[t], ran'[c], c \in approved')
  BY <1>1, <1>3 DEF OnceOK, Counts
<1> QED
  BY <1>2, <1>3 DEF OnceOK

LEMMA IterationOnce ==
    ASSUME Turns, Once, NEW t \in Threads, FoldBatch(t) \/ AllInOrder(t)
    PROVE  OnceOK(t)'
<1>1. /\ segment[t] \in Segment /\ segment[t].state \in Conversation /\ segment \in [Threads -> Segment]
      /\ segment[t].results \in Seq(Answers) /\ asked \in [Threads -> CallIds \cup {None}]
  BY ThreadTypes DEF Turns, Tables, Books
<1>2. PICK s : IterationEnds(t, s) /\ Unanswered(s) = {}
  <2>1. CASE AllInOrder(t)
    BY <2>1 DEF AllInOrder
  <2>2. CASE FoldBatch(t)
    <3> DEFINE s == [segment[t].state EXCEPT !.answers = segment[t].results]
    <3>1. s.answers = segment[t].results
      BY <1>1 DEF Conversation
    <3>2. Unanswered(s) = Waiting(t)
      BY <3>1 DEF Unanswered, Waiting
    <3> QED
      BY <2>2, <3>2 DEF FoldBatch
  <2> QED
    BY <2>1, <2>2
<1>3. PICK at \in {"loop", "stopped"} :
          /\ Goes(t, [segment[t] EXCEPT !.at = at, !.state = s, !.results = << >>])
          /\ asked' = IF at = "stopped" THEN [asked EXCEPT ![t] = None] ELSE asked
  BY <1>2 DEF IterationEnds
<1> DEFINE seg == [segment[t] EXCEPT !.at = at, !.state = s, !.results = << >>]
<1>4. seg.at = at /\ segment'[t] = seg
  BY <1>1, <1>3 DEF Segment, Goes
<1> HIDE DEF seg
<1>5. MaySave(t, s) /\ UNCHANGED <<parked, replied, approved, ran>>
  BY <1>2 DEF IterationEnds
<1>6. \A c : ~Pending(seg, c)
  BY <1>4 DEF Pending
<1>7. (asked'[t] = asked[t] \/ asked'[t] = None) /\ (at = "stopped" => asked'[t] = None)
  BY <1>1, <1>3
<1> QED
  BY <1>2, <1>4, <1>5, <1>6, <1>7, SavesOnce DEF Open

LEMMA PauseOnce == ASSUME Turns, Once, NEW t \in Threads, Pause(t) PROVE OnceOK(t)'
<1> DEFINE s == segment[t].state
           seg == [segment[t] EXCEPT !.at = "paused", !.results = << >>]
<1>1. segment[t] \in Segment /\ segment \in [Threads -> Segment]
  BY ThreadTypes DEF Turns, Tables
<1>2. /\ segment[t].at = "pausing" /\ Saved(t, s) /\ MaySave(t, s)
      /\ segment' = [segment EXCEPT ![t] = seg] /\ UNCHANGED <<parked, replied, approved, ran>>
  BY DEF Pause, MaySave, Goes
<1>3. seg.at = "paused" /\ seg.state = s /\ segment'[t] = seg
  BY <1>1, <1>2 DEF Segment
<1>4. Open(replied[t], s)
  BY <1>2 DEF Once, OnceOK, Asking
<1> HIDE DEF s, seg
<1>5. \A c : ~Pending(seg, c)
  BY <1>3 DEF Pending
<1> QED
  BY <1>2, <1>3, <1>4, <1>5, SavesOnce

LEMMA PauseFailsOnce == ASSUME Turns, Once, NEW t \in Threads, PauseFails(t) PROVE OnceOK(t)'
<1> DEFINE seg == [segment[t] EXCEPT !.at = "stopped", !.results = << >>]
<1>1. segment[t] \in Segment /\ segment \in [Threads -> Segment] /\ asked \in [Threads -> CallIds \cup {None}]
  BY ThreadTypes DEF Turns, Tables, Books
<1>2. /\ MaySave(t, segment[t].state) /\ segment' = [segment EXCEPT ![t] = seg]
      /\ asked' = [asked EXCEPT ![t] = None] /\ UNCHANGED <<parked, replied, approved, ran>>
  BY DEF PauseFails, Stops, Goes
<1>3. seg.at = "stopped" /\ segment'[t] = seg /\ asked'[t] = None
  BY <1>1, <1>2 DEF Segment
<1> HIDE DEF seg
<1>4. \A c : ~Pending(seg, c)
  BY <1>3 DEF Pending
<1> QED
  BY <1>2, <1>3, <1>4, SavesOnce

\* A run that goes on although it is paused has no call of its reply left to execute.
LEMMA PauseMislaidOnce == ASSUME Turns, Once, NEW t \in Threads, PauseMislaid(t) PROVE OnceOK(t)'
<1> DEFINE s == segment[t].state
           seg == [segment[t] EXCEPT !.at = "tools"]
<1>1. segment[t] \in Segment /\ segment \in [Threads -> Segment] /\ segment[t].results \in Seq(Answers)
  BY ThreadTypes DEF Turns, Tables
<1>2. /\ segment[t].at = "pausing" /\ segment[t].batch /\ MaySave(t, s)
      /\ segment' = [segment EXCEPT ![t] = seg] /\ UNCHANGED <<asked, parked, replied, approved, ran>>
  BY DEF PauseMislaid, At, Goes
<1>3. /\ seg.at = "tools" /\ seg.state = s /\ seg.batch /\ seg.results = segment[t].results
      /\ segment'[t] = seg
  BY <1>1, <1>2 DEF Segment
<1>4. Open(replied[t], s)
  BY <1>2 DEF Once, OnceOK, Asking
<1>5. /\ s.reply # 0 /\ WellFormed(replied[t], s) /\ s.answers \in Seq(Answers)
      /\ Len(segment[t].results) = Len(s.answers)
      /\ \A i \in DOMAIN segment[t].results : segment[t].results[i] # "none"
      /\ replied[t] \in Seq(Batches)
  BY <1>2, ThreadTypes DEF Shape, Conversation
<1> HIDE DEF s, seg
<1>6. ASSUME NEW c \in CallIds, Issued(replied[t], c), s.reply = c[2]
      PROVE  c[3] \in DOMAIN segment[t].results
  <2>1. c[2] \in 1 .. Len(replied[t])
    BY <1>5, <1>6, LenProperties DEF Issued
  <2>2. replied[t][c[2]] \in Seq(Kinds)
    BY <1>5, <2>1, ElementOfSeq, TurnsAssumption
  <2>3. c[3] \in 1 .. Len(replied[t][c[2]])
    BY <1>6, <2>2, LenProperties DEF Issued
  <2>4. Len(s.answers) = Len(replied[t][c[2]])
    BY <1>5, <1>6 DEF WellFormed
  <2> QED
    BY <1>1, <1>5, <2>3, <2>4, LenProperties
<1>7. \A c \in CallIds : c[1] = t /\ Issued(replied[t], c) => ~Pending(seg, c)
  BY <1>3, <1>5, <1>6 DEF Pending
<1> QED
  BY <1>2, <1>3, <1>4, <1>7, SavesOnce

LEMMA ClearOnce == ASSUME Turns, Once, NEW t \in Threads, Clear(t) PROVE OnceOK(t)'
<1> DEFINE seg == [segment[t] EXCEPT !.at = "ending"]
<1>1. segment[t] \in Segment /\ segment \in [Threads -> Segment]
  BY ThreadTypes DEF Turns, Tables
<1>2. /\ segment[t].at \in {"stopped", "paused"} /\ segment' = [segment EXCEPT ![t] = seg]
      /\ UNCHANGED <<checkpoint, parked, replied, approved, ran, asked>>
  BY DEF Clear, At, Goes
<1>3. seg.at = "ending" /\ seg.state = segment[t].state /\ segment'[t] = seg
  BY <1>1, <1>2 DEF Segment
<1> HIDE DEF seg
<1>4. asked[t] # None => Open(replied[t], seg.state)
  BY <1>2, <1>3 DEF Once, OnceOK, Asking
<1>5. \A c : ~Pending(seg, c)
  BY <1>3 DEF Pending
<1> QED
  BY <1>2, <1>3, <1>4, <1>5, QuietOnce

LEMMA EndRunOnce == ASSUME Turns, Once, NEW t \in Threads, EndRun(t) PROVE OnceOK(t)'
<1>1. /\ segment[t].at = "ending" /\ MaySave(t, segment[t].state) /\ segment'[t] = NoSegment
      /\ UNCHANGED <<parked, replied, approved, ran, asked>>
  BY DEF EndRun, Goes, Turns, Tables
<1>2. asked[t] # None => Open(replied[t], segment[t].state)
  BY <1>1 DEF Once, OnceOK, Asking
<1>3. \A c : ~Pending(NoSegment, c)
  BY NoRun DEF Pending
<1> QED
  BY <1>1, <1>2, <1>3, NoRun, SavesOnce

(***************************************************************************)
(* Effects                                                                 *)
(***************************************************************************)

\* Calls take effect that were approved, that the run was still to execute, or whose
\* results are forgotten with a pause.
LEMMA EffectsOnce ==
    ASSUME Turns, Once, NEW t \in Threads, UNCHANGED <<replied, checkpoint, asked>>,
           NEW calls, Effects(calls), approved' \subseteq approved,
           NEW seg, segment'[t] = seg, \A c : Pending(seg, c) => Pending(segment[t], c),
           parked'[t] = parked[t] \/ Open(replied[t], parked'[t]),
           seg.at \in {"none", "loop", "tools", "pausing"}, seg.at = "pausing" => Open(replied[t], seg.state),
           \A c \in calls :
              /\ c \notin approved' /\ Issued(replied[t], c)
              /\ c \in approved \/ replied[t][c[2]][c[3]] = "plain"
              /\ replied[t][c[2]][c[3]] = "plain" /\ Last(replied[t], c) =>
                    Pending(segment[t], c) /\ ~Pending(seg, c)
    PROVE  OnceOK(t)'
<1>1. OnceOK(t) /\ ran \in [CallIds -> Nat]
  BY DEF Once, Turns, Books
<1>2. Asking(t, replied'[t], asked'[t], checkpoint'[t], parked'[t], segment'[t])
  BY <1>1 DEF OnceOK, Asking
<1>3. ASSUME NEW c \in CallIds, c[1] = t
      PROVE  Counts(c, replied'[t], segment'[t], ran'[c], c \in approved')
  <2>1. Counts(c, replied[t], segment[t], ran[c], c \in approved) /\ ran[c] \in Nat
    BY <1>1, <1>3 DEF OnceOK
  <2>2. CASE c \in calls
    <3>1. ran'[c] = ran[c] + 1
      BY <2>2 DEF Effects
    <3>2. c \notin approved' /\ Issued(replied[t], c)
      BY <2>2
    <3>3. CASE c \in approved
      BY <2>1, <3>1, <3>2, <3>3 DEF Counts
    <3>4. CASE replied[t][c[2]][c[3]] = "plain"
      BY <2>1, <2>2, <3>1, <3>2, <3>4 DEF Counts
    <3> QED
      BY <2>2, <3>3, <3>4
  <2>3. CASE c \notin calls
    <3>1. ran'[c] = ran[c]
      BY <2>1, <2>3 DEF Effects
    <3> QED
      BY <2>1, <3>1 DEF Counts
  <2> QED
    BY <2>2, <2>3
<1> QED
  BY <1>2, <1>3 DEF OnceOK

\* The same, of one call.
LEMMA PerformsOnce ==
    ASSUME Turns, Once, NEW t \in Threads, UNCHANGED <<replied, checkpoint, parked, asked>>,
           NEW i \in Unanswered(segment[t].state), Performs(t, segment[t].state, i),
           NEW seg, segment'[t] = seg, \A c : Pending(seg, c) => Pending(segment[t], c),
           seg.at \in {"none", "loop", "tools"},
           LET c == Call(t, segment[t].state, i)
           IN  replied[t][c[2]][c[3]] = "plain" /\ Last(replied[t], c) => Pending(segment[t], c) /\ ~Pending(seg, c)
    PROVE  OnceOK(t)'
<1> DEFINE c == Call(t, segment[t].state, i)
<1>1. /\ c \in CallIds /\ Issued(replied[t], c) /\ c[1] = t
      /\ KindOf(c) = replied[t][c[2]][c[3]] /\ KindOf(c) \in Kinds
  BY OpenCall
<1>2. approved' = approved \ {c} /\ Effects({c} \ denied)
  BY DEF Performs
<1>3. KindOf(c) # "ask" /\ (KindOf(c) = "gated" => c \in approved \cup denied)
  BY DEF Performs, Held
<1>4. replied[t][c[2]][c[3]] = "plain" /\ Last(replied[t], c) => Pending(segment[t], c) /\ ~Pending(seg, c)
  OBVIOUS
<1> HIDE DEF c
<1>5. \A d \in {c} \ denied :
         /\ d \notin approved' /\ Issued(replied[t], d)
         /\ d \in approved \/ replied[t][d[2]][d[3]] = "plain"
         /\ replied[t][d[2]][d[3]] = "plain" /\ Last(replied[t], d) =>
               Pending(segment[t], d) /\ ~Pending(seg, d)
  BY <1>1, <1>2, <1>3, <1>4 DEF Kinds
<1>6. approved' \subseteq approved
  BY <1>2
<1> DEFINE calls == {c} \ denied
<1>7. Effects(calls)
  BY <1>2
<1> HIDE DEF calls
<1>8. \A d \in calls :
         /\ d \notin approved' /\ Issued(replied[t], d)
         /\ d \in approved \/ replied[t][d[2]][d[3]] = "plain"
         /\ replied[t][d[2]][d[3]] = "plain" /\ Last(replied[t], d) =>
               Pending(segment[t], d) /\ ~Pending(seg, d)
  BY <1>5 DEF calls
<1> QED
  BY <1>6, <1>7, <1>8, EffectsOnce

\* An answer that is performed goes to a call that was held, or to one before a held one.
LEMMA DanglingOnce ==
    ASSUME Turns, Once, NEW t \in Threads, segment[t].at = "folding",
           NEW i \in Dangling(t, segment[t].state), i \notin Asks(t, segment[t].state)
    PROVE  /\ i \in Unanswered(segment[t].state)
           /\ LET c == Call(t, segment[t].state, i)
              IN  ~(replied[t][c[2]][c[3]] = "plain" /\ Last(replied[t], c))
<1> DEFINE s == segment[t].state
           c == Call(t, s, i)
<1>1. Open(replied[t], s)
  BY DEF Once, OnceOK, Asking
<1>2. i \in Unanswered(s) /\ \A k \in Unanswered(s) : i <= k
  BY DEF Dangling, First
<1>3. PICK k \in Unanswered(s) : replied[t][s.reply][k] # "plain"
  BY <1>1, <1>2 DEF Open
<1>4. /\ c[2] = s.reply /\ c[3] = i /\ Issued(replied[t], Call(t, s, k))
      /\ Call(t, s, k)[2] = s.reply /\ Call(t, s, k)[3] = k
  BY <1>2, <1>3, OpenCall
<1>5. i <= k /\ k \in DOMAIN replied[t][s.reply] /\ i \in Nat /\ k \in Nat
  <2>1. s.answers \in Seq(Answers)
    BY ThreadTypes DEF Conversation
  <2>2. DOMAIN s.answers \subseteq Nat
    BY <2>1, LenProperties
  <2> QED
    BY <1>2, <1>4, <2>2 DEF Issued, Unanswered
<1> HIDE DEF s, c
<1>6. ASSUME replied[t][c[2]][c[3]] = "plain", Last(replied[t], c)
      PROVE  FALSE
  <2>1. k > c[3]
    BY <1>3, <1>4, <1>5, <1>6
  <2> QED
    BY <1>3, <1>4, <1>5, <1>6, <2>1 DEF Last
<1> QED
  BY <1>2, <1>6 DEF s, c

LEMMA FoldOnce == ASSUME Turns, Once, NEW t \in Threads, Fold(t) PROVE OnceOK(t)'
<1> DEFINE s == segment[t].state
<1>1. segment[t] \in Segment /\ s \in Conversation /\ segment \in [Threads -> Segment]
  BY ThreadTypes DEF Turns, Tables
<1>2. segment[t].at = "folding" /\ UNCHANGED <<checkpoint, parked, replied, asked>>
  BY DEF Fold
<1>3. ASSUME NEW seg, Goes(t, seg), seg.at = "loop", Nothing
      PROVE  OnceOK(t)'
  BY <1>2, <1>3, MovesOnce DEF Goes, Nothing
<1>4. [segment[t] EXCEPT !.at = "loop", !.perform = FALSE].at = "loop"
  BY <1>1 DEF Segment
<1>5. ASSUME NEW i, NEW a
      PROVE  [segment[t] EXCEPT !.at = "loop", !.perform = FALSE, !.state.answers[i] = a].at = "loop"
  BY <1>1 DEF Segment
<1>6. ASSUME NEW i \in Dangling(t, s), i \notin Asks(t, s), Performs(t, s, i), Answered(t, i, "result")
      PROVE  OnceOK(t)'
  <2> DEFINE seg == [segment[t] EXCEPT !.at = "loop", !.perform = FALSE, !.state.answers[i] = "result"]
  <2>1. seg.at = "loop"
    BY <1>5
  <2>2. segment'[t] = seg
    BY <1>1, <1>6 DEF Answered, Goes
  <2> HIDE DEF seg
  <2>3. \A c : ~Pending(seg, c)
    BY <2>1 DEF Pending
  <2>4. i \in Unanswered(s)
        /\ LET c == Call(t, s, i) IN ~(replied[t][c[2]][c[3]] = "plain" /\ Last(replied[t], c))
    BY <1>2, <1>6, DanglingOnce
  <2> QED
    BY <1>2, <1>6, <2>1, <2>2, <2>3, <2>4, PerformsOnce
<1>7. \/ Goes(t, [segment[t] EXCEPT !.at = "loop", !.perform = FALSE]) /\ Nothing
      \/ \E i \in Dangling(t, s) :
            \/ (Answered(t, i, "text") \/ Answered(t, i, "cancelled")) /\ Nothing
            \/ i \notin Asks(t, s) /\ Performs(t, s, i) /\ Answered(t, i, "result")
  BY DEF Fold
<1> QED
  BY <1>3, <1>4, <1>5, <1>6, <1>7 DEF Answered

LEMMA HookRaisesOnce == ASSUME Turns, Once, NEW t \in Threads, HookRaises(t) PROVE OnceOK(t)'
<1> DEFINE s == segment[t].state
<1>1. /\ segment[t].at = "folding" /\ segment' = [segment EXCEPT ![t] = NoSegment]
      /\ UNCHANGED <<checkpoint, parked, replied, asked>> /\ NoSegment.at = "none"
  BY NoRun DEF HookRaises, Goes
<1>2. CASE Nothing
  BY <1>1, <1>2, MovesOnce DEF Nothing
<1>3. ASSUME NEW i \in Dangling(t, s), Asks(t, s) = {}, Performs(t, s, i)
      PROVE  OnceOK(t)'
  <2>1. segment'[t] = NoSegment
    BY <1>1 DEF Turns, Tables
  <2>2. \A c : ~Pending(NoSegment, c)
    BY <1>1 DEF Pending
  <2>3. i \in Unanswered(s)
        /\ LET c == Call(t, s, i) IN ~(replied[t][c[2]][c[3]] = "plain" /\ Last(replied[t], c))
    BY <1>1, <1>3, DanglingOnce
  <2> QED
    BY <1>1, <1>3, <2>1, <2>2, <2>3, PerformsOnce
<1> QED
  BY <1>2, <1>3 DEF HookRaises

LEMMA ExecutesOnce == ASSUME Turns, Once, NEW t \in Threads, NEW i, Executes(t, i) PROVE OnceOK(t)'
<1> DEFINE s == segment[t].state
           c == Call(t, s, i)
<1>1. /\ segment[t] \in Segment /\ segment \in [Threads -> Segment] /\ segment[t].results \in Seq(Answers)
  BY ThreadTypes DEF Turns, Tables
<1>2. /\ InBatch(t, i) /\ UNCHANGED <<checkpoint, parked, replied, asked>>
      /\ segment[t].at = "tools" /\ segment[t].batch /\ i \in DOMAIN segment[t].results
      /\ segment[t].results[i] = "none"
  BY DEF Executes, InBatch, Waiting
<1>3. i \in Unanswered(s)
  BY <1>2, WaitingIsOpen
<1>4. c[2] = s.reply /\ c[3] = i
  BY <1>3, OpenCall
<1>5. ASSUME NEW a, a # "none", NEW seg, seg = [segment[t] EXCEPT !.results[i] = a]
      PROVE  /\ seg.at = "tools" /\ (\A d : Pending(seg, d) => Pending(segment[t], d))
             /\ Pending(segment[t], c) /\ ~Pending(seg, c)
  <2>1. /\ seg.at = "tools" /\ seg.state = s /\ seg.batch
        /\ seg.results = [segment[t].results EXCEPT ![i] = a]
    BY <1>1, <1>2, <1>5 DEF Segment
  <2>2. /\ seg.results[i] = a
        /\ \A j : j # i => seg.results[j] = segment[t].results[j]
    BY <1>2, <2>1
  <2> HIDE DEF c
  <2>3. \A d : Pending(seg, d) => Pending(segment[t], d)
    BY <1>2, <1>5, <2>1, <2>2 DEF Pending
  <2> QED
    BY <1>2, <1>4, <1>5, <2>1, <2>2, <2>3 DEF Pending
<1>6. CASE Performs(t, s, i) /\ Goes(t, [segment[t] EXCEPT !.results[i] = "result"])
  <2> DEFINE seg == [segment[t] EXCEPT !.results[i] = "result"]
  <2>1. segment'[t] = seg
    BY <1>1, <1>6 DEF Goes
  <2>2. /\ seg.at = "tools" /\ (\A d : Pending(seg, d) => Pending(segment[t], d))
        /\ Pending(segment[t], c) /\ ~Pending(seg, c)
    BY <1>5
  <2> HIDE DEF seg
  <2> QED
    BY <1>2, <1>3, <1>6, <2>1, <2>2, PerformsOnce
<1>7. CASE Nothing /\ Goes(t, [segment[t] EXCEPT !.results[i] = "cancelled"])
  <2> DEFINE seg == [segment[t] EXCEPT !.results[i] = "cancelled"]
  <2>1. segment'[t] = seg
    BY <1>1, <1>7 DEF Goes
  <2>2. seg.at = "tools" /\ (\A d : Pending(seg, d) => Pending(segment[t], d))
    BY <1>5
  <2> HIDE DEF seg
  <2> QED
    BY <1>2, <1>7, <2>1, <2>2, QuietOnce DEF Nothing
<1> QED
  BY <1>6, <1>7 DEF Executes

\* A run that is held at an open call has one that is not plain.
LEMMA ParksOnce ==
    ASSUME Turns, Once, NEW t \in Threads, NEW i \in Unanswered(segment[t].state),
           Held(t, segment[t].state, i), NEW results, Parks(t, i, results)
    PROVE  /\ segment'[t].at = "pausing" /\ segment'[t].state = segment[t].state
           /\ parked'[t] = segment[t].state /\ Open(replied[t], segment[t].state)
<1>1. segment[t] \in Segment /\ segment \in [Threads -> Segment] /\ parked \in [Threads -> Conversation \cup {None}]
  BY ThreadTypes DEF Turns, Tables
<1>2. segment'[t] = [segment[t] EXCEPT !.at = "pausing", !.pause = i, !.results = results]
  BY <1>1 DEF Parks, Goes
<1>3. /\ segment'[t].at = "pausing" /\ segment'[t].state = segment[t].state
      /\ parked'[t] = segment[t].state
  BY <1>1, <1>2 DEF Segment, Parks
<1>4. KindOf(Call(t, segment[t].state, i)) # "plain"
  BY DEF Held
<1>5. replied[t][segment[t].state.reply][i] # "plain"
  BY <1>4, OpenCall
<1> QED
  BY <1>3, <1>5 DEF Open

LEMMA InterruptsOnce == ASSUME Turns, Once, NEW t \in Threads, NEW i, Interrupts(t, i) PROVE OnceOK(t)'
<1> DEFINE s == segment[t].state
<1>1. PICK done \in SUBSET {j \in Waiting(t) \ {i} : KindOf(Call(t, s, j)) = "plain"} :
          Effects({Call(t, s, j) : j \in done})
  BY InterruptsEffects
<1> DEFINE calls == {Call(t, s, j) : j \in done}
<1>2. /\ InBatch(t, i) /\ Held(t, s, i) /\ (\E results : Parks(t, i, results)) /\ UNCHANGED <<checkpoint, replied, asked, approved>>
      /\ segment[t].at = "tools" /\ segment[t].batch
  BY DEF Interrupts, InBatch
<1>3. i \in Unanswered(s) /\ Waiting(t) \subseteq Unanswered(s)
  BY <1>2, WaitingIsOpen
<1>4. segment'[t].at = "pausing" /\ segment'[t].state = s /\ parked'[t] = s /\ Open(replied[t], s)
  BY <1>2, <1>3, ParksOnce
<1>5. \A c : ~Pending(segment'[t], c)
  BY <1>4 DEF Pending
<1>6. ASSUME NEW c \in calls
      PROVE  /\ c \notin approved' /\ Issued(replied[t], c)
             /\ replied[t][c[2]][c[3]] = "plain"
             /\ Pending(segment[t], c)
  <2>1. PICK j \in done : c = Call(t, s, j)
    OBVIOUS
  <2>2. j \in Waiting(t) /\ j \in Unanswered(s) /\ KindOf(c) = "plain"
    BY <1>3, <2>1
  <2>3. /\ c \in CallIds /\ c[1] = t /\ c[2] = s.reply /\ c[3] = j /\ Issued(replied[t], c)
        /\ KindOf(c) = replied[t][c[2]][c[3]]
    BY <2>1, <2>2, OpenCall
  <2>4. c \notin approved
    BY <2>2, <2>3 DEF Once, OnceOK, Counts
  <2>5. Pending(segment[t], c)
    BY <1>2, <2>2, <2>3 DEF Pending, Waiting
  <2> QED
    BY <1>2, <2>2, <2>3, <2>4, <2>5
<1>7. Effects(calls)
  BY <1>1
<1> HIDE DEF calls
<1> QED
  BY <1>2, <1>4, <1>5, <1>6, <1>7, EffectsOnce

LEMMA InOrderOnce == ASSUME Turns, Once, NEW t \in Threads, InOrder(t) PROVE OnceOK(t)'
<1> DEFINE s == segment[t].state
<1>1. /\ segment[t] \in Segment /\ segment \in [Threads -> Segment] /\ s \in Conversation
      /\ s.answers \in Seq(Answers)
  BY ThreadTypes DEF Turns, Tables, Conversation
<1>2. /\ segment[t].at = "tools" /\ ~segment[t].batch /\ UNCHANGED <<checkpoint, replied, asked>>
  BY DEF InOrder
<1>3. PICK i \in Unanswered(s) :
          \/ Performs(t, s, i) /\ Goes(t, [segment[t] EXCEPT !.state.answers[i] = "result"]) /\ UNCHANGED parked
          \/ Nothing /\ Goes(t, [segment[t] EXCEPT !.state.answers[i] = "cancelled"]) /\ UNCHANGED parked
          \/ Held(t, s, i) /\ Nothing /\ Parks(t, i, << >>)
  BY DEF InOrder, First
<1> DEFINE c == Call(t, s, i)
<1>4. c[2] = s.reply /\ c[3] = i
  BY <1>3, OpenCall
<1>5. i \in DOMAIN s.answers /\ s.answers[i] = "none"
  BY <1>3 DEF Unanswered
<1>6. ASSUME NEW a, a # "none", NEW seg, seg = [segment[t] EXCEPT !.state.answers[i] = a]
      PROVE  /\ seg.at = "tools" /\ (\A d : Pending(seg, d) => Pending(segment[t], d))
             /\ Pending(segment[t], c) /\ ~Pending(seg, c)
  <2> DEFINE more == [s.answers EXCEPT ![i] = a]
             new == [s EXCEPT !.answers = more]
  <2>1. seg = [segment[t] EXCEPT !.state = new]
    BY <1>6
  <2>2. new.answers = more /\ new.reply = s.reply
    BY <1>1 DEF Conversation
  <2>3. more[i] = a /\ \A j : j # i => more[j] = s.answers[j]
    BY <1>5
  <2> HIDE DEF more, new
  <2>4. seg.at = "tools" /\ ~seg.batch /\ seg.state = new
    BY <1>1, <1>2, <2>1 DEF Segment
  <2> HIDE DEF c
  <2>5. \A d : Pending(seg, d) => Pending(segment[t], d)
    BY <1>2, <1>5, <1>6, <2>2, <2>3, <2>4 DEF Pending
  <2> QED
    BY <1>2, <1>4, <1>5, <1>6, <2>2, <2>3, <2>4, <2>5 DEF Pending
<1>7. CASE Performs(t, s, i) /\ Goes(t, [segment[t] EXCEPT !.state.answers[i] = "result"]) /\ UNCHANGED parked
  <2> DEFINE seg == [segment[t] EXCEPT !.state.answers[i] = "result"]
  <2>1. segment'[t] = seg
    BY <1>1, <1>7 DEF Goes
  <2>2. /\ seg.at = "tools" /\ (\A d : Pending(seg, d) => Pending(segment[t], d))
        /\ Pending(segment[t], c) /\ ~Pending(seg, c)
    BY <1>6
  <2> HIDE DEF seg
  <2> QED
    BY <1>2, <1>3, <1>7, <2>1, <2>2, PerformsOnce
<1>8. CASE Nothing /\ Goes(t, [segment[t] EXCEPT !.state.answers[i] = "cancelled"]) /\ UNCHANGED parked
  <2> DEFINE seg == [segment[t] EXCEPT !.state.answers[i] = "cancelled"]
  <2>1. segment'[t] = seg
    BY <1>1, <1>8 DEF Goes
  <2>2. seg.at = "tools" /\ (\A d : Pending(seg, d) => Pending(segment[t], d))
    BY <1>6
  <2> HIDE DEF seg
  <2> QED
    BY <1>2, <1>8, <2>1, <2>2, QuietOnce DEF Nothing
<1>9. CASE Held(t, s, i) /\ Nothing /\ Parks(t, i, << >>)
  <2>1. segment'[t].at = "pausing" /\ segment'[t].state = s /\ parked'[t] = s /\ Open(replied[t], s)
    BY <1>3, <1>9, ParksOnce
  <2>2. \A d : ~Pending(segment'[t], d)
    BY <2>1 DEF Pending
  <2> QED
    BY <1>2, <1>9, <2>1, <2>2, QuietOnce DEF Nothing
<1> QED
  BY <1>3, <1>7, <1>8, <1>9

(***************************************************************************)
(* Replies, decisions and cancellations                                    *)
(***************************************************************************)

\* A reply changes nothing about the calls there were, and no call of it has run.
LEMMA ReplyOnce == ASSUME Turns, Once, NEW t \in Threads, Reply(t) PROVE OnceOK(t)'
<1>1. PICK b \in Batches :
          /\ replied' = [replied EXCEPT ![t] = Append(@, b)]
          /\ LET open == [i \in DOMAIN b |-> "none"]
             IN  Goes(t, [segment[t] EXCEPT !.at = "tools", !.results = open,
                          !.state = [reply |-> Len(replied[t]) + 1, answers |-> open, over |-> FALSE]])
          /\ UNCHANGED <<checkpoint, parked, approved, asked, ran>>
  BY DEF Reply
<1> DEFINE rep == replied[t]
           open == [i \in DOMAIN b |-> "none"]
           new == [reply |-> Len(rep) + 1, answers |-> open, over |-> FALSE]
           seg == [segment[t] EXCEPT !.at = "tools", !.results = open, !.state = new]
<1>2. /\ segment[t] \in Segment /\ segment \in [Threads -> Segment]
      /\ replied \in [Threads -> Seq(Batches)] /\ rep \in Seq(Batches)
      /\ checkpoint[t] # None => WellFormed(rep, checkpoint[t])
      /\ parked[t] # None => WellFormed(rep, parked[t])
  BY ThreadTypes DEF Turns, Tables, Shape
<1>3. segment'[t] = seg /\ replied'[t] = Append(rep, b)
  BY <1>1, <1>2 DEF Goes
<1>4. seg.at = "tools" /\ seg.state.reply = Len(rep) + 1
  BY <1>2 DEF Segment
<1> HIDE DEF seg
<1>5. /\ Len(rep) \in Nat /\ DOMAIN rep = 1 .. Len(rep) /\ DOMAIN Append(rep, b) = 1 .. Len(rep) + 1
      /\ \A r \in 1 .. Len(rep) : Append(rep, b)[r] = rep[r]
  BY <1>2, AppendProperties, LenProperties
<1> DEFINE more == Append(rep, b)
<1>6. ASSUME NEW c, Issued(rep, c)
      PROVE  /\ Issued(more, c) /\ more[c[2]] = rep[c[2]] /\ (Last(more, c) <=> Last(rep, c))
             /\ ~Pending(seg, c)
  BY <1>4, <1>5, <1>6 DEF Issued, Last, Pending
<1>7. ASSUME NEW s, WellFormed(rep, s), Open(rep, s)
      PROVE  Open(more, s)
  <2>1. CASE Unanswered(s) = {}
    BY <2>1 DEF Open
  <2>2. CASE \E k \in Unanswered(s) : rep[s.reply][k] # "plain"
    <3>1. PICK k \in Unanswered(s) : rep[s.reply][k] # "plain"
      BY <2>2
    <3>2. DOMAIN s.answers # {}
      BY <3>1 DEF Unanswered
    <3>3. s.reply # 0
      BY <1>2, <1>7, <3>2, EmptySeq DEF WellFormed
    <3>4. s.reply \in 1 .. Len(rep)
      BY <1>2, <1>5, <1>7, <3>3 DEF WellFormed, Conversation
    <3> QED
      BY <1>5, <3>1, <3>4 DEF Open
  <2> QED
    BY <1>7, <2>1, <2>2 DEF Open
<1> HIDE DEF more, rep
<1>8. OnceOK(t) /\ rep = replied[t] /\ more = replied'[t]
  BY <1>3 DEF Once, rep, more
<1>9. Asking(t, replied'[t], asked'[t], checkpoint'[t], parked'[t], segment'[t])
  BY <1>1, <1>2, <1>3, <1>4, <1>7, <1>8 DEF OnceOK, Asking
<1>10. ASSUME NEW c \in CallIds, c[1] = t
       PROVE  Counts(c, replied'[t], segment'[t], ran'[c], c \in approved')
  <2>1. Counts(c, rep, segment[t], ran[c], c \in approved) /\ ran[c] \in Nat
    BY <1>8, <1>10 DEF OnceOK, Turns, Books
  <2>2. CASE Issued(rep, c)
    BY <1>1, <1>3, <1>6, <1>8, <2>1, <2>2 DEF Counts
  <2>3. CASE ~Issued(rep, c)
    BY <1>1, <1>8, <2>1, <2>3 DEF Counts
  <2> QED
    BY <2>2, <2>3
<1> QED
  BY <1>9, <1>10 DEF OnceOK

LEMMA DecideOnce == ASSUME Turns, Once, Register, Decide, NEW t \in Threads PROVE OnceOK(t)'
<1>1. PICK c \in filed :
          /\ ran[c] = 0 /\ approved' \subseteq approved \cup {c} /\ approved \subseteq approved'
          /\ UNCHANGED <<checkpoint, parked, segment, replied, asked, ran>>
  BY DEF Decide
<1>2. OnceOK(t) /\ Issued(replied[c[1]], c) /\ replied[c[1]][c[2]][c[3]] = "gated"
  BY DEF Once, Register, KindOf
<1>3. Asking(t, replied'[t], asked'[t], checkpoint'[t], parked'[t], segment'[t])
  BY <1>1, <1>2 DEF OnceOK
<1>4. ASSUME NEW d \in CallIds, d[1] = t
      PROVE  Counts(d, replied'[t], segment'[t], ran'[d], d \in approved')
  <2>1. Counts(d, replied[t], segment[t], ran[d], d \in approved)
    BY <1>2, <1>4 DEF OnceOK
  <2>2. CASE d = c
    BY <1>1, <1>2, <1>4, <2>1, <2>2 DEF Counts
  <2>3. CASE d # c
    <3>1. (d \in approved') <=> (d \in approved)
      BY <1>1, <2>3
    <3> QED
      BY <1>1, <2>1, <3>1 DEF Counts
  <2> QED
    BY <2>2, <2>3
<1> QED
  BY <1>3, <1>4 DEF OnceOK

LEMMA CancelOnce ==
    ASSUME Turns, Once, NEW threads, Signalled(threads), NEW t \in Threads
    PROVE  OnceOK(t)'
<1>1. segment[t] \in Segment /\ UNCHANGED <<checkpoint, parked, replied, approved, ran, asked>>
  BY ThreadTypes DEF Signalled
<1>2. segment'[t] = segment[t] \/ segment'[t] = [segment[t] EXCEPT !.cancel = TRUE]
  BY DEF Signalled
<1>3. /\ segment'[t].at = segment[t].at /\ segment'[t].state = segment[t].state
      /\ segment'[t].batch = segment[t].batch /\ segment'[t].results = segment[t].results
  BY <1>1, <1>2 DEF Segment
<1>4. \A c : Pending(segment'[t], c) => Pending(segment[t], c)
  BY <1>3 DEF Pending
<1>5. Asking(t, replied[t], asked[t], checkpoint[t], parked[t], segment[t])
  BY DEF Once, OnceOK
<1>6. /\ segment'[t].at \in {"folding", "pausing", "paused"} => Open(replied[t], segment'[t].state)
      /\ segment'[t].at = "ending" /\ asked'[t] # None => Open(replied[t], segment'[t].state)
      /\ segment'[t].at = "stopped" => asked'[t] = None
  BY <1>1, <1>3, <1>5 DEF Asking
<1>7. segment[t].state # None
  BY ThreadTypes, TurnsAssumption
<1> QED
  BY <1>1, <1>4, <1>6, <1>7, QuietOnce

LEMMA CrashOnce == ASSUME Turns, Once, Crash, NEW t \in Threads PROVE OnceOK(t)'
<1>1. segment'[t] = NoSegment /\ parked'[t] = None /\ UNCHANGED <<checkpoint, replied, approved, ran, asked>>
  BY DEF Crash
<1>2. \A c : ~Pending(NoSegment, c)
  BY NoRun DEF Pending
<1>3. segment[t].state # None
  BY ThreadTypes, TurnsAssumption
<1> QED
  BY <1>1, <1>2, <1>3, NoRun, QuietOnce

(***************************************************************************)
(* Every step                                                              *)
(***************************************************************************)

\* What is counted about other threads stays when one of them takes a step.
LEMMA OthersOnce ==
    ASSUME Turns, Once, NEW t \in Threads, Step(t), NEW u \in Threads \ {t}
    PROVE  OnceOK(u)'
<1>1. /\ checkpoint \in [Threads -> Conversation \cup {None}] /\ segment \in [Threads -> Segment]
      /\ replied \in [Threads -> Seq(Batches)] /\ asked \in [Threads -> CallIds \cup {None}]
      /\ ran \in [CallIds -> Nat] /\ parked \in [Threads -> Conversation \cup {None}]
  BY DEF Turns, Tables, Books
<1>2. segment'[u] = segment[u]
  <2>1. (\E seg : Goes(t, seg)) \/ UNCHANGED segment \/ Signalled({t})
    BY DEF Step, Run, FailsToRun, Resume, ContinueTurn, Starts, HeldAgain, HookRaises, Top, Answer, Reply,
           Fold, Answered, InOrder, Executes, Interrupts, Parks, At, Stops,
           FoldBatch, AllInOrder, IterationEnds, Fails, Pause, PauseFails, PauseMislaid, Clear, EndRun, Cancel
  <2> QED
    BY <1>1, <2>1 DEF Goes, Signalled
<1>3. asked'[u] = asked[u]
  <2>1. (\E a : asked' = [asked EXCEPT ![t] = a]) \/ UNCHANGED asked
    BY DEF Step, Run, FailsToRun, Resume, ContinueTurn, HeldAgain, HookRaises, Top, Answer, Reply,
           Fold, InOrder, Executes, Interrupts, Stops,
           FoldBatch, AllInOrder, IterationEnds, Fails, Pause, PauseFails, PauseMislaid, Clear, EndRun, Cancel, Signalled
  <2> QED
    BY <1>1, <2>1
<1>4. checkpoint'[u] = checkpoint[u]
  <2>1. (\E s : MaySave(t, s) \/ Saved(t, s)) \/ UNCHANGED checkpoint
    BY DEF Step, Run, FailsToRun, Resume, ContinueTurn, Starts, HeldAgain, HookRaises, Top, Answer, Reply,
           Fold, InOrder, Executes, Interrupts, Stays,
           FoldBatch, AllInOrder, IterationEnds, Fails, Pause, PauseFails, PauseMislaid, Clear, EndRun, Cancel, Signalled
  <2> QED
    BY <1>1, <2>1 DEF MaySave, Saved
<1>11. parked'[u] = parked[u]
  <2>1. (\E p : parked' = [parked EXCEPT ![t] = p]) \/ UNCHANGED parked
    BY DEF Step, Run, FailsToRun, Resume, ContinueTurn, HeldAgain, HookRaises, Top, Answer, Reply,
           Fold, InOrder, Executes, Interrupts, Parks, Stays,
           FoldBatch, AllInOrder, IterationEnds, Fails, Pause, PauseFails, PauseMislaid, Clear, EndRun, Cancel, Signalled
  <2> QED
    BY <1>1, <2>1
<1>5. replied'[u] = replied[u]
  <2>1. (\E r : replied' = [replied EXCEPT ![t] = r]) \/ UNCHANGED replied
    BY DEF Step, Run, FailsToRun, Resume, ContinueTurn, Starts, HeldAgain, HookRaises, Top, Answer, Reply,
           Fold, InOrder, Executes, Interrupts, Stays,
           FoldBatch, AllInOrder, IterationEnds, Fails, Pause, PauseFails, PauseMislaid, Clear, EndRun, Cancel, Signalled
  <2> QED
    BY <1>1, <2>1
<1>6. ASSUME NEW c \in CallIds, c[1] = u
      PROVE  ran'[c] = ran[c]
  <2>1. \A s, i : Call(t, s, i)[1] = t
    BY DEF Call
  <2>2. CASE \E calls : Effects(calls) /\ \A d \in calls : d[1] = t
    BY <1>1, <1>6, <2>2 DEF Effects
  <2>3. CASE \E s, i : Performs(t, s, i)
    <3>1. PICK s, i : Effects({Call(t, s, i)} \ denied)
      BY <2>3 DEF Performs
    <3> QED
      BY <2>1, <2>2, <3>1
  <2>4. CASE \E i : Interrupts(t, i)
    <3>1. PICK done : Effects({Call(t, segment[t].state, j) : j \in done})
      BY <2>4, InterruptsEffects
    <3>2. \A d \in {Call(t, segment[t].state, j) : j \in done} : d[1] = t
      BY <2>1
    <3> QED
      BY <2>2, <3>1, <3>2
  <2>5. UNCHANGED ran \/ (\E s, i : Performs(t, s, i)) \/ (\E i : Interrupts(t, i))
    BY DEF Step, Run, FailsToRun, Resume, ContinueTurn, Starts, HeldAgain, HookRaises, Top, Answer, Reply,
           Fold, InOrder, Executes, Stays, Nothing,
           FoldBatch, AllInOrder, IterationEnds, Fails, Pause, PauseFails, PauseMislaid, Clear, EndRun, Cancel, Signalled
  <2> QED
    BY <2>3, <2>4, <2>5
<1>7. ASSUME NEW c \in CallIds, c[1] = u
      PROVE  (c \in approved') <=> (c \in approved)
  <2>1. CASE \E s, i : approved' = approved \ {Call(t, s, i)}
    BY <1>7, <2>1 DEF Call
  <2>2. UNCHANGED approved \/ (\E s, i : approved' = approved \ {Call(t, s, i)})
    BY DEF Step, Run, FailsToRun, Resume, ContinueTurn, Starts, HeldAgain, HookRaises, Top, Answer, Reply,
           Fold, InOrder, Executes, Interrupts, Performs, Stays, Nothing,
           FoldBatch, AllInOrder, IterationEnds, Fails, Pause, PauseFails, PauseMislaid, Clear, EndRun, Cancel, Signalled
  <2> QED
    BY <2>1, <2>2
<1>8. OnceOK(u)
  BY DEF Once
<1>9. Asking(u, replied'[u], asked'[u], checkpoint'[u], parked'[u], segment'[u])
  BY <1>2, <1>3, <1>4, <1>5, <1>8, <1>11 DEF OnceOK
<1>10. ASSUME NEW c \in CallIds, c[1] = u
       PROVE  Counts(c, replied'[u], segment'[u], ran'[c], c \in approved')
  BY <1>2, <1>5, <1>6, <1>7, <1>8, <1>10 DEF OnceOK, Counts
<1> QED
  BY <1>9, <1>10 DEF OnceOK

LEMMA StepOnce == ASSUME Turns, Once, NEW t \in Threads, Step(t) PROVE OnceOK(t)'
<1>1. CASE Run(t) \/ FailsToRun(t) \/ (\E perform \in BOOLEAN : Resume(t, perform)) \/ ContinueTurn(t)
  BY <1>1, BeginsOnce
<1>2. CASE Fold(t) \/ HeldAgain(t) \/ HookRaises(t) \/ Top(t) \/ Answer(t) \/ Reply(t) \/ Fails(t)
  BY <1>2, FoldOnce, HeldAgainOnce, HookRaisesOnce, LoopOnce, ReplyOnce
<1>3. CASE \/ (\E i \in DOMAIN segment[t].results : Executes(t, i) \/ Interrupts(t, i))
           \/ FoldBatch(t) \/ InOrder(t) \/ AllInOrder(t)
  BY <1>3, ExecutesOnce, InterruptsOnce, InOrderOnce, IterationOnce
<1>4. CASE Pause(t) \/ PauseFails(t) \/ PauseMislaid(t) \/ Clear(t) \/ EndRun(t)
  BY <1>4, PauseOnce, PauseFailsOnce, PauseMislaidOnce, ClearOnce, EndRunOnce
<1>5. CASE Cancel(t)
  BY <1>5, CancelOnce DEF Cancel
<1> QED
  BY <1>1, <1>2, <1>3, <1>4, <1>5 DEF Step

LEMMA NextOnce == ASSUME Turns, Once, Register, [Next]_turnVars PROVE Once'
<1>1. ASSUME NEW t \in Threads, Step(t), NEW u \in Threads
      PROVE  OnceOK(u)'
  BY <1>1, StepOnce, OthersOnce
<1>2. CASE CancelAll
  BY <1>2, CancelOnce DEF CancelAll, Once
<1>3. CASE Crash \/ Decide
  BY <1>3, CrashOnce, DecideOnce DEF Once
<1>4. CASE UNCHANGED turnVars
  BY <1>4 DEF turnVars, Once, OnceOK
<1> QED
  BY <1>1, <1>2, <1>3, <1>4 DEF Next, Once

\* A step asks the approval store about open calls of the run of its thread.
LEMMA StepFiles ==
    ASSUME Turns, NEW t \in Threads, Step(t)
    PROVE  \/ UNCHANGED filed
           \/ UNCHANGED replied /\ \E S \in SUBSET Unanswered(segment[t].state) : Files(t, segment[t].state, S)
<1>1. CASE UNCHANGED filed
  BY <1>1
<1>2. CASE HeldAgain(t)
  BY <1>2 DEF HeldAgain, Dangling, First, Asks
<1>3. CASE InOrder(t)
  BY <1>3 DEF InOrder, First
<1>4. ASSUME NEW i, Interrupts(t, i)
      PROVE  UNCHANGED replied /\ \E S \in SUBSET Unanswered(segment[t].state) : Files(t, segment[t].state, S)
  <2>1. Waiting(t) \subseteq Unanswered(segment[t].state) /\ i \in Waiting(t) /\ UNCHANGED replied
    BY <1>4, WaitingIsOpen DEF Interrupts
  <2>2. PICK reached \in SUBSET (Waiting(t) \ {i}) : Files(t, segment[t].state, reached \cup {i})
    BY <1>4 DEF Interrupts
  <2> QED
    BY <2>1, <2>2
<1>5. UNCHANGED filed \/ HeldAgain(t) \/ InOrder(t) \/ \E i : Interrupts(t, i)
  BY DEF Step, Run, FailsToRun, Resume, ContinueTurn, Starts, HookRaises, Top, Answer, Reply, Stays, Fold,
         Executes, FoldBatch, AllInOrder, IterationEnds, Fails, Pause, PauseFails, PauseMislaid, Clear, EndRun,
         Cancel, Signalled
<1> QED
  BY <1>1, <1>2, <1>3, <1>4, <1>5

LEMMA NextRegister == ASSUME Turns, Register, [Next]_turnVars PROVE Register'
<1>1. ASSUME replied' = replied, filed' = filed
      PROVE  Register'
  BY <1>1 DEF Register, KindOf
<1>2. ASSUME NEW t \in Threads, Step(t)
      PROVE  Register'
  <2>1. ASSUME UNCHANGED replied, NEW S \in SUBSET Unanswered(segment[t].state), Files(t, segment[t].state, S)
        PROVE  Register'
    <3>1. ASSUME NEW c \in filed' \ filed
          PROVE  Issued(replied[c[1]], c) /\ KindOf(c) = "gated"
      <4>1. PICK i \in S : c = Call(t, segment[t].state, i) /\ KindOf(c) = "gated"
        BY <2>1 DEF Files
      <4>2. c[1] = t /\ Issued(replied[t], c)
        BY <4>1, OpenCall
      <4> QED
        BY <4>1, <4>2
    <3> QED
      BY <2>1, <3>1 DEF Register, KindOf
  <2>2. ASSUME UNCHANGED filed
        PROVE  Register'
    <3>1. CASE Reply(t)
      <4>1. PICK b \in Batches : replied' = [replied EXCEPT ![t] = Append(@, b)]
        BY <3>1 DEF Reply
      <4>2. ASSUME NEW c \in filed
            PROVE  (Issued(replied[c[1]], c) /\ KindOf(c) = "gated")'
        <5>1. Issued(replied[c[1]], c) /\ replied[c[1]][c[2]][c[3]] = "gated" /\ c[1] \in Threads
          BY <4>2 DEF Register, KindOf, Turns, Books, CallIds
        <5>2. replied \in [Threads -> Seq(Batches)] /\ replied[c[1]] \in Seq(Batches)
          BY <5>1 DEF Turns, Tables
        <5>3. c[2] \in DOMAIN replied[c[1]] /\ c[3] \in DOMAIN replied[c[1]][c[2]]
          BY <5>1 DEF Issued
        <5>4. c[2] \in DOMAIN replied'[c[1]] /\ replied'[c[1]][c[2]] = replied[c[1]][c[2]]
          <6>1. CASE c[1] = t
            <7>1. replied'[c[1]] = Append(replied[c[1]], b)
              BY <4>1, <5>2, <6>1
            <7> QED
              BY <5>2, <5>3, <7>1, AppendProperties, LenProperties
          <6>2. CASE c[1] # t
            BY <4>1, <5>2, <5>3, <6>2
          <6> QED
            BY <6>1, <6>2
        <5> QED
          BY <5>1, <5>3, <5>4 DEF Issued, KindOf
      <4> QED
        BY <2>2, <4>2 DEF Register
    <3>2. CASE ~Reply(t)
      <4>1. UNCHANGED replied
        BY <1>2, <3>2 DEF Step, Run, FailsToRun, Resume, ContinueTurn, Starts, HeldAgain, HookRaises, Top, Answer,
               Stays, Fold, InOrder, Executes, Interrupts, FoldBatch, AllInOrder, IterationEnds, Fails, Pause,
               PauseFails, PauseMislaid, Clear, EndRun, Cancel, Signalled
      <4> QED
        BY <1>1, <2>2, <4>1
    <3> QED
      BY <3>1, <3>2
  <2> QED
    BY <1>2, <2>1, <2>2, StepFiles
<1>3. CASE CancelAll \/ Crash \/ Decide \/ UNCHANGED turnVars
  BY <1>1, <1>3 DEF CancelAll, Signalled, Crash, Decide, turnVars
<1> QED
  BY <1>2, <1>3 DEF Next

LEMMA InitOnce == ASSUME Init PROVE Once
<1>1. ASSUME NEW t \in Threads
      PROVE  Asking(t, replied[t], asked[t], checkpoint[t], parked[t], segment[t])
  BY NoRun DEF Init, Asking
<1>2. ASSUME NEW c \in CallIds
      PROVE  ran[c] = 0 /\ c \notin approved
  BY DEF Init
<1> QED
  BY <1>1, <1>2 DEF Once, OnceOK, Counts

\* No call takes effect twice, through any sequence of batches, pauses, answers, crashes
\* and new turns, unless a later call of its reply was held.
THEOREM CallsAlwaysRunOnce == Spec => []RunsOnce
<1>1. Init => Turns /\ Once /\ Register
  BY InitTurns, InitOnce DEF Init, Register
<1>2. (Turns /\ Once /\ Register) /\ [Next]_turnVars => (Turns /\ Once /\ Register)'
  BY NextTurns, NextOnce, NextRegister
<1>3. Turns /\ Once => RunsOnce
  <2> SUFFICES ASSUME Turns, Once, NEW c \in CallIds, ran[c] > 1
               PROVE  Forgotten(c)
    BY DEF RunsOnce
  <2>1. c[1] \in Threads /\ ran[c] \in Nat
    BY DEF CallIds, Turns, Books
  <2>2. Counts(c, replied[c[1]], segment[c[1]], ran[c], c \in approved)
    BY <2>1 DEF Once, OnceOK
  <2>3. Issued(replied[c[1]], c) /\ ~Last(replied[c[1]], c)
    BY <2>1, <2>2 DEF Counts
  <2> QED
    BY <2>3 DEF Last, Forgotten
<1> QED
  BY <1>1, <1>2, <1>3, PTL DEF Spec
=============================================================================
