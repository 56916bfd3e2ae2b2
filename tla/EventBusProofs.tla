--------------------------- MODULE EventBusProofs ---------------------------
(***************************************************************************)
(* Proofs about the bus, for every number of runs, subscribers and         *)
(* publishers, and every size of its buffers.                              *)
(***************************************************************************)
EXTENDS EventBus, SequenceTheorems, WellFoundedInduction, TLAPS

(***************************************************************************)
(* Sequences                                                               *)
(***************************************************************************)

LEMMA SmallestPlace ==
    ASSUME NEW places \in SUBSET Nat, places # {}
    PROVE  \E i \in places : \A j \in places : i <= j
<1> DEFINE Below == {ss \in Nat \X Nat : ss[1] < ss[2]}
<1>1. IsWellFoundedOn(Below, Nat)
  BY NatLessThanWellFounded DEF OpToRel
<1> HIDE DEF Below
<1>2. PICK i \in places : \A j \in places : ~(<<j, i>> \in Below)
  BY <1>1, WFMin
<1>3. ASSUME NEW j \in places PROVE i <= j
  <2>1. i \in Nat /\ j \in Nat /\ ~(<<j, i>> \in Below)
    BY <1>2
  <2>2. ~(j < i)
    BY <2>1 DEF Below
  <2> QED
    BY <2>1, <2>2
<1> QED
  BY <1>3

LEMMA PlaceOf ==
    ASSUME NEW S, NEW seq \in Seq(S), NEW x, Contains(seq, x)
    PROVE  /\ SelectInSeq(seq, LAMBDA v : v = x) \in 1 .. Len(seq)
           /\ seq[SelectInSeq(seq, LAMBDA v : v = x)] = x
<1> DEFINE places == {i \in 1 .. Len(seq) : seq[i] = x}
           first == SelectInSeq(seq, LAMBDA v : v = x)
<1>1. Len(seq) \in Nat
  BY LenProperties
<1>2. places # {} /\ places \in SUBSET Nat
  BY <1>1 DEF Contains
<1>3. first = Min(places)
  BY <1>2 DEF SelectInSeq
<1>4. Min(places) \in places
  <2> HIDE DEF places
  <2>1. \E i \in places : \A j \in places : i <= j
    BY <1>2, SmallestPlace
  <2> QED
    BY <2>1 DEF Min
<1> QED
  BY <1>3, <1>4

\* What a sequence without the first occurrence of x looks like.
LEMMA RemovedAt ==
    ASSUME NEW S, NEW seq \in Seq(S), NEW x, Contains(seq, x)
    PROVE  \E i \in 1 .. Len(seq) :
              /\ seq[i] = x
              /\ RemoveFirst(seq, x) \in Seq(S)
              /\ Len(RemoveFirst(seq, x)) = Len(seq) - 1
              /\ \A k \in 1 .. Len(seq) - 1 :
                    RemoveFirst(seq, x)[k] = IF k < i THEN seq[k] ELSE seq[k + 1]
<1> DEFINE i == SelectInSeq(seq, LAMBDA v : v = x)
           before == SubSeq(seq, 1, i - 1)
           after == SubSeq(seq, i + 1, Len(seq))
<1>1. i \in 1 .. Len(seq) /\ seq[i] = x
  BY PlaceOf
<1>2. RemoveFirst(seq, x) = before \o after
  BY DEF RemoveFirst, RemoveAt, Contains
<1>3. Len(seq) \in Nat /\ i \in Nat
  BY <1>1, LenProperties
<1> HIDE DEF i
<1>4. before \in Seq(S) /\ Len(before) = i - 1 /\ \A k \in 1 .. i - 1 : before[k] = seq[k]
  BY <1>1, <1>3, SubSeqProperties
<1>5. /\ after \in Seq(S) /\ Len(after) = Len(seq) - i
      /\ \A k \in 1 .. Len(seq) - i : after[k] = seq[i + k]
  BY <1>1, <1>3, SubSeqProperties
<1> HIDE DEF before, after
<1>6. /\ before \o after \in Seq(S) /\ Len(before \o after) = Len(before) + Len(after)
      /\ \A k \in 1 .. Len(before) + Len(after) :
            (before \o after)[k] = IF k <= Len(before) THEN before[k] ELSE after[k - Len(before)]
  BY <1>4, <1>5, ConcatProperties
<1>7. ASSUME NEW k \in 1 .. Len(seq) - 1
      PROVE  (before \o after)[k] = IF k < i THEN seq[k] ELSE seq[k + 1]
  <2>1. CASE k < i
    BY <1>1, <1>3, <1>4, <1>5, <1>6, <2>1
  <2>2. CASE ~(k < i)
    <3>1. k - Len(before) \in 1 .. Len(seq) - i /\ i + (k - Len(before)) = k + 1 /\ ~(k <= Len(before))
          /\ k \in 1 .. Len(before) + Len(after)
      BY <1>1, <1>3, <1>4, <1>5, <2>2
    <3> QED
      BY <1>5, <1>6, <2>2, <3>1
  <2> QED
    BY <2>1, <2>2
<1> QED
  BY <1>1, <1>2, <1>3, <1>4, <1>5, <1>6, <1>7

\* Sequences without repetitions, as sets of what they contain.
LEMMA RemovedSet ==
    ASSUME NEW S, NEW seq \in Seq(S), NEW x, IsInjective(seq)
    PROVE  /\ RemoveFirst(seq, x) \in Seq(S) /\ IsInjective(RemoveFirst(seq, x))
           /\ Len(RemoveFirst(seq, x)) <= Len(seq)
           /\ \A y : Contains(RemoveFirst(seq, x), y) <=> Contains(seq, y) /\ y # x
<1>0. Len(seq) \in Nat /\ DOMAIN seq = 1 .. Len(seq)
  BY LenProperties
<1>1. CASE ~Contains(seq, x)
  <2>1. RemoveFirst(seq, x) = seq
    BY <1>1 DEF RemoveFirst, Contains
  <2> QED
    BY <1>0, <1>1, <2>1
<1>2. CASE Contains(seq, x)
  <2> DEFINE rest == RemoveFirst(seq, x)
  <2>1. PICK i \in 1 .. Len(seq) :
           /\ seq[i] = x
           /\ rest \in Seq(S) /\ Len(rest) = Len(seq) - 1
           /\ \A k \in 1 .. Len(seq) - 1 : rest[k] = IF k < i THEN seq[k] ELSE seq[k + 1]
    BY <1>2, RemovedAt
  <2> HIDE DEF rest
  <2>2. DOMAIN rest = 1 .. Len(seq) - 1
    BY <1>0, <2>1, LenProperties
  <2>3. \A j, k \in 1 .. Len(seq) : seq[j] = seq[k] => j = k
    BY <1>0 DEF IsInjective
  <2>4. IsInjective(rest)
    <3>1. ASSUME NEW j \in 1 .. Len(seq) - 1, NEW k \in 1 .. Len(seq) - 1, rest[j] = rest[k]
          PROVE  j = k
      BY SMTT(20), <1>0, <2>1, <2>3, <3>1
    <3> QED
      BY <2>2, <3>1 DEF IsInjective
  <2>5. ASSUME NEW y PROVE Contains(rest, y) <=> Contains(seq, y) /\ y # x
    <3>1. ASSUME NEW k \in 1 .. Len(rest), rest[k] = y PROVE Contains(seq, y) /\ y # x
      <4>1. PICK j \in 1 .. Len(seq) : j # i /\ rest[k] = seq[j]
        <5>1. k \in 1 .. Len(seq) /\ k + 1 \in 1 .. Len(seq)
          BY <1>0, <2>1
        <5>2. rest[k] = IF k < i THEN seq[k] ELSE seq[k + 1]
          BY <2>1
        <5>3. k < i => k # i
          BY <1>0
        <5>4. ~(k < i) => k + 1 # i
          BY <1>0
        <5> QED
          BY <5>1, <5>2, <5>3, <5>4
      <4>2. y # x
        BY <2>1, <2>3, <3>1, <4>1
      <4> QED
        BY <3>1, <4>1, <4>2 DEF Contains
    <3>2. ASSUME NEW j \in 1 .. Len(seq), seq[j] = y, y # x PROVE Contains(rest, y)
      <4>1. CASE j < i
        BY <1>0, <2>1, <3>2, <4>1 DEF Contains
      <4>2. CASE i < j
        <5>1. j - 1 \in 1 .. Len(rest) /\ rest[j - 1] = y
          BY <1>0, <2>1, <3>2, <4>2
        <5> QED
          BY <5>1 DEF Contains
      <4> QED
        BY <1>0, <2>1, <3>2, <4>1, <4>2
    <3> QED
      BY <3>1, <3>2 DEF Contains
  <2>6. Len(rest) <= Len(seq)
    BY <1>0, <2>1
  <2> QED
    BY <2>1, <2>4, <2>5, <2>6 DEF rest
<1> QED
  BY <1>1, <1>2

LEMMA AppendSet ==
    ASSUME NEW S, NEW seq \in Seq(S), NEW e \in S
    PROVE  /\ Append(seq, e) \in Seq(S) /\ Len(Append(seq, e)) = Len(seq) + 1
           /\ \A y : Contains(Append(seq, e), y) <=> Contains(seq, y) \/ y = e
           /\ IsInjective(seq) /\ ~Contains(seq, e) => IsInjective(Append(seq, e))
<1> DEFINE more == Append(seq, e)
<1>1. /\ Len(seq) \in Nat /\ more \in Seq(S) /\ Len(more) = Len(seq) + 1
      /\ \A k \in 1 .. Len(seq) : more[k] = seq[k]
      /\ more[Len(seq) + 1] = e
      /\ DOMAIN seq = 1 .. Len(seq) /\ DOMAIN more = 1 .. Len(more)
  BY AppendProperties, LenProperties
<1> HIDE DEF more
<1>2. \A y : Contains(more, y) <=> Contains(seq, y) \/ y = e
  <2>1. ASSUME NEW y, Contains(more, y) PROVE Contains(seq, y) \/ y = e
    <3>1. PICK k \in 1 .. Len(more) : more[k] = y
      BY <2>1 DEF Contains
    <3>2. CASE k = Len(seq) + 1
      BY <1>1, <3>1, <3>2
    <3>3. CASE k \in 1 .. Len(seq)
      BY <1>1, <3>1, <3>3 DEF Contains
    <3> QED
      BY <1>1, <3>2, <3>3
  <2>2. ASSUME NEW y, Contains(seq, y) PROVE Contains(more, y)
    BY <1>1, <2>2 DEF Contains
  <2>3. Contains(more, e)
    BY <1>1 DEF Contains
  <2> QED
    BY <2>1, <2>2, <2>3
<1>3. ASSUME IsInjective(seq), ~Contains(seq, e) PROVE IsInjective(more)
  <2>1. ASSUME NEW j \in 1 .. Len(seq) + 1, NEW k \in 1 .. Len(seq) + 1, more[j] = more[k]
        PROVE  j = k
    BY <1>1, <1>3, <2>1 DEF IsInjective, Contains
  <2> QED
    BY <1>1, <2>1 DEF IsInjective
<1> QED
  BY <1>1, <1>2, <1>3 DEF more

LEMMA TailSet ==
    ASSUME NEW S, NEW seq \in Seq(S), seq # << >>
    PROVE  /\ Head(seq) \in S /\ Contains(seq, Head(seq))
           /\ Tail(seq) \in Seq(S) /\ Len(Tail(seq)) = Len(seq) - 1 /\ Len(seq) \in Nat \ {0}
           /\ \A y : Contains(Tail(seq), y) => Contains(seq, y)
           /\ \A y : Contains(seq, y) => Contains(Tail(seq), y) \/ y = Head(seq)
           /\ IsInjective(seq) => IsInjective(Tail(seq)) /\ ~Contains(Tail(seq), Head(seq))
<1> DEFINE rest == Tail(seq)
<1>1. /\ Len(seq) \in Nat \ {0} /\ rest \in Seq(S) /\ Len(rest) = Len(seq) - 1
      /\ \A k \in 1 .. Len(seq) - 1 : rest[k] = seq[k + 1]
      /\ DOMAIN seq = 1 .. Len(seq) /\ DOMAIN rest = 1 .. Len(rest)
      /\ Head(seq) = seq[1] /\ Head(seq) \in S
  <2>1. Len(seq) \in Nat \ {0} /\ rest \in Seq(S) /\ Len(rest) = Len(seq) - 1 /\ Head(seq) \in S
        /\ \A k \in 1 .. Len(rest) : rest[k] = seq[k + 1]
    BY HeadTailProperties, EmptySeq
  <2>2. DOMAIN seq = 1 .. Len(seq) /\ DOMAIN rest = 1 .. Len(rest)
    BY <2>1, LenProperties
  <2> QED
    BY <2>1, <2>2
<1> HIDE DEF rest
<1>2. ASSUME NEW y, Contains(rest, y) PROVE Contains(seq, y)
  <2>1. PICK k \in 1 .. Len(rest) : rest[k] = y
    BY <1>2 DEF Contains
  <2>2. k + 1 \in 1 .. Len(seq) /\ seq[k + 1] = y
    BY <1>1, <2>1
  <2> QED
    BY <2>2 DEF Contains
<1>3. ASSUME NEW y, Contains(seq, y) PROVE Contains(rest, y) \/ y = Head(seq)
  <2>1. PICK k \in 1 .. Len(seq) : seq[k] = y
    BY <1>3 DEF Contains
  <2>2. CASE k # 1
    <3>1. k - 1 \in 1 .. Len(rest) /\ rest[k - 1] = y
      BY <1>1, <2>1, <2>2
    <3> QED
      BY <3>1 DEF Contains
  <2> QED
    BY <1>1, <2>1, <2>2
<1>4. ASSUME IsInjective(seq) PROVE IsInjective(rest) /\ ~Contains(rest, Head(seq))
  <2>1. ASSUME NEW j \in 1 .. Len(rest), NEW k \in 1 .. Len(rest), rest[j] = rest[k] PROVE j = k
    <3>1. /\ j + 1 \in 1 .. Len(seq) /\ k + 1 \in 1 .. Len(seq)
          /\ seq[j + 1] = seq[k + 1] /\ j \in Int /\ k \in Int
      BY <1>1, <2>1
    <3>2. j + 1 = k + 1
      BY <1>1, <1>4, <3>1 DEF IsInjective
    <3> QED
      BY <3>1, <3>2
  <2>2. ASSUME NEW j \in 1 .. Len(rest) PROVE rest[j] # Head(seq)
    <3>1. j + 1 \in 1 .. Len(seq) /\ 1 \in 1 .. Len(seq) /\ j + 1 # 1 /\ rest[j] = seq[j + 1]
      BY <1>1
    <3> QED
      BY <1>1, <1>4, <3>1 DEF IsInjective
  <2> QED
    BY <1>1, <2>1, <2>2 DEF IsInjective, Contains
<1>5. Contains(seq, Head(seq))
  BY <1>1 DEF Contains
<1> QED
  BY <1>1, <1>2, <1>3, <1>4, <1>5 DEF rest

LEMMA ConcatSet ==
    ASSUME NEW S, NEW a \in Seq(S), NEW b \in Seq(S)
    PROVE  /\ a \o b \in Seq(S)
           /\ \A y : Contains(a \o b, y) <=> Contains(a, y) \/ Contains(b, y)
           /\ IsInjective(a) /\ IsInjective(b) /\ (\A y : ~(Contains(a, y) /\ Contains(b, y)))
                => IsInjective(a \o b)
<1> DEFINE ab == a \o b
<1>1. /\ Len(a) \in Nat /\ Len(b) \in Nat /\ ab \in Seq(S) /\ Len(ab) = Len(a) + Len(b)
      /\ \A k \in 1 .. Len(a) + Len(b) : ab[k] = IF k <= Len(a) THEN a[k] ELSE b[k - Len(a)]
      /\ DOMAIN a = 1 .. Len(a) /\ DOMAIN b = 1 .. Len(b) /\ DOMAIN ab = 1 .. Len(ab)
  BY ConcatProperties, LenProperties
<1> HIDE DEF ab
<1>2. \A k \in 1 .. Len(ab) : /\ k \in 1 .. Len(a) \/ k - Len(a) \in 1 .. Len(b)
                              /\ k \in 1 .. Len(a) => ab[k] = a[k]
                              /\ k - Len(a) \in 1 .. Len(b) => ab[k] = b[k - Len(a)]
  BY <1>1
<1>3. ASSUME NEW y PROVE Contains(ab, y) <=> Contains(a, y) \/ Contains(b, y)
  <2>1. Contains(ab, y) => Contains(a, y) \/ Contains(b, y)
    BY <1>2 DEF Contains
  <2>2. ASSUME Contains(a, y) PROVE Contains(ab, y)
    BY <1>1, <2>2 DEF Contains
  <2>3. ASSUME Contains(b, y) PROVE Contains(ab, y)
    <3>1. PICK k \in 1 .. Len(b) : b[k] = y
      BY <2>3 DEF Contains
    <3>2. k + Len(a) \in 1 .. Len(ab) /\ ab[k + Len(a)] = y
      BY <1>1, <3>1
    <3> QED
      BY <3>2 DEF Contains
  <2> QED
    BY <2>1, <2>2, <2>3
<1>4. ASSUME IsInjective(a), IsInjective(b), \A y : ~(Contains(a, y) /\ Contains(b, y))
      PROVE  IsInjective(ab)
  <2>1. ASSUME NEW j \in 1 .. Len(ab), NEW k \in 1 .. Len(ab), ab[j] = ab[k] PROVE j = k
    <3>1. CASE j \in 1 .. Len(a) /\ k \in 1 .. Len(a)
      BY <1>1, <1>2, <1>4, <2>1, <3>1 DEF IsInjective
    <3>2. CASE j - Len(a) \in 1 .. Len(b) /\ k - Len(a) \in 1 .. Len(b)
      <4>1. b[j - Len(a)] = b[k - Len(a)]
        BY <1>1, <2>1, <3>2
      <4>2. j - Len(a) = k - Len(a)
        BY <1>1, <1>4, <3>2, <4>1 DEF IsInjective
      <4> QED
        BY <1>1, <4>2
    <3>3. CASE j \in 1 .. Len(a) /\ k - Len(a) \in 1 .. Len(b)
      <4>1. Contains(a, ab[j]) /\ Contains(b, ab[k])
        BY <1>2, <3>3 DEF Contains
      <4> QED
        BY <1>4, <2>1, <4>1
    <3>4. CASE j - Len(a) \in 1 .. Len(b) /\ k \in 1 .. Len(a)
      <4>1. Contains(b, ab[j]) /\ Contains(a, ab[k])
        BY <1>2, <3>4 DEF Contains
      <4> QED
        BY <1>4, <2>1, <4>1
    <3> QED
      BY <1>2, <3>1, <3>2, <3>3, <3>4
  <2> QED
    BY <1>1, <2>1 DEF IsInjective
<1> QED
  BY <1>1, <1>3, <1>4 DEF ab

(***************************************************************************)
(* Types and bounds                                                        *)
(***************************************************************************)

Posts == [event: Event \cup {End}, to: Seq(Subscribers)]

Typed ==
    /\ history \in [Runs -> Seq(Event)] /\ retained \in Seq(Runs) /\ closed \in SUBSET Runs
    /\ registered \in [Channels -> Seq(Subscribers)]
    /\ queue \in [Subscribers -> Seq(Event \cup {End})]
    /\ reader \in [Subscribers -> {"new", "reading", "done"}]
    /\ target \in [Subscribers -> Channels]
    /\ sending \in [Publishers -> Posts]
    /\ published \in Seq(Event)
    /\ last \in [Subscribers -> [Publishers -> Nat]]
    /\ since \in [Subscribers -> Nat]
    /\ missed \in [Subscribers -> SUBSET (Event \cup {End})]

\* The histories are those of the runs retained.
Kept ==
    /\ \A r \in Runs : Len(history[r]) <= HistoryPerRun
                       /\ (history[r] # << >> <=> Contains(retained, r))
    /\ IsInjective(retained) /\ Len(retained) <= MaxRuns

Rosters ==
    /\ \A c \in Channels : IsInjective(registered[c])
    /\ Len(registered[Everything]) <= MaxGlobals
    /\ \A s \in Subscribers : \A c \in Channels : Listens(s, c) => Reading(s) /\ target[s] = c

QueuesFit == \A s \in Subscribers : Len(queue[s]) <= QueueSize

Bus == Typed /\ Kept /\ Rosters /\ QueuesFit

LEMMA BusIsTyped == Bus => TypeOK
  BY DEF Bus, Typed, Kept, Rosters, QueuesFit, TypeOK

LEMMA Sizes ==
    /\ Everything \notin Runs /\ Everything \in Channels /\ Runs \subseteq Channels
    /\ QueueSize \in Nat \ {0} /\ HistoryPerRun \in Nat \ {0}
    /\ MaxRuns \in Nat \ {0} /\ MaxGlobals \in Nat \ {0}
    /\ End \notin Event
  BY BusAssumption, EndAssumption DEF Channels

\* A history keeps its last events.
LEMMA LatestKeeps ==
    ASSUME NEW events \in Seq(Event)
    PROVE  /\ Latest(events) \in Seq(Event) /\ Len(Latest(events)) <= HistoryPerRun
           /\ Len(events) \in Nat /\ (Len(events) > 0 => Len(Latest(events)) > 0)
           /\ \E k \in Nat : /\ Len(Latest(events)) = Len(events) - k
                             /\ \A i \in 1 .. Len(events) - k : Latest(events)[i] = events[i + k]
<1> DEFINE k == IF Len(events) > HistoryPerRun THEN Len(events) - HistoryPerRun ELSE 0
<1>1. Len(events) \in Nat /\ HistoryPerRun \in Nat \ {0}
  BY LenProperties, Sizes
<1>2. k \in Nat /\ k <= Len(events)
  BY <1>1
<1>3. Latest(events) = SubSeq(events, k + 1, Len(events))
  BY <1>1 DEF Latest
<1>4. Len(events) - k <= HistoryPerRun /\ (Len(events) > 0 => Len(events) - k > 0)
  BY <1>1
<1> HIDE DEF k
<1>5. \A i \in k + 1 .. Len(events) : events[i] \in Event
  BY <1>1, <1>2, ElementOfSeq
<1>6. /\ SubSeq(events, k + 1, Len(events)) \in Seq(Event)
      /\ Len(SubSeq(events, k + 1, Len(events)))
           = IF k + 1 <= Len(events) THEN Len(events) - (k + 1) + 1 ELSE 0
      /\ \A i \in 1 .. Len(events) - (k + 1) + 1 :
            SubSeq(events, k + 1, Len(events))[i] = events[k + 1 + i - 1]
  BY <1>1, <1>2, <1>5, SubSeqProperties
<1>7. Len(Latest(events)) = Len(events) - k
  BY <1>1, <1>2, <1>3, <1>6
<1>8. \A i \in 1 .. Len(events) - k : Latest(events)[i] = events[i + k]
  <2>1. ASSUME NEW i \in 1 .. Len(events) - k PROVE Latest(events)[i] = events[i + k]
    <3>1. i \in 1 .. Len(events) - (k + 1) + 1 /\ k + 1 + i - 1 = i + k
      BY <1>1, <1>2
    <3> QED
      BY <1>3, <1>6, <3>1
  <2> QED
    BY <2>1
<1> QED
  BY <1>1, <1>2, <1>3, <1>4, <1>6, <1>7, <1>8

\* Publishing into a history, and forgetting the oldest run for it.
LEMMA RemembersKeeps ==
    ASSUME Bus, NEW r \in Runs, NEW event \in Event, Remembers(r, event)
    PROVE  /\ history' \in [Runs -> Seq(Event)] /\ retained' \in Seq(Runs)
           /\ closed' \in SUBSET closed
           /\ Kept'
           /\ \A x \in Runs : history'[x] \in {<< >>, history[x], Latest(Append(history[r], event))}
           /\ \A x \in Runs : x # r => history'[x] \in {<< >>, history[x]}
<1> DEFINE runs == IF Contains(retained, r) THEN retained ELSE Append(retained, r)
           gone == Evicted(runs)
           longer == Latest(Append(history[r], event))
<1>1. /\ history' = [x \in Runs |-> IF x \in gone THEN << >>
                                    ELSE IF x = r THEN longer ELSE history[x]]
      /\ retained' = IF gone = {} THEN runs ELSE Tail(runs)
      /\ closed' = closed \ gone
  BY DEF Remembers
<1>2. /\ longer \in Seq(Event) /\ Len(longer) <= HistoryPerRun /\ longer # << >>
  <2>1. Append(history[r], event) \in Seq(Event) /\ Len(Append(history[r], event)) > 0
    <3>1. history[r] \in Seq(Event)
      BY DEF Bus, Typed
    <3> QED
      BY <3>1, AppendProperties, LenProperties
  <2>2. longer \in Seq(Event) /\ Len(longer) <= HistoryPerRun /\ Len(longer) > 0
    BY <2>1, LatestKeeps
  <2> QED
    BY <2>2, EmptySeq
<1>3. /\ runs \in Seq(Runs) /\ IsInjective(runs) /\ Len(runs) \in Nat
      /\ Len(runs) <= MaxRuns + 1
      /\ \A x : Contains(runs, x) <=> Contains(retained, x) \/ x = r
  <2>1. retained \in Seq(Runs) /\ IsInjective(retained) /\ Len(retained) <= MaxRuns
    BY DEF Bus, Typed, Kept
  <2>2. Len(retained) \in Nat /\ MaxRuns \in Nat
    BY <2>1, LenProperties, Sizes
  <2>3. CASE Contains(retained, r)
    BY <2>1, <2>2, <2>3
  <2>4. CASE ~Contains(retained, r)
    <3>1. /\ Append(retained, r) \in Seq(Runs) /\ Len(Append(retained, r)) = Len(retained) + 1
          /\ IsInjective(Append(retained, r))
          /\ \A y : Contains(Append(retained, r), y) <=> Contains(retained, y) \/ y = r
      BY <2>1, <2>4, AppendSet
    <3> QED
      BY <2>1, <2>2, <2>4, <3>1
  <2> QED
    BY <2>3, <2>4
<1> HIDE DEF runs, longer
<1>4. /\ retained' \in Seq(Runs) /\ IsInjective(retained') /\ Len(retained') <= MaxRuns
      /\ \A x : Contains(retained', x) <=> Contains(runs, x) /\ x \notin gone
  <2>1. CASE Len(runs) > MaxRuns
    <3>1. gone = {Head(runs)} /\ retained' = Tail(runs)
      BY <1>1, <2>1 DEF Evicted
    <3>2. runs # << >>
      BY <1>3, <2>1, EmptySeq, Sizes
    <3>3. /\ Tail(runs) \in Seq(Runs) /\ Len(Tail(runs)) = Len(runs) - 1
          /\ IsInjective(Tail(runs)) /\ ~Contains(Tail(runs), Head(runs))
          /\ \A y : Contains(Tail(runs), y) => Contains(runs, y)
          /\ \A y : Contains(runs, y) => Contains(Tail(runs), y) \/ y = Head(runs)
      BY <1>3, <3>2, TailSet
    <3>4. Len(Tail(runs)) <= MaxRuns
      BY <1>3, <3>3, Sizes
    <3> HIDE DEF gone
    <3> QED
      BY <3>1, <3>3, <3>4
  <2>2. CASE ~(Len(runs) > MaxRuns)
    <3>1. gone = {} /\ retained' = runs
      BY <1>1, <2>2 DEF Evicted
    <3>2. Len(runs) <= MaxRuns
      BY <1>3, <2>2, Sizes
    <3> HIDE DEF gone
    <3> QED
      BY <1>3, <3>1, <3>2
  <2> QED
    BY <2>1, <2>2
<1> HIDE DEF gone
<1>5. history \in [Runs -> Seq(Event)]
      /\ \A x \in Runs : Len(history[x]) <= HistoryPerRun
                         /\ (history[x] # << >> <=> Contains(retained, x))
  BY DEF Bus, Typed, Kept
<1>6. << >> \in Seq(Event) /\ Len(<< >>) = 0 /\ 0 <= HistoryPerRun
  BY EmptySeq, Sizes
<1>7. history' \in [Runs -> Seq(Event)]
  BY <1>1, <1>2, <1>5, <1>6
<1>8. ASSUME NEW x \in Runs
      PROVE  /\ history'[x] = IF x \in gone THEN << >> ELSE IF x = r THEN longer ELSE history[x]
             /\ Len(history'[x]) <= HistoryPerRun
             /\ history'[x] # << >> <=> Contains(retained', x)
  <2>1. history'[x] = IF x \in gone THEN << >> ELSE IF x = r THEN longer ELSE history[x]
    BY <1>1
  <2>2. Len(history'[x]) <= HistoryPerRun
    BY <1>2, <1>5, <1>6, <2>1
  <2>3. history'[x] # << >> <=> Contains(retained', x)
    BY <1>2, <1>3, <1>4, <1>5, <2>1
  <2> QED
    BY <2>1, <2>2, <2>3
<1>9. Kept'
  BY <1>4, <1>8 DEF Kept
<1>10. \A x \in Runs : history'[x] \in {<< >>, history[x], longer}
  BY <1>8
<1>11. \A x \in Runs : x # r => history'[x] \in {<< >>, history[x]}
  BY <1>8
<1> QED
  BY <1>1, <1>4, <1>7, <1>9, <1>10, <1>11 DEF longer

LEMMA NothingLeft ==
    /\ Idle \in Posts /\ << >> \in Seq(Subscribers) /\ IsInjective(<< >>)
    /\ Idle.to = << >> /\ \A x : ~Contains(<< >>, x)
<1>1. << >> \in Seq(Subscribers) /\ Len(<< >>) = 0
  BY EmptySeq
<1>2. DOMAIN << >> = {}
  OBVIOUS
<1> QED
  BY <1>1, <1>2 DEF Idle, Posts, Contains, IsInjective

\* A publish goes on to its next subscriber, or is over.
LEMMA MovesOnPosts ==
    ASSUME sending \in [Publishers -> Posts], NEW p \in Publishers, Sends(p), MovesOn(p)
    PROVE  /\ sending' \in [Publishers -> Posts]
           /\ \A o \in Publishers : o # p => sending'[o] = sending[o]
           /\ Next1(p) \in Subscribers /\ Contains(sending[p].to, Next1(p))
           /\ sending'[p].to # << >> => sending'[p].event = sending[p].event
           /\ \A x : Contains(sending'[p].to, x) => Contains(sending[p].to, x)
           /\ \A x : Contains(sending[p].to, x) => Contains(sending'[p].to, x) \/ x = Next1(p)
           /\ IsInjective(sending[p].to) =>
                 IsInjective(sending'[p].to) /\ ~Contains(sending'[p].to, Next1(p))
<1> DEFINE to == sending[p].to
           event == sending[p].event
           rest == IF Len(to) = 1 THEN Idle ELSE [event |-> event, to |-> Tail(to)]
<1>1. to \in Seq(Subscribers) /\ event \in Event \cup {End} /\ to # << >>
  BY DEF Posts, Sends
<1>2. sending' = [sending EXCEPT ![p] = rest]
  BY DEF MovesOn
<1> HIDE DEF to, event
<1>3. /\ Head(to) \in Subscribers /\ Contains(to, Head(to))
      /\ Tail(to) \in Seq(Subscribers) /\ Len(Tail(to)) = Len(to) - 1 /\ Len(to) \in Nat \ {0}
      /\ \A y : Contains(Tail(to), y) => Contains(to, y)
      /\ \A y : Contains(to, y) => Contains(Tail(to), y) \/ y = Head(to)
      /\ IsInjective(to) => IsInjective(Tail(to)) /\ ~Contains(Tail(to), Head(to))
  BY <1>1, TailSet
<1>4. Len(to) = 1 => \A y : ~Contains(Tail(to), y)
  <2>1. SUFFICES ASSUME Len(to) = 1 PROVE \A y : ~Contains(Tail(to), y)
    OBVIOUS
  <2>2. Len(Tail(to)) = 0
    <3>1. Len(Tail(to)) = 1 - 1
      BY <1>3, <2>1, Zenon
    <3> QED
      BY <3>1
  <2>3. 1 .. Len(Tail(to)) = {}
    <3>1. 1 .. 0 = {}
      OBVIOUS
    <3> QED
      BY <2>2, <3>1, Zenon
  <2> QED
    BY <2>3 DEF Contains
<1>5. /\ rest \in Posts
      /\ rest.to # << >> => rest.event = event
      /\ \A x : Contains(rest.to, x) => Contains(to, x)
      /\ \A x : Contains(to, x) => Contains(rest.to, x) \/ x = Head(to)
      /\ IsInjective(to) => IsInjective(rest.to) /\ ~Contains(rest.to, Head(to))
  <2>1. CASE Len(to) = 1
    <3>1. rest = Idle
      BY <2>1
    <3>2. \A x : Contains(to, x) => x = Head(to)
      BY <1>3, <1>4, <2>1
    <3> HIDE DEF rest
    <3> QED
      BY <3>1, <3>2, NothingLeft
  <2>2. CASE Len(to) # 1
    <3>1. rest = [event |-> event, to |-> Tail(to)]
      BY <2>2
    <3>2. rest.to = Tail(to) /\ rest.event = event
      BY <3>1
    <3>3. rest \in Posts
      BY <1>1, <1>3, <3>1 DEF Posts
    <3> HIDE DEF rest
    <3> QED
      BY <1>3, <3>2, <3>3
  <2> QED
    BY <2>1, <2>2
<1> HIDE DEF rest
<1>6. sending'[p] = rest /\ sending' \in [Publishers -> Posts]
      /\ \A o \in Publishers : o # p => sending'[o] = sending[o]
  BY <1>2, <1>5
<1>7. Next1(p) = Head(to)
  BY DEF Next1, to
<1> QED
  BY <1>3, <1>5, <1>6, <1>7 DEF to, event

\* A subscriber's loop is over.
LEMMA FinishTyped ==
    ASSUME Bus, NEW s \in Subscribers, Finishes(s)
    PROVE  /\ registered' \in [Channels -> Seq(Subscribers)]
           /\ \A x \in Subscribers : \A c \in Channels :
                 Contains(registered'[c], x) <=> Listens(x, c) /\ x # s
           /\ Rosters'
<1>1. registered' = [c \in Channels |-> RemoveFirst(registered[c], s)]
  BY DEF Finishes, Removed
<1>2. registered \in [Channels -> Seq(Subscribers)] /\ Rosters
  BY DEF Bus, Typed
<1>3. ASSUME NEW c \in Channels
      PROVE  /\ registered'[c] \in Seq(Subscribers) /\ IsInjective(registered'[c])
             /\ Len(registered'[c]) <= Len(registered[c])
             /\ \A y : Contains(registered'[c], y) <=> Contains(registered[c], y) /\ y # s
  <2>1. registered[c] \in Seq(Subscribers) /\ IsInjective(registered[c])
    BY <1>2 DEF Rosters
  <2>2. registered'[c] = RemoveFirst(registered[c], s)
    BY <1>1
  <2> QED
    BY <2>1, <2>2, RemovedSet
<1>4. registered' \in [Channels -> Seq(Subscribers)]
  <2>1. \A c \in Channels : RemoveFirst(registered[c], s) \in Seq(Subscribers)
    BY <1>1, <1>3
  <2> QED
    BY <1>1, <2>1
<1>5. Len(registered'[Everything]) <= MaxGlobals
  <2>1. Len(registered'[Everything]) \in Nat /\ Len(registered[Everything]) \in Nat
    BY <1>2, <1>4, Sizes, LenProperties
  <2> QED
    BY <1>2, <1>3, <2>1, Sizes DEF Rosters
<1>6. ASSUME NEW x \in Subscribers, NEW c \in Channels
      PROVE  Contains(registered'[c], x) <=> Listens(x, c) /\ x # s
  BY <1>3 DEF Listens
<1>7. ASSUME NEW x \in Subscribers, NEW c \in Channels, Contains(registered'[c], x)
      PROVE  reader'[x] = "reading" /\ target'[x] = c
  <2>1. x # s /\ Reading(x) /\ target[x] = c
    BY <1>2, <1>6, <1>7 DEF Rosters
  <2>2. reader' = [reader EXCEPT ![s] = "done"] /\ target' = target
        /\ reader \in [Subscribers -> {"new", "reading", "done"}]
    BY DEF Finishes, Bus, Typed
  <2> QED
    BY <2>1, <2>2 DEF Reading
<1> QED
  BY <1>3, <1>4, <1>5, <1>6, <1>7 DEF Rosters, Listens, Reading

\* A subscriber starts to read a channel, and registers on it.
LEMMA RegisterTyped ==
    ASSUME Bus, NEW s \in Subscribers, NEW c \in Channels, Starts(s, c), Registers(s, c),
           c = Everything => Len(registered[Everything]) < MaxGlobals
    PROVE  /\ registered' \in [Channels -> Seq(Subscribers)]
           /\ \A x \in Subscribers : \A d \in Channels :
                 Contains(registered'[d], x) <=> Listens(x, d) \/ (x = s /\ d = c)
           /\ Rosters'
<1>1. /\ registered' = [registered EXCEPT ![c] = Append(@, s)]
      /\ reader[s] = "new" /\ reader' = [reader EXCEPT ![s] = "reading"]
      /\ target' = [target EXCEPT ![s] = c]
  BY DEF Registers, Starts
<1>2. /\ registered \in [Channels -> Seq(Subscribers)] /\ Rosters
      /\ reader \in [Subscribers -> {"new", "reading", "done"}]
      /\ target \in [Subscribers -> Channels]
  BY DEF Bus, Typed
<1>3. \A d \in Channels : ~Contains(registered[d], s)
  BY <1>1, <1>2 DEF Rosters, Listens, Reading
<1> DEFINE more == Append(registered[c], s)
<1>4. /\ more \in Seq(Subscribers) /\ Len(more) = Len(registered[c]) + 1
      /\ \A y : Contains(more, y) <=> Contains(registered[c], y) \/ y = s
      /\ IsInjective(more)
  <2>1. registered[c] \in Seq(Subscribers) /\ IsInjective(registered[c])
    BY <1>2 DEF Rosters
  <2> QED
    BY <1>3, <2>1, AppendSet
<1> HIDE DEF more
<1>5. registered' = [registered EXCEPT ![c] = more]
  BY <1>1 DEF more
<1>6. registered' \in [Channels -> Seq(Subscribers)]
      /\ \A d \in Channels : registered'[d] = IF d = c THEN more ELSE registered[d]
  BY <1>2, <1>4, <1>5
<1>7. ASSUME NEW x \in Subscribers, NEW d \in Channels
      PROVE  Contains(registered'[d], x) <=> Listens(x, d) \/ (x = s /\ d = c)
  BY <1>4, <1>6 DEF Listens
<1>8. Len(registered'[Everything]) <= MaxGlobals
  <2>1. Len(registered[Everything]) \in Nat /\ MaxGlobals \in Nat
    BY <1>2, Sizes, LenProperties
  <2>2. CASE c = Everything
    BY <1>4, <1>6, <2>1, <2>2, Sizes
  <2>3. CASE c # Everything
    BY <1>2, <1>6, <2>3, Sizes DEF Rosters
  <2> QED
    BY <2>2, <2>3
<1>9. \A d \in Channels : IsInjective(registered'[d])
  BY <1>2, <1>4, <1>6 DEF Rosters
<1>10. ASSUME NEW x \in Subscribers, NEW d \in Channels, Contains(registered'[d], x)
       PROVE  reader'[x] = "reading" /\ target'[x] = d
  <2>1. CASE x = s
    BY <1>1, <1>2, <1>3, <1>7, <1>10, <2>1 DEF Listens
  <2>2. CASE x # s
    BY <1>1, <1>2, <1>7, <1>10, <2>2 DEF Rosters, Reading
  <2> QED
    BY <2>1, <2>2
<1> QED
  BY <1>6, <1>7, <1>8, <1>9, <1>10 DEF Rosters, Listens, Reading

\* The end marker goes into a queue, which may lose its oldest event to it.
LEMMA ClosedQueue ==
    ASSUME NEW q \in Seq(Event \cup {End}), Len(q) <= QueueSize
    PROVE  LET rest == IF Len(q) = QueueSize THEN Tail(q) ELSE q
           IN  /\ rest \in Seq(Event \cup {End}) /\ Append(rest, End) \in Seq(Event \cup {End})
               /\ Len(rest) < QueueSize /\ Len(Append(rest, End)) <= QueueSize
               /\ Contains(Append(rest, End), End)
               /\ Len(q) = QueueSize => q # << >> /\ Head(q) \in Event \cup {End}
<1> DEFINE rest == IF Len(q) = QueueSize THEN Tail(q) ELSE q
<1>1. Len(q) \in Nat /\ QueueSize \in Nat \ {0}
  BY Sizes, LenProperties
<1>2. Len(q) = QueueSize => q # << >>
  BY <1>1, EmptySeq
<1>3. Len(q) = QueueSize =>
        /\ Head(q) \in Event \cup {End}
        /\ Tail(q) \in Seq(Event \cup {End}) /\ Len(Tail(q)) = Len(q) - 1
  BY <1>2, TailSet
<1>4. rest \in Seq(Event \cup {End}) /\ Len(rest) < QueueSize
  BY <1>1, <1>3
<1>5. /\ Append(rest, End) \in Seq(Event \cup {End}) /\ Len(Append(rest, End)) = Len(rest) + 1
      /\ \A y : Contains(Append(rest, End), y) <=> Contains(rest, y) \/ y = End
  <2> HIDE DEF rest
  <2>1. End \in Event \cup {End}
    OBVIOUS
  <2> QED
    BY <1>4, <2>1, AppendSet
<1>6. Len(Append(rest, End)) <= QueueSize
  <2> HIDE DEF rest
  <2>1. Len(rest) \in Nat
    BY <1>4, LenProperties
  <2> QED
    BY <1>1, <1>4, <1>5, <2>1
<1> HIDE DEF rest
<1> QED
  BY <1>2, <1>3, <1>4, <1>5, <1>6 DEF rest

\* Everybody leaves a channel that is closed.
LEMMA EmptiedTyped ==
    ASSUME Bus, NEW c \in Channels, registered' = [registered EXCEPT ![c] = << >>],
           UNCHANGED <<reader, target>>
    PROVE  /\ registered' \in [Channels -> Seq(Subscribers)]
           /\ \A x : \A d \in Channels : Contains(registered'[d], x) <=> Listens(x, d) /\ d # c
           /\ Rosters'
<1>1. registered \in [Channels -> Seq(Subscribers)] /\ Rosters
  BY DEF Bus, Typed
<1>2. \A d \in Channels : registered'[d] = IF d = c THEN << >> ELSE registered[d]
  BY <1>1
<1>3. << >> \in Seq(Subscribers) /\ IsInjective(<< >>) /\ Len(<< >>) = 0
      /\ \A x : ~Contains(<< >>, x)
  BY NothingLeft, EmptySeq
<1>4. registered' \in [Channels -> Seq(Subscribers)]
  BY <1>1, <1>3
<1>5. Len(registered'[Everything]) <= MaxGlobals
  BY <1>1, <1>2, <1>3, Sizes DEF Rosters
<1>6. \A x : \A d \in Channels : Contains(registered'[d], x) <=> Listens(x, d) /\ d # c
  BY <1>2, <1>3 DEF Listens
<1>7. \A d \in Channels : IsInjective(registered'[d])
  BY <1>1, <1>2, <1>3 DEF Rosters
<1>8. \A x \in Subscribers : \A d \in Channels :
         Contains(registered'[d], x) => reader'[x] = "reading" /\ target'[x] = d
  BY <1>1, <1>6 DEF Rosters, Reading
<1> QED
  BY <1>4, <1>5, <1>6, <1>7, <1>8 DEF Rosters, Listens, Reading

\* What a subscriber finds in its queue when it comes: of a history, as much as fits.
Fits(r) == SubSeq(history[r], 1, IF Len(history[r]) < QueueSize THEN Len(history[r]) ELSE QueueSize)

LEMMA FitsTyped ==
    ASSUME Bus, NEW r \in Runs
    PROVE  /\ Fits(r) \in Seq(Event) /\ Fits(r) \in Seq(Event \cup {End})
           /\ Len(Fits(r)) <= QueueSize /\ Len(Fits(r)) <= Len(history[r])
           /\ \A i \in 1 .. Len(Fits(r)) : Fits(r)[i] = history[r][i]
<1> DEFINE k == IF Len(history[r]) < QueueSize THEN Len(history[r]) ELSE QueueSize
<1>1. history[r] \in Seq(Event) /\ Len(history[r]) \in Nat /\ QueueSize \in Nat
  BY Sizes, LenProperties DEF Bus, Typed
<1>2. k \in Nat /\ k <= QueueSize /\ k <= Len(history[r])
  BY <1>1
<1> HIDE DEF k
<1>3. \A i \in 1 .. k : history[r][i] \in Event
  BY <1>1, <1>2, ElementOfSeq
<1>4. /\ SubSeq(history[r], 1, k) \in Seq(Event)
      /\ Len(SubSeq(history[r], 1, k)) = IF 1 <= k THEN k - 1 + 1 ELSE 0
      /\ \A i \in 1 .. k - 1 + 1 : SubSeq(history[r], 1, k)[i] = history[r][1 + i - 1]
  BY <1>2, <1>3, SubSeqProperties
<1>5. Fits(r) = SubSeq(history[r], 1, k)
  BY DEF Fits, k
<1>6. Len(Fits(r)) = k /\ Fits(r) \in Seq(Event)
  BY <1>2, <1>4, <1>5
<1>7. \A i \in 1 .. Len(Fits(r)) : Fits(r)[i] = history[r][i]
  <2>1. ASSUME NEW i \in 1 .. k PROVE Fits(r)[i] = history[r][i]
    <3>1. i \in 1 .. k - 1 + 1 /\ 1 + i - 1 = i
      BY <1>2
    <3> QED
      BY <1>4, <1>5, <3>1
  <2> QED
    BY <1>6, <2>1
<1>8. Fits(r) \in Seq(Event \cup {End})
  BY <1>6, SeqMonotonic
<1> QED
  BY <1>2, <1>6, <1>7, <1>8

LEMMA SubscribeTyped ==
    ASSUME Bus, NEW s \in Subscribers, NEW r \in Runs, Subscribe(s, r)
    PROVE  Bus'
<1>1. /\ UNCHANGED <<history, retained, closed, sending, published, last>>
      /\ Starts(s, r)
      /\ missed' = [missed EXCEPT ![s] = @ \cup (ToSet(history[r]) \ ToSet(Fits(r)))]
      /\ \/ /\ r \in closed
            /\ queue' = [queue EXCEPT ![s] =
                  IF Len(Fits(r)) < QueueSize THEN Append(Fits(r), End) ELSE Fits(r)]
            /\ UNCHANGED <<registered, since>>
         \/ /\ r \notin closed
            /\ queue' = [queue EXCEPT ![s] = Fits(r)]
            /\ Registers(s, r)
  BY DEF Subscribe, Misses, Fits
<1>2. /\ Typed /\ Kept /\ Rosters /\ QueuesFit
      /\ reader \in [Subscribers -> {"new", "reading", "done"}]
      /\ target \in [Subscribers -> Channels] /\ r \in Channels
      /\ registered \in [Channels -> Seq(Subscribers)]
      /\ queue \in [Subscribers -> Seq(Event \cup {End})]
      /\ missed \in [Subscribers -> SUBSET (Event \cup {End})]
      /\ since \in [Subscribers -> Nat] /\ Len(published) \in Nat /\ history[r] \in Seq(Event)
  BY Sizes, LenProperties DEF Bus, Typed
<1>3. /\ Fits(r) \in Seq(Event \cup {End}) /\ Len(Fits(r)) <= QueueSize
      /\ Len(Fits(r)) \in Nat /\ QueueSize \in Nat
  BY FitsTyped, LenProperties, Sizes
<1>4. missed' \in [Subscribers -> SUBSET (Event \cup {End})]
  <2>1. ToSet(history[r]) \in SUBSET Event
    BY <1>2, LenProperties, ElementOfSeq DEF ToSet
  <2> QED
    BY <1>1, <1>2, <2>1
<1>5. reader' \in [Subscribers -> {"new", "reading", "done"}] /\ target' \in [Subscribers -> Channels]
  BY <1>1, <1>2 DEF Starts
<1>6. queue' \in [Subscribers -> Seq(Event \cup {End})] /\ QueuesFit'
  <2> DEFINE full == IF Len(Fits(r)) < QueueSize THEN Append(Fits(r), End) ELSE Fits(r)
  <2>1. full \in Seq(Event \cup {End}) /\ Len(full) <= QueueSize
    <3>1. End \in Event \cup {End}
      OBVIOUS
    <3>2. Append(Fits(r), End) \in Seq(Event \cup {End}) /\ Len(Append(Fits(r), End)) = Len(Fits(r)) + 1
      BY <1>3, <3>1, AppendSet
    <3> QED
      BY <1>3, <3>2
  <2>2. PICK q \in {full, Fits(r)} : queue' = [queue EXCEPT ![s] = q]
    BY <1>1
  <2>3. q \in Seq(Event \cup {End}) /\ Len(q) <= QueueSize
    BY <1>3, <2>1, <2>2
  <2> HIDE DEF full
  <2> QED
    BY <1>2, <2>2, <2>3 DEF QueuesFit
<1>7. /\ registered' \in [Channels -> Seq(Subscribers)] /\ since' \in [Subscribers -> Nat]
      /\ Rosters'
  <2>1. CASE r \in closed
    <3>1. UNCHANGED <<registered, since>>
      BY <1>1, <2>1
    <3>2. \A x \in Subscribers : \A c \in Channels :
             Contains(registered[c], x) => reader'[x] = "reading" /\ target'[x] = c
      BY <1>1, <1>2 DEF Rosters, Listens, Reading, Starts
    <3> QED
      BY <1>2, <3>1, <3>2 DEF Rosters, Listens, Reading
  <2>2. CASE r \notin closed
    <3>1. Starts(s, r) /\ Registers(s, r) /\ r # Everything
      BY <1>1, <2>2, Sizes
    <3>2. since' \in [Subscribers -> Nat]
      BY <1>2, <3>1 DEF Registers
    <3> QED
      BY <1>2, <3>1, <3>2, RegisterTyped
  <2> QED
    BY <2>1, <2>2
<1>8. Kept'
  BY <1>1, <1>2 DEF Kept
<1> QED
  BY <1>1, <1>2, <1>4, <1>5, <1>6, <1>7, <1>8 DEF Bus, Typed

LEMMA PublishTyped ==
    ASSUME Bus, NEW p \in Publishers, NEW r \in Runs, Publish(p, r)
    PROVE  /\ Bus'
           /\ \E event \in Event :
                 /\ event = [run |-> r, by |-> p, n |-> Len(published) + 1]
                 /\ Remembers(r, event)
                 /\ published' = Append(published, event)
                 /\ \A o \in Publishers : o # p => sending'[o] = sending[o]
                 /\ sending'[p].to = registered[r] \o registered[Everything]
                 /\ sending'[p].to # << >> => sending'[p].event = event
<1> DEFINE event == [run |-> r, by |-> p, n |-> Len(published) + 1]
           to == registered[r] \o registered[Everything]
           post == IF to = << >> THEN Idle ELSE [event |-> event, to |-> to]
<1>1. /\ Len(published) < MaxEvents /\ Remembers(r, event)
      /\ published' = Append(published, event)
      /\ sending' = [sending EXCEPT ![p] = post]
      /\ registered' = registered
      /\ UNCHANGED <<queue, reader, target, last, since, missed>>
  BY DEF Publish, ReadersUnchanged
<1>2. /\ published \in Seq(Event) /\ sending \in [Publishers -> Posts]
      /\ registered \in [Channels -> Seq(Subscribers)] /\ Len(published) \in Nat
  BY LenProperties DEF Bus, Typed
<1>3. event \in Event
  <2>1. MaxEvents \in Nat
    BY BusAssumption
  <2>2. Len(published) + 1 \in 1 .. MaxEvents
    BY <1>1, <1>2, <2>1
  <2> QED
    BY <2>2 DEF Event
<1>4. to \in Seq(Subscribers)
  <2>1. registered[r] \in Seq(Subscribers) /\ registered[Everything] \in Seq(Subscribers)
    BY <1>2, Sizes
  <2> QED
    BY <2>1, ConcatProperties
<1> HIDE DEF event, to
<1>5. post \in Posts /\ post.to = to /\ (post.to # << >> => post.event = event)
  <2>1. CASE to = << >>
    <3>1. post = Idle
      BY <2>1
    <3> HIDE DEF post
    <3> QED
      BY <2>1, <3>1, NothingLeft
  <2>2. CASE to # << >>
    <3>1. post = [event |-> event, to |-> to]
      BY <2>2
    <3> HIDE DEF post
    <3> QED
      BY <1>3, <1>4, <3>1 DEF Posts
  <2> QED
    BY <2>1, <2>2
<1> HIDE DEF post
<1>6. /\ sending' \in [Publishers -> Posts] /\ sending'[p] = post
      /\ \A o \in Publishers : o # p => sending'[o] = sending[o]
  BY <1>1, <1>2, <1>5
<1>7. published' \in Seq(Event)
  BY <1>1, <1>2, <1>3, AppendProperties
<1>8. /\ history' \in [Runs -> Seq(Event)] /\ retained' \in Seq(Runs)
      /\ closed' \in SUBSET closed /\ Kept'
  BY <1>1, <1>3, RemembersKeeps
<1>9. Typed'
  BY <1>1, <1>6, <1>7, <1>8 DEF Bus, Typed
<1>10. Rosters' /\ QueuesFit'
  BY <1>1 DEF Bus, Rosters, QueuesFit, Listens, Reading
<1> QED
  BY <1>1, <1>3, <1>5, <1>6, <1>8, <1>9, <1>10 DEF Bus, event, to

LEMMA DeliverTyped ==
    ASSUME Bus, NEW p \in Publishers, Deliver(p)
    PROVE  Bus'
<1>1. /\ sending \in [Publishers -> Posts] /\ Typed /\ Kept /\ Rosters /\ QueuesFit
      /\ queue \in [Subscribers -> Seq(Event \cup {End})]
  BY DEF Bus, Typed
<1>2. sending' \in [Publishers -> Posts] /\ Next1(p) \in Subscribers
  BY <1>1, MovesOnPosts DEF Deliver
<1> DEFINE s == Next1(p)
           more == Append(queue[s], sending[p].event)
<1>3. Len(queue[s]) < QueueSize /\ queue' = [queue EXCEPT ![s] = more]
  BY DEF Deliver
<1>4. more \in Seq(Event \cup {End}) /\ Len(more) = Len(queue[s]) + 1 /\ Len(queue[s]) \in Nat
  <2>1. queue[s] \in Seq(Event \cup {End}) /\ sending[p].event \in Event \cup {End}
    BY <1>1, <1>2 DEF Posts
  <2> QED
    BY <2>1, AppendSet, LenProperties
<1>5. Len(more) <= QueueSize
  BY <1>3, <1>4, Sizes
<1> HIDE DEF s, more
<1>6. queue' \in [Subscribers -> Seq(Event \cup {End})] /\ QueuesFit'
  BY <1>1, <1>3, <1>4, <1>5 DEF QueuesFit
<1>7. UNCHANGED <<history, retained, closed, registered, published, reader, target,
                  last, since, missed>>
  BY DEF Deliver, BusUnchanged
<1>8. Typed'
  BY <1>1, <1>2, <1>6, <1>7 DEF Typed
<1> QED
  BY <1>1, <1>6, <1>7, <1>8 DEF Bus, Kept, Rosters, Listens, Reading

\* Steps that leave the queues' subscribers and histories as they are.
LEMMA GetTyped ==
    ASSUME Bus, NEW s \in Subscribers, Get(s)
    PROVE  /\ Bus' /\ queue[s] # << >> /\ queue[s] \in Seq(Event \cup {End})
           /\ Head(queue[s]) \in Event
           /\ queue'[s] = Tail(queue[s])
           /\ \A x \in Subscribers : x # s => queue'[x] = queue[x]
           /\ last'[s][Head(queue[s]).by] = Head(queue[s]).n
           /\ \A x \in Subscribers, p \in Publishers :
                 x # s \/ p # Head(queue[s]).by => last'[x][p] = last[x][p]
<1>1. /\ Typed /\ Kept /\ Rosters /\ QueuesFit
      /\ queue \in [Subscribers -> Seq(Event \cup {End})]
      /\ last \in [Subscribers -> [Publishers -> Nat]]
  BY DEF Bus, Typed
<1> DEFINE h == Head(queue[s])
           rest == Tail(queue[s])
<1>2. /\ queue[s] # << >> /\ h # End /\ queue' = [queue EXCEPT ![s] = rest]
      /\ last' = [last EXCEPT ![s][h.by] = h.n]
      /\ UNCHANGED <<history, retained, closed, registered, published, reader, target,
                     sending, since, missed>>
  BY DEF Get, BusUnchanged
<1>3. /\ rest \in Seq(Event \cup {End}) /\ Len(rest) = Len(queue[s]) - 1
      /\ Len(queue[s]) \in Nat \ {0} /\ h \in Event \cup {End}
  BY <1>1, <1>2, TailSet
<1>4. h \in Event
  BY <1>2, <1>3
<1>5. h.by \in Publishers /\ h.n \in Nat
  <2>1. h.n \in 1 .. MaxEvents /\ MaxEvents \in Nat /\ h.by \in Publishers
    BY <1>4, BusAssumption DEF Event
  <2> QED
    BY <2>1
<1>6. Len(rest) <= QueueSize
  <2>1. Len(queue[s]) <= QueueSize
    BY <1>1 DEF QueuesFit
  <2> QED
    BY <1>3, <2>1, Sizes
<1> HIDE DEF h, rest
<1>7. queue' \in [Subscribers -> Seq(Event \cup {End})] /\ QueuesFit'
  BY <1>1, <1>2, <1>3, <1>6 DEF QueuesFit
<1>8. last' \in [Subscribers -> [Publishers -> Nat]]
  BY <1>1, <1>2, <1>5
<1>9. Typed'
  BY <1>1, <1>2, <1>7, <1>8 DEF Typed
<1>10. Bus'
  BY <1>1, <1>2, <1>7, <1>9 DEF Bus, Kept, Rosters, Listens, Reading
<1>11. last'[s][h.by] = h.n
       /\ \A x \in Subscribers, p \in Publishers : x # s \/ p # h.by => last'[x][p] = last[x][p]
  BY <1>1, <1>2, <1>5
<1>12. queue'[s] = rest /\ \A x \in Subscribers : x # s => queue'[x] = queue[x]
  BY <1>1, <1>2
<1> QED
  BY <1>1, <1>2, <1>4, <1>10, <1>11, <1>12 DEF h, rest

LEMMA FinishesTyped ==
    ASSUME Bus, NEW s \in Subscribers, Finishes(s), queue' \in [Subscribers -> Seq(Event \cup {End})],
           QueuesFit'
    PROVE  Bus'
<1>1. registered' \in [Channels -> Seq(Subscribers)] /\ Rosters'
  BY FinishTyped
<1>2. Typed /\ Kept
  BY DEF Bus
<1>3. /\ reader' = [reader EXCEPT ![s] = "done"]
      /\ last' = [last EXCEPT ![s] = SeenNothing]
      /\ since' = [since EXCEPT ![s] = 0]
      /\ missed' = [missed EXCEPT ![s] = {}]
      /\ UNCHANGED <<history, retained, closed, target, sending, published>>
  BY DEF Finishes
<1>4. SeenNothing \in [Publishers -> Nat]
  BY DEF SeenNothing
<1>5. /\ reader' \in [Subscribers -> {"new", "reading", "done"}]
      /\ last' \in [Subscribers -> [Publishers -> Nat]]
      /\ since' \in [Subscribers -> Nat]
      /\ missed' \in [Subscribers -> SUBSET (Event \cup {End})]
  BY <1>2, <1>3, <1>4 DEF Typed
<1>6. Typed'
  BY <1>1, <1>2, <1>3, <1>5 DEF Typed
<1> QED
  BY <1>1, <1>2, <1>3, <1>6 DEF Bus, Kept

LEMMA CloseStreamTyped ==
    ASSUME Bus, NEW r \in Runs, CloseStream(r)
    PROVE  Bus'
<1>1. /\ Typed /\ Kept /\ Rosters /\ QueuesFit /\ r \in Channels
      /\ queue \in [Subscribers -> Seq(Event \cup {End})]
      /\ missed \in [Subscribers -> SUBSET (Event \cup {End})]
  BY Sizes DEF Bus, Typed
<1> DEFINE q(s) == Append(IF Full(s) THEN Tail(queue[s]) ELSE queue[s], End)
<1>2. ASSUME NEW s \in Subscribers
      PROVE  q(s) \in Seq(Event \cup {End}) /\ Len(q(s)) <= QueueSize
             /\ (Full(s) => Head(queue[s]) \in Event \cup {End})
  <2>1. queue[s] \in Seq(Event \cup {End}) /\ Len(queue[s]) <= QueueSize
    BY <1>1 DEF QueuesFit
  <2> QED
    BY <2>1, ClosedQueue DEF Full
<1>3. /\ queue' = [s \in Subscribers |-> IF ~Listens(s, r) THEN queue[s] ELSE q(s)]
      /\ missed' = [s \in Subscribers |->
            missed[s] \cup IF Listens(s, r) /\ Full(s) THEN {Head(queue[s])} ELSE {}]
      /\ registered' = [registered EXCEPT ![r] = << >>]
      /\ closed' = closed \cup {r}
      /\ UNCHANGED <<history, retained, reader, target, sending, published, last, since>>
  BY DEF CloseStream
<1> HIDE DEF q
<1>4. queue' \in [Subscribers -> Seq(Event \cup {End})] /\ QueuesFit'
  <2>1. \A s \in Subscribers : queue'[s] = IF ~Listens(s, r) THEN queue[s] ELSE q(s)
    BY <1>3
  <2>2. queue' \in [Subscribers -> Seq(Event \cup {End})]
    BY <1>1, <1>2, <1>3
  <2> QED
    BY <1>1, <1>2, <2>1, <2>2 DEF QueuesFit
<1>5. missed' \in [Subscribers -> SUBSET (Event \cup {End})]
  BY <1>1, <1>2, <1>3
<1>6. registered' \in [Channels -> Seq(Subscribers)] /\ Rosters'
  BY <1>1, <1>3, EmptiedTyped
<1>7. Typed'
  BY <1>1, <1>3, <1>4, <1>5, <1>6 DEF Typed
<1> QED
  BY <1>1, <1>3, <1>4, <1>6, <1>7 DEF Bus, Kept

LEMMA CloseGlobalTyped ==
    ASSUME Bus, CloseGlobal
    PROVE  Bus'
<1>1. /\ Typed /\ Kept /\ Rosters /\ QueuesFit /\ Everything \in Channels
      /\ queue \in [Subscribers -> Seq(Event \cup {End})]
  BY Sizes DEF Bus, Typed
<1>2. /\ queue' = [s \in Subscribers |->
            IF Listens(s, Everything) /\ ~Full(s) THEN Append(queue[s], End) ELSE queue[s]]
      /\ registered' = [registered EXCEPT ![Everything] = << >>]
      /\ UNCHANGED <<history, retained, closed, reader, target, sending, published,
                     last, since, missed>>
  BY DEF CloseGlobal
<1>3. ASSUME NEW s \in Subscribers, ~Full(s)
      PROVE  Append(queue[s], End) \in Seq(Event \cup {End})
             /\ Len(Append(queue[s], End)) <= QueueSize
  <2>1. queue[s] \in Seq(Event \cup {End}) /\ Len(queue[s]) <= QueueSize
    BY <1>1 DEF QueuesFit
  <2> QED
    BY <1>3, <2>1, ClosedQueue DEF Full
<1>4. queue' \in [Subscribers -> Seq(Event \cup {End})] /\ QueuesFit'
  BY <1>1, <1>2, <1>3 DEF QueuesFit
<1>5. registered' \in [Channels -> Seq(Subscribers)] /\ Rosters'
  BY <1>1, <1>2, EmptiedTyped
<1>6. Typed'
  BY <1>1, <1>2, <1>4, <1>5 DEF Typed
<1> QED
  BY <1>1, <1>2, <1>4, <1>5, <1>6 DEF Bus, Kept

LEMMA DropHistoryTyped ==
    ASSUME Bus, NEW r \in Runs, DropHistory(r)
    PROVE  /\ Bus' /\ closed' \in SUBSET closed
           /\ \A x \in Runs : history'[x] = IF x = r THEN << >> ELSE history[x]
<1>1. /\ Typed /\ Kept /\ Rosters /\ QueuesFit
      /\ history \in [Runs -> Seq(Event)] /\ retained \in Seq(Runs)
  BY DEF Bus, Typed
<1>2. /\ history' = [history EXCEPT ![r] = << >>]
      /\ retained' = RemoveFirst(retained, r) /\ closed' = closed \ {r}
      /\ UNCHANGED <<registered, sending, published, queue, reader, target, last, since, missed>>
  BY DEF DropHistory, ReadersUnchanged
<1>3. /\ retained' \in Seq(Runs) /\ IsInjective(retained') /\ Len(retained') <= Len(retained)
      /\ \A y : Contains(retained', y) <=> Contains(retained, y) /\ y # r
  BY <1>1, <1>2, RemovedSet DEF Kept
<1>4. << >> \in Seq(Event) /\ Len(<< >>) = 0
  BY EmptySeq
<1>5. history' \in [Runs -> Seq(Event)]
      /\ \A x \in Runs : history'[x] = IF x = r THEN << >> ELSE history[x]
  BY <1>1, <1>2, <1>4
<1>6. Len(retained') <= MaxRuns
  <2>1. Len(retained) \in Nat /\ Len(retained') \in Nat /\ Len(retained) <= MaxRuns
    BY <1>1, <1>3, LenProperties DEF Kept
  <2> QED
    BY <1>3, <2>1, Sizes
<1>7. Kept'
  BY <1>1, <1>3, <1>4, <1>5, <1>6, Sizes DEF Kept
<1>8. Typed'
  BY <1>1, <1>2, <1>3, <1>5 DEF Typed
<1> QED
  BY <1>1, <1>2, <1>5, <1>7, <1>8 DEF Bus, Rosters, Listens, Reading, QueuesFit

\* A put that does not get through, alone or with all that were to follow.
LEMMA GiveUpTyped ==
    ASSUME Bus, NEW p \in Publishers, GiveUp(p)
    PROVE  Bus'
<1>1. /\ Typed /\ sending \in [Publishers -> Posts] /\ Sends(p) /\ MovesOn(p)
      /\ missed \in [Subscribers -> SUBSET (Event \cup {End})]
      /\ missed' = [missed EXCEPT ![Next1(p)] = @ \cup {sending[p].event}]
      /\ UNCHANGED <<history, retained, closed, registered, published, queue, reader, target,
                     last, since>>
  BY DEF GiveUp, BusUnchanged, Misses, Bus, Typed
<1>2. sending' \in [Publishers -> Posts] /\ Next1(p) \in Subscribers
  BY <1>1, MovesOnPosts
<1>3. sending[p].event \in Event \cup {End}
  BY <1>1 DEF Posts
<1>4. missed' \in [Subscribers -> SUBSET (Event \cup {End})]
  BY <1>1, <1>2, <1>3
<1>5. Typed'
  BY <1>1, <1>2, <1>4 DEF Typed
<1> QED
  BY <1>1, <1>5 DEF Bus, Kept, Rosters, Listens, Reading, QueuesFit

LEMMA CancelTyped ==
    ASSUME Bus, NEW p \in Publishers, Cancel(p)
    PROVE  Bus'
<1>1. /\ Typed /\ sending \in [Publishers -> Posts]
      /\ missed \in [Subscribers -> SUBSET (Event \cup {End})]
      /\ missed' = [s \in Subscribers |->
            missed[s] \cup IF Contains(sending[p].to, s) THEN {sending[p].event} ELSE {}]
      /\ sending' = [sending EXCEPT ![p] = Idle]
      /\ UNCHANGED <<history, retained, closed, registered, published, queue, reader, target,
                     last, since>>
  BY DEF Cancel, BusUnchanged, Bus, Typed
<1>2. sending' \in [Publishers -> Posts] /\ sending[p].event \in Event \cup {End}
  BY <1>1, NothingLeft DEF Posts
<1>3. missed' \in [Subscribers -> SUBSET (Event \cup {End})]
  BY <1>1, <1>2
<1>4. Typed'
  BY <1>1, <1>2, <1>3 DEF Typed
<1> QED
  BY <1>1, <1>4 DEF Bus, Kept, Rosters, Listens, Reading, QueuesFit

LEMMA SubscribeGlobalTyped ==
    ASSUME Bus, NEW s \in Subscribers, SubscribeGlobal(s)
    PROVE  Bus'
<1>1. /\ Typed /\ Starts(s, Everything) /\ Registers(s, Everything)
      /\ Len(registered[Everything]) < MaxGlobals /\ Everything \in Channels
      /\ UNCHANGED <<history, retained, closed, queue, sending, published, last, missed>>
  BY Sizes DEF SubscribeGlobal, Bus
<1>2. /\ reader' = [reader EXCEPT ![s] = "reading"] /\ target' = [target EXCEPT ![s] = Everything]
      /\ since' = [since EXCEPT ![s] = Len(published)] /\ Len(published) \in Nat
  BY <1>1, LenProperties DEF Starts, Registers, Typed
<1>3. /\ reader' \in [Subscribers -> {"new", "reading", "done"}]
      /\ target' \in [Subscribers -> Channels] /\ since' \in [Subscribers -> Nat]
  BY <1>1, <1>2 DEF Typed
<1>4. registered' \in [Channels -> Seq(Subscribers)] /\ Rosters'
  BY <1>1, RegisterTyped
<1>5. Typed'
  BY <1>1, <1>3, <1>4 DEF Typed
<1> QED
  BY <1>1, <1>4, <1>5 DEF Bus, Kept, QueuesFit

LEMMA RejectGlobalTyped ==
    ASSUME Bus, NEW s \in Subscribers, RejectGlobal(s)
    PROVE  Bus'
<1>1. /\ Typed /\ Rosters /\ reader[s] = "new" /\ reader' = [reader EXCEPT ![s] = "done"]
      /\ UNCHANGED <<history, retained, closed, registered, queue, target, sending,
                     published, last, since, missed>>
  BY DEF RejectGlobal, Bus
<1>2. reader \in [Subscribers -> {"new", "reading", "done"}]
  BY <1>1 DEF Typed
<1>3. Typed'
  BY <1>1, <1>2 DEF Typed
<1>4. \A x \in Subscribers : \A c \in Channels :
         Listens(x, c) => reader'[x] = "reading" /\ target[x] = c
  BY <1>1, <1>2 DEF Rosters, Reading
<1> QED
  BY <1>1, <1>3, <1>4 DEF Bus, Kept, Rosters, Listens, Reading, QueuesFit

LEMMA ReadEndTyped ==
    ASSUME Bus, NEW s \in Subscribers, ReadEnd(s)
    PROVE  /\ Bus' /\ queue[s] # << >> /\ queue[s] \in Seq(Event \cup {End})
           /\ queue'[s] = Tail(queue[s])
           /\ \A x \in Subscribers : x # s => queue'[x] = queue[x]
<1>1. /\ queue \in [Subscribers -> Seq(Event \cup {End})] /\ QueuesFit
      /\ queue[s] # << >> /\ queue' = [queue EXCEPT ![s] = Tail(@)] /\ Finishes(s)
  BY DEF ReadEnd, Bus, Typed
<1> DEFINE rest == Tail(queue[s])
<1>2. /\ rest \in Seq(Event \cup {End}) /\ Len(rest) = Len(queue[s]) - 1
      /\ Len(queue[s]) \in Nat \ {0}
  BY <1>1, TailSet
<1>3. Len(rest) <= QueueSize
  <2>1. Len(queue[s]) <= QueueSize
    BY <1>1 DEF QueuesFit
  <2> QED
    BY <1>2, <2>1, Sizes
<1> HIDE DEF rest
<1>4. queue' = [queue EXCEPT ![s] = rest]
  BY <1>1 DEF rest
<1>5. queue' \in [Subscribers -> Seq(Event \cup {End})] /\ QueuesFit'
  BY <1>1, <1>2, <1>3, <1>4 DEF QueuesFit
<1>6. Bus'
  BY <1>1, <1>5, FinishesTyped
<1>7. queue'[s] = rest /\ \A x \in Subscribers : x # s => queue'[x] = queue[x]
  BY <1>1, <1>4
<1> QED
  BY <1>1, <1>6, <1>7 DEF rest

LEMMA LeaveTyped ==
    ASSUME Bus, NEW s \in Subscribers, Leave(s)
    PROVE  Bus'
<1>1. queue' = queue /\ Finishes(s)
  BY DEF Leave
<1>2. queue' \in [Subscribers -> Seq(Event \cup {End})] /\ QueuesFit'
  BY <1>1 DEF Bus, Typed, QueuesFit
<1> QED
  BY <1>1, <1>2, FinishesTyped

LEMMA BusStep == Bus /\ [Next]_busVars => Bus'
<1> SUFFICES ASSUME Bus, [Next]_busVars PROVE Bus'
  OBVIOUS
<1>1. CASE UNCHANGED busVars
  BY <1>1 DEF busVars, Bus, Typed, Kept, Rosters, Listens, Reading, QueuesFit
<1> QED
  BY <1>1, PublishTyped, DeliverTyped, GiveUpTyped, CancelTyped, SubscribeTyped,
     SubscribeGlobalTyped, RejectGlobalTyped, GetTyped, ReadEndTyped, LeaveTyped,
     CloseStreamTyped, DropHistoryTyped, CloseGlobalTyped
  DEF Next

LEMMA BusStart == Init => Bus
<1> SUFFICES ASSUME Init PROVE Bus
  OBVIOUS
<1>1. /\ << >> \in Seq(Event) /\ << >> \in Seq(Runs) /\ << >> \in Seq(Subscribers)
      /\ << >> \in Seq(Event \cup {End}) /\ Len(<< >>) = 0
      /\ IsInjective(<< >>) /\ \A x : ~Contains(<< >>, x)
  BY EmptySeq, NothingLeft
<1>2. SeenNothing \in [Publishers -> Nat]
  BY DEF SeenNothing
<1>3. Typed
  BY <1>1, <1>2, NothingLeft, Sizes DEF Init, Typed
<1>4. Kept
  BY <1>1, Sizes DEF Init, Kept
<1>5. Rosters
  BY <1>1, Sizes DEF Init, Rosters, Listens
<1>6. QueuesFit
  BY <1>1, Sizes DEF Init, QueuesFit
<1> QED
  BY <1>3, <1>4, <1>5, <1>6 DEF Bus

\* The buffers keep their bounds, whatever is published and whoever subscribes, and nobody
\* is registered twice or on two channels.
THEOREM BusTypeCorrect == Spec => []TypeOK
<1> QED
  BY BusStart, BusStep, BusIsTyped, PTL DEF Spec

(***************************************************************************)
(* Once and in order                                                       *)
(***************************************************************************)

\* The events of p in a queue are in their order, between two numbers.
Ordered(q, low, high, p) ==
    /\ low < high
    /\ \A i \in DOMAIN q : q[i] # End /\ q[i].by = p => low < q[i].n /\ q[i].n < high
    /\ \A i, j \in DOMAIN q :
          i < j /\ q[i] # End /\ q[j] # End /\ q[i].by = p /\ q[j].by = p => q[i].n < q[j].n

\* The number of what p is about to put into the queue of s, or of its next event.
High(p, s) == IF Contains(sending[p].to, s) THEN sending[p].event.n ELSE Len(published) + 1

\* A history has events of its run, oldest first, that were published before k.
Recorded(h, r, k) ==
    /\ \A i \in DOMAIN h : h[i].run = r /\ h[i].n <= k
    /\ \A i, j \in DOMAIN h : i < j => h[i].n < h[j].n

Histories == \A r \in Runs : Recorded(history[r], r, Len(published))

\* A publish under way has its own event for everybody on its list, once.
Posting ==
    \A p \in Publishers : Sends(p) =>
        /\ sending[p].event \in Event /\ sending[p].event.by = p
        /\ sending[p].event.n <= Len(published)
        /\ IsInjective(sending[p].to)
        /\ \A s \in Subscribers : Contains(sending[p].to, s) => Addressed(sending[p].event, s)

\* Nobody sends to a subscriber that has not come yet.
Fresh ==
    \A s \in Subscribers : reader[s] = "new" =>
        /\ queue[s] = << >> /\ last[s] = SeenNothing
        /\ \A p \in Publishers : ~Contains(sending[p].to, s)

Ours ==
    \A s \in Subscribers : \A e : Contains(queue[s], e) /\ e # End => Addressed(e, s)

Streams == \A s \in Subscribers, p \in Publishers : Ordered(queue[s], last[s][p], High(p, s), p)

Order == Histories /\ Posting /\ Fresh /\ Ours /\ Streams

OrderedBus == Bus /\ Order

Items == Event \cup {End}

LEMMA EventNumber ==
    ASSUME NEW e \in Event
    PROVE  e.n \in Nat \ {0} /\ e.run \in Runs /\ e.by \in Publishers
<1>1. e.n \in 1 .. MaxEvents /\ MaxEvents \in Nat /\ e.run \in Runs /\ e.by \in Publishers
  BY BusAssumption DEF Event
<1> QED
  BY <1>1

LEMMA ItemNumber ==
    ASSUME NEW q \in Seq(Items), NEW i \in DOMAIN q, q[i] # End
    PROVE  q[i] \in Event /\ q[i].n \in Nat \ {0} /\ q[i].by \in Publishers
<1>1. q[i] \in Items
  BY LenProperties, ElementOfSeq
<1> QED
  BY <1>1, EventNumber DEF Items

LEMMA OrderedSlack ==
    ASSUME NEW q \in Seq(Items), NEW low \in Nat, NEW high \in Nat, NEW p,
           Ordered(q, low, high, p), NEW lower \in Nat, NEW higher \in Nat,
           lower <= low, high <= higher
    PROVE  Ordered(q, lower, higher, p)
<1>1. \A i \in DOMAIN q : q[i] # End => q[i].n \in Nat
  BY ItemNumber
<1> QED
  BY <1>1 DEF Ordered

LEMMA OrderedAppend ==
    ASSUME NEW q \in Seq(Items), NEW low \in Nat, NEW high \in Nat, NEW p,
           Ordered(q, low, high, p), NEW e \in Items
    PROVE  /\ e = End \/ e.by # p => Ordered(Append(q, e), low, high, p)
           /\ \A higher \in Nat : e # End /\ e.n = high /\ high < higher
                                    => Ordered(Append(q, e), low, higher, p)
<1> DEFINE more == Append(q, e)
<1>1. /\ Len(q) \in Nat /\ more \in Seq(Items) /\ Len(more) = Len(q) + 1
      /\ \A k \in 1 .. Len(q) : more[k] = q[k]
      /\ more[Len(q) + 1] = e
      /\ DOMAIN q = 1 .. Len(q) /\ DOMAIN more = 1 .. Len(more)
  BY AppendProperties, LenProperties
<1> HIDE DEF more
<1>2. \A i \in DOMAIN more : \/ i \in DOMAIN q /\ more[i] = q[i] /\ i < Len(q) + 1
                             \/ i = Len(q) + 1 /\ more[i] = e
  BY <1>1
<1>3. \A i \in DOMAIN q : q[i] # End => q[i].n \in Nat
  BY ItemNumber
<1>4. ASSUME e = End \/ e.by # p PROVE Ordered(more, low, high, p)
  BY <1>2, <1>4 DEF Ordered
<1>5. ASSUME NEW higher \in Nat, e # End, e.n = high, high < higher
      PROVE  Ordered(more, low, higher, p)
  <2>1. \A i \in DOMAIN q : q[i] # End /\ q[i].by = p =>
           low < q[i].n /\ q[i].n < high /\ q[i].n \in Nat
    BY <1>3 DEF Ordered
  <2>2. low < higher
    BY <1>5 DEF Ordered
  <2>3. \A i \in DOMAIN more : more[i] # End /\ more[i].by = p => low < more[i].n /\ more[i].n < higher
    BY <1>2, <1>5, <2>1 DEF Ordered
  <2>4. ASSUME NEW i \in DOMAIN more, NEW j \in DOMAIN more, i < j,
               more[i] # End, more[j] # End, more[i].by = p, more[j].by = p
        PROVE  more[i].n < more[j].n
    <3>1. i \in DOMAIN q /\ more[i] = q[i]
      BY <1>1, <1>2, <2>4
    <3>2. CASE j \in DOMAIN q /\ more[j] = q[j]
      BY <2>4, <3>1, <3>2 DEF Ordered
    <3>3. CASE more[j] = e
      BY <1>5, <2>1, <2>4, <3>1, <3>3
    <3> QED
      BY <1>2, <3>2, <3>3
  <2> QED
    BY <2>2, <2>3, <2>4 DEF Ordered
<1> QED
  BY <1>4, <1>5 DEF more

LEMMA OrderedTail ==
    ASSUME NEW q \in Seq(Items), NEW low, NEW high, NEW p, Ordered(q, low, high, p), q # << >>
    PROVE  /\ Ordered(Tail(q), low, high, p)
           /\ Head(q) # End /\ Head(q).by = p => Ordered(Tail(q), Head(q).n, high, p)
<1> DEFINE rest == Tail(q)
<1>1. /\ Len(q) \in Nat \ {0} /\ Len(rest) = Len(q) - 1 /\ Head(q) = q[1]
      /\ \A k \in 1 .. Len(rest) : rest[k] = q[k + 1]
      /\ DOMAIN q = 1 .. Len(q) /\ DOMAIN rest = 1 .. Len(rest)
  <2>1. /\ Len(q) \in Nat \ {0} /\ rest \in Seq(Items) /\ Len(rest) = Len(q) - 1
        /\ \A k \in 1 .. Len(rest) : rest[k] = q[k + 1]
    BY HeadTailProperties, EmptySeq
  <2> QED
    BY <2>1, LenProperties
<1> HIDE DEF rest
<1>2. \A i \in DOMAIN rest : i + 1 \in DOMAIN q /\ 1 < i + 1 /\ i \in Nat /\ rest[i] = q[i + 1]
  BY <1>1
<1>3. \A i, j \in DOMAIN rest : i < j => i + 1 < j + 1
  BY <1>2
<1>4. Ordered(rest, low, high, p)
  BY <1>2, <1>3 DEF Ordered
<1>5. ASSUME Head(q) # End, Head(q).by = p PROVE Ordered(rest, Head(q).n, high, p)
  <2>1. 1 \in DOMAIN q /\ Head(q) = q[1]
    BY <1>1
  <2> QED
    BY <1>2, <1>3, <1>5, <2>1 DEF Ordered
<1> QED
  BY <1>4, <1>5 DEF rest

LEMMA RecordedSlack ==
    ASSUME NEW h \in Seq(Event), NEW r, NEW k \in Nat, Recorded(h, r, k), NEW l \in Nat, k <= l
    PROVE  Recorded(h, r, l)
<1>1. \A i \in DOMAIN h : h[i].n \in Nat
  BY LenProperties, ElementOfSeq, EventNumber
<1> QED
  BY <1>1 DEF Recorded

LEMMA RecordedLatest ==
    ASSUME NEW h \in Seq(Event), NEW r, NEW k \in Nat, Recorded(h, r, k), NEW e \in Event,
           e.run = r, e.n = k + 1
    PROVE  Recorded(Latest(Append(h, e)), r, k + 1)
<1> DEFINE more == Append(h, e)
           kept == Latest(more)
<1>1. /\ Len(h) \in Nat /\ more \in Seq(Event) /\ Len(more) = Len(h) + 1
      /\ \A i \in 1 .. Len(h) : more[i] = h[i]
      /\ more[Len(h) + 1] = e
      /\ DOMAIN h = 1 .. Len(h) /\ DOMAIN more = 1 .. Len(more)
  BY AppendProperties, LenProperties
<1> HIDE DEF more
<1>2. \A i \in DOMAIN more : \/ i \in DOMAIN h /\ more[i] = h[i] /\ i < Len(h) + 1
                             \/ i = Len(h) + 1 /\ more[i] = e
  BY <1>1
<1>3. \A i \in DOMAIN h : h[i].n \in Nat /\ h[i].n < k + 1
  <2>1. \A i \in DOMAIN h : h[i].n \in Nat
    BY LenProperties, ElementOfSeq, EventNumber
  <2> QED
    BY <2>1 DEF Recorded
<1>4. Recorded(more, r, k + 1)
  <2>1. \A i \in DOMAIN more : more[i].run = r /\ more[i].n <= k + 1
    BY <1>2, <1>3 DEF Recorded
  <2>2. ASSUME NEW i \in DOMAIN more, NEW j \in DOMAIN more, i < j PROVE more[i].n < more[j].n
    <3>1. i \in DOMAIN h /\ more[i] = h[i]
      BY <1>1, <1>2, <2>2
    <3>2. CASE j \in DOMAIN h /\ more[j] = h[j]
      BY <2>2, <3>1, <3>2 DEF Recorded
    <3>3. CASE more[j] = e
      BY <1>3, <3>1, <3>3
    <3> QED
      BY <1>2, <3>2, <3>3
  <2> QED
    BY <2>1, <2>2 DEF Recorded
<1>5. PICK off \in Nat : /\ Len(kept) = Len(more) - off
                         /\ \A i \in 1 .. Len(more) - off : kept[i] = more[i + off]
  BY <1>1, LatestKeeps
<1>6. kept \in Seq(Event) /\ DOMAIN kept = 1 .. Len(kept) /\ Len(kept) \in Nat
  BY <1>1, LatestKeeps, LenProperties
<1> HIDE DEF kept
<1>7. \A i \in DOMAIN kept : i + off \in DOMAIN more /\ i \in Nat /\ kept[i] = more[i + off]
  BY <1>1, <1>5, <1>6
<1>8. \A i, j \in DOMAIN kept : i < j => i + off < j + off
  BY <1>7
<1> QED
  BY <1>4, <1>7, <1>8 DEF Recorded, kept, more

LEMMA HighNumber ==
    ASSUME OrderedBus, NEW p \in Publishers, NEW s
    PROVE  /\ Len(published) \in Nat /\ High(p, s) \in Nat \ {0} /\ High(p, s) <= Len(published) + 1
           /\ Contains(sending[p].to, s) => Sends(p) /\ High(p, s) <= Len(published)
<1>1. published \in Seq(Event) /\ Len(published) \in Nat /\ Posting
  BY LenProperties DEF OrderedBus, Order, Bus, Typed
<1>2. ASSUME Contains(sending[p].to, s)
      PROVE  Sends(p) /\ High(p, s) \in Nat \ {0} /\ High(p, s) <= Len(published)
  <2>1. Sends(p)
    BY <1>2, NothingLeft DEF Sends
  <2>2. sending[p].event \in Event /\ sending[p].event.n <= Len(published)
    BY <1>1, <2>1 DEF Posting
  <2> QED
    BY <1>2, <2>1, <2>2, EventNumber DEF High
<1>3. ~Contains(sending[p].to, s) => High(p, s) = Len(published) + 1
  BY DEF High
<1> QED
  BY <1>1, <1>2, <1>3

\* A publish under way has fewer left to send to, and nothing is published meanwhile.
LEMMA FewerToSendTo ==
    ASSUME OrderedBus, UNCHANGED <<published, target>>,
           \A o \in Publishers :
              /\ \A x : Contains(sending'[o].to, x) => Contains(sending[o].to, x)
              /\ sending'[o].to # << >> => Sends(o) /\ sending'[o].event = sending[o].event
              /\ IsInjective(sending[o].to) => IsInjective(sending'[o].to)
    PROVE  /\ Posting'
           /\ \A o \in Publishers : \A x : High(o, x)' \in Nat /\ High(o, x) <= High(o, x)'
<1>1. Posting
  BY DEF OrderedBus, Order
<1>2. ASSUME NEW o \in Publishers, sending'[o].to # << >>
      PROVE  /\ sending'[o].event \in Event /\ sending'[o].event.by = o
             /\ sending'[o].event.n <= Len(published)
             /\ IsInjective(sending'[o].to)
             /\ \A s \in Subscribers : Contains(sending'[o].to, s) => Addressed(sending[o].event, s)
             /\ sending'[o].event = sending[o].event
  BY <1>1, <1>2 DEF Posting
<1>3. Posting'
  BY <1>2 DEF Posting, Sends, Addressed
<1>4. ASSUME NEW o \in Publishers, NEW x
      PROVE  High(o, x)' \in Nat /\ High(o, x) <= High(o, x)'
  <2>1. Len(published) \in Nat /\ High(o, x) \in Nat /\ High(o, x) <= Len(published) + 1
    BY HighNumber
  <2>2. CASE Contains(sending'[o].to, x)
    <3>1. sending'[o].to # << >>
      BY <2>2, NothingLeft
    <3>2. High(o, x)' = High(o, x)
      BY <1>2, <2>2, <3>1 DEF High
    <3> QED
      BY <2>1, <3>2
  <2>3. CASE ~Contains(sending'[o].to, x)
    <3>1. High(o, x)' = Len(published) + 1
      BY <2>3 DEF High
    <3> QED
      BY <2>1, <3>1
  <2> QED
    BY <2>2, <2>3
<1> QED
  BY <1>3, <1>4

\* The order in a queue holds as long as it stays, however the publishers go on.
LEMMA StreamKept ==
    ASSUME OrderedBus, NEW s \in Subscribers, NEW p \in Publishers, queue'[s] = queue[s],
           last'[s][p] = last[s][p] \/ last'[s][p] = 0,
           High(p, s)' \in Nat, High(p, s) <= High(p, s)'
    PROVE  Ordered(queue[s], last[s][p], High(p, s), p)' 
<1>1. Ordered(queue[s], last[s][p], High(p, s), p)
  BY DEF OrderedBus, Order, Streams
<1>2. queue[s] \in Seq(Items) /\ last[s][p] \in Nat
  BY DEF OrderedBus, Bus, Typed, Items
<1>3. High(p, s) \in Nat
  BY HighNumber
<1>4. Ordered(queue[s], last'[s][p], High(p, s)', p)
  <2>1. last'[s][p] \in Nat /\ last'[s][p] <= last[s][p]
    BY <1>2
  <2> QED
    BY <1>1, <1>2, <1>3, <2>1, OrderedSlack
<1>5. Ordered(queue[s], last[s][p], High(p, s), p)' <=> Ordered(queue'[s], last'[s][p], High(p, s)', p)
  OBVIOUS
<1> QED
  BY <1>4

LEMMA HistoriesKept ==
    ASSUME OrderedBus, published' = published,
           \A x \in Runs : history'[x] \in {<< >>, history[x]}
    PROVE  Histories'
<1>1. Histories
  BY DEF OrderedBus, Order
<1>2. DOMAIN << >> = {}
  OBVIOUS
<1>3. \A x \in Runs : Recorded(history'[x], x, Len(published))
  BY <1>1, <1>2 DEF Histories, Recorded
<1> QED
  BY <1>3 DEF Histories

\* While no publisher moves, only those who are not sent to may choose their channel.
LEMMA PostsKept ==
    ASSUME OrderedBus, UNCHANGED <<sending, published>>,
           \A s \in Subscribers : target'[s] = target[s] \/ reader[s] = "new"
    PROVE  /\ Posting'
           /\ \A o \in Publishers : \A x :
                 High(o, x)' = High(o, x) /\ High(o, x)' \in Nat /\ High(o, x) <= High(o, x)'
<1>1. Posting /\ Fresh
  BY DEF OrderedBus, Order
<1>2. Posting'
  BY <1>1 DEF Posting, Fresh, Sends, Addressed
<1>3. ASSUME NEW o \in Publishers, NEW x
      PROVE  High(o, x)' = High(o, x) /\ High(o, x)' \in Nat /\ High(o, x) <= High(o, x)'
  <2>1. High(o, x)' = High(o, x)
    BY DEF High
  <2>2. High(o, x) \in Nat
    BY HighNumber
  <2> QED
    BY <2>1, <2>2
<1> QED
  BY <1>2, <1>3

LEMMA PublishOrdered ==
    ASSUME OrderedBus, NEW p \in Publishers, NEW r \in Runs, Publish(p, r)
    PROVE  Order'
<1>1. Bus /\ Histories /\ Posting /\ Fresh /\ Ours /\ Streams
  BY DEF OrderedBus, Order
<1>2. PICK event \in Event :
         /\ event = [run |-> r, by |-> p, n |-> Len(published) + 1]
         /\ Remembers(r, event)
         /\ published' = Append(published, event)
         /\ \A o \in Publishers : o # p => sending'[o] = sending[o]
         /\ sending'[p].to = registered[r] \o registered[Everything]
         /\ sending'[p].to # << >> => sending'[p].event = event
  BY <1>1, PublishTyped
<1>3. ~Sends(p) /\ UNCHANGED <<queue, reader, target, last, since, missed>>
  BY DEF Publish, ReadersUnchanged
<1>4. Len(published) \in Nat /\ Len(published') = Len(published) + 1
  BY <1>1, <1>2, LenProperties, AppendProperties DEF Bus, Typed
<1>5. event.run = r /\ event.by = p /\ event.n = Len(published) + 1
  BY <1>2
<1>6. /\ registered[r] \in Seq(Subscribers) /\ registered[Everything] \in Seq(Subscribers)
      /\ IsInjective(registered[r]) /\ IsInjective(registered[Everything]) /\ r # Everything
      /\ \A s \in Subscribers : \A c \in {r, Everything} :
            Contains(registered[c], s) => Reading(s) /\ target[s] = c
  BY <1>1, Sizes DEF Bus, Typed, Rosters, Listens
<1>7. \A y : Contains(registered[r], y) => y \in Subscribers
  BY <1>6, ElementOfSeq DEF Contains
<1>8. /\ IsInjective(sending'[p].to)
      /\ \A y : Contains(sending'[p].to, y) =>
                   Contains(registered[r], y) \/ Contains(registered[Everything], y)
  <2>1. \A y : ~(Contains(registered[r], y) /\ Contains(registered[Everything], y))
    BY <1>6, <1>7
  <2> QED
    BY <1>2, <1>6, <2>1, ConcatSet
<1>9. \A s \in Subscribers : Contains(sending'[p].to, s) => Reading(s) /\ Addressed(event, s)
  BY <1>5, <1>6, <1>8 DEF Addressed
<1>10. Posting'
  <2>1. ASSUME NEW o \in Publishers, o # p, sending'[o].to # << >>
        PROVE  /\ sending'[o].event \in Event /\ sending'[o].event.by = o
               /\ sending'[o].event.n <= Len(published')
               /\ IsInjective(sending'[o].to)
               /\ \A s \in Subscribers : Contains(sending'[o].to, s) => Addressed(sending'[o].event, s)
    <3>1. /\ sending[o].event \in Event /\ sending[o].event.by = o
          /\ sending[o].event.n <= Len(published)
          /\ IsInjective(sending[o].to)
          /\ \A s \in Subscribers : Contains(sending[o].to, s) => Addressed(sending[o].event, s)
          /\ sending'[o] = sending[o]
      BY <1>1, <1>2, <2>1 DEF Posting, Sends
    <3>2. sending[o].event.n <= Len(published')
      BY <1>4, <3>1, EventNumber
    <3> QED
      BY <3>1, <3>2
  <2>2. ASSUME sending'[p].to # << >>
        PROVE  /\ sending'[p].event \in Event /\ sending'[p].event.by = p
               /\ sending'[p].event.n <= Len(published')
               /\ IsInjective(sending'[p].to)
               /\ \A s \in Subscribers : Contains(sending'[p].to, s) => Addressed(sending'[p].event, s)
    BY <1>2, <1>4, <1>5, <1>8, <1>9, <2>2
  <2> QED
    BY <1>3, <2>1, <2>2 DEF Posting, Sends, Addressed
<1>11. Fresh'
  BY <1>1, <1>2, <1>3, <1>9 DEF Fresh, Reading
<1>12. Histories'
  <2>1. ASSUME NEW x \in Runs PROVE Recorded(history'[x], x, Len(published'))
    <3>1. /\ history[x] \in Seq(Event) /\ Recorded(history[x], x, Len(published))
          /\ history[r] \in Seq(Event) /\ Recorded(history[r], r, Len(published))
      BY <1>1 DEF Histories, Bus, Typed
    <3>2. CASE history'[x] = << >>
      <4>1. DOMAIN << >> = {}
        OBVIOUS
      <4> QED
        BY <3>2, <4>1 DEF Recorded
    <3>3. CASE history'[x] = history[x]
      BY <1>4, <3>1, <3>3, RecordedSlack
    <3>4. CASE x = r /\ history'[x] = Latest(Append(history[r], event))
      BY <1>4, <1>5, <3>1, <3>4, RecordedLatest
    <3> QED
      BY <1>1, <1>2, <3>2, <3>3, <3>4, RemembersKeeps
  <2> QED
    BY <2>1 DEF Histories
<1>13. Ours'
  BY <1>1, <1>3 DEF Ours, Addressed
<1>14. Streams'
  <2>1. ASSUME NEW s \in Subscribers, NEW o \in Publishers
        PROVE  Ordered(queue[s], last[s][o], High(o, s), o)'
    <3>1. High(o, s) \in Nat /\ High(o, s) <= Len(published) + 1
      BY HighNumber
    <3>2. High(o, s)' = IF Contains(sending'[o].to, s) THEN sending'[o].event.n ELSE Len(published) + 2
      BY <1>4 DEF High
    <3>3. High(o, s)' \in Nat /\ High(o, s) <= High(o, s)'
      <4>1. CASE o # p
        <5>1. High(o, s) = IF Contains(sending'[o].to, s) THEN sending'[o].event.n ELSE Len(published) + 1
          BY <1>2, <4>1 DEF High
        <5> QED
          BY <1>4, <3>1, <3>2, <5>1
      <4>2. CASE o = p
        <5>1. Contains(sending'[p].to, s) => sending'[p].event.n = Len(published) + 1
          BY <1>2, <1>5, NothingLeft
        <5> QED
          BY <1>4, <3>1, <3>2, <4>2, <5>1
      <4> QED
        BY <4>1, <4>2
    <3> QED
      BY <1>3, <3>3, StreamKept
  <2> QED
    BY <2>1 DEF Streams
<1> QED
  BY <1>10, <1>11, <1>12, <1>13, <1>14 DEF Order

LEMMA DeliverOrdered ==
    ASSUME OrderedBus, NEW p \in Publishers, Deliver(p)
    PROVE  Order'
<1>1. /\ Bus /\ Histories /\ Posting /\ Fresh /\ Ours /\ Streams
      /\ sending \in [Publishers -> Posts] /\ queue \in [Subscribers -> Seq(Items)]
  BY DEF OrderedBus, Order, Bus, Typed, Items
<1>0. PICK s, e : s = Next1(p) /\ e = sending[p].event
  OBVIOUS
<1>2. /\ Sends(p) /\ MovesOn(p) /\ queue' = [queue EXCEPT ![s] = Append(@, e)]
      /\ UNCHANGED <<history, retained, closed, registered, published, reader, target,
                     last, since, missed>>
  BY <1>0 DEF Deliver, BusUnchanged
<1>3. /\ \A o \in Publishers : o # p => sending'[o] = sending[o]
      /\ s \in Subscribers /\ Contains(sending[p].to, s)
      /\ sending'[p].to # << >> => sending'[p].event = sending[p].event
      /\ \A x : Contains(sending'[p].to, x) => Contains(sending[p].to, x)
      /\ IsInjective(sending[p].to) =>
            IsInjective(sending'[p].to) /\ ~Contains(sending'[p].to, s)
  BY <1>0, <1>1, <1>2, MovesOnPosts
<1>4. /\ e \in Event /\ e \in Items /\ e # End /\ e.by = p /\ e.n <= Len(published) /\ Addressed(e, s)
      /\ ~Contains(sending'[p].to, s)
  <2>1. e \in Event /\ e.by = p /\ e.n <= Len(published) /\ Addressed(e, s) /\ IsInjective(sending[p].to)
    BY <1>0, <1>1, <1>2, <1>3 DEF Posting
  <2> QED
    BY <1>3, <2>1, Sizes DEF Items
<1>5. /\ Posting'
      /\ \A o \in Publishers : \A x : High(o, x)' \in Nat /\ High(o, x) <= High(o, x)'
  <2>1. ASSUME NEW o \in Publishers
        PROVE  /\ \A x : Contains(sending'[o].to, x) => Contains(sending[o].to, x)
               /\ sending'[o].to # << >> => Sends(o) /\ sending'[o].event = sending[o].event
               /\ IsInjective(sending[o].to) => IsInjective(sending'[o].to)
    BY <1>2, <1>3 DEF Sends
  <2> QED
    BY <1>2, <2>1, FewerToSendTo
<1>6. /\ queue'[s] = Append(queue[s], e) /\ \A x \in Subscribers : x # s => queue'[x] = queue[x]
      /\ queue[s] \in Seq(Items)
      /\ \A y : Contains(queue'[s], y) <=> Contains(queue[s], y) \/ y = e
  <2>1. queue'[s] = Append(queue[s], e) /\ \A x \in Subscribers : x # s => queue'[x] = queue[x]
    BY <1>1, <1>2, <1>3
  <2>2. queue[s] \in Seq(Items)
    BY <1>1, <1>3
  <2> QED
    BY <1>4, <2>1, <2>2, AppendSet
<1>7. Fresh'
  <2>1. ASSUME NEW x \in Subscribers, reader[x] = "new"
        PROVE  /\ queue'[x] = << >> /\ last[x] = SeenNothing
               /\ \A o \in Publishers : ~Contains(sending'[o].to, x)
    <3>1. x # s
      BY <1>1, <1>3, <2>1 DEF Fresh
    <3> QED
      BY <1>1, <1>3, <1>6, <2>1, <3>1 DEF Fresh
  <2> QED
    BY <1>2, <2>1 DEF Fresh
<1>8. Ours'
  BY <1>1, <1>2, <1>4, <1>6 DEF Ours, Addressed
<1>9. Histories'
  BY <1>2, HistoriesKept
<1>10. Streams'
  <2>1. ASSUME NEW o \in Publishers PROVE Ordered(queue[s], last[s][o], High(o, s), o)'
    <3>1. Ordered(queue[s], last[s][o], High(o, s), o) /\ last[s][o] \in Nat /\ High(o, s) \in Nat
      BY <1>1, <1>3, HighNumber DEF Streams, Bus, Typed
    <3>2. Ordered(queue'[s], last[s][o], High(o, s)', o)
      <4>1. CASE o # p
        <5>1. Ordered(Append(queue[s], e), last[s][o], High(o, s), o)
          BY <1>4, <1>6, <3>1, <4>1, OrderedAppend
        <5>2. Append(queue[s], e) \in Seq(Items)
          BY <1>4, <1>6, AppendProperties
        <5>3. /\ High(o, s)' \in Nat /\ High(o, s) <= High(o, s)'
              /\ last[s][o] <= last[s][o]
          BY <1>5, <3>1
        <5>4. Ordered(Append(queue[s], e), last[s][o], High(o, s)', o)
          BY <3>1, <5>1, <5>2, <5>3, OrderedSlack
        <5> QED
          BY <1>6, <5>4
      <4>2. CASE o = p
        <5>1. High(p, s) = e.n
          BY <1>0, <1>3 DEF High
        <5>2. High(p, s)' = Len(published) + 1 /\ Len(published) \in Nat
          <6>1. Len(published) \in Nat
            BY HighNumber
          <6> QED
            BY <1>2, <1>4, <6>1 DEF High
        <5>3. High(p, s) < High(p, s)' /\ High(p, s)' \in Nat
          BY <1>4, <5>1, <5>2, <3>1, <4>2
        <5> QED
          BY <1>4, <1>6, <3>1, <4>2, <5>1, <5>3, OrderedAppend
      <4> QED
        BY <4>1, <4>2
    <3> QED
      BY <1>2, <3>2
  <2>2. ASSUME NEW x \in Subscribers, NEW o \in Publishers, x # s
        PROVE  Ordered(queue[x], last[x][o], High(o, x), o)'
    <3>1. queue'[x] = queue[x] /\ last'[x][o] = last[x][o]
      BY <1>2, <1>6, <2>2
    <3> QED
      BY <1>5, <3>1, StreamKept
  <2> QED
    BY <2>1, <2>2 DEF Streams
<1> QED
  BY <1>5, <1>7, <1>8, <1>9, <1>10 DEF Order

\* A put that does not get through.
LEMMA DroppedOrdered ==
    ASSUME OrderedBus, NEW p \in Publishers, Sends(p),
           MovesOn(p) \/ sending' = [sending EXCEPT ![p] = Idle],
           UNCHANGED <<history, published, queue, reader, target, last>>
    PROVE  Order'
<1>1. /\ Histories /\ Posting /\ Fresh /\ Ours /\ Streams
      /\ sending \in [Publishers -> Posts]
  BY DEF OrderedBus, Order, Bus, Typed
<1>2. /\ \A o \in Publishers : o # p => sending'[o] = sending[o]
      /\ sending'[p].to # << >> => sending'[p].event = sending[p].event
      /\ \A x : Contains(sending'[p].to, x) => Contains(sending[p].to, x)
      /\ IsInjective(sending[p].to) => IsInjective(sending'[p].to)
  <2>1. CASE MovesOn(p)
    BY <1>1, <2>1, MovesOnPosts
  <2>2. CASE sending' = [sending EXCEPT ![p] = Idle]
    <3>1. sending'[p] = Idle /\ \A o \in Publishers : o # p => sending'[o] = sending[o]
      BY <1>1, <2>2
    <3> QED
      BY <3>1, NothingLeft
  <2> QED
    BY <2>1, <2>2
<1>3. /\ Posting'
      /\ \A o \in Publishers : \A x : High(o, x)' \in Nat /\ High(o, x) <= High(o, x)'
  <2>1. ASSUME NEW o \in Publishers
        PROVE  /\ \A x : Contains(sending'[o].to, x) => Contains(sending[o].to, x)
               /\ sending'[o].to # << >> => Sends(o) /\ sending'[o].event = sending[o].event
               /\ IsInjective(sending[o].to) => IsInjective(sending'[o].to)
    BY <1>2 DEF Sends
  <2> QED
    BY <2>1, FewerToSendTo
<1>4. Fresh'
  BY <1>1, <1>2 DEF Fresh
<1>5. Ours'
  BY <1>1 DEF Ours, Addressed
<1>6. Histories'
  BY HistoriesKept
<1>7. Streams'
  BY <1>3, StreamKept DEF Streams
<1> QED
  BY <1>3, <1>4, <1>5, <1>6, <1>7 DEF Order

\* A history, as far as it fits, is in order up to the next event.
LEMMA FitsOrdered ==
    ASSUME OrderedBus, NEW r \in Runs, NEW p
    PROVE  /\ Ordered(Fits(r), 0, Len(published) + 1, p)
           /\ \A e : Contains(Fits(r), e) => e.run = r
<1>1. /\ Fits(r) \in Seq(Event) /\ Len(Fits(r)) <= Len(history[r])
      /\ \A i \in 1 .. Len(Fits(r)) : Fits(r)[i] = history[r][i]
  BY FitsTyped DEF OrderedBus
<1>2. /\ Recorded(history[r], r, Len(published)) /\ Len(published) \in Nat
      /\ Len(history[r]) \in Nat /\ DOMAIN history[r] = 1 .. Len(history[r])
      /\ Len(Fits(r)) \in Nat /\ DOMAIN Fits(r) = 1 .. Len(Fits(r))
  BY <1>1, LenProperties DEF OrderedBus, Order, Histories, Bus, Typed
<1>3. \A i \in DOMAIN Fits(r) :
         /\ i \in DOMAIN history[r] /\ Fits(r)[i] = history[r][i]
         /\ Fits(r)[i].run = r
         /\ 0 < Fits(r)[i].n /\ Fits(r)[i].n < Len(published) + 1
  <2>1. ASSUME NEW i \in DOMAIN Fits(r)
        PROVE  /\ i \in DOMAIN history[r] /\ Fits(r)[i] = history[r][i]
               /\ Fits(r)[i] \in Event
    BY <1>1, <1>2, ElementOfSeq
  <2> QED
    BY <1>2, <2>1, EventNumber DEF Recorded
<1>4. \A i, j \in DOMAIN Fits(r) : i < j => Fits(r)[i].n < Fits(r)[j].n
  BY <1>2, <1>3 DEF Recorded
<1>5. Ordered(Fits(r), 0, Len(published) + 1, p)
  BY <1>2, <1>3, <1>4 DEF Ordered
<1> QED
  BY <1>2, <1>3, <1>5 DEF Contains

\* A subscriber comes, and reads what is ready for it.
LEMMA ComesOrdered ==
    ASSUME OrderedBus, NEW s \in Subscribers, NEW c \in Channels, Starts(s, c),
           UNCHANGED <<history, published, sending, last>>,
           queue'[s] \in Seq(Items), \A x \in Subscribers : x # s => queue'[x] = queue[x],
           \A p \in Publishers : Ordered(queue'[s], 0, Len(published) + 1, p),
           \A e : Contains(queue'[s], e) /\ e # End => c \in {e.run, Everything}
    PROVE  Order'
<1>1. /\ Histories /\ Posting /\ Fresh /\ Ours /\ Streams
      /\ reader[s] = "new"
      /\ reader' = [reader EXCEPT ![s] = "reading"] /\ target' = [target EXCEPT ![s] = c]
      /\ reader \in [Subscribers -> {"new", "reading", "done"}]
      /\ target \in [Subscribers -> Channels]
  BY DEF OrderedBus, Order, Starts, Bus, Typed
<1>2. /\ reader'[s] = "reading" /\ target'[s] = c
      /\ \A x \in Subscribers : x # s => reader'[x] = reader[x] /\ target'[x] = target[x]
  BY <1>1
<1>3. /\ Posting'
      /\ \A o \in Publishers : \A x :
            High(o, x)' = High(o, x) /\ High(o, x)' \in Nat /\ High(o, x) <= High(o, x)'
  <2>1. \A x \in Subscribers : target'[x] = target[x] \/ reader[x] = "new"
    BY <1>1, <1>2
  <2> QED
    BY <2>1, PostsKept
<1>4. Fresh'
  BY <1>1, <1>2 DEF Fresh
<1>5. Ours'
  BY <1>1, <1>2 DEF Ours, Addressed
<1>6. Histories'
  BY HistoriesKept
<1>7. Streams'
  <2>1. ASSUME NEW o \in Publishers PROVE Ordered(queue[s], last[s][o], High(o, s), o)'
    <3>1. last'[s][o] = 0
      BY <1>1 DEF Fresh, SeenNothing
    <3>2. High(o, s)' = Len(published) + 1
      BY <1>1, <1>3 DEF Fresh, High
    <3>3. Ordered(queue'[s], last'[s][o], High(o, s)', o)
      BY <3>1, <3>2
    <3> QED
      BY <3>3
  <2>2. ASSUME NEW x \in Subscribers, NEW o \in Publishers, x # s
        PROVE  Ordered(queue[x], last[x][o], High(o, x), o)'
    BY <1>3, <2>2, StreamKept
  <2> QED
    BY <2>1, <2>2 DEF Streams
<1> QED
  BY <1>3, <1>4, <1>5, <1>6, <1>7 DEF Order

LEMMA SubscribeOrdered ==
    ASSUME OrderedBus, NEW s \in Subscribers, NEW r \in Runs, Subscribe(s, r)
    PROVE  Order'
<1>1. /\ Starts(s, r) /\ UNCHANGED <<history, published, sending, last>>
      /\ queue \in [Subscribers -> Seq(Items)] /\ Bus /\ r \in Channels
      /\ \/ queue' = [queue EXCEPT ![s] =
                IF Len(Fits(r)) < QueueSize THEN Append(Fits(r), End) ELSE Fits(r)]
         \/ queue' = [queue EXCEPT ![s] = Fits(r)]
  BY Sizes DEF Subscribe, Fits, OrderedBus, Bus, Typed, Items
<1>2. /\ Fits(r) \in Seq(Items) /\ End \in Items
      /\ \A e : Contains(Fits(r), e) => e.run = r
      /\ \A p \in Publishers : Ordered(Fits(r), 0, Len(published) + 1, p)
      /\ Len(published) + 1 \in Nat
  <2>1. Len(published) \in Nat
    BY LenProperties DEF OrderedBus, Bus, Typed
  <2>2. Fits(r) \in Seq(Items) /\ End \in Items
    BY <1>1, FitsTyped DEF Items
  <2>3. \A p \in Publishers : Ordered(Fits(r), 0, Len(published) + 1, p)
    BY FitsOrdered
  <2>4. \A e : Contains(Fits(r), e) => e.run = r
    BY FitsOrdered
  <2> QED
    BY <2>1, <2>2, <2>3, <2>4
<1>3. /\ Append(Fits(r), End) \in Seq(Items)
      /\ \A y : Contains(Append(Fits(r), End), y) <=> Contains(Fits(r), y) \/ y = End
      /\ \A p \in Publishers : Ordered(Append(Fits(r), End), 0, Len(published) + 1, p)
  BY <1>2, AppendSet, OrderedAppend
<1>4. /\ queue'[s] \in {Append(Fits(r), End), Fits(r)}
      /\ \A x \in Subscribers : x # s => queue'[x] = queue[x]
  BY <1>1
<1>5. /\ queue'[s] \in Seq(Items)
      /\ \A p \in Publishers : Ordered(queue'[s], 0, Len(published) + 1, p)
      /\ \A e : Contains(queue'[s], e) /\ e # End => r \in {e.run, Everything}
  <2>1. CASE queue'[s] = Append(Fits(r), End)
    BY <1>2, <1>3, <2>1
  <2>2. CASE queue'[s] = Fits(r)
    BY <1>2, <2>2
  <2> QED
    BY <1>4, <2>1, <2>2
<1> QED
  BY <1>1, <1>4, <1>5, ComesOrdered

LEMMA SubscribeGlobalOrdered ==
    ASSUME OrderedBus, NEW s \in Subscribers, SubscribeGlobal(s)
    PROVE  Order'
<1>1. /\ Starts(s, Everything) /\ Everything \in Channels
      /\ UNCHANGED <<history, published, sending, last, queue>>
      /\ Fresh /\ queue \in [Subscribers -> Seq(Items)] /\ Len(published) \in Nat
  BY Sizes, LenProperties DEF SubscribeGlobal, OrderedBus, Order, Bus, Typed, Items
<1>2. queue[s] = << >>
  BY <1>1 DEF Fresh, Starts
<1>3. /\ \A p \in Publishers : Ordered(<< >>, 0, Len(published) + 1, p)
      /\ \A e : ~Contains(<< >>, e)
  <2>1. DOMAIN << >> = {}
    OBVIOUS
  <2> QED
    BY <1>1, <2>1, NothingLeft DEF Ordered
<1> QED
  BY <1>1, <1>2, <1>3, ComesOrdered

LEMMA RejectGlobalOrdered ==
    ASSUME OrderedBus, NEW s \in Subscribers, RejectGlobal(s)
    PROVE  Order'
<1>1. /\ Order /\ reader' = [reader EXCEPT ![s] = "done"]
      /\ reader \in [Subscribers -> {"new", "reading", "done"}]
      /\ UNCHANGED <<history, queue, target, sending, published, last>>
  BY DEF RejectGlobal, OrderedBus, Bus, Typed
<1>2. Fresh'
  <2>1. \A x \in Subscribers : reader'[x] = "new" => reader[x] = "new"
    BY <1>1
  <2> QED
    BY <1>1, <2>1 DEF Fresh, Order
<1>3. Posting'
  BY <1>1, PostsKept
<1>4. Histories'
  BY <1>1, HistoriesKept
<1>5. Ours'
  BY <1>1 DEF Order, Ours, Addressed
<1>6. Streams'
  <2>1. \A x \in Subscribers, o \in Publishers : Ordered(queue[x], last[x][o], High(o, x), o)'
    BY <1>1, PostsKept, StreamKept
  <2> QED
    BY <2>1 DEF Streams
<1> QED
  BY <1>2, <1>3, <1>4, <1>5, <1>6 DEF Order

LEMMA GetOrdered ==
    ASSUME OrderedBus, NEW s \in Subscribers, Get(s)
    PROVE  Order'
<1>1. /\ Histories /\ Posting /\ Fresh /\ Ours /\ Streams
  BY DEF OrderedBus, Order
<1>2. /\ Reading(s) /\ Head(queue[s]) # End
      /\ UNCHANGED <<history, published, reader, target, sending>>
  BY DEF Get, BusUnchanged
<1>3. PICK h : h = Head(queue[s])
  OBVIOUS
<1>4. /\ queue[s] # << >> /\ queue[s] \in Seq(Items) /\ h \in Event /\ h # End
      /\ queue'[s] = Tail(queue[s]) /\ \A x \in Subscribers : x # s => queue'[x] = queue[x]
      /\ last'[s][h.by] = h.n
      /\ \A x \in Subscribers, p \in Publishers : x # s \/ p # h.by => last'[x][p] = last[x][p]
  BY <1>2, <1>3, GetTyped DEF OrderedBus, Items
<1>5. \A y : Contains(queue'[s], y) => Contains(queue[s], y)
  BY <1>4, TailSet
<1>6. /\ Posting'
      /\ \A o \in Publishers : \A x :
            High(o, x)' = High(o, x) /\ High(o, x)' \in Nat /\ High(o, x) <= High(o, x)'
  BY <1>2, PostsKept
<1>7. Fresh'
  <2>1. \A x \in Subscribers : reader[x] = "new" =>
           x # s /\ \A p \in Publishers : last'[x][p] = last[x][p]
    BY <1>2, <1>4 DEF Reading
  <2>2. last \in [Subscribers -> [Publishers -> Nat]] /\ last' = [last EXCEPT ![s][h.by] = h.n]
    BY <1>3 DEF OrderedBus, Bus, Typed, Get
  <2>3. \A x \in Subscribers : x # s => last'[x] = last[x]
    BY <2>2
  <2> QED
    BY <1>1, <1>2, <1>4, <2>1, <2>3 DEF Fresh
<1>8. Ours'
  BY <1>1, <1>2, <1>4, <1>5 DEF Ours, Addressed
<1>9. Histories'
  BY <1>2, HistoriesKept
<1>10. Streams'
  <2>1. ASSUME NEW o \in Publishers PROVE Ordered(queue[s], last[s][o], High(o, s), o)'
    <3>1. Ordered(queue[s], last[s][o], High(o, s), o)
      BY <1>1 DEF Streams
    <3>2. Ordered(Tail(queue[s]), last'[s][o], High(o, s), o)
      <4>1. CASE o = h.by
        BY <1>3, <1>4, <3>1, <4>1, OrderedTail
      <4>2. CASE o # h.by
        BY <1>4, <3>1, <4>2, OrderedTail
      <4> QED
        BY <4>1, <4>2
    <3> QED
      BY <1>4, <1>6, <3>2
  <2>2. ASSUME NEW x \in Subscribers, NEW o \in Publishers, x # s
        PROVE  Ordered(queue[x], last[x][o], High(o, x), o)'
    BY <1>4, <1>6, <2>2, StreamKept
  <2> QED
    BY <2>1, <2>2 DEF Streams
<1> QED
  BY <1>6, <1>7, <1>8, <1>9, <1>10 DEF Order

\* A loop that is over leaves its queue, perhaps without the end marker it took.
LEMMA FinishesOrdered ==
    ASSUME OrderedBus, NEW s \in Subscribers, Finishes(s), Reading(s),
           \/ queue'[s] = queue[s]
           \/ queue[s] # << >> /\ queue'[s] = Tail(queue[s]),
           \A x \in Subscribers : x # s => queue'[x] = queue[x]
    PROVE  Order'
<1>1. /\ Histories /\ Posting /\ Fresh /\ Ours /\ Streams
      /\ queue[s] \in Seq(Items)
      /\ reader \in [Subscribers -> {"new", "reading", "done"}]
      /\ last \in [Subscribers -> [Publishers -> Nat]]
  BY DEF OrderedBus, Order, Bus, Typed, Items
<1>2. /\ reader' = [reader EXCEPT ![s] = "done"] /\ last' = [last EXCEPT ![s] = SeenNothing]
      /\ UNCHANGED <<history, target, sending, published>>
  BY DEF Finishes
<1>3. /\ \A x \in Subscribers : reader'[x] = "new" => reader[x] = "new" /\ x # s
      /\ \A p \in Publishers : last'[s][p] = 0
      /\ \A x \in Subscribers : x # s => last'[x] = last[x]
  BY <1>1, <1>2 DEF Reading, SeenNothing
<1>4. \A y : Contains(queue'[s], y) => Contains(queue[s], y)
  BY <1>1, TailSet
<1>5. /\ Posting'
      /\ \A o \in Publishers : \A x :
            High(o, x)' = High(o, x) /\ High(o, x)' \in Nat /\ High(o, x) <= High(o, x)'
  BY <1>2, PostsKept
<1>6. Fresh'
  BY <1>1, <1>2, <1>3 DEF Fresh
<1>7. Ours'
  BY <1>1, <1>2, <1>4 DEF Ours, Addressed
<1>8. Histories'
  BY <1>2, HistoriesKept
<1>9. Streams'
  <2>1. ASSUME NEW o \in Publishers PROVE Ordered(queue[s], last[s][o], High(o, s), o)'
    <3>1. Ordered(queue[s], last[s][o], High(o, s), o) /\ last[s][o] \in Nat
      BY <1>1 DEF Streams
    <3>2. Ordered(queue'[s], last[s][o], High(o, s), o) /\ queue'[s] \in Seq(Items)
      <4>1. CASE queue'[s] = queue[s]
        BY <1>1, <3>1, <4>1
      <4>2. CASE queue[s] # << >> /\ queue'[s] = Tail(queue[s])
        <5>1. Tail(queue[s]) \in Seq(Items)
          BY <1>1, <4>2, TailSet
        <5>2. Ordered(Tail(queue[s]), last[s][o], High(o, s), o)
          BY <1>1, <3>1, <4>2, OrderedTail
        <5> QED
          BY <4>2, <5>1, <5>2
      <4> QED
        BY <4>1, <4>2
    <3>3. /\ last'[s][o] \in Nat /\ last'[s][o] <= last[s][o] /\ High(o, s) \in Nat
          /\ High(o, s)' = High(o, s) /\ High(o, s) <= High(o, s)
      BY <1>3, <1>5, <3>1
    <3>4. Ordered(queue'[s], last'[s][o], High(o, s), o)
      BY <3>1, <3>2, <3>3, OrderedSlack
    <3>5. Ordered(queue'[s], last'[s][o], High(o, s)', o)
      BY <3>3, <3>4, Zenon
    <3> QED
      BY <3>5
  <2>2. ASSUME NEW x \in Subscribers, NEW o \in Publishers, x # s
        PROVE  Ordered(queue[x], last[x][o], High(o, x), o)'
    BY <1>3, <1>5, <2>2, StreamKept
  <2> QED
    BY <2>1, <2>2 DEF Streams
<1> QED
  BY <1>5, <1>6, <1>7, <1>8, <1>9 DEF Order

\* A reader's queue gets the end marker, perhaps for its oldest event.
LEMMA EndsOrdered ==
    ASSUME OrderedBus, UNCHANGED <<history, published, sending, target, reader, last>>,
           \A x \in Subscribers :
              \/ queue'[x] = queue[x]
              \/ Reading(x) /\ queue'[x] = Append(queue[x], End)
              \/ /\ Reading(x) /\ queue[x] # << >>
                 /\ queue'[x] = Append(Tail(queue[x]), End)
    PROVE  Order'
<1>1. /\ Histories /\ Posting /\ Fresh /\ Ours /\ Streams
      /\ queue \in [Subscribers -> Seq(Items)] /\ End \in Items
      /\ last \in [Subscribers -> [Publishers -> Nat]]
  BY DEF OrderedBus, Order, Bus, Typed, Items
<1>2. /\ Posting'
      /\ \A o \in Publishers : \A x :
            High(o, x)' = High(o, x) /\ High(o, x)' \in Nat /\ High(o, x) <= High(o, x)'
  BY PostsKept
<1>3. Fresh'
  BY <1>1 DEF Fresh, Reading
<1>4. Histories'
  BY HistoriesKept
<1>5. ASSUME NEW x \in Subscribers, queue'[x] # queue[x]
      PROVE  \E q \in Seq(Items) :
                /\ queue'[x] = Append(q, End)
                /\ \A y : Contains(q, y) => Contains(queue[x], y)
                /\ \A o \in Publishers : Ordered(q, last[x][o], High(o, x), o)
  <2>1. queue[x] \in Seq(Items) /\ \A o \in Publishers : Ordered(queue[x], last[x][o], High(o, x), o)
    BY <1>1 DEF Streams
  <2>2. CASE queue'[x] = Append(queue[x], End)
    BY <2>1, <2>2
  <2>3. CASE queue[x] # << >> /\ queue'[x] = Append(Tail(queue[x]), End)
    <3>1. Tail(queue[x]) \in Seq(Items) /\ \A y : Contains(Tail(queue[x]), y) => Contains(queue[x], y)
      BY <2>1, <2>3, TailSet
    <3>2. \A o \in Publishers : Ordered(Tail(queue[x]), last[x][o], High(o, x), o)
      BY <2>1, <2>3, OrderedTail
    <3> QED
      BY <2>3, <3>1, <3>2
  <2> QED
    BY <1>5, <2>2, <2>3
<1>6. ASSUME NEW x \in Subscribers, NEW y, Contains(queue'[x], y), y # End
      PROVE  Contains(queue[x], y)
  <2>1. CASE queue'[x] # queue[x]
    <3>1. PICK q \in Seq(Items) : /\ queue'[x] = Append(q, End)
                                  /\ \A z : Contains(q, z) => Contains(queue[x], z)
      BY <1>5, <2>1
    <3> QED
      BY <1>1, <1>6, <3>1, AppendSet
  <2> QED
    BY <1>6, <2>1
<1>7. Ours'
  BY <1>1, <1>6 DEF Ours, Addressed
<1>8. Streams'
  <2>1. ASSUME NEW x \in Subscribers, NEW o \in Publishers, queue'[x] # queue[x]
        PROVE  Ordered(queue[x], last[x][o], High(o, x), o)'
    <3>1. PICK q \in Seq(Items) : /\ queue'[x] = Append(q, End)
                                  /\ Ordered(q, last[x][o], High(o, x), o)
      BY <1>5, <2>1
    <3>2. last[x][o] \in Nat /\ High(o, x) \in Nat
      BY <1>1, HighNumber
    <3>3. Ordered(Append(q, End), last[x][o], High(o, x), o)
      BY <1>1, <3>1, <3>2, OrderedAppend
    <3>4. Ordered(queue'[x], last'[x][o], High(o, x)', o)
      BY <1>2, <3>1, <3>3
    <3> QED
      BY <3>4
  <2>2. ASSUME NEW x \in Subscribers, NEW o \in Publishers, queue'[x] = queue[x]
        PROVE  Ordered(queue[x], last[x][o], High(o, x), o)'
    BY <1>2, <2>2, StreamKept
  <2> QED
    BY <2>1, <2>2 DEF Streams
<1> QED
  BY <1>2, <1>3, <1>4, <1>7, <1>8 DEF Order

LEMMA CloseStreamOrdered ==
    ASSUME OrderedBus, NEW r \in Runs, CloseStream(r)
    PROVE  Order'
<1>1. /\ Rosters /\ QueuesFit /\ r \in Channels /\ queue \in [Subscribers -> Seq(Items)]
      /\ queue' = [s \in Subscribers |->
            IF ~Listens(s, r) THEN queue[s]
            ELSE Append(IF Full(s) THEN Tail(queue[s]) ELSE queue[s], End)]
      /\ UNCHANGED <<history, published, sending, target, reader, last>>
  BY Sizes DEF OrderedBus, Bus, Typed, CloseStream, Items
<1>2. ASSUME NEW x \in Subscribers
      PROVE  \/ queue'[x] = queue[x]
             \/ Reading(x) /\ queue'[x] = Append(queue[x], End)
             \/ /\ Reading(x) /\ queue[x] # << >>
                /\ queue'[x] = Append(Tail(queue[x]), End)
  <2>1. queue'[x] = IF ~Listens(x, r) THEN queue[x]
                    ELSE Append(IF Full(x) THEN Tail(queue[x]) ELSE queue[x], End)
    BY <1>1
  <2>2. Listens(x, r) => Reading(x)
    BY <1>1 DEF Rosters
  <2>3. Full(x) => queue[x] # << >>
    <3>1. queue[x] \in Seq(Items) /\ Len(queue[x]) <= QueueSize
      BY <1>1 DEF QueuesFit
    <3> QED
      BY <3>1, EmptySeq, Sizes DEF Full
  <2> QED
    BY <2>1, <2>2, <2>3
<1> QED
  BY <1>1, <1>2, EndsOrdered

LEMMA CloseGlobalOrdered ==
    ASSUME OrderedBus, CloseGlobal
    PROVE  Order'
<1>1. /\ Rosters /\ Everything \in Channels
      /\ queue' = [s \in Subscribers |->
            IF Listens(s, Everything) /\ ~Full(s) THEN Append(queue[s], End) ELSE queue[s]]
      /\ UNCHANGED <<history, published, sending, target, reader, last>>
  BY Sizes DEF OrderedBus, Bus, CloseGlobal
<1>2. ASSUME NEW x \in Subscribers
      PROVE  \/ queue'[x] = queue[x]
             \/ Reading(x) /\ queue'[x] = Append(queue[x], End)
  BY <1>1 DEF Rosters
<1> QED
  BY <1>1, <1>2, EndsOrdered

LEMMA DropHistoryOrdered ==
    ASSUME OrderedBus, NEW r \in Runs, DropHistory(r)
    PROVE  Order'
<1>1. /\ UNCHANGED <<published, sending, target, reader, last, queue>> /\ Order
      /\ \A x \in Runs : history'[x] \in {<< >>, history[x]}
  BY DropHistoryTyped DEF DropHistory, ReadersUnchanged, OrderedBus
<1>2. Histories'
  BY <1>1, HistoriesKept
<1>3. Posting' /\ Streams'
  BY <1>1, PostsKept, StreamKept DEF Streams
<1> QED
  BY <1>1, <1>2, <1>3 DEF Order, Fresh, Ours, Addressed

LEMMA OrderStep == OrderedBus /\ [Next]_busVars => OrderedBus'
<1> SUFFICES ASSUME OrderedBus, [Next]_busVars PROVE OrderedBus'
  OBVIOUS
<1>1. Bus'
  BY BusStep DEF OrderedBus
<1>2. ASSUME UNCHANGED busVars PROVE Order'
  <2>1. /\ UNCHANGED <<published, sending, target, reader, last, queue, history>> /\ Order
    BY <1>2 DEF busVars, OrderedBus
  <2>2. Histories' /\ Posting' /\ Streams'
    BY <2>1, HistoriesKept, PostsKept, StreamKept DEF Streams
  <2> QED
    BY <2>1, <2>2 DEF Order, Fresh, Ours, Addressed
<1>3. ASSUME NEW p \in Publishers, GiveUp(p) \/ Cancel(p) PROVE Order'
  BY <1>3, DroppedOrdered DEF GiveUp, Cancel, BusUnchanged
<1>4. ASSUME NEW s \in Subscribers, ReadEnd(s) \/ Leave(s) PROVE Order'
  <2>1. CASE ReadEnd(s)
    BY <2>1, ReadEndTyped, FinishesOrdered DEF ReadEnd, OrderedBus
  <2>2. CASE Leave(s)
    BY <2>2, FinishesOrdered DEF Leave
  <2> QED
    BY <1>4, <2>1, <2>2
<1>5. Order'
  BY <1>2, <1>3, <1>4, PublishOrdered, DeliverOrdered, SubscribeOrdered, SubscribeGlobalOrdered,
     RejectGlobalOrdered, GetOrdered, CloseStreamOrdered, CloseGlobalOrdered, DropHistoryOrdered
  DEF Next
<1> QED
  BY <1>1, <1>5 DEF OrderedBus

LEMMA OrderStart == Init => OrderedBus
<1> SUFFICES ASSUME Init PROVE OrderedBus
  OBVIOUS
<1>1. /\ Bus /\ published = << >> /\ Len(published) = 0
      /\ \A r \in Runs : history[r] = << >>
      /\ \A s \in Subscribers : queue[s] = << >> /\ last[s] = SeenNothing
      /\ \A p \in Publishers : sending[p] = Idle
  BY BusStart, EmptySeq DEF Init
<1>2. DOMAIN << >> = {} /\ \A x : ~Contains(<< >>, x)
  BY NothingLeft
<1>3. Histories
  BY <1>1, <1>2 DEF Histories, Recorded
<1>4. Posting /\ Fresh /\ Ours
  BY <1>1, <1>2, NothingLeft DEF Posting, Sends, Fresh, Ours
<1>5. Streams
  <2>1. \A s \in Subscribers, p \in Publishers : High(p, s) = 1 /\ last[s][p] = 0
    BY <1>1, <1>2, NothingLeft DEF High, SeenNothing
  <2> QED
    BY <1>1, <1>2, <2>1 DEF Streams, Ordered
<1> QED
  BY <1>1, <1>3, <1>4, <1>5 DEF OrderedBus, Order

LEMMA OrderGivesOnceAndInOrder == OrderedBus => OnceAndInOrder
<1> SUFFICES ASSUME OrderedBus, NEW s \in Subscribers, NEW p \in Publishers,
                    NEW x \in Coming(p, s)
             PROVE  /\ Addressed(x[2], s)
                    /\ last[s][p] < x[2].n
                    /\ \A y \in Coming(p, s) : x[1] < y[1] => x[2].n < y[2].n
  BY DEF OnceAndInOrder
<1>1. /\ Posting /\ Ours /\ Ordered(queue[s], last[s][p], High(p, s), p)
      /\ Len(queue[s]) \in Nat /\ Len(queue[s]) <= QueueSize /\ QueueSize \in Nat
      /\ DOMAIN queue[s] = 1 .. Len(queue[s])
  BY Sizes, LenProperties DEF OrderedBus, Order, Streams, Bus, Typed, QueuesFit
<1> DEFINE Queued(y) == \E i \in DOMAIN queue[s] :
                           y = <<i, queue[s][i]>> /\ queue[s][i] # End /\ queue[s][i].by = p
           Put(y) == y = <<QueueSize + 1, sending[p].event>> /\ Contains(sending[p].to, s)
<1>2. \A y \in Coming(p, s) : Queued(y) \/ Put(y)
  BY DEF Coming
<1>3. ASSUME NEW y \in Coming(p, s), Put(y)
      PROVE  /\ Addressed(y[2], s) /\ y[2].n = High(p, s)
             /\ last[s][p] < y[2].n
  <2>1. y[2] = sending[p].event /\ Contains(sending[p].to, s) /\ Sends(p)
    BY <1>3, HighNumber
  <2> QED
    BY <1>1, <2>1 DEF Posting, High, Ordered
<1>4. ASSUME NEW y \in Coming(p, s), Queued(y)
      PROVE  /\ Addressed(y[2], s) /\ y[2].n < High(p, s)
             /\ last[s][p] < y[2].n
  <2>1. PICK i \in DOMAIN queue[s] : y = <<i, queue[s][i]>> /\ queue[s][i] # End /\ queue[s][i].by = p
    BY <1>4
  <2>2. Contains(queue[s], queue[s][i])
    BY <1>1 DEF Contains
  <2> QED
    BY <1>1, <2>1, <2>2 DEF Ours, Ordered
<1>5. ASSUME NEW y \in Coming(p, s), x[1] < y[1] PROVE x[2].n < y[2].n
  <2>1. CASE Put(x)
    <3>1. x[1] = QueueSize + 1 /\ y[1] \in 1 .. QueueSize + 1
      BY <1>1, <1>2, <2>1
    <3> QED
      BY <1>1, <1>5, <3>1
  <2>2. CASE Queued(x) /\ Put(y)
    BY <1>3, <1>4, <2>2
  <2>3. CASE Queued(x) /\ Queued(y)
    BY <1>1, <1>5, <2>3 DEF Ordered
  <2> QED
    BY <1>2, <2>1, <2>2, <2>3
<1> QED
  BY <1>2, <1>3, <1>4, <1>5

\* A consumer sees what one task emits in that order and never twice, the replayed history
\* included, and only its own run's events, however the publishers' puts, the replays and
\* the closings come between each other.
THEOREM AlwaysOnceAndInOrder == Spec => []OnceAndInOrder
<1> QED
  BY OrderStart, OrderStep, OrderGivesOnceAndInOrder, PTL DEF Spec

(***************************************************************************)
(* No silent gaps                                                          *)
(***************************************************************************)

\* An event waits for s: in its queue, or for the put of the task that emitted it.
Waits(e, s) == \/ Contains(queue[s], e)
               \/ Contains(sending[e.by].to, s) /\ sending[e.by].event = e

Accounted(e, s) == e.n <= last[s][e.by] \/ Waits(e, s) \/ e \in missed[s]

Numbered == \A n \in DOMAIN published : published[n].n = n

\* What s was registered for is accounted for.
Gapless ==
    \A s \in Subscribers : Listens(s, target[s]) =>
        \A n \in since[s] + 1 .. Len(published) :
            Addressed(published[n], s) => Accounted(published[n], s)

GaplessBus == OrderedBus /\ Numbered /\ Gapless

LEMMA GaplessHasNoSilentGaps == GaplessBus => NoSilentGaps
<1> SUFFICES ASSUME GaplessBus, NEW s \in Subscribers, Listens(s, target[s]),
                    NEW n \in since[s] + 1 .. Len(published), Addressed(published[n], s)
             PROVE  LET e == published[n]
                    IN  \/ n <= last[s][e.by]
                        \/ \E x \in Coming(e.by, s) : x[2] = e
                        \/ e \in missed[s]
  BY DEF NoSilentGaps
<1>1. PICK e : e = published[n]
  OBVIOUS
<1>2. /\ e \in Event /\ e.n = n /\ e # End /\ Accounted(e, s)
  <2>1. published \in Seq(Event) /\ since[s] \in Nat /\ Len(published) \in Nat
    BY LenProperties DEF GaplessBus, OrderedBus, Bus, Typed
  <2>2. n \in 1 .. Len(published) /\ 1 .. Len(published) = DOMAIN published
    BY <2>1, LenProperties
  <2> QED
    BY <1>1, <2>1, <2>2, ElementOfSeq, Sizes DEF GaplessBus, Numbered, Gapless
<1>3. ASSUME Contains(queue[s], e) PROVE \E x \in Coming(e.by, s) : x[2] = e
  <2>1. queue[s] \in Seq(Items)
    BY DEF GaplessBus, OrderedBus, Bus, Typed, Items
  <2>2. PICK i \in DOMAIN queue[s] : queue[s][i] = e
    BY <1>3, <2>1, LenProperties DEF Contains
  <2>3. <<i, e>> \in Coming(e.by, s)
    BY <1>2, <2>2 DEF Coming
  <2> QED
    BY <2>3
<1>4. ASSUME Contains(sending[e.by].to, s), sending[e.by].event = e
      PROVE  \E x \in Coming(e.by, s) : x[2] = e
  <2>1. <<QueueSize + 1, e>> \in Coming(e.by, s)
    BY <1>4 DEF Coming
  <2> QED
    BY <2>1
<1> QED
  BY <1>1, <1>2, <1>3, <1>4 DEF Accounted, Waits

\* Without a publish there is nothing new to account for.
LEMMA GaplessKept ==
    ASSUME GaplessBus, published' = published,
           \A s \in Subscribers : Contains(registered'[target'[s]], s) =>
              \/ since'[s] = Len(published)
              \/ /\ Listens(s, target[s]) /\ target'[s] = target[s] /\ since'[s] = since[s]
                 /\ \A e \in Event : Accounted(e, s) => Accounted(e, s)'
    PROVE  Numbered' /\ Gapless'
<1>1. /\ published \in Seq(Event) /\ Len(published) \in Nat /\ since \in [Subscribers -> Nat]
      /\ Numbered /\ Gapless
  BY LenProperties DEF GaplessBus, OrderedBus, Bus, Typed
<1>2. Numbered'
  BY <1>1 DEF Numbered
<1>3. ASSUME NEW s \in Subscribers, Contains(registered'[target'[s]], s),
             NEW n \in since'[s] + 1 .. Len(published), Addressed(published[n], s)'
      PROVE  Accounted(published[n], s)'
  <2>1. CASE since'[s] = Len(published)
    BY <1>1, <1>3, <2>1
  <2>2. CASE /\ Listens(s, target[s]) /\ target'[s] = target[s] /\ since'[s] = since[s]
             /\ \A e \in Event : Accounted(e, s) => Accounted(e, s)'
    <3>1. PICK e : e = published[n]
      OBVIOUS
    <3>2. e \in Event
      <4>1. n \in 1 .. Len(published)
        BY <1>1, <1>3, <2>2
      <4> QED
        BY <1>1, <3>1, <4>1, ElementOfSeq
    <3>3. Accounted(e, s)
      BY <1>1, <1>3, <2>2, <3>1 DEF Gapless, Addressed
    <3>4. Accounted(e, s)'
      BY <2>2, <3>2, <3>3
    <3>5. e = published'[n]
      BY <3>1
    <3> QED
      BY <3>4, <3>5 DEF Accounted, Waits
  <2> QED
    BY <1>3, <2>1, <2>2
<1>4. Gapless'
  BY <1>3 DEF Gapless, Listens
<1> QED
  BY <1>2, <1>4

LEMMA PublishGapless ==
    ASSUME GaplessBus, NEW p \in Publishers, NEW r \in Runs, Publish(p, r)
    PROVE  Numbered' /\ Gapless'
<1>1. /\ Bus /\ Numbered /\ Gapless
      /\ published \in Seq(Event) /\ Len(published) \in Nat /\ since \in [Subscribers -> Nat]
  BY LenProperties DEF GaplessBus, OrderedBus, Bus, Typed
<1>2. PICK event \in Event :
         /\ event = [run |-> r, by |-> p, n |-> Len(published) + 1]
         /\ published' = Append(published, event)
         /\ \A o \in Publishers : o # p => sending'[o] = sending[o]
         /\ sending'[p].to = registered[r] \o registered[Everything]
         /\ sending'[p].to # << >> => sending'[p].event = event
  BY <1>1, PublishTyped
<1>3. ~Sends(p) /\ UNCHANGED <<registered, queue, reader, target, last, since, missed>>
  BY DEF Publish, ReadersUnchanged
<1>4. event.run = r /\ event.by = p /\ event.n = Len(published) + 1
  BY <1>2
<1>5. /\ Len(published') = Len(published) + 1 /\ published'[Len(published) + 1] = event
      /\ \A n \in 1 .. Len(published) : published'[n] = published[n]
      /\ DOMAIN published = 1 .. Len(published) /\ DOMAIN published' = 1 .. Len(published) + 1
  BY <1>1, <1>2, AppendProperties, LenProperties
<1>6. Numbered'
  BY <1>1, <1>4, <1>5 DEF Numbered
<1>7. ASSUME NEW s \in Subscribers, NEW e \in Event, Accounted(e, s)
      PROVE  Accounted(e, s)'
  <2>1. ASSUME Contains(sending[e.by].to, s) PROVE sending'[e.by] = sending[e.by]
    <3>1. e.by # p
      BY <1>3, <2>1, NothingLeft DEF Sends
    <3> QED
      BY <1>2, <3>1, EventNumber
  <2> QED
    BY <1>3, <1>7, <2>1 DEF Accounted, Waits
<1>8. ASSUME NEW s \in Subscribers, Listens(s, target[s]), Addressed(event, s)
      PROVE  Waits(event, s)'
  <2>1. /\ registered[r] \in Seq(Subscribers) /\ registered[Everything] \in Seq(Subscribers)
    BY <1>1, Sizes DEF Bus, Typed
  <2>2. Contains(registered[r], s) \/ Contains(registered[Everything], s)
    BY <1>4, <1>8 DEF Listens, Addressed
  <2>3. Contains(sending'[p].to, s)
    BY <1>2, <2>1, <2>2, ConcatSet
  <2>4. sending'[p].event = event
    BY <1>2, <2>3, NothingLeft
  <2> QED
    BY <1>4, <2>3, <2>4 DEF Waits
<1>9. ASSUME NEW s \in Subscribers, Listens(s, target[s]),
             NEW n \in since[s] + 1 .. Len(published) + 1, Addressed(published'[n], s)
      PROVE  Accounted(published[n], s)'
  <2>1. CASE n = Len(published) + 1
    <3>1. Waits(event, s)' /\ published'[n] = event
      BY <1>5, <1>8, <1>9, <2>1
    <3> QED
      BY <3>1 DEF Accounted, Waits
  <2>2. CASE n \in 1 .. Len(published)
    <3>1. PICK e : e = published[n]
      OBVIOUS
    <3>2. e \in Event /\ published'[n] = e
      BY <1>1, <1>5, <2>2, <3>1, ElementOfSeq
    <3>3. Accounted(e, s)
      BY <1>1, <1>9, <2>2, <3>1, <3>2 DEF Gapless
    <3>4. Accounted(e, s)'
      BY <1>7, <3>2, <3>3
    <3> QED
      BY <3>2, <3>4 DEF Accounted, Waits
  <2> QED
    BY <1>1, <1>9, <2>1, <2>2
<1>10. Gapless'
  BY <1>3, <1>5, <1>9 DEF Gapless, Listens, Addressed
<1> QED
  BY <1>6, <1>10

\* What the next subscriber was to get went to its queue, or is missed.
LEMMA PutGapless ==
    ASSUME GaplessBus, NEW p \in Publishers, Deliver(p) \/ GiveUp(p) \/ Cancel(p)
    PROVE  Numbered' /\ Gapless'
<1>0. PICK s, d : s = Next1(p) /\ d = sending[p].event
  OBVIOUS
<1>1. /\ Bus /\ Posting
      /\ sending \in [Publishers -> Posts] /\ queue \in [Subscribers -> Seq(Items)]
      /\ missed \in [Subscribers -> SUBSET Items]
  BY DEF GaplessBus, OrderedBus, Order, Bus, Typed, Items
<1>2. /\ Sends(p) /\ d \in Event /\ d \in Items /\ d.by = p
      /\ UNCHANGED <<published, registered, target, since, last>>
  BY <1>0, <1>1 DEF Deliver, GiveUp, Cancel, BusUnchanged, Posting, Items
<1>3. ASSUME NEW x \in Subscribers, NEW e \in Event, Accounted(e, x)
      PROVE  Accounted(e, x)'
  <2>1. e.by \in Publishers
    BY EventNumber
  <2>2. /\ Contains(queue[x], e) => Contains(queue'[x], e)
        /\ e \in missed[x] => e \in missed'[x]
    <3>1. CASE Deliver(p)
      <4>1. queue' = [queue EXCEPT ![s] = Append(@, d)] /\ missed' = missed
        BY <1>0, <3>1 DEF Deliver
      <4>2. queue'[x] = queue[x] \/ queue'[x] = Append(queue[x], d)
        BY <1>1, <4>1
      <4>3. \A y : Contains(Append(queue[x], d), y) <=> Contains(queue[x], y) \/ y = d
        BY <1>1, <1>2, AppendSet
      <4> QED
        BY <4>1, <4>2, <4>3
    <3>2. CASE GiveUp(p)
      BY <1>1, <3>2 DEF GiveUp, Misses
    <3>3. CASE Cancel(p)
      BY <1>1, <3>3 DEF Cancel
    <3> QED
      BY <3>1, <3>2, <3>3
  <2>3. ASSUME Contains(sending[e.by].to, x), sending[e.by].event = e
        PROVE  Waits(e, x)' \/ e \in missed'[x]
    <3>1. CASE e.by # p
      <4>1. sending'[e.by] = sending[e.by]
        <5>1. CASE MovesOn(p)
          BY <1>1, <1>2, <2>1, <3>1, <5>1, MovesOnPosts
        <5>2. CASE sending' = [sending EXCEPT ![p] = Idle]
          BY <1>1, <2>1, <3>1, <5>2
        <5> QED
          BY <5>1, <5>2 DEF Deliver, GiveUp, Cancel
      <4> QED
        BY <2>3, <4>1 DEF Waits
    <3>2. CASE e.by = p /\ MovesOn(p)
      <4>1. /\ Contains(sending'[p].to, x) \/ x = s
            /\ sending'[p].to # << >> => sending'[p].event = e
            /\ s \in Subscribers
        BY <1>0, <1>1, <1>2, <2>3, <3>2, MovesOnPosts
      <4>2. CASE Contains(sending'[p].to, x)
        BY <3>2, <4>1, <4>2, NothingLeft DEF Waits
      <4>3. CASE x = s /\ Deliver(p)
        <5>1. queue'[x] = Append(queue[x], e)
          BY <1>0, <1>1, <2>3, <3>2, <4>1, <4>3 DEF Deliver
        <5> QED
          BY <1>1, <1>2, <5>1, AppendSet DEF Waits, Items
      <4>4. CASE x = s /\ GiveUp(p)
        BY <1>0, <1>1, <2>3, <3>2, <4>1, <4>4 DEF GiveUp, Misses
      <4>5. CASE Cancel(p)
        BY <1>1, <2>3, <3>2, <4>5 DEF Cancel
      <4> QED
        BY <4>1, <4>2, <4>3, <4>4, <4>5
    <3>3. CASE e.by = p /\ Cancel(p)
      BY <1>1, <2>3, <3>3 DEF Cancel
    <3> QED
      BY <3>1, <3>2, <3>3 DEF Deliver, GiveUp
  <2> QED
    BY <1>2, <1>3, <2>2, <2>3 DEF Accounted, Waits
<1> QED
  BY <1>2, <1>3, GaplessKept DEF Listens

\* Who comes has nothing to account for yet, and the others are as before.
LEMMA ComesGapless ==
    ASSUME GaplessBus, NEW s \in Subscribers, NEW c \in Channels, Starts(s, c),
           UNCHANGED <<published, sending, last>>,
           \A x \in Subscribers : x # s => queue'[x] = queue[x] /\ missed'[x] = missed[x],
           \/ UNCHANGED <<registered, since>>
           \/ Registers(s, c) /\ (c = Everything => Len(registered[Everything]) < MaxGlobals)
    PROVE  Numbered' /\ Gapless'
<1>1. /\ Bus /\ Rosters /\ registered \in [Channels -> Seq(Subscribers)]
      /\ since \in [Subscribers -> Nat] /\ target \in [Subscribers -> Channels]
      /\ target' = [target EXCEPT ![s] = c] /\ ~Reading(s)
  BY DEF GaplessBus, OrderedBus, Bus, Typed, Starts, Reading
<1>2. target'[s] = c /\ \A x \in Subscribers : x # s => target'[x] = target[x]
  BY <1>1
<1>3. ASSUME NEW x \in Subscribers, Contains(registered'[target'[x]], x)
      PROVE  \/ since'[x] = Len(published)
             \/ /\ Listens(x, target[x]) /\ target'[x] = target[x] /\ since'[x] = since[x]
                /\ \A e \in Event : Accounted(e, x) => Accounted(e, x)'
  <2>1. target'[x] \in Channels
    BY <1>1, <1>2
  <2>2. ASSUME x # s PROVE \A e \in Event : Accounted(e, x) => Accounted(e, x)'
    BY <2>2 DEF Accounted, Waits
  <2>3. CASE UNCHANGED <<registered, since>>
    <3>1. x # s
      BY <1>1, <1>3, <2>1, <2>3 DEF Rosters, Listens
    <3> QED
      BY <1>2, <1>3, <2>2, <2>3, <3>1 DEF Listens
  <2>4. CASE Registers(s, c) /\ (c = Everything => Len(registered[Everything]) < MaxGlobals)
    <3>1. since' = [since EXCEPT ![s] = Len(published)]
      BY <2>4 DEF Registers
    <3>2. Contains(registered'[target'[x]], x) <=> Listens(x, target'[x]) \/ (x = s /\ target'[x] = c)
      BY <1>1, <2>1, <2>4, RegisterTyped
    <3> QED
      BY <1>1, <1>2, <1>3, <2>2, <3>1, <3>2
  <2> QED
    BY <2>3, <2>4
<1> QED
  BY <1>3, GaplessKept

LEMMA GetGapless ==
    ASSUME GaplessBus, NEW s \in Subscribers, Get(s)
    PROVE  Numbered' /\ Gapless'
<1>1. /\ Bus /\ Streams /\ last \in [Subscribers -> [Publishers -> Nat]]
  BY DEF GaplessBus, OrderedBus, Order, Bus, Typed
<1>2. UNCHANGED <<published, registered, target, sending, since, missed>>
  BY DEF Get, BusUnchanged
<1>3. PICK h : h = Head(queue[s])
  OBVIOUS
<1>4. /\ queue[s] # << >> /\ queue[s] \in Seq(Items) /\ h \in Event /\ h # End
      /\ queue'[s] = Tail(queue[s]) /\ \A x \in Subscribers : x # s => queue'[x] = queue[x]
      /\ last'[s][h.by] = h.n
      /\ \A x \in Subscribers, p \in Publishers : x # s \/ p # h.by => last'[x][p] = last[x][p]
  BY <1>1, <1>3, GetTyped, Sizes DEF Items
<1>5. h.n \in Nat /\ h.by \in Publishers /\ last[s][h.by] \in Nat
  BY <1>1, <1>4, EventNumber
<1>6. last[s][h.by] < h.n
  <2>1. Ordered(queue[s], last[s][h.by], High(h.by, s), h.by)
    BY <1>1, <1>5 DEF Streams
  <2>2. 1 \in DOMAIN queue[s] /\ queue[s][1] = h
    BY <1>3, <1>4, TailSet, LenProperties
  <2> QED
    BY <1>4, <2>1, <2>2 DEF Ordered
<1>7. ASSUME NEW x \in Subscribers, NEW e \in Event, Accounted(e, x)
      PROVE  Accounted(e, x)'
  <2>1. e.n \in Nat /\ e.by \in Publishers /\ last[x][e.by] \in Nat
    BY <1>1, EventNumber
  <2>2. last'[x][e.by] \in Nat /\ last[x][e.by] <= last'[x][e.by]
    <3>1. CASE x = s /\ e.by = h.by
      BY <1>4, <1>5, <1>6, <3>1
    <3>2. CASE ~(x = s /\ e.by = h.by)
      BY <1>4, <2>1, <3>2
    <3> QED
      BY <3>1, <3>2
  <2>3. Contains(queue[x], e) => Contains(queue'[x], e) \/ e.n <= last'[x][e.by]
    <3>1. CASE x = s
      <4>1. Contains(queue[s], e) => Contains(queue'[s], e) \/ e = h
        BY <1>3, <1>4, TailSet
      <4> QED
        BY <1>4, <2>1, <3>1, <4>1
    <3>2. CASE x # s
      BY <1>4, <3>2
    <3> QED
      BY <3>1, <3>2
  <2> QED
    BY <1>2, <1>7, <2>1, <2>2, <2>3 DEF Accounted, Waits
<1> QED
  BY <1>2, <1>7, GaplessKept DEF Listens

LEMMA FinishesGapless ==
    ASSUME GaplessBus, NEW s \in Subscribers, Finishes(s),
           \A x \in Subscribers : x # s => queue'[x] = queue[x]
    PROVE  Numbered' /\ Gapless'
<1>1. /\ Bus /\ target \in [Subscribers -> Channels]
      /\ since \in [Subscribers -> Nat] /\ missed \in [Subscribers -> SUBSET (Event \cup {End})]
      /\ last \in [Subscribers -> [Publishers -> Nat]]
  BY DEF GaplessBus, OrderedBus, Bus, Typed
<1>2. /\ last' = [last EXCEPT ![s] = SeenNothing] /\ since' = [since EXCEPT ![s] = 0]
      /\ missed' = [missed EXCEPT ![s] = {}]
      /\ UNCHANGED <<target, sending, published>>
  BY DEF Finishes
<1>3. \A x \in Subscribers : x # s =>
         last'[x] = last[x] /\ since'[x] = since[x] /\ missed'[x] = missed[x]
  BY <1>1, <1>2
<1>4. ASSUME NEW x \in Subscribers, Contains(registered'[target'[x]], x)
      PROVE  /\ Listens(x, target[x]) /\ target'[x] = target[x] /\ since'[x] = since[x]
             /\ \A e \in Event : Accounted(e, x) => Accounted(e, x)'
  <2>1. Listens(x, target[x]) /\ x # s
    BY <1>1, <1>2, <1>4, FinishTyped
  <2> QED
    BY <1>2, <1>3, <2>1 DEF Accounted, Waits
<1> QED
  BY <1>2, <1>4, GaplessKept

\* Who listens to a channel still after another was closed, has lost nothing by it.
LEMMA ClosesGapless ==
    ASSUME GaplessBus, NEW c \in Channels,
           registered' = [registered EXCEPT ![c] = << >>],
           \A x \in Subscribers : ~Listens(x, c) => queue'[x] = queue[x] /\ missed'[x] = missed[x],
           UNCHANGED <<published, sending, reader, target, last, since>>
    PROVE  Numbered' /\ Gapless'
<1>1. /\ Bus /\ Rosters /\ target \in [Subscribers -> Channels]
  BY DEF GaplessBus, OrderedBus, Bus, Typed
<1>2. ASSUME NEW x \in Subscribers, Contains(registered'[target'[x]], x)
      PROVE  /\ Listens(x, target[x]) /\ target'[x] = target[x] /\ since'[x] = since[x]
             /\ \A e \in Event : Accounted(e, x) => Accounted(e, x)'
  <2>1. Listens(x, target[x]) /\ target[x] # c
    BY <1>1, <1>2, EmptiedTyped
  <2>2. ~Listens(x, c)
    BY <1>1, <2>1 DEF Rosters
  <2> QED
    BY <2>1, <2>2 DEF Accounted, Waits
<1> QED
  BY <1>2, GaplessKept

LEMMA GaplessStep == GaplessBus /\ [Next]_busVars => GaplessBus'
<1> SUFFICES ASSUME GaplessBus, [Next]_busVars PROVE GaplessBus'
  OBVIOUS
<1>1. OrderedBus /\ OrderedBus'
  BY OrderStep DEF GaplessBus
<1>2. ASSUME NEW s \in Subscribers, NEW r \in Runs, Subscribe(s, r) PROVE Numbered' /\ Gapless'
  <2>1. /\ Starts(s, r) /\ r \in Channels /\ r # Everything /\ UNCHANGED <<published, sending, last>>
        /\ UNCHANGED <<registered, since>> \/ Registers(s, r)
    BY <1>2, Sizes DEF Subscribe
  <2>2. ASSUME NEW x \in Subscribers, x # s PROVE queue'[x] = queue[x] /\ missed'[x] = missed[x]
    BY <1>1, <1>2, <2>2 DEF Subscribe, Misses, OrderedBus, Bus, Typed
  <2> QED
    BY <2>1, <2>2, ComesGapless
<1>3. ASSUME NEW s \in Subscribers, SubscribeGlobal(s) PROVE Numbered' /\ Gapless'
  BY <1>3, Sizes, ComesGapless DEF SubscribeGlobal
<1>4. ASSUME NEW s \in Subscribers, RejectGlobal(s) PROVE Numbered' /\ Gapless'
  BY <1>4, GaplessKept DEF RejectGlobal, Listens, Accounted, Waits
<1>5. ASSUME NEW s \in Subscribers, ReadEnd(s) PROVE Numbered' /\ Gapless'
  BY <1>1, <1>5, ReadEndTyped, FinishesGapless DEF ReadEnd, OrderedBus
<1>6. ASSUME NEW s \in Subscribers, Leave(s) PROVE Numbered' /\ Gapless'
  BY <1>6, FinishesGapless DEF Leave
<1>7. ASSUME NEW r \in Runs, CloseStream(r) PROVE Numbered' /\ Gapless'
  <2>1. /\ r \in Channels /\ registered' = [registered EXCEPT ![r] = << >>]
        /\ UNCHANGED <<published, sending, reader, target, last, since>>
    BY <1>7, Sizes DEF CloseStream
  <2>2. ASSUME NEW x \in Subscribers, ~Listens(x, r)
        PROVE  queue'[x] = queue[x] /\ missed'[x] = missed[x]
    BY <1>1, <1>7, <2>2 DEF CloseStream, OrderedBus, Bus, Typed
  <2> QED
    BY <2>1, <2>2, ClosesGapless
<1>8. ASSUME CloseGlobal PROVE Numbered' /\ Gapless'
  <2>1. /\ Everything \in Channels /\ registered' = [registered EXCEPT ![Everything] = << >>]
        /\ UNCHANGED <<published, sending, reader, target, last, since, missed>>
    BY <1>8, Sizes DEF CloseGlobal
  <2>2. ASSUME NEW x \in Subscribers, ~Listens(x, Everything) PROVE queue'[x] = queue[x]
    BY <1>8, <2>2 DEF CloseGlobal
  <2> QED
    BY <2>1, <2>2, ClosesGapless
<1>9. ASSUME NEW r \in Runs, DropHistory(r) PROVE Numbered' /\ Gapless'
  BY <1>9, GaplessKept DEF DropHistory, ReadersUnchanged, Listens, Accounted, Waits
<1>10. ASSUME UNCHANGED busVars PROVE Numbered' /\ Gapless'
  BY <1>10, GaplessKept DEF busVars, Listens, Accounted, Waits
<1>11. Numbered' /\ Gapless'
  BY <1>2, <1>3, <1>4, <1>5, <1>6, <1>7, <1>8, <1>9, <1>10, PublishGapless, PutGapless, GetGapless
  DEF Next
<1> QED
  BY <1>1, <1>11 DEF GaplessBus

LEMMA GaplessStart == Init => GaplessBus
<1> SUFFICES ASSUME Init PROVE GaplessBus
  OBVIOUS
<1>1. OrderedBus /\ published = << >> /\ registered = [c \in Channels |-> << >>]
      /\ target \in [Subscribers -> Channels]
  BY OrderStart DEF Init, OrderedBus, Bus, Typed
<1>2. DOMAIN << >> = {} /\ \A x : ~Contains(<< >>, x)
  BY NothingLeft
<1>3. Numbered
  BY <1>1, <1>2 DEF Numbered
<1>4. Gapless
  BY <1>1, <1>2 DEF Gapless, Listens
<1> QED
  BY <1>1, <1>3, <1>4 DEF GaplessBus

\* What was published while a subscriber was registered and it has not seen is in its queue
\* or on its way there, or was dropped because its own queue was full for it or its publisher
\* cancelled: another subscriber's full queue never costs it an event.
THEOREM NeverSilentGaps == Spec => []NoSilentGaps
<1> QED
  BY GaplessStart, GaplessStep, GaplessHasNoSilentGaps, PTL DEF Spec

(***************************************************************************)
(* The end of a closed run                                                 *)
(***************************************************************************)

\* Nobody listens to a closed run, and who reads a run and does not listen to it has the end.
Ending ==
    /\ \A r \in closed : \A s \in Subscribers : ~Listens(s, r)
    /\ \A s \in Subscribers :
          Reading(s) /\ target[s] \in Runs => Contains(queue[s], End) \/ Listens(s, target[s])

EndingBus == Bus /\ Ending

LEMMA EndingEnds == EndingBus => ClosedStreamsEnd
  BY DEF EndingBus, Bus, Typed, Ending, ClosedStreamsEnd

\* Steps after which everybody still has what ends it.
LEMMA EndingKept ==
    ASSUME EndingBus, Bus', closed' \in SUBSET closed,
           \A x \in Subscribers : \A c \in Channels :
              Contains(registered'[c], x) => Listens(x, c),
           \A x \in Subscribers : reader'[x] = "reading" /\ target'[x] \in Runs =>
              /\ Reading(x) /\ target'[x] = target[x]
              /\ Contains(queue[x], End) => Contains(queue'[x], End)
              /\ Listens(x, target[x]) => Contains(registered'[target[x]], x)
    PROVE  EndingBus'
<1>1. /\ closed \in SUBSET Runs /\ Runs \subseteq Channels
      /\ \A r \in closed : \A s \in Subscribers : ~Listens(s, r)
      /\ \A s \in Subscribers :
            Reading(s) /\ target[s] \in Runs => Contains(queue[s], End) \/ Listens(s, target[s])
  BY Sizes DEF EndingBus, Bus, Typed, Ending
<1>2. \A r \in closed' : \A s \in Subscribers : ~Contains(registered'[r], s)
  BY <1>1
<1>3. \A s \in Subscribers : reader'[s] = "reading" /\ target'[s] \in Runs =>
         Contains(queue'[s], End) \/ Contains(registered'[target'[s]], s)
  BY <1>1
<1>4. Ending'
  BY <1>2, <1>3 DEF Ending, Listens, Reading
<1> QED
  BY <1>4 DEF EndingBus

LEMMA SubscribeEnding ==
    ASSUME EndingBus, HistoryPerRun < QueueSize, NEW s \in Subscribers, NEW r \in Runs,
           Subscribe(s, r)
    PROVE  EndingBus'
<1>1. /\ Bus /\ Bus' /\ Ending /\ Kept /\ Rosters /\ r \in Channels /\ Runs \subseteq Channels
      /\ closed \in SUBSET Runs /\ closed' = closed
      /\ reader \in [Subscribers -> {"new", "reading", "done"}]
      /\ target \in [Subscribers -> Channels]
      /\ queue \in [Subscribers -> Seq(Items)]
  BY SubscribeTyped, Sizes DEF EndingBus, Bus, Typed, Subscribe, Items
<1>2. /\ reader' = [reader EXCEPT ![s] = "reading"] /\ target' = [target EXCEPT ![s] = r]
      /\ reader[s] = "new" /\ Starts(s, r)
  BY DEF Subscribe, Starts
<1>3. /\ target'[s] = r
      /\ \A x \in Subscribers : x # s => reader'[x] = reader[x] /\ target'[x] = target[x]
  BY <1>1, <1>2
<1>4. \A x \in Subscribers : x # s => queue'[x] = queue[x]
  BY <1>1 DEF Subscribe
<1>5. CASE r \in closed
  <2>1. registered' = registered /\ queue'[s] = IF Len(Fits(r)) < QueueSize THEN Append(Fits(r), End) ELSE Fits(r)
    BY <1>1, <1>5 DEF Subscribe, Fits
  <2>2. Len(Fits(r)) < QueueSize /\ Fits(r) \in Seq(Items) /\ End \in Items
    <3>1. /\ Len(Fits(r)) <= Len(history[r]) /\ Len(history[r]) <= HistoryPerRun
          /\ Fits(r) \in Seq(Items) /\ history[r] \in Seq(Event)
      BY <1>1, FitsTyped DEF Kept, Bus, Typed, Items
    <3>2. Len(Fits(r)) \in Nat /\ Len(history[r]) \in Nat
      BY <3>1, LenProperties
    <3> QED
      BY <3>1, <3>2, Sizes DEF Items
  <2>3. Contains(queue'[s], End)
    BY <2>1, <2>2, AppendSet
  <2>4. Ending'
    BY <1>1, <1>3, <1>4, <2>1, <2>3 DEF Ending, Listens, Reading
  <2> QED
    BY <1>1, <2>4 DEF EndingBus
<1>6. CASE r \notin closed
  <2>1. Registers(s, r) /\ r # Everything
    BY <1>6, Sizes DEF Subscribe
  <2>2. \A x \in Subscribers : \A d \in Channels :
           Contains(registered'[d], x) <=> Listens(x, d) \/ (x = s /\ d = r)
    BY <1>1, <1>2, <2>1, RegisterTyped
  <2>3. Ending'
    BY <1>1, <1>3, <1>4, <1>6, <2>2 DEF Ending, Listens, Reading
  <2> QED
    BY <1>1, <2>3 DEF EndingBus
<1> QED
  BY <1>5, <1>6

LEMMA SubscribeGlobalEnding ==
    ASSUME EndingBus, NEW s \in Subscribers, SubscribeGlobal(s)
    PROVE  EndingBus'
<1>1. /\ Bus /\ Bus' /\ Ending /\ Everything \in Channels /\ Everything \notin Runs
      /\ Runs \subseteq Channels /\ closed \in SUBSET Runs
      /\ reader \in [Subscribers -> {"new", "reading", "done"}]
      /\ target \in [Subscribers -> Channels]
      /\ Starts(s, Everything) /\ Registers(s, Everything)
      /\ Len(registered[Everything]) < MaxGlobals
      /\ UNCHANGED <<queue, closed>>
  BY SubscribeGlobalTyped, Sizes DEF EndingBus, Bus, Typed, SubscribeGlobal
<1>2. \A x \in Subscribers : \A d \in Channels :
         Contains(registered'[d], x) <=> Listens(x, d) \/ (x = s /\ d = Everything)
  BY <1>1, RegisterTyped
<1>3. /\ target'[s] = Everything
      /\ \A x \in Subscribers : x # s => reader'[x] = reader[x] /\ target'[x] = target[x]
  BY <1>1 DEF Starts
<1>4. Ending'
  BY <1>1, <1>2, <1>3 DEF Ending, Listens, Reading
<1> QED
  BY <1>1, <1>4 DEF EndingBus

LEMMA CloseStreamEnding ==
    ASSUME EndingBus, NEW r \in Runs, CloseStream(r)
    PROVE  EndingBus'
<1>1. /\ Bus /\ Bus' /\ Ending /\ QueuesFit /\ Runs \subseteq Channels /\ closed \in SUBSET Runs
      /\ queue \in [Subscribers -> Seq(Event \cup {End})]
      /\ registered' = [registered EXCEPT ![r] = << >>] /\ closed' = closed \cup {r}
      /\ UNCHANGED <<reader, target>>
  BY CloseStreamTyped, Sizes DEF EndingBus, Bus, Typed, CloseStream
<1>2. \A x \in Subscribers : \A d \in Channels :
         Contains(registered'[d], x) <=> Listens(x, d) /\ d # r
  BY <1>1, EmptiedTyped
<1>3. ASSUME NEW x \in Subscribers
      PROVE  /\ Listens(x, r) => Contains(queue'[x], End)
             /\ ~Listens(x, r) => queue'[x] = queue[x]
  <2>1. queue'[x] = IF ~Listens(x, r) THEN queue[x]
                    ELSE Append(IF Full(x) THEN Tail(queue[x]) ELSE queue[x], End)
    BY DEF CloseStream
  <2>2. Contains(Append(IF Full(x) THEN Tail(queue[x]) ELSE queue[x], End), End)
    BY <1>1, ClosedQueue DEF QueuesFit, Full
  <2> QED
    BY <2>1, <2>2
<1>4. Ending'
  BY <1>1, <1>2, <1>3 DEF Ending, Listens, Reading
<1> QED
  BY <1>1, <1>4 DEF EndingBus

LEMMA CloseGlobalEnding ==
    ASSUME EndingBus, CloseGlobal
    PROVE  EndingBus'
<1>1. /\ Bus /\ Bus' /\ Rosters /\ Everything \in Channels /\ Everything \notin Runs
      /\ registered' = [registered EXCEPT ![Everything] = << >>]
      /\ UNCHANGED <<reader, target, closed>> /\ closed \in SUBSET closed
      /\ Runs \subseteq Channels
  BY CloseGlobalTyped, Sizes DEF EndingBus, Bus, CloseGlobal
<1>2. \A x \in Subscribers : \A d \in Channels :
         Contains(registered'[d], x) <=> Listens(x, d) /\ d # Everything
  BY <1>1, EmptiedTyped
<1>3. ASSUME NEW x \in Subscribers, target[x] \in Runs PROVE queue'[x] = queue[x]
  <2>1. ~Listens(x, Everything)
    BY <1>1, <1>3 DEF Rosters
  <2> QED
    BY <2>1 DEF CloseGlobal
<1> QED
  BY <1>1, <1>2, <1>3, EndingKept DEF Reading

LEMMA EndingStep ==
    ASSUME HistoryPerRun < QueueSize, EndingBus, [Next]_busVars
    PROVE  EndingBus'
<1>1. /\ Bus /\ Bus' /\ queue \in [Subscribers -> Seq(Items)] /\ sending \in [Publishers -> Posts]
      /\ reader \in [Subscribers -> {"new", "reading", "done"}] /\ Runs \subseteq Channels
  BY BusStep, Sizes DEF EndingBus, Bus, Typed, Items
<1>2. ASSUME UNCHANGED <<registered, reader, target, queue>>, closed' \in SUBSET closed
      PROVE  EndingBus'
  BY <1>1, <1>2, EndingKept DEF Listens, Reading
<1>3. ASSUME NEW p \in Publishers, NEW r \in Runs, Publish(p, r) PROVE EndingBus'
  <2>1. UNCHANGED <<registered, reader, target, queue>>
    BY <1>3 DEF Publish, ReadersUnchanged
  <2>2. closed' \in SUBSET closed
    BY <1>1, <1>3, PublishTyped, RemembersKeeps
  <2> QED
    BY <1>2, <2>1, <2>2
<1>4. ASSUME NEW p \in Publishers, Deliver(p) PROVE EndingBus'
  <2>1. PICK s, d : s = Next1(p) /\ d = sending[p].event
    OBVIOUS
  <2>2. /\ queue' = [queue EXCEPT ![s] = Append(@, d)] /\ d \in Items
        /\ UNCHANGED <<registered, closed, reader, target>>
    BY <1>1, <1>4, <2>1 DEF Deliver, BusUnchanged, Posts, Items
  <2>3. ASSUME NEW x \in Subscribers PROVE Contains(queue[x], End) => Contains(queue'[x], End)
    <3>1. queue'[x] = queue[x] \/ queue'[x] = Append(queue[x], d)
      BY <1>1, <2>2
    <3>2. \A y : Contains(Append(queue[x], d), y) <=> Contains(queue[x], y) \/ y = d
      BY <1>1, <2>2, AppendSet
    <3> QED
      BY <3>1, <3>2
  <2> QED
    BY <1>1, <2>2, <2>3, EndingKept DEF Listens, Reading
<1>5. ASSUME NEW p \in Publishers, GiveUp(p) \/ Cancel(p) PROVE EndingBus'
  BY <1>2, <1>5 DEF GiveUp, Cancel, BusUnchanged
<1>6. ASSUME NEW s \in Subscribers, RejectGlobal(s) PROVE EndingBus'
  <2>1. /\ reader' = [reader EXCEPT ![s] = "done"]
        /\ UNCHANGED <<registered, closed, target, queue>>
    BY <1>6 DEF RejectGlobal
  <2>2. \A x \in Subscribers : reader'[x] = "reading" => Reading(x)
    BY <1>1, <2>1 DEF Reading
  <2> QED
    BY <1>1, <2>1, <2>2, EndingKept DEF Listens
<1>7. ASSUME NEW s \in Subscribers, Get(s) PROVE EndingBus'
  <2>1. UNCHANGED <<registered, closed, reader, target>> /\ Head(queue[s]) # End
    BY <1>7 DEF Get, BusUnchanged
  <2>2. /\ queue[s] # << >> /\ queue'[s] = Tail(queue[s])
        /\ \A x \in Subscribers : x # s => queue'[x] = queue[x]
    BY <1>1, <1>7, GetTyped
  <2>3. Contains(queue[s], End) => Contains(queue'[s], End)
    BY <1>1, <2>1, <2>2, TailSet
  <2> QED
    BY <1>1, <2>1, <2>2, <2>3, EndingKept DEF Listens, Reading
<1>8. ASSUME NEW s \in Subscribers, ReadEnd(s) \/ Leave(s) PROVE EndingBus'
  <2>1. Finishes(s) /\ \A x \in Subscribers : x # s => queue'[x] = queue[x]
    BY <1>1, <1>8, ReadEndTyped DEF ReadEnd, Leave
  <2>2. reader' = [reader EXCEPT ![s] = "done"] /\ UNCHANGED <<closed, target>>
    BY <2>1 DEF Finishes
  <2>3. \A x \in Subscribers : reader'[x] = "reading" => Reading(x) /\ x # s
    BY <1>1, <2>2 DEF Reading
  <2>4. \A x \in Subscribers : \A c \in Channels :
           Contains(registered'[c], x) <=> Listens(x, c) /\ x # s
    BY <1>1, <2>1, FinishTyped
  <2> QED
    BY <1>1, <2>1, <2>2, <2>3, <2>4, EndingKept
<1>9. ASSUME NEW r \in Runs, DropHistory(r) PROVE EndingBus'
  BY <1>1, <1>2, <1>9, DropHistoryTyped DEF DropHistory, ReadersUnchanged
<1>10. CASE UNCHANGED busVars
  BY <1>2, <1>10 DEF busVars
<1> QED
  BY <1>3, <1>4, <1>5, <1>6, <1>7, <1>8, <1>9, <1>10, SubscribeEnding, SubscribeGlobalEnding,
     CloseStreamEnding, CloseGlobalEnding
  DEF Next

LEMMA EndingStart == Init => EndingBus
<1> SUFFICES ASSUME Init PROVE EndingBus
  OBVIOUS
<1>1. Bus /\ closed = {} /\ \A s \in Subscribers : reader[s] = "new"
  BY BusStart DEF Init
<1>2. Ending
  BY <1>1 DEF Ending, Reading
<1> QED
  BY <1>1, <1>2 DEF EndingBus

\* Whoever still reads a closed run has the end of its loop in its queue, however full that
\* was and whenever it came, provided the queues hold more than the histories replayed into
\* them: with a smaller queue a replay can leave no room for the end.
THEOREM ClosedStreamsAlwaysEnd ==
    ASSUME HistoryPerRun < QueueSize
    PROVE  Spec => []ClosedStreamsEnd
<1>1. EndingBus /\ [Next]_busVars => EndingBus'
  BY EndingStep
<1> QED
  BY <1>1, EndingStart, EndingEnds, PTL DEF Spec
=============================================================================
