--------------------------- MODULE FallbackProofs ---------------------------
(***************************************************************************)
(* Proofs about the chain of model tiers, for every number of tiers and    *)
(* calls, every threshold, window and cooldown.                            *)
(***************************************************************************)
EXTENDS Fallback, FiniteSetTheorems, SequenceTheorems, TLAPS

(***************************************************************************)
(* What the operations do to one breaker                                   *)
(***************************************************************************)

\* A function on 1 .. n is a sequence.
LEMMA FunctionsAreSequences ==
    ASSUME NEW S, NEW n \in Nat, NEW f \in [1 .. n -> S]
    PROVE  f \in Seq(S)
  OBVIOUS

LEMMA PolledBreaker ==
    ASSUME NEW b \in Breaker
    PROVE  /\ Polled(b) \in Breaker
           /\ Polled(b).probing = b.probing /\ Polled(b).left = b.left
           /\ b.state # "open" => Polled(b) = b
           /\ b.state = "open" => Polled(b).state \in {"open", "half_open"}
  BY DEF Polled, Breaker, States

LEMMA AgedBreaker ==
    ASSUME NEW b \in Breaker
    PROVE  /\ Aged(b) \in Breaker /\ Aged(b).probing = b.probing /\ Aged(b).state = b.state
           /\ Aged(b).left = b.left
<1> DEFINE ages == [i \in 1 .. Len(b.failures) |-> Older(b.failures[i], Window + 1)]
           since == Older(b.since, Cooldown)
<1>1. b.failures \in Seq(Ages) /\ b.since \in 0 .. Cooldown
  BY DEF Breaker
<1>2. ages \in Seq(Ages)
  <2>1. Len(b.failures) \in Nat /\ \A i \in 1 .. Len(b.failures) : b.failures[i] \in Ages
    BY <1>1, LenProperties, ElementOfSeq
  <2>2. \A a \in Ages : Older(a, Window + 1) \in Ages
    BY ChainAssumption DEF Older, Ages
  <2>3. ages \in [1 .. Len(b.failures) -> Ages]
    BY <2>1, <2>2
  <2> QED
    BY <2>1, <2>3, FunctionsAreSequences
<1>3. since \in 0 .. Cooldown
  BY <1>1, ChainAssumption DEF Older
<1>4. Aged(b) = [b EXCEPT !.failures = ages, !.since = since]
  BY DEF Aged
<1> HIDE DEF ages, since
<1> QED
  BY <1>2, <1>3, <1>4 DEF Breaker

LEMMA RecentFailures ==
    ASSUME NEW failures \in Seq(Ages)
    PROVE  Recent(failures) \in Seq(Ages)
<1> DEFINE old == {i \in DOMAIN failures : failures[i] > Window}
<1>1. DOMAIN failures = 1 .. Len(failures) /\ Len(failures) \in Nat
  BY LenProperties
<1>2. IsFiniteSet(1 .. Len(failures))
  BY <1>1, FS_Interval
<1>3. Cardinality(old) \in Nat
  BY <1>1, <1>2, FS_Subset, FS_CardinalityType
<1> HIDE DEF old
<1> DEFINE first == Cardinality(old) + 1
<1>4. \A i \in first .. Len(failures) : failures[i] \in Ages
  BY <1>1, <1>3, ElementOfSeq
<1>5. SubSeq(failures, first, Len(failures)) \in Seq(Ages)
  BY <1>1, <1>3, <1>4, SubSeqProperties
<1> QED
  BY <1>5 DEF Recent, first, old

LEMMA NewestFailures ==
    ASSUME NEW failures \in Seq(Ages)
    PROVE  Newest(failures) \in Seq(Ages)
<1>1. Len(failures) \in Nat /\ \A i \in 2 .. Len(failures) : failures[i] \in Ages
  BY LenProperties, ElementOfSeq
<1>2. SubSeq(failures, 2, Len(failures)) \in Seq(Ages)
  BY <1>1, SubSeqProperties
<1> QED
  BY <1>2 DEF Newest

\* A failure opens a half-open breaker, and no breaker claims a probe by failing.
LEMMA FailedBreaker ==
    ASSUME NEW b \in Breaker
    PROVE  /\ Failed(b) \in Breaker
           /\ Failed(b).probing => b.probing /\ Failed(b).state = b.state /\ b.state # "half_open"
<1> DEFINE all == Append(b.failures, 0)
           kept == Newest(Recent(all))
<1>1. b.failures \in Seq(Ages) /\ 0 \in Ages
  BY ChainAssumption DEF Breaker, Ages
<1>2. all \in Seq(Ages)
  BY <1>1, AppendProperties
<1>3. kept \in Seq(Ages)
  BY <1>2, RecentFailures, NewestFailures
<1>4. << >> \in Seq(Ages) /\ 0 \in 0 .. Cooldown
  BY EmptySeq, ChainAssumption
<1>5. CASE Trips(b)
  <2>1. Failed(b) = [b EXCEPT !.since = 0, !.failures = << >>, !.state = "open", !.probing = FALSE,
                          !.left = FALSE]
    BY <1>5 DEF Failed, Opened
  <2> QED
    BY <2>1, <1>4 DEF Breaker, States
<1>6. CASE ~Trips(b)
  <2>1. Failed(b) = [b EXCEPT !.failures = kept]
    BY <1>6 DEF Failed
  <2>2. b.state # "half_open"
    BY <1>6 DEF Trips
  <2> HIDE DEF kept
  <2> QED
    BY <2>1, <2>2, <1>3 DEF Breaker
<1> QED
  BY <1>5, <1>6

LEMMA AnsweredBreaker ==
    ASSUME NEW b \in Breaker
    PROVE  /\ Succeeded(b) \in Breaker /\ ~Succeeded(b).probing
           /\ Released(b) \in Breaker /\ ~Released(b).probing
<1>1. << >> \in Seq(Ages)
  BY EmptySeq
<1> QED
  BY <1>1 DEF Succeeded, Released, Breaker, States

\* A breaker that admits a call and claims a probe by it is half-open.
LEMMA AdmittedBreaker ==
    ASSUME NEW b \in Breaker, Admits(b)
    PROVE  /\ Admitted(b) \in Breaker
           /\ Admitted(b).state # "half_open" => Admitted(b) = b /\ b.state = "closed"
  BY PolledBreaker DEF Admitted, Admits, Polled, Breaker, States

\* One that is told nothing remembers it if the call had its probe.
LEMMA UntoldBreaker ==
    ASSUME NEW b \in Breaker, NEW probe \in BOOLEAN
    PROVE  /\ Untold(b, probe) \in Breaker
           /\ Untold(b, probe).probing = b.probing /\ Untold(b, probe).state = b.state
           /\ Untold(b, probe).left = (b.left \/ probe)
  BY DEF Untold, Breaker, States

(***************************************************************************)
(* The inductive invariant                                                 *)
(***************************************************************************)

Asked(c, t) == call[c].phase = "sent" /\ call[c].tier = t /\ call[c].probe
UnderWay(t) == breaker[t].state = "half_open" /\ (breaker[t].left \/ \E c \in Calls : Asked(c, t))
Chain == ChainTypeOK /\ \A t \in Tiers : breaker[t].probing => UnderWay(t)

\* A task is at one tier at a time.
Call == [phase: {"idle", "sent", "failed", "streaming"}, tier: 0 .. Last, probe: BOOLEAN,
         forced: BOOLEAN]

\* A step of c that leaves a tier's breaker half-open if it was, and does not claim its
\* probe, does not disturb a probe that another call has in hand or that was left.
LEMMA OthersProbes ==
    ASSUME Chain, NEW c \in Calls, NEW d, call' = [call EXCEPT ![c] = d],
           NEW t \in Tiers, breaker[t].probing, breaker'[t].state = "half_open",
           breaker[t].left => breaker'[t].left,
           ~Asked(c, t) \/ (d.phase = "sent" /\ d.tier = t /\ d.probe)
    PROVE  UnderWay(t)'
<1> SUFFICES ASSUME ~breaker[t].left
             PROVE  UnderWay(t)'
  BY DEF UnderWay
<1>1. PICK w \in Calls : Asked(w, t)
  BY DEF Chain, UnderWay
<1>2. call \in [Calls -> Call]
  BY DEF Chain, ChainTypeOK, Call
<1>3. Asked(w, t)'
  <2>1. CASE w = c
    BY <2>1, <1>1, <1>2 DEF Asked
  <2>2. CASE w # c
    BY <2>2, <1>1, <1>2 DEF Asked
  <2> QED
    BY <2>1, <2>2
<1> QED
  BY <1>3 DEF UnderWay

\* Reading breakers disturbs no probe.
LEMMA ReadersDisturbNothing ==
    ASSUME NEW b \in Breaker, b.probing => b.state = "half_open"
    PROVE  Polled(b).probing => b.probing /\ Polled(b).state = "half_open"
  BY PolledBreaker

LEMMA InitChain == Init => Chain
<1> SUFFICES ASSUME Init
             PROVE  Chain
  OBVIOUS
<1>1. << >> \in Seq(Ages) /\ 0 \in 0 .. Cooldown /\ 0 \in 0 .. Last
  BY EmptySeq, ChainAssumption
<1>2. ChainTypeOK
  BY <1>1 DEF Init, ChainTypeOK, Breaker, States, Idle
<1> QED
  BY <1>2 DEF Init, Chain

\* Passing over tiers, or reading them all, changes no probe.
LEMMA ReadingChain ==
    ASSUME Chain, breaker' \in [Tiers -> Breaker],
           \A t \in Tiers : breaker'[t] \in {breaker[t], Polled(breaker[t]), Aged(breaker[t])},
           NEW t \in Tiers
    PROVE  breaker'[t].probing => /\ breaker[t].probing /\ breaker'[t].state = "half_open"
                                 /\ breaker'[t].left = breaker[t].left
<1>1. breaker[t] \in Breaker
  BY DEF Chain, ChainTypeOK
<1>2. breaker[t].probing => breaker[t].state = "half_open"
  BY DEF Chain, UnderWay
<1>3. CASE breaker'[t] = Polled(breaker[t])
  BY <1>1, <1>2, <1>3, PolledBreaker
<1>4. CASE breaker'[t] = Aged(breaker[t])
  BY <1>1, <1>2, <1>4, AgedBreaker
<1> QED
  BY <1>2, <1>3, <1>4

\* A call that is sent to t, or that fails to be, claims the probe for itself or for nobody.
LEMMA PassedChain ==
    ASSUME Chain, NEW c \in Calls, call[c].phase # "sent", NEW t \in Tiers, NEW asked \in Breaker,
           Passed(c, t, asked), NEW d \in Call, call' = [call EXCEPT ![c] = d],
           d.phase = "idle" <=> d.tier = 0,
           asked.state = "half_open" => asked.left \/ Asked(c, t)',
           asked.state # "half_open" =>
               asked.probing = breaker[t].probing /\ breaker[t].state = "closed"
    PROVE  breaker' \in [Tiers -> Breaker] /\ call' \in [Calls -> Call]
           /\ (\A e \in Calls : call'[e].phase = "idle" <=> call'[e].tier = 0)
           /\ \A u \in Tiers : breaker'[u].probing => UnderWay(u)'
<1>1. breaker \in [Tiers -> Breaker] /\ call \in [Calls -> Call]
  BY DEF Chain, ChainTypeOK, Call
<1>2. breaker'[t] = asked /\ \A u \in Tiers \ {t} : breaker'[u] \in {breaker[u], Polled(breaker[u])}
  <2> DEFINE after(u) == CASE u = t -> asked
                           [] u \in Later(c) /\ u < t -> Polled(breaker[u])
                           [] OTHER -> breaker[u]
  <2>1. breaker' = [u \in Tiers |-> after(u)]
    BY DEF Passed
  <2>2. after(t) = asked
    BY ChainAssumption DEF Tiers
  <2>3. ASSUME NEW u \in Tiers \ {t}
        PROVE  after(u) \in {breaker[u], Polled(breaker[u])}
    <3>1. CASE u \in Later(c) /\ u < t
      <4>1. after(u) = Polled(breaker[u])
        BY <3>1, <2>3
      <4> QED
        BY <4>1
    <3>2. CASE ~(u \in Later(c) /\ u < t)
      <4>1. after(u) = breaker[u]
        BY <3>2, <2>3
      <4> QED
        BY <4>1
    <3> QED
      BY <3>1, <3>2
  <2> HIDE DEF after
  <2> QED
    BY <2>1, <2>2, <2>3
<1>3. \A u \in Tiers : breaker'[u] \in Breaker
  BY <1>1, <1>2, PolledBreaker
<1>4. breaker' \in [Tiers -> Breaker]
  BY <1>3 DEF Passed
<1>5. call' \in [Calls -> Call] /\ call'[c] = d /\ \A e \in Calls \ {c} : call'[e] = call[e]
  BY <1>1
<1>6. \A e \in Calls : call'[e].phase = "idle" <=> call'[e].tier = 0
  BY <1>5 DEF Chain, ChainTypeOK
<1>7. ASSUME NEW u \in Tiers, breaker'[u].probing
      PROVE  UnderWay(u)'
  <2>1. CASE u = t
    <3>1. asked.state = "half_open"
      BY <1>2, <1>7, <2>1 DEF Chain, UnderWay
    <3> QED
      BY <1>2, <2>1, <3>1 DEF UnderWay
  <2>2. CASE u # t
    <3>1. breaker[u].probing /\ breaker[u].state = "half_open"
      BY <2>2, <1>1, <1>2, <1>7, PolledBreaker DEF Chain, UnderWay
    <3>2. breaker'[u].state = "half_open" /\ breaker'[u].left = breaker[u].left
      BY <2>2, <3>1, <1>1, <1>2, PolledBreaker
    <3>3. ~Asked(c, u)
      BY DEF Asked
    <3> QED
      BY <3>1, <3>2, <3>3, OthersProbes
  <2> QED
    BY <2>1, <2>2
<1> QED
  BY <1>4, <1>5, <1>6, <1>7

\* A call that has ended, and one that forces the primary.
LEMMA EndOrForce ==
    /\ Idle \in Call /\ Idle.phase = "idle" /\ Idle.tier = 0
    /\ LET forced == [phase |-> "sent", tier |-> 1, probe |-> FALSE, forced |-> TRUE]
       IN  forced \in Call /\ forced.phase = "sent" /\ forced.tier # 0
  BY ChainAssumption DEF Idle, Call

LEMMA SendChain ==
    ASSUME Chain, NEW c \in Calls, call[c].phase # "sent", Send(c)
    PROVE  breaker' \in [Tiers -> Breaker] /\ call' \in [Calls -> Call]
           /\ (\A d \in Calls : call'[d].phase = "idle" <=> call'[d].tier = 0)
           /\ \A t \in Tiers : breaker'[t].probing => UnderWay(t)'
<1>1. breaker \in [Tiers -> Breaker] /\ call \in [Calls -> Call]
  BY DEF Chain, ChainTypeOK, Call
<1>2. PICK t \in Tiers : /\ t \in First(Admitting(c))
                         /\ LET a == Admitted(breaker[t])
                                p == a.state = "half_open"
                            IN  \/ Passed(c, t, a) /\ Sent(c, t, p, FALSE)
                                \/ Passed(c, t, Untold(a, p)) /\ Ended(c)
  BY DEF Send, First, Admitting, Later
<1> DEFINE admitted == Admitted(breaker[t])
           probe == admitted.state = "half_open"
<1>3. Admits(breaker[t]) /\ breaker[t] \in Breaker
  BY <1>1, <1>2 DEF First, Admitting
<1>4. /\ admitted \in Breaker
      /\ ~probe => admitted = breaker[t] /\ breaker[t].state = "closed"
  BY <1>3, AdmittedBreaker
<1> HIDE DEF admitted
<1>5. CASE Passed(c, t, admitted) /\ Sent(c, t, probe, FALSE)
  <2> DEFINE sent == [phase |-> "sent", tier |-> t, probe |-> probe, forced |-> FALSE]
  <2>1. sent \in Call /\ sent.phase = "sent" /\ sent.tier = t /\ sent.probe = probe /\ t # 0
    BY ChainAssumption DEF Call, Tiers
  <2>2. call' = [call EXCEPT ![c] = sent]
    BY <1>5 DEF Sent
  <2> HIDE DEF sent, probe
  <2>3. call'[c] = sent
    BY <1>1, <2>2
  <2>4. probe => Asked(c, t)'
    BY <2>1, <2>3 DEF Asked
  <2> QED
    BY <1>4, <1>5, <2>1, <2>2, <2>4, PassedChain DEF probe
<1>6. CASE Passed(c, t, Untold(admitted, probe)) /\ Ended(c)
  <2> DEFINE asked == Untold(admitted, probe)
  <2>1. /\ asked \in Breaker /\ asked.probing = admitted.probing /\ asked.state = admitted.state
        /\ asked.left = (admitted.left \/ probe)
    BY <1>4, UntoldBreaker
  <2>2. call' = [call EXCEPT ![c] = Idle] /\ Idle \in Call /\ Idle.phase = "idle" /\ Idle.tier = 0
    BY <1>6, EndOrForce DEF Ended
  <2>3. ~probe => asked.probing = breaker[t].probing /\ breaker[t].state = "closed"
    BY <1>4, <2>1
  <2> HIDE DEF asked
  <2> QED
    BY <1>6, <2>1, <2>2, <2>3, PassedChain DEF asked
<1> QED
  BY <1>2, <1>5, <1>6 DEF admitted

\* A step of c that does nothing to breakers but what reading or a report about the tier
\* it was sent to does.
LEMMA ReportChain ==
    ASSUME Chain, NEW c \in Calls, NEW d \in Call,
           d.phase = "idle" <=> d.tier = 0,
           call' = [call EXCEPT ![c] = d], breaker' \in [Tiers -> Breaker], up' \in [Tiers -> BOOLEAN],
           \A t \in Tiers : breaker'[t].probing =>
               /\ breaker[t].probing /\ breaker'[t].state = "half_open"
               /\ breaker[t].left => breaker'[t].left
               /\ breaker'[t].left \/ ~Asked(c, t)
    PROVE  Chain'
<1>1. call \in [Calls -> Call]
  BY DEF Chain, ChainTypeOK, Call
<1>2. call' \in [Calls -> Call]
  BY <1>1
<1>3. \A e \in Calls : call'[e].phase = "idle" <=> call'[e].tier = 0
  BY <1>1 DEF Chain, ChainTypeOK
<1>4. ChainTypeOK'
  BY <1>2, <1>3 DEF ChainTypeOK, Call
<1>5. \A t \in Tiers : breaker'[t].probing => UnderWay(t)'
  BY OthersProbes DEF UnderWay
<1> QED
  BY <1>4, <1>5 DEF Chain

LEMMA PassAllChain ==
    ASSUME Chain, NEW c \in Calls, call[c].phase # "sent", PassAll(c), NEW d \in Call,
           d.phase = "idle" <=> d.tier = 0, call' = [call EXCEPT ![c] = d], up' = up
    PROVE  Chain'
<1>1. breaker \in [Tiers -> Breaker] /\ up \in [Tiers -> BOOLEAN]
  BY DEF Chain, ChainTypeOK
<1>2. \A t \in Tiers : Polled(breaker[t]) \in Breaker
  BY <1>1, PolledBreaker
<1>3. \A t \in Tiers : breaker'[t] \in {breaker[t], Polled(breaker[t]), Aged(breaker[t])}
  BY DEF PassAll
<1>4. breaker' \in [Tiers -> Breaker]
  BY <1>1, <1>2 DEF PassAll
<1>5. \A t \in Tiers : breaker'[t].probing =>
          /\ breaker[t].probing /\ breaker'[t].state = "half_open" /\ ~Asked(c, t)
          /\ breaker'[t].left = breaker[t].left
  BY <1>3, <1>4, ReadingChain DEF Asked
<1> QED
  BY <1>1, <1>4, <1>5, ReportChain

LEMMA BeginChain == ASSUME Chain, NEW c \in Calls, Begin(c) PROVE Chain'
<1>1. call[c].phase # "sent" /\ up' = up
  BY DEF Begin
<1>2. CASE Send(c)
  <2>1. up' \in [Tiers -> BOOLEAN]
    BY <1>1 DEF Chain, ChainTypeOK
  <2> QED
    BY <1>1, <1>2, <2>1, SendChain DEF Chain, ChainTypeOK, Call
<1>3. CASE PassAll(c) /\ Sent(c, 1, FALSE, TRUE)
  <2> DEFINE forced == [phase |-> "sent", tier |-> 1, probe |-> FALSE, forced |-> TRUE]
  <2>1. forced \in Call /\ forced.phase = "sent" /\ forced.tier # 0
    BY EndOrForce
  <2>2. call' = [call EXCEPT ![c] = forced]
    BY <1>3 DEF Sent
  <2> HIDE DEF forced
  <2> QED
    BY <1>1, <1>3, <2>1, <2>2, PassAllChain
<1>4. CASE PassAll(c) /\ Ended(c)
  BY <1>1, <1>4, EndOrForce, PassAllChain DEF Ended
<1> QED
  BY <1>2, <1>3, <1>4 DEF Begin

LEMMA GoOnChain == ASSUME Chain, NEW c \in Calls, GoOn(c) PROVE Chain'
<1>1. call[c].phase # "sent" /\ up' = up
  BY DEF GoOn
<1>2. CASE Send(c)
  <2>1. up' \in [Tiers -> BOOLEAN]
    BY <1>1 DEF Chain, ChainTypeOK
  <2> QED
    BY <1>1, <1>2, <2>1, SendChain DEF Chain, ChainTypeOK, Call
<1>3. CASE PassAll(c) /\ Ended(c)
  BY <1>1, <1>3, EndOrForce, PassAllChain DEF Ended
<1> QED
  BY <1>2, <1>3 DEF GoOn

\* A report about tier r tells its breaker so that no probe of the caller's is left, and
\* reads the others at the most.
LEMMA ToldChain ==
    ASSUME Chain, NEW c \in Calls, NEW d \in Call, d.phase = "idle" <=> d.tier = 0,
           call' = [call EXCEPT ![c] = d], up' = up,
           NEW r \in Tiers, NEW told \in Breaker,
           told.probing => /\ breaker[r].probing /\ told.state = breaker[r].state
                           /\ breaker[r].left => told.left
                           /\ told.left \/ ~Asked(c, r),
           call[c].phase = "sent" => call[c].tier = r,
           \/ breaker' = [breaker EXCEPT ![r] = told]
           \/ breaker' = PolledAfter(r, [breaker EXCEPT ![r] = told])
    PROVE  Chain'
<1>1. breaker \in [Tiers -> Breaker] /\ up' \in [Tiers -> BOOLEAN] /\ r # 0
  BY ChainAssumption DEF Chain, ChainTypeOK, Tiers
<1> DEFINE after == [breaker EXCEPT ![r] = told]
<1>2. after \in [Tiers -> Breaker] /\ after[r] = told /\ \A t \in Tiers \ {r} : after[t] = breaker[t]
  BY <1>1
<1> HIDE DEF after
<1>3. \A t \in Tiers : breaker'[t] \in {after[t], Polled(after[t])}
  BY <1>1, <1>2 DEF PolledAfter, after
<1>4. \A t \in Tiers : Polled(after[t]) \in Breaker
  BY <1>2, PolledBreaker
<1>5. breaker' \in [Tiers -> Breaker]
  <2>1. \A t \in Tiers : breaker'[t] \in Breaker
    BY <1>2, <1>3, <1>4
  <2>2. \E f : breaker' = [t \in Tiers |-> f[t]]
    <3>1. CASE breaker' = after
      BY <3>1, <1>2
    <3>2. CASE breaker' = PolledAfter(r, after)
      <4>1. breaker' = [t \in Tiers |-> breaker'[t]]
        BY <3>2 DEF PolledAfter
      <4> QED
        BY <4>1
    <3> QED
      BY <3>1, <3>2 DEF after
  <2> QED
    BY <2>1, <2>2
<1>6. ASSUME NEW t \in Tiers, breaker'[t].probing
      PROVE  /\ breaker[t].probing /\ breaker'[t].state = "half_open"
             /\ breaker[t].left => breaker'[t].left
             /\ breaker'[t].left \/ ~Asked(c, t)
  <2>1. after[t].probing
    BY <1>2, <1>3, <1>6, PolledBreaker
  <2>2. /\ after[t].state = "half_open" /\ breaker[t].probing
        /\ breaker[t].left => after[t].left
        /\ after[t].left \/ ~Asked(c, t)
    BY <1>2, <2>1 DEF Chain, UnderWay, Asked
  <2> QED
    BY <1>2, <1>3, <2>2, PolledBreaker
<1> QED
  BY <1>1, <1>5, <1>6, ReportChain

\* A task that is at a tier, and what its record becomes.
LEMMA AtATier ==
    ASSUME Chain, NEW c \in Calls, call[c].phase # "idle"
    PROVE  /\ call[c] \in Call /\ call[c].tier \in Tiers /\ breaker[call[c].tier] \in Breaker
           /\ \A phase \in {"failed", "streaming"} :
                 LET d == [call[c] EXCEPT !.phase = phase, !.probe = FALSE]
                 IN  d \in Call /\ d.phase # "idle" /\ d.tier # 0
<1>1. call[c] \in Call /\ call[c].tier # 0
  BY DEF Chain, ChainTypeOK, Call
<1>2. call[c].tier \in Tiers
  BY <1>1, ChainAssumption DEF Call, Tiers
<1>3. breaker[call[c].tier] \in Breaker
  BY <1>2 DEF Chain, ChainTypeOK
<1> QED
  BY <1>1, <1>2, <1>3 DEF Call

LEMMA ServedChain == ASSUME Chain, NEW c \in Calls, Served(c) PROVE Chain'
<1> DEFINE r == call[c].tier
           told == Succeeded(breaker[r])
<1>1. call[c].phase = "sent" /\ up' = up /\ breaker' = [breaker EXCEPT ![r] = told]
  BY DEF Served
<1>2. r \in Tiers /\ told \in Breaker /\ ~told.probing
  BY <1>1, AtATier, AnsweredBreaker
<1> HIDE DEF told
<1>3. CASE Ended(c)
  BY <1>1, <1>2, <1>3, EndOrForce, ToldChain DEF Ended
<1>4. CASE call' = [call EXCEPT ![c] = [@ EXCEPT !.phase = "streaming", !.probe = FALSE]]
  <2> DEFINE d == [call[c] EXCEPT !.phase = "streaming", !.probe = FALSE]
  <2>1. d \in Call /\ d.phase # "idle" /\ d.tier # 0
    BY <1>1, AtATier
  <2>2. call' = [call EXCEPT ![c] = d]
    BY <1>4
  <2> HIDE DEF d
  <2> QED
    BY <1>1, <1>2, <2>1, <2>2, ToldChain
<1> QED
  BY <1>3, <1>4 DEF Served

\* Either way a failure is told, if the breaker it is told keeps no probe.
LEMMA ReportedChain ==
    ASSUME Chain, NEW c \in Calls, call[c].phase = "sent", up' = up,
           NEW told \in Breaker, Reported(c, told),
           ~told.probing
    PROVE  Chain'
<1> DEFINE r == call[c].tier
<1>1. r \in Tiers
  BY AtATier
<1>2. CASE breaker' = [breaker EXCEPT ![r] = told] /\ Ended(c)
  BY <1>1, <1>2, EndOrForce, ToldChain DEF Ended
<1>3. CASE /\ breaker' = PolledAfter(r, [breaker EXCEPT ![r] = told])
           /\ call' = [call EXCEPT ![c] = [@ EXCEPT !.phase = "failed", !.probe = FALSE]]
  <2> DEFINE d == [call[c] EXCEPT !.phase = "failed", !.probe = FALSE]
  <2>1. d \in Call /\ d.phase # "idle" /\ d.tier # 0
    BY AtATier
  <2>2. call' = [call EXCEPT ![c] = d]
    BY <1>3
  <2> HIDE DEF d
  <2> QED
    BY <1>1, <1>3, <2>1, <2>2, ToldChain
<1> QED
  BY <1>2, <1>3 DEF Reported

\* A failure at a breaker with a probe under way is no failure of the prober's, or it
\* opens the breaker.
LEMMA FailedKeepsNoProbe ==
    ASSUME Chain, NEW t \in Tiers
    PROVE  Failed(breaker[t]) \in Breaker /\ ~Failed(breaker[t]).probing
<1>1. breaker[t] \in Breaker
  BY DEF Chain, ChainTypeOK
<1>2. breaker[t].probing => breaker[t].state = "half_open"
  BY DEF Chain, UnderWay
<1> QED
  BY <1>1, <1>2, FailedBreaker

LEMMA FailureChain ==
    ASSUME Chain, NEW c \in Calls, ProviderFails(c) \/ RequestFails(c)
    PROVE  Chain'
<1>1. call[c].phase = "sent" /\ up' = up
  BY DEF ProviderFails, RequestFails
<1>2. call[c].tier \in Tiers /\ breaker[call[c].tier] \in Breaker
  BY <1>1, AtATier
<1>3. CASE ProviderFails(c)
  BY <1>1, <1>2, <1>3, FailedKeepsNoProbe, ReportedChain DEF ProviderFails
<1>4. CASE RequestFails(c)
  BY <1>1, <1>2, <1>4, AnsweredBreaker, ReportedChain DEF RequestFails
<1> QED
  BY <1>3, <1>4

LEMMA EndingChain ==
    ASSUME Chain, NEW c \in Calls, Cancel(c) \/ StreamEnds(c)
    PROVE  Chain'
<1> DEFINE r == call[c].tier
<1>1. call[c].phase # "idle" /\ up' = up /\ call' = [call EXCEPT ![c] = Idle]
  BY DEF Cancel, StreamEnds, Ended
<1>2. r \in Tiers /\ breaker[r] \in Breaker /\ breaker \in [Tiers -> Breaker]
  BY <1>1, AtATier DEF Chain, ChainTypeOK
<1>3. CASE call[c].phase = "sent" /\ breaker' = [breaker EXCEPT ![r] = Released(@)]
  BY <1>1, <1>2, <1>3, AnsweredBreaker, EndOrForce, ToldChain
<1>4. CASE call[c].phase # "sent" /\ breaker' = breaker
  <2>1. \A t \in Tiers : breaker'[t].probing =>
            breaker[t].probing /\ breaker'[t].state = "half_open" /\ ~Asked(c, t)
    BY <1>4 DEF Chain, UnderWay, Asked
  <2>2. up' \in [Tiers -> BOOLEAN]
    BY <1>1 DEF Chain, ChainTypeOK
  <2> QED
    BY <1>1, <1>2, <1>4, <2>1, <2>2, EndOrForce, ReportChain
<1>5. CASE breaker' = [breaker EXCEPT ![r] = Failed(@)] /\ call[c].phase # "sent"
  BY <1>1, <1>2, <1>5, FailedKeepsNoProbe, EndOrForce, ToldChain
<1> QED
  BY <1>3, <1>4, <1>5 DEF Cancel, StreamEnds

\* A call that ends and tells its tier's breaker nothing leaves a probe of its own behind.
LEMMA UnreportedChain == ASSUME Chain, NEW c \in Calls, Unreported(c) PROVE Chain'
<1> DEFINE r == call[c].tier
           told == Untold(breaker[r], call[c].probe)
<1>1. /\ call[c].phase = "sent" /\ up' = up /\ call' = [call EXCEPT ![c] = Idle]
      /\ breaker' = [breaker EXCEPT ![r] = told]
  BY DEF Unreported, Ended
<1>2. r \in Tiers /\ breaker[r] \in Breaker /\ call[c].probe \in BOOLEAN
  BY <1>1, AtATier DEF Call
<1>3. /\ told \in Breaker /\ told.probing = breaker[r].probing /\ told.state = breaker[r].state
      /\ told.left = (breaker[r].left \/ call[c].probe)
  BY <1>2, UntoldBreaker
<1>4. told.left \/ ~Asked(c, r)
  BY <1>3 DEF Asked
<1> HIDE DEF told
<1> QED
  BY <1>1, <1>2, <1>3, <1>4, EndOrForce, ToldChain

\* Neither the clock nor a reader of the metrics ends or claims a probe.
LEMMA ClockChain == ASSUME Chain, Metrics \/ Tick PROVE Chain'
<1>1. breaker \in [Tiers -> Breaker]
  BY DEF Chain, ChainTypeOK
<1>2. \A t \in Tiers : Polled(breaker[t]) \in Breaker /\ Aged(breaker[t]) \in Breaker
  BY <1>1, PolledBreaker, AgedBreaker
<1>3. breaker' \in [Tiers -> Breaker]
  BY <1>2 DEF Metrics, Tick
<1>4. \A t \in Tiers : breaker'[t] \in {breaker[t], Polled(breaker[t]), Aged(breaker[t])}
  BY DEF Metrics, Tick
<1>5. \A t \in Tiers : breaker'[t].probing => /\ breaker[t].probing /\ breaker'[t].state = "half_open"
                                              /\ breaker'[t].left = breaker[t].left
  BY <1>3, <1>4, ReadingChain
<1>6. call' = call /\ up' = up
  BY DEF Metrics, Tick
<1> QED
  BY <1>3, <1>5, <1>6 DEF Chain, ChainTypeOK, UnderWay, Asked

LEMMA NextChain == Chain /\ [Next]_chainVars => Chain'
<1> SUFFICES ASSUME Chain, [Next]_chainVars
             PROVE  Chain'
  OBVIOUS
<1>1. ASSUME NEW c \in Calls, Step(c)
      PROVE  Chain'
  BY <1>1, BeginChain, GoOnChain, ServedChain, FailureChain, UnreportedChain,
     EndingChain DEF Step
<1>2. CASE Metrics \/ Tick
  BY <1>2, ClockChain
<1>3. ASSUME NEW t \in Tiers, Provider(t)
      PROVE  Chain'
  BY <1>3 DEF Provider, Chain, ChainTypeOK, UnderWay, Asked
<1>4. CASE UNCHANGED chainVars
  BY <1>4 DEF chainVars, Chain, ChainTypeOK, UnderWay, Asked
<1> QED
  BY <1>1, <1>2, <1>3, <1>4 DEF Next

\* The strengthening the property follows from: types, and a task at the tier of every probe
\* that no prober left.
THEOREM ChainInvariant == Spec => []Chain
  BY InitChain, NextChain, PTL DEF Spec

\* The chain's breakers and calls are always what ChainTypeOK says.
THEOREM ChainTypeCorrect == Spec => []ChainTypeOK
<1>1. Chain => ChainTypeOK
  BY DEF Chain
<1> QED
  BY <1>1, ChainInvariant, PTL

\* A claimed probe belongs to a call that is still at its tier, whatever was cancelled,
\* released or reported late, unless a prober ended and told the breaker nothing: its
\* model's stream() raised, should_fallback did, or it was cancelled while it closed a
\* stream that had failed.
THEOREM ProbeAlwaysUnderWay == Spec => []ProbeIsUnderWay
<1>1. Chain => ProbeIsUnderWay
  BY DEF Chain, UnderWay, Asked, ProbeIsUnderWay
<1> QED
  BY <1>1, ChainInvariant, PTL
=============================================================================
