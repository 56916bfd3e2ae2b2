------------------------------ MODULE Fallback ------------------------------
(***************************************************************************)
(* A chain of model tiers behind circuit breakers (tulip.models.fallback), *)
(* shared by concurrent calls, with providers that fail and recover.       *)
(*                                                                         *)
(* Code between two awaits is one step: a call awaits its tier, and awaits *)
(* again when it has reported a failure, before it asks for another tier.  *)
(* Time is the age of what a breaker remembers, and an age stops growing   *)
(* once it is past everything it is compared with, so the clock runs for   *)
(* ever.  An operator named Mut... is a wrong variant of the one after it. *)
(***************************************************************************)
EXTENDS Integers, Sequences, FiniteSets

CONSTANTS
    Calls,      \* the tasks that use the chain, one call after another
    Last,       \* the tiers are 1 .. Last, the primary first
    Threshold,  \* failure_threshold
    Window,     \* window_s
    Cooldown    \* cooldown_s

ASSUME ChainAssumption ==
    /\ Last \in Nat \ {0} /\ Threshold \in Nat \ {0}
    /\ Window \in Nat \ {0} /\ Cooldown \in Nat

Tiers == 1 .. Last
Ages == 0 .. Window + 1
States == {"closed", "open", "half_open"}

VARIABLES
    breaker,    \* per tier: its CircuitBreaker
    call,       \* per task: where its call stands
    up          \* per tier: the provider answers

chainVars == <<breaker, call, up>>

\* left is history: a call that had the probe ended and told the breaker nothing.
Breaker == [state: States, failures: Seq(Ages), since: 0 .. Cooldown, probing: BOOLEAN,
            left: BOOLEAN]
Idle == [phase |-> "idle", tier |-> 0, probe |-> FALSE, forced |-> FALSE]

ChainTypeOK ==
    /\ breaker \in [Tiers -> Breaker]
    /\ call \in [Calls -> [phase: {"idle", "sent", "failed", "streaming"},
                           tier: 0 .. Last, probe: BOOLEAN, forced: BOOLEAN]]
    /\ \A c \in Calls : call[c].phase = "idle" <=> call[c].tier = 0
    /\ up \in [Tiers -> BOOLEAN]

\* What the clock does: ages grow, up to where they are all the same.
Older(age, most) == IF age < most THEN age + 1 ELSE age
Aged(b) ==
    [b EXCEPT !.failures = [i \in 1 .. Len(b.failures) |-> Older(b.failures[i], Window + 1)],
              !.since = Older(@, Cooldown)]

\* Reading the state turns an open breaker past its cooldown into a half-open one.
MutNeverPolled(b) == b
Polled(b) == IF b.state = "open" /\ b.since >= Cooldown THEN [b EXCEPT !.state = "half_open"] ELSE b

\* allow()
Admits(b) == \/ Polled(b).state = "closed"
             \/ Polled(b).state = "half_open" /\ ~Polled(b).probing
Admitted(b) == IF Polled(b).state = "closed" THEN b ELSE [Polled(b) EXCEPT !.probing = TRUE]

Succeeded(b) == [b EXCEPT !.probing = FALSE, !.left = FALSE, !.failures = << >>, !.state = "closed"]
MutKeepsProbe(b) == b
Released(b) == [b EXCEPT !.probing = FALSE, !.left = FALSE]
Untold(b, probe) == [b EXCEPT !.left = @ \/ probe]

\* The failures are in order, so those out of the window come first.  Only a closed
\* breaker looks at how many there are, and it keeps fewer than Threshold: of those
\* that come in while it is not closed the last Threshold are enough.
Recent(failures) ==
    SubSeq(failures, Cardinality({i \in DOMAIN failures : failures[i] > Window}) + 1, Len(failures))
Newest(failures) ==
    IF Len(failures) > Threshold THEN SubSeq(failures, 2, Len(failures)) ELSE failures

Opened(b) ==
    [b EXCEPT !.since = 0, !.failures = << >>, !.state = "open", !.probing = FALSE, !.left = FALSE]
Trips(b) == \/ b.state = "half_open"
            \/ b.state = "closed" /\ Len(Recent(Append(b.failures, 0))) >= Threshold
Failed(b) == IF Trips(b) THEN Opened(b) ELSE [b EXCEPT !.failures = Newest(Recent(Append(@, 0)))]

Init ==
    /\ breaker = [t \in Tiers |->
                     [state |-> "closed", failures |-> << >>, since |-> 0, probing |-> FALSE,
                      left |-> FALSE]]
    /\ call = [c \in Calls |-> Idle]
    /\ up = [t \in Tiers |-> TRUE]

\* The tiers a call has yet to ask: those after its own, and none after the primary
\* was forced.
MutRestarts(c) == IF call[c].forced THEN {} ELSE Tiers
Later(c) == IF call[c].forced THEN {} ELSE {t \in Tiers : t > call[c].tier}
Admitting(c) == {t \in Later(c) : Admits(breaker[t])}
First(tiers) == {t \in tiers : \A u \in tiers : t <= u}

Sent(c, t, probe, forced) ==
    call' = [call EXCEPT ![c] = [phase |-> "sent", tier |-> t, probe |-> probe, forced |-> forced]]
Ended(c) == call' = [call EXCEPT ![c] = Idle]

\* The first tier that admits the call gets it; the ones before it are passed over.  What
\* its model's stream() or __aiter__() raises ends the call and tells the breaker nothing.
Passed(c, t, asked) ==
    breaker' = [u \in Tiers |-> CASE u = t -> asked
                                  [] u \in Later(c) /\ u < t -> Polled(breaker[u])
                                  [] OTHER -> breaker[u]]
Send(c) == \E t \in First(Admitting(c)) :
    LET asked == Admitted(breaker[t])
        probe == asked.state = "half_open"
    IN  \/ Passed(c, t, asked) /\ Sent(c, t, probe, FALSE)
        \/ Passed(c, t, Untold(asked, probe)) /\ Ended(c)

PassAll(c) == breaker' = [u \in Tiers |-> IF u \in Later(c) THEN Polled(breaker[u]) ELSE breaker[u]]

\* complete() or stream(), up to the first tier's call.  When no tier admits it the
\* primary is called anyway.
Begin(c) ==
    /\ call[c].phase = "idle"
    /\ \/ Send(c)
       \/ Admitting(c) = {} /\ PassAll(c) /\ (Sent(c, 1, FALSE, TRUE) \/ Ended(c))
    /\ UNCHANGED up

\* The failure is reported, and the call goes on to the next tier or is exhausted.
GoOn(c) ==
    /\ call[c].phase = "failed"
    /\ \/ Send(c)
       \/ Admitting(c) = {} /\ PassAll(c) /\ Ended(c)
    /\ UNCHANGED up

\* An answer, an empty stream, or a stream's first chunk: the tier has served.
Served(c) ==
    /\ call[c].phase = "sent" /\ up[call[c].tier]
    /\ breaker' = [breaker EXCEPT ![call[c].tier] = Succeeded(@)]
    /\ \/ Ended(c)
       \/ call' = [call EXCEPT ![c] = [@ EXCEPT !.phase = "streaming", !.probe = FALSE]]
    /\ UNCHANGED up

\* _next_index() reads the state of the tiers after t, up to one that is not open.
PolledAfter(t, b) ==
    [u \in Tiers |->
        IF u > t /\ \A v \in t + 1 .. u - 1 : Polled(b[v]).state = "open" THEN Polled(b[u]) ELSE b[u]]

\* _handle_failure(): told is what the breaker is told, and the call falls back or
\* raises.
Reported(c, told) ==
    \/ /\ breaker' = [breaker EXCEPT ![call[c].tier] = told]
       /\ Ended(c)
    \/ /\ breaker' = PolledAfter(call[c].tier, [breaker EXCEPT ![call[c].tier] = told])
       /\ call' = [call EXCEPT ![c] = [@ EXCEPT !.phase = "failed", !.probe = FALSE]]

\* A failure that says the provider is unwell, a timeout included.
ProviderFails(c) ==
    /\ call[c].phase = "sent" /\ ~up[call[c].tier]
    /\ Reported(c, Failed(breaker[call[c].tier]))
    /\ UNCHANGED up

\* A failure that is the request's own.
RequestFails(c) ==
    /\ call[c].phase = "sent"
    /\ Reported(c, Released(breaker[call[c].tier]))
    /\ UNCHANGED up

\* A failure the breaker is never told of: should_fallback raises, or the task is cancelled
\* while it closes the stream that failed.
Unreported(c) ==
    /\ call[c].phase = "sent"
    /\ breaker' = [breaker EXCEPT ![call[c].tier] = Untold(@, call[c].probe)]
    /\ Ended(c)
    /\ UNCHANGED up

\* The task is cancelled at the tier, or while it reports that tier's failure.
Cancel(c) ==
    /\ \/ call[c].phase = "sent" /\ breaker' = [breaker EXCEPT ![call[c].tier] = Released(@)]
       \/ call[c].phase = "failed" /\ UNCHANGED breaker
    /\ Ended(c)
    /\ UNCHANGED up

\* A stream that ends, is left, or breaks after its first chunk.
StreamEnds(c) ==
    /\ call[c].phase = "streaming"
    /\ \/ UNCHANGED breaker
       \/ ~up[call[c].tier] /\ breaker' = [breaker EXCEPT ![call[c].tier] = Failed(@)]
    /\ Ended(c)
    /\ UNCHANGED up

\* metrics reads every breaker's state.
Metrics ==
    /\ breaker' = [t \in Tiers |-> Polled(breaker[t])]
    /\ UNCHANGED <<call, up>>

Tick ==
    /\ breaker' = [t \in Tiers |-> Aged(breaker[t])]
    /\ UNCHANGED <<call, up>>

Provider(t) ==
    /\ up' = [up EXCEPT ![t] = ~@]
    /\ UNCHANGED <<breaker, call>>

Step(c) == \/ Begin(c) \/ GoOn(c) \/ Served(c) \/ ProviderFails(c) \/ RequestFails(c)
           \/ Unreported(c) \/ Cancel(c) \/ StreamEnds(c)
Next == (\E c \in Calls : Step(c)) \/ Metrics \/ Tick \/ (\E t \in Tiers : Provider(t))

Spec == Init /\ [][Next]_chainVars

\* Timeouts end every attempt, callers come back with more calls, and not every call
\* of theirs is at fault or is cancelled.
Ends(c) == ProviderFails(c) \/ RequestFails(c) \/ Unreported(c) \/ Served(c) \/ StreamEnds(c)
           \/ GoOn(c)
FairSpec ==
    /\ Spec
    /\ WF_chainVars(Tick)
    /\ \A c \in Calls : WF_chainVars(Begin(c)) /\ WF_chainVars(Ends(c))
    /\ SF_chainVars(\E c \in Calls : call[c].tier = 1 /\ Served(c))

-----------------------------------------------------------------------------
\* A claimed probe belongs to a call that is still at the tier, so a half-open tier is not
\* left waiting for a verdict nobody will bring: allow() would refuse its calls for good.
\* The one way it is left is a prober that ends and tells the breaker nothing.
ProbeIsUnderWay ==
    \A t \in Tiers : breaker[t].probing =>
        /\ breaker[t].state = "half_open"
        /\ \/ \E c \in Calls : call[c].phase = "sent" /\ call[c].tier = t /\ call[c].probe
           \/ breaker[t].left

\* A call ends, however many tiers fail: each is asked at most once.
CallsEnd == \A c \in Calls : call[c].phase # "idle" ~> call[c].phase = "idle"

\* A primary that recovers for good is trusted again, whatever calls begun before are
\* still to report, unless a prober leaves it without a word.
PrimaryIsTrustedAgain == <>[](up[1] /\ ~breaker[1].left) => <>[](breaker[1].state = "closed")
=============================================================================
