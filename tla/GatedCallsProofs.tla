-------------------------- MODULE GatedCallsProofs --------------------------
(***************************************************************************)
(* Proofs about the gate, for every number of workers, calls, edits and    *)
(* crashes, every policy and every authority over the approvals.           *)
(***************************************************************************)
EXTENDS GatedCalls, HeldCall, ApprovalsProofs

(***************************************************************************)
(* The policy: for every policy, action and evidence, advice never widens  *)
(* a decision, and more risk never buys a weaker one.                      *)
(***************************************************************************)

Findings == Int \cup {None}
Verifications == [survives: BOOLEAN, score: Int] \ {None}

Policies == [deny_for: SUBSET STRING, require_sandbox_for: SUBSET STRING,
             require_human_for: SUBSET STRING, min_severity: Int, require_score: Int,
             max_blast_radius: Int, human_over: Int \cup {None},
             spend_limit: Int \cup {None}]
Actions == [labels: SUBSET STRING, blast_radius: Int, cost: Int]

\* b is at least as risky as a: every label of a and no sandbox a does not have,
\* as wide a blast radius and as high a cost.
Riskier(a, b) ==
    /\ a.labels \subseteq b.labels
    /\ SandboxedTag \in b.labels => SandboxedTag \in a.labels
    /\ a.blast_radius <= b.blast_radius /\ a.cost <= b.cost

\* w is no better evidence than v: verification that is gone, failed or lower.
Weaker(v, w) ==
    \/ w = v
    \/ v # None /\ w # None /\ (w.survives => v.survives) /\ w.score <= v.score

\* A control model only makes a decision stricter, and one that is silent, fails
\* or answers something else leaves the policy's decision as it was (_combine).
THEOREM AdviceOnlyTightens ==
    ASSUME NEW outcome \in Outcomes, NEW advice
    PROVE  /\ Combine(outcome, advice) \in Outcomes
           /\ Order(Combine(outcome, advice)) >= Order(outcome)
           /\ advice \notin Outcomes => Combine(outcome, advice) = outcome
<1>1. CASE outcome = "allow"
  BY <1>1 DEF Combine, Order, Outcomes
<1>2. CASE outcome # "allow"
  BY <1>2 DEF Combine, Order, Outcomes
<1> QED
  BY <1>1, <1>2

\* A check that fires for an action fires for a riskier one.
LEMMA RiskKeepsChecks ==
    ASSUME NEW policy \in Policies, NEW a \in Actions, NEW b \in Actions, Riskier(a, b),
           NEW finding \in Findings, NEW weaker \in Findings,
           finding # None => weaker # None /\ weaker <= finding,
           NEW v \in Verifications \cup {None}, NEW w \in Verifications \cup {None}, Weaker(v, w),
           NEW s \in Int, NEW t \in Int, s <= t
    PROVE  /\ Denies(a, policy, finding, v, s) => Denies(b, policy, weaker, w, t)
           /\ NeedsHuman(a, policy, v) /\ ~Denies(b, policy, weaker, w, t)
                => NeedsHuman(b, policy, w)
<1>1. \A limit \in Int \cup {None} :
         /\ Above(s + a.cost, limit) => Above(t + b.cost, limit)
         /\ Above(a.cost, limit) => Above(b.cost, limit)
  BY NoneIsNoNumber DEF Above, Riskier, Actions
<1>2. Denies(a, policy, finding, v, s) => Denies(b, policy, weaker, w, t)
  <2>1. a.labels \cap policy.deny_for # {} => b.labels \cap policy.deny_for # {}
    BY DEF Riskier
  <2>2. a.labels \cap policy.require_sandbox_for # {} /\ SandboxedTag \notin a.labels
        => b.labels \cap policy.require_sandbox_for # {} /\ SandboxedTag \notin b.labels
    BY DEF Riskier
  <2>3. finding # None /\ finding < policy.min_severity
        => weaker # None /\ weaker < policy.min_severity
    BY NoneIsNoNumber DEF Findings, Policies
  <2>4. v # None /\ ~v.survives => w # None /\ ~w.survives
    BY DEF Weaker, Verifications
  <2>5. policy.spend_limit \in Int \cup {None}
    BY DEF Policies
  <2> QED
    BY <1>1, <2>1, <2>2, <2>3, <2>4, <2>5 DEF Denies
<1>3. ASSUME NeedsHuman(a, policy, v), ~Denies(b, policy, weaker, w, t)
      PROVE  NeedsHuman(b, policy, w)
  <2>1. /\ policy.human_over \in Int \cup {None}
        /\ policy.max_blast_radius \in Int /\ policy.require_score \in Int
    BY DEF Policies
  <2>2. a.labels \cap policy.require_human_for # {}
        => b.labels \cap policy.require_human_for # {}
    BY DEF Riskier
  <2>3. a.blast_radius > policy.max_blast_radius => b.blast_radius > policy.max_blast_radius
    BY <2>1 DEF Riskier, Actions
  <2>4. policy.require_score > 0 /\ w # None => w.survives
    BY <1>3 DEF Denies
  <2>5. policy.require_score > 0 /\ (v = None \/ v.score < policy.require_score)
        => w = None \/ w.score < policy.require_score
    BY <2>1 DEF Weaker, Verifications
  <2> QED
    BY <1>1, <1>3, <2>1, <2>2, <2>3, <2>4, <2>5 DEF NeedsHuman
<1> QED
  BY <1>2, <1>3

\* More risk never buys a weaker outcome: with more labels, a wider blast radius, a
\* higher cost, weaker evidence or more spent, approve() is at least as strict, so
\* no check that fires hides another.
THEOREM RiskNeverLoosens ==
    ASSUME NEW policy \in Policies, NEW a \in Actions, NEW b \in Actions, Riskier(a, b),
           NEW finding \in Findings, NEW weaker \in Findings,
           finding # None => weaker # None /\ weaker <= finding,
           NEW v \in Verifications \cup {None}, NEW w \in Verifications \cup {None}, Weaker(v, w),
           NEW s \in Int, NEW t \in Int, s <= t
    PROVE  Order(PolicyOutcome(b, policy, weaker, w, t))
             >= Order(PolicyOutcome(a, policy, finding, v, s))
<1> DEFINE before == PolicyOutcome(a, policy, finding, v, s)
           after == PolicyOutcome(b, policy, weaker, w, t)
<1>1. before = "deny" => after = "deny"
  BY RiskKeepsChecks DEF PolicyOutcome
<1>2. before = "require_human" => after \in {"require_human", "deny"}
  BY RiskKeepsChecks DEF PolicyOutcome
<1>3. before \in Outcomes /\ after \in Outcomes
  BY DEF PolicyOutcome, Outcomes
<1> HIDE DEF before, after
<1>4. Order(after) >= Order(before)
  BY <1>1, <1>2, <1>3 DEF Order, Outcomes
<1> QED
  BY <1>4 DEF before, after

(***************************************************************************)
(* The inductive invariant                                                 *)
(***************************************************************************)

\* What a worker knows, as a record.
Knowledge == [stage: Stages, mode: Modes \cup {"none"}, call: Calls \cup {"none"},
              arguments: Arguments, verdict: Evident, verdict_for: Arguments,
              approval: Ids \cup {NoApproval}, outcome: Outcomes, calls: 0 .. MaxCalls]

Typed ==
    /\ worker \in [Workers -> Knowledge]
    /\ \A w \in Workers : worker[w].stage # "idle" =>
          worker[w].call \in Calls /\ worker[w].calls \in 1 .. MaxCalls
    /\ \A w \in Workers : worker[w].approval = NoApproval \/ worker[w].approval \in DOMAIN records
    /\ spent \in Nat
    /\ trail \subseteq TrailEntry

\* What lets an effect happen, whoever asked: evidence about these arguments that
\* the policy does not deny, and a decision in the trail that admits them.
Grounded(e, entries) ==
    /\ e \in EffectEntry
    /\ e.verdict_for = e.arguments
    /\ ~Denies(ActionOf[e.call, e.arguments], Policy, None, e.verdict, 0)
    /\ \E t \in entries :
          /\ t.kind = "action-admission" /\ t.worker = e.worker /\ t.nth = e.nth
          /\ t.arguments = e.arguments
          /\ \/ t.outcome = "allow"
             \/ t.outcome = "require_human" /\ t.approval = e.approval /\ e.approval # NoApproval

\* What the store must say of it: nothing for an allow, else a spent approval of
\* this call with these arguments.
Backing(e, recs) ==
    IF e.approval = NoApproval THEN e.outcome = "allow" /\ e.arguments = NoEdit
    ELSE /\ e.approval \in DOMAIN recs /\ e.approval.call = e.call
         /\ recs[e.approval].verdict = "approved"
         /\ recs[e.approval].status = "consumed"
         /\ recs[e.approval].approved_arguments = e.arguments

\* A worker that knows k, on its way to the effect e, has the arguments, the record
\* and the evidence its stage says it has.
OnItsWay(k, e, recs, entries) ==
    /\ k.stage \in {"evidence", "weigh", "hold", "look"} =>
          k.arguments = NoEdit /\ k.verdict_for = NoEdit
    /\ k.stage \in {"evidence", "weigh", "hold"} => k.approval = NoApproval
    /\ k.stage \in {"look", "turn down", "edit", "reweigh", "void", "redeem"} =>
          k.approval \in DOMAIN recs /\ k.approval.call = k.call
    /\ k.stage \in {"edit", "reweigh", "redeem"} =>
          /\ recs[k.approval].verdict = "approved"
          /\ recs[k.approval].approved_arguments = k.arguments
    /\ k.stage = "reweigh" => k.verdict_for = k.arguments
    /\ k.stage \in {"redeem", "perform"} => Grounded(e, entries)
    /\ k.stage = "perform" => Backing(e, recs)

\* A redeemed approval is with one worker or was used for one effect.
Exclusive ==
    /\ \A w \in Performing : \A e \in effects : e.approval # worker[w].approval
    /\ \A v, w \in Performing : worker[v].approval = worker[w].approval => v = w
    /\ OneEffectPerApproval

Gate ==
    /\ TypeOK /\ Counting
    /\ Typed
    /\ \A w \in Workers : OnItsWay(worker[w], Effect(w), records, trail)
    /\ \A e \in effects : Grounded(e, trail) /\ Backing(e, records)
    /\ Exclusive

(***************************************************************************)
(* The store under the gate                                                *)
(***************************************************************************)

\* No id is the "no approval" of a call that needs none.
LEMMA NoApprovalIsNoId == NoApproval \notin Ids
<1>1. NoApproval.generation = 0
  BY DEF NoApproval
<1> QED
  BY <1>1 DEF Ids

\* What consume() does to the store, at the end of a redemption or a refusal.
LEMMA ConsumeIsAStoreStep ==
    ASSUME NEW w, NEW reached, ConsumeThen(w, reached)
    PROVE  [Next]_vars
  BY DEF ConsumeThen, Consume, Become, Consumable, Next, vars

\* A step of the gate is a step of the store, or leaves it alone.
LEMMA GateStepsTheStore ==
    ASSUME Gate, [GateNext]_gateVars
    PROVE  [Next]_vars
<1>1. ASSUME NEW w \in Workers, Hold(w) PROVE [Next]_vars
  <2>1. worker[w].call \in Calls /\ worker[w] \in Knowledge
    BY <1>1 DEF Gate, Typed, Hold
  <2>2. ActionNow(w).labels \in LabelSets
    BY <2>1, GateAssumption DEF ActionNow, Knowledge
  <2>3. HoldLabels(w) \in LabelSets
    BY <2>1, <2>2, GateAssumption DEF HoldLabels, Knowledge
  <2>4. CASE /\ CanOpen(records, worker[w].call)
             /\ records' = Submitted(records, worker[w].call, HoldLabels(w))
    <3>1. Submit(worker[w].call, HoldLabels(w))
      BY <1>1, <2>4 DEF Submit, Hold
    <3> QED
      BY <2>1, <2>3, <3>1 DEF Next
  <2>5. CASE UNCHANGED records
    BY <1>1, <2>5 DEF Hold, vars
  <2> QED
    BY <1>1, <2>4, <2>5 DEF Hold
<1>2. ASSUME NEW w \in Workers, Redeem(w) \/ TurnDown(w) PROVE [Next]_vars
  BY <1>2, ConsumeIsAStoreStep DEF Redeem, TurnDown
<1>3. ASSUME People PROVE [Next]_vars
  BY <1>3 DEF People, Next
<1>4. ASSUME StoreUnchanged PROVE [Next]_vars
  BY <1>4 DEF StoreUnchanged, vars
<1>5. ASSUME NEW w \in Workers,
             \/ \E call \in Calls, mode \in Modes : Start(w, call, mode)
             \/ Resume(w) \/ Crash(w)
      PROVE  StoreUnchanged
  BY <1>5 DEF Start, Resume, Issue, Crash
<1>6. ASSUME NEW w \in Workers, Step(w) PROVE StoreUnchanged \/ Hold(w) \/ Redeem(w) \/ TurnDown(w)
  BY <1>6 DEF Step, GatherEvidence, EvidenceForEdit, Weigh, Reweigh, Look, Perform, PerformFails, Spend
<1>7. CASE UNCHANGED gateVars
  BY <1>7 DEF gateVars, vars
<1> QED
  BY <1>1, <1>2, <1>3, <1>4, <1>5, <1>6, <1>7 DEF GateNext

\* A step of the gate advances the records it finds, or leaves them.
LEMMA GateAdvances ==
    ASSUME Gate, [GateNext]_gateVars
    PROVE  /\ TypeOK' /\ Counting'
           /\ \A id \in DOMAIN records :
                 id \in DOMAIN records' /\ Advances(records[id], records'[id])
  BY GateStepsTheStore, TypeStep, CountingStep, AdvanceStep DEF Gate

(***************************************************************************)
(* What a step leaves as it was                                            *)
(***************************************************************************)

\* A decided record stays as it was decided.
LEMMA DecidedStays ==
    ASSUME TypeOK, NEW id \in DOMAIN records,
           id \in DOMAIN records' /\ Advances(records[id], records'[id]),
           records[id].verdict = "approved"
    PROVE  /\ records'[id].verdict = "approved"
           /\ records'[id].approved_arguments = records[id].approved_arguments
           /\ records[id].status = "consumed" => records'[id].status = "consumed"
<1>1. records[id].status # "pending"
  BY DEF TypeOK
<1> QED
  BY <1>1 DEF Advances, Settlement, Statuses

Later ==
    /\ \A id \in DOMAIN records :
          id \in DOMAIN records' /\ Advances(records[id], records'[id])
    /\ trail \subseteq trail'

\* What an effect, done or on its way, rests on stays as records advance and the
\* trail grows.
LEMMA GroundsStay ==
    ASSUME TypeOK, Later
    PROVE  /\ \A e : Grounded(e, trail) => Grounded(e, trail')
           /\ \A e : Backing(e, records) => Backing(e, records')
           /\ \A k, e : OnItsWay(k, e, records, trail) => OnItsWay(k, e, records', trail')
<1>1. ASSUME NEW e, Grounded(e, trail) PROVE Grounded(e, trail')
  BY <1>1 DEF Grounded, Later
<1>2. ASSUME NEW e, Backing(e, records) PROVE Backing(e, records')
  BY <1>2, DecidedStays DEF Backing, Later
<1>3. ASSUME NEW k, NEW e, OnItsWay(k, e, records, trail)
      PROVE  OnItsWay(k, e, records', trail')
  BY <1>1, <1>2, <1>3, DecidedStays DEF OnItsWay, Later
<1> QED
  BY <1>1, <1>2, <1>3

\* A step that changes what one worker knows, lets no effect happen and gives no
\* approval to a second worker keeps the invariant, if what that worker knows is in
\* order.
LEMMA OneWorkerMoves ==
    ASSUME Gate, [GateNext]_gateVars, NEW w \in Workers, NEW k \in Knowledge, Goes(w, k),
           k.stage # "idle" => k.call \in Calls /\ k.calls \in 1 .. MaxCalls,
           k.approval = NoApproval \/ k.approval \in DOMAIN records',
           effects' = effects, spent' \in Nat,
           trail \subseteq trail', trail' \subseteq TrailEntry,
           OnItsWay(k, Effect(w)', records', trail'),
           k.stage = "perform" /\ k.approval # NoApproval =>
              /\ \A e \in effects : e.approval # k.approval
              /\ \A v \in Performing : worker[v].approval = k.approval => v = w
    PROVE  Gate'
<1>1. TypeOK' /\ Counting' /\ Later
  BY GateAdvances DEF Later
<1>2. /\ worker'[w] = k
      /\ \A v \in Workers : v # w => worker'[v] = worker[v]
      /\ worker' \in [Workers -> Knowledge]
  BY DEF Gate, Typed, Goes
<1>3. Typed'
  <2>1. \A v \in Workers : worker'[v].approval = NoApproval \/ worker'[v].approval \in DOMAIN records'
    BY <1>1, <1>2 DEF Gate, Typed, Later
  <2> QED
    BY <1>2, <2>1 DEF Gate, Typed
<1>4. ASSUME NEW v \in Workers PROVE OnItsWay(worker'[v], Effect(v)', records', trail')
  <2>1. CASE v = w
    BY <1>2, <2>1
  <2>2. CASE v # w
    <3>1. worker'[v] = worker[v] /\ Effect(v)' = Effect(v)
      BY <1>2, <2>2 DEF Effect
    <3>2. OnItsWay(worker[v], Effect(v), records, trail)
      BY DEF Gate
    <3> QED
      BY <1>1, <3>1, <3>2, GroundsStay DEF Gate
  <2> QED
    BY <2>1, <2>2
<1>5. \A e \in effects' : Grounded(e, trail') /\ Backing(e, records')
  BY <1>1, GroundsStay DEF Gate
<1>6. Exclusive'
  <2>1. \A v \in Performing' : v # w => v \in Performing /\ worker'[v] = worker[v]
    BY <1>2 DEF Performing
  <2>2. w \in Performing' => k.stage = "perform" /\ k.approval # NoApproval
    BY <1>2 DEF Performing
  <2> QED
    BY <1>2, <2>1, <2>2 DEF Gate, Exclusive, OneEffectPerApproval
<1> QED
  BY <1>1, <1>3, <1>4, <1>5, <1>6 DEF Gate

(***************************************************************************)
(* What the policy let through                                             *)
(***************************************************************************)

\* A decision is an outcome, and one that is no deny comes from a policy that does
\* not deny the action, not even with nothing spent.
LEMMA NotDenied ==
    ASSUME NEW action, action.cost \in Nat, NEW verdict, NEW advice, NEW s \in Nat
    PROVE  LET outcome == Decision(action, Policy, None, verdict, advice, s)
           IN  /\ outcome \in Outcomes
               /\ outcome # "deny" => ~Denies(action, Policy, None, verdict, 0)
<1>1. Above(0 + action.cost, Policy.spend_limit) => Above(s + action.cost, Policy.spend_limit)
  BY GateAssumption, NoneIsNoNumber DEF Above
<1>2. Denies(action, Policy, None, verdict, 0) => Denies(action, Policy, None, verdict, s)
  BY <1>1 DEF Denies
<1>3. Denies(action, Policy, None, verdict, s)
        => Decision(action, Policy, None, verdict, advice, s) = "deny"
  BY DEF Decision, PolicyOutcome, Combine
<1>4. Decision(action, Policy, None, verdict, advice, s) \in Outcomes
  BY DEF Decision, PolicyOutcome, Combine, Outcomes
<1> QED
  BY <1>2, <1>3, <1>4

\* What is written about a call in flight is a trail entry.
LEMMA NoteType ==
    ASSUME Gate, NEW w \in Workers, worker[w].stage # "idle", NEW kind \in Kinds,
           NEW outcome \in Outcomes \cup Statuses, NEW by \in Ids \cup {NoApproval}
    PROVE  Note(w, kind, outcome, by) \in TrailEntry
  BY DEF Note, TrailEntry, Gate, Typed, Knowledge

\* What a call in flight is known to have.
LEMMA InFlight ==
    ASSUME Gate, NEW w \in Workers, worker[w].stage # "idle"
    PROVE  /\ worker[w] \in Knowledge /\ worker[w].call \in Calls
           /\ worker[w].calls \in 1 .. MaxCalls
           /\ worker[w].approval = NoApproval \/ worker[w].approval \in DOMAIN records
           /\ ActionNow(w).cost \in Nat
           /\ spent \in Nat /\ trail \subseteq TrailEntry
           /\ OnItsWay(worker[w], Effect(w), records, trail)
<1>1. worker[w] \in Knowledge /\ worker[w].call \in Calls
  BY DEF Gate, Typed
<1>2. ActionNow(w).cost \in Nat
  BY <1>1, GateAssumption DEF ActionNow, Knowledge
<1> QED
  BY <1>1, <1>2 DEF Gate, Typed

(***************************************************************************)
(* The steps of a worker                                                   *)
(***************************************************************************)

\* A call is issued with nothing but its own arguments.
LEMMA IssueStep ==
    ASSUME Gate, [GateNext]_gateVars, NEW w \in Workers, NEW call \in Calls,
           NEW mode \in Modes \cup {"none"}, Issue(w, call, mode)
    PROVE  Gate'
<1> DEFINE k == [Fresh EXCEPT !.stage = "evidence", !.call = call, !.mode = mode,
                              !.calls = worker[w].calls + 1]
<1>1. k \in Knowledge /\ k.calls \in 1 .. MaxCalls
  <2>1. worker[w].calls + 1 \in 1 .. MaxCalls /\ worker[w].calls + 1 \in 0 .. MaxCalls
    BY GateAssumption DEF Issue, Gate, Typed, Knowledge
  <2> QED
    BY <2>1 DEF Fresh, Knowledge, Stages, Arguments, Evident, Outcomes
<1>2. /\ k.stage = "evidence" /\ k.arguments = NoEdit /\ k.verdict_for = NoEdit
      /\ k.approval = NoApproval /\ k.call = call
  BY DEF Fresh
<1>3. OnItsWay(k, Effect(w)', records', trail')
  BY <1>2 DEF OnItsWay
<1>4. Goes(w, k) /\ effects' = effects /\ trail' = trail /\ spent' = spent
  BY DEF Issue
<1> HIDE DEF k
<1> QED
  BY <1>1, <1>2, <1>3, <1>4, OneWorkerMoves DEF Gate, Typed

\* A call that dies forgets what it knew.
LEMMA CrashStep ==
    ASSUME Gate, [GateNext]_gateVars, NEW w \in Workers, Crash(w)
    PROVE  Gate'
<1> DEFINE k == [Fresh EXCEPT !.stage = "paused", !.call = worker[w].call,
                              !.mode = worker[w].mode, !.calls = worker[w].calls]
<1>1. worker[w].stage # "idle"
  BY DEF Crash
<1>2. k \in Knowledge /\ k.calls \in 1 .. MaxCalls /\ k.call \in Calls
  BY <1>1, InFlight DEF Fresh, Knowledge, Stages, Arguments, Evident, Outcomes
<1>3. k.stage = "paused" /\ k.approval = NoApproval
  BY DEF Fresh
<1>4. OnItsWay(k, Effect(w)', records', trail')
  BY <1>3 DEF OnItsWay
<1>5. Goes(w, k) /\ effects' = effects /\ trail' = trail /\ spent' = spent
  BY DEF Crash
<1> HIDE DEF k
<1> QED
  BY <1>2, <1>3, <1>4, <1>5, OneWorkerMoves DEF Gate, Typed

\* A call that stops asking for anything keeps the invariant, whatever it wrote down.
LEMMA StopStep ==
    ASSUME Gate, [GateNext]_gateVars, NEW w \in Workers, worker[w].stage # "idle",
           NEW reached \in Stages, reached \in Ended \cup {"spend"}, Reaches(w, reached),
           effects' = effects, spent' \in Nat,
           trail \subseteq trail', trail' \subseteq TrailEntry
    PROVE  Gate'
<1> DEFINE k == [worker[w] EXCEPT !.stage = reached]
<1>1. k \in Knowledge /\ k.calls \in 1 .. MaxCalls /\ k.call \in Calls /\ k.stage = reached
  BY InFlight DEF Knowledge
<1>2. k.approval = NoApproval \/ k.approval \in DOMAIN records'
  BY InFlight, GateAdvances DEF Knowledge
<1>3. OnItsWay(k, Effect(w)', records', trail')
  BY <1>1 DEF OnItsWay, Ended
<1>4. Goes(w, k)
  BY DEF Reaches
<1>5. reached # "perform"
  BY DEF Ended
<1> HIDE DEF k
<1> QED
  BY <1>1, <1>2, <1>3, <1>4, <1>5, OneWorkerMoves

\* Evidence is gathered for the call as requested, or its absence is a denial.
LEMMA GatherStep ==
    ASSUME Gate, [GateNext]_gateVars, NEW w \in Workers,
           NEW found \in Evidence \cup {Unavailable}, GatherEvidence(w, found)
    PROVE  Gate'
<1>0. worker[w].stage = "evidence"
  BY DEF GatherEvidence
<1>1. CASE found = Unavailable
  <2>1. Admission(w, "deny", NoApproval) \in TrailEntry
    BY <1>0, NoteType DEF Admission, Kinds, Outcomes
  <2>2. PICK reached \in {"error", "refused"} : Reaches(w, reached)
    BY <1>0, <1>1 DEF GatherEvidence
  <2>3. trail' = trail \cup {Admission(w, "deny", NoApproval)}
    BY <1>1 DEF GatherEvidence, Records
  <2>4. effects' = effects /\ spent' = spent
    BY DEF GatherEvidence
  <2> QED
    BY <1>0, <2>1, <2>2, <2>3, <2>4, InFlight, StopStep DEF Stages, Ended
<1>2. CASE found # Unavailable
  <2> DEFINE k == [worker[w] EXCEPT !.stage = "weigh", !.verdict = found]
  <2>1. /\ k \in Knowledge /\ k.calls \in 1 .. MaxCalls /\ k.call \in Calls
        /\ k.stage = "weigh" /\ k.arguments = NoEdit /\ k.verdict_for = NoEdit
        /\ k.approval = NoApproval
    BY ZenonT(60), <1>0, <1>2, InFlight DEF Knowledge, Stages, Evident, OnItsWay
  <2>2. Goes(w, k) /\ effects' = effects /\ trail' = trail /\ spent' = spent
    BY <1>2 DEF GatherEvidence
  <2>3. OnItsWay(k, Effect(w)', records', trail')
    BY <2>1 DEF OnItsWay
  <2> HIDE DEF k
  <2> QED
    BY <2>1, <2>2, <2>3, OneWorkerMoves DEF Gate, Typed
<1> QED
  BY <1>1, <1>2

\* The call as requested is weighed: an allow is on its way to an effect, with its
\* decision in the trail.
LEMMA WeighStep ==
    ASSUME Gate, [GateNext]_gateVars, NEW w \in Workers, NEW advice, Weigh(w, advice)
    PROVE  Gate'
<1> DEFINE outcome == Weighs(w, advice)
           entry == Admission(w, outcome, NoApproval)
<1>0. worker[w].stage = "weigh"
  BY DEF Weigh
<1>7. worker[w].arguments = NoEdit
  BY <1>0, InFlight DEF OnItsWay
<1>1. /\ outcome \in Outcomes
      /\ outcome # "deny" => ~Denies(ActionNow(w), Policy, None, worker[w].verdict, 0)
  BY <1>0, InFlight, NotDenied DEF Weighs
<1>2. trail' = trail \cup {entry} /\ entry \in TrailEntry
  BY <1>0, <1>1, NoteType DEF Weigh, Records, Admission, Kinds
<1>3. PICK reached \in {"perform", "error", "refused", "hold"} :
          /\ Goes(w, [worker[w] EXCEPT !.stage = reached, !.outcome = outcome])
          /\ reached = "perform" <=> outcome = "allow"
  BY <1>0 DEF Weigh
<1> DEFINE k == [worker[w] EXCEPT !.stage = reached, !.outcome = outcome]
<1>4. /\ k \in Knowledge /\ k.calls \in 1 .. MaxCalls /\ k.call \in Calls
      /\ k.stage = reached /\ k.arguments = NoEdit /\ k.verdict_for = NoEdit
      /\ k.approval = NoApproval /\ k.outcome = outcome /\ k.verdict = worker[w].verdict
      /\ k.call = worker[w].call /\ k.calls = worker[w].calls
  BY ZenonT(60), <1>0, <1>1, InFlight DEF Knowledge, Stages, OnItsWay
<1>5. effects' = effects /\ spent' = spent /\ Goes(w, k)
  BY <1>3 DEF Weigh
<1>6. OnItsWay(k, Effect(w)', records', trail')
  <2>1. CASE reached = "perform"
    <3> DEFINE e == [worker |-> w, nth |-> k.calls, call |-> k.call, arguments |-> k.arguments,
                     approval |-> k.approval, outcome |-> k.outcome, verdict |-> k.verdict,
                     verdict_for |-> k.verdict_for]
    <3>1. Effect(w)' = e
      BY <1>5 DEF Effect, Goes, Gate, Typed
    <3>2. e \in EffectEntry
      BY <1>4 DEF EffectEntry, Knowledge
    <3>3. entry \in trail' /\ entry.kind = "action-admission" /\ entry.worker = w
          /\ entry.nth = k.calls /\ entry.arguments = NoEdit /\ entry.outcome = "allow"
      BY <1>7, <1>2, <1>3, <1>4, <2>1 DEF Admission, Note
    <3>4. ~Denies(ActionOf[e.call, e.arguments], Policy, None, e.verdict, 0)
      BY <1>7, <1>1, <1>3, <1>4, <2>1 DEF ActionNow
    <3> HIDE DEF entry
    <3>5. Grounded(e, trail')
      BY <1>4, <3>2, <3>3, <3>4 DEF Grounded
    <3>6. Backing(e, records')
      BY <1>3, <1>4, <2>1 DEF Backing
    <3> QED
      BY <1>4, <2>1, <3>1, <3>5, <3>6 DEF OnItsWay
  <2>2. CASE reached # "perform"
    BY <1>4, <2>2 DEF OnItsWay
  <2> QED
    BY <2>1, <2>2
<1> HIDE DEF k, entry, outcome
<1> QED
  BY <1>2, <1>4, <1>5, <1>6, InFlight, <1>0, OneWorkerMoves

\* A held call gets a record of its own call.
LEMMA HoldStep ==
    ASSUME Gate, [GateNext]_gateVars, NEW w \in Workers, Hold(w)
    PROVE  Gate'
<1>0. worker[w].stage = "hold" /\ effects' = effects /\ trail' = trail /\ spent' = spent
  BY DEF Hold
<1>1. ASSUME NEW id \in DOMAIN records', id.call = worker[w].call,
             NEW reached \in {"refused", "look"},
             Goes(w, [worker[w] EXCEPT !.stage = reached, !.approval = id])
      PROVE  Gate'
  <2> DEFINE k == [worker[w] EXCEPT !.stage = reached, !.approval = id]
  <2>1. id \in Ids
    BY <1>1, GateAdvances DEF TypeOK
  <2>2. /\ k \in Knowledge /\ k.calls \in 1 .. MaxCalls /\ k.call \in Calls
        /\ k.stage = reached /\ k.arguments = NoEdit /\ k.verdict_for = NoEdit
        /\ k.approval = id /\ k.call = worker[w].call
    BY <1>0, <2>1, InFlight DEF Knowledge, Stages, OnItsWay
  <2>3. OnItsWay(k, Effect(w)', records', trail')
    BY <1>1, <2>2 DEF OnItsWay
  <2>4. Goes(w, k)
    BY <1>1
  <2> HIDE DEF k
  <2> QED
    BY <1>0, <1>1, <2>2, <2>3, <2>4, OneWorkerMoves DEF Gate, Typed
<1>2. CASE Reaches(w, "refused")
  BY <1>0, <1>2, InFlight, StopStep DEF Stages, Ended
<1>3. CASE /\ UNCHANGED records
           /\ \E id \in LiveFor(records, worker[w].call), reached \in {"refused", "look"} :
                 Goes(w, [worker[w] EXCEPT !.stage = reached, !.approval = id])
  BY <1>1, <1>3 DEF LiveFor, SameCall
<1>4. CASE /\ records' = Submitted(records, worker[w].call, HoldLabels(w))
           /\ \E reached \in {"refused", "look"} :
                 Goes(w, [worker[w] EXCEPT !.stage = reached,
                                           !.approval = NextId(records, worker[w].call)])
  <2>1. NextId(records, worker[w].call) \in DOMAIN records'
    BY <1>4 DEF Submitted, Put
  <2>2. NextId(records, worker[w].call).call = worker[w].call
    BY DEF NextId
  <2> QED
    BY <1>1, <1>4, <2>1, <2>2
<1> QED
  BY <1>2, <1>3, <1>4 DEF Hold

\* What the record says decides where the call goes, with which arguments.
LEMMA LookStep ==
    ASSUME Gate, [GateNext]_gateVars, NEW w \in Workers, Look(w)
    PROVE  Gate'
<1> DEFINE id == worker[w].approval
           record == records[id]
<1>0. /\ worker[w].stage = "look" /\ effects' = effects /\ spent' = spent
      /\ records' = records
  BY DEF Look, StoreUnchanged
<1>1. /\ id \in DOMAIN records /\ id \in Ids /\ id.call = worker[w].call
      /\ record \in ApprovalRecord
      /\ record.status \in {record.verdict, "pending", "consumed"}
      /\ worker[w].arguments = NoEdit /\ worker[w].verdict_for = NoEdit
  BY <1>0, InFlight DEF OnItsWay, Gate, TypeOK
<1>2. trail \subseteq trail' /\ trail' \subseteq TrailEntry
  <2>1. record.status \in Statuses /\ worker[w].outcome \in Outcomes
    BY <1>0, <1>1, InFlight DEF ApprovalRecord, Knowledge
  <2>2. \A kind \in Kinds, outcome \in {record.status, worker[w].outcome} :
           Note(w, kind, outcome, id) \in TrailEntry
    BY <1>0, <1>1, <2>1, NoteType
  <2> QED
    BY <2>2, <1>0, InFlight DEF Look, Records, Kinds
<1>3. CASE record.status = "approved"
  <2> DEFINE edited == record.approved_arguments # NoEdit
             k == [worker[w] EXCEPT !.arguments = record.approved_arguments,
                                    !.stage = IF edited THEN "edit" ELSE "reweigh"]
  <2>1. /\ k \in Knowledge /\ k.calls \in 1 .. MaxCalls /\ k.call \in Calls
        /\ k.stage = (IF edited THEN "edit" ELSE "reweigh") /\ k.approval = id
        /\ k.arguments = record.approved_arguments /\ k.verdict_for = NoEdit
        /\ k.call = worker[w].call
    BY ZenonT(60), <1>0, <1>1, InFlight DEF Knowledge, Stages, ApprovalRecord
  <2>2. OnItsWay(k, Effect(w)', records', trail')
    BY <1>0, <1>1, <1>3, <2>1 DEF OnItsWay
  <2>3. Goes(w, k)
    BY <1>3 DEF Look
  <2> HIDE DEF k
  <2> QED
    BY <1>0, <1>1, <1>2, <2>1, <2>2, <2>3, OneWorkerMoves DEF Gate, Typed
<1>4. CASE record.status = "denied"
  <2> DEFINE k == [worker[w] EXCEPT !.stage = "turn down"]
  <2>1. /\ k \in Knowledge /\ k.calls \in 1 .. MaxCalls /\ k.call \in Calls
        /\ k.stage = "turn down" /\ k.approval = id /\ k.call = worker[w].call
    BY <1>0, <1>1, InFlight DEF Knowledge, Stages
  <2>2. OnItsWay(k, Effect(w)', records', trail')
    BY <1>0, <1>1, <2>1 DEF OnItsWay
  <2>3. Goes(w, k)
    BY <1>4 DEF Look, Reaches
  <2> HIDE DEF k
  <2> QED
    BY <1>0, <1>1, <1>2, <2>1, <2>2, <2>3, OneWorkerMoves DEF Gate, Typed
<1>5. CASE record.status \notin {"approved", "denied"}
  <2>1. Reaches(w, "paused")
    BY <1>5 DEF Look
  <2> QED
    BY <1>0, <1>2, <2>1, StopStep DEF Stages, Ended, Gate, Typed
<1> QED
  BY <1>3, <1>4, <1>5

\* A call that is refused with an approval at hand still names its record.
LEMMA VoidStep ==
    ASSUME Gate, [GateNext]_gateVars, NEW w \in Workers, worker[w].stage \in {"edit", "reweigh"},
           NEW outcome \in Outcomes,
           Goes(w, [worker[w] EXCEPT !.outcome = outcome, !.stage = "void"]),
           effects' = effects, spent' = spent, records' = records,
           trail \subseteq trail', trail' \subseteq TrailEntry
    PROVE  Gate'
<1> DEFINE k == [worker[w] EXCEPT !.outcome = outcome, !.stage = "void"]
<1>1. /\ k \in Knowledge /\ k.calls \in 1 .. MaxCalls /\ k.call \in Calls
      /\ k.stage = "void" /\ k.approval = worker[w].approval /\ k.call = worker[w].call
  BY InFlight DEF Knowledge, Stages
<1>2. k.approval \in DOMAIN records /\ k.approval.call = k.call
  BY <1>1, InFlight DEF OnItsWay
<1>3. OnItsWay(k, Effect(w)', records', trail')
  BY <1>1, <1>2 DEF OnItsWay
<1>4. Goes(w, k)
  OBVIOUS
<1> HIDE DEF k
<1> QED
  BY <1>1, <1>2, <1>3, <1>4, OneWorkerMoves DEF Gate, Typed

\* An edited call gets evidence of its own, or is denied.
LEMMA EditStep ==
    ASSUME Gate, [GateNext]_gateVars, NEW w \in Workers,
           NEW found \in Evidence \cup {Unavailable}, EvidenceForEdit(w, found)
    PROVE  Gate'
<1>0. /\ worker[w].stage = "edit" /\ effects' = effects /\ spent' = spent
      /\ records' = records
  BY DEF EvidenceForEdit, StoreUnchanged
<1>1. CASE found = Unavailable
  <2>1. Admission(w, "deny", NoApproval) \in TrailEntry
    BY <1>0, NoteType DEF Admission, Kinds, Outcomes
  <2>2. trail' = trail \cup {Admission(w, "deny", NoApproval)} /\ Reaches(w, "void")
    BY <1>1 DEF EvidenceForEdit, Records
  <2>3. Goes(w, [worker[w] EXCEPT !.outcome = worker[w].outcome, !.stage = "void"])
    BY <1>0, <2>2, InFlight DEF Reaches, Knowledge
  <2>4. worker[w].outcome \in Outcomes
    BY <1>0, InFlight DEF Knowledge
  <2> QED
    BY <1>0, <2>1, <2>2, <2>3, <2>4, InFlight, VoidStep
<1>2. CASE found # Unavailable
  <2> DEFINE k == [worker[w] EXCEPT !.stage = "reweigh", !.verdict = found,
                                    !.verdict_for = worker[w].arguments]
  <2>1. /\ k \in Knowledge /\ k.calls \in 1 .. MaxCalls /\ k.call \in Calls
        /\ k.stage = "reweigh" /\ k.approval = worker[w].approval /\ k.call = worker[w].call
        /\ k.arguments = worker[w].arguments /\ k.verdict_for = k.arguments
    BY <1>0, <1>2, InFlight DEF Knowledge, Stages, Evident
  <2>2. /\ k.approval \in DOMAIN records /\ k.approval.call = k.call
        /\ records[k.approval].verdict = "approved"
        /\ records[k.approval].approved_arguments = k.arguments
    BY <1>0, <2>1, InFlight DEF OnItsWay
  <2>3. OnItsWay(k, Effect(w)', records', trail')
    BY <1>0, <2>1, <2>2 DEF OnItsWay
  <2>4. Goes(w, k) /\ trail' = trail
    BY <1>2 DEF EvidenceForEdit
  <2> HIDE DEF k
  <2> QED
    BY <1>0, <2>1, <2>2, <2>3, <2>4, OneWorkerMoves DEF Gate, Typed
<1> QED
  BY <1>1, <1>2

\* With an approval the call is weighed once more; what is not denied may redeem it.
LEMMA ReweighStep ==
    ASSUME Gate, [GateNext]_gateVars, NEW w \in Workers, NEW advice, Reweigh(w, advice)
    PROVE  Gate'
<1> DEFINE outcome == Weighs(w, advice)
           by == IF outcome = "require_human" THEN worker[w].approval ELSE NoApproval
           entry == Admission(w, outcome, by)
<1>0. /\ worker[w].stage = "reweigh" /\ effects' = effects /\ spent' = spent
      /\ records' = records
  BY DEF Reweigh, StoreUnchanged
<1>1. /\ outcome \in Outcomes
      /\ outcome # "deny" => ~Denies(ActionNow(w), Policy, None, worker[w].verdict, 0)
  BY <1>0, InFlight, NotDenied DEF Weighs
<1>2. trail' = trail \cup {entry} /\ entry \in TrailEntry
  <2>1. by \in Ids \cup {NoApproval}
    BY <1>0, InFlight DEF Knowledge
  <2> QED
    BY <1>0, <1>1, <2>1, NoteType DEF Reweigh, Records, Admission, Kinds
<1>3. Goes(w, [worker[w] EXCEPT !.outcome = outcome,
                                !.stage = IF outcome = "deny" THEN "void" ELSE "redeem"])
  BY DEF Reweigh
<1>4. CASE outcome = "deny"
  BY <1>0, <1>1, <1>2, <1>3, <1>4, InFlight, VoidStep
<1>5. CASE outcome # "deny"
  <2> DEFINE k == [worker[w] EXCEPT !.outcome = outcome, !.stage = "redeem"]
             e == [worker |-> w, nth |-> k.calls, call |-> k.call, arguments |-> k.arguments,
                   approval |-> k.approval, outcome |-> k.outcome, verdict |-> k.verdict,
                   verdict_for |-> k.verdict_for]
  <2>1. /\ k \in Knowledge /\ k.calls \in 1 .. MaxCalls /\ k.call \in Calls
        /\ k.stage = "redeem" /\ k.approval = worker[w].approval /\ k.call = worker[w].call
        /\ k.arguments = worker[w].arguments /\ k.verdict_for = k.arguments
        /\ k.verdict = worker[w].verdict /\ k.calls = worker[w].calls /\ k.outcome = outcome
    BY <1>0, <1>1, InFlight DEF Knowledge, Stages, OnItsWay
  <2>2. /\ k.approval \in DOMAIN records /\ k.approval.call = k.call
        /\ records[k.approval].verdict = "approved"
        /\ records[k.approval].approved_arguments = k.arguments
    BY <1>0, <2>1, InFlight DEF OnItsWay
  <2>3. Goes(w, k)
    BY <1>3, <1>5
  <2>4. Effect(w)' = e
    BY <2>3 DEF Effect, Goes, Gate, Typed
  <2>5. e \in EffectEntry
    BY <2>1 DEF EffectEntry, Knowledge
  <2>6. /\ entry \in trail' /\ entry.kind = "action-admission" /\ entry.worker = w
        /\ entry.nth = k.calls /\ entry.arguments = k.arguments
        /\ \/ entry.outcome = "allow"
           \/ entry.outcome = "require_human" /\ entry.approval = k.approval
    BY <1>1, <1>2, <1>5, <2>1 DEF Admission, Note, Outcomes
  <2>7. ~Denies(ActionOf[e.call, e.arguments], Policy, None, e.verdict, 0)
    BY <1>1, <1>5, <2>1 DEF ActionNow
  <2>8. k.approval # NoApproval
    BY <2>2, NoApprovalIsNoId DEF Gate, TypeOK
  <2> HIDE DEF entry
  <2>9. Grounded(e, trail')
    BY <2>1, <2>5, <2>6, <2>7, <2>8 DEF Grounded
  <2>10. OnItsWay(k, Effect(w)', records', trail')
    BY <1>0, <2>1, <2>2, <2>4, <2>9 DEF OnItsWay
  <2> HIDE DEF k
  <2> QED
    BY <1>0, <1>2, <2>1, <2>2, <2>3, <2>10, InFlight, OneWorkerMoves
<1> QED
  BY <1>4, <1>5

\* Redeeming an approved record gives the approval to this worker alone: nobody has
\* it yet and nothing ran on it, since what has it or ran on it found it consumed.
LEMMA RedeemStep ==
    ASSUME Gate, [GateNext]_gateVars, NEW w \in Workers, Redeem(w)
    PROVE  Gate'
<1> DEFINE id == worker[w].approval
<1>0. /\ worker[w].stage = "redeem" /\ effects' = effects /\ spent' = spent /\ trail' = trail
  BY DEF Redeem, ConsumeThen
<1>1. CASE ~Consumable(records, id)
  <2>1. Reaches(w, "error")
    BY <1>1 DEF Redeem, ConsumeThen
  <2> QED
    BY <1>0, <2>1, StopStep DEF Stages, Ended, Gate, Typed
<1>2. CASE Consumable(records, id)
  <2> DEFINE k == [worker[w] EXCEPT !.stage = "perform"]
  <2>1. /\ k \in Knowledge /\ k.calls \in 1 .. MaxCalls /\ k.call \in Calls
        /\ k.stage = "perform" /\ k.approval = id /\ k.call = worker[w].call
        /\ k.arguments = worker[w].arguments /\ k.verdict = worker[w].verdict
        /\ k.verdict_for = worker[w].verdict_for /\ k.outcome = worker[w].outcome
        /\ k.calls = worker[w].calls
    BY <1>0, InFlight DEF Knowledge, Stages
  <2>2. Goes(w, k) /\ records' = [records EXCEPT ![id] = Consumed(@)]
    BY <1>2 DEF Redeem, ConsumeThen, Reaches
  <2>3. Effect(w)' = Effect(w)
    BY <2>1, <2>2 DEF Effect, Goes, Gate, Typed
  <2>4. /\ id \in DOMAIN records /\ id.call = worker[w].call /\ id # NoApproval
        /\ records[id] \in ApprovalRecord /\ records[id].status # "consumed"
        /\ records[id].verdict = "approved"
        /\ records[id].approved_arguments = worker[w].arguments
        /\ Grounded(Effect(w), trail)
    BY <1>0, <1>2, InFlight, NoApprovalIsNoId DEF OnItsWay, Consumable, Gate, TypeOK
  <2>5. Backing(Effect(w), records')
    <3>1. /\ records'[id].status = "consumed" /\ records'[id].verdict = "approved"
          /\ records'[id].approved_arguments = worker[w].arguments
      BY <2>2, <2>4 DEF Consumed, ApprovalRecord
    <3>2. /\ Effect(w).approval = id /\ Effect(w).call = worker[w].call
          /\ Effect(w).arguments = worker[w].arguments
      BY DEF Effect
    <3> QED
      BY <2>2, <2>4, <3>1, <3>2 DEF Backing
  <2>6. OnItsWay(k, Effect(w)', records', trail')
    BY <1>0, <2>1, <2>3, <2>4, <2>5 DEF OnItsWay
  <2>7. \A e \in effects : e.approval # id
    BY <2>4 DEF Gate, Backing
  <2>8. ASSUME NEW v \in Performing PROVE worker[v].approval # id
    <3>1. Backing(Effect(v), records) /\ Effect(v).approval = worker[v].approval
      BY DEF Performing, Gate, OnItsWay, Effect
    <3> QED
      BY <2>4, <3>1 DEF Backing
  <2>9. id \in DOMAIN records'
    BY <2>2, <2>4
  <2> HIDE DEF k
  <2> QED
    BY <1>0, <2>1, <2>2, <2>6, <2>7, <2>8, <2>9, OneWorkerMoves DEF Gate, Typed
<1> QED
  BY <1>1, <1>2

\* The call runs, on grounds it had: the only effect of its approval.
LEMMA PerformStep ==
    ASSUME Gate, [GateNext]_gateVars, NEW w \in Workers, Perform(w)
    PROVE  Gate'
<1> DEFINE k == [worker[w] EXCEPT !.stage = "spend"]
<1>0. /\ worker[w].stage = "perform" /\ effects' = effects \cup {Effect(w)}
      /\ spent' = spent /\ trail' = trail /\ records' = records
      /\ worker' = [worker EXCEPT ![w] = k]
  BY DEF Perform, Reaches, Goes, StoreUnchanged
<1>1. k \in Knowledge /\ k.stage = "spend" /\ k.call = worker[w].call
      /\ k.calls = worker[w].calls /\ k.approval = worker[w].approval
  BY <1>0, InFlight DEF Knowledge, Stages
<1>2. worker'[w] = k /\ \A v \in Workers : v # w => worker'[v] = worker[v]
  BY <1>0 DEF Gate, Typed
<1> HIDE DEF k
<1>3. TypeOK' /\ Counting'
  BY GateAdvances
<1>4. Typed'
  <2>1. worker' \in [Workers -> Knowledge]
    BY <1>0, <1>1 DEF Gate, Typed
  <2>2. ASSUME NEW v \in Workers
        PROVE  /\ worker'[v].stage # "idle" =>
                     worker'[v].call \in Calls /\ worker'[v].calls \in 1 .. MaxCalls
               /\ worker'[v].approval = NoApproval \/ worker'[v].approval \in DOMAIN records'
    BY <1>0, <1>1, <1>2 DEF Gate, Typed
  <2> QED
    BY <1>0, <2>1, <2>2 DEF Gate, Typed
<1>5. ASSUME NEW v \in Workers PROVE OnItsWay(worker'[v], Effect(v)', records', trail')
  <2>1. CASE v = w
    BY <1>1, <1>2, <2>1 DEF OnItsWay
  <2>2. CASE v # w
    <3>1. worker'[v] = worker[v] /\ Effect(v)' = Effect(v)
      BY <1>2, <2>2 DEF Effect
    <3> QED
      BY <1>0, <3>1 DEF Gate
  <2> QED
    BY <2>1, <2>2
<1>6. Grounded(Effect(w), trail) /\ Backing(Effect(w), records)
  BY <1>0, InFlight DEF OnItsWay
<1>7. \A e \in effects' : Grounded(e, trail') /\ Backing(e, records')
  BY <1>0, <1>6 DEF Gate
<1>8. Exclusive'
  <2>1. Effect(w).approval = worker[w].approval
    BY DEF Effect
  <2>2. \A v \in Performing' : v # w /\ v \in Performing /\ worker'[v] = worker[v]
    BY <1>1, <1>2 DEF Performing
  <2>3. worker[w].approval # NoApproval => w \in Performing
    BY <1>0 DEF Performing
  <2>4. ASSUME NEW v \in Performing', NEW e \in effects' PROVE e.approval # worker'[v].approval
    <3>1. CASE e \in effects
      BY <2>2, <3>1 DEF Gate, Exclusive
    <3>2. CASE e = Effect(w)
      BY <2>1, <2>2, <2>3, <3>2 DEF Gate, Exclusive, Performing
    <3> QED
      BY <1>0, <3>1, <3>2
  <2>5. \A v, u \in Performing' : worker'[v].approval = worker'[u].approval => v = u
    BY <2>2 DEF Gate, Exclusive
  <2>6. OneEffectPerApproval'
    BY <1>0, <2>1, <2>3 DEF Gate, Exclusive, OneEffectPerApproval
  <2> QED
    BY <2>4, <2>5, <2>6 DEF Exclusive
<1> QED
  BY <1>3, <1>4, <1>5, <1>7, <1>8 DEF Gate

\* People decide, and what the gate knows stays true.
LEMMA PeopleStep ==
    ASSUME Gate, [GateNext]_gateVars, UNCHANGED <<worker, spent, trail, effects>>
    PROVE  Gate'
<1>1. TypeOK' /\ Counting' /\ Later
  BY GateAdvances DEF Later
<1>2. \A w \in Workers : Effect(w)' = Effect(w)
  BY DEF Effect
<1>3. Typed'
  BY <1>1 DEF Gate, Typed, Later
<1>4. \A w \in Workers : OnItsWay(worker[w], Effect(w), records', trail')
  BY <1>1, GroundsStay DEF Gate
<1>5. \A e \in effects : Grounded(e, trail') /\ Backing(e, records')
  BY <1>1, GroundsStay DEF Gate
<1>6. Exclusive'
  BY DEF Gate, Exclusive, OneEffectPerApproval, Performing
<1> QED
  BY <1>1, <1>2, <1>3, <1>4, <1>5, <1>6 DEF Gate

\* The gate's invariant is kept by every step.
LEMMA GateStep == Gate /\ [GateNext]_gateVars => Gate'
<1> SUFFICES ASSUME Gate, [GateNext]_gateVars PROVE Gate'
  OBVIOUS
<1>1. ASSUME NEW w \in Workers, NEW call \in Calls, NEW mode \in Modes, Start(w, call, mode)
      PROVE  Gate'
  BY <1>1, IssueStep DEF Start
<1>2. ASSUME NEW w \in Workers, Resume(w) PROVE Gate'
  <2>1. worker[w].call \in Calls /\ worker[w].mode \in Modes \cup {"none"}
    BY <1>2, InFlight DEF Resume, Knowledge
  <2> QED
    BY <1>2, <2>1, IssueStep DEF Resume
<1>3. ASSUME NEW w \in Workers, Crash(w) PROVE Gate'
  BY <1>3, CrashStep
<1>4. ASSUME NEW w \in Workers, Step(w) PROVE Gate'
  <2>1. CASE \E found \in Evidence \cup {Unavailable} :
                GatherEvidence(w, found) \/ EvidenceForEdit(w, found)
    BY <2>1, GatherStep, EditStep
  <2>2. CASE \E advice \in Advice : Weigh(w, advice) \/ Reweigh(w, advice)
    BY <2>2, WeighStep, ReweighStep
  <2>3. CASE Hold(w) \/ Look(w) \/ Redeem(w) \/ Perform(w)
    BY <2>3, HoldStep, LookStep, RedeemStep, PerformStep
  <2>4. CASE TurnDown(w)
    <3>1. PICK reached \in {"refused", "error"} : Reaches(w, reached)
      BY <2>4 DEF TurnDown, ConsumeThen
    <3>2. worker[w].stage # "idle" /\ effects' = effects /\ spent' = spent /\ trail' = trail
      BY <2>4 DEF TurnDown, ConsumeThen
    <3> QED
      BY <3>1, <3>2, StopStep DEF Stages, Ended, Gate, Typed
  <2>5. CASE PerformFails(w)
    <3>1. /\ worker[w].stage # "idle" /\ effects' = effects /\ spent' = spent /\ trail' = trail
          /\ Reaches(w, "failed")
      BY <2>5 DEF PerformFails
    <3> QED
      BY <3>1, StopStep DEF Stages, Ended, Gate, Typed
  <2>6. CASE Spend(w)
    <3>1. /\ worker[w].stage # "idle" /\ effects' = effects /\ trail' = trail
          /\ Reaches(w, "done") /\ spent' = spent + ActionNow(w).cost
      BY <2>6 DEF Spend
    <3>2. spent' \in Nat
      BY <3>1, InFlight
    <3> QED
      BY <3>1, <3>2, StopStep DEF Stages, Ended, Gate, Typed
  <2> QED
    BY <1>4, <2>1, <2>2, <2>3, <2>4, <2>5, <2>6 DEF Step
<1>5. ASSUME People \/ UNCHANGED gateVars PROVE Gate'
  BY <1>5, PeopleStep DEF People, gateVars
<1> QED
  BY <1>1, <1>2, <1>3, <1>4, <1>5 DEF GateNext

\* The invariant holds from the start.
LEMMA GateStarts == GateInit => Gate
<1> SUFFICES ASSUME GateInit PROVE Gate
  OBVIOUS
<1>1. TypeOK
  BY AuthorityAssumption DEF GateInit, Init, TypeOK, Times
<1>2. Counting
  <2>1. DOMAIN records = {}
    BY DEF GateInit, Init
  <2> QED
    BY <2>1, FS_EmptySet DEF Counting
<1>3. Fresh \in Knowledge /\ Fresh.stage = "idle" /\ Fresh.approval = NoApproval
  BY GateAssumption DEF Fresh, Knowledge, Stages, Arguments, Evident, Outcomes
<1>4. \A w \in Workers : worker[w] = Fresh
  BY DEF GateInit
<1>5. Typed
  BY <1>3, <1>4 DEF GateInit, Typed
<1>6. \A w \in Workers : OnItsWay(worker[w], Effect(w), records, trail)
  BY <1>3, <1>4 DEF OnItsWay
<1>7. Exclusive
  BY <1>3, <1>4 DEF GateInit, Exclusive, Performing, OneEffectPerApproval
<1> QED
  BY <1>1, <1>2, <1>5, <1>6, <1>7 DEF Gate, GateInit

(***************************************************************************)
(* Theorems                                                                *)
(***************************************************************************)

\* What the gate is known to have at every stage, and what every effect rests on,
\* holds throughout.
THEOREM GateInvariant == GateSpec => []Gate
<1> QED
  BY GateStarts, GateStep, PTL DEF GateSpec

\* The gate's variables keep their types, and a call acts only on records the
\* store has.
THEOREM GateTypeCorrect == GateSpec => []GateTypeOK
<1>1. Gate => GateTypeOK
  BY DEF Gate, Typed, Knowledge, Grounded, GateTypeOK
<1> QED
  BY <1>1, GateInvariant, PTL

\* No approval is redeemed for two side effects, however many workers hold its id,
\* crash and are resumed.
THEOREM OneEffectCorrect == GateSpec => []OneEffectPerApproval
<1>1. Gate => OneEffectPerApproval
  BY DEF Gate, Exclusive
<1> QED
  BY <1>1, GateInvariant, PTL

\* A held call runs only on a spent approval of that call, with the arguments its
\* approver gave it.
THEOREM HeldEffectsCorrect == GateSpec => []HeldEffectsWereApproved
<1>1. Gate => HeldEffectsWereApproved
  BY DEF Gate, Backing, HeldEffectsWereApproved
<1> QED
  BY <1>1, GateInvariant, PTL

\* What ran had evidence about the arguments it ran with, and nobody approves past
\* a denial.
THEOREM NothingDeniedCorrect == GateSpec => []NothingDeniedRuns
<1>1. Gate => NothingDeniedRuns
  BY DEF Gate, Grounded, NothingDeniedRuns
<1> QED
  BY <1>1, GateInvariant, PTL

\* Before an effect happened, the decision that admits it was written down.
THEOREM AuditCorrect == GateSpec => []EffectsAreAudited
<1>1. Gate => EffectsAreAudited
  BY DEF Gate, Grounded, EffectsAreAudited
<1> QED
  BY <1>1, GateInvariant, PTL

\* To the people who decide, the gate is one more user of the approval store:
\* what is proved of every behaviour of the store is true under the gate.
THEOREM GateUsesTheStore == GateSpec => Spec
<1>1. GateInit => Init
  BY DEF GateInit
<1>2. Gate /\ [GateNext]_gateVars => [Next]_vars
  BY GateStepsTheStore
<1> QED
  BY <1>1, <1>2, GateInvariant, PTL DEF GateSpec, Spec

\* So an approval that lets a call through has the quorum behind it, no requester's
\* own decision among it, and one set of arguments.
COROLLARY ApprovalsUnderTheGate ==
    GateSpec => [](InstalledInTimeIsEnforced /\ NoSelfDealing /\ ApprovedTogether)
<1> QED
  BY GateUsesTheStore, InstalledInTimeCorrect, SeparationOfDuties, ArgumentsCorrect, PTL

(***************************************************************************)
(* The promise of a held call                                              *)
(***************************************************************************)

Permits == {worker[w].approval : w \in Performing}
Ran(id) == Cardinality({e \in effects : e.approval = id})

\* A step that changes no status, no permit and no effect changes nothing that was
\* promised.
LEMMA NothingPromised ==
    ASSUME records' = records, effects' = effects, Permits' = Permits
    PROVE  UNCHANGED Held!heldVars
<1>1. \A id \in Ids : Stage(id)' = Stage(id)
  BY DEF Stage
<1> QED
  BY <1>1 DEF Held!heldVars, Permits

HasPermit(k) == k.stage = "perform" /\ k.approval # NoApproval

\* A worker that neither gets nor had a permit changes none.
LEMMA PermitsStay ==
    ASSUME Gate, NEW w \in Workers, NEW k, Goes(w, k), ~HasPermit(worker[w]), ~HasPermit(k)
    PROVE  Performing' = Performing /\ Permits' = Permits
<1>1. /\ worker'[w] = k
      /\ \A v \in Workers : v # w => worker'[v] = worker[v]
  BY DEF Goes, Gate, Typed
<1>2. Performing' = Performing
  BY <1>1 DEF Performing, HasPermit
<1>3. w \notin Performing
  BY DEF Performing, HasPermit
<1> QED
  BY <1>1, <1>2, <1>3 DEF Permits, Performing

\* A worker that had a permit and has it no more takes it away from nobody else.
LEMMA PermitLeaves ==
    ASSUME Gate, NEW w \in Workers, NEW k, Goes(w, k), HasPermit(worker[w]), ~HasPermit(k)
    PROVE  /\ worker[w].approval \in Permits /\ worker[w].approval \in Ids
           /\ Permits' = Permits \ {worker[w].approval}
<1>1. /\ worker'[w] = k
      /\ \A v \in Workers : v # w => worker'[v] = worker[v]
  BY DEF Goes, Gate, Typed
<1>2. w \in Performing /\ Performing' = Performing \ {w}
  BY <1>1 DEF Performing, HasPermit
<1>3. \A v \in Performing : v # w => worker[v].approval # worker[w].approval
  BY <1>2 DEF Gate, Exclusive
<1>4. worker[w].approval \in Ids
  BY DEF Gate, Typed, Knowledge, HasPermit
<1> QED
  BY <1>1, <1>2, <1>3, <1>4 DEF Permits, Performing

\* A worker that gets a permit adds its approval to them.
LEMMA PermitComes ==
    ASSUME Gate, NEW w \in Workers, NEW k, Goes(w, k), ~HasPermit(worker[w]), HasPermit(k)
    PROVE  Permits' = Permits \cup {k.approval}
<1>1. /\ worker'[w] = k
      /\ \A v \in Workers : v # w => worker'[v] = worker[v]
  BY DEF Goes, Gate, Typed
<1>2. w \notin Performing /\ Performing' = Performing \cup {w}
  BY <1>1 DEF Performing, HasPermit
<1> QED
  BY <1>1, <1>2 DEF Permits, Performing

\* The stage of each status, one by one.
LEMMA StageOfEach ==
    /\ StageOf["pending"] = "open" /\ StageOf["approved"] = "granted"
    /\ StageOf["denied"] = "refused" /\ StageOf["consumed"] = "closed"
  BY DEF StageOf

\* What becomes of a record is what becomes of its approval, and of no other.
LEMMA StageMoves ==
    ASSUME TypeOK, NEW id \in DOMAIN records, NEW new,
           records' = [records EXCEPT ![id] = new]
    PROVE  /\ id \in Ids
           /\ Stage(id)' = StageOf[new.status]
           /\ \A i \in Ids : i # id => Stage(i)' = Stage(i)
<1>1. DOMAIN records' = DOMAIN records /\ records'[id] = new
  BY DEF TypeOK
<1>2. \A i \in Ids : i # id => Stage(i)' = Stage(i)
  BY <1>1 DEF Stage
<1>3. Stage(id)' = StageOf[new.status]
  BY <1>1 DEF Stage
<1> QED
  BY <1>2, <1>3 DEF TypeOK

\* A permit that a crash or a failing tool takes along is lost.
LEMMA LosingStep ==
    ASSUME Gate, NEW w \in Workers, NEW k, Goes(w, k), HasPermit(worker[w]), ~HasPermit(k),
           records' = records, effects' = effects
    PROVE  \E id \in Ids : Held!Lose(id)
<1>1. PICK id \in Ids : id = worker[w].approval /\ id \in Permits /\ Permits' = Permits \ {id}
  BY PermitLeaves
<1>2. \A i \in Ids : Stage(i)' = Stage(i)
  BY DEF Stage
<1>3. Held!Lose(id)
  BY <1>1, <1>2 DEF Held!Lose, Permits
<1> QED
  BY <1>3

\* The run a permit is for uses it up, and is the first on its approval.
LEMMA RunningStep ==
    ASSUME Gate, NEW w \in Workers, Perform(w)
    PROVE  [Held!HeldNext]_Held!heldVars
<1> DEFINE k == [worker[w] EXCEPT !.stage = "spend"]
<1>1. /\ worker[w].stage = "perform" /\ Goes(w, k) /\ records' = records
      /\ effects' = effects \cup {Effect(w)} /\ Effect(w).approval = worker[w].approval
  BY DEF Perform, Reaches, StoreUnchanged, Effect
<1>2. ~HasPermit(k)
  BY <1>1, InFlight DEF HasPermit, Knowledge
<1>3. \A i \in Ids : Stage(i)' = Stage(i)
  BY <1>1 DEF Stage
<1>4. \A i \in Ids : i # worker[w].approval => Ran(i)' = Ran(i)
  <2> SUFFICES ASSUME NEW i \in Ids, i # worker[w].approval PROVE Ran(i)' = Ran(i)
    OBVIOUS
  <2>1. {e \in effects' : e.approval = i} = {e \in effects : e.approval = i}
    BY <1>1
  <2> QED
    BY <2>1 DEF Ran
<1> HIDE DEF k
<1>5. CASE HasPermit(worker[w])
  <2>1. PICK id \in Ids : id = worker[w].approval /\ id \in Permits /\ Permits' = Permits \ {id}
    BY <1>1, <1>2, <1>5, PermitLeaves
  <2>2. Ran(id) = 0 /\ Ran(id)' = 1
    <3>1. w \in Performing
      BY <1>5 DEF Performing, HasPermit
    <3>2. {e \in effects : e.approval = id} = {}
      BY <2>1, <3>1 DEF Gate, Exclusive
    <3>3. {e \in effects' : e.approval = id} = {Effect(w)}
      BY <1>1, <2>1, <3>2
    <3> QED
      BY <3>2, <3>3, FS_EmptySet, FS_Singleton DEF Ran
  <2>3. [i \in Ids |-> Ran(i)]' = [[i \in Ids |-> Ran(i)] EXCEPT ![id] = @ + 1]
    BY <1>4, <2>1, <2>2
  <2>4. [i \in Ids |-> Stage(i)]' = [i \in Ids |-> Stage(i)]
    BY <1>3
  <2>5. Held!Run(id)
    BY <2>1, <2>3, <2>4 DEF Held!Run, Permits, Ran
  <2> QED
    BY <2>5 DEF Held!HeldNext
<1>6. CASE ~HasPermit(worker[w])
  <2>1. Permits' = Permits
    BY <1>1, <1>2, <1>6, PermitsStay
  <2>2. worker[w].approval \notin Ids
    BY <1>1, <1>6, NoApprovalIsNoId DEF HasPermit
  <2>3. \A i \in Ids : Ran(i)' = Ran(i)
    BY <1>4, <2>2
  <2> QED
    BY <1>3, <2>1, <2>3 DEF Held!heldVars, Permits, Ran
<1> QED
  BY <1>5, <1>6

\* A step that changes one record, no permit and no effect moves one approval.
LEMMA OneStageMoves ==
    ASSUME NEW id \in Ids, NEW to, Stage(id)' = to,
           \A i \in Ids : i # id => Stage(i)' = Stage(i)
    PROVE  [i \in Ids |-> Stage(i)]' = [[i \in Ids |-> Stage(i)] EXCEPT ![id] = to]
  OBVIOUS

\* Redeeming an approved record gives a permit and closes it; turning a call down
\* closes it; a record that somebody else consumed first stays closed.
LEMMA ConsumingStep ==
    ASSUME Gate, NEW w \in Workers,
           \/ worker[w].stage = "redeem" /\ ConsumeThen(w, "perform")
           \/ worker[w].stage \in {"turn down", "void"} /\ ConsumeThen(w, "refused")
    PROVE  [Held!HeldNext]_Held!heldVars
<1>0. /\ worker[w].stage \in {"redeem", "turn down", "void"} /\ worker[w] \in Knowledge
      /\ effects' = effects /\ ~HasPermit(worker[w])
  BY InFlight DEF ConsumeThen, HasPermit
<1>1. CASE ~Consumable(records, worker[w].approval)
  <2> DEFINE k == [worker[w] EXCEPT !.stage = "error"]
  <2>1. Goes(w, k) /\ records' = records
    BY <1>1 DEF ConsumeThen, Reaches
  <2>2. ~HasPermit(k)
    BY <1>0 DEF HasPermit, Knowledge
  <2> HIDE DEF k
  <2>3. Permits' = Permits
    BY <1>0, <2>1, <2>2, PermitsStay
  <2> QED
    BY <1>0, <2>1, <2>3, NothingPromised
<1>2. CASE Consumable(records, worker[w].approval)
  <2>1. PICK id \in DOMAIN records : id = worker[w].approval
    BY <1>2 DEF Consumable
  <2>2. /\ records' = [records EXCEPT ![id] = Consumed(records[id])]
        /\ records[id].status \in {"approved", "denied"} /\ records[id] \in ApprovalRecord
        /\ records[id].status = records[id].verdict
    BY <1>2, <2>1 DEF ConsumeThen, Consumable, Gate, TypeOK
  <2>3. Consumed(records[id]).status = "consumed"
    BY <2>2 DEF Consumed, ApprovalRecord
  <2>4. /\ id \in Ids /\ Stage(id)' = "closed"
        /\ \A i \in Ids : i # id => Stage(i)' = Stage(i)
    <3>1. TypeOK
      BY DEF Gate
    <3>2. /\ id \in Ids /\ Stage(id)' = StageOf[Consumed(records[id]).status]
          /\ \A i \in Ids : i # id => Stage(i)' = Stage(i)
      BY <2>2, <3>1, StageMoves
    <3> QED
      BY <2>3, <3>2, StageOfEach
  <2>5. Stage(id) = IF records[id].status = "approved" THEN "granted" ELSE "refused"
    BY <2>2, StageOfEach DEF Stage
  <2>6. [i \in Ids |-> Stage(i)]' = [[i \in Ids |-> Stage(i)] EXCEPT ![id] = "closed"]
    BY <2>4, OneStageMoves
  <2>7. [i \in Ids |-> Ran(i)]' = [i \in Ids |-> Ran(i)]
    BY <1>0 DEF Ran
  <2>8. CASE worker[w].stage = "redeem"
    <3> DEFINE k == [worker[w] EXCEPT !.stage = "perform"]
    <3>1. Goes(w, k)
      BY <1>2, <2>8 DEF ConsumeThen, Reaches
    <3>2. HasPermit(k) /\ k.approval = id
      BY <1>0, <2>1, <2>4, NoApprovalIsNoId DEF HasPermit, Knowledge
    <3> HIDE DEF k
    <3>3. Permits' = Permits \cup {id}
      BY <1>0, <3>1, <3>2, PermitComes
    <3>4. records[id].status = "approved"
      BY <2>1, <2>2, <2>8, InFlight DEF OnItsWay
    <3>5. Held!RedeemApproval(id)
      BY <2>4, <2>5, <2>6, <2>7, <3>3, <3>4 DEF Held!RedeemApproval, Held!Moves, Permits, Ran
    <3> QED
      BY <2>4, <3>5 DEF Held!HeldNext
  <2>9. CASE worker[w].stage # "redeem"
    <3> DEFINE k == [worker[w] EXCEPT !.stage = "refused"]
    <3>1. Goes(w, k)
      BY <1>2, <2>9 DEF ConsumeThen, Reaches
    <3>2. ~HasPermit(k)
      BY <1>0 DEF HasPermit, Knowledge
    <3> HIDE DEF k
    <3>3. Permits' = Permits
      BY <1>0, <3>1, <3>2, PermitsStay
    <3>4. Held!Close(id)
      BY <2>2, <2>4, <2>5, <2>6, <2>7, <3>3 DEF Held!Close, Held!Moves, Permits, Ran
    <3> QED
      BY <2>4, <3>4 DEF Held!HeldNext
  <2> QED
    BY <2>8, <2>9
<1> QED
  BY <1>1, <1>2

\* Holding a call opens its approval, unless it has a live one.
LEMMA HoldingStep ==
    ASSUME Gate, NEW w \in Workers, Hold(w)
    PROVE  [Held!HeldNext]_Held!heldVars
<1>1. worker[w].stage = "hold" /\ worker[w] \in Knowledge /\ worker[w].call \in Calls
      /\ effects' = effects /\ ~HasPermit(worker[w])
  BY InFlight DEF Hold, HasPermit
<1>2. PICK k : Goes(w, k) /\ ~HasPermit(k)
  <2>1. \A reached \in {"look", "refused"} : \A id :
           ~HasPermit([worker[w] EXCEPT !.stage = reached, !.approval = id])
    BY <1>1 DEF HasPermit, Knowledge
  <2>2. ~HasPermit([worker[w] EXCEPT !.stage = "refused"])
    BY <1>1 DEF HasPermit, Knowledge
  <2> QED
    BY <2>1, <2>2 DEF Hold, Reaches
<1>3. Permits' = Permits
  BY <1>1, <1>2, PermitsStay
<1>4. CASE records' = records
  BY <1>1, <1>3, <1>4, NothingPromised
<1>5. CASE /\ CanOpen(records, worker[w].call)
           /\ records' = Submitted(records, worker[w].call, HoldLabels(w))
  <2>1. PICK id \in Ids : id = NextId(records, worker[w].call)
    BY <1>5 DEF CanOpen
  <2>2. id \notin DOMAIN records
    BY <1>1, <2>1, NextIdIsNew DEF Gate
  <2>3. /\ DOMAIN records' = DOMAIN records \cup {id}
        /\ records'[id].status = "pending"
        /\ \A i \in DOMAIN records : records'[i] = records[i]
    BY <1>5, <2>1, <2>2 DEF Submitted, Put, NewRecord
  <2>4. /\ Stage(id) = "absent" /\ Stage(id)' = "open"
        /\ \A i \in Ids : i # id => Stage(i)' = Stage(i)
    BY <2>2, <2>3, StageOfEach DEF Stage
  <2>5. [i \in Ids |-> Stage(i)]' = [[i \in Ids |-> Stage(i)] EXCEPT ![id] = "open"]
    BY <2>4, OneStageMoves
  <2>6. [i \in Ids |-> Ran(i)]' = [i \in Ids |-> Ran(i)]
    BY <1>1 DEF Ran
  <2>7. Held!Open(id)
    BY <1>3, <2>4, <2>5, <2>6 DEF Held!Open, Held!Moves, Permits, Ran
  <2> QED
    BY <2>7 DEF Held!HeldNext
<1> QED
  BY <1>4, <1>5 DEF Hold

\* A person's decision answers an open approval, or leaves it open.
LEMMA AnsweringStep ==
    ASSUME Gate, NEW id \in DOMAIN records, Decide(id), UNCHANGED <<worker, effects>>
    PROVE  [Held!HeldNext]_Held!heldVars
<1>1. PICK new : Outcome(id, records[id], new) /\ Become(id, new)
  BY DecisionOutcome DEF Gate
<1>2. records[id].status = "pending" /\ records[id] \in ApprovalRecord
  BY DecisionOutcome DEF Gate, TypeOK
<1>3. new.status \in {"pending", "approved", "denied"}
  BY <1>1, <1>2, StatusOfOutcome
<1>4. /\ id \in Ids /\ Stage(id)' = StageOf[new.status]
      /\ \A i \in Ids : i # id => Stage(i)' = Stage(i)
  BY <1>1, StageMoves DEF Become, Gate
<1>5. Stage(id) = "open"
  BY <1>2, StageOfEach DEF Stage
<1>6. Permits' = Permits /\ [i \in Ids |-> Ran(i)]' = [i \in Ids |-> Ran(i)]
  BY DEF Permits, Performing, Ran
<1>7. CASE new.status = "pending"
  <2>1. Stage(id)' = "open"
    BY <1>4, <1>7, StageOfEach
  <2>2. [i \in Ids |-> Stage(i)]' = [i \in Ids |-> Stage(i)]
    BY <1>4, <1>5, <2>1
  <2> QED
    BY <1>6, <2>2 DEF Held!heldVars, Permits, Ran
<1>8. CASE new.status # "pending"
  <2>1. PICK to \in {"granted", "refused"} : Stage(id)' = to
    BY <1>3, <1>4, <1>8, StageOfEach
  <2>2. [i \in Ids |-> Stage(i)]' = [[i \in Ids |-> Stage(i)] EXCEPT ![id] = to]
    BY <1>4, <2>1, OneStageMoves
  <2>3. Held!Answer(id)
    BY <1>4, <1>5, <1>6, <2>1, <2>2 DEF Held!Answer, Held!Moves, Permits, Ran
  <2> QED
    BY <1>4, <2>3 DEF Held!HeldNext
<1> QED
  BY <1>7, <1>8

\* What a worker does with itself promises nothing, but for a permit it loses.
LEMMA WorkerAloneStep ==
    ASSUME Gate, NEW w \in Workers, NEW k, Goes(w, k), ~HasPermit(k),
           records' = records, effects' = effects
    PROVE  [Held!HeldNext]_Held!heldVars
<1>1. CASE HasPermit(worker[w])
  BY <1>1, LosingStep DEF Held!HeldNext
<1>2. CASE ~HasPermit(worker[w])
  BY <1>2, PermitsStay, NothingPromised
<1> QED
  BY <1>1, <1>2

\* Such are all steps of a worker but those that hold, redeem, turn down or perform:
\* an allowed call is performed with no permit, since it needs none.
LEMMA AloneStep ==
    ASSUME Gate, NEW w \in Workers,
           \/ \E call, mode : Issue(w, call, mode)
           \/ Crash(w) \/ PerformFails(w) \/ Spend(w) \/ Look(w)
           \/ \E found : GatherEvidence(w, found) \/ EvidenceForEdit(w, found)
           \/ \E advice : Weigh(w, advice) \/ Reweigh(w, advice)
    PROVE  [Held!HeldNext]_Held!heldVars
<1>1. records' = records /\ effects' = effects
  BY DEF Issue, Crash, PerformFails, Spend, Look, GatherEvidence, EvidenceForEdit, Weigh,
         Reweigh, StoreUnchanged
<1>2. worker[w] \in Knowledge
  BY DEF Gate, Typed
<1>3. \A reached, arguments, verdict, about, outcome : reached # "perform" =>
         /\ ~HasPermit([worker[w] EXCEPT !.stage = reached])
         /\ ~HasPermit([worker[w] EXCEPT !.stage = reached, !.verdict = verdict])
         /\ ~HasPermit([worker[w] EXCEPT !.stage = reached, !.verdict = verdict,
                                         !.verdict_for = about])
         /\ ~HasPermit([worker[w] EXCEPT !.arguments = arguments, !.stage = reached])
         /\ ~HasPermit([worker[w] EXCEPT !.outcome = outcome, !.stage = reached])
  BY <1>2 DEF HasPermit, Knowledge
<1>4. CASE \E call, mode : Issue(w, call, mode)
  <2>1. PICK call, mode : Issue(w, call, mode)
    BY <1>4
  <2> DEFINE k == [Fresh EXCEPT !.stage = "evidence", !.call = call, !.mode = mode,
                                !.calls = worker[w].calls + 1]
  <2>2. Goes(w, k) /\ ~HasPermit(k)
    BY <2>1 DEF Issue, Fresh, HasPermit
  <2> QED
    BY <1>1, <2>2, WorkerAloneStep
<1>5. CASE Crash(w)
  <2> DEFINE k == [Fresh EXCEPT !.stage = "paused", !.call = worker[w].call,
                                !.mode = worker[w].mode, !.calls = worker[w].calls]
  <2>1. Goes(w, k) /\ ~HasPermit(k)
    BY <1>5 DEF Crash, Fresh, HasPermit
  <2> QED
    BY <1>1, <2>1, WorkerAloneStep
<1>6. CASE PerformFails(w) \/ Spend(w)
  <2>1. PICK reached \in {"failed", "done"} : Goes(w, [worker[w] EXCEPT !.stage = reached])
    BY <1>6 DEF PerformFails, Spend, Reaches
  <2> QED
    BY <1>1, <1>3, <2>1, WorkerAloneStep
<1>7. CASE Look(w)
  <2>1. PICK k : Goes(w, k) /\ ~HasPermit(k)
    BY <1>3, <1>7 DEF Look, Reaches
  <2> QED
    BY <1>1, <2>1, WorkerAloneStep
<1>8. CASE \E found : GatherEvidence(w, found) \/ EvidenceForEdit(w, found)
  <2>1. PICK k : Goes(w, k) /\ ~HasPermit(k)
    BY <1>3, <1>8 DEF GatherEvidence, EvidenceForEdit, Reaches
  <2> QED
    BY <1>1, <2>1, WorkerAloneStep
<1>9. CASE \E advice : Reweigh(w, advice)
  <2>1. PICK k : Goes(w, k) /\ ~HasPermit(k)
    BY <1>3, <1>9 DEF Reweigh
  <2> QED
    BY <1>1, <2>1, WorkerAloneStep
<1>10. CASE \E advice : Weigh(w, advice)
  <2>1. PICK outcome, reached : Goes(w, [worker[w] EXCEPT !.stage = reached, !.outcome = outcome])
    BY <1>10 DEF Weigh
  <2>2. worker[w].approval = NoApproval
    BY <1>10, InFlight DEF Weigh, OnItsWay
  <2>3. ~HasPermit([worker[w] EXCEPT !.stage = reached, !.outcome = outcome])
    BY <1>2, <2>2 DEF HasPermit, Knowledge
  <2> QED
    BY <1>1, <2>1, <2>3, WorkerAloneStep
<1> QED
  BY <1>4, <1>5, <1>6, <1>7, <1>8, <1>9, <1>10

\* Every step of the gate is a step of the promise, or promises nothing new.
LEMMA PromiseStep == Gate /\ [GateNext]_gateVars => [Held!HeldNext]_Held!heldVars
<1> SUFFICES ASSUME Gate, [GateNext]_gateVars PROVE [Held!HeldNext]_Held!heldVars
  OBVIOUS
<1>1. ASSUME NEW w \in Workers, NEW call \in Calls, NEW mode \in Modes, Start(w, call, mode)
      PROVE  [Held!HeldNext]_Held!heldVars
  BY <1>1, AloneStep DEF Start
<1>2. ASSUME NEW w \in Workers, Resume(w) \/ Crash(w)
      PROVE  [Held!HeldNext]_Held!heldVars
  BY <1>2, AloneStep DEF Resume
<1>3. ASSUME NEW w \in Workers, Step(w)
      PROVE  [Held!HeldNext]_Held!heldVars
  <2>1. CASE Redeem(w) \/ TurnDown(w)
    BY <2>1, ConsumingStep DEF Redeem, TurnDown
  <2>2. CASE Hold(w) \/ Perform(w)
    BY <2>2, HoldingStep, RunningStep
  <2>3. CASE \/ PerformFails(w) \/ Spend(w) \/ Look(w)
             \/ \E found : GatherEvidence(w, found) \/ EvidenceForEdit(w, found)
             \/ \E advice : Weigh(w, advice) \/ Reweigh(w, advice)
    BY <2>3, AloneStep
  <2> QED
    BY <1>3, <2>1, <2>2, <2>3 DEF Step
<1>4. CASE People
  BY <1>4, AnsweringStep DEF People
<1>5. CASE UNCHANGED gateVars
  <2>1. Permits' = Permits
    BY <1>5 DEF gateVars, Permits, Performing
  <2> QED
    BY <1>5, <2>1, NothingPromised DEF gateVars
<1> QED
  BY <1>1, <1>2, <1>3, <1>4, <1>5 DEF GateNext

\* The gate keeps the promise of a held call: for every policy, however many
\* workers hold an approval's id, and wherever they crash.
THEOREM PromiseKept == GateSpec => KeepsThePromise
<1>1. GateInit => Held!HeldInit
  <2> SUFFICES ASSUME GateInit PROVE Held!HeldInit
    OBVIOUS
  <2>1. DOMAIN records = {}
    BY DEF GateInit, Init
  <2>2. \A id \in Ids : Stage(id) = "absent"
    BY <2>1 DEF Stage
  <2>3. Performing = {}
    BY DEF GateInit, Performing, Fresh
  <2>4. \A id : {e \in effects : e.approval = id} = {}
    BY DEF GateInit
  <2>5. \A id : Ran(id) = 0
    BY <2>4, FS_EmptySet DEF Ran
  <2> QED
    BY <2>2, <2>3, <2>5 DEF Held!HeldInit, Ran
<1> QED
  BY <1>1, PromiseStep, GateInvariant, PTL DEF GateSpec, KeepsThePromise, Held!HeldSpec

(***************************************************************************)
(* What the gate implements                                                *)
(***************************************************************************)

\* A permit is for a closed approval whose call has not run, and what has run
\* has run once, on an approval that is closed for good.
Promise ==
    /\ stage \in [Approvals -> {"absent", "open", "granted", "refused", "closed"}]
    /\ ran \in [Approvals -> {0, 1}]
    /\ permits \subseteq Approvals
    /\ \A a \in permits : stage[a] = "closed" /\ ran[a] = 0
    /\ \A a \in Approvals : ran[a] = 1 => stage[a] = "closed"

\* No approval's call runs twice on it, whoever loses a permit and whenever.
THEOREM RunsAtMostOnce == HeldSpec => []AtMostOnce
<1>1. HeldInit => Promise
  BY DEF HeldInit, Promise
<1>2. Promise /\ [HeldNext]_heldVars => Promise'
  <2> SUFFICES ASSUME Promise, [HeldNext]_heldVars PROVE Promise'
    OBVIOUS
  <2> USE DEF Promise
  <2>1. ASSUME NEW a \in Approvals, Open(a) PROVE Promise'
    BY <2>1 DEF Open, Moves
  <2>2. ASSUME NEW a \in Approvals, Answer(a) PROVE Promise'
    BY <2>2 DEF Answer, Moves
  <2>3. ASSUME NEW a \in Approvals, Close(a) PROVE Promise'
    BY <2>3 DEF Close, Moves
  <2>4. ASSUME NEW a \in Approvals, RedeemApproval(a) PROVE Promise'
    BY <2>4 DEF RedeemApproval, Moves
  <2>5. ASSUME NEW a \in Approvals, Run(a) PROVE Promise'
    BY <2>5 DEF Run
  <2>6. ASSUME NEW a \in Approvals, Lose(a) PROVE Promise'
    BY <2>6 DEF Lose
  <2>7. ASSUME UNCHANGED heldVars PROVE Promise'
    BY <2>7 DEF heldVars
  <2> QED
    BY <2>1, <2>2, <2>3, <2>4, <2>5, <2>6, <2>7 DEF HeldNext
<1>3. Promise => AtMostOnce
  <2> SUFFICES ASSUME Promise, NEW a \in Approvals
               PROVE  ran[a] <= 1 /\ (ran[a] > 0 => stage[a] = "closed" /\ a \notin permits)
    BY DEF AtMostOnce
  <2>1. ran[a] \in {0, 1}
    BY DEF Promise
  <2> QED
    BY <2>1 DEF Promise
<1> QED
  BY <1>1, <1>2, <1>3, PTL DEF HeldSpec
=============================================================================
