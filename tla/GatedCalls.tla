----------------------------- MODULE GatedCalls -----------------------------
(***************************************************************************)
(* gate_tool over admit(), an approval store, a spend ledger and an audit  *)
(* trail: workers that make the same gated calls at the same time, pause   *)
(* when a call is held, are resumed, and crash anywhere in between.        *)
(*                                                                         *)
(* A worker's step is the code between two of its awaits or between two    *)
(* lock-protected calls to the store, the ledger or the trail; the trail   *)
(* entry of a decision is written in the step that decides.  What survives *)
(* a crash is the store, the ledger, the trail and what was done.  An      *)
(* operator named Mut... is a wrong variant of the one after it, which the *)
(* properties are tried against.                                           *)
(***************************************************************************)
EXTENDS Approvals, ControlPolicy

CONSTANTS
    Workers,     \* concurrent tool calls: parallel calls of a turn, or agents
    Modes,       \* on_refusal of the gates around the tool: "return", "raise", "interrupt"
    Policy,      \* the ControlPolicy
    ActionOf,    \* resolve_action, per call and arguments
    Evidence,    \* what the verdict callable may return
    Unavailable, \* it raised
    Advice,      \* what the control model may say
    MaxCalls     \* bound: times a worker makes or re-issues a call

ASSUME GateAssumption ==
    /\ Modes \subseteq {"return", "raise", "interrupt"}
    /\ MaxCalls \in Nat
    /\ Unavailable \notin Evidence
    /\ ActionOf \in [Calls \X Arguments -> [labels: LabelSets, blast_radius: Int, cost: Nat]]
    /\ "return" \in Modes => {} \in LabelSets
    /\ Policy.spend_limit \in Int \cup {None}

VARIABLES
    worker,   \* per worker: where its call is, and what it knows
    spent,    \* the ledger's total for the scope
    trail,    \* audit entries, each with the worker and the call it was written in
    effects   \* history: side effects that happened, and on what grounds

gateVars == <<records, installed, now, worker, spent, trail, effects>>

NoApproval == [call |-> "none", generation |-> 0]

Stages == {"idle", "evidence", "weigh", "perform", "spend", "hold", "look", "turn down",
           "edit", "reweigh", "void", "redeem",
           "done", "refused", "paused", "failed", "error"}
Kinds == {"action-admission", "approval-requested", "approval-decision", "approval-edited"}
Ended == {"done", "refused", "paused", "failed", "error"}

\* call: the call; arguments: those it would run with; verdict: the evidence at
\* hand and the arguments it is about; approval: the record it acts on.
Fresh == [stage |-> "idle", mode |-> "none", call |-> "none", arguments |-> NoEdit,
          verdict |-> None, verdict_for |-> NoEdit, approval |-> NoApproval, outcome |-> "allow", calls |-> 0]

Evident == Evidence \cup {None}
TrailEntry == [worker: Workers, nth: 1 .. MaxCalls, kind: Kinds, arguments: Arguments,
               outcome: Outcomes \cup Statuses, approval: Ids \cup {NoApproval}]
EffectEntry == [worker: Workers, nth: 1 .. MaxCalls, call: Calls, arguments: Arguments,
                approval: Ids \cup {NoApproval}, outcome: Outcomes,
                verdict: Evident, verdict_for: Arguments]

\* Calls, what they know and what they left behind have their types, and a call
\* acts only on a record the store has.
GateTypeOK ==
    /\ TypeOK
    /\ \A w \in Workers :
          /\ worker[w].stage \in Stages /\ worker[w].calls \in 0 .. MaxCalls
          /\ worker[w].approval = NoApproval \/ worker[w].approval \in DOMAIN records
          /\ worker[w].arguments \in Arguments /\ worker[w].outcome \in Outcomes
    /\ spent \in Nat /\ trail \subseteq TrailEntry /\ effects \subseteq EffectEntry

GateInit ==
    /\ Init
    /\ worker = [w \in Workers |-> Fresh]
    /\ spent = 0 /\ trail = {} /\ effects = {}

Goes(w, update) == worker' = [worker EXCEPT ![w] = update]
Reaches(w, stage) == Goes(w, [worker[w] EXCEPT !.stage = stage])

Note(w, kind, outcome, by) ==
    [worker |-> w, nth |-> worker[w].calls, kind |-> kind,
     arguments |-> worker[w].arguments, outcome |-> outcome, approval |-> by]
Admission(w, outcome, by) == Note(w, "action-admission", outcome, by)
Records(entries) == trail' = trail \cup entries

ActionNow(w) == ActionOf[worker[w].call, worker[w].arguments]

StoreUnchanged == UNCHANGED <<records, installed, now>>

Issue(w, call, mode) ==
    /\ worker[w].calls < MaxCalls
    /\ Goes(w, [Fresh EXCEPT !.stage = "evidence", !.call = call, !.mode = mode,
                             !.calls = worker[w].calls + 1])
    /\ StoreUnchanged /\ UNCHANGED <<spent, trail, effects>>

\* The model makes the call.
Start(w, call, mode) ==
    worker[w].stage \in {"idle"} \cup (Ended \ {"paused"}) /\ Issue(w, call, mode)

\* A resumed run re-issues the call it paused or crashed in.
Resume(w) == worker[w].stage = "paused" /\ Issue(w, worker[w].call, worker[w].mode)

\* _evidence_for: worked out for this call; a callable that raises is a deny,
\* recorded like any other, and ends in a refusal.
GatherEvidence(w, found) ==
    /\ worker[w].stage = "evidence"
    /\ \/ /\ found = Unavailable
          /\ Records({Admission(w, "deny", NoApproval)})
          /\ Reaches(w, IF worker[w].mode = "raise" THEN "error" ELSE "refused")
       \/ /\ found # Unavailable
          /\ Goes(w, [worker[w] EXCEPT !.stage = "weigh", !.verdict = found])
          /\ UNCHANGED trail
    /\ StoreUnchanged /\ UNCHANGED <<spent, effects>>

Weighs(w, advice) == Decision(ActionNow(w), Policy, None, worker[w].verdict, advice, spent)

\* Only a refusal is written down.
MutWeigh(w, advice) ==
    /\ worker[w].stage = "weigh"
    /\ LET outcome == Weighs(w, advice)
           stage == IF outcome = "allow" THEN "perform"
                    ELSE IF outcome = "deny" THEN "refused" ELSE "hold"
       IN  /\ Goes(w, [worker[w] EXCEPT !.stage = stage, !.outcome = outcome])
           /\ IF outcome = "allow" THEN UNCHANGED trail
              ELSE Records({Admission(w, outcome, NoApproval)})
    /\ StoreUnchanged /\ UNCHANGED <<spent, effects>>

\* _decide, on the call as requested.
Weigh(w, advice) ==
    /\ worker[w].stage = "weigh"
    /\ LET outcome == Weighs(w, advice)
           stage == IF outcome = "allow" THEN "perform"
                    ELSE IF worker[w].mode = "raise" THEN "error"
                    ELSE IF outcome = "deny" THEN "refused" ELSE "hold"
       IN  /\ Goes(w, [worker[w] EXCEPT !.stage = stage, !.outcome = outcome])
           /\ Records({Admission(w, outcome, NoApproval)})
    /\ StoreUnchanged /\ UNCHANGED <<spent, effects>>

\* A pause submits the action's labels; the "return" refusal submits none.
HoldLabels(w) == IF worker[w].mode = "return" THEN {} ELSE ActionNow(w).labels

\* submit(): the live record of this call, or a new one.  In "return" mode the
\* refusal hands its id to the model and that is all.
Hold(w) ==
    /\ worker[w].stage = "hold"
    /\ LET call == worker[w].call
           live == LiveFor(records, call)
           after == IF worker[w].mode = "return" THEN "refused" ELSE "look"
       IN  \/ /\ live # {}
              /\ \E id \in live :
                    Goes(w, [worker[w] EXCEPT !.stage = after, !.approval = id])
              /\ UNCHANGED records
           \/ /\ CanOpen(records, call)
              /\ records' = Submitted(records, call, HoldLabels(w))
              /\ Goes(w, [worker[w] EXCEPT !.stage = after, !.approval = NextId(records, call)])
           \/ /\ live = {} /\ NextId(records, call) \notin Ids  \* past the bound
              /\ Reaches(w, "refused")
              /\ UNCHANGED records
    /\ UNCHANGED <<installed, now, spent, trail, effects>>

\* The approver's edit is written down and the call as requested runs.
MutLook(w) ==
    /\ worker[w].stage = "look"
    /\ LET record == records[worker[w].approval]
       IN  Reaches(w, CASE record.status = "approved" -> "reweigh"
                        [] record.status = "denied" -> "turn down"
                        [] OTHER -> "paused")
    /\ StoreUnchanged /\ UNCHANGED <<spent, trail, effects>>

\* get(): what the record says now.
Look(w) ==
    /\ worker[w].stage = "look"
    /\ LET id == worker[w].approval
           record == records[id]
           edited == record.approved_arguments # NoEdit
           decision == Note(w, "approval-decision", record.status, id)
       IN  \/ /\ record.status = "approved"
              /\ Records({decision} \cup IF edited
                             THEN {Note(w, "approval-edited", record.status, id)} ELSE {})
              /\ Goes(w, [worker[w] EXCEPT !.arguments = record.approved_arguments,
                                           !.stage = IF edited THEN "edit" ELSE "reweigh"])
           \/ record.status = "denied" /\ Records({decision}) /\ Reaches(w, "turn down")
           \/ /\ record.status \notin {"approved", "denied"}
              /\ Records({Note(w, "approval-requested", worker[w].outcome, id)})
              /\ Reaches(w, "paused")
    /\ StoreUnchanged /\ UNCHANGED <<spent, effects>>

\* An edited call gets its own finding and verdict; a callable that raises is a
\* deny, and the approval is spent on it.
MutEvidenceForEdit(w, found) ==
    /\ worker[w].stage = "edit" /\ found # Unavailable
    /\ Reaches(w, "reweigh")
    /\ StoreUnchanged /\ UNCHANGED <<spent, trail, effects>>

EvidenceForEdit(w, found) ==
    /\ worker[w].stage = "edit"
    /\ \/ /\ found = Unavailable
          /\ Records({Admission(w, "deny", NoApproval)})
          /\ Reaches(w, "void")
       \/ /\ found # Unavailable
          /\ Goes(w, [worker[w] EXCEPT !.stage = "reweigh", !.verdict = found,
                                       !.verdict_for = worker[w].arguments])
          /\ UNCHANGED trail
    /\ StoreUnchanged /\ UNCHANGED <<spent, effects>>

\* _decide with approved_by: the approver stands in for a hold, never for a deny.
Reweigh(w, advice) ==
    /\ worker[w].stage = "reweigh"
    /\ LET outcome == Weighs(w, advice)
       IN  /\ Goes(w, [worker[w] EXCEPT !.outcome = outcome,
                         !.stage = IF outcome = "deny" THEN "void" ELSE "redeem"])
           /\ Records({Admission(w, outcome,
                   IF outcome = "require_human" THEN worker[w].approval ELSE NoApproval)})
    /\ StoreUnchanged /\ UNCHANGED <<spent, effects>>

\* store.consume(), where the second of two callers finds it consumed already and
\* the ValueError leaves the gate.
ConsumeThen(w, stage) ==
    LET id == worker[w].approval
    IN  /\ IF Consumable(records, id)
           THEN /\ records' = [records EXCEPT ![id] = Consumed(@)]
                /\ Reaches(w, stage)
           ELSE Reaches(w, "error") /\ UNCHANGED records
        /\ UNCHANGED <<installed, now, spent, trail, effects>>

MutRedeem(w) ==
    /\ worker[w].stage = "redeem"
    /\ Reaches(w, "perform")
    /\ records' = [records EXCEPT ![worker[w].approval] = Consumed(@)]
    /\ UNCHANGED <<installed, now, spent, trail, effects>>

Redeem(w) == worker[w].stage = "redeem" /\ ConsumeThen(w, "perform")

TurnDown(w) == worker[w].stage \in {"turn down", "void"} /\ ConsumeThen(w, "refused")

Effect(w) == [worker |-> w, nth |-> worker[w].calls, call |-> worker[w].call,
              arguments |-> worker[w].arguments, approval |-> worker[w].approval,
              outcome |-> worker[w].outcome, verdict |-> worker[w].verdict,
              verdict_for |-> worker[w].verdict_for]

Perform(w) ==
    /\ worker[w].stage = "perform"
    /\ effects' = effects \cup {Effect(w)}
    /\ Reaches(w, "spend")
    /\ StoreUnchanged /\ UNCHANGED <<spent, trail>>

\* The tool raises: nothing is spent, and a redeemed approval stays redeemed.
PerformFails(w) ==
    /\ worker[w].stage = "perform"
    /\ Reaches(w, "failed")
    /\ StoreUnchanged /\ UNCHANGED <<spent, trail, effects>>

\* _spend, after the side effect.
Spend(w) ==
    /\ worker[w].stage = "spend"
    /\ spent' = spent + ActionNow(w).cost
    /\ Reaches(w, "done")
    /\ StoreUnchanged /\ UNCHANGED <<trail, effects>>

\* The process dies in the middle of the call; a resumed run re-issues it.
Crash(w) ==
    /\ worker[w].stage \notin Ended \cup {"idle"}
    /\ Goes(w, [Fresh EXCEPT !.stage = "paused", !.call = worker[w].call,
                             !.mode = worker[w].mode, !.calls = worker[w].calls])
    /\ StoreUnchanged /\ UNCHANGED <<spent, trail, effects>>

People ==
    /\ \E id \in DOMAIN records : Decide(id)
    /\ UNCHANGED <<worker, spent, trail, effects>>

Step(w) ==
    \/ \E found \in Evidence \cup {Unavailable} : GatherEvidence(w, found) \/ EvidenceForEdit(w, found)
    \/ \E advice \in Advice : Weigh(w, advice) \/ Reweigh(w, advice)
    \/ Hold(w) \/ Look(w) \/ Redeem(w) \/ TurnDown(w)
    \/ Perform(w) \/ PerformFails(w) \/ Spend(w)

GateNext ==
    \/ \E w \in Workers : \/ \E call \in Calls, mode \in Modes : Start(w, call, mode)
                          \/ Resume(w) \/ Step(w) \/ Crash(w)
    \/ People

GateSpec == GateInit /\ [][GateNext]_gateVars

(***************************************************************************)
(* Properties                                                              *)
(***************************************************************************)

\* "Approved runs the call exactly once": whatever crashes, is re-issued or runs
\* beside it, no approval is redeemed for two side effects (perform_once, which
\* consumes before it performs).
OneEffectPerApproval ==
    \A e, f \in effects : e.approval = f.approval /\ e.approval # NoApproval => e = f

\* A held call runs only on an approval of that call, with the arguments the
\* approver gave it, and leaves the approval spent; without one, only the
\* policy's own allow lets it run.
HeldEffectsWereApproved ==
    \A e \in effects :
        IF e.approval = NoApproval THEN e.outcome = "allow" /\ e.arguments = NoEdit
        ELSE /\ e.approval \in DOMAIN records /\ e.approval.call = e.call
             /\ records[e.approval].verdict = "approved"
             /\ records[e.approval].status = "consumed"
             /\ records[e.approval].approved_arguments = e.arguments

\* Nobody approves past a denial: what ran had evidence about the arguments it
\* ran with, and the policy does not deny them on that evidence.  An approver
\* cannot edit a call into one the policy denies.
NothingDeniedRuns ==
    \A e \in effects :
        /\ e.verdict_for = e.arguments
        /\ ~Denies(ActionOf[e.call, e.arguments], Policy, None, e.verdict, 0)

\* No side effect is un-audited: before it ran, a decision on these arguments
\* that admits it was written: an allow, or a hold naming the approval it ran on.
EffectsAreAudited ==
    \A e \in effects : \E t \in trail :
        /\ t.kind = "action-admission" /\ t.worker = e.worker /\ t.nth = e.nth
        /\ t.arguments = e.arguments
        /\ \/ t.outcome = "allow"
           \/ t.outcome = "require_human" /\ t.approval = e.approval /\ e.approval # NoApproval

\* "Approved runs the call exactly once; denied returns a refusal": a call that
\* was held and then denied by a person is not let through while that denial
\* stands.
DenialsAreHeeded ==
    [][\A w \in Workers :
          worker[w].stage = "weigh" /\ worker'[w].stage = "perform"
              => \A id \in LiveFor(records, worker[w].call) : records[id].status # "denied"
      ]_gateVars

StageOf == [pending |-> "open", approved |-> "granted", denied |-> "refused",
            consumed |-> "closed"]
Stage(id) == IF id \in DOMAIN records THEN StageOf[records[id].status] ELSE "absent"
Performing == {w \in Workers : worker[w].stage = "perform" /\ worker[w].approval # NoApproval}

Held == INSTANCE HeldCall WITH
    Approvals <- Ids,
    stage <- [id \in Ids |-> Stage(id)],
    permits <- {worker[w].approval : w \in Performing},
    ran <- [id \in Ids |-> Cardinality({e \in effects : e.approval = id})]

\* The gate, its workers and their crashes keep the promise of HeldCall: consume()
\* before the call gives one permit, which one run uses up or a crash loses.
KeepsThePromise == Held!HeldSpec

=============================================================================
