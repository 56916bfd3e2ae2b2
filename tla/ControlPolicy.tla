---------------------------- MODULE ControlPolicy ----------------------------
(***************************************************************************)
(* The policy decision of tulip.control.policy: approve() weighs every     *)
(* check and returns the strongest outcome that fired, and a control model *)
(* may then only make it stricter.  Severities, scores and dollars are     *)
(* small numbers here; None is an absent finding, verdict or limit.        *)
(***************************************************************************)
EXTENDS Integers, FiniteSets

CONSTANT None

ASSUME NoneIsNoNumber == None \notin Int

Outcomes == {"allow", "require_human", "deny"}
Order(outcome) == CASE outcome = "allow" -> 0
                    [] outcome = "require_human" -> 1
                    [] outcome = "deny" -> 2

SandboxedTag == "sandboxed"

Above(amount, limit) == limit # None /\ amount > limit

\* The checks that deny: labels, a missing sandbox, a weak finding, a finding
\* that did not survive verification, the scope's spend limit.
Denies(action, policy, finding, verdict, spent) ==
    \/ action.labels \cap policy.deny_for # {}
    \/ action.labels \cap policy.require_sandbox_for # {} /\ SandboxedTag \notin action.labels
    \/ finding # None /\ finding < policy.min_severity
    \/ policy.require_score > 0 /\ verdict # None /\ ~verdict.survives
    \/ Above(spent + action.cost, policy.spend_limit)

\* The checks that hold for a person: verification missing or below the bar,
\* blast radius, the action's own cost, labels.
NeedsHuman(action, policy, verdict) ==
    \/ /\ policy.require_score > 0
       /\ \/ verdict = None
          \/ verdict.survives /\ verdict.score < policy.require_score
    \/ action.blast_radius > policy.max_blast_radius
    \/ Above(action.cost, policy.human_over)
    \/ action.labels \cap policy.require_human_for # {}

PolicyOutcome(action, policy, finding, verdict, spent) ==
    IF Denies(action, policy, finding, verdict, spent) THEN "deny"
    ELSE IF NeedsHuman(action, policy, verdict) THEN "require_human"
    ELSE "allow"

\* _combine: only an allow is put to the advisor, only an outcome is an opinion,
\* and only a stricter one counts.  "failed" is an advisor that raised.
Combine(outcome, advice) ==
    IF outcome = "allow" /\ advice \in Outcomes THEN advice ELSE outcome

Decision(action, policy, finding, verdict, advice, spent) ==
    Combine(PolicyOutcome(action, policy, finding, verdict, spent), advice)

=============================================================================
