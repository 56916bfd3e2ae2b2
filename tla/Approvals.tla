------------------------------ MODULE Approvals ------------------------------
(***************************************************************************)
(* The approval store of tulip.control.approvals: held calls that wait for *)
(* people, the authority that says whose decision counts, and the one use  *)
(* of a decided record.  Every operation of _Approvals runs under one lock *)
(* over one load/save pair, so here each is one atomic step; the module    *)
(* FileApprovals takes the file-backed store apart.                        *)
(*                                                                         *)
(* A call is what call_digest hashes (principal, tool, arguments, context) *)
(* and an approval id is a call with its generation, as in                 *)
(* "appr-<digest>-<n>".  A record's lists of decisions are sets: an entry  *)
(* carries who, when and for which rules, and no decision reads the order. *)
(***************************************************************************)
EXTENDS Naturals, FiniteSets, Sequences

CONSTANTS
    Principals,     \* everybody who may ask or decide
    Roles,          \* what roles_of may return
    Labels,         \* environment, kind and tags of actions
    Calls,          \* held calls, by digest
    RequesterOf,    \* the principal of each call
    LabelSets,      \* the label sets a submit may carry
    Edits,          \* edited arguments with the call's own keys
    NoEdit,         \* decide(arguments=None)
    Rules,          \* ApprovalAuthority.rules
    Delegations,    \* ApprovalAuthority.delegations
    CountOnce,      \* ApprovalAuthority.count_once
    RolesOf,        \* ApprovalAuthority.roles_of; empty sets stand for None
    PerRecord,      \* the store's authority is a callable over records
    MaxGeneration,  \* bound: records opened for one call
    MaxTime         \* bound: ticks of the clock

Verdicts == {"approved", "denied"}
Statuses == {"pending", "approved", "denied", "consumed"}
Live == {"pending", "approved", "denied"}
Times == 0 .. MaxTime

\* __post_init__ refuses a rule with no quorum or nobody to fill it.
ApproverRule == {r \in [labels: SUBSET Labels, approvers: SUBSET Principals,
                        roles: SUBSET Roles, quorum: Nat,
                        allow_self_approval: BOOLEAN] :
                    r.quorum >= 1 /\ r.approvers \cup r.roles # {}}

Delegation == [grantor: Principals, grantee: Principals, labels: SUBSET Labels,
               expires_at: Nat]

ASSUME AuthorityAssumption ==
    /\ IsFiniteSet(Principals)
    /\ RequesterOf \in [Calls -> Principals]
    /\ LabelSets \subseteq SUBSET Labels
    /\ Rules \in Seq(ApproverRule)
    /\ Delegations \in Seq(Delegation)
    /\ RolesOf \in [Principals -> SUBSET Roles]
    /\ CountOnce \in BOOLEAN /\ PerRecord \in BOOLEAN
    /\ NoEdit \notin Edits
    /\ MaxGeneration \in Nat /\ MaxTime \in Nat

VARIABLES
    records,    \* the store: approval id -> record
    installed,  \* ids the per-record callable has an authority for
    now         \* the clock of the store and of the authority

vars == <<records, installed, now>>

Ids == [call: Calls, generation: 1 .. MaxGeneration]
Arguments == Edits \cup {NoEdit}

\* One accepted decision; basis is the decider or the grantor it acts for.
Entry == [by: Principals, verdict: Verdicts, arguments: Arguments,
          basis: Principals, rules: SUBSET DOMAIN Rules, at: Times]

ApprovalRecord == [labels: SUBSET Labels, status: Statuses,
                   verdict: Verdicts \cup {"none"},
                   decided_by: SUBSET Principals,
                   approvals: SUBSET Entry, rejections: SUBSET Principals,
                   approved_arguments: Arguments]

Approved(entries) == {e \in entries : e.verdict = "approved"}
Approvers(record) == {e.by : e \in Approved(record.approvals)}

(***************************************************************************)
(* ApprovalAuthority                                                       *)
(***************************************************************************)

Touches(scope, labels) == scope = {} \/ scope \cap labels # {}

Matching(labels) == {i \in DOMAIN Rules : Touches(Rules[i].labels, labels)}

Holds(i, p) == p \in Rules[i].approvers \/ Rules[i].roles \cap RolesOf[p] # {}

HeldRules(labels, p) == {i \in Matching(labels) : Holds(i, p)}

SelfAllowed(labels) == \A i \in Matching(labels) : Rules[i].allow_self_approval

MutActive(d, t) == t <= Delegations[d].expires_at
Active(d, t) == t < Delegations[d].expires_at

\* The grants by may act on at time t: the loop of _basis, without its order.
MutGrants(call, labels, by, t) ==
    {d \in DOMAIN Delegations :
        /\ Delegations[d].grantee = by
        /\ Active(d, t)
        /\ Touches(Delegations[d].labels, labels)
        /\ HeldRules(labels, Delegations[d].grantor) # {}}

Grants(call, labels, by, t) ==
    {d \in DOMAIN Delegations :
        /\ Delegations[d].grantee = by
        /\ Active(d, t)
        /\ Touches(Delegations[d].labels, labels)
        /\ Delegations[d].grantor = RequesterOf[call] => SelfAllowed(labels)
        /\ HeldRules(labels, Delegations[d].grantor) # {}}

First(S) == {i \in S : \A j \in S : i <= j}

\* What by decides on: its own rules, else the first grant's; {} is an error.
Basis(call, labels, by, t) ==
    LET direct == HeldRules(labels, by)
    IN  IF by = RequesterOf[call] /\ ~SelfAllowed(labels) THEN {}
        ELSE IF direct # {} THEN {[rules |-> direct, basis |-> by]}
        ELSE {[rules |-> HeldRules(labels, Delegations[d].grantor),
               basis |-> Delegations[d].grantor] : d \in First(Grants(call, labels, by, t))}

Counted(entries, i) == Cardinality({e.by : e \in {a \in Approved(entries) : i \in a.rules}})

Unmet(labels, entries) == {i \in Matching(labels) : Counted(entries, i) < Rules[i].quorum}

\* count_once: one rule, the first that is theirs and still short.
Narrowed(record, b) ==
    LET unmet == Unmet(record.labels, record.approvals)
        theirs == unmet \cap b.rules
        counts == IF theirs # {} THEN theirs ELSE IF unmet # {} THEN {} ELSE b.rules
    IN  {[rules |-> {i}, basis |-> b.basis] : i \in First(counts)}

MutCheck(call, record, by, verdict, t) == Basis(call, record.labels, by, t)

Check(call, record, by, verdict, t) ==
    LET basis == Basis(call, record.labels, by, t)
    IN  IF CountOnce /\ verdict = "approved"
        THEN UNION {Narrowed(record, b) : b \in basis}
        ELSE basis

Satisfied(labels, entries) ==
    \A i \in Matching(labels) : Counted(entries, i) >= Rules[i].quorum

(***************************************************************************)
(* The store's operations, as what they make of the records they load.     *)
(***************************************************************************)

Put(recs, id, record) ==
    [i \in DOMAIN recs \cup {id} |-> IF i = id THEN record ELSE recs[i]]

SameCall(recs, call) == {i \in DOMAIN recs : i.call = call}

MutLiveFor(recs, call) == {i \in SameCall(recs, call) : recs[i].status = "pending"}
LiveFor(recs, call) == {i \in SameCall(recs, call) : recs[i].status \in Live}

MutNextId(recs, call) ==
    [call |-> call,
     generation |-> Cardinality({i \in SameCall(recs, call) : recs[i].status = "pending"}) + 1]
NextId(recs, call) ==
    [call |-> call, generation |-> Cardinality(SameCall(recs, call)) + 1]

NewRecord(labels) ==
    [labels |-> labels, status |-> "pending", verdict |-> "none", decided_by |-> {},
     approvals |-> {}, rejections |-> {}, approved_arguments |-> NoEdit]

\* submit() of a call with no live record; with one, it returns that id and
\* changes nothing.
CanOpen(recs, call) == LiveFor(recs, call) = {} /\ NextId(recs, call) \in Ids
Submitted(recs, call, labels) == Put(recs, NextId(recs, call), NewRecord(labels))

\* decide()'s own refusals: an unknown id, a decided record, an edit that is
\* not an approval.
Decidable(recs, id, verdict, arguments) ==
    /\ id \in DOMAIN recs
    /\ recs[id].status = "pending"
    /\ arguments # NoEdit => verdict = "approved"

MkEntry(by, verdict, arguments, b, t) ==
    [by |-> by, verdict |-> verdict, arguments |-> arguments,
     basis |-> b.basis, rules |-> b.rules, at |-> t]

Settled(record, verdict, deciders, entry) ==
    [record EXCEPT !.status = verdict, !.verdict = verdict, !.decided_by = deciders,
                   !.approvals = @ \cup {entry},
                   !.approved_arguments = entry.arguments]

\* _decided() with no authority: the first decision settles the record.
Ungoverned(record, by, verdict, arguments, t) ==
    Settled(record, verdict, {by},
            MkEntry(by, verdict, arguments, [basis |-> by, rules |-> {}], t))

\* The authority refuses: who tried is kept on the record, and only that.
Rejected(record, by) == [record EXCEPT !.rejections = @ \cup {by}]

\* One authorised denial ends it.
Denied(record, by, b, t) ==
    Settled(record, "denied", {by}, MkEntry(by, "denied", NoEdit, b, t))

\* An approver counts once, and approves what the others approved.
MutMayApprove(record, by, arguments) == by \notin Approvers(record)
MayApprove(record, by, arguments) ==
    /\ by \notin Approvers(record)
    /\ \A e \in Approved(record.approvals) : e.arguments = arguments

Tallied(record, by, arguments, b, t) ==
    LET entry == MkEntry(by, "approved", arguments, b, t)
    IN  IF Satisfied(record.labels, record.approvals \cup {entry})
        THEN Settled(record, "approved", Approvers(record) \cup {by}, entry)
        ELSE [record EXCEPT !.approvals = @ \cup {entry}]

Consumable(recs, id) == id \in DOMAIN recs /\ recs[id].status \in {"approved", "denied"}
Consumed(record) == [record EXCEPT !.status = "consumed"]

(***************************************************************************)
(* The store                                                               *)
(***************************************************************************)

\* authority_for(record): with a callable, None until the caller has put the
\* record's authority where the callable looks.
Governed(id) == PerRecord => id \in installed

\* The stored records have their type, and a record's verdict goes with its
\* status: none while it waits, and the decision it was given from then on.
TypeOK ==
    /\ DOMAIN records \subseteq Ids
    /\ \A id \in DOMAIN records :
          /\ records[id] \in ApprovalRecord
          /\ records[id].status = "pending" <=> records[id].verdict = "none"
          /\ records[id].status \in {records[id].verdict, "pending", "consumed"}
    /\ installed \subseteq DOMAIN records
    /\ now \in Times

Init == records = << >> /\ installed = {} /\ now = 0

Submit(call, labels) ==
    /\ CanOpen(records, call)
    /\ records' = Submitted(records, call, labels)
    /\ UNCHANGED <<installed, now>>

\* The caller names the new record's authority, after submit() told it the id.
Install(id) ==
    /\ PerRecord
    /\ id \in DOMAIN records \ installed
    /\ installed' = installed \cup {id}
    /\ UNCHANGED <<records, now>>

Become(id, record) ==
    /\ records' = [records EXCEPT ![id] = record]
    /\ UNCHANGED <<installed, now>>

DecideUngoverned(id, by, verdict, arguments) ==
    /\ Decidable(records, id, verdict, arguments)
    /\ ~Governed(id)
    /\ Become(id, Ungoverned(records[id], by, verdict, arguments, now))

Refuse(id, by, verdict) ==
    /\ Decidable(records, id, verdict, NoEdit)
    /\ Governed(id)
    /\ Check(id.call, records[id], by, verdict, now) = {}
    /\ Become(id, Rejected(records[id], by))

Deny(id, by) ==
    /\ Decidable(records, id, "denied", NoEdit)
    /\ Governed(id)
    /\ \E b \in Check(id.call, records[id], by, "denied", now) :
          Become(id, Denied(records[id], by, b, now))

Approve(id, by, arguments) ==
    /\ Decidable(records, id, "approved", arguments)
    /\ Governed(id)
    /\ MayApprove(records[id], by, arguments)
    /\ \E b \in Check(id.call, records[id], by, "approved", now) :
          Become(id, Tallied(records[id], by, arguments, b, now))

Consume(id) ==
    /\ Consumable(records, id)
    /\ Become(id, Consumed(records[id]))

Tick ==
    /\ now < MaxTime
    /\ now' = now + 1
    /\ UNCHANGED <<records, installed>>

Decide(id) ==
    \E by \in Principals :
        \/ \E verdict \in Verdicts, arguments \in Arguments :
              DecideUngoverned(id, by, verdict, arguments)
        \/ \E verdict \in Verdicts : Refuse(id, by, verdict)
        \/ Deny(id, by)
        \/ \E arguments \in Arguments : Approve(id, by, arguments)

Next ==
    \/ \E call \in Calls, labels \in LabelSets : Submit(call, labels)
    \/ \E id \in DOMAIN records : Install(id) \/ Decide(id) \/ Consume(id)
    \/ Tick

Spec == Init /\ [][Next]_vars

(***************************************************************************)
(* Properties                                                              *)
(***************************************************************************)

\* One call has at most one record a decision or a redemption can find, however
\* often the call is held again (submit's search for a live record, and the
\* generation it counts).
OneLivePerCall ==
    \A i, j \in DOMAIN records :
        i.call = j.call /\ records[i].status \in Live /\ records[j].status \in Live
            => i = j

\* Whose word an entry rests on: each rule it counts toward is held by the
\* decider, or by a grantor whose grant to it covered the labels and had not
\* expired when the decision was made.
HasStanding(record, e) ==
    /\ e.rules # {} /\ e.rules \subseteq Matching(record.labels)
    /\ \A i \in e.rules : Holds(i, e.basis)
    /\ \/ e.basis = e.by
       \/ \E d \in DOMAIN Delegations :
             /\ Delegations[d].grantor = e.basis /\ Delegations[d].grantee = e.by
             /\ e.at < Delegations[d].expires_at
             /\ Touches(Delegations[d].labels, record.labels)

PeopleWithStanding(record, i) ==
    {e.by : e \in {a \in Approved(record.approvals) :
                      i \in a.rules /\ HasStanding(record, a)}}

FullQuorum(record) ==
    /\ Matching(record.labels) # {}
    /\ \A i \in Matching(record.labels) :
          Cardinality(PeopleWithStanding(record, i)) >= Rules[i].quorum

\* A call is approved only once every rule its labels match has its quorum of
\* distinct people, each with standing; what no rule covers is approved by nobody.
QuorumOfAuthority ==
    \A id \in DOMAIN records :
        records[id].verdict = "approved" => FullQuorum(records[id])

\* With an authority per record: a record approved by decisions that were all
\* made under it has the full quorum, whenever it was installed.
InstalledInTimeIsEnforced ==
    \A id \in DOMAIN records :
        /\ records[id].verdict = "approved"
        /\ \A e \in records[id].approvals : e.rules # {}
        => FullQuorum(records[id])

\* Separation of duties: under an authority the requester decides nothing about
\* its own call, neither in person nor through somebody it lent its authority to.
NoSelfDealing ==
    \A id \in DOMAIN records : \A e \in records[id].approvals :
        e.rules # {} /\ RequesterOf[id.call] \in {e.by, e.basis}
            => SelfAllowed(records[id].labels)

\* Whoever approved a call approved the very arguments it will run with: an edit
\* after the first approval, or an approval of the unedited call after an edit,
\* never becomes an approval of something else.
ApprovedTogether ==
    \A id \in DOMAIN records :
        records[id].verdict = "approved" =>
            \A e \in Approved(records[id].approvals) :
                e.arguments = records[id].approved_arguments

\* The quorums of the rules an action matches, one by one.
Seats(labels) == UNION {{i} \X (1 .. Rules[i].quorum) : i \in Matching(labels)}

\* With count_once nobody fills two rules' quorums: a call approved under its
\* authority has exactly as many approvers as the quorums add up to, and a waiting
\* one has fewer.
EachGroupItsOwnPeople ==
    \A id \in DOMAIN records :
        LET record == records[id]
            needed == Cardinality(Seats(record.labels))
            people == Cardinality(Approvers(record))
        IN  /\ record.verdict = "approved" /\ (\A e \in record.approvals : e.rules # {})
                  => people = needed
            /\ record.status = "pending" => people < needed \/ needed = 0

Settlement(record) ==
    <<record.verdict, record.decided_by, record.approvals, record.approved_arguments>>

Advances(old, new) ==
    /\ <<old.status, new.status>> \in
          {<<s, s>> : s \in Statuses} \cup
          {<<"pending", "approved">>, <<"pending", "denied">>,
           <<"approved", "consumed">>, <<"denied", "consumed">>}
    /\ old.status # "pending" => Settlement(new) = Settlement(old)

\* Records only advance, pending to decided to consumed.  None is dropped or
\* reopened, not even by a new record of the same call, and what was decided, by
\* whom and for which arguments never changes.
RecordsOnlyAdvance ==
    [][\A id \in DOMAIN records :
          id \in DOMAIN records' /\ Advances(records[id], records'[id])]_vars

=============================================================================
