-------------------------- MODULE ApprovalsProofs --------------------------
(***************************************************************************)
(* Proofs about the approval store, for every authority, every set of      *)
(* people and calls, and every bound on generations and time: the store in *)
(* one step, and then the store in one file.                               *)
(***************************************************************************)
EXTENDS FileApprovals, FiniteSetTheorems, TLAPS

Bases == [rules: SUBSET DOMAIN Rules, basis: Principals]

\* What makes a basis a good one for by to decide a call carrying labels.
SoundBasis(call, labels, by, t, b) ==
    /\ b \in Bases
    /\ b.rules # {} /\ b.rules \subseteq HeldRules(labels, b.basis)
    /\ \/ b.basis = by
       \/ \E d \in DOMAIN Delegations :
             /\ Delegations[d].grantor = b.basis /\ Delegations[d].grantee = by
             /\ Active(d, t) /\ Touches(Delegations[d].labels, labels)
    /\ RequesterOf[call] \in {by, b.basis} => SelfAllowed(labels)

\* _basis() finds sound bases only: the decider's own rules, or those of the first
\* grantor whose unexpired grant covers the action.
LEMMA BasisIsSound ==
    ASSUME NEW call \in Calls, NEW labels \in SUBSET Labels, NEW by \in Principals,
           NEW t \in Times, NEW b \in Basis(call, labels, by, t)
    PROVE  SoundBasis(call, labels, by, t, b)
<1>1. ~(by = RequesterOf[call] /\ ~SelfAllowed(labels))
  BY DEF Basis
<1>2. CASE HeldRules(labels, by) # {}
  <2>1. b = [rules |-> HeldRules(labels, by), basis |-> by]
    BY <1>1, <1>2 DEF Basis
  <2>2. HeldRules(labels, by) \subseteq DOMAIN Rules
    BY DEF HeldRules, Matching
  <2> QED
    BY <1>1, <1>2, <2>1, <2>2 DEF SoundBasis, Bases
<1>3. CASE HeldRules(labels, by) = {}
  <2>1. PICK d \in First(Grants(call, labels, by, t)) :
            b = [rules |-> HeldRules(labels, Delegations[d].grantor),
                 basis |-> Delegations[d].grantor]
    BY <1>1, <1>3 DEF Basis
  <2>2. d \in Grants(call, labels, by, t)
    BY DEF First
  <2>3. d \in DOMAIN Delegations /\ Delegations[d] \in Delegation
    BY <2>2, AuthorityAssumption DEF Grants
  <2>4. HeldRules(labels, Delegations[d].grantor) \subseteq DOMAIN Rules
    BY DEF HeldRules, Matching
  <2>5. b \in Bases
    BY <2>1, <2>3, <2>4 DEF Bases, Delegation
  <2>6. b.rules # {} /\ b.rules \subseteq HeldRules(labels, b.basis)
    BY <2>1, <2>2 DEF Grants
  <2> QED
    BY <1>1, <2>1, <2>2, <2>3, <2>5, <2>6 DEF SoundBasis, Grants
<1> QED
  BY <1>2, <1>3

\* check() only narrows: with count_once an approval counts under one of the rules
\* of a sound basis, and every other decision under all of them.
LEMMA CheckIsSound ==
    ASSUME NEW call \in Calls, NEW record \in ApprovalRecord, NEW by \in Principals,
           NEW verdict, NEW t \in Times, NEW b \in Check(call, record, by, verdict, t)
    PROVE  SoundBasis(call, record.labels, by, t, b)
<1>0. record.labels \in SUBSET Labels
  BY DEF ApprovalRecord
<1>1. CASE ~(CountOnce /\ verdict = "approved")
  BY <1>0, <1>1, BasisIsSound DEF Check
<1>2. CASE CountOnce /\ verdict = "approved"
  <2>1. PICK wide \in Basis(call, record.labels, by, t) : b \in Narrowed(record, wide)
    BY <1>2 DEF Check
  <2>2. SoundBasis(call, record.labels, by, t, wide)
    BY <1>0, BasisIsSound
  <2>3. PICK i \in wide.rules : b = [rules |-> {i}, basis |-> wide.basis]
    BY <2>1 DEF Narrowed, First
  <2>4. b \in Bases
    BY <2>2, <2>3 DEF SoundBasis, Bases
  <2> QED
    BY <2>2, <2>3, <2>4 DEF SoundBasis
<1> QED
  BY <1>1, <1>2

(***************************************************************************)
(* Types                                                                   *)
(***************************************************************************)

\* What every operation makes of a record is a record, with a verdict that goes
\* with its status.
WellFormed(record) ==
    /\ record \in ApprovalRecord
    /\ record.status = "pending" <=> record.verdict = "none"
    /\ record.status \in {record.verdict, "pending", "consumed"}

\* A decision that settles a pending record leaves it well formed.
LEMMA SettledIsWellFormed ==
    ASSUME NEW record, WellFormed(record), NEW verdict \in Verdicts,
           NEW deciders \in SUBSET Principals, NEW e \in Entry
    PROVE  WellFormed(Settled(record, verdict, deciders, e))
  BY DEF WellFormed, ApprovalRecord, Settled, Entry, Verdicts, Statuses

\* The entry of a decision made on some basis is an entry.
LEMMA EntryType ==
    ASSUME NEW by \in Principals, NEW verdict \in Verdicts, NEW arguments \in Arguments,
           NEW b \in Bases, NEW t \in Times
    PROVE  MkEntry(by, verdict, arguments, b, t) \in Entry
  BY DEF MkEntry, Entry, Bases

\* An approval that counts either settles the record or waits for more.
LEMMA TalliedIsWellFormed ==
    ASSUME NEW record, WellFormed(record), NEW by \in Principals,
           NEW arguments \in Arguments, NEW b \in Bases, NEW t \in Times
    PROVE  WellFormed(Tallied(record, by, arguments, b, t))
<1> DEFINE entry == MkEntry(by, "approved", arguments, b, t)
<1>1. entry \in Entry
  BY EntryType DEF Verdicts
<1>2. Approvers(record) \cup {by} \in SUBSET Principals
  BY DEF Approvers, Approved, WellFormed, ApprovalRecord, Entry
<1>3. WellFormed(Settled(record, "approved", Approvers(record) \cup {by}, entry))
  BY <1>1, <1>2, SettledIsWellFormed DEF Verdicts
<1>4. WellFormed([record EXCEPT !.approvals = @ \cup {entry}])
  BY <1>1 DEF WellFormed, ApprovalRecord
<1> QED
  BY <1>3, <1>4 DEF Tallied

\* Every operation on one record leaves it well formed: this is the part of a step
\* the invariants below share.
LEMMA BecomeKeepsType ==
    ASSUME TypeOK, NEW id \in DOMAIN records, NEW record, WellFormed(record),
           Become(id, record)
    PROVE  TypeOK'
  BY DEF Become, TypeOK, WellFormed

\* Every operation of the store keeps the types.
LEMMA TypeStep ==
    TypeOK /\ [Next]_vars => TypeOK'
<1> SUFFICES ASSUME TypeOK, [Next]_vars PROVE TypeOK'
  OBVIOUS
<1>0. \A id \in DOMAIN records : WellFormed(records[id])
  BY DEF TypeOK, WellFormed
<1>1. ASSUME NEW call \in Calls, NEW labels \in LabelSets, Submit(call, labels)
      PROVE  TypeOK'
  <2>1. NextId(records, call) \in Ids
    BY <1>1 DEF Submit, CanOpen
  <2>2. WellFormed(NewRecord(labels))
    BY AuthorityAssumption
       DEF NewRecord, WellFormed, ApprovalRecord, Statuses, Verdicts, Arguments
  <2> QED
    BY <1>1, <2>1, <2>2 DEF Submit, Submitted, Put, TypeOK, WellFormed
<1>2. ASSUME NEW id \in DOMAIN records, Install(id)
      PROVE  TypeOK'
  BY <1>2 DEF Install, TypeOK
<1>3. ASSUME NEW id \in DOMAIN records, Decide(id)
      PROVE  TypeOK'
  <2>1. PICK by \in Principals :
           \/ \E verdict \in Verdicts, arguments \in Arguments :
                 DecideUngoverned(id, by, verdict, arguments)
           \/ \E verdict \in Verdicts : Refuse(id, by, verdict)
           \/ Deny(id, by)
           \/ \E arguments \in Arguments : Approve(id, by, arguments)
    BY <1>3 DEF Decide
  <2>2. now \in Times /\ id.call \in Calls /\ records[id] \in ApprovalRecord
    BY DEF TypeOK, Ids
  <2>3. ASSUME NEW verdict \in Verdicts, NEW arguments \in Arguments,
               DecideUngoverned(id, by, verdict, arguments)
        PROVE  TypeOK'
    <3>1. MkEntry(by, verdict, arguments, [basis |-> by, rules |-> {}], now) \in Entry
      BY <2>2, EntryType DEF Bases
    <3>2. WellFormed(Ungoverned(records[id], by, verdict, arguments, now))
      BY <1>0, <3>1, SettledIsWellFormed DEF Ungoverned
    <3> QED
      BY <2>3, <3>2, BecomeKeepsType DEF DecideUngoverned
  <2>4. ASSUME NEW verdict \in Verdicts, Refuse(id, by, verdict)
        PROVE  TypeOK'
    <3>1. WellFormed(Rejected(records[id], by))
      BY <1>0 DEF Rejected, WellFormed, ApprovalRecord
    <3> QED
      BY <2>4, <3>1, BecomeKeepsType DEF Refuse
  <2>5. CASE Deny(id, by)
    <3>1. PICK b \in Check(id.call, records[id], by, "denied", now) :
              Become(id, Denied(records[id], by, b, now))
      BY <2>5 DEF Deny
    <3>2. b \in Bases
      BY <2>2, CheckIsSound DEF SoundBasis
    <3>3. MkEntry(by, "denied", NoEdit, b, now) \in Entry
      BY <2>2, <3>2, EntryType DEF Verdicts, Arguments
    <3>4. WellFormed(Denied(records[id], by, b, now))
      BY <1>0, <3>3, SettledIsWellFormed DEF Denied, Verdicts
    <3> QED
      BY <3>1, <3>4, BecomeKeepsType
  <2>6. ASSUME NEW arguments \in Arguments, Approve(id, by, arguments)
        PROVE  TypeOK'
    <3>1. PICK b \in Check(id.call, records[id], by, "approved", now) :
              Become(id, Tallied(records[id], by, arguments, b, now))
      BY <2>6 DEF Approve
    <3>2. b \in Bases
      BY <2>2, CheckIsSound DEF SoundBasis
    <3> QED
      BY <1>0, <2>2, <3>1, <3>2, TalliedIsWellFormed, BecomeKeepsType
  <2> QED
    BY <2>1, <2>3, <2>4, <2>5, <2>6
<1>4. ASSUME NEW id \in DOMAIN records, Consume(id)
      PROVE  TypeOK'
  <2>1. WellFormed(Consumed(records[id]))
    BY <1>0, <1>4 DEF Consume, Consumable, Consumed, WellFormed, ApprovalRecord, Statuses
  <2> QED
    BY <1>4, <2>1, BecomeKeepsType DEF Consume
<1>5. ASSUME Tick PROVE TypeOK'
  BY <1>5, AuthorityAssumption DEF Tick, TypeOK, Times
<1>6. ASSUME UNCHANGED vars PROVE TypeOK'
  BY <1>6 DEF vars, TypeOK
<1> QED
  BY <1>1, <1>2, <1>3, <1>4, <1>5, <1>6 DEF Next

\* The store only ever holds well-formed records, under ids of the calls they are
\* about (submit, decide, consume of _Approvals, and installing an authority).
THEOREM TypeCorrect == Spec => []TypeOK
<1>1. Init => TypeOK
  BY AuthorityAssumption DEF Init, TypeOK, Times
<1>2. TypeOK /\ [Next]_vars => TypeOK'
  BY TypeStep
<1> QED
  BY <1>1, <1>2, PTL DEF Spec

(***************************************************************************)
(* What a decision does to its record                                      *)
(***************************************************************************)

\* The four outcomes of decide() on a pending record: settled without an
\* authority, refused, denied, or one more approval on a sound basis.
Outcome(id, old, new) ==
    \E by \in Principals :
        \/ ~Governed(id) /\ \E verdict \in Verdicts, arguments \in Arguments :
              new = Ungoverned(old, by, verdict, arguments, now)
        \/ new = Rejected(old, by)
        \/ \E b \in Bases : /\ SoundBasis(id.call, old.labels, by, now, b)
                            /\ Governed(id)
                            /\ new = Denied(old, by, b, now)
        \/ \E b \in Bases, arguments \in Arguments :
              /\ SoundBasis(id.call, old.labels, by, now, b)
              /\ Governed(id)
              /\ MayApprove(old, by, arguments)
              /\ new = Tallied(old, by, arguments, b, now)

\* Every decision has one of these outcomes, and touches no other record.
LEMMA DecisionOutcome ==
    ASSUME TypeOK, NEW id \in DOMAIN records, Decide(id)
    PROVE  /\ records[id].status = "pending"
           /\ \E new : Outcome(id, records[id], new) /\ Become(id, new)
<1>1. PICK by \in Principals :
         \/ \E verdict \in Verdicts, arguments \in Arguments :
               DecideUngoverned(id, by, verdict, arguments)
         \/ \E verdict \in Verdicts : Refuse(id, by, verdict)
         \/ Deny(id, by)
         \/ \E arguments \in Arguments : Approve(id, by, arguments)
  BY DEF Decide
<1>2. now \in Times /\ id.call \in Calls /\ records[id] \in ApprovalRecord
  BY DEF TypeOK, Ids
<1>3. ASSUME NEW verdict \in Verdicts, NEW arguments \in Arguments,
             DecideUngoverned(id, by, verdict, arguments)
      PROVE  \E new : Outcome(id, records[id], new) /\ Become(id, new)
  BY <1>3 DEF DecideUngoverned, Outcome
<1>4. ASSUME NEW verdict \in Verdicts, Refuse(id, by, verdict)
      PROVE  \E new : Outcome(id, records[id], new) /\ Become(id, new)
  BY <1>4 DEF Refuse, Outcome
<1>5. ASSUME Deny(id, by)
      PROVE  \E new : Outcome(id, records[id], new) /\ Become(id, new)
  <2>1. PICK b \in Check(id.call, records[id], by, "denied", now) :
            Become(id, Denied(records[id], by, b, now))
    BY <1>5 DEF Deny
  <2>2. SoundBasis(id.call, records[id].labels, by, now, b) /\ b \in Bases
    BY <1>2, CheckIsSound DEF SoundBasis
  <2>3. Outcome(id, records[id], Denied(records[id], by, b, now))
    BY <1>5, <2>2 DEF Deny, Outcome
  <2> QED
    BY <2>1, <2>3
<1>6. ASSUME NEW arguments \in Arguments, Approve(id, by, arguments)
      PROVE  \E new : Outcome(id, records[id], new) /\ Become(id, new)
  <2>1. PICK b \in Check(id.call, records[id], by, "approved", now) :
            Become(id, Tallied(records[id], by, arguments, b, now))
    BY <1>6 DEF Approve
  <2>2. SoundBasis(id.call, records[id].labels, by, now, b) /\ b \in Bases
    BY <1>2, CheckIsSound DEF SoundBasis
  <2> QED
    BY <1>6, <2>1, <2>2 DEF Approve, Outcome
<1>7. records[id].status = "pending"
  BY <1>1 DEF DecideUngoverned, Refuse, Deny, Approve, Decidable
<1> QED
  BY <1>1, <1>3, <1>4, <1>5, <1>6, <1>7

(***************************************************************************)
(* The quorum of authority                                                 *)
(***************************************************************************)

UnderAuthority(record) == \A e \in record.approvals : e.rules # {}

\* Every entry made under an authority rests on somebody's standing and on no
\* self-dealing; a record approved under its authority is covered and satisfied;
\* and with one authority for the store every entry is made under it.
Backed(id, record) ==
    /\ \A e \in record.approvals : e.rules # {} =>
          /\ HasStanding(record, e)
          /\ RequesterOf[id.call] \in {e.by, e.basis} => SelfAllowed(record.labels)
    /\ record.verdict = "approved" /\ UnderAuthority(record) =>
          /\ Matching(record.labels) # {}
          /\ Satisfied(record.labels, record.approvals)
    /\ ~PerRecord => UnderAuthority(record)

AllBacked == \A id \in DOMAIN records : Backed(id, records[id])

\* An entry made on a sound basis has standing on the record it is added to.
LEMMA SoundEntry ==
    ASSUME NEW id, NEW record, NEW by, NEW verdict, NEW arguments, NEW t, NEW b,
           SoundBasis(id.call, record.labels, by, t, b)
    PROVE  LET e == MkEntry(by, verdict, arguments, b, t)
           IN  /\ HasStanding(record, e)
               /\ RequesterOf[id.call] \in {e.by, e.basis} => SelfAllowed(record.labels)
  BY DEF SoundBasis, MkEntry, HasStanding, HeldRules, Active

\* A decision keeps its record backed.
LEMMA OutcomeKeepsBacked ==
    ASSUME NEW id, NEW old \in ApprovalRecord, NEW new,
           old.status = "pending", old.verdict = "none",
           Backed(id, old), Outcome(id, old, new)
    PROVE  Backed(id, new)
<1>1. PICK by \in Principals :
        \/ \E verdict \in Verdicts, arguments \in Arguments :
              /\ ~Governed(id)
              /\ new = Ungoverned(old, by, verdict, arguments, now)
        \/ new = Rejected(old, by)
        \/ \E b \in Bases : /\ SoundBasis(id.call, old.labels, by, now, b)
                            /\ new = Denied(old, by, b, now)
        \/ \E b \in Bases, arguments \in Arguments :
              /\ SoundBasis(id.call, old.labels, by, now, b)
              /\ new = Tallied(old, by, arguments, b, now)
  BY DEF Outcome
<1>2. CASE new = Rejected(old, by)
  <2>1. /\ new.labels = old.labels /\ new.approvals = old.approvals
        /\ new.verdict = old.verdict
    BY <1>2 DEF Rejected, ApprovalRecord
  <2> QED
    BY <2>1 DEF Backed, HasStanding, UnderAuthority
<1>5. ASSUME NEW verdict \in Verdicts, NEW arguments \in Arguments, ~Governed(id),
             new = Ungoverned(old, by, verdict, arguments, now)
      PROVE  Backed(id, new)
  <2> DEFINE e == MkEntry(by, verdict, arguments, [basis |-> by, rules |-> {}], now)
  <2>1. new.labels = old.labels /\ new.approvals = old.approvals \cup {e}
    BY <1>5 DEF Ungoverned, Settled, ApprovalRecord
  <2>2. e.rules = {} /\ PerRecord
    BY <1>5 DEF MkEntry, Governed
  <2>3. ~UnderAuthority(new)
    BY <2>1, <2>2 DEF UnderAuthority
  <2> HIDE DEF e
  <2> QED
    BY <2>1, <2>2, <2>3 DEF Backed, HasStanding
<1>3. ASSUME NEW b \in Bases, SoundBasis(id.call, old.labels, by, now, b),
             new = Denied(old, by, b, now)
      PROVE  Backed(id, new)
  <2>1. /\ new.labels = old.labels /\ new.verdict = "denied"
        /\ new.approvals = old.approvals \cup {MkEntry(by, "denied", NoEdit, b, now)}
    BY <1>3 DEF Denied, Settled, ApprovalRecord
  <2>2. MkEntry(by, "denied", NoEdit, b, now).rules # {}
    BY <1>3 DEF SoundBasis, MkEntry
  <2> QED
    BY <1>3, <2>1, <2>2, SoundEntry DEF Backed, HasStanding, UnderAuthority
<1>4. ASSUME NEW b \in Bases, NEW arguments \in Arguments,
             SoundBasis(id.call, old.labels, by, now, b),
             new = Tallied(old, by, arguments, b, now)
      PROVE  Backed(id, new)
  <2> DEFINE e == MkEntry(by, "approved", arguments, b, now)
  <2>1. /\ new.labels = old.labels
        /\ new.approvals = old.approvals \cup {e}
        /\ new.verdict = "approved" => Satisfied(old.labels, old.approvals \cup {e})
    BY <1>4 DEF Tallied, Settled, ApprovalRecord
  <2>2. Matching(old.labels) # {}
    BY <1>4 DEF SoundBasis, HeldRules
  <2>3. \A f \in new.approvals : f.rules # {} =>
          /\ HasStanding(new, f)
          /\ RequesterOf[id.call] \in {f.by, f.basis} => SelfAllowed(new.labels)
    <3> HIDE DEF e
    <3>1. /\ HasStanding(old, e)
          /\ RequesterOf[id.call] \in {e.by, e.basis} => SelfAllowed(old.labels)
      BY <1>4, SoundEntry DEF e
    <3> QED
      BY <2>1, <3>1 DEF Backed, HasStanding
  <2>4. e.rules # {}
    BY <1>4 DEF SoundBasis, MkEntry
  <2> HIDE DEF e
  <2> QED
    BY <2>1, <2>2, <2>3, <2>4 DEF Backed, UnderAuthority
<1> QED
  BY <1>1, <1>2, <1>3, <1>4, <1>5

\* The invariant behind the three theorems below.
THEOREM BackedInvariant == Spec => []AllBacked
<1>1. Init => AllBacked
  BY DEF Init, AllBacked
<1>2. TypeOK /\ AllBacked /\ [Next]_vars => AllBacked'
  <2> SUFFICES ASSUME TypeOK, AllBacked, [Next]_vars PROVE AllBacked'
    OBVIOUS
  <2>1. ASSUME NEW call \in Calls, NEW labels \in LabelSets, Submit(call, labels)
        PROVE  AllBacked'
    <3>1. Backed(NextId(records, call), NewRecord(labels))
      BY DEF Backed, NewRecord, UnderAuthority
    <3> QED
      BY <2>1, <3>1 DEF Submit, Submitted, Put, AllBacked
  <2>2. ASSUME NEW id \in DOMAIN records, Install(id) PROVE AllBacked'
    BY <2>2 DEF Install, AllBacked
  <2>3. ASSUME NEW id \in DOMAIN records, Decide(id) PROVE AllBacked'
    <3>1. records[id].status = "pending"
      BY <2>3, DecisionOutcome
    <3>2. PICK new : Outcome(id, records[id], new) /\ Become(id, new)
      BY <2>3, DecisionOutcome
    <3>3. Backed(id, new)
      BY <3>1, <3>2, OutcomeKeepsBacked DEF TypeOK, AllBacked
    <3> QED
      BY <3>2, <3>3 DEF Become, AllBacked
  <2>4. ASSUME NEW id \in DOMAIN records, Consume(id) PROVE AllBacked'
    <3>1. /\ Consumed(records[id]).labels = records[id].labels
          /\ Consumed(records[id]).approvals = records[id].approvals
          /\ Consumed(records[id]).verdict = records[id].verdict
      BY DEF Consumed, TypeOK, ApprovalRecord
    <3>2. Backed(id, Consumed(records[id]))
      BY <3>1 DEF AllBacked, Backed, HasStanding, UnderAuthority
    <3> QED
      BY <2>4, <3>2 DEF Consume, Become, AllBacked
  <2>5. ASSUME Tick PROVE AllBacked'
    BY <2>5 DEF Tick, AllBacked
  <2>6. ASSUME UNCHANGED vars PROVE AllBacked'
    BY <2>6 DEF vars, AllBacked
  <2> QED
    BY <2>1, <2>2, <2>3, <2>4, <2>5, <2>6 DEF Next
<1> QED
  BY <1>1, <1>2, TypeCorrect, PTL DEF Spec

\* A covered and satisfied record has its full quorum of people with standing.
LEMMA BackedQuorum ==
    ASSUME AllBacked, NEW id \in DOMAIN records,
           records[id].verdict = "approved", UnderAuthority(records[id])
    PROVE  FullQuorum(records[id])
<1> DEFINE r == records[id]
<1>1. Matching(r.labels) # {} /\ Satisfied(r.labels, r.approvals)
  BY DEF AllBacked, Backed
<1>2. ASSUME NEW i \in Matching(r.labels)
      PROVE  PeopleWithStanding(r, i) =
               {e.by : e \in {a \in Approved(r.approvals) : i \in a.rules}}
  BY DEF AllBacked, Backed, PeopleWithStanding, Approved
<1> QED
  BY <1>1, <1>2 DEF FullQuorum, Satisfied, Counted

\* With an authority per record, a record approved by decisions that were all
\* made under it has the full quorum, whatever the rules, roles, delegations and
\* the order of submits, installations, decisions and clock ticks.
THEOREM InstalledInTimeCorrect == Spec => []InstalledInTimeIsEnforced
<1>1. AllBacked => InstalledInTimeIsEnforced
  BY BackedQuorum DEF InstalledInTimeIsEnforced, UnderAuthority
<1> QED
  BY <1>1, BackedInvariant, PTL

\* With one authority for the store, a call is approved only once every rule its
\* labels match has its quorum of distinct people with standing.
THEOREM QuorumCorrect == ASSUME ~PerRecord PROVE Spec => []QuorumOfAuthority
<1>1. AllBacked => QuorumOfAuthority
  BY BackedQuorum DEF QuorumOfAuthority, AllBacked, Backed
<1> QED
  BY <1>1, BackedInvariant, PTL

\* Under an authority the requester never decides its own call, in person or
\* through its grantee.
THEOREM SeparationOfDuties == Spec => []NoSelfDealing
<1>1. AllBacked => NoSelfDealing
  BY DEF AllBacked, Backed, NoSelfDealing
<1> QED
  BY <1>1, BackedInvariant, PTL

(***************************************************************************)
(* One set of arguments                                                    *)
(***************************************************************************)

\* All approvals of a record agree; they are what it was approved for; and a
\* record that waits without an authority has none yet.
Agreed(id, record) ==
    /\ \A e, f \in Approved(record.approvals) : e.arguments = f.arguments
    /\ record.verdict = "approved" =>
          \A e \in Approved(record.approvals) : e.arguments = record.approved_arguments
    /\ record.status = "pending" /\ ~Governed(id) => record.approvals = {}

AllAgreed == \A id \in DOMAIN records : Agreed(id, records[id])

\* A decision keeps its record's approvals in agreement.
LEMMA OutcomeKeepsAgreed ==
    ASSUME NEW id, NEW old \in ApprovalRecord, NEW new,
           old.status = "pending", old.verdict = "none",
           Agreed(id, old), Outcome(id, old, new)
    PROVE  Agreed(id, new)
<1>1. PICK by \in Principals :
        \/ ~Governed(id) /\ \E verdict \in Verdicts, arguments \in Arguments :
              new = Ungoverned(old, by, verdict, arguments, now)
        \/ new = Rejected(old, by)
        \/ Governed(id) /\ \E b \in Bases : new = Denied(old, by, b, now)
        \/ Governed(id) /\ \E b \in Bases, arguments \in Arguments :
              MayApprove(old, by, arguments) /\ new = Tallied(old, by, arguments, b, now)
  BY DEF Outcome
<1>2. ASSUME ~Governed(id), NEW verdict \in Verdicts, NEW arguments \in Arguments,
             new = Ungoverned(old, by, verdict, arguments, now)
      PROVE  Agreed(id, new)
  <2> DEFINE e == MkEntry(by, verdict, arguments, [basis |-> by, rules |-> {}], now)
  <2>1. /\ new.approvals = {e} /\ new.status = verdict
        /\ new.approved_arguments = e.arguments
    BY <1>2 DEF Agreed, Ungoverned, Settled, ApprovalRecord
  <2> HIDE DEF e
  <2> QED
    BY <2>1 DEF Agreed, Approved, Verdicts
<1>3. CASE new = Rejected(old, by)
  <2>1. /\ new.approvals = old.approvals /\ new.verdict = old.verdict
        /\ new.status = old.status /\ new.approved_arguments = old.approved_arguments
    BY <1>3 DEF Rejected, ApprovalRecord
  <2> QED
    BY <2>1 DEF Agreed
<1>4. ASSUME Governed(id), NEW b \in Bases, new = Denied(old, by, b, now)
      PROVE  Agreed(id, new)
  <2> DEFINE e == MkEntry(by, "denied", NoEdit, b, now)
  <2>1. new.approvals = old.approvals \cup {e} /\ new.verdict = "denied"
    BY <1>4 DEF Denied, Settled, ApprovalRecord
  <2>2. e.verdict = "denied"
    BY DEF MkEntry
  <2> HIDE DEF e
  <2>3. Approved(new.approvals) = Approved(old.approvals)
    BY <2>1, <2>2 DEF Approved
  <2> QED
    BY <1>4, <2>1, <2>3 DEF Agreed
<1>5. ASSUME Governed(id), NEW b \in Bases, NEW arguments \in Arguments,
             MayApprove(old, by, arguments), new = Tallied(old, by, arguments, b, now)
      PROVE  Agreed(id, new)
  <2> DEFINE e == MkEntry(by, "approved", arguments, b, now)
  <2>1. /\ new.approvals = old.approvals \cup {e}
        /\ new.verdict = "approved" => new.approved_arguments = e.arguments
    BY <1>5 DEF Tallied, Settled, ApprovalRecord
  <2>2. e.arguments = arguments
    BY DEF MkEntry
  <2> HIDE DEF e
  <2>3. \A f \in Approved(new.approvals) : f.arguments = arguments
    BY <1>5, <2>1, <2>2 DEF Approved, MayApprove
  <2> QED
    BY <1>5, <2>1, <2>2, <2>3 DEF Agreed
<1> QED
  BY <1>1, <1>2, <1>3, <1>4, <1>5

\* Whoever approved a call approved the arguments it will run with, also when
\* authorities are installed record by record.
THEOREM ArgumentsCorrect == Spec => []ApprovedTogether
<1>1. Init => AllAgreed
  BY DEF Init, AllAgreed
<1>2. TypeOK /\ AllAgreed /\ [Next]_vars => AllAgreed'
  <2> SUFFICES ASSUME TypeOK, AllAgreed, [Next]_vars PROVE AllAgreed'
    OBVIOUS
  <2>0. installed \subseteq installed' =>
          \A id, record : Agreed(id, record) => Agreed(id, record)'
    BY DEF Agreed, Governed, Approved
  <2>1. ASSUME NEW call \in Calls, NEW labels \in LabelSets, Submit(call, labels)
        PROVE  AllAgreed'
    <3>1. \A id : Agreed(id, NewRecord(labels))
      BY DEF Agreed, NewRecord, Approved
    <3>2. records' = Put(records, NextId(records, call), NewRecord(labels))
      BY <2>1 DEF Submit, Submitted
    <3>3. \A id \in DOMAIN records' : Agreed(id, records'[id])
      BY <3>1, <3>2 DEF Put, AllAgreed
    <3> QED
      BY <2>1, <3>3 DEF Submit, AllAgreed, Agreed, Governed
  <2>2. ASSUME NEW id \in DOMAIN records, Install(id) PROVE AllAgreed'
    BY <2>2 DEF Install, AllAgreed, Agreed, Governed
  <2>3. ASSUME NEW id \in DOMAIN records, Decide(id) PROVE AllAgreed'
    <3>1. records[id].status = "pending" /\ records[id].verdict = "none"
      BY <2>3, DecisionOutcome DEF TypeOK
    <3>2. PICK new : Outcome(id, records[id], new) /\ Become(id, new)
      BY <2>3, DecisionOutcome
    <3>3. Agreed(id, new)
      BY <3>1, <3>2, OutcomeKeepsAgreed DEF TypeOK, AllAgreed
    <3> QED
      BY <3>2, <3>3 DEF Become, AllAgreed, Agreed, Governed
  <2>4. ASSUME NEW id \in DOMAIN records, Consume(id) PROVE AllAgreed'
    <3>1. /\ Consumed(records[id]).approvals = records[id].approvals
          /\ Consumed(records[id]).verdict = records[id].verdict
          /\ Consumed(records[id]).approved_arguments = records[id].approved_arguments
          /\ Consumed(records[id]).status = "consumed"
      BY DEF Consumed, TypeOK, ApprovalRecord
    <3>2. Agreed(id, Consumed(records[id]))
      BY <3>1 DEF AllAgreed, Agreed
    <3> QED
      BY <2>4, <3>2 DEF Consume, Become, AllAgreed, Agreed, Governed
  <2>5. ASSUME Tick PROVE AllAgreed'
    BY <2>5 DEF Tick, AllAgreed, Agreed, Governed
  <2>6. ASSUME UNCHANGED vars PROVE AllAgreed'
    BY <2>6 DEF vars, AllAgreed, Agreed, Governed
  <2> QED
    BY <2>1, <2>2, <2>3, <2>4, <2>5, <2>6 DEF Next
<1>3. AllAgreed => ApprovedTogether
  BY DEF AllAgreed, Agreed, ApprovedTogether
<1> QED
  BY <1>1, <1>2, <1>3, TypeCorrect, PTL DEF Spec

(***************************************************************************)
(* Records are never lost                                                  *)
(***************************************************************************)

\* A decision leaves its record waiting or settles it; it never consumes it.
LEMMA StatusOfOutcome ==
    ASSUME NEW id, NEW old \in ApprovalRecord, NEW new, old.status = "pending",
           Outcome(id, old, new)
    PROVE  new.status \in {"pending", "approved", "denied"}
<1>1. PICK by \in Principals :
        \/ \E verdict \in Verdicts, arguments \in Arguments :
              new = Ungoverned(old, by, verdict, arguments, now)
        \/ new = Rejected(old, by)
        \/ \E b \in Bases : new = Denied(old, by, b, now)
        \/ \E b \in Bases, arguments \in Arguments :
              new = Tallied(old, by, arguments, b, now)
  BY DEF Outcome
<1>2. ASSUME NEW verdict \in Verdicts, NEW arguments \in Arguments,
             new = Ungoverned(old, by, verdict, arguments, now)
      PROVE  new.status = verdict
  BY <1>2 DEF Ungoverned, Settled, ApprovalRecord
<1>3. new = Rejected(old, by) => new.status = "pending"
  BY DEF Rejected, ApprovalRecord
<1>4. ASSUME NEW b \in Bases, new = Denied(old, by, b, now)
      PROVE  new.status = "denied"
  BY <1>4 DEF Denied, Settled, ApprovalRecord
<1>5. ASSUME NEW b \in Bases, NEW arguments \in Arguments,
             new = Tallied(old, by, arguments, b, now)
      PROVE  new.status \in {"pending", "approved"}
  BY <1>5 DEF Tallied, Settled, ApprovalRecord
<1> QED
  BY <1>1, <1>2, <1>3, <1>4, <1>5 DEF Verdicts

\* One call has at most one live record, however often it is held again.
THEOREM OneLiveCorrect == Spec => []OneLivePerCall
<1>1. Init => OneLivePerCall
  BY DEF Init, OneLivePerCall
<1>2. TypeOK /\ OneLivePerCall /\ [Next]_vars => OneLivePerCall'
  <2> SUFFICES ASSUME TypeOK, OneLivePerCall, [Next]_vars PROVE OneLivePerCall'
    OBVIOUS
  <2>1. ASSUME NEW call \in Calls, NEW labels \in LabelSets, Submit(call, labels)
        PROVE  OneLivePerCall'
    <3>1. \A i \in DOMAIN records : i.call = call => records[i].status \notin Live
      BY <2>1 DEF Submit, CanOpen, LiveFor, SameCall
    <3>2. NextId(records, call).call = call
      BY DEF NextId
    <3> QED
      BY <2>1, <3>1, <3>2 DEF Submit, Submitted, Put, OneLivePerCall
  <2>2. ASSUME NEW id \in DOMAIN records, Install(id) PROVE OneLivePerCall'
    BY <2>2 DEF Install, OneLivePerCall
  <2>3. ASSUME NEW id \in DOMAIN records, Decide(id) PROVE OneLivePerCall'
    <3>1. records[id].status \in Live
      BY <2>3, DecisionOutcome DEF Live
    <3>2. PICK new : Become(id, new)
      BY <2>3, DecisionOutcome
    <3> QED
      BY <3>1, <3>2 DEF Become, OneLivePerCall
  <2>4. ASSUME NEW id \in DOMAIN records, Consume(id) PROVE OneLivePerCall'
    <3>1. records[id].status \in Live
      BY <2>4 DEF Consume, Consumable, Live
    <3> QED
      BY <2>4, <3>1 DEF Consume, Become, OneLivePerCall
  <2>5. ASSUME Tick PROVE OneLivePerCall'
    BY <2>5 DEF Tick, OneLivePerCall
  <2>6. ASSUME UNCHANGED vars PROVE OneLivePerCall'
    BY <2>6 DEF vars, OneLivePerCall
  <2> QED
    BY <2>1, <2>2, <2>3, <2>4, <2>5, <2>6 DEF Next
<1> QED
  BY <1>1, <1>2, TypeCorrect, PTL DEF Spec

\* Generations count up: none exceeds the number of records of its call, so the
\* next one is new.
Counting ==
    /\ IsFiniteSet(DOMAIN records)
    /\ \A i \in DOMAIN records : i.generation <= Cardinality(SameCall(records, i.call))

\* The id submit() makes up is the id of no record.
LEMMA NextIdIsNew ==
    ASSUME TypeOK, Counting, NEW call \in Calls
    PROVE  NextId(records, call) \notin DOMAIN records
<1> SUFFICES ASSUME NextId(records, call) \in DOMAIN records PROVE FALSE
  OBVIOUS
<1>1. Cardinality(SameCall(records, call)) \in Nat
  <2>1. IsFiniteSet(SameCall(records, call))
    BY FS_Subset DEF SameCall, Counting
  <2> QED
    BY <2>1, FS_CardinalityType
<1>2. NextId(records, call).call = call
  BY DEF NextId
<1>3. NextId(records, call).generation <= Cardinality(SameCall(records, call))
  BY <1>2 DEF Counting
<1> QED
  BY <1>1, <1>3 DEF NextId

\* Only submit() adds a record, and it takes the next number.
LEMMA CountingStep ==
    TypeOK /\ Counting /\ [Next]_vars => Counting'
<1> SUFFICES ASSUME TypeOK, Counting, [Next]_vars PROVE Counting'
  OBVIOUS
<1>1. ASSUME NEW call \in Calls, NEW labels \in LabelSets, Submit(call, labels)
      PROVE  Counting'
  <2> DEFINE id == NextId(records, call)
             D == DOMAIN records
             N(c) == Cardinality({i \in D : i.call = c})
             M(c) == Cardinality({i \in D \cup {id} : i.call = c})
  <2>1. id \notin D
    BY NextIdIsNew
  <2>2. DOMAIN records' = D \cup {id} /\ id.call = call /\ id.generation = N(call) + 1
    BY <1>1 DEF Submit, Submitted, Put, NextId, SameCall
  <2>3. \A c : IsFiniteSet({i \in D : i.call = c}) /\ N(c) \in Nat
    BY FS_Subset, FS_CardinalityType DEF Counting
  <2> HIDE DEF id
  <2>4. M(call) = N(call) + 1
    <3>1. {i \in D \cup {id} : i.call = call} = {i \in D : i.call = call} \cup {id}
      BY <2>2
    <3> QED
      BY SMTT(20), <2>1, <2>3, <3>1, FS_AddElement
  <2>5. ASSUME NEW c, c # call
        PROVE  M(c) = N(c)
    <3>1. {i \in D \cup {id} : i.call = c} = {i \in D : i.call = c}
      BY <2>2, <2>5
    <3> QED
      BY <3>1
  <2>6. IsFiniteSet(D \cup {id})
    BY FS_AddElement DEF Counting
  <2>7. ASSUME NEW i \in D \cup {id}
        PROVE  i.generation <= M(i.call)
    <3>1. CASE i = id
      <4>1. M(i.call) = M(call)
        BY <2>2, <3>1, Zenon
      <4> QED
        BY <2>2, <2>3, <2>4, <3>1, <4>1
    <3>2. CASE i \in D
      <4>1. i.generation <= N(i.call) /\ i.generation \in Nat
        BY <3>2 DEF Counting, SameCall, TypeOK, Ids
      <4>2. CASE i.call = call
        <5>1. M(i.call) = M(call) /\ N(i.call) = N(call)
          BY <4>2, Zenon
        <5> QED
          BY <2>3, <2>4, <4>1, <5>1
      <4>3. CASE i.call # call
        <5>1. M(i.call) = N(i.call)
          BY <2>5, <4>3
        <5> QED
          BY <4>1, <5>1
      <4> QED
        BY <4>2, <4>3
    <3> QED
      BY <3>1, <3>2
  <2> QED
    BY <2>2, <2>6, <2>7 DEF Counting, SameCall
<1>2. ASSUME DOMAIN records' = DOMAIN records PROVE Counting'
  BY <1>2 DEF Counting, SameCall
<1>3. ASSUME NEW id \in DOMAIN records, Decide(id) PROVE DOMAIN records' = DOMAIN records
  BY <1>3, DecisionOutcome DEF Become
<1>4. ASSUME NEW id \in DOMAIN records, Install(id) \/ Consume(id)
      PROVE  DOMAIN records' = DOMAIN records
  BY <1>4 DEF Install, Consume, Become
<1>5. Tick \/ UNCHANGED vars => DOMAIN records' = DOMAIN records
  BY DEF Tick, vars
<1> QED
  BY <1>1, <1>2, <1>3, <1>4, <1>5 DEF Next

\* The generations of a call are counted without a gap, so that the id submit()
\* makes of their number is new.
THEOREM CountingCorrect == Spec => []Counting
<1>1. Init => Counting
  <2> SUFFICES ASSUME Init PROVE Counting
    OBVIOUS
  <2>1. DOMAIN records = {}
    BY DEF Init
  <2> QED
    BY <2>1, FS_EmptySet DEF Counting
<1>2. TypeOK /\ Counting /\ [Next]_vars => Counting'
  BY CountingStep
<1> QED
  BY <1>1, <1>2, TypeCorrect, PTL DEF Spec

\* Every operation of the store advances the records it finds, or leaves them.
LEMMA AdvanceStep ==
    TypeOK /\ Counting /\ [Next]_vars =>
      \A id \in DOMAIN records :
         id \in DOMAIN records' /\ Advances(records[id], records'[id])
<1> SUFFICES ASSUME TypeOK, Counting, [Next]_vars, NEW i \in DOMAIN records
             PROVE  i \in DOMAIN records' /\ Advances(records[i], records'[i])
  OBVIOUS
<1>0. /\ records[i] \in ApprovalRecord
      /\ Advances(records[i], records[i])
  BY DEF TypeOK, ApprovalRecord, Advances
<1>1. ASSUME NEW call \in Calls, NEW labels \in LabelSets, Submit(call, labels)
      PROVE  i \in DOMAIN records' /\ records'[i] = records[i]
  BY <1>1, NextIdIsNew DEF Submit, Submitted, Put
<1>2. ASSUME NEW id \in DOMAIN records, Install(id)
      PROVE  i \in DOMAIN records' /\ records'[i] = records[i]
  BY <1>2 DEF Install
<1>3. ASSUME NEW id \in DOMAIN records, Decide(id)
      PROVE  i \in DOMAIN records' /\ Advances(records[i], records'[i])
  <2>1. PICK new : Outcome(id, records[id], new) /\ Become(id, new)
    BY <1>3, DecisionOutcome
  <2>2. CASE i = id
    <3>1. records[i].status = "pending"
      BY <1>3, <2>2, DecisionOutcome
    <3>2. new.status \in {"pending", "approved", "denied"}
      BY <1>0, <2>1, <2>2, <3>1, StatusOfOutcome
    <3>3. records' = [records EXCEPT ![id] = new]
      BY <2>1 DEF Become
    <3> QED
      BY <2>2, <3>1, <3>2, <3>3 DEF Advances, Statuses
  <2>3. CASE i # id
    <3>1. records' = [records EXCEPT ![id] = new]
      BY <2>1 DEF Become
    <3> QED
      BY <1>0, <2>3, <3>1
  <2> QED
    BY <2>2, <2>3
<1>4. ASSUME NEW id \in DOMAIN records, Consume(id)
      PROVE  i \in DOMAIN records' /\ Advances(records[i], records'[i])
  <2>1. CASE i = id
    <3>1. /\ Settlement(Consumed(records[i])) = Settlement(records[i])
          /\ Consumed(records[i]).status = "consumed"
      BY <1>0 DEF Consumed, Settlement, ApprovalRecord
    <3> QED
      BY <1>4, <2>1, <3>1 DEF Consume, Consumable, Become, Advances
  <2>2. CASE i # id
    BY <1>0, <1>4, <2>2 DEF Consume, Become
  <2> QED
    BY <2>1, <2>2
<1>5. Tick \/ UNCHANGED vars => records' = records
  BY DEF Tick, vars
<1> QED
  BY <1>0, <1>1, <1>2, <1>3, <1>4, <1>5 DEF Next

\* No record is dropped or reopened, and a settlement never changes: a new record
\* never takes the id of an old one, and a decided one is only ever consumed.
THEOREM RecordsAdvance == Spec => RecordsOnlyAdvance
<1>1. TypeOK /\ Counting /\ [Next]_vars =>
        \A id \in DOMAIN records :
           id \in DOMAIN records' /\ Advances(records[id], records'[id])
  BY AdvanceStep
<1> QED
  BY <1>1, TypeCorrect, CountingCorrect, PTL DEF Spec, RecordsOnlyAdvance

(***************************************************************************)
(* Each group its own people                                               *)
(***************************************************************************)

\* The people an approval of rule i counts, among these entries.
Voters(entries, i) == {e.by : e \in {a \in Approved(entries) : i \in a.rules}}

\* The seats that the approvals of a record have filled.
Taken(record) == {s \in Seats(record.labels) : s[2] <= Counted(record.approvals, s[1])}

\* A waiting record was decided on only under its authority, and a rule of it is
\* short; a record approved under its authority has as many approvers as filled
\* seats, no rule more than its quorum, and once it is settled none less.
Seated(record) ==
    /\ record.status = "pending" =>
          /\ UnderAuthority(record)
          /\ Matching(record.labels) # {} => Unmet(record.labels, record.approvals) # {}
    /\ UnderAuthority(record) /\ record.verdict # "denied" =>
          /\ \A i \in Matching(record.labels) :
                Counted(record.approvals, i) <= Rules[i].quorum
          /\ Cardinality(Approvers(record)) = Cardinality(Taken(record))
          /\ record.verdict = "approved" => Satisfied(record.labels, record.approvals)

AllSeated == \A id \in DOMAIN records : Seated(records[id])

\* There are finitely many seats.
LEMMA SeatsAreFinite ==
    ASSUME NEW labels
    PROVE  IsFiniteSet(Seats(labels))
<1> DEFINE rows == {{i} \X (1 .. Rules[i].quorum) : i \in Matching(labels)}
           row == [i \in Matching(labels) |-> {i} \X (1 .. Rules[i].quorum)]
<1>1. IsFiniteSet(Matching(labels))
  <2>1. Len(Rules) \in Int /\ DOMAIN Rules = 1 .. Len(Rules)
    BY AuthorityAssumption
  <2>2. IsFiniteSet(DOMAIN Rules)
    BY <2>1, FS_Interval
  <2> QED
    BY <2>2, FS_Subset DEF Matching
<1>2. row \in Surjection(Matching(labels), rows)
  BY DEF Surjection
<1>3. IsFiniteSet(rows)
  BY <1>1, <1>2, FS_Surjection
<1>4. ASSUME NEW i \in Matching(labels) PROVE IsFiniteSet({i} \X (1 .. Rules[i].quorum))
  <2>1. Rules[i].quorum \in Int
    BY AuthorityAssumption DEF Matching, ApproverRule
  <2> DEFINE quorum == Rules[i].quorum
  <2> HIDE DEF quorum
  <2>2. IsFiniteSet(1 .. quorum)
    BY <2>1, FS_Interval DEF quorum
  <2>3. IsFiniteSet({i})
    BY FS_Singleton
  <2> QED
    BY <2>2, <2>3, FS_Product DEF quorum
<1>5. \A R \in rows : IsFiniteSet(R)
  BY <1>4
<1> HIDE DEF rows
<1>6. IsFiniteSet(UNION rows)
  BY <1>3, <1>5, FS_UNION
<1> QED
  BY <1>6 DEF Seats, rows

\* The people counted are finitely many.
LEMMA CountedType ==
    ASSUME NEW entries \in SUBSET Entry, NEW i
    PROVE  /\ IsFiniteSet(Voters(entries, i))
           /\ Counted(entries, i) = Cardinality(Voters(entries, i))
           /\ Counted(entries, i) \in Nat
<1>1. Voters(entries, i) \in SUBSET Principals
  BY DEF Voters, Approved, Entry
<1>2. IsFiniteSet(Voters(entries, i))
  BY <1>1, AuthorityAssumption, FS_Subset
<1> QED
  BY <1>2, FS_CardinalityType DEF Counted, Voters

\* With count_once an approval of a waiting record counts under one rule, which
\* is one of those still short.
LEMMA OneShortRule ==
    ASSUME CountOnce, NEW call \in Calls, NEW record \in ApprovalRecord, Seated(record),
           record.status = "pending", NEW by \in Principals, NEW t \in Times,
           NEW b \in Check(call, record, by, "approved", t)
    PROVE  \E i \in Unmet(record.labels, record.approvals) : b.rules = {i}
<1>1. PICK wide \in Basis(call, record.labels, by, t) : b \in Narrowed(record, wide)
  BY DEF Check
<1>2. SoundBasis(call, record.labels, by, t, wide)
  BY BasisIsSound DEF ApprovalRecord
<1>3. Matching(record.labels) # {}
  BY <1>2 DEF SoundBasis, HeldRules
<1>4. Unmet(record.labels, record.approvals) # {}
  BY <1>3 DEF Seated
<1> QED
  BY <1>1, <1>4 DEF Narrowed, First

\* An approver who is new to the record, counted under one rule that is short,
\* fills one more seat.
LEMMA OneMoreSeat ==
    ASSUME NEW old \in ApprovalRecord, NEW new \in ApprovalRecord, NEW e \in Entry,
           NEW i \in Unmet(old.labels, old.approvals),
           e.verdict = "approved", e.rules = {i}, e.by \notin Approvers(old),
           new.labels = old.labels, new.approvals = old.approvals \cup {e},
           \A j \in Matching(old.labels) : Counted(old.approvals, j) <= Rules[j].quorum,
           Cardinality(Approvers(old)) = Cardinality(Taken(old))
    PROVE  /\ \A j \in Matching(new.labels) : Counted(new.approvals, j) <= Rules[j].quorum
           /\ Cardinality(Approvers(new)) = Cardinality(Taken(new))
<1> DEFINE n == Counted(old.approvals, i)
<1>1. old.approvals \in SUBSET Entry /\ new.approvals \in SUBSET Entry
  BY DEF ApprovalRecord
<1>2. i \in Matching(old.labels) /\ n < Rules[i].quorum /\ n \in Nat
  BY <1>1, CountedType DEF Unmet
<1>3. Approved(new.approvals) = Approved(old.approvals) \cup {e}
  BY DEF Approved
<1>4. \A j : j # i => Voters(new.approvals, j) = Voters(old.approvals, j)
  BY <1>3 DEF Voters
<1>5. Voters(new.approvals, i) = Voters(old.approvals, i) \cup {e.by}
  BY <1>3 DEF Voters
<1>6. e.by \notin Voters(old.approvals, i)
  BY DEF Voters, Approvers
<1>7. Counted(new.approvals, i) = n + 1
  <2>1. IsFiniteSet(Voters(old.approvals, i)) /\ n = Cardinality(Voters(old.approvals, i))
    BY <1>1, CountedType
  <2>2. Cardinality(Voters(old.approvals, i) \cup {e.by}) = Cardinality(Voters(old.approvals, i)) + 1
    BY <1>6, <2>1, FS_AddElement
  <2>3. Counted(new.approvals, i) = Cardinality(Voters(new.approvals, i))
    BY <1>1, CountedType
  <2> QED
    BY <1>5, <2>1, <2>2, <2>3
<1>8. \A j : j # i => Counted(new.approvals, j) = Counted(old.approvals, j)
  BY <1>1, <1>4, CountedType
<1>9. \A j \in Matching(new.labels) : Counted(new.approvals, j) <= Rules[j].quorum
  <2>1. Rules[i].quorum \in Nat
    BY <1>2, AuthorityAssumption DEF Matching, ApproverRule
  <2>2. n + 1 <= Rules[i].quorum
    BY <1>2, <2>1
  <2> QED
    BY <1>7, <1>8, <2>2
<1>10. Taken(new) = Taken(old) \cup {<<i, n + 1>>}
  <2>1. Seats(new.labels) = Seats(old.labels)
    OBVIOUS
  <2>2. Rules[i].quorum \in Nat
    BY <1>2, AuthorityAssumption DEF Matching, ApproverRule
  <2>3. <<i, n + 1>> \in Seats(old.labels)
    <3>1. n + 1 \in 1 .. Rules[i].quorum
      BY <1>2, <2>2
    <3> HIDE DEF n
    <3> QED
      BY <1>2, <3>1 DEF Seats
  <2>4. \A s \in Seats(old.labels) : s = <<s[1], s[2]>> /\ s[2] \in Nat
    <3> SUFFICES ASSUME NEW s \in Seats(old.labels) PROVE s = <<s[1], s[2]>> /\ s[2] \in Nat
      OBVIOUS
    <3>1. PICK j \in Matching(old.labels) : s \in {j} \X (1 .. Rules[j].quorum)
      BY DEF Seats
    <3> QED
      BY <3>1
  <2>5. ASSUME NEW s \in Seats(old.labels)
        PROVE  s \in Taken(new) <=> s \in Taken(old) \cup {<<i, n + 1>>}
    <3>1. s = <<s[1], s[2]>> /\ s[2] \in Nat
      BY <2>4
    <3>2. CASE s[1] # i
      <4>1. Counted(new.approvals, s[1]) = Counted(old.approvals, s[1])
        BY <1>8, <3>2
      <4>2. s # <<i, n + 1>>
        BY <3>1, <3>2
      <4> QED
        BY <2>1, <4>1, <4>2 DEF Taken
    <3>3. CASE s[1] = i
      <4>1. s[2] <= n + 1 <=> s[2] <= n \/ s[2] = n + 1
        BY <1>2, <3>1
      <4>2. s = <<i, n + 1>> <=> s[2] = n + 1
        BY <3>1, <3>3
      <4>3. s \in Taken(new) <=> s[2] <= n + 1
        BY <1>7, <2>1, <3>3 DEF Taken
      <4>4. s \in Taken(old) <=> s[2] <= n
        BY <3>3 DEF Taken
      <4> QED
        BY <4>1, <4>2, <4>3, <4>4
    <3> QED
      BY <3>2, <3>3
  <2>6. Taken(new) \subseteq Seats(old.labels) /\ Taken(old) \subseteq Seats(old.labels)
    BY <2>1 DEF Taken
  <2> QED
    BY <2>3, <2>5, <2>6
<1>11. <<i, n + 1>> \notin Taken(old)
  <2>1. ~(n + 1 <= n)
    BY <1>2
  <2> QED
    BY <2>1 DEF Taken
<1>12. Approvers(new) = Approvers(old) \cup {e.by}
  BY <1>3 DEF Approvers
<1>13. IsFiniteSet(Approvers(old)) /\ IsFiniteSet(Taken(old))
  <2>1. Approvers(old) \in SUBSET Principals
    BY <1>1 DEF Approvers, Approved, Entry
  <2> QED
    BY <2>1, AuthorityAssumption, SeatsAreFinite, FS_Subset DEF Taken
<1>14. Cardinality(Approvers(new)) = Cardinality(Approvers(old)) + 1
  BY <1>12, <1>13, FS_AddElement
<1>15. Cardinality(Taken(new)) = Cardinality(Taken(old)) + 1
  BY <1>10, <1>11, <1>13, FS_AddElement
<1> QED
  BY <1>9, <1>14, <1>15

\* A new record has its rules short and no seat filled.
LEMMA NewIsSeated ==
    ASSUME NEW labels \in LabelSets
    PROVE  Seated(NewRecord(labels))
<1> DEFINE r == NewRecord(labels)
<1>1. /\ r.approvals = {} /\ r.labels = labels
      /\ r.status = "pending" /\ r.verdict = "none"
  BY DEF NewRecord
<1> HIDE DEF r
<1>2. \A i : Counted(r.approvals, i) = 0
  BY <1>1, FS_EmptySet DEF Counted, Approved
<1>3. \A i \in Matching(labels) : Rules[i].quorum \in Nat /\ Rules[i].quorum >= 1
  BY AuthorityAssumption DEF Matching, ApproverRule
<1>4. Taken(r) = {}
  <2> SUFFICES ASSUME NEW s \in Seats(labels) PROVE ~(s[2] <= 0)
    BY <1>1, <1>2 DEF Taken
  <2>1. PICK i \in Matching(labels) : s \in {i} \X (1 .. Rules[i].quorum)
    BY DEF Seats
  <2>2. s[2] \in 1 .. Rules[i].quorum
    BY <2>1
  <2> QED
    BY <1>3, <2>2
<1>5. Approvers(r) = {}
  BY <1>1 DEF Approvers, Approved
<1>6. UnderAuthority(r)
  BY <1>1 DEF UnderAuthority
<1>7. Matching(labels) # {} => Unmet(labels, r.approvals) # {}
  BY <1>2, <1>3 DEF Unmet
<1>8. \A i \in Matching(labels) : Counted(r.approvals, i) <= Rules[i].quorum
  BY <1>2, <1>3
<1>9. Seated(r)
  BY <1>1, <1>4, <1>5, <1>6, <1>7, <1>8 DEF Seated
<1> QED
  BY <1>9 DEF r

\* A decision leaves the seats in order: without an authority the record is no
\* longer under one, a denial ends it, and an approval fills a seat of a short rule.
LEMMA DecisionKeepsSeated ==
    ASSUME CountOnce, TypeOK, NEW id \in DOMAIN records, Decide(id), Seated(records[id])
    PROVE  \E new : Seated(new) /\ Become(id, new)
<1> DEFINE old == records[id]
<1>1. PICK by \in Principals :
         \/ \E verdict \in Verdicts, arguments \in Arguments :
               DecideUngoverned(id, by, verdict, arguments)
         \/ \E verdict \in Verdicts : Refuse(id, by, verdict)
         \/ Deny(id, by)
         \/ \E arguments \in Arguments : Approve(id, by, arguments)
  BY DEF Decide
<1>2. now \in Times /\ id.call \in Calls /\ old \in ApprovalRecord
  BY DEF TypeOK, Ids
<1>3. old.status = "pending" /\ old.verdict = "none"
  BY <1>1, <1>2 DEF DecideUngoverned, Refuse, Deny, Approve, Decidable, TypeOK
<1>4. ASSUME NEW verdict \in Verdicts, NEW arguments \in Arguments,
             DecideUngoverned(id, by, verdict, arguments)
      PROVE  \E new : Seated(new) /\ Become(id, new)
  <2> DEFINE new == Ungoverned(old, by, verdict, arguments, now)
             e == MkEntry(by, verdict, arguments, [basis |-> by, rules |-> {}], now)
  <2>1. new.status = verdict /\ e \in new.approvals /\ e.rules = {}
    BY <1>2 DEF Ungoverned, Settled, ApprovalRecord, MkEntry
  <2>2. ~UnderAuthority(new) /\ new.status # "pending"
    BY <2>1 DEF UnderAuthority, Verdicts
  <2>3. Seated(new)
    <3> HIDE DEF new
    <3> QED
      BY <2>2 DEF Seated
  <2> QED
    BY <1>4, <2>3 DEF DecideUngoverned
<1>5. ASSUME NEW verdict \in Verdicts, Refuse(id, by, verdict)
      PROVE  \E new : Seated(new) /\ Become(id, new)
  <2> DEFINE new == Rejected(old, by)
  <2>1. /\ new.status = old.status /\ new.verdict = old.verdict
        /\ new.labels = old.labels /\ new.approvals = old.approvals
    BY <1>2 DEF Rejected, ApprovalRecord
  <2>2. Seated(new)
    <3> HIDE DEF new
    <3>1. Taken(new) = Taken(old) /\ Approvers(new) = Approvers(old)
      BY <2>1 DEF Taken, Approvers
    <3> QED
      BY <2>1, <3>1 DEF Seated, UnderAuthority
  <2> QED
    BY <1>5, <2>2 DEF Refuse
<1>6. ASSUME Deny(id, by)
      PROVE  \E new : Seated(new) /\ Become(id, new)
  <2>1. PICK b \in Check(id.call, old, by, "denied", now) :
            Become(id, Denied(old, by, b, now))
    BY <1>6 DEF Deny
  <2>2. Denied(old, by, b, now).status = "denied" /\ Denied(old, by, b, now).verdict = "denied"
    BY <1>2 DEF Denied, Settled, ApprovalRecord
  <2>3. Seated(Denied(old, by, b, now))
    BY <2>2 DEF Seated
  <2> QED
    BY <2>1, <2>3
<1>7. ASSUME NEW arguments \in Arguments, Approve(id, by, arguments)
      PROVE  \E new : Seated(new) /\ Become(id, new)
  <2>1. PICK b \in Check(id.call, old, by, "approved", now) :
            Become(id, Tallied(old, by, arguments, b, now))
    BY <1>7 DEF Approve
  <2> DEFINE e == MkEntry(by, "approved", arguments, b, now)
             new == Tallied(old, by, arguments, b, now)
  <2>2. PICK i \in Unmet(old.labels, old.approvals) : b.rules = {i}
    BY <1>2, <1>3, <2>1, OneShortRule
  <2>3. b \in Bases
    BY <1>2, <2>1, CheckIsSound DEF SoundBasis
  <2>4. e \in Entry
    BY <1>2, <2>3, EntryType DEF Verdicts
  <2>5. e.verdict = "approved" /\ e.rules = {i} /\ e.by \notin Approvers(old)
    BY <1>7, <2>2 DEF MkEntry, Approve, MayApprove
  <2>6. WellFormed(new)
    BY <1>2, <1>3, <2>3, TalliedIsWellFormed DEF WellFormed, TypeOK
  <2>7. /\ new.labels = old.labels /\ new.approvals = old.approvals \cup {e}
        /\ new.status = "pending" => ~Satisfied(old.labels, old.approvals \cup {e})
        /\ new.verdict = "approved" => Satisfied(old.labels, old.approvals \cup {e})
    BY <1>2, <1>3 DEF Tallied, Settled, ApprovalRecord
  <2>8. UnderAuthority(old) /\ UnderAuthority(new)
    BY <1>3, <2>5, <2>7 DEF Seated, UnderAuthority
  <2> HIDE DEF e, new
  <2>9. /\ \A j \in Matching(old.labels) : Counted(old.approvals, j) <= Rules[j].quorum
        /\ Cardinality(Approvers(old)) = Cardinality(Taken(old))
    BY <1>3, <2>8 DEF Seated
  <2>10. /\ \A j \in Matching(new.labels) : Counted(new.approvals, j) <= Rules[j].quorum
         /\ Cardinality(Approvers(new)) = Cardinality(Taken(new))
    BY <1>2, <2>2, <2>4, <2>5, <2>6, <2>7, <2>9, OneMoreSeat DEF WellFormed
  <2>11. new.status = "pending" => Unmet(new.labels, new.approvals) # {}
    <3> SUFFICES ASSUME new.status = "pending" PROVE Unmet(new.labels, new.approvals) # {}
      OBVIOUS
    <3>1. PICK j \in Matching(new.labels) : ~(Counted(new.approvals, j) >= Rules[j].quorum)
      BY <2>7 DEF Satisfied
    <3>2. Counted(new.approvals, j) \in Nat
      BY <2>6, CountedType DEF WellFormed, ApprovalRecord
    <3>3. Rules[j].quorum \in Nat
      BY AuthorityAssumption DEF Matching, ApproverRule
    <3>4. Counted(new.approvals, j) < Rules[j].quorum
      BY <3>1, <3>2, <3>3
    <3> QED
      BY <3>4 DEF Unmet
  <2>12. Seated(new)
    BY <2>7, <2>8, <2>10, <2>11 DEF Seated
  <2> QED
    BY <2>1, <2>12 DEF new
<1> QED
  BY <1>1, <1>4, <1>5, <1>6, <1>7

\* A record approved under its authority fills every seat, and a waiting one has a
\* seat left.
LEMMA SeatsTell ==
    ASSUME TypeOK, NEW id \in DOMAIN records, Seated(records[id])
    PROVE  LET r == records[id]
               needed == Cardinality(Seats(r.labels))
           IN  /\ r.verdict = "approved" /\ UnderAuthority(r)
                     => Cardinality(Approvers(r)) = needed
               /\ r.status = "pending" => Cardinality(Approvers(r)) < needed \/ needed = 0
<1> DEFINE r == records[id]
           needed == Cardinality(Seats(r.labels))
<1>1. r \in ApprovalRecord /\ (r.status = "pending" => r.verdict = "none")
  BY DEF TypeOK
<1>2. \A i : Counted(r.approvals, i) \in Nat
  BY <1>1, CountedType DEF ApprovalRecord
<1>3. \A i \in Matching(r.labels) : Rules[i].quorum \in Nat /\ Rules[i].quorum >= 1
  BY AuthorityAssumption DEF Matching, ApproverRule
<1>4. IsFiniteSet(Seats(r.labels)) /\ needed \in Nat
  BY SeatsAreFinite, FS_CardinalityType
<1> HIDE DEF r
<1>5. ASSUME r.verdict = "approved", UnderAuthority(r)
      PROVE  Cardinality(Approvers(r)) = needed
  <2>1. Satisfied(r.labels, r.approvals) /\ Cardinality(Approvers(r)) = Cardinality(Taken(r))
    BY <1>5 DEF Seated, r
  <2>2. ASSUME NEW s \in Seats(r.labels) PROVE s[2] <= Counted(r.approvals, s[1])
    <3>1. PICK i \in Matching(r.labels) : s \in {i} \X (1 .. Rules[i].quorum)
      BY DEF Seats
    <3>2. s[1] = i /\ s[2] \in 1 .. Rules[i].quorum
      BY <3>1
    <3>3. Counted(r.approvals, i) >= Rules[i].quorum
      BY <2>1 DEF Satisfied
    <3>4. s[2] <= Counted(r.approvals, i)
      BY <1>2, <1>3, <3>2, <3>3
    <3> QED
      BY <3>2, <3>4
  <2>3. Taken(r) = Seats(r.labels)
    BY <2>2 DEF Taken
  <2> QED
    BY <2>1, <2>3
<1>6. ASSUME r.status = "pending"
      PROVE  Cardinality(Approvers(r)) < needed \/ needed = 0
  <2>1. CASE Matching(r.labels) = {}
    <3>1. Seats(r.labels) = {}
      BY <2>1 DEF Seats
    <3> QED
      BY <3>1, FS_EmptySet
  <2>2. CASE Matching(r.labels) # {}
    <3>1. PICK i \in Matching(r.labels) : Counted(r.approvals, i) < Rules[i].quorum
      BY <1>6, <2>2 DEF Seated, Unmet, r
    <3> DEFINE quorum == Rules[i].quorum
    <3>2. <<i, quorum>> \in Seats(r.labels)
      <4>1. quorum \in 1 .. Rules[i].quorum
        BY <1>3
      <4> HIDE DEF quorum
      <4> QED
        BY <4>1 DEF Seats
    <3>3. <<i, quorum>> \notin Taken(r)
      <4>1. ~(quorum <= Counted(r.approvals, i))
        BY <1>2, <1>3, <3>1
      <4> HIDE DEF quorum
      <4> QED
        BY <4>1 DEF Taken
    <3>4. Taken(r) \in SUBSET Seats(r.labels) /\ Taken(r) # Seats(r.labels)
      BY <3>2, <3>3 DEF Taken
    <3>5. IsFiniteSet(Taken(r)) /\ Cardinality(Taken(r)) <= needed /\ Cardinality(Taken(r)) # needed
      BY <1>4, <3>4, FS_Subset
    <3>6. Cardinality(Taken(r)) \in Nat
      BY <3>5, FS_CardinalityType
    <3>7. Cardinality(Approvers(r)) = Cardinality(Taken(r))
      BY <1>1, <1>6 DEF Seated, r
    <3> QED
      BY <1>4, <3>5, <3>6, <3>7
  <2> QED
    BY <2>1, <2>2
<1> QED
  BY <1>5, <1>6 DEF r

\* With count_once a call is approved under its authority by exactly as many people
\* as the quorums of its rules add up to, whatever the rules, the roles, the
\* delegations and the order of the approvals: nobody fills a seat of two groups.
THEOREM EachGroupCorrect == ASSUME CountOnce PROVE Spec => []EachGroupItsOwnPeople
<1>1. Init => AllSeated
  BY DEF Init, AllSeated
<1>2. TypeOK /\ AllSeated /\ [Next]_vars => AllSeated'
  <2> SUFFICES ASSUME TypeOK, AllSeated, [Next]_vars PROVE AllSeated'
    OBVIOUS
  <2>1. ASSUME NEW call \in Calls, NEW labels \in LabelSets, Submit(call, labels)
        PROVE  AllSeated'
    <3>1. Seated(NewRecord(labels))
      BY NewIsSeated
    <3> QED
      BY <2>1, <3>1 DEF Submit, Submitted, Put, AllSeated
  <2>2. ASSUME NEW id \in DOMAIN records, Install(id) PROVE AllSeated'
    BY <2>2 DEF Install, AllSeated
  <2>3. ASSUME NEW id \in DOMAIN records, Decide(id) PROVE AllSeated'
    <3>1. PICK new : Seated(new) /\ Become(id, new)
      BY <2>3, DecisionKeepsSeated DEF AllSeated
    <3> QED
      BY <3>1 DEF Become, AllSeated
  <2>4. ASSUME NEW id \in DOMAIN records, Consume(id) PROVE AllSeated'
    <3> DEFINE old == records[id]
               new == Consumed(records[id])
    <3>1. /\ new.labels = old.labels /\ new.approvals = old.approvals
          /\ new.verdict = old.verdict /\ new.status = "consumed"
      BY DEF Consumed, TypeOK, ApprovalRecord
    <3>2. Seated(old)
      BY DEF AllSeated
    <3>3. Seated(new)
      <4> HIDE DEF old, new
      <4>1. Taken(new) = Taken(old) /\ Approvers(new) = Approvers(old)
        BY <3>1 DEF Taken, Approvers
      <4> QED
        BY <3>1, <3>2, <4>1 DEF Seated, UnderAuthority
    <3> QED
      BY <2>4, <3>3 DEF Consume, Become, AllSeated
  <2>5. ASSUME Tick PROVE AllSeated'
    BY <2>5 DEF Tick, AllSeated
  <2>6. ASSUME UNCHANGED vars PROVE AllSeated'
    BY <2>6 DEF vars, AllSeated
  <2> QED
    BY <2>1, <2>2, <2>3, <2>4, <2>5, <2>6 DEF Next
<1>3. TypeOK /\ AllSeated => EachGroupItsOwnPeople
  BY SeatsTell DEF AllSeated, EachGroupItsOwnPeople, UnderAuthority
<1> QED
  BY <1>1, <1>2, <1>3, TypeCorrect, PTL DEF Spec

(***************************************************************************)
(* The store in one file                                                   *)
(***************************************************************************)

\* What an operation makes of the content of the file it read: w is what it is about to
\* save.
Made(recs, t, w) ==
    \/ /\ w.consumed = {}
       /\ \E call \in Calls, labels \in LabelSets :
             CanOpen(recs, call) /\ w.records = Submitted(recs, call, labels)
    \/ /\ w.consumed = {}
       /\ \E id \in DOMAIN recs, by \in Principals :
             /\ recs[id].status = "pending"
             /\ \E record \in DecisionsBy(by, id, recs[id], t) : w.records = [recs EXCEPT ![id] = record]
    \/ \E id \in DOMAIN recs :
          /\ Consumable(recs, id) /\ w.consumed = {id}
          /\ w.records = [recs EXCEPT ![id] = Consumed(recs[id])]

Pending == {p \in Processes : writing[p] # Idle}

\* What a step of a process does: it reads the file and computes, its rename replaces the
\* file, or it dies.
LEMMA FileSteps ==
    ASSUME DOMAIN writing = Processes, [FileNext]_fileVars
    PROVE  /\ UNCHANGED <<installed, now>> /\ DOMAIN writing' = Processes
           /\ \/ /\ UNCHANGED <<records, uses>>
                 /\ \A q \in Pending' : Made(records, now, writing'[q]) \/ (q \in Pending /\ writing'[q] = writing[q])
              \/ \E p \in Pending :
                    /\ records' = writing[p].records
                    /\ uses' = [id \in Ids |-> IF id \in writing[p].consumed THEN uses[id] + 1 ELSE uses[id]]
                    /\ writing'[p] = Idle
                    /\ \A q \in Processes \ {p} : writing'[q] = writing[q]
<1>1. ASSUME NEW p \in Processes, NEW w, Begin(p, w), Made(records, now, w)
      PROVE  /\ UNCHANGED <<records, uses, installed, now>> /\ DOMAIN writing' = Processes
             /\ \A q \in Pending' : Made(records, now, writing'[q]) \/ (q \in Pending /\ writing'[q] = writing[q])
  BY <1>1 DEF Begin, Pending
<1>2. ASSUME NEW p \in Processes, Save(p)
      PROVE  /\ UNCHANGED <<installed, now>> /\ DOMAIN writing' = Processes
             /\ p \in Pending
             /\ records' = writing[p].records
             /\ uses' = [id \in Ids |-> IF id \in writing[p].consumed THEN uses[id] + 1 ELSE uses[id]]
             /\ writing'[p] = Idle
             /\ \A q \in Processes \ {p} : writing'[q] = writing[q]
  BY <1>2 DEF Save, Pending
<1>3. ASSUME NEW p \in Processes, WriterDies(p)
      PROVE  /\ UNCHANGED <<records, uses, installed, now>> /\ DOMAIN writing' = Processes
             /\ \A q \in Pending' : q \in Pending /\ writing'[q] = writing[q]
  BY <1>3 DEF WriterDies, Pending
<1>4. ASSUME UNCHANGED fileVars
      PROVE  /\ UNCHANGED <<records, uses, installed, now>> /\ DOMAIN writing' = Processes
             /\ \A q \in Pending' : q \in Pending /\ writing'[q] = writing[q]
  BY <1>4 DEF fileVars, Pending
<1>5. ASSUME NEW p \in Gates, NEW call \in Calls, NEW labels \in LabelSets, BeginSubmit(p, call, labels)
      PROVE  \E w : Begin(p, w) /\ Made(records, now, w)
  <2> DEFINE w == Write(Submitted(records, call, labels), {})
  <2>1. w.consumed = {} /\ w.records = Submitted(records, call, labels)
    BY DEF Write
  <2>2. Begin(p, w) /\ CanOpen(records, call)
    BY <1>5 DEF BeginSubmit
  <2> HIDE DEF w
  <2> QED
    BY <2>1, <2>2 DEF Made
<1>6. ASSUME NEW p \in Deciders, NEW id \in DOMAIN records, NEW by \in Principals, BeginDecide(p, id, by)
      PROVE  \E w : Begin(p, w) /\ Made(records, now, w)
  <2>1. PICK record \in DecisionsBy(by, id, records[id], now) : Begin(p, Write([records EXCEPT ![id] = record], {}))
    BY <1>6 DEF BeginDecide
  <2> DEFINE w == Write([records EXCEPT ![id] = record], {})
  <2>2. w.consumed = {} /\ w.records = [records EXCEPT ![id] = record] /\ Begin(p, w)
    BY <2>1 DEF Write
  <2>3. records[id].status = "pending"
    BY <1>6 DEF BeginDecide
  <2> HIDE DEF w
  <2> QED
    BY <2>2, <2>3 DEF Made
<1>7. ASSUME NEW p \in Gates, NEW id \in DOMAIN records, BeginConsume(p, id)
      PROVE  \E w : Begin(p, w) /\ Made(records, now, w)
  <2> DEFINE w == Write([records EXCEPT ![id] = Consumed(records[id])], {id})
  <2>1. w.consumed = {id} /\ w.records = [records EXCEPT ![id] = Consumed(records[id])]
    BY DEF Write
  <2>2. Begin(p, w) /\ Consumable(records, id)
    BY <1>7 DEF BeginConsume
  <2> HIDE DEF w
  <2> QED
    BY <2>1, <2>2 DEF Made
<1>8. Gates \subseteq Processes /\ Deciders \subseteq Processes
  BY DEF Processes
<1>9. \/ UNCHANGED fileVars
      \/ \E p \in Processes : \E w : Begin(p, w) /\ Made(records, now, w)
      \/ \E p \in Processes : Save(p) \/ WriterDies(p)
  BY <1>5, <1>6, <1>7, <1>8 DEF FileNext
<1> QED
  BY <1>1, <1>2, <1>3, <1>4, <1>9

(***************************************************************************)
(* One process                                                             *)
(***************************************************************************)

\* What is about to be saved was made of what the file holds.
UpToDate == DOMAIN writing = Processes /\ \A p \in Pending : Made(records, now, writing[p])

\* With one process the file is not changed between its read and its rename.
LEMMA UpToDateStep ==
    ASSUME NEW p, Processes = {p}, UpToDate, [FileNext]_fileVars
    PROVE  UpToDate'
<1>1. /\ UNCHANGED <<installed, now>> /\ DOMAIN writing' = Processes
      /\ \/ /\ UNCHANGED <<records, uses>>
            /\ \A q \in Pending' : Made(records, now, writing'[q]) \/ (q \in Pending /\ writing'[q] = writing[q])
         \/ \E q \in Pending : writing'[q] = Idle
  BY FileSteps DEF UpToDate
<1>3. CASE \E q \in Pending : writing'[q] = Idle
  <2>1. Pending' = {}
    BY <1>3 DEF Pending
  <2> QED
    BY <1>1, <2>1 DEF UpToDate
<1>4. CASE /\ UNCHANGED records
           /\ \A q \in Pending' : Made(records, now, writing'[q]) \/ (q \in Pending /\ writing'[q] = writing[q])
  <2>1. \A q \in Pending' : Made(records, now, writing'[q])
    BY <1>4 DEF UpToDate
  <2> QED
    BY <1>1, <1>4, <2>1 DEF UpToDate
<1> QED
  BY <1>1, <1>3, <1>4

\* Saving what was made of the file is the operation, in one step.
LEMMA MadeIsNext ==
    ASSUME OneAuthority, NEW w, Made(records, now, w), records' = w.records, UNCHANGED <<installed, now>>
    PROVE  Next
<1>1. ASSUME NEW call \in Calls, NEW labels \in LabelSets, CanOpen(records, call),
             w.records = Submitted(records, call, labels)
      PROVE  Next
  BY <1>1 DEF Submit, Next
<1>2. ASSUME NEW id \in DOMAIN records, NEW by \in Principals, records[id].status = "pending",
             NEW record \in DecisionsBy(by, id, records[id], now), w.records = [records EXCEPT ![id] = record]
      PROVE  Next
  <2>1. Governed(id) /\ Become(id, record)
    BY <1>2 DEF Governed, OneAuthority, Become
  <2>2. Decidable(records, id, "denied", NoEdit) /\ \A v : Decidable(records, id, v, NoEdit)
        /\ \A a : Decidable(records, id, "approved", a)
    BY <1>2 DEF Decidable
  <2>3. CASE record \in {Rejected(records[id], by) :
                            v \in {v \in Verdicts : Check(id.call, records[id], by, v, now) = {}}}
    <3>1. PICK v \in Verdicts : Refuse(id, by, v)
      BY <2>1, <2>2, <2>3 DEF Refuse
    <3> QED
      BY <3>1 DEF Decide, Next
  <2>4. CASE record \in {Denied(records[id], by, b, now) : b \in Check(id.call, records[id], by, "denied", now)}
    <3>1. Deny(id, by)
      BY <2>1, <2>2, <2>4 DEF Deny
    <3> QED
      BY <3>1 DEF Decide, Next
  <2>5. CASE record \in {Tallied(records[id], by, x[1], x[2], now) :
                            x \in {a \in Arguments : MayApprove(records[id], by, a)}
                                    \X Check(id.call, records[id], by, "approved", now)}
    <3>1. PICK a \in Arguments, b \in Check(id.call, records[id], by, "approved", now) :
             MayApprove(records[id], by, a) /\ record = Tallied(records[id], by, a, b, now)
      BY <2>5
    <3>2. Approve(id, by, a)
      BY <2>1, <2>2, <3>1 DEF Approve
    <3> QED
      BY <3>2 DEF Decide, Next
  <2> QED
    BY <2>3, <2>4, <2>5 DEF DecisionsBy
<1>3. ASSUME NEW id \in DOMAIN records, Consumable(records, id),
             w.records = [records EXCEPT ![id] = Consumed(records[id])]
      PROVE  Next
  BY <1>3 DEF Consume, Become, Next
<1> QED
  BY <1>1, <1>2, <1>3 DEF Made

\* With one process a reader of the file sees the store of Approvals, although every
\* operation is a read and a later rename, and the process may die in between.
THEOREM OneProcessImplements ==
    ASSUME NEW p, Processes = {p}, OneAuthority
    PROVE  FileSpec => Implements
<1>1. FileInit => Init /\ UpToDate
  BY DEF FileInit, UpToDate, Pending
<1>2. UpToDate /\ [FileNext]_fileVars => UpToDate' /\ [Next]_vars
  <2> SUFFICES ASSUME UpToDate, [FileNext]_fileVars PROVE [Next]_vars
    BY UpToDateStep
  <2>1. UNCHANGED <<installed, now>> /\ (UNCHANGED records \/ \E q \in Pending : records' = writing[q].records)
    BY FileSteps DEF UpToDate
  <2>2. CASE UNCHANGED records
    BY <2>1, <2>2 DEF vars
  <2>3. CASE \E q \in Pending : records' = writing[q].records
    BY <2>1, <2>3, MadeIsNext DEF UpToDate
  <2> QED
    BY <2>1, <2>2, <2>3
<1> QED
  BY <1>1, <1>2, PTL DEF FileSpec, Implements, Spec

\* An approval whose use has returned is consumed for good.
UsesAreFinal ==
    \A id \in Ids : /\ uses[id] \in {0, 1}
                    /\ uses[id] = 1 => id \in DOMAIN records /\ records[id].status = "consumed"

\* With one process an approval is used once, also when the process dies between the read
\* and the rename (FileApprovals.consume).
THEOREM OneProcessUsesOnce ==
    ASSUME NEW p, Processes = {p}, OneAuthority
    PROVE  FileSpec => []UsedOnce
<1>1. FileInit => UpToDate /\ UsesAreFinal
  BY DEF FileInit, UpToDate, Pending, UsesAreFinal
<1>2. UpToDate /\ TypeOK /\ Counting /\ UsesAreFinal /\ [FileNext]_fileVars => UpToDate' /\ UsesAreFinal'
  <2> SUFFICES ASSUME UpToDate, TypeOK, Counting, UsesAreFinal, [FileNext]_fileVars PROVE UsesAreFinal'
    BY UpToDateStep
  <2>1. \/ UNCHANGED <<records, uses>>
        \/ \E q \in Pending :
              /\ records' = writing[q].records
              /\ uses' = [id \in Ids |-> IF id \in writing[q].consumed THEN uses[id] + 1 ELSE uses[id]]
    BY FileSteps DEF UpToDate
  <2>2. CASE UNCHANGED <<records, uses>>
    BY <2>2 DEF UsesAreFinal
  <2>3. ASSUME NEW w, Made(records, now, w), records' = w.records,
               uses' = [id \in Ids |-> IF id \in w.consumed THEN uses[id] + 1 ELSE uses[id]]
        PROVE  UsesAreFinal'
    <3>0. w.consumed = {} => uses' = [id \in Ids |-> uses[id]]
      BY <2>3
    <3>1. ASSUME NEW call \in Calls, NEW labels \in LabelSets, w.consumed = {},
                 w.records = Submitted(records, call, labels)
          PROVE  UsesAreFinal'
      <4>1. NextId(records, call) \notin DOMAIN records
        BY NextIdIsNew
      <4>2. \A id \in DOMAIN records : id \in DOMAIN records' /\ records'[id] = records[id]
        BY <2>3, <3>1, <4>1 DEF Submitted, Put
      <4> QED
        BY <3>0, <3>1, <4>2 DEF UsesAreFinal
    <3>2. ASSUME NEW id \in DOMAIN records, NEW record, w.consumed = {}, records[id].status = "pending",
                 w.records = [records EXCEPT ![id] = record]
          PROVE  UsesAreFinal'
      <4>1. \A i \in DOMAIN records : i # id => i \in DOMAIN records' /\ records'[i] = records[i]
        BY <2>3, <3>2
      <4>2. \A i \in DOMAIN records : records[i].status = "consumed" => i # id
        BY <3>2
      <4> QED
        BY <3>0, <3>2, <4>1, <4>2 DEF UsesAreFinal
    <3>3. ASSUME NEW id \in DOMAIN records, Consumable(records, id), w.consumed = {id},
                 w.records = [records EXCEPT ![id] = Consumed(records[id])]
          PROVE  UsesAreFinal'
      <4>1. id \in Ids /\ uses[id] = 0
        BY <3>3 DEF TypeOK, UsesAreFinal, Consumable
      <4>2. records'[id].status = "consumed" /\ id \in DOMAIN records'
        BY <2>3, <3>3 DEF Consumed, TypeOK, ApprovalRecord
      <4>3. \A i \in DOMAIN records : i # id => i \in DOMAIN records' /\ records'[i] = records[i]
        BY <2>3, <3>3
      <4>4. \A i \in Ids : uses'[i] = IF i = id THEN 1 ELSE uses[i]
        BY <2>3, <3>3, <4>1
      <4> QED
        BY <4>2, <4>3, <4>4 DEF UsesAreFinal
    <3> QED
      BY <2>3, <3>1, <3>2, <3>3 DEF Made
  <2> QED
    BY <2>1, <2>2, <2>3 DEF UpToDate
<1>3. UsesAreFinal => UsedOnce
  BY DEF UsesAreFinal, UsedOnce
<1>4. FileSpec => Spec
  BY OneProcessImplements DEF Implements
<1> QED
  BY <1>1, <1>2, <1>3, <1>4, TypeCorrect, CountingCorrect, PTL DEF FileSpec

(***************************************************************************)
(* Several processes                                                       *)
(***************************************************************************)

\* What a content of the file must be for its records to be those of a store.
SoundFile(recs) ==
    /\ DOMAIN recs \subseteq Ids
    /\ \A id \in DOMAIN recs : WellFormed(recs[id]) /\ Backed(id, recs[id]) /\ Agreed(id, recs[id])
    /\ \A i, j \in DOMAIN recs :
          i.call = j.call /\ recs[i].status \in Live /\ recs[j].status \in Live => i = j

\* An operation on a sound content makes a sound one, even when the file has another
\* content by the time it is saved.
LEMMA MadeIsSound ==
    ASSUME OneAuthority, now \in Times, NEW recs, SoundFile(recs), NEW w, Made(recs, now, w)
    PROVE  SoundFile(w.records)
<1>0. \A id : Governed(id)
  BY DEF Governed, OneAuthority
<1>1. ASSUME NEW call \in Calls, NEW labels \in LabelSets, CanOpen(recs, call),
             w.records = Submitted(recs, call, labels)
      PROVE  SoundFile(w.records)
  <2> DEFINE id == NextId(recs, call)
             record == NewRecord(labels)
  <2>1. w.records = Put(recs, id, record) /\ id \in Ids /\ id.call = call
        /\ \A i \in DOMAIN recs : i.call = call => recs[i].status \notin Live
    BY <1>1 DEF Submitted, CanOpen, NextId, LiveFor, SameCall
  <2>2. WellFormed(record)
    BY AuthorityAssumption DEF WellFormed, NewRecord, ApprovalRecord, Statuses, Arguments
  <2>3. Backed(id, record) /\ Agreed(id, record)
    BY DEF Backed, Agreed, NewRecord, UnderAuthority, Approved
  <2>4. DOMAIN w.records = DOMAIN recs \cup {id}
        /\ \A i \in DOMAIN w.records : w.records[i] = IF i = id THEN record ELSE recs[i]
    BY <2>1 DEF Put
  <2> HIDE DEF id, record
  <2> QED
    BY <2>1, <2>2, <2>3, <2>4 DEF SoundFile
<1>2. ASSUME NEW id \in DOMAIN recs, NEW record, recs[id].status \in Live,
             w.records = [recs EXCEPT ![id] = record],
             WellFormed(record), Backed(id, record), Agreed(id, record)
      PROVE  SoundFile(w.records)
  <2>1. DOMAIN w.records = DOMAIN recs
        /\ \A i \in DOMAIN recs : w.records[i] = IF i = id THEN record ELSE recs[i]
    BY <1>2
  <2> QED
    BY <1>2, <2>1 DEF SoundFile
<1>3. ASSUME NEW id \in DOMAIN recs, NEW by \in Principals, recs[id].status = "pending",
             NEW record \in DecisionsBy(by, id, recs[id], now), w.records = [recs EXCEPT ![id] = record]
      PROVE  SoundFile(w.records)
  <2> DEFINE old == recs[id]
  <2>1. /\ id \in Ids /\ id.call \in Calls /\ old \in ApprovalRecord /\ old.verdict = "none"
        /\ WellFormed(old) /\ Backed(id, old) /\ Agreed(id, old)
    BY <1>3 DEF SoundFile, Ids, WellFormed
  <2>2. \A verdict : \A b \in Check(id.call, old, by, verdict, now) :
           SoundBasis(id.call, old.labels, by, now, b) /\ b \in Bases
    BY <2>1, CheckIsSound DEF SoundBasis
  <2> HIDE DEF old
  <2>3. Outcome(id, old, record) /\ WellFormed(record)
    <3>1. CASE record = Rejected(old, by)
      <4>1. WellFormed(record)
        BY <2>1, <3>1 DEF WellFormed, Rejected, ApprovalRecord
      <4> QED
        BY <3>1, <4>1 DEF Outcome
    <3>2. ASSUME NEW b \in Check(id.call, old, by, "denied", now), record = Denied(old, by, b, now)
          PROVE  Outcome(id, old, record) /\ WellFormed(record)
      <4>1. NoEdit \in Arguments /\ {by} \in SUBSET Principals /\ "denied" \in Verdicts
        BY DEF Arguments, Verdicts
      <4>2. WellFormed(record)
        BY <2>1, <2>2, <3>2, <4>1, EntryType, SettledIsWellFormed DEF Denied
      <4> QED
        BY <1>0, <2>2, <3>2, <4>2 DEF Outcome
    <3>3. ASSUME NEW a \in Arguments, MayApprove(old, by, a),
                 NEW b \in Check(id.call, old, by, "approved", now), record = Tallied(old, by, a, b, now)
          PROVE  Outcome(id, old, record) /\ WellFormed(record)
      <4>1. WellFormed(record)
        BY <2>1, <2>2, <3>3, TalliedIsWellFormed
      <4> QED
        BY <1>0, <2>2, <3>3, <4>1 DEF Outcome
    <3> QED
      BY <1>3, <3>1, <3>2, <3>3 DEF DecisionsBy, old
  <2>4. old.status = "pending"
    BY <1>3 DEF old
  <2>5. Backed(id, record) /\ Agreed(id, record)
    BY <2>1, <2>3, <2>4, OutcomeKeepsBacked, OutcomeKeepsAgreed
  <2>6. recs[id].status \in Live
    BY <1>3 DEF Live
  <2> QED
    BY <1>2, <1>3, <2>3, <2>5, <2>6
<1>4. ASSUME NEW id \in DOMAIN recs, Consumable(recs, id),
             w.records = [recs EXCEPT ![id] = Consumed(recs[id])]
      PROVE  SoundFile(w.records)
  <2> DEFINE old == recs[id]
             record == Consumed(old)
  <2>1. old \in ApprovalRecord /\ WellFormed(old) /\ Backed(id, old) /\ Agreed(id, old)
        /\ old.status \in {"approved", "denied"}
    BY <1>4 DEF SoundFile, WellFormed, Consumable
  <2> HIDE DEF old
  <2>2. /\ record.labels = old.labels /\ record.approvals = old.approvals /\ record.verdict = old.verdict
        /\ record.approved_arguments = old.approved_arguments /\ record.status = "consumed"
        /\ record \in ApprovalRecord
    BY <2>1 DEF Consumed, ApprovalRecord, Statuses
  <2> HIDE DEF record
  <2>3. WellFormed(record)
    BY <2>1, <2>2 DEF WellFormed
  <2>4. Backed(id, record) /\ Agreed(id, record)
    BY <2>1, <2>2 DEF Backed, Agreed, HasStanding, UnderAuthority
  <2>5. recs[id].status \in Live /\ w.records = [recs EXCEPT ![id] = record]
    BY <1>4, <2>1 DEF Live, record, old
  <2> QED
    BY <1>2, <2>3, <2>4, <2>5
<1> QED
  BY <1>1, <1>3, <1>4 DEF Made

\* The file, and whatever is about to replace it, is sound.
AllSound ==
    /\ DOMAIN writing = Processes /\ now \in Times
    /\ SoundFile(records) /\ \A p \in Pending : SoundFile(writing[p].records)

\* However many processes share the file, and whichever rename undoes the work of another:
\* nothing in it is approved without the quorum of authority, by its requester, or for
\* arguments that were not approved, and no call has two live records.
THEOREM SharedFileIsSound ==
    ASSUME OneAuthority
    PROVE  FileSpec => [](QuorumOfAuthority /\ NoSelfDealing /\ ApprovedTogether /\ OneLivePerCall)
<1>1. FileInit => AllSound
  BY AuthorityAssumption DEF FileInit, Init, AllSound, SoundFile, Pending, Times
<1>2. AllSound /\ [FileNext]_fileVars => AllSound'
  <2> SUFFICES ASSUME AllSound, [FileNext]_fileVars PROVE AllSound'
    OBVIOUS
  <2>1. /\ UNCHANGED <<installed, now>> /\ DOMAIN writing' = Processes
        /\ \/ /\ UNCHANGED records
              /\ \A q \in Pending' :
                    Made(records, now, writing'[q]) \/ (q \in Pending /\ writing'[q] = writing[q])
           \/ \E p \in Pending :
                 /\ records' = writing[p].records /\ writing'[p] = Idle
                 /\ \A q \in Processes \ {p} : writing'[q] = writing[q]
    BY FileSteps DEF AllSound
  <2>2. \A recs : SoundFile(recs)' <=> SoundFile(recs)
    BY <2>1 DEF SoundFile, Agreed, Governed
  <2>3. SoundFile(records') /\ \A q \in Pending' : SoundFile(writing'[q].records)
    BY <2>1, MadeIsSound DEF AllSound, Pending
  <2> QED
    BY <2>1, <2>2, <2>3 DEF AllSound
<1>3. AllSound => QuorumOfAuthority /\ NoSelfDealing /\ ApprovedTogether /\ OneLivePerCall
  <2> SUFFICES ASSUME AllSound PROVE QuorumOfAuthority /\ NoSelfDealing /\ ApprovedTogether /\ OneLivePerCall
    OBVIOUS
  <2>1. AllBacked /\ ~PerRecord
    BY DEF AllSound, SoundFile, AllBacked, OneAuthority
  <2>2. QuorumOfAuthority
    BY <2>1, BackedQuorum DEF QuorumOfAuthority, AllBacked, Backed
  <2>3. NoSelfDealing
    BY <2>1 DEF AllBacked, Backed, NoSelfDealing
  <2> QED
    BY <2>2, <2>3 DEF AllSound, SoundFile, Agreed, ApprovedTogether, OneLivePerCall
<1> QED
  BY <1>1, <1>2, <1>3, PTL DEF FileSpec

=============================================================================
