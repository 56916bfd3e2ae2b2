--------------------------- MODULE PlaybookProofs ---------------------------
(***************************************************************************)
(* Proofs about the run of a playbook, for every definition of its steps,  *)
(* every set of tools and any number of calls, pauses and moves.           *)
(***************************************************************************)
EXTENDS Playbook, FiniteSetTheorems, SequenceTheorems, WellFoundedInduction, TLAPS

(***************************************************************************)
(* The inductive invariant                                                 *)
(***************************************************************************)

\* What a step that has begun was waiting for.
Waits(s, st, rt) ==
    /\ \A d \in playbook.after[s] : st[d] \in Satisfies
    /\ Routers(s) # {} => \E r \in Routers(s) : rt[r] # NoRoute /\ s \in rt[r]
    /\ playbook.joins[s] # 0 =>
          \A m \in Steps : playbook.group[m] = playbook.joins[s] => st[m] \in Terminal
Begun(s, st) == st[s] \notin {"pending", "waived"}

Record == [status : Statuses, calls : Nat, enabled : (SUBSET Steps) \cup {NoRoute}]

\* A step that has begun waited for its turn.  A step is routed when it has closed, and
\* its record says the same.
Graph ==
    /\ status \in [Steps -> Statuses]
    /\ routed \in [Steps -> (SUBSET Steps) \cup {NoRoute}]
    /\ record \in [Steps -> Record]
    /\ \A s \in Steps : Begun(s, status) => Waits(s, status, routed)
    /\ \A s \in Steps : record[s].status = status[s]
    /\ \A s \in Steps : routed[s] # NoRoute => status[s] \in Terminal /\ playbook.branches[s] # {}
    /\ \A s \in Steps : record[s].enabled # NoRoute => record[s].enabled = routed[s]

\* The calls of a step that were credited and the ones still to be are those admitted.
InFlight == [tool : Tools, step : Steps \cup {Nobody}]
Ledger ==
    /\ attempts \in [Steps -> Nat] /\ executed \in [Steps -> Nat] /\ fruitless \in [Steps -> Nat]
    /\ unrun \subseteq Steps
    /\ owners \in [Tools -> Seq(Steps)] /\ calls \in Seq(InFlight)
    /\ decided \in BOOLEAN /\ started \in Nat /\ paused \in Nat /\ moved \in Nat
    /\ \A t \in Tools : Len(owners[t]) <= started
    /\ CallsAreCountedOnce

Playing == playbook \in Playbooks /\ Graph /\ Ledger

(***************************************************************************)
(* The step graph                                                          *)
(***************************************************************************)

LEMMA Definition ==
    ASSUME playbook \in Playbooks
    PROVE  /\ playbook.after \in [Steps -> SUBSET Steps] /\ playbook.branches \in [Steps -> SUBSET Steps]
           /\ \A taken \in SUBSET Steps : taken # NoRoute
           /\ \A s \in Steps : Routers(s) \subseteq Steps
  BY PlaybookAssumption DEF Steps, Routers

\* The definition of a run does not change, nor what is read of it.
LEMMA SameDefinition ==
    ASSUME playbook' = playbook
    PROVE  /\ Steps' = Steps
           /\ \A s : Routers(s)' = Routers(s)
           /\ Record' = Record /\ InFlight' = InFlight
  BY DEF Steps, Routers, Record, InFlight

\* What a step waited for stays so as long as closed steps and settled routes stay.
LEMMA WaitsOn ==
    ASSUME playbook \in Playbooks, NEW s \in Steps, NEW st, NEW rt, NEW st2, NEW rt2, Waits(s, st, rt),
           \A d \in Steps : st[d] \in Terminal => st2[d] = st[d],
           \A r \in Steps : rt[r] # NoRoute => rt2[r] = rt[r]
    PROVE  Waits(s, st2, rt2)
<1>1. playbook.after[s] \subseteq Steps /\ Routers(s) \subseteq Steps
  BY Definition
<1> QED
  BY <1>1 DEF Waits, Satisfies, Terminal

\* advance() opens only steps whose turn it is, and moves no step that is not pending.
LEMMA AdvancedSteps ==
    ASSUME playbook \in Playbooks, NEW st \in [Steps -> Statuses], NEW rt,
           \A s \in Steps : Begun(s, st) => Waits(s, st, rt)
    PROVE  LET n == Advanced(st, rt)
           IN  /\ n \in [Steps -> Statuses]
               /\ \A s \in Steps : n[s] = st[s] \/ (st[s] = "pending" /\ n[s] \in {"waived", "active"})
               /\ \A s \in Steps : Begun(s, n) => Waits(s, n, rt)
<1> DEFINE out == Waived(st, rt)
           left == [s \in Steps |-> IF s \in out THEN "waived" ELSE st[s]]
           on == Activated(left, rt)
           n == [s \in Steps |-> IF s \in on THEN "active" ELSE left[s]]
<1>1. out \subseteq Pending(st)
  BY DEF Waived
<1> HIDE DEF out
<1>2. /\ left \in [Steps -> Statuses]
      /\ \A s \in Steps : left[s] = st[s] \/ (st[s] = "pending" /\ left[s] = "waived")
  BY <1>1 DEF Pending, Statuses, Terminal
<1> HIDE DEF left
<1>3. \A s \in on : s \in Steps /\ left[s] = "pending" /\ Ready(s, left, rt)
  BY DEF Activated, Pending
<1> HIDE DEF on
<1>4. n \in [Steps -> Statuses]
      /\ \A s \in Steps : n[s] = left[s] \/ (left[s] = "pending" /\ n[s] = "active" /\ Ready(s, left, rt))
  BY <1>2, <1>3 DEF Statuses, Terminal
<1> HIDE DEF n
<1>5. \A s \in Steps : n[s] = st[s] \/ (st[s] = "pending" /\ n[s] \in {"waived", "active"})
  BY <1>2, <1>4
<1>6. ASSUME NEW s \in Steps, Begun(s, n)
      PROVE  Waits(s, n, rt)
  <2>1. CASE n[s] = left[s]
    <3>1. Begun(s, st) /\ Waits(s, st, rt)
      BY <2>1, <1>2, <1>6 DEF Begun
    <3>2. \A d \in Steps : st[d] \in Terminal => n[d] = st[d]
      BY <1>5 DEF Terminal
    <3> QED
      BY <3>1, <3>2, WaitsOn
  <2>2. CASE Ready(s, left, rt)
    <3>1. Waits(s, left, rt)
      BY <2>2 DEF Ready, Waits, Gate
    <3>2. \A d \in Steps : left[d] \in Terminal => n[d] = left[d]
      BY <1>4 DEF Terminal
    <3> QED
      BY <3>1, <3>2, WaitsOn
  <2> QED
    BY <2>1, <2>2, <1>4
<1>7. Advanced(st, rt) = n
  BY DEF Advanced, n, on, left, out
<1> QED
  BY <1>4, <1>5, <1>6, <1>7

(***************************************************************************)
(* Records                                                                 *)
(***************************************************************************)

\* Every change of a step is on record, with the targets it enabled.
LEMMA RecordedSteps ==
    ASSUME Graph, executed \in [Steps -> Nat], NEW st \in [Steps -> Statuses], NEW enabled, Recorded(st, enabled),
           \A s \in DOMAIN enabled : enabled[s] \subseteq Steps
    PROVE  /\ status' = st /\ record' \in [Steps -> Record]
           /\ \A s \in Steps : record'[s].status = st[s]
           /\ \A s \in Steps : record'[s].enabled # NoRoute =>
                 \/ st[s] = status[s] /\ record'[s] = record[s]
                 \/ s \in DOMAIN enabled /\ record'[s].enabled = enabled[s]
<1> DEFINE new(s) == [status |-> st[s], calls |-> executed[s],
                      enabled |-> IF s \in DOMAIN enabled THEN enabled[s] ELSE NoRoute]
<1>1. record \in [Steps -> Record] /\ executed \in [Steps -> Nat]
  BY DEF Graph
<1>2. ASSUME NEW s \in Steps
      PROVE  /\ new(s) \in Record /\ new(s).status = st[s]
             /\ new(s).enabled = IF s \in DOMAIN enabled THEN enabled[s] ELSE NoRoute
  BY <1>1 DEF Record
<1>3. status' = st /\ record' = [s \in Steps |-> IF st[s] = status[s] THEN record[s] ELSE new(s)]
  BY DEF Recorded
<1> HIDE DEF new
<1>4. record' \in [Steps -> Record]
  BY <1>1, <1>2, <1>3
<1> QED
  BY <1>2, <1>3, <1>4 DEF Graph

\* A step that leaves the graph alone.
LEMMA GraphStays ==
    ASSUME Graph, UNCHANGED <<playbook, status, routed, record>>
    PROVE  Graph'
  BY DEF Graph, Steps, Record, Begun, Waits, Routers

\* A step that moves the graph on.
LEMMA GraphStep ==
    ASSUME playbook' = playbook, status' \in [Steps -> Statuses],
           routed' \in [Steps -> (SUBSET Steps) \cup {NoRoute}], record' \in [Steps -> Record],
           \A s \in Steps : Begun(s, status') => Waits(s, status', routed'),
           \A s \in Steps : record'[s].status = status'[s],
           \A s \in Steps : routed'[s] # NoRoute => status'[s] \in Terminal /\ playbook.branches[s] # {},
           \A s \in Steps : record'[s].enabled # NoRoute => record'[s].enabled = routed'[s]
    PROVE  Graph'
  BY DEF Graph, Steps, Record, Begun, Waits, Routers

\* Moves that leave closed steps closed, and open none, need no more than a record.
LEMMA MovedGraph ==
    ASSUME Playing, NEW st \in [Steps -> Statuses], Recorded(st, << >>), UNCHANGED <<playbook, routed>>,
           \A s \in Steps : \/ st[s] = status[s]
                            \/ st[s] = "waived" /\ status[s] \notin Terminal
                            \/ Begun(s, status) /\ status[s] \notin Terminal
    PROVE  Graph'
<1>1. Graph /\ executed \in [Steps -> Nat] /\ playbook \in Playbooks
  BY DEF Playing, Ledger
<1>2. DOMAIN << >> = {}
  BY EmptySeq
<1>3. /\ status' = st /\ record' \in [Steps -> Record]
      /\ \A s \in Steps : record'[s].status = st[s]
      /\ \A s \in Steps : record'[s].enabled # NoRoute => st[s] = status[s] /\ record'[s] = record[s]
  BY <1>1, <1>2, RecordedSteps
<1>4. \A d \in Steps : status[d] \in Terminal => st[d] = status[d]
  OBVIOUS
<1>5. ASSUME NEW s \in Steps, Begun(s, st)
      PROVE  Waits(s, st, routed)
  <2>1. Begun(s, status)
    BY <1>5 DEF Begun
  <2>2. Waits(s, status, routed)
    BY <2>1, <1>1 DEF Graph
  <2> QED
    BY <2>2, <1>1, <1>4, WaitsOn
<1>6. \A s \in Steps : routed'[s] # NoRoute => st[s] \in Terminal /\ playbook.branches[s] # {}
  BY <1>1, <1>4 DEF Graph
<1>7. \A s \in Steps : record'[s].enabled # NoRoute => record'[s].enabled = routed'[s]
  BY <1>1, <1>3 DEF Graph
<1>8. routed' \in [Steps -> (SUBSET Steps) \cup {NoRoute}] /\ routed' = routed
  BY <1>1 DEF Graph
<1> QED
  BY <1>3, <1>5, <1>6, <1>7, <1>8, GraphStep

LEMMA PauseGraph == ASSUME Playing, Pause \/ Unpause PROVE Graph'
<1>1. PICK from \in {"active", "blocked"}, to \in {"active", "blocked"} :
          Recorded([s \in Steps |-> IF status[s] = from THEN to ELSE status[s]], << >>)
  BY DEF Pause, Unpause
<1> DEFINE st == [s \in Steps |-> IF status[s] = from THEN to ELSE status[s]]
<1>2. status \in [Steps -> Statuses]
  BY DEF Playing, Graph
<1>3. st \in [Steps -> Statuses]
  BY <1>2 DEF Statuses
<1>4. \A s \in Steps : st[s] = status[s] \/ (Begun(s, status) /\ status[s] \notin Terminal)
  BY <1>2 DEF Begun, Terminal
<1>5. UNCHANGED <<playbook, routed>>
  BY DEF Pause, Unpause
<1>6. Recorded(st, << >>)
  BY <1>1
<1> HIDE DEF st
<1> QED
  BY <1>3, <1>4, <1>5, <1>6, MovedGraph

LEMMA DecisionGraph ==
    ASSUME Playing, NEW inconclusive, SubmitDecision(inconclusive)
    PROVE  Graph'
<1> DEFINE st == [s \in Steps |-> IF s \notin Unresolved THEN status[s]
                                  ELSE IF s \in Active \cap playbook.deciders THEN "done"
                                  ELSE "waived"]
<1>1. Recorded(st, << >>) /\ UNCHANGED <<playbook, routed>>
  BY DEF SubmitDecision
<1>2. status \in [Steps -> Statuses]
  BY DEF Playing, Graph
<1>3. st \in [Steps -> Statuses]
  BY <1>2 DEF Statuses, Terminal
<1>4. ASSUME NEW s \in Steps
      PROVE  \/ st[s] = status[s]
             \/ st[s] = "waived" /\ status[s] \notin Terminal
             \/ Begun(s, status) /\ status[s] \notin Terminal
  BY DEF Unresolved, Active, Begun, Terminal
<1> HIDE DEF st
<1> QED
  BY <1>1, <1>3, <1>4, MovedGraph

\* A step closes once, so its routing is settled once.
LEMMA ClosesGraph ==
    ASSUME Playing, NEW s \in Active, NEW as \in {"done", "not_executed"}, Closes(s, as)
    PROVE  Graph' /\ \A r \in Steps : status[r] \in Terminal => status'[r] = status[r]
<1>1. PICK taken \in SUBSET playbook.branches[s] :
          /\ routed' = IF playbook.branches[s] = {} THEN routed ELSE [routed EXCEPT ![s] = taken]
          /\ Recorded(Advanced([status EXCEPT ![s] = as], routed'),
                      [r \in {s} \cap {q \in Steps : as = "done" /\ playbook.branches[q] # {}} |-> taken])
          /\ playbook' = playbook
  BY DEF Closes
<1>2. /\ Graph /\ executed \in [Steps -> Nat] /\ playbook \in Playbooks /\ s \in Steps
      /\ status[s] \in {"active", "blocked"}
  BY DEF Playing, Ledger, Active
<1>3. taken \subseteq Steps /\ routed[s] = NoRoute
  BY <1>2, Definition DEF Graph, Terminal
<1> DEFINE st == [status EXCEPT ![s] = as]
           n == Advanced(st, routed')
           enabled == [r \in {s} \cap {q \in Steps : as = "done" /\ playbook.branches[q] # {}} |-> taken]
<1>4. st \in [Steps -> Statuses] /\ st[s] = as /\ \A r \in Steps \ {s} : st[r] = status[r]
  BY <1>2 DEF Graph, Statuses, Terminal
<1> HIDE DEF st
<1>5. /\ routed' \in [Steps -> (SUBSET Steps) \cup {NoRoute}]
      /\ \A r \in Steps \ {s} : routed'[r] = routed[r]
      /\ routed'[s] = IF playbook.branches[s] = {} THEN NoRoute ELSE taken
  BY <1>1, <1>2, <1>3 DEF Graph
<1>6. \A d \in Steps : status[d] \in Terminal => st[d] = status[d]
  BY <1>2, <1>4 DEF Terminal
<1>7. \A r \in Steps : routed[r] # NoRoute => routed'[r] = routed[r]
  BY <1>3, <1>5
<1>8. ASSUME NEW r \in Steps, Begun(r, st)
      PROVE  Waits(r, st, routed')
  <2>1. Begun(r, status)
    BY <1>2, <1>4, <1>8 DEF Begun
  <2>2. Waits(r, status, routed)
    BY <2>1, <1>2 DEF Graph
  <2> QED
    BY <2>2, <1>2, <1>6, <1>7, WaitsOn
<1>9. /\ n \in [Steps -> Statuses]
      /\ \A r \in Steps : n[r] = st[r] \/ (st[r] = "pending" /\ n[r] \in {"waived", "active"})
      /\ \A r \in Steps : Begun(r, n) => Waits(r, n, routed')
  BY <1>2, <1>4, <1>8, AdvancedSteps
<1> HIDE DEF n
<1>10. n[s] = as
  BY <1>2, <1>4, <1>9
<1>11. \A r \in DOMAIN enabled : r = s /\ enabled[r] = taken /\ playbook.branches[s] # {}
  OBVIOUS
<1>12. Recorded(n, enabled)
  BY <1>1 DEF n, st
<1> HIDE DEF enabled
<1>13. /\ status' = n /\ record' \in [Steps -> Record]
       /\ \A r \in Steps : record'[r].status = n[r]
       /\ \A r \in Steps : record'[r].enabled # NoRoute =>
             \/ n[r] = status[r] /\ record'[r] = record[r]
             \/ r \in DOMAIN enabled /\ record'[r].enabled = enabled[r]
  BY <1>2, <1>3, <1>9, <1>11, <1>12, RecordedSteps
<1>14. ASSUME NEW r \in Steps, record'[r].enabled # NoRoute
       PROVE  record'[r].enabled = routed'[r]
  <2>1. CASE n[r] = status[r] /\ record'[r] = record[r]
    <3>1. r # s
      BY <2>1, <1>2, <1>10
    <3> QED
      BY <2>1, <3>1, <1>2, <1>5, <1>14 DEF Graph
  <2>2. CASE r \in DOMAIN enabled /\ record'[r].enabled = enabled[r]
    BY <2>2, <1>5, <1>11
  <2> QED
    BY <2>1, <2>2, <1>13, <1>14
<1>15. \A r \in Steps : status[r] \in Terminal => n[r] = status[r]
  BY <1>6, <1>9 DEF Terminal
<1>16. ASSUME NEW r \in Steps, routed'[r] # NoRoute
       PROVE  n[r] \in Terminal /\ playbook.branches[r] # {}
  <2>1. CASE r = s
    BY <2>1, <1>5, <1>10, <1>16 DEF Terminal
  <2>2. CASE r # s
    BY <2>2, <1>2, <1>5, <1>15, <1>16 DEF Graph
  <2> QED
    BY <2>1, <2>2
<1> QED
  BY <1>1, <1>5, <1>9, <1>13, <1>14, <1>15, <1>16, GraphStep

\* A runtime that is rebuilt has every route a step that has begun was opened by.
LEMMA RestoreGraph ==
    ASSUME Playing, Restore
    PROVE  Graph' /\ \A s \in Steps : status'[s] = status[s]
<1>1. /\ Graph /\ playbook \in Playbooks /\ playbook' = playbook /\ record' = record
      /\ status' = [s \in Steps |-> record[s].status] /\ routed' = RestoredRoutes
  BY DEF Playing, Restore
<1>2. status' \in [Steps -> Statuses] /\ \A s \in Steps : status'[s] = status[s]
  BY <1>1 DEF Graph
<1>3. /\ playbook.branches \in [Steps -> SUBSET Steps]
      /\ \A taken \in SUBSET Steps : taken # NoRoute
  BY <1>1, Definition
<1> DEFINE settled(s) == playbook.branches[s] # {} /\ status[s] \in Terminal
           open(s) == {r \in playbook.branches[s] : status[r] # "waived"}
<1>4. ASSUME NEW s \in Steps
      PROVE  /\ ~settled(s) => routed'[s] = NoRoute
             /\ settled(s) /\ record[s].enabled # NoRoute => routed'[s] = record[s].enabled
             /\ settled(s) /\ record[s].enabled = NoRoute => routed'[s] = open(s)
  <2>1. \A r \in playbook.branches[s] : record[r].status = status[r]
    BY <1>1, <1>3 DEF Graph
  <2>2. routed'[s] = IF playbook.branches[s] = {} \/ record[s].status \notin Terminal THEN NoRoute
                     ELSE IF record[s].enabled # NoRoute THEN record[s].enabled
                     ELSE {r \in playbook.branches[s] : record[r].status # "waived"}
    BY <1>1 DEF RestoredRoutes
  <2>3. {r \in playbook.branches[s] : record[r].status # "waived"} = open(s)
    BY <2>1
  <2> HIDE DEF open
  <2> QED
    BY <2>2, <2>3, <1>1 DEF Graph
<1>5. \A s \in Steps : open(s) \in SUBSET Steps /\ open(s) # NoRoute
  BY <1>3
<1>6. ASSUME NEW s \in Steps
      PROVE  routed'[s] \in (SUBSET Steps) \cup {NoRoute}
  <2>1. record[s].enabled \in (SUBSET Steps) \cup {NoRoute}
    BY <1>1 DEF Graph, Record
  <2> HIDE DEF open, settled
  <2> QED
    BY <2>1, <1>4, <1>5
<1>7. routed' \in [Steps -> (SUBSET Steps) \cup {NoRoute}]
  BY <1>1, <1>6 DEF RestoredRoutes
<1>8. ASSUME NEW s \in Steps, record[s].enabled # NoRoute
      PROVE  routed'[s] = record[s].enabled
  BY <1>1, <1>4, <1>8 DEF Graph
<1>9. ASSUME NEW s \in Steps, NEW r \in Steps, s \in playbook.branches[r], routed[r] # NoRoute,
             s \in routed[r], status[s] # "waived"
      PROVE  routed'[r] # NoRoute /\ s \in routed'[r]
  <2>1. settled(r)
    BY <1>1, <1>9 DEF Graph
  <2>2. CASE record[r].enabled # NoRoute
    BY <2>2, <1>1, <1>8, <1>9 DEF Graph
  <2>3. CASE record[r].enabled = NoRoute
    <3>1. routed'[r] = open(r) /\ s \in open(r)
      BY <2>1, <2>3, <1>4, <1>9
    <3> QED
      BY <3>1, <1>5
  <2> QED
    BY <2>2, <2>3
<1>10. ASSUME NEW s \in Steps, Begun(s, status')
       PROVE  Waits(s, status', routed')
  <2>1. Begun(s, status) /\ status[s] # "waived"
    BY <1>2, <1>10 DEF Begun
  <2>2. Waits(s, status, routed)
    BY <2>1, <1>1 DEF Graph
  <2>3. playbook.after[s] \subseteq Steps
    BY <1>1, Definition
  <2>4. Routers(s) # {} => \E r \in Routers(s) : routed'[r] # NoRoute /\ s \in routed'[r]
    BY <2>1, <2>2, <1>9 DEF Waits, Routers
  <2> QED
    BY <2>2, <2>3, <2>4, <1>2 DEF Waits
<1>11. \A s \in Steps : routed'[s] # NoRoute => status'[s] \in Terminal /\ playbook.branches[s] # {}
  BY <1>2, <1>4
<1>12. /\ record' \in [Steps -> Record] /\ \A s \in Steps : record'[s].status = status'[s]
       /\ \A s \in Steps : record'[s].enabled # NoRoute => record'[s].enabled = routed'[s]
  BY <1>1, <1>2, <1>8 DEF Graph
<1> QED
  BY <1>1, <1>2, <1>7, <1>10, <1>11, <1>12, GraphStep

LEMMA InitGraph == ASSUME Init PROVE Graph
<1>1. /\ playbook \in Playbooks /\ routed = [s \in Steps |-> NoRoute]
      /\ status = Advanced([s \in Steps |-> "pending"], routed)
      /\ record = [s \in Steps |-> [status |-> status[s], calls |-> 0, enabled |-> NoRoute]]
  BY DEF Init
<1> DEFINE st == [s \in Steps |-> "pending"]
<1>2. st \in [Steps -> Statuses] /\ \A s \in Steps : ~Begun(s, st)
  BY DEF Statuses, Begun
<1> DEFINE n == Advanced(st, routed)
<1>3. status = n
  BY <1>1
<1> HIDE DEF st
<1>4. status \in [Steps -> Statuses] /\ \A s \in Steps : Begun(s, status) => Waits(s, status, routed)
  <2>1. \A s \in Steps : Begun(s, st) => Waits(s, st, routed)
    BY <1>2
  <2>2. n \in [Steps -> Statuses] /\ \A s \in Steps : Begun(s, n) => Waits(s, n, routed)
    BY <1>1, <1>2, <2>1, AdvancedSteps
  <2> HIDE DEF n
  <2> QED
    BY <1>3, <2>2
<1> HIDE DEF n
<1>5. record \in [Steps -> Record] /\ \A s \in Steps : record[s].status = status[s] /\ record[s].enabled = NoRoute
  BY <1>1, <1>4 DEF Record
<1>6. routed \in [Steps -> (SUBSET Steps) \cup {NoRoute}] /\ \A s \in Steps : routed[s] = NoRoute
  BY <1>1
<1> QED
  BY <1>4, <1>5, <1>6 DEF Graph

(***************************************************************************)
(* The ledger of calls                                                     *)
(***************************************************************************)

Adm(ow, n, s) == {a \in Tools \X (1 .. n) : a[2] \in DOMAIN ow[a[1]] /\ ow[a[1]][a[2]] = s}

LEMMA AdmFinite ==
    ASSUME NEW ow, NEW n \in Nat, NEW s
    PROVE  IsFiniteSet(Adm(ow, n, s)) /\ Cardinality(Adm(ow, n, s)) \in Nat
<1>0. IsFiniteSet(Tools)
  BY PlaybookAssumption
<1>1. IsFiniteSet(1 .. n) /\ IsFiniteSet(Tools \X (1 .. n))
  <2>1. IsFiniteSet(1 .. n)
    BY FS_Interval
  <2> QED
    BY <1>0, <2>1, FS_Product
<1>2. Adm(ow, n, s) \in SUBSET (Tools \X (1 .. n))
  BY DEF Adm
<1> QED
  BY <1>1, <1>2, FS_Subset, FS_CardinalityType

LEMMA LedgerStep ==
    ASSUME playbook' = playbook,
           attempts' \in [Steps -> Nat], executed' \in [Steps -> Nat], fruitless' \in [Steps -> Nat],
           unrun' \subseteq Steps,
           owners' \in [Tools -> Seq(Steps)], calls' \in Seq(InFlight),
           decided' \in BOOLEAN, started' \in Nat, paused' \in Nat, moved' \in Nat,
           \A t \in Tools : Len(owners'[t]) <= started',
           \A s \in Steps : attempts'[s] = executed'[s] + fruitless'[s] + Cardinality(Adm(owners', started', s))
    PROVE  Ledger'
<1>1. Steps' = Steps /\ InFlight' = InFlight
  BY SameDefinition
<1>2. \A s : Admissions(s)' = Adm(owners', started', s)
  BY DEF Admissions, Adm
<1>3. CallsAreCountedOnce'
  BY <1>1, <1>2 DEF CallsAreCountedOnce
<1> QED
  BY <1>1, <1>3 DEF Ledger

LEMMA Counted ==
    ASSUME Ledger
    PROVE  \A s \in Steps : attempts[s] = executed[s] + fruitless[s] + Cardinality(Adm(owners, started, s))
  BY DEF Ledger, CallsAreCountedOnce, Admissions, Adm

\* A step that admits, credits and releases no call.
LEMMA LedgerStays ==
    ASSUME Ledger, UNCHANGED <<playbook, attempts, executed, fruitless, unrun, owners, calls,
                               started, paused, moved>>,
           decided' \in BOOLEAN
    PROVE  Ledger'
  BY DEF Ledger, Steps, InFlight, CallsAreCountedOnce, Admissions

\* A call that is admitted adds one admission, to the step that owns it.
LEMMA AdmAppend ==
    ASSUME NEW ow \in [Tools -> Seq(Steps)], NEW n \in Nat, NEW t \in Tools, NEW s \in Steps,
           Len(ow[t]) <= n, NEW r
    PROVE  LET on == [ow EXCEPT ![t] = Append(@, s)]
               new == <<t, Len(ow[t]) + 1>>
           IN  /\ r # s => Adm(on, n + 1, r) = Adm(ow, n + 1, r)
               /\ r = s => Adm(on, n + 1, r) = Adm(ow, n + 1, r) \cup {new}
               /\ new \notin Adm(ow, n + 1, r)
<1> DEFINE on == [ow EXCEPT ![t] = Append(@, s)]
<1>1. ow[t] \in Seq(Steps) /\ on[t] = Append(ow[t], s) /\ \A u \in Tools \ {t} : on[u] = ow[u]
  OBVIOUS
<1>2. /\ Len(ow[t]) \in Nat /\ DOMAIN ow[t] = 1 .. Len(ow[t])
      /\ DOMAIN on[t] = 1 .. Len(ow[t]) + 1
      /\ \A i \in 1 .. Len(ow[t]) : on[t][i] = ow[t][i]
      /\ on[t][Len(ow[t]) + 1] = s
  BY <1>1, LenProperties, AppendProperties
<1> HIDE DEF on
<1>3. ASSUME NEW a \in Adm(on, n + 1, r)
      PROVE  a \in Adm(ow, n + 1, r) \/ (a = <<t, Len(ow[t]) + 1>> /\ r = s)
  <2>1. a \in Tools \X (1 .. n + 1) /\ a[2] \in DOMAIN on[a[1]] /\ on[a[1]][a[2]] = r
    BY DEF Adm
  <2>2. CASE a[1] # t
    BY <1>1, <2>1, <2>2 DEF Adm
  <2>3. CASE a[1] = t /\ a[2] # Len(ow[t]) + 1
    <3>1. a[2] \in 1 .. Len(ow[t])
      BY <1>2, <2>1, <2>3
    <3> QED
      BY <1>2, <2>1, <2>3, <3>1 DEF Adm
  <2>4. CASE a[1] = t /\ a[2] = Len(ow[t]) + 1
    <3>1. a = <<t, Len(ow[t]) + 1>>
      BY <2>1, <2>4
    <3>2. r = s
      BY <1>2, <2>1, <2>4
    <3> QED
      BY <3>1, <3>2
  <2> QED
    BY <2>2, <2>3, <2>4
<1>4. ASSUME NEW a \in Adm(ow, n + 1, r)
      PROVE  a \in Adm(on, n + 1, r)
  <2>1. a \in Tools \X (1 .. n + 1) /\ a[2] \in DOMAIN ow[a[1]] /\ ow[a[1]][a[2]] = r
    BY DEF Adm
  <2>2. CASE a[1] # t
    BY <1>1, <2>1, <2>2 DEF Adm
  <2>3. CASE a[1] = t
    <3>1. a[2] \in 1 .. Len(ow[t])
      BY <1>2, <2>1, <2>3
    <3>2. a[2] \in DOMAIN on[t] /\ on[t][a[2]] = r
      BY <1>2, <2>1, <2>3, <3>1
    <3> QED
      BY <2>1, <2>3, <3>2 DEF Adm
  <2> QED
    BY <2>2, <2>3
<1>5. r = s => <<t, Len(ow[t]) + 1>> \in Adm(on, n + 1, r)
  <2>1. Len(ow[t]) + 1 \in 1 .. n + 1
    BY <1>2
  <2> QED
    BY <1>2, <2>1 DEF Adm
<1>6. <<t, Len(ow[t]) + 1>> \notin Adm(ow, n + 1, r)
  BY <1>2 DEF Adm
<1> QED
  BY <1>3, <1>4, <1>5, <1>6 DEF on

\* A bound on the calls that is not reached does not matter.
LEMMA AdmBound ==
    ASSUME NEW ow \in [Tools -> Seq(Steps)], NEW n \in Nat, \A t \in Tools : Len(ow[t]) <= n, NEW s
    PROVE  Adm(ow, n + 1, s) = Adm(ow, n, s)
<1>1. ASSUME NEW a, a \in Tools \X (1 .. n + 1), a[2] \in DOMAIN ow[a[1]]
      PROVE  a \in Tools \X (1 .. n)
  <2>1. a[1] \in Tools /\ a[2] \in 1 .. n + 1 /\ a = <<a[1], a[2]>>
    BY <1>1
  <2>2. ow[a[1]] \in Seq(Steps) /\ Len(ow[a[1]]) <= n
    BY <2>1
  <2>3. DOMAIN ow[a[1]] = 1 .. Len(ow[a[1]]) /\ Len(ow[a[1]]) \in Nat
    BY <2>2, LenProperties
  <2>4. a[2] \in 1 .. n
    BY <1>1, <2>1, <2>2, <2>3
  <2> QED
    BY <2>1, <2>4
<1>2. Tools \X (1 .. n) \subseteq Tools \X (1 .. n + 1)
  OBVIOUS
<1> QED
  BY <1>1, <1>2 DEF Adm

\* A call that is credited takes away one admission, of the step it is credited to.
FirstTaken(ow, on, n, t) ==
    /\ ow \in [Tools -> Seq(Steps)] /\ on \in [Tools -> Seq(Steps)]
    /\ n \in Nat /\ t \in Tools
    /\ ow[t] # << >> /\ Len(ow[t]) <= n
    /\ on[t] = Tail(ow[t]) /\ \A u \in Tools \ {t} : on[u] = ow[u]

LEMMA AdmTail ==
    ASSUME NEW ow, NEW on, NEW n, NEW t, NEW r, FirstTaken(ow, on, n, t)
    PROVE  /\ r = Head(ow[t]) => Cardinality(Adm(ow, n, r)) = Cardinality(Adm(on, n, r)) + 1
           /\ r # Head(ow[t]) => Cardinality(Adm(ow, n, r)) = Cardinality(Adm(on, n, r))
<1>0. /\ ow \in [Tools -> Seq(Steps)] /\ on \in [Tools -> Seq(Steps)]
      /\ n \in Nat /\ t \in Tools
      /\ ow[t] # << >> /\ Len(ow[t]) <= n
      /\ on[t] = Tail(ow[t]) /\ \A u \in Tools \ {t} : on[u] = ow[u]
  BY DEF FirstTaken
<1> USE <1>0
<1> DEFINE new == Adm(on, n, r)
           left == Adm(ow, n, r) \ {<<t, 1>>}
           f == [a \in new |-> <<a[1], IF a[1] = t THEN a[2] + 1 ELSE a[2]>>]
<1>1. ow[t] \in Seq(Steps) /\ on[t] = Tail(ow[t]) /\ \A u \in Tools \ {t} : on[u] = ow[u]
  OBVIOUS
<1>2. /\ Len(ow[t]) \in Nat \ {0} /\ DOMAIN ow[t] = 1 .. Len(ow[t])
      /\ DOMAIN on[t] = 1 .. Len(ow[t]) - 1
      /\ \A i \in 1 .. Len(ow[t]) - 1 : on[t][i] = ow[t][i + 1]
      /\ Head(ow[t]) = ow[t][1]
  <2>1. Tail(ow[t]) \in Seq(Steps) /\ Len(Tail(ow[t])) = Len(ow[t]) - 1
        /\ \A i \in 1 .. Len(Tail(ow[t])) : Tail(ow[t])[i] = ow[t][i + 1]
    BY <1>1, HeadTailProperties
  <2>2. Len(ow[t]) \in Nat \ {0} /\ DOMAIN ow[t] = 1 .. Len(ow[t])
    BY <1>1, EmptySeq, LenProperties
  <2>3. DOMAIN Tail(ow[t]) = 1 .. Len(Tail(ow[t]))
    BY <2>1, LenProperties
  <2>4. Head(ow[t]) = ow[t][1]
    BY <1>1
  <2> QED
    BY <1>1, <2>1, <2>2, <2>3, <2>4
<1>3. ASSUME NEW a \in new
      PROVE  /\ <<a[1], IF a[1] = t THEN a[2] + 1 ELSE a[2]>> \in left
             /\ a = <<a[1], a[2]>> /\ a[2] \in Nat
  <2>1. a \in Tools \X (1 .. n) /\ a[2] \in DOMAIN on[a[1]] /\ on[a[1]][a[2]] = r
    BY DEF Adm
  <2>2. CASE a[1] # t
    <3>1. a \in Adm(ow, n, r)
      BY <1>1, <2>1, <2>2 DEF Adm
    <3>2. a = <<a[1], a[2]>> /\ a[2] \in Nat
      BY <2>1
    <3>3. a # <<t, 1>>
      BY <2>2
    <3> HIDE DEF f, new
    <3> QED
      BY <2>2, <3>1, <3>2, <3>3
  <2>3. CASE a[1] = t
    <3>1. a[2] \in 1 .. Len(ow[t]) - 1
      BY <1>2, <2>1, <2>3
    <3>2. a[2] + 1 \in 1 .. n /\ a[2] + 1 \in DOMAIN ow[t] /\ ow[t][a[2] + 1] = r /\ a[2] + 1 # 1
      BY <1>2, <2>1, <2>3, <3>1
    <3>3. <<t, a[2] + 1>> \in Adm(ow, n, r)
      BY <3>2 DEF Adm
    <3> QED
      BY <2>1, <2>3, <3>2, <3>3
  <2> QED
    BY <2>2, <2>3
<1>4. f \in [new -> left]
  BY <1>3
<1>5. ASSUME NEW a \in new, NEW b \in new, f[a] = f[b]
      PROVE  a = b
  <2>1. /\ a = <<a[1], a[2]>> /\ a[2] \in Nat
        /\ b = <<b[1], b[2]>> /\ b[2] \in Nat
    BY <1>3
  <2>2. /\ f[a] = <<a[1], IF a[1] = t THEN a[2] + 1 ELSE a[2]>>
        /\ f[b] = <<b[1], IF b[1] = t THEN b[2] + 1 ELSE b[2]>>
    OBVIOUS
  <2>3. /\ a[1] = b[1]
        /\ (IF a[1] = t THEN a[2] + 1 ELSE a[2]) = (IF b[1] = t THEN b[2] + 1 ELSE b[2])
    BY <2>2, <1>5
  <2>4. a[2] = b[2]
    BY <2>1, <2>3
  <2> QED
    BY <2>1, <2>3, <2>4
<1>6. f \in Injection(new, left)
  <2>1. DOMAIN f = new
    OBVIOUS
  <2> HIDE DEF f, new, left
  <2> QED
    BY <1>4, <1>5, <2>1 DEF Injection, IsInjective
<1>7. /\ IsFiniteSet(Adm(ow, n, r)) /\ Cardinality(Adm(ow, n, r)) \in Nat
      /\ IsFiniteSet(new) /\ Cardinality(new) \in Nat
  BY AdmFinite
<1>8. /\ IsFiniteSet(left)
      /\ Cardinality(left) = IF <<t, 1>> \in Adm(ow, n, r) THEN Cardinality(Adm(ow, n, r)) - 1
                             ELSE Cardinality(Adm(ow, n, r))
  BY <1>7, FS_RemoveElement
<1>9. Cardinality(new) <= Cardinality(left)
  <2> HIDE DEF f, new, left
  <2> QED
    BY <1>6, <1>8, FS_Injection
<1>10. ASSUME NEW b \in left
       PROVE  \E a \in new : f[a] = b
  <2>1. /\ b \in Tools \X (1 .. n) /\ b[2] \in DOMAIN ow[b[1]] /\ ow[b[1]][b[2]] = r
        /\ b = <<b[1], b[2]>> /\ b # <<t, 1>>
    BY DEF Adm
  <2>2. CASE b[1] # t
    <3>1. b \in new
      BY <1>1, <2>1, <2>2 DEF Adm
    <3>2. f[b] = <<b[1], b[2]>>
      BY <2>2, <3>1
    <3> QED
      BY <2>1, <3>1, <3>2
  <2>3. CASE b[1] = t
    <3>1. b[2] \in 1 .. Len(ow[t]) /\ b[2] # 1 /\ b[2] \in 1 .. n
      BY <1>2, <2>1, <2>3
    <3> DEFINE a == <<t, b[2] - 1>>
    <3>2. /\ b[2] - 1 \in 1 .. Len(ow[t]) - 1 /\ b[2] - 1 \in 1 .. n /\ b[2] - 1 + 1 = b[2]
      BY <1>2, <3>1
    <3>3. b[2] - 1 \in DOMAIN on[t] /\ on[t][b[2] - 1] = r
      BY <1>2, <2>1, <2>3, <3>2
    <3>4. a \in new /\ a[1] = t /\ a[2] = b[2] - 1
      BY <3>2, <3>3 DEF Adm
    <3>5. f[a] = <<t, b[2] - 1 + 1>>
      BY <3>4
    <3> QED
      BY <2>1, <2>3, <3>2, <3>4, <3>5
  <2> QED
    BY <2>2, <2>3
<1>11. Cardinality(left) <= Cardinality(new)
  <2> HIDE DEF f, new, left
  <2>1. f \in Surjection(new, left)
    BY <1>4, <1>10 DEF Surjection
  <2> QED
    BY <1>7, <2>1, FS_Surjection
<1>12. r = Head(ow[t]) <=> <<t, 1>> \in Adm(ow, n, r)
  BY <1>2 DEF Adm
<1>13. /\ r = Head(ow[t]) => Cardinality(Adm(ow, n, r)) = Cardinality(new) + 1
       /\ r # Head(ow[t]) => Cardinality(Adm(ow, n, r)) = Cardinality(new)
  <2>1. Cardinality(left) = Cardinality(new)
    <3>1. Cardinality(left) \in Nat
      BY <1>8, FS_CardinalityType
    <3> HIDE DEF f, new, left
    <3> QED
      BY <1>7, <1>9, <1>11, <3>1
  <2> HIDE DEF f, new, left
  <2>2. CASE r = Head(ow[t])
    BY <1>7, <1>8, <1>12, <2>1, <2>2
  <2>3. CASE r # Head(ow[t])
    BY <1>7, <1>8, <1>12, <2>1, <2>3
  <2> QED
    BY <2>2, <2>3
<1> QED
  BY <1>7, <1>13

\* Without owners there are no admissions.
LEMMA AdmEmpty ==
    ASSUME NEW n \in Nat, NEW s
    PROVE  Cardinality(Adm([t \in Tools |-> << >>], n, s)) = 0
<1>1. DOMAIN << >> = {}
  BY EmptySeq
<1>2. Adm([t \in Tools |-> << >>], n, s) = {}
  BY <1>1 DEF Adm
<1> QED
  BY <1>2, FS_EmptySet

LEMMA AdmitLedger == ASSUME Playing, NEW t \in Tools, Admit(t) PROVE Ledger'
<1>1. PICK s \in Steps \cup {Nobody} :
          /\ started' = started + 1
          /\ IF s = Nobody THEN Unowned(t) ELSE Owned(t, s)
          /\ calls' = Append(calls, [tool |-> t, step |-> s])
          /\ UNCHANGED <<playbook, executed, fruitless, unrun, decided, paused, moved>>
  BY DEF Admit
<1>2. Ledger /\ \A r \in Steps : attempts[r] = executed[r] + fruitless[r] + Cardinality(Adm(owners, started, r))
  BY Counted DEF Playing
<1>3. /\ attempts \in [Steps -> Nat] /\ executed \in [Steps -> Nat] /\ fruitless \in [Steps -> Nat]
      /\ owners \in [Tools -> Seq(Steps)]
      /\ calls \in Seq(InFlight) /\ started \in Nat /\ \A u \in Tools : Len(owners[u]) <= started
      /\ started' \in Nat /\ unrun' \subseteq Steps /\ decided' \in BOOLEAN /\ paused' \in Nat /\ moved' \in Nat
  BY <1>1, <1>2 DEF Ledger
<1>4. calls' \in Seq(InFlight)
  <2>1. [tool |-> t, step |-> s] \in InFlight
    BY DEF InFlight
  <2> QED
    BY <1>1, <1>3, <2>1, AppendProperties
<1>5. \A u \in Tools : Len(owners[u]) \in Nat
  BY <1>3, LenProperties
<1>6. \A r : Adm(owners, started + 1, r) = Adm(owners, started, r)
  BY <1>3, AdmBound
<1>7. CASE UNCHANGED <<attempts, owners>>
  <2>1. \A u \in Tools : Len(owners'[u]) <= started'
    BY <1>1, <1>3, <1>5, <1>7
  <2>2. \A r \in Steps : attempts'[r] = executed'[r] + fruitless'[r] + Cardinality(Adm(owners', started', r))
    BY <1>1, <1>2, <1>6, <1>7
  <2> QED
    BY <1>1, <1>3, <1>4, <1>7, <2>1, <2>2, LedgerStep
<1>8. CASE Owned(t, s) /\ s # Nobody
  <2>1. s \in Steps
    BY <1>8
  <2> DEFINE on == [owners EXCEPT ![t] = Append(@, s)]
  <2>2. attempts' = [attempts EXCEPT ![s] = @ + 1] /\ owners' = on
    BY <1>8 DEF Owned
  <2>3. on[t] = Append(owners[t], s) /\ \A u \in Tools \ {t} : on[u] = owners[u]
    BY <1>3
  <2>4. Append(owners[t], s) \in Seq(Steps) /\ Len(Append(owners[t], s)) = Len(owners[t]) + 1
    BY <1>3, <2>1, AppendProperties
  <2>5. on \in [Tools -> Seq(Steps)] /\ \A u \in Tools : Len(on[u]) <= started + 1
    BY <1>3, <1>5, <2>3, <2>4
  <2>6. attempts' \in [Steps -> Nat] /\ attempts'[s] = attempts[s] + 1
        /\ \A r \in Steps \ {s} : attempts'[r] = attempts[r]
    BY <1>3, <2>1, <2>2
  <2>7. ASSUME NEW r \in Steps
        PROVE  /\ Cardinality(Adm(owners, started, r)) \in Nat
               /\ Cardinality(Adm(on, started + 1, r)) =
                     Cardinality(Adm(owners, started, r)) + (IF r = s THEN 1 ELSE 0)
    <3> DEFINE new == <<t, Len(owners[t]) + 1>>
               old == Adm(owners, started, r)
               now == Adm(on, started + 1, r)
    <3>1. IsFiniteSet(old) /\ Cardinality(old) \in Nat
      BY <1>3, AdmFinite
    <3>2. /\ r # s => now = Adm(owners, started + 1, r)
          /\ r = s => now = Adm(owners, started + 1, r) \cup {new}
          /\ new \notin Adm(owners, started + 1, r)
      BY <1>3, <2>1, AdmAppend
    <3>3. Adm(owners, started + 1, r) = old
      BY <1>6
    <3> HIDE DEF old, now, new
    <3>4. Cardinality(now) = Cardinality(old) + (IF r = s THEN 1 ELSE 0)
      <4>1. CASE r = s
        <5>1. Cardinality(old \cup {new}) = Cardinality(old) + 1
          BY <3>1, <3>2, <3>3, FS_AddElement
        <5> QED
          BY <3>2, <3>3, <4>1, <5>1
      <4>2. CASE r # s
        BY <3>1, <3>2, <3>3, <4>2
      <4> QED
        BY <4>1, <4>2
    <3> QED
      BY <3>1, <3>4 DEF old, now
  <2> HIDE DEF on
  <2>8. ASSUME NEW r \in Steps
        PROVE  attempts'[r] = executed'[r] + fruitless'[r] + Cardinality(Adm(owners', started', r))
    <3>1. /\ attempts[r] = executed[r] + fruitless[r] + Cardinality(Adm(owners, started, r))
          /\ executed'[r] = executed[r] /\ fruitless'[r] = fruitless[r]
          /\ executed[r] \in Nat /\ fruitless[r] \in Nat /\ attempts[r] \in Nat
      BY <1>1, <1>2, <1>3
    <3>2. Adm(owners', started', r) = Adm(on, started + 1, r)
      BY <1>1, <2>2
    <3>3. CASE r = s
      BY <2>6, <2>7, <3>1, <3>2, <3>3
    <3>4. CASE r # s
      BY <2>6, <2>7, <3>1, <3>2, <3>4
    <3> QED
      BY <3>3, <3>4
  <2> QED
    BY <1>1, <1>3, <1>4, <2>2, <2>5, <2>6, <2>8, LedgerStep
<1> QED
  BY <1>1, <1>7, <1>8 DEF Unowned

LEMMA CreditLedger == ASSUME Playing, NEW outcome, Credit(outcome) PROVE Ledger'
<1> DEFINE t == Head(calls).tool
<1>1. /\ calls # << >> /\ calls' = Tail(calls)
      /\ IF owners[t] = << >> THEN UNCHANGED <<owners, executed, fruitless, unrun>>
         ELSE LET s == Head(owners[t])
              IN  /\ owners' = [owners EXCEPT ![t] = Tail(@)]
                  /\ executed' = [executed EXCEPT ![s] = IF outcome = "ran" THEN @ + 1 ELSE @]
                  /\ fruitless' = [fruitless EXCEPT ![s] = IF outcome = "ran" THEN @ ELSE @ + 1]
                  /\ unrun' = IF outcome = "not run" THEN unrun \cup {s} ELSE unrun
      /\ UNCHANGED <<playbook, attempts, decided, started, paused, moved>>
  BY DEF Credit
<1>2. Ledger /\ \A r \in Steps : attempts[r] = executed[r] + fruitless[r] + Cardinality(Adm(owners, started, r))
  BY Counted DEF Playing
<1>3. /\ attempts \in [Steps -> Nat] /\ executed \in [Steps -> Nat] /\ fruitless \in [Steps -> Nat]
      /\ owners \in [Tools -> Seq(Steps)]
      /\ calls \in Seq(InFlight) /\ started \in Nat /\ \A u \in Tools : Len(owners[u]) <= started
      /\ unrun \subseteq Steps
      /\ attempts' \in [Steps -> Nat] /\ started' \in Nat /\ decided' \in BOOLEAN /\ paused' \in Nat /\ moved' \in Nat
  BY <1>1, <1>2, SameDefinition DEF Ledger
<1>4. Head(calls) \in InFlight /\ calls' \in Seq(InFlight)
  BY <1>1, <1>3, HeadTailProperties
<1>5. t \in Tools
  BY <1>4 DEF InFlight
<1> HIDE DEF t
<1>6. CASE owners[t] = << >>
  <2>1. UNCHANGED <<owners, executed, fruitless, unrun>>
    BY <1>1, <1>6
  <2>2. \A r \in Steps : attempts'[r] = executed'[r] + fruitless'[r] + Cardinality(Adm(owners', started', r))
    BY <1>1, <1>2, <2>1
  <2>3. \A u \in Tools : Len(owners'[u]) <= started'
    BY <1>1, <1>3, <2>1
  <2> QED
    BY <1>1, <1>3, <1>4, <2>1, <2>2, <2>3, LedgerStep
<1>7. CASE owners[t] # << >>
  <2> DEFINE s == Head(owners[t])
             on == [owners EXCEPT ![t] = Tail(@)]
  <2>1. /\ owners' = on
        /\ executed' = [executed EXCEPT ![s] = IF outcome = "ran" THEN @ + 1 ELSE @]
        /\ fruitless' = [fruitless EXCEPT ![s] = IF outcome = "ran" THEN @ ELSE @ + 1]
        /\ unrun' = IF outcome = "not run" THEN unrun \cup {s} ELSE unrun
    BY <1>1, <1>7
  <2>2. /\ s \in Steps /\ Tail(owners[t]) \in Seq(Steps) /\ Len(Tail(owners[t])) = Len(owners[t]) - 1
        /\ Len(owners[t]) \in Nat
    BY <1>3, <1>5, <1>7, HeadTailProperties, LenProperties
  <2>3. on \in [Tools -> Seq(Steps)] /\ \A u \in Tools : Len(on[u]) <= started
    BY <1>3, <1>5, <2>2
  <2>4. ASSUME NEW r \in Steps
        PROVE  /\ r = s => Cardinality(Adm(owners, started, r)) = Cardinality(Adm(on, started, r)) + 1
               /\ r # s => Cardinality(Adm(owners, started, r)) = Cardinality(Adm(on, started, r))
    <3>1. /\ owners \in [Tools -> Seq(Steps)] /\ started \in Nat
          /\ owners[t] # << >> /\ Len(owners[t]) <= started
      BY <1>3, <1>5, <1>7
    <3>2. on[t] = Tail(owners[t]) /\ \A u \in Tools \ {t} : on[u] = owners[u]
      BY <1>5, <3>1
    <3>3. FirstTaken(owners, on, started, t)
      BY <1>5, <2>3, <3>1, <3>2 DEF FirstTaken
    <3> HIDE DEF on
    <3> QED
      BY <3>3, AdmTail
  <2>5. \A r \in Steps : Cardinality(Adm(on, started, r)) \in Nat /\ Cardinality(Adm(owners, started, r)) \in Nat
    BY <1>3, AdmFinite
  <2> HIDE DEF on, s
  <2>6. /\ executed' \in [Steps -> Nat] /\ fruitless' \in [Steps -> Nat] /\ unrun' \subseteq Steps
        /\ \A r \in Steps : executed'[r] + fruitless'[r] =
                                executed[r] + fruitless[r] + (IF r = s THEN 1 ELSE 0)
    <3>1. unrun' \subseteq Steps
      BY <1>3, <2>1, <2>2
    <3>2. \A r \in Steps : executed[r] \in Nat /\ fruitless[r] \in Nat
      BY <1>3
    <3>3. CASE outcome = "ran"
      <4>1. executed' = [executed EXCEPT ![s] = @ + 1] /\ fruitless' = [fruitless EXCEPT ![s] = @]
        BY <2>1, <3>3
      <4>2. fruitless' = fruitless
        BY <1>3, <2>2, <4>1
      <4>3. /\ executed' \in [Steps -> Nat] /\ executed'[s] = executed[s] + 1
            /\ \A r \in Steps \ {s} : executed'[r] = executed[r]
        <5>1. executed \in [Steps -> Nat] /\ s \in Steps
          BY <1>3, <2>2
        <5>2. executed[s] + 1 \in Nat
          BY <5>1
        <5> QED
          BY <4>1, <5>1, <5>2
      <4> QED
        BY <1>3, <3>1, <3>2, <4>2, <4>3
    <3>4. CASE outcome # "ran"
      <4>1. executed' = [executed EXCEPT ![s] = @] /\ fruitless' = [fruitless EXCEPT ![s] = @ + 1]
        BY <2>1, <3>4
      <4>2. executed' = executed
        BY <1>3, <2>2, <4>1
      <4>3. /\ fruitless' \in [Steps -> Nat] /\ fruitless'[s] = fruitless[s] + 1
            /\ \A r \in Steps \ {s} : fruitless'[r] = fruitless[r]
        <5>1. fruitless \in [Steps -> Nat] /\ s \in Steps
          BY <1>3, <2>2
        <5>2. fruitless[s] + 1 \in Nat
          BY <5>1
        <5> QED
          BY <4>1, <5>1, <5>2
      <4> QED
        BY <1>3, <3>1, <3>2, <4>2, <4>3
    <3> QED
      BY <3>3, <3>4
  <2>7. ASSUME NEW r \in Steps
        PROVE  attempts'[r] = executed'[r] + fruitless'[r] + Cardinality(Adm(owners', started', r))
    <3>1. /\ attempts[r] = executed[r] + fruitless[r] + Cardinality(Adm(owners, started, r))
          /\ attempts'[r] = attempts[r]
          /\ executed[r] \in Nat /\ fruitless[r] \in Nat /\ attempts[r] \in Nat
          /\ executed'[r] \in Nat /\ fruitless'[r] \in Nat
      BY <1>1, <1>2, <1>3, <2>6
    <3>2. Adm(owners', started', r) = Adm(on, started, r)
      BY <1>1, <2>1
    <3>3. /\ Cardinality(Adm(on, started, r)) \in Nat /\ Cardinality(Adm(owners, started, r)) \in Nat
          /\ r = s => Cardinality(Adm(owners, started, r)) = Cardinality(Adm(on, started, r)) + 1
          /\ r # s => Cardinality(Adm(owners, started, r)) = Cardinality(Adm(on, started, r))
          /\ executed'[r] + fruitless'[r] = executed[r] + fruitless[r] + (IF r = s THEN 1 ELSE 0)
      BY <2>4, <2>5, <2>6
    <3>4. CASE r = s
      BY <3>1, <3>2, <3>3, <3>4
    <3>5. CASE r # s
      BY <3>1, <3>2, <3>3, <3>5
    <3> QED
      BY <3>4, <3>5
  <2>8. \A u \in Tools : Len(owners'[u]) <= started'
    BY <1>1, <2>1, <2>3
  <2> QED
    BY <1>1, <1>3, <1>4, <2>1, <2>3, <2>6, <2>7, <2>8, LedgerStep
<1> QED
  BY <1>6, <1>7

LEMMA UnfinishedLedger == ASSUME Playing, Unfinished PROVE Ledger'
<1>1. /\ Ledger /\ calls # << >> /\ calls' = Tail(calls)
      /\ UNCHANGED <<playbook, attempts, executed, fruitless, unrun, owners, decided, started, paused,
                     moved>>
  BY DEF Playing, Unfinished
<1>2. calls' \in Seq(InFlight)
  BY <1>1, HeadTailProperties DEF Ledger
<1>3. \A r \in Steps : attempts'[r] = executed'[r] + fruitless'[r] + Cardinality(Adm(owners', started', r))
  BY <1>1, Counted
<1> QED
  BY <1>1, <1>2, <1>3, LedgerStep DEF Ledger

\* A pause releases the admissions of the calls it holds: what is left are those credited.
LEMMA PauseLedger == ASSUME Playing, Pause PROVE Ledger'
<1>1. /\ Ledger /\ owners' = [t \in Tools |-> << >>] /\ calls' = << >> /\ paused' = paused + 1
      /\ attempts' = [s \in Steps |-> attempts[s] - Cardinality(Admissions(s))]
      /\ UNCHANGED <<playbook, executed, fruitless, unrun, decided, started, moved>>
  BY DEF Playing, Pause, Released
<1>2. /\ attempts \in [Steps -> Nat] /\ executed \in [Steps -> Nat] /\ started \in Nat
      /\ executed' \in [Steps -> Nat] /\ fruitless \in [Steps -> Nat] /\ fruitless' \in [Steps -> Nat]
      /\ started' \in Nat /\ paused' \in Nat /\ moved' \in Nat
      /\ unrun' \subseteq Steps /\ decided' \in BOOLEAN
  BY <1>1 DEF Ledger
<1>3. ASSUME NEW s \in Steps
      PROVE  /\ attempts'[s] \in Nat
             /\ attempts'[s] = executed'[s] + fruitless'[s] + Cardinality(Adm(owners', started', s))
  <2>1. Admissions(s) = Adm(owners, started, s)
    BY DEF Admissions, Adm
  <2>2. attempts'[s] = attempts[s] - Cardinality(Adm(owners, started, s))
    BY <1>1, <2>1
  <2>3. Cardinality(Adm(owners, started, s)) \in Nat
    BY <1>2, AdmFinite
  <2>4. attempts[s] = executed[s] + fruitless[s] + Cardinality(Adm(owners, started, s))
    BY <1>1, Counted
  <2>5. Cardinality(Adm(owners', started', s)) = 0
    BY <1>1, <1>2, AdmEmpty
  <2>6. /\ executed[s] \in Nat /\ fruitless[s] \in Nat /\ attempts[s] \in Nat
        /\ executed'[s] = executed[s] /\ fruitless'[s] = fruitless[s]
    BY <1>1, <1>2
  <2> QED
    BY <2>2, <2>3, <2>4, <2>5, <2>6
<1>4. attempts' \in [Steps -> Nat]
  BY <1>1, <1>3
<1>5. owners' \in [Tools -> Seq(Steps)] /\ calls' \in Seq(InFlight) /\ \A t \in Tools : Len(owners'[t]) <= started'
  BY <1>1, <1>2, EmptySeq
<1> QED
  BY <1>1, <1>2, <1>3, <1>4, <1>5, LedgerStep

LEMMA RestoreLedger == ASSUME Playing, Restore PROVE Ledger'
<1>1. /\ Ledger /\ Graph /\ owners' = [t \in Tools |-> << >>] /\ calls' = << >> /\ moved' = moved + 1
      /\ executed' = [s \in Steps |-> record[s].calls] /\ attempts' = executed'
      /\ fruitless' = [s \in Steps |-> 0] /\ unrun' = {} /\ decided' = FALSE
      /\ UNCHANGED <<playbook, started, paused>>
  BY DEF Playing, Restore
<1>2. executed' \in [Steps -> Nat] /\ fruitless' \in [Steps -> Nat]
  BY <1>1 DEF Graph, Record
<1>3. started' \in Nat /\ paused' \in Nat /\ moved' \in Nat
  BY <1>1 DEF Ledger
<1>4. ASSUME NEW s \in Steps
      PROVE  attempts'[s] = executed'[s] + fruitless'[s] + Cardinality(Adm(owners', started', s))
  <2>1. Cardinality(Adm(owners', started', s)) = 0
    BY <1>1, <1>3, AdmEmpty
  <2> QED
    BY <1>1, <1>2, <2>1
<1>5. owners' \in [Tools -> Seq(Steps)] /\ calls' \in Seq(InFlight) /\ \A t \in Tools : Len(owners'[t]) <= started'
  BY <1>1, <1>3, EmptySeq
<1> QED
  BY <1>1, <1>2, <1>3, <1>4, <1>5, LedgerStep

LEMMA InitLedger == ASSUME Init PROVE Ledger
<1>1. /\ attempts = [s \in Steps |-> 0] /\ executed = [s \in Steps |-> 0]
      /\ fruitless = [s \in Steps |-> 0] /\ unrun = {} /\ decided = FALSE
      /\ owners = [t \in Tools |-> << >>] /\ calls = << >> /\ started = 0 /\ paused = 0 /\ moved = 0
  BY DEF Init
<1>2. ASSUME NEW s \in Steps
      PROVE  attempts[s] = executed[s] + fruitless[s] + Cardinality(Admissions(s))
  <2>1. Admissions(s) = Adm(owners, started, s)
    BY DEF Admissions, Adm
  <2>2. Cardinality(Adm(owners, started, s)) = 0
    BY <1>1, AdmEmpty
  <2> QED
    BY <1>1, <2>1, <2>2
<1>3. owners \in [Tools -> Seq(Steps)] /\ calls \in Seq(InFlight) /\ \A t \in Tools : Len(owners[t]) <= started
  BY <1>1, EmptySeq
<1> QED
  BY <1>1, <1>2, <1>3 DEF Ledger, CallsAreCountedOnce

\* Every other step leaves the ledger alone.
LEMMA OtherLedger ==
    ASSUME Playing,
           \/ Unpause
           \/ \E s \in Steps, as \in {"done", "not_executed"} : Closes(s, as)
           \/ \E inconclusive \in BOOLEAN : SubmitDecision(inconclusive)
    PROVE  Ledger'
<1>1. /\ Ledger /\ decided' \in BOOLEAN
      /\ UNCHANGED <<playbook, attempts, executed, fruitless, unrun, owners, calls, started, paused,
                     moved>>
  BY DEF Playing, Ledger, Unpause, Closes, SubmitDecision
<1> QED
  BY <1>1, LedgerStays

(***************************************************************************)
(* The invariant                                                           *)
(***************************************************************************)

\* What a step of the run keeps: the invariant, and the status of what is closed.
Keeps == Playing' /\ \A s \in Steps : status[s] \in Terminal => status'[s] = status[s]

LEMMA CallsKeep ==
    ASSUME Playing,
           \/ \E t \in Tools : Admit(t)
           \/ \E outcome : Credit(outcome)
           \/ Unfinished
    PROVE  Keeps
<1>1. UNCHANGED <<playbook, status, routed, record>>
  BY DEF Admit, Credit, Unfinished
<1>2. Graph'
  BY <1>1, GraphStays DEF Playing
<1>3. Ledger'
  BY AdmitLedger, CreditLedger, UnfinishedLedger
<1> QED
  BY <1>1, <1>2, <1>3 DEF Playing, Keeps

LEMMA PausesKeep == ASSUME Playing, Pause \/ Unpause PROVE Keeps
<1>1. Graph' /\ Ledger' /\ playbook' = playbook
  BY PauseGraph, PauseLedger, OtherLedger DEF Pause, Unpause
<1>2. PICK from \in {"active", "blocked"}, to \in {"active", "blocked"} :
          status' = [s \in Steps |-> IF status[s] = from THEN to ELSE status[s]]
  BY DEF Pause, Unpause, Recorded
<1>3. \A s \in Steps : status[s] \in Terminal => status'[s] = status[s]
  BY <1>2 DEF Terminal
<1> QED
  BY <1>1, <1>3 DEF Playing, Keeps

LEMMA DecisionKeeps ==
    ASSUME Playing, NEW inconclusive \in BOOLEAN, SubmitDecision(inconclusive)
    PROVE  Keeps
<1>1. Graph' /\ Ledger' /\ playbook' = playbook
  BY DecisionGraph, OtherLedger DEF SubmitDecision
<1>2. status' = [s \in Steps |-> IF s \notin Unresolved THEN status[s]
                                 ELSE IF s \in Active \cap playbook.deciders THEN "done"
                                 ELSE "waived"]
  BY DEF SubmitDecision, Recorded
<1>3. \A s \in Steps : status[s] \in Terminal => status'[s] = status[s]
  BY <1>2 DEF Unresolved
<1> QED
  BY <1>1, <1>3 DEF Playing, Keeps

LEMMA ClosesKeeps ==
    ASSUME Playing, NEW s \in Steps, CompleteStep(s) \/ CompleteTask(s)
    PROVE  Keeps
<1>1. PICK as \in {"done", "not_executed"} : s \in Active /\ Closes(s, as)
  BY DEF CompleteStep, CompleteTask
<1>2. Graph' /\ \A r \in Steps : status[r] \in Terminal => status'[r] = status[r]
  BY <1>1, ClosesGraph
<1>3. Ledger' /\ playbook' = playbook
  BY <1>1, OtherLedger DEF Closes
<1> QED
  BY <1>2, <1>3 DEF Playing, Keeps

LEMMA RestoreKeeps == ASSUME Playing, Restore PROVE Keeps
<1>1. Graph' /\ (\A s \in Steps : status'[s] = status[s]) /\ Ledger' /\ playbook' = playbook
  BY RestoreGraph, RestoreLedger DEF Restore
<1> QED
  BY <1>1 DEF Playing, Keeps

LEMMA NextKeeps == ASSUME Playing, Next PROVE Keeps
  BY CallsKeep, PausesKeep, DecisionKeeps, ClosesKeeps, RestoreKeeps DEF Next

LEMMA StutterKeeps == ASSUME Playing, UNCHANGED playbookVars PROVE Keeps
<1>1. UNCHANGED <<playbook, status, routed, record, attempts, executed, fruitless, unrun, owners, calls, decided,
                  started, paused, moved>>
  BY DEF playbookVars
<1>2. Graph'
  BY <1>1, GraphStays DEF Playing
<1>3. Ledger'
  BY <1>1, LedgerStays DEF Playing, Ledger
<1> QED
  BY <1>1, <1>2, <1>3 DEF Playing, Keeps

LEMMA InitPlays == ASSUME Init PROVE Playing
  BY InitGraph, InitLedger DEF Playing, Init

(***************************************************************************)
(* The theorems                                                            *)
(***************************************************************************)

\* The strengthening the properties follow from: closed steps, settled routes and their
\* records agree, and admissions cover the calls that are credited or may still be.
THEOREM PlaybookInvariant == Spec => []Playing
<1>1. Init => Playing
  BY InitPlays
<1>2. Playing /\ [Next]_playbookVars => Playing'
  BY NextKeeps, StutterKeeps DEF Keeps
<1> QED
  BY <1>1, <1>2, PTL DEF Spec

\* Type correctness of the run.
THEOREM PlaybookTypeCorrect == Spec => []PlaybookTypeOK
<1>1. Playing => PlaybookTypeOK
  BY DEF Playing, Graph, Ledger, Record, InFlight, PlaybookTypeOK
<1> QED
  BY <1>1, PlaybookInvariant, PTL

\* No step is opened before its turn: not by advance(), nor by a decision, nor by the
\* records a runtime is rebuilt from.
THEOREM StepsAlwaysWait == Spec => []StepsWaitForTheirTurn
<1>1. ASSUME Playing
      PROVE  StepsWaitForTheirTurn
  <2>1. \A s \in Steps : status[s] \notin {"pending", "waived"} => Waits(s, status, routed)
    BY <1>1 DEF Playing, Graph, Begun
  <2> QED
    BY <2>1 DEF StepsWaitForTheirTurn, Waits, Unresolved
<1> QED
  BY <1>1, PlaybookInvariant, PTL

\* A call is counted once against the ceiling of its step, whatever is paused, credited to
\* another step or never credited.
THEOREM CallsAlwaysCountedOnce == Spec => []CallsAreCountedOnce
<1>1. Playing => CallsAreCountedOnce
  BY DEF Playing, Ledger
<1> QED
  BY <1>1, PlaybookInvariant, PTL

\* A step that is over stays over, with the outcome it had, wherever the run moves.
THEOREM ClosedAlwaysStayClosed == Spec => ClosedStepsStayClosed
<1>1. Playing /\ [Next]_playbookVars
          => [\A s \in Steps : status[s] \in Terminal => status'[s] = status[s]]_playbookVars
  BY NextKeeps DEF Keeps
<1> QED
  BY <1>1, PlaybookInvariant, PTL DEF Spec, ClosedStepsStayClosed

(***************************************************************************)
(* What the trace tells                                                    *)
(***************************************************************************)

\* Steps that have finished have settled their branches; and no step that waits is routed
\* out, or comes after one that is.
Routes(st, rt) ==
    \A r \in Steps : playbook.branches[r] # {} /\ st[r] \in Satisfies => rt[r] # NoRoute
NoneOut(st, rt) ==
    \A s \in Pending(st) :
        Gate(s, rt) # "shut" /\ \A d \in playbook.after[s] : st[d] # "waived"

\* What the record of a step that is over says of its branches.
Recalls(st, rt, rec) ==
    \A r \in Steps : playbook.branches[r] # {} =>
        /\ st[r] = "done" => rec[r].enabled = rt[r]
        /\ st[r] \in {"waived", "not_executed"} => rec[r].enabled = NoRoute

\* As long as a step is left, those that wait are not routed out, and the branches of the
\* finished ones are settled, with a record of those that are done.
Left(st) == \E s \in Steps : st[s] \notin Terminal
ToldIn(st, rt, rec) == Left(st) => NoneOut(st, rt) /\ Routes(st, rt) /\ Recalls(st, rt, rec)
Told == ToldIn(status, routed, record)

\* What a move of the run comes to for it.
LEMMA ToldStep ==
    ASSUME playbook' = playbook, ToldIn(status', routed', record')
    PROVE  Told'
  BY DEF Told, ToldIn, Left, NoneOut, Routes, Recalls, Pending, Gate, Routers, Steps

\* The steps that advance() waives are all that are routed out.
LEMMA WaivedIsClosed ==
    ASSUME NEW st, NEW rt, NEW s \in Pending(st),
           \/ Gate(s, rt) = "shut"
           \/ \E d \in playbook.after[s] : st[d] = "waived" \/ d \in Waived(st, rt)
    PROVE  s \in Waived(st, rt)
  BY DEF Waived

\* After advance() no step is left that is routed out, and none has finished by it.
LEMMA WaivesAll ==
    ASSUME playbook \in Playbooks, NEW st \in [Steps -> Statuses], NEW rt, NEW left,
           left = [s \in Steps |-> IF s \in Waived(st, rt) THEN "waived" ELSE st[s]]
    PROVE  /\ NoneOut(left, rt) /\ left \in [Steps -> Statuses]
           /\ \A s \in Steps : left[s] = st[s] \/ (left[s] = "waived" /\ st[s] = "pending")
<1> DEFINE out == Waived(st, rt)
<1>1. playbook.after \in [Steps -> SUBSET Steps]
  BY Definition
<1>2. out \subseteq Pending(st)
  BY DEF Waived
<1>3. NoneOut(left, rt)
  <2> SUFFICES ASSUME NEW s \in Pending(left)
               PROVE  Gate(s, rt) # "shut" /\ \A d \in playbook.after[s] : left[d] # "waived"
    BY DEF NoneOut
  <2>1. s \in Pending(st) /\ s \notin out /\ s \in Steps
    BY DEF Pending
  <2>2. Gate(s, rt) # "shut" /\ \A d \in playbook.after[s] : st[d] # "waived" /\ d \notin out
    BY <2>1, WaivedIsClosed
  <2> QED
    BY <1>1, <2>1, <2>2
<1>4. /\ left \in [Steps -> Statuses]
      /\ \A s \in Steps : left[s] = st[s] \/ (left[s] = "waived" /\ st[s] = "pending")
  BY <1>2 DEF Statuses, Terminal, Pending
<1> QED
  BY <1>3, <1>4

LEMMA AdvancedWaives ==
    ASSUME playbook \in Playbooks, NEW st \in [Steps -> Statuses], NEW rt
    PROVE  /\ NoneOut(Advanced(st, rt), rt)
           /\ \A s \in Steps : /\ Advanced(st, rt)[s] \in Satisfies => st[s] = Advanced(st, rt)[s]
                               /\ Advanced(st, rt)[s] = "waived" => st[s] \in {"waived", "pending"}
<1> DEFINE left == [s \in Steps |-> IF s \in Waived(st, rt) THEN "waived" ELSE st[s]]
           on == Activated(left, rt)
           n == [s \in Steps |-> IF s \in on THEN "active" ELSE left[s]]
<1>1. playbook.after \in [Steps -> SUBSET Steps]
  BY Definition
<1>2. Advanced(st, rt) = n
  BY DEF Advanced
<1>3. /\ NoneOut(left, rt) /\ left \in [Steps -> Statuses]
      /\ \A s \in Steps : left[s] = st[s] \/ (left[s] = "waived" /\ st[s] = "pending")
  BY WaivesAll
<1> HIDE DEF left
<1>4. on \subseteq Pending(left)
  BY DEF Activated
<1> HIDE DEF on
<1>5. \A s \in Steps : n[s] = left[s] \/ (s \in on /\ left[s] = "pending" /\ n[s] = "active")
  BY <1>4 DEF Pending
<1> HIDE DEF n
<1>6. NoneOut(n, rt)
  <2>1. \A s \in Pending(n) : s \in Pending(left)
    BY <1>5 DEF Pending
  <2>2. \A d \in Steps : n[d] = "waived" => left[d] = "waived"
    BY <1>5
  <2> QED
    BY <1>1, <1>3, <2>1, <2>2 DEF NoneOut, Pending
<1>7. \A s \in Steps : /\ n[s] \in Satisfies => st[s] = n[s]
                       /\ n[s] = "waived" => st[s] \in {"waived", "pending"}
  BY <1>3, <1>5 DEF Satisfies
<1> QED
  BY <1>2, <1>6, <1>7

LEMMA InitTold == ASSUME Init PROVE Told
<1> DEFINE st == [s \in Steps |-> "pending"]
           n == Advanced(st, routed)
<1>1. /\ playbook \in Playbooks /\ status = n
      /\ record = [s \in Steps |-> [status |-> status[s], calls |-> 0, enabled |-> NoRoute]]
  BY DEF Init
<1>2. st \in [Steps -> Statuses]
  BY DEF Statuses
<1>3. \A s \in Steps : st[s] = "pending"
  OBVIOUS
<1> HIDE DEF st
<1>4. NoneOut(n, routed) /\ \A s \in Steps : n[s] \in Satisfies => st[s] = n[s]
  BY <1>1, <1>2, AdvancedWaives
<1> HIDE DEF n
<1>5. \A s \in Steps : n[s] \notin Satisfies
  BY <1>3, <1>4 DEF Satisfies
<1>6. Routes(status, routed) /\ Recalls(status, routed, record)
  BY <1>1, <1>5 DEF Routes, Recalls, Satisfies
<1> QED
  BY <1>1, <1>4, <1>6 DEF Told, ToldIn

\* A step that closes has settled its own branches by then.
LEMMA ClosesRoutes ==
    ASSUME Playing, Told, NEW s \in Active, NEW as \in {"done", "not_executed"}, Closes(s, as)
    PROVE  LET st == [status EXCEPT ![s] = as]
           IN  st \in [Steps -> Statuses] /\ Routes(st, routed')
<1>1. PICK taken \in SUBSET playbook.branches[s] :
          routed' = IF playbook.branches[s] = {} THEN routed ELSE [routed EXCEPT ![s] = taken]
  BY DEF Closes
<1>2. /\ Graph /\ playbook \in Playbooks /\ s \in Steps /\ status[s] \in {"active", "blocked"}
      /\ status \in [Steps -> Statuses] /\ routed \in [Steps -> (SUBSET Steps) \cup {NoRoute}]
  BY DEF Playing, Graph, Active
<1>3. Routes(status, routed)
  BY <1>2 DEF Told, ToldIn, Left, Terminal
<1>4. taken # NoRoute
  BY <1>2, Definition
<1> DEFINE st == [status EXCEPT ![s] = as]
<1>5. st \in [Steps -> Statuses] /\ st[s] = as /\ \A r \in Steps \ {s} : st[r] = status[r]
  BY <1>2 DEF Statuses, Terminal
<1>6. /\ \A r \in Steps \ {s} : routed'[r] = routed[r]
      /\ playbook.branches[s] # {} => routed'[s] = taken
  BY <1>1, <1>2
<1> HIDE DEF st
<1>7. Routes(st, routed')
  BY <1>3, <1>4, <1>5, <1>6 DEF Routes
<1> QED
  BY <1>5, <1>7 DEF st

LEMMA ClosesTold ==
    ASSUME Playing, Told, NEW s \in Active, NEW as \in {"done", "not_executed"}, Closes(s, as)
    PROVE  Told'
<1> DEFINE enabled(taken) ==
             [r \in {s} \cap {q \in Steps : as = "done" /\ playbook.branches[q] # {}} |-> taken]
<1>1. PICK taken \in SUBSET playbook.branches[s] :
          /\ routed' = IF playbook.branches[s] = {} THEN routed ELSE [routed EXCEPT ![s] = taken]
          /\ Recorded(Advanced([status EXCEPT ![s] = as], routed'), enabled(taken))
          /\ playbook' = playbook
  BY DEF Closes
<1>2. /\ Graph /\ playbook \in Playbooks /\ s \in Steps /\ status[s] \in {"active", "blocked"}
      /\ status \in [Steps -> Statuses] /\ routed \in [Steps -> (SUBSET Steps) \cup {NoRoute}]
  BY DEF Playing, Graph, Active
<1>3. Routes(status, routed) /\ Recalls(status, routed, record)
  BY <1>2 DEF Told, ToldIn, Left, Terminal
<1>4. taken # NoRoute
  BY <1>2, Definition
<1> DEFINE st == [status EXCEPT ![s] = as]
           n == Advanced(st, routed')
<1>5. st \in [Steps -> Statuses] /\ st[s] = as /\ \A r \in Steps \ {s} : st[r] = status[r]
  BY <1>2 DEF Statuses, Terminal
<1>6. /\ \A r \in Steps \ {s} : routed'[r] = routed[r]
      /\ playbook.branches[s] # {} => routed'[s] = taken
  BY <1>1, <1>2
<1>7. /\ status' = n
      /\ record' = [r \in Steps |->
                      IF n[r] = status[r] THEN record[r]
                      ELSE [status |-> n[r], calls |-> executed[r],
                            enabled |-> IF r \in DOMAIN enabled(taken) THEN enabled(taken)[r] ELSE NoRoute]]
  BY <1>1 DEF Recorded
<1> HIDE DEF st
<1>8. Routes(st, routed')
  BY ClosesRoutes DEF st
<1>9. /\ NoneOut(n, routed')
      /\ \A r \in Steps : n[r] \in Satisfies => st[r] = n[r]
      /\ \A r \in Steps : n[r] = "waived" => st[r] \in {"waived", "pending"}
  BY <1>2, <1>5, AdvancedWaives
<1> HIDE DEF n
<1>10. Routes(n, routed')
  BY <1>8, <1>9 DEF Routes
<1>11. ASSUME NEW r \in Steps, playbook.branches[r] # {}, n[r] = "done"
       PROVE  record'[r].enabled = routed'[r]
  <2>1. st[r] = "done"
    BY <1>9, <1>11 DEF Satisfies
  <2>2. CASE r = s
    <3>1. as = "done" /\ n[r] # status[r]
      BY <1>2, <1>5, <1>11, <2>1, <2>2
    <3>2. r \in DOMAIN enabled(taken) /\ enabled(taken)[r] = taken
      BY <1>11, <2>2, <3>1
    <3> HIDE DEF enabled
    <3>3. record'[r].enabled = taken
      BY <1>7, <3>1, <3>2
    <3> QED
      BY <1>6, <1>11, <2>2, <3>3
  <2>3. CASE r # s
    <3>1. status[r] = "done" /\ record'[r] = record[r] /\ routed'[r] = routed[r]
      BY <1>5, <1>6, <1>7, <1>11, <2>1, <2>3
    <3> QED
      BY <1>3, <1>11, <3>1 DEF Recalls
  <2> QED
    BY <2>2, <2>3
<1>12. ASSUME NEW r \in Steps, playbook.branches[r] # {}, n[r] \in {"waived", "not_executed"}
       PROVE  record'[r].enabled = NoRoute
  <2>1. st[r] \in {"waived", "pending", "not_executed"}
    BY <1>9, <1>12 DEF Satisfies
  <2>2. CASE r = s
    <3>1. as # "done" /\ n[r] # status[r]
      BY <1>2, <1>5, <1>12, <2>1, <2>2
    <3>2. r \notin DOMAIN enabled(taken)
      BY <3>1
    <3> HIDE DEF enabled
    <3> QED
      BY <1>7, <3>1, <3>2
  <2>3. CASE r # s /\ n[r] = status[r]
    <3>1. record'[r] = record[r]
      BY <1>7, <2>3
    <3> QED
      BY <1>3, <1>12, <2>3, <3>1 DEF Recalls
  <2>4. CASE r # s /\ n[r] # status[r]
    <3>1. r \notin DOMAIN enabled(taken)
      BY <2>4
    <3> HIDE DEF enabled
    <3> QED
      BY <1>7, <2>4, <3>1
  <2> QED
    BY <2>2, <2>3, <2>4
<1>13. ToldIn(n, routed', record')
  BY <1>9, <1>10, <1>11, <1>12 DEF ToldIn, Recalls
<1> QED
  BY <1>1, <1>7, <1>13, ToldStep

\* What pauses and resumes moves open steps only.
LEMMA PausesTold == ASSUME Playing, Told, Pause \/ Unpause PROVE Told'
<1>1. PICK from \in {"active", "blocked"}, to \in {"active", "blocked"} :
          /\ Recorded([s \in Steps |-> IF status[s] = from THEN to ELSE status[s]], << >>)
          /\ UNCHANGED <<playbook, routed>>
  BY DEF Pause, Unpause
<1>2. \A s \in Steps : \/ status'[s] = status[s] /\ record'[s] = record[s]
                       \/ {status[s], status'[s]} \subseteq {"active", "blocked"}
  BY <1>1 DEF Recorded
<1>3. ToldIn(status', routed, record')
  <2> SUFFICES ASSUME Left(status')
               PROVE  NoneOut(status', routed) /\ Routes(status', routed) /\ Recalls(status', routed, record')
    BY DEF ToldIn
  <2>1. NoneOut(status, routed) /\ Routes(status, routed) /\ Recalls(status, routed, record)
    BY <1>2 DEF Told, ToldIn, Left, Terminal
  <2>2. NoneOut(status', routed)
    <3>1. Pending(status') = Pending(status)
      BY <1>2 DEF Pending
    <3>2. \A s \in Steps : playbook.after[s] \subseteq Steps
      BY Definition DEF Playing
    <3> QED
      BY <1>2, <2>1, <3>1, <3>2 DEF NoneOut, Pending
  <2>3. Routes(status', routed)
    BY <1>2, <2>1 DEF Routes, Satisfies
  <2>4. Recalls(status', routed, record')
    BY <1>2, <2>1 DEF Recalls
  <2> QED
    BY <2>2, <2>3, <2>4
<1> QED
  BY <1>1, <1>3, ToldStep

\* A decision leaves no step to go on with.
LEMMA DecisionTold ==
    ASSUME NEW inconclusive, SubmitDecision(inconclusive)
    PROVE  Told'
<1>1. /\ playbook' = playbook
      /\ status' = [s \in Steps |-> IF s \notin Unresolved THEN status[s]
                                    ELSE IF s \in Active \cap playbook.deciders THEN "done"
                                    ELSE "waived"]
  BY DEF SubmitDecision, Recorded
<1>2. \A s \in Steps : status'[s] \in Terminal
  BY <1>1 DEF Unresolved, Terminal
<1> QED
  BY <1>1, <1>2, ToldStep DEF ToldIn, Left

\* What the records tell of the routers of a step that waits: which of them are over, and of
\* the ones that are done, what they took.  One that was waived or not executed is taken to
\* lead to the step.
LEMMA ToldRoutes ==
    ASSUME Playing, Told, NEW s \in Pending(status), NEW r \in Routers(s)
    PROVE  /\ r \in Steps
           /\ status[r] \notin {"waived", "not_executed"} => RestoredRoutes[r] = routed[r]
           /\ status[r] \in {"waived", "not_executed"} =>
                 RestoredRoutes[r] # NoRoute /\ s \in RestoredRoutes[r]
           /\ status[r] = "not_executed" => routed[r] # NoRoute
<1>1. s \in Steps /\ status[s] = "pending" /\ r \in Steps /\ s \in playbook.branches[r]
  BY DEF Pending, Routers, Steps
<1>2. Routes(status, routed) /\ Recalls(status, routed, record)
  BY <1>1 DEF Told, ToldIn, Left, Terminal
<1>3. /\ playbook.branches[r] \subseteq Steps
      /\ \A taken \in SUBSET Steps : taken # NoRoute
  BY <1>1, Definition DEF Playing
<1>4. /\ \A q \in Steps : record[q].status = status[q]
      /\ routed[r] # NoRoute => status[r] \in Terminal
      /\ status[r] \in Statuses
  BY <1>1 DEF Playing, Graph
<1> DEFINE open == {t \in playbook.branches[r] : record[t].status # "waived"}
<1>5. RestoredRoutes[r] = IF playbook.branches[r] = {} \/ record[r].status \notin Terminal THEN NoRoute
                          ELSE IF record[r].enabled # NoRoute THEN record[r].enabled
                          ELSE open
  BY <1>1 DEF RestoredRoutes
<1>6. open # NoRoute /\ s \in open
  BY <1>1, <1>3, <1>4
<1> HIDE DEF open
<1>7. playbook.branches[r] # {}
  BY <1>1
<1>8. CASE status[r] \notin Terminal
  <2>1. routed[r] = NoRoute /\ RestoredRoutes[r] = NoRoute
    BY <1>1, <1>4, <1>5, <1>8
  <2> QED
    BY <1>1, <1>8, <2>1 DEF Terminal
<1>9. CASE status[r] = "done"
  <2>1. record[r].enabled = routed[r] /\ routed[r] # NoRoute
    BY <1>1, <1>2, <1>7, <1>9 DEF Routes, Recalls, Satisfies
  <2>2. RestoredRoutes[r] = routed[r]
    BY <1>1, <1>4, <1>5, <1>7, <1>9, <2>1 DEF Terminal
  <2> QED
    BY <1>1, <1>9, <2>1, <2>2
<1>10. CASE status[r] \in {"waived", "not_executed"}
  <2>1. record[r].enabled = NoRoute
    BY <1>1, <1>2, <1>7, <1>10 DEF Recalls
  <2>2. RestoredRoutes[r] = open
    BY <1>1, <1>4, <1>5, <1>7, <1>10, <2>1 DEF Terminal
  <2>3. status[r] = "not_executed" => routed[r] # NoRoute
    BY <1>1, <1>2, <1>7 DEF Routes, Satisfies
  <2> QED
    BY <1>1, <1>6, <1>10, <2>2, <2>3
<1> QED
  BY <1>8, <1>9, <1>10 DEF Terminal

\* A runtime that is rebuilt routes no step out that was waiting.
LEMMA RestoreTold == ASSUME Playing, Told, Restore PROVE Told'
<1>1. /\ playbook' = playbook /\ record' = record /\ routed' = RestoredRoutes
      /\ status' = [s \in Steps |-> record[s].status]
  BY DEF Restore
<1>2. Graph /\ status \in [Steps -> Statuses] /\ playbook \in Playbooks
  BY DEF Playing, Graph
<1>3. status' = status
  <2>1. \A s \in Steps : record[s].status = status[s]
    BY <1>2 DEF Graph
  <2> QED
    BY <1>1, <1>2, <2>1
<1>4. ToldIn(status, RestoredRoutes, record)
  <2> SUFFICES ASSUME Left(status)
               PROVE  /\ NoneOut(status, RestoredRoutes) /\ Routes(status, RestoredRoutes)
                      /\ Recalls(status, RestoredRoutes, record)
    BY DEF ToldIn
  <2>1. NoneOut(status, routed) /\ Routes(status, routed) /\ Recalls(status, routed, record)
    BY DEF Told, ToldIn
  <2>2. ASSUME NEW s \in Pending(status) PROVE Gate(s, RestoredRoutes) # "shut"
    <3>1. Gate(s, routed) # "shut"
      BY <2>1, <2>2 DEF NoneOut
    <3>2. CASE \E r \in Routers(s) : status[r] \in {"waived", "not_executed"}
      <4>1. PICK r \in Routers(s) : status[r] \in {"waived", "not_executed"}
        BY <3>2
      <4>2. RestoredRoutes[r] # NoRoute /\ s \in RestoredRoutes[r]
        BY <2>2, <4>1, ToldRoutes
      <4> QED
        BY <4>1, <4>2 DEF Gate
    <3>3. CASE \A r \in Routers(s) : status[r] \notin {"waived", "not_executed"}
      <4>1. \A r \in Routers(s) : RestoredRoutes[r] = routed[r]
        BY <2>2, <3>3, ToldRoutes
      <4> QED
        BY <3>1, <4>1 DEF Gate
    <3> QED
      BY <3>2, <3>3
  <2>3. NoneOut(status, RestoredRoutes)
    BY <2>1, <2>2 DEF NoneOut
  <2>4. ASSUME NEW r \in Steps, playbook.branches[r] # {}, status[r] \in Satisfies
        PROVE  RestoredRoutes[r] # NoRoute /\ (status[r] = "done" => record[r].enabled = RestoredRoutes[r])
    <3> DEFINE open == {t \in playbook.branches[r] : record[t].status # "waived"}
    <3>1. RestoredRoutes[r] = IF record[r].enabled # NoRoute THEN record[r].enabled ELSE open
      BY <1>2, <2>4 DEF RestoredRoutes, Graph, Satisfies, Terminal
    <3>2. open # NoRoute
      <4>1. open \in SUBSET Steps
        BY <1>2, Definition
      <4> HIDE DEF open
      <4> QED
        BY <1>2, <4>1, Definition
    <3>3. status[r] = "done" => record[r].enabled # NoRoute
      BY <2>1, <2>4 DEF Routes, Recalls
    <3> HIDE DEF open
    <3> QED
      BY <3>1, <3>2, <3>3
  <2>5. Routes(status, RestoredRoutes)
    BY <2>4 DEF Routes
  <2>6. Recalls(status, RestoredRoutes, record)
    BY <2>1, <2>4 DEF Recalls, Satisfies
  <2> QED
    BY <2>1, <2>3, <2>5, <2>6
<1> QED
  BY <1>1, <1>3, <1>4, ToldStep

LEMMA NextTold == ASSUME Playing, Told, [Next]_playbookVars PROVE Told'
<1>1. ASSUME UNCHANGED <<playbook, status, routed, record>> PROVE Told'
  BY <1>1, ToldStep DEF Told
<1>2. CASE \/ \E t \in Tools : Admit(t)
           \/ \E outcome \in {"ran", "not run", "failed"} : Credit(outcome)
           \/ Unfinished
           \/ UNCHANGED playbookVars
  BY <1>1, <1>2 DEF Admit, Credit, Unfinished, playbookVars
<1>3. ASSUME NEW s \in Steps, CompleteStep(s) \/ CompleteTask(s) PROVE Told'
  BY <1>3, ClosesTold DEF CompleteStep, CompleteTask
<1> QED
  BY <1>2, <1>3, PausesTold, DecisionTold, RestoreTold DEF Next

THEOREM ToldInvariant == Spec => [](Playing /\ Told)
<1>1. Playing /\ Told /\ [Next]_playbookVars => Told'
  BY NextTold
<1> QED
  BY <1>1, InitTold, PlaybookInvariant, PTL DEF Spec

\* A step of which the records tell all waits for the same branches after a restore: its
\* routers are done or still to come, or it has one that was not executed and led to it.
LEMMA GateIsTold ==
    ASSUME Playing, Told, NEW s \in Pending(status), ~Vague(s)
    PROVE  Gate(s, RestoredRoutes) = Gate(s, routed)
<1>1. \A r \in Routers(s) : status[r] # "waived"
  BY DEF Vague
<1>2. CASE \E r \in Routers(s) : status[r] = "not_executed"
  <2>1. PICK r \in Routers(s) : status[r] = "not_executed"
    BY <1>2
  <2>2. Routers(s) = {r}
    BY <2>1 DEF Vague
  <2>3. routed[r] # NoRoute /\ RestoredRoutes[r] # NoRoute /\ s \in RestoredRoutes[r]
    BY <2>1, ToldRoutes
  <2>4. Gate(s, routed) # "shut"
    BY DEF Told, ToldIn, Left, NoneOut, Pending, Terminal
  <2>5. Gate(s, routed) = "open"
    BY <2>2, <2>3, <2>4 DEF Gate
  <2>6. Gate(s, RestoredRoutes) = "open"
    BY <2>1, <2>3 DEF Gate
  <2> QED
    BY <2>5, <2>6
<1>3. CASE \A r \in Routers(s) : status[r] # "not_executed"
  <2>1. \A r \in Routers(s) : RestoredRoutes[r] = routed[r]
    BY <1>1, <1>3, ToldRoutes
  <2> QED
    BY <2>1 DEF Gate
<1> QED
  BY <1>2, <1>3

\* The records of a run tell another runtime where it is, whatever its definition: the
\* status of every step, and what each step that waits is waiting for, but for the steps
\* that a waived step leads to, or one not executed and others besides.
THEOREM TraceAlwaysTells == Spec => []TraceTellsWhereTheRunIs
<1>1. Playing /\ Told => TraceTellsWhereTheRunIs
  <2> SUFFICES ASSUME Playing, Told, NEW s \in Steps
               PROVE  /\ record[s].status = status[s]
                      /\ status[s] = "pending" /\ ~Vague(s) =>
                            Gate(s, RestoredRoutes) = Gate(s, routed)
    BY DEF TraceTellsWhereTheRunIs
  <2> QED
    BY GateIsTold DEF Playing, Graph, Pending
<1> QED
  BY <1>1, ToldInvariant, PTL

(***************************************************************************)
(* Nothing is stuck                                                        *)
(***************************************************************************)

\* As long as a step is left, one is open.
SomeOpen(st) == \E s \in Steps : st[s] \in {"active", "blocked"}
GoesOn(st) == Left(st) => SomeOpen(st)

\* Some step of a set of steps is defined before the others.
LEMMA FirstOf ==
    ASSUME playbook \in Playbooks, NEW S \in SUBSET Steps, S # {}
    PROVE  \E first \in S : first \in Lowest(S)
<1> DEFINE Below == {ss \in Nat \X Nat : ss[1] < ss[2]}
<1>1. IsWellFoundedOn(Below, Nat)
  BY NatLessThanWellFounded DEF OpToRel
<1> HIDE DEF Below
<1>2. S \in SUBSET Nat
  <2>1. Steps = 1 .. Cardinality(Steps) /\ IsFiniteSet(Steps)
    BY PlaybookAssumption DEF Steps
  <2>2. Cardinality(Steps) \in Nat
    BY <2>1, FS_CardinalityType
  <2> QED
    BY <2>1, <2>2
<1>3. PICK first \in S : \A s \in S : ~(<<s, first>> \in Below)
  BY <1>1, <1>2, WFMin
<1>4. ASSUME NEW s \in S PROVE first <= s
  <2>1. first \in Nat /\ s \in Nat /\ ~(<<s, first>> \in Below)
    BY <1>2, <1>3
  <2>2. ~(s < first)
    BY <2>1 DEF Below
  <2> QED
    BY <2>1, <2>2
<1> QED
  BY <1>4 DEF Lowest

\* In a well-built definition a step that waits for no other, and is not routed out, is
\* ready.
LEMMA FreeIsReady ==
    ASSUME playbook \in Playbooks, WellBuilt(playbook), NEW st \in [Steps -> Statuses], NEW rt,
           Routes(st, rt), NoneOut(st, rt), ~SomeOpen(st),
           NEW s \in Pending(st), Needs(playbook, s) \cap Pending(st) = {}
    PROVE  Ready(s, st, rt)
<1>1. s \in Steps /\ playbook.after[s] \subseteq Steps
  BY Definition DEF Pending
<1>2. \A d \in Needs(playbook, s) \cap Steps : st[d] \in Terminal
  BY DEF Pending, SomeOpen, Statuses
<1>3. ASSUME NEW d \in playbook.after[s] PROVE st[d] \in Satisfies
  <2>1. d \in Needs(playbook, s) \cap Steps
    BY <1>1 DEF Needs
  <2>2. st[d] # "waived"
    BY DEF NoneOut
  <2> QED
    BY <1>2, <2>1, <2>2 DEF Terminal, Satisfies
<1>4. ASSUME NEW r \in Routers(s) PROVE rt[r] # NoRoute
  <2>1. r \in Steps /\ s \in playbook.branches[r] /\ r \in playbook.after[s]
    BY <1>1 DEF Routers, WellBuilt, Steps
  <2> QED
    BY <1>3, <2>1 DEF Routes
<1>5. Gate(s, rt) = "open"
  <2>1. Gate(s, rt) # "shut"
    BY DEF NoneOut
  <2> QED
    BY <1>4, <2>1 DEF Gate
<1>6. ASSUME playbook.joins[s] # 0, NEW m \in Steps, playbook.group[m] = playbook.joins[s]
      PROVE  st[m] \in Terminal
  <2>1. m \in Needs(playbook, s)
    BY <1>6 DEF Needs, Steps
  <2> QED
    BY <1>2, <2>1
<1> QED
  BY <1>3, <1>5, <1>6 DEF Ready

\* After advance() one step is open, when one is left.
LEMMA AdvancedGoesOn ==
    ASSUME playbook \in Playbooks, WellBuilt(playbook), NEW st \in [Steps -> Statuses], NEW rt,
           Routes(st, rt)
    PROVE  GoesOn(Advanced(st, rt))
<1> DEFINE left == [s \in Steps |-> IF s \in Waived(st, rt) THEN "waived" ELSE st[s]]
           on == Activated(left, rt)
           n == Advanced(st, rt)
<1>1. /\ NoneOut(left, rt) /\ left \in [Steps -> Statuses]
      /\ \A s \in Steps : left[s] = st[s] \/ left[s] = "waived"
  BY WaivesAll
<1>2. \A s \in Steps : n[s] = IF s \in on THEN "active" ELSE left[s]
  BY DEF Advanced
<1> HIDE DEF left, n
<1>3. Routes(left, rt)
  BY <1>1 DEF Routes, Satisfies
<1>4. on \subseteq Steps
  BY DEF Activated, Pending
<1>5. Pending(left) # {} => SomeOpen(left) \/ on # {}
  <2> SUFFICES ASSUME Pending(left) # {}, ~SomeOpen(left) PROVE on # {}
    OBVIOUS
  <2> DEFINE ready == {s \in Pending(left) : Ready(s, left, rt)}
  <2>1. Pending(left) \in SUBSET DOMAIN playbook.after
    BY DEF Pending, Steps
  <2>2. PICK s \in Pending(left) : Needs(playbook, s) \cap Pending(left) = {}
    BY <2>1 DEF WellBuilt
  <2>3. Ready(s, left, rt)
    BY <1>1, <1>3, <2>2, FreeIsReady
  <2>4. s \in ready /\ ready \in SUBSET Steps
    BY <2>3 DEF Pending
  <2>5. PICK first \in ready : first \in Lowest(ready)
    BY <2>4, FirstOf
  <2>6. first \in on
    BY <2>5 DEF Activated, SomeOpen
  <2> QED
    BY <2>6
<1> HIDE DEF on
<1>6. ASSUME NEW s \in Steps, n[s] \notin Terminal PROVE SomeOpen(n)
  <2>1. CASE on # {}
    BY <1>2, <1>4, <2>1 DEF SomeOpen
  <2>2. CASE SomeOpen(left) /\ on = {}
    BY <1>2, <2>2 DEF SomeOpen
  <2>3. CASE on = {} /\ ~SomeOpen(left)
    <3>1. left[s] = "pending"
      BY <1>1, <1>2, <1>6, <2>3 DEF Statuses, Terminal, SomeOpen
    <3> QED
      BY <1>5, <2>3, <3>1 DEF Pending
  <2> QED
    BY <2>1, <2>2, <2>3
<1> QED
  BY <1>6 DEF GoesOn, Left, n

LEMMA InitGoesOn == ASSUME Init, WellBuilt(playbook) PROVE GoesOn(status)
<1> DEFINE st == [s \in Steps |-> "pending"]
<1>1. playbook \in Playbooks /\ status = Advanced(st, routed)
  BY DEF Init
<1>2. st \in [Steps -> Statuses] /\ Routes(st, routed)
  BY DEF Statuses, Routes, Satisfies
<1> QED
  BY <1>1, <1>2, AdvancedGoesOn

LEMMA NextGoesOn ==
    ASSUME Playing, Told, GoesOn(status), WellBuilt(playbook), [Next]_playbookVars
    PROVE  GoesOn(status)'
<1> SUFFICES ASSUME playbook' = playbook PROVE GoesOn(status')
  <2>1. playbook' = playbook
    BY DEF Next, Admit, Credit, Unfinished, Pause, Unpause, CompleteStep, CompleteTask, Closes,
           SubmitDecision, Restore, playbookVars
  <2> QED
    BY <2>1 DEF GoesOn, Left, SomeOpen, Steps
<1>1. CASE status' = status
  BY <1>1
<1>2. ASSUME NEW s \in Steps, CompleteStep(s) \/ CompleteTask(s) PROVE GoesOn(status')
  <2>1. PICK as \in {"done", "not_executed"} : s \in Active /\ Closes(s, as)
    BY <1>2 DEF CompleteStep, CompleteTask
  <2>2. status' = Advanced([status EXCEPT ![s] = as], routed')
    BY <2>1 DEF Closes, Recorded
  <2>3. playbook \in Playbooks
    BY DEF Playing
  <2> QED
    BY <2>1, <2>2, <2>3, ClosesRoutes, AdvancedGoesOn
<1>3. CASE Pause \/ Unpause
  <2>1. PICK from \in {"active", "blocked"}, to \in {"active", "blocked"} :
            status' = [s \in Steps |-> IF status[s] = from THEN to ELSE status[s]]
    BY <1>3 DEF Pause, Unpause, Recorded
  <2> QED
    BY <2>1 DEF GoesOn, Left, SomeOpen, Terminal
<1>4. ASSUME NEW inconclusive \in BOOLEAN, SubmitDecision(inconclusive) PROVE GoesOn(status')
  <2>1. status' = [s \in Steps |-> IF s \notin Unresolved THEN status[s]
                                   ELSE IF s \in Active \cap playbook.deciders THEN "done"
                                   ELSE "waived"]
    BY <1>4 DEF SubmitDecision, Recorded
  <2> QED
    BY <2>1 DEF GoesOn, Left, Unresolved, Terminal
<1>5. CASE Restore
  <2>1. \A s \in Steps : status'[s] = status[s]
    BY <1>5, RestoreGraph
  <2> QED
    BY <2>1 DEF GoesOn, Left, SomeOpen
<1> QED
  BY <1>1, <1>2, <1>3, <1>4, <1>5 DEF Next, Admit, Credit, Unfinished, playbookVars

\* In a run of a well-built definition a step is open as long as one is left, whatever
\* closes, is routed out, decided, paused or moved.
THEOREM NothingEverStuck ==
    ASSUME \A p \in Playbooks : WellBuilt(p)
    PROVE  Spec => []NothingIsStuck
<1>1. Playing => WellBuilt(playbook)
  BY DEF Playing
<1>2. Init => GoesOn(status)
  BY <1>1, InitGoesOn, InitPlays
<1>3. Playing /\ Told /\ GoesOn(status) /\ [Next]_playbookVars => GoesOn(status)'
  BY <1>1, NextGoesOn
<1>4. GoesOn(status) => NothingIsStuck
  BY DEF GoesOn, Left, SomeOpen, NothingIsStuck, Unresolved, Active
<1> QED
  BY <1>2, <1>3, <1>4, ToldInvariant, PTL DEF Spec
=============================================================================
