---------------------------- MODULE FileApprovals ----------------------------
(***************************************************************************)
(* FileApprovals: the approval store in one JSON file, opened by several   *)
(* processes.  Every operation reads the whole file, changes it in memory  *)
(* and renames a temporary file over it; the lock around that is a         *)
(* threading.Lock, so it holds within one process only.  A crash between   *)
(* the read and the rename leaves the file as it was.                      *)
(*                                                                         *)
(* The store has one authority for all its records (PerRecord is FALSE),   *)
(* and the clock stands still: a grant counts as of the check, before the  *)
(* write.  An operator named Mut... is a wrong variant of the one after    *)
(* it.                                                                     *)
(*                                                                         *)
(* The variable records is what the file holds, so Approvals!Spec is what  *)
(* a reader of the file should see.                                        *)
(***************************************************************************)
EXTENDS Approvals

CONSTANTS
    Gates,     \* processes that submit and consume: those running agents
    Deciders,  \* processes that decide: the approvals command, a service
    Idle,      \* no operation in progress
    MaxUses    \* bound: consumptions followed per id

OneAuthority == ~PerRecord

Processes == Gates \cup Deciders

VARIABLES
    writing,   \* per process: what its operation is about to save, or Idle
    uses       \* history: consume() calls that returned, per id

fileVars == <<records, installed, now, writing, uses>>

\* An operation on its way from the read to the rename: the file's new content,
\* and the id it consumes, if any.
Write(recs, consumed) == [records |-> recs, consumed |-> consumed]

FileInit ==
    /\ Init
    /\ writing = [p \in Processes |-> Idle]
    /\ uses = [id \in Ids |-> 0]

\* Read the file and compute; nothing is visible to the other processes yet.
Begin(p, write) ==
    /\ writing[p] = Idle
    /\ writing' = [writing EXCEPT ![p] = write]
    /\ UNCHANGED <<records, installed, now, uses>>

BeginSubmit(p, call, labels) ==
    /\ CanOpen(records, call)
    /\ Begin(p, Write(Submitted(records, call, labels), {}))

\* Every record a decision by this person may leave behind; a refusal is saved too.
DecisionsBy(by, id, record, t) ==
    {Rejected(record, by) :
        v \in {v \in Verdicts : Check(id.call, record, by, v, t) = {}}}
    \cup {Denied(record, by, b, t) : b \in Check(id.call, record, by, "denied", t)}
    \cup {Tallied(record, by, x[1], x[2], t) :
            x \in {a \in Arguments : MayApprove(record, by, a)}
                    \X Check(id.call, record, by, "approved", t)}

BeginDecide(p, id, by) ==
    /\ records[id].status = "pending"
    /\ \E record \in DecisionsBy(by, id, records[id], now) :
          Begin(p, Write([records EXCEPT ![id] = record], {}))

MutBeginConsume(p, id) ==
    /\ uses[id] < MaxUses
    /\ Begin(p, Write([records EXCEPT ![id] = Consumed(@)], {id}))

BeginConsume(p, id) ==
    /\ Consumable(records, id) /\ uses[id] < MaxUses
    /\ Begin(p, Write([records EXCEPT ![id] = Consumed(@)], {id}))

\* Path.replace: the new content in one step, whatever the file held by then.
Save(p) ==
    /\ writing[p] # Idle
    /\ records' = writing[p].records
    /\ uses' = [id \in Ids |-> IF id \in writing[p].consumed THEN uses[id] + 1 ELSE uses[id]]
    /\ writing' = [writing EXCEPT ![p] = Idle]
    /\ UNCHANGED <<installed, now>>

\* The process dies, or the write fails: the temporary file is left or unlinked.
MutWriterDies(p) ==
    /\ writing[p] # Idle
    /\ records' = [id \in {} |-> writing[p].records[id]]
    /\ writing' = [writing EXCEPT ![p] = Idle]
    /\ UNCHANGED <<installed, now, uses>>

WriterDies(p) ==
    /\ writing[p] # Idle
    /\ writing' = [writing EXCEPT ![p] = Idle]
    /\ UNCHANGED <<records, installed, now, uses>>

FileNext ==
    \/ \E p \in Gates, call \in Calls, labels \in LabelSets : BeginSubmit(p, call, labels)
    \/ \E p \in Deciders, id \in DOMAIN records, by \in Principals : BeginDecide(p, id, by)
    \/ \E p \in Gates, id \in DOMAIN records : BeginConsume(p, id)
    \/ \E p \in Processes : Save(p) \/ WriterDies(p)

FileSpec == FileInit /\ [][FileNext]_fileVars

\* With one process, a reader of the file sees the atomic store of Approvals,
\* whenever the process crashes.
Implements == Spec

\* "An approval is used once": consume() returns at most once for an id, so the
\* side effect it stands in front of runs at most once for a decision.
UsedOnce == \A id \in Ids : uses[id] <= 1

=============================================================================
