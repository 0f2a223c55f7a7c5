-------------------------- MODULE OperationJournal --------------------------
(***************************************************************************)
(* The durable operation journal: class Journal of                         *)
(* ls/core/agent/operation_journal.py, used by several processes on one    *)
(* directory.  An append validates the whole history, writes a temporary   *)
(* file, renames it to the next number and then flushes the directory, all *)
(* under one exclusive lease.  The rename makes the record visible; only   *)
(* the flush makes it durable and only then does the caller hear of it.    *)
(*                                                                         *)
(* An append is two steps here, so that a crash, a failed flush or a loss  *)
(* of power can come between them.  What precedes the rename leaves only a *)
(* temporary file, which _load skips, so it is no step.                    *)
(***************************************************************************)
EXTENDS OperationLog

CONSTANTS
  Processes,        \* processes that hold a Journal instance
  Kinds,            \* operation kinds these processes record
  Methods           \* owner control methods they receive

ASSUME KindsAssumption ==
  /\ Kinds \subseteq {"file_replace", "process", "owner_control"}
  /\ Methods \subseteq ControlMethods
  /\ None \notin Processes

VARIABLES
  log,        \* records visible in the directory
  synced,     \* how many of them a loss of power cannot take back
  appending,  \* holder of the exclusive lease that has renamed its record
  issued,     \* Journal._issued of each process
  performed,  \* history: operations whose effect has been dispatched
  orphans     \* history: unreported operations whose issuer is gone

vars == <<log, synced, appending, issued, performed, orphans>>

Init ==
  /\ log = <<>>
  /\ synced = 0
  /\ appending = None
  /\ issued = [p \in Processes |-> {}]
  /\ performed = {}
  /\ orphans = {}

-----------------------------------------------------------------------------
(* Actions *)

\* _append up to the rename.
Rename(p, r) ==
  /\ appending = None
  /\ Appendable(log, r)
  /\ log' = Append(log, r)
  /\ appending' = p
  /\ UNCHANGED <<synced, issued, performed, orphans>>

NewIntents ==
  {r \in WorkIntent : r.kind \in Kinds}
    \cup {r \in ControlIntent : r.kind \in Kinds /\ r.control.method \in Methods}

Begin(p) == \E r \in NewIntents : Rename(p, r)

\* Variant with a fault: whoever finds an operation may report on it.
MayReportAnyone(p, r) == r.op \in Operations

MayReport(p, r) == r.op \in issued[p] \/ r.reconciled

Finish(p) == \E r \in Outcome : MayReport(p, r) /\ Rename(p, r)

\* The rest of begin and finish: the directory is flushed, the lease is
\* released, and the instance takes note of the operation.
Acknowledge(p) ==
  /\ appending = p
  /\ appending' = None
  /\ synced' = Len(log)
  /\ LET r == log[Len(log)]
     IN  issued' = [issued EXCEPT ![p] =
                      IF r.type = "intent" THEN @ \cup {r.op} ELSE @ \ {r.op}]
  /\ UNCHANGED <<log, performed, orphans>>

\* The operation whose record p has renamed but not acknowledged.
InHand(p) == IF appending = p THEN {log[Len(log)].op} ELSE {}

\* The directory flush raises: the record stays visible, the caller is told
\* that the append failed, and the instance does not note the operation.
SyncFailure(p) ==
  /\ appending = p
  /\ appending' = None
  /\ orphans' = orphans \cup (InHand(p) \ Reported(log))
  /\ UNCHANGED <<log, synced, issued, performed>>

\* Variant with a fault: the operation is dispatched on a visible intent,
\* without waiting for begin to return.
MayPerformVisible(p, o) == o \in Begun(log)

MayPerform(p, o) == o \in issued[p]

\* The caller of begin dispatches the operation it was given
\* (process_broker.run_recorded, FileBroker._write, Requests).
Perform(p, o) ==
  /\ MayPerform(p, o)
  /\ appending # p
  /\ performed' = performed \cup {o}
  /\ UNCHANGED <<log, synced, appending, issued, orphans>>

\* The process ends; the kernel drops its lease and its _issued is gone.
Crash(p) ==
  /\ appending' = IF appending = p THEN None ELSE appending
  /\ orphans' = orphans \cup ((issued[p] \cup InHand(p)) \ Reported(log))
  /\ issued' = [issued EXCEPT ![p] = {}]
  /\ UNCHANGED <<log, synced, performed>>

\* The machine stops: renames after the last flush may be undone, last first.
PowerLoss ==
  \E n \in synced..Len(log) :
    /\ log' = SubSeq(log, 1, n)
    /\ synced' = n
    /\ appending' = None
    /\ orphans' = (orphans \cap Begun(log')) \cup (Begun(log') \ Reported(log'))
    /\ issued' = [p \in Processes |-> {}]
    /\ UNCHANGED performed

Next ==
  \/ \E p \in Processes :
       \/ Begin(p)
       \/ Finish(p)
       \/ Acknowledge(p)
       \/ SyncFailure(p)
       \/ \E o \in Operations : Perform(p, o)
       \/ Crash(p)
  \/ PowerLoss

Spec == Init /\ [][Next]_vars

-----------------------------------------------------------------------------
(* Properties *)

\* The types, and the limits within which Journal._load accepts the directory
\* at all: past them no process could open the journal again.
TypeOK ==
  /\ log \in Seq(Record)
  /\ Len(log) =< MaxRecords /\ Bytes(log) =< MaxTotal
  /\ synced \in 0..Len(log)
  /\ appending \in Processes \cup {None}
  /\ issued \in [Processes -> SUBSET Operations]
  /\ performed \subseteq Operations
  /\ orphans \subseteq Operations

Durable == SubSeq(log, 1, synced)

\* Nothing is dispatched whose intent a loss of power could still take back:
\* the write-ahead order of begin, the flush and the caller.
WriteAhead == performed \subseteq Begun(Durable)

\* An operation other than status or cancel begins only after every earlier
\* operation was settled, whoever began or settled it, in every interleaving
\* of processes and losses: the serial history _states insists on.
SerialHistory ==
  \A j \in Intents(log) : Bypasses(log[j]) \/
    \A i \in Intents(log) : i < j =>
      \E k \in OutcomesIn(log) :
        i < k /\ k < j /\ log[k].op = log[i].op /\ log[k].outcome # "uncertain"

\* However full the journal is, every unsettled operation of every prefix can
\* still be settled with a record of the largest size, within the limit of
\* records and within the limit of bytes: the reserve _append keeps.
RoomToSettle(h) ==
  LET unsettled == Cardinality(Open(h))
  IN  /\ Len(h) + unsettled =< MaxRecords
      /\ Bytes(h) + unsettled * MaxRecordBytes =< MaxTotal

SettlementFits == \A n \in 0..Len(log) : RoomToSettle(SubSeq(log, 1, n))

\* One operation per tool call and one per control request, over restarts:
\* a call that was recorded is reconciled, never recorded again.
NoReplay ==
  \A i, j \in Intents(log) : i # j =>
    /\ log[i].call # None => log[i].call # log[j].call
    /\ log[i].control # None => log[i].control.request # log[j].control.request

\* An operation whose issuer is gone before it reported gets no outcome but a
\* reconciled one: no later process can settle it as if it had watched it.
OrphansAreReconciled ==
  \A i \in OutcomesIn(log) : log[i].op \in orphans => log[i].reconciled

\* A durable settlement is final: no later step changes or removes it.
SettlementIsFinal ==
  [][\A o \in Settled(Durable) :
       /\ o \in Settled(Durable')
       /\ \A i \in OutcomesIn(log') : log'[i].op = o => i =< synced]_vars

\* The durable history implements the ledger the callers rely on: operations
\* other than status and cancel requests are opened one at a time and settled
\* once and for all, whatever is lost.
StateOf(o) ==
  IF o \notin Gating(Durable) THEN "absent"
  ELSE IF o \in Open(Durable) THEN "open" ELSE SettledAs(Durable, o)

Ledger == INSTANCE OperationLedger
            WITH ledger <- [o \in Operations |-> StateOf(o)]

ImplementsLedger == Ledger!Spec
=============================================================================
