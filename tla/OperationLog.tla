---------------------------- MODULE OperationLog ----------------------------
(***************************************************************************)
(* What the operation journal of ls/core/agent/operation_journal.py takes  *)
(* for a valid history.  A history is a sequence of records: an "intent"   *)
(* opens an operation, an "outcome" reports on it.  This module has no     *)
(* variables; the journal itself and the components that record their      *)
(* operations in it are state machines over these operators.               *)
(*                                                                         *)
(* Abstracted: digests are the things they identify, identifiers are model *)
(* values, sizes are counted in units, a record's size does not depend on  *)
(* its number, and the hash chain is the order of the sequence (equal      *)
(* heads are equal prefixes).                                              *)
(***************************************************************************)
EXTENDS Naturals, Sequences, FiniteSets, FiniteSetsExt

CONSTANTS
  Operations,       \* operation identities (uuid4 hex)
  Calls,            \* (run, call) identities of the model's tool calls
  Bindings,         \* digests of admitted control bindings
  Requests,         \* owner control request identities
  MaxRecords,       \* MAX_RECORDS
  MaxSequence,      \* highest owner control sequence number (1024)
  MaxControlBytes,  \* byte budget of one control journal (1 MiB)
  MaxRequestBytes,  \* largest control request (16384 bytes)
  MaxRecordBytes,   \* MAX_RECORD, the largest record (16384 bytes)
  MaxTotal,         \* MAX_TOTAL, byte limit of one journal (64 MiB)
  RecordBytes,      \* the size of each record's canonical JSON
  None              \* absent optional field

ASSUME BoundsAssumption ==
  /\ MaxRecords \in Nat
  /\ MaxSequence \in Nat
  /\ MaxControlBytes \in Nat
  /\ MaxRequestBytes \in Nat
  /\ MaxRecordBytes \in Nat
  /\ MaxTotal \in Nat

-----------------------------------------------------------------------------
(* Records *)

ControlMethods == {"status", "cancel", "steer", "approve",
                   "events.status", "events.pause", "events.resume",
                   "events.read"}

Outcomes == {"applied", "not_applied", "completed", "failed", "cancelled",
             "timed_out", "output_limit", "uncertain"}

Control ==
  [binding : Bindings, request : Requests, sequence : 1..MaxSequence,
   method : ControlMethods, bytes : 1..MaxRequestBytes]

\* A tool call is recorded only with the checkpoint it starts from, and
\* owner control never carries either.
WorkIntent ==
  [type : {"intent"}, op : Operations, kind : {"file_replace", "process"},
   call : Calls \cup {None}, control : {None}]

ControlIntent ==
  [type : {"intent"}, op : Operations, kind : {"owner_control"},
   call : {None}, control : Control]

Intent == WorkIntent \cup ControlIntent

Outcome ==
  [type : {"outcome"}, op : Operations, outcome : Outcomes,
   reconciled : BOOLEAN]

Record == Intent \cup Outcome

\* _encode refuses a larger record.
ASSUME SizesAssumption == RecordBytes \in [Record -> 1..MaxRecordBytes]

\* Outcomes the journal accepts for an operation of each kind.
OutcomesOf(kind) ==
  IF kind = "file_replace" THEN {"applied", "not_applied", "uncertain"}
  ELSE IF kind = "owner_control" THEN {"completed", "uncertain"}
  ELSE Outcomes \ {"applied"}

-----------------------------------------------------------------------------
(* Reading a history *)

Intents(log) == {i \in DOMAIN log : log[i].type = "intent"}

OutcomesIn(log) == {i \in DOMAIN log : log[i].type = "outcome"}

Begun(log) == {log[i].op : i \in Intents(log)}

\* A reported outcome that is not "uncertain" settles its operation.
Settled(log) ==
  {log[i].op : i \in {j \in OutcomesIn(log) : log[j].outcome # "uncertain"}}

\* Operations whose state is "uncertain": begun and not settled.
Open(log) == Begun(log) \ Settled(log)

\* The outcome an operation was settled with.
SettledAs(log, o) ==
  CHOOSE x \in Outcomes \ {"uncertain"} :
    \E i \in OutcomesIn(log) : log[i].op = o /\ log[i].outcome = x

\* Operations that carry a recorded outcome, "uncertain" included.
Reported(log) == {log[i].op : i \in OutcomesIn(log)}

\* Status and cancel requests may begin beside an unsettled request.
Bypasses(r) ==
  /\ r.kind = "owner_control"
  /\ r.control.method \in {"status", "cancel"}

\* Operations that every later one but a status or cancel request waits for
\* and that waited for every earlier one.
Gating(log) == {log[i].op : i \in {j \in Intents(log) : ~Bypasses(log[j])}}

\* What the records occupy: the total _load adds up, record by record.
Bytes(log) ==
  LET total[n \in 0..Len(log)] ==
        IF n = 0 THEN 0 ELSE total[n - 1] + RecordBytes[log[n]]
  IN  total[Len(log)]

ControlBytes(log) ==
  MapThenSumSet(LAMBDA i : log[i].control.bytes + 1, Intents(log))

-----------------------------------------------------------------------------
(* Admission of one more record: Journal._states *)

\* Variant with a fault: every owner control method may begin beside an
\* unsettled one, as only status and cancel may.
ControlNeverWaits(log, r) == r.kind = "owner_control" \/ Open(log) = {}

\* Variant with a fault: only a reported uncertainty is waited for, not an
\* intent whose outcome is still missing.
WaitsForReported(log, r) == Bypasses(r) \/ Open(log) \cap Reported(log) = {}

NothingUnsettled(log, r) == Bypasses(r) \/ Open(log) = {}

WithinControlBudget(log, r) ==
  ControlBytes(log) + r.control.bytes + 1 =< MaxControlBytes

FreshControl(log, r) ==
  /\ \A i \in Intents(log) : log[i].control.request # r.control.request
  /\ \A i \in Intents(log) : log[i].control.binding = r.control.binding
  /\ IF Intents(log) = {}
       THEN r.control.sequence = 1
       ELSE r.control.sequence = log[Max(Intents(log))].control.sequence + 1

\* Variant with a fault: a tool call may be recorded again.
FreshCallIgnored(log, r) == r.call \in Calls \cup {None}

FreshCall(log, r) ==
  r.call = None \/ \A i \in Intents(log) : log[i].call # r.call

AdmitsIntent(log, r) ==
  /\ r.op \notin Begun(log)
  /\ \A i \in Intents(log) :
       (log[i].kind = "owner_control") <=> (r.kind = "owner_control")
  /\ NothingUnsettled(log, r)
  /\ FreshCall(log, r)
  /\ r.kind = "owner_control" =>
       FreshControl(log, r) /\ WithinControlBudget(log, r)

AdmitsOutcome(log, r) ==
  /\ r.op \in Open(log)
  /\ \A i \in Intents(log) :
       log[i].op = r.op => r.outcome \in OutcomesOf(log[i].kind)
  /\ r.op \in Reported(log) => r.reconciled

Admits(log, r) ==
  \/ r.type = "intent" /\ AdmitsIntent(log, r)
  \/ r.type = "outcome" /\ AdmitsOutcome(log, r)

\* Variant with a fault: one record is reserved, however many requests are
\* left unsettled.
ReserveOne(log, r) == IF Open(Append(log, r)) = {} THEN 0 ELSE 1

\* Records that must still fit after this one, so that whatever it leaves
\* unsettled can be settled: Journal._append.
Reserve(log, r) ==
  LET after == Append(log, r)
  IN  IF \E i \in Intents(after) : after[i].kind = "owner_control"
        THEN Cardinality(Open(after))
        ELSE IF r.type = "intent" THEN 1
        ELSE IF r.outcome = "uncertain" THEN 1 ELSE 0

\* Variant with a fault: the record itself is not counted, only what follows.
FitsBesideItself(log, r) ==
  /\ Len(log) + Reserve(log, r) =< MaxRecords
  /\ Bytes(log) + Reserve(log, r) * MaxRecordBytes =< MaxTotal

\* The record fits, and so does the reserve at the largest size: the journal
\* is otherwise full, in records or in bytes, whichever comes first.
Fits(log, r) ==
  /\ Len(log) + 1 + Reserve(log, r) =< MaxRecords
  /\ Bytes(log) + RecordBytes[r] + Reserve(log, r) * MaxRecordBytes =< MaxTotal

Appendable(log, r) == Admits(log, r) /\ Fits(log, r)
=============================================================================
