------------------------- MODULE HeartbeatAccounting -------------------------
(***************************************************************************)
(* Reserved heartbeat actions (ls/core/agent): a controller authorizes     *)
(* actions and reviews their results; a dispatcher charges the full        *)
(* allocation of an action to the task's budget before anything runs, runs *)
(* a compaction and then a coding phase, retains a result file and records *)
(* its digest.  Every record is appended to a private hash chain under an  *)
(* exclusive lease, by a caller that names the head it has inspected.      *)
(*                                                                         *)
(* Sources: heartbeat_budget.py, heartbeat_authorization.py,               *)
(* heartbeat_budget_store.py, heartbeat_execution.py,                      *)
(* heartbeat_reconciliation.py, registration_owner._publish.               *)
(*                                                                         *)
(* Abstracted: a binding, the hash of all inputs of an action, is the      *)
(* action itself; a head is the number of records before it; the digest of *)
(* a result is its content.  Tools and seconds are charged like requests   *)
(* and tokens and are left out.  Dispatchers may overlap: the heartbeat's  *)
(* outer lock is taken over when it looks stale.                           *)
(***************************************************************************)
EXTENDS Integers, Sequences, FiniteSets

CONSTANTS
  Operations,       \* identities of attempts
  Actions,          \* complete action inputs, that is, their bindings
  Plan,             \* of each action: [operation, run, compact]
  Granted,          \* operation -> action the initial policy authorizes, or None
  Budget,           \* of the task, per dimension
  NoProgressLimit,  \* reviews without progress that stop the task
  Dispatchers,      \* processes that execute actions
  MaxRecords,       \* bound on the length of the chain
  None

Dimensions == {"attempts", "requests", "tokens", "compactions"}
Run == [requests : Nat, tokens : Nat]
Compact == [tokens : Nat]

ASSUME HeartbeatAssumption ==
  /\ Plan \in [Actions -> [operation : Operations, run : Run,
                           compact : Compact \cup {None}]]
  /\ Granted \in [Operations -> Actions \cup {None}]
  /\ \A o \in Operations : Granted[o] # None => Plan[Granted[o]].operation = o
  /\ Budget \in [Dimensions -> Nat]
  /\ NoProgressLimit \in Nat \ {0}
  /\ MaxRecords \in Nat
  /\ None \notin Operations \cup Actions

VARIABLES
  records,    \* the chain of accounting records after the policy
  residue,    \* an interrupted publication left a second name in the store
  pc,         \* where each dispatcher is
  job,        \* of each dispatcher: the action, the head it relies on, progress
  retained,   \* of each action: its directory and the result kept in it
  spent       \* history: what the phases started so far may have used

vars == <<records, residue, pc, job, retained, spent>>

Outcomes == {"execution_completed", "failed"}
Decisions == {"progress", "no_progress", "accepted"}
Evidence == [action : Actions, outcome : Outcomes, phases : 0..2]

Event ==
  [type : {"authorize"}, operation : Operations, action : Actions]
    \cup [type : {"reserve"}, operation : Operations, run : Run,
          compact : Compact \cup {None}]
    \cup [type : {"result"}, operation : Operations, result : Evidence]
    \cup [type : {"review"}, operation : Operations, result : Evidence,
          decision : Decisions]

Unreviewed == [operation : Operations, result : Evidence \cup {None}]

\* An absent result or reservation is none of those there can be.
ASSUME NoneAssumption == None \notin Evidence /\ None \notin Unreviewed

-----------------------------------------------------------------------------
(* What the chain says: summarize and replay *)

\* Variant with a fault: the request of the compaction is not charged.
EnvelopeOfRun(run, compact) ==
  [attempts |-> 1, requests |-> run.requests,
   tokens |-> run.tokens + IF compact = None THEN 0 ELSE compact.tokens,
   compactions |-> IF compact = None THEN 0 ELSE 1]

\* Both phases are charged in full, however little they use.
Envelope(run, compact) ==
  [attempts |-> 1,
   requests |-> run.requests + IF compact = None THEN 0 ELSE 1,
   tokens |-> run.tokens + IF compact = None THEN 0 ELSE compact.tokens,
   compactions |-> IF compact = None THEN 0 ELSE 1]

Plus(a, b) == [d \in Dimensions |-> a[d] + b[d]]
Within(a, b) == \A d \in Dimensions : a[d] =< b[d]
Nothing == [d \in Dimensions |-> 0]

Fresh == [grants |-> Granted, charged |-> Nothing, reserved |-> {},
          pending |-> None, streak |-> 0, accepted |-> FALSE]

\* Variant with a fault: a review that finds no progress is not counted.
StreakForgotten(s, decision) == 0

Streak(s, decision) == IF decision = "no_progress" THEN s.streak + 1 ELSE 0

Effect(s, e) ==
  CASE e.type = "authorize" ->
         [s EXCEPT !.grants[e.operation] = e.action]
    [] e.type = "reserve" ->
         [s EXCEPT !.charged = Plus(@, Envelope(e.run, e.compact)),
                   !.reserved = @ \cup {e.operation},
                   !.pending = [operation |-> e.operation, result |-> None]]
    [] e.type = "result" ->
         [s EXCEPT !.pending.result = e.result]
    [] e.type = "review" ->
         [s EXCEPT !.streak = Streak(s, e.decision),
                   !.accepted = (e.decision = "accepted"),
                   !.pending = None]

\* The chain is replayed from its first record.
State(chain) ==
  LET after[n \in 0..Len(chain)] ==
        IF n = 0 THEN Fresh ELSE Effect(after[n - 1], chain[n])
  IN  after[Len(chain)]

Stopped(s) == s.accepted \/ s.streak >= NoProgressLimit

MayAttempt(s) == s.pending = None /\ ~Stopped(s)

FreshOperation(s, o) == o \notin s.reserved

Unresolved(s, o) == s.pending = [operation |-> o, result |-> None]

AdmitsEvent(s, e) ==
  CASE e.type = "authorize" ->
         /\ Plan[e.action].operation = e.operation
         /\ s.grants[e.operation] = None /\ MayAttempt(s)
    [] e.type = "reserve" ->
         /\ s.grants[e.operation] # None /\ MayAttempt(s)
         /\ FreshOperation(s, e.operation)
         /\ Within(Plus(s.charged, Envelope(e.run, e.compact)), Budget)
    [] e.type = "result" -> Unresolved(s, e.operation)
    [] e.type = "review" ->
         s.pending = [operation |-> e.operation, result |-> e.result]

-----------------------------------------------------------------------------
(* The store *)

Tip == Len(records)

\* _load refuses a directory with a name it does not expect, and a record
\* with a second link.
Readable == ~residue

\* append: the caller's head is the current one and the record is admitted.
Appends(e, expected) ==
  /\ Readable /\ Tip = expected /\ Tip < MaxRecords
  /\ AdmitsEvent(State(records), e)
  /\ records' = Append(records, e)
  /\ UNCHANGED residue

\* The writer dies inside _publish: before the link a temporary file is left,
\* after it a record with two links, and after the unlink only the reply is lost.
DiesAppending(e, expected) ==
  /\ Readable /\ Tip = expected /\ Tip < MaxRecords
  /\ AdmitsEvent(State(records), e)
  /\ \/ residue' = TRUE /\ records' = records
     \/ residue' = TRUE /\ records' = Append(records, e)
     \/ residue' = FALSE /\ records' = Append(records, e)

-----------------------------------------------------------------------------
(* The controller *)

Controls(e) ==
  /\ Appends(e, Tip) \/ DiesAppending(e, Tip)
  /\ UNCHANGED <<pc, job, retained, spent>>

Authorize(a) ==
  Controls([type |-> "authorize", operation |-> Plan[a].operation, action |-> a])

\* The controller judges the recorded result.
Review(decision) ==
  LET s == State(records)
  IN  /\ s.pending # None /\ s.pending.result # None
      /\ Controls([type |-> "review", operation |-> s.pending.operation,
                   result |-> s.pending.result, decision |-> decision])

\* The result file of an action, if it can be read.
Result(a) == IF retained[a].state = "result" THEN retained[a].result ELSE None

\* Variant with a fault: a directory without a result counts as a failure.
ReconcilesUnproved(a) ==
  LET o == Plan[a].operation
      result == IF Result(a) # None THEN Result(a)
                ELSE [action |-> a, outcome |-> "failed", phases |-> 0]
  IN  /\ retained[a].state # "absent" /\ State(records).grants[o] = a
      /\ Controls([type |-> "result", operation |-> o, result |-> result])

\* reconcile: the unresolved reservation of this action is joined to the
\* result its dispatcher retained.
Reconcile(a) ==
  LET o == Plan[a].operation
  IN  /\ Result(a) # None /\ State(records).grants[o] = a
      /\ Controls([type |-> "result", operation |-> o, result |-> Result(a)])

\* An operator removes what an interrupted publication left behind.
Tidy ==
  /\ residue
  /\ residue' = FALSE
  /\ UNCHANGED <<records, pc, job, retained, spent>>

-----------------------------------------------------------------------------
(* A dispatcher *)

NoJob == [action |-> None, head |-> 0, phases |-> 0, outcome |-> "failed"]

Goto(d, where) == pc' = [pc EXCEPT ![d] = where]

\* execute up to the reservation: the head the controller named is current.
Start(d, a) ==
  /\ pc[d] = "idle" /\ Readable
  /\ job' = [job EXCEPT ![d] = [NoJob EXCEPT !.action = a, !.head = Tip]]
  /\ Goto(d, "reserving")
  /\ UNCHANGED <<records, residue, retained, spent>>

Reservation(a) == [type |-> "reserve", operation |-> Plan[a].operation,
                   run |-> Plan[a].run, compact |-> Plan[a].compact]

MatchesGrant(a) == State(records).grants[Plan[a].operation] = a

\* Variant with a fault: a reservation of the same operation made meanwhile by
\* another dispatcher is taken for one's own.
ReserveShared(d) ==
  LET a == job[d].action
  IN  /\ pc[d] = "reserving" /\ Readable /\ MatchesGrant(a)
      /\ IF Unresolved(State(records), Plan[a].operation)
           THEN UNCHANGED <<records, residue>>
           ELSE Appends(Reservation(a), Tip)
      /\ job' = [job EXCEPT ![d].head = Len(records')]
      /\ Goto(d, "reserved")
      /\ UNCHANGED <<retained, spent>>

Reserve(d) ==
  LET a == job[d].action
  IN  /\ pc[d] = "reserving" /\ MatchesGrant(a)
      /\ Appends(Reservation(a), job[d].head)
      /\ job' = [job EXCEPT ![d].head = Tip + 1]
      /\ Goto(d, "reserved")
      /\ UNCHANGED <<retained, spent>>

\* _freeze: a directory of the action's own, which must not exist, and the
\* inputs kept in it.
Freeze(d) ==
  LET a == job[d].action
  IN  /\ pc[d] = "reserved" /\ retained[a].state = "absent"
      /\ retained' = [retained EXCEPT ![a].state = "frozen"]
      /\ Goto(d, "running")
      /\ UNCHANGED <<records, residue, job, spent>>

PhaseCount(a) == IF Plan[a].compact = None THEN 1 ELSE 2

\* What the next phase is allowed to use.
Allocation(a, done) ==
  IF done = 0 /\ Plan[a].compact # None
  THEN [attempts |-> 0, requests |-> 1, tokens |-> Plan[a].compact.tokens,
        compactions |-> 1]
  ELSE [attempts |-> 1, requests |-> Plan[a].run.requests,
        tokens |-> Plan[a].run.tokens, compactions |-> 0]

\* A phase runs; without a complete and matching receipt nothing follows it.
RunPhase(d) ==
  LET a == job[d].action
      n == job[d].phases + 1
  IN  /\ pc[d] = "running"
      /\ spent' = Plus(spent, Allocation(a, job[d].phases))
      /\ \/ /\ job' = [job EXCEPT ![d].phases = n,
                         ![d].outcome = IF n = PhaseCount(a)
                                        THEN "execution_completed" ELSE "failed"]
            /\ Goto(d, IF n = PhaseCount(a) THEN "ran" ELSE "running")
         \/ /\ job' = [job EXCEPT ![d].phases = n]
            /\ Goto(d, "ran")
      /\ UNCHANGED <<records, residue, retained>>

\* The deadline or the interrupt arrives between the phases.
Interrupted(d) ==
  /\ pc[d] = "running"
  /\ Goto(d, "ran")
  /\ UNCHANGED <<records, residue, job, retained, spent>>

EvidenceOf(d) == [action |-> job[d].action, outcome |-> job[d].outcome,
                  phases |-> job[d].phases]

RetainResult(d) ==
  /\ pc[d] = "ran"
  /\ retained' = [retained EXCEPT ![job[d].action] =
                    [state |-> "result", result |-> EvidenceOf(d)]]
  /\ Goto(d, "recording")
  /\ UNCHANGED <<records, residue, job, spent>>

\* The digest is recorded against the head of the reservation.
RecordResult(d) ==
  LET a == job[d].action
  IN  /\ pc[d] = "recording"
      /\ Appends([type |-> "result", operation |-> Plan[a].operation,
                  result |-> EvidenceOf(d)], job[d].head)
      /\ job' = [job EXCEPT ![d] = NoJob]
      /\ Goto(d, "idle")
      /\ UNCHANGED <<retained, spent>>

\* A dispatcher is refused or dies; nothing is undone.
GiveUp(d) ==
  /\ pc[d] # "idle"
  /\ job' = [job EXCEPT ![d] = NoJob]
  /\ Goto(d, "idle")
  /\ UNCHANGED <<records, residue, retained, spent>>

\* It dies while it publishes a record or a result.
DiesPublishing(d) ==
  LET a == job[d].action
  IN  /\ \/ /\ pc[d] = "reserving" /\ MatchesGrant(a)
            /\ DiesAppending(Reservation(a), job[d].head)
            /\ UNCHANGED retained
         \/ /\ pc[d] = "recording"
            /\ DiesAppending([type |-> "result", operation |-> Plan[a].operation,
                              result |-> EvidenceOf(d)], job[d].head)
            /\ UNCHANGED retained
         \/ /\ pc[d] = "ran"
            /\ retained' = [retained EXCEPT ![a].state = "torn"]
            /\ UNCHANGED <<records, residue>>
      /\ job' = [job EXCEPT ![d] = NoJob]
      /\ Goto(d, "idle")
      /\ UNCHANGED spent

-----------------------------------------------------------------------------

Init ==
  /\ records = <<>>
  /\ residue = FALSE
  /\ pc = [d \in Dispatchers |-> "idle"]
  /\ job = [d \in Dispatchers |-> NoJob]
  /\ retained = [a \in Actions |-> [state |-> "absent", result |-> None]]
  /\ spent = Nothing

Next ==
  \/ \E a \in Actions : Authorize(a) \/ Reconcile(a)
  \/ \E decision \in Decisions : Review(decision)
  \/ Tidy
  \/ \E d \in Dispatchers :
       \/ \E a \in Actions : Start(d, a)
       \/ Reserve(d) \/ Freeze(d) \/ RunPhase(d) \/ Interrupted(d)
       \/ RetainResult(d) \/ RecordResult(d)
       \/ GiveUp(d) \/ DiesPublishing(d)

Spec == Init /\ [][Next]_vars

-----------------------------------------------------------------------------
(* Properties *)

TypeOK ==
  /\ records \in Seq(Event)
  /\ residue \in BOOLEAN
  /\ pc \in [Dispatchers -> {"idle", "reserving", "reserved", "running", "ran",
                             "recording"}]
  /\ job \in [Dispatchers -> [action : Actions \cup {None}, head : Nat,
                              phases : 0..2, outcome : Outcomes]]
  /\ retained \in [Actions -> [state : {"absent", "frozen", "result", "torn"},
                               result : Evidence \cup {None}]]
  /\ spent \in [Dimensions -> Nat]

\* Whatever fails, is retried, reconciled or left unresolved, what the phases
\* may have used stays within what was charged, and that within the budget.
SpentWithinBudget ==
  /\ Within(spent, State(records).charged)
  /\ Within(State(records).charged, Budget)

\* A dispatcher past its reservation works on the one unresolved reservation,
\* for the action the controller granted, and alone, until its result is kept.
RunsUnderReservation ==
  \A d \in Dispatchers : pc[d] \in {"reserved", "running", "ran"} =>
    /\ Unresolved(State(records), Plan[job[d].action].operation)
    /\ MatchesGrant(job[d].action)
    /\ \A e \in Dispatchers \ {d} : pc[e] \notin {"reserved", "running", "ran"}

\* Every result on the chain is the retained one of the granted action, and
\* one that claims completion had all its phases.
ResultsAreEvidence ==
  \A i \in DOMAIN records : records[i].type = "result" =>
    LET e == records[i].result
    IN  /\ Result(e.action) = e
        /\ State(records).grants[records[i].operation] = e.action
        /\ e.outcome = "execution_completed" => e.phases = PhaseCount(e.action)

\* No attempt is reserved after an acceptance, nor after as many reviews in a
\* row without progress as the policy allows, whatever new operation is tried:
\* before a reservation, a stretch of the chain whose reviews all found no
\* progress has fewer of them.
Reviews(from, to) == {j \in (from + 1)..to : records[j].type = "review"}

StoppedStays ==
  \A i \in DOMAIN records : records[i].type = "reserve" =>
    /\ \A j \in Reviews(0, i) : records[j].decision # "accepted"
    /\ \A k \in 0..i :
         (\A j \in Reviews(k, i) : records[j].decision = "no_progress") =>
            Cardinality(Reviews(k, i)) < NoProgressLimit
=============================================================================
