------------------------ MODULE RecordedSessionProofs ------------------------
(***************************************************************************)
(* Theorems about RecordedSession for every number of runs, calls and      *)
(* operations.  Whatever is interrupted, reconciled, recovered or          *)
(* continued, one run at a time owns the session; while it does, nobody    *)
(* else touches the journal or takes up a history.  So what the owner has  *)
(* done since the history began can be told from its program counter, its  *)
(* job and what it has received, and the checkpoints it saves inherit      *)
(* that.                                                                   *)
(***************************************************************************)
EXTENDS RecordedSession, OperationLogProofs, TLAPS

-----------------------------------------------------------------------------
(* The inductive invariant *)

\* Phases in which a run works on a history, is busy with one call of it, and
\* has the operation of that call open.
Reconciling == {"observed", "confirmed"}
Working == Owning \ Reconciling
Recorded == {"begun", "checked", "replaced", "process", "exited"}
Calling == {"ready", "locked", "settled"} \cup Recorded

\* One run owns the session.
OneOwner == \A q, r \in Runs : pc[q] \in Owning /\ pc[r] \in Owning => q = r

\* What each phase has at hand.
HasHistory(r) ==
  /\ pc[r] \in {"new"} \cup Reconciling => history[r] = None
  /\ pc[r] \in Working \cup {"prepared"} => history[r] \in History

HasJob(r) ==
  /\ pc[r] \in Calling =>
       /\ job[r] \in Job
       /\ job[r].call \in Unreturned(history[r])
       /\ job[r].call \notin {a.call : a \in received[r]}
       /\ current[r] \in checkpoints
  /\ pc[r] \in Recorded \cup {"settled"} => job[r].op \in Operations
  /\ pc[r] \in Reconciling =>
       /\ job[r] \in Job
       /\ job[r].op \in Operations
       /\ job[r].verdict \in {"applied", "not_applied"}

HasReturns(r) ==
  /\ pc[r] \in {"new", "prepared", "thinking"} \cup Reconciling => received[r] = {}
  /\ pc[r] = "prepared" =>
       current[r] \in checkpoints /\ history[r] = current[r].history

ShapeOf(r) == HasHistory(r) /\ HasJob(r) /\ HasReturns(r)

Shape == \A r \in Runs : ShapeOf(r)

TypeInv == TypeOK /\ Shape

\* The journal is coherent and holds one operation per tool call.
LogInv ==
  /\ Coherent(log)
  /\ \A i \in Intents(log) : log[i].call \in Calls
  /\ \A i, j \in Intents(log) : log[i].call = log[j].call => i = j

\* Operation o of the journal was begun for call c of run r.
BegunFor(o, r, c) == \E i \in Intents(log) : log[i].op = o /\ log[i].call = <<r, c>>

\* The owner's operation is the only one open, from its intent to its outcome.
OpenInv ==
  \A r \in Runs :
    /\ pc[r] \in Recorded => Open(log) = {job[r].op}
    /\ pc[r] \in Recorded \cup {"settled"} => BegunFor(job[r].op, r, job[r].call)

SessionInv == TypeInv /\ OneOwner /\ LogInv /\ OpenInv

\* Calls in the journal were asked for by the run that began them; the calls
\* a working run has left nobody else has in a history.
CallsAsked ==
  \A i \in Intents(log) : \A r \in Runs, c \in CallIds :
    log[i].call = <<r, c>> => history[r] \in History /\ c \in history[r].asked

OwnCalls ==
  \A r \in Runs : pc[r] \in Working =>
    \A q \in Runs \ {r} :
      history[q] # None => Unreturned(history[r]) \cap history[q].asked = {}

\* An effect has an intent; before its effect an operation has none, after it one.
EffectsRecorded ==
  /\ \A c \in CallIds : effects[c] # 0 => \E i \in Intents(log) : log[i].call[2] = c
  /\ \A r \in Runs :
       /\ pc[r] \in {"begun", "checked", "process"} => effects[job[r].call] = 0
       /\ pc[r] \in {"replaced", "exited"} => effects[job[r].call] = 1

EffectInv ==
  /\ CallsAsked /\ OwnCalls /\ EffectsRecorded
  /\ AtMostOnce /\ UnreconciledSuccessHappened

-----------------------------------------------------------------------------
(* What histories account for *)

\* The operations begun after position base and up to position last.
Span(base, last) == {log[i].op : i \in {j \in Intents(log) : base < j /\ j =< last}}

OpsOf(returns) == {a.op : a \in returns}

\* A return reports a settled operation as it was settled.
ToldTrue(returns) ==
  \A a \in returns : a.outcome # "uncertain" /\ Tells(log, a.op, a.outcome)

\* A stored checkpoint: a complete one has a return for each operation of its
\* span; an interrupted one may lack those of calls it has not returned.
Exact(k) ==
  /\ Open(SubSeq(log, 1, k.frontier)) = {}
  /\ Span(k.history.base, k.frontier) = OpsOf(k.history.returns)
  /\ k.history.asked = Returned(k.history)

Partial(k) ==
  /\ OpsOf(k.history.returns) \subseteq Span(k.history.base, k.frontier)
  /\ \A i \in Intents(log) : k.history.base < i /\ i =< k.frontier =>
       \/ log[i].op \in OpsOf(k.history.returns)
       \/ \E c \in Unreturned(k.history) : log[i].call = <<k.run, c>>

Stored(k) ==
  /\ k.history.base =< k.frontier /\ k.frontier =< Len(log)
  /\ Returned(k.history) \subseteq k.history.asked
  /\ ToldTrue(k.history.returns)
  /\ k.state = "complete" => Exact(k)
  /\ k.state = "interrupted" => Partial(k)

\* A working run accounts for every operation since its history began: it has
\* been returned, received, or is the one the run is busy with.
Busy(r) == IF pc[r] \in Recorded \cup {"settled"} THEN {job[r].op} ELSE {}

Accounts(r) ==
  /\ history[r].base =< Len(log)
  /\ Returned(history[r]) \subseteq history[r].asked
  /\ {a.call : a \in received[r]} \subseteq Unreturned(history[r])
  /\ ToldTrue(history[r].returns) /\ ToldTrue(received[r])
  /\ \A a \in received[r] : BegunFor(a.op, r, a.call)
  /\ Span(history[r].base, Len(log)) =
       OpsOf(history[r].returns) \cup OpsOf(received[r]) \cup Busy(r)
  /\ pc[r] = "thinking" => history[r].asked = Returned(history[r])
  /\ pc[r] = "settled" =>
       job[r].verdict # "uncertain" /\ Tells(log, job[r].op, job[r].verdict)

\* A tool result was saved for the operation begun for its call.
ResultsInv ==
  \A x \in results : \E i \in Intents(log) : log[i].op = x.op /\ log[i].call = x.call

HistoriesInv ==
  /\ \A k \in checkpoints : Stored(k)
  /\ \A r \in Runs : pc[r] \in Working => Accounts(r)
  /\ ResultsInv
-----------------------------------------------------------------------------
(* Types and shapes *)

\* What a run that is busy with a call has at hand.
LEMMA CallAtHand ==
  ASSUME TypeInv, NEW r \in Runs, pc[r] \in Calling
  PROVE  /\ history[r] \in History /\ job[r] \in Job
         /\ job[r].call \in CallIds /\ job[r].call \in history[r].asked
         /\ <<r, job[r].call>> \in Calls
         /\ current[r] \in Checkpoint
  <1>1. pc[r] \in Working
    BY DEF Calling, Recorded, Working, Owning, Reconciling
  <1>2. history[r] \in History /\ job[r] \in Job /\ job[r].call \in Unreturned(history[r])
    BY <1>1 DEF TypeInv, Shape, ShapeOf, HasHistory, HasJob
  <1>3. job[r].call \in history[r].asked /\ job[r].call \in CallIds
    BY <1>2 DEF Unreturned, History
  <1>4. current[r] \in Checkpoint
    BY DEF TypeInv, TypeOK, Shape, ShapeOf, HasJob
  <1>5. QED
    BY <1>2, <1>3, <1>4, SessionAssumption

\* The records a session appends are records of the journal.
LEMMA IntentIsRecord ==
  ASSUME NEW o \in Operations, NEW c \in Calls, NEW kind \in {"file_replace", "process"}
  PROVE  [type |-> "intent", op |-> o, kind |-> kind, call |-> c, control |-> None] \in Record
  BY DEF Record, Intent, WorkIntent

LEMMA OutcomeIsRecord ==
  ASSUME NEW o \in Operations, NEW v \in Outcomes, NEW b \in BOOLEAN
  PROVE  [type |-> "outcome", op |-> o, outcome |-> v, reconciled |-> b] \in Record
  BY DEF Record, Outcome

LEMMA TypeInit == Init => TypeInv
  BY SessionAssumption DEF Init, TypeInv, TypeOK, Shape, ShapeOf, HasHistory, HasJob, HasReturns,
     Phases, Owning, Working, Reconciling, Calling, Recorded

\* A step of one run leaves what the others have alone.
Alone(r) ==
  /\ checkpoints \subseteq checkpoints'
  /\ \A q \in Runs \ {r} :
       /\ pc'[q] = pc[q] /\ history'[q] = history[q] /\ job'[q] = job[q]
       /\ received'[q] = received[q] /\ current'[q] = current[q]

LEMMA AloneShape ==
  ASSUME TypeInv, NEW r \in Runs, Alone(r), ShapeOf(r)'
  PROVE  Shape'
  <1> SUFFICES ASSUME NEW q \in Runs, q # r
               PROVE  ShapeOf(q)'
    BY DEF Shape
  <1>1. ShapeOf(q)
    BY DEF TypeInv, Shape
  <1>2. /\ pc'[q] = pc[q] /\ history'[q] = history[q] /\ job'[q] = job[q]
        /\ received'[q] = received[q] /\ current'[q] = current[q]
        /\ checkpoints \subseteq checkpoints'
    BY DEF Alone
  <1>3. HasHistory(q)'
    BY <1>1, <1>2 DEF ShapeOf, HasHistory
  <1>4. HasJob(q)'
    BY <1>1, <1>2 DEF ShapeOf, HasJob
  <1>5. HasReturns(q)'
    BY <1>1, <1>2 DEF ShapeOf, HasReturns
  <1>6. QED
    BY <1>3, <1>4, <1>5 DEF ShapeOf

\* Everything one run can do.
Step(r) ==
  \/ StartFresh(r)
  \/ \E k \in checkpoints : PrepareResume(r, k) \/ Recover(r, k)
  \/ StartPrepared(r) \/ Ask(r) \/ PretoolCheckpoint(r) \/ SaveComplete(r)
  \/ LockTarget(r) \/ BeginWrite(r) \/ CheckTarget(r) \/ Replace(r)
  \/ FinishWrite(r)
  \/ BeginProcess(r) \/ RunProcess(r) \/ FinishProcess(r) \/ ProcessRaises(r)
  \/ SaveResult(r)
  \/ ObserveTarget(r) \/ ConfirmTarget(r) \/ RecordVerdict(r)
  \/ Stop(r)

LEMMA StepsAlone ==
  ASSUME TypeOK, NEW r \in Runs, Step(r)
  PROVE  Alone(r)
  <1>1. \A q \in Runs \ {r} : pc'[q] = pc[q]
    BY DEF Step, TypeOK, Goto, StartFresh, PrepareResume, Recover, StartPrepared, Ask,
       PretoolCheckpoint, SaveComplete, LockTarget, BeginWrite, CheckTarget, Replace,
       FinishWrite, BeginProcess, RunProcess, FinishProcess, ProcessRaises, SaveResult,
       ObserveTarget, ConfirmTarget, RecordVerdict, Stop
  <1>2. \A q \in Runs \ {r} : history'[q] = history[q]
    BY DEF Step, TypeOK, StartFresh, PrepareResume, Recover, StartPrepared, Ask,
       PretoolCheckpoint, SaveComplete, LockTarget, BeginWrite, CheckTarget, Replace,
       FinishWrite, BeginProcess, RunProcess, FinishProcess, ProcessRaises, SaveResult,
       ObserveTarget, ConfirmTarget, RecordVerdict, Stop
  <1>3. \A q \in Runs \ {r} : job'[q] = job[q]
    BY DEF Step, TypeOK, StartFresh, PrepareResume, Recover, StartPrepared, Ask,
       PretoolCheckpoint, SaveComplete, LockTarget, BeginWrite, CheckTarget, Replace,
       FinishWrite, BeginProcess, RunProcess, FinishProcess, ProcessRaises, SaveResult,
       ObserveTarget, ConfirmTarget, RecordVerdict, Stop
  <1>4. \A q \in Runs \ {r} : received'[q] = received[q]
    BY DEF Step, TypeOK, StartFresh, PrepareResume, Recover, StartPrepared, Ask,
       PretoolCheckpoint, SaveComplete, LockTarget, BeginWrite, CheckTarget, Replace,
       FinishWrite, BeginProcess, RunProcess, FinishProcess, ProcessRaises, SaveResult,
       ObserveTarget, ConfirmTarget, RecordVerdict, Stop
  <1>5. \A q \in Runs \ {r} : current'[q] = current[q]
    BY DEF Step, TypeOK, Save, StartFresh, PrepareResume, Recover, StartPrepared, Ask,
       PretoolCheckpoint, SaveComplete, LockTarget, BeginWrite, CheckTarget, Replace,
       FinishWrite, BeginProcess, RunProcess, FinishProcess, ProcessRaises, SaveResult,
       ObserveTarget, ConfirmTarget, RecordVerdict, Stop
  <1>6. checkpoints \subseteq checkpoints'
    BY DEF Step, Save, StartFresh, PrepareResume, Recover, StartPrepared, Ask,
       PretoolCheckpoint, SaveComplete, LockTarget, BeginWrite, CheckTarget, Replace,
       FinishWrite, BeginProcess, RunProcess, FinishProcess, ProcessRaises, SaveResult,
       ObserveTarget, ConfirmTarget, RecordVerdict, Stop
  <1>7. QED
    BY <1>1, <1>2, <1>3, <1>4, <1>5, <1>6 DEF Alone

-----------------------------------------------------------------------------
(* Each step keeps types and shapes *)

LEMMA TypeStartFresh ==
  ASSUME TypeInv, NEW r \in Runs, StartFresh(r)
  PROVE  TypeInv'
  <1>1. /\ pc'[r] = "thinking" /\ history'[r] \in History
        /\ received'[r] = received[r]
    BY DEF StartFresh, Goto, TypeInv, TypeOK, History
  <1>2. TypeOK'
    BY DEF StartFresh, Goto, TypeInv, TypeOK, History, Phases, Owning
  <1>3. ShapeOf(r)'
    BY <1>1 DEF StartFresh, TypeInv, Shape, ShapeOf, HasHistory, HasJob, HasReturns,
       Working, Owning, Reconciling, Calling, Recorded
  <1>4. QED
    BY <1>2, <1>3, StepsAlone, AloneShape DEF TypeInv, Step

LEMMA TypeStartPrepared ==
  ASSUME TypeInv, NEW r \in Runs, StartPrepared(r)
  PROVE  TypeInv'
  <1>1. pc'[r] \in {"thinking", "calling"}
    BY DEF StartPrepared, Goto, NextPhase, TypeInv, TypeOK
  <1>2. TypeOK'
    BY DEF StartPrepared, Goto, NextPhase, TypeInv, TypeOK, Phases, Owning
  <1>3. ShapeOf(r)'
    BY <1>1 DEF StartPrepared, TypeInv, Shape, ShapeOf, HasHistory, HasJob, HasReturns,
       Working, Owning, Reconciling, Calling, Recorded
  <1>4. QED
    BY <1>2, <1>3, StepsAlone, AloneShape DEF TypeInv, Step

LEMMA TypePrepareResume ==
  ASSUME TypeInv, NEW r \in Runs, NEW k \in checkpoints, PrepareResume(r, k)
  PROVE  TypeInv'
  <1>1. /\ pc'[r] = "prepared" /\ current'[r] = k /\ history'[r] = k.history
        /\ k \in Checkpoint /\ received' = received /\ checkpoints' = checkpoints
        /\ pc[r] = "new"
    BY DEF PrepareResume, Goto, TypeInv, TypeOK
  <1>2. k.history \in History
    BY <1>1 DEF Checkpoint
  <1>3. TypeOK'
    BY <1>1, <1>2 DEF PrepareResume, Goto, TypeInv, TypeOK, Phases
  <1>4. ShapeOf(r)'
    BY <1>1, <1>2 DEF TypeInv, Shape, ShapeOf, HasHistory, HasJob, HasReturns,
       Working, Owning, Reconciling, Calling, Recorded
  <1>5. QED
    BY <1>3, <1>4, StepsAlone, AloneShape DEF TypeInv, Step

LEMMA TypeAsk ==
  ASSUME TypeInv, NEW r \in Runs, Ask(r)
  PROVE  TypeInv'
  <1>1. pc[r] = "thinking" /\ history[r] \in History
    BY DEF Ask, TypeInv, Shape, ShapeOf, HasHistory, Working, Owning, Reconciling
  <1>2. PICK calls \in SUBSET CallIds :
          history' = [history EXCEPT ![r].asked = @ \cup calls]
    BY DEF Ask
  <1>3. history'[r] = [history[r] EXCEPT !.asked = @ \cup calls]
    BY <1>2 DEF TypeInv, TypeOK
  <1>4. history'[r] \in History
    BY <1>1, <1>3 DEF History
  <1>5. TypeOK'
    BY <1>2, <1>3, <1>4 DEF Ask, Goto, TypeInv, TypeOK, Phases, Owning
  <1>6. pc'[r] = "calling"
    BY DEF Ask, Goto, TypeInv, TypeOK
  <1>7. ShapeOf(r)'
    BY <1>4, <1>6 DEF ShapeOf, HasHistory, HasJob, HasReturns,
       Working, Owning, Reconciling, Calling, Recorded
  <1>8. QED
    BY <1>5, <1>7, StepsAlone, AloneShape DEF TypeInv, Step

LEMMA TypePretool ==
  ASSUME TypeInv, NEW r \in Runs, PretoolCheckpoint(r)
  PROVE  TypeInv'
  <1>1. pc[r] = "calling" /\ history[r] \in History
    BY DEF PretoolCheckpoint, TypeInv, Shape, ShapeOf, HasHistory, Working, Owning,
       Reconciling
  <1>2. PICK c \in Unreturned(history[r]) :
          /\ c \notin {a.call : a \in received[r]}
          /\ job' = [job EXCEPT ![r] = JobFor(c, None)]
    BY DEF PretoolCheckpoint
  <1>3. c \in CallIds
    BY <1>1 DEF Unreturned, History
  <1>4. JobFor(c, None) \in Job /\ JobFor(c, None).call = c
    BY <1>3 DEF JobFor, Job, TypeInv, TypeOK, Outcomes
  <1>5. CheckpointOf(r, "interrupted") \in Checkpoint
    BY <1>1 DEF CheckpointOf, Checkpoint, TypeInv, TypeOK
  <1>6. TypeOK'
    BY <1>2, <1>4, <1>5 DEF PretoolCheckpoint, Save, Goto, TypeInv, TypeOK, Phases, Owning
  <1>7. /\ pc'[r] = "ready" /\ job'[r] = JobFor(c, None) /\ current'[r] \in checkpoints'
        /\ history' = history /\ received' = received
    BY <1>2 DEF PretoolCheckpoint, Save, Goto, TypeInv, TypeOK
  <1>8. ShapeOf(r)'
    BY <1>1, <1>2, <1>4, <1>7 DEF ShapeOf, HasHistory, HasJob, HasReturns,
       Working, Owning, Reconciling, Calling, Recorded
  <1>9. QED
    BY <1>6, <1>8, StepsAlone, AloneShape DEF TypeInv, Step

LEMMA TypeSaveComplete ==
  ASSUME TypeInv, NEW r \in Runs, SaveComplete(r)
  PROVE  TypeInv'
  <1>1. pc[r] = "thinking" /\ history[r] \in History
    BY DEF SaveComplete, TypeInv, Shape, ShapeOf, HasHistory, Working, Owning, Reconciling
  <1>2. CheckpointOf(r, "complete") \in Checkpoint
    BY <1>1 DEF CheckpointOf, Checkpoint, TypeInv, TypeOK
  <1>3. TypeOK'
    BY <1>2 DEF SaveComplete, Save, TypeInv, TypeOK
  <1>4. ShapeOf(r)'
    BY <1>1 DEF SaveComplete, TypeInv, Shape, ShapeOf, HasHistory, HasJob, HasReturns,
       Working, Owning, Reconciling, Calling, Recorded
  <1>5. QED
    BY <1>3, <1>4, StepsAlone, AloneShape DEF TypeInv, Step

LEMMA TypeStop ==
  ASSUME TypeInv, NEW r \in Runs, Stop(r)
  PROVE  TypeInv'
  <1>1. pc'[r] = "ended"
    BY DEF Stop, Goto, TypeInv, TypeOK
  <1>2. TypeOK'
    BY DEF Stop, Goto, TypeInv, TypeOK, Phases
  <1>3. ShapeOf(r)'
    BY <1>1 DEF ShapeOf, HasHistory, HasJob, HasReturns,
       Working, Owning, Reconciling, Calling, Recorded
  <1>4. QED
    BY <1>2, <1>3, StepsAlone, AloneShape DEF TypeInv, Step

LEMMA TypeLockTarget ==
  ASSUME TypeInv, NEW r \in Runs, LockTarget(r)
  PROVE  TypeInv'
  <1>1. pc[r] = "ready" /\ pc[r] \in Calling
    BY DEF LockTarget, Calling
  <1>2. PICK after \in Contents :
          job' = [job EXCEPT ![r].before = file, ![r].after = after, ![r].touched = {}]
    BY DEF LockTarget
  <1>3. job'[r] = [job[r] EXCEPT !.before = file, !.after = after, !.touched = {}]
    BY <1>2 DEF TypeInv, TypeOK
  <1>4. /\ job'[r] \in Job /\ job'[r].call = job[r].call
    BY <1>1, <1>3, CallAtHand DEF Job, TypeInv, TypeOK
  <1>5. TypeOK'
    BY <1>2, <1>3, <1>4 DEF LockTarget, Goto, TypeInv, TypeOK, Phases, Owning
  <1>6. /\ pc'[r] = "locked" /\ history' = history /\ received' = received
        /\ current' = current /\ checkpoints' = checkpoints
    BY DEF LockTarget, Goto, TypeInv, TypeOK
  <1>7. ShapeOf(r)'
    BY <1>1, <1>4, <1>6 DEF TypeInv, Shape, ShapeOf, HasHistory, HasJob, HasReturns,
       Working, Owning, Reconciling, Calling, Recorded
  <1>8. QED
    BY <1>5, <1>7, StepsAlone, AloneShape DEF TypeInv, Step

LEMMA TypeBeginWrite ==
  ASSUME TypeInv, NEW r \in Runs, BeginWrite(r)
  PROVE  TypeInv'
  <1>1. pc[r] = "locked" /\ pc[r] \in Calling
    BY DEF BeginWrite, Calling
  <1>2. PICK o \in Operations :
          /\ AppendRecord([type |-> "intent", op |-> o, kind |-> "file_replace",
                           call |-> <<r, job[r].call>>, control |-> None])
          /\ request' = [request EXCEPT ![o] =
                           [before |-> job[r].before, after |-> job[r].after]]
          /\ job' = [job EXCEPT ![r].op = o]
    BY DEF BeginWrite
  <1>3. job'[r] = [job[r] EXCEPT !.op = o]
    BY <1>2 DEF TypeInv, TypeOK
  <1>4. job'[r] \in Job /\ job'[r].call = job[r].call /\ job'[r].op = o
    BY <1>1, <1>3, CallAtHand DEF Job
  <1>5. log' \in Seq(Record)
    BY <1>1, <1>2, CallAtHand, IntentIsRecord, AppendFacts DEF AppendRecord, TypeInv, TypeOK
  <1>6. request' \in [Operations -> [before : Contents, after : Contents] \cup {None}]
    BY <1>1, <1>2, CallAtHand DEF Job, TypeInv, TypeOK
  <1>7. TypeOK'
    BY <1>2, <1>3, <1>4, <1>5, <1>6 DEF BeginWrite, Goto, TypeInv, TypeOK, Phases, Owning
  <1>8. /\ pc'[r] = "begun" /\ history' = history /\ received' = received
        /\ current' = current /\ checkpoints' = checkpoints
    BY DEF BeginWrite, Goto, TypeInv, TypeOK
  <1>9. ShapeOf(r)'
    BY <1>1, <1>4, <1>8 DEF TypeInv, Shape, ShapeOf, HasHistory, HasJob, HasReturns,
       Working, Owning, Reconciling, Calling, Recorded
  <1>10. QED
    BY <1>7, <1>9, StepsAlone, AloneShape DEF TypeInv, Step

LEMMA TypeBeginProcess ==
  ASSUME TypeInv, NEW r \in Runs, BeginProcess(r)
  PROVE  TypeInv'
  <1>1. pc[r] = "ready" /\ pc[r] \in Calling
    BY DEF BeginProcess, Calling
  <1>2. PICK o \in Operations :
          /\ AppendRecord([type |-> "intent", op |-> o, kind |-> "process",
                           call |-> <<r, job[r].call>>, control |-> None])
          /\ job' = [job EXCEPT ![r].op = o]
    BY DEF BeginProcess
  <1>3. job'[r] = [job[r] EXCEPT !.op = o]
    BY <1>2 DEF TypeInv, TypeOK
  <1>4. job'[r] \in Job /\ job'[r].call = job[r].call /\ job'[r].op = o
    BY <1>1, <1>3, CallAtHand DEF Job
  <1>5. log' \in Seq(Record)
    BY <1>1, <1>2, CallAtHand, IntentIsRecord, AppendFacts DEF AppendRecord, TypeInv, TypeOK
  <1>6. TypeOK'
    BY <1>2, <1>3, <1>4, <1>5 DEF BeginProcess, Goto, TypeInv, TypeOK, Phases, Owning
  <1>7. /\ pc'[r] = "process" /\ history' = history /\ received' = received
        /\ current' = current /\ checkpoints' = checkpoints
    BY DEF BeginProcess, Goto, TypeInv, TypeOK
  <1>8. ShapeOf(r)'
    BY <1>1, <1>4, <1>7 DEF TypeInv, Shape, ShapeOf, HasHistory, HasJob, HasReturns,
       Working, Owning, Reconciling, Calling, Recorded
  <1>9. QED
    BY <1>6, <1>8, StepsAlone, AloneShape DEF TypeInv, Step

\* Steps that look at the target or have an effect, and change no job but what
\* was seen of the file.
LEMMA TypeLooksAndEffects ==
  ASSUME TypeInv, NEW r \in Runs,
         CheckTarget(r) \/ Replace(r) \/ RunProcess(r) \/ ConfirmTarget(r)
  PROVE  TypeInv'
  <1>1. /\ pc[r] \in {"begun", "checked", "process", "observed"}
        /\ pc'[r] = CASE pc[r] = "begun" -> "checked" [] pc[r] = "checked" -> "replaced"
                      [] pc[r] = "process" -> "exited" [] pc[r] = "observed" -> "confirmed"
        /\ history' = history /\ received' = received
        /\ current' = current /\ checkpoints' = checkpoints
        /\ log' = log /\ request' = request /\ results' = results
    BY DEF CheckTarget, Replace, RunProcess, ConfirmTarget, Goto, TypeInv, TypeOK
  <1>2. job[r] \in Job /\ job[r].op \in Operations
    BY <1>1 DEF TypeInv, Shape, ShapeOf, HasJob, Reconciling, Calling, Recorded
  <1>3. /\ job'[r] \in Job /\ job'[r].call = job[r].call /\ job'[r].op = job[r].op
        /\ job'[r].verdict = job[r].verdict
        /\ job' \in [Runs -> Job \cup {None}]
    <2>1. CASE job' = [job EXCEPT ![r].touched = {}]
      <3>1. job'[r] = [job[r] EXCEPT !.touched = {}]
        BY <2>1 DEF TypeInv, TypeOK
      <3>2. job'[r] \in Job
        BY <1>2, <3>1 DEF Job
      <3>3. QED
        BY <1>2, <2>1, <3>1, <3>2 DEF Job, TypeInv, TypeOK
    <2>2. CASE job' = job
      BY <1>2, <2>2 DEF TypeInv, TypeOK
    <2>3. QED
      BY <2>1, <2>2 DEF CheckTarget, Replace, RunProcess, ConfirmTarget
  <1>4. effects' \in [CallIds -> Nat]
    <2>1. CASE effects' = effects
      BY <2>1 DEF TypeInv, TypeOK
    <2>2. CASE Replace(r) \/ RunProcess(r)
      <3>1. job[r].call \in CallIds
        BY <2>2, CallAtHand DEF Replace, RunProcess, Calling, Recorded
      <3>2. effects' = [effects EXCEPT ![job[r].call] = effects[job[r].call] + 1]
        BY <2>2 DEF Replace, RunProcess
      <3>3. QED
        BY <3>1, <3>2 DEF TypeInv, TypeOK
    <2>3. QED
      BY <2>1, <2>2 DEF CheckTarget, ConfirmTarget
  <1>5. file' \in Contents /\ pc' \in [Runs -> Phases]
    BY <1>2 DEF CheckTarget, Replace, RunProcess, ConfirmTarget, Goto, TypeInv, TypeOK,
       Phases, Owning, Job
  <1>6. TypeOK'
    BY <1>1, <1>3, <1>4, <1>5 DEF TypeInv, TypeOK
  <1>7. ShapeOf(r)'
    BY <1>1, <1>3 DEF TypeInv, Shape, ShapeOf, HasHistory, HasJob, HasReturns,
       Working, Owning, Reconciling, Calling, Recorded
  <1>8. QED
    BY <1>6, <1>7, StepsAlone, AloneShape DEF TypeInv, Step

\* Steps that record the outcome of the operation the run is busy with.
LEMMA TypeFinish ==
  ASSUME TypeInv, NEW r \in Runs, FinishWrite(r) \/ FinishProcess(r)
  PROVE  TypeInv'
  <1>1. /\ pc[r] \in {"replaced", "process", "exited"} /\ pc[r] \in Calling
        /\ pc' = [pc EXCEPT ![r] = "settled"] /\ pc'[r] = "settled"
        /\ history' = history /\ received' = received
        /\ current' = current /\ checkpoints' = checkpoints
        /\ request' = request /\ results' = results /\ file' = file /\ effects' = effects
    BY DEF FinishWrite, FinishProcess, Goto, TypeInv, TypeOK, Calling, Recorded
  <1>2. job[r].op \in Operations
    BY <1>1 DEF TypeInv, Shape, ShapeOf, HasJob, Recorded
  <1>3. PICK v \in Outcomes :
          Report(r, v, FALSE) /\ job' = [job EXCEPT ![r].verdict = v]
    BY DEF FinishWrite, FinishProcess, Statuses, Outcomes
  <1>4. log' \in Seq(Record)
    BY <1>2, <1>3, OutcomeIsRecord, AppendFacts DEF Report, AppendRecord, TypeInv, TypeOK
  <1>5. job'[r] = [job[r] EXCEPT !.verdict = v]
    BY <1>3 DEF TypeInv, TypeOK
  <1>6. job'[r] \in Job /\ job'[r].call = job[r].call /\ job'[r].op = job[r].op
    BY <1>1, <1>5, CallAtHand DEF Job
  <1>7. TypeOK'
    BY <1>1, <1>3, <1>4, <1>5, <1>6 DEF TypeInv, TypeOK, Phases, Owning
  <1>8. ShapeOf(r)'
    BY <1>1, <1>2, <1>6 DEF TypeInv, Shape, ShapeOf, HasHistory, HasJob, HasReturns,
       Working, Owning, Reconciling, Calling, Recorded
  <1>9. QED
    BY <1>7, <1>8, StepsAlone, AloneShape DEF TypeInv, Step

LEMMA TypeRaisesAndVerdict ==
  ASSUME TypeInv, NEW r \in Runs, ProcessRaises(r) \/ RecordVerdict(r)
  PROVE  TypeInv'
  <1>1. /\ pc[r] \in {"process", "exited", "confirmed"}
        /\ pc' = [pc EXCEPT ![r] = IF pc[r] = "confirmed" THEN "new" ELSE "ended"]
        /\ pc'[r] = IF pc[r] = "confirmed" THEN "new" ELSE "ended"
        /\ job' = [job EXCEPT ![r] = None]
        /\ history' = history /\ current' = current /\ checkpoints' = checkpoints
        /\ request' = request /\ results' = results /\ file' = file /\ effects' = effects
        /\ received' = [received EXCEPT ![r] = {}] \/ received' = received
    BY DEF ProcessRaises, RecordVerdict, Goto, TypeInv, TypeOK
  <1>2. job[r].op \in Operations /\ job[r] \in Job
    BY <1>1 DEF TypeInv, Shape, ShapeOf, HasJob, Calling, Recorded, Reconciling
  <1>3. PICK v \in Outcomes, b \in BOOLEAN : Report(r, v, b)
    BY <1>2 DEF ProcessRaises, RecordVerdict, Outcomes, Job
  <1>4. log' \in Seq(Record)
    BY <1>2, <1>3, OutcomeIsRecord, AppendFacts DEF Report, AppendRecord, TypeInv, TypeOK
  <1>5. TypeOK'
    BY <1>1, <1>4 DEF TypeInv, TypeOK, Phases, Owning
  <1>6. pc[r] = "confirmed" => received' = received
    BY DEF ProcessRaises, RecordVerdict
  <1>7. ShapeOf(r)'
    BY <1>1, <1>6 DEF TypeInv, Shape, ShapeOf, HasHistory, HasJob, HasReturns,
       Working, Owning, Reconciling, Calling, Recorded
  <1>8. QED
    BY <1>5, <1>7, StepsAlone, AloneShape DEF TypeInv, Step

LEMMA TypeObserve ==
  ASSUME TypeInv, NEW r \in Runs, ObserveTarget(r)
  PROVE  TypeInv'
  <1>1. PICK o \in Operations, v \in {"applied", "not_applied"} :
          job' = [job EXCEPT ![r] = [JobFor(None, o) EXCEPT !.verdict = v]]
    <2>1. Open(log) \subseteq Operations
      BY RecordFacts DEF Open, Begun, Intents, TypeInv, TypeOK
    <2>2. PICK o \in Open(log) :
            job' = [job EXCEPT ![r] = [JobFor(None, o) EXCEPT !.verdict =
                     IF file = request[o].after THEN "applied" ELSE "not_applied"]]
      BY DEF ObserveTarget
    <2>3. QED
      BY <2>1, <2>2
  <1> DEFINE j == [JobFor(None, o) EXCEPT !.verdict = v]
  <1>2. /\ j \in Job /\ j.op = o /\ j.verdict = v
        /\ JobFor(None, o).touched = {}
    BY DEF JobFor, Job, TypeInv, TypeOK, Outcomes
  <1> HIDE DEF j
  <1>3. job' = [job EXCEPT ![r] = j]
    BY <1>1 DEF j
  <1>4. TypeOK'
    BY <1>2, <1>3 DEF ObserveTarget, Goto, TypeInv, TypeOK, Phases, Owning
  <1>5. /\ pc[r] = "new" /\ pc'[r] = "observed" /\ job'[r] = j
        /\ history' = history /\ received' = received
    BY <1>3 DEF ObserveTarget, Goto, TypeInv, TypeOK
  <1>6. ShapeOf(r)'
    BY <1>2, <1>5 DEF TypeInv, Shape, ShapeOf, HasHistory, HasJob, HasReturns,
       Working, Owning, Reconciling, Calling, Recorded
  <1>7. QED
    BY <1>4, <1>6, StepsAlone, AloneShape DEF TypeInv, Step

\* What SaveResult adds to what was received.
Got(r) == received[r] \cup {[call |-> job[r].call, op |-> job[r].op,
                             outcome |-> job[r].verdict]}

LEMMA SaveResultCases ==
  ASSUME TypeInv, NEW r \in Runs, SaveResult(r)
  PROVE  /\ pc[r] = "settled" /\ Dispatchable
         /\ results' = results \cup
              {[checkpoint |-> current[r], call |-> <<r, job[r].call>>,
                op |-> job[r].op, outcome |-> job[r].verdict]}
         /\ job' = [job EXCEPT ![r] = None]
         /\ UNCHANGED <<log, request, file, current, checkpoints, effects>>
         /\ \/ /\ Unreturned(history[r]) \subseteq {a.call : a \in Got(r)}
               /\ history' = [history EXCEPT ![r].returns = @ \cup Got(r)]
               /\ received' = [received EXCEPT ![r] = {}]
               /\ pc' = [pc EXCEPT ![r] = "thinking"]
            \/ /\ ~(Unreturned(history[r]) \subseteq {a.call : a \in Got(r)})
               /\ history' = history
               /\ received' = [received EXCEPT ![r] = Got(r)]
               /\ pc' = [pc EXCEPT ![r] = "calling"]
  <1> DEFINE got == received[r] \cup {[call |-> job[r].call, op |-> job[r].op,
                                        outcome |-> job[r].verdict]}
             open == Unreturned(history[r]) \ {a.call : a \in got}
  <1>1. open = {} <=> Unreturned(history[r]) \subseteq {a.call : a \in got}
    OBVIOUS
  <1>2. QED
    BY <1>1 DEF SaveResult, Goto, Got

LEMMA TypeSaveResult ==
  ASSUME TypeInv, NEW r \in Runs, SaveResult(r)
  PROVE  TypeInv'
  <1>1. pc[r] = "settled" /\ pc[r] \in Calling
    BY DEF SaveResult, Calling
  <1>2. /\ history[r] \in History /\ job[r] \in Job /\ job[r].op \in Operations
        /\ job[r].call \in CallIds /\ <<r, job[r].call>> \in Calls
        /\ current[r] \in Checkpoint
    BY <1>1, CallAtHand DEF TypeInv, Shape, ShapeOf, HasJob
  <1>3. Got(r) \in SUBSET Return
    BY <1>2 DEF Got, Return, Job, TypeInv, TypeOK
  <1>4. results' \subseteq Result
    <2> DEFINE new == [checkpoint |-> current[r], call |-> <<r, job[r].call>>,
                       op |-> job[r].op, outcome |-> job[r].verdict]
    <2>1. job[r].verdict \in Outcomes
      BY <1>2 DEF Job
    <2>2. new \in Result
      BY <1>2, <2>1 DEF Result
    <2>3. results' = results \cup {new}
      BY SaveResultCases
    <2> HIDE DEF new
    <2>4. QED
      BY <2>2, <2>3 DEF TypeInv, TypeOK
  <1>5. /\ job' \in [Runs -> Job \cup {None}]
        /\ pc' \in [Runs -> Phases]
        /\ received' \in [Runs -> SUBSET Return]
    <2>1. job' \in [Runs -> Job \cup {None}]
      <3>1. job' = [job EXCEPT ![r] = None]
        BY SaveResultCases
      <3>2. QED
        BY <3>1 DEF TypeInv, TypeOK
    <2>2. pc' \in [Runs -> Phases]
      <3>1. PICK phase \in {"thinking", "calling"} : pc' = [pc EXCEPT ![r] = phase]
        BY SaveResultCases
      <3>2. QED
        BY <3>1 DEF TypeInv, TypeOK, Phases, Owning
    <2>3. received' \in [Runs -> SUBSET Return]
      <3>1. PICK got \in SUBSET Return : received' = [received EXCEPT ![r] = got]
        BY <1>3, SaveResultCases
      <3>2. QED
        BY <3>1 DEF TypeInv, TypeOK
    <2>4. QED
      BY <2>1, <2>2, <2>3
  <1>6. history' \in [Runs -> History \cup {None}] /\ history'[r] \in History
    <2>1. CASE history' = history
      BY <1>2, <2>1 DEF TypeInv, TypeOK
    <2>2. CASE history' = [history EXCEPT ![r].returns = @ \cup Got(r)]
      <3>1. [history[r] EXCEPT !.returns = @ \cup Got(r)] \in History
        BY <1>2, <1>3 DEF History
      <3>2. QED
        BY <2>2, <3>1 DEF TypeInv, TypeOK
    <2>3. QED
      BY <2>1, <2>2, SaveResultCases
  <1>7. TypeOK'
    BY <1>4, <1>5, <1>6, SaveResultCases DEF TypeInv, TypeOK
  <1>8. /\ pc'[r] \in {"thinking", "calling"}
        /\ pc'[r] = "thinking" => received'[r] = {}
    BY SaveResultCases DEF TypeInv, TypeOK
  <1>9. ShapeOf(r)'
    BY <1>6, <1>8 DEF ShapeOf, HasHistory, HasJob, HasReturns,
       Working, Owning, Reconciling, Calling, Recorded
  <1>10. QED
    BY <1>7, <1>9, StepsAlone, AloneShape DEF TypeInv, Step

\* The checkpoint Recover stores.
Reconstructed(k) ==
  {[call |-> x.call[2], op |-> x.op, outcome |-> x.outcome] : x \in Receipts(k)}

Recovered(k) ==
  [k EXCEPT !.state = "complete", !.frontier = Len(log),
            !.history.returns = @ \cup Reconstructed(k)]

LEMMA RecoveredFields ==
  ASSUME TypeInv, NEW k \in checkpoints
  PROVE  /\ Recovered(k) \in Checkpoint /\ Recovered(k).history \in History
         /\ Recovered(k).state = "complete" /\ Recovered(k).frontier = Len(log)
         /\ Recovered(k).run = k.run
         /\ Recovered(k).history.base = k.history.base
         /\ Recovered(k).history.asked = k.history.asked
         /\ Recovered(k).history.returns = k.history.returns \cup Reconstructed(k)
  <1>1. /\ k \in Checkpoint /\ k.history \in History /\ results \subseteq Result
        /\ Len(log) \in Nat
    BY DEF TypeInv, TypeOK, Checkpoint
  <1>2. Reconstructed(k) \subseteq Return
    <2> SUFFICES ASSUME NEW x \in results
                 PROVE  [call |-> x.call[2], op |-> x.op, outcome |-> x.outcome] \in Return
      BY DEF Reconstructed, Receipts
    <2>1. x \in Result
      BY <1>1
    <2>2. x.call[2] \in CallIds
      BY <2>1, SessionAssumption DEF Result
    <2>3. QED
      BY <2>1, <2>2 DEF Result, Return
  <1> DEFINE h == [k.history EXCEPT !.returns = @ \cup Reconstructed(k)]
  <1>3. /\ h \in History /\ h.base = k.history.base /\ h.asked = k.history.asked
        /\ h.returns = k.history.returns \cup Reconstructed(k)
    BY <1>1, <1>2 DEF History
  <1> HIDE DEF h
  <1>4. Recovered(k) = [k EXCEPT !.state = "complete", !.frontier = Len(log), !.history = h]
    BY <1>1 DEF Recovered, Checkpoint, h
  <1>5. QED
    BY <1>1, <1>3, <1>4 DEF Checkpoint

LEMMA RecoverStores ==
  ASSUME TypeInv, NEW r \in Runs, NEW k \in checkpoints, Recover(r, k)
  PROVE  /\ pc[r] = "new" /\ SessionFree /\ Recoverable(k)
         /\ checkpoints' = checkpoints \cup {Recovered(k)}
         /\ current' = [current EXCEPT ![r] = Recovered(k)]
         /\ history' = [history EXCEPT ![r] = Recovered(k).history]
         /\ pc' = [pc EXCEPT ![r] = "prepared"]
         /\ UNCHANGED <<log, request, file, received, job, results, effects>>
  BY DEF Recover, Recovered, Reconstructed, Goto

LEMMA TypeRecover ==
  ASSUME TypeInv, NEW r \in Runs, NEW k \in checkpoints, Recover(r, k)
  PROVE  TypeInv'
  <1>1. TypeOK'
    <2> DEFINE new == Recovered(k)
    <2>1. /\ new \in Checkpoint /\ new.history \in History
          /\ checkpoints' = checkpoints \cup {new}
          /\ current' = [current EXCEPT ![r] = new]
          /\ history' = [history EXCEPT ![r] = new.history]
      BY RecoverStores, RecoveredFields
    <2> HIDE DEF new
    <2>2. pc' \in [Runs -> Phases]
      BY RecoverStores DEF TypeInv, TypeOK, Phases
    <2>3. /\ checkpoints' \subseteq Checkpoint
          /\ current' \in [Runs -> Checkpoint \cup {None}]
      BY <2>1 DEF TypeInv, TypeOK
    <2>4. history' \in [Runs -> History \cup {None}]
      BY <2>1 DEF TypeInv, TypeOK
    <2>5. QED
      BY <2>2, <2>3, <2>4, RecoverStores DEF TypeInv, TypeOK
  <1>2. /\ pc[r] = "new" /\ pc'[r] = "prepared" /\ current'[r] = Recovered(k)
        /\ history'[r] = Recovered(k).history /\ received' = received
        /\ Recovered(k) \in checkpoints'
    BY RecoverStores DEF TypeInv, TypeOK
  <1>3. ShapeOf(r)'
    BY <1>2, RecoveredFields DEF TypeInv, Shape, ShapeOf, HasHistory, HasJob, HasReturns,
       Working, Owning, Reconciling, Calling, Recorded
  <1>4. QED
    BY <1>1, <1>3, StepsAlone, AloneShape DEF TypeInv, Step

\* Another writer is noticed in the jobs, and nowhere else.
LEMMA OtherWriterJobs ==
  ASSUME TypeInv, OtherWriter, NEW r \in Runs
  PROVE  /\ job[r] = None => job'[r] = None
         /\ job[r] # None =>
              /\ job[r] \in Job /\ job'[r] \in Job
              /\ job'[r].call = job[r].call /\ job'[r].op = job[r].op
              /\ job'[r].before = job[r].before /\ job'[r].after = job[r].after
              /\ job'[r].verdict = job[r].verdict
              /\ job'[r].touched = job[r].touched \cup
                   {IF TargetFree THEN "leased" ELSE "outside"}
  <1>1. job'[r] = IF job[r] = None THEN None
                  ELSE [job[r] EXCEPT !.touched =
                          @ \cup {IF TargetFree THEN "leased" ELSE "outside"}]
    BY DEF OtherWriter
  <1>2. job[r] # None => job[r] \in Job
    BY DEF TypeInv, TypeOK
  <1>3. {IF TargetFree THEN "leased" ELSE "outside"} \subseteq Writers
    BY DEF Writers
  <1>4. QED
    BY <1>1, <1>2, <1>3 DEF Job

LEMMA TypeOtherWriter ==
  ASSUME TypeInv, OtherWriter
  PROVE  TypeInv'
  <1>1. UNCHANGED <<log, request, pc, history, received, current, checkpoints,
                    results, effects>>
    BY DEF OtherWriter
  <1>2. job' \in [Runs -> Job \cup {None}]
    BY NoneAssumption, OtherWriterJobs DEF OtherWriter
  <1>3. file' \in Contents
    BY DEF OtherWriter
  <1>4. TypeOK'
    BY <1>1, <1>2, <1>3 DEF TypeInv, TypeOK
  <1>5. ASSUME NEW r \in Runs
        PROVE  ShapeOf(r)'
    <2>1. ShapeOf(r)
      BY DEF TypeInv, Shape
    <2>2. job[r] \in Job => job[r] # None
      BY NoneAssumption
    <2>3. QED
      BY <1>1, <2>1, <2>2, OtherWriterJobs DEF ShapeOf, HasHistory, HasJob, HasReturns
  <1>6. QED
    BY <1>4, <1>5 DEF TypeInv, Shape

LEMMA TypeNext == TypeInv /\ [Next]_vars => TypeInv'
  <1> SUFFICES ASSUME TypeInv, [Next]_vars
               PROVE  TypeInv'
    OBVIOUS
  <1>1. ASSUME NEW r \in Runs, Step(r)
        PROVE  TypeInv'
    BY <1>1, TypeStartFresh, TypeStartPrepared, TypePrepareResume, TypeAsk, TypePretool,
       TypeSaveComplete, TypeStop, TypeLockTarget, TypeBeginWrite, TypeBeginProcess,
       TypeLooksAndEffects, TypeFinish, TypeRaisesAndVerdict, TypeObserve,
       TypeSaveResult, TypeRecover DEF Step
  <1>2. CASE OtherWriter
    BY <1>2, TypeOtherWriter
  <1>3. CASE UNCHANGED vars
    BY <1>3 DEF vars, TypeInv, TypeOK, Shape, ShapeOf, HasHistory, HasJob, HasReturns
  <1>4. QED
    BY <1>1, <1>2, <1>3 DEF Next, Step

\* The state of a session is well formed, whatever its runs, brokers and
\* recoveries do.
THEOREM SessionTypes == Spec => []TypeOK
  <1>1. TypeInv => TypeOK
    BY DEF TypeInv
  <1>2. QED
    BY TypeInit, TypeNext, <1>1, PTL DEF Spec

-----------------------------------------------------------------------------
(* One owner, and what it does to the journal *)

LEMMA EntersFree ==
  ASSUME TypeOK, NEW r \in Runs, Step(r), pc'[r] \in Owning
  PROVE  pc[r] \in Owning \/ SessionFree
  BY DEF Step, TypeOK, Goto, Owning, StartFresh, PrepareResume, Recover, StartPrepared, Ask,
     PretoolCheckpoint, SaveComplete, LockTarget, BeginWrite, CheckTarget, Replace,
     FinishWrite, BeginProcess, RunProcess, FinishProcess, ProcessRaises, SaveResult,
     ObserveTarget, ConfirmTarget, RecordVerdict, Stop

LEMMA OwnerStep ==
  ASSUME TypeInv, OneOwner, NEW r \in Runs, Step(r)
  PROVE  OneOwner'
  <1>1. \A q \in Runs \ {r} : pc'[q] = pc[q]
    BY StepsAlone DEF TypeInv, Alone
  <1>2. pc'[r] \in Owning => pc[r] \in Owning \/ SessionFree
    BY EntersFree DEF TypeInv
  <1>3. QED
    BY <1>1, <1>2 DEF OneOwner, SessionFree

\* While a run owns the session the others do not.
LEMMA OthersOut ==
  ASSUME OneOwner, NEW r \in Runs, pc[r] \in Owning, NEW q \in Runs \ {r}
  PROVE  pc[q] \notin Owning /\ pc[q] \notin Working /\ pc[q] \notin Recorded
         /\ pc[q] \notin Calling /\ pc[q] \notin Locking
  BY DEF OneOwner, Owning, Working, Recorded, Calling, Locking

Begins(r) == BeginWrite(r) \/ BeginProcess(r)
Reports(r) == FinishWrite(r) \/ FinishProcess(r) \/ ProcessRaises(r) \/ RecordVerdict(r)

LEMMA QuietOrAppends ==
  ASSUME NEW r \in Runs, Step(r)
  PROVE  log' = log \/ Begins(r) \/ Reports(r)
  BY DEF Step, Begins, Reports, StartFresh, PrepareResume, Recover, StartPrepared, Ask,
     PretoolCheckpoint, SaveComplete, LockTarget, CheckTarget, Replace, RunProcess,
     SaveResult, ObserveTarget, ConfirmTarget, Stop

\* Beginning an operation appends an intent for a call not begun before, to a
\* journal in which nothing is open.
LEMMA BeginFacts ==
  ASSUME TypeInv, LogInv, NEW r \in Runs, Begins(r)
  PROVE  \E rec \in Record :
           /\ rec.type = "intent" /\ rec.call = <<r, job[r].call>>
           /\ Appendable(log, rec) /\ log' = Append(log, rec)
           /\ pc[r] \in {"ready", "locked"} /\ pc'[r] \in {"begun", "process"}
           /\ job'[r].op = rec.op /\ job'[r].call = job[r].call
           /\ Open(log) = {} /\ Open(log') = {rec.op}
           /\ \A i \in Intents(log) : log[i].call # rec.call
           /\ UNCHANGED <<history, received, current, checkpoints, results, effects>>
  <1>1. PICK o \in Operations, kind \in {"file_replace", "process"} :
          /\ AppendRecord([type |-> "intent", op |-> o, kind |-> kind,
                           call |-> <<r, job[r].call>>, control |-> None])
          /\ job' = [job EXCEPT ![r].op = o]
    BY DEF Begins, BeginWrite, BeginProcess
  <1>2. /\ pc[r] \in {"ready", "locked"} /\ pc'[r] \in {"begun", "process"}
        /\ UNCHANGED <<history, received, current, checkpoints, results, effects>>
    BY DEF Begins, BeginWrite, BeginProcess, Goto, TypeInv, TypeOK
  <1>3. /\ job[r] \in Job /\ job[r].call \in CallIds /\ <<r, job[r].call>> \in Calls
    BY <1>2, CallAtHand DEF Calling
  <1> DEFINE rec == [type |-> "intent", op |-> o, kind |-> kind,
                     call |-> <<r, job[r].call>>, control |-> None]
  <1>4. rec \in Record /\ Appendable(log, rec) /\ log' = Append(log, rec)
    BY <1>1, <1>3, IntentIsRecord DEF AppendRecord
  <1>5. /\ rec.type = "intent" /\ rec.kind # "owner_control" /\ rec.op = o
        /\ rec.call = <<r, job[r].call>>
    OBVIOUS
  <1>6. /\ job'[r].op = o /\ job'[r].call = job[r].call
    BY <1>1, <1>3 DEF Job, TypeInv, TypeOK
  <1> HIDE DEF rec
  <1>7. /\ Open(log) = {}
        /\ \A i \in Intents(log) : log[i].call # rec.call
    <2>1. AdmitsIntent(log, rec)
      BY <1>4, <1>5 DEF Appendable, Admits
    <2>2. rec.call # None
      BY <1>3, <1>5, NoneAssumption
    <2>3. QED
      BY <2>1, <2>2, <1>5 DEF AdmitsIntent, NothingUnsettled, Bypasses, FreshCall
  <1>8. Open(log') = {rec.op}
    BY <1>4, <1>5, <1>7, AppendOpens DEF LogInv, TypeInv, TypeOK
  <1>9. QED
    BY <1>2, <1>4, <1>5, <1>6, <1>7, <1>8

\* Reporting appends an outcome of the operation the run is busy with.
LEMMA ReportFacts ==
  ASSUME TypeInv, NEW r \in Runs, Reports(r)
  PROVE  \E rec \in Record :
           /\ rec.type = "outcome" /\ rec.op = job[r].op /\ rec.op \in Operations
           /\ Appendable(log, rec) /\ log' = Append(log, rec)
           /\ pc[r] \in {"replaced", "process", "exited", "confirmed"}
           /\ pc'[r] \in {"settled", "ended", "new"}
           /\ pc'[r] = "settled" =>
                /\ pc[r] # "confirmed"
                /\ job'[r].op = job[r].op /\ job'[r].call = job[r].call
                /\ job'[r].verdict = rec.outcome
                /\ rec.outcome \in Outcomes \ {"uncertain"}
                /\ received' = received
           /\ rec.reconciled \/ rec.outcome = "uncertain" \/ rec.outcome = "cancelled"
                \/ pc[r] \in {"replaced", "exited"}
           /\ UNCHANGED <<history, current, checkpoints, results, effects>>
  <1>1. /\ pc[r] \in {"replaced", "process", "exited", "confirmed"}
        /\ pc'[r] \in {"settled", "ended", "new"}
        /\ UNCHANGED <<history, current, checkpoints, results, effects>>
    BY DEF Reports, FinishWrite, FinishProcess, ProcessRaises, RecordVerdict, Goto,
       TypeInv, TypeOK
  <1>2. job[r] \in Job /\ job[r].op \in Operations
    BY <1>1 DEF TypeInv, Shape, ShapeOf, HasJob, Calling, Recorded, Reconciling
  <1>3. PICK v \in Outcomes, b \in BOOLEAN :
          /\ Report(r, v, b)
          /\ pc'[r] = "settled" =>
               /\ pc[r] # "confirmed" /\ v # "uncertain" /\ received' = received
               /\ job' = [job EXCEPT ![r].verdict = v]
          /\ b \/ v = "uncertain" \/ v = "cancelled" \/ pc[r] \in {"replaced", "exited"}
    <2>1. CASE FinishWrite(r)
      BY <2>1 DEF FinishWrite, Outcomes
    <2>2. CASE FinishProcess(r)
      BY <2>2 DEF FinishProcess, Statuses, Outcomes
    <2>3. CASE ProcessRaises(r)
      BY <2>3 DEF ProcessRaises, Outcomes, Goto, TypeInv, TypeOK
    <2>4. CASE RecordVerdict(r)
      BY <2>4, <1>2 DEF RecordVerdict, Job, Goto, TypeInv, TypeOK
    <2>5. QED
      BY <2>1, <2>2, <2>3, <2>4 DEF Reports
  <1> DEFINE rec == [type |-> "outcome", op |-> job[r].op, outcome |-> v, reconciled |-> b]
  <1>4. rec \in Record /\ Appendable(log, rec) /\ log' = Append(log, rec)
    BY <1>2, <1>3, OutcomeIsRecord DEF Report, AppendRecord
  <1>5. /\ rec.type = "outcome" /\ rec.op = job[r].op /\ rec.outcome = v
        /\ rec.reconciled = b
    OBVIOUS
  <1>6. pc'[r] = "settled" =>
          /\ job'[r].op = job[r].op /\ job'[r].call = job[r].call
          /\ job'[r].verdict = v
    BY <1>2, <1>3 DEF Job, TypeInv, TypeOK
  <1> HIDE DEF rec
  <1>7. QED
    BY <1>1, <1>2, <1>3, <1>4, <1>5, <1>6

\* What was begun stays in the journal.
LEMMA IntentsStay ==
  ASSUME TypeInv, NEW rec \in Record, log' = Append(log, rec)
  PROVE  /\ Intents(log) \subseteq Intents(log')
         /\ OutcomesIn(log) \subseteq OutcomesIn(log')
         /\ \A i \in Intents(log) \cup OutcomesIn(log) : log'[i] = log[i]
         /\ \A i \in Intents(log') \ Intents(log) :
              i = Len(log) + 1 /\ log'[i] = rec /\ rec.type = "intent"
         /\ \A i \in OutcomesIn(log') \ OutcomesIn(log) :
              i = Len(log) + 1 /\ log'[i] = rec /\ rec.type = "outcome"
         /\ Len(log') = Len(log) + 1
         /\ Len(log) \in Nat
         /\ Intents(log) \subseteq 1..Len(log) /\ OutcomesIn(log) \subseteq 1..Len(log)
         /\ rec.type = "intent" => Len(log) + 1 \in Intents(log')
         /\ log'[Len(log) + 1] = rec
  BY AppendReading, AppendFacts DEF TypeInv, TypeOK

LEMMA LogStep ==
  ASSUME TypeInv, LogInv, NEW r \in Runs, Step(r)
  PROVE  LogInv'
  <1>1. CASE log' = log
    BY <1>1 DEF LogInv
  <1>2. CASE Begins(r)
    <2>1. PICK rec \in Record :
            /\ rec.type = "intent" /\ rec.call = <<r, job[r].call>>
            /\ Appendable(log, rec) /\ log' = Append(log, rec)
            /\ pc[r] \in {"ready", "locked"}
            /\ \A i \in Intents(log) : log[i].call # rec.call
      BY <1>2, BeginFacts
    <2>2. Coherent(log')
      BY <2>1, AppendCoherent DEF LogInv, TypeInv, TypeOK
    <2>3. rec.call \in Calls
      BY <2>1, CallAtHand DEF Calling
    <2>4. QED
      BY <2>1, <2>2, <2>3, IntentsStay DEF LogInv
  <1>3. CASE Reports(r)
    <2>1. PICK rec \in Record :
            rec.type = "outcome" /\ Appendable(log, rec) /\ log' = Append(log, rec)
      BY <1>3, ReportFacts
    <2>2. Coherent(log')
      BY <2>1, AppendCoherent DEF LogInv, TypeInv, TypeOK
    <2>3. QED
      BY <2>1, <2>2, IntentsStay DEF LogInv
  <1>4. QED
    BY <1>1, <1>2, <1>3, QuietOrAppends

\* A step that appends nothing and leads to a phase with an open operation
\* comes from one with the same operation.
LEMMA QuietPhases ==
  ASSUME TypeInv, NEW r \in Runs, Step(r), log' = log,
         pc'[r] \in Recorded \cup {"settled"}
  PROVE  /\ pc[r] \in Recorded /\ pc'[r] \in Recorded
         /\ job'[r].op = job[r].op /\ job'[r].call = job[r].call
         /\ CheckTarget(r) \/ Replace(r) \/ RunProcess(r)
  <1>1. \A rec \in Record : Append(log, rec) # log
    <2> SUFFICES ASSUME NEW rec \in Record PROVE Len(Append(log, rec)) # Len(log)
      OBVIOUS
    <2> QED
      BY AppendFacts DEF TypeInv, TypeOK
  <1>2. ~Reports(r)
    BY <1>1, ReportFacts
  <1>3. ~Begins(r)
    <2>1. SUFFICES ASSUME Begins(r) PROVE FALSE
      OBVIOUS
    <2>2. \E rec : log' = Append(log, rec)
      BY <2>1 DEF Begins, BeginWrite, BeginProcess, AppendRecord
    <2>3. PICK rec : log' = Append(log, rec)
      BY <2>2
    <2>4. Len(Append(log, rec)) = Len(log) + 1 /\ Len(log) \in Nat
      BY DEF TypeInv, TypeOK
    <2>5. QED
      BY <2>3, <2>4
  <1>4. CheckTarget(r) \/ Replace(r) \/ RunProcess(r)
    BY <1>2, <1>3 DEF Step, Begins, Reports, TypeInv, TypeOK, Goto, NextPhase, Recorded,
       StartFresh, PrepareResume, Recover, StartPrepared, Ask, PretoolCheckpoint,
       SaveComplete, LockTarget, SaveResult, ObserveTarget, ConfirmTarget, Stop
  <1>5. pc[r] \in Recorded /\ pc'[r] \in Recorded
    BY <1>4 DEF CheckTarget, Replace, RunProcess, Recorded, Goto, TypeInv, TypeOK
  <1>6. job[r] \in Job
    BY <1>5, CallAtHand DEF Calling
  <1>7. job'[r].op = job[r].op /\ job'[r].call = job[r].call
    BY <1>4, <1>6 DEF CheckTarget, Replace, RunProcess, Job, TypeInv, TypeOK
  <1>8. QED
    BY <1>4, <1>5, <1>7

LEMMA OpenStep ==
  ASSUME SessionInv, NEW r \in Runs, Step(r)
  PROVE  OpenInv'
  <1>1. \A q \in Runs \ {r} : pc'[q] = pc[q] /\ job'[q] = job[q]
    BY StepsAlone DEF SessionInv, TypeInv, Alone
  <1>2. CASE log' = log
    <2>1. ASSUME NEW q \in Runs, pc'[q] \in Recorded \cup {"settled"}
          PROVE  /\ pc[q] \in Recorded \cup {"settled"}
                 /\ pc'[q] \in Recorded => pc[q] \in Recorded
                 /\ job'[q].op = job[q].op /\ job'[q].call = job[q].call
      BY <1>1, <1>2, <2>1, QuietPhases DEF SessionInv
    <2>2. QED
      BY <1>2, <2>1 DEF SessionInv, OpenInv, BegunFor
  <1>3. CASE Begins(r)
    <2>1. PICK rec \in Record :
            /\ rec.type = "intent" /\ rec.call = <<r, job[r].call>>
            /\ log' = Append(log, rec)
            /\ pc[r] \in {"ready", "locked"}
            /\ job'[r].op = rec.op /\ job'[r].call = job[r].call
            /\ Open(log') = {rec.op}
      BY <1>3, BeginFacts DEF SessionInv
    <2>2. BegunFor(job[r].op, r, job[r].call)'
      BY <2>1, IntentsStay DEF BegunFor, SessionInv
    <2>3. \A q \in Runs \ {r} : pc'[q] \notin Recorded \cup {"settled"}
      BY <1>1, <2>1, OthersOut DEF SessionInv, Owning
    <2>4. QED
      BY <2>1, <2>2, <2>3 DEF OpenInv
  <1>4. CASE Reports(r)
    <2>1. PICK rec \in Record :
            /\ log' = Append(log, rec)
            /\ pc[r] \in {"replaced", "process", "exited", "confirmed"}
            /\ pc'[r] \in {"settled", "ended", "new"}
            /\ pc'[r] = "settled" =>
                 /\ pc[r] # "confirmed"
                 /\ job'[r].op = job[r].op /\ job'[r].call = job[r].call
      BY <1>4, ReportFacts DEF SessionInv
    <2>2. pc'[r] = "settled" => BegunFor(job[r].op, r, job[r].call)'
      <3> SUFFICES ASSUME pc'[r] = "settled"
                   PROVE  BegunFor(job[r].op, r, job[r].call)'
        OBVIOUS
      <3>1. pc[r] \in Recorded
        BY <2>1 DEF Recorded
      <3>2. PICK i \in Intents(log) :
              log[i].op = job[r].op /\ log[i].call = <<r, job[r].call>>
        BY <3>1 DEF SessionInv, OpenInv, BegunFor
      <3>3. i \in Intents(log') /\ log'[i] = log[i]
        BY <2>1, IntentsStay DEF SessionInv
      <3>4. QED
        BY <2>1, <3>2, <3>3 DEF BegunFor
    <2>3. \A q \in Runs \ {r} : pc'[q] \notin Recorded \cup {"settled"}
      BY <1>1, <2>1, OthersOut DEF SessionInv, Owning
    <2>4. QED
      BY <2>1, <2>2, <2>3 DEF OpenInv, Recorded
  <1>5. QED
    BY <1>2, <1>3, <1>4, QuietOrAppends

LEMMA SessionInit == Init => SessionInv
  <1> SUFFICES ASSUME Init PROVE SessionInv
    OBVIOUS
  <1>1. TypeInv
    BY TypeInit
  <1>2. OneOwner
    BY DEF Init, OneOwner, Owning
  <1>3. LogInv
    BY EmptyHistory DEF Init, LogInv
  <1>4. OpenInv
    BY DEF Init, OpenInv, Recorded
  <1>5. QED
    BY <1>1, <1>2, <1>3, <1>4 DEF SessionInv

LEMMA SessionNext == SessionInv /\ [Next]_vars => SessionInv'
  <1> SUFFICES ASSUME SessionInv, [Next]_vars
               PROVE  SessionInv'
    OBVIOUS
  <1>1. TypeInv'
    BY TypeNext DEF SessionInv
  <1>2. ASSUME NEW r \in Runs, Step(r)
        PROVE  SessionInv'
    BY <1>1, <1>2, OwnerStep, LogStep, OpenStep DEF SessionInv
  <1>3. CASE OtherWriter
    <2>1. UNCHANGED <<log, pc>>
      BY <1>3 DEF OtherWriter
    <2>2. \A r \in Runs : pc[r] \in Recorded \cup {"settled"} =>
            job'[r].op = job[r].op /\ job'[r].call = job[r].call
      BY <1>3, OtherWriterJobs, CallAtHand, NoneAssumption DEF SessionInv, Calling
    <2>3. QED
      BY <1>1, <2>1, <2>2 DEF SessionInv, OneOwner, LogInv, OpenInv, BegunFor
  <1>4. CASE UNCHANGED vars
    BY <1>1, <1>4 DEF vars, SessionInv, OneOwner, LogInv, OpenInv, BegunFor
  <1>5. QED
    BY <1>2, <1>3, <1>4 DEF Next, Step

LEMMA SessionInvariant == Spec => []SessionInv
  BY SessionInit, SessionNext, PTL DEF Spec

-----------------------------------------------------------------------------
(* An effect happens under its own intent *)

\* Only a replacement and a process have an effect, that of the call at hand.
LEMMA EffectSteps ==
  ASSUME TypeInv, NEW r \in Runs, Replace(r) \/ RunProcess(r)
  PROVE  /\ pc[r] \in {"checked", "process"} /\ pc'[r] \in {"replaced", "exited"}
         /\ job' = job /\ log' = log /\ history' = history
         /\ job[r].call \in CallIds
         /\ effects'[job[r].call] = effects[job[r].call] + 1
         /\ \A c \in CallIds \ {job[r].call} : effects'[c] = effects[c]
  <1>1. /\ pc[r] \in {"checked", "process"}
        /\ effects' = [effects EXCEPT ![job[r].call] = @ + 1]
        /\ job' = job /\ log' = log /\ history' = history
    BY DEF Replace, RunProcess
  <1>2. pc'[r] \in {"replaced", "exited"}
    BY DEF Replace, RunProcess, Goto, TypeInv, TypeOK
  <1>3. job[r].call \in CallIds
    BY <1>1, CallAtHand DEF Calling, Recorded
  <1>4. QED
    BY <1>1, <1>2, <1>3 DEF TypeInv, TypeOK

LEMMA EffectsOnly ==
  ASSUME NEW r \in Runs, Step(r)
  PROVE  effects' = effects \/ Replace(r) \/ RunProcess(r)
  BY DEF Step, StartFresh, PrepareResume, Recover, StartPrepared, Ask,
     PretoolCheckpoint, SaveComplete, LockTarget, BeginWrite, BeginProcess, CheckTarget,
     FinishWrite, FinishProcess, ProcessRaises, SaveResult, ObserveTarget, ConfirmTarget,
     RecordVerdict, Stop

LEMMA EffectUnderIntent ==
  ASSUME SessionInv, [Next]_vars, NEW c \in CallIds, effects'[c] # effects[c]
  PROVE  \E o \in Operations :
           /\ Open(log) = {o}
           /\ \E i \in Intents(log) : log[i].op = o /\ log[i].call[2] = c
  <1>1. effects' # effects
    OBVIOUS
  <1>2. ~UNCHANGED vars /\ ~OtherWriter
    BY <1>1 DEF vars, OtherWriter
  <1>3. PICK r \in Runs : Step(r)
    BY <1>2 DEF Next, Step
  <1>4. Replace(r) \/ RunProcess(r)
    BY <1>1, <1>3, EffectsOnly
  <1>5. pc[r] \in Recorded /\ c = job[r].call
    BY <1>4, EffectSteps DEF SessionInv, Recorded
  <1>6. job[r].op \in Operations
    BY <1>5 DEF SessionInv, TypeInv, Shape, ShapeOf, HasJob
  <1>7. Open(log) = {job[r].op} /\ BegunFor(job[r].op, r, c)
    BY <1>5 DEF SessionInv, OpenInv
  <1>8. \E i \in Intents(log) : log[i].op = job[r].op /\ log[i].call[2] = c
    BY <1>7 DEF BegunFor
  <1>9. QED
    BY <1>6, <1>7, <1>8

\* The file is replaced and a process is run only while the operation of that
\* very call is open in the journal, and no other is: neither broker acts
\* before its intent is recorded or beside an operation nobody has settled.
THEOREM EffectsUnderIntents == Spec => EffectOnlyUnderItsIntent
  <1>1. SessionInv /\ [Next]_vars =>
          [\A c \in CallIds : effects'[c] # effects[c] =>
             \E o \in Operations :
               /\ Open(log) = {o}
               /\ \E i \in Intents(log) : log[i].op = o /\ log[i].call[2] = c]_vars
    BY EffectUnderIntent
  <1>2. QED
    BY SessionInvariant, <1>1, PTL DEF Spec, EffectOnlyUnderItsIntent

-----------------------------------------------------------------------------
(* No change of the file passes unseen *)

\* What a run that holds the lease of the target knows of the file.
Watches(r) ==
  /\ pc[r] \in {"locked", "begun", "checked"} /\ job[r].touched = {} =>
       file = job[r].before
  /\ pc[r] \in {"observed", "confirmed"} /\ job[r].touched = {} =>
       file = IF job[r].verdict = "applied" THEN request[job[r].op].after
                                            ELSE request[job[r].op].before
  /\ pc[r] \in Locking => "leased" \notin job[r].touched

\* Only an owner writes the file or the request of an operation.
LEMMA OwnersWrite ==
  ASSUME NEW r \in Runs, Step(r), pc[r] \notin Owning
  PROVE  file' = file /\ request' = request
  BY DEF Step, Owning, StartFresh, PrepareResume, Recover, StartPrepared, Ask,
     PretoolCheckpoint, SaveComplete, LockTarget, BeginWrite, CheckTarget, Replace,
     FinishWrite, BeginProcess, RunProcess, FinishProcess, ProcessRaises, SaveResult,
     ObserveTarget, ConfirmTarget, RecordVerdict, Stop

\* A run holds the lease of the target only after one of these steps.
LEMMA LockingSteps ==
  ASSUME TypeOK, NEW r \in Runs, Step(r), pc'[r] \in Locking
  PROVE  \/ LockTarget(r) \/ BeginWrite(r) \/ CheckTarget(r) \/ Replace(r)
         \/ ObserveTarget(r) \/ ConfirmTarget(r)
  BY DEF Step, TypeOK, Goto, NextPhase, Locking, StartFresh, PrepareResume, Recover,
     StartPrepared, Ask, PretoolCheckpoint, SaveComplete, FinishWrite, BeginProcess,
     RunProcess, FinishProcess, ProcessRaises, SaveResult, RecordVerdict, Stop

LEMMA LockWatches ==
  ASSUME TypeInv, NEW r \in Runs, LockTarget(r)
  PROVE  Watches(r)'
  <1>1. job[r] \in Job
    BY CallAtHand DEF LockTarget, Calling
  <1>2. PICK after \in Contents :
          job' = [job EXCEPT ![r].before = file, ![r].after = after, ![r].touched = {}]
    BY DEF LockTarget
  <1>3. job'[r].before = file /\ job'[r].touched = {}
    BY <1>1, <1>2 DEF Job, TypeInv, TypeOK
  <1>4. pc'[r] = "locked" /\ file' = file
    BY DEF LockTarget, Goto, TypeInv, TypeOK
  <1>5. QED
    BY <1>3, <1>4 DEF Watches

LEMMA BeginWatches ==
  ASSUME TypeInv, NEW r \in Runs, Watches(r), BeginWrite(r)
  PROVE  Watches(r)'
  <1>1. pc[r] = "locked" /\ job[r].touched = {} /\ pc'[r] = "begun" /\ file' = file
    BY DEF BeginWrite, Goto, TypeInv, TypeOK
  <1>2. job[r] \in Job
    BY <1>1, CallAtHand DEF Calling
  <1>3. PICK o \in Operations : job' = [job EXCEPT ![r].op = o]
    BY DEF BeginWrite
  <1>4. job'[r].before = job[r].before /\ job'[r].touched = job[r].touched
    BY <1>2, <1>3 DEF Job, TypeInv, TypeOK
  <1>5. QED
    BY <1>1, <1>4 DEF Watches

LEMMA LookWatches ==
  ASSUME TypeInv, NEW r \in Runs, Watches(r), CheckTarget(r) \/ ConfirmTarget(r)
  PROVE  Watches(r)'
  <1>1. /\ job[r].touched = {} /\ job' = [job EXCEPT ![r].touched = {}]
        /\ file' = file /\ request' = request
    BY DEF CheckTarget, ConfirmTarget, StillUntouched
  <1>2. \/ pc[r] = "begun" /\ pc'[r] = "checked"
        \/ pc[r] = "observed" /\ pc'[r] = "confirmed"
    BY DEF CheckTarget, ConfirmTarget, Goto, TypeInv, TypeOK
  <1>3. job[r] \in Job
    BY <1>2 DEF TypeInv, Shape, ShapeOf, HasJob, Calling, Recorded, Reconciling
  <1>4. job'[r] = job[r]
    BY <1>1, <1>3 DEF Job, TypeInv, TypeOK
  <1>5. QED
    BY <1>1, <1>2, <1>4 DEF Watches

LEMMA ReplaceWatches ==
  ASSUME TypeInv, NEW r \in Runs, Watches(r), Replace(r)
  PROVE  Watches(r)'
  <1>1. pc[r] = "checked" /\ pc'[r] = "replaced" /\ job' = job
    BY DEF Replace, Goto, TypeInv, TypeOK
  <1>2. QED
    BY <1>1 DEF Watches, Locking

LEMMA ObserveWatches ==
  ASSUME TypeInv, NEW r \in Runs, ObserveTarget(r)
  PROVE  Watches(r)'
  <1>1. PICK o \in Operations :
          /\ file \in {request[o].before, request[o].after}
          /\ job' = [job EXCEPT ![r] = [JobFor(None, o) EXCEPT !.verdict =
                       IF file = request[o].after THEN "applied" ELSE "not_applied"]]
    <2>1. Open(log) \subseteq Operations
      BY RecordFacts DEF Open, Begun, Intents, TypeInv, TypeOK
    <2>2. QED
      BY <2>1 DEF ObserveTarget
  <1>2. /\ job'[r].op = o /\ job'[r].touched = {}
        /\ job'[r].verdict = IF file = request[o].after THEN "applied" ELSE "not_applied"
    BY <1>1 DEF JobFor, TypeInv, TypeOK
  <1>3. pc'[r] = "observed" /\ file' = file /\ request' = request
    BY DEF ObserveTarget, Goto, TypeInv, TypeOK
  <1>4. file' = IF job'[r].verdict = "applied" THEN request'[job'[r].op].after
                                               ELSE request'[job'[r].op].before
    BY <1>1, <1>2, <1>3
  <1>5. QED
    BY <1>2, <1>3, <1>4 DEF Watches

LEMMA WatchStep ==
  ASSUME SessionInv, \A q \in Runs : Watches(q), NEW r \in Runs, Step(r), NEW q \in Runs
  PROVE  Watches(q)'
  <1>1. CASE q = r
    <2>1. CASE pc'[r] \in Locking
      BY <1>1, <2>1, LockingSteps, LockWatches, BeginWatches, LookWatches, ReplaceWatches,
         ObserveWatches DEF SessionInv, TypeInv
    <2>2. CASE pc'[r] \notin Locking
      BY <1>1, <2>2 DEF Watches, Locking
    <2>3. QED
      BY <2>1, <2>2
  <1>2. CASE q # r
    <2>1. pc'[q] = pc[q] /\ job'[q] = job[q]
      BY <1>2, StepsAlone DEF SessionInv, TypeInv, Alone
    <2>2. CASE pc[q] \in Locking
      <3>1. pc[r] \notin Owning
        BY <1>2, <2>2, OthersOut DEF SessionInv, Locking, Owning
      <3>2. file' = file /\ request' = request
        BY <3>1, OwnersWrite
      <3>3. QED
        BY <2>1, <3>2 DEF Watches
    <2>3. CASE pc[q] \notin Locking
      BY <2>1, <2>3 DEF Watches, Locking
    <2>4. QED
      BY <2>2, <2>3
  <1>3. QED
    BY <1>1, <1>2

\* A writer that holds the lease of the target finds no run holding it.
LEMMA OthersWatched ==
  ASSUME TypeInv, \A q \in Runs : Watches(q), OtherWriter, NEW r \in Runs
  PROVE  Watches(r)'
  <1>1. pc' = pc
    BY DEF OtherWriter
  <1>2. CASE pc[r] \in Locking
    <2>1. job[r] \in Job /\ job[r] # None
      BY <1>2, NoneAssumption DEF TypeInv, Shape, ShapeOf, HasJob, Locking, Calling,
         Recorded, Reconciling
    <2>2. ~TargetFree
      BY <1>2 DEF TargetFree
    <2>3. job'[r] = [job[r] EXCEPT !.touched = @ \cup {"outside"}]
      BY <2>1, <2>2 DEF OtherWriter
    <2>4. job'[r].touched = job[r].touched \cup {"outside"}
      BY <2>1, <2>3 DEF Job
    <2>5. QED
      BY <1>1, <2>4 DEF Watches
  <1>3. CASE pc[r] \notin Locking
    BY <1>1, <1>3 DEF Watches, Locking
  <1>4. QED
    BY <1>2, <1>3

\* A replacement, and the outcome reconciliation records, rest on a look at the
\* file that no change followed but one of a program that takes no lease: the
\* target lease keeps out the brokers of other sessions, and the identity
\* compared before either step shows everything else.
THEOREM ChangesAreSeen == Spec => []NoChangePassesUnseen
  <1> DEFINE AllWatch == \A r \in Runs : Watches(r)
  <1>1. Init => AllWatch
    BY DEF Init, Watches, Locking
  <1>2. SessionInv /\ AllWatch /\ [Next]_vars => AllWatch'
    <2> SUFFICES ASSUME SessionInv, AllWatch, [Next]_vars
                 PROVE  AllWatch'
      OBVIOUS
    <2>1. CASE UNCHANGED vars
      BY <2>1 DEF vars, Watches
    <2>2. CASE OtherWriter
      BY <2>2, OthersWatched DEF SessionInv
    <2>3. ASSUME NEW r \in Runs, Step(r)
          PROVE  AllWatch'
      BY <2>3, WatchStep
    <2>4. QED
      BY <2>1, <2>2, <2>3 DEF Next, Step
  <1>3. AllWatch => NoChangePassesUnseen
    BY DEF NoChangePassesUnseen, Watches
  <1> HIDE DEF AllWatch
  <1>4. QED
    BY SessionInvariant, <1>1, <1>2, <1>3, PTL DEF Spec

-----------------------------------------------------------------------------
(* How a history grows *)

\* A response asks for calls no run and no stored history has asked for.
LEMMA AskFacts ==
  ASSUME TypeInv, NEW r \in Runs, Ask(r)
  PROVE  \E calls \in SUBSET CallIds :
           /\ pc[r] = "thinking" /\ pc'[r] = "calling"
           /\ history[r] \in History /\ history'[r] \in History
           /\ history'[r].base = history[r].base
           /\ history'[r].asked = history[r].asked \cup calls
           /\ history'[r].returns = history[r].returns
           /\ \A q \in Runs : history[q] # None => calls \cap history[q].asked = {}
           /\ \A k \in checkpoints : calls \cap k.history.asked = {}
           /\ UNCHANGED <<log, request, file, received, current, job, checkpoints,
                          results, effects>>
  <1>1. PICK calls \in SUBSET CallIds :
          /\ \A q \in Runs : history[q] # None => calls \cap history[q].asked = {}
          /\ \A k \in checkpoints : calls \cap k.history.asked = {}
          /\ history' = [history EXCEPT ![r].asked = @ \cup calls]
    BY DEF Ask
  <1>2. /\ pc[r] = "thinking" /\ pc'[r] = "calling"
        /\ UNCHANGED <<log, request, file, received, current, job, checkpoints,
                       results, effects>>
    BY DEF Ask, Goto, TypeInv, TypeOK
  <1>3. history[r] \in History
    BY <1>2 DEF TypeInv, Shape, ShapeOf, HasHistory, Working, Owning, Reconciling
  <1>4. history'[r] = [history[r] EXCEPT !.asked = @ \cup calls]
    BY <1>1 DEF TypeInv, TypeOK
  <1>5. /\ history'[r] \in History /\ history'[r].base = history[r].base
        /\ history'[r].asked = history[r].asked \cup calls
        /\ history'[r].returns = history[r].returns
    BY <1>3, <1>4 DEF History
  <1>6. QED
    BY <1>1, <1>2, <1>3, <1>5

\* A result joins what was received, and the history once every call has one.
LEMMA SaveFacts ==
  ASSUME TypeInv, NEW r \in Runs, SaveResult(r)
  PROVE  /\ pc[r] = "settled" /\ history[r] \in History /\ history'[r] \in History
         /\ history'[r].base = history[r].base
         /\ history'[r].asked = history[r].asked
         /\ \/ /\ Unreturned(history[r]) \subseteq {a.call : a \in Got(r)}
               /\ history'[r].returns = history[r].returns \cup Got(r)
               /\ received'[r] = {} /\ pc'[r] = "thinking"
            \/ /\ history'[r] = history[r]
               /\ received'[r] = Got(r) /\ pc'[r] = "calling"
  <1>1. pc[r] = "settled" /\ pc[r] \in Calling
    BY DEF SaveResult, Calling
  <1>2. history[r] \in History
    BY <1>1, CallAtHand
  <1>3. /\ Got(r) \subseteq Return
    <2>1. job[r] \in Job /\ job[r].call \in CallIds /\ job[r].op \in Operations
      BY <1>1, CallAtHand DEF TypeInv, Shape, ShapeOf, HasJob
    <2>2. QED
      BY <2>1 DEF Got, Return, Job, TypeInv, TypeOK
  <1>4. CASE /\ Unreturned(history[r]) \subseteq {a.call : a \in Got(r)}
             /\ history' = [history EXCEPT ![r].returns = @ \cup Got(r)]
             /\ received' = [received EXCEPT ![r] = {}]
             /\ pc' = [pc EXCEPT ![r] = "thinking"]
    <2>1. history'[r] = [history[r] EXCEPT !.returns = @ \cup Got(r)]
      BY <1>4 DEF TypeInv, TypeOK
    <2>2. /\ history'[r] \in History /\ history'[r].base = history[r].base
          /\ history'[r].asked = history[r].asked
          /\ history'[r].returns = history[r].returns \cup Got(r)
      BY <1>2, <1>3, <2>1 DEF History
    <2>3. received'[r] = {} /\ pc'[r] = "thinking"
      BY <1>4 DEF TypeInv, TypeOK
    <2>4. QED
      BY <1>1, <1>2, <1>4, <2>2, <2>3
  <1>5. CASE /\ history' = history
             /\ received' = [received EXCEPT ![r] = Got(r)]
             /\ pc' = [pc EXCEPT ![r] = "calling"]
    BY <1>1, <1>2, <1>5 DEF TypeInv, TypeOK
  <1>6. QED
    BY <1>4, <1>5, SaveResultCases

\* Which steps change the history of a run that has one.
LEMMA HistorySteps ==
  ASSUME TypeInv, NEW r \in Runs, Step(r), history[r] # None
  PROVE  /\ pc[r] \notin {"new"} \cup Reconciling
         /\ history'[r] = history[r] \/ Ask(r) \/ SaveResult(r)
  <1>1. pc[r] \notin {"new"} \cup Reconciling
    BY DEF TypeInv, Shape, ShapeOf, HasHistory
  <1>2. history'[r] = history[r] \/ Ask(r) \/ SaveResult(r)
    BY <1>1 DEF Step, Reconciling, StartFresh, PrepareResume, Recover, StartPrepared,
       PretoolCheckpoint, SaveComplete, LockTarget, BeginWrite, CheckTarget, Replace,
       FinishWrite, BeginProcess, RunProcess, FinishProcess, ProcessRaises,
       ObserveTarget, ConfirmTarget, RecordVerdict, Stop
  <1>3. QED
    BY <1>1, <1>2

LEMMA HistoryGrows ==
  ASSUME TypeInv, NEW r \in Runs, Step(r), history[r] # None
  PROVE  /\ history[r] \in History /\ history'[r] \in History
         /\ history'[r].base = history[r].base
         /\ history[r].asked \subseteq history'[r].asked
         /\ history[r].returns \subseteq history'[r].returns
  <1>1. history[r] \in History
    BY DEF TypeInv, TypeOK
  <1>2. QED
    BY <1>1, HistorySteps, AskFacts, SaveFacts

-----------------------------------------------------------------------------
(* Every call in the journal was asked for by the run that began it *)

LEMMA CallsAskedStep ==
  ASSUME SessionInv, CallsAsked, NEW r \in Runs, Step(r)
  PROVE  CallsAsked'
  <1>1. ASSUME NEW q \in Runs, history[q] \in History
        PROVE  history'[q] \in History /\ history[q].asked \subseteq history'[q].asked
    <2>1. CASE q = r
      BY <1>1, <2>1, HistoryGrows, NoneAssumption DEF SessionInv
    <2>2. CASE q # r
      BY <1>1, <2>2, StepsAlone DEF SessionInv, TypeInv, Alone
    <2>3. QED
      BY <2>1, <2>2
  <1>2. CASE log' = log
    BY <1>1, <1>2 DEF CallsAsked
  <1>3. CASE Begins(r)
    <2>1. PICK rec \in Record :
            /\ rec.call = <<r, job[r].call>> /\ log' = Append(log, rec)
            /\ pc[r] \in {"ready", "locked"}
      BY <1>3, BeginFacts DEF SessionInv
    <2>2. history[r] \in History /\ job[r].call \in history[r].asked
      BY <2>1, CallAtHand DEF SessionInv, Calling
    <2>3. \A q \in Runs, c \in CallIds :
            rec.call = <<q, c>> => history[q] \in History /\ c \in history[q].asked
      BY <2>1, <2>2
    <2>4. QED
      BY <1>1, <2>1, <2>3, IntentsStay DEF CallsAsked, SessionInv
  <1>4. CASE Reports(r)
    <2>1. PICK rec \in Record : rec.type = "outcome" /\ log' = Append(log, rec)
      BY <1>4, ReportFacts DEF SessionInv
    <2>2. QED
      BY <1>1, <2>1, IntentsStay DEF CallsAsked, SessionInv
  <1>5. QED
    BY <1>2, <1>3, <1>4, QuietOrAppends

\* Every step that leaves a run working.
LEMMA WorkingMoves ==
  ASSUME TypeInv, NEW r \in Runs, Step(r), pc'[r] \in Working
  PROVE  \/ StartFresh(r) \/ StartPrepared(r) \/ Ask(r) \/ SaveResult(r)
         \/ Begins(r) \/ Reports(r)
         \/ PretoolCheckpoint(r) \/ SaveComplete(r) \/ LockTarget(r)
         \/ CheckTarget(r) \/ Replace(r) \/ RunProcess(r)
  BY DEF Step, TypeInv, TypeOK, Goto, Working, Owning, Reconciling, Begins, Reports,
     PrepareResume, Recover, ObserveTarget, ConfirmTarget, Stop

\* How a run comes to work on a history, and goes on working on it.
LEMMA WorkingSteps ==
  ASSUME TypeInv, NEW r \in Runs, Step(r), pc'[r] \in Working
  PROVE  \/ StartFresh(r) \/ StartPrepared(r) \/ Ask(r) \/ SaveResult(r)
         \/ pc[r] \in Working /\ history'[r] = history[r]
  <1>1. CASE Begins(r)
    BY <1>1 DEF Begins, BeginWrite, BeginProcess, Working, Owning, Reconciling
  <1>2. CASE Reports(r)
    <2>1. pc'[r] = "settled"
      BY <1>2, ReportFacts DEF Working, Owning
    <2>2. QED
      BY <1>2, <2>1, ReportFacts DEF Working, Owning, Reconciling
  <1>3. CASE \/ PretoolCheckpoint(r) \/ SaveComplete(r) \/ LockTarget(r)
             \/ CheckTarget(r) \/ Replace(r) \/ RunProcess(r)
    BY <1>3 DEF PretoolCheckpoint, SaveComplete, LockTarget, CheckTarget, Replace,
       RunProcess, Working, Owning, Reconciling
  <1>4. QED
    BY <1>1, <1>2, <1>3, WorkingMoves

\* Beside an owner the others can only stop.
LEMMA BesideOwner ==
  ASSUME NEW r \in Runs, Step(r), pc[r] \notin Owning, ~SessionFree
  PROVE  Stop(r)
  BY DEF Step, Owning, StartFresh, PrepareResume, Recover, StartPrepared, Ask,
     PretoolCheckpoint, SaveComplete, LockTarget, BeginWrite, CheckTarget, Replace,
     FinishWrite, BeginProcess, RunProcess, FinishProcess, ProcessRaises, SaveResult,
     ObserveTarget, ConfirmTarget, RecordVerdict

\* A history taken up again has no call left open.
TakenUpWhole == \A k \in checkpoints :
  k.state = "complete" => k.history.asked = Returned(k.history)

LEMMA OwnCallsStep ==
  ASSUME SessionInv, OwnCalls, TakenUpWhole, NEW r \in Runs, Step(r)
  PROVE  OwnCalls'
  <1> SUFFICES ASSUME NEW q \in Runs, pc'[q] \in Working,
                      NEW p \in Runs \ {q}, history'[p] # None
               PROVE  Unreturned(history'[q]) \cap history'[p].asked = {}
    BY DEF OwnCalls, Unreturned, Returned
  <1>1. CASE q # r
    <2>1. pc[q] \in Working /\ history'[q] = history[q]
      BY <1>1, StepsAlone DEF SessionInv, TypeInv, Alone
    <2>2. pc[r] \notin Owning /\ ~SessionFree
      BY <1>1, <2>1, OthersOut DEF SessionInv, Working, SessionFree
    <2>3. history' = history
      BY <2>2, BesideOwner DEF Stop
    <2>4. QED
      BY <2>1, <2>3 DEF OwnCalls
  <1>2. CASE q = r
    <2>1. history'[p] = history[p]
      BY <1>2, StepsAlone DEF SessionInv, TypeInv, Alone
    <2>2. CASE StartFresh(r)
      <3>1. history'[r].asked = {}
        BY <2>2 DEF StartFresh, SessionInv, TypeInv, TypeOK
      <3>2. QED
        BY <1>2, <3>1 DEF Unreturned
    <2>3. CASE StartPrepared(r)
      <3>1. /\ pc[r] = "prepared" /\ current[r].state = "complete" /\ history' = history
        BY <2>3 DEF StartPrepared, Resumable
      <3>2. current[r] \in checkpoints /\ history[r] = current[r].history
        BY <3>1 DEF SessionInv, TypeInv, Shape, ShapeOf, HasReturns
      <3>3. Unreturned(history[r]) = {}
        BY <3>1, <3>2 DEF TakenUpWhole, Unreturned
      <3>4. QED
        BY <1>2, <3>1, <3>3
    <2>4. CASE Ask(r)
      <3>1. PICK calls \in SUBSET CallIds :
              /\ pc[r] = "thinking"
              /\ history'[r].asked = history[r].asked \cup calls
              /\ history'[r].returns = history[r].returns
              /\ \A s \in Runs : history[s] # None => calls \cap history[s].asked = {}
        BY <2>4, AskFacts DEF SessionInv
      <3>2. Unreturned(history'[r]) \subseteq Unreturned(history[r]) \cup calls
        BY <3>1 DEF Unreturned, Returned
      <3>3. Unreturned(history[r]) \cap history[p].asked = {}
        BY <1>2, <2>1, <3>1 DEF OwnCalls, Working, Owning, Reconciling
      <3>4. QED
        BY <1>2, <2>1, <3>1, <3>2, <3>3
    <2>5. CASE SaveResult(r)
      <3>1. /\ pc[r] = "settled" /\ history'[r].asked = history[r].asked
            /\ history[r].returns \subseteq history'[r].returns
        BY <2>5, SaveFacts DEF SessionInv
      <3>2. Unreturned(history'[r]) \subseteq Unreturned(history[r])
        BY <3>1 DEF Unreturned, Returned
      <3>3. Unreturned(history[r]) \cap history[p].asked = {}
        BY <1>2, <2>1, <3>1 DEF OwnCalls, Working, Owning, Reconciling
      <3>4. QED
        BY <1>2, <2>1, <3>2, <3>3
    <2>6. CASE pc[r] \in Working /\ history'[r] = history[r]
      BY <1>2, <2>1, <2>6 DEF OwnCalls
    <2>7. QED
      BY <1>2, <2>2, <2>3, <2>4, <2>5, <2>6, WorkingSteps DEF SessionInv
  <1>3. QED
    BY <1>1, <1>2

-----------------------------------------------------------------------------
(* No effect without an intent, none twice, and none claimed in vain *)

\* A call that is begun has had no effect.
LEMMA FreshHasNoEffect ==
  ASSUME SessionInv, EffectInv, NEW r \in Runs, Begins(r)
  PROVE  effects[job[r].call] = 0
  <1>1. PICK rec \in Record :
          /\ rec.call = <<r, job[r].call>> /\ pc[r] \in {"ready", "locked"}
          /\ \A i \in Intents(log) : log[i].call # rec.call
    BY BeginFacts DEF SessionInv
  <1>2. /\ pc[r] \in Working /\ job[r].call \in CallIds
        /\ job[r].call \in Unreturned(history[r])
    BY <1>1, CallAtHand
    DEF SessionInv, TypeInv, Shape, ShapeOf, HasJob, Calling, Working, Owning, Reconciling
  <1>3. ASSUME NEW i \in Intents(log), log[i].call[2] = job[r].call
        PROVE  FALSE
    <2>1. PICK q \in Runs : log[i].call = <<q, job[r].call>>
      BY <1>3, SessionAssumption DEF SessionInv, LogInv
    <2>2. history[q] \in History /\ job[r].call \in history[q].asked
      BY <1>2, <2>1 DEF EffectInv, CallsAsked
    <2>3. q # r
      BY <1>1, <2>1
    <2>4. history[q] # None
      BY <2>2, NoneAssumption
    <2>5. QED
      BY <1>2, <2>2, <2>3, <2>4 DEF EffectInv, OwnCalls
  <1>4. QED
    BY <1>2, <1>3 DEF EffectInv, EffectsRecorded

\* Where a run's operation has had no effect yet, or has had one, and how it
\* comes there.
LEMMA BeforeEffect ==
  ASSUME TypeInv, NEW r \in Runs, Step(r), pc'[r] \in {"begun", "checked", "process"}
  PROVE  Begins(r) \/ CheckTarget(r)
  BY DEF Step, Begins, TypeInv, TypeOK, Goto, NextPhase, StartFresh, PrepareResume,
     Recover, StartPrepared, Ask, PretoolCheckpoint, SaveComplete, LockTarget,
     CheckTarget, Replace, FinishWrite, RunProcess, FinishProcess, ProcessRaises,
     SaveResult, ObserveTarget, ConfirmTarget, RecordVerdict, Stop

LEMMA AfterEffect ==
  ASSUME TypeInv, NEW r \in Runs, Step(r), pc'[r] \in {"replaced", "exited"}
  PROVE  Replace(r) \/ RunProcess(r)
  BY DEF Step, TypeInv, TypeOK, Goto, NextPhase, StartFresh, PrepareResume, Recover,
     StartPrepared, Ask, PretoolCheckpoint, SaveComplete, LockTarget, BeginWrite,
     CheckTarget, Replace, FinishWrite, BeginProcess, RunProcess, FinishProcess,
     ProcessRaises, SaveResult, ObserveTarget, ConfirmTarget, RecordVerdict, Stop

LEMMA EffectsRecordedStep ==
  ASSUME SessionInv, EffectInv, NEW r \in Runs, Step(r)
  PROVE  EffectsRecorded'
  <1>1. \A i \in Intents(log) : i \in Intents(log') /\ log'[i] = log[i]
    BY QuietOrAppends, BeginFacts, ReportFacts, IntentsStay DEF SessionInv
  <1>2. ASSUME NEW c \in CallIds, effects'[c] # 0
        PROVE  \E i \in Intents(log') : log'[i].call[2] = c
    <2>1. \E i \in Intents(log) : log[i].call[2] = c
      <3>1. CASE effects[c] # 0
        BY <3>1 DEF EffectInv, EffectsRecorded
      <3>2. CASE effects'[c] # effects[c]
        BY <3>2, EffectUnderIntent DEF Next, Step
      <3>3. QED
        BY <1>2, <3>1, <3>2
    <2>2. QED
      BY <1>1, <2>1
  <1>3. ASSUME NEW q \in Runs \ {r}, pc'[q] \in Recorded
        PROVE  /\ pc[q] = pc'[q] /\ job[q] = job'[q] /\ effects' = effects
    <2>1. pc[q] = pc'[q] /\ job[q] = job'[q]
      BY StepsAlone DEF SessionInv, TypeInv, Alone
    <2>2. pc[r] \notin Owning
      BY <1>3, <2>1, OthersOut DEF SessionInv, Recorded, Owning
    <2>3. effects' = effects
      BY <2>2, EffectsOnly DEF Owning, Replace, RunProcess
    <2>4. QED
      BY <2>1, <2>3
  <1>4. ASSUME pc'[r] \in {"begun", "checked", "process"}
        PROVE  effects'[job'[r].call] = 0
    <2>1. CASE Begins(r)
      <3>1. job'[r].call = job[r].call /\ effects' = effects
        BY <2>1, BeginFacts DEF SessionInv
      <3>2. QED
        BY <2>1, <3>1, FreshHasNoEffect
    <2>2. CASE CheckTarget(r)
      <3>1. pc[r] = "begun" /\ effects' = effects
        BY <2>2 DEF CheckTarget
      <3>2. job'[r].call = job[r].call
        <4>1. job[r] \in Job /\ job' = [job EXCEPT ![r].touched = {}]
          BY <2>2, <3>1, CallAtHand DEF CheckTarget, SessionInv, Calling, Recorded
        <4>2. QED
          BY <4>1 DEF Job, SessionInv, TypeInv, TypeOK
      <3>3. QED
        BY <3>1, <3>2 DEF EffectInv, EffectsRecorded
    <2>3. QED
      BY <1>4, <2>1, <2>2, BeforeEffect DEF SessionInv
  <1>5. ASSUME pc'[r] \in {"replaced", "exited"}
        PROVE  effects'[job'[r].call] = 1
    <2>1. /\ pc[r] \in {"checked", "process"} /\ job' = job
          /\ effects'[job[r].call] = effects[job[r].call] + 1
      BY <1>5, AfterEffect, EffectSteps DEF SessionInv
    <2>2. QED
      BY <2>1 DEF EffectInv, EffectsRecorded
  <1>6. QED
    BY <1>2, <1>3, <1>4, <1>5 DEF EffectInv, EffectsRecorded, Recorded

\* An effect takes a call from no effect to one.
LEMMA EffectOnce ==
  ASSUME SessionInv, EffectInv, NEW r \in Runs, Step(r), NEW c \in CallIds,
         effects'[c] # effects[c]
  PROVE  effects[c] = 0 /\ effects'[c] = 1
  <1>1. Replace(r) \/ RunProcess(r)
    BY EffectsOnly
  <1>2. /\ pc[r] \in {"checked", "process"} /\ c = job[r].call
        /\ effects'[c] = effects[c] + 1
    BY <1>1, EffectSteps DEF SessionInv
  <1>3. QED
    BY <1>2 DEF EffectInv, EffectsRecorded

LEMMA AtMostOnceStep ==
  ASSUME SessionInv, EffectInv, NEW r \in Runs, Step(r)
  PROVE  AtMostOnce'
  <1> SUFFICES ASSUME NEW c \in CallIds
               PROVE  effects'[c] =< 1
    BY DEF AtMostOnce
  <1>1. CASE effects'[c] = effects[c]
    BY <1>1 DEF EffectInv, AtMostOnce
  <1>2. CASE effects'[c] # effects[c]
    BY <1>2, EffectOnce
  <1>3. QED
    BY <1>1, <1>2

LEMMA SuccessStep ==
  ASSUME SessionInv, EffectInv, NEW r \in Runs, Step(r)
  PROVE  UnreconciledSuccessHappened'
  <1>1. ASSUME NEW i \in Intents(log), effects[log[i].call[2]] = 1
        PROVE  effects'[log[i].call[2]] = 1
    <2>1. log[i].call[2] \in CallIds
      BY SessionAssumption DEF SessionInv, LogInv
    <2>2. QED
      BY <1>1, <2>1, EffectOnce
  <1>2. CASE log' = log
    BY <1>1, <1>2 DEF EffectInv, UnreconciledSuccessHappened
  <1>3. CASE Begins(r)
    <2>1. PICK rec \in Record : rec.type = "intent" /\ log' = Append(log, rec)
      BY <1>3, BeginFacts DEF SessionInv
    <2>2. BegunOnce(log')
      BY <1>3, LogStep DEF SessionInv, LogInv, Coherent
    <2>3. OutcomesIn(log') = OutcomesIn(log)
      BY <2>1, IntentsStay DEF SessionInv
    <2>4. ASSUME NEW i \in OutcomesIn(log'), NEW j \in Intents(log'),
                 log'[j].op = log'[i].op
          PROVE  j \in Intents(log) /\ log'[j] = log[j] /\ log'[i] = log[i]
      <3>1. i \in OutcomesIn(log) /\ log'[i] = log[i]
        BY <2>1, <2>3, IntentsStay DEF SessionInv
      <3>2. PICK l \in Intents(log) : log[l].op = log[i].op
        BY <3>1 DEF SessionInv, LogInv, Coherent, OutcomeFollows
      <3>3. l \in Intents(log') /\ log'[l] = log[l]
        BY <2>1, <3>2, IntentsStay DEF SessionInv
      <3>4. j = l
        BY <2>2, <2>4, <3>1, <3>2, <3>3 DEF BegunOnce
      <3>5. QED
        BY <3>1, <3>2, <3>3, <3>4
    <2>5. QED
      BY <1>1, <2>3, <2>4 DEF EffectInv, UnreconciledSuccessHappened
  <1>4. CASE Reports(r)
    <2>1. PICK rec \in Record :
            /\ rec.type = "outcome" /\ rec.op = job[r].op
            /\ log' = Append(log, rec)
            /\ rec.reconciled \/ rec.outcome = "uncertain" \/ rec.outcome = "cancelled"
                 \/ pc[r] \in {"replaced", "exited"}
      BY <1>4, ReportFacts DEF SessionInv
    <2>2. Intents(log') = Intents(log) /\ \A i \in Intents(log) : log'[i] = log[i]
      BY <2>1, IntentsStay DEF SessionInv
    <2>3. ASSUME ~rec.reconciled, rec.outcome \in {"applied", "completed"},
                 NEW j \in Intents(log), log[j].op = rec.op
          PROVE  effects[log[j].call[2]] = 1
      <3>1. pc[r] \in {"replaced", "exited"}
        BY <2>1, <2>3
      <3>2. PICK l \in Intents(log) :
              log[l].op = job[r].op /\ log[l].call = <<r, job[r].call>>
        BY <3>1 DEF SessionInv, OpenInv, BegunFor, Recorded
      <3>3. j = l
        BY <2>1, <2>3, <3>2 DEF SessionInv, LogInv, Coherent, BegunOnce
      <3>4. QED
        BY <3>1, <3>2, <3>3 DEF EffectInv, EffectsRecorded
    <2>4. ASSUME NEW i \in OutcomesIn(log')
          PROVE  (i \in OutcomesIn(log) /\ log'[i] = log[i]) \/ log'[i] = rec
      BY <2>1, IntentsStay DEF SessionInv
    <2>5. ASSUME NEW i \in OutcomesIn(log'), ~log'[i].reconciled,
                 log'[i].outcome \in {"applied", "completed"},
                 NEW j \in Intents(log'), log'[j].op = log'[i].op
          PROVE  effects[log'[j].call[2]] = 1
      BY <2>2, <2>3, <2>4, <2>5 DEF EffectInv, UnreconciledSuccessHappened
    <2>6. QED
      BY <1>1, <2>2, <2>5 DEF UnreconciledSuccessHappened
  <1>5. QED
    BY <1>2, <1>3, <1>4, QuietOrAppends

-----------------------------------------------------------------------------
(* What is stored stays true *)

\* An intent appended to the journal is the only thing that adds to a span.
LEMMA SpanGrows ==
  ASSUME TypeInv, NEW rec \in Record, log' = Append(log, rec), NEW b \in Nat
  PROVE  /\ b =< Len(log) /\ rec.type = "intent" =>
              Span(b, Len(log))' = Span(b, Len(log)) \cup {rec.op}
         /\ rec.type # "intent" => Span(b, Len(log))' = Span(b, Len(log))
         /\ \A n \in 0..Len(log) : Span(b, n)' = Span(b, n)
  <1>1. /\ Intents(log) \subseteq Intents(log')
        /\ \A i \in Intents(log) : log'[i] = log[i]
        /\ \A i \in Intents(log') \ Intents(log) :
             i = Len(log) + 1 /\ log'[i] = rec /\ rec.type = "intent"
        /\ Len(log') = Len(log) + 1 /\ Len(log) \in Nat
        /\ Intents(log) \subseteq 1..Len(log)
        /\ rec.type = "intent" => Len(log) + 1 \in Intents(log')
        /\ log'[Len(log) + 1] = rec
    BY IntentsStay
  <1>2. ASSUME b =< Len(log), rec.type = "intent"
        PROVE  Span(b, Len(log))' = Span(b, Len(log)) \cup {rec.op}
    <2>1. Span(b, Len(log))' \subseteq Span(b, Len(log)) \cup {rec.op}
      BY <1>1 DEF Span
    <2>2. rec.op \in Span(b, Len(log))'
      BY <1>1, <1>2 DEF Span
    <2>3. Span(b, Len(log)) \subseteq Span(b, Len(log))'
      BY <1>1 DEF Span
    <2>4. QED
      BY <2>1, <2>2, <2>3
  <1>3. ASSUME rec.type # "intent"
        PROVE  Span(b, Len(log))' = Span(b, Len(log))
    BY <1>1, <1>3 DEF Span
  <1>4. ASSUME NEW n \in 0..Len(log)
        PROVE  Span(b, n)' = Span(b, n)
    <2>1. {j \in Intents(log') : b < j /\ j =< n} = {j \in Intents(log) : b < j /\ j =< n}
      BY <1>1
    <2>2. QED
      BY <1>1, <2>1 DEF Span
  <1>5. QED
    BY <1>2, <1>3, <1>4

LEMMA ToldStays ==
  ASSUME TypeInv, NEW rec \in Record, log' = Append(log, rec), NEW returns,
         ToldTrue(returns)
  PROVE  ToldTrue(returns)'
  <1>1. ASSUME NEW a \in returns
        PROVE  Tells(log', a.op, a.outcome)
    BY <1>1, TellsGrows DEF ToldTrue, TypeInv, TypeOK
  <1>2. QED
    BY <1>1 DEF ToldTrue, Tells

LEMMA StoredStays ==
  ASSUME TypeInv, NEW rec \in Record, log' = Append(log, rec), NEW k \in checkpoints,
         Stored(k)
  PROVE  Stored(k)'
  <1>1. /\ k.history \in History /\ k.history.base \in Nat /\ k.frontier \in Nat
        /\ k.frontier =< Len(log) /\ Len(log) \in Nat /\ Len(log') = Len(log) + 1
    BY IntentsStay DEF TypeInv, TypeOK, Checkpoint, History, Stored
  <1>2. ToldTrue(k.history.returns)'
    BY ToldStays DEF Stored
  <1>3. /\ \A i \in Intents(log') : i =< k.frontier =>
             i \in Intents(log) /\ log'[i] = log[i]
        /\ Span(k.history.base, k.frontier)' = Span(k.history.base, k.frontier)
    BY <1>1, IntentsStay, SpanGrows
  <1>4. SubSeq(log', 1, k.frontier) = SubSeq(log, 1, k.frontier)
    BY <1>1 DEF TypeInv, TypeOK
  <1>5. k.state = "complete" => Exact(k)'
    <2> SUFFICES ASSUME Exact(k) PROVE Exact(k)'
      BY DEF Stored
    <2>1. Open(SubSeq(log', 1, k.frontier)) = {}
      BY <1>4 DEF Exact
    <2>2. QED
      BY <1>3, <2>1 DEF Exact
  <1>6. k.state = "interrupted" => Partial(k)'
    <2> SUFFICES ASSUME Partial(k) PROVE Partial(k)'
      BY DEF Stored
    <2>1. OpsOf(k.history.returns) \subseteq Span(k.history.base, k.frontier)'
      BY <1>3 DEF Partial
    <2>2. ASSUME NEW i \in Intents(log'), k.history.base < i, i =< k.frontier
          PROVE  \/ log'[i].op \in OpsOf(k.history.returns)
                 \/ \E c \in Unreturned(k.history) : log'[i].call = <<k.run, c>>
      BY <1>3, <2>2 DEF Partial
    <2>3. QED
      BY <2>1, <2>2 DEF Partial
  <1>7. QED
    BY <1>1, <1>2, <1>5, <1>6 DEF Stored

LEMMA StoredSame ==
  ASSUME log' = log, NEW k, Stored(k)
  PROVE  Stored(k)'
  <1>1. Exact(k) => Exact(k)'
    BY DEF Exact, Span
  <1>2. Partial(k) => Partial(k)'
    BY DEF Partial, Span
  <1>3. ToldTrue(k.history.returns) => ToldTrue(k.history.returns)'
    BY DEF ToldTrue, Tells
  <1>4. QED
    BY <1>1, <1>2, <1>3 DEF Stored

-----------------------------------------------------------------------------
(* What a run saves *)

LEMMA WorkerAccounts ==
  ASSUME SessionInv, HistoriesInv, NEW r \in Runs, pc[r] \in Working
  PROVE  /\ Accounts(r) /\ history[r] \in History /\ Len(log) \in Nat
         /\ CheckpointOf(r, "complete") \in Checkpoint
         /\ CheckpointOf(r, "interrupted") \in Checkpoint
  <1>1. Accounts(r) /\ history[r] \in History /\ Len(log) \in Nat
    BY DEF HistoriesInv, SessionInv, TypeInv, TypeOK, Shape, ShapeOf, HasHistory
  <1>2. QED
    BY <1>1 DEF CheckpointOf, Checkpoint

\* A complete checkpoint is saved between responses, with nothing open.
LEMMA CompleteStored ==
  ASSUME SessionInv, HistoriesInv, NEW r \in Runs, SaveComplete(r)
  PROVE  Stored(CheckpointOf(r, "complete"))
  <1> DEFINE k == CheckpointOf(r, "complete")
  <1>1. pc[r] = "thinking" /\ pc[r] \in Working /\ Open(log) = {}
    BY DEF SaveComplete, Save, MaySave, Dispatchable, Working, Owning, Reconciling
  <1>2. /\ k.history = history[r] /\ k.frontier = Len(log) /\ k.run = r
        /\ k.state = "complete"
    BY DEF CheckpointOf
  <1> HIDE DEF k
  <1>3. Accounts(r) /\ history[r] \in History /\ Len(log) \in Nat
    BY <1>1, WorkerAccounts
  <1>4. received[r] = {} /\ Busy(r) = {}
    BY <1>1 DEF Busy, Recorded, SessionInv, TypeInv, Shape, ShapeOf, HasReturns
  <1>5. SubSeq(log, 1, Len(log)) = log
    BY DEF SessionInv, TypeInv, TypeOK
  <1>6. Open(SubSeq(log, 1, k.frontier)) = {}
    BY <1>1, <1>2, <1>5
  <1>7. Span(k.history.base, k.frontier) = OpsOf(k.history.returns)
    BY <1>2, <1>3, <1>4 DEF Accounts, OpsOf
  <1>8. Exact(k)
    BY <1>1, <1>2, <1>3, <1>6, <1>7 DEF Exact, Accounts
  <1>9. Stored(k)
    BY <1>2, <1>3, <1>8 DEF Stored, Accounts
  <1>10. QED
    BY <1>9 DEF k

\* An interrupted one is saved while results of the response are missing.
LEMMA InterruptedStored ==
  ASSUME SessionInv, HistoriesInv, NEW r \in Runs, PretoolCheckpoint(r)
  PROVE  Stored(CheckpointOf(r, "interrupted"))
  <1> DEFINE k == CheckpointOf(r, "interrupted")
  <1>1. pc[r] = "calling" /\ pc[r] \in Working /\ Busy(r) = {}
    BY DEF PretoolCheckpoint, Working, Owning, Reconciling, Busy, Recorded
  <1>2. /\ k.history = history[r] /\ k.frontier = Len(log) /\ k.run = r
        /\ k.state = "interrupted"
    BY DEF CheckpointOf
  <1> HIDE DEF k
  <1>3. Accounts(r) /\ history[r] \in History /\ Len(log) \in Nat
    BY <1>1, WorkerAccounts
  <1>4. OpsOf(k.history.returns) \subseteq Span(k.history.base, k.frontier)
    BY <1>2, <1>3 DEF Accounts
  <1>5. ASSUME NEW i \in Intents(log), k.history.base < i, i =< k.frontier,
               log[i].op \notin OpsOf(k.history.returns)
        PROVE  \E c \in Unreturned(k.history) : log[i].call = <<k.run, c>>
    <2>1. log[i].op \in Span(history[r].base, Len(log))
      BY <1>2, <1>5 DEF Span
    <2>2. PICK a \in received[r] : a.op = log[i].op
      BY <1>1, <1>2, <1>3, <1>5, <2>1 DEF Accounts, OpsOf
    <2>3. PICK l \in Intents(log) : log[l].op = a.op /\ log[l].call = <<r, a.call>>
      BY <1>3, <2>2 DEF Accounts, BegunFor
    <2>4. i = l
      BY <2>2, <2>3 DEF SessionInv, LogInv, Coherent, BegunOnce
    <2>5. a.call \in Unreturned(history[r])
      BY <1>3, <2>2 DEF Accounts
    <2>6. QED
      BY <1>2, <2>3, <2>4, <2>5
  <1>6. Partial(k)
    BY <1>4, <1>5 DEF Partial
  <1>7. Stored(k)
    BY <1>2, <1>3, <1>6 DEF Stored, Accounts
  <1>8. QED
    BY <1>7 DEF k

-----------------------------------------------------------------------------
(* What recovery stores *)

\* The returns Recover adds are those of its receipts.
LEMMA ReconstructedParts ==
  ASSUME NEW k
  PROVE  /\ \A x \in Receipts(k) : \E a \in Reconstructed(k) :
              a.call = x.call[2] /\ a.op = x.op
         /\ \A a \in Reconstructed(k) : \E x \in Receipts(k) :
              a.call = x.call[2] /\ a.op = x.op
  <1>1. ASSUME NEW x \in Receipts(k)
        PROVE  \E a \in Reconstructed(k) : a.call = x.call[2] /\ a.op = x.op
    <2> DEFINE a == [call |-> x.call[2], op |-> x.op, outcome |-> x.outcome]
    <2>1. a \in Reconstructed(k) /\ a.call = x.call[2] /\ a.op = x.op
      BY DEF Reconstructed
    <2>2. QED
      BY <2>1
  <1>2. ASSUME NEW a \in Reconstructed(k)
        PROVE  \E x \in Receipts(k) : a.call = x.call[2] /\ a.op = x.op
    BY DEF Reconstructed
  <1>3. QED
    BY <1>1, <1>2

\* An operation with a return or a result before the frontier was not begun
\* after it, so the receipts leave nothing of the span unanswered.
LEMMA RecoveredSpan ==
  ASSUME SessionInv, HistoriesInv, NEW k \in checkpoints, Recoverable(k)
  PROVE  Span(k.history.base, Len(log)) =
           OpsOf(k.history.returns) \cup OpsOf(Reconstructed(k))
  <1>1. /\ k \in Checkpoint /\ k.history \in History /\ Stored(k)
        /\ k.history.base \in Nat /\ k.frontier \in Nat /\ Len(log) \in Nat
        /\ k.history.base =< k.frontier /\ k.frontier =< Len(log)
        /\ Intents(log) \subseteq 1..Len(log)
    BY DEF SessionInv, TypeInv, TypeOK, Checkpoint, History, HistoriesInv, Stored, Intents
  <1>2. k.state = "interrupted" /\ Partial(k)
    BY <1>1 DEF Recoverable, Stored
  <1>3. OpsOf(Reconstructed(k)) = Suffix(k)
    <2>1. OpsOf(Reconstructed(k)) = {x.op : x \in Receipts(k)}
      BY ReconstructedParts DEF OpsOf
    <2>2. \A o \in Suffix(k) : \E x \in results : x.op = o
      BY DEF Recoverable
    <2>3. QED
      BY <2>1, <2>2 DEF Receipts
  <1>4. Span(k.history.base, Len(log)) = Span(k.history.base, k.frontier) \cup Suffix(k)
    <2>1. {j \in Intents(log) : k.history.base < j /\ j =< Len(log)}
            = {j \in Intents(log) : k.history.base < j /\ j =< k.frontier}
              \cup {j \in Intents(log) : j > k.frontier}
      BY <1>1
    <2>2. QED
      BY <2>1 DEF Span, Suffix
  <1>5. ASSUME NEW i \in Intents(log), k.history.base < i, i =< k.frontier
        PROVE  log[i].op \in OpsOf(k.history.returns)
    <2> SUFFICES ASSUME log[i].op \notin OpsOf(k.history.returns)
                 PROVE  FALSE
      OBVIOUS
    <2>1. PICK c \in Unreturned(k.history) : log[i].call = <<k.run, c>>
      BY <1>2, <1>5 DEF Partial
    <2>2. PICK x \in Receipts(k) : x.call[2] = c
      BY <2>1 DEF Recoverable, AnswersExactly
    <2>3. x \in results /\ x.op \in Suffix(k) /\ x.call[1] = k.run
      BY <2>2 DEF Receipts, Recoverable
    <2>4. x.call = <<k.run, c>>
      <3>1. x.call \in Runs \X CallIds
        BY <2>3, SessionAssumption DEF SessionInv, TypeInv, TypeOK, Result
      <3>2. QED
        BY <2>2, <2>3, <3>1
    <2>5. PICK l \in Intents(log) : log[l].op = x.op /\ log[l].call = x.call
      BY <2>3 DEF HistoriesInv, ResultsInv
    <2>6. l = i
      BY <2>1, <2>4, <2>5 DEF SessionInv, LogInv
    <2>7. PICK j \in Intents(log) : j > k.frontier /\ log[j].op = x.op
      BY <2>3 DEF Suffix
    <2>8. j = l
      BY <2>5, <2>7 DEF SessionInv, LogInv, Coherent, BegunOnce
    <2>9. QED
      BY <1>1, <1>5, <2>6, <2>7, <2>8
  <1>6. Span(k.history.base, k.frontier) = OpsOf(k.history.returns)
    <2>1. Span(k.history.base, k.frontier) \subseteq OpsOf(k.history.returns)
      BY <1>5 DEF Span
    <2>2. QED
      BY <1>2, <2>1 DEF Partial
  <1>7. QED
    BY <1>3, <1>4, <1>6

\* A receipt reports its operation as the journal settled it.
LEMMA RecoveredTold ==
  ASSUME SessionInv, NEW k \in checkpoints, Recoverable(k)
  PROVE  ToldTrue(Reconstructed(k))
  <1> SUFFICES ASSUME NEW x \in Receipts(k)
               PROVE  x.outcome # "uncertain" /\ Tells(log, x.op, x.outcome)
    BY DEF ToldTrue, Reconstructed
  <1>1. x.outcome = SettledAs(log, x.op)
    BY DEF Recoverable
  <1>2. x.op \in Settled(log)
    BY DEF Receipts, Suffix, Recoverable, Dispatchable, Open, Begun
  <1>3. QED
    BY <1>1, <1>2, SettledIsTold DEF SessionInv, TypeInv, TypeOK, LogInv

LEMMA RecoveredStored ==
  ASSUME SessionInv, HistoriesInv, NEW k \in checkpoints, Recoverable(k)
  PROVE  Stored(Recovered(k))
  <1> DEFINE new == Recovered(k)
  <1>1. /\ new.state = "complete" /\ new.frontier = Len(log)
        /\ new.history.base = k.history.base
        /\ new.history.asked = k.history.asked
        /\ new.history.returns = k.history.returns \cup Reconstructed(k)
    BY RecoveredFields DEF SessionInv
  <1> HIDE DEF new
  <1>2. /\ Stored(k) /\ Len(log) \in Nat /\ k.history.base \in Nat /\ k.frontier \in Nat
        /\ SubSeq(log, 1, Len(log)) = log
    BY DEF SessionInv, TypeInv, TypeOK, Checkpoint, History, HistoriesInv
  <1>3. Open(SubSeq(log, 1, new.frontier)) = {}
    BY <1>1, <1>2 DEF Recoverable, Dispatchable
  <1>4. Span(new.history.base, new.frontier) = OpsOf(new.history.returns)
    <2>1. OpsOf(new.history.returns) =
            OpsOf(k.history.returns) \cup OpsOf(Reconstructed(k))
      BY <1>1 DEF OpsOf
    <2>2. QED
      BY <1>1, <2>1, RecoveredSpan
  <1>5. Returned(new.history) = new.history.asked
    <2>1. Returned(new.history) = Returned(k.history) \cup {a.call : a \in Reconstructed(k)}
      BY <1>1 DEF Returned
    <2>2. {a.call : a \in Reconstructed(k)} = {x.call[2] : x \in Receipts(k)}
      BY ReconstructedParts
    <2>3. {x.call[2] : x \in Receipts(k)} = Unreturned(k.history)
      BY DEF Recoverable, AnswersExactly
    <2>4. QED
      BY <1>1, <1>2, <2>1, <2>2, <2>3 DEF Unreturned, Stored
  <1>6. ToldTrue(new.history.returns)
    BY <1>1, <1>2, RecoveredTold DEF Stored, ToldTrue
  <1>7. Exact(new)
    BY <1>3, <1>4, <1>5 DEF Exact
  <1>8. Stored(new)
    BY <1>1, <1>2, <1>5, <1>6, <1>7 DEF Stored
  <1>9. QED
    BY <1>8 DEF new

\* Which steps store a checkpoint.
LEMMA StoringSteps ==
  ASSUME NEW r \in Runs, Step(r)
  PROVE  \/ checkpoints' = checkpoints
         \/ /\ SaveComplete(r)
            /\ checkpoints' = checkpoints \cup {CheckpointOf(r, "complete")}
         \/ /\ PretoolCheckpoint(r)
            /\ checkpoints' = checkpoints \cup {CheckpointOf(r, "interrupted")}
         \/ \E k \in checkpoints : Recover(r, k)
  BY DEF Step, Save, StartFresh, PrepareResume, StartPrepared, Ask,
     PretoolCheckpoint, SaveComplete, LockTarget, BeginWrite, CheckTarget, Replace,
     FinishWrite, BeginProcess, RunProcess, FinishProcess, ProcessRaises, SaveResult,
     ObserveTarget, ConfirmTarget, RecordVerdict, Stop

LEMMA StoredStep ==
  ASSUME SessionInv, HistoriesInv, NEW r \in Runs, Step(r), NEW k \in checkpoints'
  PROVE  Stored(k)'
  <1>1. CASE checkpoints' = checkpoints /\ log' # log
    <2>1. PICK rec \in Record : log' = Append(log, rec)
      BY <1>1, QuietOrAppends, BeginFacts, ReportFacts DEF SessionInv
    <2>2. k \in checkpoints /\ Stored(k)
      BY <1>1 DEF HistoriesInv
    <2>3. QED
      BY <2>1, <2>2, StoredStays DEF SessionInv
  <1>2. ASSUME log' = log, Stored(k)
        PROVE  Stored(k)'
    BY <1>2, StoredSame
  <1>3. CASE checkpoints' = checkpoints /\ log' = log
    BY <1>2, <1>3 DEF HistoriesInv
  <1>4. CASE /\ SaveComplete(r)
             /\ checkpoints' = checkpoints \cup {CheckpointOf(r, "complete")}
    BY <1>2, <1>4, CompleteStored DEF HistoriesInv, SaveComplete
  <1>5. CASE /\ PretoolCheckpoint(r)
             /\ checkpoints' = checkpoints \cup {CheckpointOf(r, "interrupted")}
    BY <1>2, <1>5, InterruptedStored DEF HistoriesInv, PretoolCheckpoint
  <1>6. CASE \E l \in checkpoints : Recover(r, l)
    <2>1. PICK l \in checkpoints : Recover(r, l)
      BY <1>6
    <2>2. /\ checkpoints' = checkpoints \cup {Recovered(l)} /\ log' = log
          /\ Recoverable(l)
      BY <2>1, RecoverStores DEF SessionInv
    <2>3. Stored(k)
      BY <2>2, RecoveredStored DEF HistoriesInv
    <2>4. QED
      BY <1>2, <2>2, <2>3
  <1>7. QED
    BY <1>1, <1>3, <1>4, <1>5, <1>6, StoringSteps

-----------------------------------------------------------------------------
(* A working run accounts for its operations *)

\* Taking up a history: a new one is empty, a prepared one complete.
LEMMA StartAccounts ==
  ASSUME SessionInv, HistoriesInv, NEW r \in Runs, StartFresh(r) \/ StartPrepared(r)
  PROVE  Accounts(r)'
  <1>1. /\ pc'[r] \in {"thinking", "calling"} /\ log' = log /\ received'[r] = {}
        /\ Busy(r)' = {} /\ Len(log) \in Nat
    BY DEF StartFresh, StartPrepared, NextPhase, Goto, Busy, Recorded, SessionInv, TypeInv,
       TypeOK, Shape, ShapeOf, HasReturns
  <1>2. CASE StartFresh(r)
    <2>1. history'[r] = [base |-> Len(log), asked |-> {}, returns |-> {}]
      BY <1>2 DEF StartFresh, SessionInv, TypeInv, TypeOK
    <2>2. Span(Len(log), Len(log))' = {}
      BY <1>1 DEF Span, Intents
    <2>3. QED
      BY <1>1, <2>1, <2>2 DEF Accounts, ToldTrue, OpsOf, Returned
  <1>3. CASE StartPrepared(r)
    <2>1. /\ pc[r] = "prepared" /\ current[r].state = "complete"
          /\ current[r].frontier = Len(log) /\ history' = history
      BY <1>3 DEF StartPrepared, Resumable, IsCurrent
    <2>2. current[r] \in checkpoints /\ history[r] = current[r].history
      BY <2>1 DEF SessionInv, TypeInv, Shape, ShapeOf, HasReturns
    <2>3. Stored(current[r]) /\ Exact(current[r])
      BY <2>1, <2>2 DEF HistoriesInv, Stored
    <2>4. /\ history[r].base =< Len(log)
          /\ Returned(history[r]) = history[r].asked
          /\ ToldTrue(history[r].returns)
          /\ Span(history[r].base, Len(log)) = OpsOf(history[r].returns)
      BY <2>1, <2>2, <2>3 DEF Stored, Exact
    <2>5. Span(history[r].base, Len(log))' = OpsOf(history[r].returns)'
      BY <1>1, <2>1, <2>4 DEF Span, OpsOf
    <2>6. ToldTrue(history[r].returns)'
      BY <1>1, <2>1, <2>4 DEF ToldTrue, Tells
    <2>7. QED
      BY <1>1, <2>1, <2>4, <2>5, <2>6 DEF Accounts, ToldTrue, OpsOf, Returned
  <1>4. QED
    BY <1>2, <1>3

\* A step that appends nothing and leaves history and returns alone.
LEMMA QuietAccounts ==
  ASSUME SessionInv, HistoriesInv, NEW r \in Runs, pc[r] \in Working,
         log' = log, history'[r] = history[r], received'[r] = received[r],
         Busy(r)' = Busy(r), pc'[r] = "thinking" => pc[r] = "thinking",
         pc'[r] = "settled" => /\ pc[r] = "settled" /\ job'[r].op = job[r].op
                               /\ job'[r].verdict = job[r].verdict
  PROVE  Accounts(r)'
  <1>1. Accounts(r)
    BY DEF HistoriesInv
  <1>2. /\ ToldTrue(history[r].returns)' /\ ToldTrue(received[r])'
    BY <1>1 DEF Accounts, ToldTrue, Tells
  <1>3. Span(history[r].base, Len(log))' = Span(history[r].base, Len(log))
    BY DEF Span
  <1>4. Span(history[r].base, Len(log))' =
          OpsOf(history'[r].returns) \cup OpsOf(received'[r]) \cup Busy(r)'
    BY <1>1, <1>3 DEF Accounts
  <1>5. \A a \in received'[r] : BegunFor(a.op, r, a.call)'
    BY <1>1 DEF Accounts, BegunFor
  <1>6. /\ history'[r].base =< Len(log')
        /\ Returned(history'[r]) \subseteq history'[r].asked
        /\ {a.call : a \in received'[r]} \subseteq Unreturned(history'[r])
        /\ pc'[r] = "thinking" => history'[r].asked = Returned(history'[r])
    BY <1>1 DEF Accounts
  <1>7. pc'[r] = "settled" =>
          job'[r].verdict # "uncertain" /\ Tells(log', job'[r].op, job'[r].verdict)
    BY <1>1 DEF Accounts
  <1>8. QED
    BY <1>2, <1>4, <1>5, <1>6, <1>7 DEF Accounts, ToldTrue, Tells, OpsOf, Returned,
       Unreturned

LEMMA QuietSteps ==
  ASSUME SessionInv, HistoriesInv, NEW r \in Runs,
         \/ PretoolCheckpoint(r) \/ SaveComplete(r) \/ LockTarget(r)
         \/ CheckTarget(r) \/ Replace(r) \/ RunProcess(r)
  PROVE  Accounts(r)'
  <1>1. /\ pc[r] \in Working /\ log' = log /\ history' = history /\ received' = received
        /\ pc'[r] = "thinking" => pc[r] = "thinking"
        /\ pc'[r] # "settled"
    BY DEF PretoolCheckpoint, SaveComplete, LockTarget, CheckTarget, Replace, RunProcess,
       Goto, Working, Owning, Reconciling, SessionInv, TypeInv, TypeOK
  <1>2. Step(r)
    BY DEF Step
  <1>3. Busy(r)' = Busy(r)
    <2>1. CASE pc'[r] \in Recorded
      <3>1. pc[r] \in Recorded /\ job'[r].op = job[r].op
        BY <1>1, <1>2, <2>1, QuietPhases DEF SessionInv
      <3>2. QED
        BY <2>1, <3>1 DEF Busy
    <2>2. CASE pc'[r] \notin Recorded
      <3>1. pc[r] \notin Recorded \cup {"settled"}
        BY <2>2 DEF PretoolCheckpoint, SaveComplete, LockTarget, CheckTarget, Replace,
           RunProcess, Goto, Recorded, SessionInv, TypeInv, TypeOK
      <3>2. QED
        BY <1>1, <2>2, <3>1 DEF Busy
    <2>3. QED
      BY <2>1, <2>2
  <1>4. QED
    BY <1>1, <1>3, QuietAccounts

LEMMA AskAccounts ==
  ASSUME SessionInv, HistoriesInv, NEW r \in Runs, Ask(r)
  PROVE  Accounts(r)'
  <1>1. /\ pc[r] = "thinking" /\ pc'[r] = "calling" /\ log' = log
        /\ received' = received /\ history[r] \in History
        /\ history'[r].base = history[r].base
        /\ history[r].asked \subseteq history'[r].asked
        /\ history'[r].returns = history[r].returns
    BY AskFacts DEF SessionInv
  <1>2. Accounts(r) /\ received[r] = {}
    BY <1>1 DEF HistoriesInv, Working, Owning, Reconciling, SessionInv, TypeInv, Shape,
       ShapeOf, HasReturns
  <1>3. Busy(r) = {} /\ Busy(r)' = {}
    BY <1>1 DEF Busy, Recorded
  <1>4. Span(history[r].base, Len(log))' =
          OpsOf(history'[r].returns) \cup OpsOf(received'[r]) \cup Busy(r)'
    BY <1>1, <1>2, <1>3 DEF Accounts, Span
  <1>5. ToldTrue(history[r].returns)' /\ ToldTrue(received[r])'
    BY <1>1, <1>2 DEF Accounts, ToldTrue, Tells
  <1>6. /\ history'[r].base =< Len(log')
        /\ Returned(history'[r]) \subseteq history'[r].asked
    BY <1>1, <1>2 DEF Accounts, Returned
  <1>7. /\ {a.call : a \in received'[r]} \subseteq Unreturned(history'[r])
        /\ \A a \in received'[r] : BegunFor(a.op, r, a.call)'
    BY <1>1, <1>2
  <1>8. QED
    BY <1>1, <1>4, <1>5, <1>6, <1>7 DEF Accounts, ToldTrue, Tells, OpsOf, Returned,
       Unreturned

LEMMA BegunStays ==
  ASSUME TypeInv, NEW rec \in Record, log' = Append(log, rec),
         NEW o, NEW q, NEW c, BegunFor(o, q, c)
  PROVE  BegunFor(o, q, c)'
  BY IntentsStay DEF BegunFor

\* The intent appended is the one the run is busy with.
LEMMA BeginAccounts ==
  ASSUME SessionInv, HistoriesInv, NEW r \in Runs, Begins(r)
  PROVE  Accounts(r)'
  <1>1. PICK rec \in Record :
          /\ rec.type = "intent" /\ log' = Append(log, rec)
          /\ pc[r] \in {"ready", "locked"} /\ pc'[r] \in {"begun", "process"}
          /\ job'[r].op = rec.op
          /\ UNCHANGED <<history, received>>
    BY BeginFacts DEF SessionInv
  <1>2. /\ Accounts(r) /\ history[r] \in History /\ history[r].base \in Nat
        /\ Len(log) \in Nat /\ Len(log') = Len(log) + 1
    BY <1>1, IntentsStay, WorkerAccounts
    DEF Working, Owning, Reconciling, SessionInv, History
  <1>3. Busy(r) = {} /\ Busy(r)' = {rec.op}
    BY <1>1 DEF Busy, Recorded
  <1>4. Span(history[r].base, Len(log))' = Span(history[r].base, Len(log)) \cup {rec.op}
    BY <1>1, <1>2, SpanGrows DEF SessionInv, Accounts
  <1>5. Span(history[r].base, Len(log))' =
          OpsOf(history'[r].returns) \cup OpsOf(received'[r]) \cup Busy(r)'
    BY <1>1, <1>2, <1>3, <1>4 DEF Accounts
  <1>6. ToldTrue(history[r].returns)' /\ ToldTrue(received[r])'
    <2>1. \A a \in history[r].returns \cup received[r] :
            a.outcome # "uncertain" /\ Tells(log', a.op, a.outcome)
      BY <1>1, <1>2, TellsGrows DEF Accounts, ToldTrue, SessionInv, TypeInv, TypeOK
    <2>2. QED
      BY <1>1, <2>1 DEF ToldTrue, Tells
  <1>7. \A a \in received'[r] : BegunFor(a.op, r, a.call)'
    <2> SUFFICES ASSUME NEW a \in received[r]
                 PROVE  BegunFor(a.op, r, a.call)'
      BY <1>1
    <2>1. BegunFor(a.op, r, a.call)
      BY <1>2 DEF Accounts
    <2>2. QED
      BY <1>1, <2>1, BegunStays DEF SessionInv
  <1>8. /\ history'[r].base =< Len(log')
        /\ Returned(history'[r]) \subseteq history'[r].asked
        /\ {a.call : a \in received'[r]} \subseteq Unreturned(history'[r])
    BY <1>1, <1>2 DEF Accounts
  <1>9. QED
    BY <1>1, <1>5, <1>6, <1>7, <1>8 DEF Accounts, ToldTrue, Tells, OpsOf, Returned,
       Unreturned

\* The outcome appended is the verdict the run will report.
LEMMA ReportAccounts ==
  ASSUME SessionInv, HistoriesInv, NEW r \in Runs, Reports(r), pc'[r] \in Working
  PROVE  Accounts(r)'
  <1>1. PICK rec \in Record :
          /\ rec.type = "outcome" /\ rec.op = job[r].op /\ log' = Append(log, rec)
          /\ pc[r] \in {"replaced", "process", "exited"} /\ pc'[r] = "settled"
          /\ job'[r].op = job[r].op /\ job'[r].verdict = rec.outcome
          /\ rec.outcome # "uncertain"
          /\ UNCHANGED <<history, received>>
    BY ReportFacts DEF SessionInv, Working, Owning
  <1>2. /\ Accounts(r) /\ history[r] \in History /\ history[r].base \in Nat
        /\ Len(log) \in Nat /\ Len(log') = Len(log) + 1
    BY <1>1, IntentsStay, WorkerAccounts
    DEF Working, Owning, Reconciling, SessionInv, History
  <1>3. Busy(r)' = Busy(r)
    BY <1>1 DEF Busy, Recorded
  <1>4. Span(history[r].base, Len(log))' = Span(history[r].base, Len(log))
    BY <1>1, <1>2, SpanGrows DEF SessionInv
  <1>5. Span(history[r].base, Len(log))' =
          OpsOf(history'[r].returns) \cup OpsOf(received'[r]) \cup Busy(r)'
    BY <1>1, <1>2, <1>3, <1>4 DEF Accounts
  <1>6. ToldTrue(history[r].returns)' /\ ToldTrue(received[r])'
    <2>1. \A a \in history[r].returns \cup received[r] :
            a.outcome # "uncertain" /\ Tells(log', a.op, a.outcome)
      BY <1>1, <1>2, TellsGrows DEF Accounts, ToldTrue, SessionInv, TypeInv, TypeOK
    <2>2. QED
      BY <1>1, <2>1 DEF ToldTrue, Tells
  <1>7. \A a \in received'[r] : BegunFor(a.op, r, a.call)'
    <2> SUFFICES ASSUME NEW a \in received[r]
                 PROVE  BegunFor(a.op, r, a.call)'
      BY <1>1
    <2>1. BegunFor(a.op, r, a.call)
      BY <1>2 DEF Accounts
    <2>2. QED
      BY <1>1, <2>1, BegunStays DEF SessionInv
  <1>8. /\ history'[r].base =< Len(log')
        /\ Returned(history'[r]) \subseteq history'[r].asked
        /\ {a.call : a \in received'[r]} \subseteq Unreturned(history'[r])
    BY <1>1, <1>2 DEF Accounts
  <1>9. Tells(log', job'[r].op, job'[r].verdict)
    BY <1>1, AppendTells DEF SessionInv, TypeInv, TypeOK
  <1>10. QED
    BY <1>1, <1>5, <1>6, <1>7, <1>8, <1>9 DEF Accounts, ToldTrue, Tells, OpsOf, Returned,
       Unreturned

\* A result received is one the run was busy with.
LEMMA SaveAccounts ==
  ASSUME SessionInv, HistoriesInv, NEW r \in Runs, SaveResult(r)
  PROVE  Accounts(r)'
  <1> DEFINE a0 == [call |-> job[r].call, op |-> job[r].op, outcome |-> job[r].verdict]
  <1>1. /\ pc[r] = "settled" /\ pc[r] \in Working /\ log' = log
        /\ history'[r].base = history[r].base
        /\ history'[r].asked = history[r].asked
        /\ pc'[r] \in {"thinking", "calling"}
    BY SaveFacts, SaveResultCases DEF SessionInv, Working, Owning, Reconciling
  <1>2. Accounts(r) /\ Busy(r) = {job[r].op} /\ Busy(r)' = {}
    BY <1>1 DEF HistoriesInv, Busy, Recorded
  <1>3. Got(r) = received[r] \cup {a0}
    BY DEF Got
  <1>4. a0.call = job[r].call /\ a0.op = job[r].op /\ a0.outcome = job[r].verdict
    OBVIOUS
  <1> HIDE DEF a0
  <1>5. a0.call \in Unreturned(history[r])
    BY <1>1, <1>4 DEF SessionInv, TypeInv, Shape, ShapeOf, HasJob, Calling
  <1>6. BegunFor(a0.op, r, a0.call)
    BY <1>1, <1>4 DEF SessionInv, OpenInv
  <1>7. a0.outcome # "uncertain" /\ Tells(log, a0.op, a0.outcome)
    BY <1>1, <1>2, <1>4 DEF Accounts
  <1>8. /\ ToldTrue(Got(r)) /\ ToldTrue(history[r].returns)
        /\ {a.call : a \in Got(r)} \subseteq Unreturned(history[r])
        /\ \A a \in Got(r) : BegunFor(a.op, r, a.call)
    BY <1>2, <1>3, <1>5, <1>6, <1>7 DEF Accounts, ToldTrue
  <1>9. Span(history[r].base, Len(log)) = OpsOf(history[r].returns) \cup OpsOf(Got(r))
    BY <1>2, <1>3, <1>4 DEF Accounts, OpsOf
  <1>10. CASE /\ Unreturned(history[r]) \subseteq {a.call : a \in Got(r)}
              /\ history'[r].returns = history[r].returns \cup Got(r)
              /\ received'[r] = {} /\ pc'[r] = "thinking"
    <2>1. Returned(history'[r]) = Returned(history[r]) \cup {a.call : a \in Got(r)}
      BY <1>10 DEF Returned
    <2>2. Returned(history'[r]) = history'[r].asked
      BY <1>1, <1>2, <1>8, <1>10, <2>1 DEF Accounts, Unreturned
    <2>3. ToldTrue(history[r].returns)'
      BY <1>1, <1>8, <1>10 DEF ToldTrue, Tells
    <2>4. Span(history[r].base, Len(log))' =
            OpsOf(history'[r].returns) \cup OpsOf(received'[r]) \cup Busy(r)'
      <3>1. Span(history[r].base, Len(log))' = Span(history[r].base, Len(log))
        BY <1>1 DEF Span
      <3>2. OpsOf(history'[r].returns) = OpsOf(history[r].returns) \cup OpsOf(Got(r))
        BY <1>10 DEF OpsOf
      <3>3. QED
        BY <1>2, <1>9, <1>10, <3>1, <3>2 DEF OpsOf
    <2>5. ToldTrue(received[r])' /\ history'[r].base =< Len(log')
      BY <1>1, <1>2, <1>10 DEF ToldTrue, Accounts
    <2>6. QED
      BY <1>10, <2>2, <2>3, <2>4, <2>5
      DEF Accounts, ToldTrue, Tells, OpsOf, Returned, Unreturned
  <1>11. CASE /\ history'[r] = history[r]
              /\ received'[r] = Got(r) /\ pc'[r] = "calling"
    <2>1. ToldTrue(history[r].returns)' /\ ToldTrue(received[r])'
      BY <1>1, <1>8, <1>11 DEF ToldTrue, Tells
    <2>2. Span(history[r].base, Len(log))' =
            OpsOf(history'[r].returns) \cup OpsOf(received'[r]) \cup Busy(r)'
      <3>1. Span(history[r].base, Len(log))' = Span(history[r].base, Len(log))
        BY <1>1 DEF Span
      <3>2. QED
        BY <1>2, <1>9, <1>11, <3>1
    <2>3. \A a \in received'[r] : BegunFor(a.op, r, a.call)'
      BY <1>1, <1>8, <1>11 DEF BegunFor
    <2>4. /\ history'[r].base =< Len(log')
          /\ Returned(history'[r]) \subseteq history'[r].asked
          /\ {a.call : a \in received'[r]} \subseteq Unreturned(history'[r])
      BY <1>1, <1>2, <1>8, <1>11 DEF Accounts
    <2>5. QED
      BY <1>11, <2>1, <2>2, <2>3, <2>4
      DEF Accounts, ToldTrue, Tells, OpsOf, Returned, Unreturned
  <1>12. QED
    BY <1>10, <1>11, SaveFacts DEF SessionInv

LEMMA AccountsStep ==
  ASSUME SessionInv, HistoriesInv, NEW r \in Runs, Step(r), NEW q \in Runs,
         pc'[q] \in Working
  PROVE  Accounts(q)'
  <1>1. CASE q = r
    BY <1>1, WorkingMoves, StartAccounts, AskAccounts, SaveAccounts, BeginAccounts,
       ReportAccounts, QuietSteps DEF SessionInv
  <1>2. CASE q # r
    <2>1. /\ pc'[q] = pc[q] /\ history'[q] = history[q] /\ job'[q] = job[q]
          /\ received'[q] = received[q]
      BY <1>2, StepsAlone DEF SessionInv, TypeInv, Alone
    <2>2. pc[r] \notin Owning /\ ~SessionFree
      BY <1>2, <2>1, OthersOut DEF SessionInv, Working, SessionFree
    <2>3. log' = log
      BY <2>2, BesideOwner DEF Stop
    <2>4. Busy(q)' = Busy(q)
      BY <2>1 DEF Busy
    <2>5. QED
      BY <2>1, <2>3, <2>4, QuietAccounts
  <1>3. QED
    BY <1>1, <1>2

\* Results are saved for operations that were begun for their calls.
LEMMA ResultsStep ==
  ASSUME SessionInv, HistoriesInv, NEW r \in Runs, Step(r)
  PROVE  ResultsInv'
  <1>1. \A i \in Intents(log) : i \in Intents(log') /\ log'[i] = log[i]
    BY QuietOrAppends, BeginFacts, ReportFacts, IntentsStay DEF SessionInv
  <1>2. ASSUME NEW x \in results
        PROVE  \E i \in Intents(log') : log'[i].op = x.op /\ log'[i].call = x.call
    BY <1>1 DEF HistoriesInv, ResultsInv
  <1>3. CASE results' = results
    BY <1>2, <1>3 DEF ResultsInv
  <1>4. CASE SaveResult(r)
    <2> DEFINE new == [checkpoint |-> current[r], call |-> <<r, job[r].call>>,
                       op |-> job[r].op, outcome |-> job[r].verdict]
    <2>1. pc[r] = "settled" /\ results' = results \cup {new}
      BY <1>4, SaveResultCases DEF SessionInv
    <2>2. PICK i \in Intents(log) :
            log[i].op = job[r].op /\ log[i].call = <<r, job[r].call>>
      BY <2>1 DEF SessionInv, OpenInv, BegunFor
    <2>3. new.op = job[r].op /\ new.call = <<r, job[r].call>>
      OBVIOUS
    <2> HIDE DEF new
    <2>4. QED
      BY <1>1, <1>2, <2>1, <2>2, <2>3 DEF ResultsInv
  <1>5. results' = results \/ SaveResult(r)
    BY DEF Step, StartFresh, PrepareResume, Recover, StartPrepared, Ask,
       PretoolCheckpoint, SaveComplete, LockTarget, BeginWrite, CheckTarget, Replace,
       FinishWrite, BeginProcess, RunProcess, FinishProcess, ProcessRaises,
       ObserveTarget, ConfirmTarget, RecordVerdict, Stop
  <1>6. QED
    BY <1>3, <1>4, <1>5

-----------------------------------------------------------------------------
(* The theorems *)

LEMMA HistoriesInit == Init => HistoriesInv
  BY DEF Init, HistoriesInv, ResultsInv, Working, Owning

LEMMA HistoriesNext == SessionInv /\ HistoriesInv /\ [Next]_vars => HistoriesInv'
  <1> SUFFICES ASSUME SessionInv, HistoriesInv, [Next]_vars
               PROVE  HistoriesInv'
    OBVIOUS
  <1>1. ASSUME NEW r \in Runs, Step(r)
        PROVE  HistoriesInv'
    BY <1>1, StoredStep, AccountsStep, ResultsStep DEF HistoriesInv
  <1>2. CASE OtherWriter \/ UNCHANGED vars
    <2>1. UNCHANGED <<log, pc, history, received, checkpoints, results>>
      BY <1>2 DEF OtherWriter, vars
    <2>2. ASSUME NEW r \in Runs, pc[r] \in Recorded \cup {"settled"}
          PROVE  job'[r].op = job[r].op /\ job'[r].verdict = job[r].verdict
      <3>1. job[r] \in Job /\ job[r] # None
        BY <2>2, CallAtHand, NoneAssumption DEF Calling, SessionInv
      <3>2. QED
        BY <1>2, <3>1, OtherWriterJobs DEF SessionInv, vars
    <2>3. \A r \in Runs : Busy(r)' = Busy(r)
      BY <2>1, <2>2 DEF Busy
    <2>4. ASSUME NEW k \in checkpoints
          PROVE  Stored(k)'
      BY <2>1, StoredSame DEF HistoriesInv
    <2>5. ASSUME NEW r \in Runs, pc[r] \in Working
          PROVE  Accounts(r)'
      BY <2>1, <2>2, <2>3, <2>5, QuietAccounts
    <2>6. QED
      BY <2>1, <2>4, <2>5 DEF HistoriesInv, ResultsInv
  <1>3. QED
    BY <1>1, <1>2 DEF Next, Step

LEMMA EffectInit == Init => EffectInv
  BY EmptyHistory DEF Init, EffectInv, CallsAsked, OwnCalls, EffectsRecorded, AtMostOnce,
     UnreconciledSuccessHappened, Working, Owning

LEMMA EffectNext ==
  SessionInv /\ HistoriesInv /\ EffectInv /\ [Next]_vars => EffectInv'
  <1> SUFFICES ASSUME SessionInv, HistoriesInv, EffectInv, [Next]_vars
               PROVE  EffectInv'
    OBVIOUS
  <1>1. ASSUME NEW r \in Runs, Step(r)
        PROVE  EffectInv'
    <2>1. TakenUpWhole
      BY DEF TakenUpWhole, HistoriesInv, Stored, Exact
    <2>2. CallsAsked' /\ OwnCalls'
      BY <1>1, <2>1, CallsAskedStep, OwnCallsStep DEF EffectInv
    <2>3. QED
      BY <1>1, <2>2, EffectsRecordedStep, AtMostOnceStep, SuccessStep DEF EffectInv
  <1>2. CASE OtherWriter \/ UNCHANGED vars
    <2>1. UNCHANGED <<log, pc, history, effects>>
      BY <1>2 DEF OtherWriter, vars
    <2>2. ASSUME NEW r \in Runs, pc[r] \in Recorded
          PROVE  job'[r].call = job[r].call
      <3>1. job[r] \in Job /\ job[r] # None
        BY <2>2, CallAtHand, NoneAssumption DEF Calling, SessionInv
      <3>2. QED
        BY <1>2, <3>1, OtherWriterJobs DEF SessionInv, vars
    <2>3. EffectsRecorded'
      BY <2>1, <2>2 DEF EffectInv, EffectsRecorded, Recorded
    <2>4. QED
      BY <2>1, <2>3 DEF EffectInv, CallsAsked, OwnCalls, AtMostOnce,
         UnreconciledSuccessHappened, Unreturned, Returned
  <1>3. QED
    BY <1>1, <1>2 DEF Next, Step

LEMMA HistoriesInvariant == Spec => [](SessionInv /\ HistoriesInv /\ EffectInv)
  BY SessionInit, SessionNext, HistoriesInit, HistoriesNext, EffectInit, EffectNext, PTL
  DEF Spec

\* Whatever is interrupted, reconciled, recovered or continued: no tool call
\* has its effect twice.
THEOREM EffectsAtMostOnce == Spec => []AtMostOnce
  <1>1. EffectInv => AtMostOnce
    BY DEF EffectInv
  <1>2. QED
    BY HistoriesInvariant, <1>1, PTL

\* An outcome a broker itself reports as applied or completed is never a claim
\* about an effect that did not happen.
THEOREM SuccessIsReal == Spec => []UnreconciledSuccessHappened
  <1>1. EffectInv => UnreconciledSuccessHappened
    BY DEF EffectInv
  <1>2. QED
    BY HistoriesInvariant, <1>1, PTL

\* A checkpoint from which a session may be continued, saved by a run or
\* reconstructed by recovery, tells the model of every operation since its
\* history began, as the journal settled it, and of nothing else.
THEOREM HistoriesAreExact == Spec => []CompleteHistoryIsExact
  <1>1. ASSUME SessionInv, HistoriesInv
        PROVE  CompleteHistoryIsExact
    <2> SUFFICES ASSUME NEW k \in checkpoints, k.state = "complete"
                 PROVE  LET span == SubSeq(log, 1, k.frontier)
                            did  == {span[i].op : i \in
                                       {j \in Intents(span) : j > k.history.base}}
                        IN  /\ Open(span) = {}
                            /\ did = {a.op : a \in k.history.returns}
                            /\ \A a \in k.history.returns :
                                 a.outcome = SettledAs(log, a.op)
                            /\ k.history.asked = Returned(k.history)
      BY DEF CompleteHistoryIsExact
    <2> DEFINE span == SubSeq(log, 1, k.frontier)
               did  == {span[i].op : i \in {j \in Intents(span) : j > k.history.base}}
    <2>1. /\ Stored(k) /\ Exact(k) /\ log \in Seq(Record) /\ Coherent(log)
          /\ k.history \in History /\ k.history.base \in Nat
          /\ k.frontier \in 0..Len(log)
      BY <1>1 DEF HistoriesInv, Stored, SessionInv, LogInv, TypeInv, TypeOK, Checkpoint,
         History
    <2>2. did = Span(k.history.base, k.frontier)
      <3>1. /\ Intents(span) = {i \in Intents(log) : i =< k.frontier}
            /\ \A i \in 1..k.frontier : span[i] = log[i]
            /\ Intents(log) \subseteq 1..Len(log) /\ Len(log) \in Nat
        BY <2>1, PrefixFacts DEF Intents
      <3> HIDE DEF span
      <3>2. QED
        BY <2>1, <3>1 DEF Span
    <2>3. ASSUME NEW a \in k.history.returns
          PROVE  a.outcome = SettledAs(log, a.op)
      <3>1. a.outcome \in Outcomes
        BY <2>1 DEF History, Return
      <3>2. QED
        BY <2>1, <3>1, ToldIsSettled DEF Stored, ToldTrue
    <2>4. QED
      BY <2>1, <2>2, <2>3 DEF Exact, OpsOf
  <1>2. QED
    BY HistoriesInvariant, <1>1, PTL

=============================================================================
