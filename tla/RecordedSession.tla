--------------------------- MODULE RecordedSession ---------------------------
(***************************************************************************)
(* One durable session of the agent runtime (ls/core/agent): runs that own *)
(* the session one after another, the recorded file replacement and the    *)
(* recorded process a model's tool call leads to, the checkpoints and tool *)
(* results saved around them, reconciliation after an interruption, and    *)
(* the recovery and continuation of a saved history.                       *)
(*                                                                         *)
(* Sources: session_owner.py, file_broker.py (_write), file_recovery.py,   *)
(* file_rpc.py, process_rpc.py, process_broker.py, tool_results.py,        *)
(* checkpoint_rpc.py, recovery.py, sdk_recovery.py and the way run_cli.py  *)
(* and coding_run.py lease the session twice.                              *)
(*                                                                         *)
(* Abstracted: one file, one profile; a history is the calls the model has *)
(* asked for and the operation each return reports; an append to the       *)
(* journal is one step, as OperationJournal shows it may be seen.          *)
(***************************************************************************)
EXTENDS OperationLog

CONSTANTS
  Runs,             \* processes that run the session, each with its run_id
  CallIds,          \* tool call identities chosen by the model's provider
  Contents,         \* contents and properties the file can have
  FirstContent      \* what it holds at first

ASSUME SessionAssumption ==
  /\ Calls = Runs \X CallIds      \* tool_call: (run_id, call_id)
  /\ FirstContent \in Contents
  /\ None \notin Runs \cup CallIds \cup Contents

VARIABLES
  log,          \* the session's operation journal
  request,      \* per operation: the request its intent records
  file,         \* what the target file holds
  pc,           \* where each run is
  history,      \* message history of each run
  received,     \* tool returns of the response being executed
  current,      \* the checkpoint each run works from
  job,          \* the tool call or reconciliation each run is busy with
  checkpoints,  \* the durable checkpoint store
  results,      \* the durable tool results
  effects       \* history: how often the effect of each call took place

vars == <<log, request, file, pc, history, received, current, job,
          checkpoints, results, effects>>

\* Phases in which a run holds the session lease, and those in which it also
\* holds the lease of the target file.
Owning == {"thinking", "calling", "ready", "locked", "begun", "checked",
           "replaced", "process", "exited", "settled", "observed", "confirmed"}
Locking == {"locked", "begun", "checked", "replaced", "observed", "confirmed"}
Phases == Owning \cup {"new", "prepared", "ended"}

\* A history: the length of the journal when its first run started (kept for
\* the properties only), the calls asked for, and the returns received.
Return == [call : CallIds, op : Operations, outcome : Outcomes]
History == [base : Nat, asked : SUBSET CallIds, returns : SUBSET Return]
Returned(h) == {a.call : a \in h.returns}
Unreturned(h) == h.asked \ Returned(h)

Checkpoint ==
  [run : Runs, state : {"complete", "interrupted"}, frontier : Nat,
   history : History]

Result == [checkpoint : Checkpoint, call : Calls, op : Operations,
           outcome : Outcomes]

\* Who else writes the file: brokers under the target lease, and the rest.
Writers == {"leased", "outside"}

Job == [call : CallIds \cup {None}, op : Operations \cup {None},
        before : Contents, after : Contents, touched : SUBSET Writers,
        verdict : Outcomes]

\* An absent field is none of the things a field can hold.
ASSUME NoneAssumption ==
  None \notin Calls /\ None \notin History /\ None \notin Job

Init ==
  /\ log = <<>>
  /\ request = [o \in Operations |-> None]
  /\ file = FirstContent
  /\ pc = [r \in Runs |-> "new"]
  /\ history = [r \in Runs |-> None]
  /\ received = [r \in Runs |-> {}]
  /\ current = [r \in Runs |-> None]
  /\ job = [r \in Runs |-> None]
  /\ checkpoints = {}
  /\ results = {}
  /\ effects = [c \in CallIds |-> 0]

-----------------------------------------------------------------------------
(* Leases and dispatch *)

SessionFree == \A r \in Runs : pc[r] \notin Owning

\* Variant with a fault: writers share the target lease as readers do.
TargetShared == TRUE

TargetFree == \A r \in Runs : pc[r] \notin Locking

\* SessionOwner._operation without recovery.
Dispatchable == Open(log) = {}

\* Variant with a fault: a checkpoint is not compared with the journal.
CurrentIfStored(k) == k \in checkpoints

\* SessionOwner._checkpoint: stored, and at the journal's present frontier.
IsCurrent(k) == k \in checkpoints /\ k.frontier = Len(log)

\* Variant with a fault: an interrupted history may be continued as it is.
ResumableInAnyState(k) == Dispatchable /\ IsCurrent(k)

\* SessionOwner.resume_checkpoint.
Resumable(k) == Dispatchable /\ IsCurrent(k) /\ k.state = "complete"

Goto(r, phase) == pc' = [pc EXCEPT ![r] = phase]

\* A run that takes up a history goes on where the SDK would: it executes
\* calls that have no return, or asks the model for the next response.
NextPhase(h) == IF Unreturned(h) = {} THEN "thinking" ELSE "calling"

-----------------------------------------------------------------------------
(* A run and its model *)

\* run_coding for a task without history.
StartFresh(r) ==
  /\ pc[r] = "new" /\ SessionFree /\ Dispatchable
  /\ history' = [history EXCEPT ![r] =
                   [base |-> Len(log), asked |-> {}, returns |-> {}]]
  /\ Goto(r, "thinking")
  /\ UNCHANGED <<log, request, file, received, current, job, checkpoints,
                 results, effects>>

\* run --resume reads the history under a lease of its own and lets it go.
PrepareResume(r, k) ==
  /\ pc[r] = "new" /\ SessionFree /\ Resumable(k)
  /\ current' = [current EXCEPT ![r] = k]
  /\ history' = [history EXCEPT ![r] = k.history]
  /\ Goto(r, "prepared")
  /\ UNCHANGED <<log, request, file, received, job, checkpoints, results,
                 effects>>

\* run_coding leases the session again and asks for the same checkpoint.
StartPrepared(r) ==
  /\ pc[r] = "prepared" /\ SessionFree /\ Resumable(current[r])
  /\ Goto(r, NextPhase(history[r]))
  /\ UNCHANGED <<log, request, file, history, received, current, job,
                 checkpoints, results, effects>>

\* A model response asks for tool calls.
Ask(r) ==
  /\ pc[r] = "thinking"
  /\ \E calls \in SUBSET CallIds :
       /\ calls # {}
       /\ \A q \in Runs : history[q] # None => calls \cap history[q].asked = {}
       /\ \A k \in checkpoints : calls \cap k.history.asked = {}
       /\ history' = [history EXCEPT ![r].asked = @ \cup calls]
  /\ Goto(r, "calling")
  /\ UNCHANGED <<log, request, file, received, current, job, checkpoints,
                 results, effects>>

\* What a run remembers of the tool call or reconciliation it is busy with.
JobFor(c, o) == [call |-> c, op |-> o, before |-> file, after |-> file,
                 touched |-> {}, verdict |-> "uncertain"]

CheckpointOf(r, state) ==
  [run |-> r, state |-> state, frontier |-> Len(log), history |-> history[r]]

MaySave(state) == state = "complete" => Dispatchable

\* SessionOwner.save_checkpoint.
Save(r, state) ==
  /\ MaySave(state)
  /\ checkpoints' = checkpoints \cup {CheckpointOf(r, state)}
  /\ current' = [current EXCEPT ![r] = CheckpointOf(r, state)]

\* Before each mutating tool the worker has an interrupted checkpoint saved.
PretoolCheckpoint(r) ==
  /\ pc[r] = "calling"
  /\ \E c \in Unreturned(history[r]) :
       /\ c \notin {a.call : a \in received[r]}
       /\ job' = [job EXCEPT ![r] = JobFor(c, None)]
  /\ Save(r, "interrupted")
  /\ Goto(r, "ready")
  /\ UNCHANGED <<log, request, file, history, received, results, effects>>

\* The SDK snapshots a history without open calls as complete.
SaveComplete(r) ==
  /\ pc[r] = "thinking" /\ history[r].asked # {}
  /\ Save(r, "complete")
  /\ UNCHANGED <<log, request, file, pc, history, received, job, results, effects>>

\* A run ends, having reported its result or because it was cancelled, ran
\* out of time, raised or was killed.  Whatever it held is released.
Stop(r) ==
  /\ pc[r] \in Owning \cup {"prepared"}
  /\ Goto(r, "ended")
  /\ job' = [job EXCEPT ![r] = None]
  /\ received' = [received EXCEPT ![r] = {}]
  /\ UNCHANGED <<log, request, file, history, current, checkpoints, results,
                 effects>>

-----------------------------------------------------------------------------
(* The recorded file replacement: SessionOwner.write and FileBroker._write.
   Any refusal on the way is the run's Stop. *)

AppendRecord(rec) == Appendable(log, rec) /\ log' = Append(log, rec)

MayDispatch(r) ==
  Dispatchable /\ IsCurrent(current[r]) /\ current[r].run = r

\* The exclusive target lease; the content is the one the call expects.
LockTarget(r) ==
  /\ pc[r] = "ready" /\ MayDispatch(r) /\ TargetFree
  /\ \E after \in Contents :
       job' = [job EXCEPT ![r].before = file, ![r].after = after,
                          ![r].touched = {}]
  /\ Goto(r, "locked")
  /\ UNCHANGED <<log, request, file, history, received, current, checkpoints,
                 results, effects>>

\* check_target, then the durable intent.
BeginWrite(r) ==
  /\ pc[r] = "locked" /\ job[r].touched = {}
  /\ \E o \in Operations :
       /\ AppendRecord([type |-> "intent", op |-> o, kind |-> "file_replace",
                      call |-> <<r, job[r].call>>, control |-> None])
       /\ request' = [request EXCEPT ![o] =
                        [before |-> job[r].before, after |-> job[r].after]]
       /\ job' = [job EXCEPT ![r].op = o]
  /\ Goto(r, "begun")
  /\ UNCHANGED <<file, history, received, current, checkpoints, results, effects>>

\* Variant with a fault: the target is not looked at again after the intent.
StillUntouchedIgnored(r) == job[r] # None

\* The identity of the target is the one seen before.
StillUntouched(r) == job[r].touched = {}

\* check_target again, immediately before the replacement.  From here on
\* "touched" speaks of the time since this last look (for the properties).
CheckTarget(r) ==
  /\ pc[r] = "begun" /\ StillUntouched(r)
  /\ job' = [job EXCEPT ![r].touched = {}]
  /\ Goto(r, "checked")
  /\ UNCHANGED <<log, request, file, history, received, current, checkpoints,
                 results, effects>>

\* Variant with a fault: the file is replaced before the intent is recorded.
ReplaceBeforeIntent(r) ==
  /\ pc[r] \in {"locked", "checked"}
  /\ file' = job[r].after
  /\ effects' = [effects EXCEPT ![job[r].call] = @ + 1]
  /\ Goto(r, IF pc[r] = "locked" THEN "locked" ELSE "replaced")
  /\ UNCHANGED <<log, request, history, received, current, job, checkpoints,
                 results>>

\* os.replace and the directory flush.
Replace(r) ==
  /\ pc[r] = "checked"
  /\ file' = job[r].after
  /\ effects' = [effects EXCEPT ![job[r].call] = @ + 1]
  /\ Goto(r, "replaced")
  /\ UNCHANGED <<log, request, history, received, current, job, checkpoints,
                 results>>

Report(r, outcome, reconciled) ==
  AppendRecord([type |-> "outcome", op |-> job[r].op, outcome |-> outcome,
              reconciled |-> reconciled])

\* The outcome, before the target lease is released.
FinishWrite(r) ==
  /\ pc[r] = "replaced"
  /\ Report(r, "applied", FALSE)
  /\ job' = [job EXCEPT ![r].verdict = "applied"]
  /\ Goto(r, "settled")
  /\ UNCHANGED <<request, file, history, received, current, checkpoints,
                 results, effects>>

-----------------------------------------------------------------------------
(* The recorded process: ProcessHandler and run_recorded *)

\* What a supervised process can report; failed, timed_out and output_limit
\* are treated alike with "completed" and "cancelled" everywhere.
Statuses == {"completed", "cancelled"}

BeginProcess(r) ==
  /\ pc[r] = "ready" /\ MayDispatch(r)
  /\ \E o \in Operations :
       /\ AppendRecord([type |-> "intent", op |-> o, kind |-> "process",
                      call |-> <<r, job[r].call>>, control |-> None])
       /\ job' = [job EXCEPT ![r].op = o]
  /\ Goto(r, "process")
  /\ UNCHANGED <<request, file, history, received, current, checkpoints,
                 results, effects>>

RunProcess(r) ==
  /\ pc[r] = "process"
  /\ effects' = [effects EXCEPT ![job[r].call] = @ + 1]
  /\ Goto(r, "exited")
  /\ UNCHANGED <<log, request, file, history, received, current, job,
                 checkpoints, results>>

\* Variant with a fault: the status of the process is not waited for.
FinishProcessEarly(r) ==
  /\ pc[r] \in {"process", "exited"}
  /\ \E status \in Statuses :
       /\ Report(r, status, FALSE)
       /\ job' = [job EXCEPT ![r].verdict = status]
  /\ Goto(r, "settled")
  /\ UNCHANGED <<request, file, history, received, current, checkpoints,
                 results, effects>>

\* The status is recorded after teardown; a cancelled run need not start it.
FinishProcess(r) ==
  /\ \E status \in Statuses :
       /\ pc[r] = "exited" \/ (pc[r] = "process" /\ status = "cancelled")
       /\ Report(r, status, FALSE)
       /\ job' = [job EXCEPT ![r].verdict = status]
  /\ Goto(r, "settled")
  /\ UNCHANGED <<request, file, history, received, current, checkpoints,
                 results, effects>>

\* An exception on the way: uncertainty is recorded and the run raises.
ProcessRaises(r) ==
  /\ pc[r] \in {"process", "exited"}
  /\ Report(r, "uncertain", FALSE)
  /\ Goto(r, "ended")
  /\ job' = [job EXCEPT ![r] = None]
  /\ received' = [received EXCEPT ![r] = {}]
  /\ UNCHANGED <<request, file, history, current, checkpoints, results, effects>>

-----------------------------------------------------------------------------
(* The tool result *)

\* tool_results.save, then the acknowledgement.  The SDK adds the returns to
\* the history once every call of the response has one.
SaveResult(r) ==
  /\ pc[r] = "settled" /\ Dispatchable
  /\ results' = results \cup
       {[checkpoint |-> current[r], call |-> <<r, job[r].call>>,
         op |-> job[r].op, outcome |-> job[r].verdict]}
  /\ LET got == received[r] \cup {[call |-> job[r].call, op |-> job[r].op,
                                   outcome |-> job[r].verdict]}
         open == Unreturned(history[r]) \ {a.call : a \in got}
     IN  IF open = {}
           THEN /\ history' = [history EXCEPT ![r].returns = @ \cup got]
                /\ received' = [received EXCEPT ![r] = {}]
                /\ Goto(r, "thinking")
           ELSE /\ received' = [received EXCEPT ![r] = got]
                /\ Goto(r, "calling")
                /\ UNCHANGED history
  /\ job' = [job EXCEPT ![r] = None]
  /\ UNCHANGED <<log, request, file, current, checkpoints, effects>>

-----------------------------------------------------------------------------
(* Reconciliation: SessionOwner.reconcile_file and file_recovery.reconcile *)

\* Under the shared target lease the content is compared with both recorded
\* states; a conflict with both leaves the operation to manual review.
ObserveTarget(r) ==
  /\ pc[r] = "new" /\ SessionFree /\ TargetFree
  /\ \E o \in Open(log) :
       /\ request[o] # None /\ file \in {request[o].before, request[o].after}
       /\ job' = [job EXCEPT ![r] = [JobFor(None, o) EXCEPT !.verdict =
                     IF file = request[o].after THEN "applied" ELSE "not_applied"]]
  /\ Goto(r, "observed")
  /\ UNCHANGED <<log, request, file, history, received, current, checkpoints,
                 results, effects>>

\* The identity of the leaf is compared once more.
ConfirmTarget(r) ==
  /\ pc[r] = "observed" /\ StillUntouched(r)
  /\ job' = [job EXCEPT ![r].touched = {}]
  /\ Goto(r, "confirmed")
  /\ UNCHANGED <<log, request, file, history, received, current, checkpoints,
                 results, effects>>

\* The reconciled outcome; then the leases are released.
RecordVerdict(r) ==
  /\ pc[r] = "confirmed"
  /\ Report(r, job[r].verdict, TRUE)
  /\ job' = [job EXCEPT ![r] = None]
  /\ Goto(r, "new")
  /\ UNCHANGED <<request, file, history, received, current, checkpoints,
                 results, effects>>

-----------------------------------------------------------------------------
(* Recovery: recovery.py, tool_results.recover and sdk_recovery.reconstruct *)

\* Operations begun after the frontier of a checkpoint: Journal.after.
Suffix(k) == {log[i].op : i \in {j \in Intents(log) : j > k.frontier}}

\* The results of the operations in the suffix, each joined to its settled
\* operation, its checkpoint and the run of the checkpoint.
Receipts(k) == {x \in results : x.op \in Suffix(k)}

\* reconstruct: the receipts answer exactly the calls without return.
AnswersExactly(k) ==
  /\ {x.call[2] : x \in Receipts(k)} = Unreturned(k.history)
  /\ \A x, y \in Receipts(k) : x # y => x.call # y.call

Recoverable(k) ==
  /\ Dispatchable
  /\ k \in checkpoints /\ k.state = "interrupted"
  /\ Open(SubSeq(log, 1, k.frontier)) = {}
  /\ Suffix(k) # {}
  /\ \A o \in Suffix(k) :
       /\ \E x \in results : x.op = o
       /\ \A x, y \in results : x.op = o /\ y.op = o => x = y
  /\ \A x \in Receipts(k) :
       /\ x.outcome = SettledAs(log, x.op)
       /\ x.checkpoint \in checkpoints
       /\ x.call[1] = k.run /\ x.checkpoint.run = k.run
  /\ AnswersExactly(k)

\* run --recover-from: a complete checkpoint of the same run with the settled
\* returns appended, which the run then prepares to continue.  The session is
\* leased throughout; dying before the checkpoint is stored changes nothing.
Recover(r, k) ==
  /\ pc[r] = "new" /\ SessionFree /\ Recoverable(k)
  /\ LET returns == {[call |-> x.call[2], op |-> x.op, outcome |-> x.outcome] :
                        x \in Receipts(k)}
         recovered == [k EXCEPT !.state = "complete", !.frontier = Len(log),
                                !.history.returns = @ \cup returns]
     IN  /\ checkpoints' = checkpoints \cup {recovered}
         /\ current' = [current EXCEPT ![r] = recovered]
         /\ history' = [history EXCEPT ![r] = recovered.history]
  /\ Goto(r, "prepared")
  /\ UNCHANGED <<log, request, file, received, job, results, effects>>

-----------------------------------------------------------------------------
(* Other writers of the file *)

\* Brokers of other sessions take the same target lease, and write when it is
\* free; other programs write at any time.  A run that watches the file's
\* identity can notice both.
OtherWriter ==
  /\ \E content \in Contents \ {file} : file' = content
  /\ job' = [r \in Runs |-> IF job[r] = None THEN None
               ELSE [job[r] EXCEPT !.touched =
                       @ \cup {IF TargetFree THEN "leased" ELSE "outside"}]]
  /\ UNCHANGED <<log, request, pc, history, received, current, checkpoints,
                 results, effects>>

Next ==
  \/ \E r \in Runs :
       \/ StartFresh(r)
       \/ \E k \in checkpoints : PrepareResume(r, k) \/ Recover(r, k)
       \/ StartPrepared(r) \/ Ask(r) \/ PretoolCheckpoint(r) \/ SaveComplete(r)
       \/ LockTarget(r) \/ BeginWrite(r) \/ CheckTarget(r) \/ Replace(r)
       \/ FinishWrite(r)
       \/ BeginProcess(r) \/ RunProcess(r) \/ FinishProcess(r) \/ ProcessRaises(r)
       \/ SaveResult(r)
       \/ ObserveTarget(r) \/ ConfirmTarget(r) \/ RecordVerdict(r)
       \/ Stop(r)
  \/ OtherWriter

Spec == Init /\ [][Next]_vars

-----------------------------------------------------------------------------
(* Properties *)

TypeOK ==
  /\ log \in Seq(Record)
  /\ request \in [Operations -> [before : Contents, after : Contents] \cup {None}]
  /\ file \in Contents
  /\ pc \in [Runs -> Phases]
  /\ history \in [Runs -> History \cup {None}]
  /\ received \in [Runs -> SUBSET Return]
  /\ current \in [Runs -> Checkpoint \cup {None}]
  /\ job \in [Runs -> Job \cup {None}]
  /\ checkpoints \subseteq Checkpoint
  /\ results \subseteq Result
  /\ effects \in [CallIds -> Nat]

\* Whatever is interrupted, reconciled, recovered or continued, the effect of
\* a tool call happens at most once.
AtMostOnce == \A c \in CallIds : effects[c] =< 1

\* A complete checkpoint tells exactly what its session did since its first
\* run: one return for every operation the journal holds in that span, with
\* the outcome the journal settled on, and none for anything else.
CompleteHistoryIsExact ==
  \A k \in checkpoints : k.state = "complete" =>
    LET span == SubSeq(log, 1, k.frontier)
        did  == {span[i].op : i \in {j \in Intents(span) : j > k.history.base}}
    IN  /\ Open(span) = {}
        /\ did = {a.op : a \in k.history.returns}
        /\ \A a \in k.history.returns : a.outcome = SettledAs(log, a.op)
        /\ k.history.asked = Returned(k.history)

\* An unreconciled "applied" or "completed" tells of an effect that happened.
UnreconciledSuccessHappened ==
  \A i \in OutcomesIn(log) :
    /\ ~log[i].reconciled
    /\ log[i].outcome \in {"applied", "completed"}
    => \A j \in Intents(log) :
         log[j].op = log[i].op => effects[log[j].call[2]] = 1

\* A replacement or a reconciled outcome never passes over a change of the
\* file unseen, but for one made by a writer outside the target lease after
\* the last look; writers under the lease change nothing meanwhile.
NoChangePassesUnseen ==
  \A r \in Runs :
    /\ pc[r] \in {"locked", "begun", "checked"} /\ job[r].touched = {} =>
         file = job[r].before
    /\ pc[r] \in {"observed", "confirmed"} /\ job[r].touched = {} =>
         file = IF job[r].verdict = "applied" THEN request[job[r].op].after
                                             ELSE request[job[r].op].before
    /\ pc[r] \in Locking => "leased" \notin job[r].touched

\* An effect takes place only while its own operation, and no other, is open
\* in the journal: nothing is dispatched unrecorded or beside an open intent.
EffectOnlyUnderItsIntent ==
  [][\A c \in CallIds : effects'[c] # effects[c] =>
       \E o \in Operations :
         /\ Open(log) = {o}
         /\ \E i \in Intents(log) : log[i].op = o /\ log[i].call[2] = c]_vars
=============================================================================
