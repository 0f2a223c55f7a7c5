-------------------------- MODULE LiveConfiguration --------------------------
(***************************************************************************)
(* Live configuration of several processes over one ConfigurationStore     *)
(* (ls/core/live_configuration_runtime.py, _participant.py, _group.py,     *)
(* _channels.py).  Each runtime keeps the revision it has accepted and the *)
(* edits staged since.  A plain runtime publishes its own edits; the       *)
(* runtime of a ConfigurationGroup captures the edits of its participants  *)
(* in other processes, lets each approve the whole proposal, publishes     *)
(* once and has each reload.  An operator recovers announced revisions and *)
(* cancels captures that were left behind.                                 *)
(*                                                                         *)
(* Abstracted: an edit is a number and is the value it gives its owner;    *)
(* the cadence is one owner among others; validation succeeds; a flush     *)
(* holds the runtime's lock to its end, so that a locked runtime refuses   *)
(* requests and takes no edits.  Of load only the HEAD it reads matters.   *)
(***************************************************************************)
EXTENDS ConfigurationStore, FiniteSets, FiniteSetsExt, Functions

CONSTANTS
  Plain,            \* runtimes that may flush on their own
  Participants,     \* runtimes served over a channel
  Controller,       \* the runtime of the group
  Operator,         \* the person at localsetup config recover, cancel-flush
  Owners,
  OwnersOf,         \* the owners each runtime stages for
  MaxEdits,         \* bound of edits
  MaxTransactions,  \* bound of group flushes
  MaxFaults         \* bound of failed writes, lost exchanges and restarts

Runtimes == Plain \cup Participants \cup {Controller}

\* Runtimes with a ConfigurationParticipant of their own.
Admitted == Participants \cup {Controller}

Edits == 1..MaxEdits
Values == [Owners -> 0..MaxEdits]

ASSUME ConfigurationAssumption ==
  /\ Writers = Plain \cup {Controller, Operator}
  /\ Controller \notin Plain \cup Participants
  /\ Operator \notin Runtimes
  /\ OwnersOf \in [Runtimes -> SUBSET Owners]
  /\ Contents = [values : Values, edits : SUBSET Edits, operation : 0..MaxTransactions]
  /\ {MaxEdits, MaxTransactions, MaxFaults} \subseteq Nat
  /\ None \notin Runtimes \cup Values \cup Lease

VARIABLES
  accepted,   \* ConfigurationRuntime.accepted of each runtime
  staged,     \* its staged edit for each owner, or 0
  uncertain,  \* its uncertain candidate, or 0
  reloading,  \* plain runtimes whose flush has published and not reloaded yet
  pending,    \* ConfigurationParticipant.pending, or None
  tx,         \* the controller's flush_all
  channel,    \* of each participant: whether it broke, the request left in it
  edits,      \* history: edits staged so far
  dropped,    \* history: edits discarded, replaced or gone with their process
  unanimous,  \* history: revisions a flush_all returned with success
  faults      \* history: failed writes, lost exchanges and restarts so far

vars == <<storeVars, accepted, staged, uncertain, reloading, pending, tx,
          channel, edits, dropped, unanimous, faults>>

runtimeVars == <<accepted, staged, uncertain, reloading, pending>>

Phases == {"idle", "capturing", "preparing", "committing", "publishing",
           "finishing", "aborting"}

NoEdits == [o \in Owners |-> 0]

\* What a participant answers: refusals and plain consents carry no edits.
Refusal == [ok |-> FALSE, base |-> 0, values |-> NoEdits]
Consent == [ok |-> TRUE, base |-> 0, values |-> NoEdits]

NoAnswers == [r \in Admitted |-> Refusal]

NoTx(n) == [number |-> n, phase |-> "idle", todo |-> {},
            captured |-> {}, frozen |-> NoAnswers, proposal |-> None, result |-> 0]

Healthy == [broken |-> FALSE, request |-> None]

Init ==
  /\ StoreInit
  /\ accepted = [r \in Runtimes |-> 0]
  /\ staged = [r \in Runtimes |-> NoEdits]
  /\ uncertain = [r \in Runtimes |-> 0]
  /\ reloading = {}
  /\ pending = [r \in Admitted |-> None]
  /\ tx = NoTx(0)
  /\ channel = [p \in Participants |-> Healthy]
  /\ edits = 0
  /\ dropped = {}
  /\ unanimous = {}
  /\ faults = 0

Fault == faults < MaxFaults /\ faults' = faults + 1

NoFault == UNCHANGED faults

-----------------------------------------------------------------------------
(* One runtime *)

\* The runtime's lock is held by a flush under way.
Locked(r) ==
  \/ lease # None /\ lease.who = r
  \/ r \in reloading
  \/ r = Controller /\ tx.phase # "idle"

EditsIn(s) == {s[o] : o \in Owners} \ {0}

ValuesOf(x) == IF x = 0 THEN NoEdits ELSE objects[x].content.values

Over(values, s) == [o \in Owners |-> IF s[o] = 0 THEN values[o] ELSE s[o]]

\* ConfigurationParticipant.reconcile: the revision is the captured one.
Reconciles(r, x) ==
  /\ r \in Admitted /\ pending[r] # None /\ x # 0
  /\ pending[r].proposal # None
  /\ Parent(x) = pending[r].base
  /\ objects[x].content.operation = pending[r].transaction
  /\ objects[x].content.values = pending[r].proposal

\* Variant with a fault: what was staged after the capture is removed with it.
AfterwardsAll(r) == NoEdits

\* What stays staged once the captured revision is applied.
Afterwards(r) ==
  [o \in Owners |-> IF staged[r][o] = pending[r].values[o] THEN 0 ELSE staged[r][o]]

Dirty(r) == EditsIn(staged[r]) # {}

\* load: a revision that does not descend from the accepted one.
Strays(r) == accepted[r] \notin {0} \cup Range(LineOf(head))

\* A revision of another writer is not accepted under staged edits.
ReloadConflicts(r) ==
  \/ Strays(r)
  \/ Dirty(r) /\ head \notin {accepted[r], uncertain[r]} /\ ~Reconciles(r, head)

\* ConfigurationRuntime.reload.
Reloaded(r) ==
  IF ReloadConflicts(r) THEN UNCHANGED <<accepted, staged, uncertain, pending>>
  ELSE
    /\ accepted' = [accepted EXCEPT ![r] = head]
    /\ IF Reconciles(r, head)
         THEN /\ staged' = [staged EXCEPT ![r] = Afterwards(r)]
              /\ pending' = [pending EXCEPT ![r] = None]
              /\ UNCHANGED uncertain
         ELSE IF uncertain[r] # 0 /\ uncertain[r] = head
         THEN /\ staged' = [staged EXCEPT ![r] = NoEdits]
              /\ uncertain' = [uncertain EXCEPT ![r] = 0]
              /\ UNCHANGED pending
         ELSE UNCHANGED <<staged, uncertain, pending>>

Stage(r, o) ==
  /\ ~Locked(r) /\ uncertain[r] = 0 /\ edits < MaxEdits
  /\ edits' = edits + 1
  /\ staged' = [staged EXCEPT ![r][o] = edits + 1]
  /\ dropped' = dropped \cup ({staged[r][o]} \ {0})
  /\ UNCHANGED <<storeVars, accepted, uncertain, reloading, pending, tx, channel,
                 unanimous, faults>>

\* poll, a flush with nothing to write, and a capture that is refused.
Poll(r) ==
  /\ ~Locked(r)
  /\ Reloaded(r)
  /\ UNCHANGED <<storeVars, reloading, tx, channel, edits, dropped, unanimous,
                 faults>>

Discard(r) ==
  /\ ~Locked(r) /\ uncertain[r] = 0
  /\ r \in Admitted => pending[r] = None
  /\ dropped' = dropped \cup EditsIn(staged[r])
  /\ staged' = [staged EXCEPT ![r] = NoEdits]
  /\ accepted' = IF Strays(r) THEN accepted ELSE [accepted EXCEPT ![r] = head]
  /\ UNCHANGED <<storeVars, uncertain, reloading, pending, tx, channel, edits,
                 unanimous, faults>>

-----------------------------------------------------------------------------
(* ConfigurationRuntime.flush of a runtime without a group *)

MayFlush(r) ==
  /\ r \in Plain /\ ~Locked(r)
  /\ r \in Admitted => pending[r] = None

OwnContent(r) ==
  [values |-> Over(ValuesOf(accepted[r]), staged[r]),
   edits |-> EditsIn(staged[r]), operation |-> 0]

RuntimeUnchanged == UNCHANGED <<accepted, staged, pending, tx, channel, edits,
                                dropped, unanimous>>

FlushSeal(r) ==
  /\ MayFlush(r) /\ Dirty(r) /\ uncertain[r] = 0
  /\ \/ /\ Seal(r, accepted[r], OwnContent(r)) /\ NoFault
        /\ UNCHANGED uncertain
     \/ /\ SealFails(r, accepted[r], OwnContent(r)) /\ Fault
        /\ uncertain' = [uncertain EXCEPT ![r] = Len(objects')]
  /\ UNCHANGED reloading /\ RuntimeUnchanged

\* Variant with a fault: an uncertain publication is sealed once more.
FlushAgain(r) ==
  /\ MayFlush(r) /\ uncertain[r] # 0
  /\ Seal(r, head, OwnContent(r)) /\ NoFault
  /\ UNCHANGED <<uncertain, reloading>> /\ RuntimeUnchanged

\* An uncertain publication is finished, never sealed again.
FlushRecover(r) ==
  /\ MayFlush(r) /\ uncertain[r] # 0
  /\ TakeRecovery(r, uncertain[r]) /\ NoFault
  /\ UNCHANGED <<uncertain, reloading>> /\ RuntimeUnchanged

FlushAnnounce(r) ==
  /\ r \in Plain
  /\ \/ Announce(r) /\ NoFault /\ UNCHANGED uncertain
     \/ /\ AnnounceFails(r) /\ Fault
        /\ uncertain' = [uncertain EXCEPT ![r] = lease.candidate]
  /\ UNCHANGED reloading /\ RuntimeUnchanged

FlushPublish(r) ==
  /\ r \in Plain
  /\ \/ Publish(r) /\ NoFault /\ reloading' = reloading \cup {r}
     \/ PublishFails(r) /\ Fault /\ UNCHANGED reloading
  /\ uncertain' = [uncertain EXCEPT ![r] = lease.candidate]
  /\ RuntimeUnchanged

\* The lease is free again before the published revision is read back.
FlushReload(r) ==
  /\ r \in reloading
  /\ Reloaded(r)
  /\ reloading' = reloading \ {r}
  /\ UNCHANGED <<storeVars, tx, channel, edits, dropped, unanimous, faults>>

-----------------------------------------------------------------------------
(* ConfigurationParticipant.request: answers and effects *)

CanCapture(r) ==
  /\ ~ReloadConflicts(r)
  /\ pending[r] = None \/ Reconciles(r, head)
  /\ uncertain[r] \in {0, head}

\* The edits still staged after the reload that precedes a capture.
Kept(r) ==
  IF Reconciles(r, head) THEN Afterwards(r)
  ELSE IF uncertain[r] # 0 THEN NoEdits ELSE staged[r]

CaptureReply(r) ==
  IF CanCapture(r) THEN [ok |-> TRUE, base |-> head, values |-> Kept(r)] ELSE Refusal

Capture(r, t) ==
  IF ~CanCapture(r) THEN Reloaded(r)
  ELSE
    /\ accepted' = [accepted EXCEPT ![r] = head]
    /\ staged' = [staged EXCEPT ![r] = Kept(r)]
    /\ uncertain' = [uncertain EXCEPT ![r] = 0]
    /\ pending' = [pending EXCEPT ![r] =
         [transaction |-> t, base |-> head, values |-> Kept(r), proposal |-> None]]

Captured(r, t) == pending[r] # None /\ pending[r].transaction = t

Approves(r, t, proposal) ==
  /\ Captured(r, t)
  /\ \A o \in Owners : pending[r].values[o] \in {0, proposal[o]}
  /\ pending[r].proposal \in {None, proposal}

Prepare(r, t, proposal) ==
  /\ pending' = IF Approves(r, t, proposal)
                  THEN [pending EXCEPT ![r].proposal = proposal] ELSE pending
  /\ UNCHANGED <<accepted, staged, uncertain>>

\* Without a proposal nothing can be published under this transaction.
OnlyCaptured(r, t) == Captured(r, t) /\ pending[r].proposal = None

Finished(r, t, x) ==
  /\ head = x /\ ~ReloadConflicts(r)
  /\ \/ OnlyCaptured(r, t)
     \/ Captured(r, t) /\ Reconciles(r, head)
     \/ pending[r] = None /\ x # 0 /\ objects[x].content.operation = t

Finish(r, t) ==
  IF OnlyCaptured(r, t)
    THEN /\ pending' = [pending EXCEPT ![r] = None]
         /\ accepted' = IF ReloadConflicts(r) THEN accepted
                        ELSE [accepted EXCEPT ![r] = head]
         /\ UNCHANGED <<staged, uncertain>>
  ELSE IF Captured(r, t) \/ pending[r] = None THEN Reloaded(r)
  ELSE UNCHANGED <<accepted, staged, uncertain, pending>>

Releasable(r, t) == Captured(r, t) /\ IntentSettled

Abort(r, t) ==
  IF ~Releasable(r, t) THEN UNCHANGED <<accepted, staged, uncertain, pending>>
  ELSE
    /\ pending' = [pending EXCEPT ![r] = None]
    /\ accepted' = IF Reconciles(r, head) THEN [accepted EXCEPT ![r] = head]
                   ELSE accepted
    /\ staged' = IF Reconciles(r, head) THEN [staged EXCEPT ![r] = Afterwards(r)]
                 ELSE staged
    /\ UNCHANGED uncertain

-----------------------------------------------------------------------------
(* A participant serves its channel *)

ReplyTo(p, q) ==
  IF q.method = "capture" THEN CaptureReply(p)
  ELSE IF \/ q.method = "prepare" /\ Approves(p, q.transaction, q.values)
          \/ q.method = "finish" /\ Finished(p, q.transaction, q.revision)
          \/ q.method = "abort" /\ Releasable(p, q.transaction)
    THEN Consent ELSE Refusal

Handle(p, q) ==
  \/ q.method = "capture" /\ Capture(p, q.transaction)
  \/ q.method = "prepare" /\ Prepare(p, q.transaction, q.values)
  \/ q.method = "finish" /\ Finish(p, q.transaction)
  \/ q.method = "abort" /\ Abort(p, q.transaction)

\* A locked runtime refuses.
Answer(p, q) == IF Locked(p) THEN Refusal ELSE ReplyTo(p, q)

Serve(p, q) ==
  IF Locked(p) THEN UNCHANGED <<accepted, staged, uncertain, pending>> ELSE Handle(p, q)

\* A request whose sender gave up may still be served.
ServeLate(p) ==
  /\ channel[p].request # None
  /\ Serve(p, channel[p].request)
  /\ channel' = [channel EXCEPT ![p].request = None]
  /\ UNCHANGED <<storeVars, reloading, tx, edits, dropped, unanimous, faults>>

\* The participant's owner notices the broken channel, which releases a capture
\* without a proposal; a group that is idle may be given a new channel.
Reconnect(p) ==
  /\ channel[p].broken
  /\ pending' = [pending EXCEPT ![p] =
                   IF @ # None /\ @.proposal = None THEN None ELSE @]
  /\ channel' = [channel EXCEPT ![p] =
                   [broken |-> tx.phase # "idle", request |-> None]]
  /\ UNCHANGED <<storeVars, accepted, staged, uncertain, reloading, tx, edits,
                 dropped, unanimous, faults>>

-----------------------------------------------------------------------------
(* The controller: ConfigurationGroup.flush and flush_all *)

\* Its own participant is called directly and before the others.
Local(phase) == tx.phase = phase /\ Controller \in tx.todo

Request ==
  [method |-> CASE tx.phase = "capturing" -> "capture"
                [] tx.phase = "preparing" -> "prepare"
                [] tx.phase = "finishing" -> "finish"
                [] OTHER -> "abort",
   transaction |-> tx.number, revision |-> tx.result,
   values |-> IF tx.proposal = None THEN NoEdits ELSE tx.proposal]

TxUnchanged == UNCHANGED <<storeVars, reloading, edits, dropped, unanimous>>

\* A failure before the dispatch aborts all that were asked to capture; after
\* the dispatch the outcome is unknown and nothing is released.
Failed ==
  IF tx.phase \in {"publishing", "finishing"} /\ tx.proposal # None
    THEN NoTx(tx.number)
    ELSE [tx EXCEPT !.phase = "aborting", !.todo = tx.captured]

TxBegin ==
  /\ tx.phase = "idle" /\ tx.number < MaxTransactions
  /\ CanCapture(Controller)
  /\ Capture(Controller, tx.number + 1)
  /\ tx' = [NoTx(tx.number + 1) EXCEPT
              !.phase = "capturing", !.todo = Participants,
              !.captured = {Controller}, !.frozen[Controller] = CaptureReply(Controller)]
  /\ NoFault /\ UNCHANGED channel /\ TxUnchanged

\* The next peer in turn, which counts as captured whatever becomes of it.
Turn(p) ==
  /\ tx.phase # "idle"
  /\ p \in tx.todo \ {Controller} /\ Controller \notin tx.todo

Onward(p) == [tx EXCEPT !.todo = @ \ {p}, !.captured = @ \cup {p}]

\* Variant with a fault: no refusal is made anything of.
RefusalPassedOver(p) == Onward(p)

\* A refusal, or no answer; of the answers to an abort nothing is made.
Refused(p) ==
  IF tx.phase = "aborting" THEN Onward(p)
  ELSE [Failed EXCEPT !.todo = IF Failed.phase = "aborting" THEN @ \cup {p} ELSE @]

\* A request and its answer.  While the controller waits, it does nothing else,
\* so that the serving of the request is the step.
TxExchange(p) ==
  LET answer == Answer(p, Request)
  IN  /\ Turn(p) /\ ~channel[p].broken
      /\ Serve(p, Request)
      /\ tx' = IF ~answer.ok THEN Refused(p)
               ELSE IF tx.phase = "capturing"
                 THEN [Onward(p) EXCEPT !.frozen[p] = answer] ELSE Onward(p)
      /\ NoFault /\ UNCHANGED channel /\ TxUnchanged

\* The deadline passes or the connection breaks, before or after the request
\* was served; Channel.request closes the channel.
TxLose(p) ==
  /\ Turn(p) /\ ~channel[p].broken
  /\ channel' = [channel EXCEPT ![p] = [broken |-> TRUE, request |-> Request]]
  /\ tx' = Refused(p)
  /\ Fault /\ UNCHANGED runtimeVars /\ TxUnchanged

TxUnreachable(p) ==
  /\ Turn(p) /\ channel[p].broken
  /\ tx' = Refused(p)
  /\ NoFault /\ UNCHANGED <<runtimeVars, channel>> /\ TxUnchanged

Proposed(o) == {tx.frozen[r].values[o] : r \in Admitted} \ {0}

\* One base for all, and no two edits of one owner.
Compatible ==
  /\ \A r \in Admitted : tx.frozen[r].base = accepted[Controller]
  /\ \A o \in Owners : Cardinality(Proposed(o)) =< 1

Updates == [o \in Owners |-> IF Proposed(o) = {} THEN 0 ELSE Max(Proposed(o))]

\* All are captured: the edits are merged and the proposal is fixed, or there
\* is nothing to publish.
TxMerge ==
  LET proposal == Over(ValuesOf(accepted[Controller]), Updates)
  IN  /\ tx.phase = "capturing" /\ tx.todo = {}
      /\ IF ~Compatible
           THEN tx' = Failed /\ UNCHANGED runtimeVars
         ELSE IF Updates = NoEdits
           THEN /\ tx' = [tx EXCEPT !.phase = "finishing", !.todo = Admitted,
                            !.result = accepted[Controller]]
                /\ UNCHANGED runtimeVars
         ELSE /\ tx' = [tx EXCEPT !.phase = "preparing", !.todo = Participants,
                          !.proposal = proposal]
              /\ Prepare(Controller, tx.number, proposal)
              /\ UNCHANGED reloading
      /\ UNCHANGED <<storeVars, channel, edits, dropped, unanimous, faults>>

TxContent == [values |-> tx.proposal, edits |-> EditsIn(Updates), operation |-> tx.number]

\* A commit that is refused, or fails before it writes (the lease is busy, the
\* signature fails), aborts; an uncertain one leaves every capture in place.
TxCommit ==
  LET base == accepted[Controller]
  IN  /\ tx.phase = "preparing" /\ tx.todo = {}
      /\ \/ /\ Seal(Controller, base, TxContent) /\ NoFault
            /\ tx' = [tx EXCEPT !.phase = "publishing"]
         \/ /\ SealFails(Controller, base, TxContent) /\ Fault
            /\ tx' = NoTx(tx.number)
         \/ /\ \/ (~MayCommit(base) \/ Len(objects) = MaxRevisions) /\ NoFault
               \/ Fault
            /\ tx' = Failed
            /\ UNCHANGED storeVars
      /\ UNCHANGED <<runtimeVars, channel, edits, dropped, unanimous>>

TxAnnounce ==
  /\ tx.phase = "publishing"
  /\ \/ Announce(Controller) /\ NoFault /\ UNCHANGED tx
     \/ AnnounceFails(Controller) /\ Fault /\ tx' = Failed
  /\ UNCHANGED <<runtimeVars, channel, edits, dropped, unanimous>>

TxPublish ==
  /\ tx.phase = "publishing"
  /\ \/ /\ Publish(Controller) /\ NoFault
        /\ tx' = [tx EXCEPT !.phase = "finishing", !.todo = Admitted,
                    !.result = lease.candidate]
     \/ PublishFails(Controller) /\ Fault /\ tx' = Failed
  /\ UNCHANGED <<runtimeVars, channel, edits, dropped, unanimous>>

TxFinishLocal ==
  /\ Local("finishing")
  /\ tx' = IF Finished(Controller, tx.number, tx.result)
             THEN [tx EXCEPT !.todo = @ \ {Controller}] ELSE Failed
  /\ Finish(Controller, tx.number)
  /\ NoFault /\ UNCHANGED channel /\ TxUnchanged

TxAbortLocal ==
  /\ Local("aborting")
  /\ tx' = [tx EXCEPT !.todo = @ \ {Controller}]
  /\ Abort(Controller, tx.number)
  /\ NoFault /\ UNCHANGED channel /\ TxUnchanged

TxEnd ==
  /\ tx.phase \in {"finishing", "aborting"} /\ tx.todo = {}
  /\ unanimous' = IF tx.phase = "finishing" THEN unanimous \cup {tx.result} ELSE unanimous
  /\ tx' = NoTx(tx.number)
  /\ UNCHANGED <<storeVars, runtimeVars, channel, edits, dropped, faults>>

-----------------------------------------------------------------------------
(* The operator, and the end of a process *)

\* localsetup config recover, for the announced or for a given revision.  The
\* finish it then sends to participants does what their polls do.
OperatorRecovers ==
  /\ \/ NoFault /\ \E x \in Revisions : TakeRecovery(Operator, x)
     \/ NoFault /\ (Announce(Operator) \/ Publish(Operator))
     \/ Fault /\ (AnnounceFails(Operator) \/ PublishFails(Operator))
  /\ UNCHANGED <<runtimeVars, tx, channel, edits, dropped, unanimous>>

\* localsetup config cancel-flush, once the controller has stopped, as the
\* operator is told to make sure.
OperatorCancels(p) ==
  /\ tx.phase = "idle" /\ pending[p] # None
  /\ Abort(p, pending[p].transaction)
  /\ NoFault /\ UNCHANGED <<tx, channel>> /\ TxUnchanged

\* A process ends and is started again on the current revision.
Restart(r) ==
  /\ Fault /\ DropLease(r)
  /\ accepted' = [accepted EXCEPT ![r] = head]
  /\ staged' = [staged EXCEPT ![r] = NoEdits]
  /\ uncertain' = [uncertain EXCEPT ![r] = 0]
  /\ reloading' = reloading \ {r}
  /\ pending' = [q \in Admitted |-> IF q = r THEN None ELSE pending[q]]
  /\ dropped' = dropped \cup EditsIn(staged[r])
  /\ tx' = IF r = Controller THEN NoTx(tx.number) ELSE tx
  /\ channel' = [p \in Participants |->
       IF r = p THEN [Healthy EXCEPT !.broken = TRUE]
       ELSE IF r = Controller THEN [channel[p] EXCEPT !.broken = TRUE]
       ELSE channel[p]]
  /\ UNCHANGED <<edits, unanimous>>

TxNext ==
  \/ TxBegin \/ TxMerge \/ TxCommit \/ TxAnnounce \/ TxPublish
  \/ TxFinishLocal \/ TxAbortLocal \/ TxEnd
  \/ \E p \in Participants : TxExchange(p) \/ TxLose(p) \/ TxUnreachable(p)

RuntimeNext(r) ==
  \/ \E o \in OwnersOf[r] : Stage(r, o)
  \/ Poll(r) \/ Discard(r)
  \/ FlushSeal(r) \/ FlushRecover(r) \/ FlushAnnounce(r) \/ FlushPublish(r)
  \/ FlushReload(r)
  \/ Restart(r)

Next ==
  \/ \E r \in Runtimes : RuntimeNext(r)
  \/ \E p \in Participants : ServeLate(p) \/ Reconnect(p) \/ OperatorCancels(p)
  \/ TxNext
  \/ OperatorRecovers

Spec == Init /\ [][Next]_vars

-----------------------------------------------------------------------------
(* Properties *)

TypeOK ==
  /\ StoreTypeOK
  /\ accepted \in [Runtimes -> 0..Len(objects)]
  /\ staged \in [Runtimes -> Values]
  /\ uncertain \in [Runtimes -> 0..Len(objects)]
  /\ reloading \subseteq Plain
  /\ \A r \in Admitted : pending[r] = None \/
       /\ pending[r].transaction \in 1..tx.number
       /\ pending[r].base \in 0..Len(objects)
       /\ uncertain[r] = 0
  /\ tx.phase \in Phases /\ tx.number \in 0..MaxTransactions
  /\ tx.todo \subseteq Admitted /\ tx.captured \subseteq Admitted
  /\ tx.phase = "publishing" => lease # None /\ lease.who = Controller
  /\ DOMAIN channel = Participants

EditsOf(line) == [i \in DOMAIN line |-> objects[line[i]].content.edits]

\* No edit is lost: it is still staged, or part of the history all readers
\* follow, unless its owner discarded or replaced it or its process ended.
EditsSurvive ==
  \A n \in 1..edits :
    \/ n \in dropped
    \/ \E r \in Runtimes : n \in EditsIn(staged[r])
    \/ \E x \in Range(LineOf(head)) : n \in objects[x].content.edits

\* A group flush that returned with success has been applied by every runtime
\* of the group, whatever was lost, restarted or published since.
SuccessIsUnanimous ==
  \A x \in unanimous \ {0}, r \in Admitted : x \in Range(LineOf(accepted[r]))

\* All runtimes together implement the register: one line of revisions, no edit
\* published twice, no reader off the line or going back.
Register == INSTANCE ConfigurationRegister
              WITH Readers <- Runtimes,
                   line <- EditsOf(LineOf(head)),
                   view <- [r \in Runtimes |-> EditsOf(LineOf(accepted[r]))]

ImplementsRegister == Register!Spec
=============================================================================
