# Formal models of LocalSetup

LocalSetup (`src/`) is a Python program of about 130,000 lines. Three parts of it depend on
order, failure and concurrency. The *agent runtime*, `ls/core/agent`: an owner starts a task, a
model asks for tools, a supervised worker and several brokers carry them out, and everything
that has an effect is recorded in journals that later processes must be able to trust. *Live
configuration*: several processes edit one signed history of settings. *Package application*:
several repositories install from one library, and an installation that fails is undone. This
directory holds TLA+ modules of these parts, the TLC configurations that check them on small
instances, and TLAPS proofs of every safety property that the passing runs check, for all values of
the constants that the modules admit.

All source paths below are relative to `src/`; files without a directory are in
`ls/core/agent/`.

## 1. Inventory

### Operation journal (`operation_journal.py`)

*State*: a directory of numbered records, each naming the digest of its predecessor;
per process the set `_issued` of operations it has begun itself.
*Operations*: `begin` appends an intent, `finish` an outcome; both validate the whole
history (`_states`), write a temporary file, rename it to the next number and flush the
directory under one exclusive lease.
*Hard*: several processes on one directory; a process that dies between intent and
outcome; a rename that is visible but not yet durable; a full journal; a call or a
control request that is presented again.
*Correct when*: one piece of work is open at a time, nothing is performed on an intent
that can still be lost, nothing is recorded twice, an orphan is only ever reconciled, a
settlement is final and always has room.

### Recorded session (`session_owner.py`, `file_broker.py`, `process_broker.py`, `checkpoint_store.py`, `tool_results.py`, `file_recovery.py`, `sdk_recovery.py`, `recovery.py`)

*State*: the session's journal, checkpoints and tool results on disk; the lease of the
session and that of the target file; the file itself; in each run its message history.
*Operations*: start, prepare and continue a run; the checkpoint before each mutating tool;
the replacement of a file and the run of a process; the receipt of a result;
reconciliation of an uncertain replacement; rebuilding a history from receipts.
*Interactions*: a call is answered through the broker; each broker records in the journal;
recovery joins all three stores.
*Hard*: death between any two of intent, check, effect, settlement, receipt and
checkpoint; another writer of the file; the lease dropped between preparing a resumption
and performing it.
*Correct when*: no effect happens twice or without its intent, and a history called
complete says exactly what happened.

### Owner control (`control_run.py`, `control_requests.py`, `remote_control.py`, `control_transport.py`, `control_socket.py`, `control_recovery.py`, `approvals.py`, `steering.py`)

*State*: a control journal, the object `Requests` of the present connection, the stop and
cancellation events, the queue of steering texts, the open approval.
*Operations*: the owner's device seals numbered requests, a relay carries them, a reader
thread serves them; the run's thread takes steering, waits for approvals, revokes control
and joins the reader; afterwards a recovery listener answers queries.
*Hard*: frames lost, repeated, delayed and reordered across connections; two threads on
`requests`; an effect whose completion cannot be recorded; shutdown while a frame is served.
*Correct when*: effects follow the owner's numbering, answers are true, no
handler is entered after revocation and none has an effect after the join, only the owner cancels, and a stopped run ends.

### Heartbeat accounting (`heartbeat_budget.py`, `heartbeat_budget_store.py`, `heartbeat_authorization.py`, `heartbeat_execution.py`, `heartbeat_reconciliation.py`)

*State*: a chain of records (authorize, reserve, result, review) over a policy; for each
action a directory with its frozen inputs and its result.
*Operations*: a controller authorizes and reviews; a dispatcher reserves, freezes, runs one
or two phases, retains a result and records it; reconciliation records a retained result.
*Hard*: overlapping dispatchers; death in the middle of a publication; an action that is
dispatched again; an allowance that two phases share.
*Correct when*: what can have been used was charged first and fits the budget, one
dispatcher works at a time, a result on the chain has its evidence, a stopped task stays
stopped.

### Runtime selection and registration (`runtime_install.py`, `runtime_lock.py`, `registration_owner.py`, `registration_refresh.py`, `registration_plan.py`)

*State*: release slots with a status, `current.json`, the shared/exclusive runtime lease;
in the bin directory the command, its receipt, a pending intent, copies of old receipts.
*Operations*: install, activate, reselect, use; plan, register, refresh, recover.
*Hard*: a death between or inside publications; an upgrade beside workers; an edit by the
owner between a plan and its application.
*Correct when*: what is selected is complete and stays selected while it runs; when nothing is
pending the command and its receipt agree; an edited command is not overwritten.

### Retained events (`event_buffer.py`, `event_delivery.py`, `event_context.py`)

*State*: one file with the last events of a run; in the writer the last bytes it knows of, a
flag `failed`, a lock. *Operations*: append, read a page from a cursor, pause and resume,
select a page as context. *Hard*: a publication whose outcome is unknown; a reader that
falls behind the eviction. *Correct when*: sequence numbers are never used twice, a
reader is told of every gap, and what the owner was shown survives a loss of power.

### Worker supervision (`supervisor.py`, `worker_lifetime.py`, `broker_rpc.py`)

*State*: the worker process and its group, the monitor thread, the pipes, the broker channel.
*Operations*: spawn, watch, dispatch a broker request, kill, reap. *Hard*: deadline,
cancellation and exit racing each other and a broker callback; a signal after the process
number was released. *Correct when*: no signal goes to a number that is no longer owned,
the outcome says what happened, nothing of the group outlives the call, and the group is
stopped after a cancellation or the deadline even if a callback stalls.

### Live configuration (`ls/core/live_configuration*.py`)

*State*: on disk the signed revisions, each naming its predecessor, the intent, HEAD and one
exclusive lease; in each runtime the accepted revision, the staged edits, the candidate whose
publication is uncertain, and the capture a group asked of it.
*Operations*: stage, discard, poll, flush; a group flush that captures, prepares, commits once and
finishes over one channel per participant, or aborts; recover and cancel-flush by an operator.
*Hard*: a write that may or may not have happened, a writer that dies between intent and HEAD,
an exchange lost before or after it was served, a request served after its sender gave up, edits
staged after a capture, runtimes outside the group that publish meanwhile.
*Correct when*: all follow one line of revisions, no edit is lost or published twice, success
means that every participant applied the revision.

### Package application (`ls/core/apply*.py`, `detach.py`, `shared_rollback.py`, `registry.py`, `lockfile.py`, `locking.py`)

*State*: the library of packages and its registry, shared by all repositories; in each
repository an adapter that exposes packages, a lockfile, and the journals of past operations.
*Operations*: apply a plan, detach, roll back, each under the package-root lock; restoration after
a failure. *Hard*: a death between any two steps, of which nothing is read afterwards; an exception
between the two try blocks of an apply (`apply.py:551-575`), which no handler sees; a failure of the
restoration itself; packages that other repositories use.
*Correct when*: the journal of an abandoned operation names an unharmed copy of all it changed, a
restoration leaves nothing changed but what it reports, and what a repository installed stays
whatever becomes of the others' operations.

### The rest

| Part | Where | Why not modelled, or when |
| --- | --- | --- |
| Sandbox and resource groups | `sandbox.py`, `resource_group.py` | kernel objects; the life of a group may follow supervision |
| Provider, SDK iteration, command line | `provider_client.py`, `sdk_*.py`, `run_cli.py`, `cli.py` | conversation and parsing; a model's call is an arbitrary choice in `RecordedSession` |
| Profiles, capabilities, credentials | `profiles.py`, `installed_capabilities.py`, ... | validation of files, no shared state |
| Compaction, completion, portable history | `compaction_*.py`, `completion_*.py`, `portable_*.py` | transformations of a settled history |
| Release assembly | `release_*.py`, `native_*.py` | one process building artefacts |
| Terminal commands | `ls/core/terminal_ops/` | planned, as far as it is not a driver of tmux |
| OpenPGP containers and trust | `ls/core/openpgp/` | planned: publication job, trust transitions; cryptography stays out |
| Client state, context index | `ls/core/client_state/`, `ls/core/context_index/` | a database's transactions |
| Work queue, repository, documentation and interface tools | `ls/tools/`, `ls/core/github_repo/`, ... | drivers and validators |

`PROJECT.json` lists these components with their files, and the hazards of the code with
the line where each bites and the properties that would notice.

## 2. Modules

| Module | Lines of code it models | What it is |
| --- | --- | --- |
| `OperationLog` | `operation_journal.py` `_request`, `_states`, `_append` | operators only: records, and which history the journal admits |
| `OperationJournal` | `operation_journal.py` `begin`, `finish`, `_append`, `_load` | the journal on disk and its processes |
| `OperationLogProofs` | - | lemmas about histories that the proofs of the three journals share |
| `OperationLedger` | - | the abstract promise: absent, open, settled, one open at a time |
| `OperationJournalProofs` | - | theorems about `OperationJournal`, and that it implements `OperationLedger` |
| `RecordedSession` | session, brokers, recovery | several runs of one session, extends `OperationLog` |
| `RecordedSessionProofs` | - | theorems about `RecordedSession` |
| `OwnerControl` | control of a run | device, relay, reader thread, run thread; extends `OperationLog` |
| `OwnerControlProofs` | - | theorems about `OwnerControl` |
| `HeartbeatAccounting` | `heartbeat_*.py` | controller, dispatchers, chain and evidence |
| `HeartbeatAccountingProofs` | - | theorems about `HeartbeatAccounting` |
| `Registration` | `runtime_install.py`, `registration_*.py` | installer, workers, writers, owner |
| `EventBuffer` | `event_buffer.py`, delivery, `write_private_file` | one writer, readers with cursors, display |
| `WorkerSupervision` | `supervisor.py`, `worker_lifetime.py`, `broker_rpc.py` | owner thread, monitor thread, worker and its descendants |
| `RunProofs` | - | theorems about `WorkerSupervision` and `EventBuffer` |
| `ConfigurationStore` | `live_configuration.py` | the store of revisions and its writers |
| `ConfigurationRegister` | - | the abstract promise: one line of revisions, readers that follow it |
| `LiveConfiguration` | `live_configuration_runtime.py`, `_participant.py`, `_group.py`, `_channels.py` | runtimes, group and operator over one store, extends `ConfigurationStore` |
| `LiveConfigurationProofs` | - | theorems about `ConfigurationStore` and `LiveConfiguration`, and that it implements `ConfigurationRegister` |
| `PackageApplication` | `apply*.py`, `detach.py`, `shared_rollback.py`, `registry.py` | repositories on one library, one operation at a time |
| `InstallationProofs` | - | theorems about `Registration` and `PackageApplication` |
| `MC...` | - | small instances and symmetry sets |

How the modules correspond to the code:

* **OperationJournal.** `log` is the directory, `synced` the part a flush has made durable,
  `appending` the lease holder between rename and flush. `Rename` is `_append` up to the
  rename (every check of `_states` is in `Admits`; `Fits` has both limits of `:181`, the count of records and the
  total of bytes, each with the reserve), `Acknowledge`
  the flush and the return, `SyncFailure` a flush that raises. `PowerLoss` may take back the
  renames after the last flush. The size of a record's canonical JSON is the constant
  `RecordBytes`, any size up to `MAX_RECORD`; `Bytes` is the total `_load` adds up. `performed` and `orphans` are history variables.
* **RecordedSession.** A run's `pc` names its place; the leases are the places that hold
  them. The recorded replacement is five steps (`LockTarget`, `BeginWrite`, `CheckTarget`,
  `Replace`, `FinishWrite`), because another writer or a death may come between them.
  `Stop` stands for every refusal, cancellation, exception and kill: nothing is undone in any
  of them, only leases are released. An append to the journal is one step here; that this
  loses nothing is what the journal's own properties say.
* **OwnerControl.** `serving.step` follows a frame through `Requests.__call__`: authorized,
  intent recorded, handler entered, handler applied, result formed, outcome recorded, receipt
  sealed. `Enter` tests `closed` and consumes the number, `Apply` is the effect of the handler: nothing is held
  between them, so the run's thread may close the object there, and the handler acts all the same.
  `FetchRequests` and `CloseRequests` split the assignment `requests.closed = True`, since
  the reader may replace `requests` in between. Sealed frames stay deliverable for ever.
  `cancelled` is set by what control does; a cancellation by signal or deadline is covered by `SetStop`.
* **HeartbeatAccounting.** A head is the length of the chain. `DiesAppending` has the three
  outcomes of a death inside `_publish`: temporary name only, record with two links, record
  published and reply lost; the first two leave `residue`, which every load refuses until
  `Tidy`.
* **Registration.** A file is its content and its number of links; `DiesLinking` leaves two.
  The owner edits only while no writer holds the bin lease: what happens to an edit in the
  middle of a rename is outside what the leases promise ("these leases coordinate LocalSetup
  writers").
* **EventBuffer.** `BeginAppend` is `append` up to `write_private_file`, whose rename and flush
  are `Replace` and `Acknowledge`; an append raises in `PublicationFails`, before or after the
  rename, and leaves `failed` set. `Display` is `progress` in `run_cli.py`. A page is
  `Read`, applied to the file (`ReadFile`) or to the writer's last acknowledged bytes
  (`ReadLive`).
* **WorkerSupervision.** `owner` is the place of `supervise`, `monitor` that of `_watch`. `kill`
  is two steps under the lock (`BeginKill` finds the worker unreaped, `SignalGroup` signals),
  because `process.wait` (`Reap`) takes no lock. A signalled process is `doomed` until it
  ends. A callback (`handling`), a peer that completes its frame (`Receive`) and one that
  takes an answer (`Reply`) may take for ever. Assumed, as the code demands of its embedder:
  nobody else reaps the worker. An interrupt during the teardown is not modelled.

* **ConfigurationStore, LiveConfiguration.** `lease.next` is the write that comes next in `commit` or
  `recover`; `...Fails` are writes whose effect is unknown. A digest is a revision's place in
  the order of sealing. `tx` is the local state of `flush_all`, one step for each request it
  sends; `TxExchange` serves the request in the same step because the controller waits, `TxLose`
  leaves it in the channel for `ServeLate`. The runtime's lock is `Locked`: a runtime that is
  flushing refuses requests and takes no edits. The history variables `dropped` and `unanimous`
  record which edits are gone with consent or with their process, and which flushes succeeded.
* **PackageApplication.** An operation is a plan, the sequence of its steps, executed under the lock.
  Each change of a path is four steps (copy, note the copy in the journal, remove, put) with a
  failure or a death possible before each. `Fails` is a failure that a handler sees; `Escapes` an
  exception between the two try blocks of an apply, which leaves packages and adapter new, registry
  and lockfile old, and restores and reports nothing. `touched` is the journal in memory, of which the first
  `noted` entries are on disk. `Restore` is one turn of the loop of `restore_failed_mutations`. After
  a restoration that fails or dies (`halted`) the documents ask for a person, and the run ends.

Operators whose comment begins with "Variant with a fault" are not part of any behaviour.
Each is a plausible mistake in one definition; `PROJECT.json` pairs it with the property
that finds it.

## 3. Runs

| Run | Instance | Shows |
| --- | --- | --- |
| `journal` | 2 processes, 3 operations (a work kind and owner control), 1 call, 3 requests, 5 records, 10 bytes, records of 1 and 3 | write-ahead, no repeats, orphans, serial order, the limits, the reserve and the refinement of the ledger, over crashes and power loss |
| `session` | 3 runs, 2 calls, 2 operations, 3 contents, other writers with and without the lease | at most once, exact histories, honest settlements, nothing unseen |
| `control_relay` | 3 requests, numbers to 3, 2 connections, cancel and steer | order, true answers, revocation, steering |
| `control_end` | 2 requests, 2 connections, 2 challenges, socket or descriptor, fair | late approvals decide nothing, a stopped run ends |
| `heartbeat` | 2 dispatchers, 4 actions of 3 operations, 8 records | budget, reservation, evidence, a stopped task stays stopped |
| `registration` | 3 releases, 2 writers, 1 worker | selection, whole registrations, kept edits and receipts |
| `registration_interrupted` | 2 releases, 1 writer | a violation, see section 6 |
| `events` | 2 readers, 2 sizes of text, 2 events kept, pages of 2 | every number accounted for, given is durable |
| `supervision` | 2 broker requests, fair | owned signals, true outcomes, the group is stopped |
| `configuration` | 2 owners; a plain runtime, a controller, a participant, an operator; 2 edits, 2 group flushes, 2 revisions, 2 faults | no edit lost, success is unanimous, the intent leads HEAD, the refinement of the register |
| `application` | 2 repositories, 2 packages in 2 versions, 4 operations, 2 faults | repairable when abandoned, restorations are reported, repositories do not disturb each other |
| `application_late` | the same, 2 operations | a violation, see section 6 |

Why the bounds are enough to be interesting. Five journal records hold two complete
operations and an orphan, or an operation that is reported uncertain and then
reconciled, and they reach the limit of records, so that the reserve decides; two intents of the
largest size beside small outcomes reach the limit of bytes first; three control requests
leave two bypassing requests open beside a third. Three runs let one run die, a second
reconcile or recover and a third continue. Two connections and three numbered requests contain a
repetition over a new connection, a gap and an overtaking. Eight accounting records hold an
attempt, its reconciliation and review, a second attempt by another dispatcher, and the
beginning of a third, one more than the limit of attempts without progress allows. To keep this
within reach the run has a constraint, `CompeteEarly`: the dispatchers compete until the second
reservation, and later attempts are dispatched one at a time, which is enough since nothing but
the chain is carried from one attempt to the next. Three releases give
an upgrade between a plan and the recovery of an older one. Two retained events and a total
of five give evictions by number and by size, readers behind them, and the end of the
budget; supervision has one worker, and two requests let one wait while the other is served. Two
edits and two flushes let a participant stage after a capture, or let a runtime outside the group
publish in between; two faults lose an answer and then a write, or a write and the process that
should recover it. Four operations let a repository install, another one install over it, and
either of them be replaced, detached or rolled back after an operation of the other has failed, died or raised.

Deadlock is checked except in the control runs, where after the run and the recovery
listener there is nothing left to do, and in the application runs, which end with the last
operation.

Fairness is assumed in `control_end` and `supervision`. In the first: weak fairness of the reader thread's own steps
(`Reading`) and of the run thread's shutdown (`Ending`). Both are threads the operating
system schedules, and neither waits for another party within such a step. Accepting a
connection and reading a frame depend on the relay and are not fair; the stop event ends
the waits for them. In `supervision`: weak fairness of the monitor thread and of the steps
of the owner that wait for nobody (`Owner`). Callbacks and peers are not fair, which is the
case the property is about; that a flag cannot be read (`WatchBreaks`) is not forced.

The type invariants of `OperationJournal` and `WorkerSupervision` are checked by runs and proved,
those of `RecordedSession`, `OwnerControl`, `HeartbeatAccounting`, `Registration`, `ConfigurationStore`,
`LiveConfiguration`, `EventBuffer` and `PackageApplication` are proved.

## 4. Proofs

### The journal

`OperationJournalProofs` proves, for any number of processes, operations, calls, requests
and any limits and sizes (assumptions: the limits are natural numbers, a record has
a positive size up to the largest, `None` is not a process, the kinds
are the journal's kinds):

* `TypeCorrect`: the type invariant, with the limits of records and bytes within which `_load` accepts
  the directory;
* `Serial`, `NothingReplayed`, `WriteAheadHolds`, `SettlementFinal`, `OrphansReconciled`,
  `ReserveIsEnough`: the properties the runs check;
* `JournalImplementsLedger`: the journal implements `OperationLedger` under the mapping of its
  durable prefix, in which the status and cancel requests that may overtake others do not count.

The argument. None of the properties is inductive alone. `TypeInv` adds to the type
invariant that a writer between its rename and its flush has something to flush
(`Unflushed`). `HistoryInv` (an operation begins once,
its outcomes follow its intent, it is settled once) is what `Admits` preserves when one
record is appended and what every prefix inherits when power is lost; `StepOnLog` reduces each
action to one of the two and `PrefixReading` relates the readings of a prefix to those of the
history. `Serial` and `NothingReplayed` follow from `HistoryInv`. `Known` (what a process has issued
or performed has its intent in the durable prefix) gives `WriteAheadHolds`; `DurableGrows` gives
`SettlementFinal`; `OrphanInv` adds that an operation has at most one issuer and that an orphan has
none. `GatingReading` and `GatingGrows` say what the operations that gate others look like in a
prefix, and `LedgerStep` maps each step to a step of the ledger or a stutter.

`OperationLogProofs` keeps what the proofs of the journal, of the session and of owner control say
of a history: what one more admitted record adds to it (`AppendReading`, `AppendCoherent`,
`AppendOpens`, `AppendTells`), and what a prefix of it still says (`PrefixReading`,
`PrefixCoherent`).

### The recorded session

`RecordedSessionProofs` proves, for any runs, calls, operations and contents (assumptions: a call is
a pair of a run and an identifier; `None` is none of the values it stands beside),
`SessionTypes`, `EffectsUnderIntents`, `ChangesAreSeen`, `EffectsAtMostOnce`, `SuccessIsReal` and
`HistoriesAreExact`.

The argument. One run owns the session (`OneOwner`), and while it does nobody else appends to the
journal or takes up a history; so its place tells which operation is open (`OpenInv`).
`EffectsAtMostOnce` needs `EffectInv`: calls that a working run has not returned are in nobody else's history
(`OwnCalls`), and the count of effects of a call is given by the place of the run (`EffectsRecorded`).
`HistoriesAreExact` needs `HistoriesInv`: a working run accounts for every operation since its history
began (`Accounts`), a complete checkpoint for all up to its frontier (`Exact`), and an interrupted one
for all but those of calls it has not returned (`Partial`), which is what lets recovery complete it from
results and settlements.

### Owner control

`OwnerControlProofs` proves, for any requests, numbers, connections and challenges (assumption: `None` is not a
request being served), `ControlTypes`, `OrderOfEffects`, `AnswersHold`, `SteeringIsExact`, `ApprovalIsOwn` and
`RevocationIsFinal`.

The argument. The private journal numbers the requests in ascending order (`Numbered`); a request that
has been begun is its last intent, and before its effect all effects have smaller numbers (`ServingInv`). So
an effect is always appended above the others, over as many connections and recoveries as there are.
`EffectsInv` and `RepliesInv` say that a settled request had its effect and that answers rest on what is settled.
`RevocationIsFinal` needs `EndingInv`: once the run's thread has fetched a `Requests` object that the reader
has replaced, the reader no longer serves, and otherwise the object it serves is the closed one, so that `Enter` is
ruled out; a handler entered before may act until the reader is gone, which is when the join returns.

### Heartbeat accounting

`HeartbeatAccountingProofs` proves, for any actions, budget, limit and number of dispatchers (assumptions: those
of the policy, in which a grant is of an action of its operation, and `None` is no result and no
reservation), `HeartbeatTypes`, `SpendingIsCharged`, `ReservedAlone`, `ChainHasEvidence` and `StopIsFinal`.

The argument. What the chain says is a replay. Its recursive function is met with a lemma of its own:
sets of natural numbers have a least element (`Smallest`, from the well-foundedness of inclusion among finite
sets), hence a replay exists for every chain (`ReplayExists`) and one more record has its effect on the
standing (`ReplayAppend`). `RecordedStep` reduces each action to an admitted record or none and says who
recorded it. While a dispatcher works nothing is recorded at all (`NothingWhileWorking`): its reservation waits
for a result, and none is kept yet that could be recorded. That makes it work alone (`OneWorks`) and lets the sum of
what is spent and what is left to its phases stay within what is charged (`SpentInv`), although the
allowance is shared out over two phases (`Shares`). `KeptInv` says that directories are only those of granted and
reserved actions, `StreakInv` that the streak bounds every stretch of reviews without progress up to
the end of the chain.

### Registration

`InstallationProofs` proves, for any releases, writers and workers (assumption: `None` is none of
the files and plans it stands beside, and the owner's command is no release), `RegistrationTypes`,
`SelectedReleaseStands`, `WholeOrPending`, `EditsStay` and `PreviousStays`.

The argument. The runtime lease excludes an installation while a release is used (`RuntimeInv`), and one
writer at a time has the bin directory (`OneWriter`). `PhaseInv` says what each step of a publication
finds of the plan and of the steps before it; `KeptInv`, which outlives the writer, that the receipt an
intent is about to replace has been copied, so that whoever recovers may replace it.

### Package application

`InstallationProofs` proves, for any repositories, versions and bounds and any finite set of packages,
`PackageTypes`, `RepairableHolds`, `FailuresAreReported` and `ReceiptsStayAgreed`. The assumptions
are those of the module: the packages are finite, the bounds natural numbers, and `Absent` is no set
of packages, no receipt and no operation.

The argument, the plans. None of the three properties can be seen from one step: they depend on what
the whole plan does. `Orderly` says of a plan, or of what is left of one, that it changes a path only
when a noted copy of it exists or an earlier step of the plan sees to it, that it never copies what it has changed, and
that it replaces whatever it clears. `Part` adds what a part of a plan needs, saves and changes; parts can be put
one after the other (`PartsFollow`) and, for every element of a set, in any order (`PartsOfAll`). So the three
plans of the code lead to what `Outcome` says (`ApplyLeads`, `DetachLeads`, `RollbackLeads`), and in that outcome the
receipts of all repositories agree if they did before (`ApplyPrepared`, `DetachPrepared`, `RollbackPrepared`): what
is pruned or removed is in nobody's registration (`OthersAgree`).

The argument, the steps. `Operating` holds of an operation under the lock. There is a goal which the rest
of its plan reaches from what is on the disk (`Underway`) and in which receipts agree (`Intended`), as they did in
what it found. Until the copies are removed the noted ones account for every change (`Repairs`); a copy is what was there
before, or was removed by the cleaning of an apply (`Copied`); and what is not as before is reported or still to be put
back (`Changed`). `Advances` shows for all steps of a plan at once that this is kept. A commit finds the goal reached, a
restoration without errors finds what was there before, and a death before any restoration finds registry and
lockfiles either as before or as intended (`Clearable` is everything else), hence those of the
other repositories untouched.

### The supervision of a worker

`RunProofs` proves, for any number of requests (assumption: `None` is none of the
strings it stands beside), `SupervisionTypes`, `SignalsStayOwned` and `OutcomesAreTrue`.

The argument. That no signal is late rests on who may hold the lock (`LockInv`): a monitor only
while it is about to signal, the owner only in its two places of killing, and no monitor that was
joined. Hence the worker is reaped (`IdentityInv`) when nobody can be between the two halves of
`kill`. That outcomes are true rests on reasons (`ReasonInv`): whoever signals a worker that still
runs has recorded a status or an error first, so that a worker which ended by the signal
(`Explained`) cannot be reported by its exit; and `GroupInv` says that nothing starts in the group
after the last signal. There is one lemma for each part of the invariant, with a step for each
action that can disturb it.

### The retained events

`RunProofs` proves, for any texts and their sizes, any limits and any readers, `BufferTypes`,
`ReadersAccount` and `GivenStaysDurable`. The assumptions are those of the module: sizes and
limits are positive, and `Absent` is no snapshot and no event.

The argument. Every snapshot, on disk, durable or in memory, holds consecutive numbers up to its last, each with the
text that was first published under it (`Faithful`). What is being published continues the last
acknowledged snapshot (`BuildingInv`), and a writer that has not failed has acknowledged all that was published
(`WriterInv`), so that no number is used for a second text. Eviction keeps an end of the events
(`EvictedIsEnd`), since an event too large to be kept alone is refused; a page therefore splits the numbers it passes
into a gap and returned events (`PageAccounts`). What was given is never above the last durable
number (`GivenInv`), which no loss of power lowers.

### Live configuration

`LiveConfigurationProofs` proves two groups of theorems. About the store alone (`StoreSpec`), for
any writers, contents and number of revisions: `StoreTypes`, `IntentLeads`, `IntentIsBinding` and
`LineOnlyGrows`. An announced revision is HEAD or continues it, nothing else happens to the store until it
is published, and the history readers follow only grows. About runtimes, group, channels and
operator over this store (`Spec`), for any runtimes, owners and bounds: `LiveTypes`,
`UsesTheStore` (the composition implements `StoreSpec`, so that the theorems of the store hold of it; `LiveIntentLeads`
is one of them), `EditsAreKept`, `SuccessWasUnanimous` and `LiveImplementsRegister`, the refinement
of `ConfigurationRegister`. The assumptions are those of `ConfigurationAssumption`: the writers are the plain
runtimes, the controller and the operator, who are distinct; contents are what a writer can seal; the
bounds are natural numbers; `None` is nothing else.

The argument, the store. `IntentLeadsHead` is not inductive, since it does not say what a
writer is about to put into HEAD. `LeaseFollows` does: from the check of `commit` or `recover` to the
last write the candidate continues HEAD or is HEAD, and nothing else is announced. `Chained` says
that a revision's predecessors are exactly the line of its parent, which makes publication an
append; `Prefixes`, that the line of a revision on a line is the part of it that ends there.

The argument, the composition. That no edit is published twice or lost depends on every runtime
knowing which of its staged edits a revision may already carry. `Numbered` says that an edit is staged
by one runtime for one owner, `Fresh` that what is staged is in no revision its runtime has seen,
`PublishedOnce` that no revision carries an edit of an earlier one. Three parts say which
revision may carry what is still staged: the uncertain candidate (`UncertainIsOwn`), the candidate
under the lease (`FlushIsOwn`) and the revision of the transaction that captured the
runtime (`CaptureIsOwn`). For the group, the answers a controller has collected are what the participants still hold
captured (`FrozenIsCaptured`), and unpublished (`FrozenIsFresh`); a capture request that is delivered late cannot belong
to a transaction that has committed or may (`RequestsAreOld`); a transaction that has not
committed has no revision (`CommitsAreKnown`); and whoever has finished has accepted the result
(`FinishedAccepted`), which gives `SuccessWasUnanimous`. Nearly all actions are one of few kinds
of step: one runtime stays where it is or reads HEAD and HEAD moves by at most one (`OrdinaryKeeps`),
the transaction gets on or gives up and leaves the runtimes alone (`TransactionKeeps`,
`RetreatKeeps`), an edit is staged, a revision is sealed. `StepsReadOrPublish` sorts them once more for the
refinement: readers follow the line, or HEAD moves to a child of its own that carries new edits.

### What stays with TLC

Liveness (`StopEnds`, `StopsTheGroup`) is only model-checked: the prover has no
rules for fairness. The two findings are counterexamples, found by TLC.

## 5. What is left out on purpose

* Digests, signatures and encodings: a digest is the thing it identifies.
* The hash chain of a journal is the order of its sequence.
* Power loss is modelled for the journal and for retained events only. The session model assumes that checkpoints and
  results, which are flushed before they are acknowledged, stay.
* Equal values staged by two owners, edit sets kept in files and the validation of values in live
  configuration; that two edits never have the same value is what lets a capture be told apart.
* Personal owners, detaching a part of the clients or without a journal, repair and migration of
  repositories, and the contents of plans and adapters in package application. External packages,
  which `install_external_snapshot` publishes with no journal entry (`apply_packages.py:136-141`): none
  of the properties holds of them, a failed apply leaves them in place without a report.
* The size of a record in `RecordedSession` and `OwnerControl`, where every record has the largest one.
* The tool and time dimensions of the heartbeat budget, which behave as tokens do.
* The initialization of an accounting store, and of a session.
* Time: a deadline is a step that may come whenever the code would notice it.

Situations that the models reach and that are as the code intends, but that a reader may not
expect: a plain runtime whose uncertain candidate was overtaken by another writer cannot flush
or discard until it is restarted (`live_configuration_runtime.py:135-155`); a group flush that is
refused because of somebody's unresolved intent cannot abort either, and its captures stay until
that intent is settled (`live_configuration_participant.py:71-75`); a death between the restoration
of the registry's removal and of its copy (`apply_journal.py:78-81`) loses the other repositories' entries,
so that their packages count as unreferenced; and a rollback without a lockfile, after an interrupted
first application, knows of no adapter to clear (`shared_rollback.py:85`). A participant whose
published proposal another writer overtakes before it polls never learns of it: its capture stays, and it
refuses further captures until an operator cancels it or it is restarted (`live_configuration_participant.py:96`,
`:130`). An
exception at `apply.py:551-575` is restored by nobody and leaves the receipts of its repository in
disagreement, and in the last step of an apply (`:636-638`) the copies go while the journal on disk still
says "started": `ReceiptsAgree` and `Repairable` exclude these two and say so. An
interval remains between the test of `closed` and a handler's effect (`control_requests.py:88`, `:113-121`), so
that one handler may still act after control is revoked, though not after the join. A detach whose restoration
and then the write of the journal fail adds no note to the exception, since the write comes first
(`detach.py:229-234`): `errors` is then known to nobody, and `FailureIsReported` speaks of what has been
collected, not of what was delivered.

## 6. Findings

`registration_interrupted`: `ls/docs/LSCLI_RUNTIME.md:1585` says the recovery primitives "also
reconcile an interrupted fresh registration". `_publish` (`registration_owner.py:55-57`) links the
new name and then unlinks the temporary one. A process that dies in between leaves a
file with the recorded content and two links, and `_read` (`:35`) refuses every file whose
link count is not one, so `recovery_plan` raises until the temporary name is removed by
hand. The state is safe, nothing is overwritten, but it is not one that recovery accepts.

`application_late`: `ls/docs/ADAPTER_OWNERSHIP.md:115` says that the backup of an adapter "restores the prior
directory if a later write fails". `_apply_plan_unlocked` removes the copies (`ls/core/apply.py:637`) before
the last write of the journal (`:638`), and both are inside the `try` whose handler restores. If that write fails, or
the removal stops half way, the restoration finds copies missing: paths that existed keep their
new content, which is reported, and paths that were new are removed. `detach.py`, `shared_rollback.py` and
`personal_detach.py` remove their copies after the commit and do not have this.

## 7. Plan

Order of work, most important first:

1. journal, ledger, proofs: done;
2. recorded session: done and proved;
3. owner control: done and proved, but for liveness;
4. heartbeat accounting: done and proved;
5. registration: done and proved;
6. retained events: done and proved, but for the selection of context (`event_context.py`);
7. worker supervision: done and proved, but for liveness;
8. live configuration: done and proved, but for edit sets in files and for liveness;
9. package application: applying, detaching and rolling back are done and proved; personal owners,
   whose references outlive repositories, to come;
10. the remaining operations of the file broker; the publication job of OpenPGP containers;
    command sessions.
