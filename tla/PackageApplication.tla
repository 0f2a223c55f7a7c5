-------------------------- MODULE PackageApplication --------------------------
(***************************************************************************)
(* Applying an install plan to a repository, detaching and rolling it back *)
(* (ls/core/apply.py, apply_journal.py, apply_packages.py, detach.py,      *)
(* shared_rollback.py).                                                    *)
(* Several repositories, the targets, share a library of packages and its  *)
(* registry.  An operation holds the package-root lock; before it changes  *)
(* a path it copies it beside itself and names the copy in a journal on    *)
(* disk; when a step fails it restores what the journal names, in reverse. *)
(* A process that dies leaves journal and copies behind, and the next      *)
(* operation does not read them.                                           *)
(*                                                                         *)
(* Abstracted: of the paths only packages, the registry, one adapter and   *)
(* one lockfile of each target are kept; the manifest, agents, markers,    *)
(* the legacy lockfile and the runtime helper are saved, changed and       *)
(* restored as these are.  A repository is detached from all its clients   *)
(* at once, with a journal, as detach.py keeps one where an adapter is     *)
(* shared or its neighbours are preserved.  Left out are personal owners,  *)
(* and external packages, which install_external_snapshot publishes        *)
(* without a journal entry: what is said of packages is said of those the  *)
(* journal names.                                                          *)
(***************************************************************************)
EXTENDS Naturals, Sequences, FiniteSets, SequencesExt

CONSTANTS
  Targets,        \* repositories
  Packages,
  Versions,       \* contents of a package
  Absent,         \* nothing at a path, no operation
  Torn,           \* missing in part or whole, as while it is being replaced
  MaxOperations,  \* bound of operations
  MaxFaults       \* bound of failed steps and deaths

ASSUME PackageAssumption ==
  /\ IsFiniteSet(Packages)
  /\ MaxOperations \in Nat /\ MaxFaults \in Nat

Package(p) == <<"package", p>>
Adapter(t) == <<"adapter", t>>
Lockfile(t) == <<"lock", t>>
Registry == <<"registry", Absent>>

Paths ==
  {Package(p) : p \in Packages} \cup {Registry}
    \cup {Adapter(t) : t \in Targets} \cup {Lockfile(t) : t \in Targets}

VARIABLES
  disk,        \* what is at each path
  tx,          \* the operation under the lock, or Absent
  operations,  \* operations begun
  faults,      \* failed steps and deaths so far
  unsettled,   \* history: targets whose last operation was abandoned
  damaged,     \* history: packages that were whole when it was, and are no longer
  halted       \* history: a restoration failed or died, and the operator must act

applicationVars == <<disk, tx, operations, faults, unsettled, damaged, halted>>

Phases == {"acting", "cleaning", "committing", "failing", "restoring", "reporting"}

\* A lockfile: what was installed, and whether the adapter exposes it.
Receipt(packages, attached) == [packages |-> packages, attached |-> attached]

Receipts == [packages : SUBSET Packages, attached : BOOLEAN]

\* Whatever there may be at some path.
Contents ==
  {Absent, Torn} \cup Versions \cup (SUBSET Packages) \cup Receipts
    \cup [Targets -> (SUBSET Packages) \cup {Absent}]

\* An operation: its plan, the copies it has made, the contents it has found.
Operation ==
  [target : Targets, kind : {"apply", "detach", "rollback"}, phase : Phases,
   todo : Seq([do : {"save", "note", "clear", "put"}, path : Paths, value : Contents]),
   touched : Seq([path : Paths, existed : BOOLEAN, copy : Contents]),
   noted : Nat, errors : SUBSET Paths, applied : BOOLEAN,
   before : [Paths -> Contents], settles : BOOLEAN]

\* Absent is told from every set of packages, receipt and operation.
ASSUME AbsentAssumption ==
  /\ \A packages \in SUBSET Packages : Absent # packages
  /\ Absent \notin Receipts
  /\ Absent \notin Operation

NoTargets == [t \in Targets |-> Absent]

\* A registry without targets is removed.
Nothing(path) == IF path = Registry THEN NoTargets ELSE Absent

ApplicationInit ==
  /\ disk = [path \in Paths |-> Nothing(path)]
  /\ tx = Absent
  /\ operations = 0
  /\ faults = 0
  /\ unsettled = {}
  /\ damaged = {}
  /\ halted = FALSE

Fault == faults < MaxFaults /\ faults' = faults + 1

Exists(path) == disk[path] # Nothing(path)

Whole(p) == disk[Package(p)] \in Versions

Attached(t) == Exists(Lockfile(t)) /\ disk[Lockfile(t)].attached

-----------------------------------------------------------------------------
(* Plans: the steps of an operation, in order.  save copies a path, note     *)
(* names the copy in the journal on disk, clear and put change the path.     *)

Step(do, path, value) == [do |-> do, path |-> path, value |-> value]

Saved(path) == <<Step("save", path, Absent), Step("note", path, Absent)>>

\* A directory is removed or emptied before its new content is in place.
Rewritten(path, value) == <<Step("clear", path, Absent), Step("put", path, value)>>

\* A file is replaced at once.
Written(path, value) == <<Step("put", path, value)>>

\* Variant with a fault: the journal is written when the path has been changed.
ReplacedFirst(path, value) ==
  <<Step("save", path, Absent)>> \o Rewritten(path, value) \o <<Step("note", path, Absent)>>

Replaced(path, value) == Saved(path) \o Rewritten(path, value)

ForEach(set, Op(_)) == FlattenSeq([i \in 1..Cardinality(set) |-> Op(SetToSeq(set)[i])])

Referenced(registry) == UNION {registry[t] : t \in {u \in Targets : registry[u] # Absent}}

Present == {p \in Packages : Whole(p)}

\* What is left of a torn package may still carry the mark of a managed one.
Leftovers == {p \in Packages : disk[Package(p)] = Torn}

\* Variant with a fault: what this target does not select is pruned.
UnreferencedHere(selected, registry, leftovers) ==
  (Present \cup leftovers) \ registry[CHOOSE t \in Targets : registry[t] = selected]

\* _prune_unreferenced_managed_packages
Unreferenced(selected, registry, leftovers) ==
  (Present \cup leftovers) \ (selected \cup Referenced(registry))

ApplyPlan(t, selected, version, leftovers) ==
  LET registry == [disk[Registry] EXCEPT ![t] = selected]
  IN  ForEach(selected, LAMBDA p : Replaced(Package(p), version))
        \o Replaced(Adapter(t), selected)
        \o Saved(Registry) \o Written(Registry, registry)
        \o ForEach(Unreferenced(selected, registry, leftovers),
                   LAMBDA p : Replaced(Package(p), Absent))
        \o Saved(Lockfile(t)) \o Written(Lockfile(t), Receipt(selected, TRUE))

\* Managed packages no other target refers to; without a registry, those the
\* lockfile names.
Candidates(t, leftovers) ==
  LET others == Referenced([disk[Registry] EXCEPT ![t] = Absent])
      locked == IF Exists(Lockfile(t)) THEN disk[Lockfile(t)].packages ELSE {}
  IN  ((Present \cup leftovers) \cap IF Exists(Registry) THEN Packages ELSE locked) \ others

\* The packages stay, whoever refers to them.
DetachPlan(t) ==
  Saved(Lockfile(t)) \o Saved(Registry) \o Replaced(Adapter(t), Absent)
    \o Written(Lockfile(t), Receipt(disk[Lockfile(t)].packages, FALSE))
    \o Written(Registry, [disk[Registry] EXCEPT ![t] = Absent])

\* Without a lockfile no adapter is known.
RollbackPlan(t, leftovers) ==
  LET candidates == Candidates(t, leftovers)
      adapters == IF Attached(t) THEN {Adapter(t)} ELSE {}
  IN  Saved(Lockfile(t)) \o Saved(Registry)
        \o ForEach(adapters, Saved)
        \o ForEach(candidates, LAMBDA p : Saved(Package(p)))
        \o ForEach(candidates, LAMBDA p : Rewritten(Package(p), Absent))
        \o ForEach(adapters, LAMBDA a : Rewritten(a, Absent))
        \o Written(Registry, [disk[Registry] EXCEPT ![t] = Absent])
        \o Written(Lockfile(t), Absent)

-----------------------------------------------------------------------------
(* Steps *)

\* The lock is free, and nothing awaits the operator.
MayBegin == tx = Absent /\ ~halted /\ operations < MaxOperations

Begin(t, kind, plan) ==
  /\ MayBegin
  /\ operations' = operations + 1
  /\ tx' = [target |-> t, kind |-> kind, phase |-> "acting", todo |-> plan,
            touched |-> <<>>, noted |-> 0, errors |-> {}, applied |-> FALSE,
            before |-> disk, settles |-> kind = "apply" \/ Attached(t)]
  /\ UNCHANGED <<disk, faults, unsettled, damaged, halted>>

BeginApply(t) ==
  \E selected \in (SUBSET Packages) \ {{}}, version \in Versions,
     leftovers \in SUBSET Leftovers :
    Begin(t, "apply", ApplyPlan(t, selected, version, leftovers))

BeginRollback(t) ==
  \E leftovers \in SUBSET Leftovers : Begin(t, "rollback", RollbackPlan(t, leftovers))

\* Without recorded adapters nothing is done.
BeginDetach(t) == MayBegin /\ Attached(t) /\ Begin(t, "detach", DetachPlan(t))

HistoryUnchanged == UNCHANGED <<operations, unsettled, damaged, halted>>

Doing(do) == tx # Absent /\ tx.phase = "acting" /\ tx.todo # <<>> /\ tx.todo[1].do = do

\* The path of the step under way.
Here == tx.todo[1].path

\* The rest is still to do; then an apply removes its copies and notes the
\* commit, whereas the others note the commit first.
Done ==
  LET rest == Tail(tx.todo)
  IN  [tx EXCEPT !.todo = rest,
         !.applied = rest = <<>> /\ tx.kind = "apply",
         !.phase = IF rest # <<>> THEN @
                   ELSE IF tx.kind = "apply" THEN "cleaning" ELSE "committing"]

Save ==
  /\ Doing("save")
  /\ tx' = [Done EXCEPT !.touched =
              Append(@, [path |-> Here, existed |-> Exists(Here), copy |-> disk[Here]])]
  /\ UNCHANGED <<disk, faults>> /\ HistoryUnchanged

Note ==
  /\ Doing("note")
  /\ tx' = [Done EXCEPT !.noted = Len(tx.touched)]
  /\ UNCHANGED <<disk, faults>> /\ HistoryUnchanged

\* A package that was not there comes whole; an adapter grows in place.
Clear ==
  /\ Doing("clear")
  /\ disk' = [disk EXCEPT ![Here] =
                IF Exists(Here) \/ Here = Adapter(tx.target) THEN Torn ELSE Absent]
  /\ tx' = Done
  /\ UNCHANGED faults /\ HistoryUnchanged

Put ==
  /\ Doing("put")
  /\ disk' = [disk EXCEPT ![Here] = tx.todo[1].value]
  /\ tx' = Done
  /\ UNCHANGED faults /\ HistoryUnchanged

Failing == [tx EXCEPT !.phase = "failing", !.todo = <<>>]

\* A step fails inside one of the two try blocks of an apply, or in a detach or
\* a rollback, and the handler takes over.
Fails ==
  /\ tx # Absent /\ tx.phase = "acting"
  /\ tx' = Failing
  /\ Fault /\ UNCHANGED disk /\ HistoryUnchanged

\* The operation ends where it stands: nothing is restored, and its journal and
\* its copies stay on disk.
Abandoned ==
  /\ tx' = Absent
  /\ unsettled' = unsettled \cup {tx.target}
  /\ damaged' = damaged \cup
       {p \in Packages : tx.before[Package(p)] \in Versions /\ disk'[Package(p)] \notin Versions}
  /\ UNCHANGED operations

\* Between the two try blocks, with packages and adapter in place and registry
\* and lockfile still to write, an apply reads its configuration and builds the
\* lockfile's content.  What is raised there passes by both handlers.
Escapes ==
  /\ Doing("save") /\ tx.kind = "apply" /\ Here = Registry
  /\ Fault /\ UNCHANGED <<disk, halted>>
  /\ Abandoned

\* cleanup_staging and cleanup_backups of an apply; the latter may stop half way.
CleanUp ==
  /\ tx # Absent /\ tx.phase = "cleaning"
  /\ \E n \in 0..Len(tx.touched) :
       LET cleaned == [tx EXCEPT !.touched =
                         [i \in DOMAIN @ |-> IF i =< n /\ @[i].existed
                                             THEN [@[i] EXCEPT !.copy = Absent] ELSE @[i]]]
       IN  \/ /\ n = Len(tx.touched) /\ UNCHANGED faults
              /\ tx' = [cleaned EXCEPT !.phase = "committing"]
           \/ /\ n < Len(tx.touched) /\ Fault
              /\ tx' = [cleaned EXCEPT !.phase = "failing"]
  /\ UNCHANGED disk /\ HistoryUnchanged

\* The operation has returned, or raised without any error of its restoration.
Over(settled) ==
  /\ tx' = Absent
  /\ unsettled' = unsettled \ settled
  /\ damaged' = {p \in damaged : ~Whole(p)}
  /\ UNCHANGED <<disk, operations, halted>>

\* The journal says committed.  What the others leave of their copies is only
\* warned about.
Commit ==
  /\ tx # Absent /\ tx.phase = "committing"
  /\ \/ /\ Over(IF tx.settles THEN {tx.target} ELSE {})
        /\ UNCHANGED faults
     \/ tx' = Failing /\ Fault /\ UNCHANGED disk /\ HistoryUnchanged

-----------------------------------------------------------------------------
(* Failure *)

Halt ==
  /\ tx' = Absent
  /\ halted' = TRUE
  /\ UNCHANGED <<disk, operations, unsettled, damaged>>

\* An apply that fails to remove its staging directory restores nothing.
Handle ==
  /\ tx # Absent /\ tx.phase = "failing"
  /\ \/ /\ tx' = [tx EXCEPT !.phase = "restoring"]
        /\ UNCHANGED <<disk, faults>> /\ HistoryUnchanged
     \/ tx.kind = "apply" /\ Fault /\ Halt

Restoring == tx # Absent /\ tx.phase = "restoring" /\ tx.touched # <<>>

\* Restoration goes from the last path touched to the first.
Entry == Last(tx.touched)

CopyIsMissing == Entry.existed /\ Entry.copy = Absent

\* Variant with a fault: after an error the rest is left as it is.
WithErrorOnly(path) == [tx EXCEPT !.touched = <<>>, !.errors = @ \cup {path}]

WithError(path) == [tx EXCEPT !.touched = Front(@), !.errors = @ \cup {path}]

\* restore_failed_mutations: one path.  It is removed before its copy is moved
\* into its place, and either may fail.
Restore ==
  /\ Restoring
  /\ \/ /\ CopyIsMissing
        /\ tx' = WithError(Entry.path)
        /\ UNCHANGED <<disk, faults>>
     \/ /\ ~CopyIsMissing
        /\ tx' = [tx EXCEPT !.touched = Front(@)]
        /\ disk' = [disk EXCEPT ![Entry.path] = Entry.copy]
        /\ UNCHANGED faults
     \/ /\ ~CopyIsMissing /\ Fault
        /\ tx' = WithError(Entry.path)
        /\ \E left \in {disk[Entry.path], Torn} :
             disk' = [disk EXCEPT ![Entry.path] = left]
  /\ HistoryUnchanged

AllPutBack == tx # Absent /\ tx.phase = "restoring" /\ tx.touched = <<>>

\* A detach has its receipts in memory as well and writes them once more.
RestoreReceipts ==
  /\ AllPutBack /\ tx.kind = "detach"
  /\ \E failed \in SUBSET {Registry, Lockfile(tx.target)} :
       /\ IF failed = {} THEN UNCHANGED faults ELSE Fault
       /\ disk' = [path \in Paths |->
                    IF path \in {Registry, Lockfile(tx.target)} \ failed
                      THEN tx.before[path] ELSE disk[path]]
       /\ tx' = [tx EXCEPT !.phase = "reporting", !.errors = @ \cup failed]
  /\ HistoryUnchanged

Restored ==
  \/ AllPutBack /\ tx.kind # "detach"
  \/ tx # Absent /\ tx.phase = "reporting"

\* The journal says failed, if it can be written, and the first error is raised.
Raise ==
  /\ Restored
  /\ IF tx.errors = {} THEN Over({}) ELSE Halt
  /\ UNCHANGED faults

\* The process dies; a path being restored may be lost with it.
Die ==
  /\ tx # Absent /\ Fault
  /\ \/ UNCHANGED disk
     \/ Restoring /\ ~CopyIsMissing /\ disk' = [disk EXCEPT ![Entry.path] = Torn]
  /\ Abandoned
  /\ halted' = (tx.phase \in {"failing", "restoring", "reporting"})

ApplicationNext ==
  \/ \E t \in Targets : BeginApply(t) \/ BeginDetach(t) \/ BeginRollback(t)
  \/ Save \/ Note \/ Clear \/ Put \/ Fails \/ Escapes
  \/ CleanUp \/ Commit
  \/ Handle \/ Restore \/ RestoreReceipts \/ Raise
  \/ Die

ApplicationSpec == ApplicationInit /\ [][ApplicationNext]_applicationVars

-----------------------------------------------------------------------------
(* Properties *)

ApplicationTypeOK ==
  /\ DOMAIN disk = Paths
  /\ \A path \in Paths : disk[path] \in {Absent, Torn} \/
       IF path = Registry THEN disk[path] \in [Targets -> (SUBSET Packages) \cup {Absent}]
       ELSE IF path[1] = "package" THEN disk[path] \in Versions
       ELSE IF path[1] = "adapter" THEN disk[path] \in SUBSET Packages
       ELSE disk[path] \in Receipts
  /\ tx = Absent \/
       /\ tx.target \in Targets /\ tx.phase \in Phases
       /\ \A i \in DOMAIN tx.touched : tx.touched[i].path \in Paths
       /\ tx.errors \subseteq Paths
  /\ operations \in 0..MaxOperations /\ faults \in 0..MaxFaults
  /\ unsettled \subseteq Targets /\ damaged \subseteq Packages /\ halted \in BOOLEAN

\* Where a process dies before it restores, and where an apply is abandoned
\* between its try blocks, what it has changed so far can be put back by hand:
\* the journal on disk names an unharmed copy of everything that was there
\* before (record_file_state, _copy_backup).  Excluded (tx.applied) is the end of
\* an apply that has changed all it planned: there the copies are removed one by
\* one while the journal on disk still says "started".
Repairable ==
  tx # Absent /\ ~tx.applied /\ tx.phase \notin {"restoring", "reporting"} =>
    \A path \in Paths :
      \/ tx.before[path] \in {Nothing(path), disk[path]}
      \/ \E i \in 1..tx.noted :
           /\ tx.touched[i].path = path
           /\ tx.touched[i].copy = tx.before[path]

\* A restoration that is over leaves nothing changed but what its report names:
\* restore_failed_mutations goes on after an error and raises them all.  Three
\* failures restore nothing, and nothing is claimed of them here: one between
\* the try blocks of an apply (Escapes), one of removing the staging directory
\* before the restoration (Handle), and the death of the process (Die).  The
\* errors are those collected for the report; a detach that cannot write its
\* journal afterwards raises that failure in their place.
FailureIsReported ==
  Restored => \A path \in Paths : disk[path] = tx.before[path] \/ path \in tx.errors

\* Repositories do not get in each other's way, whatever became of the operations
\* of others: adapter, registry and lockfile of a repository agree unless its own
\* last operation was abandoned, by a death or between the try blocks, and what
\* they name is in the library or was damaged when another was abandoned (what
\* apply_plan prunes and shared_rollback removes depends on the references of
\* all repositories).
ReceiptsAgree ==
  tx = Absent /\ ~halted =>
    \A t \in Targets \ unsettled :
      LET exposed == IF Attached(t) THEN disk[Lockfile(t)].packages ELSE Absent
      IN  /\ disk[Adapter(t)] = exposed
          /\ disk[Registry][t] = exposed
          /\ Attached(t) => \A p \in exposed : Whole(p) \/ p \in damaged

\* "The existing adapter transaction backup restores the prior directory if a
\* later write fails": when only one step has failed, the adapter is as before
\* (_record_rollback_errors; the copies are removed before the last write).
LaterFailureRestores ==
  Restored /\ faults = 1 =>
    \A t \in Targets : disk[Adapter(t)] = tx.before[Adapter(t)]
=============================================================================
