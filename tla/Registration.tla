---------------------------- MODULE Registration ----------------------------
(***************************************************************************)
(* Installed releases of the agent runtime, the selection of one of them,  *)
(* and the command on the owner's PATH that is registered for it           *)
(* (ls/core/agent): installation and explicit reselection under the        *)
(* exclusive runtime lease; fresh registration, refresh and recovery of an *)
(* interrupted one under a shared runtime lease and the exclusive lease of *)
(* the bin directory.                                                      *)
(*                                                                         *)
(* Sources: runtime_install.py, runtime_lock.py, registration_owner.py,    *)
(* registration_refresh.py, registration_plan.py.                          *)
(*                                                                         *)
(* Abstracted: one runtime root and one bin directory that is effective on *)
(* PATH; a launcher and a receipt are the release they name; a plan digest *)
(* is the plan.  A new name is published by linking a temporary file and   *)
(* then unlinking that: dying in between leaves a file with two links,     *)
(* which every reader refuses.  The user edits the directory only while no *)
(* writer has its lease.                                                   *)
(***************************************************************************)
EXTENDS Naturals, FiniteSets

CONSTANTS
  Releases,   \* release digests
  Writers,    \* processes that register, refresh or recover
  Workers,    \* processes that run the selected release
  Custom,     \* what a user may put in place of the command
  None

ASSUME RegistrationAssumption ==
  /\ None \notin Releases \cup Writers \cup {Custom}
  /\ Custom \notin Releases

VARIABLES
  slot,       \* of each release: "absent", "incomplete" or "complete"
  selection,  \* current.json
  installer,  \* the release being installed under the exclusive lease
  using,      \* of each worker: the release it runs, under the shared lease
  command,    \* the three files of the bin directory, or None
  receipt,
  pending,
  backups,    \* previous receipts kept by content
  pc,         \* where each writer is
  plan,       \* the reviewed plan of each writer
  edited      \* history: the user has changed the command since a publication

runtime == <<slot, selection, installer, using>>
bin == <<command, receipt, pending, backups>>
vars == <<slot, selection, installer, using, command, receipt, pending, backups,
          pc, plan, edited>>

File(values) == [value : values, links : {1, 2}]
Intent == [before : Releases \cup {None}, after : Releases]

Single(v) == [value |-> v, links |-> 1]
Doubled(v) == [value |-> v, links |-> 2]

Kinds == {"fresh", "refresh", "recover"}

Seen == [command : File(Releases \cup {Custom}) \cup {None},
         receipt : File(Releases) \cup {None}, pending : File(Intent) \cup {None}]
Plan == [kind : Kinds, observed : Seen, after : Releases]

\* An absent file or plan is none of those there can be.
ASSUME NoneAssumption ==
  None \notin File(Releases \cup {Custom}) /\ None \notin File(Intent) /\ None \notin Plan

Active == {"backup", "intent", "command", "receipt", "drop"}

-----------------------------------------------------------------------------
(* The runtime root *)

SharedHeld == (\E w \in Workers : using[w] # None) \/ \E w \in Writers : pc[w] \in Active

ExclusiveFree == installer = None /\ ~SharedHeld

\* install up to the incomplete status record of a fresh slot.
BeginInstall(r) ==
  /\ ExclusiveFree /\ slot[r] = "absent"
  /\ slot' = [slot EXCEPT ![r] = "incomplete"]
  /\ installer' = r
  /\ UNCHANGED <<selection, using, command, receipt, pending, backups, pc, plan, edited>>

\* The release is built, sealed and recorded as installed.
CompleteInstall ==
  /\ installer # None /\ slot[installer] = "incomplete"
  /\ slot' = [slot EXCEPT ![installer] = "complete"]
  /\ UNCHANGED <<selection, installer, using, command, receipt, pending, backups,
                 pc, plan, edited>>

\* Variant with a fault: the selection is written before the status record.
ActivateUnproved ==
  /\ installer # None
  /\ selection' = installer
  /\ installer' = None
  /\ UNCHANGED <<slot, using, command, receipt, pending, backups, pc, plan, edited>>

\* The selection follows.
Activate ==
  /\ installer # None /\ slot[installer] = "complete"
  /\ selection' = installer
  /\ installer' = None
  /\ UNCHANGED <<slot, using, command, receipt, pending, backups, pc, plan, edited>>

\* The installation fails or dies; the slot is never used again by install.
AbandonInstall ==
  /\ installer # None
  /\ installer' = None
  /\ UNCHANGED <<slot, selection, using, command, receipt, pending, backups, pc,
                 plan, edited>>

\* reselect: any release whose installation was completed.
Reselect(r) ==
  /\ ExclusiveFree /\ slot[r] = "complete"
  /\ selection' = r
  /\ UNCHANGED <<slot, installer, using, command, receipt, pending, backups, pc,
                 plan, edited>>

\* selected: the shared lease and a selection that matches a complete release.
Usable == installer = None /\ selection # None /\ slot[selection] = "complete"

Use(w) ==
  /\ using[w] = None /\ Usable
  /\ using' = [using EXCEPT ![w] = selection]
  /\ UNCHANGED <<slot, selection, installer, command, receipt, pending, backups,
                 pc, plan, edited>>

EndUse(w) ==
  /\ using[w] # None
  /\ using' = [using EXCEPT ![w] = None]
  /\ UNCHANGED <<slot, selection, installer, command, receipt, pending, backups,
                 pc, plan, edited>>

-----------------------------------------------------------------------------
(* Plans *)

\* A read refuses a file with more than one link.
Readable(f) == f # None => f.links = 1
Content(f) == IF f = None THEN None ELSE f.value

Observed == [command |-> command, receipt |-> receipt, pending |-> pending]

\* plan of registration_owner: nothing may exist yet.
FreshPlan == command = None /\ receipt = None /\ pending = None

\* plan of registration_refresh: an intact registration of another release.
RefreshPlan ==
  /\ pending = None
  /\ receipt # None /\ Readable(receipt) /\ Readable(command)
  /\ Content(command) = receipt.value
  /\ receipt.value # selection

\* Variant with a fault: what the command holds is not examined.
RecoveryPlanBlind ==
  /\ pending # None /\ Readable(pending) /\ Readable(command) /\ Readable(receipt)
  /\ selection = pending.value.after

\* recovery_plan: an intent whose files are each in the state before or after.
RecoveryPlan ==
  /\ pending # None /\ Readable(pending) /\ Readable(command) /\ Readable(receipt)
  /\ LET known == {pending.value.before, pending.value.after}
     IN  Content(command) \in known /\ Content(receipt) \in known
  /\ selection = pending.value.after

Planned(kind) ==
  CASE kind = "fresh" -> FreshPlan
    [] kind = "refresh" -> RefreshPlan
    [] kind = "recover" -> RecoveryPlan

PlanOf(kind) == [kind |-> kind, observed |-> Observed, after |-> selection]

BinFree == \A w \in Writers : pc[w] \notin Active

\* The owner reviews a plan; only its digest lets the writer go on.
MakePlan(w, kind) ==
  /\ pc[w] = "idle" /\ BinFree /\ Usable /\ Planned(kind)
  /\ plan' = [plan EXCEPT ![w] = PlanOf(kind)]
  /\ pc' = [pc EXCEPT ![w] = "planned"]
  /\ UNCHANGED <<slot, selection, installer, using, command, receipt, pending,
                 backups, edited>>

Goto(w, where) == pc' = [pc EXCEPT ![w] = where]

FirstStep(kind) ==
  CASE kind = "fresh" -> "intent" [] kind = "refresh" -> "backup"
    [] kind = "recover" -> "command"

\* Variant with a fault: the plan is not made again under the leases.
StartUnchecked(w) ==
  /\ pc[w] = "planned" /\ BinFree /\ Usable
  /\ Goto(w, FirstStep(plan[w].kind))
  /\ UNCHANGED <<slot, selection, installer, using, command, receipt, pending,
                 backups, plan, edited>>

\* apply and recover: under both leases the plan must still be the same.
Start(w) ==
  /\ pc[w] = "planned" /\ BinFree /\ Usable
  /\ Planned(plan[w].kind) /\ PlanOf(plan[w].kind) = plan[w]
  /\ Goto(w, FirstStep(plan[w].kind))
  /\ UNCHANGED <<slot, selection, installer, using, command, receipt, pending,
                 backups, plan, edited>>

-----------------------------------------------------------------------------
(* Publication.  _publish links a new name; _replace renames over a known one. *)

\* Variant with a fault: a refresh keeps no copy of the receipt it replaces.
KeepNothing(w) ==
  /\ pc[w] = "backup" /\ Goto(w, "intent")
  /\ UNCHANGED <<slot, selection, installer, using, command, receipt, pending,
                 backups, plan, edited>>

\* refresh keeps the previous receipt under the digest of its content; a copy
\* with two links is refused.
KeepPrevious(w) ==
  LET before == plan[w].observed.receipt.value
  IN  /\ pc[w] = "backup"
      /\ \A b \in backups : b.value = before => Readable(b)
      /\ backups' = backups \cup {Single(before)}
      /\ Goto(w, "intent")
      /\ UNCHANGED <<slot, selection, installer, using, command, receipt, pending,
                     plan, edited>>

IntentOf(w) == [before |-> Content(plan[w].observed.receipt), after |-> plan[w].after]

PublishIntent(w) ==
  /\ pc[w] = "intent" /\ pending = None
  /\ pending' = Single(IntentOf(w))
  /\ Goto(w, "command")
  /\ UNCHANGED <<slot, selection, installer, using, command, receipt, backups,
                 plan, edited>>

PublishCommand(w) ==
  /\ pc[w] = "command"
  /\ command' = Single(plan[w].after)
  /\ edited' = FALSE
  /\ Goto(w, "receipt")
  /\ UNCHANGED <<slot, selection, installer, using, receipt, pending, backups, plan>>

PublishReceipt(w) ==
  /\ pc[w] = "receipt"
  /\ receipt' = Single(plan[w].after)
  /\ Goto(w, "drop")
  /\ UNCHANGED <<slot, selection, installer, using, command, pending, backups,
                 plan, edited>>

\* Variant with a fault: the intent is dropped before the receipt is there.
DropIntentEarly(w) ==
  /\ pc[w] \in {"receipt", "drop"}
  /\ pending' = None
  /\ pc' = [pc EXCEPT ![w] = IF @ = "receipt" THEN "receipt" ELSE "idle"]
  /\ plan' = [plan EXCEPT ![w] = IF pc[w] = "receipt" THEN @ ELSE None]
  /\ UNCHANGED <<slot, selection, installer, using, command, receipt, backups, edited>>

DropIntent(w) ==
  /\ pc[w] = "drop"
  /\ pending' = None
  /\ plan' = [plan EXCEPT ![w] = None]
  /\ Goto(w, "idle")
  /\ UNCHANGED <<slot, selection, installer, using, command, receipt, backups, edited>>

\* A writer is refused or dies between two steps; nothing is undone.
GiveUp(w) ==
  /\ pc[w] # "idle"
  /\ plan' = [plan EXCEPT ![w] = None]
  /\ Goto(w, "idle")
  /\ UNCHANGED <<slot, selection, installer, using, command, receipt, pending,
                 backups, edited>>

\* It dies between the link of a new name and the unlink of its temporary file.
DiesLinking(w) ==
  /\ \/ /\ pc[w] = "backup"
        /\ LET before == plan[w].observed.receipt.value
           IN  /\ \A b \in backups : b.value # before
               /\ backups' = backups \cup {Doubled(before)}
        /\ UNCHANGED <<command, receipt, pending, edited>>
     \/ /\ pc[w] = "intent" /\ pending = None
        /\ pending' = Doubled(IntentOf(w))
        /\ UNCHANGED <<command, receipt, backups, edited>>
     \/ /\ pc[w] = "command" /\ command = None
        /\ command' = Doubled(plan[w].after)
        /\ edited' = FALSE
        /\ UNCHANGED <<receipt, pending, backups>>
     \/ /\ pc[w] = "receipt" /\ receipt = None
        /\ receipt' = Doubled(plan[w].after)
        /\ UNCHANGED <<command, pending, backups, edited>>
  /\ plan' = [plan EXCEPT ![w] = None]
  /\ Goto(w, "idle")
  /\ UNCHANGED runtime

-----------------------------------------------------------------------------
(* The user *)

\* The command is edited or removed while no writer has the lease.
Edit ==
  /\ BinFree
  /\ command' \in {Single(Custom), None} /\ command' # command
  /\ edited' = TRUE
  /\ UNCHANGED <<slot, selection, installer, using, receipt, pending, backups, pc, plan>>

\* A leftover temporary name is removed by hand.
Tidied(f) == IF f = None THEN None ELSE Single(f.value)

Tidy ==
  /\ BinFree
  /\ command' = Tidied(command) /\ receipt' = Tidied(receipt)
  /\ pending' = Tidied(pending) /\ backups' = {Tidied(b) : b \in backups}
  /\ bin' # bin
  /\ UNCHANGED <<slot, selection, installer, using, pc, plan, edited>>

-----------------------------------------------------------------------------

Init ==
  /\ slot = [r \in Releases |-> "absent"]
  /\ selection = None
  /\ installer = None
  /\ using = [w \in Workers |-> None]
  /\ command = None /\ receipt = None /\ pending = None
  /\ backups = {}
  /\ pc = [w \in Writers |-> "idle"]
  /\ plan = [w \in Writers |-> None]
  /\ edited = FALSE

Writing(w) ==
  \/ KeepPrevious(w) \/ PublishIntent(w) \/ PublishCommand(w) \/ PublishReceipt(w)
  \/ DropIntent(w) \/ DiesLinking(w)

Next ==
  \/ \E r \in Releases : BeginInstall(r) \/ Reselect(r)
  \/ CompleteInstall \/ Activate \/ AbandonInstall
  \/ \E w \in Workers : Use(w) \/ EndUse(w)
  \/ \E w \in Writers :
       \/ \E kind \in Kinds : MakePlan(w, kind)
       \/ Start(w) \/ Writing(w) \/ GiveUp(w)
  \/ Edit \/ Tidy

Spec == Init /\ [][Next]_vars

-----------------------------------------------------------------------------
(* Properties *)

TypeOK ==
  /\ slot \in [Releases -> {"absent", "incomplete", "complete"}]
  /\ selection \in Releases \cup {None}
  /\ installer \in Releases \cup {None}
  /\ using \in [Workers -> Releases \cup {None}]
  /\ command \in File(Releases \cup {Custom}) \cup {None}
  /\ receipt \in File(Releases) \cup {None}
  /\ pending \in File(Intent) \cup {None}
  /\ backups \subseteq File(Releases)
  /\ pc \in [Writers -> {"idle", "planned"} \cup Active]
  /\ plan \in [Writers -> Plan \cup {None}]
  /\ \A w \in Writers : pc[w] # "idle" <=> plan[w] # None
  /\ edited \in BOOLEAN

\* Whatever interrupts installations and upgrades, the selection names a
\* completed release, and a worker's release stays selected while it runs.
SelectionStands ==
  /\ selection # None => slot[selection] = "complete"
  /\ \A w \in Workers : using[w] # None => using[w] = selection

\* When no intent is pending, the command and the receipt agree, unless the
\* user changed the command: interruptions never leave a silent half.
RegistrationIsWhole ==
  pending = None /\ ~edited => Content(command) = Content(receipt)

\* No writer's step changes a command the user has put there.
EditsArePreserved ==
  [][Content(command) = Custom /\ pc' # pc => command' = command]_vars

\* A receipt that is replaced has been kept.
PreviousIsKept ==
  [][receipt # None /\ Content(receipt') # receipt.value =>
       \E b \in backups : b.value = receipt.value]_vars

\* "These internal primitives also reconcile an interrupted fresh registration"
\* (ls/docs/LSCLI_RUNTIME.md): while the intended release is selected and nobody
\* edited the files, recovery_plan accepts what an interruption left.
InterruptedIsRecoverable ==
  /\ BinFree /\ Usable /\ ~edited
  /\ pending # None /\ Readable(pending) /\ selection = pending.value.after
  => RecoveryPlan
=============================================================================
