------------------------- MODULE InstallationProofs --------------------------
(***************************************************************************)
(* Safety of what is installed.  Of the command in the bin directory       *)
(* (Registration), for any releases, writers and workers: while the        *)
(* runtime is leased the selection stands, and while a writer has the bin  *)
(* directory nobody else changes its files, so that each step of a         *)
(* publication finds what the plan and the steps before it left.  Of the   *)
(* packages in repositories (PackageApplication), for any repositories,    *)
(* packages and versions: every plan copies before it changes and leads    *)
(* from receipts that agree to receipts that agree, and until it is done   *)
(* the noted copies lead back.                                             *)
(***************************************************************************)
EXTENDS Registration, PackageApplication, SequenceTheorems, FunctionTheorems,
        FiniteSetTheorems, TLAPS

-----------------------------------------------------------------------------
(* The inductive invariant *)

\* One writer at a time has the bin directory.
OneWriter == \A v, w \in Writers : pc[v] \in Active /\ pc[w] \in Active => v = w

\* The exclusive and the shared runtime lease exclude each other, and the
\* release being installed is not the one in use.
RuntimeInv ==
  /\ installer # None => ~SharedHeld /\ slot[installer] # "absent"
  /\ SelectionStands

\* A copy of a receipt with this content has been kept.
KeptCopy(value) == \E b \in backups : b.value = value

\* What each step of a publication finds.
PhaseInv(w) ==
  /\ pc[w] = "backup" => receipt # None
  /\ pc[w] \in {"backup", "intent"} =>
       pending = None /\ receipt = plan[w].observed.receipt
  /\ pc[w] = "intent" /\ receipt # None => KeptCopy(receipt.value)
  /\ pc[w] \in {"backup", "intent", "command"} => Content(command) # Custom
  /\ pc[w] \in {"command", "receipt", "drop"} =>
       pending # None /\ pending.value.after = plan[w].after
  /\ pc[w] \in {"receipt", "drop"} => Content(command) = plan[w].after
  /\ pc[w] = "drop" => Content(receipt) = plan[w].after

\* The receipt an intent is about to replace has been kept.
KeptInv ==
  pending # None /\ receipt # None /\ receipt.value # pending.value.after =>
    KeptCopy(receipt.value)

RegistrationInv ==
  /\ TypeOK /\ OneWriter /\ RuntimeInv /\ KeptInv
  /\ \A w \in Writers : PhaseInv(w)
  /\ RegistrationIsWhole

-----------------------------------------------------------------------------
(* Types *)

LEMMA PlanTyped ==
  ASSUME TypeOK, NEW kind \in Kinds, selection \in Releases
  PROVE  PlanOf(kind) \in Plan /\ PlanOf(kind) # None
  <1>1. Observed \in Seen
    BY DEF Observed, Seen, TypeOK
  <1>2. PlanOf(kind) \in Plan
    BY <1>1 DEF PlanOf, Plan
  <1>3. QED
    BY <1>2, NoneAssumption

\* What a writer between two steps holds.
LEMMA WriterTyped ==
  ASSUME TypeOK, NEW w \in Writers, pc[w] # "idle"
  PROVE  /\ plan[w] \in Plan /\ plan[w].after \in Releases
         /\ plan[w].observed \in Seen /\ plan[w].kind \in Kinds
  BY DEF TypeOK, Plan

LEMMA FileTyped ==
  /\ \A v \in Releases : Single(v) \in File(Releases) /\ Doubled(v) \in File(Releases)
  /\ \A v \in Releases \cup {Custom} :
       /\ Single(v) \in File(Releases \cup {Custom})
       /\ Doubled(v) \in File(Releases \cup {Custom})
  /\ \A v \in Intent : Single(v) \in File(Intent) /\ Doubled(v) \in File(Intent)
  BY DEF File, Single, Doubled

\* A file that is there is not None, and holds what it was given.
LEMMA FileFacts ==
  /\ \A f \in File(Releases) :
       /\ f \in File(Releases \cup {Custom}) /\ f # None /\ f.value \in Releases
       /\ Content(f) = f.value /\ f.value # None /\ f.value # Custom
  /\ \A f \in File(Releases \cup {Custom}) :
       /\ f # None /\ f.value \in Releases \cup {Custom}
       /\ Content(f) = f.value /\ f.value # None
  /\ \A f \in File(Intent) : f # None /\ f.value \in Intent
  /\ \A v : /\ Single(v).value = v /\ Doubled(v).value = v
            /\ Single(v) # None => Content(Single(v)) = v
            /\ Doubled(v) # None => Content(Doubled(v)) = v
  <1>1. File(Releases) \subseteq File(Releases \cup {Custom})
    BY DEF File
  <1>2. \A f \in File(Releases) : f.value \in Releases
    BY DEF File
  <1>3. \A f \in File(Releases \cup {Custom}) : f.value \in Releases \cup {Custom}
    BY DEF File
  <1>4. \A f \in File(Intent) : f.value \in Intent
    BY DEF File
  <1>5. \A v : Single(v).value = v /\ Doubled(v).value = v
    BY DEF Single, Doubled
  <1>6. QED
    BY <1>1, <1>2, <1>3, <1>4, <1>5, NoneAssumption, RegistrationAssumption DEF Content

\* The intent of a fresh registration or a refresh.
LEMMA IntentTyped ==
  ASSUME TypeOK, NEW w \in Writers, pc[w] # "idle"
  PROVE  IntentOf(w) \in Intent /\ IntentOf(w).after = plan[w].after
  <1>1. plan[w].after \in Releases /\ plan[w].observed \in Seen
    BY WriterTyped
  <1>2. plan[w].observed.receipt \in File(Releases) \cup {None}
    BY <1>1 DEF Seen
  <1>3. Content(plan[w].observed.receipt) \in Releases \cup {None}
    BY <1>2, FileFacts DEF Content
  <1>4. QED
    BY <1>1, <1>3 DEF IntentOf, Intent

\* What a plan of each kind has seen to.
LEMMA PlannedFacts ==
  ASSUME TypeOK, NEW kind \in Kinds, Planned(kind)
  PROVE  /\ kind = "fresh" => command = None /\ receipt = None /\ pending = None
         /\ kind = "refresh" => /\ pending = None /\ receipt # None
                                /\ Content(command) = receipt.value
         /\ kind = "recover" => /\ pending # None
                                /\ Content(command) \in Releases \cup {None}
                                /\ selection = pending.value.after
  <1>1. CASE kind = "recover"
    <2>1. pending # None /\ pending \in File(Intent)
      BY <1>1 DEF Planned, RecoveryPlan, TypeOK
    <2>2. pending.value \in Intent
      BY <2>1, FileFacts
    <2>3. pending.value.before \in Releases \cup {None} /\ pending.value.after \in Releases
      BY <2>2 DEF Intent
    <2>4. QED
      BY <1>1, <2>1, <2>3 DEF Planned, RecoveryPlan
  <1>2. CASE kind = "fresh"
    BY <1>2 DEF Planned, FreshPlan
  <1>3. CASE kind = "refresh"
    BY <1>3 DEF Planned, RefreshPlan
  <1>4. QED
    BY <1>1, <1>2, <1>3 DEF Kinds

-----------------------------------------------------------------------------
(* Steps in the runtime root *)

RuntimeStep ==
  \/ \E r \in Releases : BeginInstall(r) \/ Reselect(r)
  \/ CompleteInstall \/ Activate \/ AbandonInstall
  \/ \E w \in Workers : Use(w) \/ EndUse(w)

LEMMA RuntimeTypes ==
  ASSUME TypeOK, RuntimeStep
  PROVE  TypeOK' /\ UNCHANGED <<bin, pc, plan, edited>>
  <1>1. UNCHANGED <<command, receipt, pending, backups, pc, plan, edited>>
    BY DEF RuntimeStep, BeginInstall, Reselect, CompleteInstall, Activate,
       AbandonInstall, Use, EndUse
  <1>2. /\ slot' \in [Releases -> {"absent", "incomplete", "complete"}]
        /\ selection' \in Releases \cup {None}
        /\ installer' \in Releases \cup {None}
        /\ using' \in [Workers -> Releases \cup {None}]
    BY DEF TypeOK, RuntimeStep, BeginInstall, Reselect, CompleteInstall, Activate,
       AbandonInstall, Use, EndUse
  <1>3. QED
    BY <1>1, <1>2 DEF TypeOK, bin

\* The lease is taken by an installer when nobody runs a release, and by those
\* who run one when nobody installs.
LEMMA RuntimeKeeps ==
  ASSUME TypeOK, RuntimeInv, RuntimeStep
  PROVE  RuntimeInv'
  <1>1. ASSUME NEW r \in Releases, BeginInstall(r)
        PROVE  RuntimeInv'
    BY <1>1, RegistrationAssumption DEF BeginInstall, TypeOK, RuntimeInv, ExclusiveFree,
       SharedHeld, SelectionStands
  <1>2. ASSUME NEW r \in Releases, Reselect(r)
        PROVE  RuntimeInv'
    BY <1>2 DEF Reselect, TypeOK, RuntimeInv, ExclusiveFree, SharedHeld, SelectionStands
  <1>3. CASE CompleteInstall
    BY <1>3 DEF CompleteInstall, TypeOK, RuntimeInv, SharedHeld, SelectionStands
  <1>4. CASE Activate
    BY <1>4 DEF Activate, TypeOK, RuntimeInv, SharedHeld, SelectionStands
  <1>5. CASE AbandonInstall
    BY <1>5 DEF AbandonInstall, TypeOK, RuntimeInv, SharedHeld, SelectionStands
  <1>6. ASSUME NEW w \in Workers, Use(w)
        PROVE  RuntimeInv'
    BY <1>6 DEF Use, Usable, TypeOK, RuntimeInv, SharedHeld, SelectionStands
  <1>7. ASSUME NEW w \in Workers, EndUse(w)
        PROVE  RuntimeInv'
    BY <1>7 DEF EndUse, TypeOK, RuntimeInv, SharedHeld, SelectionStands
  <1>8. QED
    BY <1>1, <1>2, <1>3, <1>4, <1>5, <1>6, <1>7 DEF RuntimeStep

-----------------------------------------------------------------------------
(* Steps of a writer *)

WriterStep(w) ==
  \/ \E kind \in Kinds : MakePlan(w, kind)
  \/ Start(w) \/ Writing(w) \/ GiveUp(w)

LEMMA WriterLeaves ==
  ASSUME TypeOK, NEW w \in Writers, WriterStep(w)
  PROVE  /\ UNCHANGED runtime
         /\ \A v \in Writers \ {w} : pc'[v] = pc[v] /\ plan'[v] = plan[v]
         /\ pc' \in [Writers -> {"idle", "planned"} \cup Active]
         /\ pc'[w] \in Active => pc[w] \in Active \/ (BinFree /\ Usable)
         /\ pc[w] \in Active \/ UNCHANGED bin
  <1>1. UNCHANGED runtime
    BY DEF WriterStep, Writing, MakePlan, Start, KeepPrevious, PublishIntent,
       PublishCommand, PublishReceipt, DropIntent, DiesLinking, GiveUp, runtime
  <1>2. \A v \in Writers \ {w} : pc'[v] = pc[v]
    BY DEF TypeOK, Goto, WriterStep, Writing, MakePlan, Start, KeepPrevious, PublishIntent,
       PublishCommand, PublishReceipt, DropIntent, DiesLinking, GiveUp
  <1>3. \A v \in Writers \ {w} : plan'[v] = plan[v]
    BY DEF TypeOK, WriterStep, Writing, MakePlan, Start, KeepPrevious, PublishIntent,
       PublishCommand, PublishReceipt, DropIntent, DiesLinking, GiveUp
  <1>4. pc' \in [Writers -> {"idle", "planned"} \cup Active]
    BY WriterTyped
    DEF TypeOK, Goto, Active, FirstStep, Kinds, WriterStep, Writing, MakePlan, Start,
       KeepPrevious, PublishIntent, PublishCommand, PublishReceipt, DropIntent,
       DiesLinking, GiveUp
  <1>5. pc'[w] \in Active => pc[w] \in Active \/ (BinFree /\ Usable)
    BY DEF TypeOK, Goto, Active, WriterStep, Writing, MakePlan, Start,
       KeepPrevious, PublishIntent, PublishCommand, PublishReceipt, DropIntent,
       DiesLinking, GiveUp
  <1>6. pc[w] \in Active \/ UNCHANGED bin
    BY DEF Active, bin, WriterStep, Writing, MakePlan, Start, KeepPrevious, PublishIntent,
       PublishCommand, PublishReceipt, DropIntent, DiesLinking, GiveUp
  <1>7. QED
    BY <1>1, <1>2, <1>3, <1>4, <1>5, <1>6

LEMMA WriterExcludes ==
  ASSUME TypeOK, OneWriter, RuntimeInv, NEW w \in Writers, WriterStep(w)
  PROVE  OneWriter' /\ RuntimeInv'
  <1>1. OneWriter'
    BY WriterLeaves DEF OneWriter, BinFree
  <1>2. RuntimeInv'
    <2>1. SharedHeld' => SharedHeld \/ installer = None
      BY WriterLeaves DEF SharedHeld, runtime, Usable
    <2>2. QED
      BY <2>1, WriterLeaves DEF RuntimeInv, SelectionStands, runtime
  <1>3. QED
    BY <1>1, <1>2

\* Nobody else is between two steps of a publication.
LEMMA OthersPhase ==
  ASSUME RegistrationInv, NEW w \in Writers, WriterStep(w), NEW v \in Writers \ {w}
  PROVE  PhaseInv(v)'
  <1>1. pc'[v] = pc[v] /\ plan'[v] = plan[v]
    BY WriterLeaves DEF RegistrationInv
  <1>2. CASE pc[w] \in Active
    <2>1. pc'[v] \notin Active
      BY <1>1, <1>2 DEF RegistrationInv, OneWriter
    <2>2. QED
      BY <2>1 DEF PhaseInv, Active
  <1>3. CASE UNCHANGED bin
    BY <1>1, <1>3 DEF bin, RegistrationInv, PhaseInv, KeptCopy
  <1>4. QED
    BY <1>2, <1>3, WriterLeaves DEF RegistrationInv

-----------------------------------------------------------------------------
(* Each step of a publication finds and leaves what it should *)

LEMMA PlanPhase ==
  ASSUME RegistrationInv, NEW w \in Writers, NEW kind \in Kinds, MakePlan(w, kind)
  PROVE  TypeOK' /\ PhaseInv(w)' /\ KeptInv' /\ RegistrationIsWhole'
  <1>1. /\ plan' = [plan EXCEPT ![w] = PlanOf(kind)] /\ pc' = [pc EXCEPT ![w] = "planned"]
        /\ selection \in Releases
        /\ UNCHANGED <<slot, selection, installer, using, command, receipt, pending,
                       backups, edited>>
    BY DEF MakePlan, Usable, RegistrationInv, TypeOK
  <1>2. PlanOf(kind) \in Plan /\ PlanOf(kind) # None
    BY <1>1, PlanTyped DEF RegistrationInv
  <1>3. TypeOK'
    BY <1>1, <1>2 DEF RegistrationInv, TypeOK
  <1>4. PhaseInv(w)'
    BY <1>1 DEF RegistrationInv, TypeOK, PhaseInv
  <1>5. QED
    BY <1>1, <1>3, <1>4 DEF RegistrationInv, KeptInv, KeptCopy, RegistrationIsWhole

\* Under the leases the plan is made again: it holds now.
LEMMA StartPhase ==
  ASSUME RegistrationInv, NEW w \in Writers, Start(w)
  PROVE  TypeOK' /\ PhaseInv(w)' /\ KeptInv' /\ RegistrationIsWhole'
  <1> DEFINE kind == plan[w].kind
  <1>1. /\ pc[w] = "planned" /\ pc' = [pc EXCEPT ![w] = FirstStep(kind)]
        /\ Planned(kind) /\ PlanOf(kind) = plan[w]
        /\ UNCHANGED <<slot, selection, installer, using, command, receipt, pending,
                       backups, plan, edited>>
    BY DEF Start, Goto
  <1>2. kind \in Kinds /\ TypeOK
    BY <1>1, WriterTyped DEF RegistrationInv
  <1>3. /\ plan[w].observed.receipt = receipt /\ plan[w].after = selection
    BY <1>1 DEF PlanOf, Observed
  <1>4. pc'[w] = FirstStep(kind) /\ FirstStep(kind) \in Active
    BY <1>1, <1>2 DEF TypeOK, FirstStep, Kinds, Active
  <1>5. TypeOK'
    BY <1>1, <1>2, <1>4 DEF TypeOK, Active
  <1>6. PhaseInv(w)'
    <2>1. CASE kind = "fresh"
      <3>1. command = None /\ receipt = None /\ pending = None /\ pc'[w] = "intent"
        BY <1>1, <1>2, <1>4, <2>1, PlannedFacts DEF FirstStep
      <3>2. QED
        BY <1>1, <1>3, <3>1, RegistrationAssumption DEF PhaseInv, Content
    <2>2. CASE kind = "refresh"
      <3>1. /\ pending = None /\ receipt # None /\ Content(command) = receipt.value
            /\ pc'[w] = "backup"
        BY <1>1, <1>2, <1>4, <2>2, PlannedFacts DEF FirstStep
      <3>2. receipt.value # Custom
        BY <1>2, <3>1, FileFacts DEF TypeOK
      <3>3. QED
        BY <1>1, <1>3, <3>1, <3>2 DEF PhaseInv, Content
    <2>3. CASE kind = "recover"
      <3>1. /\ pending # None /\ Content(command) \in Releases \cup {None}
            /\ selection = pending.value.after /\ pc'[w] = "command"
        BY <1>1, <1>2, <1>4, <2>3, PlannedFacts DEF FirstStep
      <3>2. QED
        BY <1>1, <1>3, <3>1, RegistrationAssumption DEF PhaseInv, Content
    <2>4. QED
      BY <1>2, <2>1, <2>2, <2>3 DEF Kinds
  <1>7. QED
    BY <1>1, <1>5, <1>6 DEF RegistrationInv, KeptInv, KeptCopy, RegistrationIsWhole

LEMMA GiveUpPhase ==
  ASSUME RegistrationInv, NEW w \in Writers, GiveUp(w)
  PROVE  TypeOK' /\ PhaseInv(w)' /\ KeptInv' /\ RegistrationIsWhole'
  <1>1. /\ pc' = [pc EXCEPT ![w] = "idle"] /\ plan' = [plan EXCEPT ![w] = None]
        /\ UNCHANGED <<slot, selection, installer, using, command, receipt, pending,
                       backups, edited>>
    BY DEF GiveUp, Goto
  <1>2. TypeOK'
    BY <1>1 DEF RegistrationInv, TypeOK
  <1>3. PhaseInv(w)'
    BY <1>1 DEF RegistrationInv, TypeOK, PhaseInv
  <1>4. QED
    BY <1>1, <1>2, <1>3 DEF RegistrationInv, KeptInv, KeptCopy, RegistrationIsWhole

\* The previous receipt, which is the one that was seen.
LEMMA BackupPhase ==
  ASSUME RegistrationInv, NEW w \in Writers, KeepPrevious(w)
  PROVE  TypeOK' /\ PhaseInv(w)' /\ KeptInv' /\ RegistrationIsWhole'
  <1>1. /\ pc[w] = "backup" /\ pc' = [pc EXCEPT ![w] = "intent"]
        /\ backups' = backups \cup {Single(plan[w].observed.receipt.value)}
        /\ UNCHANGED <<slot, selection, installer, using, command, receipt, pending,
                       plan, edited>>
    BY DEF KeepPrevious, Goto
  <1>2. TypeOK /\ PhaseInv(w)
    BY DEF RegistrationInv
  <1>3. receipt = plan[w].observed.receipt /\ receipt # None /\ receipt \in File(Releases)
        /\ pending = None /\ Content(command) # Custom
    BY <1>1, <1>2 DEF PhaseInv, TypeOK
  <1>4. /\ receipt.value \in Releases
        /\ Single(receipt.value) \in File(Releases) /\ Single(receipt.value).value = receipt.value
    BY <1>3, FileFacts, FileTyped
  <1>5. TypeOK'
    BY <1>1, <1>2, <1>3, <1>4 DEF TypeOK, Active
  <1>6. KeptCopy(receipt.value)'
    BY <1>1, <1>3, <1>4 DEF KeptCopy
  <1>7. PhaseInv(w)'
    BY <1>1, <1>2, <1>3, <1>6 DEF TypeOK, PhaseInv
  <1>8. KeptInv'
    BY <1>1, <1>6 DEF KeptInv
  <1>9. QED
    BY <1>1, <1>5, <1>7, <1>8 DEF RegistrationInv, RegistrationIsWhole

LEMMA IntentPhase ==
  ASSUME RegistrationInv, NEW w \in Writers, PublishIntent(w)
  PROVE  TypeOK' /\ PhaseInv(w)' /\ KeptInv' /\ RegistrationIsWhole'
  <1>1. /\ pc[w] = "intent" /\ pc' = [pc EXCEPT ![w] = "command"]
        /\ pending' = Single(IntentOf(w))
        /\ UNCHANGED <<slot, selection, installer, using, command, receipt, backups,
                       plan, edited>>
    BY DEF PublishIntent, Goto
  <1>2. TypeOK /\ PhaseInv(w)
    BY DEF RegistrationInv
  <1>3. IntentOf(w) \in Intent /\ IntentOf(w).after = plan[w].after
    BY <1>1, <1>2, IntentTyped
  <1>4. /\ pending' \in File(Intent) /\ pending' # None
        /\ pending'.value.after = plan[w].after
    BY <1>1, <1>3, FileTyped, FileFacts
  <1>5. TypeOK'
    BY <1>1, <1>2, <1>4 DEF TypeOK, Active
  <1>6. PhaseInv(w)'
    BY <1>1, <1>2, <1>4 DEF TypeOK, PhaseInv, Content
  <1>7. KeptInv'
    BY <1>1, <1>2 DEF KeptInv, PhaseInv, KeptCopy
  <1>8. QED
    BY <1>4, <1>5, <1>6, <1>7 DEF RegistrationIsWhole

LEMMA CommandPhase ==
  ASSUME RegistrationInv, NEW w \in Writers, PublishCommand(w)
  PROVE  TypeOK' /\ PhaseInv(w)' /\ KeptInv' /\ RegistrationIsWhole'
  <1>1. /\ pc[w] = "command" /\ pc' = [pc EXCEPT ![w] = "receipt"]
        /\ command' = Single(plan[w].after) /\ edited' = FALSE
        /\ UNCHANGED <<slot, selection, installer, using, receipt, pending, backups, plan>>
    BY DEF PublishCommand, Goto
  <1>2. TypeOK /\ PhaseInv(w)
    BY DEF RegistrationInv
  <1>3. plan[w].after \in Releases
    BY <1>1, <1>2, WriterTyped
  <1>4. /\ command' \in File(Releases \cup {Custom}) /\ command' # None
        /\ command'.value = plan[w].after
    BY <1>1, <1>3, FileTyped, FileFacts
  <1>5. TypeOK'
    BY <1>1, <1>2, <1>4 DEF TypeOK, Active
  <1>6. PhaseInv(w)'
    BY <1>1, <1>2, <1>4 DEF TypeOK, PhaseInv, Content
  <1>7. pending' # None
    BY <1>1, <1>2 DEF PhaseInv
  <1>8. QED
    BY <1>1, <1>5, <1>6, <1>7
    DEF RegistrationInv, KeptInv, KeptCopy, RegistrationIsWhole

LEMMA ReceiptPhase ==
  ASSUME RegistrationInv, NEW w \in Writers, PublishReceipt(w)
  PROVE  TypeOK' /\ PhaseInv(w)' /\ KeptInv' /\ RegistrationIsWhole'
  <1>1. /\ pc[w] = "receipt" /\ pc' = [pc EXCEPT ![w] = "drop"]
        /\ receipt' = Single(plan[w].after)
        /\ UNCHANGED <<slot, selection, installer, using, command, pending, backups,
                       plan, edited>>
    BY DEF PublishReceipt, Goto
  <1>2. TypeOK /\ PhaseInv(w)
    BY DEF RegistrationInv
  <1>3. plan[w].after \in Releases
    BY <1>1, <1>2, WriterTyped
  <1>4. /\ receipt' \in File(Releases) /\ receipt' # None
        /\ receipt'.value = plan[w].after
    BY <1>1, <1>3, FileTyped, FileFacts
  <1>5. TypeOK'
    BY <1>1, <1>2, <1>4 DEF TypeOK, Active
  <1>6. pending # None /\ pending.value.after = plan[w].after
    BY <1>1, <1>2 DEF PhaseInv
  <1>7. PhaseInv(w)'
    BY <1>1, <1>2, <1>4, <1>6 DEF TypeOK, PhaseInv, Content
  <1>8. QED
    BY <1>1, <1>4, <1>5, <1>6, <1>7 DEF KeptInv, RegistrationIsWhole

\* Command and receipt are both the release of the plan by now.
LEMMA DropPhase ==
  ASSUME RegistrationInv, NEW w \in Writers, DropIntent(w)
  PROVE  TypeOK' /\ PhaseInv(w)' /\ KeptInv' /\ RegistrationIsWhole'
  <1>1. /\ pc[w] = "drop" /\ pc' = [pc EXCEPT ![w] = "idle"]
        /\ plan' = [plan EXCEPT ![w] = None] /\ pending' = None
        /\ UNCHANGED <<slot, selection, installer, using, command, receipt, backups,
                       edited>>
    BY DEF DropIntent, Goto
  <1>2. TypeOK'
    BY <1>1 DEF RegistrationInv, TypeOK
  <1>3. PhaseInv(w)'
    BY <1>1 DEF RegistrationInv, TypeOK, PhaseInv
  <1>4. Content(command') = Content(receipt')
    BY <1>1 DEF RegistrationInv, PhaseInv, Content
  <1>5. QED
    BY <1>1, <1>2, <1>3, <1>4 DEF KeptInv, RegistrationIsWhole

\* What is left with two links is what the step would have left.
LEMMA DiesPhase ==
  ASSUME RegistrationInv, NEW w \in Writers, DiesLinking(w)
  PROVE  TypeOK' /\ PhaseInv(w)' /\ KeptInv' /\ RegistrationIsWhole'
  <1>1. /\ pc' = [pc EXCEPT ![w] = "idle"] /\ plan' = [plan EXCEPT ![w] = None]
        /\ UNCHANGED <<slot, selection, installer, using>>
    BY DEF DiesLinking, Goto, runtime
  <1>2. TypeOK /\ PhaseInv(w) /\ KeptInv /\ RegistrationIsWhole
    BY DEF RegistrationInv
  <1>3. PhaseInv(w)'
    BY <1>1, <1>2 DEF TypeOK, PhaseInv
  <1>4. ASSUME pc[w] # "idle" PROVE plan[w].after \in Releases /\ IntentOf(w) \in Intent
               /\ IntentOf(w).after = plan[w].after
    BY <1>2, <1>4, WriterTyped, IntentTyped
  <1>5. ASSUME command' \in File(Releases \cup {Custom}) \cup {None},
               receipt' \in File(Releases) \cup {None},
               pending' \in File(Intent) \cup {None},
               backups' \subseteq File(Releases), edited' \in BOOLEAN
        PROVE  TypeOK'
    BY <1>1, <1>2, <1>5 DEF TypeOK
  <1>6. CASE /\ pc[w] = "backup"
             /\ backups' = backups \cup {Doubled(plan[w].observed.receipt.value)}
             /\ UNCHANGED <<command, receipt, pending, edited>>
    <2>1. receipt = plan[w].observed.receipt /\ receipt \in File(Releases) /\ pending = None
      BY <1>2, <1>6 DEF PhaseInv, TypeOK
    <2>2. Doubled(receipt.value) \in File(Releases)
      BY <2>1, FileFacts, FileTyped
    <2>3. TypeOK'
      BY <1>2, <1>5, <1>6, <2>1, <2>2 DEF TypeOK
    <2>4. QED
      BY <1>2, <1>3, <1>6, <2>1, <2>3 DEF KeptInv, RegistrationIsWhole
  <1>7. CASE /\ pc[w] = "intent" /\ pending' = Doubled(IntentOf(w))
             /\ UNCHANGED <<command, receipt, backups, edited>>
    <2>1. pending' \in File(Intent) /\ pending' # None
      BY <1>4, <1>7, FileTyped, FileFacts
    <2>2. TypeOK'
      BY <1>2, <1>5, <1>7, <2>1 DEF TypeOK
    <2>3. KeptInv'
      BY <1>2, <1>7 DEF KeptInv, PhaseInv, KeptCopy
    <2>4. QED
      BY <1>3, <2>1, <2>2, <2>3 DEF RegistrationIsWhole
  <1>8. CASE /\ pc[w] = "command" /\ command' = Doubled(plan[w].after)
             /\ edited' = FALSE /\ UNCHANGED <<receipt, pending, backups>>
    <2>1. command' \in File(Releases \cup {Custom})
      BY <1>4, <1>8, FileTyped
    <2>2. TypeOK' /\ pending # None
      BY <1>2, <1>5, <1>8, <2>1 DEF TypeOK, PhaseInv
    <2>3. QED
      BY <1>2, <1>3, <1>8, <2>2 DEF KeptInv, KeptCopy, RegistrationIsWhole
  <1>9. CASE /\ pc[w] = "receipt" /\ receipt' = Doubled(plan[w].after)
             /\ UNCHANGED <<command, pending, backups, edited>>
    <2>1. receipt' \in File(Releases) /\ receipt'.value = plan[w].after
      BY <1>4, <1>9, FileTyped, FileFacts
    <2>2. TypeOK'
      BY <1>2, <1>5, <1>9, <2>1 DEF TypeOK
    <2>3. pending # None /\ pending.value.after = plan[w].after
      BY <1>2, <1>9 DEF PhaseInv
    <2>4. QED
      BY <1>3, <1>9, <2>1, <2>2, <2>3 DEF KeptInv, RegistrationIsWhole
  <1>10. QED
    BY <1>6, <1>7, <1>8, <1>9 DEF DiesLinking

-----------------------------------------------------------------------------
(* The user *)

\* A tidied file holds what it held.
LEMMA TidyFacts ==
  ASSUME NEW f
  PROVE  /\ f \in File(Releases) => Tidied(f) \in File(Releases)
         /\ f \in File(Releases \cup {Custom}) => Tidied(f) \in File(Releases \cup {Custom})
         /\ f \in File(Intent) => Tidied(f) \in File(Intent)
         /\ f = None => Tidied(f) = None
         /\ f # None => Tidied(f).value = f.value
  <1>1. f # None => Tidied(f) = Single(f.value)
    BY DEF Tidied
  <1>2. QED
    BY <1>1, FileFacts, FileTyped DEF Tidied

LEMMA UserKeeps ==
  ASSUME RegistrationInv, Edit \/ Tidy
  PROVE  RegistrationInv'
  <1>1. /\ UNCHANGED <<slot, selection, installer, using, pc, plan>> /\ BinFree
    BY DEF Edit, Tidy
  <1>2. \A w \in Writers : PhaseInv(w)'
    BY <1>1 DEF BinFree, PhaseInv, Active
  <1>3. OneWriter' /\ RuntimeInv'
    BY <1>1 DEF RegistrationInv, OneWriter, RuntimeInv, SharedHeld, SelectionStands
  <1>4. TypeOK
    BY DEF RegistrationInv
  <1>5. CASE Edit
    <2>1. /\ command' \in {Single(Custom), None} /\ edited' = TRUE
          /\ UNCHANGED <<receipt, pending, backups>>
      BY <1>5 DEF Edit
    <2>2. TypeOK'
      BY <1>1, <1>4, <2>1, FileTyped DEF TypeOK
    <2>3. KeptInv' /\ RegistrationIsWhole'
      BY <2>1 DEF RegistrationInv, KeptInv, KeptCopy, RegistrationIsWhole
    <2>4. QED
      BY <1>2, <1>3, <2>2, <2>3 DEF RegistrationInv
  <1>6. CASE Tidy
    <2>1. /\ command' = Tidied(command) /\ receipt' = Tidied(receipt)
          /\ pending' = Tidied(pending) /\ backups' = {Tidied(b) : b \in backups}
          /\ UNCHANGED edited
      BY <1>6 DEF Tidy
    <2>2. /\ command' \in File(Releases \cup {Custom}) \cup {None}
          /\ receipt' \in File(Releases) \cup {None}
          /\ pending' \in File(Intent) \cup {None}
      BY <1>4, <2>1, TidyFacts DEF TypeOK
    <2>3. /\ backups' \subseteq File(Releases)
          /\ \A b \in backups : \E c \in backups' : c.value = b.value
      <3>1. \A b \in backups : b \in File(Releases) /\ b # None
        BY <1>4, FileFacts DEF TypeOK
      <3>2. \A b \in backups : Tidied(b) \in File(Releases) /\ Tidied(b).value = b.value
        BY <3>1, TidyFacts
      <3>3. QED
        BY <2>1, <3>2
    <2>4. TypeOK'
      BY <1>1, <1>4, <2>1, <2>2, <2>3 DEF TypeOK
    <2>5. /\ command = None <=> command' = None
          /\ receipt = None <=> receipt' = None
          /\ pending = None <=> pending' = None
          /\ command # None => command'.value = command.value
          /\ receipt # None => receipt'.value = receipt.value
          /\ pending # None => pending'.value = pending.value
      BY <1>4, <2>1, TidyFacts, FileFacts DEF TypeOK
    <2>6. KeptInv'
      BY <2>3, <2>5 DEF RegistrationInv, KeptInv, KeptCopy
    <2>7. RegistrationIsWhole'
      BY <2>1, <2>5 DEF RegistrationInv, RegistrationIsWhole, Content
    <2>8. QED
      BY <1>2, <1>3, <2>4, <2>6, <2>7 DEF RegistrationInv
  <1>7. QED
    BY <1>5, <1>6

-----------------------------------------------------------------------------
(* The theorems *)

LEMMA RegistrationInit == Init => RegistrationInv
  BY DEF Init, RegistrationInv, TypeOK, OneWriter, RuntimeInv, SharedHeld, SelectionStands,
     KeptInv, PhaseInv, RegistrationIsWhole, Active

LEMMA WriterKeeps ==
  ASSUME RegistrationInv, NEW w \in Writers, WriterStep(w)
  PROVE  RegistrationInv'
  <1>1. TypeOK' /\ PhaseInv(w)' /\ KeptInv' /\ RegistrationIsWhole'
    BY PlanPhase, StartPhase, GiveUpPhase, BackupPhase, IntentPhase, CommandPhase,
       ReceiptPhase, DropPhase, DiesPhase DEF WriterStep, Writing
  <1>2. \A v \in Writers \ {w} : PhaseInv(v)'
    BY OthersPhase
  <1>3. OneWriter' /\ RuntimeInv'
    BY WriterExcludes DEF RegistrationInv
  <1>4. QED
    BY <1>1, <1>2, <1>3 DEF RegistrationInv

LEMMA NextSteps ==
  ASSUME Next
  PROVE  RuntimeStep \/ (\E w \in Writers : WriterStep(w)) \/ Edit \/ Tidy
  BY DEF Next, RuntimeStep, WriterStep

LEMMA RegistrationNext == RegistrationInv /\ [Next]_vars => RegistrationInv'
  <1> SUFFICES ASSUME RegistrationInv, [Next]_vars
               PROVE  RegistrationInv'
    OBVIOUS
  <1>1. CASE RuntimeStep
    <2>1. TypeOK' /\ RuntimeInv' /\ UNCHANGED <<bin, pc, plan, edited>>
      BY <1>1, RuntimeTypes, RuntimeKeeps DEF RegistrationInv
    <2>2. QED
      BY <2>1 DEF bin, RegistrationInv, OneWriter, KeptInv, KeptCopy, PhaseInv,
         RegistrationIsWhole
  <1>2. CASE UNCHANGED vars
    BY <1>2 DEF vars, RegistrationInv, TypeOK, OneWriter, RuntimeInv, SharedHeld,
       SelectionStands, KeptInv, KeptCopy, PhaseInv, RegistrationIsWhole
  <1>3. QED
    BY <1>1, <1>2, NextSteps, WriterKeeps, UserKeeps

LEMMA RegistrationInvariant == Spec => []RegistrationInv
  BY RegistrationInit, RegistrationNext, PTL DEF Spec

\* Files, leases, plans and phases are what the steps of the writers expect.
THEOREM RegistrationTypes == Spec => []TypeOK
  <1>1. RegistrationInv => TypeOK
    BY DEF RegistrationInv
  <1>2. QED
    BY RegistrationInvariant, <1>1, PTL

\* An installation that fails or dies at any step, and any reselection, leave a
\* completed release selected, and never another one than a worker is running.
THEOREM SelectedReleaseStands == Spec => []SelectionStands
  <1>1. RegistrationInv => SelectionStands
    BY DEF RegistrationInv, RuntimeInv
  <1>2. QED
    BY RegistrationInvariant, <1>1, PTL

\* Registration, refresh and recovery may be interrupted after every step: with
\* no intent left the command and its receipt name the same release.
THEOREM WholeOrPending == Spec => []RegistrationIsWhole
  <1>1. RegistrationInv => RegistrationIsWhole
    BY DEF RegistrationInv
  <1>2. QED
    BY RegistrationInvariant, <1>1, PTL

LEMMA CustomCommandStays ==
  ASSUME RegistrationInv, [Next]_vars, Content(command) = Custom, pc' # pc
  PROVE  command' = command
  <1>1. PICK w \in Writers : WriterStep(w)
    <2>1. ~RuntimeStep
      BY RuntimeTypes DEF RegistrationInv
    <2>2. ~Edit /\ ~Tidy /\ ~UNCHANGED vars
      BY DEF Edit, Tidy, vars
    <2>3. QED
      BY <2>1, <2>2, NextSteps
  <1>2. PhaseInv(w)
    BY DEF RegistrationInv
  <1>3. pc[w] # "command"
    BY <1>2 DEF PhaseInv
  <1>4. QED
    BY <1>1, <1>3 DEF WriterStep, Writing, MakePlan, Start, KeepPrevious, PublishIntent,
       PublishCommand, PublishReceipt, DropIntent, DiesLinking, GiveUp

\* apply, refresh and recover replace the command only where it is one the plan
\* knows: what the user put there in its place survives every one of them.
THEOREM EditsStay == Spec => EditsArePreserved
  <1>1. RegistrationInv /\ [Next]_vars =>
          [Content(command) = Custom /\ pc' # pc => command' = command]_vars
    BY CustomCommandStays
  <1>2. QED
    BY RegistrationInvariant, <1>1, PTL DEF Spec, EditsArePreserved

LEMMA ReplacedIsKept ==
  ASSUME RegistrationInv, [Next]_vars, receipt # None, Content(receipt') # receipt.value
  PROVE  KeptCopy(receipt.value)
  <1>1. receipt' # receipt
    BY DEF Content
  <1>2. ~Tidy
    <2> SUFFICES ASSUME Tidy PROVE FALSE
      OBVIOUS
    <2>1. receipt' = Tidied(receipt) /\ receipt \in File(Releases)
      BY DEF Tidy, RegistrationInv, TypeOK
    <2>2. receipt' \in File(Releases) /\ receipt'.value = receipt.value
      BY <2>1, TidyFacts
    <2>3. QED
      BY <2>2, FileFacts
  <1>3. PICK w \in Writers : WriterStep(w)
    BY <1>1, <1>2, NextSteps, RuntimeTypes DEF vars, RegistrationInv, Edit, bin
  <1>4. pc[w] = "receipt" /\ receipt' = Single(plan[w].after)
    BY <1>1, <1>3 DEF WriterStep, Writing, MakePlan, Start, KeepPrevious, PublishIntent,
       PublishCommand, PublishReceipt, DropIntent, DiesLinking, GiveUp
  <1>5. plan[w].after \in Releases
    BY <1>4, WriterTyped DEF RegistrationInv
  <1>6. Content(receipt') = plan[w].after
    BY <1>4, <1>5, FileTyped, FileFacts
  <1>7. pending # None /\ pending.value.after = plan[w].after
    BY <1>4 DEF RegistrationInv, PhaseInv
  <1>8. QED
    BY <1>6, <1>7 DEF RegistrationInv, KeptInv

\* A receipt is replaced, at the end of a refresh or of the recovery of one that
\* was interrupted anywhere, only when a copy of it is in the backups.
THEOREM PreviousStays == Spec => PreviousIsKept
  <1>1. RegistrationInv /\ [Next]_vars =>
          [receipt # None /\ Content(receipt') # receipt.value =>
             \E b \in backups : b.value = receipt.value]_vars
    BY ReplacedIsKept DEF KeptCopy
  <1>2. QED
    BY RegistrationInvariant, <1>1, PTL DEF Spec, PreviousIsKept

-----------------------------------------------------------------------------
(* The application of plans to repositories                                *)

\* The assumptions of PackageApplication on the packages, the bounds and Absent.
PackageConstants == PackageAssumption /\ AbsentAssumption

\* The steps of plans that lead to the contents goal.
Steps(goal) == [do : {"save", "note", "clear", "put"}, path : Paths,
                value : {Absent} \cup {goal[x] : x \in Paths}]

IsChange(step) == step.do \in {"clear", "put"}

\* Before its i-th step the plan has saved the path and then noted its copies.
SecuredBefore(todo, i, path) ==
  \E j, k \in 1..(i - 1) :
    j < k /\ todo[j].do = "save" /\ todo[j].path = path /\ todo[k].do = "note"

NotedBefore(todo, i) == \E k \in 1..(i - 1) : todo[k].do = "note"

ChangedBefore(todo, i, path) ==
  \E k \in 1..(i - 1) : IsChange(todo[k]) /\ todo[k].path = path

\* What is cleared is a package or an adapter.
Clearable == {Package(p) : p \in Packages} \cup {Adapter(t) : t \in Targets}

\* A plan that changes a path when a copy of it is noted, if those of the paths
\* noted are and those of the paths saved exist, that never copies what it has
\* changed, and that replaces whatever it clears by its goal.
Orderly(todo, noted, saved, changes, goal) ==
  /\ todo \in Seq(Steps(goal))
  /\ \A i \in 1..Len(todo) :
       /\ IsChange(todo[i]) =>
            /\ todo[i].path \in changes
            /\ \/ todo[i].path \in noted
               \/ todo[i].path \in saved /\ NotedBefore(todo, i)
               \/ SecuredBefore(todo, i, todo[i].path)
       /\ todo[i].do = "save" => ~ChangedBefore(todo, i, todo[i].path)
       /\ todo[i].do = "put" => todo[i].value = goal[todo[i].path]
       /\ todo[i].do = "clear" =>
            /\ todo[i].path \in Clearable
            /\ \E k \in (i + 1)..Len(todo) :
                 todo[k].do = "put" /\ todo[k].path = todo[i].path

Puts(todo, path) == \E i \in 1..Len(todo) : todo[i].do = "put" /\ todo[i].path = path

\* A part of a plan: it needs copies noted of some paths, saves and notes
\* others, and changes some.
Part(todo, needs, saves, changes, goal) ==
  /\ Orderly(todo, needs, {}, changes, goal)
  /\ \A i \in 1..Len(todo) : todo[i].do = "save" => todo[i].path \in saves
  /\ \A x \in saves : SecuredBefore(todo, Len(todo) + 1, x)
  /\ \A x \in changes : Puts(todo, x)

\* A set of natural numbers has a smallest: intervals are ordered by inclusion.
LEMMA Smallest ==
  ASSUME NEW S \in SUBSET Nat, S # {}
  PROVE  \E m \in S : \A n \in S : m =< n
  <1> DEFINE T == {0..n : n \in S}
  <1>1. T \subseteq FiniteSubsetsOf(Nat)
    <2>1. \A n \in S : IsFiniteSet(0..n) /\ 0..n \subseteq Nat
      BY FS_Interval
    <2>2. QED
      BY <2>1 DEF FiniteSubsetsOf
  <1>2. PICK x \in T : \A y \in T : ~(<<y, x>> \in StrictSubsetOrdering(Nat))
    <2>1. T # {}
      OBVIOUS
    <2>2. IsWellFoundedOn(StrictSubsetOrdering(Nat), FiniteSubsetsOf(Nat))
      BY FS_StrictSubsetOrderingWellFounded
    <2> HIDE DEF T
    <2>3. QED
      BY <1>1, <2>1, <2>2, WFMin
  <1>3. PICK m \in S : x = 0..m
    OBVIOUS
  <1>4. ASSUME NEW n \in S, n < m
        PROVE  FALSE
    <2>1. 0..n \subseteq 0..m /\ 0..n # 0..m
      BY <1>4
    <2>2. <<0..n, 0..m>> \in StrictSubsetOrdering(Nat)
      BY <2>1 DEF StrictSubsetOrdering
    <2>3. QED
      BY <1>2, <1>3, <2>2
  <1>5. QED
    BY <1>4

\* One part after the other.
LEMMA PartsFollow ==
  ASSUME NEW goal, NEW a, NEW b, NEW needs, NEW na, NEW nb, NEW sa, NEW sb, NEW ca, NEW cb,
         Part(a, na, sa, ca, goal), Part(b, nb, sb, cb, goal),
         na \subseteq needs, nb \subseteq needs \cup sa, sb \cap ca = {}
  PROVE  Part(a \o b, needs, sa \cup sb, ca \cup cb, goal)
  <1> DEFINE S == Steps(goal)
             c == a \o b
             l == Len(a)
             m == Len(b)
  <1>1. a \in Seq(S) /\ b \in Seq(S) /\ l \in Nat /\ m \in Nat
    BY DEF Part, Orderly
  <1>2. c \in Seq(S) /\ Len(c) = l + m
        /\ \A i \in 1..(l + m) : c[i] = IF i =< l THEN a[i] ELSE b[i - l]
    BY <1>1, ConcatProperties
  <1> HIDE DEF c
  <1>3. /\ \A i \in 1..l : i \in 1..Len(c) /\ c[i] = a[i]
        /\ \A i \in 1..m : l + i \in 1..Len(c) /\ c[l + i] = b[i]
    <2>1. ASSUME NEW i \in 1..m PROVE l + i \in 1..(l + m) /\ ~(l + i =< l) /\ l + i - l = i
      BY <1>1
    <2>2. QED
      BY <1>1, <1>2, <2>1
  <1>4. ASSUME NEW i \in 1..Len(c), ~(i \in 1..l) PROVE \E j \in 1..m : i = l + j
    <2>1. i - l \in 1..m /\ i = l + (i - l)
      BY <1>1, <1>2, <1>4
    <2>2. QED
      BY <2>1
  <1>5. ASSUME NEW i \in 1..(l + 1), NEW x, SecuredBefore(a, i, x)
        PROVE  SecuredBefore(c, i, x)
    <2>1. PICK j, k \in 1..(i - 1) :
            j < k /\ a[j].do = "save" /\ a[j].path = x /\ a[k].do = "note"
      BY <1>5 DEF SecuredBefore
    <2>2. j \in 1..l /\ k \in 1..l
      BY <1>1
    <2>3. QED
      BY <1>3, <2>1, <2>2 DEF SecuredBefore
  <1>6. ASSUME NEW i \in 1..(m + 1), NEW x, SecuredBefore(b, i, x)
        PROVE  SecuredBefore(c, l + i, x)
    <2>1. PICK j, k \in 1..(i - 1) :
            j < k /\ b[j].do = "save" /\ b[j].path = x /\ b[k].do = "note"
      BY <1>6 DEF SecuredBefore
    <2>2. /\ j \in 1..m /\ k \in 1..m /\ l + j < l + k
          /\ l + j \in 1..(l + i - 1) /\ l + k \in 1..(l + i - 1)
      BY <1>1, <2>1
    <2>3. c[l + j] = b[j] /\ c[l + k] = b[k]
      BY <1>3, <2>2
    <2>4. /\ c[l + j].do = "save" /\ c[l + j].path = x /\ c[l + k].do = "note"
      BY <2>1, <2>3
    <2>5. PICK p, q \in 1..(l + i - 1) :
            p < q /\ c[p].do = "save" /\ c[p].path = x /\ c[q].do = "note"
      BY <2>2, <2>4
    <2>6. QED
      BY <2>5 DEF SecuredBefore
  <1>7. ASSUME NEW i \in 1..(m + 1), NEW x \in sa PROVE SecuredBefore(c, l + i, x)
    <2>1. SecuredBefore(c, l + 1, x)
      <3>1. SecuredBefore(a, l + 1, x) /\ l + 1 \in 1..(l + 1)
        BY <1>1 DEF Part
      <3>2. QED
        BY <1>5, <3>1
    <2>2. 1..(l + 1 - 1) \subseteq 1..(l + i - 1)
      BY <1>1
    <2>3. QED
      BY <2>1, <2>2 DEF SecuredBefore
  <1>8. ASSUME NEW x, ChangedBefore(c, l + 1, x) PROVE x \in ca
    <2>1. PICK k \in 1..(l + 1 - 1) : IsChange(c[k]) /\ c[k].path = x
      BY <1>8 DEF ChangedBefore
    <2>2. k \in 1..l
      BY <1>1
    <2>3. QED
      BY <1>3, <2>1, <2>2 DEF Part, Orderly
  <1>9. ASSUME NEW i \in 1..l
        PROVE  /\ IsChange(c[i]) =>
                    /\ c[i].path \in ca \cup cb
                    /\ c[i].path \in needs \/ SecuredBefore(c, i, c[i].path)
               /\ c[i].do = "save" =>
                    c[i].path \in sa \cup sb /\ ~ChangedBefore(c, i, c[i].path)
               /\ c[i].do = "put" => c[i].value = goal[c[i].path]
               /\ c[i].do = "clear" =>
                    /\ c[i].path \in Clearable
                    /\ \E k \in (i + 1)..Len(c) : c[k].do = "put" /\ c[k].path = c[i].path
    <2>1. c[i] = a[i]
      BY <1>3
    <2>2. i \in 1..(l + 1) /\ 1..(i - 1) \subseteq 1..l /\ (i + 1)..l \subseteq (i + 1)..Len(c)
          /\ (i + 1)..l \subseteq 1..l
      BY <1>1, <1>2
    <2>3. IsChange(a[i]) => a[i].path \in na \/ SecuredBefore(a, i, a[i].path)
      BY DEF Part, Orderly
    <2>4. IsChange(c[i]) => c[i].path \in needs \/ SecuredBefore(c, i, c[i].path)
      BY <1>5, <2>1, <2>2, <2>3
    <2>5. ChangedBefore(c, i, c[i].path) => ChangedBefore(a, i, c[i].path)
      BY <1>3, <2>2 DEF ChangedBefore
    <2>6. c[i].do = "clear" =>
            \E k \in (i + 1)..Len(c) : c[k].do = "put" /\ c[k].path = c[i].path
      BY <1>3, <2>1, <2>2 DEF Part, Orderly
    <2>7. QED
      BY <2>1, <2>4, <2>5, <2>6 DEF Part, Orderly
  <1>10. ASSUME NEW i \in 1..m
         PROVE  LET h == l + i
                IN  /\ IsChange(c[h]) =>
                         /\ c[h].path \in ca \cup cb
                         /\ c[h].path \in needs \/ SecuredBefore(c, h, c[h].path)
                    /\ c[h].do = "save" =>
                         c[h].path \in sa \cup sb /\ ~ChangedBefore(c, h, c[h].path)
                    /\ c[h].do = "put" => c[h].value = goal[c[h].path]
                    /\ c[h].do = "clear" =>
                         /\ c[h].path \in Clearable
                         /\ \E k \in (h + 1)..Len(c) : c[k].do = "put" /\ c[k].path = c[h].path
    <2> DEFINE h == l + i
    <2>1. c[h] = b[i] /\ h \in 1..Len(c)
      BY <1>3
    <2>2. i \in 1..(m + 1)
      OBVIOUS
    <2>3. IsChange(b[i]) => b[i].path \in nb \/ SecuredBefore(b, i, b[i].path)
      BY DEF Part, Orderly
    <2>4. IsChange(c[h]) => c[h].path \in needs \/ SecuredBefore(c, h, c[h].path)
      BY <1>6, <1>7, <2>1, <2>2, <2>3
    <2>5. ASSUME c[h].do = "save", ChangedBefore(c, h, c[h].path)
          PROVE  FALSE
      <3>1. PICK k \in 1..(h - 1) : IsChange(c[k]) /\ c[k].path = b[i].path
        BY <2>1, <2>5 DEF ChangedBefore
      <3>2. CASE k \in 1..l
        <4>1. ChangedBefore(c, l + 1, b[i].path)
          <5>1. k \in 1..(l + 1 - 1)
            BY <1>1, <3>2
          <5>2. QED
            BY <3>1, <5>1 DEF ChangedBefore
        <4>2. b[i].path \in sb
          BY <2>1, <2>5 DEF Part
        <4>3. QED
          BY <1>8, <4>1, <4>2
      <3>3. CASE k \notin 1..l
        <4>1. k \in 1..Len(c)
          BY <1>1, <1>2
        <4>2. PICK j \in 1..m : k = l + j
          BY <1>4, <3>3, <4>1
        <4>3. j \in 1..(i - 1) /\ c[k] = b[j]
          BY <1>1, <1>3, <4>2
        <4>4. ChangedBefore(b, i, b[i].path)
          BY <3>1, <4>3 DEF ChangedBefore
        <4>5. QED
          BY <2>1, <2>5, <4>4 DEF Part, Orderly
      <3>4. QED
        BY <3>2, <3>3
    <2>6. ASSUME c[h].do = "clear"
          PROVE  \E k \in (h + 1)..Len(c) : c[k].do = "put" /\ c[k].path = c[h].path
      <3>1. PICK k \in (i + 1)..m : b[k].do = "put" /\ b[k].path = b[i].path
        BY <2>1, <2>6 DEF Part, Orderly
      <3>2. k \in 1..m /\ l + k \in (h + 1)..Len(c)
        BY <1>1, <1>2
      <3>3. c[l + k] = b[k]
        BY <1>3, <3>2
      <3>4. QED
        BY <2>1, <3>1, <3>2, <3>3
    <2> HIDE DEF h
    <2>7. /\ IsChange(c[h]) => c[h].path \in ca \cup cb
          /\ c[h].do = "save" => c[h].path \in sa \cup sb
          /\ c[h].do = "put" => c[h].value = goal[c[h].path]
          /\ c[h].do = "clear" => c[h].path \in Clearable
      BY <2>1 DEF Part, Orderly
    <2>8. QED
      BY <2>4, <2>5, <2>6, <2>7 DEF h
  <1>11. ASSUME NEW i \in 1..Len(c)
         PROVE  /\ IsChange(c[i]) =>
                     /\ c[i].path \in ca \cup cb
                     /\ c[i].path \in needs \/ SecuredBefore(c, i, c[i].path)
                /\ c[i].do = "save" =>
                     c[i].path \in sa \cup sb /\ ~ChangedBefore(c, i, c[i].path)
                /\ c[i].do = "put" => c[i].value = goal[c[i].path]
                /\ c[i].do = "clear" =>
                     /\ c[i].path \in Clearable
                     /\ \E k \in (i + 1)..Len(c) : c[k].do = "put" /\ c[k].path = c[i].path
    <2>1. CASE i \in 1..l
      BY <1>9, <2>1
    <2>2. CASE i \notin 1..l
      <3>1. PICK j \in 1..m : i = l + j
        BY <1>4, <2>2
      <3>2. QED
        BY <1>10, <3>1
    <2>3. QED
      BY <2>1, <2>2
  <1>12. \A x \in sa \cup sb : SecuredBefore(c, Len(c) + 1, x)
    <2>1. m + 1 \in 1..(m + 1) /\ l + (m + 1) = Len(c) + 1
      BY <1>1, <1>2
    <2>2. \A x \in sb : SecuredBefore(b, m + 1, x)
      BY DEF Part
    <2>3. QED
      BY <1>6, <1>7, <2>1, <2>2
  <1>13. \A x \in ca \cup cb : Puts(c, x)
    <2>1. ASSUME NEW x \in ca PROVE Puts(c, x)
      <3>1. PICK i \in 1..l : a[i].do = "put" /\ a[i].path = x
        BY DEF Part, Puts
      <3>2. QED
        BY <1>3, <3>1 DEF Puts
    <2>2. ASSUME NEW x \in cb PROVE Puts(c, x)
      <3>1. PICK i \in 1..m : b[i].do = "put" /\ b[i].path = x
        BY DEF Part, Puts
      <3>2. QED
        BY <1>3, <3>1 DEF Puts
    <2>3. QED
      BY <2>1, <2>2
  <1>14. Orderly(c, needs, {}, ca \cup cb, goal)
    BY <1>2, <1>11 DEF Orderly
  <1>15. QED
    BY <1>11, <1>12, <1>13, <1>14 DEF Part, c

-----------------------------------------------------------------------------
(* The parts that plans are made of *)

LEMMA SavedPart ==
  ASSUME NEW goal, NEW x \in Paths PROVE Part(Saved(x), {}, {x}, {}, goal)
  <1> DEFINE a == Step("save", x, Absent)
             b == Step("note", x, Absent)
  <1>1. a \in Steps(goal) /\ b \in Steps(goal) /\ a.do = "save" /\ a.path = x /\ b.do = "note"
    BY DEF Step, Steps
  <1> HIDE DEF a, b
  <1>2. /\ <<a, b>> \in Seq(Steps(goal)) /\ Len(<<a, b>>) = 2
        /\ <<a, b>>[1] = a /\ <<a, b>>[2] = b /\ 1..2 = {1, 2}
    BY <1>1
  <1>3. PICK s : s = <<a, b>>
    OBVIOUS
  <1>4. s \in Seq(Steps(goal)) /\ Len(s) = 2 /\ s[1] = a /\ s[2] = b /\ 1..2 = {1, 2}
    BY <1>2, <1>3
  <1>5. Orderly(s, {}, {}, {}, goal)
    <2>1. ~ChangedBefore(s, 1, x)
      BY DEF ChangedBefore
    <2>2. QED
      BY <1>1, <1>4, <2>1 DEF Orderly, IsChange
  <1>6. SecuredBefore(s, 3, x)
    BY <1>1, <1>4 DEF SecuredBefore
  <1>7. QED
    BY <1>1, <1>3, <1>4, <1>5, <1>6 DEF Part, Saved, a, b

LEMMA RewrittenPart ==
  ASSUME NEW goal, NEW x \in Paths, x \in Clearable, NEW v, goal[x] = v
  PROVE  Part(Rewritten(x, v), {x}, {}, {x}, goal)
  <1> DEFINE a == Step("clear", x, Absent)
             b == Step("put", x, v)
  <1>1. /\ a \in Steps(goal) /\ b \in Steps(goal) /\ a.do = "clear" /\ b.do = "put"
        /\ a.path = x /\ b.path = x /\ b.value = v
    BY DEF Step, Steps
  <1> HIDE DEF a, b
  <1>2. /\ <<a, b>> \in Seq(Steps(goal)) /\ Len(<<a, b>>) = 2
        /\ <<a, b>>[1] = a /\ <<a, b>>[2] = b
    BY <1>1
  <1>3. PICK s : s = <<a, b>>
    OBVIOUS
  <1>4. /\ s \in Seq(Steps(goal)) /\ Len(s) = 2 /\ s[1] = a /\ s[2] = b /\ 1..2 = {1, 2}
        /\ 2 \in (1 + 1)..2
    BY <1>2, <1>3
  <1>5. Orderly(s, {x}, {}, {x}, goal)
    BY <1>1, <1>4 DEF Orderly, IsChange
  <1>6. QED
    BY <1>1, <1>3, <1>4, <1>5 DEF Part, Puts, Rewritten, a, b

LEMMA WrittenPart ==
  ASSUME NEW goal, NEW x \in Paths, NEW v, goal[x] = v
  PROVE  Part(Written(x, v), {x}, {}, {x}, goal)
  <1> DEFINE b == Step("put", x, v)
  <1>1. b \in Steps(goal) /\ b.do = "put" /\ b.path = x /\ b.value = v
    BY DEF Step, Steps
  <1> HIDE DEF b
  <1>2. <<b>> \in Seq(Steps(goal)) /\ Len(<<b>>) = 1 /\ <<b>>[1] = b
    BY <1>1
  <1>3. PICK s : s = <<b>>
    OBVIOUS
  <1>4. s \in Seq(Steps(goal)) /\ Len(s) = 1 /\ s[1] = b /\ 1..1 = {1}
    BY <1>2, <1>3
  <1>5. Orderly(s, {x}, {}, {x}, goal)
    BY <1>1, <1>4 DEF Orderly, IsChange
  <1>6. QED
    BY <1>1, <1>3, <1>4, <1>5 DEF Part, Puts, Written, b

LEMMA ReplacedPart ==
  ASSUME NEW goal, NEW x \in Paths, x \in Clearable, NEW v, goal[x] = v
  PROVE  Part(Replaced(x, v), {}, {x}, {x}, goal)
  <1>1. Part(Saved(x), {}, {x}, {}, goal) /\ Part(Rewritten(x, v), {x}, {}, {x}, goal)
    BY SavedPart, RewrittenPart
  <1>2. Part(Saved(x) \o Rewritten(x, v), {}, {x} \cup {}, {} \cup {x}, goal)
    BY <1>1, PartsFollow
  <1>3. QED
    BY <1>2 DEF Replaced

LEMMA EmptyPart == ASSUME NEW goal PROVE Part(<<>>, {}, {}, {}, goal)
  <1>1. Len(<<>>) = 0 /\ <<>> \in Seq(Steps(goal))
    BY EmptySeq
  <1>2. QED
    BY <1>1 DEF Part, Orderly

-----------------------------------------------------------------------------
(* Parts for the members of a set: FlattenSeq is one function of how many    *)
(* sequences are joined, whose values for fewer of them determine the next.  *)

Joins(g, f, n) ==
  /\ FlattenSeq(f) = g[n] /\ g[1] = f[1]
  /\ \A i \in 2..n : g[i] = g[i - 1] \o f[i]

LEMMA Flattened ==
  ASSUME NEW n \in Nat, n # 0, NEW f, Len(f) = n
  PROVE  \E g : Joins(g, f, n)
  <1> DEFINE Is(m, g) == g = [i \in 1..m |-> IF i = 1 THEN f[i] ELSE g[i - 1] \o f[i]]
             Without == {m \in Nat : ~\E g : Is(m, g)}
  <1>1. Without = {}
    <2> SUFFICES ASSUME Without # {} PROVE FALSE
      OBVIOUS
    <2>1. PICK m \in Without : \A k \in Without : m =< k
      <3>1. Without \in SUBSET Nat
        OBVIOUS
      <3> HIDE DEF Without
      <3>2. QED
        BY <3>1, Smallest
    <2>2. m \in Nat /\ ~\E g : Is(m, g)
      BY <2>1
    <2>3. m # 0
      <3>1. Is(0, [i \in {} |-> 0])
        OBVIOUS
      <3>2. QED
        BY <2>2, <3>1
    <2>4. PICK g : Is(m - 1, g)
      <3>1. m - 1 \in Nat /\ ~(m =< m - 1)
        BY <2>2, <2>3
      <3>2. QED
        BY <2>1, <3>1
    <2> DEFINE V(i) == IF i = m THEN IF m = 1 THEN f[m] ELSE g[m - 1] \o f[m] ELSE g[i]
               h == [i \in 1..m |-> V(i)]
    <2>5. ASSUME NEW i \in 1..m
          PROVE  h[i] = IF i = 1 THEN f[i] ELSE h[i - 1] \o f[i]
      <3>1. CASE i = m
        <4>1. i # 1 => i - 1 \in 1..m /\ i - 1 # m
          BY <2>2, <3>1
        <4>2. QED
          BY <3>1, <4>1
      <3>2. CASE i # m
        <4>1. i \in 1..(m - 1) /\ (i # 1 => i - 1 \in 1..m /\ i - 1 # m)
          BY <2>2, <3>2
        <4>2. g[i] = IF i = 1 THEN f[i] ELSE g[i - 1] \o f[i]
          BY <2>4, <4>1
        <4>3. QED
          BY <3>2, <4>1, <4>2
      <3>3. QED
        BY <3>1, <3>2
    <2>6. Is(m, h)
      <3>1. h = [i \in 1..m |-> h[i]]
        OBVIOUS
      <3> HIDE DEF h
      <3>2. QED
        BY <2>5, <3>1
    <2>7. QED
      BY <2>2, <2>6
  <1>2. \E g : Is(n, g)
    <2> HIDE DEF Is
    <2>1. n \notin Without /\ n \in Nat
      BY <1>1
    <2>2. QED
      BY <2>1
  <1> DEFINE flatten == CHOOSE g : Is(n, g)
  <1>3. Is(n, flatten)
    <2> HIDE DEF Is
    <2>1. QED
      BY <1>2
  <1>4. FlattenSeq(f) = flatten[n]
    BY DEF FlattenSeq
  <1> HIDE DEF flatten
  <1>5. /\ flatten[1] = f[1]
        /\ \A i \in 2..n : flatten[i] = flatten[i - 1] \o f[i]
    <2>1. ASSUME NEW i \in 1..n
          PROVE  flatten[i] = IF i = 1 THEN f[i] ELSE flatten[i - 1] \o f[i]
      BY <1>3
    <2>2. 1 \in 1..n /\ \A i \in 2..n : i \in 1..n /\ i # 1
      OBVIOUS
    <2>3. QED
      BY <2>1, <2>2
  <1>6. QED
    BY <1>4, <1>5 DEF Joins

\* The same part for each of several paths, of which no two are the same: what a
\* single one needs, saves and changes is decided by its membership in ns, ss, cs.
LEMMA PartsOfAll ==
  ASSUME NEW goal, NEW n \in Nat, NEW f \in [1..n -> Seq(Steps(goal))],
         NEW w, NEW all, {w[i] : i \in 1..n} = all, NEW ns, NEW ss, NEW cs,
         \A i \in 1..n : Part(f[i], {w[i]} \cap ns, {w[i]} \cap ss, {w[i]} \cap cs, goal),
         \A i, j \in 1..n : w[i] = w[j] => i = j
  PROVE  Part(FlattenSeq(f), all \cap ns, all \cap ss, all \cap cs, goal)
  <1> DEFINE W(m) == {w[i] : i \in 1..m}
             Q(s, m) == Part(s, W(n) \cap ns, W(m) \cap ss, W(m) \cap cs, goal)
  <1>1. f \in Seq(Seq(Steps(goal))) /\ Len(f) = n
    OBVIOUS
  <1>2. ASSUME n = 0 PROVE Q(FlattenSeq(f), n)
    <2>1. f = <<>>
      BY <1>1, <1>2, EmptySeq
    <2>2. FlattenSeq(f) = <<>>
      BY <1>1, <1>2, <2>1 DEF FlattenSeq
    <2>3. W(n) \cap ns = {} /\ W(n) \cap ss = {} /\ W(n) \cap cs = {}
      BY <1>2
    <2>4. Part(FlattenSeq(f), {}, {}, {}, goal)
      BY <2>2, EmptyPart
    <2> HIDE DEF W
    <2>5. Q(FlattenSeq(f), n)
      BY <2>3, <2>4
    <2>6. QED
      BY <2>5
  <1>3. ASSUME n # 0 PROVE Q(FlattenSeq(f), n)
    <2>1. PICK g : /\ FlattenSeq(f) = g[n] /\ g[1] = f[1]
                   /\ \A i \in 2..n : g[i] = g[i - 1] \o f[i]
      <3>1. PICK g : Joins(g, f, n)
        BY <1>1, <1>3, Flattened
      <3>2. QED
        BY <3>1 DEF Joins
    <2> DEFINE Not == {m \in Nat : m \in 1..n /\ ~Q(g[m], m)}
    <2>2. Not = {}
      <3> SUFFICES ASSUME Not # {} PROVE FALSE
        OBVIOUS
      <3>1. PICK m \in Not : \A k \in Not : m =< k
        <4>1. Not \in SUBSET Nat
          OBVIOUS
        <4> HIDE DEF Not
        <4>2. QED
          BY <4>1, Smallest
      <3>2. m \in 1..n /\ ~Q(g[m], m)
        BY <3>1
      <3> DEFINE one == {w[m]}
      <3>3. Part(f[m], one \cap ns, one \cap ss, one \cap cs, goal) /\ one \subseteq W(n)
        BY <3>2
      <3>4. CASE m = 1
        <4>1. W(m) = one
          BY <3>4
        <4>2. Part(f[1], one \cap ns, one \cap ss, one \cap cs, goal)
          BY <3>3, <3>4
        <4>3. Part(<<>> \o f[1], W(n) \cap ns, {} \cup (one \cap ss), {} \cup (one \cap cs), goal)
          <5>1. Part(<<>>, {}, {}, {}, goal)
            BY EmptyPart
          <5>2. one \cap ns \subseteq (W(n) \cap ns) \cup {} /\ (one \cap ss) \cap {} = {}
            BY <3>3
          <5> HIDE DEF one, W
          <5>3. QED
            BY <4>2, <5>1, <5>2, PartsFollow
        <4>4. <<>> \o f[1] = f[1]
          <5>1. f[1] \in Seq(Steps(goal))
            BY <3>2, <3>4
          <5>2. QED
            BY <5>1, ConcatEmptySeq
        <4>5. QED
          BY <2>1, <3>2, <3>4, <4>1, <4>3, <4>4
      <3>5. CASE m # 1
        <4>1. m - 1 \in 1..n /\ m - 1 \in Nat /\ ~(m =< m - 1) /\ m \in 2..n
          BY <3>2, <3>5
        <4>2. Q(g[m - 1], m - 1)
          BY <3>1, <4>1
        <4>3. g[m] = g[m - 1] \o f[m]
          BY <2>1, <4>1
        <4>4. W(m) = W(m - 1) \cup one
          <5>1. 1..m = 1..(m - 1) \cup {m}
            BY <3>2, <4>1
          <5>2. QED
            BY <5>1
        <4>5. w[m] \notin W(m - 1)
          <5>1. \A i \in 1..(m - 1) : i \in 1..n /\ i # m
            BY <3>2, <4>1
          <5>2. QED
            BY <3>2, <5>1
        <4> HIDE DEF W, one
        <4>6. (one \cap ss) \cap (W(m - 1) \cap cs) = {}
          BY <4>5 DEF one
        <4>7. Part(g[m - 1] \o f[m], W(n) \cap ns, (W(m - 1) \cap ss) \cup (one \cap ss),
                   (W(m - 1) \cap cs) \cup (one \cap cs), goal)
          BY <3>3, <4>2, <4>6, PartsFollow
        <4>8. /\ (W(m - 1) \cap ss) \cup (one \cap ss) = W(m) \cap ss
              /\ (W(m - 1) \cap cs) \cup (one \cap cs) = W(m) \cap cs
          BY <4>4
        <4>9. Q(g[m], m)
          BY <4>3, <4>7, <4>8
        <4>10. QED
          BY <3>2, <4>9
      <3>6. QED
        BY <3>4, <3>5
    <2>3. Q(g[n], n)
      <3>1. n \in 1..n /\ n \in Nat
        BY <1>3
      <3> HIDE DEF Q
      <3>2. QED
        BY <2>2, <3>1
    <2>4. QED
      BY <2>1, <2>3
  <1>4. Q(FlattenSeq(f), n)
    BY <1>2, <1>3
  <1>5. W(n) = all
    OBVIOUS
  <1> HIDE DEF W
  <1>6. QED
    BY <1>4, <1>5

\* SetToSeq lists every member once.
LEMMA Listed ==
  ASSUME NEW S, IsFiniteSet(S)
  PROVE  /\ Cardinality(S) \in Nat
         /\ {SetToSeq(S)[i] : i \in 1..Cardinality(S)} = S
         /\ \A i, j \in 1..Cardinality(S) :
              SetToSeq(S)[i] = SetToSeq(S)[j] => i = j
  <1> DEFINE n == Cardinality(S)
             s == SetToSeq(S)
             Lists == {f \in [1..n -> S] : IsInjective(f)}
  <1>1. n \in Nat /\ Lists # {}
    <2>1. n \in Nat /\ Bijection(1..n, S) # {}
      BY FS_CardinalityType DEF ExistsBijection
    <2>2. PICK f : f \in Bijection(1..n, S)
      BY <2>1
    <2>3. f \in [1..n -> S] /\ \A a, b \in 1..n : f[a] = f[b] => a = b
      BY <2>2, Fun_BijectionProperties
    <2>4. QED
      BY <2>1, <2>3 DEF IsInjective
  <1>2. s \in Lists
    <2>1. s = CHOOSE f \in [1..n -> S] : IsInjective(f)
      BY DEF SetToSeq
    <2> HIDE DEF n, s
    <2>2. QED
      BY <1>1, <2>1
  <1> HIDE DEF s
  <1>3. s \in [1..n -> S] /\ \A i, j \in 1..n : s[i] = s[j] => i = j
    BY <1>2 DEF IsInjective
  <1>4. {s[i] : i \in 1..n} = S
    <2> DEFINE R == {s[i] : i \in 1..n}
    <2>1. R \in SUBSET S
      BY <1>3
    <2>2. s \in Bijection(1..n, R)
      <3>1. s \in [1..n -> R] /\ \A t \in R : \E i \in 1..n : s[i] = t
        BY <1>3
      <3> HIDE DEF R
      <3>2. QED
        BY <1>3, <3>1, Fun_IsBij
    <2> HIDE DEF R
    <2>3. Cardinality(R) = n
      BY <1>1, <2>2, FS_CountingElements DEF ExistsBijection
    <2>4. QED
      BY <2>1, <2>3, FS_Subset DEF R
  <1>5. QED
    BY <1>1, <1>3, <1>4 DEF s

-----------------------------------------------------------------------------
(* The plans *)

PackagesAt(set) == {Package(p) : p \in set}

ReplacedAll(set, v) ==
  FlattenSeq([i \in 1..Cardinality(set) |->
               Replaced(Package(SetToSeq(set)[i]), v)])

SavedAll(set) ==
  FlattenSeq([i \in 1..Cardinality(set) |->
               Saved(Package(SetToSeq(set)[i]))])

RewrittenAll(set, v) ==
  FlattenSeq([i \in 1..Cardinality(set) |->
               Rewritten(Package(SetToSeq(set)[i]), v)])

LEMMA PackagePaths ==
  /\ \A p \in Packages : Package(p) \in Paths /\ Package(p) \in Clearable
  /\ \A t \in Targets : /\ Adapter(t) \in Paths /\ Adapter(t) \in Clearable
                        /\ Lockfile(t) \in Paths
  /\ Registry \in Paths
  /\ \A p, q : Package(p) = Package(q) => p = q
  /\ \A t, u : Adapter(t) = Adapter(u) => t = u
  /\ \A t, u : Lockfile(t) = Lockfile(u) => t = u
  /\ \A p, t : Package(p) # Adapter(t) /\ Package(p) # Lockfile(t)
  /\ \A t, u : Adapter(t) # Lockfile(u)
  /\ \A t : Adapter(t) # Registry /\ Lockfile(t) # Registry
  /\ \A p : Package(p) # Registry
  /\ \A x \in Paths : \/ \E p \in Packages : x = Package(p)
                      \/ \E t \in Targets : x = Adapter(t) \/ x = Lockfile(t)
                      \/ x = Registry
  /\ \A t \in Targets : Lockfile(t) \notin Clearable
  /\ Registry \notin Clearable
  BY DEF Paths, Package, Adapter, Lockfile, Registry, Clearable

\* The packages of a finite set, as they are listed.
LEMMA ListedPackages ==
  ASSUME NEW set \in SUBSET Packages, PackageConstants
  PROVE  /\ Cardinality(set) \in Nat
         /\ {Package(SetToSeq(set)[i]) : i \in 1..Cardinality(set)} = PackagesAt(set)
         /\ \A i, j \in 1..Cardinality(set) :
              Package(SetToSeq(set)[i]) = Package(SetToSeq(set)[j]) => i = j
         /\ \A i \in 1..Cardinality(set) : SetToSeq(set)[i] \in set
  <1>1. IsFiniteSet(set)
    BY FS_Subset DEF PackageConstants, PackageAssumption
  <1> DEFINE n == Cardinality(set)
             s == SetToSeq(set)
  <1>2. /\ n \in Nat /\ {s[i] : i \in 1..n} = set
        /\ \A i, j \in 1..n : s[i] = s[j] => i = j
    BY <1>1, Listed
  <1> HIDE DEF n, s
  <1>3. \A i \in 1..n : s[i] \in set
    BY <1>2
  <1>4. {Package(s[i]) : i \in 1..n} = PackagesAt(set)
    BY <1>2 DEF PackagesAt
  <1>5. \A i, j \in 1..n : Package(s[i]) = Package(s[j]) => i = j
    BY <1>2, PackagePaths
  <1>6. QED
    BY <1>2, <1>3, <1>4, <1>5 DEF n, s

LEMMA ReplacedAllPart ==
  ASSUME PackageConstants, NEW goal, NEW set \in SUBSET Packages, NEW v,
         \A p \in set : goal[Package(p)] = v
  PROVE  Part(ReplacedAll(set, v), {}, PackagesAt(set), PackagesAt(set), goal)
  <1> DEFINE n == Cardinality(set)
             w == [i \in 1..n |-> Package(SetToSeq(set)[i])]
             f == [i \in 1..n |-> Replaced(Package(SetToSeq(set)[i]), v)]
             W == PackagesAt(set)
  <1>1. /\ n \in Nat /\ {w[i] : i \in 1..n} = W
        /\ \A i, j \in 1..n : w[i] = w[j] => i = j
    BY ListedPackages
  <1>2. ASSUME NEW i \in 1..n
        PROVE  /\ f[i] \in Seq(Steps(goal)) /\ w[i] \in W
               /\ Part(f[i], {}, {w[i]}, {w[i]}, goal)
    <2> DEFINE p == SetToSeq(set)[i]
    <2>1. p \in set
      BY ListedPackages
    <2> HIDE DEF p
    <2>2. Part(Replaced(Package(p), v), {}, {Package(p)}, {Package(p)}, goal)
      BY <2>1, ReplacedPart, PackagePaths
    <2>3. f[i] = Replaced(Package(p), v) /\ w[i] = Package(p)
      BY DEF p
    <2>4. QED
      BY <2>1, <2>2, <2>3 DEF Part, Orderly, PackagesAt
  <1>3. f \in [1..n -> Seq(Steps(goal))]
    BY <1>2
  <1>4. ReplacedAll(set, v) = FlattenSeq(f)
    BY DEF ReplacedAll
  <1> HIDE DEF n, w, f, W
  <1>5. \A i \in 1..n : Part(f[i], {w[i]} \cap {}, {w[i]} \cap W, {w[i]} \cap W, goal)
    <2>1. ASSUME NEW i \in 1..n
          PROVE  {w[i]} \cap {} = {} /\ {w[i]} \cap W = {w[i]}
      BY <1>2
    <2>2. QED
      BY <1>2, <2>1
  <1>6. Part(FlattenSeq(f), W \cap {}, W \cap W, W \cap W, goal)
    BY <1>1, <1>3, <1>5, PartsOfAll
  <1>7. W \cap {} = {} /\ W \cap W = W
    OBVIOUS
  <1>8. QED
    BY <1>4, <1>6, <1>7 DEF W

LEMMA SavedAllPart ==
  ASSUME PackageConstants, NEW goal, NEW set \in SUBSET Packages
  PROVE  Part(SavedAll(set), {}, PackagesAt(set), {}, goal)
  <1> DEFINE n == Cardinality(set)
             w == [i \in 1..n |-> Package(SetToSeq(set)[i])]
             f == [i \in 1..n |-> Saved(Package(SetToSeq(set)[i]))]
             W == PackagesAt(set)
  <1>1. /\ n \in Nat /\ {w[i] : i \in 1..n} = W
        /\ \A i, j \in 1..n : w[i] = w[j] => i = j
    BY ListedPackages
  <1>2. ASSUME NEW i \in 1..n
        PROVE  /\ f[i] \in Seq(Steps(goal)) /\ w[i] \in W
               /\ Part(f[i], {}, {w[i]}, {}, goal)
    <2> DEFINE p == SetToSeq(set)[i]
    <2>1. p \in set
      BY ListedPackages
    <2> HIDE DEF p
    <2>2. Part(Saved(Package(p)), {}, {Package(p)}, {}, goal)
      BY <2>1, SavedPart, PackagePaths
    <2>3. f[i] = Saved(Package(p)) /\ w[i] = Package(p)
      BY DEF p
    <2>4. QED
      BY <2>1, <2>2, <2>3 DEF Part, Orderly, PackagesAt
  <1>3. f \in [1..n -> Seq(Steps(goal))]
    BY <1>2
  <1>4. SavedAll(set) = FlattenSeq(f)
    BY DEF SavedAll
  <1> HIDE DEF n, w, f, W
  <1>5. \A i \in 1..n : Part(f[i], {w[i]} \cap {}, {w[i]} \cap W, {w[i]} \cap {}, goal)
    <2>1. ASSUME NEW i \in 1..n
          PROVE  {w[i]} \cap {} = {} /\ {w[i]} \cap W = {w[i]}
      BY <1>2
    <2>2. QED
      BY <1>2, <2>1
  <1>6. Part(FlattenSeq(f), W \cap {}, W \cap W, W \cap {}, goal)
    BY <1>1, <1>3, <1>5, PartsOfAll
  <1>7. W \cap {} = {} /\ W \cap W = W
    OBVIOUS
  <1>8. QED
    BY <1>4, <1>6, <1>7 DEF W

LEMMA RewrittenAllPart ==
  ASSUME PackageConstants, NEW goal, NEW set \in SUBSET Packages, NEW v,
         \A p \in set : goal[Package(p)] = v
  PROVE  Part(RewrittenAll(set, v), PackagesAt(set), {}, PackagesAt(set), goal)
  <1> DEFINE n == Cardinality(set)
             w == [i \in 1..n |-> Package(SetToSeq(set)[i])]
             f == [i \in 1..n |-> Rewritten(Package(SetToSeq(set)[i]), v)]
             W == PackagesAt(set)
  <1>1. /\ n \in Nat /\ {w[i] : i \in 1..n} = W
        /\ \A i, j \in 1..n : w[i] = w[j] => i = j
    BY ListedPackages
  <1>2. ASSUME NEW i \in 1..n
        PROVE  /\ f[i] \in Seq(Steps(goal)) /\ w[i] \in W
               /\ Part(f[i], {w[i]}, {}, {w[i]}, goal)
    <2> DEFINE p == SetToSeq(set)[i]
    <2>1. p \in set
      BY ListedPackages
    <2> HIDE DEF p
    <2>2. Part(Rewritten(Package(p), v), {Package(p)}, {}, {Package(p)}, goal)
      BY <2>1, RewrittenPart, PackagePaths
    <2>3. f[i] = Rewritten(Package(p), v) /\ w[i] = Package(p)
      BY DEF p
    <2>4. QED
      BY <2>1, <2>2, <2>3 DEF Part, Orderly, PackagesAt
  <1>3. f \in [1..n -> Seq(Steps(goal))]
    BY <1>2
  <1>4. RewrittenAll(set, v) = FlattenSeq(f)
    BY DEF RewrittenAll
  <1> HIDE DEF n, w, f, W
  <1>5. \A i \in 1..n : Part(f[i], {w[i]} \cap W, {w[i]} \cap {}, {w[i]} \cap W, goal)
    <2>1. ASSUME NEW i \in 1..n
          PROVE  {w[i]} \cap {} = {} /\ {w[i]} \cap W = {w[i]}
      BY <1>2
    <2>2. QED
      BY <1>2, <2>1
  <1>6. Part(FlattenSeq(f), W \cap W, W \cap {}, W \cap W, goal)
    BY <1>1, <1>3, <1>5, PartsOfAll
  <1>7. W \cap {} = {} /\ W \cap W = W
    OBVIOUS
  <1>8. QED
    BY <1>4, <1>6, <1>7 DEF W

\* The same over a set of adapters, which is none or one.
SavedEach(set) ==
  FlattenSeq([i \in 1..Cardinality(set) |-> Saved(SetToSeq(set)[i])])

RewrittenEach(set, v) ==
  FlattenSeq([i \in 1..Cardinality(set) |-> Rewritten(SetToSeq(set)[i], v)])

LEMMA AdapterParts ==
  ASSUME NEW goal, NEW t \in Targets, NEW set \in {{}, {Adapter(t)}}, NEW v,
         set # {} => goal[Adapter(t)] = v
  PROVE  /\ Part(SavedEach(set), {}, set, {}, goal)
         /\ Part(RewrittenEach(set, v), set, {}, set, goal)
  <1> DEFINE n == Cardinality(set)
             w == [i \in 1..n |-> SetToSeq(set)[i]]
             f == [i \in 1..n |-> Saved(SetToSeq(set)[i])]
             g == [i \in 1..n |-> Rewritten(SetToSeq(set)[i], v)]
  <1>1. IsFiniteSet(set)
    <2>1. IsFiniteSet({}) /\ IsFiniteSet({Adapter(t)})
      BY FS_EmptySet, FS_Singleton
    <2>2. QED
      BY <2>1
  <1>2. /\ n \in Nat /\ {w[i] : i \in 1..n} = set
        /\ \A i, j \in 1..n : w[i] = w[j] => i = j
    BY <1>1, Listed
  <1>3. ASSUME NEW i \in 1..n
        PROVE  /\ f[i] \in Seq(Steps(goal)) /\ g[i] \in Seq(Steps(goal)) /\ w[i] \in set
               /\ Part(f[i], {}, {w[i]}, {}, goal)
               /\ Part(g[i], {w[i]}, {}, {w[i]}, goal)
    <2> DEFINE x == SetToSeq(set)[i]
    <2>1. f[i] = Saved(x) /\ g[i] = Rewritten(x, v) /\ w[i] = x
      OBVIOUS
    <2>2. x \in set
      BY <1>2, <2>1
    <2>3. x \in Paths /\ x \in Clearable /\ goal[x] = v
      BY <2>2, PackagePaths
    <2> HIDE DEF x, f, g, w
    <2>4. Part(Saved(x), {}, {x}, {}, goal) /\ Part(Rewritten(x, v), {x}, {}, {x}, goal)
      BY <2>3, SavedPart, RewrittenPart
    <2>5. QED
      BY <2>1, <2>2, <2>4 DEF Part, Orderly
  <1>4. f \in [1..n -> Seq(Steps(goal))] /\ g \in [1..n -> Seq(Steps(goal))]
    BY <1>3
  <1>5. SavedEach(set) = FlattenSeq(f) /\ RewrittenEach(set, v) = FlattenSeq(g)
    BY DEF SavedEach, RewrittenEach
  <1> HIDE DEF n, w, f, g
  <1>6. \A i \in 1..n : /\ Part(f[i], {w[i]} \cap {}, {w[i]} \cap set, {w[i]} \cap {}, goal)
                        /\ Part(g[i], {w[i]} \cap set, {w[i]} \cap {}, {w[i]} \cap set, goal)
    <2>1. ASSUME NEW i \in 1..n
          PROVE  {w[i]} \cap {} = {} /\ {w[i]} \cap set = {w[i]}
      BY <1>3
    <2>2. QED
      BY <1>3, <2>1
  <1>7. Part(FlattenSeq(f), set \cap {}, set \cap set, set \cap {}, goal)
    BY <1>2, <1>4, <1>6, PartsOfAll
  <1>8. Part(FlattenSeq(g), set \cap set, set \cap {}, set \cap set, goal)
    BY <1>2, <1>4, <1>6, PartsOfAll
  <1>9. set \cap {} = {} /\ set \cap set = set
    OBVIOUS
  <1>10. QED
    BY <1>5, <1>7, <1>8, <1>9

\* What a plan of one target leads to, from what is on the disk.
Outcome(t, selected, version, removed, registry, adapter, lock) ==
  [x \in Paths |->
    IF x \in PackagesAt(selected) THEN version
    ELSE IF x \in PackagesAt(removed) THEN Absent
    ELSE IF x = Registry THEN registry
    ELSE IF x = Adapter(t) THEN adapter
    ELSE IF x = Lockfile(t) THEN lock ELSE disk[x]]

\* The same, path by path.
LeadsTo(goal, t, selected, version, removed, registry, adapter, lock) ==
  /\ \A p \in selected : goal[Package(p)] = version
  /\ \A p \in removed \ selected : goal[Package(p)] = Absent
  /\ \A p \in Packages \ (selected \cup removed) :
       goal[Package(p)] = disk[Package(p)]
  /\ goal[Registry] = registry
  /\ goal[Adapter(t)] = adapter /\ goal[Lockfile(t)] = lock
  /\ \A u \in Targets \ {t} : /\ goal[Adapter(u)] = disk[Adapter(u)]
                              /\ goal[Lockfile(u)] = disk[Lockfile(u)]
  /\ \A x \in Paths \ (PackagesAt(selected) \cup PackagesAt(removed)
                         \cup {Registry, Adapter(t), Lockfile(t)}) :
       goal[x] = disk[x]

LEMMA OutcomeIs ==
  ASSUME NEW t \in Targets, NEW selected, selected \subseteq Packages, NEW version,
         NEW removed, removed \subseteq Packages, NEW registry, NEW adapter, NEW lock
  PROVE  LeadsTo(Outcome(t, selected, version, removed, registry, adapter, lock),
                 t, selected, version, removed, registry, adapter, lock)
  <1> DEFINE goal == Outcome(t, selected, version, removed, registry, adapter, lock)
  <1>1. /\ \A p \in Packages : Package(p) \in PackagesAt(selected) <=> p \in selected
        /\ \A p \in Packages : Package(p) \in PackagesAt(removed) <=> p \in removed
        /\ \A u : /\ Adapter(u) \notin PackagesAt(selected) \cup PackagesAt(removed)
                  /\ Lockfile(u) \notin PackagesAt(selected) \cup PackagesAt(removed)
        /\ Registry \notin PackagesAt(selected) \cup PackagesAt(removed)
    BY PackagePaths DEF PackagesAt
  <1>2. \A x \in Paths :
          goal[x] = IF x \in PackagesAt(selected) THEN version
                    ELSE IF x \in PackagesAt(removed) THEN Absent
                    ELSE IF x = Registry THEN registry
                    ELSE IF x = Adapter(t) THEN adapter
                    ELSE IF x = Lockfile(t) THEN lock ELSE disk[x]
    BY DEF Outcome
  <1> HIDE DEF goal
  <1>3. \A p \in Packages : goal[Package(p)] =
          IF p \in selected THEN version ELSE IF p \in removed THEN Absent ELSE disk[Package(p)]
    BY <1>1, <1>2, PackagePaths
  <1>4. goal[Registry] = registry
    BY <1>1, <1>2, PackagePaths
  <1>5. \A u \in Targets : /\ goal[Adapter(u)] = IF u = t THEN adapter ELSE disk[Adapter(u)]
                           /\ goal[Lockfile(u)] = IF u = t THEN lock ELSE disk[Lockfile(u)]
    BY <1>1, <1>2, PackagePaths
  <1>6. QED
    BY <1>2, <1>3, <1>4, <1>5 DEF LeadsTo, goal

Mine(t) == PackagesAt(Packages) \cup {Registry, Adapter(t), Lockfile(t)}

\* A plan that changes what its target may change, and leads to its outcome.
Leads(todo, t, goal) ==
  /\ Orderly(todo, {}, {}, Mine(t), goal)
  /\ \A x \in Paths : Puts(todo, x) \/ goal[x] = disk[x]

LEMMA PartLeads ==
  ASSUME NEW t, NEW goal, NEW todo, NEW saves, NEW changes, changes \subseteq Mine(t),
         Part(todo, {}, saves, changes, goal),
         \A x \in Paths \ changes : goal[x] = disk[x]
  PROVE  Leads(todo, t, goal)
  <1>1. Orderly(todo, {}, {}, Mine(t), goal)
    BY DEF Part, Orderly
  <1>2. \A x \in changes : Puts(todo, x)
    BY DEF Part
  <1>3. QED
    BY <1>1, <1>2 DEF Leads

LEMMA ApplyLeads ==
  ASSUME PackageConstants, NEW t \in Targets, NEW selected \in SUBSET Packages, NEW version,
         NEW leftovers \in SUBSET Packages
  PROVE  LET registry == [disk[Registry] EXCEPT ![t] = selected]
         IN  Leads(ApplyPlan(t, selected, version, leftovers), t,
                   Outcome(t, selected, version, Unreferenced(selected, registry, leftovers),
                           registry, selected, Receipt(selected, TRUE)))
  <1> DEFINE registry == [disk[Registry] EXCEPT ![t] = selected]
             removed == Unreferenced(selected, registry, leftovers)
             receipts == Receipt(selected, TRUE)
             goal == Outcome(t, selected, version, removed, registry, selected, receipts)
             here == PackagesAt(selected)
             gone == PackagesAt(removed)
             adapter == Adapter(t)
             lock == Lockfile(t)
             Reg == Registry
             a == ReplacedAll(selected, version)
             b == Replaced(adapter, selected)
             c == Saved(Reg)
             d == Written(Reg, registry)
             e == ReplacedAll(removed, Absent)
             f == Saved(lock)
             g == Written(lock, receipts)
  <1>1. ApplyPlan(t, selected, version, leftovers) = a \o b \o c \o d \o e \o f \o g
    BY DEF ApplyPlan, ForEach, ReplacedAll
  <1>2. removed \in SUBSET Packages /\ removed \cap selected = {}
    BY DEF Unreferenced, Present
  <1> HIDE DEF registry, removed, receipts
  <1>3. /\ \A p \in selected : goal[Package(p)] = version
        /\ \A p \in removed : goal[Package(p)] = Absent
        /\ goal[Reg] = registry /\ goal[adapter] = selected /\ goal[lock] = receipts
        /\ \A x \in Paths \ (here \cup gone \cup {Reg, adapter, lock}) : goal[x] = disk[x]
    <2>1. LeadsTo(goal, t, selected, version, removed, registry, selected, receipts)
      BY <1>2, OutcomeIs
    <2>2. removed \ selected = removed
      BY <1>2
    <2> HIDE DEF goal
    <2>3. QED
      BY <2>1, <2>2 DEF LeadsTo
  <1>4. /\ adapter \in Paths /\ adapter \in Clearable /\ lock \in Paths
        /\ Reg \in Paths /\ adapter # lock /\ adapter # Reg /\ lock # Reg
        /\ {adapter, lock, Reg} \cap (here \cup gone) = {} /\ here \cap gone = {}
    BY <1>2, PackagePaths DEF PackagesAt
  <1> HIDE DEF goal, here, gone, adapter, lock, Reg
  <1>5. Part(a, {}, here, here, goal) /\ Part(e, {}, gone, gone, goal)
    BY <1>2, <1>3, ReplacedAllPart DEF here, gone
  <1>6. Part(b, {}, {adapter}, {adapter}, goal)
    BY <1>3, <1>4, ReplacedPart
  <1>7. Part(c, {}, {Reg}, {}, goal) /\ Part(d, {Reg}, {}, {Reg}, goal)
    BY <1>3, <1>4, SavedPart, WrittenPart
  <1>8. Part(f, {}, {lock}, {}, goal) /\ Part(g, {lock}, {}, {lock}, goal)
    BY <1>3, <1>4, SavedPart, WrittenPart
  <1> HIDE DEF a, b, c, d, e, f, g
  <1>9. Part(a \o b, {}, here \cup {adapter}, here \cup {adapter}, goal)
    BY <1>4, <1>5, <1>6, PartsFollow
  <1> DEFINE s == here \cup {adapter} \cup {Reg}
  <1>10. Part(a \o b \o c, {}, s, here \cup {adapter} \cup {}, goal)
    BY <1>4, <1>7, <1>9, PartsFollow
  <1>11. Part(a \o b \o c \o d, {}, s \cup {}, here \cup {adapter} \cup {} \cup {Reg}, goal)
    BY <1>7, <1>10, PartsFollow
  <1>12. Part(a \o b \o c \o d \o e, {}, s \cup {} \cup gone,
              here \cup {adapter} \cup {} \cup {Reg} \cup gone, goal)
    BY <1>4, <1>5, <1>11, PartsFollow
  <1>13. Part(a \o b \o c \o d \o e \o f, {}, s \cup {} \cup gone \cup {lock},
              here \cup {adapter} \cup {} \cup {Reg} \cup gone \cup {}, goal)
    BY <1>4, <1>8, <1>12, PartsFollow
  <1> DEFINE changes == here \cup {adapter} \cup {} \cup {Reg} \cup gone \cup {} \cup {lock}
  <1>14. Part(a \o b \o c \o d \o e \o f \o g, {}, s \cup {} \cup gone \cup {lock} \cup {},
              changes, goal)
    BY <1>8, <1>13, PartsFollow
  <1>15. changes \subseteq Mine(t) /\ \A x \in Paths \ changes : goal[x] = disk[x]
    <2>1. changes = here \cup gone \cup {Reg, adapter, lock}
      OBVIOUS
    <2>2. here \subseteq PackagesAt(Packages) /\ gone \subseteq PackagesAt(Packages)
      BY <1>2 DEF here, gone, PackagesAt
    <2>3. QED
      BY <1>3, <2>1, <2>2 DEF Mine, Reg, adapter, lock
  <1> HIDE DEF changes, s
  <1>16. Leads(a \o b \o c \o d \o e \o f \o g, t, goal)
    BY <1>14, <1>15, PartLeads
  <1>17. QED
    BY <1>1, <1>16 DEF goal, removed, registry, receipts

LEMMA DetachLeads ==
  ASSUME PackageConstants, NEW t \in Targets
  PROVE  Leads(DetachPlan(t), t,
               Outcome(t, {}, Absent, {}, [disk[Registry] EXCEPT ![t] = Absent], Absent,
                       Receipt(disk[Lockfile(t)].packages, FALSE)))
  <1> DEFINE registry == [disk[Registry] EXCEPT ![t] = Absent]
             receipts == Receipt(disk[Lockfile(t)].packages, FALSE)
             goal == Outcome(t, {}, Absent, {}, registry, Absent, receipts)
             adapter == Adapter(t)
             lock == Lockfile(t)
             Reg == Registry
             a == Saved(lock)
             b == Saved(Reg)
             c == Replaced(adapter, Absent)
             d == Written(lock, receipts)
             e == Written(Reg, registry)
  <1>1. DetachPlan(t) = a \o b \o c \o d \o e
    BY DEF DetachPlan
  <1> HIDE DEF registry, receipts
  <1>2. /\ goal[Reg] = registry /\ goal[adapter] = Absent /\ goal[lock] = receipts
        /\ \A x \in Paths \ {Reg, adapter, lock} : goal[x] = disk[x]
    <2>1. LeadsTo(goal, t, {}, Absent, {}, registry, Absent, receipts)
      BY OutcomeIs
    <2>2. PackagesAt({}) = {}
      BY DEF PackagesAt
    <2> HIDE DEF goal
    <2>3. QED
      BY <2>1, <2>2 DEF LeadsTo
  <1>3. /\ adapter \in Paths /\ adapter \in Clearable /\ lock \in Paths
        /\ Reg \in Paths /\ adapter # lock /\ adapter # Reg /\ lock # Reg
    BY PackagePaths
  <1> HIDE DEF goal, adapter, lock, Reg
  <1>4. Part(a, {}, {lock}, {}, goal) /\ Part(d, {lock}, {}, {lock}, goal)
    BY <1>2, <1>3, SavedPart, WrittenPart
  <1>5. Part(b, {}, {Reg}, {}, goal) /\ Part(e, {Reg}, {}, {Reg}, goal)
    BY <1>2, <1>3, SavedPart, WrittenPart
  <1>6. Part(c, {}, {adapter}, {adapter}, goal)
    BY <1>2, <1>3, ReplacedPart
  <1> HIDE DEF a, b, c, d, e
  <1>7. Part(a \o b, {}, {lock} \cup {Reg}, {} \cup {}, goal)
    BY <1>4, <1>5, PartsFollow
  <1> DEFINE s == {lock} \cup {Reg} \cup {adapter}
  <1>8. Part(a \o b \o c, {}, s, {} \cup {} \cup {adapter}, goal)
    BY <1>6, <1>7, PartsFollow
  <1>9. Part(a \o b \o c \o d, {}, s \cup {}, {} \cup {} \cup {adapter} \cup {lock}, goal)
    BY <1>4, <1>8, PartsFollow
  <1> DEFINE changes == {} \cup {} \cup {adapter} \cup {lock} \cup {Reg}
  <1>10. Part(a \o b \o c \o d \o e, {}, s \cup {} \cup {}, changes, goal)
    BY <1>5, <1>9, PartsFollow
  <1>11. changes \subseteq Mine(t) /\ \A x \in Paths \ changes : goal[x] = disk[x]
    <2>1. changes = {Reg, adapter, lock}
      OBVIOUS
    <2>2. QED
      BY <1>2, <2>1 DEF Mine, Reg, adapter, lock
  <1> HIDE DEF changes, s
  <1>12. Leads(a \o b \o c \o d \o e, t, goal)
    BY <1>10, <1>11, PartLeads
  <1>13. QED
    BY <1>1, <1>12 DEF goal, registry, receipts

\* The adapter is removed if the lockfile knows of it.
AfterRollback(t) == IF Attached(t) THEN Absent ELSE disk[Adapter(t)]

LEMMA RollbackLeads ==
  ASSUME PackageConstants, NEW t \in Targets, NEW leftovers \in SUBSET Packages
  PROVE  Leads(RollbackPlan(t, leftovers), t,
               Outcome(t, {}, Absent, Candidates(t, leftovers),
                       [disk[Registry] EXCEPT ![t] = Absent], AfterRollback(t), Absent))
  <1> DEFINE registry == [disk[Registry] EXCEPT ![t] = Absent]
             removed == Candidates(t, leftovers)
             goal == Outcome(t, {}, Absent, removed, registry, AfterRollback(t), Absent)
             gone == PackagesAt(removed)
             adapter == Adapter(t)
             adapters == IF Attached(t) THEN {adapter} ELSE {}
             lock == Lockfile(t)
             Reg == Registry
             a == Saved(lock)
             b == Saved(Reg)
             c == SavedEach(adapters)
             d == SavedAll(removed)
             e == RewrittenAll(removed, Absent)
             f == RewrittenEach(adapters, Absent)
             g == Written(Reg, registry)
             h == Written(lock, Absent)
  <1>1. RollbackPlan(t, leftovers) = a \o b \o c \o d \o e \o f \o g \o h
    BY DEF RollbackPlan, ForEach, SavedAll, RewrittenAll, SavedEach, RewrittenEach
  <1>2. removed \in SUBSET Packages
    BY DEF Candidates, Present
  <1> HIDE DEF registry, removed
  <1>3. /\ \A p \in removed : goal[Package(p)] = Absent
        /\ goal[Reg] = registry /\ goal[lock] = Absent
        /\ goal[adapter] = AfterRollback(t)
        /\ \A x \in Paths \ (gone \cup {Reg, adapter, lock}) : goal[x] = disk[x]
    <2>1. LeadsTo(goal, t, {}, Absent, removed, registry, AfterRollback(t), Absent)
      BY <1>2, OutcomeIs
    <2>2. PackagesAt({}) = {} /\ removed \ {} = removed
      BY DEF PackagesAt
    <2> HIDE DEF goal
    <2>3. QED
      BY <2>1, <2>2 DEF LeadsTo
  <1>4. /\ adapter \in Paths /\ adapter \in Clearable /\ lock \in Paths
        /\ Reg \in Paths /\ adapter # lock /\ adapter # Reg /\ lock # Reg
        /\ {adapter, lock, Reg} \cap gone = {}
    BY <1>2, PackagePaths DEF PackagesAt
  <1>5. /\ adapters \in {{}, {adapter}}
        /\ adapters # {} => goal[adapter] = Absent
        /\ adapters = {} => goal[adapter] = disk[adapter]
    BY <1>3 DEF AfterRollback
  <1> HIDE DEF goal, adapters
  <1>6. Part(c, {}, adapters, {}, goal) /\ Part(f, adapters, {}, adapters, goal)
    BY <1>5, AdapterParts
  <1> HIDE DEF c, f
  <1>7. Part(d, {}, gone, {}, goal) /\ Part(e, gone, {}, gone, goal)
    BY <1>2, <1>3, SavedAllPart, RewrittenAllPart
  <1> HIDE DEF gone, adapter, lock, Reg
  <1>8. Part(a, {}, {lock}, {}, goal) /\ Part(h, {lock}, {}, {lock}, goal)
    BY <1>3, <1>4, SavedPart, WrittenPart
  <1>9. Part(b, {}, {Reg}, {}, goal) /\ Part(g, {Reg}, {}, {Reg}, goal)
    BY <1>3, <1>4, SavedPart, WrittenPart
  <1> HIDE DEF a, b, d, e, g, h
  <1>10. Part(a \o b, {}, {lock} \cup {Reg}, {} \cup {}, goal)
    BY <1>8, <1>9, PartsFollow
  <1>11. Part(a \o b \o c, {}, {lock} \cup {Reg} \cup adapters, {} \cup {} \cup {}, goal)
    BY <1>6, <1>10, PartsFollow
  <1> DEFINE s == {lock} \cup {Reg} \cup adapters \cup gone
  <1>12. Part(a \o b \o c \o d, {}, s, {} \cup {} \cup {} \cup {}, goal)
    BY <1>7, <1>11, PartsFollow
  <1>13. Part(a \o b \o c \o d \o e, {}, s \cup {}, {} \cup {} \cup {} \cup {} \cup gone, goal)
    BY <1>7, <1>12, PartsFollow
  <1>14. Part(a \o b \o c \o d \o e \o f, {}, s \cup {} \cup {},
              {} \cup {} \cup {} \cup {} \cup gone \cup adapters, goal)
    BY <1>6, <1>13, PartsFollow
  <1>15. Part(a \o b \o c \o d \o e \o f \o g, {}, s \cup {} \cup {} \cup {},
              {} \cup {} \cup {} \cup {} \cup gone \cup adapters \cup {Reg}, goal)
    BY <1>9, <1>14, PartsFollow
  <1> DEFINE changes == {} \cup {} \cup {} \cup {} \cup gone \cup adapters \cup {Reg} \cup {lock}
  <1>16. Part(a \o b \o c \o d \o e \o f \o g \o h, {}, s \cup {} \cup {} \cup {} \cup {},
              changes, goal)
    BY <1>8, <1>15, PartsFollow
  <1>17. changes \subseteq Mine(t) /\ \A x \in Paths \ changes : goal[x] = disk[x]
    <2>1. changes = gone \cup adapters \cup {Reg, lock}
      OBVIOUS
    <2>2. gone \subseteq PackagesAt(Packages)
      BY <1>2 DEF gone, PackagesAt
    <2>3. Mine(t) = PackagesAt(Packages) \cup {Reg, adapter, lock} /\ adapters \subseteq {adapter}
      BY <1>5 DEF Mine, Reg, adapter, lock
    <2> HIDE DEF changes
    <2>4. changes \subseteq Mine(t)
      BY <2>1, <2>2, <2>3
    <2>5. ASSUME NEW x \in Paths \ changes PROVE goal[x] = disk[x]
      <3>1. x \notin gone \cup adapters \cup {Reg, lock}
        BY <2>1
      <3>2. QED
        BY <1>3, <1>5, <3>1
    <2>6. QED
      BY <2>4, <2>5
  <1> HIDE DEF changes, s
  <1>18. Leads(a \o b \o c \o d \o e \o f \o g \o h, t, goal)
    BY <1>16, <1>17, PartLeads
  <1>19. QED
    BY <1>1, <1>18 DEF goal, removed, registry

-----------------------------------------------------------------------------
(* What the plans leave of the receipts                                    *)

\* Contents of which any may be missing or torn, and contents on which every
\* repository can rely: those of the registry and the lockfiles.
Typed(d) ==
  /\ \A p \in Packages : d[Package(p)] \in Versions \cup {Absent, Torn}
  /\ \A t \in Targets : d[Adapter(t)] \in (SUBSET Packages) \cup {Absent, Torn}

Registries == [Targets -> (SUBSET Packages) \cup {Absent}]

Firm(d) ==
  /\ d[Registry] \in Registries
  /\ \A t \in Targets : d[Lockfile(t)] \in Receipts \cup {Absent}

AttachedIn(d, t) == d[Lockfile(t)] # Absent /\ d[Lockfile(t)].attached

\* The receipts of one repository agree, but for the packages that were lost.
Agrees(d, lost, t) ==
  IF AttachedIn(d, t)
  THEN /\ d[Adapter(t)] = d[Lockfile(t)].packages
       /\ d[Registry][t] = d[Lockfile(t)].packages
       /\ \A p \in d[Lockfile(t)].packages : d[Package(p)] \in Versions \/ p \in lost
  ELSE d[Adapter(t)] = Absent /\ d[Registry][t] = Absent

SameReceipts(d, e, t) ==
  /\ e[Adapter(t)] = d[Adapter(t)] /\ e[Lockfile(t)] = d[Lockfile(t)]
  /\ e[Registry][t] = d[Registry][t]

\* Who is still unsettled when the operation on t has returned.
LeftOpen(open, t, settles) == open \ IF settles THEN {t} ELSE {}

\* A plan that keeps the receipts of all others, and leaves those of its target
\* in agreement if it settles them.
Prepared(todo, t, settles, goal) ==
  /\ Leads(todo, t, goal) /\ Typed(goal) /\ Firm(goal)
  /\ \A u \in Targets \ {t} : SameReceipts(disk, goal, u)
  /\ \A u \in Targets \ LeftOpen(unsettled, t, settles) : Agrees(goal, damaged, u)

\* Between two operations.
Settled == Typed(disk) /\ Firm(disk) /\ \A u \in Targets \ unsettled : Agrees(disk, damaged, u)

LEMMA AttachedIs ==
  ASSUME NEW t \in Targets PROVE Attached(t) <=> AttachedIn(disk, t)
  BY PackagePaths DEF Attached, Exists, Nothing, AttachedIn

LEMMA AgreesAlike ==
  ASSUME NEW d, NEW e, NEW lost, NEW gone, NEW t, Agrees(d, lost, t), SameReceipts(d, e, t),
         AttachedIn(d, t) =>
           \A p \in d[Lockfile(t)].packages : e[Package(p)] \in Versions \/ p \in gone
  PROVE  Agrees(e, gone, t)
  BY DEF Agrees, SameReceipts, AttachedIn

LEMMA OutcomeTyped ==
  ASSUME NEW t \in Targets, NEW goal, NEW selected \in SUBSET Packages, NEW version,
         NEW removed \in SUBSET Packages, NEW registry, NEW adapter, NEW lock,
         LeadsTo(goal, t, selected, version, removed, registry, adapter, lock),
         Typed(disk), Firm(disk), selected # {} => version \in Versions, registry \in Registries,
         adapter \in (SUBSET Packages) \cup {Absent, Torn}, lock \in Receipts \cup {Absent}
  PROVE  Typed(goal) /\ Firm(goal)
  <1>1. ASSUME NEW p \in Packages PROVE goal[Package(p)] \in Versions \cup {Absent, Torn}
    <2>1. CASE p \in selected
      BY <2>1 DEF LeadsTo
    <2>2. CASE p \in removed \ selected
      BY <2>2 DEF LeadsTo
    <2>3. CASE p \in Packages \ (selected \cup removed)
      BY <2>3 DEF LeadsTo, Typed
    <2>4. QED
      BY <2>1, <2>2, <2>3
  <1>2. ASSUME NEW u \in Targets
        PROVE  /\ goal[Adapter(u)] \in (SUBSET Packages) \cup {Absent, Torn}
               /\ goal[Lockfile(u)] \in Receipts \cup {Absent}
    <2>1. CASE u = t
      BY <2>1 DEF LeadsTo
    <2>2. CASE u # t
      BY <2>2 DEF LeadsTo, Typed, Firm
    <2>3. QED
      BY <2>1, <2>2
  <1>3. QED
    BY <1>1, <1>2 DEF LeadsTo, Typed, Firm

\* Nothing that another repository refers to is removed.
LEMMA OthersAgree ==
  ASSUME PackageConstants,
         NEW t \in Targets, NEW goal, NEW selected \in SUBSET Packages, NEW version,
         NEW removed \in SUBSET Packages, NEW registry, NEW adapter, NEW lock,
         LeadsTo(goal, t, selected, version, removed, registry, adapter, lock),
         Settled, selected # {} => version \in Versions,
         NEW u \in Targets \ {t}, registry[u] = disk[Registry][u],
         disk[Registry][u] # Absent => removed \cap disk[Registry][u] = {}
  PROVE  /\ SameReceipts(disk, goal, u)
         /\ u \notin unsettled => Agrees(goal, damaged, u)
  <1>1. SameReceipts(disk, goal, u)
    BY DEF LeadsTo, SameReceipts
  <1>2. ASSUME u \notin unsettled PROVE Agrees(goal, damaged, u)
    <2>1. Agrees(disk, damaged, u)
      BY <1>2 DEF Settled
    <2>2. ASSUME AttachedIn(disk, u), NEW p \in disk[Lockfile(u)].packages
          PROVE  goal[Package(p)] \in Versions \/ p \in damaged
      <3>1. disk[Lockfile(u)] \in Receipts
        BY <2>2 DEF Settled, Firm, AttachedIn
      <3>2. disk[Lockfile(u)].packages \in SUBSET Packages
        BY <3>1 DEF Receipts
      <3>3. /\ p \in Packages /\ disk[Registry][u] = disk[Lockfile(u)].packages
            /\ disk[Package(p)] \in Versions \/ p \in damaged
        BY <2>1, <2>2, <3>2 DEF Agrees
      <3>4. disk[Registry][u] # Absent
        BY <3>2, <3>3 DEF PackageConstants, AbsentAssumption
      <3>5. p \notin removed
        BY <3>3, <3>4
      <3>6. CASE p \in selected
        BY <3>6 DEF LeadsTo
      <3>7. CASE p \notin selected
        BY <3>3, <3>5, <3>7 DEF LeadsTo
      <3>8. QED
        BY <3>6, <3>7
    <2>3. QED
      BY <1>1, <2>1, <2>2, AgreesAlike
  <1>3. QED
    BY <1>1, <1>2

LEMMA ApplyPrepared ==
  ASSUME PackageConstants, Settled, NEW t \in Targets, NEW selected \in SUBSET Packages,
         NEW version \in Versions, NEW leftovers \in SUBSET Packages
  PROVE  \E goal : Prepared(ApplyPlan(t, selected, version, leftovers), t, TRUE, goal)
  <1> DEFINE registry == [disk[Registry] EXCEPT ![t] = selected]
             removed == Unreferenced(selected, registry, leftovers)
             receipts == Receipt(selected, TRUE)
             goal == Outcome(t, selected, version, removed, registry, selected, receipts)
             todo == ApplyPlan(t, selected, version, leftovers)
  <1>1. Leads(todo, t, goal)
    BY ApplyLeads
  <1>2. removed \in SUBSET Packages /\ removed \cap selected = {}
    BY DEF Unreferenced, Present
  <1>3. /\ registry \in Registries /\ registry[t] = selected
        /\ \A u \in Targets \ {t} : registry[u] = disk[Registry][u]
    BY DEF Settled, Firm, Registries
  <1>4. \A u \in Targets : registry[u] # Absent => removed \cap registry[u] = {}
    BY DEF Unreferenced, Referenced
  <1>5. receipts \in Receipts /\ receipts.packages = selected /\ receipts.attached = TRUE
    BY DEF Receipt, Receipts
  <1> HIDE DEF removed, registry, receipts, todo
  <1>6. LeadsTo(goal, t, selected, version, removed, registry, selected, receipts)
    BY <1>2, OutcomeIs
  <1> HIDE DEF goal
  <1>7. Typed(goal) /\ Firm(goal)
    BY <1>2, <1>3, <1>5, <1>6, OutcomeTyped DEF Settled
  <1>8. ASSUME NEW u \in Targets \ {t}
        PROVE  SameReceipts(disk, goal, u) /\ (u \notin unsettled => Agrees(goal, damaged, u))
    <2>1. disk[Registry][u] # Absent => removed \cap disk[Registry][u] = {}
      BY <1>3, <1>4
    <2>2. registry[u] = disk[Registry][u]
      BY <1>3
    <2>3. QED
      BY <1>2, <1>6, <2>1, <2>2, OthersAgree
  <1>9. Agrees(goal, damaged, t)
    <2>1. /\ goal[Adapter(t)] = selected /\ goal[Lockfile(t)] = receipts
          /\ goal[Registry][t] = selected
          /\ \A p \in selected : goal[Package(p)] \in Versions
      BY <1>3, <1>6 DEF LeadsTo
    <2>2. receipts # Absent
      BY <1>5 DEF PackageConstants, AbsentAssumption
    <2>3. QED
      BY <1>5, <2>1, <2>2 DEF Agrees, AttachedIn
  <1>10. Prepared(todo, t, TRUE, goal)
    BY <1>1, <1>7, <1>8, <1>9 DEF Prepared, LeftOpen
  <1>11. QED
    BY <1>10 DEF todo

LEMMA DetachPrepared ==
  ASSUME PackageConstants, Settled, NEW t \in Targets, Attached(t)
  PROVE  \E goal : Prepared(DetachPlan(t), t, TRUE, goal)
  <1> DEFINE registry == [disk[Registry] EXCEPT ![t] = Absent]
             receipts == Receipt(disk[Lockfile(t)].packages, FALSE)
             goal == Outcome(t, {}, Absent, {}, registry, Absent, receipts)
             todo == DetachPlan(t)
  <1>1. Leads(todo, t, goal)
    BY DetachLeads
  <1>2. /\ registry \in Registries /\ registry[t] = Absent
        /\ \A u \in Targets \ {t} : registry[u] = disk[Registry][u]
    BY DEF Settled, Firm, Registries
  <1>3. receipts \in Receipts /\ receipts.attached = FALSE
    <2>1. disk[Lockfile(t)] \in Receipts
      BY AttachedIs DEF Settled, Firm, AttachedIn
    <2>2. QED
      BY <2>1 DEF Receipt, Receipts
  <1> HIDE DEF registry, receipts, todo
  <1>4. LeadsTo(goal, t, {}, Absent, {}, registry, Absent, receipts)
    BY OutcomeIs
  <1> HIDE DEF goal
  <1>5. Typed(goal) /\ Firm(goal)
    BY <1>2, <1>3, <1>4, OutcomeTyped DEF Settled
  <1>6. ASSUME NEW u \in Targets \ {t}
        PROVE  SameReceipts(disk, goal, u) /\ (u \notin unsettled => Agrees(goal, damaged, u))
    <2>1. registry[u] = disk[Registry][u]
      BY <1>2
    <2>2. QED
      BY <1>4, <2>1, OthersAgree
  <1>7. Agrees(goal, damaged, t)
    <2>1. /\ goal[Adapter(t)] = Absent /\ goal[Lockfile(t)] = receipts
          /\ goal[Registry][t] = Absent
      BY <1>2, <1>4 DEF LeadsTo
    <2>2. QED
      BY <1>3, <2>1 DEF Agrees, AttachedIn
  <1>8. Prepared(todo, t, TRUE, goal)
    BY <1>1, <1>5, <1>6, <1>7 DEF Prepared, LeftOpen
  <1>9. QED
    BY <1>8 DEF todo

LEMMA RollbackPrepared ==
  ASSUME PackageConstants, Settled, NEW t \in Targets, NEW leftovers \in SUBSET Packages
  PROVE  \E goal : Prepared(RollbackPlan(t, leftovers), t, Attached(t), goal)
  <1> DEFINE registry == [disk[Registry] EXCEPT ![t] = Absent]
             removed == Candidates(t, leftovers)
             goal == Outcome(t, {}, Absent, removed, registry, AfterRollback(t), Absent)
             todo == RollbackPlan(t, leftovers)
  <1>1. Leads(todo, t, goal)
    BY RollbackLeads
  <1>2. removed \in SUBSET Packages
    BY DEF Candidates, Present
  <1>3. /\ registry \in Registries /\ registry[t] = Absent
        /\ \A u \in Targets \ {t} : registry[u] = disk[Registry][u]
    BY DEF Settled, Firm, Registries
  <1>4. \A u \in Targets : registry[u] # Absent => removed \cap registry[u] = {}
    BY DEF Candidates, Referenced
  <1>5. AfterRollback(t) \in (SUBSET Packages) \cup {Absent, Torn}
    BY DEF AfterRollback, Settled, Typed
  <1> HIDE DEF removed, registry, todo
  <1>6. LeadsTo(goal, t, {}, Absent, removed, registry, AfterRollback(t), Absent)
    BY <1>2, OutcomeIs
  <1> HIDE DEF goal
  <1>7. Typed(goal) /\ Firm(goal)
    BY <1>2, <1>3, <1>5, <1>6, OutcomeTyped DEF Settled
  <1>8. ASSUME NEW u \in Targets \ {t}
        PROVE  SameReceipts(disk, goal, u) /\ (u \notin unsettled => Agrees(goal, damaged, u))
    <2>1. disk[Registry][u] # Absent => removed \cap disk[Registry][u] = {}
      BY <1>3, <1>4
    <2>2. registry[u] = disk[Registry][u]
      BY <1>3
    <2>3. QED
      BY <1>2, <1>6, <2>1, <2>2, OthersAgree
  <1>9. ASSUME t \notin LeftOpen(unsettled, t, Attached(t)) PROVE Agrees(goal, damaged, t)
    <2>1. /\ goal[Adapter(t)] = AfterRollback(t) /\ goal[Lockfile(t)] = Absent
          /\ goal[Registry][t] = Absent
      BY <1>3, <1>6 DEF LeadsTo
    <2>2. AfterRollback(t) = Absent
      <3>1. CASE Attached(t)
        BY <3>1 DEF AfterRollback
      <3>2. CASE ~Attached(t)
        <4>1. t \notin unsettled
          BY <1>9, <3>2 DEF LeftOpen
        <4>2. Agrees(disk, damaged, t) /\ ~AttachedIn(disk, t)
          BY <3>2, <4>1, AttachedIs DEF Settled
        <4>3. QED
          BY <3>2, <4>2 DEF Agrees, AfterRollback
      <3>3. QED
        BY <3>1, <3>2
    <2>3. QED
      BY <2>1, <2>2 DEF Agrees, AttachedIn
  <1>10. Prepared(todo, t, Attached(t), goal)
    <2>1. ASSUME NEW u \in Targets \ LeftOpen(unsettled, t, Attached(t))
          PROVE  Agrees(goal, damaged, u)
      <3>1. CASE u = t
        BY <1>9, <2>1, <3>1
      <3>2. CASE u # t
        BY <1>8, <2>1, <3>2 DEF LeftOpen
      <3>3. QED
        BY <3>1, <3>2
    <2>2. QED
      BY <1>1, <1>7, <1>8, <2>1 DEF Prepared
  <1>11. QED
    BY <1>10 DEF todo

-----------------------------------------------------------------------------
(* The invariant of an operation                                           *)

Noted(op) == {op.touched[i].path : i \in 1..op.noted}

Touched(op) == {op.touched[i].path : i \in 1..Len(op.touched)}

\* A copy is what was there before, unless a cleaning has removed it.
Copied(op) ==
  \A i \in 1..Len(op.touched) :
    LET e == op.touched[i]
    IN  (e.existed /\ e.copy = Absent) \/ e.copy = op.before[e.path]

\* What is not as before is in the report or still to be put back.
Changed(op, d) ==
  /\ \A x \in Paths : d[x] = op.before[x] \/ x \in op.errors \/ x \in Touched(op)
  /\ op.phase = "reporting" => op.touched = <<>>

\* Until the copies are removed or moved back, the noted ones suffice.
Repairs(op, d) ==
  /\ op.phase = "acting" => ~op.applied
  /\ op.phase = "cleaning" => op.applied
  /\ op.phase \notin {"restoring", "reporting"} /\ ~op.applied =>
       /\ op.noted =< Len(op.touched)
       /\ \A i \in 1..Len(op.touched) : op.touched[i].copy = op.before[op.touched[i].path]
       /\ \A x \in Paths : d[x] = op.before[x] \/ x \in Noted(op)

Forward == {"acting", "cleaning", "committing"}

\* The rest of the plan leads from what is on the disk to the goal.
Underway(op, d, goal) ==
  /\ op.phase # "acting" => op.todo = <<>>
  /\ Orderly(op.todo, Noted(op), Touched(op), Mine(op.target), goal)
  /\ \A x \in Paths : Puts(op.todo, x) \/ goal[x] = d[x]
  /\ \A x \in Paths \ Clearable : d[x] \in {op.before[x], goal[x]}
  /\ \A i \in 1..Len(op.todo) : op.todo[i].do = "save" =>
       d[op.todo[i].path] = op.before[op.todo[i].path]
  /\ \A u \in Targets \ {op.target} : SameReceipts(op.before, d, u)

\* The goal is one in which the receipts agree.
Intended(op, lost, open, goal) ==
  /\ Typed(goal) /\ Firm(goal)
  /\ \A u \in Targets \ {op.target} : SameReceipts(op.before, goal, u)
  /\ \A u \in Targets \ LeftOpen(open, op.target, op.settles) : Agrees(goal, lost, u)

Operating(op, d, lost, open) ==
  /\ op \in Operation
  /\ Typed(op.before) /\ Firm(op.before)
  /\ \A u \in Targets \ open : Agrees(op.before, lost, u)
  /\ Copied(op) /\ Changed(op, d) /\ Repairs(op, d)
  /\ op.phase \in Forward => \E goal : Underway(op, d, goal) /\ Intended(op, lost, open, goal)

AppInv ==
  /\ ApplicationTypeOK /\ disk \in [Paths -> Contents]
  /\ tx = Absent /\ ~halted => Settled
  /\ tx # Absent => ~halted /\ Operating(tx, disk, damaged, unsettled)

\* What a step takes from the front of a plan.
LEMMA TailFacts ==
  ASSUME NEW goal, NEW todo, todo \in Seq(Steps(goal)), todo # <<>>
  PROVE  /\ Len(todo) \in Nat \ {0} /\ 1 \in 1..Len(todo) /\ todo[1] \in Steps(goal)
         /\ Tail(todo) \in Seq(Steps(goal)) /\ Len(Tail(todo)) = Len(todo) - 1
         /\ \A i \in 1..(Len(todo) - 1) : Tail(todo)[i] = todo[i + 1]
  <1>1. Len(todo) \in Nat \ {0}
    BY EmptySeq
  <1>2. 1 \in 1..Len(todo)
    BY <1>1
  <1>3. todo[1] \in Steps(goal)
    BY <1>2, ElementOfSeq
  <1>4. QED
    BY <1>1, <1>2, <1>3, HeadTailProperties

\* The plan stays orderly when its first step is done, with what that has saved
\* or noted.
LEMMA TailOrderly ==
  ASSUME NEW goal, NEW todo, NEW noted, NEW saved, NEW changes,
         Orderly(todo, noted, saved, changes, goal), todo # <<>>,
         NEW n, NEW s, noted \subseteq n, saved \subseteq s,
         todo[1].do = "save" => todo[1].path \in s,
         todo[1].do = "note" => saved \subseteq n
  PROVE  Orderly(Tail(todo), n, s, changes, goal)
  <1> DEFINE rest == Tail(todo)
             l == Len(todo)
  <1>1. /\ l \in Nat \ {0} /\ rest \in Seq(Steps(goal)) /\ Len(rest) = l - 1
        /\ \A i \in 1..(l - 1) : rest[i] = todo[i + 1]
    BY TailFacts DEF Orderly
  <1> HIDE DEF rest, l
  <1>2. \A k \in 1..l : k # 1 => k - 1 \in 1..(l - 1) /\ rest[k - 1] = todo[k]
    <2>1. ASSUME NEW k \in 1..l, k # 1 PROVE k - 1 \in 1..(l - 1) /\ k - 1 + 1 = k
      BY <1>1, <2>1
    <2>2. QED
      BY <1>1, <2>1
  <1>3. ASSUME NEW i \in 1..(l - 1)
        PROVE  /\ i + 1 \in 1..l /\ rest[i] = todo[i + 1]
               /\ \A k \in 1..(i + 1 - 1) : k \in 1..l
               /\ \A k \in 1..(i + 1 - 1) : k # 1 => k - 1 \in 1..(i - 1)
               /\ \A k \in 1..(i - 1) : k + 1 \in 1..(i + 1 - 1) /\ k \in 1..(l - 1)
    BY <1>1
  <1>4. ASSUME NEW i \in 1..(l - 1), IsChange(rest[i])
        PROVE  \/ rest[i].path \in n
               \/ rest[i].path \in s /\ NotedBefore(rest, i)
               \/ SecuredBefore(rest, i, rest[i].path)
    <2> DEFINE x == rest[i].path
    <2>1. IsChange(todo[i + 1]) /\ todo[i + 1].path = x
      BY <1>3, <1>4
    <2>2. \/ x \in noted
          \/ x \in saved /\ NotedBefore(todo, i + 1)
          \/ SecuredBefore(todo, i + 1, x)
      BY <1>3, <2>1 DEF Orderly, l
    <2> HIDE DEF x
    <2>3. ASSUME x \in saved, NotedBefore(todo, i + 1)
          PROVE  x \in n \/ (x \in s /\ NotedBefore(rest, i))
      <3>1. PICK k \in 1..(i + 1 - 1) : todo[k].do = "note"
        BY <2>3 DEF NotedBefore
      <3>2. CASE k = 1
        BY <2>3, <3>1, <3>2
      <3>3. CASE k # 1
        <4>1. k - 1 \in 1..(i - 1) /\ rest[k - 1].do = "note"
          BY <1>2, <1>3, <3>1, <3>3
        <4>2. QED
          BY <2>3, <4>1 DEF NotedBefore
      <3>4. QED
        BY <3>2, <3>3
    <2>4. ASSUME SecuredBefore(todo, i + 1, x)
          PROVE  (x \in s /\ NotedBefore(rest, i)) \/ SecuredBefore(rest, i, x)
      <3>1. PICK j, k \in 1..(i + 1 - 1) :
              j < k /\ todo[j].do = "save" /\ todo[j].path = x /\ todo[k].do = "note"
        BY <2>4 DEF SecuredBefore
      <3>2. k # 1 /\ k - 1 \in 1..(i - 1) /\ rest[k - 1].do = "note"
        <4>1. k # 1
          BY <3>1
        <4>2. QED
          BY <1>2, <1>3, <3>1, <4>1
      <3>3. CASE j = 1
        <4>1. x \in s
          BY <3>1, <3>3
        <4>2. QED
          BY <3>2, <4>1 DEF NotedBefore
      <3>4. CASE j # 1
        <4>1. /\ j - 1 \in 1..(i - 1) /\ rest[j - 1].do = "save" /\ rest[j - 1].path = x
              /\ j - 1 < k - 1
          BY <1>2, <1>3, <3>1, <3>4
        <4>2. QED
          BY <3>2, <4>1 DEF SecuredBefore
      <3>5. QED
        BY <3>3, <3>4
    <2>5. QED
      BY <2>2, <2>3, <2>4 DEF x
  <1>5. ASSUME NEW i \in 1..(l - 1), rest[i].do = "save"
        PROVE  ~ChangedBefore(rest, i, rest[i].path)
    <2>1. ~ChangedBefore(todo, i + 1, rest[i].path)
      BY <1>3, <1>5 DEF Orderly, l
    <2>2. ASSUME NEW k \in 1..(i - 1), IsChange(rest[k]), rest[k].path = rest[i].path
          PROVE  FALSE
      <3>1. k + 1 \in 1..(i + 1 - 1) /\ rest[k] = todo[k + 1]
        BY <1>1, <1>3
      <3>2. QED
        BY <2>1, <2>2, <3>1 DEF ChangedBefore
    <2>3. QED
      BY <2>2 DEF ChangedBefore
  <1>6. ASSUME NEW i \in 1..(l - 1), rest[i].do = "clear"
        PROVE  /\ rest[i].path \in Clearable
               /\ \E k \in (i + 1)..(l - 1) : rest[k].do = "put" /\ rest[k].path = rest[i].path
    <2>1. PICK k \in (i + 1 + 1)..l : todo[k].do = "put" /\ todo[k].path = rest[i].path
      BY <1>3, <1>6 DEF Orderly, l
    <2>2. k \in 1..l /\ k # 1 /\ k - 1 \in (i + 1)..(l - 1)
      BY <1>1, <2>1
    <2>3. rest[k - 1] = todo[k]
      BY <1>2, <2>2
    <2>4. rest[i].path \in Clearable
      BY <1>3, <1>6 DEF Orderly, l
    <2>5. QED
      BY <2>1, <2>2, <2>3, <2>4
  <1>7. ASSUME NEW i \in 1..(l - 1)
        PROVE  /\ IsChange(rest[i]) => rest[i].path \in changes
               /\ rest[i].do = "put" => rest[i].value = goal[rest[i].path]
    BY <1>3 DEF Orderly, l
  <1>8. QED
    BY <1>1, <1>4, <1>5, <1>6, <1>7 DEF Orderly, rest

LEMMA HeadOrderly ==
  ASSUME NEW goal, NEW todo, NEW noted, NEW saved, NEW changes,
         Orderly(todo, noted, saved, changes, goal), todo # <<>>
  PROVE  /\ todo[1] \in Steps(goal)
         /\ \A x : Puts(todo, x) =>
              Puts(Tail(todo), x) \/ (todo[1].do = "put" /\ todo[1].path = x)
         /\ \A i \in 1..Len(Tail(todo)) :
              \E k \in 1..Len(todo) : k # 1 /\ Tail(todo)[i] = todo[k]
         /\ IsChange(todo[1]) =>
              /\ todo[1].path \in noted /\ todo[1].path \in changes
              /\ \A i \in 1..Len(Tail(todo)) :
                   Tail(todo)[i].do = "save" => Tail(todo)[i].path # todo[1].path
         /\ todo[1].do = "put" => todo[1].value = goal[todo[1].path]
         /\ todo[1].do = "clear" => todo[1].path \in Clearable /\ Puts(Tail(todo), todo[1].path)
  <1> DEFINE rest == Tail(todo)
             l == Len(todo)
  <1>1. /\ l \in Nat \ {0} /\ 1 \in 1..l /\ todo[1] \in Steps(goal) /\ Len(rest) = l - 1
        /\ \A i \in 1..(l - 1) : rest[i] = todo[i + 1]
    BY TailFacts DEF Orderly
  <1> HIDE DEF rest, l
  <1>2. \A k \in 1..l : k # 1 => k - 1 \in 1..(l - 1) /\ rest[k - 1] = todo[k]
    <2>1. ASSUME NEW k \in 1..l, k # 1 PROVE k - 1 \in 1..(l - 1) /\ k - 1 + 1 = k
      BY <1>1, <2>1
    <2>2. QED
      BY <1>1, <2>1
  <1>3. \A i \in 1..(l - 1) : i + 1 \in 1..l /\ i + 1 # 1 /\ rest[i] = todo[i + 1]
    BY <1>1
  <1>4. \A x : Puts(todo, x) => Puts(rest, x) \/ (todo[1].do = "put" /\ todo[1].path = x)
    BY <1>1, <1>2 DEF Puts, l
  <1>5. ASSUME IsChange(todo[1])
        PROVE  /\ todo[1].path \in noted /\ todo[1].path \in changes
               /\ \A i \in 1..(l - 1) : rest[i].do = "save" => rest[i].path # todo[1].path
    <2>1. ~NotedBefore(todo, 1) /\ \A x : ~SecuredBefore(todo, 1, x)
      BY DEF NotedBefore, SecuredBefore
    <2>2. ASSUME NEW i \in 1..(l - 1), rest[i].do = "save", rest[i].path = todo[1].path
          PROVE  FALSE
      <3>1. ~ChangedBefore(todo, i + 1, todo[1].path)
        BY <1>3, <2>2 DEF Orderly, l
      <3>2. 1 \in 1..(i + 1 - 1)
        BY <1>1
      <3>3. QED
        BY <1>5, <3>1, <3>2 DEF ChangedBefore
    <2>3. QED
      BY <1>1, <1>5, <2>1, <2>2 DEF Orderly, l
  <1>6. ASSUME todo[1].do = "clear"
        PROVE  todo[1].path \in Clearable /\ Puts(rest, todo[1].path)
    <2>1. PICK k \in (1 + 1)..l : todo[k].do = "put" /\ todo[k].path = todo[1].path
      BY <1>1, <1>6 DEF Orderly, l
    <2>2. k \in 1..l /\ k # 1
      BY <1>1
    <2>3. Puts(rest, todo[1].path)
      BY <1>1, <1>2, <2>1, <2>2 DEF Puts
    <2>4. QED
      BY <1>1, <1>6, <2>3 DEF Orderly, l
  <1>7. todo[1].do = "put" => todo[1].value = goal[todo[1].path]
    BY <1>1 DEF Orderly, l
  <1>8. QED
    BY <1>1, <1>3, <1>4, <1>5, <1>6, <1>7 DEF rest, l

-----------------------------------------------------------------------------
(* Types *)

Fits(path, value) ==
  value \in {Absent, Torn} \/
    IF path = Registry THEN value \in Registries
    ELSE IF path[1] = "package" THEN value \in Versions
    ELSE IF path[1] = "adapter" THEN value \in SUBSET Packages
    ELSE value \in Receipts

LEMMA FitsIs ==
  /\ \A p, v : Fits(Package(p), v) <=> v \in Versions \cup {Absent, Torn}
  /\ \A t, v :
       /\ Fits(Adapter(t), v) <=> v \in (SUBSET Packages) \cup {Absent, Torn}
       /\ Fits(Lockfile(t), v) <=> v \in Receipts \cup {Absent, Torn}
  /\ \A v : Fits(Registry, v) <=> v \in Registries \cup {Absent, Torn}
  <1>1. /\ \A p : Package(p) # Registry /\ Package(p)[1] = "package"
        /\ \A t : /\ Adapter(t) # Registry /\ Adapter(t)[1] = "adapter"
                  /\ Lockfile(t) # Registry /\ Lockfile(t)[1] = "lock"
    BY DEF Package, Adapter, Lockfile, Registry
  <1>2. QED
    BY <1>1 DEF Fits

LEMMA FitsTyped ==
  ASSUME NEW d, \A x \in Paths : Fits(x, d[x])
  PROVE  Typed(d)
  <1>1. /\ \A p \in Packages : Fits(Package(p), d[Package(p)])
        /\ \A t \in Targets : Fits(Adapter(t), d[Adapter(t)])
    BY PackagePaths
  <1>2. QED
    BY <1>1, FitsIs DEF Typed

LEMMA TypedFits ==
  ASSUME NEW d, Typed(d), Firm(d), NEW x \in Paths
  PROVE  Fits(x, d[x])
  <1>1. \/ \E p \in Packages : x = Package(p)
        \/ \E t \in Targets : x = Adapter(t) \/ x = Lockfile(t)
        \/ x = Registry
    BY PackagePaths
  <1>2. QED
    BY <1>1, FitsIs DEF Typed, Firm

LEMMA FitsContents ==
  ASSUME NEW x, NEW v, Fits(x, v)
  PROVE  v \in Contents
  BY DEF Fits, Contents, Registries

LEMMA DiskFits == ApplicationTypeOK => \A x \in Paths : Fits(x, disk[x])
  BY DEF ApplicationTypeOK, Fits, Registries

\* Numbers and sets of the specification that are not the disk or the operation.
Counted ==
  /\ operations \in 0..MaxOperations /\ faults \in 0..MaxFaults
  /\ unsettled \subseteq Targets /\ damaged \subseteq Packages /\ halted \in BOOLEAN

LEMMA TypesHold ==
  ASSUME DOMAIN disk' = Paths, \A x \in Paths : Fits(x, disk'[x]),
         tx' = Absent \/ tx' \in Operation, Counted'
  PROVE  ApplicationTypeOK'
  <1>1. ASSUME tx' \in Operation
        PROVE  /\ tx'.target \in Targets /\ tx'.phase \in Phases
               /\ \A i \in DOMAIN tx'.touched : tx'.touched[i].path \in Paths
               /\ tx'.errors \subseteq Paths
    <2> DEFINE Copies == [path : Paths, existed : BOOLEAN, copy : Contents]
               touched == tx'.touched
    <2>1. touched \in Seq(Copies)
      BY <1>1 DEF Operation
    <2>2. \A copy \in Copies : copy.path \in Paths
      OBVIOUS
    <2> HIDE DEF Copies, touched
    <2>3. \A i \in DOMAIN touched : touched[i] \in Copies
      BY <2>1
    <2>4. QED
      BY <1>1, <2>2, <2>3 DEF Operation, touched
  <1>2. QED
    BY <1>1 DEF ApplicationTypeOK, Fits, Counted, Registries

LEMMA CountedHolds == ApplicationTypeOK => Counted
  BY DEF ApplicationTypeOK, Counted

-----------------------------------------------------------------------------
(* Beginning *)

LEMMA Begins ==
  ASSUME PackageConstants, AppInv, NEW t \in Targets, NEW kind \in {"apply", "detach", "rollback"},
         NEW todo, Begin(t, kind, todo), NEW goal,
         Prepared(todo, t, kind = "apply" \/ Attached(t), goal)
  PROVE  AppInv'
  <1> DEFINE settles == kind = "apply" \/ Attached(t)
             op == [target |-> t, kind |-> kind, phase |-> "acting", todo |-> todo,
                    touched |-> <<>>, noted |-> 0, errors |-> {}, applied |-> FALSE,
                    before |-> disk, settles |-> settles]
  <1>1. /\ tx = Absent /\ ~halted /\ operations < MaxOperations
        /\ operations' = operations + 1 /\ tx' = op
        /\ disk' = disk /\ faults' = faults /\ unsettled' = unsettled
        /\ damaged' = damaged /\ halted' = halted
    BY DEF Begin, MayBegin
  <1>2. Settled
    BY <1>1 DEF AppInv
  <1>3. Prepared(todo, t, settles, goal) /\ settles \in BOOLEAN
    OBVIOUS
  <1> HIDE DEF settles
  <1>4. /\ op.target = t /\ op.kind = kind /\ op.phase = "acting" /\ op.todo = todo
        /\ op.touched = <<>> /\ op.noted = 0 /\ op.errors = {} /\ op.applied = FALSE
        /\ op.before = disk /\ op.settles = settles
    OBVIOUS
  <1>5. op \in Operation
    <2>1. <<>> \in Seq([path : Paths, existed : BOOLEAN, copy : Contents])
      BY EmptySeq
    <2> DEFINE All == [do : {"save", "note", "clear", "put"}, path : Paths,
                       value : Contents]
    <2>2. todo \in Seq(All)
      <3>1. todo \in Seq(Steps(goal))
        BY <1>3 DEF Prepared, Leads, Orderly
      <3>2. \A x \in Paths : goal[x] \in Contents
        BY <1>3, TypedFits, FitsContents DEF Prepared
      <3>3. Steps(goal) \subseteq All
        BY <3>2 DEF Steps, Contents
      <3> HIDE DEF All
      <3>4. QED
        BY <3>1, <3>3
    <2>3. disk \in [Paths -> Contents]
      BY DEF AppInv
    <2>4. QED
      BY <1>3, <2>1, <2>2, <2>3 DEF Operation, Phases
  <1> HIDE DEF op
  <1>6. Noted(op) = {} /\ Touched(op) = {}
    <2>1. 1..op.noted = {} /\ 1..Len(op.touched) = {}
      BY <1>4
    <2>2. QED
      BY <2>1 DEF Noted, Touched
  <1>7. Copied(op) /\ Changed(op, disk) /\ Repairs(op, disk)
    BY <1>4 DEF Copied, Changed, Repairs
  <1>8. Underway(op, disk, goal)
    <2>1. /\ Orderly(todo, {}, {}, Mine(t), goal)
          /\ \A x \in Paths : Puts(todo, x) \/ goal[x] = disk[x]
      BY <1>3 DEF Prepared, Leads
    <2>2. \A u \in Targets \ {t} : SameReceipts(disk, disk, u)
      BY DEF SameReceipts
    <2>3. QED
      BY <1>4, <1>6, <2>1, <2>2 DEF Underway
  <1>9. Intended(op, damaged, unsettled, goal)
    BY <1>3, <1>4 DEF Prepared, Intended
  <1>10. Operating(op, disk, damaged, unsettled)
    BY <1>2, <1>4, <1>5, <1>7, <1>8, <1>9 DEF Operating, Settled
  <1>11. ApplicationTypeOK'
    <2>1. operations' \in 0..MaxOperations
      BY <1>1 DEF AppInv, ApplicationTypeOK, PackageConstants, PackageAssumption
    <2>2. Counted'
      BY <1>1, <2>1, CountedHolds DEF AppInv, Counted
    <2>3. DOMAIN disk' = Paths /\ \A x \in Paths : Fits(x, disk'[x])
      BY <1>1, DiskFits DEF AppInv, ApplicationTypeOK
    <2>4. tx' \in Operation
      BY <1>1, <1>5
    <2>5. QED
      BY <2>2, <2>3, <2>4, TypesHold
  <1>12. tx' # Absent /\ disk' \in [Paths -> Contents]
    BY <1>1, <1>5 DEF AppInv, PackageConstants, AbsentAssumption
  <1>13. QED
    BY <1>1, <1>10, <1>11, <1>12 DEF AppInv

-----------------------------------------------------------------------------
(* Acting *)

\* An operation has done the first step of its plan, and has at most copied a
\* path, noted its copies, or changed the path of the step.
Advanced(op, new, d, e) ==
  /\ new \in Operation
  /\ new.target = op.target /\ new.before = op.before
  /\ new.errors = op.errors /\ new.settles = op.settles
  /\ new.todo = Tail(op.todo)
  /\ new.applied = (new.todo = <<>> /\ op.kind = "apply")
  /\ new.phase = IF new.todo # <<>> THEN "acting"
                 ELSE IF op.kind = "apply" THEN "cleaning" ELSE "committing"
  /\ Len(op.touched) =< Len(new.touched)
  /\ \A i \in 1..Len(op.touched) : new.touched[i] = op.touched[i]
  /\ \A i \in 1..Len(new.touched) : new.touched[i].copy = op.before[new.touched[i].path]
  /\ op.noted =< new.noted /\ new.noted =< Len(new.touched)
  /\ op.todo[1].do = "save" => op.todo[1].path \in Touched(new)
  /\ op.todo[1].do = "note" => new.noted = Len(op.touched)
  /\ \A x \in Paths : e[x] = d[x] \/ (IsChange(op.todo[1]) /\ x = op.todo[1].path)
  /\ op.todo[1].do = "put" => e[op.todo[1].path] = op.todo[1].value

LEMMA Advances ==
  ASSUME NEW op, NEW new, NEW d, NEW e, NEW lost, NEW open,
         Operating(op, d, lost, open), op.phase = "acting", op.todo # <<>>,
         Advanced(op, new, d, e)
  PROVE  Operating(new, e, lost, open)
  <1> DEFINE head == op.todo[1]
             rest == Tail(op.todo)
             t == op.target
             before == op.before
  <1>1. PICK goal : Underway(op, d, goal) /\ Intended(op, lost, open, goal)
    BY DEF Operating, Forward
  <1>2. /\ ~op.applied /\ op.noted =< Len(op.touched)
        /\ \A x \in Paths : d[x] = before[x] \/ x \in Noted(op)
    BY DEF Operating, Repairs
  <1>3. /\ Noted(op) \subseteq Noted(new) /\ Touched(op) \subseteq Touched(new)
        /\ Noted(new) \subseteq Touched(new)
        /\ head.do = "note" => Touched(op) \subseteq Noted(new)
    <2>1. /\ op.noted \in Nat /\ new.noted \in Nat
          /\ Len(op.touched) \in Nat /\ Len(new.touched) \in Nat
      BY DEF Advanced, Operating, Operation
    <2>2. /\ 1..op.noted \subseteq 1..new.noted /\ 1..op.noted \subseteq 1..Len(op.touched)
          /\ 1..Len(op.touched) \subseteq 1..Len(new.touched)
          /\ 1..new.noted \subseteq 1..Len(new.touched)
          /\ head.do = "note" => 1..new.noted = 1..Len(op.touched)
      BY <1>2, <2>1 DEF Advanced
    <2>3. \A i \in 1..Len(op.touched) : new.touched[i] = op.touched[i]
      BY DEF Advanced
    <2>4. QED
      BY <2>2, <2>3 DEF Noted, Touched
  <1>4. /\ \A x : Puts(op.todo, x) => Puts(rest, x) \/ (head.do = "put" /\ head.path = x)
        /\ \A i \in 1..Len(rest) : \E k \in 1..Len(op.todo) : rest[i] = op.todo[k]
        /\ IsChange(head) =>
             /\ head.path \in Noted(op) /\ head.path \in Mine(t)
             /\ \A i \in 1..Len(rest) : rest[i].do = "save" => rest[i].path # head.path
        /\ head.do = "put" => head.value = goal[head.path]
        /\ head.do = "clear" => head.path \in Clearable /\ Puts(rest, head.path)
    <2>1. Orderly(op.todo, Noted(op), Touched(op), Mine(t), goal)
      BY <1>1 DEF Underway
    <2>2. QED
      BY <2>1, HeadOrderly
  <1>5. Orderly(rest, Noted(new), Touched(new), Mine(t), goal)
    <2>1. Orderly(op.todo, Noted(op), Touched(op), Mine(t), goal)
      BY <1>1 DEF Underway
    <2>2. head.do = "save" => head.path \in Touched(new)
      BY DEF Advanced
    <2>3. QED
      BY <1>3, <2>1, <2>2, TailOrderly
  <1>6. /\ \A x \in Paths : e[x] = d[x] \/ (IsChange(head) /\ x = head.path)
        /\ head.do = "put" => e[head.path] = head.value
    BY DEF Advanced
  <1>7. IsChange(head) <=> head.do \in {"clear", "put"}
    BY DEF IsChange
  <1>8. /\ new.target = t /\ new.before = before /\ new.todo = rest
        /\ new.settles = op.settles /\ new.errors = op.errors
    BY DEF Advanced
  <1>9. /\ new.applied = (rest = <<>> /\ op.kind = "apply")
        /\ new.phase = IF rest # <<>> THEN "acting"
                       ELSE IF op.kind = "apply" THEN "cleaning" ELSE "committing"
    BY DEF Advanced
  <1> HIDE DEF head, rest, t, before
  <1>10. \A x \in Paths \ Clearable : e[x] \in {before[x], goal[x]}
    <2>1. \A x \in Paths \ Clearable : d[x] \in {before[x], goal[x]}
      BY <1>1 DEF Underway, before
    <2>2. QED
      BY <1>4, <1>6, <1>7, <2>1
  <1>11. ASSUME NEW u \in Targets \ {t} PROVE SameReceipts(before, e, u)
    <2>1. SameReceipts(before, d, u) /\ SameReceipts(before, goal, u)
      BY <1>1 DEF Underway, Intended, t, before
    <2>2. Adapter(u) \notin Mine(t) /\ Lockfile(u) \notin Mine(t)
      BY PackagePaths DEF Mine, PackagesAt
    <2>3. Adapter(u) \in Paths /\ Lockfile(u) \in Paths
      BY PackagePaths
    <2>4. e[Adapter(u)] = d[Adapter(u)] /\ e[Lockfile(u)] = d[Lockfile(u)]
      BY <1>4, <1>6, <2>2, <2>3
    <2>5. e[Registry] \in {before[Registry], goal[Registry]}
      BY <1>10, PackagePaths
    <2>6. QED
      BY <2>1, <2>4, <2>5 DEF SameReceipts
  <1>12. Underway(new, e, goal)
    <2>1. \A x \in Paths : Puts(rest, x) \/ goal[x] = e[x]
      <3>1. \A x \in Paths : Puts(op.todo, x) \/ goal[x] = d[x]
        BY <1>1 DEF Underway
      <3>2. QED
        BY <1>4, <1>6, <1>7, <3>1
    <2>2. ASSUME NEW i \in 1..Len(rest), rest[i].do = "save"
          PROVE  e[rest[i].path] = before[rest[i].path]
      <3>1. PICK k \in 1..Len(op.todo) : rest[i] = op.todo[k]
        BY <1>4
      <3>2. d[rest[i].path] = before[rest[i].path]
        BY <1>1, <2>2, <3>1 DEF Underway, before
      <3>3. rest[i].path \in Paths
        <4>1. rest[i] \in Steps(goal)
          BY <1>5, ElementOfSeq DEF Orderly
        <4>2. QED
          BY <4>1 DEF Steps
      <3>4. QED
        BY <1>4, <1>6, <2>2, <3>2, <3>3
    <2>3. new.phase # "acting" => rest = <<>>
      BY <1>9
    <2>4. QED
      BY <1>5, <1>8, <1>10, <1>11, <2>1, <2>2, <2>3 DEF Underway
  <1>13. Intended(new, lost, open, goal)
    BY <1>1, <1>8 DEF Intended, t, before
  <1>14. Changed(new, e)
    <2>1. \A x \in Paths : e[x] = before[x] \/ x \in Touched(new)
      BY <1>2, <1>3, <1>4, <1>6
    <2>2. new.phase # "reporting"
      BY <1>9
    <2>3. QED
      BY <1>8, <2>1, <2>2 DEF Changed
  <1>15. Copied(new) /\ Repairs(new, e)
    <2>1. \A i \in 1..Len(new.touched) : new.touched[i].copy = before[new.touched[i].path]
      BY DEF Advanced, before
    <2>2. \A x \in Paths : e[x] = before[x] \/ x \in Noted(new)
      BY <1>2, <1>3, <1>4, <1>6
    <2>3. new.noted =< Len(new.touched)
      BY DEF Advanced
    <2>4. /\ new.phase = "acting" => ~new.applied
          /\ new.phase = "cleaning" => new.applied
      BY <1>9
    <2>5. QED
      BY <1>8, <2>1, <2>2, <2>3, <2>4 DEF Copied, Repairs
  <1>16. new \in Operation
    BY DEF Advanced
  <1>17. /\ Typed(before) /\ Firm(before) /\ \A u \in Targets \ open : Agrees(before, lost, u)
    BY DEF Operating, before
  <1>18. QED
    BY <1>8, <1>12, <1>13, <1>14, <1>15, <1>16, <1>17 DEF Operating

\* What an operation under the lock may do next, and what it has noted.
LEMMA NextStep ==
  ASSUME AppInv, tx # Absent, tx.phase = "acting", tx.todo # <<>>
  PROVE  /\ Here \in Paths /\ Here = tx.todo[1].path
         /\ tx.todo[1].do = "save" => disk[Here] = tx.before[Here]
         /\ tx.todo[1].do = "put" => Fits(Here, tx.todo[1].value)
         /\ tx \in Operation /\ tx.noted =< Len(tx.touched)
         /\ \A i \in 1..Len(tx.touched) : tx.touched[i].copy = tx.before[tx.touched[i].path]
  <1>1. Operating(tx, disk, damaged, unsettled)
    BY DEF AppInv
  <1>2. PICK goal : Underway(tx, disk, goal) /\ Intended(tx, damaged, unsettled, goal)
    BY <1>1 DEF Operating, Forward
  <1>3. Orderly(tx.todo, Noted(tx), Touched(tx), Mine(tx.target), goal)
    BY <1>2 DEF Underway
  <1>4. /\ tx.todo[1] \in Steps(goal)
        /\ tx.todo[1].do = "put" => tx.todo[1].value = goal[tx.todo[1].path]
    BY <1>3, HeadOrderly
  <1>5. tx.todo[1].path \in Paths
    BY <1>4 DEF Steps
  <1>6. Fits(tx.todo[1].path, goal[tx.todo[1].path])
    BY <1>2, <1>5, TypedFits DEF Intended
  <1>7. 1 \in 1..Len(tx.todo)
    BY <1>3, TailFacts DEF Orderly
  <1>8. tx.todo[1].do = "save" => disk[tx.todo[1].path] = tx.before[tx.todo[1].path]
    BY <1>2, <1>7 DEF Underway
  <1>9. /\ tx.noted =< Len(tx.touched)
        /\ \A i \in 1..Len(tx.touched) : tx.touched[i].copy = tx.before[tx.touched[i].path]
    BY <1>1 DEF Operating, Repairs
  <1>10. QED
    BY <1>1, <1>4, <1>5, <1>6, <1>8, <1>9 DEF Here, Operating

LEMMA DoneIs ==
  ASSUME AppInv, tx # Absent, tx.phase = "acting", tx.todo # <<>>
  PROVE  /\ Done \in Operation
         /\ Done.target = tx.target /\ Done.before = tx.before
         /\ Done.errors = tx.errors /\ Done.settles = tx.settles
         /\ Done.touched = tx.touched /\ Done.noted = tx.noted
         /\ Done.todo = Tail(tx.todo)
         /\ Done.applied = (Tail(tx.todo) = <<>> /\ tx.kind = "apply")
         /\ Done.phase = IF Tail(tx.todo) # <<>> THEN "acting"
                         ELSE IF tx.kind = "apply" THEN "cleaning" ELSE "committing"
  <1> DEFINE All == [do : {"save", "note", "clear", "put"}, path : Paths,
                     value : Contents]
             rest == Tail(tx.todo)
             applied == rest = <<>> /\ tx.kind = "apply"
             phase == IF rest # <<>> THEN tx.phase
                      ELSE IF tx.kind = "apply" THEN "cleaning" ELSE "committing"
  <1>1. tx \in Operation
    BY NextStep
  <1>2. rest \in Seq(All)
    <2>1. tx.todo \in Seq(All)
      BY <1>1 DEF Operation
    <2> HIDE DEF All
    <2>2. QED
      BY <2>1, HeadTailProperties
  <1>3. Done = [tx EXCEPT !.todo = rest, !.applied = applied, !.phase = phase]
    BY DEF Done
  <1>4. applied \in BOOLEAN /\ phase \in Phases
    BY DEF Phases
  <1>5. applied = (rest = <<>> /\ tx.kind = "apply")
    OBVIOUS
  <1>6. phase = IF rest # <<>> THEN "acting"
                ELSE IF tx.kind = "apply" THEN "cleaning" ELSE "committing"
    OBVIOUS
  <1> HIDE DEF rest, applied, phase
  <1>7. /\ Done \in Operation
        /\ Done.target = tx.target /\ Done.before = tx.before
        /\ Done.errors = tx.errors /\ Done.settles = tx.settles
        /\ Done.touched = tx.touched /\ Done.noted = tx.noted
        /\ Done.todo = rest /\ Done.applied = applied /\ Done.phase = phase
    BY <1>1, <1>2, <1>3, <1>4 DEF Operation
  <1>8. QED
    BY <1>5, <1>6, <1>7 DEF rest

LEMMA ActPreserves ==
  ASSUME PackageConstants, AppInv, tx # Absent, tx.phase = "acting", tx.todo # <<>>,
         Advanced(tx, tx', disk, disk'), disk' \in [Paths -> Contents],
         \A x \in Paths : Fits(x, disk'[x]), faults' = faults, HistoryUnchanged
  PROVE  AppInv'
  <1>1. /\ faults' = faults /\ operations' = operations /\ unsettled' = unsettled
        /\ damaged' = damaged /\ halted' = halted
    BY DEF HistoryUnchanged
  <1>2. tx' \in Operation /\ tx' # Absent
    BY DEF Advanced, PackageConstants, AbsentAssumption
  <1>3. Operating(tx', disk', damaged, unsettled)
    BY Advances DEF AppInv
  <1>4. Counted'
    BY <1>1, CountedHolds DEF AppInv, Counted
  <1>5. ApplicationTypeOK'
    BY <1>2, <1>4, TypesHold
  <1>6. QED
    BY <1>1, <1>2, <1>3, <1>5 DEF AppInv

LEMMA SavePreserves == ASSUME PackageConstants, AppInv, Save PROVE AppInv'
  <1> DEFINE done == Done
             here == Here
             Copies == [path : Paths, existed : BOOLEAN, copy : Contents]
             copy == [path |-> here, existed |-> Exists(here), copy |-> disk[here]]
             touched == Append(tx.touched, copy)
             l == Len(tx.touched)
  <1>1. /\ tx # Absent /\ tx.phase = "acting" /\ tx.todo # <<>> /\ tx.todo[1].do = "save"
        /\ tx' = [done EXCEPT !.touched = Append(@, copy)]
        /\ disk' = disk /\ faults' = faults /\ HistoryUnchanged
    BY DEF Save, Doing
  <1>2. /\ here \in Paths /\ here = tx.todo[1].path /\ disk[here] = tx.before[here]
        /\ tx \in Operation /\ tx.noted =< l
        /\ \A i \in 1..l : tx.touched[i].copy = tx.before[tx.touched[i].path]
    BY <1>1, NextStep
  <1>3. copy \in Copies /\ copy.path = here /\ copy.copy = disk[here]
    <2>1. disk[here] \in Contents
      BY <1>2 DEF AppInv
    <2>2. Exists(here) \in BOOLEAN
      BY DEF Exists
    <2>3. QED
      BY <1>2, <2>1, <2>2
  <1>4. tx.touched \in Seq(Copies)
    BY <1>2 DEF Operation
  <1> HIDE DEF Copies, copy
  <1>5. /\ touched \in Seq(Copies) /\ Len(touched) = l + 1
        /\ \A i \in 1..l : touched[i] = tx.touched[i]
        /\ touched[l + 1] = copy
    BY <1>3, <1>4, AppendProperties
  <1>6. l \in Nat
    BY <1>4
  <1>7. tx.noted \in Nat
    BY <1>2 DEF Operation
  <1> HIDE DEF touched, l
  <1>8. \A i \in 1..Len(touched) : touched[i].copy = tx.before[touched[i].path]
    <2>1. \A i \in 1..Len(touched) : i \in 1..l \/ i = l + 1
      BY <1>5, <1>6
    <2>2. QED
      BY <1>2, <1>3, <1>5, <2>1
  <1>9. tx' = [done EXCEPT !.touched = touched]
    BY <1>1, <1>2, DoneIs DEF touched
  <1>10. /\ done \in Operation /\ done.target = tx.target /\ done.before = tx.before
         /\ done.errors = tx.errors /\ done.settles = tx.settles
         /\ done.touched = tx.touched /\ done.noted = tx.noted /\ done.todo = Tail(tx.todo)
         /\ done.applied = (Tail(tx.todo) = <<>> /\ tx.kind = "apply")
         /\ done.phase = IF Tail(tx.todo) # <<>> THEN "acting"
                         ELSE IF tx.kind = "apply" THEN "cleaning" ELSE "committing"
    BY <1>1, DoneIs
  <1> HIDE DEF done
  <1>11. /\ tx' \in Operation /\ tx'.target = done.target /\ tx'.before = done.before
         /\ tx'.errors = done.errors /\ tx'.settles = done.settles
         /\ tx'.todo = done.todo /\ tx'.applied = done.applied /\ tx'.phase = done.phase
         /\ tx'.touched = touched /\ tx'.noted = done.noted
    BY <1>5, <1>9, <1>10 DEF Operation, Copies
  <1>12. here \in Touched(tx')
    BY <1>3, <1>5, <1>6, <1>11 DEF Touched
  <1>13. tx.noted =< Len(touched) /\ l =< Len(touched)
    BY <1>2, <1>5, <1>6, <1>7
  <1>14. tx.noted =< tx.noted
    BY <1>7
  <1>15. Advanced(tx, tx', disk, disk')
    <2>1. /\ tx'.todo = Tail(tx.todo) /\ tx'.noted = tx.noted
          /\ tx'.target = tx.target /\ tx'.before = tx.before
          /\ tx'.errors = tx.errors /\ tx'.settles = tx.settles
          /\ tx'.applied = (tx'.todo = <<>> /\ tx.kind = "apply")
          /\ tx'.phase = IF tx'.todo # <<>> THEN "acting"
                         ELSE IF tx.kind = "apply" THEN "cleaning" ELSE "committing"
      BY <1>10, <1>11
    <2>2. /\ Len(tx.touched) =< Len(tx'.touched)
          /\ \A i \in 1..Len(tx.touched) : tx'.touched[i] = tx.touched[i]
      BY <1>5, <1>11, <1>13 DEF l
    <2>3. \A i \in 1..Len(tx'.touched) : tx'.touched[i].copy = tx.before[tx'.touched[i].path]
      BY <1>8, <1>11
    <2>4. tx.noted =< tx'.noted /\ tx'.noted =< Len(tx'.touched)
      BY <1>11, <1>13, <1>14, <2>1
    <2>5. tx.todo[1].path \in Touched(tx') /\ tx.todo[1].do = "save" /\ disk' = disk
      BY <1>1, <1>2, <1>12
    <2>6. QED
      BY <1>11, <2>1, <2>2, <2>3, <2>4, <2>5 DEF Advanced
  <1>16. \A x \in Paths : Fits(x, disk'[x])
    BY <1>1, DiskFits DEF AppInv
  <1>17. QED
    BY <1>1, <1>15, <1>16, ActPreserves DEF AppInv

LEMMA NotePreserves == ASSUME PackageConstants, AppInv, Note PROVE AppInv'
  <1> DEFINE done == Done
             l == Len(tx.touched)
  <1>1. /\ tx # Absent /\ tx.phase = "acting" /\ tx.todo # <<>> /\ tx.todo[1].do = "note"
        /\ tx' = [done EXCEPT !.noted = l]
        /\ disk' = disk /\ faults' = faults /\ HistoryUnchanged
    BY DEF Note, Doing
  <1>2. /\ tx \in Operation /\ tx.noted =< l
        /\ \A i \in 1..l : tx.touched[i].copy = tx.before[tx.touched[i].path]
    BY <1>1, NextStep
  <1>3. l \in Nat
    <2>1. tx.touched \in Seq([path : Paths, existed : BOOLEAN, copy : Contents])
      BY <1>2 DEF Operation
    <2>2. QED
      BY <2>1
  <1>4. /\ done \in Operation /\ done.target = tx.target /\ done.before = tx.before
        /\ done.errors = tx.errors /\ done.settles = tx.settles
        /\ done.touched = tx.touched /\ done.noted = tx.noted /\ done.todo = Tail(tx.todo)
        /\ done.applied = (Tail(tx.todo) = <<>> /\ tx.kind = "apply")
        /\ done.phase = IF Tail(tx.todo) # <<>> THEN "acting"
                        ELSE IF tx.kind = "apply" THEN "cleaning" ELSE "committing"
    BY <1>1, DoneIs
  <1> HIDE DEF l, done
  <1>5. /\ tx' \in Operation /\ tx'.target = done.target /\ tx'.before = done.before
        /\ tx'.errors = done.errors /\ tx'.settles = done.settles
        /\ tx'.todo = done.todo /\ tx'.applied = done.applied /\ tx'.phase = done.phase
        /\ tx'.touched = done.touched /\ tx'.noted = l
    BY <1>1, <1>3, <1>4 DEF Operation
  <1>6. l =< l
    BY <1>3
  <1>7. Advanced(tx, tx', disk, disk')
    <2>1. /\ tx'.target = tx.target /\ tx'.before = tx.before /\ tx'.errors = tx.errors
          /\ tx'.settles = tx.settles /\ tx'.todo = Tail(tx.todo)
          /\ tx'.touched = tx.touched /\ tx'.noted = Len(tx.touched)
          /\ tx'.applied = (tx'.todo = <<>> /\ tx.kind = "apply")
          /\ tx'.phase = IF tx'.todo # <<>> THEN "acting"
                         ELSE IF tx.kind = "apply" THEN "cleaning" ELSE "committing"
      BY <1>4, <1>5 DEF l
    <2>2. tx' \in Operation
      BY <1>5
    <2>3. tx.todo[1].do = "note" /\ \A x \in Paths : disk'[x] = disk[x]
      BY <1>1
    <2>4. /\ Len(tx.touched) =< Len(tx.touched) /\ tx.noted =< Len(tx.touched)
          /\ \A i \in 1..Len(tx.touched) : tx.touched[i].copy = tx.before[tx.touched[i].path]
      BY <1>2, <1>6 DEF l
    <2>5. QED
      BY <2>1, <2>2, <2>3, <2>4 DEF Advanced
  <1>8. \A x \in Paths : Fits(x, disk'[x])
    BY <1>1, DiskFits DEF AppInv
  <1>9. QED
    BY <1>1, <1>7, <1>8, ActPreserves DEF AppInv

\* A step that writes something to its path and copies nothing.
LEMMA ChangePreserves ==
  ASSUME PackageConstants, AppInv, tx # Absent, tx.phase = "acting", tx.todo # <<>>,
         IsChange(tx.todo[1]), tx' = Done, NEW value, Fits(Here, value),
         disk' = [disk EXCEPT ![Here] = value],
         tx.todo[1].do = "put" => value = tx.todo[1].value,
         faults' = faults, HistoryUnchanged
  PROVE  AppInv'
  <1> DEFINE here == Here
             l == Len(tx.touched)
  <1>1. /\ here \in Paths /\ here = tx.todo[1].path
        /\ tx \in Operation /\ tx.noted =< l
        /\ \A i \in 1..l : tx.touched[i].copy = tx.before[tx.touched[i].path]
    BY NextStep
  <1>2. l \in Nat /\ tx.noted \in Nat
    <2>1. tx.touched \in Seq([path : Paths, existed : BOOLEAN, copy : Contents])
      BY <1>1 DEF Operation
    <2>2. QED
      BY <1>1, <2>1 DEF Operation
  <1>3. /\ disk' \in [Paths -> Contents] /\ disk'[here] = value
        /\ \A x \in Paths \ {here} : disk'[x] = disk[x]
    <2>1. value \in Contents
      BY FitsContents
    <2> HIDE DEF here
    <2>2. QED
      BY <1>1, <2>1 DEF AppInv, here
  <1>4. \A x \in Paths : Fits(x, disk'[x])
    BY <1>3, DiskFits DEF AppInv
  <1>5. tx.todo[1].do # "save" /\ tx.todo[1].do # "note"
    BY DEF IsChange
  <1>6. l =< l /\ tx.noted =< tx.noted
    BY <1>2
  <1>7. \A x \in Paths : disk'[x] = disk[x] \/ (IsChange(tx.todo[1]) /\ x = tx.todo[1].path)
    BY <1>1, <1>3
  <1>8. tx.todo[1].do = "put" => disk'[tx.todo[1].path] = tx.todo[1].value
    BY <1>1, <1>3
  <1>9. Advanced(tx, tx', disk, disk')
    BY <1>1, <1>5, <1>6, <1>7, <1>8, DoneIs DEF Advanced
  <1>10. QED
    BY <1>3, <1>4, <1>9, ActPreserves

LEMMA ClearPreserves == ASSUME PackageConstants, AppInv, Clear PROVE AppInv'
  <1> DEFINE here == Here
             value == IF Exists(here) \/ here = Adapter(tx.target) THEN Torn ELSE Absent
  <1>1. /\ tx # Absent /\ tx.phase = "acting" /\ tx.todo # <<>> /\ tx.todo[1].do = "clear"
        /\ disk' = [disk EXCEPT ![here] = value] /\ tx' = Done
        /\ faults' = faults /\ HistoryUnchanged
    BY DEF Clear, Doing
  <1>2. Fits(here, value)
    BY DEF Fits
  <1> HIDE DEF value
  <1>3. IsChange(tx.todo[1]) /\ tx.todo[1].do # "put"
    BY <1>1 DEF IsChange
  <1>4. QED
    BY <1>1, <1>2, <1>3, ChangePreserves

LEMMA PutPreserves == ASSUME PackageConstants, AppInv, Put PROVE AppInv'
  <1>1. /\ tx # Absent /\ tx.phase = "acting" /\ tx.todo # <<>> /\ tx.todo[1].do = "put"
        /\ disk' = [disk EXCEPT ![Here] = tx.todo[1].value] /\ tx' = Done
        /\ faults' = faults /\ HistoryUnchanged
    BY DEF Put, Doing
  <1>2. Fits(Here, tx.todo[1].value)
    BY <1>1, NextStep
  <1>3. IsChange(tx.todo[1])
    BY <1>1 DEF IsChange
  <1>4. QED
    BY <1>1, <1>2, <1>3, ChangePreserves

-----------------------------------------------------------------------------
(* Failing, cleaning up and committing *)

LEMMA Faulted ==
  ASSUME PackageConstants, AppInv, faults' = faults \/ Fault
  PROVE  faults' \in 0..MaxFaults
  BY DEF PackageConstants, PackageAssumption, AppInv, ApplicationTypeOK, Fault

LEMMA StillOperating ==
  ASSUME PackageConstants, AppInv, tx # Absent, tx' \in Operation,
         Operating(tx', disk', damaged, unsettled), disk' \in [Paths -> Contents],
         \A x \in Paths : Fits(x, disk'[x]), faults' = faults \/ Fault,
         HistoryUnchanged
  PROVE  AppInv'
  <1>1. /\ operations' = operations /\ unsettled' = unsettled
        /\ damaged' = damaged /\ halted' = halted
    BY DEF HistoryUnchanged
  <1>2. tx' # Absent
    BY DEF PackageConstants, AbsentAssumption
  <1>3. Counted'
    BY <1>1, CountedHolds, Faulted DEF AppInv, Counted
  <1>4. ApplicationTypeOK'
    BY <1>3, TypesHold
  <1>5. QED
    BY <1>1, <1>2, <1>4 DEF AppInv

\* No plan is needed any more.
LEMMA LeavesForward ==
  ASSUME NEW op, NEW new, NEW d, NEW e, NEW lost, NEW open,
         Operating(op, d, lost, open), new \in Operation, new.before = op.before,
         new.phase \notin Forward, Copied(new), Changed(new, e), Repairs(new, e)
  PROVE  Operating(new, e, lost, open)
  BY DEF Operating

LEMMA FailingPreserves ==
  ASSUME PackageConstants, AppInv, tx # Absent, tx.phase \in {"acting", "committing"},
         tx' = Failing, Fault, disk' = disk, HistoryUnchanged
  PROVE  AppInv'
  <1>1. Operating(tx, disk, damaged, unsettled)
    BY DEF AppInv
  <1>2. /\ tx \in Operation /\ Copied(tx) /\ Changed(tx, disk) /\ Repairs(tx, disk)
    BY <1>1 DEF Operating
  <1>3. /\ tx' \in Operation /\ tx'.phase = "failing" /\ tx'.before = tx.before
        /\ tx'.touched = tx.touched /\ tx'.noted = tx.noted
        /\ tx'.errors = tx.errors /\ tx'.applied = tx.applied
    <2>1. <<>> \in Seq([do : {"save", "note", "clear", "put"}, path : Paths,
                        value : Contents])
      BY EmptySeq
    <2>2. "failing" \in Phases
      BY DEF Phases
    <2>3. QED
      BY <1>2, <2>1, <2>2 DEF Failing, Operation
  <1>4. Copied(tx') /\ Changed(tx', disk)
    BY <1>2, <1>3 DEF Copied, Changed, Touched
  <1>5. Noted(tx') = Noted(tx)
    BY <1>3 DEF Noted
  <1>6. Repairs(tx', disk)
    BY <1>2, <1>3, <1>5 DEF Repairs
  <1>7. Operating(tx', disk', damaged, unsettled)
    BY <1>1, <1>3, <1>4, <1>6, LeavesForward DEF Forward
  <1>8. QED
    BY <1>3, <1>7, DiskFits, StillOperating DEF AppInv

LEMMA FailsPreserves == ASSUME PackageConstants, AppInv, Fails PROVE AppInv'
  BY FailingPreserves DEF Fails

LEMMA CleanUpPreserves == ASSUME PackageConstants, AppInv, CleanUp PROVE AppInv'
  <1> DEFINE l == Len(tx.touched)
             Copies == [path : Paths, existed : BOOLEAN, copy : Contents]
             Cleaned(n) == [i \in DOMAIN tx.touched |->
                             IF i =< n /\ tx.touched[i].existed
                             THEN [tx.touched[i] EXCEPT !.copy = Absent] ELSE tx.touched[i]]
  <1>1. /\ tx # Absent /\ tx.phase = "cleaning" /\ disk' = disk /\ HistoryUnchanged
    BY DEF CleanUp
  <1>2. Operating(tx, disk, damaged, unsettled)
    BY <1>1 DEF AppInv
  <1>3. /\ tx \in Operation /\ Copied(tx) /\ Changed(tx, disk) /\ Repairs(tx, disk)
    BY <1>2 DEF Operating
  <1>4. PICK n \in 0..l, phase \in {"committing", "failing"} :
          /\ tx' = [tx EXCEPT !.touched = Cleaned(n), !.phase = phase]
          /\ faults' = faults \/ Fault
    <2>1. PICK n \in 0..l :
            LET cleaned == [tx EXCEPT !.touched = Cleaned(n)]
            IN  \/ /\ n = l /\ faults' = faults
                   /\ tx' = [cleaned EXCEPT !.phase = "committing"]
                \/ /\ n < l /\ Fault
                   /\ tx' = [cleaned EXCEPT !.phase = "failing"]
      BY <1>3 DEF CleanUp, Operation
    <2> HIDE DEF Cleaned
    <2>2. \A phase : [[tx EXCEPT !.touched = Cleaned(n)] EXCEPT !.phase = phase]
                       = [tx EXCEPT !.touched = Cleaned(n), !.phase = phase]
      BY <1>3 DEF Operation
    <2>3. QED
      BY <2>1, <2>2
  <1> DEFINE touched == Cleaned(n)
  <1>5. tx.touched \in Seq(Copies) /\ l \in Nat /\ DOMAIN tx.touched = 1..l
    BY <1>3 DEF Operation
  <1>6. \A i \in 1..l : tx.touched[i] \in Copies
    <2> HIDE DEF Copies
    <2>1. QED
      BY <1>5, ElementOfSeq
  <1>7. \A i \in 1..l :
          /\ touched[i] \in Copies /\ touched[i].path = tx.touched[i].path
          /\ \/ touched[i].existed /\ touched[i].copy = Absent
             \/ touched[i] = tx.touched[i]
    <2>1. Absent \in Contents
      BY DEF Contents
    <2>2. QED
      BY <1>5, <1>6, <2>1
  <1>8. touched \in Seq(Copies) /\ Len(touched) = l
    <2>1. touched = [i \in 1..l |-> touched[i]]
      BY <1>5
    <2>2. \A i \in 1..l : touched[i] \in Copies
      BY <1>7
    <2> HIDE DEF touched, Copies, l
    <2>3. touched \in [1..l -> Copies]
      BY <2>1, <2>2
    <2>4. touched \in Seq(Copies)
      BY <1>5, <2>3, SeqDef
    <2>5. Len(touched) = l
      BY <1>5, <2>3, <2>4, LenProperties
    <2>6. QED
      BY <2>4, <2>5
  <1>9. phase \in Phases
    BY DEF Phases
  <1> HIDE DEF touched, Cleaned, Copies
  <1>10. /\ tx' \in Operation /\ tx'.phase = phase /\ tx'.before = tx.before
         /\ tx'.touched = touched /\ tx'.noted = tx.noted /\ tx'.target = tx.target
         /\ tx'.errors = tx.errors /\ tx'.applied = tx.applied /\ tx'.todo = tx.todo
         /\ tx'.settles = tx.settles
    BY <1>3, <1>4, <1>8, <1>9 DEF Operation, Copies, touched
  <1>11. Touched(tx') = Touched(tx)
    BY <1>7, <1>8, <1>10 DEF Touched
  <1>12. Copied(tx')
    BY <1>3, <1>7, <1>8, <1>10 DEF Copied
  <1>13. Changed(tx', disk)
    BY <1>3, <1>10, <1>11 DEF Changed
  <1>14. Repairs(tx', disk)
    BY <1>1, <1>3, <1>10 DEF Repairs
  <1>15. \A goal : Underway(tx, disk, goal) => Underway(tx', disk, goal)
    <2> TAKE goal
    <2> HAVE Underway(tx, disk, goal)
    <2>1. tx.todo = <<>>
      BY <1>1 DEF Underway
    <2>2. Orderly(<<>>, Noted(tx'), Touched(tx'), Mine(tx.target), goal)
      BY EmptySeq DEF Orderly
    <2>3. QED
      BY <1>10, <2>1, <2>2 DEF Underway
  <1>16. \A goal : Intended(tx, damaged, unsettled, goal) => Intended(tx', damaged, unsettled, goal)
    BY <1>10 DEF Intended
  <1>17. Operating(tx', disk', damaged, unsettled)
    BY <1>1, <1>2, <1>10, <1>12, <1>13, <1>14, <1>15, <1>16 DEF Operating, Forward
  <1>18. QED
    BY <1>1, <1>4, <1>10, <1>17, DiskFits, StillOperating DEF AppInv

\* Whatever has been agreed of some contents is agreed of the disk, if it has them.
LEMMA OverSettles ==
  ASSUME PackageConstants, AppInv, tx # Absent, NEW settled, Over(settled), faults' = faults,
         NEW d, Typed(d), Firm(d), \A x \in Paths : disk[x] = d[x],
         \A u \in Targets \ (unsettled \ settled) : Agrees(d, damaged, u)
  PROVE  AppInv'
  <1>1. /\ tx' = Absent /\ unsettled' = unsettled \ settled
        /\ damaged' = {p \in damaged : ~Whole(p)}
        /\ disk' = disk /\ operations' = operations /\ halted' = halted /\ halted = FALSE
    BY DEF Over, AppInv, ApplicationTypeOK
  <1>2. /\ \A p \in Packages : disk[Package(p)] = d[Package(p)]
        /\ \A u \in Targets : /\ disk[Adapter(u)] = d[Adapter(u)]
                              /\ disk[Lockfile(u)] = d[Lockfile(u)]
        /\ disk[Registry] = d[Registry]
    BY PackagePaths
  <1>3. Typed(disk) /\ Firm(disk)
    BY <1>2 DEF Typed, Firm
  <1>4. ASSUME NEW u \in Targets \ unsettled' PROVE Agrees(disk, damaged', u)
    <2>1. Agrees(d, damaged, u) /\ SameReceipts(d, disk, u)
      BY <1>1, <1>2 DEF SameReceipts
    <2>2. ASSUME AttachedIn(d, u), NEW p \in d[Lockfile(u)].packages
          PROVE  disk[Package(p)] \in Versions \/ p \in damaged'
      <3>1. d[Lockfile(u)] \in Receipts
        BY <2>2 DEF Firm, AttachedIn
      <3>2. p \in Packages
        BY <2>2, <3>1 DEF Receipts
      <3>3. d[Package(p)] \in Versions \/ p \in damaged
        BY <2>1, <2>2 DEF Agrees
      <3>4. QED
        BY <1>1, <1>2, <3>2, <3>3 DEF Whole
    <2>3. QED
      BY <2>1, <2>2, AgreesAlike
  <1>5. Counted'
    BY <1>1, CountedHolds DEF AppInv, Counted
  <1>6. ApplicationTypeOK'
    <2>1. DOMAIN disk' = Paths /\ \A x \in Paths : Fits(x, disk'[x])
      BY <1>1, DiskFits DEF AppInv
    <2>2. QED
      BY <1>1, <1>5, <2>1, TypesHold
  <1>7. Settled'
    BY <1>1, <1>3, <1>4 DEF Settled
  <1>8. QED
    BY <1>1, <1>6, <1>7 DEF AppInv

LEMMA CommitPreserves == ASSUME PackageConstants, AppInv, Commit PROVE AppInv'
  <1> DEFINE settled == IF tx.settles THEN {tx.target} ELSE {}
  <1>1. tx # Absent /\ tx.phase = "committing"
    BY DEF Commit
  <1>2. CASE Over(settled) /\ faults' = faults
    <2>1. Operating(tx, disk, damaged, unsettled)
      BY <1>1 DEF AppInv
    <2>2. PICK goal : Underway(tx, disk, goal) /\ Intended(tx, damaged, unsettled, goal)
      BY <1>1, <2>1 DEF Operating, Forward
    <2>3. \A x \in Paths : disk[x] = goal[x]
      <3>1. tx.todo = <<>>
        BY <1>1, <2>2 DEF Underway
      <3>2. \A x : ~Puts(<<>>, x)
        BY DEF Puts
      <3>3. QED
        BY <2>2, <3>1, <3>2 DEF Underway
    <2>4. LeftOpen(unsettled, tx.target, tx.settles) = unsettled \ settled
      BY DEF LeftOpen
    <2>5. /\ Typed(goal) /\ Firm(goal)
          /\ \A u \in Targets \ (unsettled \ settled) : Agrees(goal, damaged, u)
      BY <2>2, <2>4 DEF Intended
    <2> HIDE DEF settled
    <2>6. QED
      BY <1>1, <1>2, <2>3, <2>5, OverSettles
  <1>3. CASE tx' = Failing /\ Fault /\ disk' = disk /\ HistoryUnchanged
    BY <1>1, <1>3, FailingPreserves
  <1>4. QED
    BY <1>2, <1>3 DEF Commit

-----------------------------------------------------------------------------
(* Restoring *)

\* When the operator must act, only the types are left to be kept.
LEMMA HaltPreserves ==
  ASSUME PackageConstants, AppInv, tx # Absent, Halt, faults' = faults \/ Fault
  PROVE  AppInv'
  <1>1. /\ tx' = Absent /\ halted' = TRUE /\ disk' = disk /\ operations' = operations
        /\ unsettled' = unsettled /\ damaged' = damaged
    BY DEF Halt
  <1>2. Counted'
    BY <1>1, CountedHolds, Faulted DEF AppInv, Counted
  <1>3. DOMAIN disk' = Paths /\ \A x \in Paths : Fits(x, disk'[x])
    BY <1>1, DiskFits DEF AppInv
  <1>4. ApplicationTypeOK'
    BY <1>1, <1>2, <1>3, TypesHold
  <1>5. QED
    BY <1>1, <1>4 DEF AppInv

LEMMA HandlePreserves == ASSUME PackageConstants, AppInv, Handle PROVE AppInv'
  <1>1. tx # Absent /\ tx.phase = "failing"
    BY DEF Handle
  <1>2. CASE /\ tx' = [tx EXCEPT !.phase = "restoring"]
             /\ disk' = disk /\ faults' = faults /\ HistoryUnchanged
    <2>1. Operating(tx, disk, damaged, unsettled)
      BY <1>1 DEF AppInv
    <2>2. tx \in Operation /\ Copied(tx) /\ Changed(tx, disk)
      BY <2>1 DEF Operating
    <2>3. /\ tx' \in Operation /\ tx'.phase = "restoring" /\ tx'.before = tx.before
          /\ tx'.touched = tx.touched /\ tx'.errors = tx.errors
      BY <1>2, <2>2 DEF Operation, Phases
    <2>4. Copied(tx') /\ Changed(tx', disk) /\ Repairs(tx', disk)
      BY <2>2, <2>3 DEF Copied, Changed, Touched, Repairs
    <2>5. Operating(tx', disk', damaged, unsettled)
      BY <1>2, <2>1, <2>3, <2>4, LeavesForward DEF Forward
    <2>6. QED
      BY <1>1, <1>2, <2>3, <2>5, DiskFits, StillOperating DEF AppInv
  <1>3. CASE Fault /\ Halt
    BY <1>1, <1>3, HaltPreserves
  <1>4. QED
    BY <1>2, <1>3 DEF Handle

LEMMA FrontFacts ==
  ASSUME NEW S, NEW s \in Seq(S), s # <<>>
  PROVE  /\ Last(s) \in S /\ Last(s) = s[Len(s)] /\ Len(s) \in 1..Len(s)
         /\ Front(s) \in Seq(S) /\ Len(Front(s)) = Len(s) - 1
         /\ \A i \in 1..(Len(s) - 1) : Front(s)[i] = s[i]
         /\ \A i \in 1..Len(s) : i \in 1..(Len(s) - 1) \/ i = Len(s)
         /\ \A i \in 1..(Len(s) - 1) : i \in 1..Len(s)
  <1>1. Len(s) \in Nat /\ Len(s) # 0
    BY EmptySeq
  <1>2. Len(s) \in 1..Len(s) /\ Len(s) - 1 \in Nat /\ Len(s) - 1 =< Len(s)
        /\ Len(s) - 1 + 1 = Len(s) /\ Len(s) - 1 \in 0..Len(s)
    BY <1>1
  <1>3. s[Len(s)] \in S
    BY <1>2, ElementOfSeq
  <1>4. /\ SubSeq(s, 1, Len(s) - 1) \in Seq(S) /\ Len(SubSeq(s, 1, Len(s) - 1)) = Len(s) - 1
        /\ \A i \in 1..(Len(s) - 1) : SubSeq(s, 1, Len(s) - 1)[i] = s[i]
    BY <1>1, <1>2, SubSeqProperties
  <1>5. /\ \A i \in 1..Len(s) : i \in 1..(Len(s) - 1) \/ i = Len(s)
        /\ \A i \in 1..(Len(s) - 1) : i \in 1..Len(s)
    BY <1>1
  <1>6. QED
    BY <1>2, <1>3, <1>4, <1>5 DEF Last, Front

\* What Restore has to do with, and what it leaves of it.
Restores(op, new, errors) ==
  /\ new \in Operation /\ new.phase = "restoring" /\ new.before = op.before
  /\ new.touched = Front(op.touched) /\ new.errors = errors

LEMMA RestoreContinues ==
  ASSUME NEW op \in Operation, NEW new, NEW d, NEW e, NEW lost, NEW open,
         Operating(op, d, lost, open), op.phase = "restoring", op.touched # <<>>,
         NEW errors, op.errors \subseteq errors, Restores(op, new, errors),
         NEW last, last = Last(op.touched).path,
         \A x \in Paths \ {last} : e[x] = d[x],
         e[last] = op.before[last] \/ last \in errors
  PROVE  Operating(new, e, lost, open)
  <1> DEFINE touched == op.touched
             rest == Front(touched)
             l == Len(touched)
             Copies == [path : Paths, existed : BOOLEAN, copy : Contents]
  <1>1. touched \in Seq(Copies)
    BY DEF Operation
  <1> HIDE DEF Copies
  <1>2. /\ Last(touched) = touched[l] /\ Len(rest) = l - 1
        /\ \A i \in 1..(l - 1) : rest[i] = touched[i]
        /\ \A i \in 1..l : i \in 1..(l - 1) \/ i = l
        /\ \A i \in 1..(l - 1) : i \in 1..l
    BY <1>1, FrontFacts
  <1>3. Copied(op) /\ Changed(op, d)
    BY DEF Operating
  <1>4. /\ new \in Operation /\ new.phase = "restoring" /\ new.before = op.before
        /\ new.touched = rest /\ new.errors = errors
    BY DEF Restores
  <1> HIDE DEF touched, rest, l
  <1>5. Copied(new)
    <2>1. \A i \in 1..l : \/ touched[i].existed /\ touched[i].copy = Absent
                          \/ touched[i].copy = op.before[touched[i].path]
      BY <1>3 DEF Copied, touched, l
    <2>2. QED
      BY <1>2, <1>4, <2>1 DEF Copied
  <1>6. \A x \in Touched(op) : x \in Touched(new) \/ x = last
    <2>1. \A i \in 1..l : i \in 1..Len(rest) \/ i = l
      BY <1>2
    <2>2. last = touched[l].path
      BY <1>2 DEF touched
    <2>3. \A i \in 1..Len(rest) : rest[i] = touched[i]
      BY <1>2
    <2>4. Touched(op) = {touched[i].path : i \in 1..l}
      BY DEF Touched, touched, l
    <2>5. Touched(new) = {rest[i].path : i \in 1..Len(rest)}
      BY <1>4 DEF Touched
    <2>6. QED
      BY <2>1, <2>2, <2>3, <2>4, <2>5
  <1>7. Changed(new, e)
    <2>1. \A x \in Paths : d[x] = op.before[x] \/ x \in op.errors \/ x \in Touched(op)
      BY <1>3 DEF Changed
    <2>2. QED
      BY <1>4, <1>6, <2>1 DEF Changed
  <1>8. Repairs(new, e)
    BY <1>4 DEF Repairs
  <1>9. QED
    BY <1>4, <1>5, <1>7, <1>8, LeavesForward DEF Forward

LEMMA RestorePreserves == ASSUME PackageConstants, AppInv, Restore PROVE AppInv'
  <1> DEFINE last == Entry.path
             rest == Front(tx.touched)
             Copies == [path : Paths, existed : BOOLEAN, copy : Contents]
             errors == tx.errors \cup {last}
  <1>1. tx # Absent /\ tx.phase = "restoring" /\ tx.touched # <<>>
    BY DEF Restore, Restoring
  <1>2. Operating(tx, disk, damaged, unsettled)
    BY <1>1 DEF AppInv
  <1>3. /\ tx \in Operation /\ Copied(tx)
        /\ Typed(tx.before) /\ Firm(tx.before)
    BY <1>2 DEF Operating
  <1>4. tx.touched \in Seq(Copies) /\ tx.errors \in SUBSET Paths
    BY <1>3 DEF Operation
  <1>5. Entry \in Copies /\ rest \in Seq(Copies)
    <2> HIDE DEF Copies
    <2>1. QED
      BY <1>1, <1>4, FrontFacts DEF Entry
  <1>6. last \in Paths /\ errors \in SUBSET Paths
    BY <1>4, <1>5
  <1>7. ~CopyIsMissing => Entry.copy = tx.before[last]
    <2> DEFINE l == Len(tx.touched)
    <2>1. Entry = tx.touched[l] /\ l \in 1..l
      <3> HIDE DEF Copies
      <3>1. QED
        BY <1>1, <1>4, FrontFacts DEF Entry
    <2> HIDE DEF l
    <2>2. \/ tx.touched[l].existed /\ tx.touched[l].copy = Absent
          \/ tx.touched[l].copy = tx.before[tx.touched[l].path]
      BY <1>3, <2>1 DEF Copied, l
    <2>3. QED
      BY <2>1, <2>2 DEF CopyIsMissing
  <1>8. Fits(last, tx.before[last])
    BY <1>3, <1>6, TypedFits
  <1>9. \A x \in Paths : Fits(x, disk[x])
    BY DiskFits DEF AppInv
  <1>10. last = Last(tx.touched).path
    BY DEF Entry
  <1> HIDE DEF last, rest, errors
  <1>11. ASSUME tx' = [tx EXCEPT !.touched = rest, !.errors = @ \cup {last}]
         PROVE  tx' \in Operation /\ Restores(tx, tx', errors)
    BY <1>1, <1>3, <1>5, <1>6, <1>11 DEF Operation, Restores, rest, errors
  <1>12. ASSUME tx' = [tx EXCEPT !.touched = rest]
         PROVE  tx' \in Operation /\ Restores(tx, tx', tx.errors)
    BY <1>1, <1>3, <1>5, <1>6, <1>12 DEF Operation, Restores, rest
  <1>13. ASSUME NEW value, Fits(last, value), disk' = [disk EXCEPT ![last] = value]
         PROVE  /\ disk' \in [Paths -> Contents] /\ disk'[last] = value
                /\ \A x \in Paths \ {last} : disk'[x] = disk[x]
                /\ \A x \in Paths : Fits(x, disk'[x])
    <2>1. value \in Contents
      BY <1>13, FitsContents
    <2>2. /\ disk' \in [Paths -> Contents] /\ disk'[last] = value
          /\ \A x \in Paths \ {last} : disk'[x] = disk[x]
      BY <1>6, <1>13, <2>1 DEF AppInv
    <2>3. QED
      BY <1>9, <1>13, <2>2
  <1>14. HistoryUnchanged
    BY DEF Restore
  <1>15. tx.errors \subseteq errors /\ last \in errors
    BY DEF errors
  <1>16. CASE /\ CopyIsMissing /\ tx' = WithError(Entry.path)
              /\ disk' = disk /\ faults' = faults
    <2>1. tx' \in Operation /\ Restores(tx, tx', errors)
      BY <1>11, <1>16 DEF WithError, last, rest
    <2>2. Operating(tx', disk', damaged, unsettled)
      BY <1>1, <1>2, <1>3, <1>10, <1>15, <1>16, <2>1, RestoreContinues
    <2>3. QED
      BY <1>1, <1>9, <1>14, <1>16, <2>1, <2>2, StillOperating DEF AppInv
  <1>17. CASE /\ ~CopyIsMissing /\ tx' = [tx EXCEPT !.touched = Front(@)]
              /\ disk' = [disk EXCEPT ![Entry.path] = Entry.copy] /\ faults' = faults
    <2>1. tx' \in Operation /\ Restores(tx, tx', tx.errors)
      BY <1>3, <1>12, <1>17 DEF rest
    <2>2. disk' = [disk EXCEPT ![last] = tx.before[last]]
      BY <1>7, <1>17 DEF last
    <2>3. /\ disk' \in [Paths -> Contents] /\ disk'[last] = tx.before[last]
          /\ \A x \in Paths \ {last} : disk'[x] = disk[x]
          /\ \A x \in Paths : Fits(x, disk'[x])
      BY <1>8, <1>13, <2>2
    <2>4. Operating(tx', disk', damaged, unsettled)
      BY <1>1, <1>2, <1>3, <1>10, <2>1, <2>3, RestoreContinues
    <2>5. QED
      BY <1>1, <1>14, <1>17, <2>1, <2>3, <2>4, StillOperating
  <1>18. CASE /\ ~CopyIsMissing /\ Fault /\ tx' = WithError(Entry.path)
              /\ \E left \in {disk[Entry.path], Torn} :
                   disk' = [disk EXCEPT ![Entry.path] = left]
    <2>1. tx' \in Operation /\ Restores(tx, tx', errors)
      BY <1>11, <1>18 DEF WithError, last, rest
    <2>2. PICK left \in {disk[last], Torn} : disk' = [disk EXCEPT ![last] = left]
      BY <1>18 DEF last
    <2>3. Fits(last, left)
      BY <1>6, <1>9 DEF Fits
    <2>4. /\ disk' \in [Paths -> Contents]
          /\ \A x \in Paths \ {last} : disk'[x] = disk[x]
          /\ \A x \in Paths : Fits(x, disk'[x])
      BY <1>13, <2>2, <2>3
    <2>5. Operating(tx', disk', damaged, unsettled)
      BY <1>1, <1>2, <1>3, <1>10, <1>15, <2>1, <2>4, RestoreContinues
    <2>6. QED
      BY <1>1, <1>14, <1>18, <2>1, <2>4, <2>5, StillOperating
  <1>19. QED
    BY <1>16, <1>17, <1>18 DEF Restore

\* Everything is as before but for what the report names.
LEMMA PutBack ==
  ASSUME AppInv, tx # Absent, tx.phase \in {"restoring", "reporting"},
         tx.phase = "restoring" => tx.touched = <<>>
  PROVE  \A x \in Paths : disk[x] = tx.before[x] \/ x \in tx.errors
  <1>1. Changed(tx, disk)
    BY DEF AppInv, Operating
  <1>2. tx.touched = <<>>
    BY <1>1 DEF Changed
  <1>3. Touched(tx) = {}
    BY <1>2 DEF Touched
  <1>4. QED
    BY <1>1, <1>3 DEF Changed

LEMMA RestoreReceiptsPreserves ==
  ASSUME PackageConstants, AppInv, RestoreReceipts PROVE AppInv'
  <1>1. tx # Absent /\ tx.phase = "restoring" /\ tx.touched = <<>> /\ HistoryUnchanged
    BY DEF RestoreReceipts, AllPutBack
  <1>2. PICK failed \in SUBSET {Registry, Lockfile(tx.target)} :
          /\ IF failed = {} THEN faults' = faults ELSE Fault
          /\ disk' = [path \in Paths |->
                       IF path \in {Registry, Lockfile(tx.target)} \ failed
                       THEN tx.before[path] ELSE disk[path]]
          /\ tx' = [tx EXCEPT !.phase = "reporting", !.errors = @ \cup failed]
    BY DEF RestoreReceipts
  <1>3. Operating(tx, disk, damaged, unsettled)
    BY <1>1 DEF AppInv
  <1>4. tx \in Operation /\ Copied(tx) /\ Typed(tx.before) /\ Firm(tx.before)
    BY <1>3 DEF Operating
  <1>5. failed \subseteq Paths
    <2>1. tx.target \in Targets
      BY <1>4 DEF Operation
    <2>2. QED
      BY <2>1, PackagePaths
  <1>6. /\ tx' \in Operation /\ tx'.phase = "reporting" /\ tx'.before = tx.before
        /\ tx'.touched = <<>> /\ tx'.errors = tx.errors \cup failed
    BY <1>1, <1>2, <1>4, <1>5 DEF Operation, Phases
  <1>7. \A x \in Paths : disk'[x] \in {tx.before[x], disk[x]}
    BY <1>2
  <1>8. \A x \in Paths : Fits(x, disk'[x])
    <2>1. \A x \in Paths : Fits(x, disk[x]) /\ Fits(x, tx.before[x])
      BY <1>4, DiskFits, TypedFits DEF AppInv
    <2>2. QED
      BY <1>7, <2>1
  <1>9. disk' \in [Paths -> Contents]
    <2>1. \A x \in Paths : disk'[x] \in Contents
      BY <1>8, FitsContents
    <2>2. QED
      BY <1>2, <2>1
  <1>10. \A x \in Paths : disk'[x] = tx.before[x] \/ x \in tx.errors \cup failed
    BY <1>1, <1>7, PutBack
  <1>11. Copied(tx')
    <2>1. 1..Len(<<>>) = {}
      OBVIOUS
    <2>2. QED
      BY <1>6, <2>1 DEF Copied
  <1>12. Changed(tx', disk') /\ Repairs(tx', disk')
    BY <1>6, <1>10 DEF Changed, Repairs
  <1>13. Operating(tx', disk', damaged, unsettled)
    BY <1>3, <1>6, <1>11, <1>12, LeavesForward DEF Forward
  <1>14. QED
    BY <1>1, <1>2, <1>6, <1>8, <1>9, <1>13, StillOperating

LEMMA RaisePreserves == ASSUME PackageConstants, AppInv, Raise PROVE AppInv'
  <1>1. /\ tx # Absent /\ tx.phase \in {"restoring", "reporting"} /\ faults' = faults
        /\ tx.phase = "restoring" => tx.touched = <<>>
    BY DEF Raise, Restored, AllPutBack
  <1>2. CASE tx.errors = {} /\ Over({})
    <2>1. \A x \in Paths : disk[x] = tx.before[x]
      BY <1>1, <1>2, PutBack
    <2>2. /\ Typed(tx.before) /\ Firm(tx.before)
          /\ \A u \in Targets \ (unsettled \ {}) : Agrees(tx.before, damaged, u)
      BY <1>1 DEF AppInv, Operating
    <2>3. QED
      BY <1>1, <1>2, <2>1, <2>2, OverSettles
  <1>3. CASE Halt
    BY <1>1, <1>3, HaltPreserves
  <1>4. QED
    BY <1>2, <1>3 DEF Raise

-----------------------------------------------------------------------------
(* Dying *)

\* Which paths have been changed, and what of them is firm, is known until a
\* restoration begins.
LEMMA DiePreserves == ASSUME PackageConstants, AppInv, Die PROVE AppInv'
  <1> DEFINE before == tx.before
             t == tx.target
             entry == Entry.path
  <1>1. /\ tx # Absent /\ Fault /\ tx' = Absent /\ unsettled' = unsettled \cup {t}
        /\ damaged' = damaged \cup
             {p \in Packages : before[Package(p)] \in Versions /\
                               disk'[Package(p)] \notin Versions}
        /\ halted' = (tx.phase \in {"failing", "restoring", "reporting"})
        /\ operations' = operations
    BY DEF Die, Abandoned
  <1>2. \/ disk' = disk
        \/ tx.phase = "restoring" /\ tx.touched # <<>> /\ disk' = [disk EXCEPT ![entry] = Torn]
    BY DEF Die, Restoring
  <1>3. Operating(tx, disk, damaged, unsettled)
    BY <1>1 DEF AppInv
  <1>4. /\ tx \in Operation /\ Typed(before) /\ Firm(before)
        /\ \A u \in Targets \ unsettled : Agrees(before, damaged, u)
    BY <1>3 DEF Operating
  <1>5. t \in Targets /\ tx.phase \in Phases
    BY <1>4 DEF Operation
  <1> HIDE DEF t, before, entry
  <1>6. Counted'
    <2>1. faults' \in 0..MaxFaults
      BY <1>1, Faulted
    <2>2. QED
      BY <1>1, <1>5, <2>1, CountedHolds DEF AppInv, Counted
  <1>7. disk' \in [Paths -> Contents] /\ \A x \in Paths : Fits(x, disk'[x])
    <2>1. \A x \in Paths : Fits(x, disk[x])
      BY DiskFits DEF AppInv
    <2>2. CASE disk' = disk
      BY <2>1, <2>2 DEF AppInv
    <2>3. CASE disk' = [disk EXCEPT ![entry] = Torn]
      <3>1. Torn \in Contents /\ \A x : Fits(x, Torn)
        BY DEF Contents, Fits
      <3>2. disk' \in [Paths -> Contents]
        BY <2>3, <3>1 DEF AppInv
      <3>3. \A x \in Paths : disk'[x] = disk[x] \/ disk'[x] = Torn
        BY <2>3 DEF AppInv
      <3>4. QED
        BY <2>1, <3>1, <3>2, <3>3
    <2>4. QED
      BY <1>2, <2>2, <2>3
  <1>8. ApplicationTypeOK'
    BY <1>1, <1>6, <1>7, TypesHold
  <1>9. ASSUME ~halted' PROVE Settled'
    <2>1. tx.phase \in Forward
      BY <1>1, <1>5, <1>9 DEF Phases, Forward
    <2>2. disk' = disk
      BY <1>2, <2>1 DEF Forward
    <2>3. PICK goal : Underway(tx, disk, goal) /\ Intended(tx, damaged, unsettled, goal)
      BY <1>3, <2>1 DEF Operating
    <2>4. Typed(disk)
      BY DiskFits, FitsTyped DEF AppInv
    <2>5. Firm(disk)
      <3>1. \A x \in Paths \ Clearable : disk[x] \in {before[x], goal[x]}
        BY <2>3 DEF Underway, before
      <3>2. Firm(goal)
        BY <2>3 DEF Intended
      <3>3. /\ disk[Registry] \in {before[Registry], goal[Registry]}
            /\ \A u \in Targets :
                 disk[Lockfile(u)] \in {before[Lockfile(u)], goal[Lockfile(u)]}
        BY <3>1, PackagePaths
      <3>4. QED
        BY <1>4, <3>2, <3>3 DEF Firm
    <2>6. ASSUME NEW u \in Targets \ unsettled' PROVE Agrees(disk, damaged', u)
      <3>1. u \in Targets \ unsettled /\ u \in Targets \ {t}
        BY <1>1
      <3>2. Agrees(before, damaged, u)
        BY <1>4, <3>1
      <3>3. SameReceipts(before, disk, u)
        BY <2>3, <3>1 DEF Underway, t, before
      <3>4. ASSUME AttachedIn(before, u), NEW p \in before[Lockfile(u)].packages
            PROVE  disk[Package(p)] \in Versions \/ p \in damaged'
        <4>1. before[Lockfile(u)] \in Receipts
          BY <1>4, <3>4 DEF Firm, AttachedIn
        <4>2. p \in Packages
          BY <3>4, <4>1 DEF Receipts
        <4>3. before[Package(p)] \in Versions \/ p \in damaged
          BY <3>2, <3>4 DEF Agrees
        <4>4. QED
          BY <1>1, <2>2, <4>2, <4>3
      <3>5. QED
        BY <3>2, <3>3, <3>4, AgreesAlike
    <2>7. QED
      BY <2>2, <2>4, <2>5, <2>6 DEF Settled
  <1>10. QED
    BY <1>1, <1>7, <1>8, <1>9 DEF AppInv

\* An apply that is abandoned between its try blocks leaves what a death there
\* would.
LEMMA EscapesPreserves == ASSUME PackageConstants, AppInv, Escapes PROVE AppInv'
  <1>1. tx # Absent /\ tx.phase = "acting" /\ Abandoned /\ Fault
        /\ disk' = disk /\ halted' = halted
    BY DEF Escapes, Doing
  <1>2. halted = FALSE
    BY <1>1 DEF AppInv
  <1>3. halted' = (tx.phase \in {"failing", "restoring", "reporting"})
    <2>1. (tx.phase \in {"failing", "restoring", "reporting"}) = FALSE
      BY <1>1
    <2>2. QED
      BY <1>1, <1>2, <2>1, Zenon
  <1>4. Die
    BY <1>1, <1>3 DEF Die
  <1>5. QED
    BY <1>4, DiePreserves

-----------------------------------------------------------------------------
(* The invariant is inductive *)

LEMMA AppInit == ASSUME PackageConstants, ApplicationInit PROVE AppInv
  <1>1. /\ disk = [path \in Paths |-> Nothing(path)] /\ tx = Absent
        /\ operations = 0 /\ faults = 0 /\ unsettled = {} /\ damaged = {} /\ halted = FALSE
    BY DEF ApplicationInit
  <1>2. /\ disk[Registry] = NoTargets
        /\ \A x \in Paths \ {Registry} : disk[x] = Absent
    BY <1>1, PackagePaths DEF Nothing
  <1>3. NoTargets \in Registries /\ \A t \in Targets : NoTargets[t] = Absent
    BY DEF NoTargets, Registries
  <1>4. \A x \in Paths : Fits(x, disk[x])
    BY <1>2, <1>3 DEF Fits
  <1>5. disk \in [Paths -> Contents]
    <2>1. \A x \in Paths : disk[x] \in Contents
      BY <1>4, FitsContents
    <2>2. QED
      BY <1>1, <2>1
  <1>6. ApplicationTypeOK
    <2>1. operations \in 0..MaxOperations /\ faults \in 0..MaxFaults
      BY <1>1 DEF PackageConstants, PackageAssumption
    <2>2. QED
      BY <1>1, <1>4, <1>5, <2>1 DEF ApplicationTypeOK, Fits, Registries
  <1>7. Settled
    <2>1. /\ \A p \in Packages : disk[Package(p)] = Absent
          /\ \A t \in Targets : disk[Adapter(t)] = Absent /\ disk[Lockfile(t)] = Absent
      BY <1>2, PackagePaths
    <2>2. Typed(disk) /\ Firm(disk)
      BY <1>2, <1>3, <2>1 DEF Typed, Firm
    <2>3. \A t \in Targets : Agrees(disk, damaged, t)
      BY <1>2, <1>3, <2>1 DEF Agrees, AttachedIn
    <2>4. QED
      BY <2>2, <2>3 DEF Settled
  <1>8. QED
    BY <1>1, <1>5, <1>6, <1>7 DEF AppInv

LEMMA BeginPreserves ==
  ASSUME PackageConstants, AppInv, NEW t \in Targets,
         BeginApply(t) \/ BeginDetach(t) \/ BeginRollback(t)
  PROVE  AppInv'
  <1>1. Settled
    BY DEF AppInv, BeginApply, BeginDetach, BeginRollback, Begin, MayBegin
  <1>2. \A leftovers \in SUBSET Leftovers : leftovers \in SUBSET Packages
    BY DEF Leftovers
  <1>3. CASE BeginApply(t)
    <2>1. PICK selected \in (SUBSET Packages) \ {{}}, version \in Versions,
               leftovers \in SUBSET Leftovers :
            Begin(t, "apply", ApplyPlan(t, selected, version, leftovers))
      BY <1>3 DEF BeginApply
    <2> DEFINE todo == ApplyPlan(t, selected, version, leftovers)
    <2>2. PICK goal : Prepared(todo, t, TRUE, goal)
      BY <1>1, <1>2, ApplyPrepared
    <2>3. Prepared(todo, t, "apply" = "apply" \/ Attached(t), goal)
      BY <2>2 DEF Prepared, LeftOpen
    <2> HIDE DEF todo
    <2>4. Begin(t, "apply", todo)
      BY <2>1 DEF todo
    <2>5. QED
      BY <2>3, <2>4, Begins
  <1>4. CASE BeginDetach(t)
    <2> DEFINE todo == DetachPlan(t)
    <2>1. Attached(t) /\ Begin(t, "detach", todo)
      BY <1>4 DEF BeginDetach
    <2>2. PICK goal : Prepared(todo, t, TRUE, goal)
      BY <1>1, <2>1, DetachPrepared
    <2>3. Prepared(todo, t, "detach" = "apply" \/ Attached(t), goal)
      BY <2>1, <2>2 DEF Prepared, LeftOpen
    <2> HIDE DEF todo
    <2>4. QED
      BY <2>1, <2>3, Begins
  <1>5. CASE BeginRollback(t)
    <2>1. PICK leftovers \in SUBSET Leftovers :
            Begin(t, "rollback", RollbackPlan(t, leftovers))
      BY <1>5 DEF BeginRollback
    <2> DEFINE todo == RollbackPlan(t, leftovers)
    <2>2. PICK goal : Prepared(todo, t, Attached(t), goal)
      BY <1>1, <1>2, RollbackPrepared
    <2>3. Prepared(todo, t, "rollback" = "apply" \/ Attached(t), goal)
      BY <2>2 DEF Prepared, LeftOpen
    <2> HIDE DEF todo
    <2>4. Begin(t, "rollback", todo)
      BY <2>1 DEF todo
    <2>5. QED
      BY <2>3, <2>4, Begins
  <1>6. QED
    BY <1>3, <1>4, <1>5

LEMMA AppStep == ASSUME PackageConstants, AppInv, [ApplicationNext]_applicationVars PROVE AppInv'
  <1>1. CASE ApplicationNext
    BY <1>1, BeginPreserves, SavePreserves, NotePreserves, ClearPreserves, PutPreserves,
       FailsPreserves, EscapesPreserves, CleanUpPreserves, CommitPreserves, HandlePreserves,
       RestorePreserves, RestoreReceiptsPreserves, RaisePreserves, DiePreserves
       DEF ApplicationNext
  <1>2. CASE UNCHANGED applicationVars
    <2>1. /\ disk' = disk /\ tx' = tx /\ operations' = operations /\ faults' = faults
          /\ unsettled' = unsettled /\ damaged' = damaged /\ halted' = halted
      BY <1>2 DEF applicationVars
    <2>2. ApplicationTypeOK'
      BY <2>1 DEF AppInv, ApplicationTypeOK
    <2>3. QED
      BY <2>1, <2>2 DEF AppInv, Settled
  <1>3. QED
    BY <1>1, <1>2

LEMMA AppHolds == ApplicationSpec => []AppInv
  <1>1. PackageConstants
    BY PackageAssumption, AbsentAssumption DEF PackageConstants
  <1>2. ApplicationInit => AppInv
    BY <1>1, AppInit
  <1>3. AppInv /\ [ApplicationNext]_applicationVars => AppInv'
    BY <1>1, AppStep
  <1>4. QED
    BY <1>2, <1>3, PTL DEF ApplicationSpec

-----------------------------------------------------------------------------
(* Theorems about applications, for any repositories, packages and versions *)

\* Disk, operation and history are what they are meant to be: a receipt is only
\* ever at the path of a lockfile, a set of packages at that of an adapter,
\* whatever has been cut off, put back or lost (apply_plan, shared_rollback,
\* restore_failed_mutations).
THEOREM PackageTypes == ApplicationSpec => []ApplicationTypeOK
  <1>1. AppInv => ApplicationTypeOK
    BY DEF AppInv
  <1>2. QED
    BY <1>1, AppHolds, PTL

\* Wherever a process dies, or an apply is abandoned between its try blocks,
\* before it has applied all it planned and before it restores, the journal names
\* an unharmed copy of all that it has changed and that was there: every plan saves
\* and notes a path before it changes it, and copies nothing that it has changed
\* (record_file_state, _copy_backup, apply_plan, detach, shared_rollback).
THEOREM RepairableHolds == ApplicationSpec => []Repairable
  <1>1. AppInv => Repairable
    <2> SUFFICES ASSUME AppInv, tx # Absent, ~tx.applied,
                        tx.phase \notin {"restoring", "reporting"},
                        NEW x \in Paths, disk[x] # tx.before[x]
                 PROVE  \E i \in 1..tx.noted :
                          /\ tx.touched[i].path = x
                          /\ tx.touched[i].copy = tx.before[x]
      BY DEF Repairable
    <2>1. Operating(tx, disk, damaged, unsettled)
      BY DEF AppInv
    <2>2. /\ tx.noted =< Len(tx.touched) /\ x \in Noted(tx) /\ tx \in Operation
          /\ \A i \in 1..Len(tx.touched) : tx.touched[i].copy = tx.before[tx.touched[i].path]
      BY <2>1 DEF Operating, Repairs
    <2>3. PICK i \in 1..tx.noted : tx.touched[i].path = x
      BY <2>2 DEF Noted
    <2>4. i \in 1..Len(tx.touched)
      <3>1. tx.noted \in Nat /\ Len(tx.touched) \in Nat
        BY <2>2 DEF Operation
      <3>2. QED
        BY <2>2, <3>1
    <2>5. QED
      BY <2>2, <2>3, <2>4
  <1>2. QED
    BY <1>1, AppHolds, PTL

\* A restoration that is over leaves nothing changed but what its report names,
\* however many paths could not be put back (restore_failed_mutations,
\* _record_rollback_errors); what is raised between the try blocks of an apply
\* is never restored.
THEOREM FailuresAreReported == ApplicationSpec => []FailureIsReported
  <1>1. AppInv => FailureIsReported
    <2> SUFFICES ASSUME AppInv, Restored
                 PROVE  \A x \in Paths : disk[x] = tx.before[x] \/ x \in tx.errors
      BY DEF FailureIsReported
    <2>1. /\ tx # Absent /\ tx.phase \in {"restoring", "reporting"}
          /\ tx.phase = "restoring" => tx.touched = <<>>
      BY DEF Restored, AllPutBack
    <2>2. QED
      BY <2>1, PutBack
  <1>2. QED
    BY <1>1, AppHolds, PTL

\* Adapter, registry and lockfile of a repository whose own last operation was not
\* abandoned, by a death or between the try blocks of an apply, agree whatever
\* became of the operations of others, and the packages that they name are whole
\* or were damaged when another was abandoned: what is pruned or rolled back is
\* referred to by nobody else (_prune_unreferenced_managed_packages, shared_rollback).
THEOREM ReceiptsStayAgreed == ApplicationSpec => []ReceiptsAgree
  <1>1. AppInv => ReceiptsAgree
    <2> SUFFICES ASSUME AppInv, tx = Absent, ~halted, NEW t \in Targets \ unsettled
                 PROVE  LET exposed == IF Attached(t)
                                       THEN disk[Lockfile(t)].packages ELSE Absent
                        IN  /\ disk[Adapter(t)] = exposed
                            /\ disk[Registry][t] = exposed
                            /\ Attached(t) =>
                                 \A p \in exposed : Whole(p) \/ p \in damaged
      BY DEF ReceiptsAgree
    <2>1. Agrees(disk, damaged, t)
      BY DEF AppInv, Settled
    <2>2. Attached(t) <=> AttachedIn(disk, t)
      BY AttachedIs
    <2>3. QED
      BY <2>1, <2>2 DEF Agrees, Whole
  <1>2. QED
    BY <1>1, AppHolds, PTL
=============================================================================
