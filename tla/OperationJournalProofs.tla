----------------------- MODULE OperationJournalProofs -----------------------
(***************************************************************************)
(* Theorems about OperationJournal for every number of processes and       *)
(* operations and every capacity.  Whatever a step does, it does one of    *)
(* three things to the history: nothing, append an admitted record, or     *)
(* cut it back to a prefix that keeps what was flushed.  The invariants    *)
(* about histories are proved for those three, once.                       *)
(***************************************************************************)
EXTENDS OperationJournal, OperationLogProofs, FiniteSetTheorems, TLAPS

-----------------------------------------------------------------------------
(* What a history occupies *)

\* A set of natural numbers has a smallest: intervals are ordered by inclusion.
LEMMA Smallest ==
  ASSUME NEW S \in SUBSET Nat, S # {}
  PROVE  \E m \in S : \A n \in S : m =< n
  <1> DEFINE T == {0..n : n \in S}
  <1>1. T \subseteq FiniteSubsetsOf(Nat)
    <2>1. \A n \in S : IsFiniteSet(0..n) /\ 0..n \subseteq Nat
      BY FS_Interval
    <2>2. QED
      BY <2>1 DEF FiniteSubsetsOf
  <1>2. PICK x \in T : \A y \in T : ~(<<y, x>> \in StrictSubsetOrdering(Nat))
    <2>1. T # {}
      OBVIOUS
    <2>2. IsWellFoundedOn(StrictSubsetOrdering(Nat), FiniteSubsetsOf(Nat))
      BY FS_StrictSubsetOrderingWellFounded
    <2> HIDE DEF T
    <2>3. QED
      BY <1>1, <2>1, <2>2, WFMin
  <1>3. PICK m \in S : x = 0..m
    OBVIOUS
  <1>4. ASSUME NEW n \in S, n < m
        PROVE  FALSE
    <2>1. 0..n \subseteq 0..m /\ 0..n # 0..m
      BY <1>4
    <2>2. <<0..n, 0..m>> \in StrictSubsetOrdering(Nat)
      BY <2>1 DEF StrictSubsetOrdering
    <2>3. QED
      BY <1>2, <1>3, <2>2
  <1>5. QED
    BY <1>4

\* The running totals of a history, from no record to all of them.
Running(h, n, f) ==
  /\ f \in [0..n -> Nat]
  /\ f[0] = 0
  /\ \A i \in 1..n : f[i] = f[i - 1] + RecordBytes[h[i]]

\* The sizes of the records of a history.
LEMMA SizeFacts ==
  ASSUME NEW h \in Seq(Record)
  PROVE  /\ Len(h) \in Nat
         /\ \A i \in 1..Len(h) : /\ RecordBytes[h[i]] \in Nat
                                 /\ RecordBytes[h[i]] =< MaxRecordBytes
  <1>1. \A r \in Record : RecordBytes[r] \in 1..MaxRecordBytes
    BY SizesAssumption
  <1>2. \A i \in 1..Len(h) : h[i] \in Record
    OBVIOUS
  <1>3. QED
    BY <1>1, <1>2, BoundsAssumption

\* Every history has running totals.
LEMMA RunningExists ==
  ASSUME NEW h \in Seq(Record)
  PROVE  \E f : Running(h, Len(h), f)
  <1> DEFINE Without == {n \in 0..Len(h) : \A f : ~Running(h, n, f)}
  <1>1. SUFFICES ASSUME Without # {} PROVE FALSE
    BY SizeFacts
  <1>2. PICK m \in Without : \A n \in Without : m =< n
    <2>1. Without \in SUBSET Nat
      BY SizeFacts
    <2> HIDE DEF Without
    <2>2. QED
      BY <1>1, <2>1, Smallest
  <1>3. m # 0
    <2>1. Running(h, 0, [k \in 0..0 |-> 0])
      BY DEF Running
    <2>2. QED
      BY <2>1
  <1>4. m - 1 \in 0..Len(h) /\ m - 1 \notin Without /\ m \in 1..Len(h)
    BY <1>2, <1>3, SizeFacts
  <1>5. PICK f : Running(h, m - 1, f)
    BY <1>4
  <1> DEFINE g == [k \in 0..m |->
                     IF k = m THEN f[m - 1] + RecordBytes[h[m]] ELSE f[k]]
  <1>6. f[m - 1] \in Nat /\ RecordBytes[h[m]] \in Nat
    BY <1>4, <1>5, SizeFacts DEF Running
  <1>7. Running(h, m, g)
    <2>1. g \in [0..m -> Nat]
      BY <1>4, <1>5, <1>6 DEF Running
    <2>2. g[0] = 0
      BY <1>3, <1>4, <1>5 DEF Running
    <2>3. ASSUME NEW i \in 1..m
          PROVE  g[i] = g[i - 1] + RecordBytes[h[i]]
      <3>1. CASE i = m
        BY <1>4, <3>1
      <3>2. CASE i # m
        BY <1>4, <1>5, <3>2 DEF Running
      <3>3. QED
        BY <3>1, <3>2
    <2> HIDE DEF g
    <2>4. QED
      BY <2>1, <2>2, <2>3 DEF Running
  <1>8. QED
    BY <1>2, <1>7

\* They are the only ones, so that the last is what _load adds up.
LEMMA RunningIsBytes ==
  ASSUME NEW h \in Seq(Record), NEW f, Running(h, Len(h), f)
  PROVE  Bytes(h) = f[Len(h)]
  <1> DEFINE Sums(t) ==
        t = [n \in 0..Len(h) |-> IF n = 0 THEN 0 ELSE t[n - 1] + RecordBytes[h[n]]]
      total == CHOOSE t : Sums(t)
  <1>1. Len(h) \in Nat
    BY SizeFacts
  <1>2. Sums(f)
    <2>1. f = [n \in 0..Len(h) |-> f[n]]
      BY DEF Running
    <2>2. \A n \in 0..Len(h) :
            f[n] = IF n = 0 THEN 0 ELSE f[n - 1] + RecordBytes[h[n]]
      BY <1>1 DEF Running
    <2>3. QED
      BY <2>1, <2>2
  <1>3. Sums(total)
    <2> HIDE DEF Sums
    <2>1. QED
      BY <1>2
  <1>4. \A n \in 0..Len(h) :
          total[n] = IF n = 0 THEN 0 ELSE total[n - 1] + RecordBytes[h[n]]
    <2> HIDE DEF total
    <2>1. QED
      BY <1>3
  <1>5. Bytes(h) = total[Len(h)]
    BY DEF Bytes
  <1> HIDE DEF total
  <1> DEFINE Apart == {n \in 0..Len(h) : total[n] # f[n]}
  <1>6. Apart = {}
    <2> SUFFICES ASSUME Apart # {} PROVE FALSE
      OBVIOUS
    <2>1. Apart \in SUBSET Nat
      OBVIOUS
    <2>2. PICK m \in Apart : \A n \in Apart : m =< n
      <3> HIDE DEF Apart
      <3>1. QED
        BY <2>1, Smallest
    <2>3. m # 0
      BY <1>4, <2>2 DEF Running
    <2>4. m - 1 \in 0..Len(h) /\ m - 1 \notin Apart
      BY <1>1, <2>2, <2>3
    <2>5. QED
      BY <1>4, <2>2, <2>3, <2>4 DEF Running
  <1>7. QED
    BY <1>1, <1>5, <1>6

\* A prefix occupies what was added up when it was reached, no more than the
\* whole; one more record adds its size.
LEMMA BytesFacts ==
  ASSUME NEW h \in Seq(Record)
  PROVE  /\ Bytes(<<>>) = 0
         /\ Bytes(h) \in Nat
         /\ \A r \in Record : Bytes(Append(h, r)) = Bytes(h) + RecordBytes[r]
         /\ \A n \in 0..Len(h) : Bytes(SubSeq(h, 1, n)) =< Bytes(h)
  <1>1. PICK f : Running(h, Len(h), f)
    BY RunningExists
  <1>2. Bytes(h) = f[Len(h)] /\ Len(h) \in Nat /\ Bytes(h) \in Nat
    BY <1>1, RunningIsBytes, SizeFacts DEF Running
  <1>3. Bytes(<<>>) = 0
    <2>1. <<>> \in Seq(Record) /\ Len(<<>>) = 0
      OBVIOUS
    <2>2. Running(<<>>, Len(<<>>), [k \in 0..0 |-> 0])
      BY <2>1 DEF Running
    <2>3. QED
      BY <2>1, <2>2, RunningIsBytes
  <1>4. ASSUME NEW r \in Record
        PROVE  Bytes(Append(h, r)) = Bytes(h) + RecordBytes[r]
    <2> DEFINE k == Append(h, r)
               g == [n \in 0..Len(h) + 1 |->
                       IF n = Len(h) + 1 THEN f[Len(h)] + RecordBytes[r] ELSE f[n]]
    <2>1. /\ k \in Seq(Record) /\ Len(k) = Len(h) + 1 /\ k[Len(h) + 1] = r
          /\ \A i \in 1..Len(h) : k[i] = h[i]
      BY AppendFacts
    <2>2. RecordBytes[r] \in Nat
      BY SizesAssumption, BoundsAssumption
    <2>3. Running(k, Len(h) + 1, g)
      <3>1. g \in [0..Len(h) + 1 -> Nat]
        BY <1>1, <1>2, <2>2 DEF Running
      <3>2. g[0] = 0
        BY <1>1, <1>2 DEF Running
      <3>3. ASSUME NEW i \in 1..(Len(h) + 1)
            PROVE  g[i] = g[i - 1] + RecordBytes[k[i]]
        <4> HIDE DEF k
        <4>1. CASE i = Len(h) + 1
          BY <1>2, <2>1, <4>1
        <4>2. CASE i # Len(h) + 1
          BY <1>1, <1>2, <2>1, <4>2 DEF Running
        <4>3. QED
          BY <4>1, <4>2
      <3> HIDE DEF g, k
      <3>4. QED
        BY <3>1, <3>2, <3>3 DEF Running
    <2>4. g[Len(h) + 1] = f[Len(h)] + RecordBytes[r]
      BY <1>2
    <2> HIDE DEF g, k
    <2>5. Bytes(k) = g[Len(h) + 1]
      BY <2>1, <2>3, RunningIsBytes
    <2>6. QED
      BY <1>2, <2>4, <2>5 DEF k
  <1>5. ASSUME NEW n \in 0..Len(h)
        PROVE  Bytes(SubSeq(h, 1, n)) =< Bytes(h)
    <2> DEFINE k == SubSeq(h, 1, n)
               g == [i \in 0..n |-> f[i]]
               Less == {i \in 0..Len(h) : n =< i /\ f[i] < f[n]}
    <2>1. k \in Seq(Record) /\ Len(k) = n /\ \A i \in 1..n : k[i] = h[i]
      BY PrefixFacts
    <2>2. Running(k, n, g)
      <3>1. g \in [0..n -> Nat] /\ g[0] = 0
        BY <1>1, <1>2 DEF Running
      <3>2. ASSUME NEW i \in 1..n
            PROVE  g[i] = g[i - 1] + RecordBytes[k[i]]
        <4>1. i \in 1..Len(h) /\ i \in 0..n /\ i - 1 \in 0..n /\ k[i] = h[i]
          BY <1>2, <2>1
        <4>2. g[i] = f[i] /\ g[i - 1] = f[i - 1]
          BY <4>1
        <4> HIDE DEF g, k
        <4>3. QED
          BY <1>1, <4>1, <4>2 DEF Running
      <3> HIDE DEF g, k
      <3>3. QED
        BY <3>1, <3>2 DEF Running
    <2>3. Bytes(k) = f[n]
      <3>1. g[n] = f[n]
        OBVIOUS
      <3> HIDE DEF g, k
      <3>2. QED
        BY <2>1, <2>2, <3>1, RunningIsBytes
    <2>4. Less = {}
      <3> SUFFICES ASSUME Less # {} PROVE FALSE
        OBVIOUS
      <3>1. Less \in SUBSET Nat
        OBVIOUS
      <3>2. PICK m \in Less : \A i \in Less : m =< i
        <4> HIDE DEF Less
        <4>1. QED
          BY <3>1, Smallest
      <3>3. m # n /\ m \in 1..Len(h) /\ n =< m - 1 /\ m - 1 \in 0..Len(h)
        BY <1>1, <1>2, <3>2 DEF Running
      <3>4. f[m - 1] \in Nat /\ f[n] \in Nat /\ f[m] \in Nat
        BY <1>1, <3>3 DEF Running
      <3>5. m - 1 \notin Less
        BY <3>2, <3>3
      <3>6. ~(f[m - 1] < f[n])
        BY <3>3, <3>5
      <3>7. f[m] = f[m - 1] + RecordBytes[h[m]] /\ RecordBytes[h[m]] \in Nat
        BY <1>1, <3>3, SizeFacts DEF Running
      <3>8. QED
        BY <3>2, <3>4, <3>6, <3>7
    <2>5. f[n] \in Nat /\ f[Len(h)] \in Nat
      BY <1>1, <1>2 DEF Running
    <2>6. ~(f[Len(h)] < f[n])
      BY <1>2, <2>4
    <2>7. QED
      BY <1>2, <2>3, <2>5, <2>6
  <1>6. QED
    BY <1>2, <1>3, <1>4, <1>5

-----------------------------------------------------------------------------
(* The three things a step does to the history *)

Extends ==
  \E r \in Record :
    r \in NewIntents \cup Outcome /\ Appendable(log, r) /\ log' = Append(log, r)

CutsBack == \E n \in synced..Len(log) : log' = SubSeq(log, 1, n)

\* Every step leaves the history alone, extends it or cuts it back.
LEMMA StepOnLog ==
  ASSUME TypeOK, [Next]_vars
  PROVE  UNCHANGED log \/ Extends \/ CutsBack
  <1>1. ASSUME NEW p \in Processes, NEW r \in Record, Rename(p, r),
               r \in NewIntents \cup Outcome
        PROVE  Extends
    BY <1>1 DEF Rename, Extends
  <1>2. NewIntents \subseteq Record /\ Outcome \subseteq Record
    BY DEF NewIntents, Record, Intent
  <1>3. ASSUME NEW p \in Processes, Begin(p) \/ Finish(p)
        PROVE  Extends
    BY <1>1, <1>2, <1>3 DEF Begin, Finish
  <1>4. CASE PowerLoss
    BY <1>4 DEF PowerLoss, CutsBack
  <1>5. ASSUME NEW p \in Processes,
               \/ Acknowledge(p) \/ SyncFailure(p) \/ Crash(p)
               \/ \E o \in Operations : Perform(p, o)
        PROVE  UNCHANGED log
    BY <1>5 DEF Acknowledge, SyncFailure, Crash, Perform
  <1>6. QED
    BY <1>3, <1>4, <1>5 DEF Next, vars

-----------------------------------------------------------------------------
(* Types *)

\* A process that has renamed a record has not flushed it yet.
Unflushed == appending # None => synced < Len(log)

TypeInv == TypeOK /\ Unflushed

LEMMA TypeInit == Init => TypeInv
  <1>1. <<>> \in Seq(Record) /\ Len(<<>>) = 0
    OBVIOUS
  <1>2. Bytes(<<>>) = 0
    BY <1>1, BytesFacts
  <1>3. QED
    BY <1>1, <1>2, BoundsAssumption DEF Init, TypeInv, TypeOK, Unflushed

\* Only finitely many operations are open in a history, so the reserve is a
\* number.
LEMMA OpenIsFinite ==
  ASSUME NEW h \in Seq(Record)
  PROVE  IsFiniteSet(Open(h)) /\ Cardinality(Open(h)) \in Nat
  <1>1. Intents(h) \subseteq 1..Len(h) /\ Len(h) \in Nat
    BY DEF Intents
  <1>2. IsFiniteSet(Intents(h))
    <2>1. IsFiniteSet(1..Len(h))
      BY <1>1, FS_Interval
    <2>2. QED
      BY <1>1, <2>1, FS_Subset
  <1>3. IsFiniteSet(Begun(h))
    <2> DEFINE op == [i \in Intents(h) |-> h[i].op]
    <2>1. op \in Surjection(Intents(h), Begun(h))
      BY DEF Surjection, Begun
    <2> HIDE DEF op
    <2>2. QED
      BY <1>2, <2>1, FS_Surjection
  <1>4. QED
    BY <1>3, FS_Subset, FS_CardinalityType DEF Open

LEMMA ReserveIsNumber ==
  ASSUME NEW h \in Seq(Record), NEW r \in Record
  PROVE  /\ Reserve(h, r) \in Nat
         /\ Reserve(h, r) * MaxRecordBytes \in Nat
  <1>1. Append(h, r) \in Seq(Record)
    BY AppendFacts
  <1>2. Reserve(h, r) \in Nat
    BY <1>1, OpenIsFinite DEF Reserve
  <1>3. QED
    BY <1>2, BoundsAssumption

LEMMA RenameType ==
  ASSUME TypeInv, NEW p \in Processes, NEW r \in Record, Rename(p, r)
  PROVE  TypeInv'
  <1>1. /\ log' \in Seq(Record)
        /\ Len(log') = Len(log) + 1
        /\ Len(log) \in Nat
    BY AppendFacts DEF Rename, TypeInv, TypeOK
  <1>2. Bytes(log') = Bytes(log) + RecordBytes[r]
    BY BytesFacts DEF Rename, TypeInv, TypeOK
  <1>3. Bytes(log) \in Nat /\ RecordBytes[r] \in Nat
    BY BytesFacts, SizesAssumption, BoundsAssumption DEF TypeInv, TypeOK
  <1>4. /\ Reserve(log, r) \in Nat
        /\ Reserve(log, r) * MaxRecordBytes \in Nat
    BY ReserveIsNumber DEF TypeInv, TypeOK
  <1>5. Len(log') =< MaxRecords /\ Bytes(log') =< MaxTotal
    BY <1>1, <1>2, <1>3, <1>4, BoundsAssumption DEF Rename, Appendable, Fits
  <1>6. QED
    BY <1>1, <1>5 DEF Rename, TypeInv, TypeOK, Unflushed

LEMMA TypeNext == TypeInv /\ [Next]_vars => TypeInv'
  <1> SUFFICES ASSUME TypeInv, [Next]_vars
               PROVE  TypeInv'
    OBVIOUS
  <1>1. ASSUME NEW p \in Processes, Begin(p)
        PROVE  TypeInv'
    <2>1. NewIntents \subseteq Record
      BY DEF NewIntents, Record, Intent
    <2>2. QED
      BY <1>1, <2>1, RenameType DEF Begin
  <1>2. ASSUME NEW p \in Processes, Finish(p)
        PROVE  TypeInv'
    <2>1. Outcome \subseteq Record
      BY DEF Record
    <2>2. QED
      BY <1>2, <2>1, RenameType DEF Finish
  <1>3. ASSUME NEW p \in Processes, Acknowledge(p)
        PROVE  TypeInv'
    <2>1. Len(log) \in 1..Len(log) /\ appending # None
      BY <1>3, KindsAssumption DEF Acknowledge, TypeInv, TypeOK, Unflushed
    <2>2. log[Len(log)].op \in Operations
      BY <2>1, RecordFacts DEF TypeInv, TypeOK
    <2>3. QED
      BY <1>3, <2>1, <2>2 DEF Acknowledge, TypeInv, TypeOK, Unflushed
  <1>4. ASSUME NEW p \in Processes, SyncFailure(p)
        PROVE  TypeInv'
    <2>1. Len(log) \in 1..Len(log)
      BY <1>4, KindsAssumption DEF SyncFailure, TypeInv, TypeOK, Unflushed
    <2>2. log[Len(log)].op \in Operations
      BY <2>1, RecordFacts DEF TypeInv, TypeOK
    <2>3. QED
      BY <1>4, <2>2 DEF SyncFailure, InHand, TypeInv, TypeOK, Unflushed
  <1>5. ASSUME NEW p \in Processes, NEW o \in Operations, Perform(p, o)
        PROVE  TypeInv'
    BY <1>5 DEF Perform, TypeInv, TypeOK, Unflushed
  <1>6. ASSUME NEW p \in Processes, Crash(p)
        PROVE  TypeInv'
    <2>1. InHand(p) \subseteq Operations
      <3>1. CASE appending = p
        <4>1. Len(log) \in 1..Len(log)
          BY <3>1, KindsAssumption DEF TypeInv, TypeOK, Unflushed
        <4>2. QED
          BY <4>1, RecordFacts DEF InHand, TypeInv, TypeOK
      <3>2. QED
        BY <3>1 DEF InHand
    <2>2. orphans' \subseteq Operations
      BY <1>6, <2>1 DEF Crash, TypeInv, TypeOK
    <2>3. QED
      BY <1>6, <2>2 DEF Crash, TypeInv, TypeOK, Unflushed
  <1>7. CASE PowerLoss
    <2>1. PICK n \in synced..Len(log) : log' = SubSeq(log, 1, n) /\ synced' = n
      BY <1>7 DEF PowerLoss
    <2>2. n \in 0..Len(log)
      BY <2>1 DEF TypeInv, TypeOK
    <2>3. /\ log' \in Seq(Record) /\ Len(log') = n
          /\ Len(log') =< MaxRecords /\ Bytes(log') =< MaxTotal
      <3>1. /\ Bytes(log) \in Nat /\ Bytes(log') =< Bytes(log)
            /\ log' \in Seq(Record) /\ Len(log') = n
        BY <2>1, <2>2, PrefixFacts, BytesFacts DEF TypeInv, TypeOK
      <3>2. Bytes(log') \in Nat
        BY <3>1, BytesFacts
      <3>3. QED
        BY <2>2, <3>1, <3>2, BoundsAssumption DEF TypeInv, TypeOK
    <2>4. Begun(log') \subseteq Operations
      BY <2>3, RecordFacts DEF Begun, Intents
    <2>5. orphans' \subseteq Operations
      BY <1>7, <2>4 DEF PowerLoss, TypeInv, TypeOK
    <2>6. QED
      BY <1>7, <2>1, <2>2, <2>3, <2>5 DEF PowerLoss, TypeInv, TypeOK, Unflushed
  <1>8. CASE UNCHANGED vars
    BY <1>8 DEF vars, TypeInv, TypeOK, Unflushed
  <1>9. QED
    BY <1>1, <1>2, <1>3, <1>4, <1>5, <1>6, <1>7, <1>8 DEF Next

\* Every reachable state of the journal and its users is well typed: the
\* records are those Journal._append writes, within the limits _load accepts,
\* and no more is flushed than is visible.
THEOREM TypeCorrect == Spec => []TypeOK
  <1>1. TypeInv => TypeOK
    BY DEF TypeInv
  <1>2. QED
    BY TypeInit, TypeNext, <1>1, PTL DEF Spec

-----------------------------------------------------------------------------
(* What a history holds, whoever wrote it *)

HistoryInv == Coherent(log)

LEMMA HistoryNext == TypeOK /\ HistoryInv /\ [Next]_vars => HistoryInv'
  <1> SUFFICES ASSUME TypeOK, HistoryInv, [Next]_vars
               PROVE  HistoryInv'
    OBVIOUS
  <1>1. CASE UNCHANGED log
    BY <1>1 DEF HistoryInv
  <1>2. CASE Extends
    <2>1. PICK r \in Record : Appendable(log, r) /\ log' = Append(log, r)
      BY <1>2 DEF Extends
    <2>2. QED
      BY <2>1, AppendCoherent DEF HistoryInv, TypeOK
  <1>3. CASE CutsBack
    <2>1. PICK n \in synced..Len(log) : log' = SubSeq(log, 1, n)
      BY <1>3 DEF CutsBack
    <2>2. n \in 0..Len(log)
      BY <2>1 DEF TypeOK
    <2>3. QED
      BY <2>1, <2>2, PrefixCoherent DEF HistoryInv, TypeOK
  <1>4. QED
    BY <1>1, <1>2, <1>3, StepOnLog

LEMMA HistoryInit == Init => HistoryInv
  BY DEF Init, HistoryInv, Coherent, BegunOnce, OutcomeFollows, SettledOnce, Intents, OutcomesIn

LEMMA HistoryHolds == Spec => [](TypeInv /\ HistoryInv)
  <1>1. TypeInv => TypeOK
    BY DEF TypeInv
  <1>2. QED
    BY TypeInit, TypeNext, HistoryInit, HistoryNext, <1>1, PTL DEF Spec

-----------------------------------------------------------------------------
(* Serial and without replay *)

LEMMA SerialNext ==
  TypeOK /\ HistoryInv /\ SerialHistory /\ [Next]_vars => SerialHistory'
  <1> SUFFICES ASSUME TypeOK, HistoryInv, SerialHistory, [Next]_vars
               PROVE  SerialHistory'
    OBVIOUS
  <1>1. CASE UNCHANGED log
    BY <1>1 DEF SerialHistory, Intents, OutcomesIn
  <1>2. CASE Extends
    <2>1. PICK r \in Record : Appendable(log, r) /\ log' = Append(log, r)
      BY <1>2 DEF Extends
    <2>2. /\ Intents(log') = Intents(log) \cup {i \in {Len(log) + 1} : r.type = "intent"}
          /\ OutcomesIn(log') = OutcomesIn(log) \cup {i \in {Len(log) + 1} : r.type = "outcome"}
          /\ Intents(log) \subseteq 1..Len(log)
          /\ OutcomesIn(log) \subseteq 1..Len(log)
          /\ \A i \in 1..Len(log) : log'[i] = log[i]
          /\ log'[Len(log) + 1] = r
          /\ Len(log) \in Nat
      BY <2>1, AppendReading, AppendFacts DEF TypeOK
    <2>3. ASSUME NEW j \in Intents(log'), ~Bypasses(log'[j]),
                 NEW i \in Intents(log'), i < j
          PROVE  \E k \in OutcomesIn(log') :
                   /\ i < k /\ k < j /\ log'[k].op = log'[i].op
                   /\ log'[k].outcome # "uncertain"
      <3>1. CASE j \in Intents(log)
        <4>1. i \in Intents(log)
          BY <2>2, <2>3, <3>1
        <4>2. PICK k \in OutcomesIn(log) :
                /\ i < k /\ k < j /\ log[k].op = log[i].op
                /\ log[k].outcome # "uncertain"
          BY <2>2, <2>3, <3>1, <4>1 DEF SerialHistory
        <4>3. QED
          BY <2>2, <3>1, <4>1, <4>2
      <3>2. CASE j = Len(log) + 1 /\ r.type = "intent"
        <4>1. i \in Intents(log) /\ log[i].op \in Begun(log)
          BY <2>2, <2>3, <3>2 DEF Begun
        <4>2. Open(log) = {}
          BY <2>1, <2>2, <2>3, <3>2
             DEF Appendable, Admits, AdmitsIntent, NothingUnsettled
        <4>3. PICK k \in OutcomesIn(log) :
                log[k].op = log[i].op /\ log[k].outcome # "uncertain"
          BY <4>1, <4>2 DEF Open, Settled
        <4>4. i < k
          BY <4>1, <4>3, <2>2 DEF HistoryInv, Coherent, OutcomeFollows, BegunOnce
        <4>5. QED
          BY <2>2, <3>2, <4>1, <4>3, <4>4
      <3>3. QED
        BY <2>2, <3>1, <3>2
    <2>4. QED
      BY <2>3 DEF SerialHistory
  <1>3. CASE CutsBack
    <2>1. PICK n \in synced..Len(log) : log' = SubSeq(log, 1, n)
      BY <1>3 DEF CutsBack
    <2>2. n \in 0..Len(log)
      BY <2>1 DEF TypeOK
    <2>3. /\ \A i \in 1..n : log'[i] = log[i]
          /\ Intents(log') = {i \in Intents(log) : i =< n}
          /\ OutcomesIn(log') = {i \in OutcomesIn(log) : i =< n}
      BY <2>1, <2>2, PrefixFacts DEF TypeOK
    <2>4. Intents(log) \subseteq Nat \ {0} /\ OutcomesIn(log) \subseteq Nat \ {0}
      BY DEF Intents, OutcomesIn, TypeOK
    <2>5. QED
      BY <2>2, <2>3, <2>4 DEF SerialHistory
  <1>4. QED
    BY <1>1, <1>2, <1>3, StepOnLog

\* In every interleaving of processes, crashes and losses of power, the
\* history Journal._states accepts is serial: an operation that does not
\* bypass the others begins after all earlier ones were settled.
THEOREM Serial == Spec => []SerialHistory
  <1>1. Init => SerialHistory
    BY DEF Init, SerialHistory, Intents
  <1>2. TypeInv => TypeOK
    BY DEF TypeInv
  <1>3. QED
    BY <1>1, <1>2, SerialNext, HistoryHolds, PTL DEF Spec

\* A tool call or a control request is recorded at most once, by whatever
\* process and after whatever restart: the check of _states.
THEOREM NothingReplayed == Spec => []NoReplay
  <1>1. Init => NoReplay
    BY DEF Init, NoReplay, Intents
  <1>2. TypeOK /\ NoReplay /\ [Next]_vars => NoReplay'
    <2> SUFFICES ASSUME TypeOK, NoReplay, [Next]_vars
                 PROVE  NoReplay'
      OBVIOUS
    <2>1. CASE UNCHANGED log
      BY <2>1 DEF NoReplay, Intents
    <2>2. CASE Extends
      <3>1. PICK r \in Record : Appendable(log, r) /\ log' = Append(log, r)
        BY <2>2 DEF Extends
      <3>2. /\ Intents(log') = Intents(log) \cup {i \in {Len(log) + 1} : r.type = "intent"}
            /\ Intents(log) \subseteq 1..Len(log)
            /\ \A i \in 1..Len(log) : log'[i] = log[i]
            /\ log'[Len(log) + 1] = r
            /\ Len(log) \in Nat
        BY <3>1, AppendReading, AppendFacts DEF TypeOK
      <3>3. ASSUME r.type = "intent", NEW i \in Intents(log)
            PROVE  /\ r.call # None \/ log[i].call # None => log[i].call # r.call
                   /\ r.control # None \/ log[i].control # None =>
                        log[i].control.request # r.control.request
        <4>1. AdmitsIntent(log, r) /\ r \in Intent /\ log[i] \in Intent
          BY <3>1, <3>3, RecordFacts DEF Appendable, Admits, Intents, TypeOK
        <4>2. /\ r.control # None => r.kind = "owner_control"
              /\ log[i].control # None => log[i].kind = "owner_control"
          BY <4>1 DEF Intent, WorkIntent, ControlIntent
        <4>3. r.kind = "owner_control" <=> log[i].kind = "owner_control"
          BY <4>1 DEF AdmitsIntent
        <4>4. QED
          BY <4>1, <4>2, <4>3 DEF AdmitsIntent, FreshCall, FreshControl
      <3>4. QED
        BY <3>2, <3>3 DEF NoReplay
    <2>3. CASE CutsBack
      <3>1. PICK n \in synced..Len(log) : log' = SubSeq(log, 1, n)
        BY <2>3 DEF CutsBack
      <3>2. n \in 0..Len(log)
        BY <3>1 DEF TypeOK
      <3>3. /\ \A i \in 1..n : log'[i] = log[i]
            /\ Intents(log') = {i \in Intents(log) : i =< n}
        BY <3>1, <3>2, PrefixFacts DEF TypeOK
      <3>4. Intents(log) \subseteq Nat \ {0}
        BY DEF Intents, TypeOK
      <3>5. QED
        BY <3>2, <3>3, <3>4 DEF NoReplay
    <2>4. QED
      BY <2>1, <2>2, <2>3, StepOnLog
  <1>3. TypeInv => TypeOK
    BY DEF TypeInv
  <1>4. QED
    BY <1>1, <1>2, <1>3, HistoryHolds, PTL DEF Spec

-----------------------------------------------------------------------------
(* What is flushed stays *)

\* No step undoes a flushed record: the durable history only grows.
LEMMA DurableGrows ==
  ASSUME TypeOK, TypeOK', [Next]_vars
  PROVE  /\ synced =< synced'
         /\ synced' \in 0..Len(log') /\ synced \in 0..Len(log)
         /\ \A i \in 1..synced : log'[i] = log[i]
  <1>1. synced =< synced'
    <2>1. ASSUME NEW p \in Processes, NEW r \in Record, Rename(p, r)
          PROVE  synced' = synced
      BY <2>1 DEF Rename
    <2>2. NewIntents \subseteq Record /\ Outcome \subseteq Record
      BY DEF NewIntents, Record, Intent
    <2>3. ASSUME NEW p \in Processes, Begin(p) \/ Finish(p)
          PROVE  synced' = synced
      BY <2>1, <2>2, <2>3 DEF Begin, Finish
    <2>4. ASSUME NEW p \in Processes, Acknowledge(p)
          PROVE  synced =< synced'
      BY <2>4 DEF Acknowledge, TypeOK
    <2>5. ASSUME NEW p \in Processes,
                 \/ SyncFailure(p) \/ Crash(p)
                 \/ \E o \in Operations : Perform(p, o)
          PROVE  synced' = synced
      BY <2>5 DEF SyncFailure, Crash, Perform
    <2>6. CASE PowerLoss
      BY <2>6 DEF PowerLoss, TypeOK
    <2>7. synced \in Nat
      BY DEF TypeOK
    <2>8. QED
      BY <2>3, <2>4, <2>5, <2>6, <2>7 DEF Next, vars
  <1>2. \A i \in 1..synced : log'[i] = log[i]
    <2>1. CASE Extends
      BY <2>1, AppendFacts DEF Extends, TypeOK
    <2>2. CASE CutsBack
      <3>1. PICK n \in synced..Len(log) : log' = SubSeq(log, 1, n)
        BY <2>2 DEF CutsBack
      <3>2. QED
        BY <3>1, PrefixFacts DEF TypeOK
    <2>3. QED
      BY <2>1, <2>2, StepOnLog
  <1>3. QED
    BY <1>1, <1>2 DEF TypeOK

\* The operations of a prefix, as positions of the whole history.
LEMMA BegunGrows ==
  ASSUME TypeOK, TypeOK', [Next]_vars
  PROVE  Begun(Durable) \subseteq Begun(Durable')
  <1>1. /\ Begun(Durable) = {log[i].op : i \in {j \in Intents(log) : j =< synced}}
        /\ Intents(log) \subseteq 1..Len(log)
    BY PrefixReading DEF TypeOK, Durable
  <1>2. Begun(Durable') = {log'[i].op : i \in {j \in Intents(log') : j =< synced'}}
    BY PrefixReading DEF TypeOK, Durable
  <1>3. DOMAIN log' = 1..Len(log')
    BY DEF TypeOK
  <1>4. QED
    BY <1>1, <1>2, <1>3, DurableGrows DEF Intents

-----------------------------------------------------------------------------
(* Write-ahead *)

\* What an instance takes for its own operation was flushed before.
Known == \A p \in Processes : issued[p] \subseteq Begun(Durable)

LEMMA KnownNext ==
  TypeInv /\ TypeInv' /\ Known /\ WriteAhead /\ [Next]_vars => Known' /\ WriteAhead'
  <1> SUFFICES ASSUME TypeInv, TypeInv', Known, WriteAhead, [Next]_vars
               PROVE  Known' /\ WriteAhead'
    OBVIOUS
  <1>1. Begun(Durable) \subseteq Begun(Durable')
    BY BegunGrows DEF TypeInv
  <1>2. ASSUME UNCHANGED <<issued, performed>>
        PROVE  Known' /\ WriteAhead'
    BY <1>1, <1>2 DEF Known, WriteAhead, Durable
  <1>3. ASSUME NEW p \in Processes, Begin(p) \/ Finish(p) \/ SyncFailure(p)
        PROVE  UNCHANGED <<issued, performed>>
    BY <1>3 DEF Begin, Finish, Rename, SyncFailure
  <1>4. ASSUME NEW p \in Processes, Acknowledge(p)
        PROVE  Known' /\ WriteAhead'
    <2>1. Begun(Durable') = Begun(log)
      <3>1. synced' = Len(log) /\ log' = log
        BY <1>4 DEF Acknowledge
      <3>2. Durable' = log
        BY <3>1 DEF Durable, TypeInv, TypeOK
      <3>3. QED
        BY <3>2
    <2>2. Len(log) \in DOMAIN log
      BY <1>4, KindsAssumption DEF Acknowledge, TypeInv, TypeOK, Unflushed
    <2>3. ASSUME NEW q \in Processes, NEW o \in issued'[q]
          PROVE  o \in Begun(log)
      <3>1. o \in issued[q] \/ (log[Len(log)].type = "intent" /\ o = log[Len(log)].op)
        BY <1>4, <2>3 DEF Acknowledge, TypeInv, TypeOK
      <3>2. QED
        BY <1>1, <2>1, <2>2, <3>1 DEF Known, Begun, Intents
    <2>4. performed' \subseteq Begun(log)
      BY <1>1, <1>4, <2>1 DEF Acknowledge, WriteAhead
    <2>5. QED
      BY <2>1, <2>3, <2>4 DEF Known, WriteAhead, Durable
  <1>5. ASSUME NEW p \in Processes, NEW o \in Operations, Perform(p, o)
        PROVE  Known' /\ WriteAhead'
    BY <1>5 DEF Perform, MayPerform, Known, WriteAhead, Durable
  <1>6. ASSUME NEW p \in Processes, Crash(p)
        PROVE  Known' /\ WriteAhead'
    BY <1>6 DEF Crash, Known, WriteAhead, Durable, TypeInv, TypeOK
  <1>7. CASE PowerLoss
    BY <1>1, <1>7 DEF PowerLoss, Known, WriteAhead, Durable
  <1>8. CASE UNCHANGED vars
    BY <1>2, <1>8 DEF vars
  <1>9. QED
    BY <1>2, <1>3, <1>4, <1>5, <1>6, <1>7, <1>8 DEF Next

LEMMA KnownHolds == Spec => [](TypeInv /\ Known /\ WriteAhead)
  <1>1. Init => Known /\ WriteAhead
    BY DEF Init, Known, WriteAhead
  <1>2. QED
    BY <1>1, TypeInit, TypeNext, KnownNext, PTL DEF Spec

\* No effect is dispatched on an intent that a loss of power could still take
\* back: begin returns only after the directory flush of _append.
THEOREM WriteAheadHolds == Spec => []WriteAhead
  BY KnownHolds, PTL

-----------------------------------------------------------------------------
(* Settlement *)

\* A settlement that was flushed is final: whatever a process, a crash or a
\* loss of power does next, no record contradicts or removes it (the state
\* check of _states on every outcome).
THEOREM SettlementFinal == Spec => SettlementIsFinal
  <1>1. TypeInv /\ TypeInv' /\ HistoryInv' /\ [Next]_vars =>
          [\A o \in Settled(Durable) :
             /\ o \in Settled(Durable')
             /\ \A i \in OutcomesIn(log') : log'[i].op = o => i =< synced]_vars
    <2> SUFFICES ASSUME TypeInv, TypeInv', HistoryInv', [Next]_vars
                 PROVE  \A o \in Settled(Durable) :
                          /\ o \in Settled(Durable')
                          /\ \A i \in OutcomesIn(log') : log'[i].op = o => i =< synced
      OBVIOUS
    <2>1. /\ Settled(Durable) = {log[i].op : i \in {j \in OutcomesIn(log) :
                                   j =< synced /\ log[j].outcome # "uncertain"}}
          /\ OutcomesIn(log) \subseteq 1..Len(log)
      BY PrefixReading DEF TypeInv, TypeOK, Durable
    <2>2. /\ Settled(Durable') = {log'[i].op : i \in {j \in OutcomesIn(log') :
                                   j =< synced' /\ log'[j].outcome # "uncertain"}}
          /\ OutcomesIn(log') \subseteq 1..Len(log')
      BY PrefixReading DEF TypeInv, TypeOK, Durable
    <2>3. /\ synced =< synced' /\ synced' \in 0..Len(log') /\ synced \in 0..Len(log)
          /\ \A i \in 1..synced : log'[i] = log[i]
      BY DurableGrows DEF TypeInv
    <2>4. DOMAIN log' = 1..Len(log') /\ Len(log') \in Nat
      BY DEF TypeInv, TypeOK
    <2>5. ASSUME NEW o \in Settled(Durable)
          PROVE  /\ o \in Settled(Durable')
                 /\ \A i \in OutcomesIn(log') : log'[i].op = o => i =< synced
      <3>1. PICK k \in OutcomesIn(log) :
              k =< synced /\ log[k].outcome # "uncertain" /\ log[k].op = o
        BY <2>1, <2>5
      <3>2. k \in 1..synced
        BY <2>1, <2>3, <3>1
      <3>3. k \in OutcomesIn(log') /\ log'[k] = log[k]
        BY <2>3, <2>4, <3>1, <3>2 DEF OutcomesIn
      <3>4. o \in Settled(Durable')
        BY <2>2, <2>3, <3>1, <3>2, <3>3
      <3>5. \A i \in OutcomesIn(log') : log'[i].op = o => i =< k
        BY <2>2, <2>3, <3>1, <3>2, <3>3 DEF HistoryInv, Coherent, SettledOnce
      <3>6. QED
        BY <2>2, <2>3, <3>2, <3>4, <3>5
    <2>6. QED
      BY <2>5
  <1>2. QED
    BY <1>1, HistoryHolds, PTL DEF Spec, SettlementIsFinal

-----------------------------------------------------------------------------
(* Orphans *)

\* No instance takes an orphaned operation, or one of another instance, for
\* its own; and the intent being appended is nobody's yet.
Ownership ==
  /\ \A p, q \in Processes : p # q => issued[p] \cap issued[q] = {}
  /\ \A p \in Processes : issued[p] \cap orphans = {}
  /\ orphans \subseteq Begun(log)
  /\ appending # None /\ log[Len(log)].type = "intent" =>
       /\ log[Len(log)].op \notin orphans
       /\ \A p \in Processes : log[Len(log)].op \notin issued[p]

OrphanInv == Ownership /\ OrphansAreReconciled

\* Issued operations have an intent among the visible records.
LEMMA KnownVisible ==
  ASSUME TypeInv, Known
  PROVE  \A p \in Processes : issued[p] \subseteq Begun(log)
  <1>1. Begun(Durable) = {log[i].op : i \in {j \in Intents(log) : j =< synced}}
    BY PrefixReading DEF TypeInv, TypeOK, Durable
  <1>2. Begun(Durable) \subseteq Begun(log)
    BY <1>1 DEF Begun
  <1>3. QED
    BY <1>2 DEF Known

LEMMA OrphanRename ==
  ASSUME TypeInv, Known, OrphanInv,
         NEW p \in Processes, NEW r \in Record, Rename(p, r),
         r.type = "outcome" => MayReport(p, r)
  PROVE  OrphanInv'
  <1>1. /\ Intents(log') = Intents(log) \cup {i \in {Len(log) + 1} : r.type = "intent"}
        /\ OutcomesIn(log') = OutcomesIn(log) \cup {i \in {Len(log) + 1} : r.type = "outcome"}
        /\ Intents(log) \subseteq 1..Len(log)
        /\ OutcomesIn(log) \subseteq 1..Len(log)
        /\ \A i \in 1..Len(log) : log'[i] = log[i]
        /\ log'[Len(log) + 1] = r
        /\ Len(log) \in Nat
        /\ Len(log') = Len(log) + 1
    BY AppendReading, AppendFacts DEF Rename, TypeInv, TypeOK
  <1>2. UNCHANGED <<issued, orphans>>
    BY DEF Rename
  <1>3. r.type = "intent" => r.op \notin Begun(log)
    BY DEF Rename, Appendable, Admits, AdmitsIntent
  <1>4. Begun(log) \subseteq Begun(log')
    BY <1>1 DEF Begun
  <1>5. Ownership'
    BY <1>1, <1>2, <1>3, <1>4, KnownVisible DEF OrphanInv, Ownership
  <1>6. OrphansAreReconciled'
    BY <1>1, <1>2 DEF OrphanInv, Ownership, OrphansAreReconciled, MayReport
  <1>7. QED
    BY <1>5, <1>6 DEF OrphanInv

LEMMA OrphanNext ==
  TypeInv /\ TypeInv' /\ Known /\ OrphanInv /\ [Next]_vars => OrphanInv'
  <1> SUFFICES ASSUME TypeInv, TypeInv', Known, OrphanInv, [Next]_vars
               PROVE  OrphanInv'
    OBVIOUS
  <1>1. ASSUME NEW p \in Processes, Begin(p)
        PROVE  OrphanInv'
    <2>1. \A r \in NewIntents : r \in Record /\ r.type = "intent"
      BY DEF NewIntents, Record, Intent, WorkIntent, ControlIntent
    <2>2. QED
      BY <1>1, <2>1, OrphanRename DEF Begin
  <1>2. ASSUME NEW p \in Processes, Finish(p)
        PROVE  OrphanInv'
    <2>1. Outcome \subseteq Record
      BY DEF Record
    <2>2. QED
      BY <1>2, <2>1, OrphanRename DEF Finish
  <1>3. ASSUME NEW p \in Processes, Acknowledge(p)
        PROVE  OrphanInv'
    <2>1. /\ UNCHANGED <<log, orphans>>
          /\ appending' = None
          /\ appending # None
      BY <1>3, KindsAssumption DEF Acknowledge
    <2>2. ASSUME NEW q \in Processes
          PROVE  issued'[q] \subseteq issued[q] \cup
                   {o \in {log[Len(log)].op} : q = p /\ log[Len(log)].type = "intent"}
      BY <1>3 DEF Acknowledge, TypeInv, TypeOK
    <2>3. Ownership'
      BY <2>1, <2>2 DEF OrphanInv, Ownership
    <2>4. QED
      BY <2>1, <2>3 DEF OrphanInv, OrphansAreReconciled
  <1>4. ASSUME orphans' \subseteq orphans \cup (Begun(log) \ Reported(log)), log' = log
        PROVE  OrphansAreReconciled'
    BY <1>4 DEF OrphanInv, OrphansAreReconciled, Reported
  <1>5. ASSUME NEW p \in Processes
        PROVE  InHand(p) \ Reported(log) \subseteq
                 {o \in {log[Len(log)].op} :
                    appending = p /\ log[Len(log)].type = "intent" /\ o \in Begun(log)}
    <2>1. CASE appending = p
      <3>1. Len(log) \in DOMAIN log
        BY <2>1, KindsAssumption DEF TypeInv, TypeOK, Unflushed
      <3>2. log[Len(log)].type \in {"intent", "outcome"}
        BY <3>1, RecordFacts DEF TypeInv, TypeOK
      <3>3. QED
        BY <2>1, <3>1, <3>2 DEF InHand, Reported, Begun, Intents, OutcomesIn
    <2>2. QED
      BY <2>1 DEF InHand
  <1>6. ASSUME NEW p \in Processes, SyncFailure(p)
        PROVE  OrphanInv'
    <2>1. /\ UNCHANGED <<log, issued>>
          /\ appending' = None /\ appending = p /\ appending # None
          /\ orphans' = orphans \cup (InHand(p) \ Reported(log))
      BY <1>6, KindsAssumption DEF SyncFailure
    <2>2. Ownership'
      BY <1>5, <2>1 DEF OrphanInv, Ownership
    <2>3. QED
      BY <1>4, <1>5, <2>1, <2>2 DEF OrphanInv, Ownership
  <1>7. ASSUME NEW p \in Processes, NEW o \in Operations, Perform(p, o)
        PROVE  OrphanInv'
    BY <1>7 DEF Perform, OrphanInv, Ownership, OrphansAreReconciled
  <1>8. ASSUME NEW p \in Processes, Crash(p)
        PROVE  OrphanInv'
    <2>1. /\ log' = log
          /\ orphans' = orphans \cup ((issued[p] \cup InHand(p)) \ Reported(log))
          /\ appending' # None => appending' = appending /\ appending # p
          /\ \A q \in Processes : issued'[q] = IF q = p THEN {} ELSE issued[q]
      BY <1>8 DEF Crash, TypeInv, TypeOK
    <2>2. orphans' \subseteq orphans \cup (Begun(log) \ Reported(log))
      BY <1>5, <2>1, KnownVisible
    <2>3. \A o \in orphans' : \/ o \in orphans
                              \/ o \in issued[p]
                              \/ /\ appending = p /\ log[Len(log)].type = "intent"
                                 /\ o = log[Len(log)].op
      BY <1>5, <2>1
    <2>4. orphans' \subseteq Begun(log')
      BY <2>1, <2>2 DEF OrphanInv, Ownership
    <2>5. \A q \in Processes : issued'[q] \cap orphans' = {}
      BY <1>8, <2>1, <2>3, KindsAssumption DEF OrphanInv, Ownership
    <2>6. Ownership'
      BY <1>8, <2>1, <2>3, <2>4, <2>5, KindsAssumption DEF OrphanInv, Ownership
    <2>7. QED
      BY <1>4, <2>1, <2>2, <2>6 DEF OrphanInv
  <1>9. CASE PowerLoss
    <2>1. PICK n \in synced..Len(log) : log' = SubSeq(log, 1, n)
      BY <1>9 DEF PowerLoss
    <2>2. /\ OutcomesIn(log') = {i \in OutcomesIn(log) : i =< n}
          /\ \A i \in 1..n : log'[i] = log[i]
          /\ OutcomesIn(log) \subseteq 1..Len(log)
          /\ n \in 0..Len(log)
      BY <2>1, PrefixFacts DEF OutcomesIn, TypeInv, TypeOK
    <2>3. /\ appending' = None
          /\ orphans' = (orphans \cap Begun(log')) \cup (Begun(log') \ Reported(log'))
          /\ \A p \in Processes : issued'[p] = {}
      BY <1>9 DEF PowerLoss
    <2>4. OrphansAreReconciled'
      BY <2>2, <2>3 DEF OrphanInv, OrphansAreReconciled, Reported
    <2>5. QED
      BY <2>3, <2>4 DEF OrphanInv, Ownership
  <1>10. CASE UNCHANGED vars
    BY <1>10 DEF vars, OrphanInv, Ownership, OrphansAreReconciled
  <1>11. QED
    BY <1>1, <1>2, <1>3, <1>6, <1>7, <1>8, <1>9, <1>10 DEF Next

\* An operation whose issuer went away before reporting is settled by
\* reconciliation only: _issued is per instance and finish insists on it.
THEOREM OrphansReconciled == Spec => []OrphansAreReconciled
  <1>1. Init => OrphanInv
    BY KindsAssumption
       DEF Init, OrphanInv, Ownership, OrphansAreReconciled, OutcomesIn
  <1>2. OrphanInv => OrphansAreReconciled
    BY DEF OrphanInv
  <1>3. QED
    BY <1>1, <1>2, OrphanNext, KnownHolds, PTL DEF Spec

-----------------------------------------------------------------------------
(* The reserve *)

\* A journal without control requests never has two unsettled operations.
OneAtATime ==
  (\A i \in Intents(log) : log[i].kind # "owner_control")
    => \A o, p \in Open(log) : o = p

LEMMA SerialOneAtATime == TypeOK /\ SerialHistory => OneAtATime
  <1> SUFFICES ASSUME TypeOK, SerialHistory,
                      \A i \in Intents(log) : log[i].kind # "owner_control",
                      NEW o \in Open(log), NEW p \in Open(log), o # p
               PROVE  FALSE
    BY DEF OneAtATime
  <1>1. ASSUME NEW i \in Intents(log), NEW j \in Intents(log),
               log[i].op \in Open(log), i < j
        PROVE  FALSE
    <2>1. ~Bypasses(log[j])
      BY DEF Bypasses
    <2>2. QED
      BY <1>1, <2>1 DEF SerialHistory, Open, Settled
  <1>2. PICK i \in Intents(log) : log[i].op = o
    BY DEF Open, Begun
  <1>3. PICK j \in Intents(log) : log[j].op = p
    BY DEF Open, Begun
  <1>4. i \in Nat /\ j \in Nat
    BY DEF Intents, TypeOK
  <1>5. i < j \/ j < i
    BY <1>2, <1>3, <1>4
  <1>6. QED
    BY <1>1, <1>2, <1>3, <1>5

\* A reserve that counts what is unsettled is enough room for it.
LEMMA ReserveIsRoom ==
  ASSUME NEW h \in Seq(Record), NEW r \in Record, Fits(h, r),
         Reserve(h, r) = Cardinality(Open(Append(h, r)))
  PROVE  RoomToSettle(Append(h, r))
  <1>1. Len(Append(h, r)) = Len(h) + 1
    BY AppendFacts
  <1>2. Bytes(Append(h, r)) = Bytes(h) + RecordBytes[r]
    BY BytesFacts
  <1>3. QED
    BY <1>1, <1>2 DEF RoomToSettle, Fits

\* The reserve of one append is enough for everything it leaves unsettled.
LEMMA ReserveSuffices ==
  ASSUME TypeOK, OneAtATime, OneAtATime',
         NEW r \in Record, Appendable(log, r), log' = Append(log, r)
  PROVE  RoomToSettle(log')
  <1>1. /\ Intents(log') = Intents(log) \cup {i \in {Len(log) + 1} : r.type = "intent"}
        /\ OutcomesIn(log') = OutcomesIn(log) \cup {i \in {Len(log) + 1} : r.type = "outcome"}
        /\ Intents(log) \subseteq 1..Len(log)
        /\ OutcomesIn(log) \subseteq 1..Len(log)
        /\ \A i \in 1..Len(log) : log'[i] = log[i]
        /\ log'[Len(log) + 1] = r
        /\ Len(log) \in Nat
    BY AppendReading, AppendFacts DEF TypeOK
  <1>2. SUFFICES \/ Reserve(log, r) = Cardinality(Open(log'))
                 \/ /\ Reserve(log, r) = 1
                    /\ Open(log') = {}
    <2>1. CASE Reserve(log, r) = Cardinality(Open(log'))
      BY <2>1, ReserveIsRoom DEF TypeOK, Appendable
    <2>2. CASE Reserve(log, r) = 1 /\ Open(log') = {}
      <3>1. Cardinality(Open(log')) = 0
        BY <2>2, FS_EmptySet
      <3>2. /\ Len(log') = Len(log) + 1
            /\ Bytes(log') = Bytes(log) + RecordBytes[r]
            /\ Bytes(log) \in Nat /\ RecordBytes[r] \in Nat
        BY AppendFacts, BytesFacts, SizesAssumption, BoundsAssumption DEF TypeOK
      <3>3. 1 * MaxRecordBytes = MaxRecordBytes /\ 0 * MaxRecordBytes = 0
        BY BoundsAssumption
      <3>4. QED
        BY <1>1, <2>2, <3>1, <3>2, <3>3, BoundsAssumption
           DEF RoomToSettle, Appendable, Fits
    <2>3. QED
      BY <2>1, <2>2
  <1>3. CASE \E i \in Intents(log') : log'[i].kind = "owner_control"
    BY <1>3 DEF Reserve
  <1>4. CASE \A i \in Intents(log') : log'[i].kind # "owner_control"
    <2>1. \A o, p \in Open(log') : o = p
      BY <1>4 DEF OneAtATime
    <2>2. \A o, p \in Open(log) : o = p
      BY <1>1, <1>4 DEF OneAtATime
    <2>3. Open(log') = {} \/ \E o : Open(log') = {o}
      BY <2>1
    <2>4. Open(log') = {} \/ Cardinality(Open(log')) = 1
      BY <2>3, FS_Singleton
    <2>5. CASE r.type = "outcome" /\ r.outcome # "uncertain"
      <3>1. r.op \in Open(log)
        BY <2>5 DEF Appendable, Admits, AdmitsOutcome
      <3>2. Open(log') \subseteq Open(log) \ {r.op}
        BY <1>1, <2>5 DEF Open, Begun, Settled
      <3>3. Open(log') = {}
        BY <2>2, <3>1, <3>2
      <3>4. Cardinality(Open(log')) = 0
        BY <3>3, FS_EmptySet
      <3>5. Reserve(log, r) = 0
        BY <1>4, <2>5 DEF Reserve
      <3>6. QED
        BY <3>4, <3>5
    <2>6. CASE ~(r.type = "outcome" /\ r.outcome # "uncertain")
      <3>1. Reserve(log, r) = 1
        BY <1>4, <2>6, RecordFacts DEF Reserve
      <3>2. QED
        BY <2>4, <3>1
    <2>7. QED
      BY <2>5, <2>6
  <1>5. QED
    BY <1>3, <1>4

\* Histories with the same first records have the same prefixes of them.
LEMMA SamePrefix ==
  ASSUME NEW h \in Seq(Record), NEW g \in Seq(Record),
         NEW n \in 0..Len(h), n =< Len(g), \A i \in 1..n : g[i] = h[i]
  PROVE  SubSeq(g, 1, n) = SubSeq(h, 1, n)
  <1>1. /\ SubSeq(h, 1, n) = [i \in 1..n |-> h[i]]
        /\ SubSeq(g, 1, n) = [i \in 1..n |-> g[i]]
    OBVIOUS
  <1>2. QED
    BY <1>1

LEMMA FitsNext ==
  TypeOK /\ TypeOK' /\ OneAtATime /\ OneAtATime' /\ SettlementFits /\ [Next]_vars
    => SettlementFits'
  <1> SUFFICES ASSUME TypeOK, TypeOK', OneAtATime, OneAtATime',
                      SettlementFits, [Next]_vars
               PROVE  SettlementFits'
    OBVIOUS
  <1>1. ASSUME NEW n \in 0..Len(log), n =< Len(log'), \A i \in 1..n : log'[i] = log[i]
        PROVE  RoomToSettle(SubSeq(log', 1, n))
    <2>1. SubSeq(log', 1, n) = SubSeq(log, 1, n)
      BY <1>1, SamePrefix DEF TypeOK
    <2>2. QED
      BY <2>1 DEF SettlementFits
  <1>2. CASE UNCHANGED log
    BY <1>2 DEF SettlementFits
  <1>3. CASE Extends
    <2>1. PICK r \in Record : Appendable(log, r) /\ log' = Append(log, r)
      BY <1>3 DEF Extends
    <2>2. /\ Len(log') = Len(log) + 1
          /\ \A i \in 1..Len(log) : log'[i] = log[i]
          /\ Len(log) \in Nat
      BY <2>1, AppendFacts DEF TypeOK
    <2>3. SubSeq(log', 1, Len(log')) = log'
      BY DEF TypeOK
    <2>4. ASSUME NEW n \in 0..Len(log')
          PROVE  RoomToSettle(SubSeq(log', 1, n))
      <3>1. CASE n \in 0..Len(log)
        BY <1>1, <2>2, <3>1
      <3>2. CASE n = Len(log')
        BY <2>1, <2>3, <3>2, ReserveSuffices
      <3>3. QED
        BY <2>2, <3>1, <3>2
    <2>5. QED
      BY <2>4 DEF SettlementFits
  <1>4. CASE CutsBack
    <2>1. PICK m \in synced..Len(log) : log' = SubSeq(log, 1, m)
      BY <1>4 DEF CutsBack
    <2>2. m \in 0..Len(log) /\ Len(log') = m /\ \A i \in 1..m : log'[i] = log[i]
      BY <2>1, PrefixFacts DEF TypeOK
    <2>3. \A n \in 0..m : n \in 0..Len(log) /\ n =< Len(log') /\ (\A i \in 1..n : i \in 1..m)
      BY <2>2
    <2>4. QED
      BY <1>1, <2>2, <2>3 DEF SettlementFits
  <1>5. QED
    BY <1>2, <1>3, <1>4, StepOnLog

\* Whatever part of the history remains, MAX_RECORDS and MAX_TOTAL leave room
\* to settle all it leaves unsettled, with records of the largest size: the
\* reserve _append computes is enough, whichever limit is reached first.
THEOREM ReserveIsEnough == Spec => []SettlementFits
  <1>1. Init => SettlementFits
    <2> SUFFICES ASSUME Init PROVE SettlementFits
      OBVIOUS
    <2>1. Len(log) = 0 /\ SubSeq(log, 1, 0) = <<>>
      BY DEF Init
    <2>2. Open(<<>>) = {} /\ <<>> \in Seq(Record) /\ Len(<<>>) = 0
      BY DEF Open, Begun, Intents
    <2>3. Cardinality(Open(<<>>)) = 0 /\ Bytes(<<>>) = 0
      BY <2>2, FS_EmptySet, BytesFacts
    <2>4. RoomToSettle(<<>>)
      <3>1. 0 * MaxRecordBytes = 0
        BY BoundsAssumption
      <3>2. QED
        BY <2>2, <2>3, <3>1, BoundsAssumption DEF RoomToSettle
    <2>5. \A n \in 0..Len(log) : SubSeq(log, 1, n) = <<>>
      BY <2>1
    <2>6. QED
      BY <2>4, <2>5, Zenon DEF SettlementFits
  <1>2. TypeInv => TypeOK
    BY DEF TypeInv
  <1>3. QED
    BY <1>1, <1>2, FitsNext, SerialOneAtATime, Serial, HistoryHolds, PTL DEF Spec

-----------------------------------------------------------------------------
(* Refinement of the ledger *)

LEMMA GatingGrows ==
  ASSUME TypeOK, TypeOK', [Next]_vars
  PROVE  Gating(Durable) \subseteq Gating(Durable')
  <1>1. /\ Gating(Durable) =
             {log[i].op : i \in {j \in Intents(log) : j =< synced /\ ~Bypasses(log[j])}}
        /\ Intents(log) \subseteq 1..Len(log)
    BY GatingReading DEF TypeOK, Durable, Intents
  <1>2. Gating(Durable') =
          {log'[i].op : i \in {j \in Intents(log') : j =< synced' /\ ~Bypasses(log'[j])}}
    BY GatingReading DEF TypeOK, Durable
  <1>3. DOMAIN log' = 1..Len(log')
    BY DEF TypeOK
  <1>4. QED
    BY <1>1, <1>2, <1>3, DurableGrows DEF Intents

\* The durable history has at most one gating operation open.
LEMMA DurableOneAtATime ==
  ASSUME NEW h \in Seq(Record), NEW n \in 0..Len(h),
         \A j \in Intents(h) : Bypasses(h[j]) \/ \A i \in Intents(h) : i < j =>
            \E k \in OutcomesIn(h) :
              k < j /\ h[k].op = h[i].op /\ h[k].outcome # "uncertain"
  PROVE  \A o, p \in Gating(SubSeq(h, 1, n)) \cap Open(SubSeq(h, 1, n)) : o = p
  <1>1. /\ Gating(SubSeq(h, 1, n)) =
             {h[i].op : i \in {j \in Intents(h) : j =< n /\ ~Bypasses(h[j])}}
        /\ Settled(SubSeq(h, 1, n)) = {h[i].op : i \in {j \in OutcomesIn(h) :
                                   j =< n /\ h[j].outcome # "uncertain"}}
        /\ Intents(h) \subseteq 1..Len(h)
        /\ OutcomesIn(h) \subseteq 1..Len(h)
        /\ Len(h) \in Nat
    BY PrefixReading, GatingReading
  <1> SUFFICES ASSUME NEW i \in Intents(h), NEW j \in Intents(h),
                      i < j, j =< n, ~Bypasses(h[j]),
                      h[i].op \in Open(SubSeq(h, 1, n))
               PROVE  FALSE
    BY <1>1
  <1>2. PICK k \in OutcomesIn(h) :
          k < j /\ h[k].op = h[i].op /\ h[k].outcome # "uncertain"
    OBVIOUS
  <1>3. k =< n
    BY <1>1, <1>2
  <1>4. QED
    BY <1>1, <1>2, <1>3 DEF Open

LEMMA LedgerStep ==
  TypeInv /\ TypeInv' /\ HistoryInv /\ HistoryInv' /\ SerialHistory'
    /\ [Next]_vars => Ledger!Advance
  <1> SUFFICES ASSUME TypeInv, TypeInv', HistoryInv, HistoryInv', SerialHistory',
                      [Next]_vars
               PROVE  Ledger!Advance
    OBVIOUS
  <1> DEFINE now == [o \in Operations |-> StateOf(o)]
  <1>1. /\ synced =< synced' /\ synced' \in 0..Len(log') /\ synced \in 0..Len(log)
        /\ \A i \in 1..synced : log'[i] = log[i]
        /\ log \in Seq(Record) /\ log' \in Seq(Record)
        /\ DOMAIN log' = 1..Len(log') /\ Len(log') \in Nat
    BY DurableGrows DEF TypeInv, TypeOK
  <1>2. /\ Settled(Durable) = {log[i].op : i \in {j \in OutcomesIn(log) :
                                 j =< synced /\ log[j].outcome # "uncertain"}}
        /\ OutcomesIn(log) \subseteq 1..Len(log)
    BY <1>1, PrefixReading DEF Durable
  <1>3. /\ Settled(Durable') = {log'[i].op : i \in {j \in OutcomesIn(log') :
                                 j =< synced' /\ log'[j].outcome # "uncertain"}}
        /\ OutcomesIn(log') \subseteq 1..Len(log')
    BY <1>1, PrefixReading DEF Durable
  <1>4. /\ Gating(Durable) \subseteq Gating(Durable')
        /\ Gating(Durable) \subseteq Begun(Durable)
        /\ Gating(Durable') \subseteq Begun(Durable')
    BY <1>1, GatingGrows, GatingReading DEF TypeInv, Durable
  <1>5. ASSUME NEW k \in OutcomesIn(log), k =< synced, log[k].outcome # "uncertain"
        PROVE  SettledAs(Durable, log[k].op) = log[k].outcome
    BY <1>1, <1>5, SettledAsItSays DEF HistoryInv, Coherent, SettledOnce, Durable
  <1>6. ASSUME NEW k \in OutcomesIn(log'), k =< synced', log'[k].outcome # "uncertain"
        PROVE  SettledAs(Durable', log'[k].op) = log'[k].outcome
    BY <1>1, <1>6, SettledAsItSays DEF HistoryInv, Coherent, SettledOnce, Durable
  <1>7. ASSUME NEW o \in Settled(Durable')
        PROVE  SettledAs(Durable', o) \in Outcomes \ {"uncertain"}
    <2>1. PICK k \in OutcomesIn(log') : /\ k =< synced'
                                        /\ log'[k].outcome # "uncertain"
                                        /\ o = log'[k].op
      BY <1>3, <1>7
    <2>2. log'[k] \in Record /\ log'[k].type = "outcome"
      BY <1>1 DEF OutcomesIn
    <2>3. log'[k].outcome \in Outcomes
      BY <2>2 DEF Record, Intent, WorkIntent, ControlIntent, Outcome
    <2>4. QED
      BY <1>6, <2>1, <2>3
  <1>8. now' \in [Operations -> {"absent", "open"} \cup (Outcomes \ {"uncertain"})]
    BY <1>4, <1>7 DEF StateOf, Open
  <1>9. ASSUME NEW o \in Operations, now[o] \in Outcomes \ {"uncertain"}
        PROVE  now'[o] = now[o]
    <2>1. o \in Settled(Durable) /\ o \in Gating(Durable)
      BY <1>4, <1>9 DEF StateOf, Open, Outcomes
    <2>2. PICK k \in OutcomesIn(log) : /\ k =< synced
                                       /\ log[k].outcome # "uncertain"
                                       /\ o = log[k].op
      BY <1>2, <2>1
    <2>3. k \in OutcomesIn(log') /\ log'[k] = log[k] /\ k =< synced'
      BY <1>1, <1>2, <2>2 DEF OutcomesIn
    <2>4. o \in Settled(Durable') /\ o \in Gating(Durable')
      BY <1>3, <1>4, <2>1, <2>2, <2>3
    <2>5. SettledAs(Durable, o) = SettledAs(Durable', o)
      BY <1>5, <1>6, <2>2, <2>3
    <2>6. QED
      BY <2>1, <2>4, <2>5 DEF StateOf, Open
  <1>10. ASSUME NEW o \in Operations, now[o] = "open"
        PROVE  now'[o] # "absent"
    <2>1. o \in Gating(Durable')
      BY <1>4, <1>10 DEF StateOf
    <2>2. QED
      BY <1>4, <1>7, <2>1 DEF StateOf, Open, Outcomes
  <1>11. ASSUME NEW o \in Operations, NEW p \in Operations,
                now'[o] = "open", now'[p] = "open"
         PROVE  o = p
    <2>1. ASSUME NEW q \in Operations, now'[q] = "open"
          PROVE  q \in Gating(Durable') \cap Open(Durable')
      <3>1. q \in Gating(Durable') /\ q \in Begun(Durable')
        BY <1>4, <2>1 DEF StateOf
      <3>2. "open" \notin Outcomes
        BY DEF Outcomes
      <3>3. q \notin Settled(Durable') \/ q \in Open(Durable')
        BY <1>7, <2>1, <3>1, <3>2 DEF StateOf
      <3>4. QED
        BY <3>1, <3>3 DEF Open
    <2>2. \A o1, p1 \in Gating(Durable') \cap Open(Durable') : o1 = p1
      BY <1>1, DurableOneAtATime DEF SerialHistory, Durable
    <2>3. QED
      BY <1>11, <2>1, <2>2
  <1>12. QED
    BY <1>8, <1>9, <1>10, <1>11 DEF Ledger!Advance, Ledger!Final, Ledger!OpenIn

\* The durable history implements the ledger its callers rely on: whatever
\* crashes, failed flushes and losses of power do to the directory, an
\* operation that others wait for is absent, then open, then settled for good,
\* and no two of them are open together.
THEOREM JournalImplementsLedger == Spec => ImplementsLedger
  <1>1. Init => Ledger!Init
    BY DEF Init, Ledger!Init, StateOf, Durable, Gating, Intents
  <1>2. QED
    BY <1>1, LedgerStep, Serial, HistoryHolds, PTL
       DEF Spec, ImplementsLedger, Ledger!Spec
=============================================================================
