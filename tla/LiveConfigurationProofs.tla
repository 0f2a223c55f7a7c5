----------------------- MODULE LiveConfigurationProofs ------------------------
(***************************************************************************)
(* What the store of configuration revisions promises its readers, and     *)
(* what the runtimes that share it promise their owners, proved for any    *)
(* writers, participants, owners, edits and number of revisions.           *)
(*                                                                         *)
(* The argument about the store rests on two facts the lease carries from  *)
(* the check of commit or recover to the write of HEAD, across every       *)
(* failure and death in between:                                           *)
(*   - the candidate continues HEAD or is HEAD, and                        *)
(*   - nothing else is announced (before the intent is written), or the    *)
(*     candidate itself is (after it).                                     *)
(* Every step of the runtimes is a step of the store or leaves it alone.   *)
(* The argument about the runtimes follows an edit from its staging: it is *)
(* in no revision its runtime has accepted, and a revision that carries it *)
(* is one this runtime will recognise as its own, by the candidate it      *)
(* remembers or by the transaction of its capture.                         *)
(***************************************************************************)
EXTENDS LiveConfiguration, SequenceTheorems, FiniteSetTheorems, TLAPS

\* Every revision continues an earlier one, and remembers exactly its line.
Chained ==
  \A x \in Revisions :
    /\ Parent(x) \in 0..(x - 1)
    /\ objects[x].past = LineOf(Parent(x))

LeaseFollows ==
  lease # None =>
    /\ head \in {lease.candidate, Parent(lease.candidate)}
    /\ lease.next = "intent" => intent \in {0, head, lease.candidate}
    /\ lease.next = "head" => intent = lease.candidate

StoreInv == StoreTypeOK /\ Chained /\ LeaseFollows /\ IntentLeadsHead

-----------------------------------------------------------------------------
(* Sequences of revisions *)

LEMMA RevisionsAreNumbers ==
  ASSUME objects \in Seq(Object)
  PROVE  /\ Revisions = 1..Len(objects)
         /\ Len(objects) \in Nat
         /\ \A x \in Revisions : objects[x] \in Object /\ objects[x].past \in Seq(Nat)
  <1>1. Len(objects) \in Nat /\ Revisions = 1..Len(objects)
    BY DEF Revisions
  <1>2. \A x \in Revisions : objects[x] \in Object
    BY <1>1
  <1>3. QED
    BY <1>1, <1>2 DEF Object

\* The line of a revision, or of none, is a sequence of revisions.
LEMMA LineIsSequence ==
  ASSUME objects \in Seq(Object), NEW x \in 0..Len(objects)
  PROVE  LineOf(x) \in Seq(Nat)
  <1>1. CASE x = 0
    BY <1>1 DEF LineOf
  <1>2. CASE x # 0
    <2>1. x \in Revisions /\ x \in Nat
      BY <1>2, RevisionsAreNumbers
    <2>2. objects[x].past \in Seq(Nat)
      BY <2>1, RevisionsAreNumbers
    <2>3. QED
      BY <1>2, <2>1, <2>2, AppendProperties DEF LineOf
  <1>3. QED
    BY <1>1, <1>2

\* A new revision continues HEAD and disturbs no other.
LEMMA SealingExtends ==
  ASSUME StoreTypeOK, NEW content \in Contents, NEW stored \in BOOLEAN,
         objects' = Sealed(content, stored)
  PROVE  /\ objects' \in Seq(Object)
         /\ Len(objects') = Len(objects) + 1
         /\ \A x \in Revisions : x \in Revisions' /\ objects'[x] = objects[x]
         /\ objects'[Len(objects')].past = LineOf(head)
  <1> DEFINE new == [past |-> LineOf(head), content |-> content, stored |-> stored]
  <1>1. new \in Object
    BY LineIsSequence DEF StoreTypeOK, Object
  <1>2. objects \in Seq(Object) /\ objects' = Append(objects, new)
    BY DEF StoreTypeOK, Sealed
  <1> HIDE DEF new
  <1>3. /\ objects' \in Seq(Object) /\ Len(objects') = Len(objects) + 1
        /\ \A i \in 1..Len(objects) : objects'[i] = objects[i]
        /\ objects'[Len(objects) + 1] = new
    BY <1>1, <1>2, AppendProperties
  <1>4. Revisions' = 1..Len(objects') /\ Revisions = 1..Len(objects) /\ Len(objects) \in Nat
    BY <1>2, <1>3 DEF Revisions
  <1>5. objects'[Len(objects')].past = LineOf(head)
    BY <1>3 DEF new
  <1>6. \A x \in Revisions : x \in Revisions' /\ objects'[x] = objects[x]
    BY <1>3, <1>4
  <1>7. QED
    BY <1>3, <1>5, <1>6

\* What is recorded of the revisions that were there before stays as it was.
LEMMA LinesStay ==
  ASSUME StoreTypeOK,
         \A x \in Revisions : x \in Revisions' /\ objects'[x] = objects[x]
  PROVE  /\ \A x \in Revisions : Parent(x)' = Parent(x)
         /\ \A x \in 0..Len(objects) : LineOf(x)' = LineOf(x)
  <1>1. \A x \in Revisions : Parent(x)' = Parent(x)
    BY DEF Parent
  <1>2. ASSUME NEW x \in 0..Len(objects)
        PROVE  LineOf(x)' = LineOf(x)
    <2>1. CASE x = 0
      BY <2>1 DEF LineOf
    <2>2. CASE x # 0
      <3>1. x \in Revisions
        BY <2>2, RevisionsAreNumbers DEF StoreTypeOK
      <3>2. QED
        BY <2>2, <3>1 DEF LineOf
    <2>3. QED
      BY <2>1, <2>2
  <1>3. QED
    BY <1>1, <1>2

\* So does the line of the parent of a revision, which is no constant.
LEMMA ParentLineStays ==
  ASSUME StoreTypeOK,
         \A z \in Revisions : z \in Revisions' /\ objects'[z] = objects[z],
         NEW x, NEW y \in 0..Len(objects), Parent(x)' = y
  PROVE  LineOf(Parent(x))' = LineOf(y)
  <1>1. LineOf(Parent(x))' = IF y = 0 THEN <<>> ELSE Append(objects'[y].past, y)
    BY DEF LineOf
  <1>2. CASE y = 0
    BY <1>1, <1>2 DEF LineOf
  <1>3. CASE y # 0
    <2>1. y \in Revisions
      BY <1>3, RevisionsAreNumbers DEF StoreTypeOK
    <2>2. QED
      BY <1>1, <1>3, <2>1 DEF LineOf
  <1>4. QED
    BY <1>2, <1>3

\* The revision sealed last continues the one that was HEAD.
LEMMA NewContinuesHead ==
  ASSUME StoreTypeOK, NEW content \in Contents, NEW stored \in BOOLEAN,
         objects' = Sealed(content, stored), NEW x, x = Len(objects')
  PROVE  Parent(x)' = head
  <1> DEFINE past == objects'[x].past
  <1>1. past = LineOf(head) /\ head \in 0..Len(objects) /\ objects \in Seq(Object)
    BY SealingExtends DEF StoreTypeOK
  <1>2. Parent(x)' = IF past = <<>> THEN 0 ELSE past[Len(past)]
    BY DEF Parent
  <1> HIDE DEF past
  <1>3. CASE head = 0
    BY <1>1, <1>2, <1>3 DEF LineOf
  <1>4. CASE head # 0
    <2>1. head \in Revisions
      BY <1>1, <1>4, RevisionsAreNumbers
    <2>2. objects[head].past \in Seq(Nat) /\ head \in Nat
      BY <1>1, <2>1, RevisionsAreNumbers
    <2>3. past = Append(objects[head].past, head)
      BY <1>1, <1>4 DEF LineOf
    <2>4. /\ Len(past) = Len(objects[head].past) + 1
          /\ past[Len(objects[head].past) + 1] = head
          /\ past # <<>>
      <3> DEFINE line == objects[head].past
      <3>1. line \in Seq(Nat) /\ head \in Nat /\ past = Append(line, head)
        BY <2>2, <2>3
      <3> HIDE DEF line
      <3>2. /\ Len(past) = Len(line) + 1 /\ past[Len(line) + 1] = head /\ past # <<>>
        BY <3>1, AppendProperties
      <3>3. QED
        BY <3>2 DEF line
    <2>5. QED
      BY <1>2, <2>4
  <1>5. QED
    BY <1>3, <1>4

-----------------------------------------------------------------------------
(* Steps that change no object *)

\* Announcing, publishing, failing and recovering leave every line alone.
LEMMA SameObjectsSameLines ==
  ASSUME UNCHANGED objects, Chained
  PROVE  /\ Chained' /\ Revisions' = Revisions
         /\ \A x : Parent(x)' = Parent(x) /\ LineOf(x)' = LineOf(x)
  <1>1. Revisions' = Revisions /\ \A x : Parent(x)' = Parent(x) /\ LineOf(x)' = LineOf(x)
    BY DEF Revisions, Parent, LineOf
  <1>2. Chained'
    BY DEF Chained, Revisions, Parent, LineOf
  <1>3. QED
    BY <1>1, <1>2

-----------------------------------------------------------------------------
(* The steps *)

\* Sealing a revision, whether or not its object was written.
LEMMA SealKeepsObjects ==
  ASSUME StoreTypeOK, Chained, NEW content \in Contents, NEW stored \in BOOLEAN,
         objects' = Sealed(content, stored)
  PROVE  /\ Chained' /\ objects' \in Seq(Object)
         /\ Len(objects') \in Revisions' /\ Len(objects) =< Len(objects')
         /\ \A x \in Revisions : Parent(x)' = Parent(x)
  <1>1. /\ objects' \in Seq(Object) /\ Len(objects') = Len(objects) + 1
        /\ \A x \in Revisions : x \in Revisions' /\ objects'[x] = objects[x]
        /\ objects'[Len(objects')].past = LineOf(head)
    BY SealingExtends
  <1>2. /\ Revisions = 1..Len(objects) /\ Revisions' = 1..Len(objects')
        /\ Len(objects) \in Nat
    BY <1>1 DEF Revisions, StoreTypeOK
  <1>3. /\ \A x \in Revisions : Parent(x)' = Parent(x)
        /\ \A x \in 0..Len(objects) : LineOf(x)' = LineOf(x)
    BY <1>1, LinesStay
  <1>4. ASSUME NEW x \in Revisions'
        PROVE  Parent(x)' \in 0..(x - 1) /\ objects'[x].past = LineOf(Parent(x))'
    <2>1. CASE x \in Revisions
      <3>1. Parent(x) \in 0..(x - 1) /\ objects[x].past = LineOf(Parent(x))
        BY <2>1 DEF Chained
      <3>2. Parent(x) \in 0..Len(objects)
        BY <1>2, <2>1, <3>1
      <3>3. PICK y \in 0..Len(objects) : y = Parent(x)
        BY <3>2
      <3>4. Parent(x)' = y
        BY <1>3, <2>1, <3>3
      <3>5. LineOf(Parent(x))' = LineOf(y)
        BY <1>1, <3>4, ParentLineStays
      <3>6. LineOf(Parent(x)) = LineOf(y)
        BY <3>3
      <3>7. QED
        BY <1>1, <1>3, <2>1, <3>1, <3>5, <3>6
    <2>2. CASE x \notin Revisions
      <3>1. x = Len(objects') /\ x - 1 = Len(objects)
        BY <1>1, <1>2, <2>2
      <3>2. Parent(x)' = head
        BY <3>1, NewContinuesHead
      <3>3. PICK y \in 0..Len(objects) : y = head
        BY DEF StoreTypeOK
      <3>4. LineOf(Parent(x))' = LineOf(y)
        BY <1>1, <3>2, <3>3, ParentLineStays
      <3>5. LineOf(head) = LineOf(y)
        BY <3>3
      <3>6. Parent(x)' \in 0..(x - 1)
        BY <3>1, <3>2, <3>3
      <3>7. QED
        BY <1>1, <3>1, <3>4, <3>5, <3>6
    <2>3. QED
      BY <2>1, <2>2
  <1>5. Chained'
    BY <1>4 DEF Chained
  <1>6. QED
    BY <1>1, <1>2, <1>3, <1>5

-----------------------------------------------------------------------------
(* The invariant *)

LEMMA SealKeepsInv ==
  ASSUME StoreInv, NEW w \in Writers, NEW e, NEW content \in Contents,
         Seal(w, e, content)
  PROVE  StoreInv'
  <1>1. /\ objects' = Sealed(content, TRUE) /\ intent' = intent /\ head' = head
        /\ lease' = [who |-> w, candidate |-> Len(objects'), next |-> "intent"]
        /\ IntentSettled /\ StoreTypeOK /\ Chained /\ IntentLeadsHead
    BY DEF Seal, MayCommit, StoreInv
  <1>2. /\ Chained' /\ objects' \in Seq(Object)
        /\ Len(objects') \in Revisions' /\ Len(objects) =< Len(objects')
        /\ \A x \in Revisions : Parent(x)' = Parent(x)
    BY <1>1, SealKeepsObjects
  <1>3. /\ Len(objects) \in Nat /\ Len(objects') \in Nat
        /\ Revisions = 1..Len(objects) /\ intent \in 0..Len(objects)
        /\ head \in 0..Len(objects)
    <2>1. objects \in Seq(Object) /\ intent \in 0..Len(objects) /\ head \in 0..Len(objects)
      BY <1>1 DEF StoreTypeOK
    <2>2. Len(objects') \in Nat
      BY <1>2
    <2>3. QED
      BY <2>1, <2>2, RevisionsAreNumbers
  <1>4. StoreTypeOK'
    <2>1. lease' \in Lease'
      BY <1>1, <1>3 DEF Lease
    <2>2. lease.candidate' \in Revisions'
      BY <1>1, <1>2
    <2>3. intent' \in 0..Len(objects') /\ head' \in 0..Len(objects')
      <3>1. intent' = intent /\ head' = head /\ Len(objects) =< Len(objects')
        BY <1>1, <1>2
      <3>2. QED
        BY <1>3, <3>1
    <2>4. QED
      BY <1>2, <2>1, <2>2, <2>3 DEF StoreTypeOK
  <1>5. LeaseFollows'
    <2>1. PICK x : x = Len(objects')
      OBVIOUS
    <2>2. Parent(x)' = head
      BY <1>1, <2>1, NewContinuesHead
    <2>3. lease.candidate' = x /\ lease.next' = "intent"
      BY <1>1, <2>1
    <2>4. Parent(lease.candidate)' = head
      BY <2>2, <2>3 DEF Parent
    <2>5. QED
      BY <1>1, <2>3, <2>4 DEF LeaseFollows, IntentSettled
  <1>6. IntentLeadsHead'
    <2>1. intent # 0 => Parent(intent)' = Parent(intent)
      <3>1. PICK x : x = intent
        OBVIOUS
      <3>2. x # 0 => x \in Revisions
        BY <1>3, <3>1
      <3>3. x # 0 => Parent(x)' = Parent(x)
        BY <1>2, <3>2
      <3>4. intent' = x
        BY <1>1, <3>1
      <3>5. QED
        BY <3>1, <3>3, <3>4 DEF Parent
    <2>2. QED
      BY <1>1, <2>1 DEF IntentLeadsHead
  <1>7. QED
    BY <1>2, <1>4, <1>5, <1>6 DEF StoreInv

LEMMA SealFailsKeepsInv ==
  ASSUME StoreInv, NEW w \in Writers, NEW e, NEW content \in Contents,
         SealFails(w, e, content)
  PROVE  StoreInv'
  <1>1. PICK stored \in BOOLEAN : objects' = Sealed(content, stored)
    BY DEF SealFails
  <1>2. /\ intent' = intent /\ head' = head /\ lease' = lease /\ lease = None
        /\ StoreTypeOK /\ Chained /\ IntentLeadsHead
    BY DEF SealFails, MayCommit, StoreInv
  <1>3. /\ Chained' /\ objects' \in Seq(Object) /\ Len(objects) =< Len(objects')
        /\ \A x \in Revisions : Parent(x)' = Parent(x)
    BY <1>1, <1>2, SealKeepsObjects
  <1>4. /\ Len(objects) \in Nat /\ Len(objects') \in Nat
        /\ Revisions = 1..Len(objects) /\ intent \in 0..Len(objects)
        /\ head \in 0..Len(objects)
    BY <1>2, <1>3 DEF StoreTypeOK, Revisions
  <1>5. StoreTypeOK'
    BY <1>2, <1>3, <1>4 DEF StoreTypeOK
  <1>6. intent # 0 => Parent(intent)' = Parent(intent)
    BY <1>2, <1>3, <1>4 DEF Parent
  <1>7. LeaseFollows' /\ IntentLeadsHead'
    BY <1>2, <1>6 DEF LeaseFollows, IntentLeadsHead
  <1>8. QED
    BY <1>3, <1>5, <1>7 DEF StoreInv

LEMMA TakeRecoveryKeepsInv ==
  ASSUME StoreInv, NEW w \in Writers, NEW x \in Revisions, TakeRecovery(w, x)
  PROVE  StoreInv'
  <1>1. /\ lease' = [who |-> w, candidate |-> x, next |-> "intent"]
        /\ UNCHANGED <<objects, intent, head>>
        /\ intent \in {0, head, x} /\ head \in {x, Parent(x)}
        /\ StoreTypeOK /\ Chained /\ IntentLeadsHead
    BY DEF TakeRecovery, Recoverable, StoreInv
  <1>2. /\ Chained' /\ Revisions' = Revisions
        /\ \A y : Parent(y)' = Parent(y) /\ LineOf(y)' = LineOf(y)
    BY <1>1, SameObjectsSameLines
  <1>3. x \in Nat
    BY <1>1 DEF StoreTypeOK, Revisions
  <1>4. StoreTypeOK'
    BY <1>1, <1>2, <1>3 DEF StoreTypeOK, Lease
  <1>5. LeaseFollows'
    BY <1>1 DEF LeaseFollows, Parent
  <1>6. IntentLeadsHead'
    BY <1>1 DEF IntentLeadsHead, Parent
  <1>7. QED
    BY <1>2, <1>4, <1>5, <1>6 DEF StoreInv

\* Announcing, whether or not the intent was written.
LEMMA AnnounceKeepsInv ==
  ASSUME StoreInv, NEW w \in Writers, Announce(w) \/ AnnounceFails(w)
  PROVE  StoreInv'
  <1>1. /\ UNCHANGED <<objects, head>> /\ intent' \in {intent, lease.candidate}
        /\ lease # None /\ lease.next = "intent"
        /\ \/ lease' = None
           \/ lease' = [lease EXCEPT !.next = "head"] /\ intent' = lease.candidate
    BY DEF Announce, AnnounceFails, Holds
  <1>2. /\ StoreTypeOK /\ Chained /\ IntentLeadsHead
        /\ lease \in Lease /\ lease.candidate \in Revisions
        /\ head \in {lease.candidate, Parent(lease.candidate)}
    BY <1>1 DEF StoreInv, StoreTypeOK, LeaseFollows
  <1>3. /\ Chained' /\ Revisions' = Revisions
    BY <1>1, <1>2, SameObjectsSameLines
  <1>4. intent' \in 0..Len(objects) /\ Revisions = 1..Len(objects)
    BY <1>1, <1>2 DEF StoreTypeOK, Revisions
  <1>5. lease' # None => lease' \in Lease /\ lease'.candidate = lease.candidate
                         /\ lease'.next = "head"
    BY <1>1, <1>2 DEF Lease
  <1>6. StoreTypeOK'
    BY <1>1, <1>2, <1>3, <1>4, <1>5 DEF StoreTypeOK, Lease
  <1>7. LeaseFollows'
    BY <1>1, <1>2, <1>5 DEF LeaseFollows, Parent
  <1>8. IntentLeadsHead'
    BY <1>1, <1>2 DEF IntentLeadsHead, Parent
  <1>9. QED
    BY <1>3, <1>6, <1>7, <1>8 DEF StoreInv

\* Publishing, whether or not HEAD was written, and the death of a writer.
LEMMA PublishKeepsInv ==
  ASSUME StoreInv, NEW w \in Writers,
         Publish(w) \/ PublishFails(w) \/ DropLease(w)
  PROVE  StoreInv'
  <1>1. /\ UNCHANGED <<objects, intent>> /\ lease' \in {None, lease}
        /\ \/ head' = head
           \/ head' = lease.candidate /\ lease' = None /\ lease # None /\ lease.next = "head"
    BY DEF Publish, PublishFails, DropLease, Holds
  <1>2. /\ StoreTypeOK /\ Chained /\ IntentLeadsHead /\ LeaseFollows
    BY DEF StoreInv
  <1>3. Chained' /\ Revisions' = Revisions
    BY <1>1, <1>2, SameObjectsSameLines
  <1>4. head' \in 0..Len(objects)
    BY <1>1, <1>2 DEF StoreTypeOK, Revisions
  <1>5. StoreTypeOK'
    BY <1>1, <1>2, <1>3, <1>4 DEF StoreTypeOK, Lease
  <1>6. LeaseFollows'
    BY <1>1, <1>2 DEF LeaseFollows, Parent
  <1>7. IntentLeadsHead'
    BY <1>1, <1>2 DEF IntentLeadsHead, LeaseFollows, Parent
  <1>8. QED
    BY <1>3, <1>5, <1>6, <1>7 DEF StoreInv

\* The invariant of the store survives every step of it.
LEMMA StoreStepKeepsInv ==
  ASSUME StoreInv, [StoreNext]_storeVars
  PROVE  StoreInv'
  <1>1. CASE StoreNext
    <2>1. PICK w \in Writers :
            \/ \E c \in Contents, e \in 0..Len(objects) : Seal(w, e, c) \/ SealFails(w, e, c)
            \/ \E x \in Revisions : TakeRecovery(w, x)
            \/ Announce(w) \/ AnnounceFails(w)
            \/ Publish(w) \/ PublishFails(w)
            \/ DropLease(w)
      BY <1>1 DEF StoreNext
    <2>2. QED
      BY <2>1, SealKeepsInv, SealFailsKeepsInv, TakeRecoveryKeepsInv,
         AnnounceKeepsInv, PublishKeepsInv
  <1>2. CASE UNCHANGED storeVars
    BY <1>2 DEF storeVars, StoreInv, StoreTypeOK, Chained, LeaseFollows,
                IntentLeadsHead, Revisions, Parent, LineOf, Lease
  <1>3. QED
    BY <1>1, <1>2

LEMMA StoreInvStarts == ASSUME StoreInit PROVE StoreInv
  <1>1. objects = <<>> /\ Revisions = {} /\ intent = 0 /\ head = 0 /\ lease = None
    BY DEF StoreInit, Revisions
  <1>2. StoreTypeOK
    BY <1>1 DEF StoreTypeOK
  <1>3. Chained /\ LeaseFollows /\ IntentLeadsHead
    BY <1>1 DEF Chained, LeaseFollows, IntentLeadsHead
  <1>4. QED
    BY <1>2, <1>3 DEF StoreInv

LEMMA StoreInvHolds == StoreSpec => []StoreInv
  BY StoreInvStarts, StoreStepKeepsInv, PTL DEF StoreSpec

-----------------------------------------------------------------------------
(* Theorems *)

\* The store keeps its types: HEAD and the intent name retained revisions.
THEOREM StoreTypes == StoreSpec => []StoreTypeOK
  BY StoreInvHolds, PTL DEF StoreInv

\* Whoever fails or dies, an announced revision is HEAD or continues HEAD, so
\* that recover can finish it (the order of the writes in commit and recover).
THEOREM IntentLeads == StoreSpec => []IntentLeadsHead
  BY StoreInvHolds, PTL DEF StoreInv

\* From the announcement of a revision until it is HEAD nobody publishes,
\* announces or seals another (the checks of commit and recover).
THEOREM IntentIsBinding == StoreSpec => IntentBinds
  <1>1. StoreInv /\ [StoreNext]_storeVars =>
          [intent \notin {0, head} =>
             /\ head' \in {head, intent}
             /\ intent' = intent
             /\ objects' = objects]_storeVars
    <2> SUFFICES ASSUME StoreInv, StoreNext, intent \notin {0, head}
                 PROVE  head' \in {head, intent} /\ intent' = intent /\ objects' = objects
      OBVIOUS
    <2>1. PICK w \in Writers :
            \/ \E c \in Contents, e \in 0..Len(objects) : Seal(w, e, c) \/ SealFails(w, e, c)
            \/ \E x \in Revisions : TakeRecovery(w, x)
            \/ Announce(w) \/ AnnounceFails(w)
            \/ Publish(w) \/ PublishFails(w)
            \/ DropLease(w)
      BY DEF StoreNext
    <2>2. ~(\E c \in Contents, e \in 0..Len(objects) : Seal(w, e, c) \/ SealFails(w, e, c))
      BY DEF Seal, SealFails, MayCommit, IntentSettled
    <2>3. CASE \E x \in Revisions : TakeRecovery(w, x)
      BY <2>3 DEF TakeRecovery
    <2>4. CASE Announce(w) \/ AnnounceFails(w)
      BY <2>4 DEF Announce, AnnounceFails, Holds, StoreInv, LeaseFollows
    <2>5. CASE Publish(w) \/ PublishFails(w)
      BY <2>5 DEF Publish, PublishFails, Holds, StoreInv, LeaseFollows
    <2>6. CASE DropLease(w)
      BY <2>6 DEF DropLease
    <2>7. QED
      BY <2>1, <2>2, <2>3, <2>4, <2>5, <2>6
  <1>2. QED
    BY <1>1, StoreInvHolds, PTL DEF StoreSpec, IntentBinds

\* Sealing leaves the line of HEAD as it is.
LEMMA SealingKeepsTheLine ==
  ASSUME StoreInv, NEW w \in Writers, NEW e, NEW c \in Contents,
         Seal(w, e, c) \/ SealFails(w, e, c)
  PROVE  LineOf(head)' = LineOf(head)
  <1>1. PICK stored \in BOOLEAN : objects' = Sealed(c, stored)
    BY DEF Seal, SealFails
  <1>2. head' = head /\ StoreTypeOK
    BY DEF Seal, SealFails, StoreInv
  <1>3. PICK y \in 0..Len(objects) : y = head
    BY <1>2 DEF StoreTypeOK
  <1>4. LineOf(y)' = LineOf(y)
    BY <1>1, <1>2, SealingExtends, LinesStay
  <1>5. QED
    BY <1>2, <1>3, <1>4 DEF LineOf

\* The history that readers follow grows by one revision at a time and is never
\* rewritten (_publish replaces HEAD only by a revision that continues it).
THEOREM LineOnlyGrows == StoreSpec => LineGrows
  <1>1. StoreInv /\ [StoreNext]_storeVars =>
          [LineOf(head)' # LineOf(head) =>
             /\ LineOf(head)' = Append(LineOf(head), head')
             /\ \A x \in Revisions : objects'[x] = objects[x]]_storeVars
    <2> SUFFICES ASSUME StoreInv, StoreNext, LineOf(head)' # LineOf(head)
                 PROVE  /\ LineOf(head)' = Append(LineOf(head), head')
                        /\ \A x \in Revisions : objects'[x] = objects[x]
      OBVIOUS
    <2>1. PICK w \in Writers :
            \/ \E c \in Contents, e \in 0..Len(objects) : Seal(w, e, c) \/ SealFails(w, e, c)
            \/ \E x \in Revisions : TakeRecovery(w, x)
            \/ Announce(w) \/ AnnounceFails(w)
            \/ Publish(w) \/ PublishFails(w)
            \/ DropLease(w)
      BY DEF StoreNext
    <2>2. ~(\E c \in Contents, e \in 0..Len(objects) : Seal(w, e, c) \/ SealFails(w, e, c))
      BY SealingKeepsTheLine
    <2>3. ASSUME UNCHANGED <<objects, head>> PROVE FALSE
      BY <2>3 DEF LineOf
    <2>4. Publish(w) \/ PublishFails(w)
      BY <2>1, <2>2, <2>3 DEF TakeRecovery, Announce, AnnounceFails, DropLease
    <2>5. /\ lease # None /\ head' = lease.candidate /\ objects' = objects
          /\ head' # head
      BY <2>3, <2>4 DEF Publish, PublishFails, Holds
    <2>6. /\ lease.candidate \in Revisions /\ head = Parent(lease.candidate)
          /\ objects[lease.candidate].past = LineOf(Parent(lease.candidate))
      BY <2>5 DEF StoreInv, StoreTypeOK, LeaseFollows, Chained
    <2>7. lease.candidate # 0
      BY <2>6 DEF StoreInv, StoreTypeOK, Revisions
    <2>8. LineOf(head)' = Append(objects[lease.candidate].past, lease.candidate)
      BY <2>5, <2>7 DEF LineOf
    <2>9. QED
      BY <2>5, <2>6, <2>8
  <1>2. QED
    BY <1>1, StoreInvHolds, PTL DEF StoreSpec, LineGrows

-----------------------------------------------------------------------------
(* Lines of any objects *)

\* LineOf, and the edits it carries, as functions of the objects.
LineIn(objs, x) == IF x = 0 THEN <<>> ELSE Append(objs[x].past, x)

Published(objs, x) == UNION {objs[y].content.edits : y \in Range(LineIn(objs, x))}

\* Revision x, or none, is part of the line of y.
OnLine(objs, x, y) == x = 0 \/ x \in Range(LineIn(objs, y))

\* A predecessor of a revision had the line of this revision up to itself.
Prefixes ==
  \A x \in Revisions : \A i \in 1..Len(objects[x].past) :
    /\ objects[x].past[i] \in 1..(x - 1)
    /\ LineIn(objects, objects[x].past[i]) = SubSeq(objects[x].past, 1, i)

LinesInv == StoreInv /\ Prefixes

LEMMA AppendedPrefix ==
  ASSUME NEW s \in Seq(Nat), NEW x \in Nat, NEW i \in 1..Len(s)
  PROVE  SubSeq(Append(s, x), 1, i) = SubSeq(s, 1, i)
  <1>1. Append(s, x) \in Seq(Nat) /\ Len(Append(s, x)) = Len(s) + 1
    BY AppendProperties
  <1>2. \A j \in 1..Len(s) : Append(s, x)[j] = s[j]
    BY AppendProperties
  <1>3. /\ SubSeq(Append(s, x), 1, i) \in Seq(Nat)
        /\ Len(SubSeq(Append(s, x), 1, i)) = i
        /\ \A j \in 1..i : SubSeq(Append(s, x), 1, i)[j] = Append(s, x)[j]
    <2>1. \A j \in 1..i : Append(s, x)[j] \in Nat
      BY <1>1, ElementOfSeq
    <2>2. QED
      BY <2>1, SubSeqProperties
  <1>4. /\ SubSeq(s, 1, i) \in Seq(Nat) /\ Len(SubSeq(s, 1, i)) = i
        /\ \A j \in 1..i : SubSeq(s, 1, i)[j] = s[j]
    <2>1. \A j \in 1..i : s[j] \in Nat
      BY ElementOfSeq
    <2>2. QED
      BY <2>1, SubSeqProperties
  <1>5. QED
    BY <1>2, <1>3, <1>4, SeqEqual

\* A line consists of retained revisions, each with its own line up to itself.
LEMMA LineFacts ==
  ASSUME LinesInv, NEW x \in 0..Len(objects)
  PROVE  /\ LineIn(objects, x) \in Seq(Nat)
         /\ \A i \in 1..Len(LineIn(objects, x)) :
              /\ LineIn(objects, x)[i] \in 1..x
              /\ LineIn(objects, LineIn(objects, x)[i]) = SubSeq(LineIn(objects, x), 1, i)
         /\ x # 0 => /\ x \in Revisions
                     /\ LineIn(objects, x) = Append(objects[x].past, x)
                     /\ x \in Range(LineIn(objects, x))
  <1>1. CASE x = 0
    BY <1>1 DEF LineIn
  <1>2. CASE x # 0
    <2>1. x \in Revisions /\ x \in Nat /\ objects[x].past \in Seq(Nat)
      BY <1>2, RevisionsAreNumbers DEF LinesInv, StoreInv, StoreTypeOK
    <2> DEFINE past == objects[x].past
    <2>2. \A i \in 1..Len(past) :
            past[i] \in 1..(x - 1) /\ LineIn(objects, past[i]) = SubSeq(past, 1, i)
      BY <2>1 DEF LinesInv, Prefixes
    <2>3. LineIn(objects, x) = Append(past, x)
      BY <1>2 DEF LineIn
    <2>4. past \in Seq(Nat)
      BY <2>1
    <2> HIDE DEF past
    <2> DEFINE line == Append(past, x)
    <2>5. /\ line \in Seq(Nat) /\ Len(line) = Len(past) + 1 /\ Len(past) \in Nat
          /\ \A i \in 1..Len(past) : line[i] = past[i]
          /\ line[Len(past) + 1] = x
      BY <2>1, <2>4, AppendProperties
    <2>6. \A i \in 1..Len(past) : SubSeq(line, 1, i) = SubSeq(past, 1, i)
      BY <2>1, <2>4, AppendedPrefix
    <2>7. SubSeq(line, 1, Len(line)) = line
      BY <2>5, SubSeqFull
    <2> HIDE DEF line
    <2>8. ASSUME NEW i \in 1..Len(line)
          PROVE  line[i] \in 1..x /\ LineIn(objects, line[i]) = SubSeq(line, 1, i)
      <3>1. CASE i \in 1..Len(past)
        <4>1. line[i] = past[i] /\ SubSeq(line, 1, i) = SubSeq(past, 1, i)
          BY <2>5, <2>6, <3>1
        <4>2. past[i] \in 1..(x - 1) /\ LineIn(objects, past[i]) = SubSeq(past, 1, i)
          BY <2>2, <3>1
        <4>3. past[i] \in 1..x
          BY <2>1, <4>2
        <4>4. QED
          BY <4>1, <4>2, <4>3
      <3>2. CASE i \notin 1..Len(past)
        <4>1. i = Len(line) /\ line[i] = x
          BY <2>5, <3>2
        <4>2. LineIn(objects, x) = line
          BY <2>3 DEF line
        <4>3. QED
          BY <1>2, <2>1, <2>7, <4>1, <4>2
      <3>3. QED
        BY <3>1, <3>2
    <2>9. x \in Range(line)
      <3>1. DOMAIN line = 1..Len(line) /\ Len(line) \in 1..Len(line)
        BY <2>5
      <3>2. QED
        BY <2>5, <3>1 DEF Range
    <2>10. LineIn(objects, x) = line
      BY <2>3 DEF line
    <2>11. QED
      BY <1>2, <2>1, <2>3, <2>5, <2>8, <2>9, <2>10 DEF past
  <1>3. QED
    BY <1>1, <1>2

LEMMA LineMembers ==
  ASSUME LinesInv, NEW x \in 0..Len(objects), NEW y \in Range(LineIn(objects, x))
  PROVE  /\ y \in 1..x /\ y \in Revisions
         /\ Range(LineIn(objects, y)) \subseteq Range(LineIn(objects, x))
  <1> DEFINE line == LineIn(objects, x)
  <1>1. line \in Seq(Nat) /\ DOMAIN line = 1..Len(line) /\ Len(line) \in Nat
    BY LineFacts
  <1>2. PICK i \in 1..Len(line) : y = line[i]
    BY <1>1 DEF Range
  <1>3. y \in 1..x /\ LineIn(objects, y) = SubSeq(line, 1, i)
    BY <1>2, LineFacts
  <1>4. y \in Revisions
    BY <1>3, RevisionsAreNumbers DEF LinesInv, StoreInv, StoreTypeOK
  <1> HIDE DEF line
  <1>5. \A j \in 1..i : line[j] \in Nat
    BY <1>1, <1>2, ElementOfSeq
  <1>6. /\ SubSeq(line, 1, i) \in Seq(Nat) /\ Len(SubSeq(line, 1, i)) = i
        /\ \A j \in 1..i : SubSeq(line, 1, i)[j] = line[j]
    BY <1>1, <1>2, <1>5, SubSeqProperties
  <1>7. Range(SubSeq(line, 1, i)) \subseteq Range(line)
    <2>1. DOMAIN SubSeq(line, 1, i) = 1..i
      BY <1>6
    <2>2. QED
      BY <1>1, <1>2, <1>6, <2>1 DEF Range
  <1>8. QED
    BY <1>3, <1>4, <1>7 DEF line

LEMMA OnLineTransitive ==
  ASSUME LinesInv, NEW x, NEW y, NEW z \in 0..Len(objects),
         OnLine(objects, x, y), OnLine(objects, y, z)
  PROVE  OnLine(objects, x, z)
  <1>1. CASE y = 0
    BY <1>1 DEF OnLine, LineIn, Range
  <1>2. CASE y # 0
    BY <1>2, LineMembers DEF OnLine
  <1>3. QED
    BY <1>1, <1>2

LEMMA OnLinePublished ==
  ASSUME LinesInv, NEW x, NEW y \in 0..Len(objects), OnLine(objects, x, y)
  PROVE  Published(objects, x) \subseteq Published(objects, y)
  <1>1. CASE x = 0
    BY <1>1 DEF Published, LineIn, Range
  <1>2. CASE x # 0
    BY <1>2, LineMembers DEF OnLine, Published
  <1>3. QED
    BY <1>1, <1>2

LEMMA OnOwnLine ==
  ASSUME LinesInv, NEW x \in 0..Len(objects)
  PROVE  OnLine(objects, x, x)
  BY LineFacts DEF OnLine

\* The line of a revision is that of its parent and itself.
LEMMA LineOfChild ==
  ASSUME LinesInv, NEW x \in Revisions
  PROVE  /\ Parent(x) \in 0..Len(objects)
         /\ LineIn(objects, x) = Append(LineIn(objects, Parent(x)), x)
         /\ Published(objects, x) = Published(objects, Parent(x)) \cup objects[x].content.edits
         /\ OnLine(objects, Parent(x), x)
  <1>1. x \in 1..Len(objects) /\ Len(objects) \in Nat /\ Parent(x) \in 0..(x - 1)
        /\ objects[x].past = LineOf(Parent(x))
    BY RevisionsAreNumbers DEF LinesInv, StoreInv, StoreTypeOK, Chained
  <1>2. Parent(x) \in 0..Len(objects)
    BY <1>1
  <1> DEFINE past == LineIn(objects, Parent(x))
  <1>3. past \in Seq(Nat)
    BY <1>2, LineFacts
  <1>4. LineIn(objects, x) = Append(past, x)
    BY <1>1 DEF LineIn, LineOf
  <1>5. Parent(x) # 0 => Parent(x) \in Range(past)
    BY <1>2, LineFacts
  <1> HIDE DEF past
  <1>6. Range(Append(past, x)) = Range(past) \cup {x}
    <2>1. /\ Append(past, x) \in Seq(Nat) /\ Len(Append(past, x)) = Len(past) + 1
          /\ \A i \in 1..Len(past) : Append(past, x)[i] = past[i]
          /\ Append(past, x)[Len(past) + 1] = x /\ Len(past) \in Nat
      BY <1>1, <1>3, AppendProperties
    <2>2. DOMAIN Append(past, x) = 1..(Len(past) + 1) /\ DOMAIN past = 1..Len(past)
      BY <1>3, <2>1
    <2>3. QED
      BY <2>1, <2>2 DEF Range
  <1>7. Published(objects, x) = Published(objects, Parent(x)) \cup objects[x].content.edits
    BY <1>4, <1>6 DEF Published, past
  <1>8. OnLine(objects, Parent(x), x)
    BY <1>4, <1>5, <1>6 DEF OnLine
  <1>9. QED
    BY <1>2, <1>4, <1>7, <1>8 DEF past

\* What comes later changes no line.
LEMMA LinesEndure ==
  ASSUME LinesInv, NEW objs, \A y \in Revisions : objs[y] = objects[y],
         NEW x \in 0..Len(objects)
  PROVE  /\ LineIn(objs, x) = LineIn(objects, x)
         /\ Published(objs, x) = Published(objects, x)
  <1>1. LineIn(objs, x) = LineIn(objects, x)
    BY LineFacts DEF LineIn
  <1>2. \A y \in Range(LineIn(objects, x)) : objs[y] = objects[y]
    BY LineMembers
  <1>3. QED
    BY <1>1, <1>2 DEF Published

\* The line of a revision that is already there never changes, so that of a
\* new one, which continues HEAD, is as it should be.
LEMMA LinesStep ==
  ASSUME LinesInv, [StoreNext]_storeVars
  PROVE  /\ LinesInv'
         /\ Len(objects) =< Len(objects') /\ Len(objects') \in Nat
         /\ Revisions \subseteq Revisions'
         /\ \A x \in Revisions : objects'[x] = objects[x]
  <1>1. StoreInv' /\ StoreInv /\ Prefixes
    BY StoreStepKeepsInv DEF LinesInv
  <1>2. /\ objects \in Seq(Object) /\ objects' \in Seq(Object)
        /\ Len(objects) \in Nat /\ Len(objects') \in Nat
        /\ Revisions = 1..Len(objects) /\ Revisions' = 1..Len(objects')
        /\ head \in 0..Len(objects)
    BY <1>1 DEF StoreInv, StoreTypeOK, Revisions
  <1>3. CASE UNCHANGED objects
    BY <1>1, <1>2, <1>3 DEF LinesInv, Prefixes, Revisions
  <1>4. CASE \E c \in Contents, stored \in BOOLEAN : objects' = Sealed(c, stored)
    <2>1. PICK c \in Contents, stored \in BOOLEAN : objects' = Sealed(c, stored)
      BY <1>4
    <2>2. /\ Len(objects') = Len(objects) + 1
          /\ \A x \in Revisions : x \in Revisions' /\ objects'[x] = objects[x]
          /\ objects'[Len(objects')].past = LineIn(objects, head)
      BY <1>1, <2>1, SealingExtends DEF StoreInv, LineOf, LineIn
    <2>3. \A x \in 0..Len(objects) : LineIn(objects', x) = LineIn(objects, x)
      BY <2>2, LinesEndure
    <2>4. ASSUME NEW x \in Revisions', NEW i \in 1..Len(objects'[x].past)
          PROVE  /\ objects'[x].past[i] \in 1..(x - 1)
                 /\ LineIn(objects', objects'[x].past[i]) = SubSeq(objects'[x].past, 1, i)
      <3>1. CASE x \in Revisions
        <4>1. /\ objects'[x] = objects[x] /\ objects[x].past[i] \in 1..(x - 1)
              /\ LineIn(objects, objects[x].past[i]) = SubSeq(objects[x].past, 1, i)
          BY <1>1, <2>2, <2>4, <3>1 DEF Prefixes
        <4>2. objects[x].past[i] \in 0..Len(objects)
          BY <1>2, <3>1, <4>1
        <4>3. QED
          BY <2>3, <4>1, <4>2
      <3>2. CASE x \notin Revisions
        <4> DEFINE line == LineIn(objects, head)
        <4>1. x = Len(objects) + 1 /\ objects'[x].past = line
          BY <1>2, <2>2, <3>2
        <4>2. i \in 1..Len(line)
          BY <2>4, <4>1
        <4>3. line[i] \in 1..head /\ LineIn(objects, line[i]) = SubSeq(line, 1, i)
          BY <1>2, <4>2, LineFacts
        <4>4. line[i] \in 1..(x - 1) /\ line[i] \in 0..Len(objects)
          BY <1>2, <4>1, <4>3
        <4> HIDE DEF line
        <4>5. QED
          BY <2>3, <4>1, <4>3, <4>4
      <3>3. QED
        BY <3>1, <3>2
    <2>5. Prefixes'
      BY <2>4 DEF Prefixes, LineIn
    <2>6. QED
      BY <1>1, <1>2, <2>2, <2>5 DEF LinesInv
  <1>5. CASE StoreNext
    <2>1. PICK w \in Writers :
            \/ \E c \in Contents, e \in 0..Len(objects) : Seal(w, e, c) \/ SealFails(w, e, c)
            \/ \E x \in Revisions : TakeRecovery(w, x)
            \/ Announce(w) \/ AnnounceFails(w)
            \/ Publish(w) \/ PublishFails(w)
            \/ DropLease(w)
      BY <1>5 DEF StoreNext
    <2>2. UNCHANGED objects \/ \E c \in Contents, stored \in BOOLEAN : objects' = Sealed(c, stored)
      BY <2>1 DEF Seal, SealFails, TakeRecovery, Announce, AnnounceFails, Publish,
                  PublishFails, DropLease
    <2>3. QED
      BY <1>3, <1>4, <2>2
  <1>6. QED
    BY <1>3, <1>5 DEF storeVars

-----------------------------------------------------------------------------
(* The runtimes and their group: the inductive invariant *)

Replies == [ok : BOOLEAN, base : Nat, values : Values]

Captures ==
  [transaction : Nat, base : Nat, values : Values, proposal : Values \cup {None}]

Requests ==
  [method : {"capture", "prepare", "finish", "abort"}, transaction : Nat,
   revision : Nat, values : Values]

Channels == [broken : BOOLEAN, request : Requests \cup {None}]

Transactions ==
  [number : Nat, phase : Phases, todo : SUBSET Admitted, captured : SUBSET Admitted,
   frozen : [Admitted -> Replies], proposal : Values \cup {None}, result : Nat]

\* The types, in the detail the proofs need.
Shapes ==
  /\ TypeOK
  /\ pending \in [Admitted -> Captures \cup {None}]
  /\ tx \in Transactions
  /\ \A r \in Admitted : tx.frozen[r].base \in 0..Len(objects)
  /\ tx.result \in 0..Len(objects)
  /\ channel \in [Participants -> Channels]
  /\ edits \in 0..MaxEdits

\* What a runtime has accepted is part of the current line.
AcceptedOnLine == \A r \in Runtimes : OnLine(objects, accepted[r], head)

\* Edits are numbered as they are staged, each by one runtime for one owner.
Numbered ==
  /\ \A x \in Revisions : objects[x].content.edits \subseteq 1..edits
  /\ \A r \in Runtimes : EditsIn(staged[r]) \subseteq 1..edits
  /\ \A r, q \in Runtimes, o, u \in Owners :
       staged[r][o] = staged[q][u] /\ staged[r][o] # 0 => r = q /\ o = u

\* What is staged is in no revision that its runtime has seen.
Fresh ==
  /\ \A r \in Runtimes : EditsIn(staged[r]) \cap Published(objects, accepted[r]) = {}
  /\ \A r \in Admitted : pending[r] # None =>
       EditsIn(staged[r]) \cap Published(objects, pending[r].base) = {}

\* No revision carries an edit of an earlier one.
PublishedOnce ==
  \A x \in Revisions : objects[x].content.edits \cap Published(objects, Parent(x)) = {}

\* A runtime knows the revision that may have carried what it has staged.
UncertainIsOwn ==
  \A r \in Runtimes :
    uncertain[r] # 0 => EditsIn(staged[r]) \subseteq objects[uncertain[r]].content.edits

FlushIsOwn ==
  lease # None /\ lease.who \in Plain =>
    /\ EditsIn(staged[lease.who]) \subseteq objects[lease.candidate].content.edits
    /\ lease.who \in Admitted => pending[lease.who] = None

\* A revision of the transaction that captured a runtime carries what was
\* captured and nothing the runtime has staged since.
CaptureIsOwn ==
  \A r \in Admitted, x \in Revisions :
    pending[r] # None /\ objects[x].content.operation = pending[r].transaction =>
      /\ EditsIn(pending[r].values) \subseteq objects[x].content.edits
      /\ \A o \in Owners :
           staged[r][o] \in objects[x].content.edits => staged[r][o] = pending[r].values[o]

Undecided == tx.phase \in {"capturing", "preparing"}

\* Until the commit the answers are what the participants hold captured.
FrozenIsCaptured ==
  Undecided => \A r \in Admitted :
    pending[r] # None /\ pending[r].transaction = tx.number
      => \/ tx.phase = "capturing" /\ r \in tx.todo
         \/ pending[r].values = tx.frozen[r].values

FrozenIsFresh ==
  Undecided => \A r \in Admitted :
    /\ EditsIn(tx.frozen[r].values) \subseteq 1..edits
    /\ EditsIn(tx.frozen[r].values) \cap Published(objects, tx.frozen[r].base) = {}
    /\ \A u \in Owners, q \in Runtimes, o \in Owners :
         tx.frozen[r].values[u] = staged[q][o] /\ staged[q][o] # 0 => r = q /\ u = o

\* No request to capture is left of a transaction that has committed or may.
RequestsAreOld ==
  \A p \in Participants : channel[p].request # None =>
    /\ channel[p].request.transaction \in 1..tx.number
    /\ channel[p].request.method = "capture" =>
         /\ channel[p].request.transaction = tx.number => ~Undecided
         /\ \A x \in Revisions :
              objects[x].content.operation # channel[p].request.transaction

\* A transaction that ends without a proposal, or before it commits, has no
\* revision.
CommitsAreKnown ==
  /\ tx.phase # "idle" => tx.number > 0
  /\ tx.phase = "preparing" => Compatible
  /\ tx.phase \in {"preparing", "publishing"} => tx.proposal # None
  /\ \A x \in Revisions :
       /\ objects[x].content.operation \in 0..tx.number
       /\ objects[x].content.operation = tx.number /\ tx.phase # "idle" =>
            tx.phase \in {"publishing", "finishing"} /\ tx.proposal # None

\* Who has finished has accepted the result.
FinishedAccepted ==
  tx.phase = "finishing" =>
    \A r \in Admitted \ tx.todo : OnLine(objects, tx.result, accepted[r])

RuntimesInv ==
  /\ AcceptedOnLine /\ Numbered /\ Fresh /\ PublishedOnce
  /\ UncertainIsOwn /\ FlushIsOwn /\ CaptureIsOwn

GroupInv ==
  /\ FrozenIsCaptured /\ FrozenIsFresh /\ RequestsAreOld /\ CommitsAreKnown
  /\ FinishedAccepted

\* EditsSurvive and SuccessIsUnanimous, in these terms.
Surviving ==
  \A n \in 1..edits :
    \/ n \in dropped
    \/ \E r \in Runtimes : n \in EditsIn(staged[r])
    \/ n \in Published(objects, head)

Unanimous == \A x \in unanimous, r \in Admitted : OnLine(objects, x, accepted[r])

Inv ==
  /\ LinesInv /\ Shapes /\ RuntimesInv /\ GroupInv
  /\ Surviving /\ Unanimous

-----------------------------------------------------------------------------
(* Every step is a step of the store *)

\* The updates of a compatible transaction are the edits of its answers.
LEMMA UpdatesFacts ==
  ASSUME Shapes, Compatible
  PROVE  /\ Updates \in Values
         /\ \A r \in Admitted, o \in Owners : tx.frozen[r].values[o] \in {0, Updates[o]}
         /\ \A o \in Owners : Updates[o] # 0 =>
              \E r \in Admitted : tx.frozen[r].values[o] = Updates[o]
  <1>1. MaxEdits \in Nat
    BY ConfigurationAssumption
  <1>2. \A r \in Admitted, o \in Owners : tx.frozen[r].values[o] \in 0..MaxEdits
    BY DEF Shapes, Transactions, Replies, Values
  <1>3. ASSUME NEW o \in Owners
        PROVE  \/ Proposed(o) = {}
               \/ \E n \in 1..MaxEdits : Proposed(o) = {n} /\ Max(Proposed(o)) = n
    <2>1. Proposed(o) \subseteq 1..MaxEdits
      BY <1>1, <1>2 DEF Proposed
    <2>2. IsFiniteSet(1..MaxEdits)
      BY <1>1, FS_Interval
    <2>3. IsFiniteSet(Proposed(o)) /\ Cardinality(Proposed(o)) =< 1
      BY <2>1, <2>2, FS_Subset DEF Compatible
    <2>4. Cardinality(Proposed(o)) \in {0, 1}
      BY <2>3, FS_CardinalityType
    <2>5. Proposed(o) = {} \/ \E n : Proposed(o) = {n}
      BY <2>3, <2>4, FS_EmptySet, FS_Singleton
    <2>6. ASSUME NEW n, Proposed(o) = {n} PROVE n \in 1..MaxEdits /\ Max(Proposed(o)) = n
      BY <1>1, <2>1, <2>6 DEF Max
    <2>7. QED
      BY <2>5, <2>6
  <1>4. \A o \in Owners :
          \/ Proposed(o) = {} /\ Updates[o] = 0
          \/ Updates[o] \in 1..MaxEdits /\ Proposed(o) = {Updates[o]}
    BY <1>3 DEF Updates
  <1>5. Updates \in Values
    <2>1. \A o \in Owners : Updates[o] \in 0..MaxEdits
      BY <1>1, <1>4
    <2>2. QED
      BY <2>1 DEF Updates, Values
  <1>6. ASSUME NEW r \in Admitted, NEW o \in Owners
        PROVE  tx.frozen[r].values[o] \in {0, Updates[o]}
    <2>1. tx.frozen[r].values[o] = 0 \/ tx.frozen[r].values[o] \in Proposed(o)
      BY DEF Proposed
    <2>2. QED
      BY <1>4, <2>1
  <1>7. ASSUME NEW o \in Owners, Updates[o] # 0
        PROVE  \E r \in Admitted : tx.frozen[r].values[o] = Updates[o]
    <2>1. Updates[o] \in Proposed(o)
      BY <1>4, <1>7
    <2>2. QED
      BY <2>1 DEF Proposed
  <1>8. QED
    BY <1>5, <1>6, <1>7

LEMMA EditsAreTyped ==
  ASSUME NEW s \in Values PROVE EditsIn(s) \subseteq Edits /\ NoEdits \in Values
  <1>1. MaxEdits \in Nat
    BY ConfigurationAssumption
  <1>2. QED
    BY <1>1 DEF EditsIn, Values, Edits, NoEdits

LEMMA OwnContentIsTyped ==
  ASSUME Shapes, NEW r \in Runtimes
  PROVE  OwnContent(r) \in Contents
  <1>1. staged[r] \in Values /\ accepted[r] \in 0..Len(objects) /\ MaxTransactions \in Nat
    BY ConfigurationAssumption DEF Shapes, TypeOK
  <1>2. ValuesOf(accepted[r]) \in Values
    <2>1. CASE accepted[r] = 0
      BY <1>1, <2>1, EditsAreTyped DEF ValuesOf
    <2>2. CASE accepted[r] # 0
      <3>1. accepted[r] \in Revisions /\ objects[accepted[r]] \in Object
        BY <1>1, <2>2, RevisionsAreNumbers DEF Shapes, TypeOK, StoreTypeOK
      <3>2. objects[accepted[r]].content.values \in Values
        BY <3>1, ConfigurationAssumption DEF Object
      <3>3. QED
        BY <2>2, <3>2 DEF ValuesOf
    <2>3. QED
      BY <2>1, <2>2
  <1>3. Over(ValuesOf(accepted[r]), staged[r]) \in Values
    BY <1>1, <1>2 DEF Over, Values
  <1>4. QED
    BY <1>1, <1>3, EditsAreTyped, ConfigurationAssumption DEF OwnContent

LEMMA TxContentIsTyped ==
  ASSUME Shapes, CommitsAreKnown, tx.phase = "preparing"
  PROVE  TxContent \in Contents
  <1>1. Updates \in Values
    BY UpdatesFacts DEF CommitsAreKnown
  <1>2. tx.proposal \in Values /\ tx.number \in 0..MaxTransactions
    BY DEF CommitsAreKnown, Shapes, Transactions, TypeOK
  <1>3. QED
    BY <1>1, <1>2, EditsAreTyped, ConfigurationAssumption DEF TxContent

LEMMA StepOfStore ==
  ASSUME Shapes, CommitsAreKnown, [Next]_vars
  PROVE  [StoreNext]_storeVars
  <1> USE DEF StoreNext
  <1>1. /\ \A r \in Plain : r \in Writers /\ r \in Runtimes
        /\ Controller \in Writers /\ Operator \in Writers /\ Controller \in Runtimes
    BY ConfigurationAssumption DEF Runtimes
  <1>2. \A r \in Runtimes : accepted[r] \in 0..Len(objects)
    BY DEF Shapes, TypeOK
  <1>3. ASSUME NEW w \in Writers, NEW c \in Contents, NEW e \in 0..Len(objects),
               Seal(w, e, c) \/ SealFails(w, e, c)
        PROVE  StoreNext
    BY <1>3
  <1>4. CASE UNCHANGED vars
    BY <1>4 DEF vars
  <1>5. ASSUME NEW r \in Runtimes, RuntimeNext(r)
        PROVE  [StoreNext]_storeVars
    <2>1. CASE \E o \in OwnersOf[r] : Stage(r, o)
      BY <2>1 DEF Stage
    <2>2. CASE Poll(r) \/ Discard(r) \/ FlushReload(r)
      BY <2>2 DEF Poll, Discard, FlushReload
    <2>3. CASE FlushSeal(r)
      <3>1. r \in Plain /\ (Seal(r, accepted[r], OwnContent(r)) \/ SealFails(r, accepted[r], OwnContent(r)))
        BY <2>3 DEF FlushSeal, MayFlush
      <3>2. QED
        BY <1>1, <1>2, <1>3, <3>1, OwnContentIsTyped
    <2>4. CASE FlushRecover(r)
      <3>1. r \in Plain /\ TakeRecovery(r, uncertain[r])
        BY <2>4 DEF FlushRecover, MayFlush
      <3>2. uncertain[r] \in Revisions
        BY <3>1 DEF TakeRecovery, Recoverable
      <3>3. QED
        BY <1>1, <3>1, <3>2
    <2>5. CASE FlushAnnounce(r) \/ FlushPublish(r)
      BY <1>1, <2>5 DEF FlushAnnounce, FlushPublish
    <2>6. CASE Restart(r)
      <3>1. DropLease(r)
        BY <2>6 DEF Restart
      <3>2. CASE r \in Writers
        BY <3>1, <3>2
      <3>3. CASE r \notin Writers
        <4>1. lease = None \/ lease.who \in Writers
          BY DEF Shapes, TypeOK, StoreTypeOK, Lease
        <4>2. QED
          BY <3>1, <3>3, <4>1 DEF DropLease, storeVars
      <3>4. QED
        BY <3>2, <3>3
    <2>7. QED
      BY <1>5, <2>1, <2>2, <2>3, <2>4, <2>5, <2>6 DEF RuntimeNext
  <1>6. ASSUME NEW p \in Participants, ServeLate(p) \/ Reconnect(p) \/ OperatorCancels(p)
        PROVE  UNCHANGED storeVars
    BY <1>6 DEF ServeLate, Reconnect, OperatorCancels, TxUnchanged
  <1>7. CASE TxNext
    <2>1. CASE TxCommit
      <3>1. CASE Seal(Controller, accepted[Controller], TxContent)
                 \/ SealFails(Controller, accepted[Controller], TxContent)
        BY <1>1, <1>2, <1>3, <2>1, <3>1, TxContentIsTyped DEF TxCommit
      <3>2. QED
        BY <2>1, <3>1 DEF TxCommit
    <2>2. CASE TxAnnounce \/ TxPublish
      BY <1>1, <2>2 DEF TxAnnounce, TxPublish
    <2>3. CASE TxBegin \/ TxMerge \/ TxFinishLocal \/ TxAbortLocal \/ TxEnd
      BY <2>3 DEF TxBegin, TxMerge, TxFinishLocal, TxAbortLocal, TxEnd, TxUnchanged
    <2>4. CASE \E p \in Participants : TxExchange(p) \/ TxLose(p) \/ TxUnreachable(p)
      BY <2>4 DEF TxExchange, TxLose, TxUnreachable, TxUnchanged
    <2>5. QED
      BY <1>7, <2>1, <2>2, <2>3, <2>4 DEF TxNext
  <1>8. CASE OperatorRecovers
    BY <1>1, <1>8 DEF OperatorRecovers
  <1>9. QED
    BY <1>4, <1>5, <1>6, <1>7, <1>8 DEF Next

-----------------------------------------------------------------------------
(* What a step does to a runtime, whichever step it is *)

\* A capture stays what it was, or is made of what is staged on HEAD.
SameCapture(r) ==
  /\ pending[r] # None
  /\ pending'[r].transaction = pending[r].transaction
  /\ pending'[r].base = pending[r].base
  /\ pending'[r].values = pending[r].values

NewCapture(r) ==
  /\ accepted'[r] = head
  /\ pending'[r].base = head
  /\ pending'[r].values = staged'[r]

\* Runtime r stays or catches up; what it no longer stages has been published
\* or is recorded as dropped; nothing it still stages has been published.
OwnStep(r) ==
  /\ accepted' \in [Runtimes -> 0..Len(objects)]
  /\ staged' \in [Runtimes -> Values]
  /\ uncertain' \in [Runtimes -> 0..Len(objects)]
  /\ pending' \in [Admitted -> Captures \cup {None}]
  /\ \A q \in Runtimes \ {r} :
       accepted'[q] = accepted[q] /\ staged'[q] = staged[q] /\ uncertain'[q] = uncertain[q]
  /\ \A q \in Admitted \ {r} : pending'[q] = pending[q]
  /\ accepted'[r] \in {accepted[r], head}
  /\ \A o \in Owners : staged'[r][o] \in {0, staged[r][o]}
  /\ EditsIn(staged'[r]) \cap Published(objects, accepted'[r]) = {}
  /\ EditsIn(staged[r]) \subseteq
       EditsIn(staged'[r]) \cup Published(objects, head) \cup dropped'
  /\ uncertain'[r] # 0 =>
       EditsIn(staged'[r]) \subseteq objects[uncertain'[r]].content.edits
  /\ r \in Admitted /\ pending'[r] # None =>
       uncertain'[r] = 0 /\ (SameCapture(r) \/ NewCapture(r))

LEMMA TypesOfRuntimes ==
  ASSUME Shapes
  PROVE  /\ accepted \in [Runtimes -> 0..Len(objects)]
         /\ staged \in [Runtimes -> Values]
         /\ uncertain \in [Runtimes -> 0..Len(objects)]
         /\ pending \in [Admitted -> Captures \cup {None}]
         /\ head \in 0..Len(objects) /\ Len(objects) \in Nat
         /\ Admitted \subseteq Runtimes
         /\ \A r \in Admitted : pending[r] # None =>
              /\ pending[r] \in Captures /\ pending[r].base \in 0..Len(objects)
              /\ pending[r].transaction \in 1..tx.number /\ uncertain[r] = 0
  BY DEF Shapes, TypeOK, StoreTypeOK, Admitted, Runtimes

LEMMA UnaffectedIsLocal ==
  ASSUME Shapes, RuntimesInv, NEW r \in Runtimes,
         UNCHANGED <<accepted, staged, uncertain, pending>>
  PROVE  OwnStep(r)
  <1>1. \A o \in Owners : staged'[r][o] \in {0, staged[r][o]}
    OBVIOUS
  <1>2. r \in Admitted /\ pending'[r] # None => uncertain'[r] = 0 /\ SameCapture(r)
    BY TypesOfRuntimes DEF SameCapture
  <1>3. /\ EditsIn(staged'[r]) \cap Published(objects, accepted'[r]) = {}
        /\ uncertain'[r] # 0 =>
             EditsIn(staged'[r]) \subseteq objects[uncertain'[r]].content.edits
    BY DEF RuntimesInv, Fresh, UncertainIsOwn
  <1>4. EditsIn(staged[r]) \subseteq
          EditsIn(staged'[r]) \cup Published(objects, head) \cup dropped'
    OBVIOUS
  <1>5. QED
    BY <1>1, <1>2, <1>3, <1>4, TypesOfRuntimes DEF OwnStep

\* The edits of HEAD are among those published up to HEAD.
LEMMA HeadIsPublished ==
  ASSUME LinesInv, head # 0
  PROVE  /\ head \in Revisions
         /\ Published(objects, head) =
              Published(objects, Parent(head)) \cup objects[head].content.edits
  <1>1. head \in Revisions
    BY LineFacts DEF LinesInv, StoreInv, StoreTypeOK
  <1>2. QED
    BY <1>1, LineOfChild

LEMMA NothingPublishedYet == Published(objects, 0) = {} /\ EditsIn(NoEdits) = {}
  BY DEF Published, LineIn, Range, EditsIn, NoEdits

\* The captured revision has taken what was captured, and no more.
LEMMA AfterwardsFacts ==
  ASSUME LinesInv, Shapes, RuntimesInv, NEW r \in Runtimes, Reconciles(r, head)
  PROVE  /\ r \in Admitted /\ pending[r] # None /\ uncertain[r] = 0
         /\ Afterwards(r) \in Values
         /\ \A o \in Owners : Afterwards(r)[o] \in {0, staged[r][o]}
         /\ EditsIn(Afterwards(r)) \cap Published(objects, head) = {}
         /\ EditsIn(staged[r]) \subseteq EditsIn(Afterwards(r)) \cup Published(objects, head)
  <1>1. /\ r \in Admitted /\ pending[r] # None /\ head # 0
        /\ Parent(head) = pending[r].base
        /\ objects[head].content.operation = pending[r].transaction
    BY DEF Reconciles
  <1>2. /\ head \in Revisions
        /\ Published(objects, head) =
              Published(objects, pending[r].base) \cup objects[head].content.edits
    BY <1>1, HeadIsPublished
  <1>3. /\ EditsIn(pending[r].values) \subseteq objects[head].content.edits
        /\ \A o \in Owners :
             staged[r][o] \in objects[head].content.edits => staged[r][o] = pending[r].values[o]
    BY <1>1, <1>2 DEF RuntimesInv, CaptureIsOwn
  <1>4. EditsIn(staged[r]) \cap Published(objects, pending[r].base) = {}
    BY <1>1 DEF RuntimesInv, Fresh
  <1>5. staged[r] \in Values /\ uncertain[r] = 0 /\ MaxEdits \in Nat
    BY <1>1, TypesOfRuntimes, ConfigurationAssumption
  <1>6. \A o \in Owners : Afterwards(r)[o] = IF staged[r][o] = pending[r].values[o] THEN 0 ELSE staged[r][o]
    BY DEF Afterwards
  <1>7. Afterwards(r) \in Values
    BY <1>5 DEF Afterwards, Values
  <1>8. \A o \in Owners : Afterwards(r)[o] \in {0, staged[r][o]}
    BY <1>6
  <1>9. ASSUME NEW n \in EditsIn(Afterwards(r)) PROVE n \notin Published(objects, head)
    <2>1. PICK o \in Owners : n = Afterwards(r)[o] /\ n # 0
      BY <1>9 DEF EditsIn
    <2>2. n = staged[r][o] /\ staged[r][o] # pending[r].values[o] /\ n \in EditsIn(staged[r])
      BY <1>6, <2>1 DEF EditsIn
    <2>3. QED
      BY <1>2, <1>3, <1>4, <2>2
  <1>10. ASSUME NEW n \in EditsIn(staged[r])
         PROVE  n \in EditsIn(Afterwards(r)) \cup Published(objects, head)
    <2>1. PICK o \in Owners : n = staged[r][o] /\ n # 0
      BY <1>10 DEF EditsIn
    <2>2. CASE staged[r][o] = pending[r].values[o]
      BY <1>2, <1>3, <2>1, <2>2 DEF EditsIn
    <2>3. CASE staged[r][o] # pending[r].values[o]
      BY <1>6, <2>1, <2>3 DEF EditsIn
    <2>4. QED
      BY <2>2, <2>3
  <1>11. QED
    BY <1>1, <1>5, <1>7, <1>8, <1>9, <1>10

LEMMA ReloadIsLocal ==
  ASSUME LinesInv, Shapes, RuntimesInv, NEW r \in Runtimes, Reloaded(r)
  PROVE  /\ OwnStep(r)
         /\ pending' = pending \/ pending' = [pending EXCEPT ![r] = None]
         /\ ~ReloadConflicts(r) => accepted'[r] = head
  <1>1. CASE ReloadConflicts(r)
    BY <1>1, UnaffectedIsLocal DEF Reloaded
  <1>2. CASE ~ReloadConflicts(r) /\ Reconciles(r, head)
    <2>1. /\ accepted' = [accepted EXCEPT ![r] = head]
          /\ staged' = [staged EXCEPT ![r] = Afterwards(r)]
          /\ pending' = [pending EXCEPT ![r] = None]
          /\ uncertain' = uncertain
      BY <1>2 DEF Reloaded
    <2>2. accepted'[r] = head /\ staged'[r] = Afterwards(r)
      BY <2>1, TypesOfRuntimes
    <2>3. r \in Admitted => pending'[r] = None
      BY <2>1, TypesOfRuntimes
    <2>4. /\ accepted' \in [Runtimes -> 0..Len(objects)] /\ staged' \in [Runtimes -> Values]
          /\ pending' \in [Admitted -> Captures \cup {None}]
          /\ \A q \in Runtimes \ {r} : accepted'[q] = accepted[q] /\ staged'[q] = staged[q]
          /\ \A q \in Admitted \ {r} : pending'[q] = pending[q]
      BY <1>2, <2>1, TypesOfRuntimes, AfterwardsFacts
    <2>5. QED
      BY <1>2, <2>1, <2>2, <2>3, <2>4, AfterwardsFacts, TypesOfRuntimes DEF OwnStep
  <1>3. CASE ~ReloadConflicts(r) /\ ~Reconciles(r, head) /\ uncertain[r] # 0 /\ uncertain[r] = head
    <2>1. /\ accepted' = [accepted EXCEPT ![r] = head]
          /\ staged' = [staged EXCEPT ![r] = NoEdits]
          /\ uncertain' = [uncertain EXCEPT ![r] = 0]
          /\ pending' = pending
      BY <1>3 DEF Reloaded
    <2>2. EditsIn(staged[r]) \subseteq Published(objects, head)
      BY <1>3, HeadIsPublished DEF RuntimesInv, UncertainIsOwn
    <2>3. /\ accepted' \in [Runtimes -> 0..Len(objects)] /\ staged' \in [Runtimes -> Values]
          /\ uncertain' \in [Runtimes -> 0..Len(objects)]
          /\ accepted'[r] = head /\ staged'[r] = NoEdits /\ uncertain'[r] = 0
          /\ \A q \in Runtimes \ {r} :
               accepted'[q] = accepted[q] /\ staged'[q] = staged[q] /\ uncertain'[q] = uncertain[q]
      BY <2>1, TypesOfRuntimes, EditsAreTyped
    <2>4. EditsIn(staged'[r]) = {} /\ \A o \in Owners : staged'[r][o] = 0
      BY <2>3, NothingPublishedYet DEF NoEdits
    <2>5. r \in Admitted /\ pending'[r] # None => SameCapture(r)
      BY <2>1 DEF SameCapture
    <2>6. QED
      BY <1>3, <2>1, <2>2, <2>3, <2>4, <2>5, TypesOfRuntimes DEF OwnStep
  <1>4. CASE ~ReloadConflicts(r) /\ ~Reconciles(r, head) /\ ~(uncertain[r] # 0 /\ uncertain[r] = head)
    <2>1. /\ accepted' = [accepted EXCEPT ![r] = head]
          /\ UNCHANGED <<staged, uncertain, pending>>
      BY <1>4 DEF Reloaded
    <2>2. accepted' \in [Runtimes -> 0..Len(objects)] /\ accepted'[r] = head
          /\ \A q \in Runtimes \ {r} : accepted'[q] = accepted[q]
      BY <2>1, TypesOfRuntimes
    <2>3. EditsIn(staged[r]) \cap Published(objects, head) = {}
      <3>1. ~Dirty(r) \/ head = accepted[r] \/ head = 0
        BY <1>4 DEF ReloadConflicts
      <3>2. QED
        BY <3>1, NothingPublishedYet DEF Dirty, RuntimesInv, Fresh
    <2>4. r \in Admitted /\ pending'[r] # None => SameCapture(r) /\ uncertain'[r] = 0
      BY <2>1, TypesOfRuntimes DEF SameCapture
    <2>5. uncertain'[r] # 0 =>
            EditsIn(staged'[r]) \subseteq objects[uncertain'[r]].content.edits
      BY <2>1 DEF RuntimesInv, UncertainIsOwn
    <2>6. QED
      BY <2>1, <2>2, <2>3, <2>4, <2>5, TypesOfRuntimes DEF OwnStep
  <1>5. QED
    BY <1>1, <1>2, <1>3, <1>4

\* What a capture keeps staged has not been published.
LEMMA KeptFacts ==
  ASSUME LinesInv, Shapes, RuntimesInv, NEW r \in Admitted, CanCapture(r)
  PROVE  /\ Kept(r) \in Values
         /\ \A o \in Owners : Kept(r)[o] \in {0, staged[r][o]}
         /\ EditsIn(Kept(r)) \cap Published(objects, head) = {}
         /\ EditsIn(staged[r]) \subseteq EditsIn(Kept(r)) \cup Published(objects, head)
  <1>1. r \in Runtimes /\ staged[r] \in Values
    BY TypesOfRuntimes
  <1>2. CASE Reconciles(r, head)
    BY <1>1, <1>2, AfterwardsFacts DEF Kept
  <1>3. CASE ~Reconciles(r, head) /\ uncertain[r] # 0
    <2>1. uncertain[r] = head /\ Kept(r) = NoEdits
      BY <1>3 DEF CanCapture, Kept
    <2>2. EditsIn(staged[r]) \subseteq Published(objects, head)
      BY <1>1, <1>3, <2>1, HeadIsPublished DEF RuntimesInv, UncertainIsOwn
    <2>3. \A o \in Owners : NoEdits[o] = 0
      BY DEF NoEdits
    <2>4. QED
      BY <1>1, <2>1, <2>2, <2>3, NothingPublishedYet, EditsAreTyped
  <1>4. CASE ~Reconciles(r, head) /\ uncertain[r] = 0
    <2>1. Kept(r) = staged[r]
      BY <1>4 DEF Kept
    <2>2. ~Dirty(r) \/ head = accepted[r] \/ head = 0
      BY <1>4 DEF CanCapture, ReloadConflicts
    <2>3. EditsIn(staged[r]) \cap Published(objects, head) = {}
      BY <1>1, <2>2, NothingPublishedYet DEF Dirty, RuntimesInv, Fresh
    <2>4. QED
      BY <1>1, <2>1, <2>3
  <1>5. QED
    BY <1>2, <1>3, <1>4

LEMMA CaptureIsLocal ==
  ASSUME LinesInv, Shapes, RuntimesInv, NEW r \in Admitted, NEW t \in Nat, Capture(r, t)
  PROVE  /\ OwnStep(r)
         /\ CanCapture(r) =>
              /\ pending'[r].transaction = t /\ pending'[r].values = Kept(r)
              /\ pending'[r] # None => NewCapture(r)
         /\ ~CanCapture(r) => pending' = pending \/ pending' = [pending EXCEPT ![r] = None]
  <1>1. r \in Runtimes
    BY TypesOfRuntimes
  <1>2. CASE ~CanCapture(r)
    BY <1>1, <1>2, ReloadIsLocal DEF Capture
  <1>3. CASE CanCapture(r)
    <2> DEFINE capture == [transaction |-> t, base |-> head, values |-> Kept(r), proposal |-> None]
    <2>1. /\ accepted' = [accepted EXCEPT ![r] = head]
          /\ staged' = [staged EXCEPT ![r] = Kept(r)]
          /\ uncertain' = [uncertain EXCEPT ![r] = 0]
          /\ pending' = [pending EXCEPT ![r] = capture]
      BY <1>3 DEF Capture
    <2>2. capture \in Captures
      BY <1>3, KeptFacts, TypesOfRuntimes DEF Captures
    <2>3. capture.transaction = t /\ capture.base = head /\ capture.values = Kept(r)
      OBVIOUS
    <2> HIDE DEF capture
    <2>4. /\ accepted' \in [Runtimes -> 0..Len(objects)] /\ staged' \in [Runtimes -> Values]
          /\ uncertain' \in [Runtimes -> 0..Len(objects)]
          /\ pending' \in [Admitted -> Captures \cup {None}]
          /\ \A q \in Runtimes \ {r} :
               accepted'[q] = accepted[q] /\ staged'[q] = staged[q] /\ uncertain'[q] = uncertain[q]
          /\ \A q \in Admitted \ {r} : pending'[q] = pending[q]
      BY <1>1, <1>3, <2>1, <2>2, KeptFacts, TypesOfRuntimes
    <2>5. /\ accepted'[r] = head /\ staged'[r] = Kept(r) /\ uncertain'[r] = 0
          /\ pending'[r] = capture
      BY <1>1, <2>1, TypesOfRuntimes
    <2>6. NewCapture(r)
      BY <2>3, <2>5 DEF NewCapture
    <2>7. OwnStep(r)
      BY <1>3, <2>4, <2>5, <2>6, KeptFacts DEF OwnStep
    <2>8. QED
      BY <1>3, <2>3, <2>5, <2>6, <2>7
  <1>4. QED
    BY <1>2, <1>3

\* Only what is captured changes, or whether it is.
LEMMA PendingIsLocal ==
  ASSUME Shapes, RuntimesInv, NEW r \in Runtimes,
         UNCHANGED <<accepted, staged, uncertain>>,
         pending' \in [Admitted -> Captures \cup {None}],
         \A q \in Admitted \ {r} : pending'[q] = pending[q],
         r \in Admitted /\ pending'[r] # None => SameCapture(r)
  PROVE  OwnStep(r)
  <1>1. \A o \in Owners : staged'[r][o] \in {0, staged[r][o]}
    OBVIOUS
  <1>2. r \in Admitted /\ pending'[r] # None => uncertain'[r] = 0
    BY TypesOfRuntimes DEF SameCapture
  <1>3. /\ EditsIn(staged'[r]) \cap Published(objects, accepted'[r]) = {}
        /\ uncertain'[r] # 0 =>
             EditsIn(staged'[r]) \subseteq objects[uncertain'[r]].content.edits
    BY DEF RuntimesInv, Fresh, UncertainIsOwn
  <1>4. EditsIn(staged[r]) \subseteq
          EditsIn(staged'[r]) \cup Published(objects, head) \cup dropped'
    OBVIOUS
  <1>5. QED
    BY <1>1, <1>2, <1>3, <1>4, TypesOfRuntimes DEF OwnStep

LEMMA PrepareIsLocal ==
  ASSUME Shapes, RuntimesInv, NEW r \in Admitted, NEW t \in Nat,
         NEW proposal \in Values, Prepare(r, t, proposal)
  PROVE  OwnStep(r) /\ (pending'[r] # None => SameCapture(r))
  <1>1. r \in Runtimes
    BY TypesOfRuntimes
  <1>2. CASE ~Approves(r, t, proposal)
    <2>1. UNCHANGED <<accepted, staged, uncertain, pending>>
      BY <1>2 DEF Prepare
    <2>2. QED
      BY <1>1, <2>1, UnaffectedIsLocal DEF SameCapture
  <1>3. CASE Approves(r, t, proposal)
    <2>1. pending[r] # None /\ pending[r] \in Captures
      BY <1>3, TypesOfRuntimes DEF Approves, Captured
    <2>2. pending' = [pending EXCEPT ![r] = [pending[r] EXCEPT !.proposal = proposal]]
      BY <1>3 DEF Prepare
    <2>3. /\ [pending[r] EXCEPT !.proposal = proposal] \in Captures
          /\ [pending[r] EXCEPT !.proposal = proposal].transaction = pending[r].transaction
          /\ [pending[r] EXCEPT !.proposal = proposal].base = pending[r].base
          /\ [pending[r] EXCEPT !.proposal = proposal].values = pending[r].values
      BY <2>1 DEF Captures
    <2>4. SameCapture(r)
      BY <2>1, <2>2, <2>3, TypesOfRuntimes DEF SameCapture
    <2>5. /\ pending' \in [Admitted -> Captures \cup {None}]
          /\ \A q \in Admitted \ {r} : pending'[q] = pending[q]
      BY <2>2, <2>3, TypesOfRuntimes
    <2>6. UNCHANGED <<accepted, staged, uncertain>>
      BY DEF Prepare
    <2>7. QED
      BY <1>1, <2>4, <2>5, <2>6, PendingIsLocal
  <1>4. QED
    BY <1>2, <1>3

\* What finish, abort and a broken channel have in common.
LEMMA ReleaseIsLocal ==
  ASSUME Shapes, RuntimesInv, NEW r \in Admitted, pending' = [pending EXCEPT ![r] = None],
         UNCHANGED <<accepted, staged, uncertain>>
  PROVE  OwnStep(r)
  <1>1. /\ pending' \in [Admitted -> Captures \cup {None}] /\ pending'[r] = None
        /\ \A q \in Admitted \ {r} : pending'[q] = pending[q]
    BY TypesOfRuntimes
  <1>2. QED
    BY <1>1, PendingIsLocal, TypesOfRuntimes

LEMMA FinishIsLocal ==
  ASSUME LinesInv, Shapes, RuntimesInv, NEW r \in Admitted, NEW t, Finish(r, t)
  PROVE  /\ OwnStep(r)
         /\ pending'[r] # None => pending'[r] = pending[r]
         /\ \A x \in 0..Len(objects) : Finished(r, t, x) => accepted'[r] = x
  <1>1. r \in Runtimes
    BY TypesOfRuntimes
  <1>2. CASE OnlyCaptured(r, t)
    <2>1. /\ pending' = [pending EXCEPT ![r] = None] /\ UNCHANGED <<staged, uncertain>>
          /\ accepted' = IF ReloadConflicts(r) THEN accepted ELSE [accepted EXCEPT ![r] = head]
      BY <1>2 DEF Finish
    <2>2. pending'[r] = None
      BY <2>1, TypesOfRuntimes
    <2>3. CASE ReloadConflicts(r)
      <3>1. UNCHANGED <<accepted, staged, uncertain>>
        BY <2>1, <2>3
      <3>2. \A x : ~Finished(r, t, x)
        BY <2>3 DEF Finished
      <3>3. QED
        BY <2>1, <2>2, <3>1, <3>2, ReleaseIsLocal
    <2>4. CASE ~ReloadConflicts(r)
      <3>1. /\ pending[r] # None /\ ~Reconciles(r, head) /\ uncertain[r] = 0
        BY <1>2, TypesOfRuntimes DEF OnlyCaptured, Captured, Reconciles
      <3>2. ~Dirty(r) \/ head = accepted[r] \/ head = 0
        BY <2>4, <3>1 DEF ReloadConflicts
      <3>3. EditsIn(staged[r]) \cap Published(objects, head) = {}
        BY <1>1, <3>2, NothingPublishedYet DEF Dirty, RuntimesInv, Fresh
      <3>4. /\ accepted' \in [Runtimes -> 0..Len(objects)] /\ accepted'[r] = head
            /\ pending' \in [Admitted -> Captures \cup {None}]
            /\ \A q \in Runtimes \ {r} : accepted'[q] = accepted[q]
            /\ \A q \in Admitted \ {r} : pending'[q] = pending[q]
        BY <1>1, <2>1, <2>4, TypesOfRuntimes
      <3>5. OwnStep(r)
        BY <1>1, <2>1, <2>2, <3>1, <3>3, <3>4, TypesOfRuntimes DEF OwnStep
      <3>6. \A x : Finished(r, t, x) => accepted'[r] = x
        BY <3>4 DEF Finished
      <3>7. QED
        BY <2>2, <3>5, <3>6
    <2>5. QED
      BY <2>3, <2>4
  <1>3. CASE ~OnlyCaptured(r, t) /\ (Captured(r, t) \/ pending[r] = None)
    <2>1. Reloaded(r)
      BY <1>3 DEF Finish
    <2>2. pending'[r] # None => pending'[r] = pending[r]
      BY <1>1, <2>1, ReloadIsLocal, TypesOfRuntimes
    <2>3. \A x : Finished(r, t, x) => ~ReloadConflicts(r) /\ head = x
      BY DEF Finished
    <2>4. QED
      BY <1>1, <2>1, <2>2, <2>3, ReloadIsLocal
  <1>4. CASE ~OnlyCaptured(r, t) /\ ~Captured(r, t) /\ pending[r] # None
    <2>1. UNCHANGED <<accepted, staged, uncertain, pending>>
      BY <1>4 DEF Finish
    <2>2. \A x : ~Finished(r, t, x)
      BY <1>4 DEF Finished
    <2>3. QED
      BY <1>1, <2>1, <2>2, UnaffectedIsLocal
  <1>5. QED
    BY <1>2, <1>3, <1>4

LEMMA AbortIsLocal ==
  ASSUME LinesInv, Shapes, RuntimesInv, NEW r \in Admitted, NEW t, Abort(r, t)
  PROVE  OwnStep(r) /\ (pending'[r] # None => pending'[r] = pending[r])
  <1>1. r \in Runtimes
    BY TypesOfRuntimes
  <1>2. CASE ~Releasable(r, t)
    <2>1. UNCHANGED <<accepted, staged, uncertain, pending>>
      BY <1>2 DEF Abort
    <2>2. QED
      BY <1>1, <2>1, UnaffectedIsLocal
  <1>3. CASE Releasable(r, t) /\ ~Reconciles(r, head)
    <2>1. pending' = [pending EXCEPT ![r] = None] /\ UNCHANGED <<accepted, staged, uncertain>>
      BY <1>3 DEF Abort
    <2>2. QED
      BY <2>1, ReleaseIsLocal, TypesOfRuntimes
  <1>4. CASE Releasable(r, t) /\ Reconciles(r, head)
    <2>1. /\ pending' = [pending EXCEPT ![r] = None]
          /\ accepted' = [accepted EXCEPT ![r] = head]
          /\ staged' = [staged EXCEPT ![r] = Afterwards(r)]
          /\ uncertain' = uncertain
      BY <1>4 DEF Abort
    <2>2. /\ accepted'[r] = head /\ staged'[r] = Afterwards(r) /\ pending'[r] = None
      BY <1>1, <2>1, TypesOfRuntimes
    <2>3. /\ accepted' \in [Runtimes -> 0..Len(objects)] /\ staged' \in [Runtimes -> Values]
          /\ pending' \in [Admitted -> Captures \cup {None}]
          /\ \A q \in Runtimes \ {r} : accepted'[q] = accepted[q] /\ staged'[q] = staged[q]
          /\ \A q \in Admitted \ {r} : pending'[q] = pending[q]
      BY <1>1, <1>4, <2>1, TypesOfRuntimes, AfterwardsFacts
    <2>4. QED
      BY <1>1, <1>4, <2>1, <2>2, <2>3, AfterwardsFacts, TypesOfRuntimes DEF OwnStep
  <1>5. QED
    BY <1>2, <1>3, <1>4

-----------------------------------------------------------------------------
(* What a local step keeps *)

LEMMA LocalKeepsLines ==
  ASSUME LinesInv, Shapes, RuntimesInv, NEW r \in Runtimes, OwnStep(r), UNCHANGED objects,
         OnLine(objects, head, head'), head' \in 0..Len(objects)
  PROVE  /\ AcceptedOnLine'
         /\ \A q \in Runtimes : \A x :
              OnLine(objects, x, accepted[q]) => OnLine(objects', x, accepted'[q])
  <1>1. ASSUME NEW q \in Runtimes
        PROVE  /\ OnLine(objects, accepted'[q], head)
               /\ \A x : OnLine(objects, x, accepted[q]) => OnLine(objects, x, accepted'[q])
    <2>1. accepted'[q] = accepted[q] \/ accepted'[q] = head
      BY DEF OwnStep
    <2>2. OnLine(objects, accepted[q], head) /\ OnLine(objects, head, head)
      BY OnOwnLine, TypesOfRuntimes DEF RuntimesInv, AcceptedOnLine
    <2>3. \A x : OnLine(objects, x, accepted[q]) => OnLine(objects, x, head)
      BY <2>2, OnLineTransitive, TypesOfRuntimes
    <2>4. QED
      BY <2>1, <2>2, <2>3
  <1>2. \A q \in Runtimes : OnLine(objects, accepted'[q], head')
    BY <1>1, OnLineTransitive
  <1>3. QED
    BY <1>1, <1>2 DEF AcceptedOnLine

LEMMA FewerEdits ==
  ASSUME NEW s, NEW t, \A o \in Owners : t[o] \in {0, s[o]}
  PROVE  EditsIn(t) \subseteq EditsIn(s)
  BY DEF EditsIn

LEMMA LocalKeepsEdits ==
  ASSUME LinesInv, Shapes, RuntimesInv, NEW r \in Runtimes, OwnStep(r),
         UNCHANGED <<objects, edits>>
  PROVE  /\ \A q \in Runtimes : EditsIn(staged'[q]) \subseteq EditsIn(staged[q])
         /\ \A q \in Runtimes, o \in Owners : staged'[q][o] \in {0, staged[q][o]}
         /\ Numbered' /\ PublishedOnce' /\ UncertainIsOwn'
  <1>1. \A q \in Runtimes, o \in Owners : staged'[q][o] \in {0, staged[q][o]}
    BY DEF OwnStep
  <1>2. \A q \in Runtimes : EditsIn(staged'[q]) \subseteq EditsIn(staged[q])
    BY <1>1, FewerEdits
  <1>3. Numbered'
    <2>1. Numbered
      BY DEF RuntimesInv
    <2>2. \A x \in Revisions' : objects'[x].content.edits \subseteq 1..edits'
      BY <2>1 DEF Numbered, Revisions
    <2>3. \A q \in Runtimes : EditsIn(staged'[q]) \subseteq 1..edits'
      BY <1>2, <2>1 DEF Numbered
    <2>4. ASSUME NEW q \in Runtimes, NEW p \in Runtimes, NEW o \in Owners, NEW u \in Owners,
                 staged'[q][o] = staged'[p][u], staged'[q][o] # 0
          PROVE  q = p /\ o = u
      <3>1. staged'[q][o] = staged[q][o]
        BY <1>1, <2>4
      <3>2. staged'[p][u] # 0 /\ staged'[p][u] \in {0, staged[p][u]}
        BY <1>1, <2>4
      <3>3. staged[q][o] = staged[p][u] /\ staged[q][o] # 0
        BY <2>4, <3>1, <3>2
      <3>4. QED
        BY <2>1, <3>3 DEF Numbered
    <2>5. QED
      BY <2>2, <2>3, <2>4 DEF Numbered
  <1>4. PublishedOnce'
    BY DEF RuntimesInv, PublishedOnce, Revisions, Parent
  <1>5. UncertainIsOwn'
    <2>1. ASSUME NEW q \in Runtimes, uncertain'[q] # 0
          PROVE  EditsIn(staged'[q]) \subseteq objects[uncertain'[q]].content.edits
      <3>1. CASE q = r
        BY <2>1, <3>1 DEF OwnStep
      <3>2. CASE q # r
        BY <2>1, <3>2 DEF OwnStep, RuntimesInv, UncertainIsOwn
      <3>3. QED
        BY <3>1, <3>2
    <2>2. QED
      BY <2>1 DEF UncertainIsOwn
  <1>6. QED
    BY <1>1, <1>2, <1>3, <1>4, <1>5

LEMMA LocalKeepsFresh ==
  ASSUME LinesInv, Shapes, RuntimesInv, NEW r \in Runtimes, OwnStep(r),
         UNCHANGED <<objects, edits>>
  PROVE  Fresh'
  <1>1. ASSUME NEW q \in Runtimes
        PROVE  EditsIn(staged'[q]) \cap Published(objects, accepted'[q]) = {}
    BY DEF OwnStep, RuntimesInv, Fresh
  <1>2. ASSUME NEW q \in Admitted, pending'[q] # None
        PROVE  EditsIn(staged'[q]) \cap Published(objects, pending'[q].base) = {}
    <2>1. q \in Runtimes /\ EditsIn(staged'[q]) \subseteq EditsIn(staged[q])
      BY LocalKeepsEdits, TypesOfRuntimes
    <2>2. CASE pending[q] # None /\ pending'[q].base = pending[q].base
      BY <1>2, <2>1, <2>2 DEF RuntimesInv, Fresh
    <2>3. CASE q = r /\ NewCapture(r)
      BY <1>1, <2>1, <2>3 DEF NewCapture
    <2>4. QED
      BY <1>2, <2>2, <2>3 DEF OwnStep, SameCapture
  <1>3. QED
    BY <1>1, <1>2 DEF Fresh

\* A new capture is for a transaction that has committed nothing.
NewNumber(r) ==
  r \in Admitted /\ pending'[r] # None /\ ~SameCapture(r) =>
    \A x \in Revisions : objects[x].content.operation # pending'[r].transaction

LEMMA LocalKeepsCaptures ==
  ASSUME LinesInv, Shapes, RuntimesInv, NEW r \in Runtimes, OwnStep(r), NewNumber(r),
         UNCHANGED <<objects, edits>>
  PROVE  CaptureIsOwn'
  <1>1. ASSUME NEW q \in Admitted, NEW x \in Revisions, pending'[q] # None,
               objects[x].content.operation = pending'[q].transaction
        PROVE  /\ EditsIn(pending'[q].values) \subseteq objects[x].content.edits
               /\ \A o \in Owners :
                    staged'[q][o] \in objects[x].content.edits
                      => staged'[q][o] = pending'[q].values[o]
    <2>1. /\ pending[q] # None /\ pending'[q].transaction = pending[q].transaction
          /\ pending'[q].values = pending[q].values
      BY <1>1 DEF OwnStep, NewNumber, SameCapture
    <2>2. /\ EditsIn(pending[q].values) \subseteq objects[x].content.edits
          /\ \A o \in Owners :
               staged[q][o] \in objects[x].content.edits => staged[q][o] = pending[q].values[o]
      BY <1>1, <2>1 DEF RuntimesInv, CaptureIsOwn
    <2>3. 0 \notin objects[x].content.edits
      BY DEF RuntimesInv, Numbered
    <2>4. q \in Runtimes /\ \A o \in Owners : staged'[q][o] \in {0, staged[q][o]}
      BY LocalKeepsEdits, TypesOfRuntimes
    <2>5. QED
      BY <2>1, <2>2, <2>3, <2>4
  <1>2. QED
    BY <1>1 DEF CaptureIsOwn, Revisions

LEMMA LocalKeepsSurviving ==
  ASSUME LinesInv, Shapes, RuntimesInv, Surviving, NEW r \in Runtimes, OwnStep(r),
         UNCHANGED <<objects, edits>>, dropped \subseteq dropped',
         OnLine(objects, head, head'), head' \in 0..Len(objects)
  PROVE  Surviving'
  <1>1. Published(objects, head) \subseteq Published(objects, head')
    BY OnLinePublished
  <1>2. ASSUME NEW n \in 1..edits
        PROVE  \/ n \in dropped'
               \/ \E q \in Runtimes : n \in EditsIn(staged'[q])
               \/ n \in Published(objects, head')
    <2>1. CASE n \in dropped
      BY <2>1
    <2>2. CASE n \in Published(objects, head)
      BY <1>1, <2>2
    <2>3. ASSUME NEW q \in Runtimes, n \in EditsIn(staged[q])
          PROVE  \/ n \in dropped' \/ n \in EditsIn(staged'[q])
                 \/ n \in Published(objects, head')
      <3>1. CASE q = r
        BY <1>1, <2>3, <3>1 DEF OwnStep
      <3>2. CASE q # r
        <4>1. staged'[q] = staged[q]
          BY <2>3, <3>2 DEF OwnStep
        <4>2. QED
          BY <2>3, <4>1
      <3>3. QED
        BY <3>1, <3>2
    <2>4. \/ n \in dropped \/ n \in Published(objects, head)
          \/ \E q \in Runtimes : n \in EditsIn(staged[q])
      BY DEF Surviving
    <2>5. QED
      BY <2>1, <2>2, <2>3, <2>4
  <1>3. QED
    BY <1>1, <1>2 DEF Surviving

-----------------------------------------------------------------------------
(* Which steps are local *)

\* HEAD stays or takes one step, which no runtime follows at once.
HeadMoves ==
  \/ head' = head
  \/ head' \in Revisions /\ Parent(head') = head /\ UNCHANGED accepted

Ordinary(r) ==
  /\ OwnStep(r) /\ NewNumber(r) /\ HeadMoves
  /\ UNCHANGED <<objects, edits>> /\ dropped \subseteq dropped'

LEMMA HeadMovesOn ==
  ASSUME LinesInv, Shapes, HeadMoves
  PROVE  OnLine(objects, head, head') /\ head' \in 0..Len(objects)
  <1>1. CASE head' = head
    BY <1>1, OnOwnLine, TypesOfRuntimes
  <1>2. CASE head' \in Revisions /\ Parent(head') = head
    <2>1. PICK x \in Revisions : x = head'
      BY <1>2
    <2>2. Parent(x) = head /\ x \in 0..Len(objects)
      BY <1>2, <2>1, RevisionsAreNumbers DEF LinesInv, StoreInv, StoreTypeOK
    <2>3. QED
      BY <2>1, <2>2, LineOfChild
  <1>3. QED
    BY <1>1, <1>2 DEF HeadMoves

\* The candidate of a lease is HEAD or continues it.
LEMMA PublishingMoves ==
  ASSUME LinesInv, lease # None, head' \in {head, lease.candidate}, UNCHANGED accepted
  PROVE  HeadMoves
  BY DEF HeadMoves, LinesInv, StoreInv, StoreTypeOK, LeaseFollows

LEMMA UnaffectedIsOrdinary ==
  ASSUME LinesInv, Shapes, RuntimesInv, NEW r \in Runtimes,
         UNCHANGED <<objects, edits, dropped, accepted, staged, uncertain, pending>>,
         HeadMoves
  PROVE  Ordinary(r)
  <1>1. NewNumber(r)
    BY DEF NewNumber, SameCapture
  <1>2. QED
    BY <1>1, UnaffectedIsLocal DEF Ordinary

\* A participant that serves a request.
LEMMA ServeIsLocal ==
  ASSUME LinesInv, Shapes, RuntimesInv, NEW p \in Participants, NEW q \in Requests,
         q.method = "capture" =>
           \A x \in Revisions : objects[x].content.operation # q.transaction,
         Serve(p, q)
  PROVE  /\ OwnStep(p) /\ NewNumber(p)
         /\ pending'[p] # None /\ ~SameCapture(p) =>
              /\ q.method = "capture" /\ ~Locked(p) /\ CanCapture(p)
              /\ pending'[p].transaction = q.transaction
              /\ pending'[p].values = Kept(p)
         /\ \A x \in 0..Len(objects) :
              ~Locked(p) /\ q.method = "finish" /\ Finished(p, q.transaction, x)
                => accepted'[p] = x
  <1>1. /\ p \in Admitted /\ p \in Runtimes /\ q.transaction \in Nat /\ q.values \in Values
        /\ q.method \in {"capture", "prepare", "finish", "abort"}
    BY DEF Admitted, Runtimes, Requests
  <1>2. CASE Locked(p)
    <2>1. UNCHANGED <<accepted, staged, uncertain, pending>>
      BY <1>2 DEF Serve
    <2>2. QED
      BY <1>1, <1>2, <2>1, UnaffectedIsLocal DEF NewNumber, SameCapture
  <1>3. CASE ~Locked(p)
    <2>1. Handle(p, q)
      BY <1>3 DEF Serve
    <2>2. CASE q.method = "capture"
      <3>1. Capture(p, q.transaction)
        BY <2>1, <2>2 DEF Handle
      <3>2. OwnStep(p)
        BY <1>1, <3>1, CaptureIsLocal
      <3>3. CASE CanCapture(p)
        BY <1>1, <1>3, <2>2, <3>1, <3>2, <3>3, CaptureIsLocal DEF NewNumber
      <3>4. CASE ~CanCapture(p)
        <4>1. pending' = pending \/ pending' = [pending EXCEPT ![p] = None]
          BY <1>1, <3>1, <3>4, CaptureIsLocal
        <4>2. pending'[p] # None => SameCapture(p)
          BY <1>1, <4>1, TypesOfRuntimes DEF SameCapture
        <4>3. QED
          BY <2>2, <3>2, <4>2 DEF NewNumber
      <3>5. QED
        BY <3>3, <3>4
    <2>3. CASE q.method = "prepare"
      <3>1. Prepare(p, q.transaction, q.values)
        BY <2>1, <2>3 DEF Handle
      <3>2. QED
        BY <1>1, <2>3, <3>1, PrepareIsLocal DEF NewNumber
    <2>4. CASE q.method = "finish"
      <3>1. Finish(p, q.transaction)
        BY <2>1, <2>4 DEF Handle
      <3>2. pending'[p] # None => SameCapture(p)
        BY <1>1, <3>1, FinishIsLocal DEF SameCapture
      <3>3. QED
        BY <1>1, <2>4, <3>1, <3>2, FinishIsLocal DEF NewNumber
    <2>5. CASE q.method = "abort"
      <3>1. Abort(p, q.transaction)
        BY <2>1, <2>5 DEF Handle
      <3>2. pending'[p] # None => SameCapture(p)
        BY <1>1, <3>1, AbortIsLocal DEF SameCapture
      <3>3. QED
        BY <1>1, <2>5, <3>1, <3>2, AbortIsLocal DEF NewNumber
    <2>6. QED
      BY <1>1, <2>2, <2>3, <2>4, <2>5
  <1>4. QED
    BY <1>2, <1>3

LEMMA ReloadIsOrdinary ==
  ASSUME LinesInv, Shapes, RuntimesInv, NEW r \in Runtimes, Reloaded(r),
         UNCHANGED <<storeVars, edits, dropped>>
  PROVE  Ordinary(r) /\ (r \in Admitted /\ pending'[r] # None => SameCapture(r))
  <1>1. OwnStep(r)
    BY ReloadIsLocal
  <1>2. r \in Admitted /\ pending'[r] # None => SameCapture(r)
    BY ReloadIsLocal, TypesOfRuntimes DEF SameCapture
  <1>3. QED
    BY <1>1, <1>2 DEF Ordinary, NewNumber, HeadMoves, storeVars

LEMMA DiscardIsOrdinary ==
  ASSUME LinesInv, Shapes, RuntimesInv, NEW r \in Runtimes, Discard(r)
  PROVE  Ordinary(r) /\ (r \in Admitted => pending'[r] = None)
  <1>1. /\ uncertain[r] = 0 /\ uncertain' = uncertain /\ pending' = pending
        /\ r \in Admitted => pending[r] = None
        /\ dropped' = dropped \cup EditsIn(staged[r])
        /\ staged' = [staged EXCEPT ![r] = NoEdits]
        /\ accepted' = IF Strays(r) THEN accepted ELSE [accepted EXCEPT ![r] = head]
        /\ UNCHANGED <<objects, head, edits>>
    BY DEF Discard, storeVars
  <1>2. /\ staged' \in [Runtimes -> Values] /\ staged'[r] = NoEdits
        /\ accepted' \in [Runtimes -> 0..Len(objects)]
        /\ accepted'[r] \in {accepted[r], head}
        /\ \A q \in Runtimes \ {r} : accepted'[q] = accepted[q] /\ staged'[q] = staged[q]
    BY <1>1, TypesOfRuntimes, EditsAreTyped
  <1>3. EditsIn(staged'[r]) = {} /\ \A o \in Owners : staged'[r][o] = 0
    BY <1>2, NothingPublishedYet DEF NoEdits
  <1>4. OwnStep(r)
    BY <1>1, <1>2, <1>3, TypesOfRuntimes DEF OwnStep
  <1>5. QED
    BY <1>1, <1>4 DEF Ordinary, NewNumber, HeadMoves

LEMMA RestartIsOrdinary ==
  ASSUME LinesInv, Shapes, RuntimesInv, NEW r \in Runtimes, Restart(r)
  PROVE  Ordinary(r) /\ (r \in Admitted => pending'[r] = None)
  <1>1. /\ accepted' = [accepted EXCEPT ![r] = head]
        /\ staged' = [staged EXCEPT ![r] = NoEdits]
        /\ uncertain' = [uncertain EXCEPT ![r] = 0]
        /\ pending' = [q \in Admitted |-> IF q = r THEN None ELSE pending[q]]
        /\ dropped' = dropped \cup EditsIn(staged[r])
        /\ UNCHANGED <<objects, head, edits>>
    BY DEF Restart, DropLease
  <1>2. /\ accepted' \in [Runtimes -> 0..Len(objects)] /\ accepted'[r] = head
        /\ staged' \in [Runtimes -> Values] /\ staged'[r] = NoEdits
        /\ uncertain' \in [Runtimes -> 0..Len(objects)] /\ uncertain'[r] = 0
        /\ pending' \in [Admitted -> Captures \cup {None}]
        /\ r \in Admitted => pending'[r] = None
        /\ \A q \in Runtimes \ {r} :
             accepted'[q] = accepted[q] /\ staged'[q] = staged[q] /\ uncertain'[q] = uncertain[q]
        /\ \A q \in Admitted \ {r} : pending'[q] = pending[q]
    BY <1>1, TypesOfRuntimes, EditsAreTyped
  <1>3. EditsIn(staged'[r]) = {} /\ \A o \in Owners : staged'[r][o] = 0
    BY <1>2, NothingPublishedYet DEF NoEdits
  <1>4. OwnStep(r)
    BY <1>1, <1>2, <1>3 DEF OwnStep
  <1>5. QED
    BY <1>1, <1>2, <1>4 DEF Ordinary, NewNumber, HeadMoves

\* A flush that has ended, or is about to, remembers its candidate.
LEMMA UncertainIsOrdinary ==
  ASSUME LinesInv, Shapes, RuntimesInv, NEW r \in Plain,
         lease # None, lease.who = r, uncertain' = [uncertain EXCEPT ![r] = lease.candidate],
         UNCHANGED <<objects, edits, dropped, accepted, staged, pending>>, HeadMoves
  PROVE  Ordinary(r)
  <1>1. r \in Runtimes /\ lease.candidate \in 1..Len(objects)
    BY DEF Runtimes, LinesInv, StoreInv, StoreTypeOK, Revisions
  <1>2. /\ EditsIn(staged[r]) \subseteq objects[lease.candidate].content.edits
        /\ r \in Admitted => pending[r] = None
    BY DEF RuntimesInv, FlushIsOwn
  <1>3. /\ uncertain' \in [Runtimes -> 0..Len(objects)] /\ uncertain'[r] = lease.candidate
        /\ \A q \in Runtimes \ {r} : uncertain'[q] = uncertain[q]
    BY <1>1, TypesOfRuntimes
  <1>4. /\ EditsIn(staged'[r]) \cap Published(objects, accepted'[r]) = {}
        /\ \A o \in Owners : staged'[r][o] \in {0, staged[r][o]}
    BY <1>1 DEF RuntimesInv, Fresh
  <1>5. OwnStep(r)
    BY <1>1, <1>2, <1>3, <1>4, TypesOfRuntimes DEF OwnStep
  <1>6. QED
    BY <1>2, <1>5 DEF Ordinary, NewNumber

\* The holder of the lease keeps what it is about to publish.
LeaseKept(r) ==
  \/ lease' = None
  \/ lease'.who \notin Plain
  \/ /\ lease # None /\ lease'.who = lease.who /\ lease'.candidate = lease.candidate
     /\ r \in Admitted \cap Plain /\ lease.who = r /\ pending'[r] # None => SameCapture(r)

LEMMA LeaseKeptKeepsFlush ==
  ASSUME LinesInv, Shapes, RuntimesInv, NEW r \in Runtimes, Ordinary(r), LeaseKept(r)
  PROVE  FlushIsOwn'
  <1>1. CASE lease' = None \/ lease'.who \notin Plain
    BY <1>1 DEF FlushIsOwn
  <1>2. CASE /\ lease' # None /\ lease'.who \in Plain
             /\ lease # None /\ lease'.who = lease.who /\ lease'.candidate = lease.candidate
             /\ r \in Admitted \cap Plain /\ lease.who = r /\ pending'[r] # None => SameCapture(r)
    <2>1. PICK w \in Plain : w = lease.who
      BY <1>2
    <2>2. w \in Runtimes /\ lease' # None /\ lease'.who = w
      BY <1>2, <2>1 DEF Runtimes
    <2>3. /\ EditsIn(staged[w]) \subseteq objects[lease.candidate].content.edits
          /\ w \in Admitted => pending[w] = None
      BY <1>2, <2>1 DEF RuntimesInv, FlushIsOwn
    <2>4. EditsIn(staged'[w]) \subseteq EditsIn(staged[w])
      BY <2>2, LocalKeepsEdits DEF Ordinary
    <2>5. objects'[lease'.candidate].content.edits = objects[lease.candidate].content.edits
      BY <1>2 DEF Ordinary
    <2>6. w \in Admitted => pending'[w] = None
      <3>1. CASE w = r
        BY <1>2, <2>1, <2>3, <3>1 DEF SameCapture
      <3>2. CASE w # r
        BY <2>3, <3>2 DEF Ordinary, OwnStep
      <3>3. QED
        BY <3>1, <3>2
    <2>7. EditsIn(staged'[w]) \subseteq objects'[lease'.candidate].content.edits
      BY <2>3, <2>4, <2>5
    <2>8. QED
      BY <2>2, <2>6, <2>7 DEF FlushIsOwn
  <1>3. QED
    BY <1>1, <1>2 DEF LeaseKept

LEMMA OrdinaryKeeps ==
  ASSUME LinesInv, Shapes, RuntimesInv, Surviving, NEW r \in Runtimes, Ordinary(r), FlushIsOwn'
  PROVE  /\ RuntimesInv' /\ Surviving'
         /\ \A q \in Runtimes : \A x :
              OnLine(objects, x, accepted[q]) => OnLine(objects', x, accepted'[q])
  <1>1. /\ OwnStep(r) /\ NewNumber(r) /\ UNCHANGED <<objects, edits>>
        /\ dropped \subseteq dropped'
        /\ OnLine(objects, head, head') /\ head' \in 0..Len(objects)
    BY HeadMovesOn DEF Ordinary
  <1>2. Numbered' /\ PublishedOnce' /\ UncertainIsOwn'
    BY <1>1, LocalKeepsEdits
  <1>3. Fresh' /\ CaptureIsOwn'
    BY <1>1, LocalKeepsFresh, LocalKeepsCaptures
  <1>4. Surviving'
    BY <1>1, LocalKeepsSurviving
  <1>5. /\ AcceptedOnLine'
        /\ \A q \in Runtimes : \A x :
             OnLine(objects, x, accepted[q]) => OnLine(objects', x, accepted'[q])
    BY <1>1, LocalKeepsLines
  <1>6. QED
    BY <1>2, <1>3, <1>4, <1>5 DEF RuntimesInv

-----------------------------------------------------------------------------
(* Staging and sealing *)

LEMMA StageKeeps ==
  ASSUME LinesInv, Shapes, RuntimesInv, GroupInv, Surviving, NEW r \in Runtimes, NEW o \in Owners,
         Stage(r, o)
  PROVE  RuntimesInv' /\ Surviving'
  <1> DEFINE new == edits + 1
  <1>1. /\ ~Locked(r) /\ uncertain[r] = 0 /\ new \in 1..MaxEdits /\ edits' = new /\ edits \in Nat
        /\ staged' = [staged EXCEPT ![r][o] = new]
        /\ dropped' = dropped \cup ({staged[r][o]} \ {0})
        /\ UNCHANGED <<objects, intent, head, lease, accepted, uncertain, pending>>
    BY ConfigurationAssumption DEF Stage, storeVars, Shapes
  <1>2. /\ \A q \in Runtimes \ {r} : staged'[q] = staged[q]
        /\ \A u \in Owners \ {o} : staged'[r][u] = staged[r][u]
        /\ staged'[r][o] = new
    BY <1>1, TypesOfRuntimes DEF Values
  <1>3. /\ EditsIn(staged'[r]) \subseteq EditsIn(staged[r]) \cup {new}
        /\ EditsIn(staged[r]) \subseteq EditsIn(staged'[r]) \cup {staged[r][o]}
        /\ new # 0 /\ new \in EditsIn(staged'[r])
    BY <1>1, <1>2 DEF EditsIn
  <1>4. /\ \A x \in Revisions : new \notin objects[x].content.edits
        /\ \A q \in Runtimes, u \in Owners : staged[q][u] # new
    <2>1. \A x \in Revisions : new \notin objects[x].content.edits
      BY <1>1 DEF RuntimesInv, Numbered
    <2>2. ASSUME NEW q \in Runtimes, NEW u \in Owners, staged[q][u] = new PROVE FALSE
      <3>1. new \in EditsIn(staged[q])
        BY <1>1, <2>2 DEF EditsIn
      <3>2. QED
        BY <1>1, <3>1 DEF RuntimesInv, Numbered
    <2>3. QED
      BY <2>1, <2>2
  <1>5. \A x \in 0..Len(objects) : new \notin Published(objects, x)
    BY <1>4, LineMembers DEF Published
  <1> HIDE DEF new
  <1>6. AcceptedOnLine' /\ PublishedOnce'
    BY <1>1 DEF RuntimesInv, AcceptedOnLine, PublishedOnce, Revisions, Parent
  <1>7. Numbered'
    <2>1. \A x \in Revisions' : objects'[x].content.edits \subseteq 1..edits'
      BY <1>1 DEF RuntimesInv, Numbered, Revisions, new
    <2>2. ASSUME NEW q \in Runtimes PROVE EditsIn(staged'[q]) \subseteq 1..edits'
      <3>1. EditsIn(staged[q]) \subseteq 1..edits
        BY DEF RuntimesInv, Numbered
      <3>2. 1..edits \subseteq 1..edits' /\ new \in 1..edits'
        BY <1>1 DEF new
      <3>3. QED
        BY <1>2, <1>3, <3>1, <3>2
    <2>3. ASSUME NEW q \in Runtimes, NEW p \in Runtimes, NEW u \in Owners, NEW v \in Owners,
                 staged'[q][u] = staged'[p][v], staged'[q][u] # 0
          PROVE  q = p /\ u = v
      <3>1. CASE q = r /\ u = o
        BY <1>2, <1>4, <2>3, <3>1
      <3>2. CASE p = r /\ v = o
        BY <1>2, <1>4, <2>3, <3>2
      <3>3. CASE ~(q = r /\ u = o) /\ ~(p = r /\ v = o)
        <4>1. staged'[q][u] = staged[q][u] /\ staged'[p][v] = staged[p][v]
          BY <1>2, <3>3
        <4>2. staged[q][u] = staged[p][v] /\ staged[q][u] # 0
          BY <2>3, <4>1
        <4>3. QED
          BY <4>2 DEF RuntimesInv, Numbered
      <3>4. QED
        BY <3>1, <3>2, <3>3
    <2>4. QED
      BY <2>1, <2>2, <2>3 DEF Numbered
  <1>8. Fresh'
    <2>1. ASSUME NEW q \in Runtimes, NEW x \in 0..Len(objects),
                 EditsIn(staged[q]) \cap Published(objects, x) = {}
          PROVE  EditsIn(staged'[q]) \cap Published(objects, x) = {}
      <3>1. CASE q = r
        BY <1>3, <1>5, <2>1, <3>1
      <3>2. CASE q # r
        BY <1>2, <2>1, <3>2
      <3>3. QED
        BY <3>1, <3>2
    <2>2. \A q \in Runtimes : EditsIn(staged'[q]) \cap Published(objects, accepted[q]) = {}
      BY <2>1, TypesOfRuntimes DEF RuntimesInv, Fresh
    <2>3. \A q \in Admitted : pending[q] # None =>
            EditsIn(staged'[q]) \cap Published(objects, pending[q].base) = {}
      BY <2>1, TypesOfRuntimes DEF RuntimesInv, Fresh
    <2>4. QED
      BY <1>1, <2>2, <2>3 DEF Fresh
  <1>9. UncertainIsOwn'
    <2>1. \A q \in Runtimes : uncertain[q] # 0 =>
            EditsIn(staged'[q]) \subseteq objects[uncertain[q]].content.edits
      BY <1>1, <1>2 DEF RuntimesInv, UncertainIsOwn
    <2>2. QED
      BY <1>1, <2>1 DEF UncertainIsOwn
  <1>10. FlushIsOwn'
    <2>1. CASE lease # None /\ lease.who \in Plain
      <3>1. PICK w \in Plain : w = lease.who
        BY <2>1
      <3>2. w # r /\ w \in Runtimes
        BY <1>1, <2>1, <3>1 DEF Locked, Runtimes
      <3>3. staged'[w] = staged[w]
        BY <1>2, <3>2
      <3>4. QED
        BY <1>1, <2>1, <3>1, <3>3 DEF RuntimesInv, FlushIsOwn
    <2>2. CASE ~(lease # None /\ lease.who \in Plain)
      BY <1>1, <2>2 DEF FlushIsOwn
    <2>3. QED
      BY <2>1, <2>2
  <1>11. CaptureIsOwn'
    <2>1. ASSUME NEW q \in Admitted, NEW x \in Revisions, pending[q] # None,
                 objects[x].content.operation = pending[q].transaction
          PROVE  /\ EditsIn(pending[q].values) \subseteq objects[x].content.edits
                 /\ \A u \in Owners :
                      staged'[q][u] \in objects[x].content.edits
                        => staged'[q][u] = pending[q].values[u]
      <3>1. /\ EditsIn(pending[q].values) \subseteq objects[x].content.edits
            /\ \A u \in Owners :
                 staged[q][u] \in objects[x].content.edits => staged[q][u] = pending[q].values[u]
        BY <2>1 DEF RuntimesInv, CaptureIsOwn
      <3>2. \A u \in Owners : staged'[q][u] = staged[q][u] \/ staged'[q][u] = new
        BY <1>2, TypesOfRuntimes
      <3>3. QED
        BY <1>4, <3>1, <3>2
    <2>2. QED
      BY <1>1, <2>1 DEF CaptureIsOwn, Revisions
  <1>12. Surviving'
    <2>1. ASSUME NEW n \in 1..edits'
          PROVE  \/ n \in dropped'
                 \/ \E q \in Runtimes : n \in EditsIn(staged'[q])
                 \/ n \in Published(objects, head)
      <3>1. CASE n = new
        BY <1>3, <3>1
      <3>2. CASE n # new
        <4>1. n \in 1..edits /\ n # 0
          BY <1>1, <3>2 DEF new
        <4>2. \/ n \in dropped \/ n \in Published(objects, head)
              \/ \E q \in Runtimes : n \in EditsIn(staged[q])
          BY <4>1 DEF Surviving
        <4>3. ASSUME NEW q \in Runtimes, n \in EditsIn(staged[q])
              PROVE  n \in dropped' \/ n \in EditsIn(staged'[q])
          <5>1. CASE q = r
            BY <1>1, <1>3, <4>1, <4>3, <5>1
          <5>2. CASE q # r
            BY <1>2, <4>3, <5>2
          <5>3. QED
            BY <5>1, <5>2
        <4>4. QED
          BY <1>1, <4>2, <4>3
      <3>3. QED
        BY <3>1, <3>2
    <2>2. QED
      BY <1>1, <2>1 DEF Surviving
  <1>13. QED
    BY <1>6, <1>7, <1>8, <1>9, <1>10, <1>11, <1>12 DEF RuntimesInv

\* What a content may carry to be sealed.
Sealable(c) ==
  /\ c \in Contents
  /\ c.edits \subseteq 1..edits
  /\ c.edits \cap Published(objects, head) = {}
  /\ \A r \in Admitted : pending[r] # None /\ c.operation = pending[r].transaction =>
       /\ EditsIn(pending[r].values) \subseteq c.edits
       /\ \A o \in Owners : staged[r][o] \in c.edits => staged[r][o] = pending[r].values[o]

\* The objects after sealing.
LEMMA SealedObjects ==
  ASSUME LinesInv, NEW c \in Contents, NEW stored \in BOOLEAN, objects' = Sealed(c, stored)
  PROVE  /\ Len(objects') = Len(objects) + 1 /\ Len(objects) \in Nat
         /\ Revisions = 1..Len(objects) /\ Revisions' = Revisions \cup {Len(objects')}
         /\ \A x \in Revisions : objects'[x] = objects[x]
         /\ objects'[Len(objects')].content = c
         /\ \A x \in 0..Len(objects) :
              /\ LineIn(objects', x) = LineIn(objects, x)
              /\ Published(objects', x) = Published(objects, x)
  <1>1. objects \in Seq(Object) /\ StoreTypeOK
    BY DEF LinesInv, StoreInv, StoreTypeOK
  <1>2. /\ objects' \in Seq(Object) /\ Len(objects') = Len(objects) + 1
        /\ \A x \in Revisions : x \in Revisions' /\ objects'[x] = objects[x]
    BY <1>1, SealingExtends
  <1>3. Revisions = 1..Len(objects) /\ Len(objects) \in Nat /\ Revisions' = 1..Len(objects')
    BY <1>1, <1>2 DEF Revisions
  <1>4. objects'[Len(objects')].content = c
    <2> DEFINE new == [past |-> LineOf(head), content |-> c, stored |-> stored]
    <2>1. new \in Object /\ new.content = c
      BY <1>1, LineIsSequence DEF StoreTypeOK, Object
    <2>2. objects' = Append(objects, new)
      BY DEF Sealed
    <2> HIDE DEF new
    <2>3. objects'[Len(objects) + 1] = new
      BY <1>1, <2>1, <2>2, AppendProperties
    <2>4. QED
      BY <1>2, <2>1, <2>3
  <1>5. \A x \in 0..Len(objects) :
          /\ LineIn(objects', x) = LineIn(objects, x)
          /\ Published(objects', x) = Published(objects, x)
    BY <1>2, LinesEndure
  <1>6. Revisions' = Revisions \cup {Len(objects')}
    BY <1>2, <1>3
  <1>7. QED
    BY <1>2, <1>3, <1>4, <1>5, <1>6

LEMMA SealedParents ==
  ASSUME LinesInv, NEW c \in Contents, NEW stored \in BOOLEAN, objects' = Sealed(c, stored)
  PROVE  \A x \in Revisions' : Parent(x)' = IF x \in Revisions THEN Parent(x) ELSE head
  <1>1. StoreTypeOK
    BY DEF LinesInv, StoreInv
  <1>2. ASSUME NEW x \in Revisions' PROVE Parent(x)' = IF x \in Revisions THEN Parent(x) ELSE head
    <2>1. CASE x \in Revisions
      BY <2>1, SealedObjects DEF Parent
    <2>2. CASE x \notin Revisions
      <3>1. x = Len(objects')
        BY <2>2, SealedObjects
      <3>2. QED
        BY <1>1, <2>2, <3>1, NewContinuesHead
    <2>3. QED
      BY <2>1, <2>2
  <1>3. QED
    BY <1>2

LEMMA SealingKeeps ==
  ASSUME LinesInv, Shapes, RuntimesInv, Surviving, Unanimous, NEW c, NEW stored \in BOOLEAN,
         Sealable(c), objects' = Sealed(c, stored),
         UNCHANGED <<head, accepted, staged, pending, edits, dropped>>,
         UncertainIsOwn', FlushIsOwn'
  PROVE  /\ RuntimesInv' /\ Surviving'
         /\ \A q \in Runtimes : \A x :
              OnLine(objects, x, accepted[q]) => OnLine(objects', x, accepted'[q])
  <1>1. c \in Contents
    BY DEF Sealable
  <1>2. /\ Len(objects') = Len(objects) + 1 /\ Len(objects) \in Nat
        /\ Revisions = 1..Len(objects) /\ Revisions' = Revisions \cup {Len(objects')}
        /\ \A x \in Revisions : objects'[x] = objects[x]
        /\ objects'[Len(objects')].content = c
    BY <1>1, SealedObjects
  <1>3. \A x \in 0..Len(objects) :
          LineIn(objects', x) = LineIn(objects, x) /\ Published(objects', x) = Published(objects, x)
    BY <1>1, SealedObjects
  <1>4. /\ \A q \in Runtimes : accepted[q] \in 0..Len(objects)
        /\ \A q \in Admitted : pending[q] # None => pending[q].base \in 0..Len(objects)
        /\ head \in 0..Len(objects)
    BY TypesOfRuntimes
  <1>5. /\ AcceptedOnLine'
        /\ \A q \in Runtimes : \A x :
             OnLine(objects, x, accepted[q]) => OnLine(objects', x, accepted'[q])
    BY <1>3, <1>4 DEF OnLine, RuntimesInv, AcceptedOnLine
  <1>6. Numbered'
    <2>1. \A x \in Revisions' : objects'[x].content.edits \subseteq 1..edits
      BY <1>2 DEF RuntimesInv, Numbered, Sealable
    <2>2. QED
      BY <2>1 DEF RuntimesInv, Numbered
  <1>7. Fresh'
    <2>1. \A q \in Runtimes : EditsIn(staged[q]) \cap Published(objects', accepted[q]) = {}
      BY <1>3, <1>4 DEF RuntimesInv, Fresh
    <2>2. \A q \in Admitted : pending[q] # None =>
            EditsIn(staged[q]) \cap Published(objects', pending[q].base) = {}
      BY <1>3, <1>4 DEF RuntimesInv, Fresh
    <2>3. QED
      BY <2>1, <2>2 DEF Fresh
  <1>8. PublishedOnce'
    <2>1. ASSUME NEW x \in Revisions'
          PROVE  objects'[x].content.edits \cap Published(objects', Parent(x)') = {}
      <3>1. CASE x \in Revisions
        <4>1. PICK y \in 0..Len(objects) : y = Parent(x)
          BY <3>1, LineOfChild
        <4>2. Parent(x)' = y
          BY <1>1, <2>1, <3>1, <4>1, SealedParents
        <4>3. objects[x].content.edits \cap Published(objects, y) = {}
          BY <3>1, <4>1 DEF RuntimesInv, PublishedOnce
        <4>4. QED
          BY <1>2, <1>3, <3>1, <4>2, <4>3
      <3>2. CASE x \notin Revisions
        <4>1. Parent(x)' = head /\ x = Len(objects')
          BY <1>1, <1>2, <2>1, <3>2, SealedParents
        <4>2. c.edits \cap Published(objects, head) = {}
          BY DEF Sealable
        <4>3. QED
          BY <1>2, <1>3, <1>4, <4>1, <4>2
      <3>3. QED
        BY <3>1, <3>2
    <2>2. QED
      BY <2>1 DEF PublishedOnce
  <1>9. CaptureIsOwn'
    <2>1. ASSUME NEW q \in Admitted, NEW x \in Revisions', pending[q] # None,
                 objects'[x].content.operation = pending[q].transaction
          PROVE  /\ EditsIn(pending[q].values) \subseteq objects'[x].content.edits
                 /\ \A o \in Owners :
                      staged[q][o] \in objects'[x].content.edits
                        => staged[q][o] = pending[q].values[o]
      <3>1. CASE x \in Revisions
        BY <1>2, <2>1, <3>1 DEF RuntimesInv, CaptureIsOwn
      <3>2. CASE x \notin Revisions
        BY <1>2, <2>1, <3>2 DEF Sealable
      <3>3. QED
        BY <3>1, <3>2
    <2>2. QED
      BY <2>1 DEF CaptureIsOwn
  <1>10. Surviving'
    BY <1>3, <1>4 DEF Surviving
  <1>11. QED
    BY <1>5, <1>6, <1>7, <1>8, <1>9, <1>10 DEF RuntimesInv

\* A runtime of its own seals what it has staged.
LEMMA FlushSealKeeps ==
  ASSUME LinesInv, Shapes, RuntimesInv, GroupInv, Surviving, Unanimous, NEW r \in Runtimes,
         FlushSeal(r)
  PROVE  /\ RuntimesInv' /\ Surviving'
         /\ \A q \in Runtimes : \A x :
              OnLine(objects, x, accepted[q]) => OnLine(objects', x, accepted'[q])
  <1> DEFINE c == OwnContent(r)
  <1>1. /\ r \in Plain /\ r \in Admitted => pending[r] = None
        /\ uncertain[r] = 0 /\ accepted[r] = head
        /\ UNCHANGED <<head, accepted, staged, pending, edits, dropped>>
    BY DEF FlushSeal, MayFlush, Seal, SealFails, MayCommit, RuntimeUnchanged
  <1>2. PICK stored \in BOOLEAN :
          /\ objects' = Sealed(c, stored)
          /\ \/ /\ lease' = [who |-> r, candidate |-> Len(objects'), next |-> "intent"]
                /\ uncertain' = uncertain
             \/ lease' = None /\ uncertain' = [uncertain EXCEPT ![r] = Len(objects')]
    BY DEF FlushSeal, Seal, SealFails, MayCommit
  <1>3. c \in Contents /\ c.edits = EditsIn(staged[r]) /\ c.operation = 0
    BY OwnContentIsTyped DEF OwnContent
  <1>4. Sealable(c)
    <2>1. c.edits \subseteq 1..edits /\ c.edits \cap Published(objects, head) = {}
      BY <1>1, <1>3 DEF RuntimesInv, Numbered, Fresh
    <2>2. \A q \in Admitted : pending[q] # None => pending[q].transaction # 0
      BY TypesOfRuntimes DEF Shapes, TypeOK
    <2>3. QED
      BY <1>3, <2>1, <2>2 DEF Sealable
  <1> HIDE DEF c
  <1>5. /\ \A x \in Revisions : objects'[x] = objects[x]
        /\ objects'[Len(objects')].content = c
        /\ Len(objects') = Len(objects) + 1 /\ Len(objects) \in Nat
        /\ Revisions = 1..Len(objects)
    BY <1>2, <1>3, SealedObjects
  <1>6. FlushIsOwn'
    <2>1. CASE lease' = None
      BY <2>1 DEF FlushIsOwn
    <2>2. CASE lease' = [who |-> r, candidate |-> Len(objects'), next |-> "intent"]
      <3>1. lease'.who = r /\ lease'.candidate = Len(objects')
        BY <2>2
      <3>2. EditsIn(staged'[r]) \subseteq objects'[Len(objects')].content.edits
        BY <1>1, <1>3, <1>5
      <3>3. QED
        BY <1>1, <3>1, <3>2 DEF FlushIsOwn
    <2>3. QED
      BY <1>2, <2>1, <2>2
  <1>7. UncertainIsOwn'
    <2>1. ASSUME NEW q \in Runtimes, uncertain'[q] # 0
          PROVE  EditsIn(staged[q]) \subseteq objects'[uncertain'[q]].content.edits
      <3>1. CASE uncertain'[q] = uncertain[q]
        <4>1. uncertain[q] \in Revisions
          BY <1>5, <2>1, <3>1, TypesOfRuntimes
        <4>2. QED
          BY <1>5, <2>1, <3>1, <4>1 DEF RuntimesInv, UncertainIsOwn
      <3>2. CASE uncertain'[q] # uncertain[q]
        <4>1. q = r /\ uncertain'[q] = Len(objects')
          BY <1>2, <3>2, TypesOfRuntimes
        <4>2. QED
          BY <1>3, <1>5, <4>1
      <3>3. QED
        BY <3>1, <3>2
    <2>2. QED
      BY <1>1, <2>1 DEF UncertainIsOwn
  <1>8. QED
    BY <1>1, <1>2, <1>4, <1>6, <1>7, SealingKeeps

\* The group seals the edits of all its participants.
LEMMA GroupSealKeeps ==
  ASSUME LinesInv, Shapes, RuntimesInv, GroupInv, Surviving, Unanimous,
         TxCommit, objects' # objects
  PROVE  /\ RuntimesInv' /\ Surviving'
         /\ \A q \in Runtimes : \A x :
              OnLine(objects, x, accepted[q]) => OnLine(objects', x, accepted'[q])
  <1> DEFINE c == TxContent
  <1>1. /\ tx.phase = "preparing" /\ Undecided
        /\ UNCHANGED <<accepted, staged, uncertain, pending, edits, dropped>>
    BY DEF TxCommit, runtimeVars, Undecided
  <1>2. PICK stored \in BOOLEAN :
          /\ objects' = Sealed(c, stored) /\ head' = head /\ accepted[Controller] = head
          /\ \/ lease' = [who |-> Controller, candidate |-> Len(objects'), next |-> "intent"]
             \/ lease' = None
    BY DEF TxCommit, Seal, SealFails, MayCommit, storeVars
  <1>3. /\ c \in Contents /\ c.edits = EditsIn(Updates) /\ c.operation = tx.number
        /\ Compatible
    BY <1>1, TxContentIsTyped DEF TxContent, GroupInv, CommitsAreKnown
  <1>4. /\ \A r \in Admitted, o \in Owners : tx.frozen[r].values[o] \in {0, Updates[o]}
        /\ \A o \in Owners : Updates[o] # 0 =>
              \E r \in Admitted : tx.frozen[r].values[o] = Updates[o]
        /\ \A r \in Admitted : tx.frozen[r].base = head
    BY <1>2, <1>3, UpdatesFacts DEF Compatible
  <1>5. ASSUME NEW n \in c.edits
        PROVE  \E r \in Admitted, o \in Owners : tx.frozen[r].values[o] = n /\ n # 0 /\ Updates[o] = n
    <2>1. PICK o \in Owners : Updates[o] = n /\ n # 0
      BY <1>3, <1>5 DEF EditsIn
    <2>2. QED
      BY <1>4, <2>1
  <1>6. Sealable(c)
    <2>1. ASSUME NEW n \in c.edits
          PROVE  n \in 1..edits /\ n \notin Published(objects, head)
      <3>1. PICK r \in Admitted : n \in EditsIn(tx.frozen[r].values)
        BY <1>5, <2>1 DEF EditsIn
      <3>2. QED
        BY <1>1, <1>4, <3>1 DEF GroupInv, FrozenIsFresh
    <2>2. ASSUME NEW r \in Admitted, pending[r] # None, tx.number = pending[r].transaction
          PROVE  /\ EditsIn(pending[r].values) \subseteq c.edits
                 /\ \A o \in Owners : staged[r][o] \in c.edits => staged[r][o] = pending[r].values[o]
      <3>1. pending[r].values = tx.frozen[r].values
        BY <1>1, <2>2 DEF GroupInv, FrozenIsCaptured
      <3>2. EditsIn(tx.frozen[r].values) \subseteq EditsIn(Updates)
        BY <1>4, FewerEdits
      <3>3. ASSUME NEW o \in Owners, staged[r][o] \in c.edits
            PROVE  staged[r][o] = tx.frozen[r].values[o]
        <4>1. PICK q \in Admitted, u \in Owners :
                tx.frozen[q].values[u] = staged[r][o] /\ staged[r][o] # 0
          BY <1>5, <3>3
        <4>2. r \in Runtimes
          BY TypesOfRuntimes
        <4>3. q = r /\ u = o
          BY <1>1, <4>1, <4>2 DEF GroupInv, FrozenIsFresh
        <4>4. QED
          BY <4>1, <4>3
      <3>4. QED
        BY <1>3, <3>1, <3>2, <3>3
    <2>3. QED
      BY <1>3, <2>1, <2>2 DEF Sealable
  <1> HIDE DEF c
  <1>7. /\ \A x \in Revisions : objects'[x] = objects[x]
        /\ Revisions = 1..Len(objects) /\ Len(objects) \in Nat
    BY <1>2, <1>3, SealedObjects
  <1>8. FlushIsOwn'
    <2>1. Controller \notin Plain
      BY ConfigurationAssumption
    <2>2. QED
      BY <1>2, <2>1 DEF FlushIsOwn
  <1>9. UncertainIsOwn'
    <2>1. \A q \in Runtimes : uncertain[q] # 0 => uncertain[q] \in Revisions
      BY <1>7, TypesOfRuntimes
    <2>2. QED
      BY <1>1, <1>7, <2>1 DEF RuntimesInv, UncertainIsOwn
  <1>10. QED
    BY <1>1, <1>2, <1>6, <1>8, <1>9, SealingKeeps

-----------------------------------------------------------------------------
(* What an ordinary step keeps of the group *)

TxTyped ==
  /\ tx \in Transactions
  /\ tx.number \in 0..MaxTransactions
  /\ \A r \in Admitted : tx.frozen[r].base \in 0..Len(objects)
  /\ tx.result \in 0..Len(objects)
  /\ tx.phase = "publishing" => lease # None /\ lease.who = Controller

LEMMA TypesOfTx ==
  ASSUME Shapes
  PROVE  /\ TxTyped /\ MaxTransactions \in Nat
         /\ tx.phase \in Phases /\ tx.todo \subseteq Admitted /\ tx.captured \subseteq Admitted
         /\ tx.number \in Nat /\ tx.frozen \in [Admitted -> Replies]
         /\ channel \in [Participants -> Channels] /\ reloading \subseteq Plain
         /\ edits \in 0..MaxEdits /\ MaxEdits \in Nat
  <1>1. MaxTransactions \in Nat /\ MaxEdits \in Nat
    BY ConfigurationAssumption
  <1>2. tx \in Transactions /\ tx.number \in 0..MaxTransactions
    BY DEF Shapes, TypeOK
  <1>3. tx.number \in Nat
    BY <1>1, <1>2
  <1>4. tx.frozen \in [Admitted -> Replies]
    BY <1>2 DEF Transactions
  <1>5. QED
    BY <1>1, <1>2, <1>3, <1>4 DEF Shapes, TypeOK, TxTyped

NewTransaction(r) ==
  r \in Admitted /\ pending'[r] # None /\ ~SameCapture(r) =>
    pending'[r].transaction \in 1..tx'.number

\* The types after an ordinary step.
LEMMA OrdinaryTypes ==
  ASSUME Shapes, LinesInv', NEW r \in Runtimes, Ordinary(r), NewTransaction(r), TxTyped',
         tx.number =< tx'.number, channel' \in [Participants -> Channels],
         reloading' \subseteq Plain
  PROVE  Shapes'
  <1>1. OwnStep(r) /\ objects' = objects /\ edits' = edits
    BY DEF Ordinary
  <1>2. tx.number \in Nat /\ tx'.number \in Nat /\ tx' \in Transactions
    <2>1. tx' \in Transactions /\ tx'.number \in 0..MaxTransactions
      BY DEF TxTyped
    <2>2. QED
      BY <2>1, TypesOfTx
  <1>3. ASSUME NEW q \in Admitted, pending'[q] # None
        PROVE  /\ pending'[q].transaction \in 1..tx'.number
               /\ pending'[q].base \in 0..Len(objects)
               /\ uncertain'[q] = 0
    <2>1. CASE pending[q] # None /\ pending'[q].transaction = pending[q].transaction
               /\ pending'[q].base = pending[q].base /\ uncertain'[q] = 0
      <3>1. pending[q].transaction \in 1..tx.number /\ pending[q].base \in 0..Len(objects)
        BY <2>1, TypesOfRuntimes
      <3>2. QED
        BY <1>2, <2>1, <3>1
    <2>2. CASE q # r
      <3>1. pending'[q] = pending[q] /\ uncertain'[q] = uncertain[q]
        BY <1>1, <2>2, TypesOfRuntimes DEF OwnStep
      <3>2. QED
        BY <1>3, <2>1, <3>1, TypesOfRuntimes
    <2>3. CASE q = r /\ SameCapture(r)
      BY <1>1, <1>3, <2>1, <2>3 DEF OwnStep, SameCapture
    <2>4. CASE q = r /\ ~SameCapture(r)
      <3>1. uncertain'[q] = 0 /\ pending'[q].base = head
        BY <1>1, <1>3, <2>4 DEF OwnStep, NewCapture
      <3>2. QED
        BY <1>3, <2>4, <3>1, TypesOfRuntimes DEF NewTransaction
    <2>5. QED
      BY <2>2, <2>3, <2>4
  <1>4. /\ accepted' \in [Runtimes -> 0..Len(objects)] /\ staged' \in [Runtimes -> Values]
        /\ uncertain' \in [Runtimes -> 0..Len(objects)]
        /\ pending' \in [Admitted -> Captures \cup {None}]
    BY <1>1 DEF OwnStep
  <1>5. /\ tx'.phase \in Phases /\ tx'.todo \subseteq Admitted /\ tx'.captured \subseteq Admitted
    BY <1>2 DEF Transactions
  <1>6. StoreTypeOK' /\ DOMAIN channel' = Participants
    BY DEF LinesInv, StoreInv
  <1>7. TypeOK'
    BY <1>1, <1>3, <1>4, <1>5, <1>6 DEF TypeOK, TxTyped
  <1>8. QED
    BY <1>1, <1>4, <1>7, TypesOfTx DEF Shapes, TxTyped

\* The transaction is not decided further, and nothing is frozen anew.
Quiet ==
  Undecided' =>
    /\ Undecided /\ tx'.number = tx.number /\ tx'.frozen = tx.frozen
    /\ tx'.phase = "capturing" => tx.phase = "capturing" /\ tx'.todo = tx.todo
    /\ tx'.phase = "preparing" => tx.phase = "preparing" \/ tx.todo = {}

\* A new capture does not belong to a transaction that may commit.
NotCommitting(r) ==
  r \in Admitted /\ pending'[r] # None /\ ~SameCapture(r) /\ Undecided' =>
    pending'[r].transaction # tx'.number

LEMMA QuietKeepsFrozen ==
  ASSUME Shapes, LinesInv, RuntimesInv, GroupInv, NEW r \in Runtimes, Ordinary(r), Quiet,
         NotCommitting(r)
  PROVE  FrozenIsCaptured' /\ FrozenIsFresh'
  <1>1. ASSUME Undecided', NEW q \in Admitted, pending'[q] # None,
               pending'[q].transaction = tx'.number
        PROVE  \/ tx'.phase = "capturing" /\ q \in tx'.todo
               \/ pending'[q].values = tx'.frozen[q].values
    <2>1. /\ Undecided /\ tx'.number = tx.number /\ tx'.frozen = tx.frozen
          /\ tx'.phase = "capturing" => tx.phase = "capturing" /\ tx'.todo = tx.todo
          /\ tx'.phase = "preparing" => tx.phase = "preparing" \/ tx.todo = {}
      BY <1>1 DEF Quiet
    <2>2. /\ pending[q] # None /\ pending'[q].transaction = pending[q].transaction
          /\ pending'[q].values = pending[q].values
      BY <1>1 DEF Ordinary, OwnStep, SameCapture, NotCommitting
    <2>3. \/ tx.phase = "capturing" /\ q \in tx.todo
          \/ pending[q].values = tx.frozen[q].values
      BY <1>1, <2>1, <2>2 DEF GroupInv, FrozenIsCaptured
    <2>4. tx'.phase \in {"capturing", "preparing"}
      BY <1>1 DEF Undecided
    <2>5. QED
      BY <2>1, <2>2, <2>3, <2>4
  <1>2. ASSUME Undecided', NEW q \in Admitted
        PROVE  /\ EditsIn(tx'.frozen[q].values) \subseteq 1..edits
               /\ EditsIn(tx'.frozen[q].values) \cap Published(objects, tx'.frozen[q].base) = {}
               /\ \A u \in Owners, p \in Runtimes, o \in Owners :
                    tx'.frozen[q].values[u] = staged'[p][o] /\ staged'[p][o] # 0
                      => q = p /\ u = o
    <2>1. Undecided /\ tx'.frozen = tx.frozen
      BY <1>2 DEF Quiet
    <2>2. \A p \in Runtimes, o \in Owners : staged'[p][o] \in {0, staged[p][o]}
      BY LocalKeepsEdits DEF Ordinary
    <2>3. /\ EditsIn(tx.frozen[q].values) \subseteq 1..edits
          /\ EditsIn(tx.frozen[q].values) \cap Published(objects, tx.frozen[q].base) = {}
          /\ \A u \in Owners, p \in Runtimes, o \in Owners :
               tx.frozen[q].values[u] = staged[p][o] /\ staged[p][o] # 0 => q = p /\ u = o
      BY <2>1 DEF GroupInv, FrozenIsFresh
    <2>4. ASSUME NEW u \in Owners, NEW p \in Runtimes, NEW o \in Owners,
                 tx.frozen[q].values[u] = staged'[p][o], staged'[p][o] # 0
          PROVE  q = p /\ u = o
      <3>1. staged'[p][o] = staged[p][o]
        BY <2>2, <2>4
      <3>2. QED
        BY <2>3, <2>4, <3>1
    <2>5. QED
      BY <2>1, <2>3, <2>4
  <1>3. FrozenIsCaptured'
    BY <1>1 DEF FrozenIsCaptured
  <1>4. FrozenIsFresh'
    BY <1>2 DEF FrozenIsFresh, Ordinary
  <1>5. QED
    BY <1>3, <1>4

\* Requests are served or forgotten, and none is new.
LEMMA FewerRequests ==
  ASSUME Shapes, GroupInv, UNCHANGED objects, tx'.number \in Nat,
         \A p \in Participants : channel'[p].request \in {None, channel[p].request},
         \/ tx'.number = tx.number /\ (Undecided' => Undecided)
         \/ tx'.number > tx.number
  PROVE  RequestsAreOld'
  <1>1. ASSUME NEW p \in Participants, channel'[p].request # None
        PROVE  /\ channel'[p].request.transaction \in 1..tx'.number
               /\ channel'[p].request.method = "capture" =>
                    /\ channel'[p].request.transaction = tx'.number => ~Undecided'
                    /\ \A x \in Revisions :
                         objects[x].content.operation # channel'[p].request.transaction
    <2> DEFINE q == channel[p].request
    <2>1. q # None /\ channel'[p].request = q
      BY <1>1
    <2>2. /\ q.transaction \in 1..tx.number
          /\ q.method = "capture" =>
               /\ q.transaction = tx.number => ~Undecided
               /\ \A x \in Revisions : objects[x].content.operation # q.transaction
      BY <2>1 DEF GroupInv, RequestsAreOld
    <2>3. tx.number \in Nat
      BY TypesOfTx
    <2> HIDE DEF q
    <2>4. QED
      BY <2>1, <2>2, <2>3
  <1>2. QED
    BY <1>1 DEF RequestsAreOld, Revisions

LEMMA FinishedStays ==
  ASSUME Shapes, GroupInv,
         \A q \in Runtimes : \A x : OnLine(objects, x, accepted[q]) => OnLine(objects', x, accepted'[q]),
         tx'.phase = "finishing" =>
           tx.phase = "finishing" /\ tx'.result = tx.result /\ tx'.todo = tx.todo
  PROVE  FinishedAccepted'
  BY TypesOfRuntimes DEF GroupInv, FinishedAccepted

LEMMA UnanimousStays ==
  ASSUME Shapes, Unanimous, UNCHANGED unanimous,
         \A q \in Runtimes : \A x : OnLine(objects, x, accepted[q]) => OnLine(objects', x, accepted'[q])
  PROVE  Unanimous'
  BY TypesOfRuntimes DEF Unanimous

LEMMA CommitsStay ==
  ASSUME Shapes, GroupInv, UNCHANGED <<objects, tx>>,
         tx.phase = "preparing" => accepted'[Controller] = accepted[Controller]
  PROVE  CommitsAreKnown'
  <1>1. ASSUME tx.phase = "preparing" PROVE Compatible'
    BY <1>1 DEF GroupInv, CommitsAreKnown, Compatible, Proposed
  <1>2. QED
    BY <1>1 DEF GroupInv, CommitsAreKnown, Revisions

-----------------------------------------------------------------------------
(* An ordinary step keeps the invariant *)

\* A step of runtime r under which the transaction may go on.
LEMMA TransactionKeeps ==
  ASSUME Inv, LinesInv', NEW r \in Runtimes, Ordinary(r), FlushIsOwn',
         NewTransaction(r), TxTyped', tx.number =< tx'.number,
         channel' \in [Participants -> Channels], reloading' \subseteq Plain,
         FrozenIsCaptured', FrozenIsFresh', RequestsAreOld', CommitsAreKnown',
         \A x \in unanimous' \ unanimous, q \in Admitted : OnLine(objects, x, accepted[q]),
         (\A q \in Runtimes : \A x :
            OnLine(objects, x, accepted[q]) => OnLine(objects', x, accepted'[q]))
          => FinishedAccepted'
  PROVE  Inv'
  <1>1. LinesInv /\ Shapes /\ RuntimesInv /\ GroupInv /\ Surviving /\ Unanimous
    BY DEF Inv
  <1>2. /\ RuntimesInv' /\ Surviving'
        /\ \A q \in Runtimes : \A x :
              OnLine(objects, x, accepted[q]) => OnLine(objects', x, accepted'[q])
    BY <1>1, OrdinaryKeeps
  <1>3. Shapes'
    BY <1>1, OrdinaryTypes
  <1>4. GroupInv'
    BY <1>2 DEF GroupInv
  <1>5. Unanimous'
    <2>1. \A x \in unanimous', q \in Admitted : OnLine(objects, x, accepted[q])
      BY <1>1 DEF Unanimous
    <2>2. QED
      BY <1>1, <1>2, <2>1, TypesOfRuntimes DEF Unanimous
  <1>6. QED
    BY <1>2, <1>3, <1>4, <1>5 DEF Inv

\* A step of runtime r besides the transaction.
LEMMA BesidesKeeps ==
  ASSUME Inv, LinesInv', NEW r \in Runtimes, Ordinary(r), FlushIsOwn',
         NewTransaction(r), NotCommitting(r), UNCHANGED <<tx, unanimous>>,
         channel' \in [Participants -> Channels], reloading' \subseteq Plain,
         \A p \in Participants : channel'[p].request \in {None, channel[p].request},
         tx.phase = "publishing" => lease' # None /\ lease'.who = Controller,
         tx.phase = "preparing" => accepted'[Controller] = accepted[Controller]
  PROVE  Inv'
  <1>1. Shapes /\ GroupInv /\ objects' = objects
    BY DEF Inv, Ordinary
  <1>2. TxTyped' /\ tx.number \in Nat /\ tx'.number = tx.number
    BY <1>1, TypesOfTx DEF TxTyped
  <1>3. FrozenIsCaptured' /\ FrozenIsFresh'
    BY <1>1, QuietKeepsFrozen DEF Quiet, Undecided, Inv
  <1>4. RequestsAreOld'
    BY <1>1, <1>2, FewerRequests DEF Undecided
  <1>5. CommitsAreKnown'
    BY <1>1, CommitsStay
  <1>6. (\A q \in Runtimes : \A x :
            OnLine(objects, x, accepted[q]) => OnLine(objects', x, accepted'[q]))
          => FinishedAccepted'
    BY <1>1, FinishedStays
  <1>7. QED
    BY <1>2, <1>3, <1>4, <1>5, <1>6, TransactionKeeps

\* The channels stay.
LEMMA ChannelsStay ==
  ASSUME Shapes, UNCHANGED <<channel, reloading>>
  PROVE  /\ channel' \in [Participants -> Channels] /\ reloading' \subseteq Plain
         /\ \A p \in Participants : channel'[p].request \in {None, channel[p].request}
  BY TypesOfTx

\* A step that neither captures nor takes the lease.
LEMMA KeptCaptureKeeps ==
  ASSUME Inv, LinesInv', NEW r \in Runtimes, Ordinary(r), LeaseKept(r),
         r \in Admitted /\ pending'[r] # None => SameCapture(r),
         UNCHANGED <<tx, unanimous>>,
         channel' \in [Participants -> Channels], reloading' \subseteq Plain,
         \A p \in Participants : channel'[p].request \in {None, channel[p].request},
         tx.phase = "publishing" => lease' # None /\ lease'.who = Controller,
         r = Controller => tx.phase # "preparing"
  PROVE  Inv'
  <1>1. FlushIsOwn'
    BY LeaseKeptKeepsFlush DEF Inv
  <1>2. NewTransaction(r) /\ NotCommitting(r)
    BY DEF NewTransaction, NotCommitting
  <1>3. tx.phase = "preparing" => accepted'[Controller] = accepted[Controller]
    BY DEF Ordinary, OwnStep, Runtimes
  <1>4. QED
    BY <1>1, <1>2, <1>3, BesidesKeeps

LEMMA ReadingKeeps ==
  ASSUME Inv, LinesInv', NEW r \in Runtimes, Poll(r) \/ Discard(r) \/ FlushReload(r)
  PROVE  Inv'
  <1>1. LinesInv /\ Shapes /\ RuntimesInv
    BY DEF Inv
  <1>2. /\ UNCHANGED <<objects, lease, tx, channel, unanimous>>
        /\ reloading' \subseteq reloading
    BY DEF Poll, Discard, FlushReload, storeVars
  <1>3. r = Controller => tx.phase # "preparing"
    <2>1. Controller \notin Plain
      BY ConfigurationAssumption
    <2>2. reloading \subseteq Plain
      BY <1>1, TypesOfTx
    <2>3. QED
      BY <2>1, <2>2 DEF Poll, Discard, FlushReload, Locked
  <1>4. Ordinary(r) /\ (r \in Admitted /\ pending'[r] # None => SameCapture(r))
    <2>1. CASE Discard(r)
      BY <1>1, <2>1, DiscardIsOrdinary
    <2>2. CASE Poll(r) \/ FlushReload(r)
      <3>1. Reloaded(r) /\ UNCHANGED <<storeVars, edits, dropped>>
        BY <2>2 DEF Poll, FlushReload
      <3>2. QED
        BY <1>1, <3>1, ReloadIsOrdinary
    <2>3. QED
      BY <2>1, <2>2
  <1>5. LeaseKept(r)
    BY <1>2, <1>4 DEF LeaseKept
  <1>6. /\ channel' \in [Participants -> Channels] /\ reloading' \subseteq Plain
        /\ \A p \in Participants : channel'[p].request \in {None, channel[p].request}
    BY <1>1, <1>2, TypesOfTx
  <1>7. tx.phase = "publishing" => lease' # None /\ lease'.who = Controller
    BY <1>1, <1>2, TypesOfTx DEF TxTyped
  <1>8. QED
    BY <1>2, <1>3, <1>4, <1>5, <1>6, <1>7, KeptCaptureKeeps

LEMMA FlushRecoverKeeps ==
  ASSUME Inv, LinesInv', NEW r \in Runtimes, FlushRecover(r)
  PROVE  Inv'
  <1>1. LinesInv /\ Shapes /\ RuntimesInv
    BY DEF Inv
  <1>2. /\ r \in Plain /\ uncertain[r] # 0 /\ lease = None
        /\ r \in Admitted => pending[r] = None
        /\ lease' = [who |-> r, candidate |-> uncertain[r], next |-> "intent"]
        /\ UNCHANGED <<objects, head, accepted, staged, uncertain, pending, reloading, tx,
                       channel, edits, dropped, unanimous>>
    BY DEF FlushRecover, MayFlush, TakeRecovery, RuntimeUnchanged
  <1>3. Ordinary(r)
    BY <1>1, <1>2, UnaffectedIsOrdinary DEF HeadMoves
  <1>4. FlushIsOwn'
    <2>1. EditsIn(staged[r]) \subseteq objects[uncertain[r]].content.edits
      BY <1>1, <1>2 DEF RuntimesInv, UncertainIsOwn
    <2>2. lease'.who = r /\ lease'.candidate = uncertain[r]
      BY <1>2
    <2>3. QED
      BY <1>2, <2>1, <2>2 DEF FlushIsOwn
  <1>5. NewTransaction(r) /\ NotCommitting(r)
    BY <1>2 DEF NewTransaction, NotCommitting, SameCapture
  <1>6. tx.phase # "publishing"
    BY <1>1, <1>2, TypesOfTx DEF TxTyped
  <1>7. QED
    BY <1>1, <1>2, <1>3, <1>4, <1>5, <1>6, ChannelsStay, BesidesKeeps

LEMMA FlushWritesKeep ==
  ASSUME Inv, LinesInv', NEW r \in Runtimes, FlushAnnounce(r) \/ FlushPublish(r)
  PROVE  Inv'
  <1>1. LinesInv /\ Shapes /\ RuntimesInv
    BY DEF Inv
  <1>2. /\ r \in Plain /\ lease # None /\ lease.who = r
        /\ UNCHANGED <<objects, accepted, staged, pending, tx, channel, edits, dropped, unanimous>>
        /\ reloading' \subseteq reloading \cup {r}
    BY DEF FlushAnnounce, FlushPublish, Announce, AnnounceFails, Publish, PublishFails, Holds,
           RuntimeUnchanged
  <1>3. lease' = None \/ (lease' # None /\ lease'.who = r /\ lease'.candidate = lease.candidate)
    <2>1. lease \in Lease
      BY <1>1, <1>2 DEF Shapes, TypeOK, StoreTypeOK
    <2>2. CASE Announce(r)
      <3>1. lease' = [lease EXCEPT !.next = "head"]
        BY <2>2 DEF Announce
      <3>2. lease' \in Lease /\ lease'.who = r /\ lease'.candidate = lease.candidate
        BY <1>2, <2>1, <3>1 DEF Lease
      <3>3. QED
        BY <3>2, ConfigurationAssumption
    <2>3. CASE ~Announce(r)
      BY <2>3 DEF FlushAnnounce, FlushPublish, AnnounceFails, Publish, PublishFails
    <2>4. QED
      BY <2>2, <2>3
  <1>4. Ordinary(r)
    <2>1. CASE uncertain' = uncertain /\ head' = head
      BY <1>1, <1>2, <2>1, UnaffectedIsOrdinary DEF HeadMoves
    <2>2. CASE /\ uncertain' = [uncertain EXCEPT ![r] = lease.candidate]
               /\ head' \in {head, lease.candidate}
      BY <1>1, <1>2, <2>2, PublishingMoves, UncertainIsOrdinary
    <2>3. QED
      BY <2>1, <2>2 DEF FlushAnnounce, FlushPublish, Announce, AnnounceFails, Publish, PublishFails
  <1>5. r \in Admitted /\ pending'[r] # None => SameCapture(r)
    BY <1>2 DEF SameCapture
  <1>6. LeaseKept(r)
    BY <1>2, <1>3, <1>5 DEF LeaseKept
  <1>7. r # Controller
    BY <1>2, ConfigurationAssumption
  <1>8. tx.phase # "publishing"
    BY <1>1, <1>2, <1>7, TypesOfTx DEF TxTyped
  <1>9. /\ channel' \in [Participants -> Channels] /\ reloading' \subseteq Plain
        /\ \A p \in Participants : channel'[p].request \in {None, channel[p].request}
    BY <1>1, <1>2, TypesOfTx
  <1>10. QED
    BY <1>2, <1>4, <1>5, <1>6, <1>7, <1>8, <1>9, KeptCaptureKeeps

LEMMA OperatorRecoversKeeps ==
  ASSUME Inv, LinesInv', OperatorRecovers PROVE Inv'
  <1>1. LinesInv /\ Shapes /\ RuntimesInv
    BY DEF Inv
  <1>2. UNCHANGED <<objects, accepted, staged, uncertain, reloading, pending, tx, channel,
                    edits, dropped, unanimous>>
    BY DEF OperatorRecovers, runtimeVars, TakeRecovery, Announce, AnnounceFails, Publish,
           PublishFails
  <1>3. PICK r \in Runtimes : r = Controller
    BY DEF Runtimes
  <1>4. HeadMoves
    <2>1. head' = head \/ (lease # None /\ head' \in {head, lease.candidate})
      BY DEF OperatorRecovers, TakeRecovery, Announce, AnnounceFails, Publish, PublishFails, Holds
    <2>2. QED
      BY <1>1, <1>2, <2>1, PublishingMoves DEF HeadMoves
  <1>5. Ordinary(r)
    BY <1>1, <1>2, <1>4, UnaffectedIsOrdinary
  <1>6. lease = None \/ lease.who = Operator
    BY DEF OperatorRecovers, TakeRecovery, Announce, AnnounceFails, Publish, PublishFails, Holds
  <1>7. lease' = None \/ lease'.who = Operator
    <2>1. CASE lease' = [lease EXCEPT !.next = "head"] /\ lease # None /\ lease.who = Operator
      <3>1. lease \in Lease
        BY <1>1, <2>1 DEF Shapes, TypeOK, StoreTypeOK
      <3>2. QED
        BY <2>1, <3>1 DEF Lease
    <2>2. CASE lease' = None \/ \E x : lease' = [who |-> Operator, candidate |-> x, next |-> "intent"]
      BY <2>2
    <2>3. QED
      BY <2>1, <2>2 DEF OperatorRecovers, TakeRecovery, Announce, AnnounceFails, Publish,
                        PublishFails, Holds
  <1>8. Operator \notin Plain /\ Operator # Controller
    BY ConfigurationAssumption DEF Runtimes
  <1>9. FlushIsOwn'
    BY <1>7, <1>8 DEF FlushIsOwn
  <1>10. NewTransaction(r) /\ NotCommitting(r)
    BY <1>2 DEF NewTransaction, NotCommitting, SameCapture
  <1>11. tx.phase # "publishing"
    BY <1>1, <1>6, <1>8, TypesOfTx DEF TxTyped
  <1>12. QED
    BY <1>1, <1>2, <1>5, <1>9, <1>10, <1>11, ChannelsStay, BesidesKeeps

LEMMA OperatorCancelsKeeps ==
  ASSUME Inv, LinesInv', NEW p \in Participants, OperatorCancels(p) PROVE Inv'
  <1>1. LinesInv /\ Shapes /\ RuntimesInv
    BY DEF Inv
  <1>2. /\ tx.phase = "idle" /\ pending[p] # None /\ Abort(p, pending[p].transaction)
        /\ UNCHANGED <<objects, head, lease, tx, channel, reloading, edits, dropped, unanimous>>
    BY DEF OperatorCancels, TxUnchanged, storeVars
  <1>3. p \in Runtimes /\ p \in Admitted /\ pending[p].transaction \in Nat
    BY <1>1, <1>2, TypesOfRuntimes DEF Runtimes, Admitted, Captures
  <1>4. OwnStep(p) /\ (pending'[p] # None => SameCapture(p))
    BY <1>1, <1>2, <1>3, AbortIsLocal DEF SameCapture
  <1>5. Ordinary(p)
    BY <1>2, <1>4 DEF Ordinary, NewNumber, HeadMoves
  <1>6. LeaseKept(p)
    BY <1>2, <1>4 DEF LeaseKept
  <1>7. QED
    BY <1>1, <1>2, <1>3, <1>4, <1>5, <1>6, ChannelsStay, KeptCaptureKeeps

LEMMA ReconnectKeeps ==
  ASSUME Inv, LinesInv', NEW p \in Participants, Reconnect(p) PROVE Inv'
  <1>1. LinesInv /\ Shapes /\ RuntimesInv
    BY DEF Inv
  <1>2. /\ pending' = [pending EXCEPT ![p] = IF pending[p] # None /\ pending[p].proposal = None
                                               THEN None ELSE pending[p]]
        /\ channel' = [channel EXCEPT ![p] = [broken |-> tx.phase # "idle", request |-> None]]
        /\ UNCHANGED <<objects, head, lease, accepted, staged, uncertain, reloading, tx, edits,
                       dropped, unanimous>>
    BY DEF Reconnect, storeVars
  <1>3. p \in Runtimes /\ p \in Admitted /\ p # Controller
    BY ConfigurationAssumption DEF Runtimes, Admitted
  <1>4. /\ pending' \in [Admitted -> Captures \cup {None}]
        /\ \A q \in Admitted \ {p} : pending'[q] = pending[q]
        /\ pending'[p] # None => SameCapture(p)
    BY <1>1, <1>2, <1>3, TypesOfRuntimes DEF SameCapture
  <1>5. OwnStep(p)
    BY <1>1, <1>2, <1>3, <1>4, PendingIsLocal
  <1>6. Ordinary(p)
    BY <1>2, <1>4, <1>5 DEF Ordinary, NewNumber, HeadMoves
  <1>7. LeaseKept(p)
    BY <1>2, <1>4 DEF LeaseKept
  <1>8. /\ channel' \in [Participants -> Channels] /\ reloading' \subseteq Plain
        /\ \A q \in Participants : channel'[q].request \in {None, channel[q].request}
    <2>1. channel \in [Participants -> Channels] /\ reloading \subseteq Plain
      BY <1>1, TypesOfTx
    <2>2. [broken |-> tx.phase # "idle", request |-> None] \in Channels
      BY DEF Channels
    <2>3. QED
      BY <1>2, <2>1, <2>2
  <1>9. tx.phase = "publishing" => lease' # None /\ lease'.who = Controller
    BY <1>1, <1>2, TypesOfTx DEF TxTyped
  <1>10. QED
    BY <1>2, <1>3, <1>4, <1>6, <1>7, <1>8, <1>9, KeptCaptureKeeps

LEMMA ServeLateKeeps ==
  ASSUME Inv, LinesInv', NEW p \in Participants, ServeLate(p) PROVE Inv'
  <1>1. LinesInv /\ Shapes /\ RuntimesInv /\ GroupInv
    BY DEF Inv
  <1> DEFINE q == channel[p].request
  <1>2. /\ q # None /\ Serve(p, q)
        /\ channel' = [channel EXCEPT ![p].request = None]
        /\ UNCHANGED <<objects, head, lease, reloading, tx, edits, dropped, unanimous>>
    BY DEF ServeLate, storeVars
  <1>3. p \in Runtimes /\ p \in Admitted /\ p # Controller
    BY ConfigurationAssumption DEF Runtimes, Admitted
  <1>4. q \in Requests /\ channel \in [Participants -> Channels]
    BY <1>1, <1>2, TypesOfTx DEF Channels
  <1>5. /\ q.transaction \in 1..tx.number
        /\ q.method = "capture" =>
             /\ q.transaction = tx.number => ~Undecided
             /\ \A x \in Revisions : objects[x].content.operation # q.transaction
    BY <1>1, <1>2 DEF GroupInv, RequestsAreOld
  <1>6. /\ channel' \in [Participants -> Channels] /\ reloading' \subseteq Plain
        /\ \A c \in Participants : channel'[c].request \in {None, channel[c].request}
    <2>1. reloading \subseteq Plain
      BY <1>1, TypesOfTx
    <2>2. channel[p] \in Channels
      BY <1>4
    <2>3. /\ [channel[p] EXCEPT !.request = None] \in Channels
          /\ [channel[p] EXCEPT !.request = None].request = None
      BY <2>2 DEF Channels
    <2>4. channel' = [channel EXCEPT ![p] = [channel[p] EXCEPT !.request = None]]
      BY <1>2
    <2>5. QED
      BY <1>2, <1>4, <2>1, <2>3, <2>4
  <1> HIDE DEF q
  <1>7. /\ OwnStep(p) /\ NewNumber(p)
        /\ pending'[p] # None /\ ~SameCapture(p) =>
              /\ q.method = "capture" /\ ~Locked(p)
              /\ pending'[p].transaction = q.transaction
    BY <1>1, <1>2, <1>4, <1>5, ServeIsLocal
  <1>8. Ordinary(p)
    BY <1>2, <1>7 DEF Ordinary, HeadMoves
  <1>9. LeaseKept(p)
    BY <1>2, <1>7 DEF LeaseKept, Locked
  <1>10. FlushIsOwn'
    BY <1>1, <1>3, <1>8, <1>9, LeaseKeptKeepsFlush
  <1>11. NewTransaction(p) /\ NotCommitting(p)
    BY <1>2, <1>5, <1>7 DEF NewTransaction, NotCommitting, Undecided
  <1>12. tx.phase = "publishing" => lease' # None /\ lease'.who = Controller
    BY <1>1, <1>2, TypesOfTx DEF TxTyped
  <1>13. tx.phase = "preparing" => accepted'[Controller] = accepted[Controller]
    BY <1>3, <1>7 DEF OwnStep, Runtimes
  <1>14. QED
    BY <1>2, <1>3, <1>6, <1>8, <1>10, <1>11, <1>12, <1>13, BesidesKeeps

\* What the transaction becomes when it fails, is given up or is over.
Retreat(t) ==
  /\ t \in Transactions /\ t.number = tx.number /\ t.phase \in {"idle", "aborting"}
  /\ \A q \in Admitted : t.frozen[q].base \in 0..Len(objects)
  /\ t.result \in 0..Len(objects)
  /\ t.phase = "aborting" =>
       tx.phase # "idle" /\ ~(tx.phase \in {"publishing", "finishing"} /\ tx.proposal # None)

LEMMA RetreatKeeps ==
  ASSUME Inv, LinesInv', NEW r \in Runtimes, Ordinary(r), FlushIsOwn',
         NewTransaction(r), Retreat(tx'),
         channel' \in [Participants -> Channels], reloading' \subseteq Plain, RequestsAreOld',
         \A x \in unanimous' \ unanimous, q \in Admitted : OnLine(objects, x, accepted[q])
  PROVE  Inv'
  <1>1. Shapes /\ GroupInv /\ objects' = objects
    BY DEF Inv, Ordinary
  <1>2. TxTyped' /\ tx.number \in Nat /\ tx'.number = tx.number
    BY <1>1, TypesOfTx DEF TxTyped, Retreat
  <1>3. FrozenIsCaptured' /\ FrozenIsFresh' /\ FinishedAccepted'
    BY DEF FrozenIsCaptured, FrozenIsFresh, FinishedAccepted, Undecided, Retreat
  <1>4. CommitsAreKnown'
    BY <1>1 DEF GroupInv, CommitsAreKnown, Revisions, Retreat
  <1>5. QED
    BY <1>2, <1>3, <1>4, TransactionKeeps

\* There is nothing left of the transaction.
LEMMA NoTxIsRetreat ==
  ASSUME Shapes PROVE Retreat(NoTx(tx.number))
  <1>1. tx.number \in Nat /\ NoAnswers \in [Admitted -> Replies]
    BY TypesOfTx, EditsAreTyped DEF NoAnswers, Refusal, Replies
  <1>2. Len(objects) \in Nat /\ \A q \in Admitted : NoAnswers[q].base = 0
    BY TypesOfRuntimes DEF NoAnswers, Refusal
  <1>3. QED
    BY <1>1, <1>2 DEF Retreat, NoTx, Transactions, Phases

\* The requests after a retreat are the ones before, or fewer.
LEMMA RetreatKeepsRequests ==
  ASSUME Shapes, GroupInv, UNCHANGED objects, Retreat(tx'),
         \A p \in Participants : channel'[p].request \in {None, channel[p].request}
  PROVE  RequestsAreOld'
  BY TypesOfTx, FewerRequests DEF Retreat, Undecided

LEMMA RestartKeeps ==
  ASSUME Inv, LinesInv', NEW r \in Runtimes, Restart(r) PROVE Inv'
  <1>1. LinesInv /\ Shapes /\ RuntimesInv
    BY DEF Inv
  <1>2. /\ lease' = IF lease # None /\ lease.who = r THEN None ELSE lease
        /\ reloading' = reloading \ {r}
        /\ tx' = IF r = Controller THEN NoTx(tx.number) ELSE tx
        /\ channel' = [p \in Participants |->
             IF r = p THEN [Healthy EXCEPT !.broken = TRUE]
             ELSE IF r = Controller THEN [channel[p] EXCEPT !.broken = TRUE]
             ELSE channel[p]]
        /\ UNCHANGED <<objects, head, edits, unanimous>>
    BY DEF Restart, DropLease
  <1>3. Ordinary(r) /\ (r \in Admitted => pending'[r] = None)
    BY <1>1, RestartIsOrdinary
  <1>4. LeaseKept(r)
    BY <1>2, <1>3 DEF LeaseKept
  <1>5. FlushIsOwn'
    BY <1>1, <1>3, <1>4, LeaseKeptKeepsFlush
  <1>6. /\ channel' \in [Participants -> Channels] /\ reloading' \subseteq Plain
        /\ \A p \in Participants : channel'[p].request \in {None, channel[p].request}
    <2>1. channel \in [Participants -> Channels] /\ reloading \subseteq Plain
      BY <1>1, TypesOfTx
    <2>2. ASSUME NEW p \in Participants
          PROVE  channel'[p] \in Channels /\ channel'[p].request \in {None, channel[p].request}
      <3>1. channel[p] \in Channels
        BY <2>1
      <3>2. [channel[p] EXCEPT !.broken = TRUE] \in Channels
            /\ [channel[p] EXCEPT !.broken = TRUE].request = channel[p].request
        BY <3>1 DEF Channels
      <3>3. [Healthy EXCEPT !.broken = TRUE] \in Channels
            /\ [Healthy EXCEPT !.broken = TRUE].request = None
        BY DEF Channels, Healthy
      <3>4. channel'[p] = IF r = p THEN [Healthy EXCEPT !.broken = TRUE]
                          ELSE IF r = Controller THEN [channel[p] EXCEPT !.broken = TRUE]
                          ELSE channel[p]
        BY <1>2
      <3>5. QED
        BY <3>1, <3>2, <3>3, <3>4
    <2>3. QED
      BY <1>2, <2>1, <2>2
  <1>7. CASE r = Controller
    <2>1. Retreat(tx') /\ GroupInv /\ objects' = objects
      BY <1>1, <1>2, <1>7, NoTxIsRetreat DEF Inv
    <2>2. RequestsAreOld'
      BY <1>1, <1>6, <2>1, RetreatKeepsRequests
    <2>3. NewTransaction(r)
      BY <1>3 DEF NewTransaction
    <2>4. QED
      BY <1>2, <1>3, <1>5, <1>6, <2>1, <2>2, <2>3, RetreatKeeps
  <1>8. CASE r # Controller
    <2>1. UNCHANGED <<tx, unanimous>>
      BY <1>2, <1>8
    <2>2. tx.phase = "publishing" => lease' # None /\ lease'.who = Controller
      BY <1>1, <1>2, <1>8, TypesOfTx DEF TxTyped
    <2>3. QED
      BY <1>3, <1>4, <1>6, <1>8, <2>1, <2>2, KeptCaptureKeeps
  <1>9. QED
    BY <1>7, <1>8

-----------------------------------------------------------------------------
(* Staging and sealing keep the invariant *)

LEMMA StageKeepsInv ==
  ASSUME Inv, LinesInv', NEW r \in Runtimes, NEW o \in OwnersOf[r], Stage(r, o)
  PROVE  Inv'
  <1>1. LinesInv /\ Shapes /\ RuntimesInv /\ GroupInv /\ Surviving /\ Unanimous
    BY DEF Inv
  <1>2. o \in Owners /\ MaxEdits \in Nat
    BY ConfigurationAssumption
  <1>3. /\ edits' = edits + 1 /\ edits < MaxEdits /\ edits \in Nat
        /\ staged' = [staged EXCEPT ![r][o] = edits + 1]
        /\ UNCHANGED <<objects, intent, head, lease, accepted, uncertain, reloading, pending,
                       tx, channel, unanimous>>
    BY <1>1, <1>2, TypesOfTx DEF Stage, storeVars
  <1>4. RuntimesInv' /\ Surviving'
    BY <1>1, <1>2, StageKeeps
  <1>5. Shapes'
    <2>1. edits' \in 0..MaxEdits
      BY <1>2, <1>3
    <2>2. staged' \in [Runtimes -> Values]
      <3>1. staged[r] \in [Owners -> 0..MaxEdits] /\ edits + 1 \in 0..MaxEdits
        BY <1>1, <1>2, <1>3, TypesOfRuntimes DEF Values
      <3>2. [staged[r] EXCEPT ![o] = edits + 1] \in Values
        BY <3>1 DEF Values
      <3>3. QED
        BY <1>1, <1>3, <3>2, TypesOfRuntimes
    <2>3. TypeOK'
      BY <1>1, <1>3, <2>2 DEF Shapes, TypeOK, StoreTypeOK, Revisions
    <2>4. QED
      BY <1>1, <1>3, <2>1, <2>3 DEF Shapes
  <1>6. FrozenIsCaptured' /\ RequestsAreOld'
    BY <1>1, <1>3 DEF GroupInv, FrozenIsCaptured, RequestsAreOld, Undecided, Revisions
  <1>7. FrozenIsFresh'
    <2>1. ASSUME Undecided, NEW q \in Admitted
          PROVE  /\ EditsIn(tx.frozen[q].values) \subseteq 1..edits'
                 /\ EditsIn(tx.frozen[q].values) \cap Published(objects, tx.frozen[q].base) = {}
                 /\ \A u \in Owners, p \in Runtimes, v \in Owners :
                      tx.frozen[q].values[u] = staged'[p][v] /\ staged'[p][v] # 0
                        => q = p /\ u = v
      <3>1. /\ EditsIn(tx.frozen[q].values) \subseteq 1..edits
            /\ EditsIn(tx.frozen[q].values) \cap Published(objects, tx.frozen[q].base) = {}
            /\ \A u \in Owners, p \in Runtimes, v \in Owners :
                 tx.frozen[q].values[u] = staged[p][v] /\ staged[p][v] # 0 => q = p /\ u = v
        BY <1>1, <2>1 DEF GroupInv, FrozenIsFresh
      <3>2. EditsIn(tx.frozen[q].values) \subseteq 1..edits'
        BY <1>3, <3>1
      <3>3. ASSUME NEW u \in Owners, NEW p \in Runtimes, NEW v \in Owners,
                   tx.frozen[q].values[u] = staged'[p][v], staged'[p][v] # 0
            PROVE  q = p /\ u = v
        <4>1. tx.frozen[q].values[u] \in 1..edits
          BY <3>1, <3>3 DEF EditsIn
        <4>2. tx.frozen[q].values[u] # edits + 1
          BY <1>3, <4>1
        <4>3. staged'[p][v] = staged[p][v]
          BY <1>1, <1>3, <3>3, <4>2, TypesOfRuntimes DEF Values
        <4>4. QED
          BY <3>1, <3>3, <4>3
      <3>4. QED
        BY <3>1, <3>2, <3>3
    <2>2. QED
      BY <1>3, <2>1 DEF FrozenIsFresh, Undecided
  <1>8. CommitsAreKnown'
    BY <1>1, <1>3, CommitsStay
  <1>9. FinishedAccepted' /\ Unanimous'
    BY <1>1, <1>3 DEF GroupInv, FinishedAccepted, Unanimous
  <1>10. GroupInv'
    BY <1>6, <1>7, <1>8, <1>9 DEF GroupInv
  <1>11. QED
    BY <1>4, <1>5, <1>9, <1>10 DEF Inv

\* The types after sealing.
LEMMA SealedTypes ==
  ASSUME Shapes, LinesInv, LinesInv', NEW c \in Contents, NEW stored \in BOOLEAN,
         objects' = Sealed(c, stored),
         UNCHANGED <<accepted, staged, pending, reloading, channel, edits>>,
         uncertain' \in [Runtimes -> 0..Len(objects')],
         \A q \in Admitted : pending[q] # None => uncertain'[q] = 0,
         TxTyped', tx'.number = tx.number
  PROVE  Shapes'
  <1>1. /\ Len(objects') = Len(objects) + 1 /\ Len(objects) \in Nat
        /\ 0..Len(objects) \subseteq 0..Len(objects')
    BY SealedObjects
  <1>2. tx' \in Transactions /\ tx'.phase \in Phases
        /\ tx'.todo \subseteq Admitted /\ tx'.captured \subseteq Admitted
    BY DEF TxTyped, Transactions
  <1>3. accepted' \in [Runtimes -> 0..Len(objects')]
    BY <1>1, TypesOfRuntimes
  <1>4. \A q \in Admitted : pending'[q] # None =>
          /\ pending'[q].transaction \in 1..tx'.number
          /\ pending'[q].base \in 0..Len(objects')
          /\ uncertain'[q] = 0
    BY <1>1, TypesOfRuntimes
  <1>5. StoreTypeOK' /\ DOMAIN channel' = Participants /\ staged' \in [Runtimes -> Values]
    BY TypesOfTx, TypesOfRuntimes DEF LinesInv, StoreInv
  <1>6. TypeOK'
    BY <1>2, <1>3, <1>4, <1>5, TypesOfTx DEF TypeOK, TxTyped
  <1>7. QED
    BY <1>6, TypesOfRuntimes, TypesOfTx DEF Shapes, TxTyped

LEMMA FlushSealKeepsInv ==
  ASSUME Inv, LinesInv', NEW r \in Runtimes, FlushSeal(r)
  PROVE  Inv'
  <1> DEFINE c == OwnContent(r)
  <1>1. LinesInv /\ Shapes /\ RuntimesInv /\ GroupInv /\ Surviving /\ Unanimous
    BY DEF Inv
  <1>2. /\ r \in Admitted => pending[r] = None
        /\ lease = None
        /\ UNCHANGED <<head, accepted, staged, pending, reloading, tx, channel, edits, dropped,
                       unanimous>>
    BY DEF FlushSeal, MayFlush, Seal, SealFails, MayCommit, RuntimeUnchanged
  <1>3. PICK stored \in BOOLEAN :
          /\ objects' = Sealed(c, stored)
          /\ uncertain' = uncertain \/ uncertain' = [uncertain EXCEPT ![r] = Len(objects')]
    BY DEF FlushSeal, Seal, SealFails, MayCommit
  <1>4. c \in Contents /\ c.operation = 0
    BY <1>1, OwnContentIsTyped DEF OwnContent
  <1> HIDE DEF c
  <1>5. /\ Len(objects') = Len(objects) + 1 /\ Len(objects) \in Nat
        /\ Revisions = 1..Len(objects) /\ Revisions' = Revisions \cup {Len(objects')}
        /\ \A x \in Revisions : objects'[x] = objects[x]
        /\ objects'[Len(objects')].content.operation = 0
        /\ \A x \in 0..Len(objects) : Published(objects', x) = Published(objects, x)
    BY <1>1, <1>3, <1>4, SealedObjects
  <1>6. /\ RuntimesInv' /\ Surviving'
        /\ \A q \in Runtimes : \A x :
              OnLine(objects, x, accepted[q]) => OnLine(objects', x, accepted'[q])
    BY <1>1, FlushSealKeeps
  <1>7. TxTyped' /\ tx.number \in Nat
    BY <1>1, <1>2, <1>5, TypesOfTx DEF TxTyped
  <1>8. Shapes'
    <2>1. /\ uncertain' \in [Runtimes -> 0..Len(objects')]
          /\ \A q \in Admitted : pending[q] # None => uncertain'[q] = 0
      BY <1>1, <1>2, <1>3, <1>5, TypesOfRuntimes
    <2>2. QED
      BY <1>1, <1>2, <1>3, <1>4, <1>7, <2>1, SealedTypes
  <1>9. FrozenIsCaptured'
    BY <1>1, <1>2 DEF GroupInv, FrozenIsCaptured, Undecided
  <1>10. FrozenIsFresh'
    <2>1. \A q \in Admitted :
            Published(objects', tx.frozen[q].base) = Published(objects, tx.frozen[q].base)
      BY <1>1, <1>5, TypesOfTx DEF TxTyped
    <2>2. QED
      BY <1>1, <1>2, <2>1 DEF GroupInv, FrozenIsFresh, Undecided
  <1>11. RequestsAreOld'
    <2>1. ASSUME NEW p \in Participants, channel[p].request # None
          PROVE  /\ channel[p].request.transaction \in 1..tx.number
                 /\ channel[p].request.method = "capture" =>
                      /\ channel[p].request.transaction = tx.number => ~Undecided
                      /\ \A x \in Revisions' :
                           objects'[x].content.operation # channel[p].request.transaction
      BY <1>1, <1>5, <2>1 DEF GroupInv, RequestsAreOld
    <2>2. QED
      BY <1>2, <2>1 DEF RequestsAreOld, Undecided
  <1>12. CommitsAreKnown'
    <2>1. Compatible' <=> Compatible
      BY <1>2 DEF Compatible, Proposed
    <2>2. /\ tx.phase # "idle" => tx.number > 0
          /\ tx.phase = "preparing" => Compatible
          /\ tx.phase \in {"preparing", "publishing"} => tx.proposal # None
      BY <1>1 DEF GroupInv, CommitsAreKnown
    <2>3. ASSUME NEW x \in Revisions'
          PROVE  /\ objects'[x].content.operation \in 0..tx.number
                 /\ objects'[x].content.operation = tx.number /\ tx.phase # "idle" =>
                      tx.phase \in {"publishing", "finishing"} /\ tx.proposal # None
      <3>1. CASE x \in Revisions
        BY <1>1, <1>5, <3>1 DEF GroupInv, CommitsAreKnown
      <3>2. CASE x = Len(objects')
        BY <1>5, <1>7, <2>2, <3>2
      <3>3. QED
        BY <1>5, <3>1, <3>2
    <2>4. QED
      BY <1>2, <2>1, <2>2, <2>3 DEF CommitsAreKnown
  <1>13. FinishedAccepted' /\ Unanimous'
    BY <1>1, <1>2, <1>6, FinishedStays, UnanimousStays
  <1>14. GroupInv'
    BY <1>9, <1>10, <1>11, <1>12, <1>13 DEF GroupInv
  <1>15. QED
    BY <1>6, <1>8, <1>13, <1>14 DEF Inv

LEMMA TxCommitKeepsInv ==
  ASSUME Inv, LinesInv', TxCommit, objects' # objects
  PROVE  Inv'
  <1> DEFINE c == TxContent
  <1>1. LinesInv /\ Shapes /\ RuntimesInv /\ GroupInv /\ Surviving /\ Unanimous
    BY DEF Inv
  <1>2. /\ tx.phase = "preparing" /\ tx.proposal # None /\ tx.number > 0
        /\ UNCHANGED <<accepted, staged, uncertain, pending, reloading, channel, edits, dropped,
                       unanimous>>
    BY <1>1 DEF TxCommit, runtimeVars, GroupInv, CommitsAreKnown
  <1>3. PICK stored \in BOOLEAN :
          /\ objects' = Sealed(c, stored)
          /\ \/ /\ lease' = [who |-> Controller, candidate |-> Len(objects'), next |-> "intent"]
                /\ tx' = [tx EXCEPT !.phase = "publishing"]
             \/ tx' = NoTx(tx.number)
    BY DEF TxCommit, Seal, SealFails, MayCommit, storeVars
  <1>4. c \in Contents /\ c.operation = tx.number
    BY <1>1, <1>2, TxContentIsTyped DEF TxContent, GroupInv
  <1> HIDE DEF c
  <1>5. /\ Len(objects') = Len(objects) + 1 /\ Len(objects) \in Nat
        /\ Revisions = 1..Len(objects) /\ Revisions' = Revisions \cup {Len(objects')}
        /\ \A x \in Revisions : objects'[x] = objects[x]
        /\ objects'[Len(objects')].content.operation = tx.number
    BY <1>1, <1>3, <1>4, SealedObjects
  <1>6. /\ RuntimesInv' /\ Surviving'
        /\ \A q \in Runtimes : \A x :
              OnLine(objects, x, accepted[q]) => OnLine(objects', x, accepted'[q])
    BY <1>1, GroupSealKeeps
  <1>7. /\ tx' \in Transactions /\ tx'.number = tx.number
        /\ \/ tx'.phase = "publishing" /\ tx'.frozen = tx.frozen /\ tx'.result = tx.result
              /\ tx'.proposal = tx.proposal
           \/ tx'.phase = "idle" /\ tx'.frozen = NoAnswers /\ tx'.result = 0
    <2>1. tx \in Transactions /\ NoAnswers \in [Admitted -> Replies] /\ tx.number \in Nat
      BY <1>1, TypesOfTx, EditsAreTyped DEF NoAnswers, Refusal, Replies, TxTyped
    <2>2. CASE tx' = [tx EXCEPT !.phase = "publishing"]
      BY <2>1, <2>2 DEF Transactions, Phases
    <2>3. CASE tx' = NoTx(tx.number)
      BY <2>1, <2>3 DEF Transactions, Phases, NoTx
    <2>4. QED
      BY <1>3, <2>2, <2>3
  <1>8. TxTyped'
    <2>1. \A q \in Admitted : tx'.frozen[q].base \in 0..Len(objects')
      BY <1>1, <1>5, <1>7, TypesOfTx DEF TxTyped, NoAnswers, Refusal
    <2>2. tx'.result \in 0..Len(objects') /\ tx'.number \in 0..MaxTransactions
      BY <1>1, <1>5, <1>7, TypesOfTx DEF TxTyped
    <2>3. tx'.phase = "publishing" => lease' # None /\ lease'.who = Controller
      <3>1. ASSUME tx'.phase = "publishing"
            PROVE  lease' = [who |-> Controller, candidate |-> Len(objects'), next |-> "intent"]
        BY <1>3, <3>1 DEF NoTx
      <3>2. StoreTypeOK' /\ None \notin Lease /\ Controller \in Writers
        BY ConfigurationAssumption DEF LinesInv, StoreInv
      <3>3. [who |-> Controller, candidate |-> Len(objects'), next |-> "intent"] \in Lease
        BY <1>5, <3>2 DEF Lease
      <3>4. QED
        BY <3>1, <3>2, <3>3
    <2>4. QED
      BY <1>7, <2>1, <2>2, <2>3 DEF TxTyped
  <1>9. Shapes'
    <2>1. /\ uncertain' \in [Runtimes -> 0..Len(objects')]
          /\ \A q \in Admitted : pending[q] # None => uncertain'[q] = 0
      BY <1>1, <1>2, <1>5, TypesOfRuntimes
    <2>2. QED
      BY <1>1, <1>2, <1>3, <1>4, <1>7, <1>8, <2>1, SealedTypes
  <1>10. ~Undecided' /\ tx'.phase # "finishing"
    BY <1>7 DEF Undecided
  <1>11. FrozenIsCaptured' /\ FrozenIsFresh' /\ FinishedAccepted'
    BY <1>10 DEF FrozenIsCaptured, FrozenIsFresh, FinishedAccepted
  <1>12. RequestsAreOld'
    <2>1. Undecided
      BY <1>2 DEF Undecided
    <2>2. ASSUME NEW p \in Participants, channel[p].request # None
          PROVE  /\ channel[p].request.transaction \in 1..tx.number
                 /\ channel[p].request.method = "capture" =>
                      \A x \in Revisions' :
                        objects'[x].content.operation # channel[p].request.transaction
      BY <1>1, <1>5, <2>1, <2>2 DEF GroupInv, RequestsAreOld
    <2>3. QED
      BY <1>2, <1>7, <1>10, <2>2 DEF RequestsAreOld
  <1>13. CommitsAreKnown'
    <2>1. tx.number \in Nat
      BY <1>1, TypesOfTx
    <2>2. \A x \in Revisions' : objects'[x].content.operation \in 0..tx.number
      BY <1>1, <1>5, <2>1 DEF GroupInv, CommitsAreKnown
    <2>3. QED
      BY <1>2, <1>7, <2>2 DEF CommitsAreKnown
  <1>14. Unanimous'
    BY <1>1, <1>2, <1>6, UnanimousStays
  <1>15. GroupInv'
    BY <1>11, <1>12, <1>13 DEF GroupInv
  <1>16. QED
    BY <1>6, <1>9, <1>14, <1>15 DEF Inv

-----------------------------------------------------------------------------
(* The transaction of the group *)

LEMMA OnwardFacts ==
  ASSUME Shapes, NEW p \in Admitted
  PROVE  /\ Onward(p) \in Transactions
         /\ Onward(p).number = tx.number /\ Onward(p).phase = tx.phase
         /\ Onward(p).todo = tx.todo \ {p} /\ Onward(p).frozen = tx.frozen
         /\ Onward(p).result = tx.result /\ Onward(p).proposal = tx.proposal
  BY TypesOfTx DEF Onward, Transactions, TxTyped

LEMMA FailedIsRetreat ==
  ASSUME Shapes, tx.phase # "idle" PROVE Retreat(Failed)
  <1>1. CASE tx.phase \in {"publishing", "finishing"} /\ tx.proposal # None
    BY <1>1, NoTxIsRetreat DEF Failed
  <1>2. CASE ~(tx.phase \in {"publishing", "finishing"} /\ tx.proposal # None)
    <2>1. Failed = [tx EXCEPT !.phase = "aborting", !.todo = tx.captured]
      BY <1>2 DEF Failed
    <2>2. /\ tx \in Transactions /\ tx.captured \subseteq Admitted
          /\ \A q \in Admitted : tx.frozen[q].base \in 0..Len(objects)
          /\ tx.result \in 0..Len(objects)
      BY TypesOfTx DEF TxTyped
    <2>3. /\ Failed \in Transactions /\ Failed.number = tx.number /\ Failed.phase = "aborting"
          /\ Failed.frozen = tx.frozen /\ Failed.result = tx.result
      BY <2>1, <2>2 DEF Transactions, Phases
    <2>4. QED
      BY <1>2, <2>2, <2>3 DEF Retreat
  <1>3. QED
    BY <1>1, <1>2

LEMMA RefusedIsRetreat ==
  ASSUME Shapes, NEW p \in Admitted, tx.phase # "idle" PROVE Retreat(Refused(p))
  <1>1. CASE tx.phase = "aborting"
    <2>1. Refused(p) = Onward(p)
      BY <1>1 DEF Refused
    <2>2. /\ \A q \in Admitted : tx.frozen[q].base \in 0..Len(objects)
          /\ tx.result \in 0..Len(objects)
      BY TypesOfTx DEF TxTyped
    <2>3. QED
      BY <1>1, <2>1, <2>2, OnwardFacts DEF Retreat
  <1>2. CASE tx.phase # "aborting"
    <2>1. Retreat(Failed)
      BY FailedIsRetreat
    <2>2. Refused(p) = [Failed EXCEPT !.todo = IF Failed.phase = "aborting"
                                                 THEN Failed.todo \cup {p} ELSE Failed.todo]
      BY <1>2 DEF Refused
    <2>3. Failed \in Transactions
      BY <2>1 DEF Retreat
    <2>4. /\ Refused(p) \in Transactions /\ Refused(p).number = Failed.number
          /\ Refused(p).phase = Failed.phase /\ Refused(p).frozen = Failed.frozen
          /\ Refused(p).result = Failed.result
      BY <2>2, <2>3 DEF Transactions
    <2>5. QED
      BY <2>1, <2>4 DEF Retreat
  <1>3. QED
    BY <1>1, <1>2

\* A step of the transaction that touches no runtime, channel or lease.
LEMMA TxKeepsFlush ==
  ASSUME LinesInv, Shapes, RuntimesInv, NEW r \in Runtimes, Ordinary(r), UNCHANGED lease,
         lease # None /\ lease.who = r /\ r \in Plain =>
           (r \in Admitted /\ pending'[r] # None => SameCapture(r))
  PROVE  FlushIsOwn'
  <1>1. LeaseKept(r)
    BY DEF LeaseKept
  <1>2. QED
    BY <1>1, LeaseKeptKeepsFlush

LEMMA TxUnreachableKeeps ==
  ASSUME Inv, LinesInv', NEW p \in Participants, TxUnreachable(p) PROVE Inv'
  <1>1. LinesInv /\ Shapes /\ RuntimesInv /\ GroupInv
    BY DEF Inv
  <1>2. /\ tx' = Refused(p) /\ tx.phase # "idle"
        /\ UNCHANGED <<objects, head, lease, accepted, staged, uncertain, reloading, pending,
                       channel, edits, dropped, unanimous>>
    BY DEF TxUnreachable, Turn, runtimeVars, TxUnchanged, storeVars
  <1>3. p \in Runtimes /\ p \in Admitted
    BY DEF Runtimes, Admitted
  <1>4. Ordinary(p)
    BY <1>1, <1>2, <1>3, UnaffectedIsOrdinary DEF HeadMoves
  <1>5. Retreat(tx')
    BY <1>1, <1>2, <1>3, RefusedIsRetreat
  <1>6. FlushIsOwn' /\ NewTransaction(p)
    BY <1>1, <1>2, <1>3, <1>4, TxKeepsFlush DEF SameCapture, NewTransaction
  <1>7. RequestsAreOld'
    BY <1>1, <1>2, <1>5, RetreatKeepsRequests
  <1>8. QED
    BY <1>1, <1>2, <1>3, <1>4, <1>5, <1>6, <1>7, ChannelsStay, RetreatKeeps

LEMMA RequestFacts ==
  ASSUME Shapes, GroupInv, tx.phase # "idle"
  PROVE  /\ Request \in Requests
         /\ Request.transaction = tx.number /\ tx.number \in 1..tx.number
         /\ Request.revision = tx.result
         /\ Request.method = "capture" <=> tx.phase = "capturing"
         /\ Request.method = "finish" <=> tx.phase = "finishing"
         /\ tx.phase = "capturing" => \A x \in Revisions : objects[x].content.operation # tx.number
  <1>1. /\ tx \in Transactions /\ tx.number \in Nat /\ tx.phase \in Phases
        /\ tx.proposal \in Values \cup {None} /\ NoEdits \in Values /\ tx.result \in Nat
    <2>1. NoEdits \in Values
      BY EditsAreTyped, TypesOfRuntimes, ConfigurationAssumption DEF NoEdits, Values
    <2>2. QED
      BY <2>1, TypesOfTx DEF TxTyped, Transactions
  <1>2. /\ tx.number > 0
        /\ tx.phase = "capturing" => \A x \in Revisions : objects[x].content.operation # tx.number
    BY DEF GroupInv, CommitsAreKnown
  <1>3. QED
    BY <1>1, <1>2 DEF Request, Requests, Phases

LEMMA TxLoseKeeps ==
  ASSUME Inv, LinesInv', NEW p \in Participants, TxLose(p) PROVE Inv'
  <1>1. LinesInv /\ Shapes /\ RuntimesInv /\ GroupInv
    BY DEF Inv
  <1>2. /\ tx' = Refused(p) /\ tx.phase # "idle"
        /\ channel' = [channel EXCEPT ![p] = [broken |-> TRUE, request |-> Request]]
        /\ UNCHANGED <<objects, head, lease, accepted, staged, uncertain, reloading, pending,
                       edits, dropped, unanimous>>
    BY DEF TxLose, Turn, runtimeVars, TxUnchanged, storeVars
  <1>3. p \in Runtimes /\ p \in Admitted
    BY DEF Runtimes, Admitted
  <1>4. Ordinary(p)
    BY <1>1, <1>2, <1>3, UnaffectedIsOrdinary DEF HeadMoves
  <1>5. Retreat(tx')
    BY <1>1, <1>2, <1>3, RefusedIsRetreat
  <1>6. FlushIsOwn' /\ NewTransaction(p)
    BY <1>1, <1>2, <1>3, <1>4, TxKeepsFlush DEF SameCapture, NewTransaction
  <1>7. /\ Request \in Requests
        /\ Request.transaction = tx.number /\ tx.number \in 1..tx.number
        /\ Request.method = "capture" =>
             \A x \in Revisions : objects[x].content.operation # tx.number
    BY <1>1, <1>2, RequestFacts
  <1>8. channel \in [Participants -> Channels] /\ reloading \subseteq Plain
    BY <1>1, TypesOfTx
  <1>9. channel' \in [Participants -> Channels] /\ reloading' \subseteq Plain
    <2>1. [broken |-> TRUE, request |-> Request] \in Channels
      BY <1>7 DEF Channels
    <2>2. QED
      BY <1>2, <1>8, <2>1
  <1>10. RequestsAreOld'
    <2>1. tx'.number = tx.number /\ ~Undecided'
      BY <1>5 DEF Retreat, Undecided
    <2>2. ASSUME NEW q \in Participants, channel'[q].request # None
          PROVE  /\ channel'[q].request.transaction \in 1..tx.number
                 /\ channel'[q].request.method = "capture" =>
                      \A x \in Revisions :
                        objects[x].content.operation # channel'[q].request.transaction
      <3>1. CASE q = p
        <4>1. channel'[q].request = Request
          BY <1>2, <1>8, <3>1
        <4>2. QED
          BY <1>7, <4>1
      <3>2. CASE q # p
        <4>1. channel'[q] = channel[q]
          BY <1>2, <1>8, <3>2
        <4>2. QED
          BY <1>1, <2>2, <4>1 DEF GroupInv, RequestsAreOld
      <3>3. QED
        BY <3>1, <3>2
    <2>3. QED
      BY <1>2, <2>1, <2>2 DEF RequestsAreOld, Revisions
  <1>11. QED
    BY <1>2, <1>3, <1>4, <1>5, <1>6, <1>9, <1>10, RetreatKeeps

LEMMA TxAnnounceKeeps ==
  ASSUME Inv, LinesInv', TxAnnounce PROVE Inv'
  <1>1. LinesInv /\ Shapes /\ RuntimesInv /\ GroupInv
    BY DEF Inv
  <1>2. /\ tx.phase = "publishing" /\ lease # None /\ lease.who = Controller
        /\ UNCHANGED <<objects, head, accepted, staged, uncertain, reloading, pending,
                       channel, edits, dropped, unanimous>>
    BY DEF TxAnnounce, Announce, AnnounceFails, Holds, runtimeVars
  <1>3. /\ Controller \in Runtimes /\ Controller \in Admitted /\ Controller \notin Plain
    BY ConfigurationAssumption DEF Runtimes, Admitted
  <1>4. Ordinary(Controller)
    BY <1>1, <1>2, <1>3, UnaffectedIsOrdinary DEF HeadMoves
  <1>5. SameCapture(Controller) \/ pending'[Controller] = None
    BY <1>2 DEF SameCapture
  <1>6. CASE Announce(Controller) /\ tx' = tx
    <2>1. lease' # None /\ lease'.who = Controller
      <3>1. lease \in Lease /\ lease' = [lease EXCEPT !.next = "head"]
        BY <1>1, <1>2, <1>6 DEF Shapes, TypeOK, StoreTypeOK, Announce
      <3>2. lease' \in Lease /\ lease'.who = Controller
        BY <1>2, <3>1 DEF Lease
      <3>3. QED
        BY <3>2, ConfigurationAssumption
    <2>2. LeaseKept(Controller)
      BY <1>3, <2>1 DEF LeaseKept
    <2>3. QED
      BY <1>1, <1>2, <1>3, <1>4, <1>5, <1>6, <2>1, <2>2, ChannelsStay, KeptCaptureKeeps
  <1>7. CASE AnnounceFails(Controller) /\ tx' = Failed
    <2>1. Retreat(tx')
      BY <1>1, <1>2, <1>7, FailedIsRetreat
    <2>2. FlushIsOwn' /\ NewTransaction(Controller)
      BY <1>5, <1>7 DEF AnnounceFails, FlushIsOwn, NewTransaction
    <2>3. RequestsAreOld'
      BY <1>1, <1>2, <2>1, RetreatKeepsRequests
    <2>4. QED
      BY <1>1, <1>2, <1>3, <1>4, <2>1, <2>2, <2>3, ChannelsStay, RetreatKeeps
  <1>8. QED
    BY <1>6, <1>7 DEF TxAnnounce

LEMMA TxPublishKeeps ==
  ASSUME Inv, LinesInv', TxPublish PROVE Inv'
  <1>1. LinesInv /\ Shapes /\ RuntimesInv /\ GroupInv
    BY DEF Inv
  <1>2. /\ tx.phase = "publishing" /\ lease # None /\ lease' = None
        /\ head' \in {head, lease.candidate}
        /\ UNCHANGED <<objects, accepted, staged, uncertain, reloading, pending,
                       channel, edits, dropped, unanimous>>
    BY DEF TxPublish, Publish, PublishFails, Holds, runtimeVars
  <1>3. /\ Controller \in Runtimes /\ Controller \in Admitted
    BY DEF Runtimes, Admitted
  <1>4. Ordinary(Controller)
    BY <1>1, <1>2, <1>3, PublishingMoves, UnaffectedIsOrdinary
  <1>5. FlushIsOwn' /\ NewTransaction(Controller)
    BY <1>2 DEF FlushIsOwn, NewTransaction, SameCapture
  <1>6. CASE tx' = Failed
    <2>1. Retreat(tx')
      BY <1>1, <1>2, <1>6, FailedIsRetreat
    <2>2. RequestsAreOld'
      BY <1>1, <1>2, <2>1, RetreatKeepsRequests
    <2>3. QED
      BY <1>1, <1>2, <1>3, <1>4, <1>5, <2>1, <2>2, ChannelsStay, RetreatKeeps
  <1>7. CASE tx' = [tx EXCEPT !.phase = "finishing", !.todo = Admitted,
                              !.result = lease.candidate]
    <2>1. tx \in Transactions /\ lease.candidate \in 1..Len(objects) /\ lease.candidate \in Nat
      BY <1>1, <1>2, TypesOfTx, RevisionsAreNumbers DEF TxTyped, Shapes, TypeOK, StoreTypeOK, Revisions
    <2>2. /\ tx' \in Transactions /\ tx'.number = tx.number /\ tx'.phase = "finishing"
          /\ tx'.todo = Admitted /\ tx'.result = lease.candidate /\ tx'.frozen = tx.frozen
          /\ tx'.proposal = tx.proposal
      BY <1>7, <2>1 DEF Transactions, Phases
    <2>3. TxTyped' /\ tx.number \in Nat
      BY <1>1, <1>2, <2>1, <2>2, TypesOfTx DEF TxTyped
    <2>4. ~Undecided' /\ FinishedAccepted'
      BY <2>2 DEF Undecided, FinishedAccepted
    <2>5. FrozenIsCaptured' /\ FrozenIsFresh'
      BY <2>4 DEF FrozenIsCaptured, FrozenIsFresh
    <2>6. RequestsAreOld'
      BY <1>1, <1>2, <2>2, <2>3, <2>4, FewerRequests
    <2>7. CommitsAreKnown'
      BY <1>1, <1>2, <2>2 DEF GroupInv, CommitsAreKnown, Revisions
    <2>8. QED
      BY <1>1, <1>2, <1>3, <1>4, <1>5, <2>2, <2>3, <2>4, <2>5, <2>6, <2>7, ChannelsStay,
         TransactionKeeps
  <1>8. QED
    BY <1>6, <1>7 DEF TxPublish

LEMMA TxAbortLocalKeeps ==
  ASSUME Inv, LinesInv', TxAbortLocal PROVE Inv'
  <1>1. LinesInv /\ Shapes /\ RuntimesInv /\ GroupInv
    BY DEF Inv
  <1>2. /\ tx.phase = "aborting" /\ tx' = [tx EXCEPT !.todo = tx.todo \ {Controller}]
        /\ Abort(Controller, tx.number)
        /\ UNCHANGED <<objects, head, lease, reloading, channel, edits, dropped, unanimous>>
    BY DEF TxAbortLocal, Local, TxUnchanged, storeVars
  <1>3. Controller \in Runtimes /\ Controller \in Admitted /\ Controller \notin Plain
    BY ConfigurationAssumption DEF Runtimes, Admitted
  <1>4. OwnStep(Controller) /\ (pending'[Controller] # None => SameCapture(Controller))
    BY <1>1, <1>2, <1>3, AbortIsLocal DEF SameCapture
  <1>5. Ordinary(Controller)
    BY <1>2, <1>4 DEF Ordinary, NewNumber, HeadMoves
  <1>6. FlushIsOwn' /\ NewTransaction(Controller)
    BY <1>1, <1>2, <1>3, <1>4, <1>5, TxKeepsFlush DEF NewTransaction
  <1>7. Retreat(tx')
    <2>1. /\ \A q \in Admitted : tx.frozen[q].base \in 0..Len(objects)
          /\ tx.result \in 0..Len(objects) /\ tx \in Transactions
      BY <1>1, TypesOfTx DEF TxTyped
    <2>2. /\ tx' \in Transactions /\ tx'.number = tx.number /\ tx'.phase = "aborting"
          /\ tx'.frozen = tx.frozen /\ tx'.result = tx.result
      BY <1>2, <2>1 DEF Transactions
    <2>3. QED
      BY <1>2, <2>1, <2>2 DEF Retreat
  <1>8. RequestsAreOld'
    BY <1>1, <1>2, <1>7, RetreatKeepsRequests
  <1>9. QED
    BY <1>1, <1>2, <1>3, <1>5, <1>6, <1>7, <1>8, ChannelsStay, RetreatKeeps

\* What a step keeps that only takes a runtime off the list.
LEMMA OnwardKeeps ==
  ASSUME Inv, LinesInv', NEW r \in Admitted, Ordinary(r), FlushIsOwn', NewTransaction(r),
         NotCommitting(r), tx' = Onward(r) \/ tx' = [tx EXCEPT !.todo = tx.todo \ {r}],
         tx.phase \notin {"idle", "capturing"},
         UNCHANGED <<channel, reloading, unanimous, lease>>,
         tx.phase = "preparing" => accepted'[Controller] = accepted[Controller],
         tx.phase = "finishing" => OnLine(objects, tx.result, accepted'[r])
  PROVE  Inv'
  <1>1. LinesInv /\ Shapes /\ RuntimesInv /\ GroupInv /\ r \in Runtimes /\ objects' = objects
    BY TypesOfRuntimes DEF Inv, Ordinary
  <1>2. /\ tx' \in Transactions /\ tx'.number = tx.number /\ tx'.phase = tx.phase
        /\ tx'.todo = tx.todo \ {r} /\ tx'.frozen = tx.frozen
        /\ tx'.result = tx.result /\ tx'.proposal = tx.proposal
    <2>1. CASE tx' = Onward(r)
      BY <1>1, <2>1, OnwardFacts
    <2>2. CASE tx' = [tx EXCEPT !.todo = tx.todo \ {r}]
      <3>1. tx \in Transactions
        BY <1>1, TypesOfTx DEF TxTyped
      <3>2. QED
        BY <2>2, <3>1 DEF Transactions
    <2>3. QED
      BY <2>1, <2>2
  <1>3. TxTyped' /\ tx.number \in Nat
    BY <1>1, <1>2, TypesOfTx DEF TxTyped
  <1>4. FrozenIsCaptured' /\ FrozenIsFresh'
    <2>1. Quiet
      BY <1>2 DEF Quiet, Undecided
    <2>2. QED
      BY <1>1, <2>1, QuietKeepsFrozen
  <1>5. RequestsAreOld'
    BY <1>1, <1>2, <1>3, ChannelsStay, FewerRequests DEF Undecided
  <1>6. CommitsAreKnown'
    <2>1. tx.phase = "preparing" => (Compatible' <=> Compatible)
      BY <1>2 DEF Compatible, Proposed
    <2>2. QED
      BY <1>1, <1>2, <2>1 DEF GroupInv, CommitsAreKnown, Revisions
  <1>7. (\A q \in Runtimes : \A x :
            OnLine(objects, x, accepted[q]) => OnLine(objects', x, accepted'[q]))
          => FinishedAccepted'
    BY <1>1, <1>2, TypesOfRuntimes DEF GroupInv, FinishedAccepted
  <1>8. QED
    BY <1>1, <1>2, <1>3, <1>4, <1>5, <1>6, <1>7, ChannelsStay, TransactionKeeps

LEMMA TxFinishLocalKeeps ==
  ASSUME Inv, LinesInv', TxFinishLocal PROVE Inv'
  <1>1. LinesInv /\ Shapes /\ RuntimesInv /\ GroupInv
    BY DEF Inv
  <1>2. /\ tx.phase = "finishing" /\ Finish(Controller, tx.number)
        /\ tx' = IF Finished(Controller, tx.number, tx.result)
                   THEN [tx EXCEPT !.todo = tx.todo \ {Controller}] ELSE Failed
        /\ UNCHANGED <<objects, head, lease, reloading, channel, edits, dropped, unanimous>>
    BY DEF TxFinishLocal, Local, TxUnchanged, storeVars
  <1>3. Controller \in Runtimes /\ Controller \in Admitted /\ Controller \notin Plain
    BY ConfigurationAssumption DEF Runtimes, Admitted
  <1>4. /\ OwnStep(Controller) /\ (pending'[Controller] # None => SameCapture(Controller))
        /\ Finished(Controller, tx.number, tx.result) => accepted'[Controller] = tx.result
    <2>1. tx.result \in 0..Len(objects)
      BY <1>1, TypesOfTx DEF TxTyped
    <2>2. QED
      BY <1>1, <1>2, <1>3, <2>1, FinishIsLocal DEF SameCapture
  <1>5. Ordinary(Controller)
    BY <1>2, <1>4 DEF Ordinary, NewNumber, HeadMoves
  <1>6. FlushIsOwn' /\ NewTransaction(Controller) /\ NotCommitting(Controller)
    BY <1>1, <1>2, <1>3, <1>4, <1>5, TxKeepsFlush DEF NewTransaction, NotCommitting
  <1>7. CASE Finished(Controller, tx.number, tx.result)
    <2>1. OnLine(objects, tx.result, accepted'[Controller])
      BY <1>1, <1>4, <1>7, OnOwnLine, TypesOfTx DEF TxTyped
    <2>2. QED
      BY <1>2, <1>3, <1>5, <1>6, <1>7, <2>1, OnwardKeeps
  <1>8. CASE ~Finished(Controller, tx.number, tx.result)
    <2>1. Retreat(tx')
      BY <1>1, <1>2, <1>8, FailedIsRetreat
    <2>2. RequestsAreOld'
      BY <1>1, <1>2, <2>1, RetreatKeepsRequests
    <2>3. QED
      BY <1>1, <1>2, <1>3, <1>5, <1>6, <2>1, <2>2, ChannelsStay, RetreatKeeps
  <1>9. QED
    BY <1>7, <1>8

LEMMA TxEndKeeps ==
  ASSUME Inv, LinesInv', TxEnd PROVE Inv'
  <1>1. LinesInv /\ Shapes /\ RuntimesInv /\ GroupInv
    BY DEF Inv
  <1>2. /\ tx.phase \in {"finishing", "aborting"} /\ tx.todo = {} /\ tx' = NoTx(tx.number)
        /\ unanimous' = IF tx.phase = "finishing" THEN unanimous \cup {tx.result} ELSE unanimous
        /\ UNCHANGED <<objects, head, lease, accepted, staged, uncertain, reloading, pending,
                       channel, edits, dropped>>
    BY DEF TxEnd, runtimeVars, storeVars
  <1>3. Controller \in Runtimes /\ Controller \in Admitted
    BY DEF Runtimes, Admitted
  <1>4. Ordinary(Controller)
    BY <1>1, <1>2, <1>3, UnaffectedIsOrdinary DEF HeadMoves
  <1>5. FlushIsOwn' /\ NewTransaction(Controller)
    BY <1>1, <1>2, <1>3, <1>4, TxKeepsFlush DEF SameCapture, NewTransaction
  <1>6. Retreat(tx')
    BY <1>1, <1>2, NoTxIsRetreat
  <1>7. RequestsAreOld'
    BY <1>1, <1>2, <1>6, RetreatKeepsRequests
  <1>8. \A x \in unanimous' \ unanimous, q \in Admitted : OnLine(objects, x, accepted[q])
    BY <1>1, <1>2 DEF GroupInv, FinishedAccepted
  <1>9. QED
    BY <1>1, <1>2, <1>3, <1>4, <1>5, <1>6, <1>7, <1>8, ChannelsStay, RetreatKeeps

\* A commit that is refused before anything is written.
LEMMA TxRefusedCommitKeeps ==
  ASSUME Inv, LinesInv', TxCommit, objects' = objects PROVE Inv'
  <1>1. LinesInv /\ Shapes /\ RuntimesInv /\ GroupInv
    BY DEF Inv
  <1>2. /\ tx.phase = "preparing"
        /\ UNCHANGED <<accepted, staged, uncertain, reloading, pending, channel, edits, dropped,
                       unanimous>>
    BY DEF TxCommit, runtimeVars
  <1>3. tx' = Failed /\ UNCHANGED <<head, lease>>
    <2>1. TxContent \in Contents
      BY <1>1, <1>2, TxContentIsTyped DEF GroupInv
    <2>2. ASSUME NEW stored \in BOOLEAN, objects' = Sealed(TxContent, stored) PROVE FALSE
      <3>1. Len(objects') = Len(objects) + 1 /\ Len(objects) \in Nat
        BY <1>1, <2>1, <2>2, SealedObjects
      <3>2. QED
        BY <3>1
    <2>3. QED
      BY <2>2 DEF TxCommit, Seal, SealFails, storeVars
  <1>4. Controller \in Runtimes /\ Controller \in Admitted
    BY DEF Runtimes, Admitted
  <1>5. Ordinary(Controller)
    BY <1>1, <1>2, <1>3, <1>4, UnaffectedIsOrdinary DEF HeadMoves
  <1>6. FlushIsOwn' /\ NewTransaction(Controller)
    BY <1>1, <1>2, <1>3, <1>4, <1>5, TxKeepsFlush DEF SameCapture, NewTransaction
  <1>7. Retreat(tx')
    BY <1>1, <1>2, <1>3, FailedIsRetreat
  <1>8. RequestsAreOld'
    BY <1>1, <1>2, <1>7, RetreatKeepsRequests
  <1>9. QED
    BY <1>1, <1>2, <1>4, <1>5, <1>6, <1>7, <1>8, ChannelsStay, RetreatKeeps

\* The proposal is made of the accepted values and the updates.
LEMMA ProposalIsTyped ==
  ASSUME Shapes, Compatible
  PROVE  Over(ValuesOf(accepted[Controller]), Updates) \in Values
  <1>1. accepted[Controller] \in 0..Len(objects)
    BY TypesOfRuntimes DEF Runtimes
  <1>2. ValuesOf(accepted[Controller]) \in Values
    <2>1. CASE accepted[Controller] = 0
      <3>1. NoEdits \in Values
        BY ConfigurationAssumption DEF NoEdits, Values
      <3>2. QED
        BY <2>1, <3>1 DEF ValuesOf
    <2>2. CASE accepted[Controller] # 0
      <3>1. objects[accepted[Controller]] \in Object
        BY <1>1, <2>2, RevisionsAreNumbers DEF Shapes, TypeOK, StoreTypeOK
      <3>2. objects[accepted[Controller]].content.values \in Values
        BY <3>1, ConfigurationAssumption DEF Object
      <3>3. QED
        BY <2>2, <3>2 DEF ValuesOf
    <2>3. QED
      BY <2>1, <2>2
  <1>3. Updates \in Values
    BY UpdatesFacts
  <1>4. QED
    BY <1>2, <1>3 DEF Over, Values

LEMMA TxMergeKeeps ==
  ASSUME Inv, LinesInv', TxMerge PROVE Inv'
  <1> DEFINE proposal == Over(ValuesOf(accepted[Controller]), Updates)
  <1>1. LinesInv /\ Shapes /\ RuntimesInv /\ GroupInv
    BY DEF Inv
  <1>2. /\ tx.phase = "capturing" /\ tx.todo = {}
        /\ UNCHANGED <<objects, head, lease, channel, edits, dropped, unanimous>>
        /\ IF ~Compatible THEN tx' = Failed /\ UNCHANGED runtimeVars
           ELSE IF Updates = NoEdits
             THEN /\ tx' = [tx EXCEPT !.phase = "finishing", !.todo = Admitted,
                              !.result = accepted[Controller]]
                  /\ UNCHANGED runtimeVars
           ELSE /\ tx' = [tx EXCEPT !.phase = "preparing", !.todo = Participants,
                            !.proposal = proposal]
                /\ Prepare(Controller, tx.number, proposal)
                /\ UNCHANGED reloading
    BY DEF TxMerge, storeVars
  <1>3. /\ Controller \in Runtimes /\ Controller \in Admitted /\ Controller \notin Plain
        /\ Participants \subseteq Admitted /\ None \notin Values
    BY ConfigurationAssumption DEF Runtimes, Admitted
  <1>4. /\ tx \in Transactions /\ tx.number \in Nat /\ tx.number > 0
        /\ \A x \in Revisions : objects[x].content.operation # tx.number
    <2>1. tx \in Transactions /\ tx.number \in Nat
      BY <1>1, TypesOfTx DEF TxTyped
    <2>2. QED
      BY <1>1, <1>2, <2>1 DEF GroupInv, CommitsAreKnown
  <1>5. CASE ~Compatible
    <2>1. tx' = Failed /\ UNCHANGED <<accepted, staged, uncertain, reloading, pending>>
      BY <1>2, <1>5 DEF runtimeVars
    <2>2. Retreat(tx')
      BY <1>1, <1>2, <2>1, FailedIsRetreat
    <2>3. Ordinary(Controller)
      BY <1>1, <1>2, <1>3, <2>1, UnaffectedIsOrdinary DEF HeadMoves
    <2>4. FlushIsOwn' /\ NewTransaction(Controller)
      BY <1>1, <1>2, <1>3, <2>1, <2>3, TxKeepsFlush DEF SameCapture, NewTransaction
    <2>5. RequestsAreOld'
      BY <1>1, <1>2, <2>1, <2>2, RetreatKeepsRequests
    <2>6. QED
      BY <1>1, <1>2, <1>3, <2>1, <2>2, <2>3, <2>4, <2>5, ChannelsStay, RetreatKeeps
  <1>6. CASE Compatible /\ Updates = NoEdits
    <2>1. /\ tx' = [tx EXCEPT !.phase = "finishing", !.todo = Admitted,
                      !.result = accepted[Controller]]
          /\ UNCHANGED <<accepted, staged, uncertain, reloading, pending>>
      BY <1>2, <1>6 DEF runtimeVars
    <2>2. accepted[Controller] \in 0..Len(objects) /\ accepted[Controller] \in Nat
      BY <1>1, <1>3, TypesOfRuntimes
    <2>3. /\ tx' \in Transactions /\ tx'.number = tx.number /\ tx'.phase = "finishing"
          /\ tx'.todo = Admitted /\ tx'.result = accepted[Controller] /\ tx'.frozen = tx.frozen
          /\ tx'.proposal = tx.proposal
      BY <1>4, <2>1, <2>2 DEF Transactions, Phases
    <2>4. Ordinary(Controller)
      BY <1>1, <1>2, <1>3, <2>1, UnaffectedIsOrdinary DEF HeadMoves
    <2>5. FlushIsOwn' /\ NewTransaction(Controller)
      BY <1>1, <1>2, <1>3, <2>1, <2>4, TxKeepsFlush DEF SameCapture, NewTransaction
    <2>6. TxTyped'
      BY <1>1, <1>2, <2>2, <2>3, TypesOfTx DEF TxTyped
    <2>7. ~Undecided' /\ FinishedAccepted' /\ FrozenIsCaptured' /\ FrozenIsFresh'
      BY <2>3 DEF Undecided, FinishedAccepted, FrozenIsCaptured, FrozenIsFresh
    <2>8. RequestsAreOld'
      BY <1>1, <1>2, <1>4, <2>1, <2>3, <2>7, ChannelsStay, FewerRequests
    <2>9. CommitsAreKnown'
      BY <1>1, <1>2, <1>4, <2>3 DEF GroupInv, CommitsAreKnown, Revisions
    <2>10. QED
      BY <1>1, <1>2, <1>3, <1>4, <2>1, <2>3, <2>4, <2>5, <2>6, <2>7, <2>8, <2>9, ChannelsStay,
         TransactionKeeps
  <1>7. CASE Compatible /\ Updates # NoEdits
    <2>1. /\ tx' = [tx EXCEPT !.phase = "preparing", !.todo = Participants,
                      !.proposal = proposal]
          /\ Prepare(Controller, tx.number, proposal) /\ UNCHANGED reloading
          /\ UNCHANGED <<accepted, staged, uncertain>>
      BY <1>2, <1>7 DEF Prepare
    <2>2. proposal \in Values
      BY <1>1, <1>7, ProposalIsTyped
    <2> HIDE DEF proposal
    <2>3. /\ tx' \in Transactions /\ tx'.number = tx.number /\ tx'.phase = "preparing"
          /\ tx'.todo = Participants /\ tx'.result = tx.result /\ tx'.frozen = tx.frozen
          /\ tx'.proposal = proposal /\ tx'.proposal # None
      BY <1>3, <1>4, <2>1, <2>2 DEF Transactions, Phases
    <2>4. OwnStep(Controller) /\ (pending'[Controller] # None => SameCapture(Controller))
      BY <1>1, <1>3, <1>4, <2>1, <2>2, PrepareIsLocal
    <2>5. Ordinary(Controller)
      BY <1>2, <2>4 DEF Ordinary, NewNumber, HeadMoves
    <2>6. FlushIsOwn' /\ NewTransaction(Controller) /\ NotCommitting(Controller)
      BY <1>1, <1>2, <1>3, <2>4, <2>5, TxKeepsFlush DEF NewTransaction, NotCommitting
    <2>7. TxTyped'
      BY <1>1, <1>2, <2>3, TypesOfTx DEF TxTyped
    <2>8. Undecided /\ Undecided'
      BY <1>2, <2>3 DEF Undecided
    <2>9. FrozenIsCaptured' /\ FrozenIsFresh'
      <3>1. Quiet
        BY <1>2, <2>3, <2>8 DEF Quiet
      <3>2. QED
        BY <1>1, <1>3, <2>5, <2>6, <3>1, QuietKeepsFrozen
    <2>10. RequestsAreOld'
      BY <1>1, <1>2, <1>4, <2>1, <2>3, <2>8, ChannelsStay, FewerRequests
    <2>11. CommitsAreKnown'
      <3>1. Compatible'
        BY <1>7, <2>1, <2>3 DEF Compatible, Proposed
      <3>2. QED
        BY <1>1, <1>2, <1>4, <2>3, <3>1 DEF GroupInv, CommitsAreKnown, Revisions
    <2>12. FinishedAccepted'
      BY <2>3 DEF FinishedAccepted
    <2>13. QED
      BY <1>1, <1>2, <1>3, <1>4, <2>1, <2>3, <2>5, <2>6, <2>7, <2>9, <2>10, <2>11, <2>12,
         ChannelsStay, TransactionKeeps
  <1>8. QED
    BY <1>5, <1>6, <1>7

\* What a runtime answers to a capture is what it stages from then on.
LEMMA CaptureFreezes ==
  ASSUME Inv, NEW r \in Admitted, Ordinary(r), FlushIsOwn',
         Capture(r, tx'.number), CanCapture(r),
         tx'.phase = "capturing", tx'.frozen[r] = CaptureReply(r),
         \A q \in Admitted \ {r} :
           \/ tx'.frozen[q] = Refusal /\ q \in tx'.todo
           \/ /\ tx.phase = "capturing" /\ tx'.number = tx.number
              /\ tx'.frozen[q] = tx.frozen[q] /\ (q \in tx.todo => q \in tx'.todo)
  PROVE  FrozenIsCaptured' /\ FrozenIsFresh'
  <1>1. LinesInv /\ Shapes /\ RuntimesInv /\ GroupInv /\ Surviving /\ r \in Runtimes
    BY TypesOfRuntimes DEF Inv
  <1>2. RuntimesInv' /\ OwnStep(r) /\ UNCHANGED <<objects, edits>>
    BY <1>1, OrdinaryKeeps DEF Ordinary
  <1>3. /\ accepted'[r] = head /\ staged'[r] = Kept(r)
        /\ tx'.frozen[r].base = head /\ tx'.frozen[r].values = Kept(r)
        /\ pending'[r] # None => pending'[r].values = Kept(r)
    <2>1. /\ accepted' = [accepted EXCEPT ![r] = head]
          /\ staged' = [staged EXCEPT ![r] = Kept(r)]
          /\ pending' = [pending EXCEPT ![r] =
               [transaction |-> tx'.number, base |-> head, values |-> Kept(r), proposal |-> None]]
      BY DEF Capture
    <2>2. tx'.frozen[r] = [ok |-> TRUE, base |-> head, values |-> Kept(r)]
      BY DEF CaptureReply
    <2>3. QED
      BY <1>1, <2>1, <2>2, TypesOfRuntimes
  <1>4. EditsIn(NoEdits) = {} /\ Refusal.values = NoEdits /\ \A u \in Owners : NoEdits[u] = 0
    BY NothingPublishedYet DEF Refusal, NoEdits
  <1>5. ASSUME NEW q \in Admitted, pending'[q] # None, pending'[q].transaction = tx'.number
        PROVE  q \in tx'.todo \/ pending'[q].values = tx'.frozen[q].values
    <2>1. CASE q = r
      BY <1>3, <1>5, <2>1
    <2>2. CASE q # r /\ q \notin tx'.todo
      <3>1. /\ tx.phase = "capturing" /\ tx'.number = tx.number
            /\ tx'.frozen[q] = tx.frozen[q] /\ q \notin tx.todo
        BY <2>2
      <3>2. pending'[q] = pending[q]
        BY <1>2, <2>2 DEF OwnStep
      <3>3. QED
        BY <1>1, <1>5, <3>1, <3>2 DEF GroupInv, FrozenIsCaptured, Undecided
    <2>3. QED
      BY <2>1, <2>2
  <1>6. ASSUME NEW q \in Admitted
        PROVE  /\ EditsIn(tx'.frozen[q].values) \subseteq 1..edits
               /\ EditsIn(tx'.frozen[q].values) \cap Published(objects, tx'.frozen[q].base) = {}
               /\ \A u \in Owners, p \in Runtimes, o \in Owners :
                    tx'.frozen[q].values[u] = staged'[p][o] /\ staged'[p][o] # 0
                      => q = p /\ u = o
    <2>1. CASE q = r
      <3>1. /\ EditsIn(staged'[r]) \subseteq 1..edits
            /\ EditsIn(staged'[r]) \cap Published(objects, accepted'[r]) = {}
            /\ \A u \in Owners, p \in Runtimes, o \in Owners :
                 staged'[r][u] = staged'[p][o] /\ staged'[p][o] # 0 => r = p /\ u = o
        BY <1>1, <1>2 DEF RuntimesInv, Numbered, Fresh
      <3>2. QED
        BY <1>3, <2>1, <3>1
    <2>2. CASE q # r /\ tx'.frozen[q] = Refusal
      BY <1>4, <2>2
    <2>3. CASE q # r /\ tx.phase = "capturing" /\ tx'.frozen[q] = tx.frozen[q]
      <3>1. /\ EditsIn(tx.frozen[q].values) \subseteq 1..edits
            /\ EditsIn(tx.frozen[q].values) \cap Published(objects, tx.frozen[q].base) = {}
            /\ \A u \in Owners, p \in Runtimes, o \in Owners :
                 tx.frozen[q].values[u] = staged[p][o] /\ staged[p][o] # 0 => q = p /\ u = o
        BY <1>1, <2>3 DEF GroupInv, FrozenIsFresh, Undecided
      <3>2. \A p \in Runtimes, o \in Owners : staged'[p][o] \in {0, staged[p][o]}
        BY <1>1, <1>2, LocalKeepsEdits DEF Ordinary
      <3>3. ASSUME NEW u \in Owners, NEW p \in Runtimes, NEW o \in Owners,
                   tx.frozen[q].values[u] = staged'[p][o], staged'[p][o] # 0
            PROVE  q = p /\ u = o
        <4>1. staged'[p][o] = staged[p][o]
          BY <3>2, <3>3
        <4>2. QED
          BY <3>1, <3>3, <4>1
      <3>4. QED
        BY <2>3, <3>1, <3>3
    <2>4. QED
      BY <2>1, <2>2, <2>3
  <1>7. FrozenIsCaptured'
    BY <1>5 DEF FrozenIsCaptured
  <1>8. FrozenIsFresh'
    BY <1>2, <1>6 DEF FrozenIsFresh
  <1>9. QED
    BY <1>7, <1>8

LEMMA CaptureReplyIsTyped ==
  ASSUME Shapes, RuntimesInv, LinesInv, NEW r \in Admitted, CanCapture(r)
  PROVE  /\ CaptureReply(r) \in Replies /\ CaptureReply(r).base \in 0..Len(objects)
         /\ CaptureReply(r).ok
  <1>1. Kept(r) \in Values
    BY TypesOfRuntimes, KeptFacts
  <1>2. head \in 0..Len(objects) /\ head \in Nat
    BY TypesOfRuntimes
  <1>3. CaptureReply(r) = [ok |-> TRUE, base |-> head, values |-> Kept(r)]
    BY DEF CaptureReply
  <1>4. QED
    BY <1>1, <1>2, <1>3 DEF Replies

LEMMA TxBeginKeeps ==
  ASSUME Inv, LinesInv', TxBegin PROVE Inv'
  <1>1. LinesInv /\ Shapes /\ RuntimesInv /\ GroupInv /\ Surviving
    BY DEF Inv
  <1>2. /\ tx.phase = "idle" /\ tx.number < MaxTransactions
        /\ CanCapture(Controller) /\ Capture(Controller, tx.number + 1)
        /\ tx' = [NoTx(tx.number + 1) EXCEPT
                    !.phase = "capturing", !.todo = Participants, !.captured = {Controller},
                    !.frozen[Controller] = CaptureReply(Controller)]
        /\ UNCHANGED <<objects, head, lease, reloading, channel, edits, dropped, unanimous>>
    BY DEF TxBegin, TxUnchanged, storeVars
  <1>3. /\ Controller \in Runtimes /\ Controller \in Admitted /\ Controller \notin Plain
        /\ Participants \subseteq Admitted /\ Admitted = Participants \cup {Controller}
    BY ConfigurationAssumption DEF Runtimes, Admitted
  <1>4. tx.number \in Nat /\ tx.number + 1 \in 1..MaxTransactions /\ tx.number + 1 \in Nat
        /\ tx.number < tx.number + 1 /\ tx.number + 1 \in 0..MaxTransactions
    BY <1>1, <1>2, TypesOfTx
  <1>5. /\ tx' \in Transactions /\ tx'.number = tx.number + 1 /\ tx'.phase = "capturing"
        /\ tx'.todo = Participants /\ tx'.result = 0
        /\ tx'.frozen[Controller] = CaptureReply(Controller)
        /\ \A q \in Admitted \ {Controller} : tx'.frozen[q] = Refusal
    <2>1. CaptureReply(Controller) \in Replies
      BY <1>1, <1>2, <1>3, CaptureReplyIsTyped
    <2>2. NoAnswers \in [Admitted -> Replies]
      BY <1>1, TypesOfTx, EditsAreTyped DEF NoAnswers, Refusal, Replies
    <2> DEFINE frozen == [NoAnswers EXCEPT ![Controller] = CaptureReply(Controller)]
    <2>3. /\ frozen \in [Admitted -> Replies] /\ frozen[Controller] = CaptureReply(Controller)
          /\ \A q \in Admitted \ {Controller} : frozen[q] = Refusal
      BY <1>3, <2>1, <2>2 DEF NoAnswers
    <2>4. tx' = [number |-> tx.number + 1, phase |-> "capturing", todo |-> Participants,
                 captured |-> {Controller}, frozen |-> frozen, proposal |-> None, result |-> 0]
      BY <1>2 DEF NoTx
    <2> HIDE DEF frozen
    <2>5. QED
      BY <1>3, <1>4, <2>3, <2>4 DEF Transactions, Phases
  <1>6. OwnStep(Controller) /\ pending'[Controller].transaction = tx.number + 1
    BY <1>1, <1>2, <1>3, <1>4, CaptureIsLocal
  <1>7. \A x \in Revisions : objects[x].content.operation \in 0..tx.number
    BY <1>1 DEF GroupInv, CommitsAreKnown
  <1>8. Ordinary(Controller)
    BY <1>2, <1>4, <1>6, <1>7 DEF Ordinary, NewNumber, HeadMoves
  <1>9. FlushIsOwn' /\ NewTransaction(Controller)
    <2>1. NewTransaction(Controller)
      BY <1>4, <1>5, <1>6 DEF NewTransaction
    <2>2. QED
      BY <1>1, <1>2, <1>3, <1>8, <2>1, TxKeepsFlush
  <1>10. FrozenIsCaptured' /\ FrozenIsFresh'
    BY <1>2, <1>3, <1>5, <1>8, <1>9, CaptureFreezes
  <1>11. TxTyped'
    <2>1. \A q \in Admitted : tx'.frozen[q].base \in 0..Len(objects)
      <3>1. CaptureReply(Controller).base \in 0..Len(objects)
        BY <1>1, <1>2, <1>3, CaptureReplyIsTyped
      <3>2. Refusal.base \in 0..Len(objects)
        BY <1>1, TypesOfRuntimes DEF Refusal
      <3>3. QED
        BY <1>5, <3>1, <3>2
    <2>2. 0 \in 0..Len(objects)
      BY <1>1, TypesOfRuntimes
    <2>3. QED
      BY <1>2, <1>4, <1>5, <2>1, <2>2 DEF TxTyped
  <1>12. RequestsAreOld'
    BY <1>1, <1>2, <1>4, <1>5, ChannelsStay, FewerRequests
  <1>13. CommitsAreKnown'
    <2>1. \A x \in Revisions :
            /\ objects[x].content.operation \in 0..tx'.number
            /\ objects[x].content.operation # tx'.number
      BY <1>4, <1>5, <1>7
    <2>2. QED
      BY <1>2, <1>4, <1>5, <2>1 DEF CommitsAreKnown, Revisions
  <1>14. FinishedAccepted'
    BY <1>5 DEF FinishedAccepted
  <1>15. QED
    BY <1>1, <1>2, <1>3, <1>4, <1>5, <1>8, <1>9, <1>10, <1>11, <1>12, <1>13, <1>14,
       ChannelsStay, TransactionKeeps

LEMMA TxExchangeKeeps ==
  ASSUME Inv, LinesInv', NEW p \in Participants, TxExchange(p) PROVE Inv'
  <1>1. LinesInv /\ Shapes /\ RuntimesInv /\ GroupInv /\ Surviving
    BY DEF Inv
  <1> DEFINE answer == Answer(p, Request)
  <1>2. /\ tx.phase # "idle" /\ p \in tx.todo /\ p # Controller
        /\ Serve(p, Request)
        /\ tx' = IF ~answer.ok THEN Refused(p)
                 ELSE IF tx.phase = "capturing"
                   THEN [Onward(p) EXCEPT !.frozen[p] = answer] ELSE Onward(p)
        /\ UNCHANGED <<objects, head, lease, reloading, channel, edits, dropped, unanimous>>
    BY DEF TxExchange, Turn, TxUnchanged, storeVars
  <1>3. p \in Runtimes /\ p \in Admitted
    BY DEF Runtimes, Admitted
  <1>4. /\ Request \in Requests
        /\ Request.transaction = tx.number /\ tx.number \in 1..tx.number
        /\ Request.revision = tx.result
        /\ Request.method = "capture" <=> tx.phase = "capturing"
        /\ Request.method = "finish" <=> tx.phase = "finishing"
        /\ tx.phase = "capturing" => \A x \in Revisions : objects[x].content.operation # tx.number
    BY <1>1, <1>2, RequestFacts
  <1>5. /\ OwnStep(p) /\ NewNumber(p)
        /\ pending'[p] # None /\ ~SameCapture(p) =>
             /\ tx.phase = "capturing" /\ ~Locked(p)
             /\ pending'[p].transaction = tx.number
        /\ \A x \in 0..Len(objects) :
              ~Locked(p) /\ tx.phase = "finishing" /\ Finished(p, tx.number, x)
                => accepted'[p] = x
    BY <1>1, <1>2, <1>4, ServeIsLocal
  <1>6. Ordinary(p)
    BY <1>2, <1>5 DEF Ordinary, HeadMoves
  <1>7. FlushIsOwn'
    <2>1. lease # None /\ lease.who = p => Locked(p)
      BY DEF Locked
    <2>2. QED
      BY <1>1, <1>2, <1>3, <1>5, <1>6, <2>1, TxKeepsFlush
  <1>8. tx'.number = tx.number => NewTransaction(p)
    BY <1>4, <1>5 DEF NewTransaction
  <1>9. CASE ~answer.ok
    <2>1. Retreat(tx') /\ tx'.number = tx.number
      BY <1>1, <1>2, <1>3, <1>9, RefusedIsRetreat DEF Retreat
    <2>2. RequestsAreOld'
      BY <1>1, <1>2, <2>1, RetreatKeepsRequests
    <2>3. QED
      BY <1>1, <1>2, <1>3, <1>6, <1>7, <1>8, <2>1, <2>2, ChannelsStay, RetreatKeeps
  <1>10. answer.ok => ~Locked(p) /\ answer = ReplyTo(p, Request)
    BY DEF Answer, Refusal
  <1>11. CASE answer.ok /\ tx.phase = "capturing"
    <2>1. answer = CaptureReply(p) /\ CanCapture(p)
      BY <1>4, <1>10, <1>11 DEF ReplyTo, CaptureReply, Refusal
    <2>2. Capture(p, tx.number)
      BY <1>2, <1>4, <1>10, <1>11 DEF Serve, Handle
    <2>3. answer \in Replies /\ answer.base \in 0..Len(objects)
      BY <1>1, <1>3, <2>1, CaptureReplyIsTyped
    <2>4. tx' = [Onward(p) EXCEPT !.frozen[p] = answer]
      BY <1>2, <1>11
    <2> HIDE DEF answer
    <2>5. /\ tx' \in Transactions /\ tx'.number = tx.number /\ tx'.phase = "capturing"
          /\ tx'.todo = tx.todo \ {p} /\ tx'.result = tx.result
          /\ tx'.frozen[p] = answer
          /\ \A q \in Admitted \ {p} : tx'.frozen[q] = tx.frozen[q]
      <3> DEFINE frozen == [tx.frozen EXCEPT ![p] = answer]
      <3>1. tx.frozen \in [Admitted -> Replies]
        BY <1>1, TypesOfTx
      <3>2. /\ frozen \in [Admitted -> Replies] /\ frozen[p] = answer
            /\ \A q \in Admitted \ {p} : frozen[q] = tx.frozen[q]
        BY <1>3, <2>3, <3>1
      <3>3. tx' = [Onward(p) EXCEPT !.frozen = frozen]
        BY <1>1, <1>3, <2>4, OnwardFacts DEF Transactions
      <3> HIDE DEF frozen
      <3>4. QED
        BY <1>1, <1>3, <1>11, <3>2, <3>3, OnwardFacts DEF Transactions
    <2>6. FrozenIsCaptured' /\ FrozenIsFresh'
      BY <1>3, <1>6, <1>7, <1>11, <2>1, <2>2, <2>5, CaptureFreezes
    <2>7. TxTyped' /\ tx.number \in Nat
      <3>1. \A q \in Admitted : tx'.frozen[q].base \in 0..Len(objects)
        BY <1>1, <2>3, <2>5, TypesOfTx DEF TxTyped
      <3>2. QED
        BY <1>1, <1>2, <2>5, <3>1, TypesOfTx DEF TxTyped
    <2>8. Undecided
      BY <1>11 DEF Undecided
    <2>9. RequestsAreOld'
      BY <1>1, <1>2, <2>5, <2>7, <2>8, ChannelsStay, FewerRequests
    <2>10. CommitsAreKnown'
      BY <1>1, <1>2, <1>11, <2>5 DEF GroupInv, CommitsAreKnown, Revisions
    <2>11. FinishedAccepted'
      BY <2>5 DEF FinishedAccepted
    <2>12. QED
      BY <1>1, <1>2, <1>3, <1>6, <1>7, <1>8, <2>5, <2>6, <2>7, <2>9, <2>10, <2>11,
         ChannelsStay, TransactionKeeps
  <1>12. CASE answer.ok /\ tx.phase # "capturing"
    <2>1. tx' = Onward(p) /\ tx'.number = tx.number
      BY <1>1, <1>2, <1>3, <1>12, OnwardFacts
    <2>2. NotCommitting(p)
      BY <1>5, <1>12 DEF NotCommitting
    <2>3. tx.phase = "finishing" => OnLine(objects, tx.result, accepted'[p])
      <3>1. tx.result \in 0..Len(objects)
        BY <1>1, TypesOfTx DEF TxTyped
      <3>2. ASSUME tx.phase = "finishing" PROVE Finished(p, tx.number, tx.result)
        BY <1>4, <1>10, <1>12, <3>2 DEF ReplyTo, Refusal
      <3>3. QED
        BY <1>1, <1>5, <1>10, <1>12, <3>1, <3>2, OnOwnLine
    <2>4. tx.phase = "preparing" => accepted'[Controller] = accepted[Controller]
      BY <1>2, <1>5 DEF OwnStep, Runtimes
    <2>5. QED
      BY <1>2, <1>3, <1>6, <1>7, <1>8, <1>12, <2>1, <2>2, <2>3, <2>4, OnwardKeeps
  <1>13. QED
    BY <1>9, <1>11, <1>12

-----------------------------------------------------------------------------
(* The invariant holds *)

LEMMA InvStarts == ASSUME Init PROVE Inv
  <1>1. StoreInit /\ objects = <<>> /\ head = 0 /\ lease = None /\ intent = 0
    BY DEF Init, StoreInit
  <1>2. Revisions = {} /\ Len(objects) = 0 /\ 0 \in 0..Len(objects)
    BY <1>1 DEF Revisions
  <1>3. /\ MaxEdits \in Nat /\ MaxTransactions \in Nat
        /\ NoEdits \in Values /\ NoAnswers \in [Admitted -> Replies]
        /\ EditsIn(NoEdits) = {} /\ \A o \in Owners : NoEdits[o] = 0
    <2>1. MaxEdits \in Nat /\ MaxTransactions \in Nat
      BY ConfigurationAssumption
    <2>2. NoEdits \in Values
      BY <2>1 DEF NoEdits, Values
    <2>3. NoAnswers \in [Admitted -> Replies]
      BY <2>2 DEF NoAnswers, Refusal, Replies
    <2>4. QED
      BY <2>1, <2>2, <2>3, NothingPublishedYet DEF NoEdits
  <1>4. /\ \A r \in Runtimes : accepted[r] = 0 /\ staged[r] = NoEdits /\ uncertain[r] = 0
        /\ \A r \in Admitted : pending[r] = None
        /\ \A p \in Participants : channel[p].request = None
        /\ edits = 0 /\ unanimous = {}
    BY DEF Init, Healthy
  <1>5. /\ tx \in Transactions /\ tx.number = 0 /\ tx.phase = "idle" /\ tx.todo = {}
        /\ tx.frozen = NoAnswers /\ tx.result = 0 /\ tx.proposal = None /\ tx.captured = {}
    <2>1. tx = NoTx(0)
      BY DEF Init
    <2>2. QED
      BY <1>3, <2>1 DEF NoTx, Transactions, Phases
  <1>6. LinesInv
    BY <1>1, <1>2, StoreInvStarts DEF LinesInv, Prefixes
  <1>7. Shapes
    <2>1. TypeOK
      <3>1. StoreTypeOK
        BY <1>6 DEF LinesInv, StoreInv
      <3>2. /\ accepted \in [Runtimes -> 0..Len(objects)] /\ staged \in [Runtimes -> Values]
            /\ uncertain \in [Runtimes -> 0..Len(objects)] /\ reloading = {}
            /\ DOMAIN channel = Participants
        BY <1>2, <1>3 DEF Init
      <3>3. QED
        BY <1>3, <1>4, <1>5, <3>1, <3>2 DEF TypeOK, Phases
    <2>2. pending \in [Admitted -> Captures \cup {None}]
      BY DEF Init
    <2>3. channel \in [Participants -> Channels]
      BY DEF Init, Healthy, Channels
    <2>4. \A r \in Admitted : tx.frozen[r].base \in 0..Len(objects)
      BY <1>2, <1>5 DEF NoAnswers, Refusal
    <2>5. QED
      BY <1>2, <1>3, <1>4, <1>5, <2>1, <2>2, <2>3, <2>4 DEF Shapes
  <1>8. Published(objects, 0) = {}
    BY NothingPublishedYet
  <1>9. RuntimesInv
    <2>1. AcceptedOnLine /\ Numbered /\ Fresh
      BY <1>2, <1>3, <1>4 DEF AcceptedOnLine, Numbered, Fresh, OnLine
    <2>2. PublishedOnce /\ UncertainIsOwn /\ FlushIsOwn /\ CaptureIsOwn
      BY <1>1, <1>2, <1>4 DEF PublishedOnce, UncertainIsOwn, FlushIsOwn, CaptureIsOwn
    <2>3. QED
      BY <2>1, <2>2 DEF RuntimesInv
  <1>10. GroupInv
    BY <1>2, <1>4, <1>5 DEF GroupInv, FrozenIsCaptured, FrozenIsFresh, RequestsAreOld,
                            CommitsAreKnown, FinishedAccepted, Undecided
  <1>11. Surviving /\ Unanimous
    BY <1>4 DEF Surviving, Unanimous
  <1>12. QED
    BY <1>6, <1>7, <1>9, <1>10, <1>11 DEF Inv

LEMMA StutterKeepsInv ==
  ASSUME Inv, LinesInv', UNCHANGED vars PROVE Inv'
  <1>1. LinesInv /\ Shapes /\ RuntimesInv
    BY DEF Inv
  <1>2. UNCHANGED <<objects, head, lease, accepted, staged, uncertain, reloading, pending, tx,
                    channel, edits, dropped, unanimous>>
    BY DEF vars, storeVars
  <1>3. Controller \in Runtimes
    BY DEF Runtimes
  <1>4. Ordinary(Controller)
    BY <1>1, <1>2, <1>3, UnaffectedIsOrdinary DEF HeadMoves
  <1>5. /\ FlushIsOwn'
        /\ NewTransaction(Controller) /\ NotCommitting(Controller)
    BY <1>1, <1>2, <1>3, <1>4, TxKeepsFlush DEF SameCapture, NewTransaction, NotCommitting
  <1>6. tx.phase = "publishing" => lease' # None /\ lease'.who = Controller
    BY <1>1, <1>2, TypesOfTx DEF TxTyped
  <1>7. QED
    BY <1>1, <1>2, <1>3, <1>4, <1>5, <1>6, ChannelsStay, BesidesKeeps

LEMMA StepKeepsInv ==
  ASSUME Inv, [Next]_vars
  PROVE  /\ Inv'
         /\ [StoreNext]_storeVars
  <1>1. LinesInv /\ Shapes /\ CommitsAreKnown
    BY DEF Inv, GroupInv
  <1>2. [StoreNext]_storeVars
    BY <1>1, StepOfStore
  <1>3. LinesInv'
    BY <1>1, <1>2, LinesStep
  <1> SUFFICES Inv'
    BY <1>2
  <1>4. CASE UNCHANGED vars
    BY <1>3, <1>4, StutterKeepsInv
  <1>5. ASSUME NEW r \in Runtimes, RuntimeNext(r) PROVE Inv'
    <2>1. CASE \E o \in OwnersOf[r] : Stage(r, o)
      BY <1>3, <2>1, StageKeepsInv
    <2>2. CASE Poll(r) \/ Discard(r) \/ FlushReload(r)
      BY <1>3, <2>2, ReadingKeeps
    <2>3. CASE FlushSeal(r)
      BY <1>3, <2>3, FlushSealKeepsInv
    <2>4. CASE FlushRecover(r)
      BY <1>3, <2>4, FlushRecoverKeeps
    <2>5. CASE FlushAnnounce(r) \/ FlushPublish(r)
      BY <1>3, <2>5, FlushWritesKeep
    <2>6. CASE Restart(r)
      BY <1>3, <2>6, RestartKeeps
    <2>7. QED
      BY <1>5, <2>1, <2>2, <2>3, <2>4, <2>5, <2>6 DEF RuntimeNext
  <1>6. ASSUME NEW p \in Participants, ServeLate(p) \/ Reconnect(p) \/ OperatorCancels(p)
        PROVE  Inv'
    BY <1>3, <1>6, ServeLateKeeps, ReconnectKeeps, OperatorCancelsKeeps
  <1>7. CASE TxNext
    <2>1. CASE TxCommit
      BY <1>3, <2>1, TxCommitKeepsInv, TxRefusedCommitKeeps
    <2>2. CASE TxBegin
      BY <1>3, <2>2, TxBeginKeeps
    <2>3. CASE TxMerge
      BY <1>3, <2>3, TxMergeKeeps
    <2>4. CASE TxAnnounce \/ TxPublish
      BY <1>3, <2>4, TxAnnounceKeeps, TxPublishKeeps
    <2>5. CASE TxFinishLocal \/ TxAbortLocal \/ TxEnd
      BY <1>3, <2>5, TxFinishLocalKeeps, TxAbortLocalKeeps, TxEndKeeps
    <2>6. CASE \E p \in Participants : TxExchange(p) \/ TxLose(p) \/ TxUnreachable(p)
      BY <1>3, <2>6, TxExchangeKeeps, TxLoseKeeps, TxUnreachableKeeps
    <2>7. QED
      BY <1>7, <2>1, <2>2, <2>3, <2>4, <2>5, <2>6 DEF TxNext
  <1>8. CASE OperatorRecovers
    BY <1>3, <1>8, OperatorRecoversKeeps
  <1>9. QED
    BY <1>4, <1>5, <1>6, <1>7, <1>8 DEF Next

LEMMA InvHolds == Spec => []Inv
  <1>1. Init => Inv
    BY InvStarts
  <1>2. Inv /\ [Next]_vars => Inv'
    BY StepKeepsInv
  <1>3. QED
    BY <1>1, <1>2, PTL DEF Spec

-----------------------------------------------------------------------------
(* Theorems of live configuration *)

\* Live configuration keeps its types: what runtimes and the group refer to is
\* retained (ConfigurationRuntime, ConfigurationParticipant, ConfigurationGroup).
THEOREM LiveTypes == Spec => []TypeOK
  BY InvHolds, PTL DEF Inv, Shapes

\* Runtimes, group and operator use the store as it is meant to be used, so that
\* the theorems of the store hold of them.
THEOREM UsesTheStore == Spec => StoreSpec
  <1>1. Init => StoreInit
    BY DEF Init
  <1>2. Inv /\ [Next]_vars => [StoreNext]_storeVars
    BY StepKeepsInv
  <1>3. QED
    BY <1>1, <1>2, InvHolds, PTL DEF Spec, StoreSpec

\* With lost exchanges, restarts, operators and controllers that give up, an
\* announced revision is HEAD or continues HEAD, so that it can be recovered.
THEOREM LiveIntentLeads == Spec => []IntentLeadsHead
  BY UsesTheStore, IntentLeads, PTL

\* A staged edit stays staged until it is published on the line of HEAD or its
\* owner drops it (flush, finish and abort keep what was not captured).
THEOREM EditsAreKept == Spec => []EditsSurvive
  <1>1. ASSUME Inv PROVE EditsSurvive
    <2>1. Surviving
      BY <1>1 DEF Inv
    <2>2. ASSUME NEW n, n \in Published(objects, head)
          PROVE  \E x \in Range(LineOf(head)) : n \in objects[x].content.edits
      BY <2>2 DEF Published, LineIn, LineOf
    <2>3. QED
      BY <2>1, <2>2 DEF Surviving, EditsSurvive
  <1>2. QED
    BY <1>1, InvHolds, PTL

\* What flush_all returned with success is on the line of every runtime of the
\* group from then on (the finish phase reads every consent).
THEOREM SuccessWasUnanimous == Spec => []SuccessIsUnanimous
  <1>1. ASSUME Inv PROVE SuccessIsUnanimous
    BY <1>1 DEF Inv, Unanimous, OnLine, LineIn, LineOf, SuccessIsUnanimous
  <1>2. QED
    BY <1>1, InvHolds, PTL

-----------------------------------------------------------------------------
(* Live configuration implements the register *)

\* The edits of each revision of a line: EditsOf(LineOf(x)).
Carried(objs, x) ==
  [i \in DOMAIN LineIn(objs, x) |-> objs[LineIn(objs, x)[i]].content.edits]

LEMMA CarriedFacts ==
  ASSUME LinesInv, NEW x \in 0..Len(objects)
  PROVE  /\ Carried(objects, x) \in Seq(SUBSET Edits)
         /\ Len(Carried(objects, x)) = Len(LineIn(objects, x))
         /\ \A i \in 1..Len(Carried(objects, x)) :
              /\ Carried(objects, x)[i] = objects[LineIn(objects, x)[i]].content.edits
              /\ Carried(objects, x)[i] \subseteq Published(objects, x)
  <1> DEFINE line == LineIn(objects, x)
  <1>1. line \in Seq(Nat) /\ DOMAIN line = 1..Len(line) /\ Len(line) \in Nat
    BY LineFacts
  <1>2. ASSUME NEW i \in 1..Len(line)
        PROVE  /\ objects[line[i]].content.edits \in SUBSET Edits
               /\ objects[line[i]].content.edits \subseteq Published(objects, x)
    <2>1. line[i] \in Range(line)
      BY <1>1 DEF Range
    <2>2. line[i] \in Revisions /\ objects \in Seq(Object)
      BY <2>1, LineMembers DEF LinesInv, StoreInv, StoreTypeOK
    <2>3. objects[line[i]].content \in Contents
      BY <2>2, RevisionsAreNumbers DEF Object
    <2>4. QED
      BY <2>1, <2>3, ConfigurationAssumption DEF Published
  <1>3. Carried(objects, x) = [i \in 1..Len(line) |-> objects[line[i]].content.edits]
    BY <1>1 DEF Carried
  <1> HIDE DEF line
  <1>4. Carried(objects, x) \in Seq(SUBSET Edits) /\ Len(Carried(objects, x)) = Len(line)
    BY <1>1, <1>2, <1>3
  <1>5. QED
    BY <1>2, <1>3, <1>4 DEF line

\* A runtime that is on a line has seen a first part of it.
LEMMA CarriedPrefix ==
  ASSUME LinesInv, NEW x \in 0..Len(objects), NEW y \in 0..Len(objects), OnLine(objects, x, y)
  PROVE  /\ Carried(objects, x) \in
              {SubSeq(Carried(objects, y), 1, n) : n \in 0..Len(Carried(objects, y))}
         /\ Len(Carried(objects, x)) =< Len(Carried(objects, y))
  <1> DEFINE line == LineIn(objects, y)
             s == Carried(objects, y)
             t == Carried(objects, x)
  <1>1. /\ line \in Seq(Nat) /\ DOMAIN line = 1..Len(line) /\ Len(line) \in Nat
        /\ s \in Seq(SUBSET Edits) /\ Len(s) = Len(line)
        /\ t \in Seq(SUBSET Edits)
    BY LineFacts, CarriedFacts
  <1>2. PICK n \in 0..Len(line) : LineIn(objects, x) = SubSeq(line, 1, n)
    <2>1. CASE x = 0
      <3>1. LineIn(objects, x) = SubSeq(line, 1, 0)
        BY <1>1, <2>1 DEF LineIn
      <3>2. 0 \in 0..Len(line)
        BY <1>1
      <3>3. QED
        BY <3>1, <3>2
    <2>2. CASE x # 0
      <3>1. PICK i \in 1..Len(line) : x = line[i]
        BY <1>1, <2>2 DEF OnLine, Range
      <3>2. i \in 0..Len(line)
        BY <1>1, <3>1
      <3>3. LineIn(objects, x) = SubSeq(line, 1, i)
        BY <3>1, LineFacts
      <3>4. QED
        BY <3>2, <3>3
    <2>3. QED
      BY <2>1, <2>2
  <1>3. /\ Len(SubSeq(line, 1, n)) = n
        /\ \A i \in 1..n : SubSeq(line, 1, n)[i] = line[i]
    BY <1>1, <1>2
  <1>4. /\ Len(t) = n
        /\ \A i \in 1..n : t[i] = objects[line[i]].content.edits
    <2>1. /\ Len(t) = Len(LineIn(objects, x))
          /\ \A i \in 1..Len(t) : t[i] = objects[LineIn(objects, x)[i]].content.edits
      BY CarriedFacts
    <2> HIDE DEF t, line
    <2>2. QED
      BY <1>2, <1>3, <2>1
  <1>5. \A i \in 1..n : i \in 1..Len(s) /\ s[i] = objects[line[i]].content.edits
    BY <1>1, <1>2, CarriedFacts
  <1> HIDE DEF s, t, line
  <1>6. n \in Nat /\ n \in 0..Len(s) /\ n =< Len(s)
    BY <1>1, <1>2
  <1>7. t = SubSeq(s, 1, n)
    <2>1. /\ SubSeq(s, 1, n) \in Seq(SUBSET Edits) /\ Len(SubSeq(s, 1, n)) = n
          /\ \A i \in 1..n : SubSeq(s, 1, n)[i] = s[i]
      BY <1>1, <1>6
    <2> DEFINE u == SubSeq(s, 1, n)
    <2> HIDE DEF u
    <2>2. u \in Seq(SUBSET Edits) /\ Len(u) = n /\ \A i \in 1..n : u[i] = s[i]
      BY <2>1 DEF u
    <2>3. ASSUME NEW i \in 1..Len(t) PROVE t[i] = u[i]
      <3>1. i \in 1..n
        BY <1>4
      <3>2. t[i] = objects[line[i]].content.edits /\ s[i] = objects[line[i]].content.edits
        BY <1>4, <1>5, <3>1
      <3>3. QED
        BY <2>2, <3>1, <3>2
    <2>4. Len(t) = Len(u)
      BY <1>4, <2>2
    <2>5. t = u
      BY <1>1, <2>2, <2>3, <2>4, SeqEqual
    <2>6. QED
      BY <2>5 DEF u
  <1>8. QED
    BY <1>4, <1>6, <1>7 DEF s, t

LEMMA CarriedEndures ==
  ASSUME LinesInv, NEW objs, \A y \in Revisions : objs[y] = objects[y],
         NEW x \in 0..Len(objects)
  PROVE  Carried(objs, x) = Carried(objects, x)
  <1> DEFINE line == LineIn(objects, x)
  <1>1. LineIn(objs, x) = line
    BY LinesEndure
  <1>2. \A i \in DOMAIN line : objs[line[i]] = objects[line[i]]
    BY LineMembers DEF Range
  <1> HIDE DEF line
  <1>3. QED
    BY <1>1, <1>2 DEF Carried, line

LEMMA CarriedByChild ==
  ASSUME LinesInv, NEW x \in Revisions
  PROVE  Carried(objects, x) = Append(Carried(objects, Parent(x)), objects[x].content.edits)
  <1> DEFINE line == LineIn(objects, Parent(x))
             s == Carried(objects, Parent(x))
             t == Carried(objects, x)
             e == objects[x].content.edits
  <1>1. Parent(x) \in 0..Len(objects) /\ LineIn(objects, x) = Append(line, x)
    BY LineOfChild
  <1>2. x \in 0..Len(objects) /\ x \in Nat
    BY RevisionsAreNumbers DEF LinesInv, StoreInv, StoreTypeOK
  <1>3. /\ line \in Seq(Nat) /\ Len(line) \in Nat
        /\ s \in Seq(SUBSET Edits) /\ Len(s) = Len(line)
        /\ \A i \in 1..Len(line) : s[i] = objects[line[i]].content.edits
    BY <1>1, LineFacts, CarriedFacts
  <1>4. /\ Len(Append(line, x)) = Len(line) + 1
        /\ Append(line, x)[Len(line) + 1] = x
        /\ \A i \in 1..Len(line) : Append(line, x)[i] = line[i]
    BY <1>2, <1>3, AppendProperties
  <1>5. /\ t \in Seq(SUBSET Edits) /\ Len(t) = Len(line) + 1
        /\ \A i \in 1..(Len(line) + 1) : t[i] = objects[Append(line, x)[i]].content.edits
    <2>1. /\ t \in Seq(SUBSET Edits) /\ Len(t) = Len(LineIn(objects, x))
          /\ \A i \in 1..Len(t) : t[i] = objects[LineIn(objects, x)[i]].content.edits
      BY <1>2, CarriedFacts
    <2> HIDE DEF t, line
    <2>2. QED
      BY <1>1, <1>4, <2>1
  <1>6. e \in SUBSET Edits
    <2>1. t[Len(line) + 1] = e /\ Len(line) + 1 \in 1..Len(t)
      BY <1>3, <1>4, <1>5
    <2>2. QED
      BY <1>5, <2>1, ElementOfSeq
  <1> HIDE DEF line, s, t, e
  <1>7. /\ Append(s, e) \in Seq(SUBSET Edits) /\ Len(Append(s, e)) = Len(line) + 1
        /\ Append(s, e)[Len(line) + 1] = e
        /\ \A i \in 1..Len(line) : Append(s, e)[i] = s[i]
    BY <1>3, <1>6, AppendProperties
  <1>8. \A i \in 1..(Len(line) + 1) : t[i] = Append(s, e)[i]
    <2>1. t[Len(line) + 1] = e
      BY <1>3, <1>4, <1>5 DEF e
    <2>2. ASSUME NEW i \in 1..Len(line) PROVE t[i] = s[i]
      <3>1. i \in 1..(Len(line) + 1)
        BY <1>3
      <3>2. t[i] = objects[Append(line, x)[i]].content.edits
        BY <1>5, <3>1
      <3>3. QED
        BY <1>3, <1>4, <3>2
    <2>3. QED
      BY <1>3, <1>7, <2>1, <2>2
  <1>9. t = Append(s, e)
    BY <1>5, <1>7, <1>8, SeqEqual
  <1>10. QED
    BY <1>9 DEF s, t, e

\* A runtime that reads, reads HEAD.
ReadsHead == accepted' = accepted \/ \E r \in Runtimes : accepted' = [accepted EXCEPT ![r] = head]

LEMMA HandlersReadHead ==
  ASSUME NEW r \in Runtimes,
         \/ Reloaded(r)
         \/ \E t : Capture(r, t) \/ Finish(r, t) \/ Abort(r, t)
         \/ \E q : Serve(r, q)
  PROVE  ReadsHead
  <1>1. ASSUME Reloaded(r) PROVE ReadsHead
    BY <1>1 DEF Reloaded, ReadsHead
  <1>2. ASSUME NEW t, Capture(r, t) PROVE ReadsHead
    BY <1>1, <1>2 DEF Capture, ReadsHead
  <1>3. ASSUME NEW t, Finish(r, t) PROVE ReadsHead
    BY <1>1, <1>3 DEF Finish, ReadsHead
  <1>4. ASSUME NEW t, Abort(r, t) PROVE ReadsHead
    BY <1>4 DEF Abort, ReadsHead
  <1>5. ASSUME NEW q, Serve(r, q) PROVE ReadsHead
    <2>1. CASE accepted' = accepted
      BY <2>1 DEF ReadsHead
    <2>2. CASE accepted' # accepted
      <3>1. Handle(r, q) /\ accepted' # accepted
        BY <1>5, <2>2 DEF Serve
      <3>2. Capture(r, q.transaction) \/ Finish(r, q.transaction) \/ Abort(r, q.transaction)
        BY <3>1 DEF Handle, Prepare
      <3>3. QED
        BY <1>2, <1>3, <1>4, <3>2
    <2>3. QED
      BY <2>1, <2>2
  <1>6. QED
    BY <1>1, <1>2, <1>3, <1>4, <1>5

\* HEAD stays and runtimes read it, or HEAD moves on and no runtime moves.
LEMMA StepsReadOrPublish ==
  ASSUME Inv, [Next]_vars
  PROVE  \/ head' = head /\ ReadsHead
         \/ UNCHANGED <<objects, accepted>> /\ HeadMoves
  <1>1. LinesInv
    BY DEF Inv
  <1>2. ASSUME NEW w, Publish(w) \/ PublishFails(w), UNCHANGED accepted
        PROVE  UNCHANGED <<objects, accepted>> /\ HeadMoves
    BY <1>1, <1>2, PublishingMoves DEF Publish, PublishFails, Holds
  <1>3. CASE UNCHANGED vars
    BY <1>3 DEF vars, storeVars, ReadsHead
  <1>4. ASSUME NEW r \in Runtimes, RuntimeNext(r)
        PROVE  \/ head' = head /\ ReadsHead
               \/ UNCHANGED <<objects, accepted>> /\ HeadMoves
    <2>1. CASE \E o \in OwnersOf[r] : Stage(r, o)
      BY <2>1 DEF Stage, storeVars, ReadsHead
    <2>2. CASE Poll(r) \/ FlushReload(r)
      BY <2>2, HandlersReadHead DEF Poll, FlushReload, storeVars
    <2>3. CASE Discard(r)
      BY <2>3 DEF Discard, storeVars, ReadsHead
    <2>4. CASE FlushSeal(r) \/ FlushRecover(r) \/ FlushAnnounce(r)
      BY <2>4 DEF FlushSeal, FlushRecover, FlushAnnounce, RuntimeUnchanged, Seal, SealFails,
                  TakeRecovery, Announce, AnnounceFails, ReadsHead
    <2>5. CASE FlushPublish(r)
      BY <1>2, <2>5 DEF FlushPublish, RuntimeUnchanged
    <2>6. CASE Restart(r)
      BY <2>6 DEF Restart, DropLease, ReadsHead
    <2>7. QED
      BY <1>4, <2>1, <2>2, <2>3, <2>4, <2>5, <2>6 DEF RuntimeNext
  <1>5. ASSUME NEW p \in Participants, ServeLate(p) \/ Reconnect(p) \/ OperatorCancels(p)
        PROVE  head' = head /\ ReadsHead
    <2>1. p \in Runtimes
      BY DEF Runtimes
    <2>2. CASE ServeLate(p) \/ OperatorCancels(p)
      BY <2>1, <2>2, HandlersReadHead DEF ServeLate, OperatorCancels, TxUnchanged, storeVars
    <2>3. CASE Reconnect(p)
      BY <2>3 DEF Reconnect, storeVars, ReadsHead
    <2>4. QED
      BY <1>5, <2>2, <2>3
  <1>6. CASE TxNext
    <2> Controller \in Runtimes
      BY DEF Runtimes
    <2>1. CASE TxBegin \/ TxFinishLocal \/ TxAbortLocal
      BY <2>1, HandlersReadHead DEF TxBegin, TxFinishLocal, TxAbortLocal, TxUnchanged, storeVars
    <2>2. CASE TxMerge
      BY <2>2 DEF TxMerge, Prepare, runtimeVars, storeVars, ReadsHead
    <2>3. CASE TxCommit \/ TxAnnounce \/ TxEnd
      BY <2>3 DEF TxCommit, TxAnnounce, TxEnd, runtimeVars, storeVars, Seal, SealFails,
                  Announce, AnnounceFails, ReadsHead
    <2>4. CASE TxPublish
      BY <1>2, <2>4 DEF TxPublish, runtimeVars
    <2>5. ASSUME NEW p \in Participants, TxExchange(p) \/ TxLose(p) \/ TxUnreachable(p)
          PROVE  head' = head /\ ReadsHead
      <3>1. p \in Runtimes
        BY DEF Runtimes
      <3>2. CASE TxExchange(p)
        BY <3>1, <3>2, HandlersReadHead DEF TxExchange, TxUnchanged, storeVars
      <3>3. CASE TxLose(p) \/ TxUnreachable(p)
        BY <3>3 DEF TxLose, TxUnreachable, TxUnchanged, runtimeVars, storeVars, ReadsHead
      <3>4. QED
        BY <2>5, <3>2, <3>3
    <2>6. QED
      BY <1>6, <2>1, <2>2, <2>3, <2>4, <2>5 DEF TxNext
  <1>7. CASE OperatorRecovers
    <2>1. UNCHANGED accepted
      BY <1>7 DEF OperatorRecovers, runtimeVars
    <2>2. CASE Publish(Operator) \/ PublishFails(Operator)
      BY <1>2, <2>1, <2>2
    <2>3. CASE ~(Publish(Operator) \/ PublishFails(Operator))
      BY <1>7, <2>1, <2>3 DEF OperatorRecovers, TakeRecovery, Announce, AnnounceFails, ReadsHead
    <2>4. QED
      BY <2>2, <2>3
  <1>8. QED
    BY <1>3, <1>4, <1>5, <1>6, <1>7 DEF Next

\* Every step is a step of the register, or none.
LEMMA RegisterStep ==
  ASSUME Inv, Inv', [Next]_vars
  PROVE  [Register!Accept \/ Register!Publish]_<<EditsOf(LineOf(head)),
            [r \in Runtimes |-> EditsOf(LineOf(accepted[r]))]>>
  <1> DEFINE line == EditsOf(LineOf(head))
             view == [r \in Runtimes |-> EditsOf(LineOf(accepted[r]))]
  <1>1. /\ LinesInv /\ LinesInv' /\ RuntimesInv /\ RuntimesInv' /\ Shapes /\ Shapes'
        /\ \A x \in Revisions : objects'[x] = objects[x]
    BY StepKeepsInv, LinesStep DEF Inv
  <1>2. /\ head \in 0..Len(objects) /\ accepted \in [Runtimes -> 0..Len(objects)]
        /\ head' \in 0..Len(objects') /\ accepted' \in [Runtimes -> 0..Len(objects')]
    BY <1>1 DEF Shapes, TypeOK, StoreTypeOK
  <1>3. \A x \in 0..Len(objects) : Carried(objects', x) = Carried(objects, x)
    BY <1>1, CarriedEndures
  <1>4. line = Carried(objects, head) /\ view = [r \in Runtimes |-> Carried(objects, accepted[r])]
    BY DEF EditsOf, LineOf, Carried, LineIn
  <1>5. line' = Carried(objects', head') /\ view' = [r \in Runtimes |-> Carried(objects', accepted'[r])]
    BY DEF EditsOf, LineOf, Carried, LineIn
  <1> HIDE DEF line, view
  <1>6. CASE head' = head /\ ReadsHead
    <2>1. line' = line
      BY <1>2, <1>3, <1>4, <1>5, <1>6
    <2>2. ASSUME NEW r \in Runtimes
          PROVE  /\ view'[r] \in {SubSeq(line, 1, n) : n \in 0..Len(line)}
                 /\ Len(view[r]) =< Len(view'[r])
      <3>1. accepted'[r] \in {accepted[r], head} /\ accepted[r] \in 0..Len(objects)
        BY <1>2, <1>6 DEF ReadsHead
      <3>2. OnLine(objects, accepted[r], head) /\ OnLine(objects, head, head)
        BY <1>1, <1>2, OnOwnLine DEF RuntimesInv, AcceptedOnLine
      <3>3. OnLine(objects, accepted[r], accepted'[r]) /\ OnLine(objects, accepted'[r], head)
        BY <1>1, <3>1, <3>2, OnOwnLine
      <3>4. accepted'[r] \in 0..Len(objects)
        BY <1>2, <3>1
      <3>5. /\ Carried(objects, accepted'[r]) \in
                 {SubSeq(Carried(objects, head), 1, n) : n \in 0..Len(Carried(objects, head))}
            /\ Len(Carried(objects, accepted[r])) =< Len(Carried(objects, accepted'[r]))
        BY <1>1, <1>2, <3>1, <3>3, <3>4, CarriedPrefix
      <3>6. view[r] = Carried(objects, accepted[r]) /\ view'[r] = Carried(objects, accepted'[r])
        BY <1>3, <1>4, <1>5, <3>4
      <3>7. QED
        BY <1>4, <3>5, <3>6
    <2>3. view' \in [Runtimes -> {SubSeq(line, 1, n) : n \in 0..Len(line)}]
      BY <1>5, <2>2
    <2>4. Register!Accept
      BY <2>1, <2>2, <2>3 DEF Register!Accept, line, view
    <2>5. QED
      BY <2>4
  <1>7. CASE UNCHANGED <<objects, accepted>> /\ HeadMoves /\ head' # head
    <2> DEFINE e == objects[head'].content.edits
    <2>1. PICK x \in Revisions : x = head' /\ Parent(x) = head
      BY <1>7 DEF HeadMoves
    <2>2. e \in SUBSET Edits
      <3>1. objects[x] \in Object
        BY <1>1 DEF LinesInv, StoreInv, StoreTypeOK, Revisions
      <3>2. QED
        BY <2>1, <3>1, ConfigurationAssumption DEF Object
    <2>3. line' = Append(line, e)
      BY <1>1, <1>4, <1>5, <1>7, <2>1, CarriedByChild
    <2>4. \A i \in DOMAIN line : line[i] \cap e = {}
      <3>1. e \cap Published(objects, head) = {}
        BY <1>1, <2>1 DEF RuntimesInv, PublishedOnce
      <3>2. /\ DOMAIN line = 1..Len(line)
            /\ \A i \in 1..Len(line) : line[i] \subseteq Published(objects, head)
        BY <1>1, <1>2, <1>4, CarriedFacts
      <3>3. QED
        BY <3>1, <3>2
    <2>5. view' = view
      BY <1>4, <1>5, <1>7
    <2> HIDE DEF e
    <2>6. Register!Publish
      BY <2>2, <2>3, <2>4, <2>5 DEF Register!Publish, line, view
    <2>7. QED
      BY <2>6
  <1>8. CASE UNCHANGED <<objects, accepted, head>>
    BY <1>4, <1>5, <1>8 DEF line, view
  <1>9. QED
    BY <1>6, <1>7, <1>8, StepsReadOrPublish

\* All runtimes together are one register: one line of revisions whose edits no
\* earlier one carried, and readers that never leave it or go back (the checks
\* of commit, the recovery of uncertain publications, the group's proposal).
THEOREM LiveImplementsRegister == Spec => ImplementsRegister
  <1>1. Init => Register!Init
    BY DEF Init, StoreInit, Register!Init, EditsOf, LineOf
  <1>2. Inv /\ Inv' /\ [Next]_vars =>
          [Register!Accept \/ Register!Publish]_<<EditsOf(LineOf(head)),
            [r \in Runtimes |-> EditsOf(LineOf(accepted[r]))]>>
    BY RegisterStep
  <1>3. QED
    BY <1>1, <1>2, InvHolds, PTL DEF Spec, ImplementsRegister, Register!Spec
=============================================================================
