-------------------------- MODULE ConfigurationStore --------------------------
(***************************************************************************)
(* The store of signed configuration revisions: class ConfigurationStore   *)
(* of ls/core/live_configuration.py.  A revision is an immutable object    *)
(* that names its predecessor; HEAD names the current one; an intent names *)
(* the one being published.  Writers hold one exclusive lease and write    *)
(* the object, the intent and HEAD in this order.  Any of these writes may *)
(* fail with or without an effect, and a writer may die between them.      *)
(*                                                                         *)
(* Abstracted: the digest of a revision is its place in the order of       *)
(* sealing (sealing is randomized, so no two digests agree), 0 stands for  *)
(* no revision, and the chain of predecessors load walks is the sequence   *)
(* "past".  Signatures and recipients are not modelled: objects are        *)
(* authentic or missing.                                                   *)
(***************************************************************************)
EXTENDS Naturals, Sequences

CONSTANTS
  Writers,       \* who may hold the lease
  Contents,      \* owner values, edits and provenance of a revision
  MaxRevisions,  \* bound of retained objects (1024)
  None           \* nobody

ASSUME StoreAssumption == MaxRevisions \in Nat /\ None \notin Writers

VARIABLES
  objects,  \* revisions in the order of sealing
  intent,   \* the revision whose publication was announced last
  head,     \* HEAD
  lease     \* None, or who writes which revision and what comes next

storeVars == <<objects, intent, head, lease>>

Revisions == DOMAIN objects

Object == [past : Seq(Nat), content : Contents, stored : BOOLEAN]

Lease == [who : Writers, candidate : Nat, next : {"intent", "head"}]

StoreInit == objects = <<>> /\ intent = 0 /\ head = 0 /\ lease = None

\* A revision and its predecessors, oldest first.
LineOf(x) == IF x = 0 THEN <<>> ELSE Append(objects[x].past, x)

Parent(x) ==
  LET past == objects[x].past IN IF past = <<>> THEN 0 ELSE past[Len(past)]

-----------------------------------------------------------------------------
(* commit *)

\* The announced revision, if any, is the current one.
IntentSettled == intent = 0 \/ intent = head

MayCommit(expected) == lease = None /\ IntentSettled /\ expected = head

Sealed(content, stored) ==
  Append(objects, [past |-> LineOf(head), content |-> content, stored |-> stored])

\* The lease is taken, the expected revision compared, the object written.
Seal(w, expected, content) ==
  /\ MayCommit(expected) /\ Len(objects) < MaxRevisions
  /\ objects' = Sealed(content, TRUE)
  /\ lease' = [who |-> w, candidate |-> Len(objects'), next |-> "intent"]
  /\ UNCHANGED <<intent, head>>

\* Writing or re-reading the object fails: the outcome is uncertain.
SealFails(w, expected, content) ==
  /\ MayCommit(expected) /\ Len(objects) < MaxRevisions
  /\ \E stored \in BOOLEAN : objects' = Sealed(content, stored)
  /\ UNCHANGED <<intent, head, lease>>

-----------------------------------------------------------------------------
(* recover *)

\* Variant with a fault: any retained object may be recovered.
RecoverableAny(x) == x \in Revisions /\ objects[x].stored

\* The exact candidate is current or follows the current revision, and no
\* other publication is unresolved.
Recoverable(x) ==
  /\ x \in Revisions /\ objects[x].stored
  /\ intent \in {0, head, x}
  /\ head \in {x, Parent(x)}

TakeRecovery(w, x) ==
  /\ lease = None /\ Recoverable(x)
  /\ lease' = [who |-> w, candidate |-> x, next |-> "intent"]
  /\ UNCHANGED <<objects, intent, head>>

-----------------------------------------------------------------------------
(* The writes both share, and their failures *)

Holds(w, next) == lease # None /\ lease.who = w /\ lease.next = next

Announce(w) ==
  /\ Holds(w, "intent")
  /\ intent' = lease.candidate
  /\ lease' = [lease EXCEPT !.next = "head"]
  /\ UNCHANGED <<objects, head>>

AnnounceFails(w) ==
  /\ Holds(w, "intent")
  /\ intent' \in {intent, lease.candidate}
  /\ lease' = None
  /\ UNCHANGED <<objects, head>>

\* _publish; a candidate that is already current is only observed.
Publish(w) ==
  /\ Holds(w, "head")
  /\ head' = lease.candidate
  /\ lease' = None
  /\ UNCHANGED <<objects, intent>>

PublishFails(w) ==
  /\ Holds(w, "head")
  /\ head' \in {head, lease.candidate}
  /\ lease' = None
  /\ UNCHANGED <<objects, intent>>

\* The writer dies; the kernel drops its lease.
DropLease(w) ==
  /\ lease' = IF lease # None /\ lease.who = w THEN None ELSE lease
  /\ UNCHANGED <<objects, intent, head>>

StoreNext ==
  \E w \in Writers :
    \/ \E c \in Contents, e \in 0..Len(objects) : Seal(w, e, c) \/ SealFails(w, e, c)
    \/ \E x \in Revisions : TakeRecovery(w, x)
    \/ Announce(w) \/ AnnounceFails(w)
    \/ Publish(w) \/ PublishFails(w)
    \/ DropLease(w)

StoreSpec == StoreInit /\ [][StoreNext]_storeVars

-----------------------------------------------------------------------------
(* Properties *)

StoreTypeOK ==
  /\ objects \in Seq(Object)
  /\ intent \in 0..Len(objects)
  /\ head \in 0..Len(objects)
  /\ \/ lease = None
     \/ lease \in Lease /\ lease.candidate \in Revisions

\* What HEAD may become is decided before it is written: an announced revision
\* is the current one or its immediate successor, whoever died or failed.
IntentLeadsHead == intent # 0 => head \in {intent, Parent(intent)}

\* Between the announcement of a revision and its publication no other revision
\* is published, announced or even sealed.
IntentBinds ==
  [][intent \notin {0, head} =>
       /\ head' \in {head, intent}
       /\ intent' = intent
       /\ objects' = objects]_storeVars

\* The history readers follow only grows, one revision at a time, and no
\* revision of it is ever rewritten.
LineGrows ==
  [][LineOf(head)' # LineOf(head) =>
       /\ LineOf(head)' = Append(LineOf(head), head')
       /\ \A x \in Revisions : objects'[x] = objects[x]]_storeVars
=============================================================================
