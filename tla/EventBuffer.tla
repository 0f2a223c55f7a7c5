----------------------------- MODULE EventBuffer -----------------------------
(***************************************************************************)
(* The retained events of one run (ls/core/agent): a single writer keeps   *)
(* the newest views of the run's output in one private file, readers page  *)
(* through them from a cursor, either in the file or, over owner control,  *)
(* in the writer's last acknowledged snapshot; the display of new views    *)
(* can be paused.                                                          *)
(*                                                                         *)
(* Sources: event_buffer.py, event_delivery.py, the delivery in            *)
(* output_views.py and run_cli.py, and container_storage.write_private_file *)
(* of ls/core/openpgp.                                                     *)
(*                                                                         *)
(* Abstracted: a text stands for a filtered view with its metadata; bytes  *)
(* and lines are one size; how many events fit the byte limit of a page is *)
(* arbitrary.  Nobody else writes the private file.                        *)
(***************************************************************************)
EXTENDS Naturals, Sequences, SequencesExt

CONSTANTS
  Texts,
  Size,             \* of each text
  MaxEvents,        \* events kept (max_events)
  MaxSize,          \* size kept (max_bytes, max_lines)
  MaxTotal,         \* size ever accepted (MAX_TOTAL), which bounds the run
  Readers,
  PageLimit,        \* events of one page
  Absent

ASSUME BufferAssumption ==
  /\ Size \in [Texts -> Nat \ {0}]
  /\ MaxEvents \in Nat \ {0} /\ MaxSize \in Nat \ {0} /\ MaxTotal \in Nat
  /\ PageLimit \in Nat \ {0}

VARIABLES
  disk,       \* the snapshot in events.json, or Absent
  durable,    \* the snapshot that a loss of power leaves
  writer,     \* "new", "claimed" (its directory), "open" or "gone"
  raw,        \* EventBuffer.raw: the last acknowledged snapshot
  failed,     \* EventBuffer.failed
  building,   \* the snapshot being published, or Absent
  view,       \* the event whose view goes to the display next, or Absent
  paused,     \* Delivery.paused
  reader,     \* of each reader: cursor, events seen, numbers told missing
  published,  \* history: what was first published under each number
  given       \* history: events displayed, or read over owner control

bufferVars == <<disk, durable, writer, raw, failed, building, view, paused, reader,
                published, given>>

Event == [sequence : Nat \ {0}, text : Texts]
Snapshot == [last : Nat, total : Nat, events : Seq(Event)]
Empty == [last |-> 0, total |-> 0, events |-> <<>>]
\* An absent snapshot or view is none of those there can be.
ASSUME AbsentAssumption == Absent \notin Snapshot \cup Event

Cursor == [after : Nat, seen : SUBSET Event, missed : SUBSET (Nat \ {0})]

BufferInit ==
  /\ disk = Absent /\ durable = Absent
  /\ writer = "new"
  /\ raw = Absent
  /\ failed = FALSE
  /\ building = Absent
  /\ view = Absent
  /\ paused = FALSE
  /\ reader = [r \in Readers |-> [after |-> 0, seen |-> {}, missed |-> {}]]
  /\ published = <<>>
  /\ given = {}

-----------------------------------------------------------------------------
(* The writer *)

\* The directory of the run, which may not exist yet: a run has one writer.
Claim ==
  /\ writer = "new"
  /\ writer' = "claimed"
  /\ UNCHANGED <<disk, durable, raw, failed, building, view, paused, reader,
                 published, given>>

\* The empty snapshot is written and the buffer is bound.
Open ==
  /\ writer = "claimed"
  /\ writer' = "open"
  /\ disk' = Empty /\ durable' = Empty /\ raw' = Empty
  /\ UNCHANGED <<failed, building, view, paused, reader, published, given>>

SizeOf(events) == FoldLeft(LAMBDA n, e : n + Size[e.text], 0, events)

Fits(events) == Len(events) =< MaxEvents /\ SizeOf(events) =< MaxSize

\* The oldest events leave until the rest fits.
Evicted(events) ==
  LET keep == CHOOSE i \in 1..Len(events) :
                /\ Fits(SubSeq(events, i, Len(events)))
                /\ \A j \in 1..(i - 1) : ~Fits(SubSeq(events, j, Len(events)))
  IN  SubSeq(events, keep, Len(events))

\* Variant with a fault: numbers are counted from the events that are left.
NextRetained(s) == Len(s.events) + 1

NextSequence(s) == s.last + 1

WithEvent(s, t) ==
  LET n == NextSequence(s)
  IN  [last   |-> n,
       total  |-> s.total + Size[t],
       events |-> Evicted(Append(s.events, [sequence |-> n, text |-> t]))]

\* append up to the publication; a text that cannot be kept is refused before
\* anything changes.  The writer counts as failed until it is acknowledged.
BeginAppend(t) ==
  /\ writer = "open" /\ building = Absent /\ view = Absent
  /\ ~failed
  /\ raw.total + Size[t] =< MaxTotal /\ Size[t] =< MaxSize
  /\ disk = raw
  /\ building' = WithEvent(raw, t)
  /\ failed' = TRUE
  /\ UNCHANGED <<disk, durable, writer, raw, view, paused, reader, published, given>>

NewestOf(s) == s.events[Len(s.events)]

\* os.replace: the file changes for every reader.
Replace ==
  /\ building # Absent /\ disk # building
  /\ disk' = building
  /\ published' = IF building.last = Len(published) + 1
                    THEN Append(published, NewestOf(building).text) ELSE published
  /\ UNCHANGED <<durable, writer, raw, failed, building, view, paused, reader, given>>

\* Variant with a fault: the directory is not flushed.
AcknowledgeVisible ==
  /\ building # Absent /\ disk = building
  /\ raw' = building
  /\ failed' = FALSE
  /\ building' = Absent
  /\ view' = NewestOf(building)
  /\ UNCHANGED <<disk, durable, writer, paused, reader, published, given>>

\* The directory is flushed and append returns.
Acknowledge ==
  /\ building # Absent /\ disk = building
  /\ durable' = disk
  /\ raw' = building
  /\ failed' = FALSE
  /\ building' = Absent
  /\ view' = NewestOf(building)
  /\ UNCHANGED <<disk, writer, paused, reader, published, given>>

\* The publication raises, before the file is replaced or after.
PublicationFails ==
  /\ building # Absent
  /\ building' = Absent
  /\ UNCHANGED <<disk, durable, writer, raw, failed, view, paused, reader,
                 published, given>>

\* progress: the retained view is displayed unless delivery is paused; the
\* check at the end of append may also have raised.
Display ==
  /\ view # Absent
  /\ view' = Absent
  /\ \/ ~paused /\ given' = given \cup {view}
     \/ UNCHANGED given
  /\ UNCHANGED <<disk, durable, writer, raw, failed, building, paused, reader,
                 published>>

\* events.pause and events.resume.
SwitchDelivery ==
  /\ writer # "gone"
  /\ paused' = ~paused
  /\ UNCHANGED <<disk, durable, writer, raw, failed, building, view, reader,
                 published, given>>

-----------------------------------------------------------------------------
(* Readers: page *)

\* A cursor beyond the snapshot is refused; numbers before the first retained
\* event are reported as a gap; of what follows the cursor, one number after the
\* other as _snapshot demands, at most PageLimit events are returned, and fewer
\* when the next one does not fit.
Read(r, s) ==
  LET after  == reader[r].after
      first  == s.last - Len(s.events) + 1
      cursor == IF after < first - 1 THEN first - 1 ELSE after
  IN  /\ after =< s.last
      /\ \E n \in 0..PageLimit :
           /\ cursor + n =< s.last
           /\ reader' = [reader EXCEPT ![r] =
                [after  |-> cursor + n,
                 seen   |-> @.seen \cup {e \in Range(s.events) :
                                          e.sequence \in (cursor + 1)..(cursor + n)},
                 missed |-> @.missed \cup ((after + 1)..(first - 1))]]

\* lscli events reads the file, at any time, also after the run.
ReadFile(r) ==
  /\ disk # Absent
  /\ Read(r, disk)
  /\ UNCHANGED <<disk, durable, writer, raw, failed, building, view, paused,
                 published, given>>

\* events.read of the owner control: it never waits for the writer.
ReadLive(r) ==
  /\ writer = "open"
  /\ Read(r, raw)
  /\ given' = given \cup (reader'[r].seen \ reader[r].seen)
  /\ UNCHANGED <<disk, durable, writer, raw, failed, building, view, paused, published>>

-----------------------------------------------------------------------------
(* Failure *)

\* The run ends or dies; no later run opens the same buffer.
End ==
  /\ writer # "gone"
  /\ writer' = "gone"
  /\ raw' = Absent /\ building' = Absent /\ view' = Absent
  /\ UNCHANGED <<disk, durable, failed, paused, reader, published, given>>

\* A loss of power may undo a replacement that was not flushed.
PowerLoss ==
  /\ writer' = "gone"
  /\ raw' = Absent /\ building' = Absent /\ view' = Absent
  /\ disk' \in {disk, durable} /\ durable' = disk'
  /\ UNCHANGED <<failed, paused, reader, published, given>>

BufferNext ==
  \/ Claim \/ Open
  \/ \E t \in Texts : BeginAppend(t)
  \/ Replace \/ Acknowledge \/ PublicationFails \/ Display \/ SwitchDelivery
  \/ \E r \in Readers : ReadFile(r) \/ ReadLive(r)
  \/ End \/ PowerLoss

BufferSpec == BufferInit /\ [][BufferNext]_bufferVars

-----------------------------------------------------------------------------
(* Properties *)

BufferTypeOK ==
  /\ {disk, durable, raw, building} \subseteq Snapshot \cup {Absent}
  /\ writer \in {"new", "claimed", "open", "gone"}
  /\ failed \in BOOLEAN /\ paused \in BOOLEAN
  /\ view \in Event \cup {Absent}
  /\ reader \in [Readers -> Cursor]
  /\ published \in Seq(Texts)
  /\ given \subseteq Event
  /\ \A s \in {disk, durable, raw, building} \ {Absent} :
       Fits(s.events) /\ s.total =< MaxTotal

\* Whatever fails to be published, is evicted or lost, a reader has accounted
\* for every number up to its cursor, by an event or by a reported gap, and
\* all readers see the same event under a number, in the file and live.
ReadersAccountForAll ==
  \A r \in Readers :
    LET c == reader[r]
        numbers == {e.sequence : e \in c.seen}
    IN  /\ numbers \cup c.missed = 1..c.after
        /\ numbers \cap c.missed = {}
        /\ \A e \in c.seen :
             e.sequence =< Len(published) /\ published[e.sequence] = e.text

\* What was displayed, or read over owner control, is in the file for good: a
\* loss of power takes back only what a reader of the file may have seen early.
GivenIsDurable ==
  \A e \in given :
    /\ durable # Absent /\ e.sequence =< durable.last
    /\ \A i \in DOMAIN durable.events :
         durable.events[i].sequence = e.sequence => durable.events[i] = e
=============================================================================
