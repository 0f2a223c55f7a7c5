------------------------ MODULE ConfigurationRegister ------------------------
(***************************************************************************)
(* What live configuration promises its owners, without leases, intents,   *)
(* transactions or messages: one line of revisions, each carrying edits    *)
(* that no earlier one carried, and readers that follow this line and      *)
(* never leave it or go back.                                              *)
(***************************************************************************)
EXTENDS Naturals, Sequences

CONSTANTS Readers, Edits

VARIABLES
  line,  \* the edits of each published revision
  view   \* the part of the line each reader has accepted

Init == line = <<>> /\ view = [r \in Readers |-> <<>>]

\* Readers catch up, each as far as it likes.
Accept ==
  /\ UNCHANGED line
  /\ view' \in [Readers -> {SubSeq(line, 1, n) : n \in 0..Len(line)}]
  /\ \A r \in Readers : Len(view[r]) =< Len(view'[r])

Publish ==
  \E e \in SUBSET Edits :
    /\ \A i \in DOMAIN line : line[i] \cap e = {}
    /\ line' = Append(line, e)
    /\ UNCHANGED view

Spec == Init /\ [][Accept \/ Publish]_<<line, view>>
=============================================================================
