-------------------------- MODULE OperationLedger --------------------------
(***************************************************************************)
(* What a journal promises, without records, processes or files, of the    *)
(* operations that later ones wait for (all but the control methods status *)
(* and cancel): each is absent, then open, then settled for good, and no   *)
(* two are open together.  A step may cover several appends, since one     *)
(* directory flush makes all earlier renames durable.                      *)
(***************************************************************************)
CONSTANTS Operations, Outcomes

VARIABLE ledger

Final == Outcomes \ {"uncertain"}

Init == ledger = [o \in Operations |-> "absent"]

OpenIn(l) == {o \in Operations : l[o] = "open"}

Advance ==
  /\ ledger' \in [Operations -> {"absent", "open"} \cup Final]
  /\ \A o \in Operations :
       /\ ledger[o] \in Final => ledger'[o] = ledger[o]
       /\ ledger[o] = "open" => ledger'[o] # "absent"
  /\ \A o, p \in OpenIn(ledger') : o = p

Spec == Init /\ [][Advance]_ledger
=============================================================================
