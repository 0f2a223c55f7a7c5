------------------------- MODULE MCLiveConfiguration -------------------------
(* A controller and a participant of one group beside a plain runtime. *)
EXTENDS LiveConfiguration

CONSTANTS controller, participant, plain, operator, x, y

MCWriters == Plain \cup {controller, operator}

MCContents ==
  [values : Values, edits : SUBSET Edits, operation : 0..MaxTransactions]

MCOwnersOf ==
  [r \in Runtimes |-> IF r = plain THEN {y} ELSE IF r = participant THEN {x}
                      ELSE {x, y}]
=============================================================================
