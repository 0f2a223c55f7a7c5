------------------------ MODULE MCHeartbeatAccounting ------------------------
(* A task of at most three attempts, the second of which compacts first. *)
EXTENDS HeartbeatAccounting, TLC

CONSTANTS o1, o2, o3, first, second, altered, third

Table ==
  first :> [operation |-> o1, run |-> [requests |-> 2, tokens |-> 2], compact |-> None]
  @@ second :> [operation |-> o2, run |-> [requests |-> 1, tokens |-> 1],
                compact |-> [tokens |-> 2]]
  @@ altered :> [operation |-> o2, run |-> [requests |-> 1, tokens |-> 1], compact |-> None]
  @@ third :> [operation |-> o3, run |-> [requests |-> 1, tokens |-> 2], compact |-> None]

MCPlan == [a \in Actions |-> Table[a]]

\* The second attempt waits for an authorization, as either of two actions.
MCGranted == [o \in Operations |-> IF o = o1 THEN first
                                  ELSE IF o = o3 THEN third ELSE None]

\* Three attempts fit exactly, unless one of them compacts first.
MCBudget == [attempts |-> 3, requests |-> 4, tokens |-> 5, compactions |-> 1]

\* Bound: dispatchers compete until the second reservation; later attempts are
\* dispatched one at a time.
CompeteEarly ==
  Len(records) > 4 => Cardinality({d \in Dispatchers : pc[d] # "idle"}) =< 1

Interchangeable == Permutations(Dispatchers)
=============================================================================
