---------------------------- MODULE MCTurnQueue ----------------------------
(***************************************************************************)
(* Constants of the TLC instances of TurnQueue: three messages of one      *)
(* thread, the last one sent by a teammate, the plan of the first shared   *)
(* or personal.                                                            *)
(***************************************************************************)
EXTENDS TurnQueue

MCSender == [t \in Turn |-> IF t <= 2 THEN "requester" ELSE "teammate"]

Dispatches == Cardinality({t \in Turn : rows[t].dispatch # "none"})
Faults == used.interrupts + used.parks

\* Two runs and a stop with messages in any order; or one run and two of: a
\* stop, an eviction or a parking, a reconnection, the teammate being the last.
Bounds ==
    /\ \A t \in Turn : rows[t].plan = "personal" => t = 1
    /\ \/ Faults = 0 /\ Dispatches <= 2
       \/ /\ used.stops + Faults + used.reopens <= 2 /\ Faults <= 1
          /\ Dispatches <= 1 /\ rows[3].place \in {0, 3}
=============================================================================
