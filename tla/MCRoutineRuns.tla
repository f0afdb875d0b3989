--------------------------- MODULE MCRoutineRuns ---------------------------
\* Constants of the TLC instances of RoutineRuns.
EXTENDS RoutineRuns, TLC

MCOcc == 1..2
\* The heartbeats work on the latest occurrence; those before are left to CleanUp.
MCTogether == \A h \in Heart, o \in Occ : exec[h] # Idle /\ occ[o].status # "absent" => o <= exec[h].o
\* An occurrence that has ended and which no heartbeat works on: all that is told
\* of it is whether its messages are right, and whether its delivery is open.
MCLeft(o) == occ[o].status \in Ended /\ \A h \in Heart : exec[h] # Idle => exec[h].o # o
MCRest(o) == <<OneMessageOf(o), occ[o].delivery \in Undelivered, occ[o].delivery = "leased">>
\* Once the Agent has settled it, whether its receipt was recorded is not read,
\* nor how its submission ends unless a heartbeat waits for it; once it is running
\* from its latest attempt, which one that is matters to those that entered it.
MCAt(o, stages) == \E h \in Heart : exec[h].at \in stages /\ exec[h].o = o
MCRow(o) ==
    LET r == occ[o]
        settled == r.settled # "none"
        latest == r.status = "running" /\ r.attempts = r.envelope /\ ~MCAt(o, {"entered"})
    IN <<posts[o], [r EXCEPT !.receipt = @ \/ settled, !.attempts = IF latest THEN 1 ELSE @,
                   !.envelope = IF latest THEN 1 ELSE @],
         IF settled /\ ~MCAt(o, {"dispatching", "reading"}) THEN "none" ELSE sub[o]>>
MCView ==
    <<routine, exec, blamed, used,
      [o \in Occ |-> IF MCLeft(o) THEN MCRest(o) ELSE MCRow(o)]>>

MCHearts == Permutations(Heart)
=============================================================================
