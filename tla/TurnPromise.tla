---------------------------- MODULE TurnPromise ----------------------------
(***************************************************************************)
(* What a Slack conversation is promised about its messages, with no word  *)
(* of rows, executors, prompts or records: every message meets one fate.   *)
(* It is answered by a reply of its own, or folded into the reply to an    *)
(* earlier one, or dropped because someone stopped the conversation, or    *)
(* told to have failed; and it keeps that fate, except that a failure its  *)
(* sender has been told of may still replace another turn's ending of it.  *)
(* The messages folded into a reply end in the very step in which that     *)
(* reply is on record, never before it and never without it.               *)
(***************************************************************************)
CONSTANT Turn

VARIABLE fate   \* what has become of each message

Fate == {"absent", "open", "parked", "answered", "folded", "dropped", "failed"}

Unanswered == {"open", "parked"}

Init == fate = [t \in Turn |-> "absent"]

Becomes(S, f) == fate' = [t \in Turn |-> IF t \in S THEN f ELSE fate[t]]

Arrive(t) == fate[t] = "absent" /\ Becomes({t}, "open")

\* The reply to h is on record, and with it the fate of the messages F it read.
Answer(h, F) ==
    /\ fate[h] \in Unanswered
    /\ \A t \in F : t # h /\ fate[t] = "open"
    /\ fate' = [t \in Turn |-> IF t = h THEN "answered"
                               ELSE IF t \in F THEN "folded" ELSE fate[t]]

\* A run may outlast its message: when two reconnections have put turns that ran
\* already behind later ones, a stop or an earlier reply can end h while it runs.
\* What h has read ends with its reply all the same, and h keeps its fate.
AnswerLate(h, F) ==
    /\ fate[h] \in {"dropped", "folded"}
    /\ \A t \in F : fate[t] = "open"
    /\ Becomes(F, "folded")

\* A message whose sender was told of a failure may end with another turn
\* before that failure is on record.
Fail(t) == fate[t] \in Unanswered \cup {"dropped", "folded"} /\ Becomes({t}, "failed")

Drop(S) == (\A t \in S : fate[t] \in Unanswered) /\ Becomes(S, "dropped")

\* Messages that an operator, or a reconnected installation, must take up again.
Park(S) == (\A t \in S : fate[t] = "open") /\ Becomes(S, "parked")

Reopen(S) == (\A t \in S : fate[t] = "parked") /\ Becomes(S, "open")

\* As long as no turn is put behind later ones, every answer is in time.
InTime ==
    \/ \E t \in Turn : Arrive(t) \/ Fail(t)
    \/ \E S \in SUBSET Turn : Drop(S) \/ Park(S) \/ Reopen(S)
    \/ \E h \in Turn, F \in SUBSET Turn : Answer(h, F)

Next == InTime \/ \E h \in Turn, F \in SUBSET Turn : AnswerLate(h, F)

Spec == Init /\ [][Next]_fate
=============================================================================
