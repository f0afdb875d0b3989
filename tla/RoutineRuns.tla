----------------------------- MODULE RoutineRuns -----------------------------
(***************************************************************************)
(* The occurrences of one scheduled routine: the routine store, which      *)
(* makes each call one transaction (src/routines/store.ts), the heartbeats *)
(* that admit, execute and deliver what is due (scheduler.ts, admission.ts,*)
(* execution.ts, delivery.ts), the Flue instance of each occurrence, and   *)
(* the people who control the routine.                                     *)
(*                                                                         *)
(* A heartbeat comes every minute and lasts as long as the occurrences it  *)
(* executes, so heartbeats overlap, and two of them may execute the same   *)
(* occurrence.  Any of them may stop at any point.                         *)
(*                                                                         *)
(* Time is kept as what has passed: the deadline of an occurrence, and the *)
(* leases of its admission and of its delivery.  Operators named Mutant... *)
(* are definitions with a plausible bug, used by nothing.                  *)
(***************************************************************************)
EXTENDS Integers, FiniteSets

CONSTANTS
    Occ,            \* the occurrences, in the order they are created
    Heart,          \* the heartbeats that overlap
    Kinds,          \* what triggers the routine: "schedule", "once"
    PauseAfter,     \* failures in a row that pause the routine
    MaxTrouble      \* bound on what people do to the routine, heartbeats that
                    \* stop and calls that fail, together

ASSUME RoutineAssumption ==
    /\ Occ \subseteq Nat /\ IsFiniteSet(Occ) /\ IsFiniteSet(Heart)
    /\ Kinds \subseteq {"schedule", "once"}
    /\ {PauseAfter, MaxTrouble} \subseteq Nat

VARIABLES
    routine,    \* the row of routines
    occ,        \* the rows of routine_runs, with their latest admission
    exec,       \* what each heartbeat is doing
    sub,        \* the submission of each occurrence in its Flue instance
    posts,      \* ghost: messages each occurrence has put in its destination
    blamed,     \* ghost: occurrences counted as failures since the last reset
    used        \* how much of MaxTrouble has been used

vars == <<routine, occ, exec, sub, posts, blamed, used>>

----------------------------------------------------------------------------
(***************************************************************************)
(* State.                                                                  *)
(***************************************************************************)
Active == {"queued", "admitting", "running"}
Ended == {"succeeded", "no_op", "failed", "skipped", "cancelled", "superseded"}

\* Failure classes, by what they do to the routine: disable it, pause it as an
\* unknown outcome, count against it, pause it as unreachable, or nothing.
Class == {"access", "unknown", "counted", "gone", "other"}
Result == {"succeeded", "no_op"} \cup Class

Routine == [kind: Kinds, state: {"active", "paused", "disabled", "completed"},
            next: {"none", "future", "due"}, failures: Nat, version: Nat]

\* age: before the deadline, after it, a grace after it.
\* envelope: the attempt whose dispatch was saved.  lapsed: the lease of the
\* delivery has run out.  cause: why the delivery was not made.
Occurrence == [status: {"absent"} \cup Ended \cup Active,
               trigger: {"schedule", "once", "run_now"}, age: 0..2,
               lease: {"none", "live", "over"}, attempts: Nat, envelope: Nat,
               receipt: BOOLEAN, settled: {"none"} \cup Result,
               delivery: {"none", "leased", "lapsed", "delivered", "unknown", "failed"},
               cause: {"none"} \cup Class]

\* A heartbeat: what it listed, what it read of the occurrence it executes, and
\* the result it is about to write.
Idle == [at |-> "idle"]
Listed == [at: {"listed"}, o: Occ, queued: BOOLEAN]
Reader == [at: {"entered"}, o: Occ, version: Nat, attempt: Nat,
         phase: {"fresh", "frozen", "receipted", "settled"}]
Step == [at: {"dispatching", "reading", "settling", "finalizing", "expiring", "claiming",
              "posting", "recording", "closing", "failing", "noticing", "telling", "told"},
         o: Occ, result: {"none"} \cup Result]

RoutineTypeOK ==
    /\ routine \in Routine
    /\ occ \in [Occ -> Occurrence]
    /\ exec \in [Heart -> {Idle} \cup Listed \cup Reader \cup Step]
    /\ sub \in [Occ -> {"none", "running", "ended"}]
    /\ posts \in [Occ -> Nat]
    /\ blamed \subseteq Occ
    /\ used \in 0..MaxTrouble

NoOccurrence == [status |-> "absent", trigger |-> "schedule", age |-> 0, lease |-> "none",
                 attempts |-> 0, envelope |-> 0, receipt |-> FALSE, settled |-> "none",
                 delivery |-> "none", cause |-> "none"]

Init ==
    /\ routine \in [kind: Kinds, state: {"active"}, next: {"future"},
                    failures: {0}, version: {0}]
    /\ occ = [o \in Occ |-> NoOccurrence]
    /\ exec = [h \in Heart |-> Idle]
    /\ sub = [o \in Occ |-> "none"]
    /\ posts = [o \in Occ |-> 0]
    /\ blamed = {}
    /\ used = 0

Trouble == used < MaxTrouble /\ used' = used + 1

----------------------------------------------------------------------------
(***************************************************************************)
(* What the end of an occurrence does to its routine (applyRoutineOutcome).*)
(***************************************************************************)
Busy == \E o \in Occ : occ[o].status \in Active
Undelivered == {"leased", "lapsed"}
OneTime(t) == t = "once" /\ routine.kind = "once"

\* Bug: an occurrence skipped before it ran leaves its one-time routine alone.
MutantCompletes(t, to, class) == OneTime(t) /\ class # "gone" /\ to # "skipped"

\* A one-time routine is over with its occurrence, whatever became of it.
Completes(t, to, class) == OneTime(t) /\ class # "gone"

Counts(t, to, class) == class = "counted" /\ to = "failed" /\ ~OneTime(t)
Resets(t, to) == to \in {"succeeded", "no_op"} /\ ~OneTime(t)
Doubts(t, to, class) ==
    class = "unknown" /\ to = "failed" /\ ~OneTime(t) /\ routine.state # "disabled"
Tired == routine.failures + 1 >= PauseAfter

Outcome(t, to, class) ==
    IF class = "gone" THEN [routine EXCEPT !.state = "paused", !.next = "none"]
    ELSE IF Completes(t, to, class) THEN [routine EXCEPT !.state = "completed", !.next = "none"]
    ELSE IF Resets(t, to) THEN [routine EXCEPT !.failures = 0]
    ELSE IF class = "access" /\ to = "failed" THEN [routine EXCEPT !.state = "disabled"]
    ELSE IF Doubts(t, to, class) THEN [routine EXCEPT !.state = "paused"]
    ELSE IF Counts(t, to, class)
    THEN [routine EXCEPT !.failures = @ + 1, !.state = IF Tired THEN "paused" ELSE @]
    ELSE routine

\* The occurrence ends, and its routine hears of it once.
Ends(rows, o, to, class) ==
    LET t == occ[o].trigger IN
    /\ occ' = [rows EXCEPT ![o].status = to, ![o].lease = "none"]
    /\ routine' = Outcome(t, to, class)
    /\ blamed' = IF Resets(t, to) THEN {}
                 ELSE IF Counts(t, to, class) THEN blamed \cup {o} ELSE blamed

\* Nothing is written.
Nothing == UNCHANGED <<occ, routine, blamed>>

\* recordDelivery of a delivery that was not made, or of one nobody knows of.
Undelivers(o, outcome, class) ==
    [occ EXCEPT ![o].delivery = outcome,
                ![o].cause = IF occ[o].status = "running" THEN class ELSE @]

----------------------------------------------------------------------------
(***************************************************************************)
(* The schedule, and the people who control it.                            *)
(***************************************************************************)
\* Time: the next slot comes due (while Occ lasts), a deadline or a lease runs out.
SlotComesDue ==
    /\ routine.next = "future" /\ \E o \in Occ : occ[o].status = "absent"
    /\ routine' = [routine EXCEPT !.next = "due"]
    /\ UNCHANGED <<occ, exec, sub, posts, blamed, used>>

Grows(o) ==
    /\ occ[o].status \in Active /\ occ[o].age < 2
    /\ occ' = [occ EXCEPT ![o].age = @ + 1]
    /\ UNCHANGED <<routine, exec, sub, posts, blamed, used>>

LeaseRunsOut(o) ==
    /\ \/ occ[o].lease = "live" /\ occ' = [occ EXCEPT ![o].lease = "over"]
       \/ occ[o].delivery = "leased" /\ occ' = [occ EXCEPT ![o].delivery = "lapsed"]
    /\ UNCHANGED <<routine, exec, sub, posts, blamed, used>>

\* Occurrences are created in order.
Fresh(o) ==
    occ[o].status = "absent" /\ \A p \in Occ : p < o => occ[p].status # "absent"

Created(o, trigger, status) ==
    [occ EXCEPT ![o] = [NoOccurrence EXCEPT !.status = status, !.trigger = trigger]]

\* claimDueSchedules.  A slot is skipped when others were missed with it, when an
\* occurrence is still active, or when it is found too late.
Claim(o) ==
    /\ Fresh(o) /\ routine.state = "active" /\ routine.next = "due"
    /\ IF routine.kind = "once"
       THEN /\ occ' = Created(o, "once", IF Busy THEN "skipped" ELSE "queued")
            /\ routine' = [routine EXCEPT !.next = "none",
                                          !.state = IF Busy THEN "completed" ELSE @]
       ELSE /\ \E status \in {"queued", "skipped"} :
                 /\ Busy => status = "skipped"
                 /\ occ' = Created(o, "schedule", status)
            /\ routine' = [routine EXCEPT !.next = "future"]
    /\ UNCHANGED <<exec, sub, posts, blamed, used>>

\* A person runs it now; one active occurrence is the limit.
RunNow(o) ==
    /\ Fresh(o) /\ ~Busy /\ Trouble
    /\ routine.kind = "schedule" /\ routine.state \in {"active", "paused"}
    /\ occ' = Created(o, "run_now", "queued")
    /\ UNCHANGED <<routine, exec, sub, posts, blamed>>

\* A pause or a disable cancels what is queued on schedule.
Cancelled ==
    [o \in Occ |-> IF occ[o].status = "queued" /\ occ[o].trigger # "run_now"
                   THEN [occ[o] EXCEPT !.status = "cancelled"] ELSE occ[o]]

Stops(target) ==
    /\ routine.state \in IF target = "paused" THEN {"active"} ELSE {"active", "paused"}
    /\ routine' = [routine EXCEPT !.state = target, !.version = @ + 1]
    /\ occ' = Cancelled

Stop(target) ==
    /\ Trouble /\ Stops(target)
    /\ UNCHANGED <<exec, sub, posts, blamed>>

\* A one-time routine resumes only before its time.
Resume ==
    /\ Trouble /\ routine.state # "active"
    /\ routine.kind = "once" => routine.next = "future"
    /\ routine' = [routine EXCEPT !.state = "active", !.version = @ + 1,
                                  !.failures = 0, !.next = "future"]
    /\ blamed' = {}
    /\ UNCHANGED <<occ, exec, sub, posts>>

\* An edit gives a new time to come; it revives a completed routine.
Edit ==
    /\ Trouble /\ (routine.kind = "once" => ~Busy)
    /\ \E kind \in Kinds :
         routine' = [routine EXCEPT !.kind = kind, !.version = @ + 1, !.next = "future",
                                    !.state = IF @ = "completed" THEN "active" ELSE @]
    /\ UNCHANGED <<occ, exec, sub, posts, blamed>>

----------------------------------------------------------------------------
(***************************************************************************)
(* cleanupRetention, at the start of every heartbeat.                      *)
(***************************************************************************)
\* A delivery whose lease ran out is unknown; a run that never ended is failed.
CleanUp(o) ==
    LET r == occ[o] IN
    /\ \/ /\ r.delivery = "lapsed" /\ r.status = "running"
          /\ Ends(Undelivers(o, "unknown", "unknown"), o, "failed", "unknown")
       \/ /\ r.delivery = "lapsed" /\ r.status # "running"
          /\ occ' = Undelivers(o, "unknown", "unknown")
          /\ routine' = IF routine.state = "disabled" THEN routine
                        ELSE [routine EXCEPT !.state = "paused"]
          /\ UNCHANGED blamed
       \/ r.status = "queued" /\ r.age >= 1 /\ r.trigger # "once" /\ Ends(occ, o, "skipped", "other")
       \/ r.status = "admitting" /\ r.age = 2 /\ r.lease # "live" /\ Ends(occ, o, "failed", "other")
       \/ /\ r.status = "running" /\ r.delivery # "lapsed" /\ r.age >= 2
          /\ Ends(occ, o, "failed", "unknown")
    /\ UNCHANGED <<exec, sub, posts, used>>

----------------------------------------------------------------------------
(***************************************************************************)
(* A heartbeat executes an occurrence (executeRoutineOccurrence).          *)
(***************************************************************************)
On(h, at) == exec[h].at = at
Carries(h, at, result) ==
    exec' = [exec EXCEPT ![h] = [at |-> at, o |-> exec[h].o, result |-> result]]
Goes(h, at) == Carries(h, at, "none")
Rests(h) == exec' = [exec EXCEPT ![h] = Idle]

\* listRuns: an occurrence being admitted is left to its admission while the
\* lease lasts.  What was listed may have changed when its turn comes.
List(h, o) ==
    /\ exec[h] = Idle
    /\ occ[o].status \in Active
    /\ ~(occ[o].status = "admitting" /\ occ[o].lease = "live")
    /\ exec' = [exec EXCEPT ![h] = [at |-> "listed", o |-> o,
                                    queued |-> occ[o].status = "queued"]]
    /\ UNCHANGED <<sub, posts, used>> /\ Nothing

\* A queued occurrence that waited too long for its admission.
Expires(h) ==
    LET o == exec[h].o IN
    /\ On(h, "listed") /\ exec[h].queued
    /\ occ[o].age >= 1 /\ occ[o].trigger # "once"
    /\ IF occ[o].status = "queued" THEN Ends(occ, o, "skipped", "other") ELSE Nothing
    /\ Rests(h)
    /\ UNCHANGED <<sub, posts, used>>

\* What the heartbeat has read of the occurrence when it executes it.
Phase(r) == IF r.settled # "none" THEN "settled" ELSE IF r.receipt THEN "receipted"
            ELSE IF r.status = "running" THEN "frozen" ELSE "fresh"

Entered(h, o, attempt) ==
    exec' = [exec EXCEPT ![h] = [at |-> "entered", o |-> o, version |-> routine.version,
                                 attempt |-> attempt, phase |-> Phase(occ[o])]]

\* startAdmissionAttempt, for one listed as queued; else the latest attempt.
Admit(h) ==
    LET o == exec[h].o IN
    /\ On(h, "listed")
    /\ exec[h].queued => occ[o].age = 0 \/ occ[o].trigger = "once"
    /\ IF exec[h].queued
       THEN IF occ[o].status = "queued" \/ (occ[o].status = "admitting" /\ occ[o].lease = "over")
            THEN /\ occ' = [occ EXCEPT ![o].status = "admitting", ![o].lease = "live",
                                       ![o].attempts = @ + 1]
                 /\ Entered(h, o, occ[o].attempts + 1)
                 /\ UNCHANGED <<routine, blamed>>
            ELSE Rests(h) /\ Nothing
       ELSE /\ IF occ[o].status \in {"admitting", "running"}
               THEN Entered(h, o, occ[o].attempts) ELSE Rests(h)
            /\ Nothing
    /\ UNCHANGED <<sub, posts, used>>

\* The deadline passes before the dispatch is saved; a saved result is kept.
TooLate(h) == occ[exec[h].o].age >= 1 /\ exec[h].phase # "settled"

\* resolveAccess or the preparation fails; an authority that is gone pauses the
\* routine, unless it was changed meanwhile.
FailsToPrepare(h) ==
    /\ On(h, "entered")
    /\ \/ TooLate(h) /\ Carries(h, "failing", "counted") /\ Nothing /\ UNCHANGED used
       \/ Trouble /\ \E class \in {"access", "counted"} : Carries(h, "failing", class) /\ Nothing
       \/ /\ Trouble /\ Carries(h, "failing", "access")
          /\ routine.version = exec[h].version /\ Stops("paused")
          /\ UNCHANGED blamed
    /\ UNCHANGED <<sub, posts>>

\* prepareAgentDispatch accepts a repetition of the dispatch it saved.  What two
\* heartbeats prepare may differ: nothing is frozen before it is saved.
Prepares(h) ==
    LET o == exec[h].o IN
    occ[o].status = "running" => occ[o].envelope = exec[h].attempt

\* The run is read again: one that is settled is delivered, else it is executed.
Runs(h, o) ==
    IF occ[o].settled # "none" THEN Carries(h, "finalizing", occ[o].settled)
    ELSE Goes(h, IF exec[h].phase = "receipted" THEN "reading" ELSE "dispatching")

Prepare(h) ==
    LET o == exec[h].o IN
    /\ On(h, "entered") /\ ~TooLate(h)
    /\ CASE occ[o].status = "running" ->
              /\ Nothing
              /\ \/ Prepares(h) /\ Runs(h, o)
                 \/ ~(exec[h].phase # "fresh" /\ Prepares(h)) /\ Carries(h, "failing", "counted")
         [] occ[o].status = "admitting" /\ occ[o].trigger # "run_now" /\ routine.state # "active" ->
              /\ occ' = [occ EXCEPT ![o].status = "superseded", ![o].lease = "none"]
              /\ Rests(h) /\ UNCHANGED <<routine, blamed>>
         [] occ[o].status = "admitting" /\ ~(occ[o].trigger # "run_now" /\ routine.state # "active") ->
              /\ occ' = [occ EXCEPT ![o].status = "running", ![o].lease = "none",
                                    ![o].envelope = exec[h].attempt]
              /\ Goes(h, "dispatching") /\ UNCHANGED <<routine, blamed>>
         [] OTHER -> Rests(h) /\ Nothing
    /\ UNCHANGED <<sub, posts, used>>

\* A dispatch is keyed by its attempt.  Its receipt is refused once the
\* occurrence has ended otherwise, and so is all that would follow.
Dispatch(h) ==
    LET o == exec[h].o IN
    /\ On(h, "dispatching")
    /\ IF occ[o].age >= 1 THEN Carries(h, "settling", "counted") /\ Nothing /\ UNCHANGED sub
       ELSE /\ sub' = [sub EXCEPT ![o] = IF @ = "none" THEN "running" ELSE @]
            /\ IF occ[o].status = "running"
               THEN /\ occ' = [occ EXCEPT ![o].receipt = TRUE]
                    /\ Goes(h, "reading") /\ UNCHANGED <<routine, blamed>>
               ELSE Rests(h) /\ Nothing
    /\ UNCHANGED <<posts, used>>

\* The submission ended, or the deadline ends it.
Follow(h) ==
    LET o == exec[h].o IN
    /\ On(h, "reading")
    /\ \/ /\ sub[o] = "ended" /\ UNCHANGED sub
          /\ \E result \in {"succeeded", "no_op", "counted", "unknown", "access"} :
               Carries(h, "settling", result)
       \/ /\ occ[o].age >= 1 /\ sub' = [sub EXCEPT ![o] = "ended"]
          /\ \E result \in {"counted", "unknown"} : Carries(h, "settling", result)
    /\ Nothing /\ UNCHANGED <<posts, used>>

\* recordAgentSettlement keeps the first settlement; another is a conflict.
Settle(h) ==
    LET o == exec[h].o IN
    /\ On(h, "settling")
    /\ IF occ[o].status = "running" /\ occ[o].settled = "none"
       THEN /\ occ' = [occ EXCEPT ![o].settled = exec[h].result]
            /\ Carries(h, "finalizing", exec[h].result) /\ UNCHANGED <<routine, blamed>>
       ELSE Rests(h) /\ Nothing
    /\ UNCHANGED <<sub, posts, used>>

----------------------------------------------------------------------------
(***************************************************************************)
(* The delivery (finalizeSettlement, deliverRoutineSlackMessage).          *)
(***************************************************************************)
\* The run is read again: a post that may be in flight is waited for.
Finalize(h) ==
    LET r == occ[exec[h].o] IN
    /\ On(h, "finalizing")
    /\ CASE exec[h].result # "succeeded" -> Carries(h, "closing", exec[h].result)
         [] exec[h].result = "succeeded" /\ r.delivery = "leased" -> Rests(h)
         [] exec[h].result = "succeeded" /\ r.delivery = "lapsed" -> Goes(h, "expiring")
         [] exec[h].result = "succeeded" /\ r.delivery = "none" -> Goes(h, "claiming")
         [] exec[h].result = "succeeded" /\ r.delivery = "delivered" -> Carries(h, "closing", "succeeded")
         [] OTHER -> Carries(h, "closing", IF r.cause = "none" THEN "unknown" ELSE r.cause)
    /\ Nothing /\ UNCHANGED <<sub, posts, used>>

Deliverable(o) == occ[o].status \in {"running", "failed"}

\* A delivery whose lease ran out is recorded as unknown, once.
Expire(h) ==
    LET o == exec[h].o IN
    /\ On(h, "expiring")
    /\ IF Deliverable(o) /\ occ[o].delivery \in Undelivered
       THEN /\ occ' = Undelivers(o, "unknown", "unknown")
            /\ Carries(h, "closing", "unknown") /\ UNCHANGED <<routine, blamed>>
       ELSE Rests(h) /\ Nothing
    /\ UNCHANGED <<sub, posts, used>>

\* Bug: a delivery whose lease ran out may be made again.
MutantClaims(o) == Deliverable(o) /\ occ[o].delivery \in {"none", "lapsed"}

\* claimDelivery: one delivery per occurrence, its result or its failure notice.
Claims(o) == Deliverable(o) /\ occ[o].delivery = "none"

\* The loser of a claim takes the result for unknown.
ClaimDelivery(h) ==
    LET o == exec[h].o IN
    /\ On(h, "claiming")
    /\ IF Claims(o)
       THEN /\ occ' = [occ EXCEPT ![o].delivery = "leased"]
            /\ Goes(h, "posting") /\ UNCHANGED <<routine, blamed>>
       ELSE /\ Nothing
            /\ IF occ[o].delivery = "delivered" THEN Carries(h, "closing", "succeeded")
               ELSE Carries(h, "closing", "unknown")
    /\ UNCHANGED <<sub, posts, used>>

\* A failed occurrence tells its destination, if nothing was delivered for it.
Notify(h) ==
    LET o == exec[h].o IN
    /\ On(h, "noticing")
    /\ IF occ[o].status = "failed" /\ Claims(o)
       THEN /\ occ' = [occ EXCEPT ![o].delivery = "leased"]
            /\ Goes(h, "telling") /\ UNCHANGED <<routine, blamed>>
       ELSE Rests(h) /\ Nothing
    /\ UNCHANGED <<sub, posts, used>>

\* Slack takes the message, refuses it, or is not heard of.
Post(h) ==
    LET o == exec[h].o
        next == IF On(h, "posting") THEN "recording" ELSE "told"
        posted == [posts EXCEPT ![o] = @ + 1]
    IN
    /\ On(h, "posting") \/ On(h, "telling")
    /\ \/ /\ posts' = posted
          /\ Carries(h, next, "succeeded") /\ UNCHANGED used
       \/ /\ Trouble /\ posts' \in {posts, posted}
          /\ Carries(h, next, "unknown")
       \/ /\ Trouble /\ UNCHANGED posts
          /\ \E class \in {"gone", "counted"} : Carries(h, next, class)
    /\ Nothing /\ UNCHANGED sub

\* recordDelivery, refused when the delivery was settled otherwise; the run is
\* read again: what it says was delivered was delivered.
Record(h) ==
    LET o == exec[h].o
        result == exec[h].result
        taken == Deliverable(o) /\ occ[o].delivery \in Undelivered
        after == IF ~taken THEN occ
                 ELSE IF result = "succeeded" THEN [occ EXCEPT ![o].delivery = "delivered",
                                                     ![o].cause = IF occ[o].status = "running"
                                                                  THEN "none" ELSE @]
                 ELSE Undelivers(o, IF result = "unknown" THEN "unknown" ELSE "failed", result)
        failure == IF result = "succeeded" THEN "unknown" ELSE result
    IN
    /\ On(h, "recording") \/ On(h, "told")
    /\ occ' = after
    /\ IF On(h, "told") THEN Rests(h)
       ELSE Carries(h, "closing",
                    IF after[o].delivery = "delivered" THEN "succeeded" ELSE failure)
    /\ UNCHANGED <<routine, blamed, sub, posts, used>>

\* Bug: an occurrence ends as its failure class.
MutantTerminal(result) == result

\* How the occurrence ends with this result.
Terminal(result) == IF result \in {"succeeded", "no_op"} THEN result ELSE "failed"

\* Bug: the transition is judged by what the heartbeat read, not by the row.
MutantMoves(o, to) == occ[o].status \in {"running", to}

\* transitionRun: an occurrence that has ended stays as it ended.
Moves(o, to) == occ[o].status = "running"

\* A settlement that is a failure is told to the destination; a result that
\* could not be delivered is not.
Close(h) ==
    LET o == exec[h].o
        result == exec[h].result
        to == Terminal(result)
        tells == to = "failed" /\ occ[o].settled # "succeeded"
    IN
    /\ On(h, "closing")
    /\ IF Moves(o, to) THEN Ends(occ, o, to, IF to = "failed" THEN result ELSE "other")
       ELSE Nothing
    /\ IF tells /\ (Moves(o, to) \/ occ[o].status = to) THEN Goes(h, "noticing") ELSE Rests(h)
    /\ UNCHANGED <<sub, posts, used>>

\* failUnsettledRun, or the skip of an occurrence whose Agent is not assigned;
\* the destination hears of a failure if it can still be resolved.
Fail(h) ==
    LET o == exec[h].o
        class == exec[h].result IN
    /\ On(h, "failing")
    /\ \/ /\ class = "access" /\ occ[o].status = "admitting"
          /\ Ends(occ, o, "skipped", class) /\ Rests(h)
       \/ /\ IF occ[o].status \in {"admitting", "running"}
             THEN Ends(occ, o, "failed", class) ELSE Nothing
          /\ Goes(h, "noticing") \/ Rests(h)
    /\ UNCHANGED <<sub, posts, used>>

\* The heartbeat stops, or leaves the occurrence to a later one.
Leave(h) ==
    /\ exec[h] # Idle /\ Trouble /\ Rests(h)
    /\ UNCHANGED <<sub, posts>> /\ Nothing

----------------------------------------------------------------------------
(***************************************************************************)
(* The Flue instances.                                                     *)
(***************************************************************************)
SubmissionEnds(o) ==
    /\ sub[o] = "running"
    /\ sub' = [sub EXCEPT ![o] = "ended"]
    /\ UNCHANGED <<routine, occ, exec, posts, blamed, used>>

----------------------------------------------------------------------------
Executes(h) ==
    \/ Expires(h) \/ Admit(h) \/ FailsToPrepare(h) \/ Prepare(h) \/ Dispatch(h) \/ Follow(h)
    \/ Settle(h) \/ Finalize(h) \/ Expire(h) \/ ClaimDelivery(h) \/ Notify(h) \/ Post(h)
    \/ Record(h) \/ Close(h) \/ Fail(h)

Next ==
    \/ SlotComesDue
    \/ \E o \in Occ :
         \/ Grows(o) \/ LeaseRunsOut(o) \/ Claim(o) \/ RunNow(o) \/ CleanUp(o)
         \/ SubmissionEnds(o)
    \/ \E target \in {"paused", "disabled"} : Stop(target)
    \/ Resume \/ Edit
    \/ \E h \in Heart : Executes(h) \/ Leave(h) \/ \E o \in Occ : List(h, o)

Spec == Init /\ [][Next]_vars

----------------------------------------------------------------------------
(***************************************************************************)
(* Properties.                                                             *)
(***************************************************************************)
\* The messages of one occurrence.
OneMessageOf(o) ==
    posts[o] <= 1 /\ (occ[o].delivery = "delivered" => posts[o] = 1)

\* An occurrence puts at most one message in its destination, its result or the
\* notice of its failure, however many heartbeats deliver it and wherever one
\* stops (claimDelivery), and what is recorded as delivered is there.
OneMessage == \A o \in Occ : OneMessageOf(o)

\* An occurrence counts at most once toward the failures that pause its routine
\* (transitionRun and applyRoutineOutcome), whoever finds it failed.
EachFailureCountsOnce == routine.failures = Cardinality(blamed)

\* A one-time routine is never left active with nothing to wait for: its
\* occurrence is to come, is under way, or has completed or stopped the routine.
OnceNeverStranded ==
    routine.kind = "once" /\ routine.state = "active" /\ routine.next = "none" => Busy
=============================================================================
