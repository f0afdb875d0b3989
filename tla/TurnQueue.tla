----------------------------- MODULE TurnQueue -----------------------------
(***************************************************************************)
(* The waiting turns of one Slack conversation: the rows of `turn_jobs` of *)
(* src/slack/turn-jobs.ts, which the runner of the thread and the alarm of *)
(* the state store execute (src/slack/turn-executor.ts).  A message sent   *)
(* while a turn runs can join it, at its start or late (a fold); a stop    *)
(* ends a turn and drops the messages that wait behind it; a turn whose    *)
(* installation is unavailable is parked and reopened on reconnection.     *)
(*                                                                         *)
(* One action is one call of the store, which is one transaction.  Between *)
(* two calls of an executor anything else may happen, its eviction too.    *)
(* A turn is named by its Slack timestamp, so a smaller turn was posted    *)
(* earlier; `place` is the order in which the store received them.         *)
(*                                                                         *)
(* Operators named Mutant... are definitions with a plausible bug, used by *)
(* nothing.                                                                *)
(***************************************************************************)
EXTENDS Integers, FiniteSets

CONSTANTS
    Turn,           \* the messages of the conversation, by timestamp
    Sender,         \* who sent each
    None,           \* no turn
    MaxTaken,       \* rows one claim takes at most (MAX_FOLDED_MESSAGES)
    MaxCycle,       \* late claims of one run that take rows (lastFoldCycle)
    MaxAttempts,    \* attempts before dispatch (MAX_TURN_ATTEMPTS)
    MaxStops,       \* bound on the stops people send
    MaxInterrupts,  \* bound on evictions, yields and failed attempts
    MaxParks        \* bound on parkings: unavailable, given up, cancelled

Cutoff == {t + 1 : t \in Turn}

ASSUME QueueAssumption ==
    /\ Turn \subseteq Nat \ {0} /\ IsFiniteSet(Turn)
    /\ None \notin Turn
    /\ {MaxTaken, MaxCycle, MaxAttempts, MaxStops, MaxInterrupts, MaxParks} \subseteq Nat

VARIABLES
    rows,   \* the table, one row per turn
    exec,   \* what an executor is doing with each turn
    sub,    \* the submission of each turn at Flue
    read,   \* the messages in the model input of each submission
    cyc,    \* how many late claims the model input of each submission holds
    used    \* how much of each bound has been used

vars == <<rows, exec, sub, read, cyc, used>>

(***************************************************************************)
(* The rows.                                                               *)
(***************************************************************************)
Finished == {"done", "error"}                         \* delivered = 1
Parked == {"unavailable", "recovery", "cancelled"}    \* recovery_required
Ended == {"completed", "failed", "aborted"}
Holding == {"absorbed", "informed"}

Row == [status: {"absent", "pending"} \cup Finished \cup Parked,
        place: Nat,
        by: {"runner", "alarm"},
        attempts: Nat,
        plan: {"none", "shared", "personal"},
        dispatch: {"none", "started", "received"},
        settled: {"none"} \cup Ended,
        stop: {"none", "stopped", "held", "dropped", "released"},
        stopHead: Turn \cup {None}, cutoff: Cutoff \cup {0},
        ending: {"none", "dropped", "released"},
        fold: {"none", "settled"} \cup Holding,
        foldHead: Turn \cup {None}, cycle: 0..MaxCycle, received: BOOLEAN]

NoRow == [status |-> "absent", place |-> 0, by |-> "runner", attempts |-> 0,
          plan |-> "none", dispatch |-> "none", settled |-> "none",
          stop |-> "none", stopHead |-> None, cutoff |-> 0, ending |-> "none",
          fold |-> "none", foldHead |-> None, cycle |-> 0, received |-> FALSE]

Pending(rs, t) == rs[t].status = "pending"
Before(rs, t, u) == rs[t].place < rs[u].place

\* A stopped turn whose ending has not been recorded.
Unfinished(rs, h) ==
    Pending(rs, h) /\ rs[h].stop = "stopped" /\ rs[h].ending = "none"

\* A hold reads as released once its stop holds nothing any more.
StopRole(rs, t) ==
    IF rs[t].stop = "held" /\ ~Unfinished(rs, rs[t].stopHead)
    THEN "released" ELSE rs[t].stop

\* Bug: a member stays held whatever became of the turn that took it.
MutantFolded(rs, t) == rs[t].fold \in Holding

\* A member is held only while the turn that took it is open.
Folded(rs, t) == rs[t].fold \in Holding /\ Pending(rs, rs[t].foldHead)

Gate(rs, t) ==
    IF StopRole(rs, t) = "held" THEN "hold"
    ELSE IF StopRole(rs, t) = "stopped"
         THEN IF rs[t].dispatch = "received" THEN "stopped" ELSE "stopped_before_dispatch"
    ELSE IF Folded(rs, t) THEN "hold" ELSE "run"

Members(rs, h) == {t \in Turn : rs[t].fold # "none" /\ rs[t].foldHead = h}

----------------------------------------------------------------------------
(***************************************************************************)
(* Endings.                                                                *)
(***************************************************************************)
HeldBy(rs, h) == {t \in Turn : rs[t].stop = "held" /\ rs[t].stopHead = h}

\* Bug: a status of its own, which an older release does not know.
MutantDroppedRow(row) ==
    IF row.status \in Finished THEN row
    ELSE [row EXCEPT !.stop = "dropped", !.status = "dropped"]

DroppedRow(row) ==
    IF row.status \in Finished THEN row
    ELSE [row EXCEPT !.stop = "dropped", !.status = "done"]

\* finishStop: the first ending stands; a turn without a stop is left alone.
FinishedStop(rs, h, outcome) ==
    IF rs[h].stop # "stopped" \/ rs[h].ending # "none" THEN rs
    ELSE [t \in Turn |->
            IF t = h THEN [rs[t] EXCEPT !.ending = outcome]
            ELSE IF t \notin HeldBy(rs, h) THEN rs[t]
            ELSE IF outcome = "dropped" THEN DroppedRow(rs[t])
            ELSE [rs[t] EXCEPT !.stop = "released"]]

\* Bug: members end with the reply although its run may not have read them.
MutantSettledUnread(rs, h) ==
    {t \in Members(rs, h) : /\ rs[h].settled = "completed"
                            /\ rs[t].fold = "absorbed" /\ Pending(rs, t)}

\* Bug: members end with the reply although an operator cancelled them.
MutantSettledCancelled(rs, h) ==
    {t \in Members(rs, h) : /\ rs[h].settled = "completed"
                            /\ rs[t].fold = "absorbed" /\ rs[t].received}

\* settleFoldMembers: who ends with the reply to h.
SettledWith(rs, h) ==
    {t \in Members(rs, h) : /\ rs[h].settled = "completed"
                            /\ rs[t].fold = "absorbed" /\ rs[t].received
                            /\ Pending(rs, t)}

Delivered(rs, h) ==
    FinishedStop([t \in Turn |->
        IF t = h THEN [rs[t] EXCEPT !.status = "done"]
        ELSE IF t \in SettledWith(rs, h)
             THEN [rs[t] EXCEPT !.status = "done", !.fold = "settled"]
        ELSE rs[t]], h, "released")

Errored(rs, t) ==
    FinishedStop([rs EXCEPT ![t].status = "error"], t, "released")

\* markRecoveryRequired: never of a delivered turn, and its stop lets go.
ParkedAs(rs, t, reason) ==
    IF rs[t].status \in Finished THEN rs
    ELSE FinishedStop([rs EXCEPT ![t].status = reason], t, "released")

----------------------------------------------------------------------------
(***************************************************************************)
(* Folds.                                                                  *)
(***************************************************************************)
\* Whether h may take messages now: before its dispatch, or late, from its run.
Open(rs, h) ==
    /\ Pending(rs, h) /\ StopRole(rs, h) \in {"none", "released"} /\ ~Folded(rs, h)
    /\ \A u \in Turn : ~Unfinished(rs, u)

Waiting(rs, h) == {t \in Turn : Pending(rs, t) /\ Before(rs, h, t)}

\* The row a claim of h has visited just before t.
Previous(rs, h, t) ==
    CHOOSE u \in {h} \cup Waiting(rs, h) :
        /\ Before(rs, u, t)
        /\ \A v \in Waiting(rs, h) : Before(rs, v, t) => ~Before(rs, u, v)

Joined(rs, h, t) == Folded(rs, t) /\ rs[t].foldHead = h

Eligible(rs, h, t) ==
    /\ rs[t].attempts = 0 /\ rs[t].dispatch = "none"
    /\ StopRole(rs, t) \in {"none", "released"} /\ ~Folded(rs, t)
    /\ t > Previous(rs, h, t)

\* Bug: a row that may not join does not end the claim.
MutantTakes(rs, h, n) ==
    LET Fit == {t \in Waiting(rs, h) : ~Joined(rs, h, t) /\ Eligible(rs, h, t)} IN
    {t \in Fit : Cardinality({u \in Fit : ~Before(rs, t, u)}) <= n}

\* Turns of the contiguous run of rows after h that may join: the first row
\* that may not ends it, and so does the bound n.
Takes(rs, h, n) ==
    LET Path(t) == {u \in Waiting(rs, h) : ~Before(rs, t, u)} IN
    {t \in Waiting(rs, h) :
        /\ ~Joined(rs, h, t)
        /\ \A u \in Path(t) : Joined(rs, h, u) \/ Eligible(rs, h, u)
        /\ Cardinality({u \in Path(t) : ~Joined(rs, h, u)}) <= n}

\* foldedInformationOnly; a plan not frozen yet counts as personal.
RoleIn(h, t, plan) ==
    IF Sender[t] # Sender[h] /\ plan # "shared" THEN "informed" ELSE "absorbed"

\* The rows after h claimed for a cycle; a cycle that holds a message is a replay.
Claimed(rs, h, cycle, n) ==
    IF \E t \in Members(rs, h) : rs[t].cycle = cycle THEN rs
    ELSE [t \in Turn |->
            IF t \in Takes(rs, h, n)
            THEN [rs[t] EXCEPT !.fold = RoleIn(h, t, rs[h].plan), !.foldHead = h,
                               !.cycle = cycle, !.received = (cycle = 0)]
            ELSE rs[t]]

\* A late claim first counts the earlier ones as read.
Confirmed(rs, h, received) ==
    [t \in Turn |->
        IF t \in Members(rs, h) /\ rs[t].cycle \in 1..received
        THEN [rs[t] EXCEPT !.received = TRUE] ELSE rs[t]]

CycleOf(rs, h, cycle) == {t \in Members(rs, h) : rs[t].cycle = cycle}

\* decideStartFoldRoles, when the plan of h is frozen.
Frozen(rs, h, plan) ==
    [t \in Turn |->
        IF t = h THEN [rs[t] EXCEPT !.plan = plan]
        ELSE IF t \in CycleOf(rs, h, 0) /\ rs[t].fold \in Holding
             THEN [rs[t] EXCEPT !.fold = RoleIn(h, t, plan)]
        ELSE rs[t]]

----------------------------------------------------------------------------
Init ==
    /\ rows = [t \in Turn |-> NoRow]
    /\ exec = [t \in Turn |-> "idle"]
    /\ sub = [t \in Turn |-> "none"]
    /\ read = [t \in Turn |-> {}]
    /\ cyc = [t \in Turn |-> 0]
    /\ used = [stops |-> 0, interrupts |-> 0, parks |-> 0, reopens |-> 0]

Spend(what) == used' = [used EXCEPT ![what] = @ + 1]

(***************************************************************************)
(* What people and operators do.                                           *)
(***************************************************************************)
\* insert: a message posted before an unfinished stop that arrives late is held.
Enqueue(t) ==
    /\ rows[t].status = "absent"
    /\ LET place == Cardinality({u \in Turn : rows[u].status # "absent"}) + 1
           Heads == {h \in Turn : Unfinished(rows, h) /\ t < rows[h].cutoff}
           fresh == [NoRow EXCEPT !.status = "pending", !.place = place]
       IN rows' = [rows EXCEPT ![t] =
              IF Heads = {} THEN fresh
              ELSE [fresh EXCEPT !.stop = "held", !.stopHead = CHOOSE h \in Heads : TRUE]]
    /\ UNCHANGED <<exec, sub, read, cyc, used>>

\* The head a stop means: the turn that is running, else the oldest one.
StopHeads(rs, before) ==
    LET running == {t \in before : rs[t].dispatch # "none"}
        among == IF running = {} THEN before ELSE running
    IN {h \in among : \A u \in among : ~Before(rs, u, h)}

Stopped(rs, h, before, cutoff) ==
    [t \in Turn |->
        IF t = h
        THEN [rs[t] EXCEPT !.stop = "stopped", !.stopHead = None,
                           !.cutoff = cutoff, !.ending = "none"]
        ELSE IF t \in before /\ rs[t].dispatch = "none"
                /\ StopRole(rs, t) \in {"none", "released"}
             THEN [rs[t] EXCEPT !.stop = "held", !.stopHead = h]
        ELSE rs[t]]

\* steer: while a stopped turn is undelivered, a later stop changes nothing; a
\* stop with no turn before it becomes a message of its own.
Stop(cutoff) ==
    LET before == {t \in Turn : Pending(rows, t) /\ t < cutoff} IN
    /\ used.stops < MaxStops
    /\ \A t \in Turn : Pending(rows, t) => rows[t].stop # "stopped"
    /\ \E h \in StopHeads(rows, before) : rows' = Stopped(rows, h, before, cutoff)
    /\ Spend("stops")
    /\ UNCHANGED <<exec, sub, read, cyc>>

\* cancelPendingWork: every turn not yet delivered, whatever it is doing.
OperatorCancels ==
    /\ used.parks < MaxParks
    /\ \E t \in Turn : Pending(rows, t)
    /\ rows' = [t \in Turn |-> IF Pending(rows, t)
                               THEN [rows[t] EXCEPT !.status = "cancelled"] ELSE rows[t]]
    /\ Spend("parks")
    /\ UNCHANGED <<exec, sub, read, cyc>>

\* resolveRecoveryRequired: from the recovery list, which leaves out cancelled turns.
ResolveRecovery(t) ==
    /\ rows[t].status \in {"unavailable", "recovery"}
    /\ rows' = [rows EXCEPT ![t].status = "error"]
    /\ UNCHANGED <<exec, sub, read, cyc, used>>

\* retrySlackInstallationRecovery: the alarm owns what it reopens.
Reopen ==
    /\ \E t \in Turn : rows[t].status = "unavailable"
    /\ rows' = [t \in Turn |-> IF rows[t].status = "unavailable"
                               THEN [rows[t] EXCEPT !.status = "pending", !.by = "alarm"]
                               ELSE rows[t]]
    /\ Spend("reopens")
    /\ UNCHANGED <<exec, sub, read, cyc>>

\* listDispatchable and assignRunner: the first row of the thread that the alarm
\* has goes to the runner, unless its dispatch started.
HandOver(t) ==
    /\ Pending(rows, t) /\ rows[t].by = "alarm" /\ rows[t].dispatch = "none"
    /\ \A u \in Turn :
         Pending(rows, u) /\ Before(rows, u, t) => rows[u].by = "runner"
    /\ rows' = [rows EXCEPT ![t].by = "runner"]
    /\ UNCHANGED <<exec, sub, read, cyc, used>>

----------------------------------------------------------------------------
(***************************************************************************)
(* What the executors do.  A turn in hand is `begun` from the read of its  *)
(* row, `claimed` once it has asked for follow-ups, `reading` once its     *)
(* receipt is on record, `ending` in the ending of a stop; with its final  *)
(* out it is `posted` (`failed` for the notice of a failure) until the     *)
(* store has recorded that.                                                *)
(***************************************************************************)
InHand(t) == exec[t] \in {"begun", "claimed", "reading", "ending"}

Goes(t, step) == exec' = [exec EXCEPT ![t] = step]

\* Bug: turns of one thread run side by side.
MutantReady(t) == Pending(rows, t) /\ exec[t] = "idle"

\* The runner runs its turns in the order of their places, one at a time, each
\* only when the earlier ones have ended for it; the alarm runs turns whose
\* dispatch started, up to the first turn the runner has.
Ready(t) ==
    /\ Pending(rows, t) /\ exec[t] = "idle"
    /\ rows[t].by = "alarm" => rows[t].dispatch # "none"
    /\ \A u \in Turn \ {t} :
         /\ InHand(u) => rows[u].by # rows[t].by
         /\ Pending(rows, u) /\ Before(rows, u, t)
              => \/ exec[u] \in {"posted", "failed"}
                 \/ rows[t].by = "runner" /\ rows[u].by = "alarm"

Begin(t) ==
    /\ Ready(t)
    /\ Gate(rows, t) # "hold"
    /\ Goes(t, IF Gate(rows, t) = "stopped_before_dispatch" THEN "ending"
               ELSE IF rows[t].dispatch = "received" THEN "reading" ELSE "begun")
    /\ UNCHANGED <<rows, sub, read, cyc, used>>

\* The preflight of the installation fails for good.
PreflightFails(t) ==
    /\ Ready(t) /\ Gate(rows, t) # "hold"
    /\ used.parks < MaxParks
    /\ rows' = ParkedAs(rows, t, "unavailable")
    /\ Spend("parks")
    /\ UNCHANGED <<exec, sub, read, cyc>>

\* The attempt is counted and the follow-ups that wait are claimed.
Claim(t, n) ==
    /\ exec[t] = "begun" /\ rows[t].dispatch = "none"
    /\ LET counted == [rows EXCEPT ![t].attempts = @ + 1] IN
       rows' = IF Open(rows, t) THEN Claimed(counted, t, 0, n) ELSE counted
    /\ Goes(t, "claimed")
    /\ UNCHANGED <<sub, read, cyc, used>>

Freeze(t, plan) ==
    /\ exec[t] = "claimed" /\ rows[t].plan = "none"
    /\ rows' = Frozen(rows, t, plan)
    /\ UNCHANGED <<exec, sub, read, cyc, used>>

\* Whether prepareFlueDispatch refuses the row: its stop or its fold holds it.
Refused(rs, t) == StopRole(rs, t) \in {"stopped", "held"} \/ Folded(rs, t)

\* The dispatch is frozen with the messages claimed at the start, or refused,
\* and then the attempt is given back.
Prepare(t) ==
    /\ exec[t] = "claimed" /\ rows[t].plan # "none"
    /\ IF Refused(rows, t)
       THEN /\ rows' = [rows EXCEPT ![t].attempts = @ - 1]
            /\ Goes(t, "idle")
            /\ UNCHANGED read
       ELSE /\ rows' = [rows EXCEPT ![t].dispatch = "started"]
            /\ Goes(t, "begun")
            /\ read' = [read EXCEPT ![t] = {t} \cup CycleOf(rows, t, 0)]
    /\ UNCHANGED <<sub, cyc, used>>

Receipt(t) ==
    /\ exec[t] = "begun" /\ rows[t].dispatch = "started" /\ sub[t] # "none"
    /\ rows' = [rows EXCEPT ![t].dispatch = "received"]
    /\ Goes(t, "reading")
    /\ UNCHANGED <<sub, read, cyc, used>>

Settlement(t) ==
    /\ exec[t] = "reading" /\ rows[t].settled = "none" /\ sub[t] \in Ended
    /\ rows' = [rows EXCEPT ![t].settled = sub[t]]
    /\ UNCHANGED <<exec, sub, read, cyc, used>>

\* A run that read its abort, or never dispatched, takes the stopped ending.
FinishStop(t) ==
    /\ \/ exec[t] = "ending" /\ rows[t].ending = "none"
       \/ exec[t] = "reading" /\ rows[t].settled = "aborted" /\ rows[t].stop = "stopped"
    /\ rows' = FinishedStop(rows, t, "dropped")
    /\ Goes(t, "ending")
    /\ UNCHANGED <<sub, read, cyc, used>>

\* The final message is out, and the executor knows it for good.
Post(t) ==
    /\ \/ exec[t] = "ending" /\ rows[t].ending # "none"
       \/ /\ exec[t] = "reading" /\ rows[t].settled # "none"
          /\ rows[t].settled = "aborted" => rows[t].stop # "stopped"
    /\ Goes(t, "posted")
    /\ UNCHANGED <<rows, sub, read, cyc, used>>

\* Attempts are exhausted: a turn that never dispatched, or whose stopped ending
\* cannot be posted, has failed; a dispatched one is told so, or left to an operator.
GiveUp(t) ==
    /\ \/ exec[t] = "claimed" /\ rows[t].attempts >= MaxAttempts
       \/ exec[t] = "ending"
       \/ exec[t] \in {"begun", "reading"} /\ rows[t].dispatch # "none"
    /\ used.parks < MaxParks
    /\ Spend("parks")
    /\ \/ Goes(t, "failed") /\ UNCHANGED rows
       \/ /\ exec[t] \in {"begun", "reading"}
          /\ Goes(t, "idle") /\ rows' = ParkedAs(rows, t, "recovery")
    /\ UNCHANGED <<sub, read, cyc>>

\* An eviction, a yield, or an attempt that failed and will be made again.
Interrupt(t) ==
    /\ InHand(t) /\ used.interrupts < MaxInterrupts
    /\ Goes(t, "idle")
    /\ Spend("interrupts")
    /\ UNCHANGED <<rows, sub, read, cyc>>

\* markDelivered and markError, now or on a later alarm of the runner.
Record(t) ==
    /\ exec[t] \in {"posted", "failed"}
    /\ rows' = IF exec[t] = "posted" THEN Delivered(rows, t) ELSE Errored(rows, t)
    /\ Goes(t, "idle")
    /\ UNCHANGED <<sub, read, cyc, used>>

----------------------------------------------------------------------------
(***************************************************************************)
(* What Flue does with the submissions.                                    *)
(***************************************************************************)
\* A dispatch may land after its sender was evicted.
Accept(t) ==
    /\ rows[t].dispatch = "started" /\ sub[t] = "none"
    /\ sub' = [sub EXCEPT ![t] = "running"]
    /\ UNCHANGED <<rows, exec, read, cyc, used>>

\* A run asks for the messages that came since, telling how many claims it has
\* read; the store answers with the rows of the next cycle, old and new ones.
\* The answer may be lost on its way into the model input, or the count of it.
LateFold(h, n) ==
    LET counted == Confirmed(rows, h, cyc[h])
        next == cyc[h] + 1
        taken == IF Open(rows, h) /\ rows[h].dispatch # "none" /\ next <= MaxCycle
                 THEN Claimed(counted, h, next, n) ELSE counted
        answer == CycleOf(taken, h, next)
    IN /\ sub[h] = "running"
       /\ rows' = taken
       /\ \/ UNCHANGED <<read, cyc>>
          \/ /\ answer # {}
             /\ read' = [read EXCEPT ![h] = @ \cup answer]
             /\ cyc' \in {cyc, [cyc EXCEPT ![h] = next]}
       /\ UNCHANGED <<exec, sub, used>>

\* A submission is aborted only for a stop of its turn.
SubmissionEnds(t, outcome) ==
    /\ sub[t] = "running"
    /\ outcome = "aborted" => rows[t].stop = "stopped"
    /\ sub' = [sub EXCEPT ![t] = outcome]
    /\ UNCHANGED <<rows, exec, read, cyc, used>>

----------------------------------------------------------------------------
TurnStep(t) ==
    \/ Enqueue(t) \/ ResolveRecovery(t) \/ HandOver(t)
    \/ Begin(t) \/ PreflightFails(t) \/ Prepare(t) \/ Receipt(t) \/ Settlement(t)
    \/ FinishStop(t) \/ Post(t) \/ GiveUp(t) \/ Interrupt(t) \/ Record(t) \/ Accept(t)
    \/ \E n \in 1..MaxTaken : Claim(t, n) \/ LateFold(t, n)
    \/ \E plan \in {"shared", "personal"} : Freeze(t, plan)
    \/ \E outcome \in Ended : SubmissionEnds(t, outcome)

Next ==
    \/ \E t \in Turn : TurnStep(t)
    \/ \E cutoff \in Cutoff : Stop(cutoff)
    \/ OperatorCancels \/ Reopen

\* The executors' alarms come back, and Flue ends what it accepted; nobody need
\* send a message, stop a turn or reconnect an installation.
Fairness ==
    \A t \in Turn :
        /\ WF_vars(HandOver(t)) /\ WF_vars(Begin(t)) /\ WF_vars(Prepare(t))
        /\ WF_vars(Receipt(t)) /\ WF_vars(Settlement(t)) /\ WF_vars(FinishStop(t))
        /\ WF_vars(Post(t)) /\ WF_vars(Record(t)) /\ WF_vars(exec[t] = "begun" /\ Accept(t))
        /\ WF_vars(\E n \in 1..MaxTaken : Claim(t, n))
        /\ WF_vars(\E plan \in {"shared", "personal"} : Freeze(t, plan))
        /\ WF_vars(\E outcome \in Ended : SubmissionEnds(t, outcome))

Spec == Init /\ [][Next]_vars /\ Fairness

----------------------------------------------------------------------------
QueueTypeOK ==
    /\ rows \in [Turn -> Row]
    /\ exec \in [Turn -> {"idle", "begun", "claimed", "reading", "ending", "posted", "failed"}]
    /\ sub \in [Turn -> {"none", "running"} \cup Ended]
    /\ read \in [Turn -> SUBSET Turn]
    /\ cyc \in [Turn -> 0..MaxCycle]

\* A turn that ended well had its own run, or was stopped itself, or was dropped
\* by a stop that came after it, or was read by the completed run it ended with:
\* no message disappears between a fold, a stop and an eviction.
NothingLost ==
    \A t \in Turn : rows[t].status = "done" =>
        \/ rows[t].settled # "none"
        \/ rows[t].stop = "stopped"
        \/ /\ rows[t].stop = "dropped" /\ rows[rows[t].stopHead].ending = "dropped"
           /\ t < rows[rows[t].stopHead].cutoff
        \/ /\ rows[t].fold = "settled" /\ sub[rows[t].foldHead] = "completed"
           /\ t \in read[rows[t].foldHead] /\ rows[rows[t].foldHead].status = "done"

\* A message that ended with another turn, answered or dropped, never reached
\* the model by a run of its own, as long as no parked turn is reopened.
EndedByAnotherNeverRan ==
    used.reopens = 0 =>
        \A t \in Turn : rows[t].fold = "settled" \/ rows[t].stop = "dropped"
                        => rows[t].dispatch = "none" /\ sub[t] = "none"

\* A fold never reorders: when a turn takes a message, every message that waits
\* between the two is already its own.
FoldsInOrder ==
    [][\A h, t \in Turn :
         rows'[t].foldHead = h /\ rows[t].foldHead # h =>
           \A u \in Turn : Pending(rows, u) /\ Before(rows, h, u) /\ Before(rows, u, t)
                           => u \in Members(rows', h)]_vars

FateOf(row) ==
    IF row.status = "pending" THEN "open"
    ELSE IF row.status \in Parked THEN "parked"
    ELSE IF row.status = "error" THEN "failed"
    ELSE IF row.status = "absent" THEN "absent"
    ELSE IF row.stop = "dropped" THEN "dropped"
    ELSE IF row.fold = "settled" THEN "folded" ELSE "answered"

Promise == INSTANCE TurnPromise WITH fate <- [t \in Turn |-> FateOf(rows[t])]

\* The queue keeps the promise: a message that has met a fate meets no other (but
\* the failure its sender was told of), and folded messages end in the step that
\* records the reply that read them.
KeepsTurnPromise == Promise!Spec

\* Every turn ends or is parked, whatever is stopped, folded and interrupted, as
\* long as no parked turn is reopened beside the ones that came after it.
TurnsEnd ==
    [](used.reopens = 0) => \A t \in Turn : Pending(rows, t) ~> ~Pending(rows, t)

\* A message a stop holds is dropped or released once that stop has ended.
HeldTurnsAreFreed == \A t \in Turn : Gate(rows, t) = "hold" ~> Gate(rows, t) # "hold"
=============================================================================
