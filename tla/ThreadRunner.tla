---------------------------- MODULE ThreadRunner ----------------------------
(***************************************************************************)
(* The runner of one Slack thread: an object of its own, with storage of   *)
(* its own, that executes the turns the state store hands to it            *)
(* (src/slack/thread-runner-loop.ts, thread-runner-jobs.ts) and takes the  *)
(* stops of those turns from the store's outbox (runner-stops.ts).  Four   *)
(* parties act in any order: the state store, the runner's alarm, the      *)
(* runner's `stop` RPC, and the Flue instance the thread's turns share.    *)
(*                                                                         *)
(* An eviction loses everything the runner keeps in memory.  An abort      *)
(* request stops whatever the instance runs when it lands, and one that    *)
(* nobody waits for any more (timed out, or sent before an eviction) can   *)
(* still land.  Turns are numbered in the order of their thread.           *)
(*                                                                         *)
(* Operators named Mutant... are definitions with a plausible bug, used by *)
(* nothing.                                                                *)
(***************************************************************************)
EXTENDS Integers, FiniteSets

CONSTANTS
    Turn,           \* the turns of the thread, in order
    None,           \* no turn
    MaxStops,       \* bound on the turns people stop
    MaxFaults       \* bound on evictions, yields, lost answers, failed calls

ASSUME RunnerAssumption ==
    /\ Turn \subseteq Nat /\ IsFiniteSet(Turn)
    /\ None \notin Turn
    /\ {MaxStops, MaxFaults} \subseteq Nat

VARIABLES
    row,    \* the rows of turn_jobs, in the state store
    job,    \* the rows of runner_jobs, in the runner
    stop,   \* the rows of runner_stops, in the runner
    mem,    \* what this instance of the runner remembers
    run,    \* the turn its alarm executes, and how far
    host,   \* the submission of each turn in the Flue instance
    net,    \* dispatches and abandoned aborts on their way to it
    told,   \* ghost: turns whose ending was reported to the state store
    used    \* how much of each bound has been used

vars == <<row, job, stop, mem, run, host, net, told, used>>

----------------------------------------------------------------------------
(***************************************************************************)
(* State.                                                                  *)
(***************************************************************************)
Ended == {"completed", "aborted"}
Ordered == {"admitted", "running", "yielded"}   \* ORDERED_JOB_STATES
Executing == {"claimed", "dispatching", "received", "observing",
              "settled", "reporting", "ending", "posted", "marking"}

Row == [status: {"pending", "done"}, confirmed: BOOLEAN,
        stop: {"none", "stopped", "held"}, owed: BOOLEAN,
        envelope: BOOLEAN, receipt: BOOLEAN, settled: {"none"} \cup Ended]
Job == [state: {"absent", "deferred", "done"} \cup Ordered, sync: BOOLEAN]
Marker == [known: BOOLEAN, instance: BOOLEAN, submission: BOOLEAN,
           settled: BOOLEAN, abort: {"none", "owed", "done"},
           covered: BOOLEAN, cascade: {"none", "owed", "done"}]

\* A request in memory: is it still out, and did it know the submission.
NoRequest == [at |-> "none", covers |-> FALSE]
Request == {NoRequest} \cup [at: {"out", "landed"}, covers: BOOLEAN]

\* What an eviction leaves of the runner's memory: nothing.
Forgotten == [receipts |-> {}, settled |-> {}, cascading |-> {},
              request |-> [t \in Turn |-> NoRequest]]
NoRow == [status |-> "pending", confirmed |-> FALSE, stop |-> "none", owed |-> FALSE,
          envelope |-> FALSE, receipt |-> FALSE, settled |-> "none"]
Resting == [turn |-> None, at |-> "idle", waited |-> FALSE, view |-> NoRow]

RunnerTypeOK ==
    /\ row \in [Turn -> Row] /\ job \in [Turn -> Job] /\ stop \in [Turn -> Marker]
    /\ mem \in [receipts: SUBSET Turn, settled: SUBSET Turn,
                cascading: SUBSET Turn, request: [Turn -> Request]]
    /\ run \in [turn: Turn \cup {None}, at: {"idle", "reading"} \cup Executing,
                waited: BOOLEAN, view: Row]
    /\ host \in [Turn -> {"none", "running"} \cup Ended]
    /\ net \in [dispatches: SUBSET Turn, strays: Nat]
    /\ told \subseteq Turn
    /\ used \in [stops: 0..MaxStops, faults: 0..MaxFaults]

Init ==
    /\ row = [t \in Turn |-> NoRow]
    /\ job = [t \in Turn |-> [state |-> "absent", sync |-> FALSE]]
    /\ stop = [t \in Turn |-> [known |-> FALSE, instance |-> FALSE, submission |-> FALSE,
                               settled |-> FALSE, abort |-> "none", covered |-> FALSE,
                               cascade |-> "none"]]
    /\ mem = Forgotten /\ run = Resting
    /\ host = [t \in Turn |-> "none"]
    /\ net = [dispatches |-> {}, strays |-> 0]
    /\ told = {}
    /\ used = [stops |-> 0, faults |-> 0]

Fault == used.faults < MaxFaults /\ used' = [used EXCEPT !.faults = @ + 1]

----------------------------------------------------------------------------
(***************************************************************************)
(* The stops of this runner (RunnerStops).                                 *)
(***************************************************************************)
Stoppable(s, m, t) ==
    job[t].state \in Ordered /\ t \notin m.settled /\ ~s[t].settled

\* Nothing of the turn is left to stop; a confirmed abort keeps its cascade.
Lapsed(s, m, t) ==
    [s EXCEPT ![t].abort = IF @ = "owed" THEN "none" ELSE @,
              ![t].cascade = IF @ = "owed" /\ s[t].abort # "done" /\ t \notin m.cascading
                             THEN "none" ELSE @]

\* noteSettlement: an aborted run needs no abort any more, and one that ended
\* by itself needs no cascade either.
Noted(s, m, t, outcome) ==
    IF outcome = "aborted"
    THEN [s EXCEPT ![t].abort = IF @ = "owed" THEN "done" ELSE @]
    ELSE [s EXCEPT ![t].abort = IF @ = "owed" THEN "none" ELSE @,
                   ![t].cascade = IF @ = "owed" /\ t \notin m.cascading
                                  THEN "none" ELSE @]

\* The first decision stands; a later notice adds what it knows.
Recorded(s, t, n, owes) ==
    LET m == s[t] IN
    [s EXCEPT ![t] =
        [known |-> TRUE, instance |-> m.instance \/ n.envelope,
         submission |-> m.submission \/ n.receipt,
         settled |-> m.settled \/ n.settled # "none", covered |-> m.covered,
         abort |-> IF m.known THEN m.abort ELSE owes,
         cascade |-> IF m.known THEN m.cascade ELSE owes]]

\* One request at a time per turn.
TryAbort(s, m, t) ==
    IF s[t].abort # "owed" \/ m.request[t] # NoRequest
    THEN stop' = s /\ mem' = m
    ELSE IF s[t].instance /\ Stoppable(s, m, t)
    THEN /\ stop' = s
         /\ mem' = [m EXCEPT !.request[t] =
                      [at |-> "out", covers |-> s[t].submission \/ t \in m.receipts]]
    ELSE stop' = Lapsed(s, m, t) /\ mem' = m

\* The submission of the turn is known to the runner.
Covered(s, t) == s[t].submission \/ t \in mem.receipts

\* A confirmed abort that was requested before the submission was known is owed again.
Renewed(s, t, n) ==
    IF s[t].abort = "done" /\ n.envelope /\ ~(Covered(s, t) /\ s[t].covered)
    THEN [s EXCEPT ![t].abort = "owed"] ELSE s

\* Bug: a turn starts although an abort request is still out.
MutantAbortsSettled(m) == TRUE

\* No request is in flight; a turn about to start goes on as soon as that is so.
AbortsSettled(m) == \A t \in Turn : m.request[t] = NoRequest
Proceeds(m) ==
    run' = IF run.at = "reading" THEN [run EXCEPT !.waited = @ \/ AbortsSettled(m)] ELSE run

\* The `stop` RPC; the answer says whether the runner owns the stop from here on.
Receive(t) ==
    LET n == row[t]
        live == n.settled = "none" /\ Stoppable(stop, mem, t)
        s == Recorded(stop, t, n, IF live /\ n.envelope THEN "owed" ELSE "none")
        acknowledged == ~live \/ ~n.envelope \/ Covered(s, t)
    IN
    /\ row[t].status = "pending" /\ row[t].owed
    /\ IF live THEN TryAbort(Renewed(s, t, n), mem, t)
       ELSE IF n.settled # "none"
       THEN /\ stop' = Noted(s, mem, t, n.settled)
            /\ mem' = [mem EXCEPT !.settled = @ \cup {t}, !.receipts = @ \ {t}]
       ELSE /\ stop' = IF s[t].abort = "owed" THEN Lapsed(s, mem, t) ELSE s
            /\ UNCHANGED mem
    /\ \/ row' = [row EXCEPT ![t].owed = @ /\ ~acknowledged] /\ UNCHANGED used
       \/ Fault /\ UNCHANGED row
    /\ UNCHANGED <<job, run, host, net, told>>

\* Bug: a closed request keeps the submission it covered.
MutantClosed(m, t) == [m EXCEPT !.request[t].at = "none"]

Closed(m, t) == [m EXCEPT !.request[t] = NoRequest]

\* A request is answered: done, or moot when the turn ended meanwhile.
Answer(t) ==
    LET moot == stop[t].abort = "owed" /\ ~Stoppable(stop, mem, t) IN
    /\ mem.request[t].at = "landed"
    /\ stop' = IF stop[t].abort = "none" THEN stop
               ELSE IF moot THEN Lapsed(stop, mem, t)
               ELSE [stop EXCEPT ![t].abort = "done",
                                 ![t].covered = @ \/ mem.request[t].covers]
    /\ mem' = Closed(mem, t)
    /\ Proceeds(mem')
    /\ UNCHANGED <<row, job, host, net, told, used>>

\* A request fails, or is given up after its timeout and may still land.
GiveUpRequest(t) ==
    /\ mem.request[t] # NoRequest /\ Fault
    /\ mem' = Closed(mem, t)
    /\ net' = [net EXCEPT !.strays = IF mem.request[t].at = "out" THEN @ + 1 ELSE @]
    /\ Proceeds(mem')
    /\ UNCHANGED <<row, job, stop, host, told>>

\* The heartbeat of the running turn, or an alarm between turns: the owed abort
\* again, then the coding cascade a confirmed one allows.
FollowUp(t) ==
    /\ run.at = "idle" \/ run.turn = t
    /\ \/ /\ stop[t].abort = "owed" /\ mem.request[t] = NoRequest
          /\ TryAbort(stop, mem, t)
       \/ /\ stop[t].abort = "owed" /\ mem.request[t] # NoRequest
          /\ ~Stoppable(stop, mem, t)
          /\ stop' = Lapsed(stop, mem, t) /\ UNCHANGED mem
       \/ /\ stop[t].abort = "done" /\ stop[t].cascade = "owed" /\ t \notin mem.cascading
          /\ mem' = [mem EXCEPT !.cascading = @ \cup {t}] /\ UNCHANGED stop
    /\ UNCHANGED <<row, job, run, host, net, told, used>>

\* The coding workers were stopped, or the attempt failed and is still owed.
CascadeEnds(t) ==
    /\ t \in mem.cascading
    /\ mem' = [mem EXCEPT !.cascading = @ \ {t}]
    /\ \/ stop' = [stop EXCEPT ![t].cascade = "done"] /\ UNCHANGED used
       \/ Fault /\ UNCHANGED stop
    /\ UNCHANGED <<row, job, run, host, net, told>>

----------------------------------------------------------------------------
(***************************************************************************)
(* The state store.                                                        *)
(***************************************************************************)
Open(t) == row[t].status = "pending"

\* A repeated hand-off keeps the job and its state.
Admitted(t) ==
    [job EXCEPT ![t].state = IF @ = "absent" THEN "admitted" ELSE @]

\* Turns are handed over in order, each after the one before it is confirmed.
\* The runner keeps the turn; the store may not hear of it and hand it over again.
Admit(t) ==
    /\ Open(t) /\ ~row[t].confirmed
    /\ \A u \in Turn : u < t /\ Open(u) => row[u].confirmed
    /\ job' = Admitted(t)
    /\ \/ row' = [row EXCEPT ![t].confirmed = TRUE] /\ UNCHANGED used
       \/ Fault /\ UNCHANGED row
    /\ UNCHANGED <<stop, mem, run, host, net, told>>

\* A person stops the first undelivered turn; it holds the ones behind it that
\* were waiting then.
Press(t) ==
    /\ Open(t) /\ \A u \in Turn : u < t => ~Open(u)
    /\ used.stops < MaxStops /\ used' = [used EXCEPT !.stops = @ + 1]
    /\ \A u \in Turn : Open(u) => row[u].stop = "none"
    /\ \E held \in SUBSET {u \in Turn : u > t /\ Open(u) /\ ~row[u].envelope} :
         row' = [u \in Turn |->
                   IF u = t THEN [row[u] EXCEPT !.stop = "stopped", !.owed = TRUE]
                   ELSE IF u \in held THEN [row[u] EXCEPT !.stop = "held"] ELSE row[u]]
    /\ UNCHANGED <<job, stop, mem, run, host, net, told>>

\* Bug: the turns a stop holds stay held when its turn has ended by itself.
MutantDelivered(rs, t) == [rs EXCEPT ![t].status = "done"]

\* The ending of a turn: one that a stop holds no more is released.
Delivered(rs, t) ==
    [u \in Turn |-> IF u = t THEN [rs[u] EXCEPT !.status = "done"]
                    ELSE IF rs[u].stop = "held" /\ Open(u)
                    THEN [rs[u] EXCEPT !.stop = "none"] ELSE rs[u]]

\* The stopped ending drops the turns the stop held.
Dropped(rs) ==
    [u \in Turn |-> IF rs[u].stop = "held" THEN [rs[u] EXCEPT !.status = "done"] ELSE rs[u]]

\* The store's receipt outbox settles a turn whose terminal it owns.
OutboxDelivers(t) ==
    /\ job[t].state = "deferred" /\ Open(t)
    /\ row' = Delivered(row, t)
    /\ UNCHANGED <<job, stop, mem, run, host, net, told, used>>

----------------------------------------------------------------------------
(***************************************************************************)
(* The alarm of the runner (runOne): one turn at a time, in order.         *)
(***************************************************************************)
At(t, place) == run.turn = t /\ run.at = place
Goes(place) == run' = [run EXCEPT !.at = place]
Resumes(t, place) == run' = [Resting EXCEPT !.turn = t, !.at = place]
Becomes(t, state) == job' = [job EXCEPT ![t].state = state]

\* Bug: a turn that left at the end of the budget holds its thread no longer.
MutantIsNext(t) ==
    /\ job[t].state \in Ordered
    /\ \A u \in Turn : u < t => job[u].state \notin {"admitted", "running"}

\* A deferred turn waits without holding the ones behind it.
IsNext(t) ==
    /\ job[t].state \in Ordered
    /\ \A u \in Turn : u < t => job[u].state \notin Ordered

\* `begin` reads the row; the wait for aborts in flight goes on beside it.
Begin(t) ==
    /\ run.at = "idle" /\ IsNext(t)
    /\ run' = [turn |-> t, at |-> "reading",
               waited |-> AbortsSettled(mem), view |-> row[t]]
    /\ UNCHANGED <<row, job, stop, mem, host, net, told, used>>

\* Where execution resumes from the checkpoints of the row as it was read.
Resume(view) ==
    IF view.stop = "stopped" /\ ~view.receipt THEN "ending"
    ELSE IF view.settled # "none" THEN "reporting"
    ELSE IF view.receipt THEN "observing" ELSE "claimed"

Start(t) ==
    /\ At(t, "reading") /\ run.waited
    /\ IF run.view.status = "done" THEN Becomes(t, "done") /\ run' = Resting
       ELSE IF run.view.stop = "held" THEN Becomes(t, "admitted") /\ run' = Resting
       ELSE Becomes(t, "running") /\ Resumes(t, Resume(run.view))
    /\ UNCHANGED <<row, stop, mem, host, net, told, used>>

\* The dispatch is frozen once, and refused from then on only by the call itself.
Prepare(t) ==
    /\ At(t, "claimed")
    /\ IF ~row[t].envelope /\ row[t].stop # "none"
       THEN Becomes(t, "admitted") /\ run' = Resting /\ UNCHANGED <<row, net>>
       ELSE /\ row' = [row EXCEPT ![t].envelope = TRUE]
            /\ net' = [net EXCEPT !.dispatches = @ \cup {t}]
            /\ Goes("dispatching") /\ UNCHANGED job
    /\ UNCHANGED <<stop, mem, host, told, used>>

RecordReceipt(t) ==
    /\ At(t, "dispatching") /\ host[t] # "none"
    /\ row' = [row EXCEPT ![t].receipt = TRUE]
    /\ Goes("received")
    /\ UNCHANGED <<job, stop, mem, host, net, told, used>>

\* noteReceipt: an abort that may have preceded the submission is owed again.
NoteReceipt(t) ==
    LET m == [mem EXCEPT !.receipts = @ \cup {t}]
        repeat == stop[t].instance /\ stop[t].abort # "none" /\ ~stop[t].covered IN
    /\ At(t, "received")
    /\ IF repeat THEN TryAbort([stop EXCEPT ![t].abort = "owed"], m, t)
       ELSE mem' = m /\ UNCHANGED stop
    /\ Goes("observing")
    /\ UNCHANGED <<row, job, host, net, told, used>>

RecordSettlement(t) ==
    /\ At(t, "observing") /\ host[t] \in Ended
    /\ row' = [row EXCEPT ![t].settled = host[t]]
    /\ Goes("settled")
    /\ UNCHANGED <<job, stop, mem, host, net, told, used>>

NoteSettlement(t) ==
    /\ At(t, "settled")
    /\ mem' = [mem EXCEPT !.settled = @ \cup {t}, !.receipts = @ \ {t}]
    /\ stop' = Noted(stop, mem, t, row[t].settled)
    /\ Goes("reporting")
    /\ UNCHANGED <<row, job, host, net, told, used>>

\* codingReport: a run that read its abort starts the coding cascade still owed.
CodingReport(t) ==
    /\ At(t, "reporting")
    /\ IF row[t].stop = "stopped" /\ row[t].settled = "aborted" /\ stop[t].cascade = "owed"
       THEN /\ stop' = [stop EXCEPT ![t].abort = IF @ = "owed" THEN "done" ELSE @]
            /\ mem' = [mem EXCEPT !.cascading = @ \cup {t}]
       ELSE UNCHANGED <<stop, mem>>
    /\ Goes("ending")
    /\ UNCHANGED <<row, job, host, net, told, used>>

\* The final message is out; a stopped ending first drops what the stop held.
Post(t) ==
    /\ At(t, "ending") /\ t \notin mem.cascading
    /\ row' = IF row[t].stop = "stopped" /\ row[t].settled # "completed"
              THEN Dropped(row) ELSE row
    /\ \/ Goes("posted") /\ UNCHANGED job
       \/ run' = Resting /\ Becomes(t, "deferred")
    /\ UNCHANGED <<stop, mem, host, net, told, used>>

\* Bug: the runner settles the turn only when the state store has recorded it.
MutantSettleTerminal(t) ==
    /\ At(t, "posted") /\ Goes("marking") /\ told' = told \cup {t}
    /\ UNCHANGED <<row, job, stop, mem, host, net, used>>

\* settleTerminal, before the state store is told.
SettleTerminal(t) ==
    /\ At(t, "posted")
    /\ job' = [job EXCEPT ![t] = [state |-> "done", sync |-> TRUE]]
    /\ told' = told \cup {t}
    /\ Goes("marking")
    /\ UNCHANGED <<row, stop, mem, host, net, used>>

\* Afterwards the runner reads its own job, and else the row.
Left(t) == IF job[t].state = "done" THEN job ELSE [job EXCEPT ![t].state = "admitted"]

MarkDelivered(t) ==
    /\ At(t, "marking")
    /\ \/ /\ row' = Delivered(row, t) /\ job' = [job EXCEPT ![t].sync = FALSE, ![t].state = "done"]
          /\ UNCHANGED used
       \/ Fault /\ job' = Left(t)
          /\ row' \in {row, Delivered(row, t)}
    /\ run' = Resting
    /\ UNCHANGED <<stop, mem, host, net, told>>

\* followUps: an ending the state store has not recorded yet.
SyncTerminal(t) ==
    /\ run.at = "idle" /\ job[t].sync
    /\ row' = Delivered(row, t) /\ job' = [job EXCEPT ![t].sync = FALSE]
    /\ UNCHANGED <<stop, mem, run, host, net, told, used>>

CheckDeferred(t) ==
    /\ run.at = "idle" /\ job[t].state = "deferred" /\ ~Open(t)
    /\ Becomes(t, "done")
    /\ UNCHANGED <<row, stop, mem, run, host, net, told, used>>

\* The alarm's budget or a new version ends the observation on purpose, or an
\* attempt fails and will be made again.
Leave(t) ==
    /\ run.turn = t /\ run.at \in Executing \ {"marking"} /\ Fault
    /\ \E state \in {"running", "yielded", "admitted"} : Becomes(t, state)
    /\ run' = Resting
    /\ UNCHANGED <<row, stop, mem, host, net, told>>

\* The instance is replaced; requests it sent may still land.
Evict ==
    /\ Fault
    /\ mem' = Forgotten /\ run' = Resting
    /\ net' = [net EXCEPT !.strays =
                 @ + Cardinality({t \in Turn : mem.request[t].at = "out"})]
    /\ UNCHANGED <<row, job, stop, host, told>>

----------------------------------------------------------------------------
(***************************************************************************)
(* The Flue instance of the thread.                                        *)
(***************************************************************************)
\* A dispatch is keyed: a repeated one finds its submission.
DispatchLands(t) ==
    /\ t \in net.dispatches
    /\ net' = [net EXCEPT !.dispatches = @ \ {t}]
    /\ host' = [host EXCEPT ![t] = IF @ = "none" THEN "running" ELSE @]
    /\ UNCHANGED <<row, job, stop, mem, run, told, used>>

SubmissionEnds(t) ==
    /\ host[t] = "running"
    /\ host' = [host EXCEPT ![t] = "completed"]
    /\ UNCHANGED <<row, job, stop, mem, run, net, told, used>>

\* abort() covers what the instance runs and queues, never a later dispatch.
Aborted == [t \in Turn |-> IF host[t] = "running" THEN "aborted" ELSE host[t]]

AbortLands(t) ==
    /\ mem.request[t].at = "out"
    /\ host' = Aborted
    /\ mem' = [mem EXCEPT !.request[t].at = "landed"]
    /\ UNCHANGED <<row, job, stop, run, net, told, used>>

StrayLands ==
    /\ net.strays > 0
    /\ net' = [net EXCEPT !.strays = @ - 1]
    /\ host' = Aborted
    /\ UNCHANGED <<row, job, stop, mem, run, told, used>>

----------------------------------------------------------------------------
Turns(t) ==
    \/ Begin(t) \/ Start(t) \/ Prepare(t) \/ RecordReceipt(t) \/ NoteReceipt(t)
    \/ RecordSettlement(t) \/ NoteSettlement(t) \/ CodingReport(t) \/ Post(t)
    \/ SettleTerminal(t) \/ MarkDelivered(t)

Rows(t) == SyncTerminal(t) \/ CheckDeferred(t)

Stops(t) == Receive(t) \/ Answer(t) \/ FollowUp(t) \/ CascadeEnds(t)

Next ==
    \/ \E t \in Turn :
         \/ Turns(t) \/ Rows(t) \/ Leave(t) \/ Stops(t) \/ GiveUpRequest(t)
         \/ Admit(t) \/ Press(t) \/ OutboxDelivers(t)
         \/ DispatchLands(t) \/ SubmissionEnds(t) \/ AbortLands(t)
    \/ Evict \/ StrayLands

\* The store's alarm offers hand-offs and notices until they are taken; the
\* runner keeps an alarm armed for as long as it owes anything; every call is
\* bounded, and Flue answers and ends what it runs.
Fairness ==
    \A t \in Turn :
        /\ WF_vars(Turns(t)) /\ SF_vars(Rows(t))
        /\ WF_vars(FollowUp(t)) /\ WF_vars(CascadeEnds(t)) /\ WF_vars(Answer(t))
        /\ WF_vars(Receive(t))
        /\ WF_vars(Admit(t)) /\ WF_vars(OutboxDelivers(t))
        /\ WF_vars(DispatchLands(t)) /\ WF_vars(SubmissionEnds(t)) /\ WF_vars(AbortLands(t))

Spec == Init /\ [][Next]_vars
FairSpec == Spec /\ Fairness

----------------------------------------------------------------------------
(***************************************************************************)
(* Properties.                                                             *)
(***************************************************************************)
\* An abort request the runner waits for (tryAbort) ends no turn but a stopped
\* one: abort() hits whatever the instance runs when it lands, so no turn may
\* start while a request for an earlier one is out, however that one ended and
\* whoever still asks for its abort.
AbortSparesOthers ==
    [][\A t, u \in Turn :
         (/\ mem.request[t].at = "out" /\ mem'.request[t].at = "landed"
          /\ host[u] = "running" /\ host'[u] = "aborted")
         => row[u].stop = "stopped"]_vars

\* A turn whose ending was reported to the state store (markDelivered) is never
\* executed again, not when the store did not hear of it, the runner was
\* replaced meanwhile, or the turn was handed over twice.
NoReplayAfterMark == run.at \in Executing \ {"marking"} => run.turn \notin told

\* Two turns of a thread run at once in Flue only if the earlier one was stopped
\* before its receipt was recorded: it ends as if it had never been dispatched
\* (stopped_before_dispatch), although the call that was out may have landed.
OneRunAtATime ==
    \A t, u \in Turn :
        t < u /\ host[t] = "running" /\ host[u] = "running"
        => row[t].stop = "stopped" /\ ~row[t].receipt

\* Every turn ends in the state store: the hand-off, a stop and its holds, an
\* eviction at any point, a lost ending and the outbox of a deferred turn
\* leave none behind (runThreadRunnerAlarm re-arms for whatever is owed).
EveryTurnEnds == \A t \in Turn : Open(t) ~> ~Open(t)

\* A stop the runner has acknowledged still aborts the run it was pressed
\* against: while that run is observed at Flue, its abort is owed (RunnerStops:
\* the notice stays unacknowledged until the submission is known, so that the
\* abort is repeated then).
AcknowledgedStopAborts ==
    \A t \in Turn :
        /\ row[t].stop = "stopped" /\ ~row[t].owed
        /\ host[t] = "running" /\ At(t, "observing")
        => stop[t].abort = "owed"
=============================================================================
