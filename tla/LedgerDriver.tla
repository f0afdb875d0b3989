---------------------------- MODULE LedgerDriver ----------------------------
(***************************************************************************)
(* How this repository drives the work ledger: DurableRunDriver            *)
(* (src/work/driver.ts) claims runs and hands each claim to the Slack      *)
(* handler (src/slack/ledger-turn-driver.ts over src/slack/run-turn.ts),   *)
(* which records every boundary through the lifecycle before it crosses    *)
(* it, dispatches the turn to the Agent, and posts the reply.              *)
(*                                                                         *)
(* Every action that touches the ledger is an action of WorkStore joined   *)
(* to what its caller does: the whole is WorkStore with the callers this   *)
(* repository has.  A handler may stop between any two steps (Crash); the  *)
(* Agent is another process and goes on.  Store writes are local and do    *)
(* not fail; they can be refused, which ends the turn's attempt.           *)
(***************************************************************************)
EXTENDS WorkStore

CONSTANTS
    Staging,        \* TRUE on Cloudflare: the Agent reads the observation staged beside it
    TurnAttempts,   \* MAX_TURN_ATTEMPTS
    PostDispatchAttempts,  \* MAX_POST_DISPATCH_ATTEMPTS
    MaxClaims,      \* the driver's maxClaims; its concurrency is as large
    MaxTrouble      \* bound on crashes, interruptions, lost renewals and the like

ASSUME DriverAssumption ==
    /\ Staging \in BOOLEAN
    /\ TurnAttempts \in Nat \ {0} /\ PostDispatchAttempts \in Nat \ {0}
    /\ MaxClaims \in Nat \ {0} /\ MaxTrouble \in Nat

VARIABLES
    drain,    \* the drain loop of the process
    worker,   \* the handler of each claim, by run and fence
    job,      \* the ledger rows of turn_jobs
    agent,    \* the Agent's submission for each run, keyed by the job
    slack,    \* what Slack shows of each run and what the presentation row knows
    trouble   \* how much trouble is left

driverVars == <<drain, worker, job, agent, slack, trouble>>
allVars == <<vars, driverVars>>

Control == {"idle", "claimed", "prepare", "repaired", "create", "route", "freeze",
            "stage", "dispatch", "receipt", "observe", "interrupted", "notice",
            "settle", "failing", "unrecorded", "respond", "start", "post", "ack",
            "finalize", "close", "classify", "rejected", "replay", "release"}
Verdict == {"none", "completed", "requeue", "recovery_required"}
Sent == {"none", "ok", "failed", "unknown"}

\* failed: the turn caught an error, and its reply tells of the failure.
Worker == [pc: Control, phase: {"execute", "delivery"}, verdict: Verdict,
           sent: Sent, lost: BOOLEAN, failed: BOOLEAN]
NoWorker == [pc |-> "idle", phase |-> "execute", verdict |-> "none",
             sent |-> "none", lost |-> FALSE, failed |-> FALSE]

Job == [state: {"none", "pending", "recovery", "retired"}, attempts: Nat,
        envelope: 0..MaxFence, receipt: BOOLEAN,
        settlement: {"none", "completed", "failed"}]
NoJob == [state |-> "none", attempts |-> 0, envelope |-> 0, receipt |-> FALSE,
          settlement |-> "none"]

Submission == [state: {"none", "queued", "invoked", "completed", "failed", "refused"},
               staged: 0..MaxFence]

\* replies counts the replies the user can see that were posted under an attempt
\* of the ledger; beside says that a failure was shown that no attempt stands
\* for; known is the presentation row's acknowledgement of a message; repair is
\* the model-repair reply.
Visible == [replies: 0..2, beside: BOOLEAN, known: BOOLEAN, repair: BOOLEAN]
NothingVisible == [replies |-> 0, beside |-> FALSE, known |-> FALSE, repair |-> FALSE]

DriverInit ==
    /\ Init
    /\ drain = [phase |-> "idle", left |-> 0, stop |-> FALSE, batch |-> {}]
    /\ worker = [r \in Run |-> [f \in Token |-> NoWorker]]
    /\ job = [r \in Run |-> NoJob]
    /\ agent = [r \in Run |-> [state |-> "none", staged |-> 0]]
    /\ slack = [r \in Run |-> NothingVisible]
    /\ trouble = MaxTrouble

-----------------------------------------------------------------------------
At(r, f, pc) == worker[r][f].pc = pc
Goto(r, f, pc) == worker' = [worker EXCEPT ![r][f].pc = pc]
Return(r, f, verdict) ==
    worker' = [worker EXCEPT ![r][f] = [@ EXCEPT !.pc = "release", !.verdict = verdict]]
Retire(r) == job' = [job EXCEPT ![r].state = "retired"]
Trouble == trouble > 0 /\ trouble' = trouble - 1

Idle(r) == \A f \in Token : At(r, f, "idle")

\* latestRunExecution, as classifyExecutionFailure reads it: nothing says that
\* the model was reached.
NotSubmitted(r) ==
    \A f \in Token :
      (execs[r][f].inv # "absent" /\ \A g \in Token : g > f => execs[r][g].inv = "absent")
        => execs[r][f].inv \in {"not_invoked", "ready"} \/ execs[r][f].outcome = "not_submitted"

\* recoveredTerminalDisposition.
RecoveredDisposition(r) ==
    IF \E f \in Token :
         /\ execs[r][f].inv = "settled" /\ execs[r][f].outcome # "succeeded"
         /\ \A g \in Token : g > f => execs[r][g].inv = "absent"
    THEN "failed" ELSE "succeeded"

-----------------------------------------------------------------------------
(* The drain loop *)

\* admitCanonical admits the run and queues its job in one transaction.
Receive(r, stamp) ==
    /\ Admit(r, stamp)
    /\ job' = [job EXCEPT ![r].state = "pending"]
    /\ UNCHANGED <<drain, worker, agent, slack, trouble>>

\* An alarm (or, on Node, a wake pass) drains ledger runs, whatever it fired for.
Wake ==
    /\ drain.phase = "idle"
    /\ drain' = [phase |-> "claiming", left |-> MaxClaims, stop |-> FALSE, batch |-> {}]
    /\ UNCHANGED <<vars, worker, job, agent, slack, trouble>>

\* The alarm re-arms itself only while hasPending('ledger').
WakeForWork == Wake /\ \E r \in Run : job[r].state = "pending"

\* A claim is made while the handlers of the batch are at work.
MutantDrainClaim(r) ==
    /\ drain.phase # "idle" /\ drain.left > 0
    /\ Claim(r)
    /\ drain' = [drain EXCEPT !.left = @ - 1, !.batch = @ \cup {<<r, runs'[r].fence>>}]
    /\ worker' = [worker EXCEPT ![r][runs'[r].fence] =
         [NoWorker EXCEPT !.pc = "claimed",
            !.phase = IF runs'[r].status = "response_ready" THEN "delivery" ELSE "execute"]]
    /\ UNCHANGED <<job, agent, slack, trouble>>

DrainClaim(r) ==
    /\ drain.phase = "claiming" /\ drain.left > 0
    /\ Claim(r)
    /\ drain' = [drain EXCEPT !.left = @ - 1, !.batch = @ \cup {<<r, runs'[r].fence>>}]
    /\ worker' = [worker EXCEPT ![r][runs'[r].fence] =
         [NoWorker EXCEPT !.pc = "claimed",
            !.phase = IF runs'[r].status = "response_ready" THEN "delivery" ELSE "execute"]]
    /\ UNCHANGED <<job, agent, slack, trouble>>

\* A batch ends when nothing can be claimed or the drain has had its claims.
EndBatch ==
    /\ drain.phase = "claiming"
    /\ IF drain.left > 0 THEN ClaimNothing ELSE UNCHANGED vars
    /\ drain' = [drain EXCEPT !.phase = IF drain.batch # {} THEN "handling" ELSE "idle"]
    /\ UNCHANGED <<worker, job, agent, slack, trouble>>

\* A requeue leaves the drain waiting for good.
MutantEndDrain ==
    /\ drain.phase = "handling" /\ ~drain.stop
    /\ \A c \in drain.batch : At(c[1], c[2], "idle")
    /\ drain' = [drain EXCEPT
         !.phase = IF drain.left = 0 THEN "idle" ELSE "claiming", !.batch = {}]
    /\ UNCHANGED <<vars, worker, job, agent, slack, trouble>>

\* The drain waits for the handlers it started; a requeue or a lost renewal
\* ends it.
EndDrain ==
    /\ drain.phase = "handling"
    /\ \A c \in drain.batch : At(c[1], c[2], "idle")
    /\ drain' = [drain EXCEPT
         !.phase = IF drain.stop \/ drain.left = 0 THEN "idle" ELSE "claiming",
         !.batch = {}]
    /\ UNCHANGED <<vars, worker, job, agent, slack, trouble>>

Finish(r, f, stop) ==
    /\ worker' = [worker EXCEPT ![r][f] = NoWorker]
    /\ drain' = [drain EXCEPT !.stop = @ \/ stop]

\* The handler has returned: its verdict is written through the lease, unless
\* a renewal failed, in which case the lease is left to lapse.
ReleaseClaim(r, f) ==
    LET w == worker[r][f] IN
    /\ w.pc = "release"
    /\ \/ /\ w.verdict = "completed" \/ w.lost
          /\ Finish(r, f, w.verdict # "completed")
          /\ UNCHANGED vars
       \/ /\ w.verdict = "requeue" /\ ~w.lost
          /\ ReleaseRequeued(r, f) /\ Finish(r, f, TRUE)
       \/ /\ w.verdict = "recovery_required" /\ ~w.lost
          /\ ReleaseToRecovery(r, f) /\ Finish(r, f, FALSE)
    /\ UNCHANGED <<job, agent, slack, trouble>>

\* A release the store refuses rejects the whole drain; the other handlers of
\* the batch go on without it.
ReleaseRefused(r, f) ==
    LET w == worker[r][f] IN
    /\ w.pc = "release" /\ w.verdict # "completed" /\ ~w.lost
    /\ ~CanRelease(r, f)
    /\ worker' = [worker EXCEPT ![r][f] = NoWorker]
    /\ drain' = [drain EXCEPT !.phase = "idle", !.batch = {}]
    /\ UNCHANGED <<vars, job, agent, slack, trouble>>

-----------------------------------------------------------------------------
(* The handler before the dispatch *)

\* The handlers of a batch start when it is complete.
Started(r, f) == At(r, f, "claimed") /\ drain.phase # "claiming"

\* The job is gone or in recovery: nothing can be executed.
PayloadMissing(r, f) ==
    /\ Started(r, f) /\ job[r].state # "pending"
    /\ Return(r, f, "recovery_required")
    /\ UNCHANGED <<vars, drain, job, agent, slack, trouble>>

InstallationUnavailable(r, f) ==
    /\ Started(r, f) /\ job[r].state = "pending"
    /\ Trouble
    /\ Return(r, f, "requeue")
    /\ UNCHANGED <<vars, drain, job, agent, slack>>

InstallationEnded(r, f) ==
    /\ Started(r, f) /\ job[r].state = "pending"
    /\ job' = [job EXCEPT ![r].state = "recovery"]
    /\ Return(r, f, "recovery_required")
    /\ UNCHANGED <<vars, drain, agent, slack, trouble>>

BeginAttempt(r, f) ==
    /\ Started(r, f) /\ job[r].state = "pending"
    /\ job' = [job EXCEPT ![r].attempts = @ + 1]
    /\ Goto(r, f, IF worker[r][f].phase = "delivery" THEN "replay" ELSE "prepare")
    /\ UNCHANGED <<vars, drain, agent, slack, trouble>>

\* The turn's model cannot run: the turn answers that, through a presenter
\* that has no lifecycle, and is delivered as far as its job is concerned.
AnswerModelRepair(r, f) ==
    /\ At(r, f, "prepare") /\ job[r].envelope = 0
    /\ slack' = [slack EXCEPT ![r].repair = TRUE]
    /\ Goto(r, f, "repaired")
    /\ UNCHANGED <<vars, drain, job, agent, trouble>>

RetireRepairedJob(r, f) ==
    /\ At(r, f, "repaired")
    /\ Retire(r)
    /\ Goto(r, f, "classify")
    /\ UNCHANGED <<vars, drain, agent, slack, trouble>>

Prepare(r, f) ==
    /\ At(r, f, "prepare")
    /\ \/ PrepareRunInput(r)
       \/ /\ runs[r].prepared /\ runs[r].status \in {"input_ready", "executing"}
          /\ UNCHANGED vars
    /\ Goto(r, f, "create")
    /\ UNCHANGED <<drain, job, agent, slack, trouble>>

Create(r, f) ==
    /\ At(r, f, "create")
    /\ CreateRunExecution(r, f)
    /\ Goto(r, f, "route")
    /\ UNCHANGED <<drain, job, agent, slack, trouble>>

\* A saved settlement skips the dispatch and the observation.
Route(r, f) ==
    /\ At(r, f, "route")
    /\ RecordRunExecutionRoute(r, f)
    /\ Goto(r, f, CASE job[r].settlement = "none" -> "freeze"
                    [] job[r].settlement = "completed" -> "settle"
                    [] job[r].settlement = "failed" -> "failing")
    /\ UNCHANGED <<drain, job, agent, slack, trouble>>

\* prepareFlueDispatch: the envelope and the observation, which names the
\* execution, are those of the first attempt for ever.
Freeze(r, f) ==
    /\ At(r, f, "freeze")
    /\ job' = [job EXCEPT ![r].envelope = IF @ = 0 THEN f ELSE @]
    /\ Goto(r, f, IF job[r].receipt THEN "observe" ELSE "stage")
    /\ UNCHANGED <<vars, drain, agent, slack, trouble>>

\* The first input staged for a turn wins.
Stage(r, f) ==
    /\ At(r, f, "stage")
    /\ agent' = [agent EXCEPT ![r].staged = IF Staging /\ @ = 0 THEN f ELSE @]
    /\ Goto(r, f, "dispatch")
    /\ UNCHANGED <<vars, drain, job, slack, trouble>>

\* Dispatch is idempotent under the job's key.
Dispatch(r, f) ==
    /\ At(r, f, "dispatch")
    /\ agent' = [agent EXCEPT ![r].state = IF @ = "none" THEN "queued" ELSE @]
    /\ \/ Goto(r, f, "receipt") /\ UNCHANGED trouble
       \/ Goto(r, f, "interrupted") /\ Trouble
    /\ UNCHANGED <<vars, drain, job, slack>>

\* The instance contradicts the envelope: an operator has to reconcile it.
DispatchConflict(r, f) ==
    /\ At(r, f, "dispatch")
    /\ Trouble
    /\ job' = [job EXCEPT ![r].state = "recovery"]
    /\ Goto(r, f, "notice")
    /\ UNCHANGED <<vars, drain, agent, slack>>

RecordReceipt(r, f) ==
    /\ At(r, f, "receipt")
    /\ job' = [job EXCEPT ![r].receipt = TRUE]
    /\ Goto(r, f, "observe")
    /\ UNCHANGED <<vars, drain, agent, slack, trouble>>

\* Staging, dispatch or the observation breaks off: nothing is decided.
ObservationBreaks(r, f) ==
    /\ worker[r][f].pc \in {"stage", "dispatch", "observe"}
    /\ Trouble
    /\ Goto(r, f, "interrupted")
    /\ UNCHANGED <<vars, drain, job, agent, slack>>

Reattach(r, f) ==
    /\ At(r, f, "interrupted")
    /\ IF job[r].attempts < PostDispatchAttempts
       THEN Return(r, f, "requeue") ELSE Goto(r, f, "notice")
    /\ UNCHANGED <<vars, drain, job, agent, slack, trouble>>

\* deliverDurableRecoveryFailure: the user is told, or the job is left to an
\* operator; either way the run is.
Notice(r, f) ==
    /\ At(r, f, "notice")
    /\ \E state \in {"retired", "recovery"} : job' = [job EXCEPT ![r].state = state]
    /\ Return(r, f, "recovery_required")
    /\ UNCHANGED <<vars, drain, agent, slack, trouble>>

-----------------------------------------------------------------------------
(* The Agent *)

Correlation(r) ==
    IF agent[r].staged # 0 THEN agent[r].staged ELSE job[r].envelope

Submit(r, state) == agent' = [agent EXCEPT ![r].state = state]

\* Before its first model operation the submission records the invocation of
\* the execution it was given, and stops if that is refused.
AgentInvokes(r) ==
    LET f == Correlation(r) IN
    /\ agent[r].state = "queued" /\ job[r].state # "retired"
    /\ \/ MarkRunExecutionInvoked(r, f)
       \/ CurrentExecution(r, f) /\ execs[r][f].inv = "invoked" /\ UNCHANGED vars
    /\ Submit(r, "invoked")
    /\ UNCHANGED <<drain, worker, job, slack, trouble>>

AgentRefused(r) ==
    LET f == Correlation(r) IN
    /\ agent[r].state = "queued" /\ job[r].state # "retired"
    /\ ~(CurrentExecution(r, f) /\ execs[r][f].inv \in {"ready", "invoked"})
    /\ Submit(r, "refused")
    /\ UNCHANGED <<vars, drain, worker, job, slack, trouble>>

\* The submission fails before its first model operation: its credentials are
\* refused, or its delivered job no longer matches the observation.
AgentNeverStarts(r) ==
    /\ agent[r].state = "queued"
    /\ Submit(r, "failed")
    /\ UNCHANGED <<vars, drain, worker, job, slack, trouble>>

AgentSettles(r) ==
    /\ agent[r].state = "invoked"
    /\ \E state \in {"completed", "failed"} : Submit(r, state)
    /\ UNCHANGED <<vars, drain, worker, job, slack, trouble>>

\* The Agent's isolate restarts: the submission resumes and marks again.
AgentRestarts(r) ==
    /\ agent[r].state = "invoked"
    /\ Trouble
    /\ Submit(r, "queued")
    /\ UNCHANGED <<vars, drain, worker, job, slack>>

-----------------------------------------------------------------------------
(* The handler after the settlement *)

Ended(r) == agent[r].state \in {"completed", "failed", "refused"}

\* The Agent's own word for the failure is saved.
MutantRecordSettlement(r, f) ==
    /\ At(r, f, "observe") /\ Ended(r)
    /\ job' = [job EXCEPT ![r].settlement = agent[r].state]
    /\ Goto(r, f, IF agent[r].state = "completed" THEN "settle" ELSE "failing")
    /\ UNCHANGED <<vars, drain, agent, slack, trouble>>

RecordSettlement(r, f) ==
    /\ At(r, f, "observe") /\ Ended(r)
    /\ job' = [job EXCEPT ![r].settlement =
         IF agent[r].state = "completed" THEN "completed" ELSE "failed"]
    /\ Goto(r, f, IF agent[r].state = "completed" THEN "settle" ELSE "failing")
    /\ UNCHANGED <<vars, drain, agent, slack, trouble>>

\* The settlement is written twice.
MutantSettleExecution(r, f) ==
    /\ At(r, f, "settle")
    /\ SettleRunExecution(r, f, "settled", "succeeded")
    /\ UNCHANGED driverVars

SettleExecution(r, f) ==
    /\ At(r, f, "settle")
    /\ SettleRunExecution(r, f, "settled", "succeeded")
    /\ Goto(r, f, "respond")
    /\ UNCHANGED <<drain, job, agent, slack, trouble>>

\* The turn has caught an error, the Agent's or its own.  A failure of some
\* kinds is recorded as one that never reached the model.
SettleFailure(r, f) ==
    /\ At(r, f, "failing")
    /\ \/ SettleRunExecution(r, f, "settled", "failed")
       \/ SettleRunExecution(r, f, "not_invoked", "not_submitted")
    /\ worker' = [worker EXCEPT ![r][f] = [@ EXCEPT !.pc = "respond", !.failed = TRUE]]
    /\ UNCHANGED <<drain, job, agent, slack, trouble>>

\* A suspended installation gets no reply to a failed turn.
WithholdReply(r, f) ==
    /\ At(r, f, "respond") /\ worker[r][f].failed
    /\ Retire(r)
    /\ Goto(r, f, "classify")
    /\ UNCHANGED <<vars, drain, agent, slack, trouble>>

EndWithoutReply(r, f) ==
    /\ At(r, f, "respond") /\ ~worker[r][f].failed
    /\ SettleRunWithoutDelivery(r, f, "no_op")
    /\ Goto(r, f, "close")
    /\ UNCHANGED <<drain, job, agent, slack, trouble>>

\* The presentation row is finalized already: nothing is posted, and the job is
\* delivered.
AlreadyShown(r, f) ==
    /\ At(r, f, "respond") /\ slack[r].known
    /\ Retire(r)
    /\ Goto(r, f, "classify")
    /\ UNCHANGED <<vars, drain, agent, slack, trouble>>

Respond(r, f) ==
    /\ At(r, f, "respond") /\ ~slack[r].known
    /\ \E a \in Answer, w \in Rendering : RecordRunResponse(r, f, a, w)
    /\ Goto(r, f, "start")
    /\ UNCHANGED <<drain, job, agent, slack, trouble>>

StartDelivery(r, f) ==
    /\ At(r, f, "start")
    /\ \E m \in Method : StartRunDelivery(r, f, m)
    /\ Goto(r, f, "post")
    /\ UNCHANGED <<drain, job, agent, slack, trouble>>

\* Slack takes the reply, is known to have rejected it, or leaves it unknown.
Post(r, f) ==
    /\ At(r, f, "post")
    /\ \E sent \in {"ok", "failed", "unknown"}, visible \in BOOLEAN :
         /\ (sent = "ok" => visible) /\ (sent = "failed" => ~visible)
         /\ slack' = [slack EXCEPT ![r].replies =
              IF visible /\ @ < 2 THEN @ + 1 ELSE @]
         /\ worker' = [worker EXCEPT ![r][f] = [@ EXCEPT
              !.pc = IF sent = "ok" THEN "ack" ELSE "finalize", !.sent = sent]]
    /\ UNCHANGED <<vars, drain, job, agent, trouble>>

\* The presentation row learns of the reply before the ledger does.
Acknowledge(r, f) ==
    /\ At(r, f, "ack")
    /\ slack' = [slack EXCEPT ![r].known = TRUE]
    /\ Goto(r, f, "finalize")
    /\ UNCHANGED <<vars, drain, job, agent, trouble>>

\* A reply of unknown fate is booked as rejected, to be retried.
MutantFinalize(r, f) ==
    LET a == runs[r].attempt
        w == worker[r][f] IN
    /\ At(r, f, "finalize") /\ a # None /\ a[1] = f
    /\ \/ /\ w.sent = "ok"
          /\ FinalizeDelivered(r, f, a, "succeeded")
          /\ Goto(r, f, "close")
       \/ /\ w.sent # "ok"
          /\ FinalizeFailed(r, f, a) /\ Goto(r, f, "classify")
    /\ UNCHANGED <<drain, job, agent, slack, trouble>>

\* After a confirmed or unknown failure a replay ends the attempt itself; a
\* turn throws, and the failure is classified.
Finalize(r, f) ==
    LET a == runs[r].attempt
        w == worker[r][f] IN
    /\ At(r, f, "finalize") /\ a # None /\ a[1] = f
    /\ \/ /\ w.sent = "ok"
          /\ FinalizeDelivered(r, f, a,
               IF w.phase = "delivery" THEN RecoveredDisposition(r)
               ELSE IF w.failed THEN "failed" ELSE "succeeded")
          /\ Goto(r, f, "close")
       \/ /\ w.sent = "unknown"
          /\ FinalizeUnknown(r, f, a) /\ Goto(r, f, "classify")
       \/ /\ w.sent = "failed"
          /\ FinalizeFailed(r, f, a)
          /\ Goto(r, f, IF w.phase = "delivery" THEN "rejected" ELSE "classify")
    /\ UNCHANGED <<drain, job, agent, slack, trouble>>

Close(r, f) ==
    /\ At(r, f, "close")
    /\ Retire(r)
    /\ Return(r, f, "completed")
    /\ UNCHANGED <<vars, drain, agent, slack, trouble>>

RefusesReceipt(r, f) ==
    LET a == runs[r].attempt
        sent == worker[r][f].sent IN
    /\ At(r, f, "finalize")
    /\ \/ a = None \/ a[1] # f \/ ~CanFinalize(r, f, a)
       \/ sent = "ok" /\ runs[r].disposition = "quarantined"
       \/ sent = "unknown" /\ runs[r].status = "settled"

\* A ledger write that the store refuses throws out of the turn, before the
\* Agent is asked and once it is to be replied to.
Refuses(r, f) ==
    \/ At(r, f, "prepare") /\ IF runs[r].prepared
         THEN runs[r].status \notin {"input_ready", "executing"}
         ELSE runs[r].status \notin {"admitted", "queued", "preparing_input"}
    \/ At(r, f, "create") /\ ~CanCreateExecution(r, f)
    \/ At(r, f, "route") /\ execs[r][f] # [inv |-> "not_invoked", outcome |-> "pending"]
    \/ /\ At(r, f, "failing")
       /\ \/ ~CanSettleExecution(r, f, "settled", "failed")
          \/ ~CanSettleExecution(r, f, "not_invoked", "not_submitted")
    \/ At(r, f, "respond") /\ ~CanRecordResponse(r, f)
    \/ At(r, f, "start") /\ \A m \in Method : ~CanStartDelivery(r, f, <<f, m>>)
    \/ worker[r][f].phase = "execute" /\ RefusesReceipt(r, f)

WriteRefused(r, f) ==
    /\ Refuses(r, f)
    /\ Goto(r, f, "classify")
    /\ UNCHANGED <<vars, drain, job, agent, slack, trouble>>

\* The settlement of an answered turn is refused where the turn catches its
\* errors.  The lifecycle records nothing any more, and the failure is shown.
SettlementRefused(r, f) ==
    /\ At(r, f, "settle") /\ ~CanSettleExecution(r, f, "settled", "succeeded")
    /\ Goto(r, f, "unrecorded")
    /\ UNCHANGED <<vars, drain, job, agent, slack, trouble>>

\* No reply of the ledger is on its way: the presentation row has no intent.
NoReplyOnItsWay(r) == runs[r].status # "response_ready" /\ runs[r].delivery = "not_ready"

\* A failure final without an attempt.  Nothing appears when the installation is
\* suspended, Slack rejects it or the presentation row has another final; the
\* job is retired unless the post throws.
PostUnrecorded(r, f) ==
    /\ At(r, f, "unrecorded")
    /\ \E shown, acknowledged \in BOOLEAN :
         /\ shown => ~slack[r].known
         /\ acknowledged => shown /\ NoReplyOnItsWay(r)
         /\ slack' = [slack EXCEPT ![r].beside = @ \/ shown, ![r].known = @ \/ acknowledged]
    /\ Retire(r) \/ UNCHANGED job
    /\ Goto(r, f, "classify")
    /\ UNCHANGED <<vars, drain, agent, trouble>>

\* Anything else that goes wrong in a turn.  Once it is with the Agent the turn
\* catches the error and replies with a failure, unless its object is being
\* replaced.
TurnThrows(r, f) ==
    /\ \/ /\ worker[r][f].pc \in {"prepare", "create", "route", "failing", "respond"}
          /\ Goto(r, f, "classify")
       \/ /\ \/ worker[r][f].pc \in {"freeze", "receipt"}
             \/ At(r, f, "observe") /\ Ended(r)
          /\ \E pc \in {"failing", "classify"} : Goto(r, f, pc)
    /\ Trouble
    /\ UNCHANGED <<vars, drain, job, agent, slack>>

\* classifyExecutionFailure.
ClassifyDecided(r, f) ==
    /\ At(r, f, "classify")
    /\ runs[r].status \in {"settled", "recovery_required"} \/ runs[r].delivery = "unknown"
    /\ Retire(r)
    /\ Return(r, f, "completed")
    /\ UNCHANGED <<vars, drain, agent, slack, trouble>>

\* A rejected reply is retried while the turn has attempts left.
RetryRejected(r, f) ==
    /\ IF job[r].attempts < TurnAttempts
       THEN Return(r, f, "requeue") /\ UNCHANGED <<vars, job>>
       ELSE IF CanSettleWithoutDelivery(r, f)
       THEN /\ SettleRunWithoutDelivery(r, f, "failed")
            /\ Retire(r)
            /\ Return(r, f, "completed")
       ELSE Return(r, f, "recovery_required") /\ UNCHANGED <<vars, job>>
    /\ UNCHANGED <<drain, agent, slack, trouble>>

ClassifyRejected(r, f) ==
    /\ At(r, f, "classify")
    /\ runs[r].status = "response_ready" /\ runs[r].delivery = "failed"
    /\ RetryRejected(r, f)

Unsubmitted(r) ==
    runs[r].status \in {"preparing_input", "input_ready", "executing"} /\ NotSubmitted(r)

ClassifyUnsubmitted(r, f) ==
    /\ At(r, f, "classify") /\ Unsubmitted(r)
    /\ IF job[r].attempts < TurnAttempts
       THEN Return(r, f, "requeue") /\ UNCHANGED job
       ELSE Return(r, f, "recovery_required") /\ Retire(r)
    /\ UNCHANGED <<vars, drain, agent, slack, trouble>>

ClassifyAmbiguous(r, f) ==
    /\ At(r, f, "classify")
    /\ runs[r].status \notin {"settled", "recovery_required"} /\ runs[r].delivery # "unknown"
    /\ ~(runs[r].status = "response_ready" /\ runs[r].delivery = "failed")
    /\ ~Unsubmitted(r)
    /\ Retire(r)
    /\ Return(r, f, "recovery_required")
    /\ UNCHANGED <<vars, drain, agent, slack, trouble>>

-----------------------------------------------------------------------------
(* deliverPersistedResponse: a claim of a run whose response is recorded *)

\* A pending attempt is taken for a delivered one.
MutantReplayBooks(r, f) ==
    /\ At(r, f, "replay")
    /\ runs[r].delivery = "pending"
    /\ FinalizeDelivered(r, f, runs[r].attempt, RecoveredDisposition(r))
    /\ Goto(r, f, "close")
    /\ UNCHANGED <<drain, job, agent, slack, trouble>>

\* The presentation row proves that the pending attempt was shown.
ReplayBooks(r, f) ==
    /\ At(r, f, "replay")
    /\ runs[r].delivery = "pending" /\ slack[r].known
    /\ FinalizeDelivered(r, f, runs[r].attempt, RecoveredDisposition(r))
    /\ Goto(r, f, "close")
    /\ UNCHANGED <<drain, job, agent, slack, trouble>>

\* A pending attempt is simply posted again.
MutantReplayUnresolved(r, f) ==
    /\ At(r, f, "replay")
    /\ runs[r].delivery = "pending" /\ ~slack[r].known
    /\ Goto(r, f, "post")
    /\ UNCHANGED <<vars, drain, job, agent, slack, trouble>>

\* Nothing says what became of the pending attempt.
ReplayUnresolved(r, f) ==
    /\ At(r, f, "replay")
    /\ runs[r].delivery = "pending" /\ ~slack[r].known
    /\ \E state \in {"retired", "recovery"} : job' = [job EXCEPT ![r].state = state]
    /\ Return(r, f, "recovery_required")
    /\ UNCHANGED <<vars, drain, agent, slack, trouble>>

\* A rejected file completion is replaced by its text.
ReplayFallback(r, f) ==
    /\ At(r, f, "replay")
    /\ \E w \in Rendering : ReplaceRendering(r, f, w)
    /\ UNCHANGED driverVars

ReplayStarts(r, f) ==
    /\ At(r, f, "replay")
    /\ \E m \in Method : StartRunDelivery(r, f, m)
    /\ Goto(r, f, "post")
    /\ UNCHANGED <<drain, job, agent, slack, trouble>>

\* The reply is shown, but its terminal presentation needs a repair first.
ReplayWaits(r, f) ==
    /\ worker[r][f].phase = "delivery"
    /\ \/ At(r, f, "replay") /\ runs[r].delivery = "pending" /\ slack[r].known
       \/ At(r, f, "finalize") /\ worker[r][f].sent = "ok"
    /\ Trouble
    /\ Return(r, f, "requeue")
    /\ UNCHANGED <<vars, drain, job, agent, slack>>

ReplayRejected(r, f) == At(r, f, "rejected") /\ RetryRejected(r, f)

\* A replay whose attempt the store refuses to start or to end retires its job;
\* one refused what it books from the presentation row throws, and keeps it.
ReplayRefused(r, f) ==
    LET books == At(r, f, "replay") /\ runs[r].delivery = "pending" IN
    /\ \/ /\ books /\ slack[r].known
          /\ ~CanFinalize(r, f, runs[r].attempt) \/ runs[r].disposition = "quarantined"
       \/ At(r, f, "replay") /\ ~books /\ \A m \in Method : ~CanStartDelivery(r, f, <<f, m>>)
       \/ worker[r][f].phase = "delivery" /\ RefusesReceipt(r, f)
    /\ job' = [job EXCEPT ![r].state = IF books THEN @ ELSE "retired"]
    /\ Return(r, f, "recovery_required")
    /\ UNCHANGED <<vars, drain, agent, slack, trouble>>

-----------------------------------------------------------------------------
(* Crashes, leases and the operator *)

\* A restart drops the leases of the process without asking the store.
MutantCrash ==
    /\ drain.phase # "idle" \/ \E r \in Run : ~Idle(r)
    /\ Trouble
    /\ worker' = [r \in Run |-> [f \in Token |-> NoWorker]]
    /\ drain' = [drain EXCEPT !.phase = "idle", !.batch = {}]
    /\ runs' = [r \in Run |-> [runs[r] EXCEPT !.lease = "none"]]
    /\ UNCHANGED <<execs, trail, job, agent, slack>>

Crash ==
    /\ drain.phase # "idle" \/ \E r \in Run : ~Idle(r)
    /\ Trouble
    /\ worker' = [r \in Run |-> [f \in Token |-> NoWorker]]
    /\ drain' = [drain EXCEPT !.phase = "idle", !.batch = {}]
    /\ UNCHANGED <<vars, job, agent, slack>>

\* A live handler fails to renew in time, and may not know of it yet.
RenewalFails(r, f) ==
    /\ ~At(r, f, "idle") /\ ~At(r, f, "claimed") /\ runs[r].fence = f
    /\ Trouble
    /\ LeaseLapses(r)
    /\ \E lost \in BOOLEAN : worker' = [worker EXCEPT ![r][f].lost = @ \/ lost]
    /\ UNCHANGED <<drain, job, agent, slack>>

\* Nobody renews the lease of a handler that is gone.
AbandonedLeaseLapses(r) ==
    /\ Idle(r)
    /\ LeaseLapses(r)
    /\ UNCHANGED driverVars

\* The admin API: retire-stale asks for an executing run without a live lease.
RetireStale(r) ==
    /\ runs[r].status = "executing" /\ runs[r].lease # "held"
    /\ RequireRecovery(r)
    /\ UNCHANGED driverVars

Quarantine(r) ==
    /\ QuarantineRun(r)
    /\ UNCHANGED driverVars

-----------------------------------------------------------------------------
Attempt(r, f) ==
    \/ PayloadMissing(r, f) \/ InstallationUnavailable(r, f) \/ InstallationEnded(r, f)
    \/ BeginAttempt(r, f) \/ AnswerModelRepair(r, f) \/ RetireRepairedJob(r, f)
    \/ Prepare(r, f) \/ Create(r, f) \/ Route(r, f) \/ Freeze(r, f) \/ Stage(r, f)
    \/ Dispatch(r, f) \/ DispatchConflict(r, f) \/ RecordReceipt(r, f)
    \/ ObservationBreaks(r, f) \/ Reattach(r, f) \/ Notice(r, f)

Reply(r, f) ==
    \/ RecordSettlement(r, f) \/ SettleExecution(r, f) \/ SettleFailure(r, f)
    \/ WithholdReply(r, f) \/ EndWithoutReply(r, f) \/ AlreadyShown(r, f)
    \/ Respond(r, f) \/ StartDelivery(r, f) \/ Post(r, f) \/ Acknowledge(r, f)
    \/ Finalize(r, f) \/ Close(r, f)

Fail(r, f) ==
    \/ WriteRefused(r, f) \/ SettlementRefused(r, f) \/ PostUnrecorded(r, f)
    \/ TurnThrows(r, f) \/ ClassifyDecided(r, f)
    \/ ClassifyRejected(r, f) \/ ClassifyUnsubmitted(r, f) \/ ClassifyAmbiguous(r, f)

Replay(r, f) ==
    \/ ReplayBooks(r, f) \/ ReplayUnresolved(r, f) \/ ReplayFallback(r, f)
    \/ ReplayStarts(r, f) \/ ReplayWaits(r, f) \/ ReplayRejected(r, f)
    \/ ReplayRefused(r, f)

Handle(r, f) ==
    \/ Attempt(r, f) \/ Reply(r, f) \/ Fail(r, f) \/ Replay(r, f)
    \/ ReleaseClaim(r, f) \/ ReleaseRefused(r, f)

Drain == (\E r \in Run : DrainClaim(r)) \/ EndBatch \/ EndDrain

AgentStep(r) ==
    \/ AgentInvokes(r) \/ AgentRefused(r) \/ AgentNeverStarts(r) \/ AgentSettles(r)

DriverNext ==
    \/ Wake \/ Drain \/ Crash
    \/ \E r \in Run :
         \/ \E stamp \in 0..MaxStamp : Receive(r, stamp)
         \/ AgentStep(r) \/ AgentRestarts(r)
         \/ AbandonedLeaseLapses(r) \/ RetireStale(r) \/ Quarantine(r)
         \/ \E f \in Token : Handle(r, f) \/ RenewalFails(r, f)

DriverSpec == DriverInit /\ [][DriverNext]_allVars

\* The alarm fires again while a ledger job is pending, a handler that lives
\* goes on, the Agent ends what it was given, and time passes.
Fairness ==
    /\ WF_allVars(WakeForWork) /\ WF_allVars(Drain)
    /\ \A r \in Run :
         /\ WF_allVars(AgentStep(r)) /\ WF_allVars(AbandonedLeaseLapses(r))
         /\ \A f \in Token : WF_allVars(Handle(r, f))

FairDriverSpec == DriverSpec /\ Fairness

-----------------------------------------------------------------------------
(* Properties *)

\* Every variable of the driver keeps its shape.
DriverTypeOK ==
    /\ drain \in [phase: {"idle", "claiming", "handling"}, left: 0..MaxClaims, stop: BOOLEAN,
                 batch: SUBSET (Run \X Token)]
    /\ worker \in [Run -> [Token -> Worker]]
    /\ job \in [Run -> Job]
    /\ agent \in [Run -> Submission]
    /\ slack \in [Run -> Visible]
    /\ trouble \in 0..MaxTrouble

\* Whatever crashes, lapses, retries and replays happen, and whoever fails, the
\* user never sees two replies to one message that the ledger has attempts for.
OneRecordedReply == \A r \in Run : slack[r].replies <= 1

\* A reply the user can see under an attempt is never one the ledger would send
\* again: its attempt is booked as pending, delivered or unknown.
RecordedReplyIsBooked ==
    \A r \in Run : slack[r].replies > 0 => runs[r].delivery \in {"pending", "delivered", "unknown"}

\* The lifecycle of a ledger turn is to "fail closed before crossing an unrecorded
\* boundary".  It does in the handler of the latest claim: a failure is shown
\* beside the ledger only by a handler whose run has been claimed again.
OnlyTheOvertakenGoUnrecorded ==
    \A r \in Run, f \in Token : At(r, f, "unrecorded") => f < runs[r].fence

\* The ledger never claims a delivery the user cannot see, not even when it
\* books it after a crash from what the presentation row says.
DeliveredMeansShown ==
    \A r \in Run : runs[r].delivery = "delivered" => slack[r].replies > 0

\* While a drain waits for a handler, the handler has the latest claim of its
\* run, even when its lease has lapsed: nobody claims the run again beside it.
BatchHoldsLatestClaims ==
    \A c \in drain.batch : ~At(c[1], c[2], "idle") => runs[c[1]].fence = c[2]

\* The driver, the handler, the Agent and the operator use the ledger through
\* its operations only, so that everything WorkStore guarantees holds of them.
UsesTheStore == Spec

\* A turn that is owed: its job is pending and its run can still move.
Owed(r) ==
    /\ job[r].state = "pending"
    /\ runs[r].status \notin {"absent", "settled", "recovery_required"}

\* Every turn that is owed comes to an end: its run is settled or needs an
\* operator, or its job is retired, however often the process stops.
EveryOwedTurnEnds == \A r \in Run : Owed(r) ~> ~Owed(r)

\* A submission whose run is open is never refused the model, whatever
\* interrupted the turn before it was reattached, unless the turn has failed.
RetriedTurnIsNotRefused ==
    \A r \in Run : agent[r].state = "refused" =>
      \/ runs[r].status \in {"settled", "recovery_required"} \/ job[r].settlement # "none"
      \/ \E f \in Token : execs[r][f].outcome # "pending"
=============================================================================
