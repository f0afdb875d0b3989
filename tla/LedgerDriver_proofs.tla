------------------------ MODULE LedgerDriver_proofs ------------------------
(***************************************************************************)
(* The driver, its handler, the Agent and the operator use the ledger only *)
(* through the operations of WorkStore: every step of LedgerDriver is a    *)
(* step of WorkStore or leaves the ledger alone.  So whatever is proved of *)
(* the ledger under any caller is true under the callers it has.           *)
(***************************************************************************)
EXTENDS LedgerDriver, WorkStore_proofs

\* A submission, and a handler about to make one, has a frozen envelope, so
\* that the Agent never asks for an execution that was not named to it.
EnvelopeFrozen ==
    \A r \in Run :
      \/ job[r].envelope # 0
      \/ /\ agent[r].state = "none"
         /\ \A f \in Token : worker[r][f].pc \notin {"stage", "dispatch"}

\* The inductive invariant: what is known of the ledger, the shape of the
\* driver's own variables, and the frozen envelopes.
DriverInv == Inv /\ DriverTypeOK /\ EnvelopeFrozen

-----------------------------------------------------------------------------
(* Writes to the driver's variables *)

Typed ==
    /\ worker \in [Run -> [Token -> Worker]]
    /\ job \in [Run -> Job]
    /\ agent \in [Run -> Submission]

\* A step that moves one handler and rewrites its job and its submission: it
\* keeps the invariant if what it writes is good, and if whoever goes on to
\* submit, or is submitted, has an envelope.
LEMMA TurnStep ==
    ASSUME Typed, EnvelopeFrozen, NEW r \in Run, NEW f \in Token,
           NEW w \in Worker, NEW j \in Job, NEW a \in Submission,
           worker' = [worker EXCEPT ![r][f] = w],
           job' = [job EXCEPT ![r] = j],
           agent' = [agent EXCEPT ![r] = a],
           j.envelope # 0 \/ j.envelope = job[r].envelope,
           w.pc \in {"stage", "dispatch"} \/ a.state # agent[r].state => j.envelope # 0
    PROVE  Typed' /\ EnvelopeFrozen'
<1>1. Typed'
  BY DEF Typed
<1>2. \A s \in Run, g \in Token :
        worker'[s][g] = IF s = r /\ g = f THEN w ELSE worker[s][g]
  BY DEF Typed
<1>3. \A s \in Run : /\ job'[s] = IF s = r THEN j ELSE job[s]
                     /\ agent'[s] = IF s = r THEN a ELSE agent[s]
  BY DEF Typed
<1> QED
  BY <1>1, <1>2, <1>3 DEF EnvelopeFrozen

LEMMA RowsTyped ==
    ASSUME Typed, NEW r \in Run, NEW f \in Token
    PROVE  /\ worker[r][f] \in Worker /\ job[r] \in Job /\ agent[r] \in Submission
           /\ worker = [worker EXCEPT ![r][f] = worker[r][f]]
           /\ job = [job EXCEPT ![r] = job[r]]
           /\ agent = [agent EXCEPT ![r] = agent[r]]
<1>1. /\ worker[r][f] \in Worker /\ job[r] \in Job /\ agent[r] \in Submission
      /\ job = [job EXCEPT ![r] = job[r]]
      /\ agent = [agent EXCEPT ![r] = agent[r]]
      /\ worker = [worker EXCEPT ![r] = worker[r]]
  BY DEF Typed
<1>2. worker[r] = [worker[r] EXCEPT ![f] = worker[r][f]]
  BY DEF Typed
<1> QED
  BY <1>1, <1>2

\* A step of one handler alone.
LEMMA WorkerStep ==
    ASSUME Typed, EnvelopeFrozen, NEW r \in Run, NEW f \in Token, NEW w \in Worker,
           worker' = [worker EXCEPT ![r][f] = w], w.pc \notin {"stage", "dispatch"},
           UNCHANGED <<job, agent>>
    PROVE  Typed' /\ EnvelopeFrozen'
<1>1. /\ job[r] \in Job /\ job' = [job EXCEPT ![r] = job[r]]
      /\ agent[r] \in Submission /\ agent' = [agent EXCEPT ![r] = agent[r]]
  BY RowsTyped
<1> QED
  BY <1>1, TurnStep

\* A handler goes on, or returns; its job may have been rewritten.
LEMMA GotoStep ==
    ASSUME Typed, EnvelopeFrozen, NEW r \in Run, NEW f \in Token, NEW pc \in Control,
           NEW j \in Job, Goto(r, f, pc), job' = [job EXCEPT ![r] = j], UNCHANGED agent,
           j.envelope # 0 \/ j.envelope = job[r].envelope,
           pc \in {"stage", "dispatch"} => j.envelope # 0
    PROVE  Typed' /\ EnvelopeFrozen'
<1> DEFINE w == [worker[r][f] EXCEPT !.pc = pc]
<1>1. worker' = [worker EXCEPT ![r][f] = w]
  BY DEF Goto
<1>2. w \in Worker /\ w.pc = pc
  BY RowsTyped DEF Worker
<1> HIDE DEF w
<1> QED
  BY <1>1, <1>2, TurnStep, RowsTyped

LEMMA ReturnStep ==
    ASSUME Typed, EnvelopeFrozen, NEW r \in Run, NEW f \in Token, NEW verdict \in Verdict,
           NEW j \in Job, Return(r, f, verdict), job' = [job EXCEPT ![r] = j],
           j.envelope = job[r].envelope, UNCHANGED agent
    PROVE  Typed' /\ EnvelopeFrozen'
<1> DEFINE w == [worker[r][f] EXCEPT !.pc = "release", !.verdict = verdict]
<1>1. worker' = [worker EXCEPT ![r][f] = w]
  BY DEF Return
<1>2. w \in Worker /\ w.pc = "release"
  BY RowsTyped DEF Worker, Control
<1> HIDE DEF w
<1> QED
  BY <1>1, <1>2, TurnStep, RowsTyped

\* The job moves to another state.
LEMMA JobState ==
    ASSUME Typed, NEW r \in Run, NEW state \in {"pending", "recovery", "retired"},
           job' = [job EXCEPT ![r].state = state]
    PROVE  \E j \in Job : job' = [job EXCEPT ![r] = j] /\ j.envelope = job[r].envelope
<1> DEFINE j == [job[r] EXCEPT !.state = state]
<1>1. job' = [job EXCEPT ![r] = j]
  OBVIOUS
<1>2. job[r] \in Job
  BY DEF Typed
<1>3. j \in Job /\ j.envelope = job[r].envelope
  BY <1>2 DEF Job
<1> QED
  BY <1>1, <1>3

\* Most steps leave the job and the submission alone.
LEMMA GotoAlone ==
    ASSUME Typed, EnvelopeFrozen, NEW r \in Run, NEW f \in Token, NEW pc \in Control,
           Goto(r, f, pc), UNCHANGED <<job, agent>>,
           pc \in {"stage", "dispatch"} => job[r].envelope # 0
    PROVE  Typed' /\ EnvelopeFrozen'
<1>1. job[r] \in Job /\ job' = [job EXCEPT ![r] = job[r]]
  BY RowsTyped
<1> QED
  BY <1>1, GotoStep

LEMMA ReturnAlone ==
    ASSUME Typed, EnvelopeFrozen, NEW r \in Run, NEW f \in Token, NEW verdict \in Verdict,
           Return(r, f, verdict), UNCHANGED <<job, agent>>
    PROVE  Typed' /\ EnvelopeFrozen'
<1>1. job[r] \in Job /\ job' = [job EXCEPT ![r] = job[r]]
  BY RowsTyped
<1> QED
  BY <1>1, ReturnStep

LEMMA GotoWithState ==
    ASSUME Typed, EnvelopeFrozen, NEW r \in Run, NEW f \in Token,
           NEW pc \in Control \ {"stage", "dispatch"},
           NEW state \in {"pending", "recovery", "retired"},
           Goto(r, f, pc), job' = [job EXCEPT ![r].state = state], UNCHANGED agent
    PROVE  Typed' /\ EnvelopeFrozen'
  BY JobState, GotoStep

LEMMA ReturnWithState ==
    ASSUME Typed, EnvelopeFrozen, NEW r \in Run, NEW f \in Token, NEW verdict \in Verdict,
           NEW state \in {"pending", "recovery", "retired"},
           Return(r, f, verdict), job' = [job EXCEPT ![r].state = state], UNCHANGED agent
    PROVE  Typed' /\ EnvelopeFrozen'
  BY JobState, ReturnStep

-----------------------------------------------------------------------------
(* The handler, action by action *)

LEMMA BeginAttemptTyped ==
    ASSUME Typed, EnvelopeFrozen, NEW r \in Run, NEW f \in Token, BeginAttempt(r, f)
    PROVE  Typed' /\ EnvelopeFrozen'
<1> DEFINE j == [job[r] EXCEPT !.attempts = @ + 1]
           pc == IF worker[r][f].phase = "delivery" THEN "replay" ELSE "prepare"
<1>1. Goto(r, f, pc) /\ job' = [job EXCEPT ![r] = j] /\ UNCHANGED agent
  BY DEF BeginAttempt
<1>2. j \in Job /\ j.envelope = job[r].envelope
  BY RowsTyped DEF Job
<1>3. pc \in Control \ {"stage", "dispatch"}
  BY DEF Control
<1> HIDE DEF j, pc
<1> QED
  BY <1>1, <1>2, <1>3, GotoStep

LEMMA FreezeTyped ==
    ASSUME Typed, EnvelopeFrozen, NEW r \in Run, NEW f \in Token, Freeze(r, f)
    PROVE  Typed' /\ EnvelopeFrozen'
<1> DEFINE j == [job[r] EXCEPT !.envelope = IF @ = 0 THEN f ELSE @]
           pc == IF job[r].receipt THEN "observe" ELSE "stage"
<1>1. Goto(r, f, pc) /\ job' = [job EXCEPT ![r] = j] /\ UNCHANGED agent
  BY DEF Freeze
<1>2. job[r] \in Job /\ f \in 0..MaxFence /\ f # 0
  BY RowsTyped, StoreAssumption DEF Token
<1>3. j \in Job /\ j.envelope # 0
  BY <1>2 DEF Job
<1>4. pc \in Control
  BY DEF Control
<1> HIDE DEF j, pc
<1> QED
  BY <1>1, <1>3, <1>4, GotoStep

\* A submission is rewritten by a handler that has an envelope.
LEMMA SubmitStep ==
    ASSUME Typed, EnvelopeFrozen, NEW r \in Run, NEW f \in Token,
           NEW pc \in Control, NEW a \in Submission,
           Goto(r, f, pc), agent' = [agent EXCEPT ![r] = a], UNCHANGED job,
           At(r, f, "stage") \/ At(r, f, "dispatch")
    PROVE  Typed' /\ EnvelopeFrozen'
<1> DEFINE w == [worker[r][f] EXCEPT !.pc = pc]
<1>1. worker' = [worker EXCEPT ![r][f] = w]
  BY DEF Goto
<1>2. w \in Worker /\ w.pc = pc
  BY RowsTyped DEF Worker
<1>3. job[r].envelope # 0
  BY DEF EnvelopeFrozen, At
<1> HIDE DEF w
<1> QED
  BY <1>1, <1>2, <1>3, TurnStep, RowsTyped

LEMMA StageTyped ==
    ASSUME Typed, EnvelopeFrozen, NEW r \in Run, NEW f \in Token, Stage(r, f)
    PROVE  Typed' /\ EnvelopeFrozen'
<1> DEFINE a == [agent[r] EXCEPT !.staged = IF Staging /\ @ = 0 THEN f ELSE @]
<1>1. agent' = [agent EXCEPT ![r] = a] /\ At(r, f, "stage") /\ UNCHANGED job
  BY DEF Stage
<1>2. Goto(r, f, "dispatch") /\ "dispatch" \in Control
  BY DEF Stage, Control
<1>3. agent[r] \in Submission /\ f \in 0..MaxFence
  BY RowsTyped, StoreAssumption DEF Token
<1>4. a \in Submission
  BY <1>3 DEF Submission
<1> HIDE DEF a
<1> QED
  BY <1>1, <1>2, <1>4, SubmitStep

LEMMA DispatchTyped ==
    ASSUME Typed, EnvelopeFrozen, NEW r \in Run, NEW f \in Token, Dispatch(r, f)
    PROVE  Typed' /\ EnvelopeFrozen'
<1> DEFINE a == [agent[r] EXCEPT !.state = IF @ = "none" THEN "queued" ELSE @]
<1>1. agent' = [agent EXCEPT ![r] = a] /\ At(r, f, "dispatch") /\ UNCHANGED job
  BY DEF Dispatch
<1>2. PICK pc \in Control : Goto(r, f, pc)
  BY DEF Dispatch, Control
<1>3. agent[r] \in Submission
  BY RowsTyped
<1>4. a \in Submission
  BY <1>3 DEF Submission
<1> HIDE DEF a
<1> QED
  BY <1>1, <1>2, <1>4, SubmitStep

LEMMA RecordReceiptTyped ==
    ASSUME Typed, EnvelopeFrozen, NEW r \in Run, NEW f \in Token, RecordReceipt(r, f)
    PROVE  Typed' /\ EnvelopeFrozen'
<1> DEFINE j == [job[r] EXCEPT !.receipt = TRUE]
<1>1. Goto(r, f, "observe") /\ job' = [job EXCEPT ![r] = j] /\ UNCHANGED agent
  BY DEF RecordReceipt
<1>2. job[r] \in Job
  BY RowsTyped
<1>3. j \in Job /\ j.envelope = job[r].envelope
  BY <1>2 DEF Job
<1> HIDE DEF j
<1> QED
  BY <1>1, <1>3, GotoStep DEF Control

LEMMA RecordSettlementTyped ==
    ASSUME Typed, EnvelopeFrozen, NEW r \in Run, NEW f \in Token, RecordSettlement(r, f)
    PROVE  Typed' /\ EnvelopeFrozen'
<1> DEFINE j == [job[r] EXCEPT !.settlement =
                   IF agent[r].state = "completed" THEN "completed" ELSE "failed"]
<1> DEFINE pc == IF agent[r].state = "completed" THEN "settle" ELSE "failing"
<1>1. Goto(r, f, pc) /\ job' = [job EXCEPT ![r] = j] /\ UNCHANGED agent
  BY DEF RecordSettlement
<1>2. job[r] \in Job
  BY RowsTyped
<1>3. j \in Job /\ j.envelope = job[r].envelope
  BY <1>2 DEF Job
<1>4. pc \in Control \ {"stage", "dispatch"}
  BY DEF Control
<1> HIDE DEF j, pc
<1> QED
  BY <1>1, <1>3, <1>4, GotoStep

LEMMA SettleFailureTyped ==
    ASSUME Typed, EnvelopeFrozen, NEW r \in Run, NEW f \in Token, SettleFailure(r, f)
    PROVE  Typed' /\ EnvelopeFrozen'
<1> DEFINE w == [worker[r][f] EXCEPT !.pc = "respond", !.failed = TRUE]
<1>1. worker' = [worker EXCEPT ![r][f] = w] /\ UNCHANGED <<job, agent>>
  BY DEF SettleFailure
<1>2. worker[r][f] \in Worker
  BY RowsTyped
<1>3. w \in Worker /\ w.pc \notin {"stage", "dispatch"}
  BY <1>2 DEF Worker, Control
<1> HIDE DEF w
<1> QED
  BY <1>1, <1>3, WorkerStep

\* Where a handler can go without an envelope.
LEMMA Places ==
    {"repaired", "prepare", "create", "route", "freeze", "dispatch", "settle", "failing",
     "unrecorded", "interrupted", "notice", "classify", "rejected", "respond", "start", "post", "ack", "finalize", "close", "observe"}
      \subseteq Control
  BY DEF Control

LEMMA AttemptTyped ==
    ASSUME Typed, EnvelopeFrozen, NEW r \in Run, NEW f \in Token, Attempt(r, f)
    PROVE  Typed' /\ EnvelopeFrozen'
<1> USE Places
<1>1. CASE PayloadMissing(r, f) \/ InstallationUnavailable(r, f)
  BY <1>1, ReturnAlone DEF PayloadMissing, InstallationUnavailable, Verdict
<1>2. CASE InstallationEnded(r, f)
  BY <1>2, ReturnWithState DEF InstallationEnded, Verdict
<1>3. CASE BeginAttempt(r, f) \/ Freeze(r, f) \/ Stage(r, f) \/ Dispatch(r, f)
  BY <1>3, BeginAttemptTyped, FreezeTyped, StageTyped, DispatchTyped
<1>4. CASE AnswerModelRepair(r, f)
  BY <1>4, GotoAlone DEF AnswerModelRepair
<1>5. CASE RetireRepairedJob(r, f)
  BY <1>5, GotoWithState DEF RetireRepairedJob, Retire
<1>6. CASE Prepare(r, f) \/ Create(r, f)
  BY <1>6, GotoAlone DEF Prepare, Create
<1>7. CASE Route(r, f)
  <2>1. \E pc \in {"freeze", "settle", "failing"} : Goto(r, f, pc)
    BY <1>7, RowsTyped DEF Route, Job
  <2>2. UNCHANGED <<job, agent>>
    BY <1>7 DEF Route
  <2> QED
    BY <2>1, <2>2, GotoAlone
<1>8. CASE DispatchConflict(r, f)
  BY <1>8, GotoWithState DEF DispatchConflict
<1>9. CASE RecordReceipt(r, f)
  BY <1>9, RecordReceiptTyped
<1>10. CASE ObservationBreaks(r, f)
  BY <1>10, GotoAlone DEF ObservationBreaks
<1>11. CASE Reattach(r, f)
  <2>1. CASE Return(r, f, "requeue")
    BY <1>11, <2>1, ReturnAlone DEF Reattach, Verdict
  <2>2. CASE Goto(r, f, "notice")
    BY <1>11, <2>2, GotoAlone DEF Reattach
  <2> QED
    BY <1>11, <2>1, <2>2 DEF Reattach
<1>12. CASE Notice(r, f)
  BY <1>12, ReturnWithState DEF Notice, Verdict
<1> QED
  BY <1>1, <1>2, <1>3, <1>4, <1>5, <1>6, <1>7, <1>8, <1>9, <1>10, <1>11, <1>12 DEF Attempt

LEMMA PostTyped ==
    ASSUME Typed, EnvelopeFrozen, NEW r \in Run, NEW f \in Token, Post(r, f)
    PROVE  Typed' /\ EnvelopeFrozen'
<1>1. PICK sent \in {"ok", "failed", "unknown"} :
        worker' = [worker EXCEPT ![r][f] = [worker[r][f] EXCEPT
          !.pc = IF sent = "ok" THEN "ack" ELSE "finalize", !.sent = sent]]
  BY DEF Post
<1> DEFINE w == [worker[r][f] EXCEPT !.pc = IF sent = "ok" THEN "ack" ELSE "finalize",
                                     !.sent = sent]
<1>2. worker[r][f] \in Worker
  BY RowsTyped
<1>3. w \in Worker /\ w.pc \notin {"stage", "dispatch"}
  BY <1>2 DEF Worker, Control, Sent
<1>4. worker' = [worker EXCEPT ![r][f] = w] /\ UNCHANGED <<job, agent>>
  BY <1>1 DEF Post
<1> HIDE DEF w
<1> QED
  BY <1>3, <1>4, WorkerStep

LEMMA ReplyTyped ==
    ASSUME Typed, EnvelopeFrozen, NEW r \in Run, NEW f \in Token, Reply(r, f)
    PROVE  Typed' /\ EnvelopeFrozen'
<1> USE Places
<1>1. CASE RecordSettlement(r, f) \/ SettleFailure(r, f) \/ Post(r, f)
  BY <1>1, RecordSettlementTyped, SettleFailureTyped, PostTyped
<1>2. CASE SettleExecution(r, f)
  BY <1>2, GotoAlone DEF SettleExecution
<1>3. CASE WithholdReply(r, f) \/ AlreadyShown(r, f)
  BY <1>3, GotoWithState DEF WithholdReply, AlreadyShown, Retire
<1>4. CASE EndWithoutReply(r, f) \/ Respond(r, f)
  BY <1>4, GotoAlone DEF EndWithoutReply, Respond
<1>5. CASE StartDelivery(r, f) \/ Acknowledge(r, f)
  BY <1>5, GotoAlone DEF StartDelivery, Acknowledge
<1>6. CASE Finalize(r, f)
  <2>1. \E pc \in {"close", "classify", "rejected"} : Goto(r, f, pc)
    BY <1>6 DEF Finalize
  <2>2. UNCHANGED <<job, agent>>
    BY <1>6 DEF Finalize
  <2> QED
    BY <2>1, <2>2, GotoAlone
<1>7. CASE Close(r, f)
  BY <1>7, ReturnWithState DEF Close, Retire, Verdict
<1> QED
  BY <1>1, <1>2, <1>3, <1>4, <1>5, <1>6, <1>7 DEF Reply

LEMMA FailTyped ==
    ASSUME Typed, EnvelopeFrozen, NEW r \in Run, NEW f \in Token, Fail(r, f)
    PROVE  Typed' /\ EnvelopeFrozen'
<1> USE Places
<1>1. CASE WriteRefused(r, f) \/ SettlementRefused(r, f)
  BY <1>1, GotoAlone DEF WriteRefused, SettlementRefused
<1>6. CASE TurnThrows(r, f)
  <2>1. \E pc \in {"failing", "classify"} : Goto(r, f, pc)
    BY <1>6 DEF TurnThrows
  <2>2. UNCHANGED <<job, agent>>
    BY <1>6 DEF TurnThrows
  <2> QED
    BY <2>1, <2>2, GotoAlone
<1>7. CASE PostUnrecorded(r, f)
  <2>1. Goto(r, f, "classify") /\ UNCHANGED agent /\ (Retire(r) \/ UNCHANGED job)
    BY <1>7 DEF PostUnrecorded
  <2>2. CASE Retire(r)
    BY <2>1, <2>2, GotoWithState DEF Retire
  <2>3. CASE UNCHANGED job
    BY <2>1, <2>3, GotoAlone
  <2> QED
    BY <2>1, <2>2, <2>3
<1>2. CASE ClassifyDecided(r, f)
  BY <1>2, ReturnWithState DEF ClassifyDecided, Retire, Verdict
<1>3. CASE ClassifyRejected(r, f)
  BY <1>3, ReturnAlone, ReturnWithState DEF ClassifyRejected, RetryRejected, Retire, Verdict
<1>4. CASE ClassifyUnsubmitted(r, f)
  BY <1>4, ReturnAlone, ReturnWithState DEF ClassifyUnsubmitted, Retire, Verdict
<1>5. CASE ClassifyAmbiguous(r, f)
  BY <1>5, ReturnWithState DEF ClassifyAmbiguous, Retire, Verdict
<1> QED
  BY <1>1, <1>2, <1>3, <1>4, <1>5, <1>6, <1>7 DEF Fail

LEMMA ReplayTyped ==
    ASSUME Typed, EnvelopeFrozen, NEW r \in Run, NEW f \in Token, Replay(r, f)
    PROVE  Typed' /\ EnvelopeFrozen'
<1> USE Places
<1>1. CASE ReplayBooks(r, f)
  BY <1>1, GotoAlone DEF ReplayBooks
<1>2. CASE ReplayUnresolved(r, f)
  BY <1>2, ReturnWithState DEF ReplayUnresolved, Verdict
<1>3. CASE ReplayFallback(r, f)
  BY <1>3 DEF ReplayFallback, driverVars, Typed, EnvelopeFrozen
<1>4. CASE ReplayStarts(r, f)
  BY <1>4, GotoAlone DEF ReplayStarts
<1>5. CASE ReplayWaits(r, f)
  BY <1>5, ReturnAlone DEF ReplayWaits, Verdict
<1>6. CASE ReplayRejected(r, f)
  BY <1>6, ReturnAlone, ReturnWithState DEF ReplayRejected, RetryRejected, Retire, Verdict
<1>7. CASE ReplayRefused(r, f)
  <2> DEFINE books == At(r, f, "replay") /\ runs[r].delivery = "pending"
  <2>1. /\ job' = [job EXCEPT ![r].state = IF books THEN @ ELSE "retired"]
        /\ Return(r, f, "recovery_required") /\ UNCHANGED agent
    BY <1>7 DEF ReplayRefused
  <2>2. CASE books
    <3>1. UNCHANGED job
      BY <2>1, <2>2 DEF Typed, Job
    <3> QED
      BY <2>1, <3>1, ReturnAlone DEF Verdict
  <2>3. CASE ~books
    BY <2>1, <2>3, ReturnWithState DEF Verdict
  <2> QED
    BY <2>2, <2>3
<1> QED
  BY <1>1, <1>2, <1>3, <1>4, <1>5, <1>6, <1>7 DEF Replay

LEMMA ReleaseTyped ==
    ASSUME Typed, EnvelopeFrozen, NEW r \in Run, NEW f \in Token,
           ReleaseClaim(r, f) \/ ReleaseRefused(r, f)
    PROVE  Typed' /\ EnvelopeFrozen'
<1>1. worker' = [worker EXCEPT ![r][f] = NoWorker] /\ UNCHANGED <<job, agent>>
  BY DEF ReleaseClaim, ReleaseRefused, Finish
<1>2. NoWorker \in Worker /\ NoWorker.pc \notin {"stage", "dispatch"}
  BY DEF NoWorker, Worker, Control, Verdict, Sent
<1> QED
  BY <1>1, <1>2, WorkerStep

LEMMA HandleTyped ==
    ASSUME Typed, EnvelopeFrozen, NEW r \in Run, NEW f \in Token, Handle(r, f)
    PROVE  Typed' /\ EnvelopeFrozen'
  BY AttemptTyped, ReplyTyped, FailTyped, ReplayTyped, ReleaseTyped DEF Handle

-----------------------------------------------------------------------------
(* The Agent and the drain loop *)

\* The Agent moves a submission that exists, and so has an envelope.
LEMMA SubmissionTyped ==
    ASSUME Typed, EnvelopeFrozen, NEW r \in Run, AgentStep(r) \/ AgentRestarts(r)
    PROVE  Typed' /\ EnvelopeFrozen'
<1>1. PICK state \in {"queued", "invoked", "completed", "failed", "refused"} :
        Submit(r, state) /\ UNCHANGED <<worker, job>> /\ agent[r].state # "none"
  BY DEF AgentStep, AgentInvokes, AgentRefused, AgentNeverStarts, AgentSettles, AgentRestarts
<1> DEFINE a == [agent[r] EXCEPT !.state = state]
<1>2. agent[r] \in Submission
  BY DEF Typed
<1>3. a \in Submission /\ agent' = [agent EXCEPT ![r] = a]
  BY <1>1, <1>2 DEF Submission, Submit
<1> HIDE DEF a
<1>4. Typed' /\ job[r].envelope # 0
  BY <1>1, <1>3 DEF Typed, EnvelopeFrozen
<1>5. \A s \in Run : s # r => agent'[s] = agent[s]
  BY <1>3 DEF Typed
<1> QED
  BY <1>1, <1>4, <1>5 DEF EnvelopeFrozen

\* A claim gives its run a new fence, within the bound.
LEMMA ClaimToken ==
    ASSUME Inv, NEW r \in Run, Claim(r)
    PROVE  runs'[r].fence \in Token
<1> DEFINE swept == [s \in Run |-> Reconciled(s)]
<1>1. runs' = [swept EXCEPT ![r] = Claimed(swept[r])] /\ swept[r].fence < MaxFence
  BY DEF Claim
<1>2. runs'[r] = Claimed(Reconciled(r)) /\ Reconciled(r).fence < MaxFence
  BY <1>1
<1>3. Reconciled(r) \in RunRow
  BY ReconciledOK DEF RowOK
<1>4. Claimed(Reconciled(r)).fence = Reconciled(r).fence + 1
  BY <1>3 DEF Claimed, RunRow
<1> QED
  BY <1>2, <1>3, <1>4, StoreAssumption DEF RunRow, Token

LEMMA DrainTyped ==
    ASSUME Inv, Typed, EnvelopeFrozen, Wake \/ Drain \/ Crash
    PROVE  Typed' /\ EnvelopeFrozen'
<1>1. ASSUME NEW r \in Run, DrainClaim(r) PROVE Typed' /\ EnvelopeFrozen'
  <2> DEFINE f == runs'[r].fence
             w == [NoWorker EXCEPT !.pc = "claimed",
                     !.phase = IF runs'[r].status = "response_ready"
                               THEN "delivery" ELSE "execute"]
  <2>1. f \in Token
    BY <1>1, ClaimToken DEF DrainClaim
  <2>2. worker' = [worker EXCEPT ![r][f] = w] /\ UNCHANGED <<job, agent>>
    BY <1>1 DEF DrainClaim
  <2>3. w \in Worker /\ w.pc \notin {"stage", "dispatch"}
    BY DEF NoWorker, Worker, Control, Verdict, Sent
  <2> HIDE DEF f, w
  <2> QED
    BY <2>1, <2>2, <2>3, WorkerStep
<1>2. CASE Wake \/ EndBatch \/ EndDrain
  BY <1>2 DEF Wake, EndBatch, EndDrain, Typed, EnvelopeFrozen
<1>3. CASE Crash
  <2>1. NoWorker \in Worker /\ NoWorker.pc = "idle"
    BY DEF NoWorker, Worker, Control, Verdict, Sent
  <2> QED
    BY <1>3, <2>1 DEF Crash, Typed, EnvelopeFrozen
<1> QED
  BY <1>1, <1>2, <1>3 DEF Drain

\* Everything else that happens to the handlers and the jobs.
LEMMA RestTyped ==
    ASSUME Typed, EnvelopeFrozen, NEW r \in Run,
           \/ AbandonedLeaseLapses(r) \/ RetireStale(r) \/ Quarantine(r)
           \/ \E stamp \in 0..MaxStamp : Receive(r, stamp)
           \/ \E f \in Token : RenewalFails(r, f)
    PROVE  Typed' /\ EnvelopeFrozen'
<1>1. CASE UNCHANGED <<worker, job, agent>>
  BY <1>1 DEF Typed, EnvelopeFrozen
<1>2. ASSUME NEW stamp \in 0..MaxStamp, Receive(r, stamp) PROVE Typed' /\ EnvelopeFrozen'
  <2>1. /\ job' = [job EXCEPT ![r].state = "pending"] /\ UNCHANGED <<worker, agent>>
    BY <1>2 DEF Receive
  <2>2. PICK j \in Job : job' = [job EXCEPT ![r] = j] /\ j.envelope = job[r].envelope
    BY <2>1, JobState
  <2> QED
    BY <2>1, <2>2 DEF Typed, EnvelopeFrozen
<1>3. ASSUME NEW f \in Token, RenewalFails(r, f) PROVE Typed' /\ EnvelopeFrozen'
  <2>1. PICK lost \in BOOLEAN : worker' = [worker EXCEPT ![r][f].lost = @ \/ lost]
    BY <1>3 DEF RenewalFails
  <2> DEFINE w == [worker[r][f] EXCEPT !.lost = @ \/ lost]
  <2>2. worker' = [worker EXCEPT ![r][f] = w] /\ UNCHANGED <<job, agent>>
    BY <1>3, <2>1 DEF RenewalFails
  <2>3. worker[r][f] \in Worker
    BY RowsTyped
  <2>4. w \in Worker /\ w.pc = worker[r][f].pc
    BY <2>3 DEF Worker
  <2>5. w.pc \in {"stage", "dispatch"} => job[r].envelope # 0
    BY <2>4 DEF EnvelopeFrozen
  <2>6. /\ job[r] \in Job /\ job' = [job EXCEPT ![r] = job[r]]
        /\ agent[r] \in Submission /\ agent' = [agent EXCEPT ![r] = agent[r]]
    BY <2>2, RowsTyped
  <2> HIDE DEF w
  <2> QED
    BY <2>2, <2>4, <2>5, <2>6, TurnStep
<1> QED
  BY <1>1, <1>2, <1>3
     DEF AbandonedLeaseLapses, RetireStale, Quarantine, driverVars

-----------------------------------------------------------------------------
(* The drain loop's record, what Slack shows, and the trouble that is left *)

DrainRow == [phase: {"idle", "claiming", "handling"}, left: 0..MaxClaims, stop: BOOLEAN,
             batch: SUBSET (Run \X Token)]

Quiet == UNCHANGED <<drain, slack>> /\ (UNCHANGED trouble \/ Trouble)

\* Most steps of a handler touch none of them but the trouble.
LEMMA HandlerQuiet ==
    ASSUME NEW r \in Run, NEW f \in Token, Handle(r, f)
    PROVE  \/ Quiet
           \/ AnswerModelRepair(r, f) \/ Post(r, f) \/ Acknowledge(r, f)
           \/ PostUnrecorded(r, f)
           \/ ReleaseClaim(r, f) \/ ReleaseRefused(r, f)
<1>1. ASSUME Attempt(r, f) PROVE Quiet \/ AnswerModelRepair(r, f)
  BY <1>1 DEF Attempt, PayloadMissing, InstallationUnavailable, InstallationEnded,
     BeginAttempt, RetireRepairedJob, Prepare, Create, Route, Freeze, Stage, Dispatch,
     DispatchConflict, RecordReceipt, ObservationBreaks, Reattach, Notice, Quiet
<1>2. ASSUME Reply(r, f) PROVE Quiet \/ Post(r, f) \/ Acknowledge(r, f)
  BY <1>2 DEF Reply, RecordSettlement, SettleExecution, SettleFailure, WithholdReply,
     EndWithoutReply, AlreadyShown, Respond, StartDelivery, Finalize, Close, Quiet
<1>3. ASSUME Fail(r, f) PROVE Quiet \/ PostUnrecorded(r, f)
  BY <1>3 DEF Fail, WriteRefused, SettlementRefused, TurnThrows, ClassifyDecided, ClassifyRejected,
     RetryRejected, ClassifyUnsubmitted, ClassifyAmbiguous, Quiet
<1>4. ASSUME Replay(r, f) PROVE Quiet
  BY <1>4 DEF Replay, ReplayBooks, ReplayUnresolved, ReplayFallback, ReplayStarts,
     ReplayWaits, ReplayRejected, RetryRejected, ReplayRefused, Quiet,
     driverVars
<1> QED
  BY <1>1, <1>2, <1>3, <1>4 DEF Handle

LEMMA DrainRecord ==
    ASSUME Inv, drain \in DrainRow, Wake \/ Drain \/ Crash
    PROVE  drain' \in DrainRow
<1>1. CASE Wake
  BY <1>1, DriverAssumption DEF Wake, DrainRow
<1>2. ASSUME NEW r \in Run, DrainClaim(r) PROVE drain' \in DrainRow
  <2>1. /\ drain' = [drain EXCEPT !.left = @ - 1, !.batch = @ \cup {<<r, runs'[r].fence>>}]
        /\ drain.left > 0 /\ runs'[r].fence \in Token
    BY <1>2, ClaimToken DEF DrainClaim
  <2>2. drain.left - 1 \in 0..MaxClaims
    BY <2>1, DriverAssumption DEF DrainRow
  <2>3. drain.batch \cup {<<r, runs'[r].fence>>} \in SUBSET (Run \X Token)
    BY <2>1 DEF DrainRow
  <2> QED
    BY <2>1, <2>2, <2>3 DEF DrainRow
<1>3. CASE EndBatch \/ EndDrain \/ Crash
  BY <1>3 DEF EndBatch, EndDrain, Crash, DrainRow
<1> QED
  BY <1>1, <1>2, <1>3 DEF Drain

LEMMA ReleaseRecord ==
    ASSUME drain \in DrainRow, NEW r \in Run, NEW f \in Token,
           ReleaseClaim(r, f) \/ ReleaseRefused(r, f)
    PROVE  drain' \in DrainRow /\ UNCHANGED <<slack, trouble>>
<1>1. UNCHANGED <<slack, trouble>>
  BY DEF ReleaseClaim, ReleaseRefused
<1>2. ASSUME ReleaseClaim(r, f) PROVE drain' \in DrainRow
  <2>1. PICK stop \in BOOLEAN : drain' = [drain EXCEPT !.stop = @ \/ stop]
    BY <1>2 DEF ReleaseClaim, Finish
  <2>2. drain.stop \/ stop \in BOOLEAN
    OBVIOUS
  <2> QED
    BY <2>1, <2>2 DEF DrainRow
<1>3. ASSUME ReleaseRefused(r, f) PROVE drain' \in DrainRow
  BY <1>3 DEF ReleaseRefused, DrainRow
<1> QED
  BY <1>1, <1>2, <1>3

\* What Slack shows changes in one row at a time.
LEMMA ShownTyped ==
    ASSUME slack \in [Run -> Visible], NEW r \in Run, NEW f \in Token,
           \/ AnswerModelRepair(r, f) \/ Post(r, f) \/ Acknowledge(r, f)
           \/ PostUnrecorded(r, f)
    PROVE  slack' \in [Run -> Visible] /\ UNCHANGED <<drain, trouble>>
<1>1. UNCHANGED <<drain, trouble>>
  BY DEF AnswerModelRepair, Post, Acknowledge, PostUnrecorded
<1>2. slack[r] \in Visible
  OBVIOUS
<1>3. ASSUME NEW row \in Visible, slack' = [slack EXCEPT ![r] = row]
      PROVE  slack' \in [Run -> Visible]
  BY <1>3
<1>4. CASE AnswerModelRepair(r, f)
  <2> DEFINE row == [slack[r] EXCEPT !.repair = TRUE]
  <2>1. slack' = [slack EXCEPT ![r] = row]
    BY <1>4 DEF AnswerModelRepair
  <2>2. row \in Visible
    BY <1>2 DEF Visible
  <2> HIDE DEF row
  <2> QED
    BY <2>1, <2>2, <1>1, <1>3
<1>5. CASE Acknowledge(r, f)
  <2> DEFINE row == [slack[r] EXCEPT !.known = TRUE]
  <2>1. slack' = [slack EXCEPT ![r] = row]
    BY <1>5 DEF Acknowledge
  <2>2. row \in Visible
    BY <1>2 DEF Visible
  <2> HIDE DEF row
  <2> QED
    BY <2>1, <2>2, <1>1, <1>3
<1>6. CASE Post(r, f)
  <2>1. PICK visible \in BOOLEAN :
          slack' = [slack EXCEPT ![r] = [slack[r] EXCEPT !.replies =
                      IF visible /\ @ < 2 THEN @ + 1 ELSE @]]
    BY <1>6 DEF Post
  <2> DEFINE row == [slack[r] EXCEPT !.replies = IF visible /\ @ < 2 THEN @ + 1 ELSE @]
  <2>2. slack' = [slack EXCEPT ![r] = row]
    BY <2>1
  <2>3. row \in Visible
    BY <1>2 DEF Visible
  <2> HIDE DEF row
  <2> QED
    BY <2>2, <2>3, <1>1, <1>3
<1>7. CASE PostUnrecorded(r, f)
  <2>1. PICK shown \in BOOLEAN, acknowledged \in BOOLEAN :
          slack' = [slack EXCEPT ![r].beside = @ \/ shown, ![r].known = @ \/ acknowledged]
    BY <1>7 DEF PostUnrecorded
  <2> DEFINE row == [slack[r] EXCEPT !.beside = @ \/ shown, !.known = @ \/ acknowledged]
  <2>2. slack' = [slack EXCEPT ![r] = row]
    BY <2>1
  <2>3. row \in Visible
    BY <1>2 DEF Visible
  <2> HIDE DEF row
  <2> QED
    BY <2>2, <2>3, <1>1, <1>3
<1> QED
  BY <1>1, <1>4, <1>5, <1>6, <1>7

\* All of them, whatever happens.
LEMMA RecordsTyped ==
    ASSUME Inv, drain \in DrainRow, slack \in [Run -> Visible], trouble \in 0..MaxTrouble,
           DriverNext
    PROVE  drain' \in DrainRow /\ slack' \in [Run -> Visible] /\ trouble' \in 0..MaxTrouble
<1>1. ASSUME Trouble PROVE trouble' \in 0..MaxTrouble
  BY <1>1, DriverAssumption DEF Trouble
<1>2. ASSUME Quiet
      PROVE  drain' \in DrainRow /\ slack' \in [Run -> Visible] /\ trouble' \in 0..MaxTrouble
  BY <1>1, <1>2 DEF Quiet
<1>3. CASE Wake \/ Drain \/ Crash
  <2>1. drain' \in DrainRow
    BY <1>3, DrainRecord
  <2>2. UNCHANGED slack /\ (UNCHANGED trouble \/ Trouble)
    BY <1>3 DEF Wake, Drain, DrainClaim, EndBatch, EndDrain, Crash
  <2> QED
    BY <2>1, <2>2, <1>1
<1>4. ASSUME NEW r \in Run, NEW f \in Token, Handle(r, f)
      PROVE  drain' \in DrainRow /\ slack' \in [Run -> Visible] /\ trouble' \in 0..MaxTrouble
  BY <1>2, <1>4, HandlerQuiet, ReleaseRecord, ShownTyped
<1>5. ASSUME NEW r \in Run,
             \/ \E stamp \in 0..MaxStamp : Receive(r, stamp)
             \/ AgentStep(r) \/ AgentRestarts(r)
             \/ AbandonedLeaseLapses(r) \/ RetireStale(r) \/ Quarantine(r)
             \/ \E f \in Token : RenewalFails(r, f)
      PROVE  Quiet
  BY <1>5 DEF Receive, AgentStep, AgentInvokes, AgentRefused, AgentNeverStarts, AgentSettles,
     AgentRestarts, AbandonedLeaseLapses, RetireStale, Quarantine, RenewalFails, driverVars, Quiet
<1> QED
  BY <1>2, <1>3, <1>4, <1>5 DEF DriverNext

-----------------------------------------------------------------------------
(* What the driver asks of the ledger *)

LEMMA AttemptIsAStep ==
    ASSUME NEW r \in Run, NEW f \in Token, Attempt(r, f) PROVE [Next]_vars
<1>1. PrepareRunInput(r) => Next
  BY DEF Next, Execute
<1>2. CreateRunExecution(r, f) \/ RecordRunExecutionRoute(r, f) => Next
  BY DEF Next, Execute
<1> QED
  BY <1>1, <1>2 DEF Attempt, PayloadMissing, InstallationUnavailable, InstallationEnded,
     BeginAttempt, AnswerModelRepair, RetireRepairedJob, Prepare, Create, Route, Freeze,
     Stage, Dispatch, DispatchConflict, RecordReceipt, ObservationBreaks, Reattach, Notice

\* The receipts a handler books are finalizations the store offers: the run
\* names an attempt, and the dispositions are ones a delivery may have.
LEMMA FinalizationIsAStep ==
    ASSUME Inv, NEW r \in Run, NEW f \in Token, NEW d \in {"succeeded", "failed"},
           runs[r].attempt # None,
           \/ FinalizeDelivered(r, f, runs[r].attempt, d)
           \/ FinalizeUnknown(r, f, runs[r].attempt)
           \/ FinalizeFailed(r, f, runs[r].attempt)
    PROVE  Next
<1>1. runs[r].attempt \in AttemptId
  BY DEF Inv, TypeOK, RunRow
<1>2. d \in Disposition \ {"quarantined"}
  BY DEF Disposition
<1> QED
  BY <1>1, <1>2 DEF Next, Deliver

LEMMA StartIsAStep ==
    ASSUME NEW r \in Run, NEW f \in Token, NEW m \in Method, StartRunDelivery(r, f, m)
    PROVE  Next
  BY DEF Next, Deliver

LEMMA SettlementIsAStep ==
    ASSUME NEW r \in Run, NEW f \in Token, NEW d \in {"no_op", "failed"},
           SettleRunWithoutDelivery(r, f, d)
    PROVE  Next
  BY DEF Next, Settle

LEMMA ReplyIsAStep ==
    ASSUME Inv, NEW r \in Run, NEW f \in Token, Reply(r, f) PROVE [Next]_vars
<1>1. CASE UNCHANGED vars
  BY <1>1
<1>2. CASE SettleExecution(r, f) \/ SettleFailure(r, f)
  <2>1. /\ "settled" \in {"not_invoked", "invoked", "settled"}
        /\ "not_invoked" \in {"not_invoked", "invoked", "settled"}
        /\ {"succeeded", "failed", "not_submitted"} \subseteq Outcome \ {"pending"}
    BY DEF Outcome
  <2> QED
    BY <1>2, <2>1 DEF SettleExecution, SettleFailure, Next, Execute
<1>3. CASE EndWithoutReply(r, f)
  BY <1>3, SettlementIsAStep DEF EndWithoutReply
<1>4. CASE Respond(r, f)
  BY <1>4 DEF Respond, Next, Deliver
<1>5. CASE StartDelivery(r, f)
  BY <1>5, StartIsAStep DEF StartDelivery
<1>6. CASE Finalize(r, f)
  <2>1. PICK d \in {"succeeded", "failed"} :
          \/ FinalizeDelivered(r, f, runs[r].attempt, d)
          \/ FinalizeUnknown(r, f, runs[r].attempt)
          \/ FinalizeFailed(r, f, runs[r].attempt)
    BY <1>6 DEF Finalize, RecoveredDisposition
  <2> QED
    BY <1>6, <2>1, FinalizationIsAStep DEF Finalize
<1> QED
  BY <1>1, <1>2, <1>3, <1>4, <1>5, <1>6
     DEF Reply, RecordSettlement, WithholdReply, AlreadyShown, Post, Acknowledge, Close

LEMMA FailIsAStep ==
    ASSUME NEW r \in Run, NEW f \in Token, Fail(r, f) PROVE [Next]_vars
  BY SettlementIsAStep
     DEF Fail, WriteRefused, SettlementRefused, PostUnrecorded, TurnThrows,
         ClassifyDecided, ClassifyRejected, RetryRejected, ClassifyUnsubmitted, ClassifyAmbiguous

LEMMA ReplayIsAStep ==
    ASSUME Inv, NEW r \in Run, NEW f \in Token, Replay(r, f) PROVE [Next]_vars
<1>1. CASE ReplayBooks(r, f)
  <2>1. FinalizeDelivered(r, f, runs[r].attempt, RecoveredDisposition(r))
    BY <1>1 DEF ReplayBooks
  <2>2. RecoveredDisposition(r) \in {"succeeded", "failed"}
    BY DEF RecoveredDisposition
  <2>3. runs[r].delivery = "pending" /\ runs[r].attempt # None
    BY <1>1 DEF ReplayBooks, Inv, SchemaHolds, RowSchema
  <2> HIDE DEF RecoveredDisposition
  <2> QED
    BY <2>1, <2>2, <2>3, FinalizationIsAStep
<1>2. CASE ReplayUnresolved(r, f)
  BY <1>2 DEF ReplayUnresolved
<1>3. CASE ReplayFallback(r, f)
  BY <1>3 DEF ReplayFallback, Next, Deliver
<1>4. CASE ReplayStarts(r, f)
  BY <1>4, StartIsAStep DEF ReplayStarts
<1>5. CASE ReplayWaits(r, f) \/ ReplayRefused(r, f)
  BY <1>5 DEF ReplayWaits, ReplayRefused
<1>6. CASE ReplayRejected(r, f)
  BY <1>6, SettlementIsAStep DEF ReplayRejected, RetryRejected
<1> QED
  BY <1>1, <1>2, <1>3, <1>4, <1>5, <1>6 DEF Replay

LEMMA ReleaseIsAStep ==
    ASSUME NEW r \in Run, NEW f \in Token, ReleaseClaim(r, f) \/ ReleaseRefused(r, f)
    PROVE  [Next]_vars
<1>1. ReleaseRequeued(r, f) \/ ReleaseToRecovery(r, f) => Next
  BY DEF Next, Coordinate
<1> QED
  BY <1>1 DEF ReleaseClaim, ReleaseRefused

\* The execution the Agent marks as invoked is one that was named to it.
LEMMA AgentIsAStep ==
    ASSUME Typed, EnvelopeFrozen, NEW r \in Run, AgentStep(r) \/ AgentRestarts(r)
    PROVE  [Next]_vars
<1>1. ASSUME AgentInvokes(r) PROVE [Next]_vars
  <2>1. job[r].envelope # 0
    BY <1>1 DEF AgentInvokes, EnvelopeFrozen
  <2>2. job[r].envelope \in 0..MaxFence /\ agent[r].staged \in 0..MaxFence
    BY DEF Typed, Job, Submission
  <2>3. Correlation(r) \in Token
    BY <2>1, <2>2, StoreAssumption DEF Correlation, Token
  <2>4. MarkRunExecutionInvoked(r, Correlation(r)) => Next
    BY <2>3 DEF Next, Execute
  <2> HIDE DEF Correlation
  <2> QED
    BY <1>1, <2>4 DEF AgentInvokes
<1> QED
  BY <1>1 DEF AgentStep, AgentRefused, AgentNeverStarts, AgentSettles, AgentRestarts

\* Every step of the driver is a step of the ledger, or leaves it alone.
LEMMA DriverIsAStep ==
    ASSUME DriverInv, DriverNext PROVE [Next]_vars
<1> USE DEF DriverInv
<1>1. Typed
  BY DEF DriverTypeOK, Typed
<1>2. CASE Wake \/ Crash
  BY <1>2 DEF Wake, Crash
<1>3. CASE Drain
  <2>1. \A r \in Run : Claim(r) => Next
    BY DEF Next, Coordinate
  <2>2. ClaimNothing => Next
    BY DEF Next
  <2> QED
    BY <1>3, <2>1, <2>2 DEF Drain, DrainClaim, EndBatch, EndDrain
<1>4. ASSUME NEW r \in Run, NEW f \in Token, Handle(r, f) PROVE [Next]_vars
  BY <1>4, AttemptIsAStep, ReplyIsAStep, FailIsAStep, ReplayIsAStep, ReleaseIsAStep DEF Handle
<1>5. ASSUME NEW r \in Run, AgentStep(r) \/ AgentRestarts(r) PROVE [Next]_vars
  BY <1>1, <1>5, AgentIsAStep
<1>6. ASSUME NEW r \in Run, NEW stamp \in 0..MaxStamp, Receive(r, stamp) PROVE Next
  BY <1>6 DEF Receive, Next, Coordinate
<1>7. ASSUME NEW r \in Run,
             AbandonedLeaseLapses(r) \/ \E f \in Token : RenewalFails(r, f)
      PROVE  Next
  BY <1>7 DEF AbandonedLeaseLapses, RenewalFails, Next, Coordinate
<1>8. ASSUME NEW r \in Run, RetireStale(r) \/ Quarantine(r) PROVE Next
  BY <1>8 DEF RetireStale, Quarantine, Next, Settle
<1> QED
  BY <1>2, <1>3, <1>4, <1>5, <1>6, <1>7, <1>8 DEF DriverNext

-----------------------------------------------------------------------------
(* The theorems *)

LEMMA DriverInitInv == DriverInit => DriverInv
<1> SUFFICES ASSUME DriverInit PROVE DriverInv
  OBVIOUS
<1>1. Inv
  BY InitInv DEF DriverInit
<1>2. NoWorker \in Worker /\ NoWorker.pc = "idle"
  BY DEF NoWorker, Worker, Control, Verdict, Sent
<1>3. NoJob \in Job
  BY StoreAssumption DEF NoJob, Job
<1>4. /\ [state |-> "none", staged |-> 0] \in Submission
      /\ NothingVisible \in Visible
  BY StoreAssumption DEF Submission, NothingVisible, Visible
<1>5. DriverTypeOK
  BY <1>2, <1>3, <1>4, DriverAssumption DEF DriverInit, DriverTypeOK
<1>6. EnvelopeFrozen
  BY <1>2 DEF DriverInit, EnvelopeFrozen
<1> QED
  BY <1>1, <1>5, <1>6 DEF DriverInv

LEMMA DriverNextInv == ASSUME DriverInv, [DriverNext]_allVars PROVE DriverInv'
<1>1. Inv /\ Typed /\ EnvelopeFrozen
  BY DEF DriverInv, DriverTypeOK, Typed
<1>2. CASE UNCHANGED allVars
  <2>1. Inv'
    BY <1>1, <1>2, NextInv DEF allVars
  <2>2. DriverTypeOK'
    BY <1>2 DEF allVars, driverVars, DriverInv, DriverTypeOK
  <2>3. EnvelopeFrozen'
    BY <1>1, <1>2 DEF allVars, driverVars, EnvelopeFrozen
  <2> QED
    BY <2>1, <2>2, <2>3 DEF DriverInv
<1>3. CASE DriverNext
  <2>1. Inv'
    BY <1>1, <1>3, DriverIsAStep, NextInv
  <2>2. Typed' /\ EnvelopeFrozen'
    <3>1. CASE Wake \/ Drain \/ Crash
      BY <1>1, <3>1, DrainTyped
    <3>2. ASSUME NEW r \in Run, NEW f \in Token, Handle(r, f)
          PROVE  Typed' /\ EnvelopeFrozen'
      BY <1>1, <3>2, HandleTyped
    <3>3. ASSUME NEW r \in Run, AgentStep(r) \/ AgentRestarts(r)
          PROVE  Typed' /\ EnvelopeFrozen'
      BY <1>1, <3>3, SubmissionTyped
    <3>4. ASSUME NEW r \in Run,
                 \/ AbandonedLeaseLapses(r) \/ RetireStale(r) \/ Quarantine(r)
                 \/ \E stamp \in 0..MaxStamp : Receive(r, stamp)
                 \/ \E f \in Token : RenewalFails(r, f)
          PROVE  Typed' /\ EnvelopeFrozen'
      BY <1>1, <3>4, RestTyped
    <3> QED
      BY <1>3, <3>1, <3>2, <3>3, <3>4 DEF DriverNext
  <2>3. drain' \in DrainRow /\ slack' \in [Run -> Visible] /\ trouble' \in 0..MaxTrouble
    BY <1>1, <1>3, RecordsTyped DEF DriverInv, DriverTypeOK, DrainRow
  <2>4. DriverTypeOK'
    BY <2>2, <2>3 DEF DriverTypeOK, Typed, DrainRow
  <2> QED
    BY <2>1, <2>2, <2>4 DEF DriverInv
<1> QED
  BY <1>2, <1>3

\* The inductive invariant of the driver holds, whatever crashes and lapses.
THEOREM DriverInvariance == DriverSpec => []DriverInv
  BY DriverInitInv, DriverNextInv, PTL DEF DriverSpec

\* Every variable of the driver keeps its shape.
THEOREM DriverTypeCorrect == DriverSpec => []DriverTypeOK
<1>1. DriverInv => DriverTypeOK
  BY DEF DriverInv
<1> QED
  BY <1>1, DriverInvariance, PTL

\* The driver, the handler, the Agent and the operator use the ledger through
\* its operations only: every behaviour of LedgerDriver is one of WorkStore.
THEOREM DriverUsesTheStore == DriverSpec => UsesTheStore
<1>1. DriverInit => Init
  BY DEF DriverInit
<1>2. DriverInv /\ [DriverNext]_allVars => [Next]_vars
  BY DriverIsAStep DEF allVars
<1> QED
  BY <1>1, <1>2, DriverInvariance, PTL DEF DriverSpec, UsesTheStore, Spec

\* So what the ledger guarantees to any caller holds of this driver: an answer
\* is sent again only when every earlier attempt is known to be rejected.
THEOREM DriverNeverResends == DriverSpec => RetryOnlyAfterRejection
  BY DriverUsesTheStore, NoSecondReply DEF UsesTheStore
=============================================================================
