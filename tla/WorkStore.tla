----------------------------- MODULE WorkStore -----------------------------
(***************************************************************************)
(* The canonical work ledger: src/work/store.ts over the tables of         *)
(* src/work/migrations.ts.  Every public operation of the store is one     *)
(* database transaction and so one action here; an operation that throws,  *)
(* or whose UPDATE fails a CHECK or whose audit INSERT repeats a key,      *)
(* leaves the database as it was and is simply not a step.  An operation   *)
(* that replays an earlier call returns the row unchanged: a stutter.      *)
(*                                                                         *)
(* The environment is every process that can call the store: any caller    *)
(* may present any fencing token the run has issued, however stale, in any *)
(* order.  What the callers of this repository really do is LedgerDriver.  *)
(*                                                                         *)
(* An operator named Mutant... is the definition that follows it with a    *)
(* plausible bug.  Nothing uses it: it records what a property would catch. *)
(***************************************************************************)
EXTENDS Integers, FiniteSets

CONSTANTS
    Run,        \* run identifiers; numbers, because ties are broken by id
    KeyOf,      \* the ordering key of the binding of each run
    Authority,  \* "ledger" or "legacy", frozen when the run is admitted
    Method,     \* delivery methods
    Answer,     \* policy-approved outputs
    Rendering,  \* rendered payloads
    None,       \* SQL NULL
    MaxFence,   \* bound on the fencing tokens issued to one run
    MaxStamp,   \* bound on admission times
    InOrder     \* TRUE: runs of one key are admitted in the order of their stamps

Token == 1..MaxFence

\* A delivery attempt id is derived from the fence and the delivery method.
AttemptId == Token \X Method

Status == {"absent", "admitted", "queued", "preparing_input", "input_ready",
           "executing", "response_ready", "settled", "recovery_required"}
\* "cancelled" and "superseded" are accepted and refused exactly where
\* "skipped" is, and stand behind it.
Disposition == {"succeeded", "no_op", "failed", "skipped", "quarantined"}
Delivery == {"not_ready", "pending", "delivered", "failed", "unknown",
             "not_applicable"}
Invocation == {"absent", "not_invoked", "ready", "invoked", "settled"}
Outcome == {"pending", "not_submitted", "succeeded", "failed", "ambiguous"}
Receipt == {"none", "started", "delivered", "failed", "unknown"}

Claimable == {"admitted", "queued", "input_ready", "response_ready"}
Leasable == {"preparing_input", "input_ready", "executing", "response_ready"}
Unanswered == {"absent", "admitted", "queued", "preparing_input", "input_ready",
               "executing"}

ASSUME StoreAssumption ==
    /\ Run \subseteq Nat
    /\ Authority \in [Run -> {"ledger", "legacy"}]
    /\ MaxFence \in Nat /\ MaxStamp \in Nat
    /\ InOrder \in BOOLEAN
    /\ None \notin Disposition \cup AttemptId \cup Answer \cup Rendering

VARIABLES
    runs,   \* the rows of `runs`
    execs,  \* the rows of `run_executions`, keyed by run and fence
    trail   \* the delivery receipts in the append-only audit log, per attempt id

vars == <<runs, execs, trail>>

RunRow == [status: Status, disposition: Disposition \cup {None},
           delivery: Delivery, attempt: AttemptId \cup {None},
           prepared: BOOLEAN, approved: Answer \cup {None},
           rendered: Rendering \cup {None},
           lease: {"none", "held", "lapsed"}, fence: 0..MaxFence,
           createdAt: 0..MaxStamp]
ExecutionRow == [inv: Invocation, outcome: Outcome]

NoExecution == [inv |-> "absent", outcome |-> "pending"]

\* A run as insertRun writes it; with status "absent" it is not in the table.
FreshRun(status, stamp) ==
    [status |-> status, disposition |-> None, delivery |-> "not_ready",
     attempt |-> None, prepared |-> FALSE, approved |-> None, rendered |-> None,
     lease |-> "none", fence |-> 0, createdAt |-> stamp]

Init ==
    /\ runs = [r \in Run |-> FreshRun("absent", 0)]
    /\ execs = [r \in Run |-> [f \in Token |-> NoExecution]]
    /\ trail = [r \in Run |-> [a \in AttemptId |-> "none"]]

-----------------------------------------------------------------------------
Present(r) == runs[r].status # "absent"
Ledger(r) == Authority[r] = "ledger"
Open(r) == runs[r].status \notin {"absent", "settled"}

\* The claim order: admission time, then run id.
Before(r, s) ==
    \/ runs[r].createdAt < runs[s].createdAt
    \/ runs[r].createdAt = runs[s].createdAt /\ r < s

\* The last execution of the run may have reached the model.
Submitted(r) ==
    \E f \in Token :
        /\ execs[r][f].inv # "absent"
        /\ \A g \in Token : g > f => execs[r][g].inv = "absent"
        /\ \/ execs[r][f].inv \in {"invoked", "settled"}
           \/ execs[r][f].outcome # "pending"

\* The status it goes to is not one the column admits.
MutantRequeuedStatus(run) ==
    IF run.status = "response_ready" THEN "response_ready"
    ELSE IF run.prepared THEN "input_ready" ELSE "requeued"

\* Where a run goes when its worker gives it back unfinished.
RequeuedStatus(run) ==
    IF run.status = "response_ready" THEN "response_ready"
    ELSE IF run.prepared THEN "input_ready" ELSE "queued"

\* reconcileExpiredInteractiveLeases: the fence is NOT advanced.
Reconciled(r) ==
    IF ~(Ledger(r) /\ runs[r].lease = "lapsed" /\ runs[r].status \in Leasable)
    THEN runs[r]
    ELSE [runs[r] EXCEPT
            !.status = IF @ = "executing" /\ Submitted(r)
                       THEN "recovery_required" ELSE RequeuedStatus(runs[r]),
            !.lease = "none"]

SetRun(r, row) == runs' = [runs EXCEPT ![r] = row]

SetExecution(r, f, inv, outcome) ==
    execs' = [execs EXCEPT ![r][f] = [inv |-> inv, outcome |-> outcome]]

-----------------------------------------------------------------------------
(* Admission and leases *)

\* admitShadowRunInTransaction.  The stamp is taken by the caller before the
\* transaction, so it may be older than stamps already in the table.
Admit(r, stamp) ==
    /\ ~Present(r)
    /\ InOrder => \A s \in Run :
         Present(s) /\ KeyOf[s] = KeyOf[r]
           => runs[s].createdAt < stamp \/ (runs[s].createdAt = stamp /\ s < r)
    /\ SetRun(r, FreshRun("admitted", stamp))
    /\ UNCHANGED <<execs, trail>>

\* A run an operator has to look at no longer holds back its successors.
MutantEligible(swept) ==
    {r \in Run :
        /\ Ledger(r) /\ swept[r].status \in Claimable /\ swept[r].lease = "none"
        /\ \A s \in Run :
             s # r /\ Ledger(s) /\ KeyOf[s] = KeyOf[r] /\ Before(s, r)
               => swept[s].status \in {"absent", "settled", "recovery_required"}}

\* What claimNextInteractiveRun selects from, after its sweep of expired leases.
Eligible(swept) ==
    {r \in Run :
        /\ Ledger(r) /\ swept[r].status \in Claimable /\ swept[r].lease = "none"
        /\ \A s \in Run :
             s # r /\ Ledger(s) /\ KeyOf[s] = KeyOf[r] /\ Before(s, r)
               => swept[s].status \in {"absent", "settled"}}

Claimed(run) ==
    [run EXCEPT !.status = IF @ \in {"admitted", "queued"}
                           THEN "preparing_input" ELSE @,
                !.lease = "held", !.fence = @ + 1]

\* claimNextInteractiveRun: the sweep and the claim are one transaction, and
\* the sweep commits even when there is nothing to claim.
Claim(r) ==
    LET swept == [s \in Run |-> Reconciled(s)] IN
    /\ r \in Eligible(swept)
    /\ \A s \in Eligible(swept) : s = r \/ Before(r, s)
    /\ swept[r].fence < MaxFence
    /\ runs' = [swept EXCEPT ![r] = Claimed(swept[r])]
    /\ UNCHANGED <<execs, trail>>

ClaimNothing ==
    LET swept == [s \in Run |-> Reconciled(s)] IN
    /\ Eligible(swept) = {}
    /\ runs' = swept
    /\ UNCHANGED <<execs, trail>>

\* The clock passes lease_until.  renewRunLease accepts exactly while it has
\* not, and only moves lease_until, so a renewal is a stutter.
LeaseLapses(r) ==
    /\ runs[r].lease = "held"
    /\ SetRun(r, [runs[r] EXCEPT !.lease = "lapsed"])
    /\ UNCHANGED <<execs, trail>>

\* releaseRunLease and its three outcomes.
CanRelease(r, f) ==
    /\ runs[r].lease = "held" /\ runs[r].fence = f
    /\ runs[r].status \notin {"settled", "recovery_required"}

ReleaseRequeued(r, f) ==
    /\ CanRelease(r, f)
    /\ SetRun(r, [runs[r] EXCEPT !.status = RequeuedStatus(runs[r]), !.lease = "none"])
    /\ UNCHANGED <<execs, trail>>

ReleaseSettled(r, f) ==
    /\ CanRelease(r, f)
    /\ SetRun(r, [runs[r] EXCEPT
         !.status = "settled", !.disposition = "skipped", !.lease = "none",
         !.delivery = IF @ = "not_ready" THEN "not_applicable" ELSE @])
    /\ UNCHANGED <<execs, trail>>

ReleaseToRecovery(r, f) ==
    /\ CanRelease(r, f)
    /\ SetRun(r, [runs[r] EXCEPT !.status = "recovery_required", !.lease = "none"])
    /\ UNCHANGED <<execs, trail>>

-----------------------------------------------------------------------------
(* Input and execution *)

\* A caller prepares a ledger run only after a claim of it: prepareRunInput
\* itself takes no fencing token.
Prepares(r) == Present(r) /\ (Ledger(r) => runs[r].fence > 0)

\* A retry prepares its input again although the run waits for an operator.
MutantPrepareRunInput(r) ==
    /\ Prepares(r)
    /\ ~runs[r].prepared
    /\ runs[r].status \in {"admitted", "queued", "preparing_input", "recovery_required"}
    /\ SetRun(r, [runs[r] EXCEPT !.prepared = TRUE, !.status = "input_ready"])
    /\ UNCHANGED <<execs, trail>>

PrepareRunInput(r) ==
    /\ Prepares(r)
    /\ ~runs[r].prepared
    /\ runs[r].status \in {"admitted", "queued", "preparing_input"}
    /\ SetRun(r, [runs[r] EXCEPT !.prepared = TRUE, !.status = "input_ready"])
    /\ UNCHANGED <<execs, trail>>

\* prepareRunInput over a response whose delivery failed: the response is
\* discarded and the run may execute again.
DiscardFailedResponse(r) ==
    /\ Prepares(r)
    /\ runs[r].prepared
    /\ runs[r].status = "response_ready" /\ runs[r].delivery = "failed"
    /\ SetRun(r, [runs[r] EXCEPT
         !.status = "input_ready", !.approved = None, !.rendered = None,
         !.delivery = "not_ready", !.attempt = None])
    /\ UNCHANGED <<execs, trail>>

CanCreateExecution(r, f) ==
    /\ runs[r].status = "input_ready" /\ runs[r].prepared
    /\ execs[r][f].inv = "absent"
    /\ IF Ledger(r) THEN f = runs[r].fence ELSE f > runs[r].fence

\* createRunExecution; on the legacy lane it also advances the fence.
CreateRunExecution(r, f) ==
    /\ CanCreateExecution(r, f)
    /\ SetRun(r, [runs[r] EXCEPT !.status = "executing", !.fence = f])
    /\ SetExecution(r, f, "not_invoked", "pending")
    /\ UNCHANGED trail

\* recordRunExecutionRoute takes no fencing token.
RecordRunExecutionRoute(r, f) ==
    /\ execs[r][f] = [inv |-> "not_invoked", outcome |-> "pending"]
    /\ SetExecution(r, f, "ready", "pending")
    /\ UNCHANGED <<runs, trail>>

\* The fence of the execution is checked, that of the run is not.
MutantCurrentExecution(r, f) == execs[r][f].inv # "absent"

CurrentExecution(r, f) == runs[r].fence = f /\ execs[r][f].inv # "absent"

\* markRunExecutionInvoked reads no status of the run or of the outcome.
MarkRunExecutionInvoked(r, f) ==
    /\ CurrentExecution(r, f)
    /\ execs[r][f].inv = "ready"
    /\ SetExecution(r, f, "invoked", execs[r][f].outcome)
    /\ UNCHANGED <<runs, trail>>

CanSettleExecution(r, f, inv, outcome) ==
    /\ CurrentExecution(r, f)
    /\ execs[r][f].outcome = "pending"
    /\ inv = "not_invoked" => execs[r][f].inv \in {"not_invoked", "ready"}
    /\ inv = "settled" => execs[r][f].inv \in {"ready", "invoked"}
    /\ inv = "invoked" => execs[r][f].inv = "invoked"
    /\ outcome = "not_submitted" => inv = "not_invoked"

SettleRunExecution(r, f, inv, outcome) ==
    /\ CanSettleExecution(r, f, inv, outcome)
    /\ SetExecution(r, f, inv, outcome)
    /\ UNCHANGED <<runs, trail>>

\* An action reported late reopens a settled run.
MutantRecordActionUnknown(r, f) ==
    /\ CurrentExecution(r, f)
    /\ SetRun(r, [runs[r] EXCEPT !.status = "recovery_required", !.lease = "none"])
    /\ UNCHANGED <<execs, trail>>

\* recordWorkAction with status "unknown"; the other statuses only append.
RecordActionUnknown(r, f) ==
    /\ CurrentExecution(r, f)
    /\ Open(r)
    /\ SetRun(r, [runs[r] EXCEPT !.status = "recovery_required", !.lease = "none"])
    /\ UNCHANGED <<execs, trail>>

-----------------------------------------------------------------------------
(* Response and delivery *)

CanRecordResponse(r, f) ==
    /\ runs[r].fence = f
    /\ runs[r].approved = None /\ runs[r].rendered = None
    /\ runs[r].status \in {"executing", "input_ready"}

RecordRunResponse(r, f, a, w) ==
    /\ CanRecordResponse(r, f)
    /\ SetRun(r, [runs[r] EXCEPT
         !.approved = a, !.rendered = w, !.status = "response_ready",
         !.delivery = "not_ready"])
    /\ UNCHANGED <<execs, trail>>

\* The rendering is replaced while its delivery is in flight.
MutantReplaceRendering(r, f, w) ==
    /\ runs[r].fence = f
    /\ runs[r].approved # None /\ runs[r].rendered # w
    /\ runs[r].delivery \in {"failed", "pending"}
    /\ SetRun(r, [runs[r] EXCEPT
         !.rendered = w, !.delivery = "not_ready", !.attempt = None])
    /\ UNCHANGED <<execs, trail>>

\* recordRunResponse with the approved output unchanged, after a failed
\* delivery; the status is not read.
ReplaceRendering(r, f, w) ==
    /\ runs[r].fence = f
    /\ runs[r].approved # None /\ runs[r].rendered # w
    /\ runs[r].delivery = "failed"
    /\ SetRun(r, [runs[r] EXCEPT
         !.rendered = w, !.delivery = "not_ready", !.attempt = None])
    /\ UNCHANGED <<execs, trail>>

\* A retry starts a new attempt while the last one may still land.
MutantCanStartDelivery(r, f, a) ==
    /\ runs[r].fence = f
    /\ runs[r].status = "response_ready"
    /\ runs[r].delivery \in {"not_ready", "failed", "pending"}
    /\ trail[r][a] = "none"

\* startRunDelivery.  The audit row of a start has the attempt id as its
\* primary key: an attempt id starts once, ever.
CanStartDelivery(r, f, a) ==
    /\ runs[r].fence = f
    /\ runs[r].status = "response_ready"
    /\ runs[r].delivery \in {"not_ready", "failed"}
    /\ trail[r][a] = "none"

StartRunDelivery(r, f, m) ==
    LET a == <<f, m>> IN
    /\ CanStartDelivery(r, f, a)
    /\ SetRun(r, [runs[r] EXCEPT !.delivery = "pending", !.attempt = a])
    /\ trail' = [trail EXCEPT ![r][a] = "started"]
    /\ UNCHANGED execs

\* finalizeRunDelivery names the attempt, which need not be of the same fence.
CanFinalize(r, f, a) ==
    /\ runs[r].fence = f
    /\ runs[r].attempt = a /\ runs[r].delivery = "pending"

\* The row's CHECK on quarantine refuses to overwrite a quarantined run.
FinalizeDelivered(r, f, a, d) ==
    /\ CanFinalize(r, f, a)
    /\ runs[r].disposition # "quarantined"
    /\ SetRun(r, [runs[r] EXCEPT
         !.delivery = "delivered", !.status = "settled", !.disposition = d,
         !.lease = "none"])
    /\ trail' = [trail EXCEPT ![r][a] = "delivered"]
    /\ UNCHANGED execs

\* The row's CHECK on settlement refuses to reopen a settled run.
FinalizeUnknown(r, f, a) ==
    /\ CanFinalize(r, f, a)
    /\ runs[r].status # "settled"
    /\ SetRun(r, [runs[r] EXCEPT
         !.delivery = "unknown", !.status = "recovery_required", !.lease = "none"])
    /\ trail' = [trail EXCEPT ![r][a] = "unknown"]
    /\ UNCHANGED execs

FinalizeFailed(r, f, a) ==
    /\ CanFinalize(r, f, a)
    /\ SetRun(r, [runs[r] EXCEPT !.delivery = "failed"])
    /\ trail' = [trail EXCEPT ![r][a] = "failed"]
    /\ UNCHANGED execs

-----------------------------------------------------------------------------
(* Settlement without a reply, recovery and the operator *)

CanSettleWithoutDelivery(r, f) ==
    /\ runs[r].fence = f
    /\ runs[r].status \in {"input_ready", "executing", "response_ready"}

SettleRunWithoutDelivery(r, f, d) ==
    /\ CanSettleWithoutDelivery(r, f)
    /\ SetRun(r, [runs[r] EXCEPT
         !.status = "settled", !.disposition = d, !.delivery = "not_applicable",
         !.attempt = None, !.lease = "none"])
    /\ UNCHANGED <<execs, trail>>

SettleUnstartedRun(r) ==
    /\ runs[r].status \in {"admitted", "queued"}
    /\ runs[r].lease = "none" /\ ~runs[r].prepared
    /\ SetRun(r, [runs[r] EXCEPT
         !.status = "settled", !.disposition = "skipped", !.delivery = "not_applicable"])
    /\ UNCHANGED <<execs, trail>>

\* settleInterruptedRun also settles every open execution of the run.
Interrupted(e) ==
    IF e.inv = "absent" \/ e.outcome # "pending" THEN e
    ELSE IF e.inv = "invoked" THEN [inv |-> "invoked", outcome |-> "ambiguous"]
    ELSE [inv |-> "not_invoked", outcome |-> "not_submitted"]

SettleInterruptedRun(r) ==
    /\ ~Ledger(r) /\ runs[r].lease = "none"
    /\ runs[r].status \in {"input_ready", "executing"}
    /\ SetRun(r, [runs[r] EXCEPT
         !.status = "settled", !.disposition = "skipped", !.delivery = "not_applicable"])
    /\ execs' = [execs EXCEPT ![r] = [f \in Token |-> Interrupted(@[f])]]
    /\ UNCHANGED trail

\* A settled run is flagged too.
MutantRequireRecovery(r) ==
    /\ Present(r)
    /\ SetRun(r, [runs[r] EXCEPT !.status = "recovery_required", !.lease = "none"])
    /\ UNCHANGED <<execs, trail>>

RequireRecovery(r) ==
    /\ Open(r)
    /\ SetRun(r, [runs[r] EXCEPT !.status = "recovery_required", !.lease = "none"])
    /\ UNCHANGED <<execs, trail>>

QuarantineRun(r) ==
    /\ runs[r].status = "recovery_required"
    /\ SetRun(r, [runs[r] EXCEPT
         !.status = "settled", !.disposition = "quarantined", !.lease = "none"])
    /\ UNCHANGED <<execs, trail>>

-----------------------------------------------------------------------------
Coordinate(r) ==
    \/ \E stamp \in 0..MaxStamp : Admit(r, stamp)
    \/ Claim(r)
    \/ LeaseLapses(r)
    \/ \E f \in Token :
         \/ ReleaseRequeued(r, f)
         \/ ReleaseToRecovery(r, f)
         \/ ReleaseSettled(r, f)

Execute(r) ==
    \/ PrepareRunInput(r)
    \/ DiscardFailedResponse(r)
    \/ \E f \in Token :
         \/ CreateRunExecution(r, f)
         \/ RecordRunExecutionRoute(r, f)
         \/ MarkRunExecutionInvoked(r, f)
         \/ RecordActionUnknown(r, f)
         \/ \E inv \in {"not_invoked", "invoked", "settled"},
               outcome \in Outcome \ {"pending"} :
              SettleRunExecution(r, f, inv, outcome)

Deliver(r) ==
    \E f \in Token :
      \/ \E a \in Answer, w \in Rendering : RecordRunResponse(r, f, a, w)
      \/ \E w \in Rendering : ReplaceRendering(r, f, w)
      \/ \E m \in Method : StartRunDelivery(r, f, m)
      \/ \E a \in AttemptId :
           \/ FinalizeUnknown(r, f, a)
           \/ FinalizeFailed(r, f, a)
           \/ \E d \in Disposition \ {"quarantined"} : FinalizeDelivered(r, f, a, d)

Settle(r) ==
    \/ \E f \in Token, d \in {"no_op", "failed", "skipped"} :
         SettleRunWithoutDelivery(r, f, d)
    \/ SettleUnstartedRun(r)
    \/ SettleInterruptedRun(r)
    \/ RequireRecovery(r)
    \/ QuarantineRun(r)

Next ==
    \/ ClaimNothing
    \/ \E r \in Run : Coordinate(r) \/ Execute(r) \/ Deliver(r) \/ Settle(r)

Spec == Init /\ [][Next]_vars

-----------------------------------------------------------------------------
(* Properties *)

\* Every row has the shape of its table.
TypeOK ==
    /\ runs \in [Run -> RunRow]
    /\ execs \in [Run -> [Token -> ExecutionRow]]
    /\ trail \in [Run -> [AttemptId -> Receipt]]

\* The CHECKs of the runs and run_executions tables, on one run.
RowSchema(run, rows) ==
    /\ (run.status = "settled") <=> (run.disposition # None)
    /\ run.status = "response_ready" => run.approved # None /\ run.rendered # None
    /\ run.status \in {"input_ready", "executing", "response_ready"} => run.prepared
    /\ run.delivery \in {"not_ready", "not_applicable"} <=> run.attempt = None
    /\ \A f \in Token :
         rows[f].outcome = "not_submitted" => rows[f].inv = "not_invoked"

\* The rows the operations write satisfy the CHECKs of the runs and
\* run_executions tables by themselves: but for a receipt that comes after the
\* settlement (FinalizeDelivered, FinalizeUnknown), no operation of the store
\* can be refused by the schema and strand its caller.
SchemaHolds == \A r \in Run : RowSchema(runs[r], execs[r])

\* A lease is held only on a ledger run that has been claimed and can still
\* move; a run that is settled or needs recovery is held by nobody, so no
\* worker's release or renewal can touch it.
LeaseOnlyWhileActive ==
    \A r \in Run : runs[r].lease # "none" =>
      Ledger(r) /\ runs[r].fence > 0 /\ runs[r].status \in Leasable

\* The delivery columns of one run against its receipts.
RowReceipts(run, receipts) ==
    LET Rejected(a) == receipts[a] \in {"none", "failed"}
        OnlyThis(receipt) ==
          /\ receipts[run.attempt] = receipt
          /\ \A a \in AttemptId : a # run.attempt => Rejected(a)
    IN
    /\ run.delivery = "pending" => OnlyThis("started")
    /\ run.delivery = "failed" => OnlyThis("failed")
    /\ run.delivery = "delivered" => OnlyThis("delivered") /\ run.status = "settled"
    /\ run.delivery = "unknown" =>
         OnlyThis("unknown") /\ run.status \in {"settled", "recovery_required"}
    /\ run.delivery = "not_ready" => \A a \in AttemptId : Rejected(a)
    /\ run.delivery = "not_applicable" =>
         /\ run.status = "settled"
         /\ \A a \in AttemptId : Rejected(a) \/ receipts[a] = "started"
         /\ \A a, b \in AttemptId :
              receipts[a] = "started" /\ receipts[b] = "started" => a = b
    /\ run.status \in Unanswered =>
         run.approved = None /\ run.rendered = None /\ run.delivery = "not_ready"

\* The delivery columns of a run agree with the append-only receipts: the
\* attempt they name is the only one that can still be, or has been, shown to
\* the user, every other one is known to have been rejected, and a run that no
\* longer names an attempt has none in flight unless it is closed.
DeliveryMatchesReceipts == \A r \in Run : RowReceipts(runs[r], trail[r])

\* A delivery attempt starts only when every attempt before it, under any
\* fence and any rendering, is known to have been rejected: the ledger never
\* authorises a second reply while an earlier one may be visible.
RetryOnlyAfterRejection ==
    [][\A r \in Run, a \in AttemptId :
         trail[r][a] = "none" /\ trail'[r][a] # "none"
           => \A b \in AttemptId : trail[r][b] \in {"none", "failed"}]_vars

\* A settled run stays settled with the disposition it was given; only the
\* proof that its pending reply was delivered may replace the disposition, and
\* never a quarantine.
SettledIsFinal ==
    [][\A r \in Run : runs[r].status = "settled" =>
         /\ runs'[r].status = "settled"
         /\ \/ runs'[r].disposition = runs[r].disposition
            \/ /\ runs[r].disposition # "quarantined"
               /\ runs[r].delivery = "pending" /\ runs'[r].delivery = "delivered"]_vars

\* A run that needs recovery leaves that state only through the operator's
\* quarantine or the delivery receipt it was waiting for; no worker, sweep or
\* late write puts it back to work.
RecoverySticks ==
    [][\A r \in Run :
         runs[r].status = "recovery_required" /\ runs'[r].status # "recovery_required" =>
           /\ runs'[r].status = "settled"
           /\ \/ runs'[r].disposition = "quarantined"
              \/ runs[r].delivery = "pending" /\ runs'[r].delivery = "delivered"]_vars

\* Once a ledger run has been claimed again, an execution opened under an
\* earlier fence can no longer be shown as invoked or settled by the worker
\* that lost it; all such a worker can still do is resolve its route.
StaleExecutionFrozen ==
    [][\A r \in Run, f \in Token :
         Ledger(r) /\ f < runs[r].fence /\ execs'[r][f] # execs[r][f] =>
           /\ execs[r][f] = [inv |-> "not_invoked", outcome |-> "pending"]
           /\ execs'[r][f] = [inv |-> "ready", outcome |-> "pending"]]_vars

\* Ordering exclusion: while an older run of its ordering key is not settled,
\* a run has never been claimed.
NoOvertaking ==
    \A r, s \in Run :
      /\ Ledger(r) /\ Ledger(s) /\ KeyOf[r] = KeyOf[s]
      /\ Open(r) /\ Present(s) /\ Before(r, s)
      => runs[s].fence = 0

\* Two runs of one ordering key are never both held by a worker.
OneLeasePerKey ==
    \A r, s \in Run :
      r # s /\ Ledger(r) /\ Ledger(s) /\ KeyOf[r] = KeyOf[s]
        => runs[r].lease # "held" \/ runs[s].lease # "held"

\* The reply state of a run, read off its receipts.
ReplyOf(receipts) ==
    LET Some(receipt) == \E a \in AttemptId : receipts[a] = receipt IN
    IF Some("delivered") THEN "sent"
    ELSE IF Some("unknown") THEN "unknown"
    ELSE IF Some("started") THEN "trying"
    ELSE IF Some("failed") THEN "rejected" ELSE "none"

StageOf(status) ==
    IF status = "absent" THEN "none"
    ELSE IF status = "settled" THEN "closed"
    ELSE IF status = "recovery_required" THEN "attention"
    ELSE "open"

StageBar == [r \in Run |-> StageOf(runs[r].status)]
ReplyBar == [r \in Run |-> ReplyOf(trail[r])]

Promise == INSTANCE RunPromise WITH stage <- StageBar, reply <- ReplyBar

\* The ledger implements what RunPromise promises: one reply at most, retried
\* only after a rejection, and a closed run closed for good.
KeepsPromise == Promise!Spec
=============================================================================
