-------------------------- MODULE WorkStore_proofs --------------------------
(***************************************************************************)
(* Proofs about WorkStore for every set of runs, keys, methods, payloads   *)
(* and every bound on fences and stamps.                                   *)
(***************************************************************************)
EXTENDS WorkStore, TLAPS

\* What the inductive invariant says of the rows of one run.
RowOK(r, run, rows, receipts) ==
    /\ run \in RunRow
    /\ rows \in [Token -> ExecutionRow]
    /\ receipts \in [AttemptId -> Receipt]
    /\ RowSchema(run, rows)
    /\ run.lease # "none" => Ledger(r) /\ run.fence > 0 /\ run.status \in Leasable
    /\ RowReceipts(run, receipts)

\* The inductive invariant: all four of the state properties together.  None
\* is inductive alone: the CHECKs on attempt ids need the delivery columns,
\* these need the receipts, and both need the types.
Inv ==
    /\ TypeOK
    /\ SchemaHolds
    /\ LeaseOnlyWhileActive
    /\ DeliveryMatchesReceipts

LEMMA RowsOK ==
    ASSUME Inv, NEW r \in Run
    PROVE  RowOK(r, runs[r], execs[r], trail[r])
  BY DEF Inv, TypeOK, SchemaHolds, LeaseOnlyWhileActive, DeliveryMatchesReceipts, RowOK

\* A step that rewrites the rows of one run preserves the invariant as soon as
\* the rows it writes are good.
LEMMA OneRun ==
    ASSUME Inv, NEW r \in Run, NEW run, NEW rows, NEW receipts,
           runs' = [runs EXCEPT ![r] = run],
           execs' = [execs EXCEPT ![r] = rows],
           trail' = [trail EXCEPT ![r] = receipts],
           RowOK(r, run, rows, receipts)
    PROVE  Inv'
<1> USE DEF Inv, TypeOK
<1>1. /\ runs' = [s \in Run |-> IF s = r THEN run ELSE runs[s]]
      /\ execs' = [s \in Run |-> IF s = r THEN rows ELSE execs[s]]
      /\ trail' = [s \in Run |-> IF s = r THEN receipts ELSE trail[s]]
  OBVIOUS
<1>2. \A s \in Run : RowOK(s, runs[s], execs[s], trail[s])
  BY DEF SchemaHolds, LeaseOnlyWhileActive, DeliveryMatchesReceipts, RowOK
<1>3. \A s \in Run : RowOK(s, runs'[s], execs'[s], trail'[s])
  BY <1>1, <1>2
<1>4. TypeOK'
  BY <1>1, <1>3 DEF RowOK
<1>5. SchemaHolds' /\ LeaseOnlyWhileActive' /\ DeliveryMatchesReceipts'
  BY <1>3 DEF SchemaHolds, LeaseOnlyWhileActive, DeliveryMatchesReceipts, RowOK, Ledger
<1> QED
  BY <1>4, <1>5

LEMMA OnlyTheRun ==
    ASSUME Inv, NEW r \in Run, NEW run,
           SetRun(r, run), UNCHANGED <<execs, trail>>,
           RowOK(r, run, execs[r], trail[r])
    PROVE  Inv'
<1>1. /\ execs' = [execs EXCEPT ![r] = execs[r]]
      /\ trail' = [trail EXCEPT ![r] = trail[r]]
  BY DEF Inv, TypeOK
<1> QED
  BY <1>1, OneRun DEF SetRun

LEMMA InitInv == Init => Inv
<1> SUFFICES ASSUME Init PROVE Inv
  OBVIOUS
<1>1. None \notin Disposition /\ None \notin AttemptId
  BY StoreAssumption
<1>2. TypeOK
  BY <1>1, StoreAssumption
     DEF Init, TypeOK, RunRow, FreshRun, NoExecution, ExecutionRow, Status,
         Delivery, Invocation, Outcome, Receipt
<1>3. SchemaHolds
  BY DEF Init, SchemaHolds, RowSchema, FreshRun, NoExecution
<1>4. LeaseOnlyWhileActive
  BY DEF Init, LeaseOnlyWhileActive, FreshRun
<1>5. DeliveryMatchesReceipts
  BY DEF Init, DeliveryMatchesReceipts, RowReceipts, FreshRun, Unanswered
<1> QED
  BY <1>2, <1>3, <1>4, <1>5 DEF Inv

LEMMA AdmitInv ==
    ASSUME Inv, NEW r \in Run, NEW stamp \in 0..MaxStamp, Admit(r, stamp)
    PROVE  Inv'
<1> DEFINE row == FreshRun("admitted", stamp)
<1>1. RowOK(r, runs[r], execs[r], trail[r])
  BY RowsOK
<1>2. SetRun(r, row) /\ UNCHANGED <<execs, trail>>
  BY DEF Admit
<1>3. RowOK(r, row, execs[r], trail[r])
  BY <1>1, StoreAssumption
     DEF Admit, Present, FreshRun, RowOK, RunRow, RowSchema, RowReceipts, Status, Disposition, Delivery, Leasable, Unanswered
<1> QED
  BY <1>2, <1>3, OnlyTheRun

LEMMA LeaseLapsesInv ==
    ASSUME Inv, NEW r \in Run, LeaseLapses(r)
    PROVE  Inv'
<1> DEFINE row == [runs[r] EXCEPT !.lease = "lapsed"]
<1>1. RowOK(r, runs[r], execs[r], trail[r])
  BY RowsOK
<1>2. SetRun(r, row) /\ UNCHANGED <<execs, trail>>
  BY DEF LeaseLapses
<1>3. RowOK(r, row, execs[r], trail[r])
  BY <1>1, StoreAssumption
     DEF LeaseLapses, RowOK, RunRow, RowSchema, RowReceipts, Status, Disposition, Delivery, Leasable, Unanswered
<1> QED
  BY <1>2, <1>3, OnlyTheRun

LEMMA ReleaseRequeuedInv ==
    ASSUME Inv, NEW r \in Run, NEW f \in Token, ReleaseRequeued(r, f)
    PROVE  Inv'
<1> DEFINE row == [runs[r] EXCEPT !.status = RequeuedStatus(runs[r]), !.lease = "none"]
<1>1. RowOK(r, runs[r], execs[r], trail[r])
  BY RowsOK
<1>2. SetRun(r, row) /\ UNCHANGED <<execs, trail>>
  BY DEF ReleaseRequeued
<1>3. RowOK(r, row, execs[r], trail[r])
  BY <1>1, StoreAssumption
     DEF ReleaseRequeued, CanRelease, RequeuedStatus, RowOK, RunRow, RowSchema, RowReceipts, Status, Disposition, Delivery, Leasable, Unanswered
<1> QED
  BY <1>2, <1>3, OnlyTheRun

LEMMA ReleaseSettledInv ==
    ASSUME Inv, NEW r \in Run, NEW f \in Token, ReleaseSettled(r, f)
    PROVE  Inv'
<1> DEFINE row == [runs[r] EXCEPT
         !.status = "settled", !.disposition = "skipped", !.lease = "none",
         !.delivery = IF @ = "not_ready" THEN "not_applicable" ELSE @]
<1>1. RowOK(r, runs[r], execs[r], trail[r])
  BY RowsOK
<1>2. SetRun(r, row) /\ UNCHANGED <<execs, trail>>
  BY DEF ReleaseSettled
<1>3. RowOK(r, row, execs[r], trail[r])
  BY <1>1, StoreAssumption
     DEF ReleaseSettled, CanRelease, RowOK, RunRow, RowSchema, RowReceipts, Status, Disposition, Delivery, Leasable, Unanswered
<1> QED
  BY <1>2, <1>3, OnlyTheRun

LEMMA ReleaseToRecoveryInv ==
    ASSUME Inv, NEW r \in Run, NEW f \in Token, ReleaseToRecovery(r, f)
    PROVE  Inv'
<1> DEFINE row == [runs[r] EXCEPT !.status = "recovery_required", !.lease = "none"]
<1>1. RowOK(r, runs[r], execs[r], trail[r])
  BY RowsOK
<1>2. SetRun(r, row) /\ UNCHANGED <<execs, trail>>
  BY DEF ReleaseToRecovery
<1>3. RowOK(r, row, execs[r], trail[r])
  BY <1>1, StoreAssumption
     DEF ReleaseToRecovery, CanRelease, RowOK, RunRow, RowSchema, RowReceipts, Status, Disposition, Delivery, Leasable, Unanswered
<1> QED
  BY <1>2, <1>3, OnlyTheRun

LEMMA PrepareRunInputInv ==
    ASSUME Inv, NEW r \in Run, PrepareRunInput(r)
    PROVE  Inv'
<1> DEFINE row == [runs[r] EXCEPT !.prepared = TRUE, !.status = "input_ready"]
<1>1. RowOK(r, runs[r], execs[r], trail[r])
  BY RowsOK
<1>2. SetRun(r, row) /\ UNCHANGED <<execs, trail>>
  BY DEF PrepareRunInput
<1>3. RowOK(r, row, execs[r], trail[r])
  BY <1>1, StoreAssumption
     DEF PrepareRunInput, RowOK, RunRow, RowSchema, RowReceipts, Status, Disposition, Delivery, Leasable, Unanswered
<1> QED
  BY <1>2, <1>3, OnlyTheRun

LEMMA DiscardFailedResponseInv ==
    ASSUME Inv, NEW r \in Run, DiscardFailedResponse(r)
    PROVE  Inv'
<1> DEFINE row == [runs[r] EXCEPT
         !.status = "input_ready", !.approved = None, !.rendered = None,
         !.delivery = "not_ready", !.attempt = None]
<1>1. RowOK(r, runs[r], execs[r], trail[r])
  BY RowsOK
<1>2. SetRun(r, row) /\ UNCHANGED <<execs, trail>>
  BY DEF DiscardFailedResponse
<1>3. RowOK(r, row, execs[r], trail[r])
  BY <1>1, StoreAssumption
     DEF DiscardFailedResponse, RowOK, RunRow, RowSchema, RowReceipts, Status, Disposition, Delivery, Leasable, Unanswered
<1> QED
  BY <1>2, <1>3, OnlyTheRun

LEMMA RecordActionUnknownInv ==
    ASSUME Inv, NEW r \in Run, NEW f \in Token, RecordActionUnknown(r, f)
    PROVE  Inv'
<1> DEFINE row == [runs[r] EXCEPT !.status = "recovery_required", !.lease = "none"]
<1>1. RowOK(r, runs[r], execs[r], trail[r])
  BY RowsOK
<1>2. SetRun(r, row) /\ UNCHANGED <<execs, trail>>
  BY DEF RecordActionUnknown
<1>3. RowOK(r, row, execs[r], trail[r])
  BY <1>1, StoreAssumption
     DEF RecordActionUnknown, Open, RowOK, RunRow, RowSchema, RowReceipts, Status, Disposition, Delivery, Leasable, Unanswered
<1> QED
  BY <1>2, <1>3, OnlyTheRun

LEMMA RecordRunResponseInv ==
    ASSUME Inv, NEW r \in Run, NEW f \in Token, NEW a \in Answer, NEW w \in Rendering, RecordRunResponse(r, f, a, w)
    PROVE  Inv'
<1> DEFINE row == [runs[r] EXCEPT
         !.approved = a, !.rendered = w, !.status = "response_ready",
         !.delivery = "not_ready"]
<1>1. RowOK(r, runs[r], execs[r], trail[r])
  BY RowsOK
<1>2. SetRun(r, row) /\ UNCHANGED <<execs, trail>>
  BY DEF RecordRunResponse
<1>3. RowOK(r, row, execs[r], trail[r])
  BY <1>1, StoreAssumption
     DEF RecordRunResponse, CanRecordResponse, RowOK, RunRow, RowSchema, RowReceipts, Status, Disposition, Delivery, Leasable, Unanswered
<1> QED
  BY <1>2, <1>3, OnlyTheRun

LEMMA ReplaceRenderingInv ==
    ASSUME Inv, NEW r \in Run, NEW f \in Token, NEW w \in Rendering, ReplaceRendering(r, f, w)
    PROVE  Inv'
<1> DEFINE row == [runs[r] EXCEPT
         !.rendered = w, !.delivery = "not_ready", !.attempt = None]
<1>1. RowOK(r, runs[r], execs[r], trail[r])
  BY RowsOK
<1>2. SetRun(r, row) /\ UNCHANGED <<execs, trail>>
  BY DEF ReplaceRendering
<1>3. RowOK(r, row, execs[r], trail[r])
  BY <1>1, StoreAssumption
     DEF ReplaceRendering, RowOK, RunRow, RowSchema, RowReceipts, Status, Disposition, Delivery, Leasable, Unanswered
<1> QED
  BY <1>2, <1>3, OnlyTheRun

LEMMA SettleRunWithoutDeliveryInv ==
    ASSUME Inv, NEW r \in Run, NEW f \in Token, NEW d \in {"no_op", "failed", "skipped"}, SettleRunWithoutDelivery(r, f, d)
    PROVE  Inv'
<1> DEFINE row == [runs[r] EXCEPT
         !.status = "settled", !.disposition = d, !.delivery = "not_applicable",
         !.attempt = None, !.lease = "none"]
<1>1. RowOK(r, runs[r], execs[r], trail[r])
  BY RowsOK
<1>2. SetRun(r, row) /\ UNCHANGED <<execs, trail>>
  BY DEF SettleRunWithoutDelivery
<1>3. RowReceipts(row, trail[r])
  <2>1. runs[r].delivery \in {"not_ready", "pending", "failed"}
    BY <1>1, StoreAssumption
       DEF SettleRunWithoutDelivery, CanSettleWithoutDelivery, RowOK, RunRow,
           RowSchema, RowReceipts, Delivery, Disposition
  <2>2. /\ \A a \in AttemptId : trail[r][a] \in {"none", "failed", "started"}
        /\ \A a, b \in AttemptId :
             trail[r][a] = "started" /\ trail[r][b] = "started" => a = b
    BY <1>1, <2>1 DEF RowOK, RowReceipts
  <2>3. row.delivery = "not_applicable" /\ row.status = "settled"
    BY <1>1 DEF RowOK, RunRow
  <2> QED
    BY <2>2, <2>3 DEF RowReceipts, Unanswered
<1>4. RowOK(r, row, execs[r], trail[r])
  BY <1>1, <1>3, StoreAssumption
     DEF RowOK, RunRow, RowSchema, Status, Disposition, Delivery
<1> QED
  BY <1>2, <1>4, OnlyTheRun

LEMMA SettleUnstartedRunInv ==
    ASSUME Inv, NEW r \in Run, SettleUnstartedRun(r)
    PROVE  Inv'
<1> DEFINE row == [runs[r] EXCEPT
         !.status = "settled", !.disposition = "skipped", !.delivery = "not_applicable"]
<1>1. RowOK(r, runs[r], execs[r], trail[r])
  BY RowsOK
<1>2. SetRun(r, row) /\ UNCHANGED <<execs, trail>>
  BY DEF SettleUnstartedRun
<1>3. RowOK(r, row, execs[r], trail[r])
  BY <1>1, StoreAssumption
     DEF SettleUnstartedRun, RowOK, RunRow, RowSchema, RowReceipts, Status, Disposition, Delivery, Leasable, Unanswered
<1> QED
  BY <1>2, <1>3, OnlyTheRun

LEMMA RequireRecoveryInv ==
    ASSUME Inv, NEW r \in Run, RequireRecovery(r)
    PROVE  Inv'
<1> DEFINE row == [runs[r] EXCEPT !.status = "recovery_required", !.lease = "none"]
<1>1. RowOK(r, runs[r], execs[r], trail[r])
  BY RowsOK
<1>2. SetRun(r, row) /\ UNCHANGED <<execs, trail>>
  BY DEF RequireRecovery
<1>3. RowOK(r, row, execs[r], trail[r])
  BY <1>1, StoreAssumption
     DEF RequireRecovery, Open, RowOK, RunRow, RowSchema, RowReceipts, Status, Disposition, Delivery, Leasable, Unanswered
<1> QED
  BY <1>2, <1>3, OnlyTheRun

LEMMA QuarantineRunInv ==
    ASSUME Inv, NEW r \in Run, QuarantineRun(r)
    PROVE  Inv'
<1> DEFINE row == [runs[r] EXCEPT
         !.status = "settled", !.disposition = "quarantined", !.lease = "none"]
<1>1. RowOK(r, runs[r], execs[r], trail[r])
  BY RowsOK
<1>2. SetRun(r, row) /\ UNCHANGED <<execs, trail>>
  BY DEF QuarantineRun
<1>3. RowOK(r, row, execs[r], trail[r])
  BY <1>1, StoreAssumption
     DEF QuarantineRun, RowOK, RunRow, RowSchema, RowReceipts, Status, Disposition, Delivery, Leasable, Unanswered
<1> QED
  BY <1>2, <1>3, OnlyTheRun

\* Moving a run between the statuses that have no reply yet, or keeping it at
\* response_ready or sending it to recovery, disturbs no receipt.
LEMMA StatusKeepsReceipts ==
    ASSUME NEW run \in RunRow, NEW row \in RunRow, NEW receipts,
           RowReceipts(run, receipts), run.status \notin {"settled", "recovery_required"},
           row.delivery = run.delivery, row.attempt = run.attempt,
           row.approved = run.approved, row.rendered = run.rendered,
           \/ row.status = run.status
           \/ row.status = "recovery_required"
           \/ run.status \in Unanswered
    PROVE  RowReceipts(row, receipts)
  BY DEF RowReceipts, Unanswered

LEMMA ReconciledOK ==
    ASSUME Inv, NEW r \in Run
    PROVE  RowOK(r, Reconciled(r), execs[r], trail[r])
<1> DEFINE run == runs[r]
           row == Reconciled(r)
<1>1. RowOK(r, run, execs[r], trail[r])
  BY RowsOK
<1>2. CASE row = run
  BY <1>1, <1>2
<1>3. ASSUME row # run PROVE RowOK(r, row, execs[r], trail[r])
  <2>1. /\ run.status \in Leasable
        /\ row = [run EXCEPT !.status = row.status, !.lease = "none"]
        /\ \/ row.status = "recovery_required"
           \/ run.status = "response_ready" /\ row.status = "response_ready"
           \/ run.status # "response_ready" /\ run.prepared /\ row.status = "input_ready"
           \/ run.status # "response_ready" /\ row.status = "queued"
    BY <1>1, <1>3 DEF Reconciled, RequeuedStatus, RowOK, RunRow
  <2> HIDE DEF run, row
  <2>2. row \in RunRow /\ row.lease = "none"
    BY <1>1, <2>1 DEF RowOK, RunRow, Status
  <2>3. RowReceipts(row, trail[r])
    BY <1>1, <2>1, <2>2, StatusKeepsReceipts DEF RowOK, RunRow, Leasable, Unanswered
  <2>4. RowSchema(row, execs[r])
    BY <1>1, <2>1 DEF RowOK, RunRow, RowSchema, Leasable
  <2> QED
    BY <1>1, <2>2, <2>3, <2>4 DEF RowOK
<1> QED
  BY <1>2, <1>3

\* A step that rewrites only the run rows, all of them possibly.
LEMMA AllRuns ==
    ASSUME Inv, NEW rows, runs' = [s \in Run |-> rows[s]], UNCHANGED <<execs, trail>>,
           \A s \in Run : RowOK(s, rows[s], execs[s], trail[s])
    PROVE  Inv'
<1>1. TypeOK'
  BY DEF Inv, TypeOK, RowOK
<1>2. SchemaHolds' /\ LeaseOnlyWhileActive' /\ DeliveryMatchesReceipts'
  BY DEF SchemaHolds, LeaseOnlyWhileActive, DeliveryMatchesReceipts, RowOK, Ledger
<1> QED
  BY <1>1, <1>2 DEF Inv

LEMMA ClaimNothingInv == ASSUME Inv, ClaimNothing PROVE Inv'
<1> DEFINE swept == [s \in Run |-> Reconciled(s)]
<1>1. \A s \in Run : RowOK(s, swept[s], execs[s], trail[s])
  BY ReconciledOK
<1>2. runs' = [s \in Run |-> swept[s]] /\ UNCHANGED <<execs, trail>>
  BY DEF ClaimNothing
<1> HIDE DEF swept
<1> QED
  BY <1>1, <1>2, AllRuns

LEMMA ClaimInv == ASSUME Inv, NEW r \in Run, Claim(r) PROVE Inv'
<1> DEFINE swept == [s \in Run |-> Reconciled(s)]
           rows == [swept EXCEPT ![r] = Claimed(swept[r])]
<1>1. \A s \in Run : RowOK(s, swept[s], execs[s], trail[s])
  BY ReconciledOK
<1>2. /\ Ledger(r) /\ swept[r].status \in Claimable
      /\ swept[r].fence < MaxFence
      /\ runs' = rows /\ UNCHANGED <<execs, trail>>
  BY DEF Claim, Eligible
<1>3. RowOK(r, Claimed(swept[r]), execs[r], trail[r])
  <2> DEFINE row == swept[r]
  <2>1. RowOK(r, row, execs[r], trail[r]) /\ Ledger(r)
        /\ row.status \in Claimable /\ row.fence < MaxFence
    BY <1>1, <1>2
  <2> HIDE DEF row
  <2> DEFINE new == Claimed(row)
  <2>2. /\ new = [row EXCEPT !.status = new.status, !.lease = "held", !.fence = row.fence + 1]
        /\ \/ row.status \in {"admitted", "queued"} /\ new.status = "preparing_input"
           \/ row.status \in {"input_ready", "response_ready"} /\ new.status = row.status
    BY <2>1 DEF Claimed, Claimable, RowOK, RunRow
  <2> HIDE DEF new
  <2> DEFINE fence == row.fence + 1
  <2>6. fence \in 0..MaxFence /\ fence > 0
    BY <2>1, StoreAssumption DEF RowOK, RunRow
  <2> HIDE DEF fence
  <2>7. new = [row EXCEPT !.status = new.status, !.lease = "held", !.fence = fence]
    BY <2>2 DEF fence
  <2>3. new \in RunRow /\ new.fence > 0 /\ new.status \in Leasable
    BY <2>1, <2>2, <2>6, <2>7 DEF RowOK, RunRow, Status, Leasable
  <2>4. RowReceipts(new, trail[r])
    BY <2>1, <2>2, <2>3, StatusKeepsReceipts DEF RowOK, RunRow, Unanswered
  <2>5. RowSchema(new, execs[r])
    BY <2>1, <2>2 DEF RowOK, RunRow, RowSchema
  <2> QED
    BY <2>1, <2>3, <2>4, <2>5 DEF RowOK, row, new
<1>4. \A s \in Run : RowOK(s, rows[s], execs[s], trail[s])
  BY <1>1, <1>3
<1>5. runs' = [s \in Run |-> rows[s]]
  BY <1>2
<1> HIDE DEF swept, rows
<1> QED
  BY <1>2, <1>4, <1>5, AllRuns

\* A step that rewrites only the executions of one run.
LEMMA OnlyExecutions ==
    ASSUME Inv, NEW r \in Run, NEW rows,
           execs' = [execs EXCEPT ![r] = rows], UNCHANGED <<runs, trail>>,
           rows \in [Token -> ExecutionRow],
           \A f \in Token : rows[f].outcome = "not_submitted" => rows[f].inv = "not_invoked"
    PROVE  Inv'
<1>1. RowOK(r, runs[r], rows, trail[r])
  BY RowsOK DEF RowOK, RowSchema
<1>2. /\ runs' = [runs EXCEPT ![r] = runs[r]]
      /\ trail' = [trail EXCEPT ![r] = trail[r]]
  BY DEF Inv, TypeOK
<1> QED
  BY <1>1, <1>2, OneRun

\* Writing one execution row.
LEMMA OneExecution ==
    ASSUME Inv, NEW r \in Run, NEW f \in Token,
           NEW inv \in Invocation, NEW outcome \in Outcome,
           outcome = "not_submitted" => inv = "not_invoked",
           SetExecution(r, f, inv, outcome)
    PROVE  \E rows \in [Token -> ExecutionRow] :
             /\ execs' = [execs EXCEPT ![r] = rows]
             /\ \A g \in Token : rows[g].outcome = "not_submitted" => rows[g].inv = "not_invoked"
<1> DEFINE e == [inv |-> inv, outcome |-> outcome]
           rows == [execs[r] EXCEPT ![f] = e]
<1>1. execs \in [Run -> [Token -> ExecutionRow]] /\ RowSchema(runs[r], execs[r])
  BY DEF Inv, TypeOK, SchemaHolds
<1>2. e \in ExecutionRow /\ e.outcome = outcome /\ e.inv = inv
  BY DEF ExecutionRow
<1>3. execs' = [execs EXCEPT ![r] = rows]
  BY DEF SetExecution
<1> HIDE DEF e
<1>4. rows \in [Token -> ExecutionRow]
      /\ \A g \in Token : rows[g].outcome = "not_submitted" => rows[g].inv = "not_invoked"
  BY <1>1, <1>2 DEF RowSchema
<1> QED
  BY <1>3, <1>4

LEMMA CreateRunExecutionInv ==
    ASSUME Inv, NEW r \in Run, NEW f \in Token, CreateRunExecution(r, f)
    PROVE  Inv'
<1> DEFINE row == [runs[r] EXCEPT !.status = "executing", !.fence = f]
<1>1. RowOK(r, runs[r], execs[r], trail[r])
  BY RowsOK
<1>2. PICK rows \in [Token -> ExecutionRow] :
         /\ execs' = [execs EXCEPT ![r] = rows]
         /\ \A g \in Token : rows[g].outcome = "not_submitted" => rows[g].inv = "not_invoked"
  BY OneExecution DEF CreateRunExecution, Invocation, Outcome
<1>3. /\ runs' = [runs EXCEPT ![r] = row] /\ trail' = [trail EXCEPT ![r] = trail[r]]
      /\ runs[r].status = "input_ready" /\ runs[r].prepared
      /\ Ledger(r) => f = runs[r].fence
  BY DEF CreateRunExecution, CanCreateExecution, SetRun, Inv, TypeOK
<1>4. row \in RunRow
  <2>1. f \in 0..MaxFence
    BY StoreAssumption DEF Token
  <2> QED
    BY <1>1, <2>1 DEF RowOK, RunRow, Status
<1>5. RowReceipts(row, trail[r])
  BY <1>1, <1>3, <1>4, StatusKeepsReceipts DEF RowOK, RunRow, Unanswered
<1>6. RowSchema(row, rows)
  BY <1>1, <1>2, <1>3 DEF RowOK, RunRow, RowSchema
<1>7. row.lease # "none" => Ledger(r) /\ row.fence > 0 /\ row.status \in Leasable
  BY <1>1, <1>3 DEF RowOK, RunRow, Leasable, Token
<1>8. RowOK(r, row, rows, trail[r])
  BY <1>1, <1>2, <1>4, <1>5, <1>6, <1>7 DEF RowOK
<1> QED
  BY <1>2, <1>3, <1>8, OneRun

LEMMA RecordRunExecutionRouteInv ==
    ASSUME Inv, NEW r \in Run, NEW f \in Token, RecordRunExecutionRoute(r, f)
    PROVE  Inv'
  BY OneExecution, OnlyExecutions DEF RecordRunExecutionRoute, Invocation, Outcome

LEMMA MarkRunExecutionInvokedInv ==
    ASSUME Inv, NEW r \in Run, NEW f \in Token, MarkRunExecutionInvoked(r, f)
    PROVE  Inv'
<1>1. execs[r][f].outcome \in Outcome /\ execs[r][f].outcome # "not_submitted"
  BY DEF MarkRunExecutionInvoked, Inv, TypeOK, SchemaHolds, RowSchema, ExecutionRow
<1>2. SetExecution(r, f, "invoked", execs[r][f].outcome) /\ UNCHANGED <<runs, trail>>
  BY DEF MarkRunExecutionInvoked
<1> QED
  BY <1>1, <1>2, OneExecution, OnlyExecutions DEF Invocation

LEMMA SettleRunExecutionInv ==
    ASSUME Inv, NEW r \in Run, NEW f \in Token,
           NEW inv \in {"not_invoked", "invoked", "settled"},
           NEW outcome \in Outcome \ {"pending"},
           SettleRunExecution(r, f, inv, outcome)
    PROVE  Inv'
<1>1. /\ outcome = "not_submitted" => inv = "not_invoked"
      /\ SetExecution(r, f, inv, outcome) /\ UNCHANGED <<runs, trail>>
  BY DEF SettleRunExecution, CanSettleExecution
<1> QED
  BY <1>1, OneExecution, OnlyExecutions DEF Invocation

LEMMA SettleInterruptedRunInv ==
    ASSUME Inv, NEW r \in Run, SettleInterruptedRun(r)
    PROVE  Inv'
<1> DEFINE row == [runs[r] EXCEPT
             !.status = "settled", !.disposition = "skipped", !.delivery = "not_applicable"]
           rows == [f \in Token |-> Interrupted(execs[r][f])]
<1>1. RowOK(r, runs[r], execs[r], trail[r])
  BY RowsOK
<1>2. /\ rows \in [Token -> ExecutionRow]
      /\ \A f \in Token : rows[f].outcome = "not_submitted" => rows[f].inv = "not_invoked"
  BY <1>1 DEF RowOK, RowSchema, Interrupted, ExecutionRow, Invocation, Outcome
<1>3. /\ runs' = [runs EXCEPT ![r] = row] /\ trail' = [trail EXCEPT ![r] = trail[r]]
      /\ execs' = [execs EXCEPT ![r] = rows]
  BY DEF SettleInterruptedRun, SetRun, Inv, TypeOK
<1> HIDE DEF rows
<1>4. RowOK(r, row, rows, trail[r])
  BY <1>1, <1>2, StoreAssumption
     DEF SettleInterruptedRun, RowOK, RunRow, RowSchema, RowReceipts, Status,
         Disposition, Delivery, Leasable, Unanswered
<1> QED
  BY <1>3, <1>4, OneRun

\* A step that rewrites one run and the receipt of one of its attempts.
LEMMA RunAndReceipt ==
    ASSUME Inv, NEW r \in Run, NEW a \in AttemptId, NEW row, NEW receipt \in Receipt,
           SetRun(r, row), trail' = [trail EXCEPT ![r][a] = receipt], UNCHANGED execs,
           RowOK(r, row, execs[r], [trail[r] EXCEPT ![a] = receipt])
    PROVE  Inv'
<1>1. /\ execs' = [execs EXCEPT ![r] = execs[r]]
      /\ trail' = [trail EXCEPT ![r] = [trail[r] EXCEPT ![a] = receipt]]
  BY DEF Inv, TypeOK
<1> QED
  BY <1>1, OneRun DEF SetRun

LEMMA StartRunDeliveryInv ==
    ASSUME Inv, NEW r \in Run, NEW f \in Token, NEW m \in Method, StartRunDelivery(r, f, m)
    PROVE  Inv'
<1> DEFINE a == <<f, m>>
           row == [runs[r] EXCEPT !.delivery = "pending", !.attempt = a]
           receipts == [trail[r] EXCEPT ![a] = "started"]
<1>1. RowOK(r, runs[r], execs[r], trail[r])
  BY RowsOK
<1>2. a \in AttemptId /\ "started" \in Receipt
  BY DEF AttemptId, Receipt
<1>3. /\ CanStartDelivery(r, f, a) /\ SetRun(r, row) /\ UNCHANGED execs
      /\ trail' = [trail EXCEPT ![r][a] = "started"]
  BY DEF StartRunDelivery
<1> HIDE DEF a
<1>4. RowReceipts(row, receipts)
  BY <1>1, <1>2, <1>3
     DEF CanStartDelivery, RowOK, RunRow, RowSchema, RowReceipts, Unanswered
<1>5. RowOK(r, row, execs[r], receipts)
  BY <1>1, <1>2, <1>3, <1>4, StoreAssumption
     DEF CanStartDelivery, RowOK, RunRow, RowSchema, Delivery
<1> QED
  BY <1>2, <1>3, <1>5, RunAndReceipt

LEMMA FinalizeDeliveredInv ==
    ASSUME Inv, NEW r \in Run, NEW f \in Token, NEW a \in AttemptId,
           NEW d \in Disposition \ {"quarantined"}, FinalizeDelivered(r, f, a, d)
    PROVE  Inv'
<1> DEFINE row == [runs[r] EXCEPT
             !.delivery = "delivered", !.status = "settled", !.disposition = d,
             !.lease = "none"]
           receipts == [trail[r] EXCEPT ![a] = "delivered"]
<1>1. RowOK(r, runs[r], execs[r], trail[r])
  BY RowsOK
<1>2. /\ CanFinalize(r, f, a) /\ SetRun(r, row) /\ UNCHANGED execs
      /\ trail' = [trail EXCEPT ![r][a] = "delivered"] /\ "delivered" \in Receipt
  BY DEF FinalizeDelivered, Receipt
<1>3. RowReceipts(row, receipts)
  BY <1>1, <1>2 DEF CanFinalize, RowOK, RunRow, RowReceipts, Unanswered
<1>4. RowOK(r, row, execs[r], receipts)
  BY <1>1, <1>2, <1>3, StoreAssumption
     DEF CanFinalize, RowOK, RunRow, RowSchema, Delivery, Status
<1> QED
  BY <1>2, <1>4, RunAndReceipt

LEMMA FinalizeUnknownInv ==
    ASSUME Inv, NEW r \in Run, NEW f \in Token, NEW a \in AttemptId, FinalizeUnknown(r, f, a)
    PROVE  Inv'
<1> DEFINE row == [runs[r] EXCEPT
             !.delivery = "unknown", !.status = "recovery_required", !.lease = "none"]
           receipts == [trail[r] EXCEPT ![a] = "unknown"]
<1>1. RowOK(r, runs[r], execs[r], trail[r])
  BY RowsOK
<1>2. /\ CanFinalize(r, f, a) /\ SetRun(r, row) /\ UNCHANGED execs
      /\ runs[r].status # "settled"
      /\ trail' = [trail EXCEPT ![r][a] = "unknown"] /\ "unknown" \in Receipt
  BY DEF FinalizeUnknown, Receipt
<1>3. RowReceipts(row, receipts)
  BY <1>1, <1>2 DEF CanFinalize, RowOK, RunRow, RowReceipts, Unanswered
<1>4. RowOK(r, row, execs[r], receipts)
  BY <1>1, <1>2, <1>3, StoreAssumption
     DEF CanFinalize, RowOK, RunRow, RowSchema, Delivery, Status
<1> QED
  BY <1>2, <1>4, RunAndReceipt

LEMMA FinalizeFailedInv ==
    ASSUME Inv, NEW r \in Run, NEW f \in Token, NEW a \in AttemptId, FinalizeFailed(r, f, a)
    PROVE  Inv'
<1> DEFINE row == [runs[r] EXCEPT !.delivery = "failed"]
           receipts == [trail[r] EXCEPT ![a] = "failed"]
<1>1. RowOK(r, runs[r], execs[r], trail[r])
  BY RowsOK
<1>2. /\ CanFinalize(r, f, a) /\ SetRun(r, row) /\ UNCHANGED execs
      /\ trail' = [trail EXCEPT ![r][a] = "failed"] /\ "failed" \in Receipt
  BY DEF FinalizeFailed, Receipt
<1>3. RowReceipts(row, receipts)
  BY <1>1, <1>2 DEF CanFinalize, RowOK, RunRow, RowReceipts, Unanswered
<1>4. RowOK(r, row, execs[r], receipts)
  BY <1>1, <1>2, <1>3, StoreAssumption
     DEF CanFinalize, RowOK, RunRow, RowSchema, Delivery, Status
<1> QED
  BY <1>2, <1>4, RunAndReceipt

LEMMA NextInv == ASSUME Inv, [Next]_vars PROVE Inv'
<1>1. CASE UNCHANGED vars
  BY <1>1 DEF vars, Inv, TypeOK, SchemaHolds, LeaseOnlyWhileActive, DeliveryMatchesReceipts
<1>2. CASE ClaimNothing
  BY <1>2, ClaimNothingInv
<1>3. ASSUME NEW r \in Run, Coordinate(r) PROVE Inv'
  BY <1>3, AdmitInv, ClaimInv, LeaseLapsesInv, ReleaseRequeuedInv, ReleaseToRecoveryInv,
     ReleaseSettledInv DEF Coordinate
<1>4. ASSUME NEW r \in Run, Execute(r) PROVE Inv'
  BY <1>4, PrepareRunInputInv, DiscardFailedResponseInv, CreateRunExecutionInv,
     RecordRunExecutionRouteInv, MarkRunExecutionInvokedInv, RecordActionUnknownInv,
     SettleRunExecutionInv DEF Execute
<1>5. ASSUME NEW r \in Run, Deliver(r) PROVE Inv'
  BY <1>5, RecordRunResponseInv, ReplaceRenderingInv, StartRunDeliveryInv,
     FinalizeUnknownInv, FinalizeFailedInv, FinalizeDeliveredInv DEF Deliver
<1>6. ASSUME NEW r \in Run, Settle(r) PROVE Inv'
  BY <1>6, SettleRunWithoutDeliveryInv, SettleUnstartedRunInv, SettleInterruptedRunInv,
     RequireRecoveryInv, QuarantineRunInv DEF Settle
<1> QED
  BY <1>1, <1>2, <1>3, <1>4, <1>5, <1>6 DEF Next

\* The invariant holds of every behaviour of the store.
THEOREM Invariance == Spec => []Inv
  BY InitInv, NextInv, PTL DEF Spec

\* Every row has the shape of its table: the type invariant of the store.
THEOREM TypeCorrect == Spec => []TypeOK
<1>1. Inv => TypeOK
  BY DEF Inv
<1> QED
  BY <1>1, Invariance, PTL

\* No operation but a late receipt is ever refused by the CHECKs of the schema.
THEOREM SchemaCorrect == Spec => []SchemaHolds
<1>1. Inv => SchemaHolds
  BY DEF Inv
<1> QED
  BY <1>1, Invariance, PTL

\* No lease survives on a run that is settled or needs recovery.
THEOREM LeaseCorrect == Spec => []LeaseOnlyWhileActive
<1>1. Inv => LeaseOnlyWhileActive
  BY DEF Inv
<1> QED
  BY <1>1, Invariance, PTL

\* The delivery columns always agree with the append-only receipts.
THEOREM ReceiptsCorrect == Spec => []DeliveryMatchesReceipts
<1>1. Inv => DeliveryMatchesReceipts
  BY DEF Inv
<1> QED
  BY <1>1, Invariance, PTL

-----------------------------------------------------------------------------
(* Action properties *)

\* The steps of one run, by what they do to the receipts of that run.
LEMMA ReceiptSteps ==
    ASSUME Inv, Next
    PROVE  \/ UNCHANGED trail
           \/ \E r \in Run, f \in Token, m \in Method : StartRunDelivery(r, f, m)
           \/ \E r \in Run, f \in Token, a \in AttemptId, receipt \in Receipt \ {"none"} :
                /\ CanFinalize(r, f, a)
                /\ trail' = [trail EXCEPT ![r][a] = receipt]
<1>1. CASE ClaimNothing
  BY <1>1 DEF ClaimNothing
<1>2. ASSUME NEW r \in Run, Coordinate(r) PROVE UNCHANGED trail
  BY <1>2 DEF Coordinate, Admit, Claim, LeaseLapses, ReleaseRequeued, ReleaseToRecovery,
              ReleaseSettled
<1>3. ASSUME NEW r \in Run, Execute(r) PROVE UNCHANGED trail
  BY <1>3 DEF Execute, PrepareRunInput, DiscardFailedResponse, CreateRunExecution,
              RecordRunExecutionRoute, MarkRunExecutionInvoked, RecordActionUnknown,
              SettleRunExecution
<1>4. ASSUME NEW r \in Run, Settle(r) PROVE UNCHANGED trail
  BY <1>4 DEF Settle, SettleRunWithoutDelivery, SettleUnstartedRun, SettleInterruptedRun,
              RequireRecovery, QuarantineRun
<1>5. ASSUME NEW r \in Run, Deliver(r)
      PROVE  \/ UNCHANGED trail
             \/ \E f \in Token, m \in Method : StartRunDelivery(r, f, m)
             \/ \E f \in Token, a \in AttemptId, receipt \in Receipt \ {"none"} :
                  /\ CanFinalize(r, f, a)
                  /\ trail' = [trail EXCEPT ![r][a] = receipt]
  <2>1. {"failed", "unknown", "delivered"} \subseteq Receipt \ {"none"}
    BY DEF Receipt
  <2> QED
    BY <1>5, <2>1 DEF Deliver, RecordRunResponse, ReplaceRendering, FinalizeUnknown,
                      FinalizeFailed, FinalizeDelivered
<1> QED
  BY <1>1, <1>2, <1>3, <1>4, <1>5 DEF Next

\* No second reply is authorised while an earlier one may be visible.
THEOREM NoSecondReply == Spec => RetryOnlyAfterRejection
<1> DEFINE Step == \A r \in Run, a \in AttemptId :
             trail[r][a] = "none" /\ trail'[r][a] # "none"
               => \A b \in AttemptId : trail[r][b] \in {"none", "failed"}
<1>1. ASSUME Inv, Next PROVE Step
  <2> SUFFICES ASSUME NEW r \in Run, NEW a \in AttemptId,
                      trail[r][a] = "none", trail'[r][a] # "none"
               PROVE  \A b \in AttemptId : trail[r][b] \in {"none", "failed"}
    OBVIOUS
  <2>0. trail \in [Run -> [AttemptId -> Receipt]] /\ runs \in [Run -> RunRow]
    BY <1>1 DEF Inv, TypeOK
  <2>1. CASE UNCHANGED trail
    BY <2>1
  <2>2. ASSUME NEW s \in Run, NEW f \in Token, NEW m \in Method, StartRunDelivery(s, f, m)
        PROVE  \A b \in AttemptId : trail[r][b] \in {"none", "failed"}
    <3>1. s = r
      BY <2>0, <2>2 DEF StartRunDelivery
    <3>2. runs[r].delivery \in {"not_ready", "failed"}
      BY <2>2, <3>1 DEF StartRunDelivery, CanStartDelivery
    <3>3. RowReceipts(runs[r], trail[r])
      BY <1>1 DEF Inv, DeliveryMatchesReceipts
    <3> QED
      BY <3>2, <3>3 DEF RowReceipts
  <2>3. ASSUME NEW s \in Run, NEW f \in Token, NEW b \in AttemptId,
               NEW receipt \in Receipt \ {"none"},
               CanFinalize(s, f, b), trail' = [trail EXCEPT ![s][b] = receipt]
        PROVE  FALSE
    <3>1. s = r /\ a = b
      BY <2>0, <2>3
    <3>2. RowReceipts(runs[r], trail[r])
      BY <1>1 DEF Inv, DeliveryMatchesReceipts
    <3> QED
      BY <2>3, <3>1, <3>2 DEF CanFinalize, RowReceipts
  <2> QED
    BY <1>1, <2>1, <2>2, <2>3, ReceiptSteps
<1>2. UNCHANGED vars => Step
  BY DEF vars
<1>3. Inv /\ [Next]_vars => [Step]_vars
  BY <1>1
<1> QED
  BY <1>3, Invariance, PTL DEF Spec, RetryOnlyAfterRejection

\* How a step may move a row: one that is settled, one that needs recovery, and
\* any one that the step neither admits nor claims.
Settled(old, new) ==
    old.status = "settled" =>
      /\ new.status = "settled"
      /\ \/ new.disposition = old.disposition
         \/ /\ old.disposition # "quarantined"
            /\ old.delivery = "pending" /\ new.delivery = "delivered"

Recovering(old, new) ==
    old.status = "recovery_required" /\ new.status # "recovery_required" =>
      /\ new.status = "settled"
      /\ \/ new.disposition = "quarantined"
         \/ old.delivery = "pending" /\ new.delivery = "delivered"

Kept(r, old, new) ==
    /\ Ledger(r) => new.fence = old.fence
    /\ new.createdAt = old.createdAt
    /\ (new.status = "absent") <=> (old.status = "absent")

Moves(s) ==
    /\ Settled(runs[s], runs'[s])
    /\ Recovering(runs[s], runs'[s])
    /\ \/ Kept(s, runs[s], runs'[s])
       \/ \E stamp \in 0..MaxStamp : Admit(s, stamp)
       \/ Claim(s)

LEMMA OtherRuns ==
    ASSUME Inv, NEW r \in Run, NEW s \in Run, NEW row, SetRun(r, row),
           Settled(runs[r], row), Recovering(runs[r], row), Kept(r, runs[r], row)
    PROVE  Moves(s)
<1>1. runs'[s] = IF s = r THEN row ELSE runs[s]
  BY DEF Inv, TypeOK, SetRun
<1>2. Settled(runs[s], runs'[s]) /\ Recovering(runs[s], runs'[s])
  BY <1>1 DEF Settled, Recovering
<1>3. Kept(s, runs[s], runs'[s])
  BY <1>1 DEF Kept
<1> QED
  BY <1>2, <1>3 DEF Moves

LEMMA SweepMoves ==
    ASSUME Inv, NEW s \in Run
    PROVE  /\ Settled(runs[s], Reconciled(s)) /\ Recovering(runs[s], Reconciled(s))
           /\ Kept(s, runs[s], Reconciled(s))
<1>1. runs[s] \in RunRow
  BY DEF Inv, TypeOK
<1>2. CASE Reconciled(s) = runs[s]
  BY <1>2 DEF Settled, Recovering, Kept
<1>3. CASE /\ runs[s].status \in Leasable
           /\ \E status \in {"recovery_required", "response_ready", "input_ready", "queued"} :
                Reconciled(s) = [runs[s] EXCEPT !.status = status, !.lease = "none"]
  BY <1>1, <1>3 DEF RunRow, Leasable, Settled, Recovering, Kept
<1> QED
  BY <1>1, <1>2, <1>3 DEF Reconciled, RequeuedStatus, RunRow

LEMMA RowMoves == ASSUME Inv, Next, NEW s \in Run PROVE Moves(s)
<1> USE DEF Settled, Recovering, Kept
<1>0. /\ runs \in [Run -> RunRow]
      /\ \A r \in Run : runs[r].lease # "none" => runs[r].status \in Leasable
      /\ \A r \in Run : runs[r].delivery = "pending" => runs[r].status # "absent"
  BY DEF Inv, TypeOK, LeaseOnlyWhileActive, DeliveryMatchesReceipts, RowReceipts, Unanswered
<1> USE DEF Leasable, RunRow
<1>1. CASE ClaimNothing
  BY <1>1, SweepMoves DEF ClaimNothing, Moves
<1>2. ASSUME NEW r \in Run, Coordinate(r) PROVE Moves(s)
  <2>1. ASSUME NEW stamp \in 0..MaxStamp, Admit(r, stamp) PROVE Moves(s)
    <3>1. s # r => runs'[s] = runs[s]
      BY <2>1, <1>0 DEF Admit, SetRun
    <3>2. runs[r].status = "absent"
      BY <2>1 DEF Admit, Present
    <3> QED
      BY <2>1, <3>1, <3>2 DEF Moves
  <2>2. CASE Claim(r)
    <3> DEFINE swept == [t \in Run |-> Reconciled(t)]
    <3>1. /\ swept[r].status \in Claimable
          /\ runs' = [swept EXCEPT ![r] = Claimed(swept[r])]
      BY <2>2 DEF Claim, Eligible
    <3>2. s # r => runs'[s] = Reconciled(s)
      BY <3>1
    <3>3. Reconciled(r).status \in Claimable
      BY <3>1
    <3>4. runs[r].status \notin {"settled", "recovery_required"}
      BY <3>3, SweepMoves DEF Claimable, Reconciled, Leasable
    <3> QED
      BY <2>2, <3>2, <3>4, SweepMoves DEF Moves
  <2>3. CASE LeaseLapses(r)
    BY <2>3, <1>0, OtherRuns DEF LeaseLapses
  <2>4. ASSUME NEW f \in Token, ReleaseRequeued(r, f) PROVE Moves(s)
    BY <2>4, <1>0, OtherRuns DEF ReleaseRequeued, CanRelease, RequeuedStatus
  <2>5. ASSUME NEW f \in Token, ReleaseToRecovery(r, f) PROVE Moves(s)
    BY <2>5, <1>0, OtherRuns DEF ReleaseToRecovery, CanRelease
  <2>6. ASSUME NEW f \in Token, ReleaseSettled(r, f) PROVE Moves(s)
    BY <2>6, <1>0, OtherRuns DEF ReleaseSettled, CanRelease
  <2> QED
    BY <1>2, <2>1, <2>2, <2>3, <2>4, <2>5, <2>6 DEF Coordinate
<1>3. ASSUME NEW r \in Run, Execute(r) PROVE Moves(s)
  <2>1. CASE PrepareRunInput(r)
    BY <2>1, <1>0, OtherRuns DEF PrepareRunInput, Prepares, Present
  <2>2. CASE DiscardFailedResponse(r)
    BY <2>2, <1>0, OtherRuns DEF DiscardFailedResponse
  <2>3. ASSUME NEW f \in Token, CreateRunExecution(r, f) PROVE Moves(s)
    BY <2>3, <1>0, OtherRuns DEF CreateRunExecution, CanCreateExecution
  <2>4. ASSUME NEW f \in Token, RecordActionUnknown(r, f) PROVE Moves(s)
    BY <2>4, <1>0, OtherRuns DEF RecordActionUnknown, Open
  <2>5. CASE UNCHANGED runs
    BY <2>5 DEF Moves
  <2> QED
    BY <1>3, <2>1, <2>2, <2>3, <2>4, <2>5
       DEF Execute, RecordRunExecutionRoute, MarkRunExecutionInvoked, SettleRunExecution
<1>4. ASSUME NEW r \in Run, Deliver(r) PROVE Moves(s)
  <2>1. ASSUME NEW f \in Token, NEW a \in Answer, NEW w \in Rendering,
               RecordRunResponse(r, f, a, w)
        PROVE  Moves(s)
    BY <2>1, <1>0, OtherRuns DEF RecordRunResponse, CanRecordResponse
  <2>2. ASSUME NEW f \in Token, NEW w \in Rendering, ReplaceRendering(r, f, w) PROVE Moves(s)
    BY <2>2, <1>0, OtherRuns DEF ReplaceRendering
  <2>3. ASSUME NEW f \in Token, NEW m \in Method, StartRunDelivery(r, f, m) PROVE Moves(s)
    BY <2>3, <1>0, OtherRuns DEF StartRunDelivery, CanStartDelivery
  <2>4. ASSUME NEW f \in Token, NEW a \in AttemptId, FinalizeUnknown(r, f, a) PROVE Moves(s)
    BY <2>4, <1>0, OtherRuns DEF FinalizeUnknown, CanFinalize
  <2>5. ASSUME NEW f \in Token, NEW a \in AttemptId, FinalizeFailed(r, f, a) PROVE Moves(s)
    BY <2>5, <1>0, OtherRuns DEF FinalizeFailed
  <2>6. ASSUME NEW f \in Token, NEW a \in AttemptId, NEW d \in Disposition \ {"quarantined"},
               FinalizeDelivered(r, f, a, d)
        PROVE  Moves(s)
    BY <2>6, <1>0, OtherRuns DEF FinalizeDelivered, CanFinalize
  <2> QED
    BY <1>4, <2>1, <2>2, <2>3, <2>4, <2>5, <2>6 DEF Deliver
<1>5. ASSUME NEW r \in Run, Settle(r) PROVE Moves(s)
  <2>1. ASSUME NEW f \in Token, NEW d \in {"no_op", "failed", "skipped"},
               SettleRunWithoutDelivery(r, f, d)
        PROVE  Moves(s)
    BY <2>1, <1>0, OtherRuns DEF SettleRunWithoutDelivery, CanSettleWithoutDelivery
  <2>2. CASE SettleUnstartedRun(r)
    BY <2>2, <1>0, OtherRuns DEF SettleUnstartedRun
  <2>3. CASE SettleInterruptedRun(r)
    BY <2>3, <1>0, OtherRuns DEF SettleInterruptedRun
  <2>4. CASE RequireRecovery(r)
    BY <2>4, <1>0, OtherRuns DEF RequireRecovery, Open
  <2>5. CASE QuarantineRun(r)
    BY <2>5, <1>0, OtherRuns DEF QuarantineRun
  <2> QED
    BY <1>5, <2>1, <2>2, <2>3, <2>4, <2>5 DEF Settle
<1> QED
  BY <1>1, <1>2, <1>3, <1>4, <1>5 DEF Next

\* A settled run keeps its settlement, but for the receipt of its own reply.
THEOREM SettlementIsFinal == Spec => SettledIsFinal
<1> DEFINE Step == \A r \in Run : Settled(runs[r], runs'[r])
<1>1. Inv /\ [Next]_vars => [Step]_vars
  BY RowMoves DEF Moves
<1>2. Step <=> \A r \in Run : runs[r].status = "settled" =>
         /\ runs'[r].status = "settled"
         /\ \/ runs'[r].disposition = runs[r].disposition
            \/ /\ runs[r].disposition # "quarantined"
               /\ runs[r].delivery = "pending" /\ runs'[r].delivery = "delivered"
  BY DEF Settled
<1> QED
  BY <1>1, <1>2, Invariance, PTL DEF Spec, SettledIsFinal

\* Nothing but the operator or a delivery receipt ends recovery.
THEOREM RecoveryEnds == Spec => RecoverySticks
<1> DEFINE Step == \A r \in Run : Recovering(runs[r], runs'[r])
<1>1. Inv /\ [Next]_vars => [Step]_vars
  BY RowMoves DEF Moves
<1>2. Step <=> \A r \in Run :
         runs[r].status = "recovery_required" /\ runs'[r].status # "recovery_required" =>
           /\ runs'[r].status = "settled"
           /\ \/ runs'[r].disposition = "quarantined"
              \/ runs[r].delivery = "pending" /\ runs'[r].delivery = "delivered"
  BY DEF Recovering
<1> QED
  BY <1>1, <1>2, Invariance, PTL DEF Spec, RecoverySticks

-----------------------------------------------------------------------------
(* Executions of a superseded claim *)

\* What a step may do to the execution of a run under an earlier fence.
Frozen(r, f) ==
    Ledger(r) /\ f < runs[r].fence /\ execs'[r][f] # execs[r][f] =>
      /\ execs[r][f] = [inv |-> "not_invoked", outcome |-> "pending"]
      /\ execs'[r][f] = [inv |-> "ready", outcome |-> "pending"]

\* A step that writes one execution, that of the run's fence or only its route.
LEMMA OneExecutionFrozen ==
    ASSUME TypeOK, NEW r \in Run, NEW f \in Token, NEW inv, NEW outcome,
           SetExecution(r, f, inv, outcome),
           \/ Ledger(r) => f = runs[r].fence
           \/ /\ execs[r][f] = [inv |-> "not_invoked", outcome |-> "pending"]
              /\ inv = "ready" /\ outcome = "pending"
    PROVE  \A s \in Run, g \in Token : Frozen(s, g)
<1> DEFINE row == [inv |-> inv, outcome |-> outcome]
<1>1. execs' = [execs EXCEPT ![r][f] = row]
  BY DEF SetExecution
<1>2. inv = "ready" /\ outcome = "pending" => row = [inv |-> "ready", outcome |-> "pending"]
  OBVIOUS
<1> HIDE DEF row
<1>3. \A s \in Run, g \in Token :
        execs'[s][g] = IF s = r /\ g = f THEN row ELSE execs[s][g]
  BY <1>1 DEF TypeOK
<1>4. ASSUME NEW s \in Run, NEW g \in Token PROVE Frozen(s, g)
  <2>1. CASE s = r /\ g = f
    <3>1. g < runs[s].fence => f # runs[r].fence
      BY <2>1 DEF TypeOK, RunRow, Token
    <3> QED
      BY <1>2, <1>3, <2>1, <3>1 DEF Frozen
  <2>2. CASE ~(s = r /\ g = f)
    BY <1>3, <2>2 DEF Frozen
  <2> QED
    BY <2>1, <2>2
<1> QED
  BY <1>4

LEMMA ExecutionMoves ==
    ASSUME TypeOK, [Next]_vars
    PROVE  \A s \in Run, g \in Token : Frozen(s, g)
<1> DEFINE Goal == \A s \in Run, g \in Token : Frozen(s, g)
<1>1. CASE UNCHANGED execs
  BY <1>1 DEF Frozen
<1>2. ASSUME NEW r \in Run, Coordinate(r) PROVE Goal
  BY <1>1, <1>2 DEF Coordinate, Admit, Claim, LeaseLapses, ReleaseRequeued, ReleaseToRecovery,
     ReleaseSettled
<1>3. ASSUME NEW r \in Run, Execute(r) PROVE Goal
  <2>1. CASE PrepareRunInput(r) \/ DiscardFailedResponse(r)
             \/ \E f \in Token : RecordActionUnknown(r, f)
    BY <1>1, <2>1 DEF PrepareRunInput, DiscardFailedResponse, RecordActionUnknown
  <2>2. ASSUME NEW f \in Token, CreateRunExecution(r, f) PROVE Goal
    BY <2>2, OneExecutionFrozen DEF CreateRunExecution, CanCreateExecution
  <2>3. ASSUME NEW f \in Token, RecordRunExecutionRoute(r, f) PROVE Goal
    BY <2>3, OneExecutionFrozen DEF RecordRunExecutionRoute
  <2>4. ASSUME NEW f \in Token, MarkRunExecutionInvoked(r, f) PROVE Goal
    BY <2>4, OneExecutionFrozen DEF MarkRunExecutionInvoked, CurrentExecution
  <2>5. ASSUME NEW f \in Token, NEW inv, NEW outcome, SettleRunExecution(r, f, inv, outcome)
        PROVE  Goal
    BY <2>5, OneExecutionFrozen DEF SettleRunExecution, CanSettleExecution, CurrentExecution
  <2> QED
    BY <1>3, <2>1, <2>2, <2>3, <2>4, <2>5 DEF Execute
<1>4. ASSUME NEW r \in Run, Deliver(r) PROVE Goal
  <2>1. ASSUME NEW f \in Token, NEW a \in Answer, NEW w \in Rendering,
               RecordRunResponse(r, f, a, w)
        PROVE  UNCHANGED execs
    BY <2>1 DEF RecordRunResponse
  <2>2. ASSUME NEW f \in Token, NEW m \in Method, StartRunDelivery(r, f, m)
        PROVE  UNCHANGED execs
    BY <2>2 DEF StartRunDelivery
  <2>3. ASSUME NEW f \in Token, NEW a \in AttemptId, NEW d,
               \/ FinalizeDelivered(r, f, a, d)
               \/ FinalizeUnknown(r, f, a) \/ FinalizeFailed(r, f, a)
        PROVE  UNCHANGED execs
    BY <2>3 DEF FinalizeDelivered, FinalizeUnknown, FinalizeFailed
  <2>4. ASSUME NEW f \in Token, NEW w \in Rendering, ReplaceRendering(r, f, w)
        PROVE  UNCHANGED execs
    BY <2>4 DEF ReplaceRendering
  <2>5. UNCHANGED execs
    BY <1>4, <2>1, <2>2, <2>3, <2>4 DEF Deliver
  <2> QED
    BY <1>1, <2>5
<1>5. ASSUME NEW r \in Run, Settle(r) PROVE Goal
  <2>1. CASE SettleInterruptedRun(r)
    <3>1. ~Ledger(r) /\ \A s \in Run : s # r => execs'[s] = execs[s]
      BY <2>1 DEF SettleInterruptedRun, TypeOK
    <3> QED
      BY <3>1 DEF Frozen
  <2> QED
    BY <1>1, <1>5, <2>1 DEF Settle, SettleRunWithoutDelivery, SettleUnstartedRun,
       RequireRecovery, QuarantineRun
<1>6. CASE ClaimNothing \/ UNCHANGED vars
  BY <1>1, <1>6 DEF ClaimNothing, vars
<1> QED
  BY <1>2, <1>3, <1>4, <1>5, <1>6 DEF Next

\* The worker that lost a run's claim cannot show its execution as invoked or
\* settled any more: only the latest claim does.
THEOREM StaleWorkersAreFenced == Spec => StaleExecutionFrozen
<1> DEFINE Step == \A r \in Run, f \in Token : Frozen(r, f)
<1>1. TypeOK /\ [Next]_vars => [Step]_vars
  BY ExecutionMoves
<1>2. Step <=> \A r \in Run, f \in Token :
         Ledger(r) /\ f < runs[r].fence /\ execs'[r][f] # execs[r][f] =>
           /\ execs[r][f] = [inv |-> "not_invoked", outcome |-> "pending"]
           /\ execs'[r][f] = [inv |-> "ready", outcome |-> "pending"]
  BY DEF Frozen
<1> QED
  BY <1>1, <1>2, TypeCorrect, PTL DEF Spec, StaleExecutionFrozen

-----------------------------------------------------------------------------
(* Ordering exclusion *)

\* A run is admitted whose stamp is older than that of a run of its key which a
\* worker has claimed.
LateAdmission ==
    \E r, s \in Run :
      /\ Ledger(r) /\ Ledger(s) /\ KeyOf[r] = KeyOf[s]
      /\ ~Present(r) /\ Present(r)' /\ runs[s].fence > 0 /\ Before(r, s)'

LEMMA OrderStep ==
    ASSUME Inv, NoOvertaking, [Next]_vars, ~LateAdmission
    PROVE  NoOvertaking'
<1>0. /\ runs \in [Run -> RunRow] /\ runs' \in [Run -> RunRow]
      /\ \A r \in Run : r \in Nat /\ runs[r].createdAt \in Nat /\ runs'[r].createdAt \in Nat
  <2>1. Inv'
    BY NextInv
  <2> QED
    BY <2>1, StoreAssumption DEF Inv, TypeOK, RunRow
<1>1. CASE UNCHANGED vars
  BY <1>1 DEF vars, NoOvertaking, Open, Present, Before
<1>2. CASE Next
  <2> SUFFICES ASSUME NEW r \in Run, NEW s \in Run, Ledger(r), Ledger(s),
                      KeyOf[r] = KeyOf[s], Open(r)', Present(s)', Before(r, s)'
               PROVE  runs'[s].fence = 0
    BY DEF NoOvertaking, Ledger
  <2>1. Moves(r) /\ Moves(s)
    BY <1>2, RowMoves
  <2>2. ASSUME NEW stamp \in 0..MaxStamp, Admit(s, stamp) PROVE runs'[s].fence = 0
    BY <1>0, <2>2 DEF Admit, SetRun, FreshRun
  <2>3. ASSUME NEW stamp \in 0..MaxStamp, Admit(r, stamp), Kept(s, runs[s], runs'[s])
        PROVE  runs'[s].fence = 0
    <3>1. ~Present(r) /\ Present(r)'
      BY <2>3 DEF Admit, Open, Present
    <3>2. ~(runs[s].fence > 0)
      BY <3>1 DEF LateAdmission
    <3>3. runs[s].fence \in Nat
      BY <1>0, StoreAssumption DEF RunRow
    <3>4. runs[s].fence = 0
      BY <3>2, <3>3
    <3> QED
      BY <2>3, <3>4 DEF Kept
  <2>4. CASE Claim(s)
    <3> DEFINE swept == [t \in Run |-> Reconciled(t)]
    <3>1. s # r => (Before(r, s) => swept[r].status \in {"absent", "settled"})
      BY <2>4 DEF Claim, Eligible
    <3>2. runs'[r].createdAt = runs[r].createdAt /\ runs'[s].createdAt = runs[s].createdAt
          /\ (s # r => runs'[r] = swept[r])
      <4>1. runs' = [swept EXCEPT ![s] = Claimed(swept[s])]
        BY <2>4 DEF Claim
      <4>2. swept[r].createdAt = runs[r].createdAt /\ swept[s].createdAt = runs[s].createdAt
        BY SweepMoves DEF Kept
      <4>3. Claimed(swept[s]).createdAt = swept[s].createdAt
        <5>1. swept[s] \in RunRow
          BY ReconciledOK DEF RowOK
        <5> HIDE DEF swept
        <5> QED
          BY <5>1 DEF Claimed, RunRow
      <4> HIDE DEF swept
      <4>4. runs'[s] = Claimed(swept[s]) /\ (s # r => runs'[r] = swept[r])
        BY <4>1 DEF swept
      <4> QED
        BY <4>2, <4>3, <4>4
    <3>3. s # r
      BY <1>0 DEF Before
    <3>4. Before(r, s)
      BY <3>2 DEF Before
    <3> QED
      BY <3>1, <3>2, <3>3, <3>4 DEF Open
  <2>5. CASE Kept(s, runs[s], runs'[s]) /\ (Kept(r, runs[r], runs'[r]) \/ Claim(r))
    <3>1. runs'[r].createdAt = runs[r].createdAt /\ Open(r)
      <4>1. CASE Kept(r, runs[r], runs'[r])
        BY <2>1, <4>1 DEF Kept, Moves, Settled, Open
      <4>2. CASE Claim(r)
        <5> DEFINE swept == [t \in Run |-> Reconciled(t)]
        <5>1. swept[r].status \in Claimable /\ runs' = [swept EXCEPT ![r] = Claimed(swept[r])]
          BY <4>2 DEF Claim, Eligible
        <5>2. swept[r].createdAt = runs[r].createdAt /\ Open(r)
          BY <5>1, SweepMoves DEF Kept, Settled, Open, Claimable
        <5>3. swept[r] \in RunRow
          BY ReconciledOK DEF RowOK
        <5>4. runs'[r] = Claimed(swept[r])
          BY <5>1
        <5> HIDE DEF swept
        <5> QED
          BY <5>2, <5>3, <5>4 DEF Claimed, RunRow
      <4> QED
        BY <2>5, <4>1, <4>2
    <3>2. Present(s) /\ Before(r, s)
      BY <2>5, <3>1 DEF Kept, Present, Before
    <3>3. runs[s].fence = 0
      BY <3>1, <3>2 DEF NoOvertaking
    <3> QED
      BY <2>5, <3>3 DEF Kept
  <2> QED
    BY <2>1, <2>2, <2>3, <2>4, <2>5 DEF Moves
<1> QED
  BY <1>1, <1>2

\* Ordering exclusion: whatever its callers do, one step alone can bring a claimed
\* run beside an older open one of its key, the admission of a run whose stamp
\* was taken before that of the claimed run.  No claim, sweep, lapse, release,
\* requeue or recovery ever does.
THEOREM OrderingExclusion ==
    Spec => [][NoOvertaking => NoOvertaking' \/ LateAdmission]_vars
<1>1. Inv /\ [Next]_vars => [NoOvertaking => NoOvertaking' \/ LateAdmission]_vars
  BY OrderStep
<1> QED
  BY <1>1, Invariance, PTL DEF Spec

-----------------------------------------------------------------------------
(* The store implements RunPromise *)

StageMoves == {<<"open", "attention">>, <<"open", "closed">>, <<"attention", "closed">>}

\* A step of one run that touches no receipt.
LEMMA QuietStep ==
    ASSUME Inv, NEW r \in Run, NEW row, SetRun(r, row), UNCHANGED trail,
           LET old == StageOf(runs[r].status)
               new == StageOf(row.status)
           IN old = new \/ <<old, new>> \in StageMoves
    PROVE  [Promise!Next]_<<StageBar, ReplyBar>>
<1> DEFINE old == StageOf(runs[r].status)
           new == StageOf(row.status)
<1>1. ReplyBar' = ReplyBar
  BY DEF ReplyBar, ReplyOf
<1>2. StageBar' = [t \in Run |-> IF t = r THEN new ELSE StageBar[t]] /\ StageBar[r] = old
  BY DEF Inv, TypeOK, SetRun, StageBar
<1> HIDE DEF old, new
<1>3. StageBar = [t \in Run |-> StageBar[t]]
  BY DEF StageBar
<1>4. CASE old = new
  BY <1>1, <1>2, <1>3, <1>4
<1>5. CASE old = "open" /\ new = "attention"
  <2>1. Promise!Flag({r})
    BY <1>1, <1>2, <1>5 DEF Promise!Flag
  <2> QED
    BY <2>1 DEF Promise!Next
<1>6. CASE old \in {"open", "attention"} /\ new = "closed"
  <2>1. Promise!Close(r)
    BY <1>1, <1>2, <1>3, <1>6 DEF Promise!Close
  <2> QED
    BY <2>1 DEF Promise!Next
<1> QED
  BY <1>4, <1>5, <1>6 DEF StageMoves, old, new

\* A step of one run that writes the receipt of one attempt.
LEMMA ReceiptStep ==
    ASSUME Inv, NEW r \in Run, NEW a \in AttemptId, NEW row, NEW receipt,
           SetRun(r, row), trail' = [trail EXCEPT ![r][a] = receipt]
    PROVE  /\ StageBar' = [StageBar EXCEPT ![r] = StageOf(row.status)]
           /\ ReplyBar' = [ReplyBar EXCEPT ![r] = ReplyOf([trail[r] EXCEPT ![a] = receipt])]
           /\ StageBar[r] = StageOf(runs[r].status) /\ ReplyBar[r] = ReplyOf(trail[r])
<1>1. /\ runs' = [t \in Run |-> IF t = r THEN row ELSE runs[t]]
      /\ trail' = [t \in Run |-> IF t = r THEN [trail[r] EXCEPT ![a] = receipt] ELSE trail[t]]
  BY DEF Inv, TypeOK, SetRun
<1>2. StageBar' = [t \in Run |-> IF t = r THEN StageOf(row.status) ELSE StageOf(runs[t].status)]
  BY <1>1 DEF StageBar
<1>3. ReplyBar' = [t \in Run |-> IF t = r THEN ReplyOf([trail[r] EXCEPT ![a] = receipt])
                                          ELSE ReplyOf(trail[t])]
  BY <1>1 DEF ReplyBar, ReplyOf
<1> QED
  BY <1>2, <1>3 DEF StageBar, ReplyBar

\* The reply read off the receipts, before and after one of them is written.
LEMMA ReplyOfReceipts ==
    ASSUME NEW receipts \in [AttemptId -> Receipt], NEW a \in AttemptId,
           \A b \in AttemptId : b # a => receipts[b] \in {"none", "failed"}
    PROVE  /\ receipts[a] = "started" => ReplyOf(receipts) = "trying"
           /\ ReplyOf([receipts EXCEPT ![a] = "failed"]) = "rejected"
           /\ ReplyOf([receipts EXCEPT ![a] = "unknown"]) = "unknown"
           /\ ReplyOf([receipts EXCEPT ![a] = "delivered"]) = "sent"
  BY DEF ReplyOf

LEMMA ReplyOfRejected ==
    ASSUME NEW receipts \in [AttemptId -> Receipt], NEW a \in AttemptId,
           \A b \in AttemptId : receipts[b] \in {"none", "failed"}
    PROVE  /\ ReplyOf(receipts) \in {"none", "rejected"}
           /\ ReplyOf([receipts EXCEPT ![a] = "started"]) = "trying"
  BY DEF ReplyOf

LEMMA SweepStage ==
    ASSUME Inv, NEW s \in Run
    PROVE  LET old == StageOf(runs[s].status)
               new == StageOf(Reconciled(s).status)
           IN old = new \/ (old = "open" /\ new = "attention")
<1>1. runs[s] \in RunRow
  BY DEF Inv, TypeOK
<1>2. CASE Reconciled(s) = runs[s]
  BY <1>2
<1>3. CASE /\ runs[s].status \in Leasable
           /\ \E status \in {"recovery_required", "response_ready", "input_ready", "queued"} :
                Reconciled(s) = [runs[s] EXCEPT !.status = status, !.lease = "none"]
  BY <1>1, <1>3 DEF RunRow, Leasable, StageOf
<1> QED
  BY <1>1, <1>2, <1>3 DEF Reconciled, RequeuedStatus, RunRow

\* A sweep, with or without a claim, may flag several runs at once.
LEMMA SweepStep ==
    ASSUME Inv, UNCHANGED trail, NEW rows, runs' = [s \in Run |-> rows[s]],
           \A s \in Run : StageOf(rows[s].status) = StageOf(Reconciled(s).status)
    PROVE  [Promise!Next]_<<StageBar, ReplyBar>>
<1> DEFINE S == {s \in Run : StageOf(Reconciled(s).status) # StageOf(runs[s].status)}
<1>1. ReplyBar' = ReplyBar
  BY DEF ReplyBar, ReplyOf
<1>2. StageBar' = [s \in Run |-> StageOf(Reconciled(s).status)]
  BY DEF StageBar
<1>3. \A s \in S : StageBar[s] = "open" /\ StageOf(Reconciled(s).status) = "attention"
  BY SweepStage DEF StageBar
<1>4. \A s \in Run \ S : StageOf(Reconciled(s).status) = StageBar[s]
  BY DEF StageBar
<1> HIDE DEF S
<1>5. StageBar' = [s \in Run |-> IF s \in S THEN "attention" ELSE StageBar[s]]
  BY <1>2, <1>3, <1>4
<1>6. S \in SUBSET Run
  BY DEF S
<1>7. Promise!Flag(S)
  BY <1>1, <1>3, <1>5 DEF Promise!Flag
<1> QED
  BY <1>6, <1>7 DEF Promise!Next

LEMMA PromiseStep == ASSUME Inv, [Next]_vars PROVE [Promise!Next]_<<StageBar, ReplyBar>>
<1>0. /\ runs \in [Run -> RunRow] /\ trail \in [Run -> [AttemptId -> Receipt]]
      /\ \A r \in Run : runs[r].lease # "none" => runs[r].status \in Leasable
      /\ \A r \in Run : RowReceipts(runs[r], trail[r])
      /\ \A r \in Run : runs[r].status = "settled" <=> runs[r].disposition # None
  BY DEF Inv, TypeOK, LeaseOnlyWhileActive, DeliveryMatchesReceipts, SchemaHolds, RowSchema
<1>1. CASE UNCHANGED vars
  BY <1>1 DEF vars, StageBar, ReplyBar, StageOf, ReplyOf
<1>2. CASE ClaimNothing
  BY <1>2, SweepStep DEF ClaimNothing
<1>3. ASSUME NEW r \in Run, Coordinate(r) PROVE [Promise!Next]_<<StageBar, ReplyBar>>
  <2> USE DEF StageOf, StageMoves
  <2>1. ASSUME NEW stamp \in 0..MaxStamp, Admit(r, stamp)
        PROVE  [Promise!Next]_<<StageBar, ReplyBar>>
    <3>1. StageBar' = [StageBar EXCEPT ![r] = "open"] /\ StageBar[r] = "none"
      BY <1>0, <2>1 DEF Admit, SetRun, FreshRun, Present, StageBar
    <3>2. ReplyBar' = ReplyBar
      BY <2>1 DEF Admit, ReplyBar, ReplyOf
    <3> QED
      BY <3>1, <3>2 DEF Promise!Next, Promise!Admit
  <2>2. CASE Claim(r)
    <3> DEFINE swept == [t \in Run |-> Reconciled(t)]
               rows == [swept EXCEPT ![r] = Claimed(swept[r])]
    <3>1. /\ swept[r].status \in Claimable /\ runs' = rows /\ UNCHANGED trail
      BY <2>2 DEF Claim, Eligible
    <3>2. StageOf(Claimed(swept[r]).status) = StageOf(swept[r].status)
      <4>1. swept[r] \in RunRow
        BY ReconciledOK DEF RowOK
      <4> HIDE DEF swept
      <4> QED
        BY <3>1, <4>1 DEF Claimed, Claimable, RunRow
    <3>3. \A s \in Run : StageOf(rows[s].status) = StageOf(Reconciled(s).status)
      <4>1. \A s \in Run : swept[s] = Reconciled(s)
        OBVIOUS
      <4>2. \A s \in Run : rows[s] = IF s = r THEN Claimed(swept[r]) ELSE swept[s]
        OBVIOUS
      <4> HIDE DEF swept, rows
      <4> QED
        BY <3>2, <4>1, <4>2
    <3>4. runs' = [s \in Run |-> rows[s]]
      BY <3>1
    <3> HIDE DEF swept, rows
    <3> QED
      BY <3>1, <3>3, <3>4, SweepStep
  <2>3. CASE LeaseLapses(r)
    BY <2>3, <1>0, QuietStep DEF LeaseLapses, RunRow
  <2>4. ASSUME NEW f \in Token, ReleaseRequeued(r, f)
        PROVE  [Promise!Next]_<<StageBar, ReplyBar>>
    BY <2>4, <1>0, QuietStep DEF ReleaseRequeued, CanRelease, RequeuedStatus, RunRow, Leasable
  <2>5. ASSUME NEW f \in Token, ReleaseToRecovery(r, f)
        PROVE  [Promise!Next]_<<StageBar, ReplyBar>>
    BY <2>5, <1>0, QuietStep DEF ReleaseToRecovery, CanRelease, RunRow, Leasable
  <2>6. ASSUME NEW f \in Token, ReleaseSettled(r, f)
        PROVE  [Promise!Next]_<<StageBar, ReplyBar>>
    BY <2>6, <1>0, QuietStep DEF ReleaseSettled, CanRelease, RunRow, Leasable
  <2> QED
    BY <1>3, <2>1, <2>2, <2>3, <2>4, <2>5, <2>6 DEF Coordinate
<1>4. ASSUME NEW r \in Run, Execute(r) PROVE [Promise!Next]_<<StageBar, ReplyBar>>
  <2> USE DEF StageOf, StageMoves
  <2>1. CASE PrepareRunInput(r)
    <3> DEFINE row == [runs[r] EXCEPT !.prepared = TRUE, !.status = "input_ready"]
    <3>1. SetRun(r, row) /\ UNCHANGED trail
      BY <2>1 DEF PrepareRunInput
    <3>2. /\ runs[r].status \in {"admitted", "queued", "preparing_input"}
          /\ row.status = "input_ready"
      BY <2>1, <1>0 DEF PrepareRunInput, RunRow
    <3> HIDE DEF row
    <3>3. StageOf(runs[r].status) = "open" /\ StageOf(row.status) = "open"
      BY <3>2 DEF StageOf
    <3> QED
      BY <3>1, <3>3, QuietStep
  <2>2. CASE DiscardFailedResponse(r)
    BY <2>2, <1>0, QuietStep DEF DiscardFailedResponse, RunRow
  <2>3. ASSUME NEW f \in Token, CreateRunExecution(r, f)
        PROVE  [Promise!Next]_<<StageBar, ReplyBar>>
    BY <2>3, <1>0, QuietStep DEF CreateRunExecution, CanCreateExecution, RunRow
  <2>4. ASSUME NEW f \in Token, RecordActionUnknown(r, f)
        PROVE  [Promise!Next]_<<StageBar, ReplyBar>>
    <3> DEFINE row == [runs[r] EXCEPT !.status = "recovery_required", !.lease = "none"]
    <3>1. SetRun(r, row) /\ UNCHANGED trail
      BY <2>4 DEF RecordActionUnknown
    <3>2. /\ runs[r].status \notin {"absent", "settled"}
          /\ row.status = "recovery_required"
      BY <2>4, <1>0 DEF RecordActionUnknown, Open, RunRow
    <3> HIDE DEF row
    <3>3. /\ StageOf(runs[r].status) \in {"open", "attention"}
          /\ StageOf(row.status) = "attention"
      BY <3>2 DEF StageOf
    <3> QED
      BY <3>1, <3>3, QuietStep
  <2>5. CASE UNCHANGED <<runs, trail>>
    BY <2>5 DEF StageBar, ReplyBar, ReplyOf
  <2> QED
    BY <1>4, <2>1, <2>2, <2>3, <2>4, <2>5
       DEF Execute, RecordRunExecutionRoute, MarkRunExecutionInvoked, SettleRunExecution
<1>5. ASSUME NEW r \in Run, Deliver(r) PROVE [Promise!Next]_<<StageBar, ReplyBar>>
  <2>1. ASSUME NEW f \in Token, NEW a \in Answer, NEW w \in Rendering,
               RecordRunResponse(r, f, a, w)
        PROVE  [Promise!Next]_<<StageBar, ReplyBar>>
    <3> DEFINE row == [runs[r] EXCEPT
             !.approved = a, !.rendered = w, !.status = "response_ready",
             !.delivery = "not_ready"]
    <3>1. SetRun(r, row) /\ UNCHANGED trail
      BY <2>1 DEF RecordRunResponse
    <3>2. /\ runs[r].status \in {"executing", "input_ready"}
          /\ row.status = "response_ready"
      BY <2>1, <1>0 DEF RecordRunResponse, CanRecordResponse, RunRow
    <3> HIDE DEF row
    <3>3. StageOf(runs[r].status) = "open" /\ StageOf(row.status) = "open"
      BY <3>2 DEF StageOf
    <3> QED
      BY <3>1, <3>3, QuietStep
  <2>2. ASSUME NEW f \in Token, NEW w \in Rendering, ReplaceRendering(r, f, w)
        PROVE  [Promise!Next]_<<StageBar, ReplyBar>>
    BY <2>2, <1>0, QuietStep DEF ReplaceRendering, RunRow, StageOf
  <2>3. ASSUME NEW f \in Token, NEW m \in Method, StartRunDelivery(r, f, m)
        PROVE  [Promise!Next]_<<StageBar, ReplyBar>>
    <3> DEFINE a == <<f, m>>
               row == [runs[r] EXCEPT !.delivery = "pending", !.attempt = a]
    <3>1. /\ a \in AttemptId /\ CanStartDelivery(r, f, a) /\ SetRun(r, row)
          /\ trail' = [trail EXCEPT ![r][a] = "started"]
      BY <2>3 DEF StartRunDelivery, AttemptId
    <3>2. row.status = "response_ready" /\ runs[r].status = "response_ready"
      BY <1>0, <3>1 DEF CanStartDelivery, RunRow
    <3>3. \A b \in AttemptId : trail[r][b] \in {"none", "failed"}
      BY <1>0, <3>1 DEF CanStartDelivery, RowReceipts
    <3> HIDE DEF a, row
    <3>4. /\ StageBar' = [StageBar EXCEPT ![r] = "open"] /\ StageBar[r] = "open"
          /\ ReplyBar[r] = ReplyOf(trail[r])
          /\ ReplyBar' = [ReplyBar EXCEPT ![r] = ReplyOf([trail[r] EXCEPT ![a] = "started"])]
      <4>1. /\ StageBar' = [StageBar EXCEPT ![r] = StageOf(row.status)]
            /\ ReplyBar' = [ReplyBar EXCEPT ![r] = ReplyOf([trail[r] EXCEPT ![a] = "started"])]
            /\ StageBar[r] = StageOf(runs[r].status) /\ ReplyBar[r] = ReplyOf(trail[r])
        BY <3>1, ReceiptStep
      <4>2. StageOf("response_ready") = "open"
        BY DEF StageOf
      <4> QED
        BY <3>2, <4>1, <4>2
    <3>5. StageBar' = StageBar
      BY <3>4 DEF StageBar
    <3>6. /\ ReplyOf(trail[r]) \in {"none", "rejected"}
          /\ ReplyOf([trail[r] EXCEPT ![a] = "started"]) = "trying"
      <4>1. trail[r] \in [AttemptId -> Receipt]
        BY <1>0
      <4>2. ASSUME NEW b \in AttemptId
            PROVE  /\ ReplyOf(trail[r]) \in {"none", "rejected"}
                   /\ ReplyOf([trail[r] EXCEPT ![b] = "started"]) = "trying"
        BY <4>1, <3>3, ReplyOfRejected
      <4> QED
        BY <3>1, <4>2
    <3>7. Promise!Try(r)
      BY <3>4, <3>5, <3>6 DEF Promise!Try
    <3> QED
      BY <3>7 DEF Promise!Next
  <2>4. ASSUME NEW f \in Token, NEW a \in AttemptId, CanFinalize(r, f, a)
        PROVE  /\ runs[r].status # "absent" /\ trail[r][a] = "started"
               /\ ReplyOf(trail[r]) = "trying"
               /\ ReplyOf([trail[r] EXCEPT ![a] = "failed"]) = "rejected"
               /\ ReplyOf([trail[r] EXCEPT ![a] = "unknown"]) = "unknown"
               /\ ReplyOf([trail[r] EXCEPT ![a] = "delivered"]) = "sent"
    <3>1. /\ trail[r][a] = "started" /\ runs[r].status # "absent"
          /\ \A b \in AttemptId : b # a => trail[r][b] \in {"none", "failed"}
      BY <1>0, <2>4 DEF CanFinalize, RowReceipts, Unanswered
    <3>2. trail[r] \in [AttemptId -> Receipt]
      BY <1>0
    <3> QED
      BY <3>1, <3>2, ReplyOfReceipts
  <2>5. ASSUME NEW f \in Token, NEW a \in AttemptId, FinalizeUnknown(r, f, a)
        PROVE  [Promise!Next]_<<StageBar, ReplyBar>>
    <3> DEFINE row == [runs[r] EXCEPT
             !.delivery = "unknown", !.status = "recovery_required", !.lease = "none"]
    <3>1. /\ CanFinalize(r, f, a) /\ runs[r].status # "settled" /\ SetRun(r, row)
          /\ trail' = [trail EXCEPT ![r][a] = "unknown"]
      BY <2>5 DEF FinalizeUnknown
    <3>2. row.status = "recovery_required"
      BY <1>0 DEF RunRow
    <3> HIDE DEF row
    <3>3. /\ StageBar' = [StageBar EXCEPT ![r] = StageOf(row.status)]
          /\ ReplyBar' = [ReplyBar EXCEPT ![r] = ReplyOf([trail[r] EXCEPT ![a] = "unknown"])]
          /\ StageBar[r] = StageOf(runs[r].status) /\ ReplyBar[r] = ReplyOf(trail[r])
      BY <3>1, ReceiptStep
    <3>4. /\ StageOf(row.status) = "attention"
          /\ StageOf(runs[r].status) \in {"open", "attention"}
      BY <2>4, <3>1, <3>2 DEF StageOf
    <3>5. Promise!Unknown(r)
      BY <2>4, <3>1, <3>3, <3>4 DEF Promise!Unknown
    <3> QED
      BY <3>5 DEF Promise!Next
  <2>6. ASSUME NEW f \in Token, NEW a \in AttemptId, FinalizeFailed(r, f, a)
        PROVE  [Promise!Next]_<<StageBar, ReplyBar>>
    <3> DEFINE row == [runs[r] EXCEPT !.delivery = "failed"]
    <3>1. /\ CanFinalize(r, f, a) /\ SetRun(r, row)
          /\ trail' = [trail EXCEPT ![r][a] = "failed"]
      BY <2>6 DEF FinalizeFailed
    <3>2. row.status = runs[r].status
      BY <1>0 DEF RunRow
    <3> HIDE DEF row
    <3>3. /\ StageBar' = [StageBar EXCEPT ![r] = StageOf(row.status)]
          /\ ReplyBar' = [ReplyBar EXCEPT ![r] = ReplyOf([trail[r] EXCEPT ![a] = "failed"])]
          /\ StageBar[r] = StageOf(runs[r].status) /\ ReplyBar[r] = ReplyOf(trail[r])
      BY <3>1, ReceiptStep
    <3>4. StageBar' = StageBar
      BY <3>2, <3>3 DEF StageBar
    <3>5. Promise!Rejected(r)
      BY <2>4, <3>1, <3>3, <3>4 DEF Promise!Rejected
    <3> QED
      BY <3>5 DEF Promise!Next
  <2>7. ASSUME NEW f \in Token, NEW a \in AttemptId, NEW d \in Disposition \ {"quarantined"},
               FinalizeDelivered(r, f, a, d)
        PROVE  [Promise!Next]_<<StageBar, ReplyBar>>
    <3> DEFINE row == [runs[r] EXCEPT
             !.delivery = "delivered", !.status = "settled", !.disposition = d,
             !.lease = "none"]
    <3>1. /\ CanFinalize(r, f, a) /\ SetRun(r, row)
          /\ trail' = [trail EXCEPT ![r][a] = "delivered"]
      BY <2>7 DEF FinalizeDelivered
    <3>2. row.status = "settled"
      BY <1>0 DEF RunRow
    <3> HIDE DEF row
    <3>3. /\ StageBar' = [StageBar EXCEPT ![r] = StageOf(row.status)]
          /\ ReplyBar' = [ReplyBar EXCEPT ![r] = ReplyOf([trail[r] EXCEPT ![a] = "delivered"])]
          /\ StageBar[r] = StageOf(runs[r].status) /\ ReplyBar[r] = ReplyOf(trail[r])
      BY <3>1, ReceiptStep
    <3>4. StageOf(row.status) = "closed" /\ StageOf(runs[r].status) # "none"
      BY <2>4, <3>1, <3>2 DEF StageOf
    <3>5. Promise!Sent(r)
      BY <2>4, <3>1, <3>3, <3>4 DEF Promise!Sent
    <3> QED
      BY <3>5 DEF Promise!Next
  <2> QED
    BY <1>5, <2>1, <2>2, <2>3, <2>5, <2>6, <2>7 DEF Deliver
<1>6. ASSUME NEW r \in Run, Settle(r) PROVE [Promise!Next]_<<StageBar, ReplyBar>>
  <2> USE DEF StageOf, StageMoves
  <2>1. ASSUME NEW f \in Token, NEW d \in {"no_op", "failed", "skipped"},
               SettleRunWithoutDelivery(r, f, d)
        PROVE  [Promise!Next]_<<StageBar, ReplyBar>>
    <3> DEFINE row == [runs[r] EXCEPT
             !.status = "settled", !.disposition = d, !.delivery = "not_applicable",
             !.attempt = None, !.lease = "none"]
    <3>1. SetRun(r, row) /\ UNCHANGED trail
      BY <2>1 DEF SettleRunWithoutDelivery
    <3>2. /\ runs[r].status \in {"input_ready", "executing", "response_ready"}
          /\ row.status = "settled"
      BY <2>1, <1>0 DEF SettleRunWithoutDelivery, CanSettleWithoutDelivery, RunRow
    <3> HIDE DEF row
    <3>3. StageOf(runs[r].status) = "open" /\ StageOf(row.status) = "closed"
      BY <3>2 DEF StageOf
    <3> QED
      BY <3>1, <3>3, QuietStep
  <2>2. CASE SettleUnstartedRun(r)
    BY <2>2, <1>0, QuietStep DEF SettleUnstartedRun, RunRow
  <2>3. CASE SettleInterruptedRun(r)
    BY <2>3, <1>0, QuietStep DEF SettleInterruptedRun, RunRow
  <2>4. CASE RequireRecovery(r)
    <3> DEFINE row == [runs[r] EXCEPT !.status = "recovery_required", !.lease = "none"]
    <3>1. SetRun(r, row) /\ UNCHANGED trail
      BY <2>4 DEF RequireRecovery
    <3>2. /\ runs[r].status \notin {"absent", "settled"}
          /\ row.status = "recovery_required"
      BY <2>4, <1>0 DEF RequireRecovery, Open, RunRow
    <3> HIDE DEF row
    <3>3. /\ StageOf(runs[r].status) \in {"open", "attention"}
          /\ StageOf(row.status) = "attention"
      BY <3>2 DEF StageOf
    <3> QED
      BY <3>1, <3>3, QuietStep
  <2>5. CASE QuarantineRun(r)
    <3> DEFINE row == [runs[r] EXCEPT
             !.status = "settled", !.disposition = "quarantined", !.lease = "none"]
    <3>1. SetRun(r, row) /\ UNCHANGED trail
      BY <2>5 DEF QuarantineRun
    <3>2. runs[r].status = "recovery_required" /\ row.status = "settled"
      BY <2>5, <1>0 DEF QuarantineRun, RunRow
    <3> HIDE DEF row
    <3>3. StageOf(runs[r].status) = "attention" /\ StageOf(row.status) = "closed"
      BY <3>2 DEF StageOf
    <3> QED
      BY <3>1, <3>3, QuietStep
  <2> QED
    BY <1>6, <2>1, <2>2, <2>3, <2>4, <2>5 DEF Settle
<1> QED
  BY <1>1, <1>2, <1>3, <1>4, <1>5, <1>6 DEF Next

\* The store implements RunPromise: whatever its callers do, in whatever
\* order, a run replies at most once and a closed run stays closed.
THEOREM StoreKeepsPromise == Spec => KeepsPromise
<1>1. Init => Promise!Init
  BY DEF Init, Promise!Init, StageBar, ReplyBar, StageOf, ReplyOf, FreshRun
<1>2. Inv /\ [Next]_vars => [Promise!Next]_<<StageBar, ReplyBar>>
  BY PromiseStep
<1> QED
  BY <1>1, <1>2, Invariance, PTL DEF Spec, KeepsPromise, Promise!Spec
=============================================================================
