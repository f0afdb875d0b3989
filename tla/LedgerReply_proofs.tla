------------------------ MODULE LedgerReply_proofs ------------------------
(***************************************************************************)
(* What the user sees of a ledger turn under an attempt: at most one reply, *)
(* never one the ledger would send again, and none that it books without    *)
(* its being there.  And what the drain may rely on: nobody claims a run of *)
(* its batch again.                                                         *)
(*                                                                         *)
(* A handler may have lost its lease, its drain and its run long ago and   *)
(* still post.  The invariant says what is true of every handler, at each  *)
(* of its control points, whoever has claimed the run since.               *)
(***************************************************************************)
EXTENDS LedgerDriver_proofs

\* The run waits for the outcome of an attempt that the handler of f started.
Awaits(r, f) ==
    runs[r].delivery = "pending" /\ runs[r].attempt # None /\ runs[r].attempt[1] = f

\* A turn that is executed has no response yet.
Executing == {"prepare", "create", "route", "freeze", "stage", "dispatch", "receipt",
              "observe", "settle", "failing", "respond"}
Executes(w) == w.pc \in Executing \/ (w.pc = "claimed" /\ w.phase = "execute")

\* What a handler's place says of its run, and of what the user sees.
HandlerFits(r, f) ==
    LET w == worker[r][f] IN
    /\ w.pc # "idle" => Ledger(r) /\ Present(r) /\ f <= runs[r].fence
    /\ w.pc = "post" => Awaits(r, f) /\ slack[r].replies = 0
    /\ w.pc = "ack" => w.sent = "ok"
    /\ w.pc = "ack" \/ (w.pc = "finalize" /\ w.sent = "ok") => slack[r].replies > 0
    /\ w.pc = "finalize" /\ w.sent = "failed" /\ Awaits(r, f) => slack[r].replies = 0
    /\ runs[r].fence = f =>
         /\ Executes(w) => runs[r].status # "response_ready"
         /\ w.pc = "rejected" => runs[r].delivery = "failed"

\* What the user sees agrees with the delivery columns.  The presentation row may
\* know of a failure shown beside the ledger, but then no reply is ever started.
ShownFits(r) ==
    /\ slack[r].replies <= 1
    /\ slack[r].replies > 0 => runs[r].delivery \in {"pending", "delivered", "unknown"}
    /\ runs[r].delivery = "delivered" => slack[r].replies > 0
    /\ slack[r].known /\ slack[r].replies = 0 =>
         runs[r].status # "response_ready" /\ runs[r].delivery \in {"not_ready", "not_applicable"}

\* While the drain claims, its batch has not started and holds its leases.
BatchFits ==
    /\ drain.phase = "idle" => drain.batch = {}
    /\ \A c \in drain.batch :
         /\ ~At(c[1], c[2], "idle") => runs[c[1]].fence = c[2]
         /\ drain.phase = "claiming" =>
              At(c[1], c[2], "claimed") /\ runs[c[1]].lease = "held"

ReplyFits == \A r \in Run : ShownFits(r) /\ \A f \in Token : HandlerFits(r, f)

ReplyInv == DriverInv /\ ReplyFits /\ BatchFits

-----------------------------------------------------------------------------
(* One handler, one run *)

\* As the handlers and the user are concerned, nothing happens to the run.
Untouched(s) ==
    /\ runs'[s].fence = runs[s].fence
    /\ runs'[s].delivery = runs[s].delivery /\ runs'[s].attempt = runs[s].attempt
    /\ runs'[s].status = "response_ready" => runs[s].status = "response_ready"
    /\ Present(s) => Present(s)'
    /\ slack'[s].replies = slack[s].replies /\ slack'[s].known = slack[s].known

\* A handler stays where it is, is gone, or goes where nothing is asked of it but
\* to be executing if it was.
Follows(old, new) ==
    \/ new.pc = old.pc /\ new.sent = old.sent /\ new.phase = old.phase
    \/ new.pc = "idle"
    \/ /\ old.pc # "idle"
       /\ new.pc \notin {"post", "ack", "finalize", "rejected", "claimed"}
       /\ new.pc \in Executing => Executes(old)

LEMMA GoesOn ==
    ASSUME NEW r \in Run, NEW f \in Token, HandlerFits(r, f), Untouched(r),
           Follows(worker[r][f], worker'[r][f])
    PROVE  HandlerFits(r, f)'
<1>1. Awaits(r, f)' <=> Awaits(r, f)
  BY DEF Untouched, Awaits
<1>2. Executes(worker[r][f])' => Executes(worker[r][f])
  BY DEF Follows, Executes, Executing
<1>3. /\ Present(r) => Present(r)'
      /\ runs'[r].fence = runs[r].fence /\ runs'[r].delivery = runs[r].delivery
      /\ runs'[r].status = "response_ready" => runs[r].status = "response_ready"
      /\ slack'[r].replies = slack[r].replies
  BY DEF Untouched
<1> HIDE DEF Executes
<1> QED
  BY <1>1, <1>2, <1>3 DEF HandlerFits, Follows

LEMMA StillShown ==
    ASSUME NEW r \in Run, ShownFits(r), Untouched(r)
    PROVE  ShownFits(r)'
  BY DEF ShownFits, Untouched

\* A step that leaves the run and what is shown of it alone.
LEMMA SameRun ==
    ASSUME NEW r \in Run, ReplyFits, Untouched(r),
           \A f \in Token : Follows(worker[r][f], worker'[r][f])
    PROVE  ShownFits(r)' /\ \A f \in Token : HandlerFits(r, f)'
  BY GoesOn, StillShown DEF ReplyFits

LEMMA StaysPut == ASSUME NEW w PROVE Follows(w, w)
  BY DEF Follows

\* One handler moves, and with it at most its run and what is shown of it.
Moves1(r, f) ==
    /\ \A s \in Run, g \in Token : s # r \/ g # f => worker'[s][g] = worker[s][g]
    /\ \A s \in Run : s # r => runs'[s] = runs[s] /\ slack'[s] = slack[s]

\* What the handler of f may do to the run, seen by the other handlers.
Spares(r, f) ==
    /\ runs'[r].fence = runs[r].fence /\ (Present(r) => Present(r)')
    /\ \/ runs[r].fence = f
       \/ /\ runs'[r].delivery = runs[r].delivery
          /\ runs'[r].status = "response_ready" => runs[r].status = "response_ready"
    /\ \A g \in Token \ {f} :
         /\ Awaits(r, g)' => Awaits(r, g) /\ slack'[r].replies = slack[r].replies
         /\ Awaits(r, g) /\ slack[r].replies = 0 => Awaits(r, g)' /\ slack'[r].replies = 0
    /\ slack[r].replies > 0 => slack'[r].replies > 0

LEMMA OthersFit ==
    ASSUME NEW r \in Run, NEW f \in Token, ReplyFits, Spares(r, f),
           NEW g \in Token, g # f, worker'[r][g] = worker[r][g]
    PROVE  HandlerFits(r, g)'
<1>1. HandlerFits(r, g)
  BY DEF ReplyFits
<1>2. g \in Token \ {f}
  OBVIOUS
<1> QED
  BY <1>1, <1>2 DEF HandlerFits, Spares, Executes, Present

\* So it is enough to look at the handler that moves and at what is shown.
LEMMA OneHandler ==
    ASSUME NEW r \in Run, NEW f \in Token, ReplyFits, Moves1(r, f), Spares(r, f),
           ShownFits(r)', HandlerFits(r, f)'
    PROVE  ReplyFits'
<1>1. ASSUME NEW s \in Run, s # r PROVE ShownFits(s)' /\ \A g \in Token : HandlerFits(s, g)'
  <2>1. Untouched(s)
    BY <1>1 DEF Moves1, Untouched, Present
  <2>2. \A g \in Token : Follows(worker[s][g], worker'[s][g])
    BY <1>1, StaysPut DEF Moves1
  <2> QED
    BY <2>1, <2>2, SameRun
<1>2. \A g \in Token : HandlerFits(r, g)'
  BY OthersFit DEF Moves1
<1> QED
  BY <1>1, <1>2 DEF ReplyFits

\* The handler goes on and does nothing else that matters here.
LEMMA HandlerGoes ==
    ASSUME NEW r \in Run, NEW f \in Token, ReplyFits, Moves1(r, f), Untouched(r),
           Follows(worker[r][f], worker'[r][f])
    PROVE  ReplyFits'
<1>1. ASSUME NEW s \in Run PROVE ShownFits(s)' /\ \A g \in Token : HandlerFits(s, g)'
  <2>1. Untouched(s)
    BY DEF Moves1, Untouched, Present
  <2>2. \A g \in Token : Follows(worker[s][g], worker'[s][g])
    BY StaysPut DEF Moves1
  <2> QED
    BY <2>1, <2>2, SameRun
<1> QED
  BY <1>1 DEF ReplyFits

\* A step that moves no handler and touches no run in this sense.
LEMMA NobodyMoves ==
    ASSUME ReplyFits, \A s \in Run : Untouched(s), UNCHANGED worker
    PROVE  ReplyFits'
<1>1. \A s \in Run, g \in Token : Follows(worker[s][g], worker'[s][g])
  BY StaysPut
<1> QED
  BY <1>1, SameRun DEF ReplyFits

-----------------------------------------------------------------------------
(* The handler's moves *)

LEMMA WorkerIs ==
    ASSUME DriverTypeOK, NEW r \in Run, NEW f \in Token, NEW w \in Worker,
           worker' = [worker EXCEPT ![r][f] = w]
    PROVE  /\ worker'[r][f] = w
           /\ \A s \in Run, g \in Token : s # r \/ g # f => worker'[s][g] = worker[s][g]
  BY DEF DriverTypeOK

LEMMA Went ==
    ASSUME DriverTypeOK, NEW r \in Run, NEW f \in Token, NEW pc \in Control,
           Goto(r, f, pc)
    PROVE  /\ worker'[r][f].pc = pc
           /\ worker'[r][f].sent = worker[r][f].sent
           /\ worker'[r][f].phase = worker[r][f].phase
           /\ \A s \in Run, g \in Token : s # r \/ g # f => worker'[s][g] = worker[s][g]
<1> DEFINE w == [worker[r][f] EXCEPT !.pc = pc]
<1>1. worker' = [worker EXCEPT ![r][f] = w]
  BY DEF Goto
<1>2. worker[r][f] \in Worker
  BY DEF DriverTypeOK
<1>3. w \in Worker /\ w.pc = pc /\ w.sent = worker[r][f].sent /\ w.phase = worker[r][f].phase
  BY <1>2 DEF Worker
<1> HIDE DEF w
<1>4. /\ worker'[r][f] = w
      /\ \A s \in Run, g \in Token : s # r \/ g # f => worker'[s][g] = worker[s][g]
  BY <1>1, <1>3, WorkerIs
<1> QED
  BY <1>3, <1>4 DEF w

LEMMA Returned ==
    ASSUME DriverTypeOK, NEW r \in Run, NEW f \in Token, NEW verdict \in Verdict,
           Return(r, f, verdict)
    PROVE  /\ worker'[r][f].pc = "release"
           /\ \A s \in Run, g \in Token : s # r \/ g # f => worker'[s][g] = worker[s][g]
<1> DEFINE w == [worker[r][f] EXCEPT !.pc = "release", !.verdict = verdict]
<1>1. worker' = [worker EXCEPT ![r][f] = w]
  BY DEF Return
<1>2. worker[r][f] \in Worker
  BY DEF DriverTypeOK
<1>3. w \in Worker /\ w.pc = "release"
  BY <1>2 DEF Worker, Control
<1> HIDE DEF w
<1>4. /\ worker'[r][f] = w
      /\ \A s \in Run, g \in Token : s # r \/ g # f => worker'[s][g] = worker[s][g]
  BY <1>1 DEF DriverTypeOK
<1> QED
  BY <1>3, <1>4

\* Nothing else happens to any run.
Elsewhere(r) == \A s \in Run : s # r => runs'[s] = runs[s] /\ slack'[s] = slack[s]

Harmless == Control \ {"idle", "claimed", "post", "ack", "finalize", "rejected"}

LEMMA GotoFits ==
    ASSUME DriverTypeOK, ReplyFits, NEW r \in Run, NEW f \in Token, NEW pc \in Harmless,
           Goto(r, f, pc), ~At(r, f, "idle"), Untouched(r), Elsewhere(r),
           pc \in Executing => Executes(worker[r][f])
    PROVE  ReplyFits'
<1>1. Moves1(r, f)
  BY Went DEF Moves1, Elsewhere, Harmless
<1>2. Follows(worker[r][f], worker'[r][f])
  BY Went DEF Follows, Harmless, At
<1> QED
  BY <1>1, <1>2, HandlerGoes

LEMMA ReturnFits ==
    ASSUME DriverTypeOK, ReplyFits, NEW r \in Run, NEW f \in Token, NEW verdict \in Verdict,
           Return(r, f, verdict), ~At(r, f, "idle"), Untouched(r), Elsewhere(r)
    PROVE  ReplyFits'
<1>1. Moves1(r, f)
  BY Returned DEF Moves1, Elsewhere
<1>2. Follows(worker[r][f], worker'[r][f])
  BY Returned DEF Follows, Executing, At
<1> QED
  BY <1>1, <1>2, HandlerGoes

\* What a step does to the run of its handler when it writes that row only.
LEMMA RowIs ==
    ASSUME DriverInv, NEW r \in Run, NEW row, SetRun(r, row)
    PROVE  runs'[r] = row /\ \A s \in Run : s # r => runs'[s] = runs[s]
  BY DEF DriverInv, Inv, TypeOK, SetRun

LEMMA NothingTouched ==
    ASSUME UNCHANGED <<runs, slack>>, NEW r \in Run
    PROVE  Untouched(r) /\ Elsewhere(r)
  BY DEF Untouched, Elsewhere, Present

\* The status moves on, the delivery columns do not.
LEMMA StatusMoves ==
    ASSUME DriverInv, NEW r \in Run, NEW row, SetRun(r, row), UNCHANGED slack,
           row.fence = runs[r].fence, row.delivery = runs[r].delivery,
           row.attempt = runs[r].attempt, row.status # "absent",
           row.status = "response_ready" => runs[r].status = "response_ready"
    PROVE  Untouched(r) /\ Elsewhere(r)
  BY RowIs DEF Untouched, Elsewhere, Present

LEMMA AttemptFits ==
    ASSUME DriverInv, ReplyFits, NEW r \in Run, NEW f \in Token, Attempt(r, f)
    PROVE  ReplyFits'
<1> DEFINE w == worker[r][f]
<1>1. DriverTypeOK
  BY DEF DriverInv
<1>2. ASSUME UNCHANGED <<runs, slack>>, NEW pc \in Harmless, Goto(r, f, pc), ~At(r, f, "idle"),
             pc \in Executing => Executes(w)
      PROVE  ReplyFits'
  BY <1>1, <1>2, NothingTouched, GotoFits
<1>3. ASSUME UNCHANGED <<runs, slack>>, NEW verdict \in Verdict,
             Return(r, f, verdict), ~At(r, f, "idle")
      PROVE  ReplyFits'
  BY <1>1, <1>3, NothingTouched, ReturnFits
<1>4. /\ {"prepare", "create", "route", "freeze", "stage", "dispatch", "receipt", "observe",
          "settle", "failing", "replay", "repaired", "classify", "interrupted", "notice"} \subseteq Harmless
      /\ \A pc \in {"replay", "repaired", "classify", "interrupted", "notice"} : pc \notin Executing
  BY DEF Harmless, Control, Executing
<1>5. CASE PayloadMissing(r, f) \/ InstallationUnavailable(r, f) \/ InstallationEnded(r, f)
  BY <1>3, <1>5
     DEF PayloadMissing, InstallationUnavailable, InstallationEnded, Started, At, vars, Verdict
<1>6. CASE BeginAttempt(r, f)
  <2>1. w \in Worker /\ w.pc = "claimed"
    BY <1>1, <1>6 DEF BeginAttempt, Started, At, DriverTypeOK
  <2>2. w.phase # "delivery" => Executes(w)
    BY <2>1 DEF Worker, Executes
  <2>3. CASE w.phase = "delivery"
    BY <1>6, <2>1, <2>3, <1>2, <1>4 DEF BeginAttempt, vars, At
  <2>4. CASE w.phase # "delivery"
    BY <1>6, <2>1, <2>2, <2>4, <1>2, <1>4 DEF BeginAttempt, vars, At
  <2> QED
    BY <2>3, <2>4
<1>7. CASE AnswerModelRepair(r, f)
  <2>1. Untouched(r) /\ Elsewhere(r)
    BY <1>1, <1>7 DEF AnswerModelRepair, vars, Untouched, Elsewhere, Present, DriverTypeOK, Visible
  <2> QED
    BY <1>1, <1>4, <1>7, <2>1, GotoFits DEF AnswerModelRepair, At
<1>8. CASE RetireRepairedJob(r, f)
  BY <1>8, <1>2, <1>4 DEF RetireRepairedJob, vars, At
<1>9. CASE Prepare(r, f)
  <2>1. Executes(w) /\ Goto(r, f, "create") /\ ~At(r, f, "idle") /\ UNCHANGED slack
    BY <1>9 DEF Prepare, At, Executes, Executing
  <2>2. CASE PrepareRunInput(r)
    <3> DEFINE row == [runs[r] EXCEPT !.prepared = TRUE, !.status = "input_ready"]
    <3>1. SetRun(r, row) /\ runs[r] \in RunRow
      BY <2>2 DEF PrepareRunInput, DriverInv, Inv, TypeOK
    <3>2. /\ row.fence = runs[r].fence /\ row.delivery = runs[r].delivery
          /\ row.attempt = runs[r].attempt /\ row.status = "input_ready"
      BY <3>1 DEF RunRow
    <3> HIDE DEF row
    <3>3. Untouched(r) /\ Elsewhere(r)
      BY <2>1, <3>1, <3>2, StatusMoves
    <3> QED
      BY <1>1, <1>4, <2>1, <3>3, GotoFits
  <2>3. CASE UNCHANGED vars
    BY <1>2, <1>4, <2>1, <2>3 DEF vars
  <2> QED
    BY <1>9, <2>2, <2>3 DEF Prepare
<1>10. CASE Create(r, f)
  <2>1. Executes(w) /\ Goto(r, f, "route") /\ ~At(r, f, "idle") /\ UNCHANGED slack
    BY <1>10 DEF Create, At, Executes, Executing
  <2>2. Ledger(r) /\ runs[r].fence = f
    BY <1>10 DEF Create, At, CreateRunExecution, CanCreateExecution, ReplyFits, HandlerFits
  <2> DEFINE row == [runs[r] EXCEPT !.status = "executing", !.fence = f]
  <2>3. SetRun(r, row) /\ runs[r] \in RunRow
    BY <1>10 DEF Create, CreateRunExecution, DriverInv, Inv, TypeOK
  <2>4. /\ row.fence = runs[r].fence /\ row.delivery = runs[r].delivery
        /\ row.attempt = runs[r].attempt /\ row.status = "executing"
    BY <2>2, <2>3 DEF RunRow
  <2> HIDE DEF row
  <2>5. Untouched(r) /\ Elsewhere(r)
    BY <2>1, <2>3, <2>4, StatusMoves
  <2> QED
    BY <1>1, <1>4, <2>1, <2>5, GotoFits
<1>11. CASE Route(r, f)
  <2>1. Executes(w) /\ ~At(r, f, "idle") /\ UNCHANGED <<runs, slack>>
    BY <1>11 DEF Route, RecordRunExecutionRoute, At, Executes, Executing
  <2>2. job[r].settlement \in {"none", "completed", "failed"}
    BY <1>1 DEF DriverTypeOK, Job
  <2>3. \E pc \in {"freeze", "settle", "failing"} : Goto(r, f, pc)
    BY <1>11, <2>2 DEF Route
  <2> QED
    BY <2>1, <2>3, <1>2, <1>4
<1>12. CASE Freeze(r, f)
  <2>1. Executes(w) /\ ~At(r, f, "idle") /\ UNCHANGED <<runs, slack>>
    BY <1>12 DEF Freeze, At, Executes, Executing, vars
  <2> QED
    BY <1>12, <2>1, <1>2, <1>4 DEF Freeze
<1>13. CASE Stage(r, f) \/ RecordReceipt(r, f)
  <2>1. Executes(w) /\ ~At(r, f, "idle") /\ UNCHANGED <<runs, slack>>
    BY <1>13 DEF Stage, RecordReceipt, At, Executes, Executing, vars
  <2> QED
    BY <1>13, <2>1, <1>2, <1>4 DEF Stage, RecordReceipt
<1>14. CASE Dispatch(r, f) \/ DispatchConflict(r, f) \/ ObservationBreaks(r, f)
  <2>1. Executes(w) /\ ~At(r, f, "idle") /\ UNCHANGED <<runs, slack>>
    BY <1>14 DEF Dispatch, DispatchConflict, ObservationBreaks, At, Executes, Executing, vars
  <2> QED
    BY <1>14, <2>1, <1>2, <1>4 DEF Dispatch, DispatchConflict, ObservationBreaks
<1>15. CASE Reattach(r, f) \/ Notice(r, f)
  <2>1. ~At(r, f, "idle") /\ UNCHANGED <<runs, slack>>
    BY <1>15 DEF Reattach, Notice, At, vars
  <2> QED
    BY <1>15, <2>1, <1>2, <1>3, <1>4 DEF Reattach, Notice, Verdict
<1> QED
  BY <1>5, <1>6, <1>7, <1>8, <1>9, <1>10, <1>11, <1>12, <1>13, <1>14, <1>15 DEF Attempt

-----------------------------------------------------------------------------
(* The handler after the settlement *)

\* A run that is unanswered has nothing to show; one whose last attempt was
\* rejected, or that has not been started, has shown nothing.
LEMMA RunFacts ==
    ASSUME DriverInv, ReplyFits, NEW r \in Run
    PROVE  /\ runs[r] \in RunRow /\ slack[r] \in Visible
           /\ runs[r].status \in Unanswered => runs[r].delivery = "not_ready"
           /\ runs[r].delivery \in {"not_ready", "failed", "not_applicable"} =>
                slack[r].replies = 0
           /\ slack[r].replies = 0 /\ slack[r].known =>
                /\ runs[r].status # "response_ready"
                /\ runs[r].delivery \in {"not_ready", "not_applicable"}
           /\ ShownFits(r)
<1>1. /\ runs[r] \in RunRow /\ slack[r] \in Visible
      /\ RowReceipts(runs[r], trail[r]) /\ ShownFits(r)
  BY DEF DriverInv, Inv, TypeOK, DriverTypeOK, DeliveryMatchesReceipts, ReplyFits
<1>2. runs[r].status \in Unanswered => runs[r].delivery = "not_ready"
  BY <1>1 DEF RowReceipts
<1>3. slack[r].replies \in 0..2
  BY <1>1 DEF Visible
<1>4. runs[r].delivery \in {"not_ready", "failed", "not_applicable"} => slack[r].replies = 0
  BY <1>1, <1>3 DEF ShownFits
<1> QED
  BY <1>1, <1>2, <1>4 DEF ShownFits

\* The handler of the latest claim rewrites the delivery columns of its run, of
\* which nothing is shown, and goes where nothing is asked of it.
LEMMA ClosesUnseen ==
    ASSUME DriverInv, ReplyFits, NEW r \in Run, NEW f \in Token, NEW row,
           SetRun(r, row), UNCHANGED slack, runs[r].fence = f, ~At(r, f, "idle"),
           runs[r].delivery \in {"not_ready", "failed"},
           row.fence = f, row.delivery \in {"not_ready", "not_applicable"},
           row.status # "absent", slack[r].known => row.status # "response_ready",
           \A s \in Run, g \in Token : s # r \/ g # f => worker'[s][g] = worker[s][g],
           worker'[r][f].pc \in Harmless \ Executing
    PROVE  ReplyFits'
<1>1. Ledger(r) /\ Present(r)
  BY DEF ReplyFits, HandlerFits, At
<1>2. runs'[r] = row /\ \A s \in Run : s # r => runs'[s] = runs[s]
  BY RowIs
<1>3. Moves1(r, f)
  BY <1>2 DEF Moves1
<1>4. slack[r].replies = 0
  BY RunFacts
<1>5. Spares(r, f)
  BY <1>2, <1>4 DEF Spares, Awaits, Present
<1>6. ShownFits(r)'
  BY <1>2, <1>4 DEF ShownFits
<1>7. Token \subseteq Nat
  BY DEF Token
<1>8. HandlerFits(r, f)'
  <2>1. Present(r)' /\ Ledger(r)' /\ f <= runs'[r].fence /\ runs'[r].delivery # "pending"
    BY <1>1, <1>2, <1>7 DEF Present, Ledger
  <2>2. worker'[r][f].pc \notin {"claimed", "post", "ack", "finalize", "rejected"}
    BY DEF Harmless
  <2> QED
    BY <2>1, <2>2 DEF HandlerFits, Executes
<1> QED
  BY <1>3, <1>5, <1>6, <1>8, OneHandler

LEMMA SettleFits ==
    ASSUME DriverInv, ReplyFits, NEW r \in Run, NEW f \in Token, NEW d,
           SettleRunWithoutDelivery(r, f, d), UNCHANGED slack, ~At(r, f, "idle"),
           runs[r].delivery \in {"not_ready", "failed"},
           \A s \in Run, g \in Token : s # r \/ g # f => worker'[s][g] = worker[s][g],
           worker'[r][f].pc \in Harmless \ Executing
    PROVE  ReplyFits'
<1> DEFINE row == [runs[r] EXCEPT
             !.status = "settled", !.disposition = d, !.delivery = "not_applicable",
             !.attempt = None, !.lease = "none"]
<1>1. SetRun(r, row) /\ runs[r].fence = f
  BY DEF SettleRunWithoutDelivery, CanSettleWithoutDelivery
<1>2. row.fence = f /\ row.delivery = "not_applicable" /\ row.status = "settled"
  BY <1>1, RunFacts DEF RunRow
<1> HIDE DEF row
<1> QED
  BY <1>1, <1>2, ClosesUnseen

LEMMA StartFits ==
    ASSUME DriverInv, ReplyFits, NEW r \in Run, NEW f \in Token, NEW m \in Method,
           StartRunDelivery(r, f, m), Goto(r, f, "post"), UNCHANGED slack, ~At(r, f, "idle")
    PROVE  ReplyFits'
<1> DEFINE a == <<f, m>>
           row == [runs[r] EXCEPT !.delivery = "pending", !.attempt = a]
<1>1. /\ Ledger(r) /\ Present(r) /\ SetRun(r, row)
      /\ runs[r].fence = f /\ runs[r].delivery \in {"not_ready", "failed"}
      /\ runs[r].status = "response_ready"
  BY DEF ReplyFits, HandlerFits, At, StartRunDelivery, CanStartDelivery
<1>2. a \in AttemptId /\ a[1] = f /\ a # None
  BY StoreAssumption DEF AttemptId
<1>3. row.fence = f /\ row.delivery = "pending" /\ row.attempt = a /\ row.status = runs[r].status
  BY <1>1, RunFacts DEF RunRow
<1> HIDE DEF a, row
<1>4. runs'[r] = row /\ \A s \in Run : s # r => runs'[s] = runs[s]
  BY <1>1, RowIs
<1>5. "post" \in Control /\ DriverTypeOK /\ Goto(r, f, "post")
  BY DEF Control, DriverInv
<1>11. /\ worker'[r][f].pc = "post"
       /\ \A s \in Run, g \in Token : s # r \/ g # f => worker'[s][g] = worker[s][g]
  BY <1>5, Went
<1>6. Moves1(r, f) /\ worker'[r][f].pc = "post"
  BY <1>4, <1>11 DEF Moves1
<1>7. slack[r].replies = 0 /\ ~slack[r].known
  BY <1>1, RunFacts
<1>8. Spares(r, f)
  BY <1>1, <1>2, <1>3, <1>4, <1>7 DEF Spares, Awaits, Present
<1>9. ShownFits(r)'
  BY <1>3, <1>4, <1>7 DEF ShownFits
<1>10. HandlerFits(r, f)'
  <2>1. Present(r)' /\ Ledger(r)' /\ f <= runs'[r].fence /\ slack'[r].replies = 0
    BY <1>1, <1>3, <1>4, <1>7 DEF Present, Ledger, Token
  <2>2. Awaits(r, f)'
    BY <1>2, <1>3, <1>4 DEF Awaits
  <2> QED
    BY <1>6, <2>1, <2>2 DEF HandlerFits, Executes, Executing
<1> QED
  BY <1>6, <1>8, <1>9, <1>10, OneHandler

LEMMA RespondFits ==
    ASSUME DriverInv, ReplyFits, NEW r \in Run, NEW f \in Token, Respond(r, f)
    PROVE  ReplyFits'
<1>1. PICK a \in Answer, w \in Rendering : RecordRunResponse(r, f, a, w)
  BY DEF Respond
<1>2. /\ ~At(r, f, "idle") /\ Goto(r, f, "start") /\ UNCHANGED slack
      /\ ~slack[r].known
  BY DEF Respond, At
<1> DEFINE row == [runs[r] EXCEPT
             !.approved = a, !.rendered = w, !.status = "response_ready",
             !.delivery = "not_ready"]
<1>3. /\ SetRun(r, row) /\ runs[r].fence = f
      /\ runs[r].status \in Unanswered
  BY <1>1 DEF RecordRunResponse, CanRecordResponse, Unanswered
<1>4. row.fence = f /\ row.delivery = "not_ready" /\ row.status = "response_ready"
  BY <1>3, RunFacts DEF RunRow
<1> HIDE DEF row
<1>5. "start" \in Control /\ "start" \in Harmless \ Executing /\ DriverTypeOK
  BY DEF Control, Harmless, Executing, DriverInv
<1>6. /\ \A s \in Run, g \in Token : s # r \/ g # f => worker'[s][g] = worker[s][g]
      /\ worker'[r][f].pc \in Harmless \ Executing
  BY <1>2, <1>5, Went
<1>7. runs[r].delivery = "not_ready"
  BY <1>3, RunFacts
<1> QED
  BY <1>2, <1>3, <1>4, <1>6, <1>7, ClosesUnseen

\* Slack takes the reply of the one handler that may still show one.
LEMMA PostFits ==
    ASSUME DriverInv, ReplyFits, NEW r \in Run, NEW f \in Token, Post(r, f)
    PROVE  ReplyFits'
<1> DEFINE w == worker[r][f]
<1>1. /\ Ledger(r) /\ Present(r) /\ f <= runs[r].fence
      /\ Awaits(r, f) /\ slack[r].replies = 0
  BY DEF ReplyFits, HandlerFits, Post, At
<1>2. slack[r] \in Visible /\ ShownFits(r) /\ w \in Worker
  BY RunFacts DEF DriverInv, DriverTypeOK
<1>3. PICK sent \in {"ok", "failed", "unknown"}, visible \in BOOLEAN :
        /\ (sent = "ok" => visible) /\ (sent = "failed" => ~visible)
        /\ slack' = [slack EXCEPT ![r].replies = IF visible /\ @ < 2 THEN @ + 1 ELSE @]
        /\ worker' = [worker EXCEPT ![r][f] = [@ EXCEPT
             !.pc = IF sent = "ok" THEN "ack" ELSE "finalize", !.sent = sent]]
  BY DEF Post
<1> DEFINE new == [w EXCEPT !.pc = IF sent = "ok" THEN "ack" ELSE "finalize", !.sent = sent]
<1>4. /\ new \in Worker /\ new.sent = sent
      /\ new.pc = IF sent = "ok" THEN "ack" ELSE "finalize"
  BY <1>2 DEF Worker, Control, Sent
<1>5. worker' = [worker EXCEPT ![r][f] = new]
  BY <1>3
<1> HIDE DEF new
<1>6. /\ worker'[r][f] = new
      /\ \A s \in Run, g \in Token : s # r \/ g # f => worker'[s][g] = worker[s][g]
  BY <1>5 DEF DriverInv, DriverTypeOK
<1>7. /\ slack'[r].replies = IF visible THEN 1 ELSE 0
      /\ slack'[r].known = slack[r].known
      /\ \A s \in Run : s # r => slack'[s] = slack[s]
  BY <1>1, <1>2, <1>3 DEF DriverInv, DriverTypeOK, Visible
<1>8. UNCHANGED runs
  BY DEF Post, vars
<1>9. Moves1(r, f)
  BY <1>6, <1>7, <1>8 DEF Moves1
<1>10. Spares(r, f)
  BY <1>1, <1>7, <1>8 DEF Spares, Awaits, Present
<1>11. ShownFits(r)'
  BY <1>1, <1>2, <1>7, <1>8 DEF ShownFits, Awaits
<1>12. HandlerFits(r, f)'
  <2>1. Present(r)' /\ Ledger(r)' /\ f <= runs'[r].fence
    BY <1>1, <1>8 DEF Present, Ledger
  <2>2. sent = "ok" => slack'[r].replies > 0
    BY <1>3, <1>7
  <2>3. sent = "failed" => slack'[r].replies = 0
    BY <1>3, <1>7
  <2> QED
    BY <1>4, <1>6, <2>1, <2>2, <2>3 DEF HandlerFits, Executes, Executing
<1> QED
  BY <1>9, <1>10, <1>11, <1>12, OneHandler

LEMMA AcknowledgeFits ==
    ASSUME DriverInv, ReplyFits, NEW r \in Run, NEW f \in Token, Acknowledge(r, f)
    PROVE  ReplyFits'
<1>1. /\ Ledger(r) /\ Present(r) /\ f <= runs[r].fence
      /\ slack[r].replies > 0 /\ worker[r][f].sent = "ok"
  BY DEF ReplyFits, HandlerFits, Acknowledge, At
<1>2. slack[r] \in Visible /\ ShownFits(r)
  BY RunFacts
<1>3. UNCHANGED runs /\ slack' = [slack EXCEPT ![r].known = TRUE]
  BY DEF Acknowledge, vars
<1>4. slack'[r].replies = slack[r].replies /\ \A s \in Run : s # r => slack'[s] = slack[s]
  BY <1>2, <1>3 DEF DriverInv, DriverTypeOK, Visible
<1>5. "finalize" \in Control /\ DriverTypeOK /\ Goto(r, f, "finalize")
  BY DEF Control, DriverInv, Acknowledge
<1>6. /\ worker'[r][f].pc = "finalize" /\ worker'[r][f].sent = worker[r][f].sent
      /\ \A s \in Run, g \in Token : s # r \/ g # f => worker'[s][g] = worker[s][g]
  BY <1>5, Went
<1>7. Moves1(r, f)
  BY <1>3, <1>4, <1>6 DEF Moves1
<1>8. Spares(r, f)
  BY <1>3, <1>4 DEF Spares, Awaits, Present
<1>9. ShownFits(r)'
  BY <1>1, <1>2, <1>3, <1>4 DEF ShownFits
<1>10. HandlerFits(r, f)'
  <2>1. Present(r)' /\ Ledger(r)' /\ f <= runs'[r].fence /\ slack'[r].replies > 0
    BY <1>1, <1>3, <1>4 DEF Present, Ledger
  <2> QED
    BY <1>1, <1>6, <2>1 DEF HandlerFits, Executes, Executing
<1> QED
  BY <1>7, <1>8, <1>9, <1>10, OneHandler

\* The outcome of the pending attempt is booked, of what is shown of it.
LEMMA BookFits ==
    ASSUME DriverInv, ReplyFits, NEW r \in Run, NEW f \in Token, NEW row, NEW pc \in Control,
           SetRun(r, row), Goto(r, f, pc), UNCHANGED slack, ~At(r, f, "idle"),
           runs[r].fence = f, runs[r].delivery = "pending",
           slack[r].replies > 0 \/ Awaits(r, f),
           row.fence = f, row.status # "absent",
           \/ row.delivery = "delivered" /\ slack[r].replies > 0
           \/ row.delivery = "unknown"
           \/ row.delivery = "failed" /\ slack[r].replies = 0,
           pc \in {"close", "classify"} \/ (pc = "rejected" /\ row.delivery = "failed")
    PROVE  ReplyFits'
<1>1. Ledger(r) /\ Present(r) /\ ShownFits(r) /\ DriverTypeOK
  BY DEF ReplyFits, HandlerFits, At, DriverInv
<1>2. runs'[r] = row /\ \A s \in Run : s # r => runs'[s] = runs[s]
  BY RowIs
<1>3. /\ worker'[r][f].pc = pc
      /\ \A s \in Run, g \in Token : s # r \/ g # f => worker'[s][g] = worker[s][g]
  BY <1>1, Went
<1>4. Moves1(r, f)
  BY <1>2, <1>3 DEF Moves1
<1>5. slack[r].replies \in 0..2
  BY RunFacts DEF Visible
<1>6. row.delivery # "pending"
  OBVIOUS
<1>7. Spares(r, f)
  BY <1>2, <1>5, <1>6 DEF Spares, Awaits, Present
<1>8. ShownFits(r)'
  <2>1. slack'[r] = slack[r]
    OBVIOUS
  <2> QED
    BY <1>1, <1>2, <1>5, <2>1 DEF ShownFits
<1>9. HandlerFits(r, f)'
  <2>1. Present(r)' /\ Ledger(r)' /\ f <= runs'[r].fence
    BY <1>1, <1>2 DEF Present, Ledger, Token
  <2> QED
    BY <1>2, <1>3, <2>1 DEF HandlerFits, Executes, Executing
<1> QED
  BY <1>4, <1>7, <1>8, <1>9, OneHandler

LEMMA DeliveredFits ==
    ASSUME DriverInv, ReplyFits, NEW r \in Run, NEW f \in Token, NEW a, NEW d,
           FinalizeDelivered(r, f, a, d), Goto(r, f, "close"), UNCHANGED slack,
           ~At(r, f, "idle"), slack[r].replies > 0
    PROVE  ReplyFits'
<1> DEFINE row == [runs[r] EXCEPT
             !.delivery = "delivered", !.status = "settled", !.disposition = d, !.lease = "none"]
<1>1. SetRun(r, row) /\ runs[r].fence = f /\ runs[r].delivery = "pending"
  BY DEF FinalizeDelivered, CanFinalize
<1>2. row.fence = f /\ row.delivery = "delivered" /\ row.status = "settled"
  BY <1>1, RunFacts DEF RunRow
<1> HIDE DEF row
<1>3. "close" \in Control /\ "close" \in {"close", "classify"}
  BY DEF Control
<1> QED
  BY <1>1, <1>2, <1>3, BookFits

LEMMA FinalizeFits ==
    ASSUME DriverInv, ReplyFits, NEW r \in Run, NEW f \in Token, Finalize(r, f)
    PROVE  ReplyFits'
<1> DEFINE w == worker[r][f]
           a == runs[r].attempt
<1>1. /\ HandlerFits(r, f) /\ At(r, f, "finalize") /\ ~At(r, f, "idle")
      /\ a # None /\ a[1] = f /\ UNCHANGED slack
  BY DEF Finalize, ReplyFits, At
<1>2. CASE w.sent = "ok"
  <2>1. PICK d : FinalizeDelivered(r, f, a, d) /\ Goto(r, f, "close")
    BY <1>2 DEF Finalize
  <2>2. slack[r].replies > 0
    BY <1>1, <1>2 DEF HandlerFits, At
  <2> HIDE DEF a
  <2> QED
    BY <1>1, <2>1, <2>2, DeliveredFits
<1>3. ASSUME CanFinalize(r, f, a) PROVE runs[r].fence = f /\ Awaits(r, f)
  BY <1>1, <1>3 DEF CanFinalize, Awaits
<1>4. CASE w.sent = "unknown"
  <2> DEFINE row == [runs[r] EXCEPT
               !.delivery = "unknown", !.status = "recovery_required", !.lease = "none"]
  <2>1. SetRun(r, row) /\ CanFinalize(r, f, a) /\ Goto(r, f, "classify")
    BY <1>4 DEF Finalize, FinalizeUnknown
  <2>2. row.fence = f /\ row.delivery = "unknown" /\ row.status = "recovery_required"
    BY <1>3, <2>1, RunFacts DEF RunRow
  <2> HIDE DEF row
  <2>3. "classify" \in Control /\ "classify" \in {"close", "classify"}
    BY DEF Control
  <2>4. runs[r].delivery = "pending"
    BY <2>1 DEF CanFinalize
  <2> QED
    BY <1>1, <1>3, <2>1, <2>2, <2>3, <2>4, BookFits
<1>5. CASE w.sent = "failed"
  <2> DEFINE row == [runs[r] EXCEPT !.delivery = "failed"]
             pc == IF w.phase = "delivery" THEN "rejected" ELSE "classify"
  <2>1. SetRun(r, row) /\ CanFinalize(r, f, a) /\ Goto(r, f, pc)
    BY <1>5 DEF Finalize, FinalizeFailed
  <2>2. row.fence = f /\ row.delivery = "failed" /\ row.status = runs[r].status
    BY <1>3, <2>1, RunFacts DEF RunRow
  <2>3. pc \in Control /\ pc \in {"classify", "rejected"}
    BY DEF Control
  <2> HIDE DEF row, pc
  <2>4. slack[r].replies = 0 /\ runs[r].delivery = "pending" /\ row.status # "absent"
    BY <1>1, <1>3, <1>5, <2>1, <2>2 DEF HandlerFits, At, Present, CanFinalize
  <2> QED
    BY <1>1, <1>3, <2>1, <2>2, <2>3, <2>4, BookFits
<1> QED
  BY <1>2, <1>4, <1>5 DEF Finalize

\* The turn has caught an error and goes on to reply with it.
LEMMA SettleFailureFits ==
    ASSUME DriverInv, ReplyFits, NEW r \in Run, NEW f \in Token, SettleFailure(r, f)
    PROVE  ReplyFits'
<1> DEFINE w == [worker[r][f] EXCEPT !.pc = "respond", !.failed = TRUE]
<1>1. /\ worker' = [worker EXCEPT ![r][f] = w] /\ At(r, f, "failing")
      /\ UNCHANGED <<runs, slack>>
  BY DEF SettleFailure, SettleRunExecution
<1>2. worker[r][f] \in Worker
  BY DEF DriverInv, DriverTypeOK
<1>3. w.pc = "respond"
  BY <1>2 DEF Worker
<1> HIDE DEF w
<1>4. /\ worker'[r][f] = w
      /\ \A s \in Run, g \in Token : s # r \/ g # f => worker'[s][g] = worker[s][g]
  BY <1>1 DEF DriverInv, DriverTypeOK
<1>5. Untouched(r) /\ Elsewhere(r)
  BY <1>1, NothingTouched
<1>6. Moves1(r, f) /\ Follows(worker[r][f], worker'[r][f])
  BY <1>1, <1>3, <1>4 DEF Moves1, Follows, Executes, Executing, At
<1> QED
  BY <1>5, <1>6, HandlerGoes

LEMMA ReplyActionFits ==
    ASSUME DriverInv, ReplyFits, NEW r \in Run, NEW f \in Token, Reply(r, f)
    PROVE  ReplyFits'
<1>1. DriverTypeOK
  BY DEF DriverInv
<1>2. ASSUME NEW pc \in Harmless, Goto(r, f, pc), ~At(r, f, "idle"), UNCHANGED <<runs, slack>>,
             pc \in Executing => Executes(worker[r][f])
      PROVE  ReplyFits'
  BY <1>1, <1>2, NothingTouched, GotoFits
<1>3. CASE RecordSettlement(r, f) \/ SettleExecution(r, f)
  <2>1. PICK pc \in {"settle", "failing", "respond"} :
          Goto(r, f, pc) /\ worker[r][f].pc \in {"observe", "settle"}
    BY <1>3 DEF RecordSettlement, SettleExecution, At
  <2>2. UNCHANGED <<runs, slack>>
    BY <1>3 DEF RecordSettlement, SettleExecution, SettleRunExecution, vars
  <2>3. pc \in Harmless /\ Executes(worker[r][f]) /\ ~At(r, f, "idle")
    BY <2>1 DEF Harmless, Control, Executes, Executing, At
  <2> QED
    BY <1>2, <2>1, <2>2, <2>3
<1>10. CASE SettleFailure(r, f)
  BY <1>10, SettleFailureFits
<1>4. CASE WithholdReply(r, f) \/ AlreadyShown(r, f)
  <2>1. /\ Goto(r, f, "classify") /\ ~At(r, f, "idle") /\ UNCHANGED <<runs, slack>>
        /\ "classify" \in Harmless /\ "classify" \notin Executing
    BY <1>4 DEF WithholdReply, AlreadyShown, At, vars, Harmless, Control, Executing
  <2> QED
    BY <1>2, <2>1
<1>5. CASE EndWithoutReply(r, f)
  <2>1. /\ SettleRunWithoutDelivery(r, f, "no_op") /\ UNCHANGED slack
        /\ At(r, f, "respond") /\ ~At(r, f, "idle") /\ Goto(r, f, "close")
        /\ runs[r].fence = f
    BY <1>5 DEF EndWithoutReply, At, SettleRunWithoutDelivery, CanSettleWithoutDelivery
  <2>2. runs[r].status # "response_ready"
    BY <2>1 DEF ReplyFits, HandlerFits, At, Executes, Executing
  <2>3. runs[r].delivery = "not_ready"
    BY <2>1, <2>2, RunFacts
       DEF SettleRunWithoutDelivery, CanSettleWithoutDelivery, Unanswered
  <2>4. "close" \in Control /\ "close" \in Harmless \ Executing
    BY DEF Control, Harmless, Executing
  <2>5. /\ worker'[r][f].pc \in Harmless \ Executing
        /\ \A s \in Run, g \in Token : s # r \/ g # f => worker'[s][g] = worker[s][g]
    BY <1>1, <2>1, <2>4, Went
  <2> QED
    BY <2>1, <2>3, <2>5, SettleFits
<1>6. CASE Respond(r, f)
  BY <1>6, RespondFits
<1>7. CASE StartDelivery(r, f)
  BY <1>7, StartFits DEF StartDelivery, At
<1>8. CASE Post(r, f) \/ Acknowledge(r, f) \/ Finalize(r, f)
  BY <1>8, PostFits, AcknowledgeFits, FinalizeFits
<1>9. CASE Close(r, f)
  <2>1. /\ Return(r, f, "completed") /\ ~At(r, f, "idle") /\ UNCHANGED <<runs, slack>>
        /\ "completed" \in Verdict
    BY <1>9 DEF Close, At, vars, Verdict
  <2> QED
    BY <1>1, <2>1, NothingTouched, ReturnFits
<1> QED
  BY <1>3, <1>4, <1>5, <1>6, <1>7, <1>8, <1>9, <1>10 DEF Reply

-----------------------------------------------------------------------------
(* Failures and replays *)

LEMMA RetryRejectedFits ==
    ASSUME DriverInv, ReplyFits, NEW r \in Run, NEW f \in Token, RetryRejected(r, f),
           ~At(r, f, "idle"), runs[r].fence = f => runs[r].delivery = "failed"
    PROVE  ReplyFits'
<1>1. DriverTypeOK /\ UNCHANGED slack
  BY DEF DriverInv, RetryRejected
<1>2. ASSUME UNCHANGED runs, NEW verdict \in Verdict, Return(r, f, verdict)
      PROVE  ReplyFits'
  BY <1>1, <1>2, NothingTouched, ReturnFits
<1>3. CASE UNCHANGED runs
  <2>1. PICK verdict \in Verdict : Return(r, f, verdict)
    BY DEF RetryRejected, Verdict
  <2> QED
    BY <1>2, <1>3, <2>1
<1>4. CASE ~ UNCHANGED runs
  <2>1. SettleRunWithoutDelivery(r, f, "failed") /\ Return(r, f, "completed")
    BY <1>4 DEF RetryRejected, vars
  <2>2. runs[r].delivery = "failed"
    BY <2>1 DEF SettleRunWithoutDelivery, CanSettleWithoutDelivery
  <2>3. "completed" \in Verdict /\ "release" \in Harmless \ Executing
    BY DEF Verdict, Harmless, Control, Executing
  <2>4. /\ worker'[r][f].pc \in Harmless \ Executing
        /\ \A s \in Run, g \in Token : s # r \/ g # f => worker'[s][g] = worker[s][g]
    BY <1>1, <2>1, <2>3, Returned
  <2> QED
    BY <1>1, <2>1, <2>2, <2>4, SettleFits
<1> QED
  BY <1>3, <1>4

\* A failure shown beside the ledger is nothing to the other handlers: the
\* presentation row learns of it only where no reply is on its way.
LEMMA UnrecordedFits ==
    ASSUME DriverInv, ReplyFits, NEW r \in Run, NEW f \in Token, PostUnrecorded(r, f)
    PROVE  ReplyFits'
<1>1. ShownFits(r) /\ HandlerFits(r, f) /\ slack[r] \in Visible
  BY RunFacts DEF ReplyFits
<1>2. /\ At(r, f, "unrecorded") /\ Goto(r, f, "classify") /\ UNCHANGED runs
      /\ "classify" \in Control
  BY DEF PostUnrecorded, vars, Control
<1>3. PICK shown \in BOOLEAN, acknowledged \in BOOLEAN :
        /\ acknowledged => NoReplyOnItsWay(r)
        /\ slack' = [slack EXCEPT ![r].beside = @ \/ shown, ![r].known = @ \/ acknowledged]
  BY DEF PostUnrecorded
<1> DEFINE row == [slack[r] EXCEPT !.beside = @ \/ shown, !.known = @ \/ acknowledged]
<1>4. slack' = [slack EXCEPT ![r] = row]
  BY <1>3
<1>5. row.replies = slack[r].replies /\ (row.known => slack[r].known \/ NoReplyOnItsWay(r))
  BY <1>1, <1>3 DEF Visible
<1> HIDE DEF row
<1>6. slack'[r] = row /\ \A s \in Run : s # r => slack'[s] = slack[s]
  BY <1>4 DEF DriverInv, DriverTypeOK
<1>7. /\ worker'[r][f].pc = "classify"
      /\ \A s \in Run, g \in Token : s # r \/ g # f => worker'[s][g] = worker[s][g]
  BY <1>2, Went DEF DriverInv
<1>8. Moves1(r, f)
  BY <1>2, <1>6, <1>7 DEF Moves1
<1>9. Spares(r, f)
  BY <1>2, <1>5, <1>6 DEF Spares, Awaits, Present
<1>10. ShownFits(r)'
  BY <1>1, <1>2, <1>5, <1>6 DEF ShownFits, NoReplyOnItsWay
<1>11. HandlerFits(r, f)'
  <2>1. Present(r)' /\ Ledger(r)' /\ f <= runs'[r].fence
    BY <1>1, <1>2 DEF HandlerFits, At, Present, Ledger
  <2> QED
    BY <1>7, <2>1 DEF HandlerFits, Executes, Executing
<1> QED
  BY <1>8, <1>9, <1>10, <1>11, OneHandler

LEMMA FailFits ==
    ASSUME DriverInv, ReplyFits, NEW r \in Run, NEW f \in Token, Fail(r, f)
    PROVE  ReplyFits'
<1>1. DriverTypeOK
  BY DEF DriverInv
<1>2. ASSUME UNCHANGED <<runs, slack>>, NEW verdict \in Verdict, Return(r, f, verdict),
             ~At(r, f, "idle")
      PROVE  ReplyFits'
  BY <1>1, <1>2, NothingTouched, ReturnFits
<1>3. CASE WriteRefused(r, f) \/ SettlementRefused(r, f)
  <2>1. PICK pc \in {"classify", "unrecorded"} : Goto(r, f, pc)
    BY <1>3 DEF WriteRefused, SettlementRefused
  <2>2. ~At(r, f, "idle") /\ UNCHANGED <<runs, slack>>
    BY <1>3 DEF WriteRefused, Refuses, RefusesReceipt, SettlementRefused, At, vars
  <2>3. pc \in Harmless /\ pc \notin Executing
    BY DEF Harmless, Control, Executing
  <2> QED
    BY <1>1, <2>1, <2>2, <2>3, NothingTouched, GotoFits
<1>6. CASE TurnThrows(r, f)
  <2>1. PICK pc \in {"classify", "failing"} : Goto(r, f, pc)
    BY <1>6 DEF TurnThrows
  <2>2. /\ ~At(r, f, "idle") /\ UNCHANGED <<runs, slack>> /\ Executes(worker[r][f])
    BY <1>6 DEF TurnThrows, At, Executes, Executing, vars
  <2>3. pc \in Harmless
    BY DEF Harmless, Control
  <2> QED
    BY <1>1, <2>1, <2>2, <2>3, NothingTouched, GotoFits
<1>7. CASE PostUnrecorded(r, f)
  BY <1>7, UnrecordedFits
<1>4. CASE ClassifyDecided(r, f) \/ ClassifyUnsubmitted(r, f) \/ ClassifyAmbiguous(r, f)
  <2>1. \E verdict \in Verdict : Return(r, f, verdict)
    BY <1>4 DEF ClassifyDecided, ClassifyUnsubmitted, ClassifyAmbiguous, Verdict
  <2>2. ~At(r, f, "idle") /\ UNCHANGED <<runs, slack>>
    BY <1>4 DEF ClassifyDecided, ClassifyUnsubmitted, ClassifyAmbiguous, At, vars
  <2> QED
    BY <1>2, <2>1, <2>2
<1>5. CASE ClassifyRejected(r, f)
  BY <1>5, RetryRejectedFits DEF ClassifyRejected, At
<1> QED
  BY <1>3, <1>4, <1>5, <1>6, <1>7 DEF Fail

LEMMA ReplayFits ==
    ASSUME DriverInv, ReplyFits, NEW r \in Run, NEW f \in Token, Replay(r, f)
    PROVE  ReplyFits'
<1>1. DriverTypeOK /\ ShownFits(r) /\ HandlerFits(r, f) /\ slack[r].replies \in 0..2
  BY RunFacts DEF DriverInv, ReplyFits, Visible
<1>2. CASE ReplayUnresolved(r, f) \/ ReplayWaits(r, f) \/ ReplayRefused(r, f)
  <2>1. \E verdict \in Verdict : Return(r, f, verdict)
    BY <1>2 DEF ReplayUnresolved, ReplayWaits, ReplayRefused, Verdict
  <2>2. ~At(r, f, "idle") /\ UNCHANGED <<runs, slack>>
    BY <1>2 DEF ReplayUnresolved, ReplayWaits, ReplayRefused, RefusesReceipt, At, vars
  <2> QED
    BY <1>1, <2>1, <2>2, NothingTouched, ReturnFits
<1>3. CASE ReplayBooks(r, f)
  <2>1. \E d : FinalizeDelivered(r, f, runs[r].attempt, d)
    BY <1>3 DEF ReplayBooks
  <2>2. /\ Goto(r, f, "close") /\ UNCHANGED slack /\ ~At(r, f, "idle")
        /\ slack[r].replies > 0
    BY <1>1, <1>3 DEF ReplayBooks, At, ShownFits
  <2> QED
    BY <2>1, <2>2, DeliveredFits
<1>4. CASE ReplayFallback(r, f)
  <2>1. PICK w \in Rendering : ReplaceRendering(r, f, w)
    BY <1>4 DEF ReplayFallback
  <2> DEFINE row == [runs[r] EXCEPT !.rendered = w, !.delivery = "not_ready", !.attempt = None]
  <2>2. /\ SetRun(r, row) /\ runs[r].fence = f /\ runs[r].delivery = "failed"
        /\ At(r, f, "replay") /\ ~At(r, f, "idle") /\ UNCHANGED <<slack, worker>>
    BY <1>4, <2>1 DEF ReplayFallback, ReplaceRendering, At, driverVars
  <2>3. row.fence = f /\ row.delivery = "not_ready" /\ row.status = runs[r].status
    BY <2>2, RunFacts DEF RunRow
  <2> HIDE DEF row
  <2>4. row.status # "absent" /\ ~slack[r].known
    BY <1>1, <2>2, <2>3, RunFacts DEF HandlerFits, At, Present
  <2>5. worker'[r][f].pc \in Harmless \ Executing
    BY <2>2 DEF At, Harmless, Control, Executing
  <2> QED
    BY <2>2, <2>3, <2>4, <2>5, ClosesUnseen
<1>5. CASE ReplayStarts(r, f)
  BY <1>5, StartFits DEF ReplayStarts, At
<1>6. CASE ReplayRejected(r, f)
  <2>1. ~At(r, f, "idle") /\ (runs[r].fence = f => runs[r].delivery = "failed")
    BY <1>1, <1>6 DEF ReplayRejected, At, HandlerFits
  <2> QED
    BY <1>6, <2>1, RetryRejectedFits DEF ReplayRejected
<1> QED
  BY <1>2, <1>3, <1>4, <1>5, <1>6 DEF Replay

-----------------------------------------------------------------------------
(* The drain, the sweep, crashes and the operator *)

LEMMA FinishFits ==
    ASSUME DriverInv, ReplyFits, NEW r \in Run, NEW f \in Token,
           worker' = [worker EXCEPT ![r][f] = NoWorker], Untouched(r), Elsewhere(r)
    PROVE  ReplyFits'
<1>1. /\ worker'[r][f] = NoWorker
      /\ \A s \in Run, g \in Token : s # r \/ g # f => worker'[s][g] = worker[s][g]
  BY DEF DriverInv, DriverTypeOK
<1>2. Moves1(r, f) /\ Follows(worker[r][f], worker'[r][f])
  BY <1>1 DEF Moves1, Elsewhere, Follows, NoWorker
<1> QED
  BY <1>2, HandlerGoes

LEMMA ReleaseFits ==
    ASSUME DriverInv, ReplyFits, NEW r \in Run, NEW f \in Token,
           ReleaseClaim(r, f) \/ ReleaseRefused(r, f)
    PROVE  ReplyFits'
<1>1. worker' = [worker EXCEPT ![r][f] = NoWorker] /\ UNCHANGED slack
  BY DEF ReleaseClaim, ReleaseRefused, Finish
<1>2. CASE UNCHANGED runs
  BY <1>1, <1>2, NothingTouched, FinishFits
<1>3. CASE ReleaseRequeued(r, f)
  <2> DEFINE row == [runs[r] EXCEPT !.status = RequeuedStatus(runs[r]), !.lease = "none"]
  <2>1. SetRun(r, row)
    BY <1>3 DEF ReleaseRequeued
  <2>2. /\ row.fence = runs[r].fence /\ row.delivery = runs[r].delivery
        /\ row.attempt = runs[r].attempt /\ row.status = RequeuedStatus(runs[r])
    BY RunFacts DEF RunRow
  <2>3. row.status # "absent" /\ (row.status = "response_ready" => runs[r].status = "response_ready")
    BY <2>2 DEF RequeuedStatus
  <2> HIDE DEF row
  <2>4. Untouched(r) /\ Elsewhere(r)
    BY <1>1, <2>1, <2>2, <2>3, StatusMoves
  <2> QED
    BY <1>1, <2>4, FinishFits
<1>4. CASE ReleaseToRecovery(r, f)
  <2> DEFINE row == [runs[r] EXCEPT !.status = "recovery_required", !.lease = "none"]
  <2>1. SetRun(r, row)
    BY <1>4 DEF ReleaseToRecovery
  <2>2. /\ row.fence = runs[r].fence /\ row.delivery = runs[r].delivery
        /\ row.attempt = runs[r].attempt /\ row.status = "recovery_required"
    BY RunFacts DEF RunRow
  <2> HIDE DEF row
  <2>4. Untouched(r) /\ Elsewhere(r)
    BY <1>1, <2>1, <2>2, StatusMoves
  <2> QED
    BY <1>1, <2>4, FinishFits
<1> QED
  BY <1>2, <1>3, <1>4 DEF ReleaseClaim, ReleaseRefused, vars

\* The sweep of the claim changes nothing that the handlers rely on.
LEMMA SweptRow ==
    ASSUME DriverInv, NEW s \in Run
    PROVE  /\ Reconciled(s).fence = runs[s].fence
           /\ Reconciled(s).delivery = runs[s].delivery
           /\ Reconciled(s).attempt = runs[s].attempt
           /\ Reconciled(s).status = "response_ready" => runs[s].status = "response_ready"
           /\ Present(s) => Reconciled(s).status # "absent"
           /\ Reconciled(s) \in RunRow
<1>1. runs[s] \in RunRow /\ Reconciled(s) \in RunRow
  BY ReconciledOK DEF DriverInv, Inv, TypeOK, RowOK
<1>2. CASE Reconciled(s) = runs[s]
  BY <1>1, <1>2 DEF Present
<1>3. CASE Reconciled(s) # runs[s]
  <2> DEFINE status == IF runs[s].status = "executing" /\ Submitted(s)
                       THEN "recovery_required" ELSE RequeuedStatus(runs[s])
             row == [runs[s] EXCEPT !.status = status, !.lease = "none"]
  <2>1. Reconciled(s) = row
    BY <1>1, <1>3 DEF Reconciled, RunRow
  <2>2. status # "absent" /\ (status = "response_ready" => runs[s].status = "response_ready")
    BY DEF RequeuedStatus
  <2> HIDE DEF status
  <2>3. /\ row.fence = runs[s].fence /\ row.delivery = runs[s].delivery
        /\ row.attempt = runs[s].attempt /\ row.status = status
    BY <1>1 DEF RunRow
  <2> QED
    BY <1>1, <2>1, <2>2, <2>3
<1> QED
  BY <1>2, <1>3

LEMMA SweptUntouched ==
    ASSUME DriverInv, NEW s \in Run, runs'[s] = Reconciled(s), UNCHANGED slack
    PROVE  Untouched(s)
  BY SweptRow DEF Untouched, Present

\* A claim starts a handler under a fence that no handler had.
LEMMA DrainClaimFits ==
    ASSUME DriverInv, ReplyFits, NEW r \in Run, DrainClaim(r)
    PROVE  ReplyFits'
<1>1. PICK f \in Token : f = runs'[r].fence
  BY ClaimToken DEF DrainClaim, DriverInv
<1> DEFINE w == [NoWorker EXCEPT !.pc = "claimed",
                   !.phase = IF runs'[r].status = "response_ready" THEN "delivery" ELSE "execute"]
           swept == [s \in Run |-> Reconciled(s)]
<1>2. /\ Claim(r) /\ UNCHANGED slack /\ DriverTypeOK
      /\ worker' = [worker EXCEPT ![r][f] = w]
  BY <1>1 DEF DrainClaim, DriverInv
<1>3. w \in Worker /\ w.pc = "claimed" /\ (w.phase = "execute" => runs'[r].status # "response_ready")
  BY DEF NoWorker, Worker, Control, Verdict, Sent
<1>4. /\ r \in Eligible(swept)
      /\ runs' = [swept EXCEPT ![r] = Claimed(swept[r])]
  BY <1>2 DEF Claim
<1>5. /\ Ledger(r) /\ Reconciled(r).status \in Claimable
      /\ runs'[r] = Claimed(Reconciled(r))
      /\ \A s \in Run : s # r => runs'[s] = Reconciled(s)
  BY <1>4 DEF Eligible
<1>6. /\ f = runs[r].fence + 1 /\ runs'[r].delivery = runs[r].delivery
      /\ runs'[r].attempt = runs[r].attempt /\ Present(r)'
      /\ runs'[r].status = "response_ready" => runs[r].status = "response_ready"
      /\ runs[r].fence \in Nat
  <2> DEFINE row == Reconciled(r)
             status == IF row.status \in {"admitted", "queued"} THEN "preparing_input" ELSE row.status
  <2>1. /\ row \in RunRow /\ row.fence = runs[r].fence /\ row.delivery = runs[r].delivery
        /\ row.attempt = runs[r].attempt
        /\ row.status = "response_ready" => runs[r].status = "response_ready"
    BY SweptRow
  <2>2. Claimed(row) = [row EXCEPT !.status = status, !.lease = "held", !.fence = row.fence + 1]
    BY DEF Claimed
  <2>3. status # "absent" /\ (status = "response_ready" => row.status = "response_ready")
    BY <1>5 DEF Claimable
  <2> HIDE DEF row, status
  <2>4. /\ Claimed(row).fence = row.fence + 1 /\ Claimed(row).delivery = row.delivery
        /\ Claimed(row).attempt = row.attempt /\ Claimed(row).status = status
    BY <2>1, <2>2 DEF RunRow
  <2>5. row.fence \in Nat
    BY <2>1, StoreAssumption DEF RunRow
  <2> QED
    BY <1>1, <1>5, <2>1, <2>3, <2>4, <2>5 DEF Present, row
<1> HIDE DEF w, swept
<1>7. /\ worker'[r][f] = w
      /\ \A s \in Run, g \in Token : s # r \/ g # f => worker'[s][g] = worker[s][g]
  BY <1>2 DEF DriverTypeOK
<1>8. ASSUME NEW s \in Run, s # r PROVE ShownFits(s)' /\ \A g \in Token : HandlerFits(s, g)'
  <2>1. Untouched(s)
    BY <1>2, <1>5, <1>8, SweptUntouched
  <2>2. \A g \in Token : Follows(worker[s][g], worker'[s][g])
    BY <1>7, <1>8, StaysPut
  <2> QED
    BY <2>1, <2>2, SameRun
<1>9. ShownFits(r)'
  <2>1. ShownFits(r) /\ slack'[r] = slack[r]
    BY <1>2 DEF ReplyFits
  <2> QED
    BY <1>6, <2>1 DEF ShownFits
<1>10. ASSUME NEW g \in Token, g # f PROVE HandlerFits(r, g)'
  <2>1. HandlerFits(r, g) /\ worker'[r][g] = worker[r][g] /\ slack'[r] = slack[r]
    BY <1>2, <1>7, <1>10 DEF ReplyFits
  <2>2. Awaits(r, g)' <=> Awaits(r, g)
    BY <1>6 DEF Awaits
  <2>3. g \in Nat
    BY DEF Token
  <2>4. worker[r][g].pc # "idle" => g <= runs[r].fence /\ g <= runs'[r].fence
    BY <1>1, <1>6, <2>1, <2>3 DEF HandlerFits
  <2> QED
    BY <1>1, <1>5, <1>6, <1>10, <2>1, <2>2, <2>4 DEF HandlerFits, Ledger
<1>11. HandlerFits(r, f)'
  <2>1. Ledger(r)' /\ f <= runs'[r].fence
    BY <1>1, <1>5 DEF Ledger, Token
  <2> QED
    BY <1>1, <1>3, <1>6, <1>7, <2>1 DEF HandlerFits, Executes, Executing
<1> QED
  BY <1>8, <1>9, <1>10, <1>11 DEF ReplyFits

LEMMA DrainFits ==
    ASSUME DriverInv, ReplyFits, Wake \/ Drain \/ Crash
    PROVE  ReplyFits'
<1>1. CASE Wake \/ EndDrain \/ (EndBatch /\ UNCHANGED vars)
  <2>1. UNCHANGED <<runs, slack, worker>>
    BY <1>1 DEF Wake, EndDrain, EndBatch, vars
  <2> QED
    BY <2>1, NothingTouched, NobodyMoves
<1>2. CASE EndBatch /\ ClaimNothing
  <2>1. runs' = [s \in Run |-> Reconciled(s)] /\ UNCHANGED <<slack, worker>>
    BY <1>2 DEF EndBatch, ClaimNothing
  <2>2. \A s \in Run : Untouched(s)
    BY <2>1, SweptUntouched
  <2> QED
    BY <2>1, <2>2, NobodyMoves
<1>3. CASE Crash
  <2>1. UNCHANGED <<runs, slack>> /\ worker' = [r \in Run |-> [f \in Token |-> NoWorker]]
    BY <1>3 DEF Crash, vars
  <2>2. \A s \in Run, g \in Token : Follows(worker[s][g], worker'[s][g])
    BY <2>1 DEF Follows, NoWorker
  <2> QED
    BY <2>1, <2>2, NothingTouched, SameRun DEF ReplyFits
<1> QED
  BY <1>1, <1>2, <1>3, DrainClaimFits DEF Drain, EndBatch

\* A run that is admitted has no handler and nothing to show.
LEMMA ReceiveFits ==
    ASSUME DriverInv, ReplyFits, NEW r \in Run, NEW stamp, Receive(r, stamp)
    PROVE  ReplyFits'
<1> DEFINE row == FreshRun("admitted", stamp)
<1>1. ~Present(r) /\ SetRun(r, row) /\ UNCHANGED <<worker, slack>>
  BY DEF Receive, Admit
<1>2. row.status = "admitted" /\ row.delivery = "not_ready"
  BY DEF FreshRun
<1> HIDE DEF row
<1>3. runs'[r] = row /\ \A s \in Run : s # r => runs'[s] = runs[s]
  BY <1>1, RowIs
<1>4. slack[r].replies = 0
  BY <1>1, RunFacts DEF Present, Unanswered
<1>5. ShownFits(r)'
  <2>1. slack'[r] = slack[r]
    BY <1>1
  <2> QED
    BY <1>2, <1>3, <1>4, <2>1 DEF ShownFits
<1>6. \A f \in Token : HandlerFits(r, f)'
  <2>1. \A f \in Token : worker[r][f].pc = "idle" /\ worker'[r][f] = worker[r][f]
    BY <1>1 DEF ReplyFits, HandlerFits
  <2> QED
    BY <2>1 DEF HandlerFits, Executes, Executing
<1>7. ASSUME NEW s \in Run, s # r PROVE ShownFits(s)' /\ \A f \in Token : HandlerFits(s, f)'
  <2>1. Untouched(s) /\ \A g \in Token : Follows(worker[s][g], worker'[s][g])
    BY <1>1, <1>3, <1>7, StaysPut DEF Untouched, Present
  <2> QED
    BY <2>1, SameRun
<1> QED
  BY <1>5, <1>6, <1>7 DEF ReplyFits

\* The lease of a run lapses: nothing a handler or the user would see.
LEMMA LapseTouchesNothing ==
    ASSUME DriverInv, ReplyFits, NEW r \in Run, LeaseLapses(r), UNCHANGED slack
    PROVE  Untouched(r) /\ Elsewhere(r)
<1> DEFINE row == [runs[r] EXCEPT !.lease = "lapsed"]
<1>1. SetRun(r, row)
  BY DEF LeaseLapses
<1>2. /\ row.fence = runs[r].fence /\ row.delivery = runs[r].delivery
      /\ row.attempt = runs[r].attempt /\ row.status = runs[r].status
  BY RunFacts DEF RunRow
<1> HIDE DEF row
<1>3. runs'[r] = row /\ \A s \in Run : s # r => runs'[s] = runs[s]
  BY <1>1, RowIs
<1> QED
  BY <1>2, <1>3 DEF Untouched, Elsewhere, Present

LEMMA RenewalFits ==
    ASSUME DriverInv, ReplyFits, NEW r \in Run, NEW f \in Token, RenewalFails(r, f)
    PROVE  ReplyFits'
<1>1. LeaseLapses(r) /\ UNCHANGED slack
  BY DEF RenewalFails
<1>2. PICK lost \in BOOLEAN : worker' = [worker EXCEPT ![r][f].lost = @ \/ lost]
  BY DEF RenewalFails
<1> DEFINE w == [worker[r][f] EXCEPT !.lost = @ \/ lost]
<1>3. worker' = [worker EXCEPT ![r][f] = w] /\ worker[r][f] \in Worker
  BY <1>2 DEF DriverInv, DriverTypeOK
<1>4. /\ w.pc = worker[r][f].pc /\ w.sent = worker[r][f].sent
      /\ w.phase = worker[r][f].phase
  BY <1>3 DEF Worker
<1> HIDE DEF w
<1>5. /\ worker'[r][f] = w
      /\ \A s \in Run, g \in Token : s # r \/ g # f => worker'[s][g] = worker[s][g]
  BY <1>3 DEF DriverInv, DriverTypeOK
<1>6. Untouched(r) /\ Elsewhere(r)
  BY <1>1, LapseTouchesNothing
<1>7. Moves1(r, f) /\ Follows(worker[r][f], worker'[r][f])
  BY <1>4, <1>5, <1>6 DEF Moves1, Elsewhere, Follows
<1> QED
  BY <1>6, <1>7, HandlerGoes

LEMMA OperatorFits ==
    ASSUME DriverInv, ReplyFits, NEW r \in Run,
           AbandonedLeaseLapses(r) \/ RetireStale(r) \/ Quarantine(r)
    PROVE  ReplyFits'
<1>1. UNCHANGED <<slack, worker>>
  BY DEF AbandonedLeaseLapses, RetireStale, Quarantine, driverVars
<1>2. CASE LeaseLapses(r)
  <2>1. Untouched(r) /\ Elsewhere(r)
    BY <1>1, <1>2, LapseTouchesNothing
  <2>2. \A s \in Run : Untouched(s)
    BY <1>1, <2>1 DEF Elsewhere, Untouched, Present
  <2> QED
    BY <1>1, <2>2, NobodyMoves
<1>3. ASSUME NEW row, SetRun(r, row), row.fence = runs[r].fence,
             row.delivery = runs[r].delivery, row.attempt = runs[r].attempt,
             row.status \in {"recovery_required", "settled"}
      PROVE  ReplyFits'
  <2>1. Untouched(r) /\ Elsewhere(r)
    BY <1>1, <1>3, StatusMoves
  <2>2. \A s \in Run : Untouched(s)
    BY <1>1, <2>1 DEF Elsewhere, Untouched, Present
  <2> QED
    BY <1>1, <2>2, NobodyMoves
<1>4. CASE RequireRecovery(r)
  <2> DEFINE row == [runs[r] EXCEPT !.status = "recovery_required", !.lease = "none"]
  <2>1. SetRun(r, row) /\ row.fence = runs[r].fence /\ row.delivery = runs[r].delivery
        /\ row.attempt = runs[r].attempt /\ row.status = "recovery_required"
    BY <1>4, RunFacts DEF RequireRecovery, RunRow
  <2> HIDE DEF row
  <2> QED
    BY <1>3, <2>1
<1>5. CASE QuarantineRun(r)
  <2> DEFINE row == [runs[r] EXCEPT
               !.status = "settled", !.disposition = "quarantined", !.lease = "none"]
  <2>1. SetRun(r, row) /\ row.fence = runs[r].fence /\ row.delivery = runs[r].delivery
        /\ row.attempt = runs[r].attempt /\ row.status = "settled"
    BY <1>5, RunFacts DEF QuarantineRun, RunRow
  <2> HIDE DEF row
  <2> QED
    BY <1>3, <2>1
<1> QED
  BY <1>2, <1>4, <1>5 DEF AbandonedLeaseLapses, RetireStale, Quarantine

LEMMA AgentFits ==
    ASSUME DriverInv, ReplyFits, NEW r \in Run, AgentStep(r) \/ AgentRestarts(r)
    PROVE  ReplyFits'
<1>1. UNCHANGED <<runs, slack, worker>>
  BY DEF AgentStep, AgentInvokes, AgentRefused, AgentNeverStarts, AgentSettles,
         AgentRestarts, MarkRunExecutionInvoked, vars
<1> QED
  BY <1>1, NothingTouched, NobodyMoves

LEMMA ReplyFitsNext == ASSUME DriverInv, ReplyFits, [DriverNext]_allVars PROVE ReplyFits'
<1>1. CASE UNCHANGED allVars
  <2>1. UNCHANGED <<runs, slack, worker>>
    BY <1>1 DEF allVars, vars, driverVars
  <2> QED
    BY <2>1, NothingTouched, NobodyMoves
<1>2. CASE Wake \/ Drain \/ Crash
  BY <1>2, DrainFits
<1>3. ASSUME NEW r \in Run, NEW f \in Token, Handle(r, f) \/ RenewalFails(r, f)
      PROVE  ReplyFits'
  BY <1>3, AttemptFits, ReplyActionFits, FailFits, ReplayFits, ReleaseFits, RenewalFits
     DEF Handle
<1>4. ASSUME NEW r \in Run,
             \/ \E stamp \in 0..MaxStamp : Receive(r, stamp)
             \/ AgentStep(r) \/ AgentRestarts(r)
             \/ AbandonedLeaseLapses(r) \/ RetireStale(r) \/ Quarantine(r)
      PROVE  ReplyFits'
  BY <1>4, ReceiveFits, AgentFits, OperatorFits
<1> QED
  BY <1>1, <1>2, <1>3, <1>4 DEF DriverNext

-----------------------------------------------------------------------------
(* The drain and its batch *)

\* The ledger write of a handler: it keeps the fence of the run, and only the
\* latest claim touches its lease.
Writes(r, f) ==
    /\ \A s \in Run : s # r => runs'[s] = runs[s]
    /\ runs'[r].fence = runs[r].fence
    /\ runs'[r].lease = runs[r].lease \/ runs[r].fence = f

LEMMA WritesNothing == ASSUME UNCHANGED runs, NEW r \in Run, NEW f PROVE Writes(r, f)
  BY DEF Writes

LEMMA WritesRow ==
    ASSUME DriverInv, NEW r \in Run, NEW f, NEW row, SetRun(r, row),
           row.fence = runs[r].fence, row.lease = runs[r].lease \/ runs[r].fence = f
    PROVE  Writes(r, f)
  BY RowIs DEF Writes

\* The operations of the store that handlers use.
LEMMA OperationWrites ==
    ASSUME DriverInv, NEW r \in Run, NEW f \in Token,
           \/ PrepareRunInput(r)
           \/ Ledger(r) /\ CreateRunExecution(r, f)
           \/ \E a \in Answer, w \in Rendering : RecordRunResponse(r, f, a, w)
           \/ \E w \in Rendering : ReplaceRendering(r, f, w)
           \/ \E m \in Method : StartRunDelivery(r, f, m)
           \/ \E a, d : FinalizeDelivered(r, f, a, d)
           \/ \E a : FinalizeUnknown(r, f, a) \/ FinalizeFailed(r, f, a)
           \/ \E d : SettleRunWithoutDelivery(r, f, d)
    PROVE  Writes(r, f)
<1>1. runs[r] \in RunRow
  BY DEF DriverInv, Inv, TypeOK
<1>2. CASE PrepareRunInput(r)
  BY <1>1, <1>2, WritesRow DEF PrepareRunInput, RunRow
<1>3. CASE Ledger(r) /\ CreateRunExecution(r, f)
  BY <1>1, <1>3, WritesRow DEF CreateRunExecution, CanCreateExecution, RunRow
<1>4. ASSUME NEW a, NEW w, RecordRunResponse(r, f, a, w) PROVE Writes(r, f)
  BY <1>1, <1>4, WritesRow DEF RecordRunResponse, RunRow
<1>5. ASSUME NEW w, ReplaceRendering(r, f, w) PROVE Writes(r, f)
  BY <1>1, <1>5, WritesRow DEF ReplaceRendering, RunRow
<1>6. ASSUME NEW m, StartRunDelivery(r, f, m) PROVE Writes(r, f)
  BY <1>1, <1>6, WritesRow DEF StartRunDelivery, RunRow
<1>7. ASSUME NEW a, NEW d, FinalizeDelivered(r, f, a, d) PROVE Writes(r, f)
  BY <1>1, <1>7, WritesRow DEF FinalizeDelivered, CanFinalize, RunRow
<1>8. ASSUME NEW a, FinalizeUnknown(r, f, a) PROVE Writes(r, f)
  BY <1>1, <1>8, WritesRow DEF FinalizeUnknown, CanFinalize, RunRow
<1>9. ASSUME NEW a, FinalizeFailed(r, f, a) PROVE Writes(r, f)
  BY <1>1, <1>9, WritesRow DEF FinalizeFailed, RunRow
<1>10. ASSUME NEW d, SettleRunWithoutDelivery(r, f, d) PROVE Writes(r, f)
  BY <1>1, <1>10, WritesRow DEF SettleRunWithoutDelivery, CanSettleWithoutDelivery, RunRow
<1> QED
  BY <1>2, <1>3, <1>4, <1>5, <1>6, <1>7, <1>8, <1>9, <1>10

LEMMA HandlerWrites ==
    ASSUME DriverInv, ReplyFits, NEW r \in Run, NEW f \in Token,
           Attempt(r, f) \/ Reply(r, f) \/ Fail(r, f) \/ Replay(r, f)
    PROVE  Writes(r, f)
<1>1. CASE UNCHANGED runs
  BY <1>1, WritesNothing
<1>2. CASE Attempt(r, f)
  <2>1. CASE Create(r, f)
    <3>1. Ledger(r)
      BY <2>1 DEF Create, At, ReplyFits, HandlerFits
    <3> QED
      BY <2>1, <3>1, OperationWrites DEF Create
  <2>2. CASE Prepare(r, f)
    BY <1>1, <2>2, OperationWrites DEF Prepare, vars
  <2> QED
    BY <1>1, <1>2, <2>1, <2>2
       DEF Attempt, PayloadMissing, InstallationUnavailable, InstallationEnded, BeginAttempt,
           AnswerModelRepair, RetireRepairedJob, Route, RecordRunExecutionRoute, Freeze, Stage,
           Dispatch, DispatchConflict, RecordReceipt, ObservationBreaks, Reattach, Notice, vars
<1>3. CASE Reply(r, f)
  <2>1. CASE Finalize(r, f)
    <3>1. \/ \E a, d : FinalizeDelivered(r, f, a, d)
          \/ \E a : FinalizeUnknown(r, f, a) \/ FinalizeFailed(r, f, a)
      BY <2>1 DEF Finalize
    <3> QED
      BY <3>1, OperationWrites
  <2>2. CASE EndWithoutReply(r, f)
    BY <2>2, OperationWrites DEF EndWithoutReply
  <2>3. CASE Respond(r, f)
    BY <2>3, OperationWrites DEF Respond
  <2>4. CASE StartDelivery(r, f)
    BY <2>4, OperationWrites DEF StartDelivery
  <2> QED
    BY <1>1, <1>3, <2>1, <2>2, <2>3, <2>4
       DEF Reply, RecordSettlement, SettleExecution, SettleFailure, SettleRunExecution,
           WithholdReply, AlreadyShown, Post, Acknowledge, Close, vars
<1>4. ASSUME RetryRejected(r, f) PROVE Writes(r, f)
  <2>1. UNCHANGED runs \/ SettleRunWithoutDelivery(r, f, "failed")
    BY <1>4 DEF RetryRejected, vars
  <2> QED
    BY <1>1, <2>1, OperationWrites
<1>5. CASE Fail(r, f)
  BY <1>1, <1>4, <1>5
     DEF Fail, WriteRefused, SettlementRefused, PostUnrecorded, TurnThrows, ClassifyDecided,
         ClassifyRejected, ClassifyUnsubmitted, ClassifyAmbiguous, vars
<1>6. CASE Replay(r, f)
  <2>1. CASE ReplayBooks(r, f)
    <3>1. \E a, d : FinalizeDelivered(r, f, a, d)
      BY <2>1 DEF ReplayBooks
    <3> QED
      BY <3>1, OperationWrites
  <2>2. CASE ReplayFallback(r, f)
    BY <2>2, OperationWrites DEF ReplayFallback
  <2>3. CASE ReplayStarts(r, f)
    BY <2>3, OperationWrites DEF ReplayStarts
  <2> QED
    BY <1>1, <1>4, <1>6, <2>1, <2>2, <2>3
       DEF Replay, ReplayUnresolved, ReplayWaits, ReplayRejected, ReplayRefused, vars
<1> QED
  BY <1>2, <1>3, <1>5, <1>6

\* A handler moves by itself, and not while its drain still claims.
Moving(r, f) == ~At(r, f, "idle") /\ ~(At(r, f, "claimed") /\ drain.phase = "claiming")

Moved(r, f) ==
    \/ UNCHANGED worker
    \/ \E pc : Goto(r, f, pc)
    \/ \E verdict : Return(r, f, verdict)
    \/ \E pc, sent : worker' = [worker EXCEPT ![r][f] = [@ EXCEPT !.pc = pc, !.sent = sent]]
    \/ \E pc, failed : worker' = [worker EXCEPT ![r][f] = [@ EXCEPT !.pc = pc, !.failed = failed]]

LEMMA HandlerMoves ==
    ASSUME NEW r \in Run, NEW f \in Token,
           Attempt(r, f) \/ Reply(r, f) \/ Fail(r, f) \/ Replay(r, f)
    PROVE  Moving(r, f) /\ Moved(r, f) /\ UNCHANGED drain
<1>1. CASE Attempt(r, f)
  BY <1>1
     DEF Attempt, PayloadMissing, InstallationUnavailable, InstallationEnded, BeginAttempt,
         AnswerModelRepair, RetireRepairedJob, Prepare, Create, Route, Freeze, Stage,
         Dispatch, DispatchConflict, RecordReceipt, ObservationBreaks, Reattach, Notice,
         Moving, Moved, At, Started
<1>2. CASE Reply(r, f)
  <2>1. CASE Post(r, f)
    BY <2>1 DEF Post, Moving, Moved, At
  <2>2. CASE SettleFailure(r, f)
    BY <2>2 DEF SettleFailure, Moving, Moved, At
  <2> QED
    BY <1>2, <2>1, <2>2
       DEF Reply, RecordSettlement, SettleExecution, WithholdReply, EndWithoutReply,
           AlreadyShown, Respond, StartDelivery, Acknowledge, Finalize, Close, Moving, Moved, At
<1>3. CASE Fail(r, f)
  <2>1. Moving(r, f)
    BY <1>3 DEF Fail, WriteRefused, Refuses, RefusesReceipt, SettlementRefused,
       PostUnrecorded, TurnThrows, ClassifyDecided, ClassifyRejected, ClassifyUnsubmitted, ClassifyAmbiguous, Moving, At
  <2> QED
    BY <1>3, <2>1 DEF Fail, WriteRefused, SettlementRefused, PostUnrecorded, TurnThrows,
       ClassifyDecided, ClassifyRejected, RetryRejected, ClassifyUnsubmitted, ClassifyAmbiguous, Moved
<1>4. CASE Replay(r, f)
  <2>1. Moving(r, f)
    BY <1>4 DEF Replay, ReplayBooks, ReplayUnresolved, ReplayFallback, ReplaceRendering,
       ReplayStarts, ReplayWaits, ReplayRejected, ReplayRefused, RefusesReceipt, Moving, At
  <2> QED
    BY <1>4, <2>1 DEF Replay, ReplayBooks, ReplayUnresolved, ReplayFallback, ReplayStarts,
       ReplayWaits, ReplayRejected, RetryRejected, ReplayRefused, Moved, driverVars
<1> QED
  BY <1>1, <1>2, <1>3, <1>4

\* What a step must spare for the drain to rely on its batch: no handler starts,
\* a run that has one keeps its fence, and a claim of the batch its lease.
SparesBatch ==
    \A s \in Run, g \in Token :
      /\ ~At(s, g, "idle")' => ~At(s, g, "idle") /\ runs'[s].fence = runs[s].fence
      /\ /\ drain.phase = "claiming" /\ At(s, g, "claimed")
         /\ runs[s].fence = g /\ runs[s].lease = "held"
         => At(s, g, "claimed")' /\ runs'[s].lease = "held"

LEMMA BatchStays ==
    ASSUME DriverTypeOK, BatchFits, SparesBatch,
           drain'.phase = drain.phase, drain'.batch = drain.batch
    PROVE  BatchFits'
<1>1. ASSUME NEW c \in drain.batch
      PROVE  /\ ~At(c[1], c[2], "idle")' => runs'[c[1]].fence = c[2]
             /\ drain.phase = "claiming" =>
                  At(c[1], c[2], "claimed")' /\ runs'[c[1]].lease = "held"
  <2>1. c[1] \in Run /\ c[2] \in Token
    BY DEF DriverTypeOK
  <2>2. /\ ~At(c[1], c[2], "idle") => runs[c[1]].fence = c[2]
        /\ drain.phase = "claiming" =>
             At(c[1], c[2], "claimed") /\ runs[c[1]].lease = "held"
    BY DEF BatchFits
  <2>3. drain.phase = "claiming" => ~At(c[1], c[2], "idle")
    BY <2>2 DEF At
  <2> QED
    BY <2>1, <2>2, <2>3 DEF SparesBatch
<1> QED
  BY <1>1 DEF BatchFits, At

LEMMA MovedIs ==
    ASSUME DriverTypeOK, NEW r \in Run, NEW f \in Token, Moved(r, f)
    PROVE  \A s \in Run, g \in Token : s # r \/ g # f => worker'[s][g] = worker[s][g]
<1>1. \A w : worker' = [worker EXCEPT ![r][f] = w] =>
        \A s \in Run, g \in Token : s # r \/ g # f => worker'[s][g] = worker[s][g]
  BY DEF DriverTypeOK
<1>2. UNCHANGED worker \/ \E w : worker' = [worker EXCEPT ![r][f] = w]
  BY DEF Moved, Goto, Return
<1> QED
  BY <1>1, <1>2

\* The step of one handler, whose drain does not count on its waiting.
LEMMA OneHandlerSpares ==
    ASSUME NEW r \in Run, NEW f \in Token, Writes(r, f), Moving(r, f),
           \A s \in Run, g \in Token : s # r \/ g # f => worker'[s][g] = worker[s][g]
    PROVE  SparesBatch
<1>1. ASSUME NEW s \in Run, NEW g \in Token
      PROVE  /\ ~At(s, g, "idle")' => ~At(s, g, "idle") /\ runs'[s].fence = runs[s].fence
             /\ /\ drain.phase = "claiming" /\ At(s, g, "claimed")
                /\ runs[s].fence = g /\ runs[s].lease = "held"
                => At(s, g, "claimed")' /\ runs'[s].lease = "held"
  <2>1. CASE s = r /\ g = f
    BY <2>1 DEF Writes, Moving
  <2>2. CASE s # r \/ g # f
    <3>1. worker'[s][g] = worker[s][g] /\ runs'[s].fence = runs[s].fence
      BY <2>2 DEF Writes
    <3>2. runs[s].fence = g => runs'[s].lease = runs[s].lease
      BY <2>2 DEF Writes
    <3> QED
      BY <3>1, <3>2 DEF At
  <2> QED
    BY <2>1, <2>2
<1> QED
  BY <1>1 DEF SparesBatch

LEMMA HandlerSpares ==
    ASSUME DriverInv, ReplyFits, NEW r \in Run, NEW f \in Token,
           Attempt(r, f) \/ Reply(r, f) \/ Fail(r, f) \/ Replay(r, f)
    PROVE  SparesBatch /\ UNCHANGED drain
<1>1. Writes(r, f) /\ Moving(r, f) /\ Moved(r, f) /\ UNCHANGED drain
  BY HandlerWrites, HandlerMoves
<1>2. \A s \in Run, g \in Token : s # r \/ g # f => worker'[s][g] = worker[s][g]
  BY <1>1, MovedIs DEF DriverInv
<1> QED
  BY <1>1, <1>2, OneHandlerSpares

LEMMA ReleaseBatch ==
    ASSUME DriverInv, BatchFits, NEW r \in Run, NEW f \in Token,
           ReleaseClaim(r, f) \/ ReleaseRefused(r, f)
    PROVE  BatchFits'
<1>1. CASE ReleaseRefused(r, f)
  <2>1. drain'.batch = {}
    BY <1>1 DEF ReleaseRefused, DriverInv, DriverTypeOK
  <2> QED
    BY <2>1 DEF BatchFits
<1>2. CASE ReleaseClaim(r, f)
  <2>1. worker' = [worker EXCEPT ![r][f] = NoWorker] /\ At(r, f, "release")
    BY <1>2 DEF ReleaseClaim, Finish, At
  <2>2. /\ worker'[r][f] = NoWorker
        /\ \A s \in Run, g \in Token : s # r \/ g # f => worker'[s][g] = worker[s][g]
    BY <2>1 DEF DriverInv, DriverTypeOK
  <2>3. drain'.phase = drain.phase /\ drain'.batch = drain.batch
    BY <1>2 DEF ReleaseClaim, Finish, DriverInv, DriverTypeOK
  <2>4. Writes(r, f)
    <3>1. runs[r] \in RunRow
      BY DEF DriverInv, Inv, TypeOK
    <3>2. CASE UNCHANGED runs
      BY <3>2, WritesNothing
    <3>3. CASE ReleaseRequeued(r, f)
      BY <3>1, <3>3, WritesRow DEF ReleaseRequeued, CanRelease, RunRow
    <3>4. CASE ReleaseToRecovery(r, f)
      BY <3>1, <3>4, WritesRow DEF ReleaseToRecovery, CanRelease, RunRow
    <3> QED
      BY <1>2, <3>2, <3>3, <3>4 DEF ReleaseClaim, vars
  <2>5. Moving(r, f)
    BY <2>1 DEF Moving, At
  <2>6. SparesBatch
    BY <2>2, <2>4, <2>5, OneHandlerSpares
  <2> QED
    BY <2>3, <2>6, BatchStays DEF DriverInv
<1> QED
  BY <1>1, <1>2

\* A run whose lease is held is neither swept nor claimed.
LEMMA DrainClaimBatch ==
    ASSUME DriverInv, BatchFits, NEW r \in Run, DrainClaim(r)
    PROVE  BatchFits'
<1>1. PICK f \in Token : f = runs'[r].fence
  BY ClaimToken DEF DrainClaim, DriverInv
<1> DEFINE w == [NoWorker EXCEPT !.pc = "claimed",
                   !.phase = IF runs'[r].status = "response_ready" THEN "delivery" ELSE "execute"]
           swept == [s \in Run |-> Reconciled(s)]
<1>2. /\ Claim(r) /\ DriverTypeOK /\ drain.phase = "claiming"
      /\ worker' = [worker EXCEPT ![r][f] = w]
      /\ drain' = [drain EXCEPT !.left = @ - 1, !.batch = @ \cup {<<r, f>>}]
  BY <1>1 DEF DrainClaim, DriverInv
<1>3. drain'.phase = "claiming" /\ drain'.batch = drain.batch \cup {<<r, f>>}
  BY <1>2 DEF DriverTypeOK
<1>4. w.pc = "claimed"
  BY DEF NoWorker
<1>5. r \in Eligible(swept) /\ runs' = [swept EXCEPT ![r] = Claimed(swept[r])]
  BY <1>2 DEF Claim
<1>6. /\ Reconciled(r).lease = "none" /\ runs'[r] = Claimed(Reconciled(r))
      /\ \A s \in Run : s # r => runs'[s] = Reconciled(s)
  BY <1>5 DEF Eligible
<1> HIDE DEF w, swept
<1>7. /\ worker'[r][f] = w
      /\ \A s \in Run, g \in Token : s # r \/ g # f => worker'[s][g] = worker[s][g]
  BY <1>2 DEF DriverTypeOK
<1>8. runs'[r].lease = "held"
  <2>1. Reconciled(r) \in RunRow
    BY SweptRow
  <2> QED
    BY <1>6, <2>1 DEF Claimed, RunRow
<1>9. ASSUME NEW c \in drain.batch
      PROVE  At(c[1], c[2], "claimed")' /\ runs'[c[1]].fence = c[2] /\ runs'[c[1]].lease = "held"
  <2>1. c[1] \in Run /\ c[2] \in Token
    BY <1>2 DEF DriverTypeOK
  <2>2. At(c[1], c[2], "claimed") /\ runs[c[1]].lease = "held" /\ runs[c[1]].fence = c[2]
    BY <1>2 DEF BatchFits, At
  <2>3. Reconciled(c[1]) = runs[c[1]]
    BY <2>2 DEF Reconciled
  <2>4. c[1] # r
    BY <1>6, <2>2, <2>3
  <2> QED
    BY <1>6, <1>7, <2>1, <2>2, <2>3, <2>4 DEF At
<1>10. At(r, f, "claimed")' /\ runs'[r].fence = f
  BY <1>1, <1>4, <1>7 DEF At
<1>11. ASSUME NEW c \in drain'.batch
       PROVE  At(c[1], c[2], "claimed")' /\ runs'[c[1]].fence = c[2] /\ runs'[c[1]].lease = "held"
  <2>1. CASE c = <<r, f>>
    BY <1>8, <1>10, <2>1
  <2> QED
    BY <1>3, <1>9, <1>11, <2>1
<1> QED
  BY <1>3, <1>11 DEF BatchFits

LEMMA DrainBatch ==
    ASSUME DriverInv, BatchFits, Wake \/ Drain \/ Crash
    PROVE  BatchFits'
<1>1. CASE Wake \/ EndDrain \/ Crash
  <2>1. CASE Wake
    BY <2>1 DEF Wake, BatchFits
  <2>2. CASE EndDrain \/ Crash
    <3>1. PICK phase : drain' = [drain EXCEPT !.phase = phase, !.batch = {}]
      BY <2>2 DEF EndDrain, Crash
    <3>2. drain'.batch = {}
      BY <3>1 DEF DriverInv, DriverTypeOK
    <3> QED
      BY <3>2 DEF BatchFits
  <2> QED
    BY <1>1, <2>1, <2>2
<1>2. CASE EndBatch
  <2>1. /\ drain'.batch = drain.batch /\ drain'.phase # "claiming"
        /\ drain'.phase = "idle" => drain.batch = {}
    BY <1>2 DEF EndBatch, DriverInv, DriverTypeOK
  <2>2. UNCHANGED worker /\ \A s \in Run : runs'[s].fence = runs[s].fence
    <3>1. CASE ClaimNothing
      <4>1. \A s \in Run : runs'[s] = Reconciled(s)
        BY <3>1 DEF ClaimNothing
      <4> QED
        BY <1>2, <4>1, SweptRow DEF EndBatch
    <3>2. CASE UNCHANGED vars
      BY <1>2, <3>2 DEF EndBatch, vars
    <3> QED
      BY <1>2, <3>1, <3>2 DEF EndBatch
  <2>3. \A c \in drain.batch : c[1] \in Run
    BY DEF DriverInv, DriverTypeOK
  <2> QED
    BY <2>1, <2>2, <2>3 DEF BatchFits, At
<1> QED
  BY <1>1, <1>2, DrainClaimBatch DEF Drain

\* A step of no handler leaves every other run alone, and this one its fence and
\* its lease, unless no handler has it.
Keeps(r) ==
    /\ \A s \in Run : s # r => runs'[s] = runs[s]
    /\ \/ Idle(r)
       \/ /\ runs'[r].fence = runs[r].fence
          /\ runs[r].lease = "held" => runs'[r].lease = "held"

LEMMA KeptSpares ==
    ASSUME NEW r \in Run, Keeps(r), UNCHANGED worker
    PROVE  SparesBatch
<1>1. ASSUME NEW s \in Run, NEW g \in Token
      PROVE  /\ ~At(s, g, "idle")' => ~At(s, g, "idle") /\ runs'[s].fence = runs[s].fence
             /\ /\ drain.phase = "claiming" /\ At(s, g, "claimed")
                /\ runs[s].fence = g /\ runs[s].lease = "held"
                => At(s, g, "claimed")' /\ runs'[s].lease = "held"
  BY DEF Keeps, At, Idle
<1> QED
  BY <1>1 DEF SparesBatch

LEMMA RowKeeps ==
    ASSUME DriverInv, NEW r \in Run, NEW row, SetRun(r, row),
           Idle(r) \/ (row.fence = runs[r].fence /\ runs[r].lease # "held")
    PROVE  Keeps(r)
  BY RowIs DEF Keeps

\* The other processes start no handler, keep the fence of a run that has one,
\* and let no lease lapse whose handler has not begun.
LEMMA RestSpares ==
    ASSUME DriverInv, ReplyFits, NEW r \in Run,
           \/ \E stamp \in 0..MaxStamp : Receive(r, stamp)
           \/ AgentStep(r) \/ AgentRestarts(r)
           \/ AbandonedLeaseLapses(r) \/ RetireStale(r) \/ Quarantine(r)
    PROVE  SparesBatch /\ UNCHANGED drain
<1>1. UNCHANGED <<worker, drain>>
  BY DEF Receive, AgentStep, AgentInvokes, AgentRefused, AgentNeverStarts, AgentSettles,
         AgentRestarts, AbandonedLeaseLapses, RetireStale, Quarantine, driverVars
<1>2. runs[r] \in RunRow /\ (runs[r].lease = "held" => runs[r].status \in Leasable)
  BY DEF DriverInv, Inv, TypeOK, LeaseOnlyWhileActive
<1>3. ASSUME UNCHANGED runs PROVE Keeps(r)
  BY <1>3 DEF Keeps
<1>4. ASSUME NEW stamp, Receive(r, stamp) PROVE Keeps(r)
  <2>1. ~Present(r) /\ SetRun(r, FreshRun("admitted", stamp))
    BY <1>4 DEF Receive, Admit
  <2>2. Idle(r)
    BY <2>1 DEF Idle, At, ReplyFits, HandlerFits
  <2> QED
    BY <2>1, <2>2, RowKeeps
<1>5. ASSUME AbandonedLeaseLapses(r) PROVE Keeps(r)
  <2>1. SetRun(r, [runs[r] EXCEPT !.lease = "lapsed"]) /\ Idle(r)
    BY <1>5 DEF AbandonedLeaseLapses, LeaseLapses
  <2> QED
    BY <2>1, RowKeeps
<1>6. ASSUME RetireStale(r) PROVE Keeps(r)
  <2> DEFINE row == [runs[r] EXCEPT !.status = "recovery_required", !.lease = "none"]
  <2>1. SetRun(r, row) /\ runs[r].lease # "held"
    BY <1>6 DEF RetireStale, RequireRecovery
  <2>2. row.fence = runs[r].fence
    BY <1>2 DEF RunRow
  <2> HIDE DEF row
  <2> QED
    BY <2>1, <2>2, RowKeeps
<1>7. ASSUME Quarantine(r) PROVE Keeps(r)
  <2> DEFINE row == [runs[r] EXCEPT
               !.status = "settled", !.disposition = "quarantined", !.lease = "none"]
  <2>1. SetRun(r, row) /\ runs[r].lease # "held"
    BY <1>2, <1>7 DEF Quarantine, QuarantineRun, Leasable
  <2>2. row.fence = runs[r].fence
    BY <1>2 DEF RunRow
  <2> HIDE DEF row
  <2> QED
    BY <2>1, <2>2, RowKeeps
<1>8. ASSUME AgentStep(r) \/ AgentRestarts(r) PROVE Keeps(r)
  <2>1. UNCHANGED runs
    BY <1>8 DEF AgentStep, AgentInvokes, AgentRefused, AgentNeverStarts, AgentSettles,
       AgentRestarts, MarkRunExecutionInvoked, vars
  <2> QED
    BY <1>3, <2>1
<1> QED
  BY <1>1, <1>4, <1>5, <1>6, <1>7, <1>8, KeptSpares

LEMMA RenewalSpares ==
    ASSUME DriverInv, NEW r \in Run, NEW f \in Token, RenewalFails(r, f)
    PROVE  SparesBatch /\ UNCHANGED drain
<1>1. /\ UNCHANGED drain /\ LeaseLapses(r) /\ runs[r].fence = f
      /\ ~At(r, f, "idle") /\ ~At(r, f, "claimed")
  BY DEF RenewalFails
<1>2. PICK lost \in BOOLEAN : worker' = [worker EXCEPT ![r][f].lost = @ \/ lost]
  BY DEF RenewalFails
<1>3. \A s \in Run, g \in Token : s # r \/ g # f => worker'[s][g] = worker[s][g]
  BY <1>2 DEF DriverInv, DriverTypeOK
<1>4. Writes(r, f)
  <2>1. runs[r] \in RunRow
    BY DEF DriverInv, Inv, TypeOK
  <2> QED
    BY <1>1, <2>1, WritesRow DEF LeaseLapses, RunRow
<1>5. Moving(r, f)
  BY <1>1 DEF Moving
<1> QED
  BY <1>1, <1>3, <1>4, <1>5, OneHandlerSpares

LEMMA BatchFitsNext ==
    ASSUME DriverInv, ReplyFits, BatchFits, [DriverNext]_allVars
    PROVE  BatchFits'
<1>1. DriverTypeOK
  BY DEF DriverInv
<1>2. CASE UNCHANGED allVars
  BY <1>2 DEF allVars, vars, driverVars, BatchFits, At
<1>3. CASE Wake \/ Drain \/ Crash
  BY <1>3, DrainBatch
<1>4. ASSUME NEW r \in Run, NEW f \in Token, Handle(r, f) PROVE BatchFits'
  <2>1. CASE ReleaseClaim(r, f) \/ ReleaseRefused(r, f)
    BY <2>1, ReleaseBatch
  <2>2. CASE Attempt(r, f) \/ Reply(r, f) \/ Fail(r, f) \/ Replay(r, f)
    BY <1>1, <2>2, HandlerSpares, BatchStays
  <2> QED
    BY <1>4, <2>1, <2>2 DEF Handle
<1>5. ASSUME NEW r \in Run, NEW f \in Token, RenewalFails(r, f) PROVE BatchFits'
  BY <1>1, <1>5, RenewalSpares, BatchStays
<1>6. ASSUME NEW r \in Run,
             \/ \E stamp \in 0..MaxStamp : Receive(r, stamp)
             \/ AgentStep(r) \/ AgentRestarts(r)
             \/ AbandonedLeaseLapses(r) \/ RetireStale(r) \/ Quarantine(r)
      PROVE  BatchFits'
  BY <1>1, <1>6, RestSpares, BatchStays
<1> QED
  BY <1>2, <1>3, <1>4, <1>5, <1>6 DEF DriverNext

-----------------------------------------------------------------------------
(* What goes unrecorded *)

\* Between the route and the settlement of an execution.
Submitting == {"freeze", "stage", "dispatch", "receipt", "observe", "settle"}

Live(r, f) == execs[r][f].inv \in {"ready", "invoked"} /\ execs[r][f].outcome = "pending"

\* The handler of the latest claim can settle what it submitted.
SubmissionFits(r, f) ==
    /\ worker[r][f].pc \in Submitting /\ runs[r].fence = f => Live(r, f)
    /\ At(r, f, "unrecorded") => f < runs[r].fence

RecordFits == \A r \in Run, f \in Token : SubmissionFits(r, f)

\* Most operations of the store write the row of the run alone.
LEMMA ExecutionsKept ==
    /\ \A r, f, a, w : RecordRunResponse(r, f, a, w) => UNCHANGED execs
    /\ \A r, f, w : ReplaceRendering(r, f, w) => UNCHANGED execs
    /\ \A r, f, m : StartRunDelivery(r, f, m) => UNCHANGED execs
    /\ \A r, f, a, d : FinalizeDelivered(r, f, a, d) => UNCHANGED execs
    /\ \A r, f, a : FinalizeUnknown(r, f, a) \/ FinalizeFailed(r, f, a) => UNCHANGED execs
    /\ \A r, f, d : SettleRunWithoutDelivery(r, f, d) => UNCHANGED execs
<1>1. \A r, f, a, w : RecordRunResponse(r, f, a, w) => UNCHANGED execs
  BY DEF RecordRunResponse
<1>2. \A r, f, w : ReplaceRendering(r, f, w) => UNCHANGED execs
  BY DEF ReplaceRendering
<1>3. \A r, f, m : StartRunDelivery(r, f, m) => UNCHANGED execs
  BY DEF StartRunDelivery
<1>4. \A r, f, a, d : FinalizeDelivered(r, f, a, d) => UNCHANGED execs
  BY DEF FinalizeDelivered
<1>5. \A r, f, a : FinalizeUnknown(r, f, a) \/ FinalizeFailed(r, f, a) => UNCHANGED execs
  BY DEF FinalizeUnknown, FinalizeFailed
<1>6. \A r, f, d : SettleRunWithoutDelivery(r, f, d) => UNCHANGED execs
  BY DEF SettleRunWithoutDelivery
<1> QED
  BY <1>1, <1>2, <1>3, <1>4, <1>5, <1>6

\* Only its own handler settles a live execution of a run.
LEMMA StaysLive ==
    ASSUME DriverInv, DriverNext, NEW r \in Run, NEW f \in Token, Live(r, f),
           ~SettleExecution(r, f), ~SettleFailure(r, f)
    PROVE  Live(r, f)'
<1>1. CASE UNCHANGED execs
  BY <1>1 DEF Live
<1>2. execs \in [Run -> [Token -> ExecutionRow]]
  BY DEF DriverInv, Inv, TypeOK
<1>3. ASSUME NEW s \in Run, NEW g \in Token, NEW inv, NEW outcome,
             SetExecution(s, g, inv, outcome),
             s = r /\ g = f => inv \in {"ready", "invoked"} /\ outcome = "pending"
      PROVE  Live(r, f)'
  BY <1>2, <1>3 DEF SetExecution, Live
<1>4. ASSUME NEW s \in Run, NEW g \in Token, Create(s, g) \/ Route(s, g)
      PROVE  Live(r, f)'
  <2>1. CASE Create(s, g)
    <3>1. SetExecution(s, g, "not_invoked", "pending") /\ execs[s][g].inv = "absent"
      BY <2>1 DEF Create, CreateRunExecution, CanCreateExecution
    <3> QED
      BY <1>3, <3>1 DEF Live
  <2>2. CASE Route(s, g)
    <3>1. SetExecution(s, g, "ready", "pending")
      BY <2>2 DEF Route, RecordRunExecutionRoute
    <3> QED
      BY <1>3, <3>1
  <2> QED
    BY <1>4, <2>1, <2>2
<1>5. ASSUME NEW s \in Run, NEW g \in Token, SettleExecution(s, g) \/ SettleFailure(s, g)
      PROVE  Live(r, f)'
  <2>1. ~(s = r /\ g = f)
    BY <1>5
  <2>2. \E inv, outcome : SetExecution(s, g, inv, outcome)
    BY <1>5 DEF SettleExecution, SettleFailure, SettleRunExecution
  <2> QED
    BY <1>3, <2>1, <2>2
<1>6. ASSUME NEW s \in Run, AgentInvokes(s) PROVE Live(r, f)'
  <2>1. CASE MarkRunExecutionInvoked(s, Correlation(s))
    <3> DEFINE g == Correlation(s)
    <3>1. SetExecution(s, g, "invoked", execs[s][g].outcome)
      BY <2>1 DEF MarkRunExecutionInvoked
    <3>2. s = r /\ g = f => execs[s][g].outcome = "pending"
      BY DEF Live
    <3> HIDE DEF g
    <3> QED
      BY <1>2, <3>1, <3>2 DEF SetExecution, Live
  <2> QED
    BY <1>1, <1>6, <2>1 DEF AgentInvokes, vars
<1>7. ASSUME NEW s \in Run, NEW g \in Token, Handle(s, g) PROVE Live(r, f)'
  <2>1. CASE Attempt(s, g)
    BY <1>1, <1>4, <2>1
       DEF Attempt, PayloadMissing, InstallationUnavailable, InstallationEnded, BeginAttempt,
           AnswerModelRepair, RetireRepairedJob, Prepare, PrepareRunInput, Freeze, Stage,
           Dispatch, DispatchConflict, RecordReceipt, ObservationBreaks, Reattach, Notice, vars
  <2>2. CASE Reply(s, g)
    <3>1. CASE Finalize(s, g)
      BY <1>1, <3>1, ExecutionsKept DEF Finalize
    <3>2. CASE EndWithoutReply(s, g) \/ Respond(s, g) \/ StartDelivery(s, g)
      BY <1>1, <3>2, ExecutionsKept DEF EndWithoutReply, Respond, StartDelivery
    <3> QED
      BY <1>1, <1>5, <2>2, <3>1, <3>2
         DEF Reply, RecordSettlement, WithholdReply, AlreadyShown, Post, Acknowledge, Close, vars
  <2>3. CASE Fail(s, g)
    BY <1>1, <2>3, ExecutionsKept
       DEF Fail, WriteRefused, SettlementRefused, PostUnrecorded, TurnThrows, ClassifyDecided,
           ClassifyRejected, RetryRejected, ClassifyUnsubmitted, ClassifyAmbiguous, vars
  <2>4. CASE Replay(s, g)
    BY <1>1, <2>4, ExecutionsKept
       DEF Replay, ReplayBooks, ReplayUnresolved, ReplayFallback, ReplayStarts, ReplayWaits,
           ReplayRejected, RetryRejected, ReplayRefused, vars
  <2>5. CASE ReleaseClaim(s, g) \/ ReleaseRefused(s, g)
    <3>1. UNCHANGED vars \/ ReleaseRequeued(s, g) \/ ReleaseToRecovery(s, g)
      BY <2>5 DEF ReleaseClaim, ReleaseRefused
    <3>2. UNCHANGED execs
      <4>1. UNCHANGED vars => UNCHANGED execs
        BY DEF vars
      <4>2. ReleaseRequeued(s, g) \/ ReleaseToRecovery(s, g) => UNCHANGED execs
        BY DEF ReleaseRequeued, ReleaseToRecovery
      <4> QED
        BY <3>1, <4>1, <4>2
    <3> QED
      BY <1>1, <3>2
  <2> QED
    BY <1>7, <2>1, <2>2, <2>3, <2>4, <2>5 DEF Handle
<1>8. CASE Wake \/ Drain \/ Crash
  <2>1. UNCHANGED vars \/ ClaimNothing \/ \E t \in Run : Claim(t)
    BY <1>8 DEF Wake, Drain, DrainClaim, EndBatch, EndDrain, Crash
  <2>2. UNCHANGED vars => UNCHANGED execs
    BY DEF vars
  <2>3. ClaimNothing \/ (\E t \in Run : Claim(t)) => UNCHANGED execs
    BY DEF ClaimNothing, Claim
  <2>4. UNCHANGED execs
    BY <2>1, <2>2, <2>3
  <2> QED
    BY <1>1, <2>4
<1>9. ASSUME NEW s \in Run,
             \/ \E stamp \in 0..MaxStamp : Receive(s, stamp)
             \/ AgentStep(s) \/ AgentRestarts(s)
             \/ AbandonedLeaseLapses(s) \/ RetireStale(s) \/ Quarantine(s)
             \/ \E g \in Token : RenewalFails(s, g)
      PROVE  Live(r, f)'
  BY <1>1, <1>6, <1>9
     DEF Receive, Admit, AgentStep, AgentRefused, AgentNeverStarts, AgentSettles, AgentRestarts,
         AbandonedLeaseLapses, RetireStale, RequireRecovery, Quarantine, QuarantineRun,
         RenewalFails, LeaseLapses, vars
<1> QED
  BY <1>7, <1>8, <1>9 DEF DriverNext

\* A handler comes to submit by the route only, and goes unrecorded only when its
\* settlement is refused.
Comes(r, f) ==
    /\ worker'[r][f].pc \in Submitting => worker[r][f].pc \in Submitting \/ Route(r, f)
    /\ At(r, f, "unrecorded")' => At(r, f, "unrecorded") \/ SettlementRefused(r, f)

\* Where nothing is asked of its execution.
Calm == Control \ (Submitting \cup {"unrecorded"})

LEMMA AttemptComes ==
    ASSUME DriverInv, NEW r \in Run, NEW f \in Token, Attempt(r, f) PROVE Comes(r, f)
<1>1. DriverTypeOK
  BY DEF DriverInv
<1>2. ASSUME NEW pc \in Calm, Goto(r, f, pc) PROVE Comes(r, f)
  BY <1>1, <1>2, Went DEF Comes, Calm, At
<1>3. ASSUME NEW verdict \in Verdict, Return(r, f, verdict) PROVE Comes(r, f)
  BY <1>1, <1>3, Returned DEF Comes, Submitting, At
<1>4. ASSUME NEW pc \in Submitting, Goto(r, f, pc), worker[r][f].pc \in Submitting
      PROVE  Comes(r, f)
  BY <1>1, <1>4, Went DEF Comes, Submitting, Control, At
<1>5. {"prepare", "replay", "repaired", "create", "route", "classify", "interrupted", "notice"}
        \subseteq Calm
  BY DEF Calm, Control, Submitting
<1>6. CASE PayloadMissing(r, f) \/ InstallationUnavailable(r, f) \/ InstallationEnded(r, f)
           \/ Notice(r, f)
  BY <1>3, <1>6 DEF PayloadMissing, InstallationUnavailable, InstallationEnded, Notice, Verdict
<1>7. CASE BeginAttempt(r, f) \/ AnswerModelRepair(r, f) \/ RetireRepairedJob(r, f)
  BY <1>2, <1>5, <1>7 DEF BeginAttempt, AnswerModelRepair, RetireRepairedJob
<1>8. CASE Prepare(r, f) \/ Create(r, f) \/ DispatchConflict(r, f) \/ ObservationBreaks(r, f)
  BY <1>2, <1>5, <1>8 DEF Prepare, Create, DispatchConflict, ObservationBreaks
<1>9. CASE Route(r, f)
  <2>1. job[r].settlement \in {"none", "completed", "failed"}
    BY <1>1 DEF DriverTypeOK, Job
  <2>2. PICK pc \in {"freeze", "settle", "failing"} : Goto(r, f, pc)
    BY <1>9, <2>1 DEF Route
  <2>3. worker'[r][f].pc = pc
    BY <1>1, <2>2, Went DEF Control
  <2> QED
    BY <1>9, <2>3 DEF Comes, At
<1>10. CASE Freeze(r, f) \/ Stage(r, f) \/ RecordReceipt(r, f)
  BY <1>4, <1>10 DEF Freeze, Stage, RecordReceipt, Submitting, At
<1>11. CASE Dispatch(r, f)
  BY <1>2, <1>4, <1>5, <1>11 DEF Dispatch, Submitting, At
<1>12. CASE Reattach(r, f)
  BY <1>2, <1>3, <1>5, <1>12 DEF Reattach, Verdict
<1> QED
  BY <1>6, <1>7, <1>8, <1>9, <1>10, <1>11, <1>12 DEF Attempt

LEMMA ReplyComes ==
    ASSUME DriverInv, NEW r \in Run, NEW f \in Token, Reply(r, f)
    PROVE  /\ Comes(r, f)
           /\ SettleExecution(r, f) \/ SettleFailure(r, f) => worker'[r][f].pc \notin Submitting
<1>1. DriverTypeOK /\ worker[r][f] \in Worker
  BY DEF DriverInv, DriverTypeOK
<1> DEFINE Calms == worker'[r][f].pc \in Calm
<1>2. ASSUME NEW pc \in Calm, Goto(r, f, pc) PROVE Calms
  BY <1>1, <1>2, Went DEF Calm
<1>3. ASSUME NEW w, worker' = [worker EXCEPT ![r][f] = w], w.pc \in Calm PROVE Calms
  BY <1>1, <1>3 DEF DriverTypeOK
<1>4. {"failing", "respond", "start", "post", "ack", "finalize", "rejected", "classify", "close",
       "release"} \subseteq Calm
  BY DEF Calm, Control, Submitting
<1> HIDE DEF Calms
<1>5. CASE SettleExecution(r, f)
  <2>1. Calms
    BY <1>2, <1>4, <1>5 DEF SettleExecution
  <2> QED
    BY <2>1 DEF Calms, Calm, Comes, At
<1>6. CASE SettleFailure(r, f)
  <2> DEFINE w == [worker[r][f] EXCEPT !.pc = "respond", !.failed = TRUE]
  <2>1. worker' = [worker EXCEPT ![r][f] = w]
    BY <1>6 DEF SettleFailure
  <2>2. w.pc \in Calm
    BY <1>1, <1>4 DEF Worker
  <2> HIDE DEF w
  <2>3. Calms
    BY <1>3, <2>1, <2>2
  <2> QED
    BY <2>3 DEF Calms, Calm, Comes, At
<1>7. CASE RecordSettlement(r, f)
  <2>1. PICK pc \in {"settle", "failing"} : Goto(r, f, pc)
    BY <1>7 DEF RecordSettlement
  <2>2. worker'[r][f].pc = pc /\ worker[r][f].pc \in Submitting
    BY <1>1, <1>7, <2>1, Went DEF RecordSettlement, Submitting, Control, At
  <2> QED
    BY <1>1, <1>7, <2>2 DEF Comes, RecordSettlement, SettleExecution, SettleFailure, Submitting, At
<1>8. CASE ~ (SettleExecution(r, f) \/ SettleFailure(r, f) \/ RecordSettlement(r, f))
  <2>1. CASE WithholdReply(r, f) \/ EndWithoutReply(r, f) \/ AlreadyShown(r, f) \/ Respond(r, f)
             \/ StartDelivery(r, f) \/ Acknowledge(r, f)
    <3>1. Calms
      BY <1>2, <1>4, <2>1 DEF WithholdReply, EndWithoutReply, AlreadyShown, Respond,
         StartDelivery, Acknowledge
    <3> QED
      BY <1>8, <3>1 DEF Calms, Calm, Comes, At
  <2>2. CASE Post(r, f)
    <3>1. PICK sent : worker' = [worker EXCEPT ![r][f] = [worker[r][f] EXCEPT
            !.pc = IF sent = "ok" THEN "ack" ELSE "finalize", !.sent = sent]]
      BY <2>2 DEF Post
    <3> DEFINE w == [worker[r][f] EXCEPT
                       !.pc = IF sent = "ok" THEN "ack" ELSE "finalize", !.sent = sent]
    <3>2. w.pc \in Calm
      BY <1>1, <1>4 DEF Worker
    <3>3. worker' = [worker EXCEPT ![r][f] = w]
      BY <3>1
    <3> HIDE DEF w
    <3>4. Calms
      BY <1>3, <3>2, <3>3
    <3> QED
      BY <1>8, <3>4 DEF Calms, Calm, Comes, At
  <2>3. CASE Finalize(r, f)
    <3>1. \E pc \in {"close", "classify", "rejected"} : Goto(r, f, pc)
      BY <2>3 DEF Finalize
    <3>2. Calms
      BY <1>2, <1>4, <3>1
    <3> QED
      BY <1>8, <3>2 DEF Calms, Calm, Comes, At
  <2>4. CASE Close(r, f)
    <3>1. Calms
      BY <1>1, <1>4, <2>4, Returned DEF Close, Verdict, Calms
    <3> QED
      BY <1>8, <3>1 DEF Calms, Calm, Comes, At
  <2> QED
    BY <1>8, <2>1, <2>2, <2>3, <2>4 DEF Reply
<1> QED
  BY <1>5, <1>6, <1>7, <1>8

LEMMA FailComes ==
    ASSUME DriverInv, NEW r \in Run, NEW f \in Token, Fail(r, f) PROVE Comes(r, f)
<1>1. DriverTypeOK
  BY DEF DriverInv
<1>2. ASSUME NEW pc \in Calm, Goto(r, f, pc) PROVE Comes(r, f)
  BY <1>1, <1>2, Went DEF Comes, Calm, At
<1>3. ASSUME NEW verdict \in Verdict, Return(r, f, verdict) PROVE Comes(r, f)
  BY <1>1, <1>3, Returned DEF Comes, Submitting, At
<1>4. {"classify", "failing"} \subseteq Calm
  BY DEF Calm, Control, Submitting
<1>5. CASE SettlementRefused(r, f)
  <2>1. worker'[r][f].pc = "unrecorded"
    BY <1>1, <1>5, Went DEF SettlementRefused, Control
  <2> QED
    BY <1>5, <2>1 DEF Comes, Submitting
<1>6. CASE WriteRefused(r, f) \/ PostUnrecorded(r, f) \/ TurnThrows(r, f)
  BY <1>2, <1>4, <1>6 DEF WriteRefused, PostUnrecorded, TurnThrows
<1>7. CASE ClassifyDecided(r, f) \/ ClassifyRejected(r, f) \/ ClassifyUnsubmitted(r, f)
           \/ ClassifyAmbiguous(r, f)
  BY <1>3, <1>7 DEF ClassifyDecided, ClassifyRejected, RetryRejected, ClassifyUnsubmitted,
     ClassifyAmbiguous, Verdict
<1> QED
  BY <1>5, <1>6, <1>7 DEF Fail

LEMMA ReplayComes ==
    ASSUME DriverInv, NEW r \in Run, NEW f \in Token, Replay(r, f) PROVE Comes(r, f)
<1>1. DriverTypeOK
  BY DEF DriverInv
<1>2. ASSUME NEW pc \in Calm, Goto(r, f, pc) PROVE Comes(r, f)
  BY <1>1, <1>2, Went DEF Comes, Calm, At
<1>3. ASSUME NEW verdict \in Verdict, Return(r, f, verdict) PROVE Comes(r, f)
  BY <1>1, <1>3, Returned DEF Comes, Submitting, At
<1>4. {"close", "post"} \subseteq Calm
  BY DEF Calm, Control, Submitting
<1>5. CASE ReplayBooks(r, f) \/ ReplayStarts(r, f)
  BY <1>2, <1>4, <1>5 DEF ReplayBooks, ReplayStarts
<1>6. CASE ReplayFallback(r, f)
  BY <1>6 DEF ReplayFallback, driverVars, Comes, At
<1>7. CASE ReplayUnresolved(r, f) \/ ReplayWaits(r, f) \/ ReplayRejected(r, f)
           \/ ReplayRefused(r, f)
  BY <1>3, <1>7 DEF ReplayUnresolved, ReplayWaits, ReplayRejected, RetryRejected, ReplayRefused,
     Verdict
<1> QED
  BY <1>5, <1>6, <1>7 DEF Replay

\* No other step brings a handler there.
LEMMA EveryStepComes ==
    ASSUME DriverInv, DriverNext, NEW s \in Run, NEW g \in Token PROVE Comes(s, g)
<1>1. DriverTypeOK
  BY DEF DriverInv
<1>2. ASSUME worker'[s][g].pc \in {worker[s][g].pc, "idle", "claimed"} PROVE Comes(s, g)
  BY <1>2 DEF Comes, Submitting, At
<1>3. ASSUME NEW r \in Run, NEW f \in Token,
             Attempt(r, f) \/ Reply(r, f) \/ Fail(r, f) \/ Replay(r, f)
      PROVE  Comes(s, g)
  <2>1. CASE s = r /\ g = f
    BY <1>3, <2>1, AttemptComes, ReplyComes, FailComes, ReplayComes
  <2>2. CASE s # r \/ g # f
    BY <1>1, <1>2, <1>3, <2>2, HandlerMoves, MovedIs
  <2> QED
    BY <2>1, <2>2
<1>4. ASSUME NEW r \in Run, NEW f \in Token, ReleaseClaim(r, f) \/ ReleaseRefused(r, f)
      PROVE  Comes(s, g)
  <2>1. worker' = [worker EXCEPT ![r][f] = NoWorker]
    BY <1>4 DEF ReleaseClaim, ReleaseRefused, Finish
  <2>2. worker'[s][g] \in {worker[s][g], NoWorker}
    BY <1>1, <2>1 DEF DriverTypeOK
  <2> QED
    BY <1>2, <2>2 DEF NoWorker
<1>5. ASSUME NEW r \in Run, NEW f \in Token, RenewalFails(r, f) PROVE Comes(s, g)
  <2>1. PICK lost \in BOOLEAN : worker' = [worker EXCEPT ![r][f].lost = @ \/ lost]
    BY <1>5 DEF RenewalFails
  <2>2. worker'[s][g].pc = worker[s][g].pc
    BY <1>1, <2>1 DEF DriverTypeOK, Worker
  <2> QED
    BY <1>2, <2>2
<1>6. ASSUME NEW r \in Run, DrainClaim(r) PROVE Comes(s, g)
  <2> DEFINE w == [NoWorker EXCEPT !.pc = "claimed",
                     !.phase = IF runs'[r].status = "response_ready" THEN "delivery" ELSE "execute"]
  <2>1. PICK f \in Token : f = runs'[r].fence
    BY <1>6, ClaimToken DEF DrainClaim, DriverInv
  <2>2. worker' = [worker EXCEPT ![r][f] = w] /\ w.pc = "claimed"
    BY <1>6, <2>1 DEF DrainClaim, NoWorker
  <2> HIDE DEF w
  <2>3. worker'[s][g] \in {worker[s][g], w}
    BY <1>1, <2>2 DEF DriverTypeOK
  <2> QED
    BY <1>2, <2>2, <2>3
<1>7. CASE Crash
  BY <1>2, <1>7 DEF Crash, NoWorker
<1>8. CASE UNCHANGED worker
  BY <1>2, <1>8
<1>9. CASE Wake \/ EndBatch \/ EndDrain
  BY <1>8, <1>9 DEF Wake, EndBatch, EndDrain
<1>10. ASSUME NEW r \in Run,
              \/ \E stamp \in 0..MaxStamp : Receive(r, stamp)
              \/ AgentStep(r) \/ AgentRestarts(r)
              \/ AbandonedLeaseLapses(r) \/ RetireStale(r) \/ Quarantine(r)
       PROVE  UNCHANGED worker
  BY <1>10 DEF Receive, AgentStep, AgentInvokes, AgentRefused, AgentNeverStarts, AgentSettles,
     AgentRestarts, AbandonedLeaseLapses, RetireStale, Quarantine, driverVars
<1> QED
  BY <1>3, <1>4, <1>5, <1>6, <1>7, <1>8, <1>9, <1>10 DEF DriverNext, Drain, Handle

\* The fence of a run that has a handler never falls.
LEMMA FenceGrows ==
    ASSUME DriverInv, ReplyFits, DriverNext, NEW r \in Run, NEW f \in Token, ~At(r, f, "idle")
    PROVE  f \in Nat /\ runs[r].fence \in Nat /\ f <= runs[r].fence
           /\ runs'[r].fence \in Nat /\ runs[r].fence <= runs'[r].fence
<1>1. Ledger(r) /\ Present(r) /\ f <= runs[r].fence
  BY DEF ReplyFits, HandlerFits, At
<1>2. Inv /\ Inv'
  BY DriverNextInv DEF DriverInv
<1>3. f \in Nat /\ runs[r].fence \in Nat /\ runs'[r].fence \in Nat
  BY <1>2, StoreAssumption DEF Inv, TypeOK, RunRow, Token
<1>4. runs'[r].fence = runs[r].fence \/ Claim(r)
  <2>1. [Next]_vars
    BY DriverIsAStep
  <2>2. CASE UNCHANGED vars
    BY <2>2 DEF vars
  <2>3. CASE Next
    BY <1>1, <1>2, <2>3, RowMoves DEF Moves, Kept, Admit
  <2> QED
    BY <2>1, <2>2, <2>3
<1>5. ASSUME Claim(r) PROVE runs[r].fence <= runs'[r].fence
  <2> DEFINE row == Reconciled(r)
             status == IF row.status \in {"admitted", "queued"} THEN "preparing_input" ELSE row.status
  <2>1. row \in RunRow /\ row.fence = runs[r].fence
    BY SweptRow
  <2>2. runs'[r] = Claimed(row)
    BY <1>5 DEF Claim
  <2>3. Claimed(row) = [row EXCEPT !.status = status, !.lease = "held", !.fence = row.fence + 1]
    BY DEF Claimed
  <2> HIDE DEF row, status
  <2>4. Claimed(row).fence = row.fence + 1
    BY <2>1, <2>3 DEF RunRow
  <2> QED
    BY <1>3, <2>1, <2>2, <2>4
<1> QED
  BY <1>1, <1>3, <1>4, <1>5

LEMMA RecordFitsNext ==
    ASSUME DriverInv, ReplyFits, RecordFits, [DriverNext]_allVars PROVE RecordFits'
<1>1. CASE UNCHANGED allVars
  BY <1>1 DEF allVars, vars, driverVars, RecordFits, SubmissionFits, Live, At
<1>2. ASSUME DriverNext, NEW r \in Run, NEW f \in Token PROVE SubmissionFits(r, f)'
  <2>1. SubmissionFits(r, f) /\ Comes(r, f)
    BY <1>2, EveryStepComes DEF RecordFits
  <2>2. ASSUME worker'[r][f].pc \in Submitting, runs'[r].fence = f PROVE Live(r, f)'
    <3>1. CASE Route(r, f)
      <4>1. SetExecution(r, f, "ready", "pending") /\ execs \in [Run -> [Token -> ExecutionRow]]
        BY <3>1 DEF Route, RecordRunExecutionRoute, DriverInv, Inv, TypeOK
      <4> QED
        BY <4>1 DEF SetExecution, Live
    <3>2. CASE worker[r][f].pc \in Submitting
      <4>1. ~At(r, f, "idle")
        BY <3>2 DEF Submitting, At
      <4>2. runs[r].fence = f
        BY <1>2, <2>2, <4>1, FenceGrows
      <4>3. Live(r, f)
        BY <2>1, <3>2, <4>2 DEF SubmissionFits
      <4>4. ~SettleExecution(r, f) /\ ~SettleFailure(r, f)
        BY <2>2, ReplyComes DEF Reply
      <4> QED
        BY <1>2, <4>3, <4>4, StaysLive
    <3> QED
      BY <2>1, <2>2, <3>1, <3>2 DEF Comes
  <2>3. ASSUME At(r, f, "unrecorded")' PROVE f < runs'[r].fence
    <3>1. CASE At(r, f, "unrecorded")
      <4>1. ~At(r, f, "idle") /\ f < runs[r].fence
        BY <2>1, <3>1 DEF SubmissionFits, At
      <4> QED
        BY <1>2, <4>1, FenceGrows
    <3>2. CASE SettlementRefused(r, f)
      <4>1. /\ ~At(r, f, "idle") /\ worker[r][f].pc \in Submitting
            /\ ~CanSettleExecution(r, f, "settled", "succeeded")
            /\ runs'[r].fence = runs[r].fence
        BY <3>2 DEF SettlementRefused, At, Submitting, vars
      <4>2. runs[r].fence # f
        BY <2>1, <4>1 DEF SubmissionFits, Live, CanSettleExecution, CurrentExecution
      <4> QED
        BY <1>2, <4>1, <4>2, FenceGrows
    <3> QED
      BY <2>1, <2>3, <3>1, <3>2 DEF Comes
  <2> QED
    BY <2>2, <2>3 DEF SubmissionFits
<1> QED
  BY <1>1, <1>2 DEF RecordFits

-----------------------------------------------------------------------------
(* The theorems *)

LEMMA ReplyInvInit == DriverInit => ReplyInv
<1>1. ASSUME DriverInit PROVE ReplyInv
  <2>1. DriverInv
    BY <1>1, DriverInitInv
  <2>2. BatchFits
    BY <1>1 DEF DriverInit, BatchFits
  <2>3. ReplyFits
    BY <1>1 DEF DriverInit, ReplyFits, ShownFits, HandlerFits, NoWorker, Executes, Executing,
       Init, FreshRun, NothingVisible
  <2> QED
    BY <2>1, <2>2, <2>3 DEF ReplyInv
<1> QED
  BY <1>1

\* The inductive invariant of the reply holds, whoever crashes, lapses, retries
\* and replays.
THEOREM ReplyInvariance == DriverSpec => []ReplyInv
<1>1. ReplyInv /\ [DriverNext]_allVars => ReplyInv'
  BY DriverNextInv, ReplyFitsNext, BatchFitsNext DEF ReplyInv
<1> QED
  BY <1>1, ReplyInvInit, PTL DEF DriverSpec

\* Whatever crashes, lapses, retries and replays happen, the user never sees
\* two replies to one message that the ledger has attempts for: a handler that
\* the run has been taken from never starts one, and the one it left open is
\* ended or given up before the next.
THEOREM OneReplyOnly == DriverSpec => []OneRecordedReply
<1>1. ReplyInv => OneRecordedReply
  BY DEF ReplyInv, ReplyFits, ShownFits, OneRecordedReply
<1> QED
  BY <1>1, ReplyInvariance, PTL

\* A reply the user can see under an attempt is never one the ledger would send
\* again.
THEOREM ShownIsBooked == DriverSpec => []RecordedReplyIsBooked
<1>1. ReplyInv => RecordedReplyIsBooked
  BY DEF ReplyInv, ReplyFits, ShownFits, RecordedReplyIsBooked
<1> QED
  BY <1>1, ReplyInvariance, PTL

\* The ledger never claims a delivery the user cannot see, not even when it
\* books it after a crash from what the presentation row says.
THEOREM BookedIsShown == DriverSpec => []DeliveredMeansShown
<1>1. ReplyInv => DeliveredMeansShown
  BY DEF ReplyInv, ReplyFits, ShownFits, DeliveredMeansShown
<1> QED
  BY <1>1, ReplyInvariance, PTL

\* While a drain waits for a handler, the handler has the latest claim of its
\* run: nobody claims the run again beside it.
THEOREM BatchHoldsClaims == DriverSpec => []BatchHoldsLatestClaims
<1>1. ReplyInv => BatchHoldsLatestClaims
  BY DEF ReplyInv, BatchFits, BatchHoldsLatestClaims
<1> QED
  BY <1>1, ReplyInvariance, PTL

\* The lifecycle of a ledger turn fails closed in the handler of the latest
\* claim: what the handler has submitted can be settled as long as nobody has
\* claimed the run again, so that only an overtaken handler shows a failure
\* beside the ledger.
THEOREM OvertakenAlone == DriverSpec => []OnlyTheOvertakenGoUnrecorded
<1>1. DriverInit => RecordFits
  BY DEF DriverInit, RecordFits, SubmissionFits, Submitting, NoWorker, At
<1>2. ReplyInv /\ RecordFits /\ [DriverNext]_allVars => RecordFits'
  BY RecordFitsNext DEF ReplyInv
<1>3. RecordFits => OnlyTheOvertakenGoUnrecorded
  BY DEF RecordFits, SubmissionFits, OnlyTheOvertakenGoUnrecorded
<1> QED
  BY <1>1, <1>2, <1>3, ReplyInvariance, PTL DEF DriverSpec
=============================================================================
