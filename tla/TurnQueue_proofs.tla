------------------------- MODULE TurnQueue_proofs -------------------------
(***************************************************************************)
(* Proofs about TurnQueue for every number of messages and every bound:    *)
(* the types of its rows, and that no message is lost.                     *)
(***************************************************************************)
EXTENDS TurnQueue, FiniteSetTheorems, TLAPS

\* What an executor's step says of its row, and a submission of its dispatch.
StepFits(t) ==
    /\ exec[t] = "claimed" => rows[t].dispatch = "none" /\ rows[t].attempts > 0
    /\ exec[t] = "reading" => rows[t].dispatch = "received"
    /\ exec[t] = "ending" => rows[t].stop = "stopped"
    /\ exec[t] = "posted" => rows[t].settled # "none" \/ rows[t].stop = "stopped"
    /\ sub[t] # "none" => rows[t].dispatch # "none"
    /\ rows[t].settled # "none" => rows[t].dispatch # "none"
    /\ rows[t].settled = "completed" => sub[t] = "completed"
    /\ rows[t].dispatch = "none" => cyc[t] = 0

\* A row a stop holds or dropped was posted before the stop it names.
StopFits(t) ==
    rows[t].stop \in {"held", "dropped"} =>
        /\ rows[t].stopHead \in Turn
        /\ rows[rows[t].stopHead].stop = "stopped"
        /\ t < rows[rows[t].stopHead].cutoff
        /\ rows[t].stop = "dropped" => /\ rows[rows[t].stopHead].ending = "dropped"
                                       /\ rows[t].status \in Finished

\* A message counted as received is in the model input of the run that took it.
FoldFits(t) ==
    rows[t].fold # "none" =>
        /\ rows[t].foldHead \in Turn
        /\ rows[rows[t].foldHead].dispatch = "none" => rows[t].cycle = 0
        /\ rows[rows[t].foldHead].dispatch # "none" /\ rows[t].received
             => t \in read[rows[t].foldHead]
        /\ rows[t].cycle \in 1..cyc[rows[t].foldHead] => t \in read[rows[t].foldHead]

\* A message that ended with another turn ended for good, and so did that turn.
EndFits(t) ==
    rows[t].fold = "settled" =>
        /\ rows[t].status \in Finished
        /\ rows[rows[t].foldHead].status = "done"
        /\ exec[rows[t].foldHead] = "idle"
        /\ sub[rows[t].foldHead] = "completed"
        /\ t \in read[rows[t].foldHead]

\* How a message that ended well came to its end.
Kind(r) == r.settled # "none" \/ r.stop \in {"stopped", "dropped"} \/ r.fold = "settled"

DoneFits(t) == rows[t].status = "done" => Kind(rows[t])

AbsentFits(t) ==
    rows[t].status = "absent" =>
        /\ rows[t].stop = "none" /\ rows[t].fold = "none" /\ rows[t].attempts = 0
        /\ rows[t].dispatch = "none" /\ rows[t].settled = "none" /\ exec[t] = "idle"

IInv ==
    /\ QueueTypeOK
    /\ \A t \in Turn : StepFits(t) /\ StopFits(t) /\ FoldFits(t) /\ EndFits(t) /\ DoneFits(t)
                         /\ AbsentFits(t)

----------------------------------------------------------------------------
(***************************************************************************)
(* What the operators on rows do.                                          *)
(***************************************************************************)
\* The fields that no ending touches.
Kept(r, s) ==
    /\ s.dispatch = r.dispatch /\ s.settled = r.settled /\ s.attempts = r.attempts
    /\ s.stopHead = r.stopHead /\ s.cutoff = r.cutoff
    /\ s.foldHead = r.foldHead /\ s.cycle = r.cycle /\ s.received = r.received

\* The ending of the stop of h, from rs to ss.
EndsStop(rs, ss, h) ==
    /\ ss \in [Turn -> Row]
    /\ \A t \in Turn :
         /\ Kept(rs[t], ss[t]) /\ ss[t].fold = rs[t].fold
         /\ ss[t].stop # rs[t].stop =>
              /\ rs[t].stop = "held" /\ rs[t].stopHead = h
              /\ \/ ss[t].stop = "released"
                 \/ ss[t].stop = "dropped" /\ ss[h].ending = "dropped" /\ ss[t].status \in Finished
         /\ ss[t].ending # rs[t].ending => rs[t].ending = "none"
         /\ ss[t].status # rs[t].status =>
              ss[t].status = "done" /\ ss[t].stop = "dropped" /\ rs[t].stop = "held"
              /\ rs[t].status \notin Finished

\* A status, a stop, an ending or a fold of a row's type keeps the row's type.
LEMMA RowStatus ==
    ASSUME NEW r \in Row, NEW s \in {"pending"} \cup Finished \cup Parked
    PROVE  [r EXCEPT !.status = s] \in Row
  BY DEF Row, Finished, Parked

\* A row of the table that an ending drops, keeps the rest.
LEMMA RowDropped ==
    ASSUME NEW r \in Row
    PROVE  LET s == DroppedRow(r) IN
           /\ s \in Row /\ Kept(r, s) /\ s.fold = r.fold /\ s.ending = r.ending
           /\ s.stop # r.stop => s.stop = "dropped" /\ s.status \in Finished
           /\ s.status # r.status =>
                s.status = "done" /\ s.stop = "dropped" /\ r.status \notin Finished
<1>1. CASE r.status \in Finished
  BY <1>1 DEF DroppedRow, Kept
<1>2. CASE r.status \notin Finished
  <2> DEFINE s == [r EXCEPT !.stop = "dropped", !.status = "done"]
  <2>1. s \in Row /\ s.stop = "dropped" /\ s.status = "done"
    BY DEF Row, Finished
  <2>3. s.status \in Finished
    BY <2>1 DEF Finished
  <2>2. Kept(r, s) /\ s.fold = r.fold /\ s.ending = r.ending
    BY DEF Row, Kept
  <2> QED BY <1>2, <2>1, <2>2, <2>3 DEF DroppedRow
<1> QED BY <1>1, <1>2

LEMMA RowStop ==
    ASSUME NEW r \in Row, NEW o \in {"dropped", "released"}
    PROVE  LET s == [r EXCEPT !.stop = o] IN
           /\ s \in Row /\ Kept(r, s) /\ s.fold = r.fold /\ s.ending = r.ending
           /\ s.stop = o /\ s.status = r.status
  BY DEF Row, Kept

LEMMA RowEnding ==
    ASSUME NEW r \in Row, NEW o \in {"dropped", "released"}
    PROVE  LET s == [r EXCEPT !.ending = o] IN
           /\ s \in Row /\ Kept(r, s) /\ s.fold = r.fold /\ s.ending = o
           /\ s.stop = r.stop /\ s.status = r.status
  BY DEF Row, Kept

\* finishStop ends one stop and touches only what that stop holds.
LEMMA FinishedStopEnds ==
    ASSUME NEW rs \in [Turn -> Row], NEW h \in Turn, NEW o \in {"dropped", "released"}
    PROVE  EndsStop(rs, FinishedStop(rs, h, o), h)
<1> DEFINE ss == FinishedStop(rs, h, o)
<1>1. CASE rs[h].stop # "stopped" \/ rs[h].ending # "none"
  BY <1>1 DEF FinishedStop, EndsStop, Kept
<1>2. CASE ~(rs[h].stop # "stopped" \/ rs[h].ending # "none")
  <2> DEFINE row(t) == IF t = h THEN [rs[t] EXCEPT !.ending = o]
                       ELSE IF t \notin HeldBy(rs, h) THEN rs[t]
                       ELSE IF o = "dropped" THEN DroppedRow(rs[t])
                       ELSE [rs[t] EXCEPT !.stop = "released"]
  <2>1. ss = [t \in Turn |-> row(t)]
    BY <1>2 DEF FinishedStop
  <2>2. ASSUME NEW t \in Turn
        PROVE  /\ row(t) \in Row /\ Kept(rs[t], row(t)) /\ row(t).fold = rs[t].fold
               /\ row(t).ending # rs[t].ending => t = h
               /\ row(t).stop # rs[t].stop =>
                    /\ rs[t].stop = "held" /\ rs[t].stopHead = h
                    /\ \/ row(t).stop = "released"
                       \/ row(t).stop = "dropped" /\ o = "dropped" /\ row(t).status \in Finished
               /\ row(t).status # rs[t].status =>
                    row(t).status = "done" /\ row(t).stop = "dropped" /\ rs[t].stop = "held"
                    /\ rs[t].status \notin Finished
    <3>1. rs[t] \in Row
      OBVIOUS
    <3>2. CASE t = h
      BY <3>1, <3>2, RowEnding
    <3>3. CASE t # h /\ t \notin HeldBy(rs, h)
      BY <3>1, <3>3 DEF Kept
    <3>4. CASE t # h /\ t \in HeldBy(rs, h) /\ o = "dropped"
      <4>1. row(t) = DroppedRow(rs[t]) /\ rs[t].stop = "held" /\ rs[t].stopHead = h
        BY <3>4 DEF HeldBy
      <4> QED BY <3>1, <3>4, <4>1, RowDropped
    <3>5. CASE t # h /\ t \in HeldBy(rs, h) /\ o # "dropped"
      <4>1. row(t) = [rs[t] EXCEPT !.stop = "released"] /\ rs[t].stop = "held" /\ rs[t].stopHead = h
        BY <3>5 DEF HeldBy
      <4> QED BY <3>1, <3>5, <4>1, RowStop
    <3> QED BY <3>2, <3>3, <3>4, <3>5
  <2>3. row(h).ending = o
    BY RowEnding
  <2>4. ss \in [Turn -> Row] /\ \A t \in Turn : ss[t] = row(t)
    <3> HIDE DEF row
    <3> QED BY <2>1, <2>2
  <2>5. \A t \in Turn :
          /\ Kept(rs[t], ss[t]) /\ ss[t].fold = rs[t].fold
          /\ ss[t].ending # rs[t].ending => rs[t].ending = "none"
          /\ ss[t].stop # rs[t].stop =>
               /\ rs[t].stop = "held" /\ rs[t].stopHead = h
               /\ \/ ss[t].stop = "released"
                  \/ ss[t].stop = "dropped" /\ ss[h].ending = "dropped" /\ ss[t].status \in Finished
          /\ ss[t].status # rs[t].status =>
               ss[t].status = "done" /\ ss[t].stop = "dropped" /\ rs[t].stop = "held"
               /\ rs[t].status \notin Finished
    <3> HIDE DEF row, ss
    <3> QED BY <1>2, <2>2, <2>3, <2>4
  <2>6. EndsStop(rs, ss, h)
    <3> HIDE DEF row, ss
    <3> QED BY <2>4, <2>5 DEF EndsStop
  <2> QED BY <2>6
<1> QED BY <1>1, <1>2

----------------------------------------------------------------------------
(***************************************************************************)
(* What every step leaves standing, and what follows from it.              *)
(***************************************************************************)
Stands(r, s) ==
    /\ r.stop = "stopped" => s.stop = "stopped" /\ s.cutoff = r.cutoff
                             /\ (r.ending # "none" => s.ending = r.ending)
    /\ r.stop = "dropped" => s.stop = "dropped"
    /\ r.dispatch # "none" => s.dispatch # "none"
    /\ r.settled # "none" => s.settled = r.settled
    /\ r.status \in Finished => s.status \in Finished
    /\ r.fold = "settled" => s.fold = "settled" /\ s.foldHead = r.foldHead

\* What a step may do about the stop that holds or dropped a row.
HoldKept(t) ==
    rows'[t].stop \in {"held", "dropped"} =>
        \/ /\ rows[t].stop \in {"held", "dropped"} /\ rows'[t].stopHead = rows[t].stopHead
           /\ \/ rows'[t].stop = rows[t].stop
              \/ rows'[rows[t].stopHead].ending = "dropped" /\ rows'[t].status \in Finished
        \/ StopFits(t)'

LEMMA StopFitsStep ==
    ASSUME IInv, rows' \in [Turn -> Row],
           \A t \in Turn : Stands(rows[t], rows'[t]) /\ HoldKept(t)
    PROVE  \A t \in Turn : StopFits(t)'
<1> SUFFICES ASSUME NEW t \in Turn, rows'[t].stop \in {"held", "dropped"}
             PROVE  StopFits(t)'
  BY DEF StopFits
<1>1. CASE StopFits(t)'
  BY <1>1
<1>2. CASE /\ rows[t].stop \in {"held", "dropped"} /\ rows'[t].stopHead = rows[t].stopHead
           /\ \/ rows'[t].stop = rows[t].stop
              \/ rows'[rows[t].stopHead].ending = "dropped" /\ rows'[t].status \in Finished
  <2> DEFINE h == rows[t].stopHead
  <2>1. /\ h \in Turn /\ rows[h].stop = "stopped" /\ t < rows[h].cutoff
        /\ rows[t].stop = "dropped" => rows[h].ending = "dropped" /\ rows[t].status \in Finished
    BY <1>2 DEF IInv, StopFits
  <2>2. Stands(rows[h], rows'[h])
    BY <2>1
  <2>3. /\ rows'[h].stop = "stopped" /\ rows'[h].cutoff = rows[h].cutoff
        /\ rows[h].ending = "dropped" => rows'[h].ending = "dropped"
    BY <2>1, <2>2 DEF Stands
  <2>4. rows[t].status \in Finished => rows'[t].status \in Finished
    BY DEF Stands
  <2> QED BY <1>2, <2>1, <2>3, <2>4 DEF StopFits
<1> QED BY <1>1, <1>2 DEF HoldKept

LEMMA DoneFitsStep ==
    ASSUME IInv, rows' \in [Turn -> Row],
           \A t \in Turn : Stands(rows[t], rows'[t]),
           \A t \in Turn : rows'[t].status = "done" => rows[t].status = "done" \/ Kind(rows'[t])
    PROVE  \A t \in Turn : DoneFits(t)'
<1> SUFFICES ASSUME NEW t \in Turn, rows'[t].status = "done", rows[t].status = "done"
             PROVE  Kind(rows'[t])
  BY DEF DoneFits
<1>1. Kind(rows[t]) /\ Stands(rows[t], rows'[t])
  BY DEF IInv, DoneFits
<1> QED BY <1>1 DEF Kind, Stands

\* A message ends with another only when that one's reply is recorded; until
\* then nothing disturbs the ends already met.
LEMMA EndFitsStep ==
    ASSUME IInv, rows' \in [Turn -> Row],
           \A t \in Turn : Stands(rows[t], rows'[t]),
           \A t \in Turn : rows'[t].fold = "settled" => rows[t].fold = "settled" \/ EndFits(t)',
           \A h \in Turn : rows[h].status = "done" /\ exec[h] = "idle"
                            => rows'[h].status = "done" /\ exec'[h] = "idle",
           \A h \in Turn : sub[h] = "completed" => sub'[h] = "completed",
           \A h \in Turn : sub[h] = "completed" => read[h] \subseteq read'[h]
    PROVE  \A t \in Turn : EndFits(t)'
<1> SUFFICES ASSUME NEW t \in Turn, rows'[t].fold = "settled", rows[t].fold = "settled"
             PROVE  EndFits(t)'
  BY DEF EndFits
<1> DEFINE h == rows[t].foldHead
<1>1. /\ rows[t].status \in Finished /\ h \in Turn
      /\ rows[h].status = "done" /\ exec[h] = "idle" /\ sub[h] = "completed" /\ t \in read[h]
  BY DEF IInv, EndFits, FoldFits
<1>2. rows'[t].foldHead = h /\ rows'[t].status \in Finished
  BY <1>1 DEF Stands
<1> QED BY <1>1, <1>2 DEF EndFits

\* What a step may do to a fold, short of making one.
FoldSame(t) ==
    rows'[t].fold # "none" =>
        /\ rows[t].fold # "none" /\ rows'[t].foldHead = rows[t].foldHead
        /\ rows'[t].cycle = rows[t].cycle /\ rows'[t].received = rows[t].received

LEMMA FoldFitsStep ==
    ASSUME IInv, UNCHANGED <<read, cyc>>,
           \A t \in Turn : FoldSame(t) \/ FoldFits(t)',
           \A h \in Turn : rows'[h].dispatch = "none" <=> rows[h].dispatch = "none"
    PROVE  \A t \in Turn : FoldFits(t)'
<1> SUFFICES ASSUME NEW t \in Turn, rows'[t].fold # "none", FoldSame(t)
             PROVE  FoldFits(t)'
  BY DEF FoldFits
<1>1. FoldFits(t) /\ rows[t].fold # "none"
  BY DEF IInv, FoldSame
<1> QED BY <1>1 DEF FoldFits, FoldSame

\* A step that leaves every stop and every fold alone.
Quiet(r, s) ==
    /\ s.stop = r.stop /\ s.stopHead = r.stopHead /\ s.cutoff = r.cutoff
    /\ s.ending = r.ending /\ s.fold = r.fold /\ s.foldHead = r.foldHead
    /\ s.cycle = r.cycle /\ s.received = r.received
    /\ r.dispatch # "none" => s.dispatch # "none"
    /\ r.settled # "none" => s.settled = r.settled
    /\ r.status \in Finished => s.status = r.status
    /\ s.status = "done" => r.status = "done"

\* What the executors, Flue and its reads leave standing.
Steady ==
    /\ \A h \in Turn : rows[h].status \in {"done", "absent"} /\ exec[h] = "idle"
                       => exec'[h] = "idle"
    /\ \A h \in Turn : sub[h] = "completed" => sub'[h] = "completed"
    /\ \A h \in Turn : sub[h] = "completed" => read[h] \subseteq read'[h]

LEMMA QuietStep ==
    ASSUME IInv, rows' \in [Turn -> Row], Steady,
           \A t \in Turn : Quiet(rows[t], rows'[t])
    PROVE  /\ \A t \in Turn : FoldSame(t)
           /\ \A t \in Turn : StopFits(t)' /\ EndFits(t)' /\ DoneFits(t)'
<1>1. \A t \in Turn : Stands(rows[t], rows'[t]) /\ HoldKept(t) /\ FoldSame(t)
  BY DEF Quiet, Stands, HoldKept, FoldSame
<1>2. \A t \in Turn : StopFits(t)'
  BY <1>1, StopFitsStep
<1>3. \A t \in Turn : DoneFits(t)'
  <2>1. \A t \in Turn : rows'[t].status = "done" => rows[t].status = "done" \/ Kind(rows'[t])
    BY DEF Quiet
  <2> QED BY <1>1, <2>1, DoneFitsStep
<1>4. \A t \in Turn : EndFits(t)'
  <2>1. \A t \in Turn : rows'[t].fold = "settled" => rows[t].fold = "settled" \/ EndFits(t)'
    BY DEF Quiet
  <2>2. \A h \in Turn : rows[h].status = "done" /\ exec[h] = "idle"
                         => rows'[h].status = "done" /\ exec'[h] = "idle"
    BY DEF Quiet, Steady, Finished
  <2> QED BY <1>1, <2>1, <2>2, EndFitsStep DEF Steady
<1> QED BY <1>1, <1>2, <1>3, <1>4

\* A quiet step outside a dispatch and outside a fold.
LEMMA QuietInvariance ==
    ASSUME IInv, QueueTypeOK', Steady, UNCHANGED <<read, cyc>>,
           \A t \in Turn : Quiet(rows[t], rows'[t]),
           \A t \in Turn : rows'[t].dispatch = "none" <=> rows[t].dispatch = "none",
           \A t \in Turn : rows'[t].status = "absent" => rows'[t] = rows[t],
           \A t \in Turn : StepFits(t)'
    PROVE  IInv'
<1>1. rows' \in [Turn -> Row]
  BY DEF QueueTypeOK
<1>2. \A t \in Turn : FoldSame(t) /\ StopFits(t)' /\ EndFits(t)' /\ DoneFits(t)'
  BY <1>1, QuietStep
<1>3. \A t \in Turn : FoldFits(t)'
  BY <1>2, FoldFitsStep
<1>4. \A t \in Turn : AbsentFits(t)'
  BY DEF IInv, AbsentFits, Steady
<1> QED BY <1>2, <1>3, <1>4 DEF IInv

----------------------------------------------------------------------------
(***************************************************************************)
(* Steps that leave the rows alone.                                        *)
(***************************************************************************)
LEMMA RowsUnchanged ==
    ASSUME IInv, NEW t \in Turn, UNCHANGED <<rows, read, cyc>>,
           \/ Begin(t) \/ Post(t) \/ Interrupt(t) \/ Accept(t)
           \/ GiveUp(t) /\ Goes(t, "failed")
           \/ \E outcome \in Ended : SubmissionEnds(t, outcome)
    PROVE  IInv'
<1>0. QueueTypeOK /\ \A u \in Turn : StepFits(u)
  BY DEF IInv
<1>1. QueueTypeOK'
  <2>1. exec' \in [Turn -> {"idle", "begun", "claimed", "reading", "ending", "posted", "failed"}]
    BY <1>0 DEF QueueTypeOK, Begin, Post, Interrupt, Accept, GiveUp, Goes, SubmissionEnds
  <2>2. sub' \in [Turn -> {"none", "running"} \cup Ended]
    BY <1>0 DEF QueueTypeOK, Begin, Post, Interrupt, Accept, GiveUp, SubmissionEnds
  <2> QED BY <1>0, <2>1, <2>2 DEF QueueTypeOK
<1>2. Steady
  <2>1. \A h \in Turn : rows[h].status \in {"done", "absent"} /\ exec[h] = "idle"
                         => exec'[h] = "idle"
    BY <1>0 DEF QueueTypeOK, Begin, Ready, Pending, Post, Interrupt, InHand, Accept, Goes,
                GiveUp, SubmissionEnds
  <2>2. \A h \in Turn : sub[h] = "completed" => sub'[h] = "completed"
    BY <1>0 DEF QueueTypeOK, Begin, Post, Interrupt, Accept, GiveUp, SubmissionEnds
  <2> QED BY <2>1, <2>2 DEF Steady
<1>3. \A u \in Turn : StepFits(u)'
  <2> SUFFICES ASSUME NEW u \in Turn PROVE StepFits(u)'
    OBVIOUS
  <2>1. CASE Begin(t)
    BY <1>0, <2>1 DEF QueueTypeOK, StepFits, Begin, Goes, Gate, StopRole
  <2>2. CASE Post(t)
    BY <1>0, <2>2 DEF QueueTypeOK, StepFits, Post, Goes
  <2>3. CASE Interrupt(t)
    BY <1>0, <2>3 DEF QueueTypeOK, StepFits, Interrupt, Goes
  <2>4. CASE Accept(t)
    BY <1>0, <2>4 DEF QueueTypeOK, StepFits, Accept
  <2>5. CASE GiveUp(t) /\ Goes(t, "failed")
    BY <1>0, <2>5 DEF QueueTypeOK, StepFits, GiveUp, Goes
  <2>6. CASE \E outcome \in Ended : SubmissionEnds(t, outcome)
    BY <1>0, <2>6 DEF QueueTypeOK, StepFits, SubmissionEnds
  <2> QED BY <2>1, <2>2, <2>3, <2>4, <2>5, <2>6
<1>4. /\ \A u \in Turn : Quiet(rows[u], rows'[u])
      /\ \A u \in Turn : rows'[u].dispatch = "none" <=> rows[u].dispatch = "none"
  BY DEF Quiet
<1> QED BY <1>1, <1>2, <1>3, <1>4, QuietInvariance

----------------------------------------------------------------------------
(***************************************************************************)
(* Steps that change one field of a row.                                   *)
(***************************************************************************)
LEMMA OneField ==
    ASSUME IInv, NEW t \in Turn,
           HandOver(t) \/ Receipt(t) \/ Settlement(t) \/ ResolveRecovery(t)
    PROVE  IInv'
<1>0. /\ QueueTypeOK /\ rows[t] \in Row
      /\ \A u \in Turn : StepFits(u) /\ AbsentFits(u)
  BY DEF IInv, QueueTypeOK
<1> USE <1>0
<1>1. /\ rows'[t] \in Row /\ Quiet(rows[t], rows'[t])
      /\ \A u \in Turn \ {t} : rows'[u] = rows[u]
      /\ rows'[t].dispatch = "none" <=> rows[t].dispatch = "none"
      /\ rows'[t].attempts = rows[t].attempts
  <2>1. CASE HandOver(t)
    <3>1. rows' = [rows EXCEPT ![t] = [rows[t] EXCEPT !.by = "runner"]]
      BY <2>1 DEF HandOver
    <3>2. rows'[t] = [rows[t] EXCEPT !.by = "runner"] /\ \A u \in Turn \ {t} : rows'[u] = rows[u]
      BY <3>1 DEF QueueTypeOK
    <3>3. rows'[t] \in Row
      BY <3>2 DEF Row
    <3>4. /\ Quiet(rows[t], rows'[t]) /\ rows'[t].dispatch = rows[t].dispatch
          /\ rows'[t].attempts = rows[t].attempts
      BY <3>2 DEF Row, Quiet
    <3> QED BY <3>2, <3>3, <3>4
  <2>2. CASE Receipt(t)
    BY <2>2 DEF QueueTypeOK, Receipt, Row, Quiet
  <2>3. CASE Settlement(t)
    BY <2>3 DEF QueueTypeOK, Settlement, Row, Quiet
  <2>4. CASE ResolveRecovery(t)
    BY <2>4 DEF QueueTypeOK, ResolveRecovery, Row, Quiet, Finished
  <2> QED BY <2>1, <2>2, <2>3, <2>4
<1>2. \A u \in Turn : /\ Quiet(rows[u], rows'[u])
                      /\ rows'[u].dispatch = "none" <=> rows[u].dispatch = "none"
  BY <1>1 DEF Quiet
<1>3. QueueTypeOK'
  <2>1. \E r : rows' = [rows EXCEPT ![t] = r]
    BY DEF HandOver, Receipt, Settlement, ResolveRecovery
  <2>2. rows' \in [Turn -> Row]
    BY <1>1, <2>1 DEF QueueTypeOK
  <2>3. exec' \in [Turn -> {"idle", "begun", "claimed", "reading", "ending", "posted", "failed"}]
    BY DEF QueueTypeOK, HandOver, Receipt, Settlement, ResolveRecovery, Goes
  <2> QED BY <2>2, <2>3 DEF QueueTypeOK, HandOver, Receipt, Settlement, ResolveRecovery
<1>4. Steady /\ UNCHANGED <<read, cyc>>
  BY DEF Steady, HandOver, Receipt, Settlement, ResolveRecovery, Goes, QueueTypeOK
<1>5. \A u \in Turn : StepFits(u)'
  <2> SUFFICES ASSUME NEW u \in Turn PROVE StepFits(u)'
    OBVIOUS
  <2>1. CASE HandOver(t)
    BY <1>1, <2>1 DEF QueueTypeOK, StepFits, HandOver
  <2>2. CASE Receipt(t)
    BY <1>1, <2>2 DEF QueueTypeOK, StepFits, Receipt, Goes
  <2>3. CASE Settlement(t)
    BY <1>1, <2>3 DEF QueueTypeOK, StepFits, Settlement
  <2>4. CASE ResolveRecovery(t)
    BY <1>1, <2>4 DEF QueueTypeOK, StepFits, ResolveRecovery
  <2> QED BY <2>1, <2>2, <2>3, <2>4
<1>6. rows'[t].status # "absent"
  <2>1. rows[t].status # "absent"
    BY DEF HandOver, Pending, Receipt, Settlement, ResolveRecovery, StepFits, AbsentFits
  <2>2. rows'[t].status \in {rows[t].status, "error"}
    BY DEF HandOver, Receipt, Settlement, ResolveRecovery, QueueTypeOK, Row
  <2> QED BY <2>1, <2>2
<1>7. \A u \in Turn : rows'[u].status = "absent" => rows'[u] = rows[u]
  BY <1>1, <1>6
<1> QED BY <1>2, <1>3, <1>4, <1>5, <1>7, QuietInvariance

\* The fields only a run and its attempts change.
Same(r, s) == s.dispatch = r.dispatch /\ s.attempts = r.attempts /\ s.settled = r.settled

\* A new status of a row that has not ended.
LEMMA QuietStatus ==
    ASSUME NEW r \in Row, NEW s \in {"pending", "error"} \cup Parked, r.status \notin Finished
    PROVE  LET x == [r EXCEPT !.status = s] IN
           /\ x \in Row /\ Quiet(r, x) /\ Same(r, x)
<1> DEFINE x == [r EXCEPT !.status = s]
<1>1. x \in Row
  BY RowStatus DEF Finished
<1>2. x.status = s /\ s # "done"
  BY DEF Row, Parked
<1>3. Quiet(r, x) /\ Same(r, x)
  BY <1>2 DEF Row, Quiet, Same
<1> QED BY <1>1, <1>3

\* An operator's cancellation and a reconnection touch the status of many rows.
LEMMA ManyRows ==
    ASSUME IInv, OperatorCancels \/ Reopen
    PROVE  IInv'
<1>0. QueueTypeOK /\ \A u \in Turn : StepFits(u)
  BY DEF IInv
<1>1. ASSUME NEW u \in Turn
      PROVE  /\ rows'[u] \in Row /\ Quiet(rows[u], rows'[u])
             /\ Same(rows[u], rows'[u])
  <2>0. rows[u] \in Row
    BY <1>0 DEF QueueTypeOK
  <2>1. CASE OperatorCancels
    <3>1. CASE rows[u].status = "pending"
      <4>1. rows'[u] = [rows[u] EXCEPT !.status = "cancelled"]
        BY <2>1, <3>1 DEF OperatorCancels, Pending
      <4>2. "cancelled" \in {"pending", "error"} \cup Parked /\ rows[u].status \notin Finished
        BY <3>1 DEF Parked, Finished
      <4> QED BY <2>0, <4>1, <4>2, QuietStatus
    <3>2. CASE rows[u].status # "pending"
      BY <2>0, <2>1, <3>2 DEF OperatorCancels, Pending, Quiet, Same
    <3> QED BY <3>1, <3>2
  <2>2. CASE Reopen
    <3>1. CASE rows[u].status = "unavailable"
      <4>1. rows'[u] = [rows[u] EXCEPT !.status = "pending", !.by = "alarm"]
        BY <2>2, <3>1 DEF Reopen
      <4>2. rows'[u] \in Row
        BY <2>0, <4>1 DEF Row
      <4>3. rows'[u].status = "pending" /\ rows[u].status \notin Finished
        BY <2>0, <3>1, <4>1 DEF Row, Finished
      <4>4. Quiet(rows[u], rows'[u]) /\ Same(rows[u], rows'[u])
        BY <2>0, <4>1, <4>3 DEF Row, Quiet, Same
      <4> QED BY <4>2, <4>4
    <3>2. CASE rows[u].status # "unavailable"
      BY <2>0, <2>2, <3>2 DEF Reopen, Quiet, Same
    <3> QED BY <3>1, <3>2
  <2> QED BY <2>1, <2>2
<1>2. rows' \in [Turn -> Row]
  BY <1>1 DEF OperatorCancels, Reopen
<1>3. QueueTypeOK' /\ Steady /\ UNCHANGED <<exec, sub, read, cyc>>
  BY <1>0, <1>2 DEF QueueTypeOK, Steady, OperatorCancels, Reopen
<1>4. ASSUME NEW u \in Turn PROVE StepFits(u)'
  BY <1>0, <1>1, <1>3 DEF StepFits, Quiet, Same
<1>5. \A u \in Turn : rows'[u].dispatch = "none" <=> rows[u].dispatch = "none"
  BY <1>1 DEF Same
<1>6. ASSUME NEW u \in Turn, rows'[u] # rows[u] PROVE rows'[u].status # "absent"
  <2>0. rows[u] \in Row
    BY <1>0 DEF QueueTypeOK
  <2>1. CASE OperatorCancels
    BY <1>6, <2>0, <2>1 DEF OperatorCancels, Row
  <2>2. CASE Reopen
    BY <1>6, <2>0, <2>2 DEF Reopen, Row
  <2> QED BY <2>1, <2>2
<1> QED BY <1>1, <1>3, <1>4, <1>5, <1>6, QuietInvariance

----------------------------------------------------------------------------
(***************************************************************************)
(* Steps that end a stop.  Such a step first changes some rows, from rows  *)
(* to rs, and finishStop then ends the stop of one turn, from rs to rows'. *)
(***************************************************************************)
Base(r, s) ==
    /\ s.stop = r.stop /\ s.ending = r.ending /\ Kept(r, s)
    /\ s.fold = "none" <=> r.fold = "none"
    /\ r.fold = "settled" => s.fold = "settled"
    /\ r.status \in Finished => s.status \in Finished

\* The ends that rs records of the reply to h.
EndsWith(rs, t) ==
    /\ rs[t].status = "done"
    /\ rs[rs[t].foldHead].status = "done" /\ exec'[rs[t].foldHead] = "idle"
    /\ sub[rs[t].foldHead] = "completed" /\ t \in read[rs[t].foldHead]

LEMMA EndsStopStep ==
    ASSUME IInv, UNCHANGED <<sub, read, cyc>>, Steady,
           exec' \in [Turn -> {"idle", "begun", "claimed", "reading", "ending", "posted", "failed"}],
           NEW rs \in [Turn -> Row], NEW h \in Turn, EndsStop(rs, rows', h),
           \A t \in Turn : Base(rows[t], rs[t]),
           \A t \in Turn : rs[t].status = "done" => rows[t].status = "done" \/ Kind(rs[t]),
           \A t \in Turn : rs[t].fold = "settled" => rows[t].fold = "settled" \/ EndsWith(rs, t),
           \A t \in Turn : rows[t].status = "done" /\ exec[t] = "idle" => rs[t].status = "done",
           \A t \in Turn : rs[t].status = "absent" => rs[t] = rows[t],
           \A t \in Turn : \/ exec'[t] = exec[t]
                           \/ exec'[t] \in {"idle", "failed"}
                           \/ exec'[t] = "ending" /\ rs[t].stop = "stopped"
    PROVE  IInv'
<1> DEFINE ss == rows'
<1>0. /\ rows' \in [Turn -> Row] /\ QueueTypeOK
      /\ \A t \in Turn : StepFits(t) /\ StopFits(t) /\ EndFits(t) /\ AbsentFits(t)
  BY DEF IInv, EndsStop
<1>1. ASSUME NEW t \in Turn
      PROVE  /\ Stands(rows[t], rows'[t]) /\ HoldKept(t) /\ FoldSame(t)
             /\ Kept(rows[t], rows'[t])
             /\ rows[t].stop = "stopped" => rows'[t].stop = "stopped"
             /\ rows'[t].status = "done" => rows[t].status = "done" \/ Kind(rows'[t])
             /\ rows[t].status = "done" /\ exec[t] = "idle" => rows'[t].status = "done"
             /\ rows'[t].status = "absent" => rows'[t].status = rs[t].status
             /\ rows'[t].stop = "stopped" => rs[t].stop = "stopped"
  <2>1. /\ Base(rows[t], rs[t]) /\ Kept(rs[t], rows'[t]) /\ rows'[t].fold = rs[t].fold
        /\ rows'[t].stop # rs[t].stop =>
             /\ rs[t].stop = "held" /\ rs[t].stopHead = h
             /\ \/ rows'[t].stop = "released"
                \/ rows'[t].stop = "dropped" /\ rows'[h].ending = "dropped"
                   /\ rows'[t].status \in Finished
        /\ rows'[t].ending # rs[t].ending => rs[t].ending = "none"
        /\ rows'[t].status # rs[t].status =>
             rows'[t].status = "done" /\ rows'[t].stop = "dropped" /\ rs[t].stop = "held"
             /\ rs[t].status \notin Finished
    BY DEF EndsStop
  <2>2. Stands(rows[t], rows'[t])
    BY <2>1 DEF Stands, Base, Kept, Finished
  <2>3. HoldKept(t)
    BY <2>1 DEF HoldKept, Base, Kept
  <2>4. FoldSame(t)
    BY <2>1 DEF FoldSame, Base, Kept
  <2>5. Kept(rows[t], rows'[t])
    BY <2>1 DEF Base, Kept
  <2>6. rows'[t].status = "done" => rows[t].status = "done" \/ Kind(rows'[t])
    BY <2>1 DEF Kind, Kept
  <2>7. rows[t].status = "done" /\ exec[t] = "idle" => rows'[t].status = "done"
    BY <2>1
  <2> QED BY <2>1, <2>2, <2>3, <2>4, <2>5, <2>6, <2>7 DEF Base
<1>2. \A t \in Turn : StopFits(t)'
  BY <1>0, <1>1, StopFitsStep
<1>3. \A t \in Turn : DoneFits(t)'
  BY <1>0, <1>1, DoneFitsStep
<1>4. \A t \in Turn : EndFits(t)'
  <2>1. ASSUME NEW t \in Turn, rows'[t].fold = "settled", rows[t].fold # "settled"
        PROVE  EndFits(t)'
    <3>1. rs[t].fold = "settled" /\ EndsWith(rs, t) /\ rows'[t].foldHead = rs[t].foldHead
      BY <2>1 DEF EndsStop, Kept
    <3>2. rs[t].foldHead \in Turn
      BY <1>0, <2>1, <3>1 DEF IInv, FoldFits, Base, Kept
    <3>3. \A u \in Turn : rs[u].status = "done" => rows'[u].status = "done"
      BY DEF EndsStop, Finished
    <3> QED BY <3>1, <3>2, <3>3 DEF EndFits, EndsWith, Finished
  <2>2. \A u \in Turn : rows[u].status = "done" /\ exec[u] = "idle"
                         => rows'[u].status = "done" /\ exec'[u] = "idle"
    BY <1>1 DEF Steady
  <2> QED BY <1>0, <1>1, <2>1, <2>2, EndFitsStep DEF Steady
<1>5. \A t \in Turn : FoldFits(t)'
  <2>1. \A t \in Turn : rows'[t].dispatch = "none" <=> rows[t].dispatch = "none"
    BY <1>1 DEF Kept
  <2> QED BY <1>1, <2>1, FoldFitsStep
<1>6. ASSUME NEW t \in Turn PROVE StepFits(t)'
  <2>1. rs[t].stop = "stopped" => rows'[t].stop = "stopped"
    BY DEF EndsStop
  <2> QED BY <1>0, <1>1, <2>1 DEF StepFits, Kept
<1>7. ASSUME NEW t \in Turn PROVE AbsentFits(t)'
  <2>1. SUFFICES ASSUME rows'[t].status = "absent" PROVE AbsentFits(t)'
    BY DEF AbsentFits
  <2>2. /\ rs[t] = rows[t] /\ rows[t].stop = "none" /\ rows[t].fold = "none"
        /\ rows[t].attempts = 0 /\ rows[t].dispatch = "none" /\ rows[t].settled = "none"
    BY <1>0, <1>1, <2>1 DEF AbsentFits
  <2>3. rows'[t].stop = "none" /\ rows'[t].fold = "none" /\ Kept(rs[t], rows'[t])
    BY <2>2 DEF EndsStop
  <2>4. exec'[t] = "idle"
    BY <1>0, <1>1, <2>1, <2>2 DEF AbsentFits, Steady
  <2> QED BY <2>2, <2>3, <2>4 DEF AbsentFits, Kept
<1>8. QueueTypeOK'
  BY <1>0 DEF QueueTypeOK
<1> QED BY <1>2, <1>3, <1>4, <1>5, <1>6, <1>7, <1>8 DEF IInv

LEMMA EndsStopSame ==
    ASSUME NEW rs \in [Turn -> Row], NEW h \in Turn
    PROVE  EndsStop(rs, rs, h)
  BY DEF EndsStop, Kept

LEMMA BaseSame == ASSUME NEW r PROVE Base(r, r)
  BY DEF Base, Kept

\* A row with a new status, in a table otherwise the same.
LEMMA StatusBase ==
    ASSUME NEW rs \in [Turn -> Row], NEW t \in Turn,
           NEW s \in {"pending"} \cup Finished \cup Parked,
           rs[t].status \in Finished => s \in Finished
    PROVE  LET ss == [rs EXCEPT ![t].status = s] IN
           /\ ss \in [Turn -> Row]
           /\ \A u \in Turn : Base(rs[u], ss[u]) /\ (u # t => ss[u] = rs[u])
           /\ ss[t].status = s /\ ss[t].fold = rs[t].fold /\ ss[t].stop = rs[t].stop
<1> DEFINE ss == [rs EXCEPT ![t].status = s]
           x == [rs[t] EXCEPT !.status = s]
<1>1. x \in Row
  BY RowStatus
<1>2. rs[t] \in Row
  OBVIOUS
<1>3. Base(rs[t], x) /\ x.status = s /\ x.fold = rs[t].fold /\ x.stop = rs[t].stop
  BY <1>2 DEF Base, Kept, Row
<1>4. ss = [rs EXCEPT ![t] = x]
  OBVIOUS
<1> HIDE DEF ss, x
<1>5. ss[t] = x /\ \A u \in Turn : u # t => ss[u] = rs[u]
  BY <1>4
<1>6. ss \in [Turn -> Row]
  BY <1>1, <1>4
<1>7. \A u \in Turn : Base(rs[u], ss[u])
  BY <1>3, <1>5, BaseSame
<1> QED BY <1>3, <1>5, <1>6, <1>7 DEF ss

LEMMA FinishStopInvariance ==
    ASSUME IInv, NEW t \in Turn, FinishStop(t)
    PROVE  IInv'
<1>0. QueueTypeOK /\ rows \in [Turn -> Row] /\ StepFits(t)
  BY DEF IInv, QueueTypeOK
<1>1. EndsStop(rows, rows', t)
  BY <1>0, FinishedStopEnds DEF FinishStop
<1>2. \A u \in Turn : Base(rows[u], rows[u])
  BY BaseSame
<1>3. /\ exec' \in [Turn -> {"idle", "begun", "claimed", "reading", "ending", "posted", "failed"}]
      /\ \A u \in Turn : exec'[u] = exec[u] \/ (u = t /\ exec'[u] = "ending")
  <2>1. exec' = [exec EXCEPT ![t] = "ending"]
    BY DEF FinishStop, Goes
  <2> QED BY <1>0, <2>1 DEF QueueTypeOK
<1>4. rows[t].stop = "stopped" /\ exec[t] # "idle"
  BY <1>0 DEF FinishStop, StepFits
<1>5. Steady /\ UNCHANGED <<sub, read, cyc>>
  BY <1>3, <1>4 DEF Steady, FinishStop
<1> QED BY <1>0, <1>1, <1>2, <1>3, <1>4, <1>5, EndsStopStep

\* A turn that is parked, or told to have failed, lets go of what its stop holds.
LEMMA StatusInvariance ==
    ASSUME IInv, NEW t \in Turn, NEW s \in {"error"} \cup Parked,
           rows' = FinishedStop([rows EXCEPT ![t].status = s], t, "released"),
           rows[t].status \in Finished => s \in Finished /\ exec[t] # "idle",
           exec' \in [Turn -> {"idle", "begun", "claimed", "reading", "ending", "posted", "failed"}],
           \A u \in Turn : exec'[u] = exec[u] \/ exec'[u] = "idle",
           UNCHANGED <<sub, read, cyc>>
    PROVE  IInv'
<1> DEFINE rs == [rows EXCEPT ![t].status = s]
<1>0. rows \in [Turn -> Row]
  BY DEF IInv, QueueTypeOK
<1>1. s \in {"pending"} \cup Finished \cup Parked /\ s # "done" /\ s # "absent"
  BY DEF Finished, Parked
<1>2. /\ rs \in [Turn -> Row]
      /\ \A u \in Turn : Base(rows[u], rs[u]) /\ (u # t => rs[u] = rows[u])
      /\ rs[t].status = s /\ rs[t].fold = rows[t].fold
  BY <1>0, <1>1, StatusBase
<1>3. EndsStop(rs, rows', t)
  BY <1>2, FinishedStopEnds
<1>4. Steady
  BY DEF Steady
<1> HIDE DEF rs
<1>5. /\ \A u \in Turn : rs[u].status = "done" => rows[u].status = "done"
      /\ \A u \in Turn : rows[u].status = "done" /\ exec[u] = "idle" => rs[u].status = "done"
      /\ \A u \in Turn : rs[u].fold = "settled" => rows[u].fold = "settled"
      /\ \A u \in Turn : rs[u].status = "absent" => rs[u] = rows[u]
  BY <1>1, <1>2 DEF Finished
<1> QED BY <1>2, <1>3, <1>4, <1>5, EndsStopStep

LEMMA ParkedInvariance ==
    ASSUME IInv, NEW t \in Turn, PreflightFails(t) \/ (GiveUp(t) /\ Goes(t, "idle"))
    PROVE  IInv'
<1>0. QueueTypeOK /\ rows \in [Turn -> Row]
  BY DEF IInv, QueueTypeOK
<1>1. /\ exec' \in [Turn -> {"idle", "begun", "claimed", "reading", "ending", "posted", "failed"}]
      /\ \A u \in Turn : exec'[u] = exec[u] \/ exec'[u] = "idle"
      /\ UNCHANGED <<sub, read, cyc>>
  BY <1>0 DEF PreflightFails, GiveUp, Goes, QueueTypeOK
<1>2. PICK s \in Parked : rows' = ParkedAs(rows, t, s)
  <2>1. ~ (Goes(t, "idle") /\ Goes(t, "failed"))
    BY <1>0 DEF Goes, QueueTypeOK
  <2> QED BY <2>1 DEF PreflightFails, GiveUp, Parked
<1>3. CASE rows[t].status \notin Finished
  BY <1>1, <1>2, <1>3, StatusInvariance DEF ParkedAs
<1>4. CASE rows[t].status \in Finished
  <2>1. rows' = rows /\ EndsStop(rows, rows', t)
    BY <1>0, <1>2, <1>4, EndsStopSame DEF ParkedAs
  <2>2. Steady /\ \A u \in Turn : Base(rows[u], rows[u])
    BY <1>1, BaseSame DEF Steady
  <2> QED BY <1>0, <1>1, <2>1, <2>2, EndsStopStep
<1> QED BY <1>3, <1>4

\* The reply to h ends, in the step that records it, the messages its run read.
LEMMA RecordInvariance ==
    ASSUME IInv, NEW t \in Turn, Record(t)
    PROVE  IInv'
<1>0. /\ QueueTypeOK /\ rows \in [Turn -> Row] /\ exec[t] \in {"posted", "failed"}
      /\ \A u \in Turn : StepFits(u) /\ FoldFits(u)
  BY DEF IInv, QueueTypeOK, Record
<1>1. /\ exec' \in [Turn -> {"idle", "begun", "claimed", "reading", "ending", "posted", "failed"}]
      /\ exec'[t] = "idle" /\ \A u \in Turn : exec'[u] = exec[u] \/ exec'[u] = "idle"
      /\ UNCHANGED <<sub, read, cyc>>
  <2>1. exec' = [exec EXCEPT ![t] = "idle"]
    BY DEF Record, Goes
  <2> QED BY <1>0, <2>1 DEF QueueTypeOK, Record
<1>2. Steady
  BY <1>1 DEF Steady
<1> DEFINE S == SettledWith(rows, t)
           put(u) == IF u = t THEN [rows[u] EXCEPT !.status = "done"]
                     ELSE IF u \in S THEN [rows[u] EXCEPT !.status = "done", !.fold = "settled"]
                     ELSE rows[u]
           rs == [u \in Turn |-> put(u)]
<1>3. CASE exec[t] = "posted"
  <2>1. rows' = FinishedStop(rs, t, "released")
    BY <1>3 DEF Record, Delivered
  <2>2. ASSUME NEW u \in Turn
        PROVE  /\ put(u) \in Row /\ Base(rows[u], put(u))
               /\ put(u).status = "absent" => put(u) = rows[u]
               /\ u = t => put(u).status = "done" /\ put(u).fold = rows[u].fold
               /\ u \in S => put(u).status = "done"
               /\ u # t /\ u \in S => put(u).fold = "settled"
               /\ u # t /\ u \notin S => put(u) = rows[u]
    <3>0. rows[u] \in Row
      BY <1>0
    <3>1. CASE u = t
      BY <3>0, <3>1 DEF Row, Finished, Base, Kept
    <3>2. CASE u # t /\ u \in S
      <4>1. rows[u].fold = "absorbed"
        BY <3>2 DEF SettledWith
      <4>2. put(u) \in Row
        BY <3>0, <3>2 DEF Row, Finished
      <4>3. Base(rows[u], put(u)) /\ put(u).status = "done" /\ put(u).fold = "settled"
        BY <3>0, <3>2, <4>1 DEF Row, Finished, Base, Kept
      <4> QED BY <3>2, <4>2, <4>3
    <3>3. CASE u # t /\ u \notin S
      BY <3>0, <3>3, BaseSame
    <3> QED BY <3>1, <3>2, <3>3
  <2>3. rs \in [Turn -> Row] /\ \A u \in Turn : rs[u] = put(u)
    <3> HIDE DEF put
    <3> QED BY <2>2
  <2>4. EndsStop(rs, rows', t)
    <3> HIDE DEF rs
    <3> QED BY <2>1, <2>3, FinishedStopEnds
  <2>5. rows[t].settled # "none" \/ rows[t].stop = "stopped"
    BY <1>0, <1>3 DEF StepFits
  <2>6. ASSUME NEW u \in S
        PROVE  /\ u \in Turn /\ rows[u].foldHead = t /\ sub[t] = "completed" /\ u \in read[t]
    BY <1>0 DEF SettledWith, Members, StepFits, FoldFits
  <2> HIDE DEF put, rs, S
  <2>7. \A u \in Turn : Base(rows[u], rs[u])
    BY <2>2, <2>3
  <2>8. \A u \in Turn : rs[u].status = "done" => rows[u].status = "done" \/ Kind(rs[u])
    BY <2>2, <2>3, <2>5 DEF Kind, Base, Kept
  <2>9. \A u \in Turn : rs[u].fold = "settled" => rows[u].fold = "settled" \/ EndsWith(rs, u)
    BY <1>1, <2>2, <2>3, <2>6 DEF EndsWith, Base, Kept
  <2>10. /\ \A u \in Turn : rows[u].status = "done" => rs[u].status = "done"
         /\ \A u \in Turn : rs[u].status = "absent" => rs[u] = rows[u]
    BY <2>2, <2>3
  <2> QED BY <1>1, <1>2, <2>3, <2>4, <2>7, <2>8, <2>9, <2>10, EndsStopStep
<1>4. CASE exec[t] = "failed"
  <2> DEFINE es == [rows EXCEPT ![t].status = "error"]
  <2>1. rows' = FinishedStop(es, t, "released")
    BY <1>4 DEF Record, Errored
  <2>2. "error" \in Finished /\ exec[t] # "idle"
    BY <1>4 DEF Finished
  <2> QED BY <1>1, <2>1, <2>2, StatusInvariance
<1> QED BY <1>0, <1>3, <1>4

----------------------------------------------------------------------------
(***************************************************************************)
(* Steps that make folds, stops and dispatches.  None of them ends a turn. *)
(***************************************************************************)
\* A step that ends nothing, from r to s.
Ongoing(r, s) ==
    /\ Stands(r, s)
    /\ s.status = "done" => r.status = "done"
    /\ r.status = "done" => s.status = "done"
    /\ s.fold = "settled" => r.fold = "settled"
    /\ s.status = "absent" => s = r

LEMMA OpenInvariance ==
    ASSUME IInv, QueueTypeOK', Steady,
           \A t \in Turn : Ongoing(rows[t], rows'[t]) /\ HoldKept(t),
           \A t \in Turn : StepFits(t)' /\ FoldFits(t)'
    PROVE  IInv'
<1>0. rows' \in [Turn -> Row] /\ \A t \in Turn : Stands(rows[t], rows'[t])
  BY DEF QueueTypeOK, Ongoing
<1>1. \A t \in Turn : StopFits(t)'
  BY <1>0, StopFitsStep
<1>2. \A t \in Turn : DoneFits(t)'
  <2>1. \A t \in Turn : rows'[t].status = "done" => rows[t].status = "done" \/ Kind(rows'[t])
    BY DEF Ongoing
  <2> QED BY <1>0, <2>1, DoneFitsStep
<1>3. \A t \in Turn : EndFits(t)'
  <2>1. \A t \in Turn : rows'[t].fold = "settled" => rows[t].fold = "settled" \/ EndFits(t)'
    BY DEF Ongoing
  <2>2. \A h \in Turn : rows[h].status = "done" /\ exec[h] = "idle"
                         => rows'[h].status = "done" /\ exec'[h] = "idle"
    BY DEF Ongoing, Steady
  <2> QED BY <1>0, <2>1, <2>2, EndFitsStep DEF Steady
<1>4. \A t \in Turn : AbsentFits(t)'
  BY DEF Ongoing, IInv, AbsentFits, Steady
<1> QED BY <1>1, <1>2, <1>3, <1>4 DEF IInv

LEMMA SameOpen ==
    ASSUME NEW t \in Turn, rows'[t] = rows[t]
    PROVE  Ongoing(rows[t], rows'[t]) /\ HoldKept(t) /\ FoldSame(t)
  BY DEF Ongoing, Stands, HoldKept, FoldSame

LEMMA NoRowFits ==
    /\ NoRow \in Row
    /\ NoRow.fold = "none" /\ NoRow.dispatch = "none" /\ NoRow.settled = "none"
    /\ NoRow.attempts = 0 /\ NoRow.stop = "none" /\ NoRow.status = "absent"
<1>1. 0 \in 0..MaxCycle
  BY QueueAssumption
<1>2. NoRow \in Row
  BY <1>1 DEF NoRow, Row
<1> QED BY <1>2 DEF NoRow

\* A fresh row, held when a stop that came after its message is unfinished.
LEMMA EnqueueInvariance ==
    ASSUME IInv, NEW t \in Turn, Enqueue(t)
    PROVE  IInv'
<1>0. /\ QueueTypeOK /\ rows \in [Turn -> Row] /\ rows[t].status = "absent"
      /\ \A u \in Turn : StepFits(u)
      /\ UNCHANGED <<exec, sub, read, cyc>>
      /\ rows[t].stop = "none" /\ rows[t].fold = "none" /\ rows[t].attempts = 0
      /\ rows[t].dispatch = "none" /\ rows[t].settled = "none"
  BY DEF IInv, QueueTypeOK, Enqueue, AbsentFits
<1> DEFINE place == Cardinality({u \in Turn : rows[u].status # "absent"}) + 1
           Heads == {h \in Turn : Unfinished(rows, h) /\ t < rows[h].cutoff}
           fresh == [NoRow EXCEPT !.status = "pending", !.place = place]
           held == [fresh EXCEPT !.stop = "held", !.stopHead = CHOOSE h \in Heads : TRUE]
<1>1. place \in Nat
  <2>1. IsFiniteSet({u \in Turn : rows[u].status # "absent"})
    BY QueueAssumption, FS_Subset
  <2> QED BY <2>1, FS_CardinalityType
<1> HIDE DEF place
<1>2. /\ fresh.status = "pending" /\ fresh.fold = "none" /\ fresh.dispatch = "none"
      /\ fresh.settled = "none" /\ fresh.attempts = 0 /\ fresh.stop = "none"
  BY NoRowFits DEF Row
<1>3. fresh \in Row
  BY <1>1, NoRowFits DEF Row
<1> HIDE DEF fresh
<1>4. ASSUME Heads # {}
      PROVE  /\ held \in Row /\ held.stop = "held" /\ held.stopHead \in Heads
             /\ held.status = "pending" /\ held.fold = "none" /\ held.dispatch = "none"
             /\ held.settled = "none" /\ held.attempts = 0
  <2> DEFINE x == CHOOSE h \in Heads : TRUE
  <2>1. x \in Heads
    BY <1>4
  <2>2. x \in Turn
    BY <2>1
  <2> HIDE DEF x, Heads
  <2>3. held \in Row
    BY <1>3, <2>2 DEF x, Row
  <2>4. held.stop = "held" /\ held.stopHead = x
    BY <1>3 DEF x, Row
  <2>5. /\ held.status = "pending" /\ held.fold = "none" /\ held.dispatch = "none"
        /\ held.settled = "none" /\ held.attempts = 0
    BY <1>2, <1>3 DEF Row
  <2> QED BY <2>1, <2>3, <2>4, <2>5
<1>5. /\ rows'[t] \in Row /\ \A u \in Turn : u # t => rows'[u] = rows[u]
      /\ rows' \in [Turn -> Row]
      /\ rows'[t].status = "pending" /\ rows'[t].fold = "none" /\ rows'[t].dispatch = "none"
      /\ rows'[t].settled = "none" /\ rows'[t].attempts = 0
      /\ \/ rows'[t].stop = "none"
         \/ rows'[t].stop = "held" /\ rows'[t].stopHead \in Heads
  <2>1. CASE Heads = {}
    <3>1. rows' = [rows EXCEPT ![t] = fresh]
      BY <2>1 DEF Enqueue, fresh, place
    <3> HIDE DEF Heads
    <3> QED BY <1>0, <1>2, <1>3, <3>1
  <2>2. CASE Heads # {}
    <3>1. rows' = [rows EXCEPT ![t] = held]
      BY <2>2 DEF Enqueue, fresh, place
    <3> HIDE DEF Heads, held
    <3> QED BY <1>0, <1>4, <2>2, <3>1
  <2> QED BY <2>1, <2>2
<1>6. QueueTypeOK'
  BY <1>0, <1>5 DEF QueueTypeOK
<1>7. Steady
  BY <1>0 DEF Steady
<1>8. ASSUME NEW u \in Turn
      PROVE  Ongoing(rows[u], rows'[u]) /\ HoldKept(u) /\ FoldSame(u)
  <2>1. CASE u # t
    BY <1>5, <2>1, SameOpen
  <2>2. CASE u = t
    <3>1. Ongoing(rows[t], rows'[t])
      BY <1>0, <1>5 DEF Ongoing, Stands, Finished
    <3>2. ASSUME rows'[t].stop = "held" PROVE StopFits(t)'
      <4> DEFINE h == rows'[t].stopHead
      <4>1. /\ h \in Turn /\ rows[h].stop = "stopped" /\ t < rows[h].cutoff /\ h # t
        BY <1>0, <1>5, <3>2 DEF Unfinished, Pending
      <4> QED BY <1>5, <3>2, <4>1 DEF StopFits
    <3>3. HoldKept(t)
      BY <1>5, <3>2 DEF HoldKept
    <3> QED BY <1>5, <2>2, <3>1, <3>3 DEF FoldSame
  <2> QED BY <2>1, <2>2
<1>9. ASSUME NEW u \in Turn PROVE StepFits(u)'
  <2>1. CASE u # t
    BY <1>0, <1>5, <2>1 DEF StepFits
  <2>2. CASE u = t
    BY <1>0, <1>5, <2>2 DEF StepFits
  <2> QED BY <2>1, <2>2
<1>10. \A u \in Turn : FoldFits(u)'
  <2>1. \A h \in Turn : rows'[h].dispatch = "none" <=> rows[h].dispatch = "none"
    BY <1>0, <1>5
  <2> QED BY <1>0, <1>8, <2>1, FoldFitsStep
<1> QED BY <1>6, <1>7, <1>8, <1>9, <1>10, OpenInvariance

\* A frozen dispatch holds every message its turn has taken.
LEMMA PrepareInvariance ==
    ASSUME IInv, NEW t \in Turn, Prepare(t)
    PROVE  IInv'
<1>0. /\ QueueTypeOK /\ rows \in [Turn -> Row] /\ rows[t] \in Row
      /\ \A u \in Turn : StepFits(u) /\ FoldFits(u) /\ AbsentFits(u)
      /\ exec[t] = "claimed" /\ rows[t].dispatch = "none" /\ rows[t].attempts > 0
      /\ rows[t].status # "absent" /\ sub[t] = "none" /\ cyc[t] = 0
      /\ UNCHANGED <<sub, cyc>>
  BY DEF IInv, QueueTypeOK, Prepare, StepFits, AbsentFits
<1>1. CASE Refused(rows, t)
  <2>1. /\ rows' = [rows EXCEPT ![t].attempts = @ - 1] /\ exec' = [exec EXCEPT ![t] = "idle"]
        /\ UNCHANGED read
    BY <1>1 DEF Prepare, Goes
  <2>2. rows[t].attempts - 1 \in Nat
    BY <1>0 DEF Row
  <2>3. /\ rows'[t] = [rows[t] EXCEPT !.attempts = @ - 1]
        /\ \A u \in Turn : u # t => rows'[u] = rows[u]
    BY <1>0, <2>1
  <2>4. rows'[t] \in Row
    BY <1>0, <2>2, <2>3 DEF Row
  <2>5. /\ Quiet(rows[t], rows'[t]) /\ rows'[t].dispatch = rows[t].dispatch
        /\ rows'[t].settled = rows[t].settled /\ rows'[t].status = rows[t].status
    BY <1>0, <2>3 DEF Row, Quiet
  <2>6. rows' \in [Turn -> Row]
    BY <1>0, <2>1, <2>4
  <2>7. QueueTypeOK' /\ Steady
    BY <1>0, <2>1, <2>6 DEF QueueTypeOK, Steady
  <2>8. /\ \A u \in Turn : Quiet(rows[u], rows'[u])
        /\ \A u \in Turn : rows'[u].dispatch = "none" <=> rows[u].dispatch = "none"
        /\ \A u \in Turn : rows'[u].status = "absent" => rows'[u] = rows[u]
    BY <1>0, <2>3, <2>5 DEF Quiet
  <2>9. ASSUME NEW u \in Turn PROVE StepFits(u)'
    <3>1. exec' = [exec EXCEPT ![t] = "idle"] /\ exec \in [Turn -> {"idle", "begun", "claimed",
                   "reading", "ending", "posted", "failed"}]
      BY <1>0, <2>1 DEF QueueTypeOK
    <3>2. CASE u = t
      BY <1>0, <2>5, <3>1, <3>2 DEF StepFits
    <3>3. CASE u # t
      BY <1>0, <2>3, <3>1, <3>3 DEF StepFits
    <3> QED BY <3>2, <3>3
  <2> QED BY <1>0, <2>1, <2>7, <2>8, <2>9, QuietInvariance
<1>2. CASE ~Refused(rows, t)
  <2> DEFINE in == {t} \cup CycleOf(rows, t, 0)
  <2>1. /\ rows' = [rows EXCEPT ![t].dispatch = "started"] /\ exec' = [exec EXCEPT ![t] = "begun"]
        /\ read' = [read EXCEPT ![t] = in]
    BY <1>2 DEF Prepare, Goes
  <2>2. in \in SUBSET Turn
    BY DEF CycleOf, Members
  <2>3. \A u \in Turn : rows[u].fold # "none" /\ rows[u].foldHead = t => u \in in
    BY <1>0 DEF FoldFits, CycleOf, Members
  <2> HIDE DEF in
  <2>4. /\ rows'[t] = [rows[t] EXCEPT !.dispatch = "started"]
        /\ \A u \in Turn : u # t => rows'[u] = rows[u]
    BY <1>0, <2>1
  <2>5. /\ rows'[t] \in Row /\ Quiet(rows[t], rows'[t]) /\ rows'[t].status = rows[t].status
        /\ rows'[t].settled = rows[t].settled /\ rows'[t].dispatch = "started"
    BY <1>0, <2>4 DEF Row, Quiet
  <2>6. rows' \in [Turn -> Row]
    BY <1>0, <2>1, <2>5
  <2>7. QueueTypeOK' /\ Steady
    BY <1>0, <2>1, <2>2, <2>6 DEF QueueTypeOK, Steady
  <2>8. \A u \in Turn : Quiet(rows[u], rows'[u])
    BY <2>4, <2>5 DEF Quiet
  <2>9. \A u \in Turn : FoldSame(u) /\ StopFits(u)' /\ EndFits(u)' /\ DoneFits(u)'
    BY <2>6, <2>7, <2>8, QuietStep
  <2>10. ASSUME NEW u \in Turn PROVE FoldFits(u)'
    <3>1. SUFFICES ASSUME rows'[u].fold # "none" PROVE FoldFits(u)'
      BY DEF FoldFits
    <3>2. /\ rows[u].fold # "none" /\ rows'[u].foldHead = rows[u].foldHead /\ FoldFits(u)
          /\ rows'[u].cycle = rows[u].cycle /\ rows'[u].received = rows[u].received
      BY <1>0, <2>9, <3>1 DEF FoldSame
    <3>3. CASE rows[u].foldHead = t
      <4>1. u \in read'[t] /\ rows'[t].dispatch # "none"
        BY <1>0, <2>1, <2>3, <2>5, <3>2, <3>3 DEF QueueTypeOK
      <4> QED BY <3>2, <3>3, <4>1 DEF FoldFits
    <3>4. CASE rows[u].foldHead # t
      <4>1. /\ rows[u].foldHead \in Turn /\ rows'[rows[u].foldHead] = rows[rows[u].foldHead]
            /\ read'[rows[u].foldHead] = read[rows[u].foldHead]
        BY <1>0, <2>1, <2>4, <3>2, <3>4 DEF FoldFits, QueueTypeOK
      <4> QED BY <1>0, <3>2, <4>1 DEF FoldFits
    <3> QED BY <3>3, <3>4
  <2>11. ASSUME NEW u \in Turn PROVE StepFits(u)'
    <3>1. exec' = [exec EXCEPT ![t] = "begun"] /\ exec \in [Turn -> {"idle", "begun", "claimed",
                   "reading", "ending", "posted", "failed"}]
      BY <1>0, <2>1 DEF QueueTypeOK
    <3>2. CASE u = t
      BY <1>0, <2>5, <3>1, <3>2 DEF StepFits
    <3>3. CASE u # t
      BY <1>0, <2>4, <3>1, <3>3 DEF StepFits
    <3> QED BY <3>2, <3>3
  <2>12. ASSUME NEW u \in Turn PROVE AbsentFits(u)'
    <3>1. CASE u = t
      BY <1>0, <2>5, <3>1 DEF AbsentFits
    <3>2. CASE u # t
      <4>1. rows'[u] = rows[u] /\ AbsentFits(u)
        BY <1>0, <2>4, <3>2
      <4> QED BY <2>7, <4>1 DEF AbsentFits, Steady
    <3> QED BY <3>1, <3>2
  <2> QED BY <2>7, <2>9, <2>10, <2>11, <2>12 DEF IInv
<1> QED BY <1>1, <1>2

\* The roles of the messages taken at the start.
LEMMA RoleInHolding == ASSUME NEW h, NEW t, NEW plan PROVE RoleIn(h, t, plan) \in Holding
  BY DEF RoleIn, Holding

LEMMA FreezeInvariance ==
    ASSUME IInv, NEW t \in Turn, NEW plan \in {"shared", "personal"}, Freeze(t, plan)
    PROVE  IInv'
<1>0. /\ QueueTypeOK /\ rows \in [Turn -> Row] /\ exec[t] = "claimed"
      /\ \A u \in Turn : StepFits(u) /\ AbsentFits(u)
      /\ UNCHANGED <<exec, sub, read, cyc>>
      /\ rows[t].status # "absent"
  BY DEF IInv, QueueTypeOK, Freeze, StepFits, AbsentFits
<1>1. ASSUME NEW u \in Turn
      PROVE  /\ rows'[u] \in Row /\ Ongoing(rows[u], rows'[u]) /\ HoldKept(u) /\ FoldSame(u)
             /\ Same(rows[u], rows'[u]) /\ rows'[u].stop = rows[u].stop
  <2>0. rows[u] \in Row
    BY <1>0
  <2>1. CASE u = t
    <3>1. rows'[u] = [rows[u] EXCEPT !.plan = plan]
      BY <2>1 DEF Freeze, Frozen
    <3>2. rows'[u] \in Row /\ rows'[u].status = rows[u].status
      BY <2>0, <3>1 DEF Row
    <3>3. Quiet(rows[u], rows'[u]) /\ Same(rows[u], rows'[u])
      BY <2>0, <3>1, <3>2 DEF Row, Quiet, Same
    <3> QED BY <1>0, <2>1, <3>2, <3>3 DEF Ongoing, Stands, HoldKept, FoldSame, Quiet
  <2>2. CASE u # t /\ u \in CycleOf(rows, t, 0) /\ rows[u].fold \in Holding
    <3>1. rows'[u] = [rows[u] EXCEPT !.fold = RoleIn(t, u, plan)]
      BY <2>2 DEF Freeze, Frozen
    <3>2. rows'[u] \in Row /\ rows'[u].fold \in Holding
      BY <2>0, <3>1, RoleInHolding DEF Row
    <3>3. /\ rows'[u].status = rows[u].status /\ rows'[u].stop = rows[u].stop
          /\ rows'[u].ending = rows[u].ending /\ Kept(rows[u], rows'[u])
      BY <2>0, <3>1 DEF Row, Kept
    <3>4. rows[u].fold \notin {"none", "settled"} /\ rows'[u].fold \notin {"none", "settled"}
      BY <2>2, <3>2 DEF Holding
    <3>5. rows[u].status # "absent"
      BY <1>0, <3>4 DEF AbsentFits
    <3> QED BY <3>2, <3>3, <3>4, <3>5 DEF Ongoing, Stands, HoldKept, FoldSame, Kept, Same
  <2>3. CASE u # t /\ ~(u \in CycleOf(rows, t, 0) /\ rows[u].fold \in Holding)
    <3>1. rows'[u] = rows[u]
      BY <2>3 DEF Freeze, Frozen
    <3> QED BY <2>0, <3>1, SameOpen DEF Same
  <2> QED BY <2>1, <2>2, <2>3
<1>2. rows' \in [Turn -> Row]
  BY <1>1 DEF Freeze, Frozen
<1>3. QueueTypeOK' /\ Steady
  BY <1>0, <1>2 DEF QueueTypeOK, Steady
<1>4. \A u \in Turn : StepFits(u)'
  BY <1>0, <1>1 DEF StepFits, Same
<1>5. \A u \in Turn : FoldFits(u)'
  <2>1. \A h \in Turn : rows'[h].dispatch = "none" <=> rows[h].dispatch = "none"
    BY <1>1 DEF Same
  <2> QED BY <1>0, <1>1, <2>1, FoldFitsStep
<1> QED BY <1>1, <1>3, <1>4, <1>5, OpenInvariance

\* A row that h takes for a cycle, from r to s.
Taken(r, s, h, cycle) ==
    /\ r.status = "pending" /\ s.status = "pending"
    /\ s.stop = r.stop /\ s.stopHead = r.stopHead /\ s.cutoff = r.cutoff /\ s.ending = r.ending
    /\ Same(r, s)
    /\ s.fold \in Holding /\ s.foldHead = h /\ s.cycle = cycle /\ s.received = (cycle = 0)

LEMMA ClaimedTakes ==
    ASSUME NEW rs \in [Turn -> Row], NEW h \in Turn, NEW c \in 0..MaxCycle, NEW n
    PROVE  LET ss == Claimed(rs, h, c, n) IN
           /\ ss \in [Turn -> Row]
           /\ \A t \in Turn : ss[t] = rs[t] \/ (t # h /\ Taken(rs[t], ss[t], h, c))
<1> DEFINE ss == Claimed(rs, h, c, n)
           T == Takes(rs, h, n)
           put(t) == [rs[t] EXCEPT !.fold = RoleIn(h, t, rs[h].plan), !.foldHead = h,
                                   !.cycle = c, !.received = (c = 0)]
<1>1. CASE \E t \in Members(rs, h) : rs[t].cycle = c
  BY <1>1 DEF Claimed
<1>2. CASE ~\E t \in Members(rs, h) : rs[t].cycle = c
  <2>1. ss = [t \in Turn |-> IF t \in T THEN put(t) ELSE rs[t]]
    BY <1>2 DEF Claimed
  <2>2. ASSUME NEW t \in T PROVE t \in Turn /\ t # h /\ rs[t].status = "pending"
    <3>1. t \in Waiting(rs, h)
      BY <2>2 DEF Takes
    <3>2. t \in Turn /\ rs[t].status = "pending" /\ rs[h].place < rs[t].place
      BY <3>1 DEF Waiting, Pending, Before
    <3>3. rs[h].place \in Nat
      BY DEF Row
    <3> QED BY <3>2, <3>3
  <2>3. ASSUME NEW t \in T PROVE put(t) \in Row /\ Taken(rs[t], put(t), h, c)
    <3>1. rs[t] \in Row /\ RoleIn(h, t, rs[h].plan) \in Holding /\ (c = 0) \in BOOLEAN
      BY <2>2, RoleInHolding
    <3>2. PICK role \in Holding, got \in BOOLEAN :
            /\ put(t) = [rs[t] EXCEPT !.fold = role, !.foldHead = h, !.cycle = c, !.received = got]
            /\ got = (c = 0)
      BY <3>1
    <3> HIDE DEF put
    <3>3. put(t) \in Row
      BY <3>1, <3>2 DEF Row
    <3>4. /\ put(t).fold = role /\ put(t).foldHead = h /\ put(t).cycle = c
          /\ put(t).received = got
      BY <3>1, <3>2 DEF Row
    <3>5. /\ put(t).status = rs[t].status /\ put(t).stop = rs[t].stop
          /\ put(t).stopHead = rs[t].stopHead /\ put(t).cutoff = rs[t].cutoff
          /\ put(t).ending = rs[t].ending /\ Same(rs[t], put(t))
      BY <3>1, <3>2 DEF Row, Same
    <3>6. Taken(rs[t], put(t), h, c)
      BY <2>2, <3>2, <3>4, <3>5 DEF Taken
    <3> QED BY <3>3, <3>6
  <2> HIDE DEF put, T, ss
  <2> QED BY <2>1, <2>2, <2>3 DEF ss
<1> QED BY <1>1, <1>2

\* A row that a turn takes goes on, unless it had ended with another turn.
LEMMA TakenOngoing ==
    ASSUME IInv, NEW t \in Turn, NEW h, NEW c, Taken(rows[t], rows'[t], h, c)
    PROVE  Ongoing(rows[t], rows'[t]) /\ HoldKept(t)
<1>1. rows[t].fold # "settled" /\ rows'[t].fold \notin {"none", "settled"}
  BY DEF IInv, EndFits, Taken, Finished, Holding
<1> QED BY <1>1 DEF Taken, Same, Ongoing, Stands, HoldKept, Finished

LEMMA ClaimInvariance ==
    ASSUME IInv, NEW t \in Turn, NEW n, Claim(t, n)
    PROVE  IInv'
<1> DEFINE rs == [rows EXCEPT ![t].attempts = @ + 1]
<1>0. /\ QueueTypeOK /\ rows \in [Turn -> Row] /\ rows[t] \in Row
      /\ \A u \in Turn : StepFits(u) /\ FoldFits(u) /\ AbsentFits(u)
      /\ exec[t] = "begun" /\ rows[t].dispatch = "none"
      /\ exec' = [exec EXCEPT ![t] = "claimed"]
      /\ UNCHANGED <<sub, read, cyc>>
  BY DEF IInv, QueueTypeOK, Claim, Goes
<1>1. rows' = rs \/ rows' = Claimed(rs, t, 0, n)
  BY DEF Claim
<1>2. /\ rs[t] = [rows[t] EXCEPT !.attempts = @ + 1]
      /\ \A u \in Turn : u # t => rs[u] = rows[u]
  BY <1>0
<1>3. rs[t] \in Row /\ rs[t].attempts > 0
  BY <1>0, <1>2 DEF Row
<1>4. /\ Quiet(rows[t], rs[t]) /\ rs[t].dispatch = rows[t].dispatch
      /\ rs[t].settled = rows[t].settled /\ rs[t].status = rows[t].status
  BY <1>0, <1>2 DEF Row, Quiet
<1>5. rs \in [Turn -> Row]
  BY <1>0, <1>3
<1>6. 0 \in 0..MaxCycle
  BY QueueAssumption
<1> HIDE DEF rs
<1>7. /\ rows' \in [Turn -> Row]
      /\ \A u \in Turn : rows'[u] = rs[u] \/ (u # t /\ Taken(rs[u], rows'[u], t, 0))
  BY <1>1, <1>5, <1>6, ClaimedTakes
<1>8. rows[t].status # "absent"
  BY <1>0 DEF AbsentFits
<1>9. QueueTypeOK' /\ Steady
  BY <1>0, <1>7 DEF QueueTypeOK, Steady
<1>10. ASSUME NEW u \in Turn
       PROVE  /\ Ongoing(rows[u], rows'[u]) /\ HoldKept(u)
              /\ rows'[u].dispatch = rows[u].dispatch /\ rows'[u].settled = rows[u].settled
              /\ rows'[u].stop = rows[u].stop
  <2>1. CASE u = t
    <3>1. rows'[t] = rs[t]
      BY <1>7
    <3> QED BY <1>4, <1>8, <2>1, <3>1 DEF Quiet, Ongoing, Stands, HoldKept
  <2>2. CASE u # t /\ rows'[u] = rows[u]
    BY <2>2, SameOpen
  <2>3. CASE u # t /\ Taken(rows[u], rows'[u], t, 0)
    BY <2>3, TakenOngoing DEF Taken, Same
  <2> QED BY <1>2, <1>7, <2>1, <2>2, <2>3
<1>11. \A u \in Turn : FoldFits(u)'
  <2>1. ASSUME NEW u \in Turn PROVE FoldSame(u) \/ FoldFits(u)'
    <3>1. CASE u = t
      BY <1>4, <1>7, <3>1 DEF FoldSame, Quiet
    <3>2. CASE u # t /\ rows'[u] = rows[u]
      BY <3>2, SameOpen
    <3>3. CASE u # t /\ Taken(rows[u], rows'[u], t, 0)
      <4>1. rows'[t].dispatch = "none" /\ cyc'[t] \in Nat
        BY <1>0, <1>9, <1>10, QueueAssumption DEF QueueTypeOK
      <4> QED BY <3>3, <4>1 DEF FoldFits, Taken
    <3> QED BY <1>2, <1>7, <3>1, <3>2, <3>3
  <2> QED BY <1>0, <1>10, <2>1, FoldFitsStep
<1>12. ASSUME NEW u \in Turn PROVE StepFits(u)'
  <2>1. CASE u = t
    <3>1. rows'[t].attempts > 0 /\ exec'[t] = "claimed"
      BY <1>0, <1>3, <1>7 DEF QueueTypeOK
    <3> QED BY <1>0, <1>10, <2>1, <3>1 DEF StepFits
  <2>2. CASE u # t
    <3>1. rows'[u].attempts = rows[u].attempts /\ exec'[u] = exec[u]
      BY <1>0, <1>2, <1>7, <2>2 DEF QueueTypeOK, Taken, Same
    <3> QED BY <1>0, <1>10, <3>1 DEF StepFits
  <2> QED BY <2>1, <2>2
<1> QED BY <1>9, <1>10, <1>11, <1>12, OpenInvariance

\* What a run read of a late claim is what the store then counts as read.
LEMMA LateFoldInvariance ==
    ASSUME IInv, NEW h \in Turn, NEW n, LateFold(h, n)
    PROVE  IInv'
<1> DEFINE rs == Confirmed(rows, h, cyc[h])
           next == cyc[h] + 1
           answer == CycleOf(rows', h, next)
<1>0. /\ QueueTypeOK /\ rows \in [Turn -> Row] /\ cyc[h] \in 0..MaxCycle /\ MaxCycle \in Nat
      /\ \A u \in Turn : StepFits(u) /\ FoldFits(u) /\ AbsentFits(u)
      /\ sub[h] = "running" /\ rows[h].dispatch # "none" /\ rows[h].status # "absent"
      /\ UNCHANGED <<exec, sub>>
  BY QueueAssumption DEF IInv, QueueTypeOK, LateFold, StepFits, AbsentFits
<1>1. rows' = rs \/ (next \in 0..MaxCycle /\ rows' = Claimed(rs, h, next, n))
  BY <1>0 DEF LateFold
<1>2. \/ UNCHANGED <<read, cyc>>
      \/ /\ answer # {} /\ read' = [read EXCEPT ![h] = @ \cup answer]
         /\ cyc' \in {cyc, [cyc EXCEPT ![h] = next]}
  BY DEF LateFold
<1>3. ASSUME NEW u \in Turn
      PROVE  /\ rs[u] \in Row
             /\ \/ rs[u] = rows[u]
                \/ /\ rs[u] = [rows[u] EXCEPT !.received = TRUE]
                   /\ rows[u].fold # "none" /\ rows[u].foldHead = h /\ rows[u].cycle \in 1..cyc[h]
  <2>0. rows[u] \in Row
    BY <1>0
  <2>1. CASE u \in Members(rows, h) /\ rows[u].cycle \in 1..cyc[h]
    <3>1. rs[u] = [rows[u] EXCEPT !.received = TRUE]
      BY <2>1 DEF Confirmed
    <3>2. rs[u] \in Row
      BY <2>0, <3>1 DEF Row
    <3> QED BY <2>1, <3>1, <3>2 DEF Members
  <2>2. CASE ~(u \in Members(rows, h) /\ rows[u].cycle \in 1..cyc[h])
    BY <2>0, <2>2 DEF Confirmed
  <2> QED BY <2>1, <2>2
<1>4. rs \in [Turn -> Row]
  BY <1>3 DEF Confirmed
<1> HIDE DEF rs
<1>5. /\ rows' \in [Turn -> Row]
      /\ \A u \in Turn : rows'[u] = rs[u] \/ Taken(rs[u], rows'[u], h, next)
  <2>1. CASE rows' = rs
    BY <1>4, <2>1
  <2>2. CASE next \in 0..MaxCycle /\ rows' = Claimed(rs, h, next, n)
    <3> HIDE DEF next
    <3> QED BY <1>4, <2>2, ClaimedTakes
  <2> QED BY <1>1, <2>1, <2>2
\* The three ways of a row.
<1>6. ASSUME NEW u \in Turn
      PROVE  \/ rows'[u] = rows[u]
             \/ /\ rows'[u] = [rows[u] EXCEPT !.received = TRUE]
                /\ rows[u].fold # "none" /\ rows[u].foldHead = h /\ rows[u].cycle \in 1..cyc[h]
             \/ Taken(rows[u], rows'[u], h, next)
  <2>1. CASE Taken(rs[u], rows'[u], h, next) /\ rs[u] # rows[u]
    <3>1. rows[u] \in Row /\ rs[u] = [rows[u] EXCEPT !.received = TRUE]
      BY <1>0, <1>3, <2>1
    <3>2. /\ rs[u].status = rows[u].status /\ rs[u].stop = rows[u].stop
          /\ rs[u].stopHead = rows[u].stopHead /\ rs[u].cutoff = rows[u].cutoff
          /\ rs[u].ending = rows[u].ending /\ Same(rows[u], rs[u])
      BY <3>1 DEF Row, Same
    <3> QED BY <2>1, <3>2 DEF Taken, Same
  <2> QED BY <1>3, <1>5, <2>1
<1>7. answer \in SUBSET Turn /\ (answer # {} => next \in 0..MaxCycle)
  BY <1>5 DEF CycleOf, Members, Row
<1>8. QueueTypeOK'
  BY <1>0, <1>2, <1>5, <1>7 DEF QueueTypeOK
<1>9. /\ \A u \in Turn : read[u] \subseteq read'[u]
      /\ \A u \in Turn : cyc'[u] = cyc[u] \/ (u = h /\ cyc'[h] = next /\ answer \subseteq read'[h])
  BY <1>0, <1>2 DEF QueueTypeOK
<1>10. Steady
  BY <1>0, <1>9 DEF Steady
<1>11. ASSUME NEW u \in Turn
       PROVE  /\ Ongoing(rows[u], rows'[u]) /\ HoldKept(u)
              /\ Same(rows[u], rows'[u]) /\ rows'[u].stop = rows[u].stop
  <2>1. CASE rows'[u] = rows[u]
    BY <2>1, SameOpen DEF Same
  <2>2. CASE /\ rows'[u] = [rows[u] EXCEPT !.received = TRUE] /\ rows[u].fold # "none"
    <3>1. rows[u] \in Row /\ rows[u].status # "absent"
      BY <1>0, <2>2 DEF AbsentFits
    <3>2. /\ rows'[u].status = rows[u].status /\ rows'[u].stop = rows[u].stop
          /\ rows'[u].stopHead = rows[u].stopHead /\ rows'[u].cutoff = rows[u].cutoff
          /\ rows'[u].ending = rows[u].ending /\ Same(rows[u], rows'[u])
          /\ rows'[u].fold = rows[u].fold /\ rows'[u].foldHead = rows[u].foldHead
      BY <2>2, <3>1 DEF Row, Same
    <3> QED BY <3>1, <3>2 DEF Ongoing, Stands, HoldKept, Same
  <2>3. CASE Taken(rows[u], rows'[u], h, next)
    BY <2>3, TakenOngoing DEF Taken
  <2> QED BY <1>6, <2>1, <2>2, <2>3
<1>12. ASSUME NEW u \in Turn PROVE FoldFits(u)'
  <2> DEFINE k == rows[u].foldHead
  <2>1. CASE rows'[u] = rows[u]
    <3>1. SUFFICES ASSUME rows[u].fold # "none" PROVE FoldFits(u)'
      BY <2>1 DEF FoldFits
    <3>2. FoldFits(u) /\ k \in Turn /\ Same(rows[k], rows'[k]) /\ read[k] \subseteq read'[k]
      BY <1>0, <1>9, <1>11, <3>1 DEF FoldFits
    <3>3. rows[u].cycle \in 1..cyc'[k] => u \in read'[k]
      <4>1. CASE cyc'[k] = cyc[k]
        BY <3>1, <3>2, <4>1 DEF FoldFits
      <4>2. CASE k = h /\ cyc'[h] = next /\ answer \subseteq read'[h]
        <5>1. CASE rows[u].cycle = next
          BY <2>1, <3>1, <4>2, <5>1 DEF CycleOf, Members
        <5>2. CASE rows[u].cycle # next
          <6>1. rows[u].cycle \in 1..next => rows[u].cycle \in 1..cyc[h]
            BY <1>0, <5>2 DEF Row
          <6> QED BY <3>1, <3>2, <4>2, <6>1 DEF FoldFits
        <5> QED BY <5>1, <5>2
      <4> QED BY <1>9, <3>2, <4>1, <4>2
    <3> QED BY <2>1, <3>1, <3>2, <3>3 DEF FoldFits, Same
  <2>2. CASE /\ rows'[u] = [rows[u] EXCEPT !.received = TRUE]
             /\ rows[u].fold # "none" /\ k = h /\ rows[u].cycle \in 1..cyc[h]
    <3>1. u \in read'[h] /\ Same(rows[h], rows'[h])
      BY <1>0, <1>9, <1>11, <2>2 DEF FoldFits
    <3>2. rows'[u].foldHead = h
      BY <1>0, <2>2 DEF Row
    <3> QED BY <1>0, <3>1, <3>2 DEF FoldFits, Same
  <2>3. CASE Taken(rows[u], rows'[u], h, next)
    <3>1. /\ rows'[u].foldHead = h /\ rows'[u].cycle = next /\ rows'[u].received = (next = 0)
          /\ rows'[u].fold # "none" /\ Same(rows[h], rows'[h])
      BY <1>11, <2>3 DEF Taken, Holding
    <3>2. next # 0 /\ ~rows'[u].received
      <4>1. next # 0
        BY <1>0
      <4> HIDE DEF next
      <4> QED BY <3>1, <4>1, Zenon
    <3>3. next \in 1..cyc'[h] => u \in read'[h]
      <4>1. CASE cyc'[h] = cyc[h]
        BY <1>0, <4>1
      <4>2. CASE answer \subseteq read'[h]
        BY <3>1, <4>2 DEF CycleOf, Members
      <4> QED BY <1>9, <4>1, <4>2
    <3> QED BY <1>0, <3>1, <3>2, <3>3 DEF FoldFits, Same
  <2> QED BY <1>6, <2>1, <2>2, <2>3
<1>13. ASSUME NEW u \in Turn PROVE StepFits(u)'
  <2>1. rows'[u].dispatch = "none" => cyc'[u] = 0
    BY <1>0, <1>9, <1>11 DEF StepFits, Same
  <2> QED BY <1>0, <1>11, <2>1 DEF StepFits, Same
<1> QED BY <1>8, <1>10, <1>11, <1>12, <1>13, OpenInvariance

\* A stop that is not over keeps no other turn stopped, so it unseats no holder.
LEMMA StopInvariance ==
    ASSUME IInv, NEW cutoff \in Cutoff, Stop(cutoff)
    PROVE  IInv'
<1> DEFINE before == {t \in Turn : Pending(rows, t) /\ t < cutoff}
<1>0. /\ QueueTypeOK /\ rows \in [Turn -> Row] /\ UNCHANGED <<exec, sub, read, cyc>>
      /\ \A t \in Turn : StepFits(t) /\ FoldFits(t) /\ StopFits(t)
      /\ \A t \in Turn : rows[t].status = "pending" => rows[t].stop # "stopped"
  BY DEF IInv, QueueTypeOK, Stop, Pending
<1>1. PICK h \in StopHeads(rows, before) : rows' = Stopped(rows, h, before, cutoff)
  BY DEF Stop
<1>2. h \in Turn /\ rows[h].status = "pending" /\ rows[h].stop \notin {"stopped", "dropped"}
  <2>1. h \in before
    BY DEF StopHeads
  <2> QED BY <1>0, <2>1 DEF Pending, StopFits, Finished
<1>3. ASSUME NEW t \in Turn
      PROVE  /\ rows'[t] \in Row /\ Ongoing(rows[t], rows'[t]) /\ Same(rows[t], rows'[t])
             /\ FoldSame(t)
             /\ t = h => rows'[t].stop = "stopped" /\ rows'[t].cutoff = cutoff
             /\ \/ rows'[t].stop = rows[t].stop /\ rows'[t].stopHead = rows[t].stopHead
                \/ t = h
                \/ rows'[t].stop = "held" /\ rows'[t].stopHead = h /\ t < cutoff
  <2>0. rows[t] \in Row /\ cutoff \in Cutoff \cup {0}
    BY <1>0
  <2>1. CASE t = h
    <3>1. rows'[t] = [rows[t] EXCEPT !.stop = "stopped", !.stopHead = None,
                                     !.cutoff = cutoff, !.ending = "none"]
      BY <1>1, <2>1 DEF Stopped
    <3>2. rows'[t] \in Row
      BY <2>0, <3>1 DEF Row
    <3>3. /\ rows'[t].stop = "stopped" /\ rows'[t].cutoff = cutoff
          /\ rows'[t].status = rows[t].status /\ rows'[t].fold = rows[t].fold
          /\ rows'[t].foldHead = rows[t].foldHead /\ rows'[t].cycle = rows[t].cycle
          /\ rows'[t].received = rows[t].received /\ Same(rows[t], rows'[t])
      BY <2>0, <3>1 DEF Row, Same
    <3> QED BY <1>2, <2>1, <3>2, <3>3 DEF Ongoing, Stands, FoldSame, Same, Finished
  <2>2. CASE /\ t # h /\ t \in before /\ rows[t].dispatch = "none"
             /\ StopRole(rows, t) \in {"none", "released"}
    <3>1. rows'[t] = [rows[t] EXCEPT !.stop = "held", !.stopHead = h]
      BY <1>1, <2>2 DEF Stopped
    <3>2. rows'[t] \in Row
      BY <1>2, <2>0, <3>1 DEF Row
    <3>3. /\ rows'[t].stop = "held" /\ rows'[t].stopHead = h
          /\ rows'[t].status = rows[t].status /\ rows'[t].fold = rows[t].fold
          /\ rows'[t].foldHead = rows[t].foldHead /\ rows'[t].cycle = rows[t].cycle
          /\ rows'[t].received = rows[t].received /\ Same(rows[t], rows'[t])
      BY <2>0, <3>1 DEF Row, Same
    <3>4. rows[t].status = "pending" /\ t < cutoff /\ rows[t].stop \notin {"stopped", "dropped"}
      BY <1>0, <2>2 DEF Pending, StopFits, Finished
    <3> QED BY <2>2, <3>2, <3>3, <3>4 DEF Ongoing, Stands, FoldSame, Same, Finished
  <2>3. CASE t # h /\ ~(t \in before /\ rows[t].dispatch = "none"
                        /\ StopRole(rows, t) \in {"none", "released"})
    <3>1. rows'[t] = rows[t]
      BY <1>1, <2>3 DEF Stopped
    <3> QED BY <2>0, <2>3, <3>1, SameOpen DEF Same
  <2> QED BY <2>1, <2>2, <2>3
<1>4. rows' \in [Turn -> Row]
  BY <1>1, <1>3 DEF Stopped
<1>5. QueueTypeOK' /\ Steady
  BY <1>0, <1>4 DEF QueueTypeOK, Steady
<1>6. ASSUME NEW t \in Turn PROVE HoldKept(t)
  <2>1. CASE rows'[t].stop = rows[t].stop /\ rows'[t].stopHead = rows[t].stopHead
    BY <2>1 DEF HoldKept
  <2>2. CASE t = h
    BY <1>3, <2>2 DEF HoldKept
  <2>3. CASE rows'[t].stop = "held" /\ rows'[t].stopHead = h /\ t < cutoff
    BY <1>2, <1>3, <2>3 DEF HoldKept, StopFits
  <2> QED BY <1>3, <2>1, <2>2, <2>3
<1>7. ASSUME NEW t \in Turn PROVE StepFits(t)'
  <2>1. rows[t].stop = "stopped" => rows'[t].stop = "stopped"
    BY <1>3 DEF Ongoing, Stands
  <2> QED BY <1>0, <1>3, <2>1 DEF StepFits, Same
<1>8. \A t \in Turn : FoldFits(t)'
  <2>1. \A u \in Turn : rows'[u].dispatch = "none" <=> rows[u].dispatch = "none"
    BY <1>3 DEF Same
  <2> QED BY <1>0, <1>3, <2>1, FoldFitsStep
<1> QED BY <1>3, <1>5, <1>6, <1>7, <1>8, OpenInvariance

----------------------------------------------------------------------------
LEMMA InitInvariance == Init => IInv
<1> SUFFICES ASSUME Init PROVE IInv
  OBVIOUS
<1>1. QueueTypeOK
  BY NoRowFits, QueueAssumption DEF Init, QueueTypeOK
<1>2. ASSUME NEW t \in Turn
      PROVE  StepFits(t) /\ StopFits(t) /\ FoldFits(t) /\ EndFits(t) /\ DoneFits(t) /\ AbsentFits(t)
  BY NoRowFits DEF Init, StepFits, StopFits, FoldFits, EndFits, DoneFits, AbsentFits
<1> QED BY <1>1, <1>2 DEF IInv

LEMMA StutterInvariance == ASSUME IInv, UNCHANGED vars PROVE IInv'
  BY DEF vars, IInv, QueueTypeOK, StepFits, StopFits, FoldFits, EndFits, DoneFits, AbsentFits, Kind

LEMMA TurnStepInvariance ==
    ASSUME IInv, NEW t \in Turn, TurnStep(t)
    PROVE  IInv'
<1>1. CASE Enqueue(t)
  BY <1>1, EnqueueInvariance
<1>2. CASE HandOver(t) \/ Receipt(t) \/ Settlement(t) \/ ResolveRecovery(t)
  BY <1>2, OneField
<1>3. CASE Begin(t) \/ Post(t) \/ Interrupt(t) \/ Accept(t)
  BY <1>3, RowsUnchanged DEF Begin, Post, Interrupt, Accept
<1>4. CASE \E outcome \in Ended : SubmissionEnds(t, outcome)
  BY <1>4, RowsUnchanged DEF SubmissionEnds
<1>5. CASE GiveUp(t)
  <2>1. CASE Goes(t, "failed") /\ UNCHANGED rows
    BY <1>5, <2>1, RowsUnchanged DEF GiveUp
  <2>2. CASE Goes(t, "idle")
    BY <1>5, <2>2, ParkedInvariance
  <2> QED BY <1>5, <2>1, <2>2 DEF GiveUp
<1>6. CASE PreflightFails(t)
  BY <1>6, ParkedInvariance
<1>7. CASE Prepare(t)
  BY <1>7, PrepareInvariance
<1>8. CASE FinishStop(t)
  BY <1>8, FinishStopInvariance
<1>9. CASE Record(t)
  BY <1>9, RecordInvariance
<1>10. CASE \E n \in 1..MaxTaken : Claim(t, n)
  BY <1>10, ClaimInvariance
<1>11. CASE \E n \in 1..MaxTaken : LateFold(t, n)
  BY <1>11, LateFoldInvariance
<1>12. CASE \E plan \in {"shared", "personal"} : Freeze(t, plan)
  BY <1>12, FreezeInvariance
<1> QED BY <1>1, <1>2, <1>3, <1>4, <1>5, <1>6, <1>7, <1>8, <1>9, <1>10, <1>11, <1>12
        DEF TurnStep

LEMMA NextInvariance == IInv /\ [Next]_vars => IInv'
<1> SUFFICES ASSUME IInv, [Next]_vars PROVE IInv'
  OBVIOUS
<1>1. CASE \E t \in Turn : TurnStep(t)
  BY <1>1, TurnStepInvariance
<1>2. CASE \E cutoff \in Cutoff : Stop(cutoff)
  BY <1>2, StopInvariance
<1>3. CASE OperatorCancels \/ Reopen
  BY <1>3, ManyRows
<1>4. CASE UNCHANGED vars
  BY <1>4, StutterInvariance
<1> QED BY <1>1, <1>2, <1>3, <1>4 DEF Next

\* The rows, the submissions and the endings fit each other in every state of a
\* conversation of any length, with any bound on folds, stops and evictions.
THEOREM QueueInvariance == Spec => []IInv
<1>1. Init => IInv
  BY InitInvariance
<1>2. IInv /\ [Next]_vars => IInv'
  BY NextInvariance
<1> QED BY <1>1, <1>2, PTL DEF Spec

\* The rows keep their types.
THEOREM QueueTypeCorrect == Spec => []QueueTypeOK
<1>1. IInv => QueueTypeOK
  BY DEF IInv
<1> QED BY <1>1, QueueInvariance, PTL

\* No message is lost: one that ended well was run, stopped, dropped by a later
\* stop, or read by the completed run of the turn it ended with.
THEOREM NoMessageLost == Spec => []NothingLost
<1>1. IInv => NothingLost
  <2> SUFFICES ASSUME IInv, NEW t \in Turn, rows[t].status = "done"
               PROVE  \/ rows[t].settled # "none"
                      \/ rows[t].stop = "stopped"
                      \/ /\ rows[t].stop = "dropped" /\ rows[rows[t].stopHead].ending = "dropped"
                         /\ t < rows[rows[t].stopHead].cutoff
                      \/ /\ rows[t].fold = "settled" /\ sub[rows[t].foldHead] = "completed"
                         /\ t \in read[rows[t].foldHead] /\ rows[rows[t].foldHead].status = "done"
    BY DEF NothingLost
  <2>1. DoneFits(t) /\ StopFits(t) /\ EndFits(t)
    BY DEF IInv
  <2> QED BY <2>1 DEF DoneFits, Kind, StopFits, EndFits
<1> QED BY <1>1, QueueInvariance, PTL

----------------------------------------------------------------------------
(***************************************************************************)
(* Folds keep the order of the conversation.                               *)
(***************************************************************************)
\* The waiting rows up to t in the order of a claim, those h does not have yet.
Ahead(rs, h, t) == {u \in Waiting(rs, h) : ~Before(rs, t, u) /\ ~Joined(rs, h, u)}

LEMMA AheadGrows ==
    ASSUME NEW rs \in [Turn -> Row], NEW h \in Turn, NEW t \in Turn, NEW u \in Turn,
           Before(rs, u, t)
    PROVE  Cardinality(Ahead(rs, h, u)) <= Cardinality(Ahead(rs, h, t))
<1>1. Ahead(rs, h, t) \subseteq Turn
  BY DEF Ahead, Waiting
<1>2. IsFiniteSet(Ahead(rs, h, t))
  BY <1>1, QueueAssumption, FS_Subset
<1>3. Ahead(rs, h, u) \subseteq Ahead(rs, h, t)
  <2>1. \A v \in Turn : rs[v].place \in Nat
    BY DEF Row
  <2> QED BY <2>1 DEF Ahead, Waiting, Before
<1> QED BY <1>2, <1>3, FS_Subset

LEMMA TakesInOrder ==
    ASSUME NEW rs \in [Turn -> Row], NEW h \in Turn, NEW n \in Nat,
           NEW t \in Takes(rs, h, n),
           NEW u \in Waiting(rs, h), Before(rs, u, t)
    PROVE  u \in Takes(rs, h, n) \/ Joined(rs, h, u)
<1> DEFINE Path(v) == {w \in Waiting(rs, h) : ~Before(rs, v, w)}
<1>0. /\ t \in Turn /\ u \in Turn
      /\ \A v \in Path(t) : Joined(rs, h, v) \/ Eligible(rs, h, v)
      /\ Cardinality({v \in Path(t) : ~Joined(rs, h, v)}) <= n
  BY DEF Takes, Waiting
<1>1. \A v \in Turn : {w \in Path(v) : ~Joined(rs, h, w)} = Ahead(rs, h, v)
  BY DEF Ahead
<1>2. Path(u) \subseteq Path(t)
  <2>1. \A v \in Turn : rs[v].place \in Nat
    BY DEF Row
  <2> QED BY <1>0, <2>1 DEF Waiting, Before
<1>3. Cardinality(Ahead(rs, h, u)) <= n
  <2>1. Ahead(rs, h, t) \subseteq Turn /\ Ahead(rs, h, u) \subseteq Turn
    BY DEF Ahead, Waiting
  <2>2. Cardinality(Ahead(rs, h, t)) \in Nat /\ Cardinality(Ahead(rs, h, u)) \in Nat
    BY <2>1, QueueAssumption, FS_Subset, FS_CardinalityType
  <2>3. Cardinality(Ahead(rs, h, t)) <= n
    BY <1>0, <1>1
  <2> QED BY <1>0, <2>2, <2>3, AheadGrows
<1>4. Cardinality({v \in Path(u) : ~Joined(rs, h, v)}) <= n
  BY <1>0, <1>1, <1>3
<1> QED BY <1>0, <1>2, <1>4 DEF Takes

\* When rs, whose folds are those of rows, is claimed for h, every waiting row
\* before a new member is a member.
LEMMA ClaimedInOrder ==
    ASSUME NEW rs \in [Turn -> Row], NEW h \in Turn, NEW c \in 0..MaxCycle, NEW n \in Nat,
           NEW t \in Turn, NEW g,
           LET ss == Claimed(rs, h, c, n) IN ss[t].foldHead = g /\ rs[t].foldHead # g,
           NEW u \in Turn, Pending(rs, u), Before(rs, g, u), Before(rs, u, t)
    PROVE  u \in Members(Claimed(rs, h, c, n), g)
<1> DEFINE ss == Claimed(rs, h, c, n)
<1>1. ~\E v \in Members(rs, h) : rs[v].cycle = c
  BY DEF Claimed
<1>2. ss = [v \in Turn |->
              IF v \in Takes(rs, h, n)
              THEN [rs[v] EXCEPT !.fold = RoleIn(h, v, rs[h].plan), !.foldHead = h,
                                 !.cycle = c, !.received = (c = 0)]
              ELSE rs[v]]
  BY <1>1 DEF Claimed
<1>3. \A v \in Turn : ss[v] = rs[v] \/ (v # h /\ Taken(rs[v], ss[v], h, c))
  BY ClaimedTakes
<1>4. t \in Takes(rs, h, n) /\ g = h
  BY <1>2, <1>3 DEF Taken
<1>5. u \in Waiting(rs, h)
  BY <1>4 DEF Waiting
<1>6. u \in Takes(rs, h, n) \/ Joined(rs, h, u)
  BY <1>4, <1>5, TakesInOrder
<1>7. CASE u \in Takes(rs, h, n)
  <2>1. rs[u] \in Row
    OBVIOUS
  <2>2. ss[u].foldHead = h /\ ss[u].fold = RoleIn(h, u, rs[h].plan)
    BY <1>2, <1>7, <2>1 DEF Row
  <2> QED BY <1>4, <2>2, RoleInHolding DEF Members, Holding
<1>8. CASE Joined(rs, h, u) /\ u \notin Takes(rs, h, n)
  BY <1>2, <1>4, <1>8 DEF Joined, Folded, Members, Holding
<1> QED BY <1>6, <1>7, <1>8

\* A new member is one that no older member of the same turn overtakes.
OrderKept ==
    \A h, t \in Turn :
        rows'[t].foldHead = h /\ rows[t].foldHead # h =>
            \A u \in Turn : Pending(rows, u) /\ Before(rows, h, u) /\ Before(rows, u, t)
                            => u \in Members(rows', h)

LEMMA OrderStep ==
    ASSUME IInv, IInv', [Next]_vars
    PROVE  OrderKept
<1>0. rows \in [Turn -> Row] /\ rows' \in [Turn -> Row] /\ MaxTaken \in Nat
  BY QueueAssumption DEF IInv, QueueTypeOK
<1>1. ASSUME \A t \in Turn : rows'[t].foldHead \in {rows[t].foldHead, None}
      PROVE  OrderKept
  BY <1>1, QueueAssumption DEF OrderKept
<1>2. ASSUME NEW h \in Turn, NEW n \in 1..MaxTaken, Claim(h, n)
      PROVE  OrderKept
  <2> DEFINE rs == [rows EXCEPT ![h].attempts = @ + 1]
  <2>1. rows' = rs \/ rows' = Claimed(rs, h, 0, n)
    BY <1>2 DEF Claim
  <2>2. /\ rs \in [Turn -> Row]
        /\ \A t \in Turn : /\ rs[t].foldHead = rows[t].foldHead
                           /\ rs[t].place = rows[t].place /\ rs[t].status = rows[t].status
    <3>1. rs[h] = [rows[h] EXCEPT !.attempts = @ + 1] /\ \A t \in Turn : t # h => rs[t] = rows[t]
      BY <1>0
    <3>2. /\ rs[h] \in Row /\ rs[h].foldHead = rows[h].foldHead
          /\ rs[h].place = rows[h].place /\ rs[h].status = rows[h].status
      BY <1>0, <3>1 DEF Row
    <3>3. rs \in [Turn -> Row]
      BY <1>0, <3>2
    <3> QED BY <3>1, <3>2, <3>3
  <2> HIDE DEF rs
  <2>3. CASE rows' = rs
    BY <1>1, <2>2, <2>3
  <2>4. CASE rows' = Claimed(rs, h, 0, n)
    <3>1. 0 \in 0..MaxCycle /\ n \in Nat
      BY <1>0, QueueAssumption
    <3>2. \A g, t, u \in Turn : rows'[t].foldHead = g /\ rows[t].foldHead # g
            /\ Pending(rows, u) /\ Before(rows, g, u) /\ Before(rows, u, t)
            => u \in Members(rows', g)
      BY <2>2, <2>4, <3>1, ClaimedInOrder DEF Pending, Before
    <3> QED BY <3>2 DEF OrderKept
  <2> QED BY <2>1, <2>3, <2>4
<1>3. ASSUME NEW h \in Turn, NEW n \in 1..MaxTaken, LateFold(h, n)
      PROVE  OrderKept
  <2> DEFINE rs == Confirmed(rows, h, cyc[h])
             next == cyc[h] + 1
  <2>1. rows' = rs \/ (next <= MaxCycle /\ rows' = Claimed(rs, h, next, n))
    BY <1>3 DEF LateFold
  <2>2. /\ rs \in [Turn -> Row]
        /\ \A t \in Turn : /\ rs[t].foldHead = rows[t].foldHead
                           /\ rs[t].place = rows[t].place /\ rs[t].status = rows[t].status
    <3>1. ASSUME NEW t \in Turn
          PROVE  /\ rs[t] \in Row /\ rs[t].foldHead = rows[t].foldHead
                 /\ rs[t].place = rows[t].place /\ rs[t].status = rows[t].status
      <4>1. rs[t] = rows[t] \/ rs[t] = [rows[t] EXCEPT !.received = TRUE]
        BY DEF Confirmed
      <4>2. rows[t] \in Row
        BY <1>0
      <4> HIDE DEF rs
      <4> QED BY <4>1, <4>2 DEF Row
    <3> QED BY <3>1 DEF Confirmed
  <2>3. cyc[h] \in Nat /\ MaxCycle \in Nat /\ n \in Nat
    BY <1>0, QueueAssumption DEF IInv, QueueTypeOK
  <2> HIDE DEF rs
  <2>4. CASE rows' = rs
    BY <1>1, <2>2, <2>4
  <2>5. CASE next <= MaxCycle /\ rows' = Claimed(rs, h, next, n)
    <3>1. next \in 0..MaxCycle
      BY <2>3, <2>5
    <3> HIDE DEF next
    <3>2. \A g, t, u \in Turn : rows'[t].foldHead = g /\ rows[t].foldHead # g
            /\ Pending(rows, u) /\ Before(rows, g, u) /\ Before(rows, u, t)
            => u \in Members(rows', g)
      BY <2>2, <2>3, <2>5, <3>1, ClaimedInOrder DEF Pending, Before
    <3> QED BY <3>2 DEF OrderKept
  <2> QED BY <2>1, <2>4, <2>5
<1>4. ASSUME NEW t \in Turn, TurnStep(t) PROVE OrderKept
  <2>1. CASE \E n \in 1..MaxTaken : Claim(t, n) \/ LateFold(t, n)
    BY <1>2, <1>3, <2>1
  <2>2. CASE Enqueue(t)
    <3>1. \A u \in Turn : u # t => rows'[u] = rows[u]
      BY <1>0, <2>2 DEF Enqueue
    <3>2. rows'[t].foldHead = None
      BY <1>0, <2>2, NoRowFits DEF Enqueue, NoRow
    <3> QED BY <1>1, <3>1, <3>2
  <2>3. CASE ResolveRecovery(t) \/ HandOver(t) \/ Receipt(t) \/ Settlement(t)
    <3>1. \A u \in Turn : rows'[u].foldHead = rows[u].foldHead
      BY <1>0, <2>3 DEF ResolveRecovery, HandOver, Receipt, Settlement, Row
    <3> QED BY <1>1, <3>1
  <2>4. CASE Prepare(t)
    <3>1. \A u \in Turn : rows'[u].foldHead = rows[u].foldHead
      BY <1>0, <2>4 DEF Prepare, Row
    <3> QED BY <1>1, <3>1
  <2>5. CASE \/ Begin(t) \/ Post(t) \/ Interrupt(t) \/ Accept(t)
             \/ \E outcome \in Ended : SubmissionEnds(t, outcome)
    <3>1. rows' = rows
      BY <2>5 DEF Begin, Post, Interrupt, Accept, SubmissionEnds
    <3> QED BY <1>1, <3>1
  <2>6. CASE \E plan \in {"shared", "personal"} : Freeze(t, plan)
    <3>1. PICK plan : rows' = Frozen(rows, t, plan)
      BY <2>6 DEF Freeze
    <3>2. \A u \in Turn : rows'[u].foldHead = rows[u].foldHead
      BY <1>0, <3>1 DEF Frozen, Row
    <3> QED BY <1>1, <3>2
  <2>7. CASE PreflightFails(t) \/ FinishStop(t) \/ GiveUp(t) \/ Record(t)
    <3>1. PICK rs \in [Turn -> Row] :
             /\ rows' = rs \/ rows' = FinishedStop(rs, t, "released")
                \/ rows' = FinishedStop(rs, t, "dropped")
             /\ \A u \in Turn : rs[u].foldHead = rows[u].foldHead
      <4>1. CASE rows' = rows
        BY <1>0, <4>1
      <4>2. CASE rows' = FinishedStop(rows, t, "dropped")
        BY <1>0, <4>2
      <4>3. CASE \E s \in {"error"} \cup Parked :
                   rows' = FinishedStop([rows EXCEPT ![t].status = s], t, "released")
        <5>1. PICK s \in {"error"} \cup Parked :
                 rows' = FinishedStop([rows EXCEPT ![t].status = s], t, "released")
          BY <4>3
        <5> DEFINE rs == [rows EXCEPT ![t].status = s]
        <5>2. /\ rs[t] = [rows[t] EXCEPT !.status = s] /\ \A u \in Turn : u # t => rs[u] = rows[u]
              /\ rs = [rows EXCEPT ![t] = rs[t]]
          BY <1>0
        <5>3. rows[t] \in Row /\ s \in {"pending"} \cup Finished \cup Parked
          BY <1>0 DEF Finished
        <5> HIDE DEF rs
        <5>4. rs[t] \in Row
          BY <5>2, <5>3, RowStatus
        <5>5. rs[t].foldHead = rows[t].foldHead
          BY <5>2, <5>3 DEF Row
        <5>6. rs \in [Turn -> Row] /\ \A u \in Turn : rs[u].foldHead = rows[u].foldHead
          BY <1>0, <5>2, <5>4, <5>5
        <5> QED BY <5>1, <5>6 DEF rs
      <4>4. CASE rows' = Delivered(rows, t)
        <5> DEFINE put(u) == IF u = t THEN [rows[u] EXCEPT !.status = "done"]
                             ELSE IF u \in SettledWith(rows, t)
                                  THEN [rows[u] EXCEPT !.status = "done", !.fold = "settled"]
                             ELSE rows[u]
                   rs == [u \in Turn |-> put(u)]
        <5>1. rows' = FinishedStop(rs, t, "released")
          BY <4>4 DEF Delivered
        <5>2. ASSUME NEW u \in Turn PROVE put(u) \in Row /\ put(u).foldHead = rows[u].foldHead
          <6>1. rows[u] \in Row
            BY <1>0
          <6>2. CASE u = t
            BY <6>1, <6>2 DEF Row, Finished
          <6>3. CASE u # t /\ u \in SettledWith(rows, t)
            BY <6>1, <6>3 DEF Row, Finished
          <6>4. CASE u # t /\ u \notin SettledWith(rows, t)
            BY <6>1, <6>4
          <6> QED BY <6>2, <6>3, <6>4
        <5> HIDE DEF put
        <5>3. rs \in [Turn -> Row] /\ \A u \in Turn : rs[u].foldHead = rows[u].foldHead
          BY <5>2
        <5> HIDE DEF rs
        <5> QED BY <5>1, <5>3
      <4>5. \/ rows' = rows \/ rows' = FinishedStop(rows, t, "dropped")
            \/ \E s \in {"error"} \cup Parked :
                  rows' = FinishedStop([rows EXCEPT ![t].status = s], t, "released")
            \/ rows' = Delivered(rows, t)
        <5>1. CASE PreflightFails(t)
          BY <5>1 DEF PreflightFails, ParkedAs, Parked
        <5>2. CASE FinishStop(t)
          BY <5>2 DEF FinishStop
        <5>3. CASE GiveUp(t)
          BY <5>3 DEF GiveUp, ParkedAs, Parked
        <5>4. CASE Record(t)
          BY <5>4 DEF Record, Errored
        <5> QED BY <2>7, <5>1, <5>2, <5>3, <5>4
      <4> QED BY <4>1, <4>2, <4>3, <4>4, <4>5
    <3>2. \A u \in Turn : rows'[u].foldHead = rs[u].foldHead
      BY <3>1, FinishedStopEnds DEF EndsStop, Kept
    <3> QED BY <1>1, <3>1, <3>2
  <2> QED BY <1>4, <2>1, <2>2, <2>3, <2>4, <2>5, <2>6, <2>7 DEF TurnStep
<1>5. ASSUME NEW cutoff \in Cutoff, Stop(cutoff) PROVE OrderKept
  <2>1. PICK h, before : rows' = Stopped(rows, h, before, cutoff)
    BY <1>5 DEF Stop
  <2>2. ASSUME NEW u \in Turn PROVE rows'[u].foldHead = rows[u].foldHead
    <3>1. rows[u] \in Row
      BY <1>0
    <3>2. \/ rows'[u] = [rows[u] EXCEPT !.stop = "stopped", !.stopHead = None,
                                         !.cutoff = cutoff, !.ending = "none"]
          \/ rows'[u] = [rows[u] EXCEPT !.stop = "held", !.stopHead = h]
          \/ rows'[u] = rows[u]
      BY <2>1 DEF Stopped
    <3> QED BY <3>1, <3>2 DEF Row
  <2> QED BY <1>1, <2>2
<1>6. ASSUME OperatorCancels \/ Reopen PROVE OrderKept
  <2>1. ASSUME NEW u \in Turn PROVE rows'[u].foldHead = rows[u].foldHead
    <3>1. rows[u] \in Row
      BY <1>0
    <3>2. \/ rows'[u] = [rows[u] EXCEPT !.status = "cancelled"]
          \/ rows'[u] = [rows[u] EXCEPT !.status = "pending", !.by = "alarm"]
          \/ rows'[u] = rows[u]
      BY <1>6 DEF OperatorCancels, Reopen
    <3> QED BY <3>1, <3>2 DEF Row
  <2> QED BY <1>1, <2>1
<1>7. CASE UNCHANGED vars
  BY <1>1, <1>7 DEF vars
<1> QED BY <1>4, <1>5, <1>6, <1>7 DEF Next

\* A fold never reorders: a turn that takes a message has every message that
\* waits between the two.
THEOREM FoldsKeepOrder == Spec => FoldsInOrder
<1>1. IInv /\ IInv' /\ [Next]_vars => OrderKept
  BY OrderStep
<1>2. OrderKept => [\A h, t \in Turn :
         rows'[t].foldHead = h /\ rows[t].foldHead # h =>
           \A u \in Turn : Pending(rows, u) /\ Before(rows, h, u) /\ Before(rows, u, t)
                           => u \in Members(rows', h)]_vars
  BY DEF OrderKept
<1> QED BY <1>1, <1>2, QueueInvariance, PTL DEF Spec, FoldsInOrder
=============================================================================
