------------------------- MODULE TurnFates_proofs -------------------------
(***************************************************************************)
(* Proofs about TurnQueue, for every number of messages and every bound: a *)
(* message that ends with another turn never ran by itself, as long as no  *)
(* parked turn is reopened; and, with reopened turns too, the table gives  *)
(* every message the fates that TurnPromise allows it, step by step; until *)
(* then without the answers that come late.                                *)
(***************************************************************************)
EXTENDS TurnQueue_proofs

\* Ended by the reply to an earlier turn, or by a stop.
EndedByOther(r) == r.fold = "settled" \/ r.stop = "dropped"

\* A turn in hand with a run of its own, or on the way to one.
Live(t) ==
    \/ exec[t] \in {"begun", "claimed"}
    \/ exec[t] \in {"reading", "ending", "posted"} /\ rows[t].dispatch # "none"

\* No executor is about to dispatch the turn, and it has not been.
Unrun(t) == rows[t].dispatch = "none" /\ exec[t] \notin {"begun", "claimed"}

Present == {t \in Turn : rows[t].status # "absent"}

\* A turn in hand is open, or was ended under the hands of its executor.
BusyFits(t) ==
    exec[t] # "idle" =>
        \/ rows[t].status \in {"pending", "cancelled"}
        \/ rows[t].status = "done" /\ EndedByOther(rows[t])

PlaceFits(t) == rows[t].status # "absent" => rows[t].place <= Cardinality(Present)

SettledFits(t) == rows[t].settled # "none" => sub[t] \in Ended

\* The runner has every turn, one in hand at a time, in their order.
HandFits(t) ==
    /\ rows[t].by = "runner"
    /\ InHand(t) => \A u \in Turn :
         /\ InHand(u) => u = t
         /\ Pending(rows, u) /\ Before(rows, u, t) => exec[u] \in {"posted", "failed"}

\* What a stop that may still drop it holds has not run.
HeldUnrun(t) ==
    LET h == rows[t].stopHead IN
    rows[t].stop = "held" /\ rows[h].ending = "none" /\ (Pending(rows, h) \/ InHand(h))
      => rows[t].dispatch = "none"

\* What an open turn has taken does not run, unless the turn is to fail.
MemberUnrun(t) ==
    LET h == rows[t].foldHead IN
    rows[t].fold \in Holding =>
        /\ rows[h].status # "absent"
        /\ Pending(rows, t) /\ Pending(rows, h) /\ exec[h] # "failed" => Unrun(t)

\* A turn that is cancelled while it runs has no open member.
OrphansEnded(t) ==
    LET h == rows[t].foldHead IN
    rows[t].fold \in Holding /\ Live(h) /\ ~Pending(rows, h) => ~Pending(rows, t)

EndedUnrun(t) == EndedByOther(rows[t]) => Unrun(t)

RunFits(t) ==
    /\ BusyFits(t) /\ PlaceFits(t) /\ SettledFits(t) /\ HandFits(t)
    /\ HeldUnrun(t) /\ MemberUnrun(t) /\ OrphansEnded(t) /\ EndedUnrun(t)

FatesInv ==
    /\ IInv
    /\ used \in [stops: Nat, interrupts: Nat, parks: Nat, reopens: Nat]
    /\ used.reopens = 0 => \A t \in Turn : RunFits(t)

----------------------------------------------------------------------------
(***************************************************************************)
(* A step that starts nothing.                                             *)
(***************************************************************************)
\* What such a step may do to one turn.
CalmRow(t) ==
    /\ rows'[t].by = rows[t].by /\ rows'[t].place = rows[t].place
    /\ rows'[t].dispatch = "none" <=> rows[t].dispatch = "none"
    /\ rows'[t].status = "absent" <=> rows[t].status = "absent"
    /\ Pending(rows', t) => Pending(rows, t)
    /\ rows'[t].fold \in Holding =>
         \/ rows[t].fold \in Holding /\ rows'[t].foldHead = rows[t].foldHead
         \/ MemberUnrun(t)' /\ OrphansEnded(t)'
    /\ rows'[t].stop = "held" =>
         \/ rows[t].stop = "held" /\ rows'[t].stopHead = rows[t].stopHead
         \/ HeldUnrun(t)'
    /\ rows[t].stop = "stopped" /\ rows'[t].ending = "none" => rows[t].ending = "none"
    /\ EndedByOther(rows'[t]) => EndedByOther(rows[t]) \/ Unrun(t)'

\* ... and to what its executor does.
CalmExec(t) ==
    /\ InHand(t)' => InHand(t)
    /\ exec'[t] \in {"begun", "claimed"} => exec[t] \in {"begun", "claimed"}
    /\ exec[t] \in {"posted", "failed"} => exec'[t] = exec[t] \/ ~Pending(rows', t)
    /\ Live(t)' => Live(t)
    /\ Live(t)' /\ Pending(rows, t) => 
         \/ Pending(rows', t)
         \/ \A u \in Turn : rows[u].fold \in Holding /\ rows[u].foldHead = t
                             => ~Pending(rows', u)

LEMMA CalmStep ==
    ASSUME FatesInv, IInv', used.reopens = 0,
           \A t \in Turn : CalmRow(t) /\ CalmExec(t) /\ BusyFits(t)' /\ SettledFits(t)'
    PROVE  \A t \in Turn : RunFits(t)'
<1>0. /\ \A t \in Turn : RunFits(t) /\ StopFits(t) /\ FoldFits(t) /\ StepFits(t)
      /\ \A t \in Turn : StopFits(t)' /\ FoldFits(t)'
      /\ rows \in [Turn -> Row] /\ rows' \in [Turn -> Row]
      /\ \A t \in Turn : rows[t].place \in Nat
      /\ exec \in [Turn -> {"idle", "begun", "claimed", "reading", "ending", "posted", "failed"}]
      /\ exec' \in [Turn -> {"idle", "begun", "claimed", "reading", "ending", "posted", "failed"}]
  BY DEF FatesInv, IInv, QueueTypeOK, Row
<1> SUFFICES ASSUME NEW t \in Turn PROVE RunFits(t)'
  OBVIOUS
<1>1. PlaceFits(t)'
  <2>1. Present' = Present
    BY DEF CalmRow, Present
  <2>2. PlaceFits(t)
    BY <1>0 DEF RunFits
  <2>3. rows'[t].status # "absent" => rows'[t].place <= Cardinality(Present')
    BY <2>1, <2>2 DEF CalmRow, PlaceFits
  <2> QED
    BY <2>3 DEF PlaceFits
<1>2. HandFits(t)'
  <2>1. ASSUME InHand(t)', NEW u \in Turn, Pending(rows', u), Before(rows', u, t)
        PROVE  exec'[u] \in {"posted", "failed"}
    <3>1. Pending(rows, u) /\ Before(rows, u, t) /\ InHand(t)
      BY <2>1 DEF CalmRow, CalmExec, Before
    <3>2. exec[u] \in {"posted", "failed"}
      BY <1>0, <3>1 DEF RunFits, HandFits
    <3> QED
      BY <2>1, <3>2 DEF CalmExec
  <2>2. ASSUME InHand(t)', NEW u \in Turn, InHand(u)' PROVE u = t
    BY <1>0, <2>2 DEF CalmExec, RunFits, HandFits
  <2>3. rows'[t].by = "runner"
    BY <1>0 DEF CalmRow, RunFits, HandFits
  <2> QED
    BY <2>1, <2>2, <2>3 DEF HandFits
<1>3. HeldUnrun(t)'
  <2> SUFFICES ASSUME rows'[t].stop = "held", rows[t].stop = "held",
                      rows'[t].stopHead = rows[t].stopHead
               PROVE  HeldUnrun(t)'
    BY DEF HeldUnrun, CalmRow
  <2>1. PICK h \in Turn : /\ h = rows[t].stopHead /\ h = rows'[t].stopHead
                          /\ rows[t].stop = "held" /\ rows[h].stop = "stopped"
    BY <1>0 DEF CalmRow, StopFits
  <2>2. ASSUME rows'[h].ending = "none", Pending(rows', h) \/ InHand(h)'
        PROVE  rows'[t].dispatch = "none"
    <3>1. rows[h].ending = "none" /\ (Pending(rows, h) \/ InHand(h))
      BY <2>1, <2>2 DEF CalmRow, CalmExec
    <3>2. rows[t].dispatch = "none"
      BY <1>0, <2>1, <3>1 DEF RunFits, HeldUnrun
    <3> QED
      BY <3>2 DEF CalmRow
  <2> QED
    BY <2>1, <2>2 DEF HeldUnrun
<1>4. MemberUnrun(t)' /\ OrphansEnded(t)'
  <2> SUFFICES ASSUME rows'[t].fold \in Holding, rows[t].fold \in Holding,
                      rows'[t].foldHead = rows[t].foldHead
               PROVE  MemberUnrun(t)' /\ OrphansEnded(t)'
    BY DEF MemberUnrun, OrphansEnded, CalmRow
  <2>1. PICK h \in Turn : /\ h = rows[t].foldHead /\ h = rows'[t].foldHead
                          /\ rows[t].fold \in Holding
    BY <1>0 DEF CalmRow, FoldFits, Holding
  <2>2. MemberUnrun(t) /\ OrphansEnded(t)
    BY <1>0 DEF RunFits
  <2>3. rows'[h].status # "absent"
    BY <2>1, <2>2 DEF MemberUnrun, CalmRow
  <2>4. ASSUME Pending(rows', t), Pending(rows', h), exec'[h] # "failed"
        PROVE  Unrun(t)'
    <3>1. Pending(rows, t) /\ Pending(rows, h) /\ exec[h] # "failed"
      BY <2>4 DEF CalmRow, CalmExec
    <3>2. Unrun(t)
      BY <2>1, <2>2, <3>1 DEF MemberUnrun
    <3> QED
      BY <3>2 DEF Unrun, CalmRow, CalmExec
  <2>5. ASSUME Live(h)', ~Pending(rows', h), Pending(rows', t)
        PROVE  FALSE
    <3>1. Live(h) /\ Pending(rows, t)
      BY <2>5 DEF CalmRow, CalmExec
    <3>2. ~Pending(rows, h)
      BY <2>1, <2>5 DEF CalmExec
    <3> QED
      BY <2>1, <2>2, <3>1, <3>2 DEF OrphansEnded
  <2> QED
    BY <2>1, <2>3, <2>4, <2>5 DEF MemberUnrun, OrphansEnded
<1>5. EndedUnrun(t)'
  <2>1. ASSUME EndedByOther(rows[t]) PROVE Unrun(t)'
    <3>1. Unrun(t)
      BY <1>0, <2>1 DEF RunFits, EndedUnrun
    <3> QED
      BY <3>1 DEF Unrun, CalmRow, CalmExec
  <2> QED
    BY <2>1 DEF EndedUnrun, CalmRow
<1> QED
  BY <1>1, <1>2, <1>3, <1>4, <1>5 DEF RunFits

\* What the rest of the proof keeps using of the invariant.
LEMMA FatesFacts ==
    ASSUME FatesInv, used.reopens = 0
    PROVE  /\ \A t \in Turn : RunFits(t) /\ StepFits(t) /\ StopFits(t) /\ FoldFits(t)
                              /\ EndFits(t) /\ AbsentFits(t) /\ rows[t] \in Row
           /\ rows \in [Turn -> Row]
           /\ exec \in [Turn -> {"idle", "begun", "claimed", "reading", "ending", "posted", "failed"}]
           /\ sub \in [Turn -> {"none", "running"} \cup Ended]
  BY DEF FatesInv, IInv, QueueTypeOK

\* Only a reconnection reopens turns.
LEMMA UsedStep ==
    ASSUME FatesInv, [Next]_vars, used'.reopens = 0
    PROVE  used.reopens = 0 /\ ~Reopen
<1>0. used.reopens \in Nat /\ used \in [stops: Nat, interrupts: Nat, parks: Nat, reopens: Nat]
  BY DEF FatesInv
<1>1. \/ UNCHANGED used
      \/ \E what \in {"stops", "interrupts", "parks"} : used' = [used EXCEPT ![what] = @ + 1]
      \/ Reopen
  <2>1. ASSUME NEW t \in Turn, TurnStep(t)
        PROVE  \/ UNCHANGED used
               \/ \E what \in {"interrupts", "parks"} : used' = [used EXCEPT ![what] = @ + 1]
    BY <2>1 DEF TurnStep, Enqueue, ResolveRecovery, HandOver, Begin, PreflightFails, Prepare,
       Receipt, Settlement, FinishStop, Post, GiveUp, Interrupt, Record, Accept, Claim, LateFold,
       Freeze, SubmissionEnds, Spend
  <2>2. ASSUME NEW cutoff \in Cutoff, Stop(cutoff)
        PROVE  used' = [used EXCEPT !["stops"] = @ + 1]
    BY <2>2 DEF Stop, Spend
  <2>3. ASSUME OperatorCancels PROVE used' = [used EXCEPT !["parks"] = @ + 1]
    BY <2>3 DEF OperatorCancels, Spend
  <2> QED
    BY <2>1, <2>2, <2>3 DEF Next, vars
<1>2. Reopen => used'.reopens = used.reopens + 1
  BY <1>0 DEF Reopen, Spend
<1>3. used'.reopens = used.reopens \/ Reopen
  BY <1>0, <1>1
<1> QED
  BY <1>0, <1>2, <1>3

LEMMA UsedTypes ==
    ASSUME FatesInv, [Next]_vars
    PROVE  used' \in [stops: Nat, interrupts: Nat, parks: Nat, reopens: Nat]
<1>0. used \in [stops: Nat, interrupts: Nat, parks: Nat, reopens: Nat]
  BY DEF FatesInv
<1>1. \/ UNCHANGED used
      \/ \E what \in {"stops", "interrupts", "parks", "reopens"} :
            used' = [used EXCEPT ![what] = @ + 1]
  <2>1. ASSUME NEW t \in Turn, TurnStep(t)
        PROVE  \/ UNCHANGED used
               \/ \E what \in {"interrupts", "parks"} : used' = [used EXCEPT ![what] = @ + 1]
    BY <2>1 DEF TurnStep, Enqueue, ResolveRecovery, HandOver, Begin, PreflightFails, Prepare,
       Receipt, Settlement, FinishStop, Post, GiveUp, Interrupt, Record, Accept, Claim, LateFold,
       Freeze, SubmissionEnds, Spend
  <2>2. ASSUME NEW cutoff \in Cutoff, Stop(cutoff)
        PROVE  used' = [used EXCEPT !["stops"] = @ + 1]
    BY <2>2 DEF Stop, Spend
  <2>3. ASSUME OperatorCancels PROVE used' = [used EXCEPT !["parks"] = @ + 1]
    BY <2>3 DEF OperatorCancels, Spend
  <2>4. ASSUME Reopen PROVE used' = [used EXCEPT !["reopens"] = @ + 1]
    BY <2>4 DEF Reopen, Spend
  <2> QED
    BY <2>1, <2>2, <2>3, <2>4 DEF Next, vars
<1> QED
  BY <1>0, <1>1

----------------------------------------------------------------------------
(***************************************************************************)
(* Steps that leave the rows alone.                                        *)
(***************************************************************************)
LEMMA CalmSame ==
    ASSUME NEW t \in Turn, rows'[t] = rows[t]
    PROVE  CalmRow(t)
  BY DEF CalmRow, Pending, EndedByOther

LEMMA RowsKept ==
    ASSUME FatesInv, IInv', used.reopens = 0, NEW t \in Turn, UNCHANGED rows,
           \/ Post(t) \/ Interrupt(t) \/ Accept(t)
           \/ GiveUp(t) /\ Goes(t, "failed")
           \/ \E outcome \in Ended : SubmissionEnds(t, outcome)
    PROVE  \A u \in Turn : RunFits(u)'
<1>0. /\ \A u \in Turn : RunFits(u) /\ StepFits(u) /\ rows[u] \in Row
      /\ exec \in [Turn -> {"idle", "begun", "claimed", "reading", "ending", "posted", "failed"}]
      /\ sub \in [Turn -> {"none", "running"} \cup Ended]
  BY FatesFacts
<1>1. ASSUME NEW u \in Turn PROVE CalmExec(u) /\ BusyFits(u)'
  <2>1. CASE exec'[u] = exec[u]
    BY <1>0, <2>1 DEF CalmExec, InHand, Live, RunFits, BusyFits
  <2>2. CASE u = t /\ Post(t)
    BY <1>0, <2>2 DEF Post, Goes, CalmExec, InHand, Live, RunFits, BusyFits
  <2>3. CASE u = t /\ Interrupt(t)
    BY <1>0, <2>3 DEF Interrupt, Goes, CalmExec, InHand, Live, BusyFits
  <2>4. CASE u = t /\ GiveUp(t) /\ Goes(t, "failed")
    BY <1>0, <2>4 DEF GiveUp, Goes, CalmExec, InHand, Live, RunFits, BusyFits
  <2>5. exec'[u] = exec[u] \/ u = t
    BY <1>0 DEF Post, Interrupt, Accept, GiveUp, Goes, SubmissionEnds
  <2>6. exec' = exec \/ Post(t) \/ Interrupt(t) \/ (GiveUp(t) /\ Goes(t, "failed"))
    BY DEF Accept, SubmissionEnds
  <2> QED
    BY <2>1, <2>2, <2>3, <2>4, <2>5, <2>6
<1>2. ASSUME NEW u \in Turn PROVE SettledFits(u)'
  <2>1. CASE sub' = sub
    BY <1>0, <2>1 DEF RunFits, SettledFits
  <2>2. CASE Accept(t)
    <3>1. sub[t] = "none" /\ \A v \in Turn : v # t => sub'[v] = sub[v]
      BY <1>0, <2>2 DEF Accept
    <3>2. "none" \notin Ended
      BY DEF Ended
    <3> QED
      BY <1>0, <3>1, <3>2 DEF RunFits, SettledFits
  <2>3. CASE \E outcome \in Ended : SubmissionEnds(t, outcome)
    <3>1. sub'[t] \in Ended /\ \A v \in Turn : v # t => sub'[v] = sub[v]
      BY <1>0, <2>3 DEF SubmissionEnds
    <3> QED
      BY <1>0, <3>1 DEF RunFits, SettledFits
  <2> QED
    BY <2>1, <2>2, <2>3 DEF Post, Interrupt, GiveUp
<1> QED
  BY <1>1, <1>2, CalmSame, CalmStep

\* A turn is taken in hand when no other is and those before it are over.
LEMMA BeginFits ==
    ASSUME FatesInv, IInv', used.reopens = 0, NEW t \in Turn, Begin(t)
    PROVE  \A u \in Turn : RunFits(u)'
<1>0. /\ \A u \in Turn : /\ RunFits(u) /\ StepFits(u) /\ StopFits(u) /\ FoldFits(u)
                         /\ EndFits(u) /\ rows[u] \in Row
      /\ exec \in [Turn -> {"idle", "begun", "claimed", "reading", "ending", "posted", "failed"}]
      /\ UNCHANGED <<rows, sub>>
  BY FatesFacts DEF Begin
<1>1. /\ Pending(rows, t) /\ exec[t] = "idle"
      /\ \A u \in Turn : ~InHand(u)
      /\ \A u \in Turn : Pending(rows, u) /\ Before(rows, u, t) => exec[u] \in {"posted", "failed"}
  <2>1. \A u \in Turn : rows[u].by = "runner"
    BY <1>0 DEF RunFits, HandFits
  <2>2. Ready(t)
    BY DEF Begin
  <2>3. \A u \in Turn : u # t => ~InHand(u)
    BY <2>1, <2>2 DEF Ready
  <2>4. Pending(rows, t) /\ exec[t] = "idle" /\ ~InHand(t)
    BY <2>2 DEF Ready, InHand
  <2>5. ASSUME NEW u \in Turn, Pending(rows, u), Before(rows, u, t)
        PROVE  exec[u] \in {"posted", "failed"}
    <3>1. u # t
      BY <1>0, <2>5 DEF Before, Row
    <3> QED
      BY <2>1, <2>2, <2>5, <3>1 DEF Ready
  <2> QED
    BY <2>3, <2>4, <2>5
<1>2. PICK x \in {"ending", "reading", "begun"} :
         /\ exec' = [exec EXCEPT ![t] = x]
         /\ x = "ending" => StopRole(rows, t) = "stopped" 
         /\ x = "reading" => rows[t].dispatch = "received"
         /\ x # "ending" /\ rows[t].dispatch # "received" => ~Folded(rows, t)
  BY DEF Begin, Goes, Gate
<1>3. exec'[t] = x /\ \A u \in Turn : u # t => exec'[u] = exec[u]
  BY <1>0, <1>2
<1>4. rows[t].stop # "dropped" /\ rows[t].fold # "settled"
  BY <1>0, <1>1 DEF StopFits, EndFits, Pending, Finished
<1> SUFFICES ASSUME NEW u \in Turn PROVE RunFits(u)'
  OBVIOUS
<1>5. BusyFits(u)' /\ PlaceFits(u)' /\ SettledFits(u)'
  <2>1. PlaceFits(u)' /\ SettledFits(u)'
    BY <1>0 DEF RunFits, PlaceFits, SettledFits, Present
  <2>2. BusyFits(u)'
    BY <1>0, <1>1, <1>3 DEF RunFits, BusyFits, Pending
  <2> QED
    BY <2>1, <2>2
<1>6. HandFits(u)'
  <2>1. rows'[u].by = "runner"
    BY <1>0 DEF RunFits, HandFits
  <2>2. \A v \in Turn : InHand(v)' => v = t
    BY <1>1, <1>3 DEF InHand
  <2>3. \A v \in Turn : Pending(rows', v) /\ Before(rows', v, t) => v # t /\ exec'[v] \in {"posted", "failed"}
    <3>1. \A v \in Turn : Before(rows, v, t) => v # t
      BY <1>0 DEF Before, Row
    <3> QED
      BY <1>0, <1>1, <1>3, <3>1
  <2> QED
    BY <2>1, <2>2, <2>3 DEF HandFits
<1>7. HeldUnrun(u)'
  <2> SUFFICES ASSUME rows[u].stop = "held" PROVE HeldUnrun(u)'
    BY <1>0 DEF HeldUnrun
  <2>1. PICK h \in Turn : h = rows[u].stopHead
    BY <1>0 DEF StopFits
  <2>2. Pending(rows, h) \/ InHand(h)' => Pending(rows, h)
    BY <1>1, <1>3 DEF InHand
  <2> QED
    BY <1>0, <2>1, <2>2 DEF RunFits, HeldUnrun
<1>8. MemberUnrun(u)' /\ OrphansEnded(u)'
  <2> SUFFICES ASSUME rows[u].fold \in Holding PROVE MemberUnrun(u)' /\ OrphansEnded(u)'
    BY <1>0 DEF MemberUnrun, OrphansEnded
  <2>1. PICK h \in Turn : h = rows[u].foldHead
    BY <1>0 DEF FoldFits, Holding
  <2>2. MemberUnrun(u) /\ OrphansEnded(u)
    BY <1>0 DEF RunFits
  <2>3. ASSUME Pending(rows, u), Pending(rows, h), exec'[h] # "failed"
        PROVE  Unrun(u)'
    <3>1. Unrun(u)
      BY <1>1, <1>3, <2>1, <2>2, <2>3 DEF MemberUnrun
    <3>2. CASE u # t
      BY <1>0, <1>3, <3>1, <3>2 DEF Unrun
    <3>3. CASE u = t
      <4>1. Folded(rows, t) /\ rows[t].dispatch = "none"
        BY <2>1, <2>3, <3>1, <3>3 DEF Folded, Unrun
      <4> QED
        BY <1>0, <1>2, <1>3, <3>3, <4>1 DEF Unrun
    <3> QED
      BY <3>2, <3>3
  <2>4. ASSUME Live(h)', ~Pending(rows, h) PROVE ~Pending(rows, u)
    <3>1. Live(h)
      BY <1>0, <1>1, <1>3, <2>4 DEF Live
    <3> QED
      BY <2>1, <2>2, <2>4, <3>1 DEF OrphansEnded
  <2> QED
    BY <1>0, <2>1, <2>2, <2>3, <2>4 DEF MemberUnrun, OrphansEnded
<1>9. EndedUnrun(u)'
  BY <1>0, <1>3, <1>4 DEF RunFits, EndedUnrun, EndedByOther, Unrun
<1> QED
  BY <1>5, <1>6, <1>7, <1>8, <1>9 DEF RunFits

----------------------------------------------------------------------------
(***************************************************************************)
(* Steps that change one field of some rows.                               *)
(***************************************************************************)
\* What no such step changes but the status, a plan, a role or a record.
CalmFields(r, s) ==
    /\ s.by = r.by /\ s.place = r.place
    /\ s.stop = r.stop /\ s.stopHead = r.stopHead /\ s.ending = r.ending
    /\ s.foldHead = r.foldHead
    /\ s.fold \in Holding <=> r.fold \in Holding
    /\ s.fold = "settled" <=> r.fold = "settled"
    /\ s.dispatch = "none" <=> r.dispatch = "none"

LEMMA CalmFieldsRow ==
    ASSUME NEW t \in Turn, CalmFields(rows[t], rows'[t]),
           rows'[t].status = "absent" <=> rows[t].status = "absent",
           Pending(rows', t) => Pending(rows, t)
    PROVE  CalmRow(t)
  BY DEF CalmFields, CalmRow, EndedByOther

LEMMA CalmOneField ==
    ASSUME FatesInv, IInv', used.reopens = 0, NEW t \in Turn,
           HandOver(t) \/ Receipt(t) \/ Settlement(t) \/ ResolveRecovery(t)
    PROVE  \A u \in Turn : RunFits(u)'
<1>0. /\ \A u \in Turn : RunFits(u) /\ StepFits(u) /\ AbsentFits(u) /\ rows[u] \in Row
      /\ rows \in [Turn -> Row]
      /\ exec \in [Turn -> {"idle", "begun", "claimed", "reading", "ending", "posted", "failed"}]
  BY FatesFacts
<1>1. ~HandOver(t)
  BY <1>0 DEF HandOver, RunFits, HandFits
<1>2. /\ \A u \in Turn : u # t => rows'[u] = rows[u]
      /\ CalmFields(rows[t], rows'[t])
      /\ rows'[t].status = "absent" <=> rows[t].status = "absent"
      /\ Pending(rows', t) => Pending(rows, t)
      /\ rows'[t].status = rows[t].status \/ exec[t] = "idle"
  <2>1. CASE Receipt(t)
    BY <1>0, <2>1 DEF Receipt, CalmFields, Row, Pending
  <2>2. CASE Settlement(t)
    BY <1>0, <2>2 DEF Settlement, CalmFields, Row, Pending
  <2>3. CASE ResolveRecovery(t)
    <3>1. rows[t].status \in {"unavailable", "recovery"}
      BY <2>3 DEF ResolveRecovery
    <3>2. exec[t] = "idle"
      BY <1>0, <3>1 DEF RunFits, BusyFits
    <3> QED
      BY <1>0, <2>3, <3>1, <3>2 DEF ResolveRecovery, CalmFields, Row, Pending
  <2> QED
    BY <1>1, <2>1, <2>2, <2>3
<1>3. /\ \A u \in Turn : exec'[u] = exec[u] \/ (u = t /\ exec[t] = "begun" /\ exec'[t] = "reading")
      /\ UNCHANGED sub
  BY <1>0, <1>1 DEF Receipt, Settlement, ResolveRecovery, Goes
<1>4. ASSUME NEW u \in Turn PROVE CalmRow(u) /\ CalmExec(u)
  <2>1. CalmRow(u)
    BY <1>2, CalmSame, CalmFieldsRow
  <2>2. rows'[u].dispatch = "none" <=> rows[u].dispatch = "none"
    BY <2>1 DEF CalmRow
  <2>3. Live(u)' => Live(u)
    BY <1>3, <2>2 DEF Live
  <2>4. Live(u)' => (Pending(rows, u) => Pending(rows', u))
    BY <1>2, <1>3 DEF Live, Pending
  <2>5. /\ InHand(u)' => InHand(u)
        /\ exec'[u] \in {"begun", "claimed"} => exec[u] \in {"begun", "claimed"}
        /\ exec[u] \in {"posted", "failed"} => exec'[u] = exec[u]
    BY <1>3 DEF InHand
  <2> QED
    BY <2>1, <2>3, <2>4, <2>5 DEF CalmExec
<1>5. ASSUME NEW u \in Turn PROVE BusyFits(u)'
  <2>1. exec'[u] # "idle" => rows'[u].status = rows[u].status /\ exec[u] # "idle"
    BY <1>2, <1>3
  <2>2. EndedByOther(rows[u]) => EndedByOther(rows'[u])
    BY <1>2 DEF CalmFields, EndedByOther
  <2> QED
    BY <1>0, <2>1, <2>2 DEF RunFits, BusyFits
<1>6. ASSUME NEW u \in Turn PROVE SettledFits(u)'
  <2>1. CASE Settlement(t)
    <3>1. sub[t] \in Ended
      BY <2>1 DEF Settlement
    <3> QED
      BY <1>0, <1>2, <1>3, <3>1 DEF RunFits, SettledFits
  <2>2. CASE Receipt(t) \/ ResolveRecovery(t)
    <3>1. rows'[t].settled = rows[t].settled
      BY <1>0, <2>2 DEF Receipt, ResolveRecovery, Row
    <3> QED
      BY <1>0, <1>2, <1>3, <3>1 DEF RunFits, SettledFits
  <2> QED
    BY <1>1, <2>1, <2>2
<1> QED
  BY <1>4, <1>5, <1>6, CalmStep

LEMMA CalmFreeze ==
    ASSUME FatesInv, IInv', used.reopens = 0, NEW t \in Turn,
           NEW plan \in {"shared", "personal"}, Freeze(t, plan)
    PROVE  \A u \in Turn : RunFits(u)'
<1>0. /\ \A u \in Turn : RunFits(u) /\ rows[u] \in Row
      /\ rows \in [Turn -> Row] /\ UNCHANGED <<exec, sub>>
  BY FatesFacts DEF Freeze
<1>1. ASSUME NEW u \in Turn
      PROVE  /\ CalmFields(rows[u], rows'[u]) /\ rows'[u].status = rows[u].status
             /\ rows'[u].settled = rows[u].settled
  <2>1. CASE u = t
    <3>1. rows'[u] = [rows[u] EXCEPT !.plan = plan]
      BY <2>1 DEF Freeze, Frozen
    <3> QED
      BY <1>0, <3>1 DEF Row, CalmFields
  <2>2. CASE u # t /\ u \in CycleOf(rows, t, 0) /\ rows[u].fold \in Holding
    <3>1. rows'[u] = [rows[u] EXCEPT !.fold = RoleIn(t, u, plan)]
      BY <2>2 DEF Freeze, Frozen
    <3>2. RoleIn(t, u, plan) \in Holding
      BY RoleInHolding
    <3>3. rows'[u].fold = RoleIn(t, u, plan)
      BY <1>0, <3>1 DEF Row
    <3>4. rows'[u].fold \in Holding /\ rows'[u].fold # "settled" /\ rows[u].fold # "settled"
      BY <2>2, <3>2, <3>3 DEF Holding
    <3>5. /\ rows'[u].by = rows[u].by /\ rows'[u].place = rows[u].place
          /\ rows'[u].stop = rows[u].stop /\ rows'[u].stopHead = rows[u].stopHead
          /\ rows'[u].ending = rows[u].ending /\ rows'[u].foldHead = rows[u].foldHead
          /\ rows'[u].dispatch = rows[u].dispatch /\ rows'[u].status = rows[u].status
          /\ rows'[u].settled = rows[u].settled
      BY <1>0, <3>1 DEF Row
    <3> QED
      BY <2>2, <3>4, <3>5 DEF CalmFields
  <2>3. CASE u # t /\ ~(u \in CycleOf(rows, t, 0) /\ rows[u].fold \in Holding)
    <3>1. rows'[u] = rows[u]
      BY <2>3 DEF Freeze, Frozen
    <3> QED
      BY <3>1 DEF CalmFields
  <2> QED
    BY <2>1, <2>2, <2>3
<1>2. ASSUME NEW u \in Turn PROVE CalmRow(u) /\ CalmExec(u) /\ BusyFits(u)' /\ SettledFits(u)'
  <2>1. CalmRow(u)
    BY <1>1, CalmFieldsRow DEF Pending
  <2>2. CalmExec(u)
    BY <1>0, <1>1, <2>1 DEF CalmExec, CalmRow, InHand, Live, Pending
  <2>3. BusyFits(u)' /\ SettledFits(u)'
    BY <1>0, <1>1 DEF RunFits, BusyFits, SettledFits, EndedByOther, CalmFields
  <2> QED
    BY <2>1, <2>2, <2>3
<1> QED
  BY <1>2, CalmStep

\* An operator's cancellation spares no member of a turn it takes.
LEMMA CalmCancel ==
    ASSUME FatesInv, IInv', used.reopens = 0, OperatorCancels
    PROVE  \A u \in Turn : RunFits(u)'
<1>0. /\ \A u \in Turn : RunFits(u) /\ rows[u] \in Row
      /\ rows \in [Turn -> Row] /\ UNCHANGED <<exec, sub>>
  BY FatesFacts DEF OperatorCancels
<1>1. ASSUME NEW u \in Turn
      PROVE  /\ CalmFields(rows[u], rows'[u]) /\ rows'[u].settled = rows[u].settled
             /\ ~Pending(rows', u)
             /\ \/ rows'[u].status = rows[u].status
                \/ rows[u].status = "pending" /\ rows'[u].status = "cancelled"
  <2>1. CASE Pending(rows, u)
    <3>1. rows'[u] = [rows[u] EXCEPT !.status = "cancelled"]
      BY <2>1 DEF OperatorCancels
    <3> QED
      BY <1>0, <2>1, <3>1 DEF Row, CalmFields, Pending
  <2>2. CASE ~Pending(rows, u)
    <3>1. rows'[u] = rows[u]
      BY <2>2 DEF OperatorCancels
    <3> QED
      BY <2>2, <3>1 DEF CalmFields, Pending
  <2> QED
    BY <2>1, <2>2
<1>2. ASSUME NEW u \in Turn PROVE CalmRow(u) /\ CalmExec(u) /\ BusyFits(u)' /\ SettledFits(u)'
  <2>1. CalmRow(u)
    BY <1>1, CalmFieldsRow DEF Pending
  <2>2. CalmExec(u)
    BY <1>0, <1>1, <2>1 DEF CalmExec, CalmRow, InHand, Live
  <2>3. BusyFits(u)' /\ SettledFits(u)'
    BY <1>0, <1>1 DEF RunFits, BusyFits, SettledFits, EndedByOther, CalmFields
  <2> QED
    BY <2>1, <2>2, <2>3
<1> QED
  BY <1>2, CalmStep

----------------------------------------------------------------------------
(***************************************************************************)
(* Steps that end a stop, the reply that ends other messages among them.   *)
(***************************************************************************)
\* finishStop, row by row: what the stop holds is let go, or dropped if open.
LEMMA FinishedStopRow ==
    ASSUME NEW rs \in [Turn -> Row], NEW h \in Turn, NEW o \in {"dropped", "released"},
           NEW t \in Turn
    PROVE  LET s == FinishedStop(rs, h, o)[t] IN
           /\ s.by = rs[t].by /\ s.place = rs[t].place
           /\ \/ s.stop = rs[t].stop /\ s.status = rs[t].status
              \/ /\ rs[h].stop = "stopped" /\ rs[h].ending = "none"
                 /\ rs[t].stop = "held" /\ rs[t].stopHead = h
                 /\ \/ o = "released" /\ s.stop = "released" /\ s.status = rs[t].status
                    \/ /\ o = "dropped" /\ s.stop = "dropped" /\ s.status = "done"
                       /\ rs[t].status \notin Finished
<1> DEFINE ss == FinishedStop(rs, h, o)
<1>0. rs[t] \in Row
  OBVIOUS
<1>1. CASE rs[h].stop # "stopped" \/ rs[h].ending # "none"
  BY <1>1 DEF FinishedStop
<1>2. CASE ~(rs[h].stop # "stopped" \/ rs[h].ending # "none")
  <2>1. ss[t] = IF t = h THEN [rs[t] EXCEPT !.ending = o]
                ELSE IF t \notin HeldBy(rs, h) THEN rs[t]
                ELSE IF o = "dropped" THEN DroppedRow(rs[t])
                ELSE [rs[t] EXCEPT !.stop = "released"]
    BY <1>2 DEF FinishedStop
  <2>2. CASE t = h
    BY <1>0, <2>1, <2>2 DEF Row
  <2>3. CASE t # h /\ t \notin HeldBy(rs, h)
    BY <2>1, <2>3
  <2>4. CASE t # h /\ t \in HeldBy(rs, h) /\ o = "released"
    BY <1>0, <1>2, <2>1, <2>4 DEF HeldBy, Row
  <2>5. CASE t # h /\ t \in HeldBy(rs, h) /\ o = "dropped"
    <3>1. CASE rs[t].status \in Finished
      BY <2>1, <2>5, <3>1 DEF DroppedRow
    <3>2. CASE rs[t].status \notin Finished
      <4>1. ss[t] = [rs[t] EXCEPT !.stop = "dropped", !.status = "done"]
        BY <2>1, <2>5, <3>2 DEF DroppedRow
      <4> QED
        BY <1>0, <1>2, <2>5, <3>2, <4>1 DEF HeldBy, Row
    <3> QED
      BY <3>1, <3>2
  <2> QED
    BY <2>2, <2>3, <2>4, <2>5
<1> QED
  BY <1>1, <1>2

LEMMA CalmFinishStop ==
    ASSUME FatesInv, IInv', used.reopens = 0, NEW t \in Turn, FinishStop(t)
    PROVE  \A u \in Turn : RunFits(u)'
<1>0. /\ \A u \in Turn : RunFits(u) /\ StepFits(u) /\ rows[u] \in Row
      /\ rows \in [Turn -> Row] /\ UNCHANGED sub
      /\ exec \in [Turn -> {"idle", "begun", "claimed", "reading", "ending", "posted", "failed"}]
  BY FatesFacts DEF FinishStop
<1>1. /\ exec[t] \in {"reading", "ending"} /\ InHand(t)
      /\ exec'[t] = "ending" /\ \A u \in Turn : u # t => exec'[u] = exec[u]
      /\ \A u \in Turn : u # t => ~InHand(u)
  <2>1. exec[t] \in {"reading", "ending"} /\ InHand(t)
    BY DEF FinishStop, InHand
  <2> QED
    BY <1>0, <2>1 DEF FinishStop, Goes, RunFits, HandFits
<1>2. EndsStop(rows, rows', t)
  BY <1>0, FinishedStopEnds DEF FinishStop
<1>3. ASSUME NEW u \in Turn
      PROVE  /\ rows'[u].by = rows[u].by /\ rows'[u].place = rows[u].place
             /\ \/ rows'[u].stop = rows[u].stop /\ rows'[u].status = rows[u].status
                \/ /\ rows'[u].stop = "dropped" /\ rows'[u].status = "done"
                   /\ rows[u].status \notin Finished /\ rows[u].stop = "held" /\ u # t
                   /\ Unrun(u)
  <2>1. \/ rows'[u].stop = rows[u].stop /\ rows'[u].status = rows[u].status
        \/ /\ rows[t].stop = "stopped" /\ rows[t].ending = "none"
           /\ rows[u].stop = "held" /\ rows[u].stopHead = t
           /\ rows'[u].stop = "dropped" /\ rows'[u].status = "done"
           /\ rows[u].status \notin Finished
    BY <1>0, FinishedStopRow DEF FinishStop
  <2>2. ASSUME rows[t].stop = "stopped", rows[t].ending = "none",
               rows[u].stop = "held", rows[u].stopHead = t
        PROVE  Unrun(u) /\ u # t
    <3>1. rows[u].dispatch = "none" /\ u # t
      BY <1>0, <1>1, <2>2 DEF RunFits, HeldUnrun
    <3> QED
      BY <1>1, <3>1 DEF Unrun, InHand
  <2>3. rows'[u].by = rows[u].by /\ rows'[u].place = rows[u].place
    BY <1>0, FinishedStopRow DEF FinishStop
  <2> QED
    BY <2>1, <2>2, <2>3
<1>4. ASSUME NEW u \in Turn
      PROVE  /\ rows'[u].dispatch = rows[u].dispatch /\ rows'[u].settled = rows[u].settled
             /\ rows'[u].stopHead = rows[u].stopHead /\ rows'[u].foldHead = rows[u].foldHead
             /\ rows'[u].fold = rows[u].fold
             /\ rows'[u].ending = "none" => rows[u].ending = "none"
  BY <1>2 DEF EndsStop, Kept
<1>5. ASSUME NEW u \in Turn PROVE CalmRow(u)
  <2>1. /\ rows'[u].status = "absent" <=> rows[u].status = "absent"
        /\ Pending(rows', u) => Pending(rows, u)
        /\ rows'[u].stop = "held" => rows[u].stop = "held"
    <3>1. rows[u].status # "absent" \/ rows[u].stop # "held"
      BY FatesFacts DEF AbsentFits
    <3> QED
      BY <1>3, <3>1 DEF Pending
  <2>2. EndedByOther(rows'[u]) => EndedByOther(rows[u]) \/ Unrun(u)'
    BY <1>1, <1>3, <1>4 DEF EndedByOther, Unrun
  <2> QED
    BY <1>3, <1>4, <2>1, <2>2 DEF CalmRow
<1>6. ASSUME NEW u \in Turn PROVE CalmExec(u)
  <2>1. Live(u)' => Live(u)
    BY <1>1, <1>4 DEF Live
  <2>2. Live(u)' /\ Pending(rows, u) => Pending(rows', u)
    BY <1>1, <1>3, <2>1 DEF Live, Unrun, InHand, Pending
  <2>3. /\ InHand(u)' => InHand(u)
        /\ exec'[u] \in {"begun", "claimed"} => exec[u] \in {"begun", "claimed"}
        /\ exec[u] \in {"posted", "failed"} => exec'[u] = exec[u]
    BY <1>1 DEF InHand
  <2> QED
    BY <2>1, <2>2, <2>3 DEF CalmExec
<1>7. ASSUME NEW u \in Turn PROVE BusyFits(u)' /\ SettledFits(u)'
  <2>1. exec'[u] # "idle" => exec[u] # "idle"
    BY <1>1
  <2>2. BusyFits(u) /\ SettledFits(u)
    BY <1>0 DEF RunFits
  <2>3. BusyFits(u)'
    BY <1>3, <1>4, <2>1, <2>2 DEF BusyFits, EndedByOther
  <2>4. SettledFits(u)'
    BY <1>0, <1>4, <2>2 DEF SettledFits
  <2> QED
    BY <2>3, <2>4
<1> QED
  BY <1>5, <1>6, <1>7, CalmStep

\* The rest of these steps let go of what a stop holds, after a change from rows
\* to rs, and put the turn down.
LEMMA CalmRelease ==
    ASSUME FatesInv, IInv', used.reopens = 0, NEW t \in Turn, UNCHANGED sub,
           NEW rs \in [Turn -> Row], rows' = FinishedStop(rs, t, "released"),
           exec' = [exec EXCEPT ![t] = "idle"], ~Pending(rs, t),
           \A u \in Turn :
             /\ rs[u].by = rows[u].by /\ rs[u].place = rows[u].place
             /\ rs[u].stop = rows[u].stop /\ rs[u].ending = rows[u].ending
             /\ Kept(rows[u], rs[u])
             /\ rs[u].status = "absent" <=> rows[u].status = "absent"
             /\ u # t => \/ rs[u].fold = rows[u].fold /\ rs[u].status = rows[u].status
                         \/ /\ rs[u].fold = "settled" /\ rs[u].status = "done"
                            /\ Pending(rows, u) /\ Unrun(u)
             /\ u = t => rs[u].fold = rows[u].fold
    PROVE  \A u \in Turn : RunFits(u)'
<1>0. /\ \A u \in Turn : RunFits(u) /\ StepFits(u) /\ rows[u] \in Row
      /\ rows \in [Turn -> Row]
      /\ exec \in [Turn -> {"idle", "begun", "claimed", "reading", "ending", "posted", "failed"}]
  BY FatesFacts
<1>1. exec'[t] = "idle" /\ \A u \in Turn : u # t => exec'[u] = exec[u]
  BY <1>0
<1>2. EndsStop(rs, rows', t)
  BY FinishedStopEnds
<1>3. ASSUME NEW u \in Turn
      PROVE  /\ rows'[u].by = rows[u].by /\ rows'[u].place = rows[u].place
             /\ rows'[u].status = rs[u].status
             /\ rows'[u].stop \in {rows[u].stop, "released"}
  BY FinishedStopRow
<1>4. ASSUME NEW u \in Turn
      PROVE  /\ rows'[u].dispatch = rows[u].dispatch /\ rows'[u].settled = rows[u].settled
             /\ rows'[u].stopHead = rows[u].stopHead /\ rows'[u].foldHead = rows[u].foldHead
             /\ rows'[u].fold = rs[u].fold
             /\ rows'[u].stop = rows[u].stop \/ rows[u].stop = "held"
             /\ rows'[u].ending = "none" => rows[u].ending = "none"
  <2>1. Kept(rs[u], rows'[u]) /\ Kept(rows[u], rs[u]) /\ rows'[u].fold = rs[u].fold
    BY <1>2 DEF EndsStop
  <2>2. /\ rows'[u].stop = rs[u].stop \/ rs[u].stop = "held"
        /\ rows'[u].ending = "none" => rs[u].ending = "none"
    BY <1>2 DEF EndsStop
  <2> QED
    BY <2>1, <2>2 DEF Kept
<1>5. ASSUME NEW u \in Turn PROVE CalmRow(u)
  <2>1. /\ rows'[u].status = "absent" <=> rows[u].status = "absent"
        /\ Pending(rows', u) => Pending(rows, u)
        /\ rows'[u].fold \in Holding => rows[u].fold \in Holding
    BY <1>3, <1>4 DEF Pending, Holding
  <2>2. EndedByOther(rows'[u]) => EndedByOther(rows[u]) \/ Unrun(u)'
    <3>1. CASE u = t
      BY <1>3, <1>4, <3>1 DEF EndedByOther
    <3>2. CASE u # t
      BY <1>1, <1>3, <1>4, <3>2 DEF EndedByOther, Unrun
    <3> QED
      BY <3>1, <3>2
  <2>3. rows'[u].stop = "held" => rows[u].stop = "held"
    BY <1>3
  <2> QED
    BY <1>3, <1>4, <2>1, <2>2, <2>3 DEF CalmRow
<1>6. ASSUME NEW u \in Turn PROVE CalmExec(u)
  <2>1. Live(u)' => Live(u) /\ u # t
    BY <1>1, <1>4 DEF Live
  <2>2. Live(u)' /\ Pending(rows, u) => Pending(rows', u)
    <3>1. Unrun(u) => ~Live(u) \/ rows[u].dispatch # "none"
      BY DEF Live, Unrun
    <3>2. Unrun(u) => ~Live(u)
      BY <3>1 DEF Unrun
    <3> QED
      BY <1>3, <2>1, <3>2 DEF Pending
  <2>3. /\ InHand(u)' => InHand(u)
        /\ exec'[u] \in {"begun", "claimed"} => exec[u] \in {"begun", "claimed"}
        /\ exec[u] \in {"posted", "failed"} => exec'[u] = exec[u] \/ ~Pending(rows', u)
    BY <1>1, <1>3 DEF InHand, Pending
  <2> QED
    BY <2>1, <2>2, <2>3 DEF CalmExec
<1>7. ASSUME NEW u \in Turn PROVE BusyFits(u)' /\ SettledFits(u)'
  <2>1. exec'[u] # "idle" => exec[u] # "idle" /\ u # t
    BY <1>1
  <2>2. BusyFits(u) /\ SettledFits(u)
    BY <1>0 DEF RunFits
  <2>3. BusyFits(u)'
    <3>1. CASE exec'[u] = "idle"
      BY <3>1 DEF BusyFits
    <3>2. CASE u # t /\ rs[u].fold = rows[u].fold /\ rs[u].status = rows[u].status
      <4>1. EndedByOther(rows[u]) => EndedByOther(rows'[u])
        BY <1>4, <3>2 DEF EndedByOther
      <4> QED
        BY <1>3, <2>1, <2>2, <3>2, <4>1 DEF BusyFits
    <3>3. CASE u # t /\ rs[u].fold = "settled" /\ rs[u].status = "done"
      BY <1>3, <1>4, <3>3 DEF BusyFits, EndedByOther
    <3> QED
      BY <2>1, <3>1, <3>2, <3>3
  <2>4. SettledFits(u)'
    BY <1>0, <1>4, <2>2 DEF SettledFits
  <2> QED
    BY <2>3, <2>4
<1> QED
  BY <1>5, <1>6, <1>7, CalmStep

LEMMA CalmParked ==
    ASSUME FatesInv, IInv', used.reopens = 0, NEW t \in Turn,
           PreflightFails(t) \/ (GiveUp(t) /\ Goes(t, "idle"))
    PROVE  \A u \in Turn : RunFits(u)'
<1>0. /\ \A u \in Turn : RunFits(u) /\ StepFits(u) /\ AbsentFits(u) /\ rows[u] \in Row
      /\ rows \in [Turn -> Row] /\ UNCHANGED sub
      /\ exec \in [Turn -> {"idle", "begun", "claimed", "reading", "ending", "posted", "failed"}]
  BY FatesFacts DEF PreflightFails, GiveUp
<1>1. exec' = [exec EXCEPT ![t] = "idle"]
  BY <1>0 DEF PreflightFails, Ready, GiveUp, Goes
<1>2. PICK s \in Parked : rows' = ParkedAs(rows, t, s)
  <2>1. ~ (Goes(t, "idle") /\ Goes(t, "failed"))
    BY <1>0 DEF Goes
  <2> QED
    BY <2>1 DEF PreflightFails, GiveUp, Parked
<1>3. CASE rows[t].status \notin Finished
  <2> DEFINE rs == [rows EXCEPT ![t].status = s]
             x == [rows[t] EXCEPT !.status = s]
  <2>1. rows' = FinishedStop(rs, t, "released")
    BY <1>2, <1>3 DEF ParkedAs
  <2>2. /\ rs \in [Turn -> Row] /\ rs[t].status = s /\ rs[t].fold = rows[t].fold
        /\ \A u \in Turn : Base(rows[u], rs[u]) /\ (u # t => rs[u] = rows[u])
    <3>1. s \in {"pending"} \cup Finished \cup Parked
      OBVIOUS
    <3> QED
      BY <1>0, <1>3, <3>1, StatusBase
  <2>3. rs[t] = x /\ x.by = rows[t].by /\ x.place = rows[t].place
    BY <1>0 DEF Row
  <2>4. s # "absent" /\ s # "pending" /\ rows[t].status # "absent"
    BY <1>0 DEF Parked, PreflightFails, Ready, GiveUp, Pending, AbsentFits
  <2> HIDE DEF rs, x
  <2>5. \A u \in Turn :
          /\ rs[u].by = rows[u].by /\ rs[u].place = rows[u].place
          /\ rs[u].stop = rows[u].stop /\ rs[u].ending = rows[u].ending
          /\ Kept(rows[u], rs[u])
          /\ rs[u].status = "absent" <=> rows[u].status = "absent"
          /\ u # t => rs[u].fold = rows[u].fold /\ rs[u].status = rows[u].status
          /\ u = t => rs[u].fold = rows[u].fold
    BY <2>2, <2>3, <2>4 DEF Base
  <2>6. ~Pending(rs, t)
    BY <2>2, <2>4 DEF Pending
  <2> QED
    BY <1>0, <1>1, <2>1, <2>2, <2>5, <2>6, CalmRelease
<1>4. CASE rows[t].status \in Finished
  <2>1. rows' = rows
    BY <1>2, <1>4 DEF ParkedAs
  <2>2. exec'[t] = "idle" /\ \A u \in Turn : u # t => exec'[u] = exec[u]
    BY <1>0, <1>1
  <2>3. ~Pending(rows', t)
    BY <1>4, <2>1 DEF Pending, Finished
  <2>4. ASSUME NEW u \in Turn PROVE CalmExec(u) /\ BusyFits(u)' /\ SettledFits(u)'
    <3>1. CASE u = t
      BY <1>0, <2>1, <2>2, <2>3, <3>1 DEF CalmExec, InHand, Live, BusyFits, RunFits, SettledFits
    <3>2. CASE u # t
      BY <1>0, <2>1, <2>2, <3>2 DEF CalmExec, InHand, Live, BusyFits, RunFits, SettledFits
    <3> QED
      BY <3>1, <3>2
  <2> QED
    BY <2>1, <2>4, CalmSame, CalmStep
<1> QED
  BY <1>3, <1>4

\* The messages that end with the reply to a turn have not run.
LEMMA SettledUnrun ==
    ASSUME FatesInv, used.reopens = 0, NEW t \in Turn, exec[t] = "posted",
           NEW u \in SettledWith(rows, t)
    PROVE  /\ u \in Turn /\ Pending(rows, u) /\ Unrun(u) /\ Pending(rows, t)
           /\ rows[u].fold = "absorbed" /\ rows[u].foldHead = t
<1>0. /\ u \in Turn /\ Pending(rows, u) /\ rows[u].fold = "absorbed" /\ rows[u].foldHead = t
      /\ rows[t].settled = "completed"
  BY DEF SettledWith, Members
<1>1. RunFits(u) /\ StepFits(t)
  BY <1>0, FatesFacts
<1>2. rows[u].fold \in Holding
  BY <1>0 DEF Holding
<1>3. rows[t].dispatch # "none"
  BY <1>0, <1>1 DEF StepFits
<1>4. Pending(rows, t)
  BY <1>0, <1>1, <1>2, <1>3 DEF RunFits, OrphansEnded, Live
<1> QED
  BY <1>0, <1>1, <1>2, <1>4 DEF RunFits, MemberUnrun

LEMMA CalmRecord ==
    ASSUME FatesInv, IInv', used.reopens = 0, NEW t \in Turn, Record(t)
    PROVE  \A u \in Turn : RunFits(u)'
<1>0. /\ \A u \in Turn : RunFits(u) /\ AbsentFits(u) /\ rows[u] \in Row
      /\ rows \in [Turn -> Row] /\ UNCHANGED sub
      /\ exec' = [exec EXCEPT ![t] = "idle"]
      /\ rows[t].status # "absent"
  BY FatesFacts DEF Record, Goes, AbsentFits
<1>1. CASE exec[t] = "posted"
  <2> DEFINE S == SettledWith(rows, t)
             put(u) == IF u = t THEN [rows[u] EXCEPT !.status = "done"]
                       ELSE IF u \in S THEN [rows[u] EXCEPT !.status = "done", !.fold = "settled"]
                       ELSE rows[u]
             rs == [u \in Turn |-> put(u)]
  <2>1. rows' = FinishedStop(rs, t, "released")
    BY <1>1 DEF Record, Delivered
  <2>2. ASSUME NEW u \in Turn
        PROVE  /\ put(u) \in Row
               /\ put(u).by = rows[u].by /\ put(u).place = rows[u].place
               /\ put(u).stop = rows[u].stop /\ put(u).ending = rows[u].ending
               /\ Kept(rows[u], put(u))
               /\ put(u).status = "absent" <=> rows[u].status = "absent"
               /\ u # t => \/ put(u).fold = rows[u].fold /\ put(u).status = rows[u].status
                           \/ /\ put(u).fold = "settled" /\ put(u).status = "done"
                              /\ u \in S
               /\ u = t => put(u).fold = rows[u].fold /\ put(u).status = "done"
    <3>0. rows[u] \in Row
      BY <1>0
    <3>1. CASE u = t
      BY <1>0, <3>0, <3>1 DEF Row, Finished, Kept
    <3>2. CASE u # t /\ u \in S
      <4>1. rows[u].status = "pending"
        BY <3>2 DEF SettledWith, Pending
      <4>2. put(u) = [rows[u] EXCEPT !.status = "done", !.fold = "settled"]
        BY <3>2
      <4> HIDE DEF put, S
      <4> QED
        BY <3>0, <3>2, <4>1, <4>2 DEF Row, Finished, Kept
    <3>3. CASE u # t /\ u \notin S
      BY <3>0, <3>3 DEF Kept
    <3> QED
      BY <3>1, <3>2, <3>3
  <2>3. rs \in [Turn -> Row] /\ \A u \in Turn : rs[u] = put(u)
    <3> HIDE DEF put
    <3> QED
      BY <2>2
  <2>4. \A u \in S : Pending(rows, u) /\ Unrun(u)
    BY <1>1, SettledUnrun
  <2> HIDE DEF put, rs, S
  <2>5. ~Pending(rs, t)
    BY <2>2, <2>3 DEF Pending
  <2>6. \A u \in Turn :
          /\ rs[u].by = rows[u].by /\ rs[u].place = rows[u].place
          /\ rs[u].stop = rows[u].stop /\ rs[u].ending = rows[u].ending
          /\ Kept(rows[u], rs[u])
          /\ rs[u].status = "absent" <=> rows[u].status = "absent"
          /\ u # t => \/ rs[u].fold = rows[u].fold /\ rs[u].status = rows[u].status
                      \/ /\ rs[u].fold = "settled" /\ rs[u].status = "done"
                         /\ Pending(rows, u) /\ Unrun(u)
          /\ u = t => rs[u].fold = rows[u].fold
    BY <2>2, <2>3, <2>4
  <2> QED
    BY <1>0, <2>1, <2>3, <2>5, <2>6, CalmRelease
<1>2. CASE exec[t] = "failed"
  <2> DEFINE rs == [rows EXCEPT ![t].status = "error"]
             x == [rows[t] EXCEPT !.status = "error"]
  <2>1. rows' = FinishedStop(rs, t, "released")
    BY <1>2 DEF Record, Errored
  <2>2. "error" \in Finished
    BY DEF Finished
  <2>3. /\ rs \in [Turn -> Row] /\ rs[t].status = "error" /\ rs[t].fold = rows[t].fold
        /\ \A u \in Turn : Base(rows[u], rs[u]) /\ (u # t => rs[u] = rows[u])
    BY <1>0, <2>2, StatusBase
  <2>4. rs[t] = x /\ x.by = rows[t].by /\ x.place = rows[t].place
    BY <1>0 DEF Row
  <2> HIDE DEF rs, x
  <2>5. \A u \in Turn :
          /\ rs[u].by = rows[u].by /\ rs[u].place = rows[u].place
          /\ rs[u].stop = rows[u].stop /\ rs[u].ending = rows[u].ending
          /\ Kept(rows[u], rs[u])
          /\ rs[u].status = "absent" <=> rows[u].status = "absent"
          /\ u # t => rs[u].fold = rows[u].fold /\ rs[u].status = rows[u].status
          /\ u = t => rs[u].fold = rows[u].fold
    BY <1>0, <2>3, <2>4 DEF Base
  <2>6. ~Pending(rs, t)
    BY <2>3 DEF Pending
  <2> QED
    BY <1>0, <2>1, <2>3, <2>5, <2>6, CalmRelease
<1> QED
  BY <1>1, <1>2 DEF Record

----------------------------------------------------------------------------
(***************************************************************************)
(* Steps that hold or take messages, or dispatch a run.                    *)
(***************************************************************************)
LEMMA CalmStop ==
    ASSUME FatesInv, IInv', used.reopens = 0, NEW cutoff \in Cutoff, Stop(cutoff)
    PROVE  \A u \in Turn : RunFits(u)'
<1> DEFINE before == {t \in Turn : Pending(rows, t) /\ t < cutoff}
<1>0. /\ \A u \in Turn : RunFits(u) /\ StopFits(u) /\ rows[u] \in Row
      /\ rows \in [Turn -> Row] /\ UNCHANGED <<exec, sub>>
      /\ \A u \in Turn : Pending(rows, u) => rows[u].stop # "stopped"
  BY FatesFacts DEF Stop
<1>1. PICK h \in StopHeads(rows, before) : rows' = Stopped(rows, h, before, cutoff)
  BY DEF Stop
<1>2. h \in Turn /\ Pending(rows, h) /\ rows[h].stop \notin {"stopped", "dropped"}
  <2>1. h \in before
    BY DEF StopHeads
  <2> QED
    BY <1>0, <2>1 DEF Pending, StopFits, Finished
<1>3. ASSUME NEW u \in Turn
      PROVE  /\ rows'[u].by = rows[u].by /\ rows'[u].place = rows[u].place
             /\ rows'[u].status = rows[u].status /\ rows'[u].dispatch = rows[u].dispatch
             /\ rows'[u].settled = rows[u].settled
             /\ rows'[u].fold = rows[u].fold /\ rows'[u].foldHead = rows[u].foldHead
             /\ \/ /\ rows'[u].stop = rows[u].stop /\ rows'[u].stopHead = rows[u].stopHead
                   /\ rows'[u].ending = rows[u].ending
                \/ /\ rows'[u].stop \in {"stopped", "held"} /\ rows[u].status = "pending"
                   /\ rows'[u].stop = "held" => rows[u].dispatch = "none"
                   /\ rows[u].stop \notin {"stopped", "dropped"}
  <2>0. rows[u] \in Row
    BY <1>0
  <2>1. CASE u = h
    <3>1. rows'[u] = [rows[u] EXCEPT !.stop = "stopped", !.stopHead = None,
                                     !.cutoff = cutoff, !.ending = "none"]
      BY <1>1, <2>1 DEF Stopped
    <3> QED
      BY <1>2, <2>0, <2>1, <3>1 DEF Row, Pending
  <2>2. CASE /\ u # h /\ u \in before /\ rows[u].dispatch = "none"
             /\ StopRole(rows, u) \in {"none", "released"}
    <3>1. rows'[u] = [rows[u] EXCEPT !.stop = "held", !.stopHead = h]
      BY <1>1, <2>2 DEF Stopped
    <3>2. rows[u].status = "pending" /\ rows[u].stop \notin {"stopped", "dropped"}
      BY <1>0, <2>2 DEF Pending, StopFits, Finished
    <3> QED
      BY <2>0, <2>2, <3>1, <3>2 DEF Row
  <2>3. CASE u # h /\ ~(u \in before /\ rows[u].dispatch = "none"
                        /\ StopRole(rows, u) \in {"none", "released"})
    BY <1>1, <2>3 DEF Stopped
  <2> QED
    BY <2>1, <2>2, <2>3
<1>4. ASSUME NEW u \in Turn PROVE CalmRow(u)
  <2>1. rows'[u].stop = "held" =>
          \/ rows[u].stop = "held" /\ rows'[u].stopHead = rows[u].stopHead
          \/ HeldUnrun(u)'
    BY <1>3 DEF HeldUnrun
  <2>2. rows[u].stop = "stopped" /\ rows'[u].ending = "none" => rows[u].ending = "none"
    BY <1>3
  <2>3. EndedByOther(rows'[u]) => EndedByOther(rows[u])
    BY <1>3 DEF EndedByOther
  <2> QED
    BY <1>3, <2>1, <2>2, <2>3 DEF CalmRow, Pending
<1>5. ASSUME NEW u \in Turn PROVE CalmExec(u) /\ BusyFits(u)' /\ SettledFits(u)'
  <2>1. EndedByOther(rows[u]) => EndedByOther(rows'[u])
    BY <1>3 DEF EndedByOther
  <2>2. BusyFits(u) /\ SettledFits(u)
    BY <1>0 DEF RunFits
  <2>3. BusyFits(u)' /\ SettledFits(u)'
    BY <1>0, <1>3, <2>1, <2>2 DEF BusyFits, SettledFits
  <2>4. CalmExec(u)
    BY <1>0, <1>3 DEF CalmExec, InHand, Live, Pending
  <2> QED
    BY <2>3, <2>4
<1> QED
  BY <1>4, <1>5, CalmStep

\* What a turn takes waits behind it and has not been attempted.
LEMMA TakesEligible ==
    ASSUME NEW rs \in [Turn -> Row], NEW h \in Turn, NEW n, NEW t \in Takes(rs, h, n)
    PROVE  /\ t \in Turn /\ Pending(rs, t) /\ Before(rs, h, t) /\ t # h
           /\ rs[t].attempts = 0 /\ rs[t].dispatch = "none"
<1>1. t \in Waiting(rs, h) /\ ~Joined(rs, h, t)
  BY DEF Takes
<1>2. t \in Turn /\ Pending(rs, t) /\ Before(rs, h, t)
  BY <1>1 DEF Waiting
<1>3. rs[t].place \in Nat /\ rs[h].place \in Nat
  BY <1>2 DEF Row
<1>4. ~Before(rs, t, t) /\ t # h
  BY <1>2, <1>3 DEF Before
<1>5. Eligible(rs, h, t)
  BY <1>1, <1>4 DEF Takes
<1> QED
  BY <1>2, <1>4, <1>5 DEF Eligible

\* A claim, row by row.
LEMMA ClaimedRow ==
    ASSUME NEW rs \in [Turn -> Row], NEW h \in Turn, NEW c \in 0..MaxCycle, NEW n,
           NEW t \in Turn
    PROVE  LET s == Claimed(rs, h, c, n)[t] IN
           \/ s = rs[t]
           \/ /\ s.by = rs[t].by /\ s.place = rs[t].place
              /\ Taken(rs[t], s, h, c)
              /\ t # h /\ Pending(rs, t) /\ Before(rs, h, t)
              /\ rs[t].attempts = 0 /\ rs[t].dispatch = "none"
<1> DEFINE ss == Claimed(rs, h, c, n)
<1>1. ss[t] = rs[t] \/ Taken(rs[t], ss[t], h, c)
  BY ClaimedTakes
<1>2. ss[t] = rs[t] \/ (t \in Takes(rs, h, n)
        /\ ss[t] = [rs[t] EXCEPT !.fold = RoleIn(h, t, rs[h].plan), !.foldHead = h,
                                 !.cycle = c, !.received = (c = 0)])
  BY DEF Claimed
<1>3. rs[t] \in Row
  OBVIOUS
<1> HIDE DEF ss
<1>4. ss[t] = rs[t] \/ (ss[t].by = rs[t].by /\ ss[t].place = rs[t].place)
  BY <1>2, <1>3 DEF Row
<1> QED
  BY <1>1, <1>2, <1>4, TakesEligible DEF ss

LEMMA CalmClaim ==
    ASSUME FatesInv, IInv', used.reopens = 0, NEW t \in Turn, NEW n, Claim(t, n)
    PROVE  \A u \in Turn : RunFits(u)'
<1> DEFINE rs == [rows EXCEPT ![t].attempts = @ + 1]
<1>0. /\ \A u \in Turn : RunFits(u) /\ EndFits(u) /\ AbsentFits(u) /\ rows[u] \in Row
      /\ rows \in [Turn -> Row] /\ UNCHANGED sub
      /\ exec[t] = "begun" /\ exec' = [exec EXCEPT ![t] = "claimed"]
      /\ exec \in [Turn -> {"idle", "begun", "claimed", "reading", "ending", "posted", "failed"}]
  BY FatesFacts DEF Claim, Goes
<1>1. rows' = rs \/ (rows' = Claimed(rs, t, 0, n) /\ Pending(rows, t))
  BY DEF Claim, Open
<1>2. exec'[t] = "claimed" /\ \A u \in Turn : u # t => exec'[u] = exec[u]
  BY <1>0
<1>3. /\ rs[t] = [rows[t] EXCEPT !.attempts = @ + 1]
      /\ \A u \in Turn : u # t => rs[u] = rows[u]
      /\ rs = [rows EXCEPT ![t] = rs[t]]
  BY <1>0
<1>4. /\ rs[t] \in Row /\ CalmFields(rows[t], rs[t])
      /\ rs[t].status = rows[t].status /\ rs[t].settled = rows[t].settled
  <2>1. rows[t] \in Row
    BY <1>0
  <2> QED
    BY <1>3, <2>1 DEF Row, CalmFields
<1>5. rs \in [Turn -> Row] /\ 0 \in 0..MaxCycle
  BY <1>0, <1>3, <1>4, QueueAssumption
<1> HIDE DEF rs
<1>6. \A u \in Turn : u # t => ~InHand(u)
  <2>1. InHand(t)
    BY <1>0 DEF InHand
  <2> QED
    BY <1>0, <2>1 DEF RunFits, HandFits
<1>7. ASSUME NEW u \in Turn
      PROVE  \/ rows'[u] = rs[u]
             \/ /\ rows'[u].by = rows[u].by /\ rows'[u].place = rows[u].place
                /\ u # t /\ Pending(rows, t) /\ Taken(rows[u], rows'[u], t, 0)
                /\ rows[u].dispatch = "none"
  BY <1>1, <1>3, <1>5, ClaimedRow
<1>8. CalmFields(rows[t], rows'[t]) /\ rows'[t].status = rows[t].status
  BY <1>4, <1>7
<1>9. ASSUME NEW u \in Turn
      PROVE  /\ rows'[u].status = rows[u].status /\ rows'[u].settled = rows[u].settled
             /\ rows'[u].dispatch = "none" <=> rows[u].dispatch = "none"
             /\ CalmRow(u)
             /\ EndedByOther(rows[u]) => EndedByOther(rows'[u])
  <2>1. CASE u = t
    <3>1. rows'[u].settled = rows[u].settled
      BY <1>4, <1>7, <2>1
    <3>2. CalmRow(u)
      BY <1>8, <2>1, CalmFieldsRow DEF Pending
    <3> QED
      BY <1>8, <2>1, <3>1, <3>2 DEF CalmFields, EndedByOther
  <2>2. CASE u # t /\ rows'[u] = rows[u]
    BY <2>2, CalmSame
  <2>3. CASE /\ rows'[u].by = rows[u].by /\ rows'[u].place = rows[u].place
             /\ u # t /\ Pending(rows, t) /\ Taken(rows[u], rows'[u], t, 0)
             /\ rows[u].dispatch = "none"
    <3>1. /\ rows[u].status = "pending" /\ rows'[u].status = "pending"
          /\ rows'[u].stop = rows[u].stop /\ rows'[u].stopHead = rows[u].stopHead
          /\ rows'[u].ending = rows[u].ending
          /\ rows'[u].dispatch = rows[u].dispatch /\ rows'[u].settled = rows[u].settled
          /\ rows'[u].fold \in Holding /\ rows'[u].foldHead = t
      BY <2>3 DEF Taken, Same
    <3>2. Unrun(u)'
      BY <1>2, <1>6, <2>3, <3>1 DEF Unrun, InHand
    <3>3. Pending(rows', t) /\ rows'[t].status # "absent"
      BY <1>8, <2>3 DEF Pending
    <3>4. MemberUnrun(u)' /\ OrphansEnded(u)'
      BY <3>1, <3>2, <3>3 DEF MemberUnrun, OrphansEnded
    <3>5. rows[u].fold # "settled" /\ rows'[u].fold # "settled"
      BY <1>0, <3>1 DEF EndFits, Finished, Holding
    <3>6. EndedByOther(rows'[u]) <=> EndedByOther(rows[u])
      BY <3>1, <3>5 DEF EndedByOther
    <3> QED
      BY <2>3, <3>1, <3>4, <3>6 DEF CalmRow, Pending
  <2> QED
    BY <1>3, <1>7, <2>1, <2>2, <2>3
<1>10. ASSUME NEW u \in Turn PROVE CalmExec(u) /\ BusyFits(u)' /\ SettledFits(u)'
  <2>1. CalmExec(u)
    BY <1>0, <1>2, <1>9 DEF CalmExec, InHand, Live, Pending
  <2>2. BusyFits(u) /\ SettledFits(u)
    BY <1>0 DEF RunFits
  <2>3. exec'[u] # "idle" => exec[u] # "idle"
    BY <1>0, <1>2
  <2>4. BusyFits(u)'
    BY <1>9, <2>2, <2>3 DEF BusyFits
  <2>5. SettledFits(u)'
    BY <1>0, <1>9, <2>2 DEF SettledFits
  <2> QED
    BY <2>1, <2>4, <2>5
<1> QED
  BY <1>9, <1>10, CalmStep

LEMMA ReceivedRow ==
    ASSUME NEW r \in Row, NEW s, s = [r EXCEPT !.received = TRUE]
    PROVE  s \in Row /\ CalmFields(r, s) /\ s.status = r.status /\ s.settled = r.settled
           /\ Same(r, s)
<1>1. s \in Row
  BY DEF Row
<1>2. \A f \in {"by", "place", "stop", "stopHead", "ending", "foldHead", "fold", "dispatch",
                "status", "settled", "attempts"} : s[f] = r[f]
  BY DEF Row
<1> QED
  BY <1>1, <1>2 DEF CalmFields, Same

\* A run that still asks for messages has not been answered: what it takes is not
\* in hand, or the turn of the run is to fail.
LEMMA CalmLateFold ==
    ASSUME FatesInv, IInv', used.reopens = 0, NEW h \in Turn, NEW n, LateFold(h, n)
    PROVE  \A u \in Turn : RunFits(u)'
<1> DEFINE rs == Confirmed(rows, h, cyc[h])
           next == cyc[h] + 1
<1>0. /\ \A u \in Turn : /\ RunFits(u) /\ StepFits(u) /\ EndFits(u) /\ AbsentFits(u)
                         /\ rows[u] \in Row
      /\ rows \in [Turn -> Row] /\ UNCHANGED <<exec, sub>> /\ sub[h] = "running"
      /\ exec \in [Turn -> {"idle", "begun", "claimed", "reading", "ending", "posted", "failed"}]
      /\ cyc[h] \in 0..MaxCycle /\ MaxCycle \in Nat
  BY FatesFacts, QueueAssumption DEF LateFold, FatesInv, IInv, QueueTypeOK
<1>1. rows' = rs \/ (rows' = Claimed(rs, h, next, n) /\ next \in 0..MaxCycle /\ Open(rows, h))
  BY <1>0 DEF LateFold
<1>2. ASSUME NEW u \in Turn
      PROVE  /\ rs[u] \in Row /\ CalmFields(rows[u], rs[u])
             /\ rs[u].status = rows[u].status /\ rs[u].settled = rows[u].settled
             /\ Same(rows[u], rs[u])
  <2>1. rows[u] \in Row /\ (rs[u] = rows[u] \/ rs[u] = [rows[u] EXCEPT !.received = TRUE])
    <3>1. CASE u \in Members(rows, h) /\ rows[u].cycle \in 1..cyc[h]
      BY <1>0, <3>1 DEF Confirmed
    <3>2. CASE ~(u \in Members(rows, h) /\ rows[u].cycle \in 1..cyc[h])
      BY <1>0, <3>2 DEF Confirmed
    <3> QED
      BY <3>1, <3>2
  <2> HIDE DEF rs
  <2>2. CASE rs[u] = rows[u]
    BY <2>1, <2>2 DEF CalmFields, Same
  <2>3. CASE rs[u] = [rows[u] EXCEPT !.received = TRUE]
    BY <2>1, <2>3, ReceivedRow
  <2> QED
    BY <2>1, <2>2, <2>3
<1>3. rs \in [Turn -> Row]
  BY <1>2 DEF Confirmed
<1> HIDE DEF rs, next
<1>4. ASSUME NEW u \in Turn
      PROVE  \/ rows'[u] = rs[u]
             \/ /\ rows'[u].by = rs[u].by /\ rows'[u].place = rs[u].place
                /\ u # h /\ Open(rows, h) /\ Taken(rs[u], rows'[u], h, next)
                /\ Before(rs, h, u) /\ rs[u].attempts = 0 /\ rs[u].dispatch = "none"
  BY <1>1, <1>3, ClaimedRow
<1>5. CalmFields(rows[h], rows'[h]) /\ rows'[h].status = rows[h].status
  BY <1>2, <1>4
<1>6. Open(rows, h) => Pending(rows, h) /\ rows[h].stop # "stopped"
  BY DEF Open, StopRole
<1>7. ASSUME NEW u \in Turn, Open(rows, h), Before(rs, h, u), rs[u].attempts = 0
      PROVE  exec[u] \notin {"begun", "claimed"} \/ exec[h] = "failed"
  <2>1. rows[u].attempts = 0 /\ Before(rows, h, u)
    BY <1>2, <1>7 DEF Same, CalmFields, Before
  <2>2. exec[u] # "claimed"
    <3>1. StepFits(u)
      BY <1>0
    <3>2. ~(0 > 0)
      OBVIOUS
    <3> QED
      BY <2>1, <3>1, <3>2 DEF StepFits
  <2>3. ASSUME exec[u] = "begun" PROVE exec[h] = "failed"
    <3>1. InHand(u)
      BY <2>3 DEF InHand
    <3>2. exec[h] \in {"posted", "failed"}
      BY <1>0, <1>6, <1>7, <2>1, <3>1 DEF RunFits, HandFits
    <3>3. rows[h].settled = "none"
      <4>1. "running" \notin Ended
        BY DEF Ended
      <4> QED
        BY <1>0, <4>1 DEF RunFits, SettledFits
    <3> QED
      BY <1>0, <1>6, <1>7, <3>2, <3>3 DEF StepFits
  <2> QED
    BY <2>2, <2>3
<1>8. ASSUME NEW u \in Turn
      PROVE  /\ rows'[u].status = rows[u].status /\ rows'[u].settled = rows[u].settled
             /\ rows'[u].dispatch = "none" <=> rows[u].dispatch = "none"
             /\ CalmRow(u)
             /\ EndedByOther(rows[u]) => EndedByOther(rows'[u])
  <2>1. CASE rows'[u] = rs[u]
    <3>1. CalmFields(rows[u], rows'[u]) /\ rows'[u].status = rows[u].status
      BY <1>2, <2>1
    <3>2. rows'[u].settled = rows[u].settled
      BY <1>2, <2>1
    <3>3. CalmRow(u)
      BY <3>1, CalmFieldsRow DEF Pending
    <3> QED
      BY <3>1, <3>2, <3>3 DEF CalmFields, EndedByOther
  <2>2. CASE /\ rows'[u].by = rs[u].by /\ rows'[u].place = rs[u].place
             /\ u # h /\ Open(rows, h) /\ Taken(rs[u], rows'[u], h, next)
             /\ Before(rs, h, u) /\ rs[u].attempts = 0 /\ rs[u].dispatch = "none"
    <3>1. /\ rows[u].status = "pending" /\ rows'[u].status = "pending"
          /\ rows'[u].stop = rows[u].stop /\ rows'[u].stopHead = rows[u].stopHead
          /\ rows'[u].ending = rows[u].ending
          /\ rows'[u].by = rows[u].by /\ rows'[u].place = rows[u].place
          /\ rows'[u].dispatch = "none" /\ rows[u].dispatch = "none"
          /\ rows'[u].settled = rows[u].settled
          /\ rows'[u].fold \in Holding /\ rows'[u].foldHead = h
      BY <1>2, <2>2 DEF Taken, Same, CalmFields
    <3>2. Unrun(u)' \/ exec'[h] = "failed"
      BY <1>0, <1>7, <2>2, <3>1 DEF Unrun
    <3>3. Pending(rows', h) /\ rows'[h].status # "absent"
      BY <1>5, <1>6, <2>2 DEF Pending
    <3>4. MemberUnrun(u)' /\ OrphansEnded(u)'
      BY <3>1, <3>2, <3>3 DEF MemberUnrun, OrphansEnded
    <3>5. rows[u].fold # "settled" /\ rows'[u].fold # "settled"
      BY <1>0, <3>1 DEF EndFits, Finished, Holding
    <3>6. EndedByOther(rows'[u]) <=> EndedByOther(rows[u])
      BY <3>1, <3>5 DEF EndedByOther
    <3> QED
      BY <3>1, <3>4, <3>6 DEF CalmRow, Pending
  <2> QED
    BY <1>4, <2>1, <2>2
<1>9. ASSUME NEW u \in Turn PROVE CalmExec(u) /\ BusyFits(u)' /\ SettledFits(u)'
  <2>1. CalmExec(u)
    BY <1>0, <1>8 DEF CalmExec, InHand, Live, Pending
  <2>2. BusyFits(u) /\ SettledFits(u)
    BY <1>0 DEF RunFits
  <2>3. BusyFits(u)'
    BY <1>0, <1>8, <2>2 DEF BusyFits
  <2>4. SettledFits(u)'
    BY <1>0, <1>8, <2>2 DEF SettledFits
  <2> QED
    BY <2>1, <2>3, <2>4
<1> QED
  BY <1>8, <1>9, CalmStep
----------------------------------------------------------------------------
(***************************************************************************)
(* The steps that do start something.                                      *)
(***************************************************************************)
LEMMA CalmRefused ==
    ASSUME FatesInv, IInv', used.reopens = 0, NEW t \in Turn, Prepare(t), Refused(rows, t)
    PROVE  \A u \in Turn : RunFits(u)'
<1>0. /\ \A u \in Turn : RunFits(u) /\ rows[u] \in Row
      /\ rows \in [Turn -> Row] /\ UNCHANGED sub
      /\ exec \in [Turn -> {"idle", "begun", "claimed", "reading", "ending", "posted", "failed"}]
      /\ exec[t] = "claimed" /\ exec' = [exec EXCEPT ![t] = "idle"]
      /\ rows' = [rows EXCEPT ![t].attempts = @ - 1]
  BY FatesFacts DEF Prepare, Goes
<1>1. /\ rows'[t] = [rows[t] EXCEPT !.attempts = @ - 1]
      /\ \A u \in Turn : u # t => rows'[u] = rows[u]
  BY <1>0
<1>2. ASSUME NEW u \in Turn
      PROVE  /\ CalmFields(rows[u], rows'[u]) /\ rows'[u].status = rows[u].status
             /\ rows'[u].settled = rows[u].settled
  <2>1. CASE u = t
    BY <1>0, <1>1, <2>1 DEF Row, CalmFields
  <2>2. CASE u # t
    BY <1>1, <2>2 DEF CalmFields
  <2> QED
    BY <2>1, <2>2
<1>3. ASSUME NEW u \in Turn
      PROVE  /\ CalmRow(u) /\ CalmExec(u) /\ BusyFits(u)' /\ SettledFits(u)'
  <2>1. CalmRow(u)
    BY <1>2, CalmFieldsRow DEF Pending
  <2>2. CalmExec(u)
    BY <1>0, <1>2 DEF CalmExec, InHand, Live, Pending, CalmFields
  <2>3. BusyFits(u) /\ SettledFits(u)
    BY <1>0 DEF RunFits
  <2>4. EndedByOther(rows'[u]) <=> EndedByOther(rows[u])
    BY <1>2 DEF CalmFields, EndedByOther
  <2>5. BusyFits(u)'
    BY <1>0, <1>2, <2>3, <2>4 DEF BusyFits
  <2>6. SettledFits(u)'
    BY <1>0, <1>2, <2>3 DEF SettledFits
  <2> QED
    BY <2>1, <2>2, <2>5, <2>6
<1> QED
  BY <1>3, CalmStep

\* What dispatches is neither held by a stop nor taken by an open turn, and it is
\* the only turn in hand.
LEMMA DispatchFits ==
    ASSUME FatesInv, IInv', used.reopens = 0, NEW t \in Turn, Prepare(t), ~Refused(rows, t)
    PROVE  \A u \in Turn : RunFits(u)'
<1>0. /\ \A u \in Turn : RunFits(u) /\ StopFits(u) /\ FoldFits(u) /\ rows[u] \in Row
      /\ rows \in [Turn -> Row] /\ UNCHANGED sub
      /\ exec \in [Turn -> {"idle", "begun", "claimed", "reading", "ending", "posted", "failed"}]
      /\ exec[t] = "claimed" /\ exec' = [exec EXCEPT ![t] = "begun"]
      /\ rows' = [rows EXCEPT ![t].dispatch = "started"]
  BY FatesFacts DEF Prepare, Goes
<1>1. /\ rows'[t] = [rows[t] EXCEPT !.dispatch = "started"]
      /\ \A u \in Turn : u # t => rows'[u] = rows[u]
      /\ exec'[t] = "begun" /\ \A u \in Turn : u # t => exec'[u] = exec[u]
  BY <1>0
<1>2. ASSUME NEW u \in Turn
      PROVE  /\ rows'[u].by = rows[u].by /\ rows'[u].place = rows[u].place
             /\ rows'[u].stop = rows[u].stop /\ rows'[u].stopHead = rows[u].stopHead
             /\ rows'[u].ending = rows[u].ending
             /\ rows'[u].fold = rows[u].fold /\ rows'[u].foldHead = rows[u].foldHead
             /\ rows'[u].status = rows[u].status /\ rows'[u].settled = rows[u].settled
             /\ u # t => rows'[u].dispatch = rows[u].dispatch
  <2>1. CASE u = t
    BY <1>0, <1>1, <2>1 DEF Row
  <2>2. CASE u # t
    BY <1>1, <2>2
  <2> QED
    BY <2>1, <2>2
<1>3. ASSUME NEW u \in Turn
      PROVE  /\ Pending(rows', u) <=> Pending(rows, u)
             /\ EndedByOther(rows'[u]) <=> EndedByOther(rows[u])
             /\ InHand(u)' <=> InHand(u)
             /\ exec'[u] \in {"posted", "failed"} <=> exec[u] \in {"posted", "failed"}
             /\ exec'[u] = "failed" <=> exec[u] = "failed"
             /\ Live(u)' => Live(u)
  <2>1. Pending(rows', u) <=> Pending(rows, u)
    BY <1>2 DEF Pending
  <2>2. EndedByOther(rows'[u]) <=> EndedByOther(rows[u])
    BY <1>2 DEF EndedByOther
  <2>3. CASE u = t
    BY <1>0, <1>1, <2>1, <2>2, <2>3 DEF InHand, Live
  <2>4. CASE u # t
    BY <1>1, <2>1, <2>2, <2>4 DEF InHand, Live
  <2> QED
    BY <2>3, <2>4
<1>4. InHand(t) /\ \A u \in Turn : InHand(u) => u = t
  <2>1. InHand(t)
    BY <1>0 DEF InHand
  <2> QED
    BY <1>0, <2>1 DEF RunFits, HandFits
<1> SUFFICES ASSUME NEW u \in Turn PROVE RunFits(u)'
  OBVIOUS
<1>5. BusyFits(u)' /\ PlaceFits(u)' /\ SettledFits(u)'
  <2>1. BusyFits(u) /\ PlaceFits(u) /\ SettledFits(u)
    BY <1>0 DEF RunFits
  <2>2. exec'[u] # "idle" => exec[u] # "idle"
    BY <1>0, <1>1
  <2>3. Present' = Present
    BY <1>2 DEF Present
  <2>4. BusyFits(u)'
    BY <1>2, <1>3, <2>1, <2>2 DEF BusyFits
  <2>5. PlaceFits(u)'
    BY <1>2, <2>1, <2>3 DEF PlaceFits
  <2>6. SettledFits(u)'
    BY <1>0, <1>2, <2>1 DEF SettledFits
  <2> QED
    BY <2>4, <2>5, <2>6
<1>6. HandFits(u)'
  <2>1. HandFits(u)
    BY <1>0 DEF RunFits
  <2>2. \A v \in Turn : Before(rows', v, u) => Before(rows, v, u)
    BY <1>2 DEF Before
  <2> QED
    BY <1>2, <1>3, <2>1, <2>2 DEF HandFits
<1>7. HeldUnrun(u)'
  <2> SUFFICES ASSUME rows'[u].stop = "held" PROVE HeldUnrun(u)'
    BY DEF HeldUnrun
  <2>1. PICK h \in Turn : /\ h = rows[u].stopHead /\ h = rows'[u].stopHead
                          /\ rows[u].stop = "held" /\ rows[h].stop = "stopped"
    BY <1>0, <1>2 DEF StopFits
  <2>2. ASSUME rows'[h].ending = "none", Pending(rows', h) \/ InHand(h)'
        PROVE  rows'[u].dispatch = "none"
    <3>1. rows[h].ending = "none" /\ (Pending(rows, h) \/ InHand(h))
      BY <1>2, <1>3, <2>2
    <3>2. CASE u # t
      BY <1>0, <1>2, <2>1, <3>1, <3>2 DEF RunFits, HeldUnrun
    <3>3. CASE u = t
      <4>1. ~Unfinished(rows, h)
        BY <2>1, <3>3 DEF Refused, StopRole
      <4>2. InHand(h) /\ h # t
        BY <2>1, <3>1, <3>3, <4>1 DEF Unfinished
      <4> QED
        BY <1>4, <4>2
    <3> QED
      BY <3>2, <3>3
  <2> QED
    BY <2>1, <2>2 DEF HeldUnrun
<1>8. MemberUnrun(u)' /\ OrphansEnded(u)'
  <2> SUFFICES ASSUME rows'[u].fold \in Holding PROVE MemberUnrun(u)' /\ OrphansEnded(u)'
    BY DEF MemberUnrun, OrphansEnded
  <2>1. PICK h \in Turn : /\ h = rows[u].foldHead /\ h = rows'[u].foldHead
                          /\ rows[u].fold \in Holding
    BY <1>0, <1>2 DEF FoldFits, Holding
  <2>2. MemberUnrun(u) /\ OrphansEnded(u)
    BY <1>0 DEF RunFits
  <2>3. rows'[h].status # "absent"
    BY <1>2, <2>1, <2>2 DEF MemberUnrun
  <2>4. ASSUME Pending(rows', u), Pending(rows', h), exec'[h] # "failed"
        PROVE  Unrun(u)'
    <3>1. u # t
      BY <1>3, <2>1, <2>4 DEF Refused, Folded
    <3>2. Unrun(u)
      BY <1>3, <2>1, <2>2, <2>4 DEF MemberUnrun
    <3> QED
      BY <1>1, <3>1, <3>2 DEF Unrun
  <2>5. ASSUME Live(h)', ~Pending(rows', h) PROVE ~Pending(rows', u)
    BY <1>3, <2>1, <2>2, <2>5 DEF OrphansEnded
  <2> QED
    BY <2>1, <2>3, <2>4, <2>5 DEF MemberUnrun, OrphansEnded
<1>9. EndedUnrun(u)'
  <2>1. ASSUME EndedByOther(rows'[u]) PROVE Unrun(u)'
    <3>1. Unrun(u)
      BY <1>0, <1>3, <2>1 DEF RunFits, EndedUnrun
    <3>2. u # t
      BY <1>0, <3>1 DEF Unrun
    <3> QED
      BY <1>1, <3>1, <3>2 DEF Unrun
  <2> QED
    BY <2>1 DEF EndedUnrun
<1> QED
  BY <1>5, <1>6, <1>7, <1>8, <1>9 DEF RunFits

\* What Enqueue writes.
LEMMA EnqueueRow ==
    ASSUME FatesInv, IInv', used.reopens = 0, NEW t \in Turn, Enqueue(t)
    PROVE  /\ \A u \in Turn : u # t => rows'[u] = rows[u]
           /\ rows[t].status = "absent" /\ rows'[t].status = "pending"
           /\ rows'[t].by = "runner" /\ rows'[t].place = Cardinality(Present) + 1
           /\ rows'[t].fold = "none" /\ rows'[t].dispatch = "none" /\ rows'[t].settled = "none"
           /\ rows'[t].stop \in {"none", "held"}
           /\ UNCHANGED <<exec, sub>>
<1> DEFINE place == Cardinality(Present) + 1
           Heads == {h \in Turn : Unfinished(rows, h) /\ t < rows[h].cutoff}
           fresh == [NoRow EXCEPT !.status = "pending", !.place = place]
           held == [fresh EXCEPT !.stop = "held", !.stopHead = CHOOSE h \in Heads : TRUE]
<1>0. rows \in [Turn -> Row] /\ rows[t].status = "absent" /\ UNCHANGED <<exec, sub>>
  BY FatesFacts DEF Enqueue
<1>1. rows' = [rows EXCEPT ![t] = IF Heads = {} THEN fresh ELSE held]
  BY DEF Enqueue, Present
<1> HIDE DEF place
<1>2. /\ fresh.status = "pending" /\ fresh.place = place /\ fresh.by = "runner"
      /\ fresh.fold = "none" /\ fresh.dispatch = "none" /\ fresh.settled = "none"
      /\ fresh.stop = "none"
  BY DEF NoRow
<1>3. /\ held.status = "pending" /\ held.place = place /\ held.by = "runner"
      /\ held.fold = "none" /\ held.dispatch = "none" /\ held.settled = "none"
      /\ held.stop = "held"
  BY DEF NoRow
<1> HIDE DEF fresh, held, Heads
<1>4. rows'[t] = (IF Heads = {} THEN fresh ELSE held) /\ \A u \in Turn : u # t => rows'[u] = rows[u]
  BY <1>0, <1>1
<1> QED
  BY <1>0, <1>2, <1>3, <1>4 DEF place

LEMMA EnqueueFits ==
    ASSUME FatesInv, IInv', used.reopens = 0, NEW t \in Turn, Enqueue(t)
    PROVE  \A u \in Turn : RunFits(u)'
<1>0. /\ \A u \in Turn : /\ RunFits(u) /\ StopFits(u) /\ FoldFits(u) /\ AbsentFits(u)
                         /\ rows[u] \in Row /\ rows[u].place \in Nat
      /\ exec[t] = "idle"
  BY FatesFacts, EnqueueRow DEF AbsentFits, Row
<1>1. /\ \A u \in Turn : u # t => rows'[u] = rows[u]
      /\ rows[t].status = "absent" /\ rows'[t].status = "pending"
      /\ rows'[t].by = "runner" /\ rows'[t].place = Cardinality(Present) + 1
      /\ rows'[t].fold = "none" /\ rows'[t].dispatch = "none" /\ rows'[t].settled = "none"
      /\ rows'[t].stop \in {"none", "held"}
      /\ exec' = exec /\ sub' = sub
  BY EnqueueRow
<1>2. /\ Cardinality(Present) \in Nat /\ Cardinality(Present') = Cardinality(Present) + 1
  <2>1. IsFiniteSet(Present) /\ t \notin Present
    BY <1>1, QueueAssumption, FS_Subset DEF Present
  <2>2. Present' = Present \cup {t}
    BY <1>1 DEF Present
  <2> QED
    BY <2>1, <2>2, FS_AddElement, FS_CardinalityType
<1> SUFFICES ASSUME NEW u \in Turn PROVE RunFits(u)'
  OBVIOUS
<1>3. BusyFits(u)' /\ SettledFits(u)'
  <2>1. BusyFits(u) /\ SettledFits(u)
    BY <1>0 DEF RunFits
  <2>2. CASE u # t
    BY <1>1, <2>1, <2>2 DEF BusyFits, SettledFits
  <2>3. CASE u = t
    BY <1>0, <1>1, <2>3 DEF BusyFits, SettledFits
  <2> QED
    BY <2>2, <2>3
<1>4. PlaceFits(u)'
  <2>1. CASE u # t
    <3>1. rows[u].status # "absent" => rows[u].place <= Cardinality(Present)
      BY <1>0 DEF RunFits, PlaceFits
    <3>2. rows'[u].status # "absent" => rows'[u].place <= Cardinality(Present')
      BY <1>0, <1>1, <1>2, <2>1, <3>1
    <3> QED
      BY <3>2 DEF PlaceFits
  <2>2. CASE u = t
    <3>1. rows'[u].place <= Cardinality(Present')
      BY <1>1, <1>2, <2>2
    <3> QED
      BY <3>1 DEF PlaceFits
  <2> QED
    BY <2>1, <2>2
<1>5. HandFits(u)'
  <2>1. HandFits(u)
    BY <1>0 DEF RunFits
  <2>2. ASSUME InHand(u)', NEW v \in Turn
        PROVE  /\ InHand(v)' => v = u
               /\ Pending(rows', v) /\ Before(rows', v, u) => exec'[v] \in {"posted", "failed"}
    <3>1. InHand(u) /\ u # t
      BY <1>0, <1>1, <2>2 DEF InHand
    <3>2. rows[u].place <= Cardinality(Present)
      <4>1. rows[u].status # "absent"
        BY <1>0, <3>1 DEF InHand, AbsentFits
      <4> QED
        BY <1>0, <4>1 DEF RunFits, PlaceFits
    <3>3. InHand(v)' => v = u
      BY <1>1, <2>1, <2>2, <3>1 DEF HandFits, InHand
    <3>4. CASE v = t
      <4>1. ~(Cardinality(Present) + 1 < rows[u].place)
        BY <1>0, <1>2, <3>2
      <4>2. ~Before(rows', v, u)
        BY <1>1, <3>1, <3>4, <4>1 DEF Before
      <4> QED
        BY <3>3, <4>2
    <3>5. CASE v # t
      <4>1. Pending(rows', v) /\ Before(rows', v, u) => Pending(rows, v) /\ Before(rows, v, u)
        BY <1>1, <3>1, <3>5 DEF Pending, Before
      <4> QED
        BY <1>1, <2>1, <3>1, <3>3, <4>1 DEF HandFits
    <3> QED
      BY <3>4, <3>5
  <2>3. rows'[u].by = "runner"
    BY <1>1, <2>1 DEF HandFits
  <2> QED
    BY <2>2, <2>3 DEF HandFits
<1>6. HeldUnrun(u)'
  <2>1. CASE u = t
    BY <1>1, <2>1 DEF HeldUnrun
  <2>2. CASE u # t /\ rows[u].stop = "held"
    <3>1. PICK h \in Turn : h = rows[u].stopHead /\ h = rows'[u].stopHead
                            /\ rows[h].stop = "stopped"
      BY <1>0, <1>1, <2>2 DEF StopFits
    <3>2. h # t
      BY <1>0, <1>1, <3>1 DEF AbsentFits
    <3>3. rows'[h] = rows[h] /\ rows'[u] = rows[u] /\ exec' = exec
      BY <1>1, <2>2, <3>2
    <3>4. HeldUnrun(u)
      BY <1>0 DEF RunFits
    <3> QED
      BY <3>1, <3>3, <3>4 DEF HeldUnrun, Pending, InHand
  <2>3. CASE u # t /\ rows[u].stop # "held"
    BY <1>1, <2>3 DEF HeldUnrun
  <2> QED
    BY <2>1, <2>2, <2>3
<1>7. MemberUnrun(u)' /\ OrphansEnded(u)'
  <2>1. CASE rows'[u].fold \notin Holding
    BY <2>1 DEF MemberUnrun, OrphansEnded
  <2>2. CASE rows'[u].fold \in Holding
    <3>1. u # t /\ rows[u].fold \in Holding
      BY <1>1, <2>2 DEF Holding
    <3>2. PICK h \in Turn : h = rows[u].foldHead /\ h = rows'[u].foldHead
      BY <1>0, <1>1, <3>1 DEF FoldFits, Holding
    <3>3. MemberUnrun(u) /\ OrphansEnded(u)
      BY <1>0 DEF RunFits
    <3>4. h # t
      BY <1>1, <3>1, <3>2, <3>3 DEF MemberUnrun
    <3>5. rows'[h] = rows[h] /\ rows'[u] = rows[u] /\ exec' = exec
      BY <1>1, <3>1, <3>4
    <3>6. (Unrun(u)' <=> Unrun(u)) /\ (Live(h)' <=> Live(h))
      BY <3>5 DEF Unrun, Live
    <3> QED
      BY <3>2, <3>3, <3>5, <3>6 DEF MemberUnrun, OrphansEnded, Pending
  <2> QED
    BY <2>1, <2>2
<1>8. EndedUnrun(u)'
  <2>1. CASE u = t
    <3>1. ~EndedByOther(rows'[u])
      BY <1>1, <2>1 DEF EndedByOther
    <3> QED
      BY <3>1 DEF EndedUnrun
  <2>2. CASE u # t
    <3>1. EndedUnrun(u) /\ rows'[u] = rows[u] /\ exec' = exec
      BY <1>0, <1>1, <2>2 DEF RunFits
    <3> QED
      BY <3>1 DEF EndedUnrun, Unrun
  <2> QED
    BY <2>1, <2>2
<1> QED
  BY <1>3, <1>4, <1>5, <1>6, <1>7, <1>8 DEF RunFits

----------------------------------------------------------------------------
LEMMA InitFates == Init => FatesInv
<1> SUFFICES ASSUME Init PROVE FatesInv
  OBVIOUS
<1>1. IInv
  BY InitInvariance
<1>2. used \in [stops: Nat, interrupts: Nat, parks: Nat, reopens: Nat]
  BY DEF Init
<1>3. ASSUME NEW t \in Turn PROVE RunFits(t)
  <2>1. /\ rows[t].status = "absent" /\ rows[t].by = "runner" /\ rows[t].dispatch = "none"
        /\ rows[t].settled = "none" /\ rows[t].stop = "none" /\ rows[t].fold = "none"
        /\ exec[t] = "idle"
    BY DEF Init, NoRow
  <2>2. BusyFits(t) /\ PlaceFits(t) /\ SettledFits(t) /\ HandFits(t)
    BY <2>1 DEF BusyFits, PlaceFits, SettledFits, HandFits, InHand
  <2>3. HeldUnrun(t) /\ MemberUnrun(t) /\ OrphansEnded(t) /\ EndedUnrun(t)
    BY <2>1 DEF HeldUnrun, MemberUnrun, OrphansEnded, EndedUnrun, EndedByOther, Holding
  <2> QED
    BY <2>2, <2>3 DEF RunFits
<1> QED
  BY <1>1, <1>2, <1>3 DEF FatesInv

LEMMA TurnStepFates ==
    ASSUME FatesInv, IInv', used.reopens = 0, NEW t \in Turn, TurnStep(t)
    PROVE  \A u \in Turn : RunFits(u)'
<1>1. CASE Enqueue(t)
  BY <1>1, EnqueueFits
<1>2. CASE ResolveRecovery(t) \/ HandOver(t) \/ Receipt(t) \/ Settlement(t)
  BY <1>2, CalmOneField
<1>3. CASE Begin(t)
  BY <1>3, BeginFits
<1>4. CASE PreflightFails(t)
  BY <1>4, CalmParked
<1>5. CASE Prepare(t)
  BY <1>5, CalmRefused, DispatchFits
<1>6. CASE FinishStop(t)
  BY <1>6, CalmFinishStop
<1>7. CASE Post(t) \/ Interrupt(t) \/ Accept(t) \/ \E outcome \in Ended : SubmissionEnds(t, outcome)
  <2>1. UNCHANGED rows
    BY <1>7 DEF Post, Interrupt, Accept, SubmissionEnds
  <2> QED
    BY <1>7, <2>1, RowsKept
<1>8. CASE GiveUp(t)
  <2>1. (Goes(t, "failed") /\ UNCHANGED rows) \/ Goes(t, "idle")
    BY <1>8 DEF GiveUp
  <2> QED
    BY <1>8, <2>1, CalmParked, RowsKept
<1>9. CASE Record(t)
  BY <1>9, CalmRecord
<1>10. ASSUME NEW n \in 1..MaxTaken, Claim(t, n) PROVE \A u \in Turn : RunFits(u)'
  BY <1>10, CalmClaim
<1>11. ASSUME NEW n \in 1..MaxTaken, LateFold(t, n) PROVE \A u \in Turn : RunFits(u)'
  BY <1>11, CalmLateFold
<1>12. ASSUME NEW plan \in {"shared", "personal"}, Freeze(t, plan)
       PROVE  \A u \in Turn : RunFits(u)'
  BY <1>12, CalmFreeze
<1> QED
  BY <1>1, <1>2, <1>3, <1>4, <1>5, <1>6, <1>7, <1>8, <1>9, <1>10, <1>11, <1>12 DEF TurnStep

LEMMA NextFates == FatesInv /\ [Next]_vars => FatesInv'
<1> SUFFICES ASSUME FatesInv, [Next]_vars PROVE FatesInv'
  OBVIOUS
<1>1. IInv'
  BY NextInvariance DEF FatesInv
<1>2. used' \in [stops: Nat, interrupts: Nat, parks: Nat, reopens: Nat]
  BY UsedTypes
<1>3. ASSUME used'.reopens = 0 PROVE \A t \in Turn : RunFits(t)'
  <2>1. used.reopens = 0 /\ ~Reopen
    BY <1>3, UsedStep
  <2>2. ASSUME NEW t \in Turn, TurnStep(t) PROVE \A u \in Turn : RunFits(u)'
    BY <1>1, <2>1, <2>2, TurnStepFates
  <2>3. ASSUME NEW cutoff \in Cutoff, Stop(cutoff) PROVE \A u \in Turn : RunFits(u)'
    BY <1>1, <2>1, <2>3, CalmStop
  <2>4. ASSUME OperatorCancels PROVE \A u \in Turn : RunFits(u)'
    BY <1>1, <2>1, <2>4, CalmCancel
  <2>5. ASSUME UNCHANGED vars PROVE \A u \in Turn : RunFits(u)'
    <3>1. /\ \A u \in Turn : RunFits(u)
          /\ rows' = rows /\ exec' = exec /\ sub' = sub
      BY <2>1, <2>5, FatesFacts DEF vars
    <3> SUFFICES ASSUME NEW u \in Turn PROVE RunFits(u)'
      OBVIOUS
    <3>2. BusyFits(u)' /\ PlaceFits(u)' /\ SettledFits(u)'
      BY <3>1 DEF RunFits, BusyFits, PlaceFits, SettledFits, Present
    <3>3. HandFits(u)'
      BY <3>1 DEF RunFits, HandFits, InHand, Pending, Before
    <3>4. HeldUnrun(u)' /\ EndedUnrun(u)'
      BY <3>1 DEF RunFits, HeldUnrun, EndedUnrun, Unrun, InHand, Pending
    <3>5. MemberUnrun(u)' /\ OrphansEnded(u)'
      BY <3>1 DEF RunFits, MemberUnrun, OrphansEnded, Unrun, Live, Pending
    <3> QED
      BY <3>2, <3>3, <3>4, <3>5 DEF RunFits
  <2> QED
    BY <2>1, <2>2, <2>3, <2>4, <2>5 DEF Next
<1> QED
  BY <1>1, <1>2, <1>3 DEF FatesInv

\* Whatever is stopped, folded, cancelled and interrupted, FatesInv holds: the
\* runner of the thread has at most one turn in hand, what it has taken is not in
\* hand, and no turn that is held, taken or ended by another has dispatched.
THEOREM FatesInvariance == Spec => []FatesInv
<1> QED
  BY InitFates, NextFates, PTL DEF Spec

\* A message that ended with another turn, answered or dropped, never reached the
\* model by a run of its own (settleFoldMembers, finishStop and the gate of
\* prepareFlueDispatch together).
THEOREM EndedTurnsNeverRan == Spec => []EndedByAnotherNeverRan
<1>1. FatesInv => EndedByAnotherNeverRan
  <2> SUFFICES ASSUME FatesInv, used.reopens = 0, NEW t \in Turn, EndedByOther(rows[t])
               PROVE  rows[t].dispatch = "none" /\ sub[t] = "none"
    BY DEF EndedByAnotherNeverRan, EndedByOther
  <2>1. RunFits(t) /\ StepFits(t)
    BY FatesFacts
  <2> QED
    BY <2>1 DEF RunFits, EndedUnrun, Unrun, StepFits
<1> QED
  BY <1>1, FatesInvariance, PTL

----------------------------------------------------------------------------
(***************************************************************************)
(* The promise, with reopened turns too.                                   *)
(***************************************************************************)
BusyInv == IInv /\ \A t \in Turn : BusyFits(t)

\* What decides the fate of a turn, and nothing else, is kept.
Undisturbed(t) ==
    /\ rows'[t].status = rows[t].status
    /\ rows'[t].stop = "dropped" <=> rows[t].stop = "dropped"
    /\ rows'[t].fold = "settled" <=> rows[t].fold = "settled"

LEMMA UndisturbedFate ==
    ASSUME NEW t \in Turn, Undisturbed(t)
    PROVE  /\ FateOf(rows'[t]) = FateOf(rows[t])
           /\ EndedByOther(rows'[t]) <=> EndedByOther(rows[t])
  BY DEF Undisturbed, FateOf, EndedByOther

LEMMA UndisturbedBusy ==
    ASSUME NEW t \in Turn, BusyFits(t), Undisturbed(t),
           exec'[t] # "idle" => exec[t] # "idle" \/ Pending(rows, t)
    PROVE  BusyFits(t)'
  BY UndisturbedFate DEF Undisturbed, BusyFits, Pending

\* A reply is recorded for a turn that has ended, and ends what it has read.
Late == \E t \in Turn :
          exec[t] = "posted" /\ ~Pending(rows, t) /\ SettledWith(rows, t) # {}
          /\ \E F \in SUBSET Turn : Promise!AnswerLate(t, F)

\* What the table promises of one step.
Promised == /\ \A t \in Turn : BusyFits(t)'
            /\ Promise!InTime \/ Late \/ UNCHANGED [t \in Turn |-> FateOf(rows[t])]

LEMMA Stutters ==
    ASSUME BusyInv,
           \A t \in Turn : /\ Undisturbed(t)
                           /\ exec'[t] # "idle" => exec[t] # "idle" \/ Pending(rows, t)
    PROVE  Promised
<1>1. \A t \in Turn : FateOf(rows'[t]) = FateOf(rows[t]) /\ BusyFits(t)'
  BY UndisturbedFate, UndisturbedBusy DEF BusyInv
<1> QED
  BY <1>1 DEF Promised

LEMMA SameUndisturbed ==
    ASSUME NEW t \in Turn, rows'[t] = rows[t]
    PROVE  Undisturbed(t)
  BY DEF Undisturbed

LEMMA StepStutters ==
    ASSUME BusyInv, NEW t \in Turn,
           \/ HandOver(t) \/ Begin(t) \/ Prepare(t) \/ Receipt(t) \/ Settlement(t)
           \/ Post(t) \/ Interrupt(t) \/ Accept(t) \/ (GiveUp(t) /\ UNCHANGED rows)
           \/ \E outcome \in Ended : SubmissionEnds(t, outcome)
    PROVE  Promised
<1>0. /\ rows \in [Turn -> Row] /\ rows[t] \in Row
      /\ exec \in [Turn -> {"idle", "begun", "claimed", "reading", "ending", "posted", "failed"}]
  BY DEF BusyInv, IInv, QueueTypeOK
<1>1. /\ \A u \in Turn : u # t => rows'[u] = rows[u]
      /\ \/ rows'[t] = rows[t]
         \/ \E b \in {"runner"} : rows'[t] = [rows[t] EXCEPT !.by = b]
         \/ \E a \in {rows[t].attempts - 1} : rows'[t] = [rows[t] EXCEPT !.attempts = a]
         \/ \E d \in {"started", "received"} : rows'[t] = [rows[t] EXCEPT !.dispatch = d]
         \/ \E s \in Ended : rows'[t] = [rows[t] EXCEPT !.settled = s]
  <2>1. CASE UNCHANGED rows
    BY <2>1
  <2>2. CASE HandOver(t)
    BY <1>0, <2>2 DEF HandOver
  <2>3. CASE Prepare(t)
    BY <1>0, <2>3 DEF Prepare
  <2>4. CASE Receipt(t)
    BY <1>0, <2>4 DEF Receipt
  <2>5. CASE Settlement(t)
    BY <1>0, <2>5 DEF Settlement
  <2> QED
    BY <2>1, <2>2, <2>3, <2>4, <2>5 DEF Begin, Post, Interrupt, Accept, SubmissionEnds
<1>2. ASSUME NEW u \in Turn PROVE Undisturbed(u)
  <2>1. rows'[t].status = rows[t].status /\ rows'[t].stop = rows[t].stop
        /\ rows'[t].fold = rows[t].fold
    BY <1>0, <1>1 DEF Row
  <2> QED
    BY <1>1, <2>1 DEF Undisturbed
<1>3. ASSUME NEW u \in Turn, exec'[u] # "idle" PROVE exec[u] # "idle" \/ Pending(rows, u)
  <2>1. CASE Begin(t)
    BY <1>0, <1>3, <2>1 DEF Begin, Ready, Goes
  <2>2. CASE ~Begin(t)
    BY <1>0, <1>3, <2>2 DEF HandOver, Prepare, Receipt, Settlement, Post, Interrupt, Accept,
       GiveUp, SubmissionEnds, Goes
  <2> QED
    BY <2>1, <2>2
<1> QED
  BY <1>2, <1>3, Stutters

LEMMA FreezeStutters ==
    ASSUME BusyInv, NEW t \in Turn, NEW plan \in {"shared", "personal"}, Freeze(t, plan)
    PROVE  Promised
<1>0. rows \in [Turn -> Row] /\ UNCHANGED exec
  BY DEF BusyInv, IInv, QueueTypeOK, Freeze
<1>1. ASSUME NEW u \in Turn PROVE Undisturbed(u)
  <2>0. rows[u] \in Row
    BY <1>0
  <2>1. CASE u = t
    <3>1. rows'[u] = [rows[u] EXCEPT !.plan = plan]
      BY <2>1 DEF Freeze, Frozen
    <3> QED
      BY <2>0, <3>1 DEF Row, Undisturbed
  <2>2. CASE u # t /\ u \in CycleOf(rows, t, 0) /\ rows[u].fold \in Holding
    <3>1. rows'[u] = [rows[u] EXCEPT !.fold = RoleIn(t, u, plan)]
      BY <2>2 DEF Freeze, Frozen
    <3>2. /\ rows'[u].status = rows[u].status /\ rows'[u].stop = rows[u].stop
          /\ rows'[u].fold = RoleIn(t, u, plan)
      BY <2>0, <3>1 DEF Row
    <3>3. rows'[u].fold # "settled" /\ rows[u].fold # "settled"
      BY <2>2, <3>2, RoleInHolding DEF Holding
    <3> QED
      BY <3>2, <3>3 DEF Undisturbed
  <2>3. CASE u # t /\ ~(u \in CycleOf(rows, t, 0) /\ rows[u].fold \in Holding)
    BY <2>3, SameUndisturbed DEF Freeze, Frozen
  <2> QED
    BY <2>1, <2>2, <2>3
<1> QED
  BY <1>0, <1>1, Stutters

\* A message that a turn takes has not ended.
LEMMA TakenUndisturbed ==
    ASSUME BusyInv, NEW u \in Turn, NEW r, NEW h, NEW c, Taken(r, rows'[u], h, c),
           r.status = rows[u].status, r.stop = rows[u].stop
    PROVE  Undisturbed(u)
<1>1. rows[u].status = "pending" /\ EndFits(u)
  BY DEF Taken, BusyInv, IInv
<1>2. rows[u].fold # "settled" /\ rows'[u].fold # "settled"
  BY <1>1 DEF EndFits, Finished, Taken, Holding
<1> QED
  BY <1>2 DEF Taken, Undisturbed

LEMMA ClaimStutters ==
    ASSUME BusyInv, NEW t \in Turn, NEW n, Claim(t, n)
    PROVE  Promised
<1> DEFINE rs == [rows EXCEPT ![t].attempts = @ + 1]
<1>0. /\ rows \in [Turn -> Row] /\ rows[t] \in Row /\ 0 \in 0..MaxCycle
      /\ exec[t] = "begun" /\ \A u \in Turn : u # t => exec'[u] = exec[u]
  BY QueueAssumption DEF BusyInv, IInv, QueueTypeOK, Claim, Goes
<1>1. rows' = rs \/ rows' = Claimed(rs, t, 0, n)
  BY DEF Claim
<1>2. /\ rs[t] = [rows[t] EXCEPT !.attempts = @ + 1]
      /\ \A u \in Turn : u # t => rs[u] = rows[u]
      /\ rs = [rows EXCEPT ![t] = rs[t]]
  BY <1>0
<1>3. /\ rs[t] \in Row /\ rs[t].status = rows[t].status /\ rs[t].stop = rows[t].stop
      /\ rs[t].fold = rows[t].fold
  BY <1>0, <1>2 DEF Row
<1>4. rs \in [Turn -> Row]
  BY <1>0, <1>2, <1>3
<1> HIDE DEF rs
<1>5. ASSUME NEW u \in Turn PROVE Undisturbed(u)
  <2>1. rows'[u] = rs[u] \/ (u # t /\ Taken(rs[u], rows'[u], t, 0))
    BY <1>0, <1>1, <1>4, ClaimedTakes
  <2>2. CASE rows'[u] = rs[u]
    BY <1>2, <1>3, <2>2 DEF Undisturbed
  <2>3. CASE u # t /\ Taken(rs[u], rows'[u], t, 0)
    BY <1>2, <2>3, TakenUndisturbed
  <2> QED
    BY <2>1, <2>2, <2>3
<1> QED
  BY <1>0, <1>5, Stutters

LEMMA LateFoldStutters ==
    ASSUME BusyInv, NEW h \in Turn, NEW n, LateFold(h, n)
    PROVE  Promised
<1> DEFINE rs == Confirmed(rows, h, cyc[h])
           next == cyc[h] + 1
<1>0. /\ rows \in [Turn -> Row] /\ UNCHANGED exec
      /\ cyc[h] \in 0..MaxCycle /\ MaxCycle \in Nat
  BY QueueAssumption DEF BusyInv, IInv, QueueTypeOK, LateFold
<1>1. rows' = rs \/ (rows' = Claimed(rs, h, next, n) /\ next \in 0..MaxCycle)
  BY <1>0 DEF LateFold
<1>2. ASSUME NEW u \in Turn
      PROVE  /\ rs[u] \in Row /\ rs[u].status = rows[u].status /\ rs[u].stop = rows[u].stop
             /\ rs[u].fold = rows[u].fold
  <2>1. rows[u] \in Row
    BY <1>0
  <2>2. CASE u \in Members(rows, h) /\ rows[u].cycle \in 1..cyc[h]
    <3>1. rs[u] = [rows[u] EXCEPT !.received = TRUE]
      BY <2>2 DEF Confirmed
    <3> HIDE DEF rs
    <3> QED
      BY <2>1, <3>1 DEF Row
  <2>3. CASE ~(u \in Members(rows, h) /\ rows[u].cycle \in 1..cyc[h])
    BY <2>1, <2>3 DEF Confirmed
  <2> QED
    BY <2>2, <2>3
<1>3. rs \in [Turn -> Row]
  BY <1>2 DEF Confirmed
<1> HIDE DEF rs, next
<1>4. ASSUME NEW u \in Turn PROVE Undisturbed(u)
  <2>1. rows'[u] = rs[u] \/ Taken(rs[u], rows'[u], h, next)
    BY <1>1, <1>3, ClaimedTakes
  <2>2. CASE rows'[u] = rs[u]
    BY <1>2, <2>2 DEF Undisturbed
  <2>3. CASE Taken(rs[u], rows'[u], h, next)
    BY <1>2, <2>3, TakenUndisturbed
  <2> QED
    BY <2>1, <2>2, <2>3
<1> QED
  BY <1>0, <1>4, Stutters

\* A stop decides nothing by itself.
LEMMA StopStutters ==
    ASSUME BusyInv, NEW cutoff \in Cutoff, Stop(cutoff)
    PROVE  Promised
<1> DEFINE before == {t \in Turn : Pending(rows, t) /\ t < cutoff}
<1>0. rows \in [Turn -> Row] /\ UNCHANGED exec /\ \A u \in Turn : StopFits(u)
  BY DEF BusyInv, IInv, QueueTypeOK, Stop
<1>1. PICK h \in StopHeads(rows, before) : rows' = Stopped(rows, h, before, cutoff)
  BY DEF Stop
<1>2. h \in before
  BY DEF StopHeads
<1>3. ASSUME NEW u \in Turn PROVE Undisturbed(u)
  <2>1. CASE u \in before
    <3>1. rows[u].stop # "dropped" /\ rows[u] \in Row
      BY <1>0, <2>1 DEF Pending, StopFits, Finished
    <3>2. \/ rows'[u] = rows[u]
          \/ rows'[u] = [rows[u] EXCEPT !.stop = "stopped", !.stopHead = None,
                                        !.cutoff = cutoff, !.ending = "none"]
          \/ rows'[u] = [rows[u] EXCEPT !.stop = "held", !.stopHead = h]
      BY <1>1 DEF Stopped
    <3> QED
      BY <3>1, <3>2 DEF Row, Undisturbed
  <2>2. CASE u \notin before
    BY <1>1, <1>2, <2>2, SameUndisturbed DEF Stopped
  <2> QED
    BY <2>1, <2>2
<1> QED
  BY <1>0, <1>3, Stutters

----------------------------------------------------------------------------
LEMMA BecomesStep ==
    ASSUME NEW S, NEW f,
           \A t \in Turn : FateOf(rows'[t]) = IF t \in S THEN f ELSE FateOf(rows[t])
    PROVE  Promise!Becomes(S, f)
  BY DEF Promise!Becomes

\* The fates that the ending of a stop leaves, and those it decides.
LEMMA FinishedStopFate ==
    ASSUME NEW rs \in [Turn -> Row], NEW h \in Turn, NEW o \in {"dropped", "released"},
           NEW t \in Turn
    PROVE  LET s == FinishedStop(rs, h, o)[t] IN
           /\ s.fold = rs[t].fold
           /\ \/ /\ s.status = rs[t].status
                 /\ s.stop = "dropped" <=> rs[t].stop = "dropped"
              \/ /\ o = "dropped" /\ s.status = "done" /\ s.stop = "dropped"
                 /\ rs[t].stop = "held" /\ rs[t].status \notin Finished
<1> DEFINE ss == FinishedStop(rs, h, o)
<1>1. EndsStop(rs, ss, h)
  BY FinishedStopEnds
<1>2. /\ \/ ss[t].stop = rs[t].stop /\ ss[t].status = rs[t].status
         \/ /\ rs[t].stop = "held"
            /\ \/ o = "released" /\ ss[t].stop = "released" /\ ss[t].status = rs[t].status
               \/ /\ o = "dropped" /\ ss[t].stop = "dropped" /\ ss[t].status = "done"
                  /\ rs[t].status \notin Finished
  BY FinishedStopRow
<1> HIDE DEF ss
<1>3. ss[t].fold = rs[t].fold
  BY <1>1 DEF EndsStop
<1> QED
  BY <1>2, <1>3 DEF ss

LEMMA EnqueueArrives ==
    ASSUME BusyInv, NEW t \in Turn, Enqueue(t)
    PROVE  Promised
<1> DEFINE place == Cardinality({u \in Turn : rows[u].status # "absent"}) + 1
           Heads == {h \in Turn : Unfinished(rows, h) /\ t < rows[h].cutoff}
           fresh == [NoRow EXCEPT !.status = "pending", !.place = place]
           held == [fresh EXCEPT !.stop = "held", !.stopHead = CHOOSE h \in Heads : TRUE]
<1>0. /\ rows \in [Turn -> Row] /\ rows[t].status = "absent" /\ UNCHANGED exec
      /\ \A u \in Turn : BusyFits(u)
  BY DEF BusyInv, IInv, QueueTypeOK, Enqueue
<1>1. rows' = [rows EXCEPT ![t] = IF Heads = {} THEN fresh ELSE held]
  BY DEF Enqueue
<1> HIDE DEF place
<1>2. fresh.status = "pending" /\ held.status = "pending"
  BY DEF NoRow
<1> HIDE DEF fresh, held, Heads
<1>3. rows'[t].status = "pending" /\ \A u \in Turn : u # t => rows'[u] = rows[u]
  BY <1>0, <1>1, <1>2
<1>4. ASSUME NEW u \in Turn PROVE BusyFits(u)'
  BY <1>0, <1>3 DEF BusyFits, EndedByOther
<1>5. ASSUME NEW u \in Turn
      PROVE  FateOf(rows'[u]) = IF u \in {t} THEN "open" ELSE FateOf(rows[u])
  BY <1>3 DEF FateOf
<1>6. Promise!Becomes({t}, "open")
  BY <1>5, BecomesStep
<1>7. FateOf(rows[t]) = "absent"
  BY <1>0 DEF FateOf, Parked
<1>8. Promise!Arrive(t)
  BY <1>6, <1>7 DEF Promise!Arrive
<1> QED
  BY <1>4, <1>8 DEF Promised, Promise!InTime

LEMMA ResolveFails ==
    ASSUME BusyInv, NEW t \in Turn, ResolveRecovery(t)
    PROVE  Promised
<1>0. /\ rows \in [Turn -> Row] /\ rows[t] \in Row /\ UNCHANGED exec
      /\ \A u \in Turn : BusyFits(u)
      /\ rows[t].status \in {"unavailable", "recovery"}
  BY DEF BusyInv, IInv, QueueTypeOK, ResolveRecovery
<1>1. /\ rows'[t] = [rows[t] EXCEPT !.status = "error"]
      /\ \A u \in Turn : u # t => rows'[u] = rows[u]
  BY <1>0 DEF ResolveRecovery
<1>2. rows'[t].status = "error"
  BY <1>0, <1>1 DEF Row
<1>3. exec[t] = "idle"
  BY <1>0 DEF BusyFits
<1>4. ASSUME NEW u \in Turn PROVE BusyFits(u)'
  BY <1>0, <1>1, <1>3 DEF BusyFits, EndedByOther
<1>5. ASSUME NEW u \in Turn
      PROVE  FateOf(rows'[u]) = IF u \in {t} THEN "failed" ELSE FateOf(rows[u])
  BY <1>1, <1>2 DEF FateOf, Parked
<1>6. Promise!Becomes({t}, "failed")
  BY <1>5, BecomesStep
<1>7. FateOf(rows[t]) = "parked"
  BY <1>0 DEF FateOf, Parked
<1>8. Promise!Fail(t)
  BY <1>6, <1>7 DEF Promise!Fail, Promise!Unanswered
<1> QED
  BY <1>4, <1>8 DEF Promised, Promise!InTime

LEMMA ParkParks ==
    ASSUME BusyInv, NEW t \in Turn, PreflightFails(t) \/ (GiveUp(t) /\ Goes(t, "idle"))
    PROVE  Promised
<1>0. /\ rows \in [Turn -> Row] /\ rows[t] \in Row
      /\ \A u \in Turn : BusyFits(u) /\ StopFits(u)
      /\ exec \in [Turn -> {"idle", "begun", "claimed", "reading", "ending", "posted", "failed"}]
  BY DEF BusyInv, IInv, QueueTypeOK
<1>1. /\ exec'[t] = "idle" /\ \A u \in Turn : exec'[u] # "idle" => exec[u] # "idle"
      /\ Pending(rows, t) \/ exec[t] # "idle"
  BY <1>0 DEF PreflightFails, Ready, GiveUp, Goes
<1>2. PICK s \in Parked : rows' = ParkedAs(rows, t, s)
  <2>1. ~ (Goes(t, "idle") /\ Goes(t, "failed"))
    BY <1>0 DEF Goes
  <2> QED
    BY <2>1 DEF PreflightFails, GiveUp, Parked
<1>3. CASE rows[t].status \in Finished
  <2>1. rows' = rows
    BY <1>2, <1>3 DEF ParkedAs
  <2>2. \A u \in Turn : Undisturbed(u)
    BY <2>1, SameUndisturbed
  <2> QED
    BY <1>1, <2>2, Stutters
<1>4. CASE rows[t].status \notin Finished
  <2> DEFINE rs == [rows EXCEPT ![t].status = s]
  <2>1. rows' = FinishedStop(rs, t, "released")
    BY <1>2, <1>4 DEF ParkedAs
  <2>2. /\ rs[t] = [rows[t] EXCEPT !.status = s]
        /\ \A u \in Turn : u # t => rs[u] = rows[u]
        /\ rs = [rows EXCEPT ![t] = rs[t]]
    BY <1>0
  <2>3. rs[t] \in Row /\ rs[t].status = s
    <3>1. s \in {"pending"} \cup Finished \cup Parked
      OBVIOUS
    <3>2. rs[t] \in Row
      BY <1>0, <2>2, <3>1, RowStatus
    <3> QED
      BY <1>0, <2>2, <3>2 DEF Row
  <2>4. rs \in [Turn -> Row]
    BY <1>0, <2>2, <2>3
  <2> HIDE DEF rs
  <2>5. ASSUME NEW u \in Turn
        PROVE  /\ rows'[u].status = rs[u].status /\ rows'[u].fold = rs[u].fold
               /\ rows'[u].stop = "dropped" <=> rs[u].stop = "dropped"
    <3>1. "released" # "dropped"
      OBVIOUS
    <3> QED
      BY <2>1, <2>4, <3>1, FinishedStopFate
  <2>6. ASSUME NEW u \in Turn, u # t PROVE Undisturbed(u)
    BY <2>2, <2>5, <2>6 DEF Undisturbed
  <2>7. rows'[t].status = s
    BY <2>3, <2>5
  <2>8. ASSUME NEW u \in Turn PROVE BusyFits(u)'
    <3>1. CASE u = t
      BY <1>1, <3>1 DEF BusyFits
    <3>2. CASE u # t
      BY <1>0, <1>1, <2>6, <3>2, UndisturbedBusy
    <3> QED
      BY <3>1, <3>2
  <2>9. ASSUME NEW u \in Turn
        PROVE  FateOf(rows'[u]) = IF u \in {t} THEN "parked" ELSE FateOf(rows[u])
    <3>1. FateOf(rows'[t]) = "parked"
      BY <2>7 DEF FateOf, Parked
    <3> QED
      BY <2>6, <3>1, UndisturbedFate
  <2>10. FateOf(rows[t]) \in {"open", "parked"}
    <3>1. rows[t].status \in {"pending", "cancelled"}
      BY <1>0, <1>1, <1>4 DEF BusyFits, Pending, Finished
    <3> QED
      BY <3>1 DEF FateOf, Parked
  <2>11. CASE FateOf(rows[t]) = "parked"
    <3>1. \A u \in Turn : FateOf(rows'[u]) = FateOf(rows[u])
      BY <2>9, <2>11
    <3> QED
      BY <2>8, <3>1 DEF Promised
  <2>12. CASE FateOf(rows[t]) = "open"
    <3>1. Promise!Becomes({t}, "parked")
      BY <2>9, BecomesStep
    <3>2. Promise!Park({t})
      BY <2>12, <3>1 DEF Promise!Park
    <3>3. {t} \in SUBSET Turn
      OBVIOUS
    <3> QED
      BY <2>8, <3>2, <3>3 DEF Promised, Promise!InTime
  <2> QED
    BY <2>10, <2>11, <2>12
<1> QED
  BY <1>3, <1>4

\* A stop that ends drops what it holds, all at once.
LEMMA FinishStopDrops ==
    ASSUME BusyInv, NEW t \in Turn, FinishStop(t)
    PROVE  Promised
<1> DEFINE S == {u \in Turn : ~Undisturbed(u)}
<1>0. /\ rows \in [Turn -> Row] /\ rows' = FinishedStop(rows, t, "dropped")
      /\ \A u \in Turn : BusyFits(u) /\ AbsentFits(u) /\ rows[u] \in Row
      /\ exec \in [Turn -> {"idle", "begun", "claimed", "reading", "ending", "posted", "failed"}]
  BY DEF BusyInv, IInv, QueueTypeOK, FinishStop
<1>1. \A u \in Turn : exec'[u] # "idle" => exec[u] # "idle"
  BY <1>0 DEF FinishStop, Goes
<1>2. ASSUME NEW u \in Turn
      PROVE  \/ Undisturbed(u)
             \/ /\ rows'[u].status = "done" /\ rows'[u].stop = "dropped"
                /\ rows[u].stop = "held" /\ rows[u].status \notin Finished
  <2>1. /\ rows'[u].fold = rows[u].fold
        /\ \/ /\ rows'[u].status = rows[u].status
              /\ rows'[u].stop = "dropped" <=> rows[u].stop = "dropped"
           \/ /\ rows'[u].status = "done" /\ rows'[u].stop = "dropped"
              /\ rows[u].stop = "held" /\ rows[u].status \notin Finished
    BY <1>0, FinishedStopFate
  <2> QED
    BY <2>1 DEF Undisturbed
<1>3. ASSUME NEW u \in Turn PROVE BusyFits(u)'
  <2>1. CASE Undisturbed(u)
    BY <1>0, <1>1, <2>1, UndisturbedBusy
  <2>2. CASE rows'[u].status = "done" /\ rows'[u].stop = "dropped"
    BY <2>2 DEF BusyFits, EndedByOther
  <2> QED
    BY <1>2, <2>1, <2>2
<1>4. ASSUME NEW u \in Turn
      PROVE  FateOf(rows'[u]) = IF u \in S THEN "dropped" ELSE FateOf(rows[u])
  <2>1. CASE Undisturbed(u)
    BY <2>1, UndisturbedFate
  <2>2. CASE ~Undisturbed(u)
    BY <1>2, <2>2 DEF FateOf, Parked
  <2> QED
    BY <2>1, <2>2
<1>5. ASSUME NEW u \in S PROVE FateOf(rows[u]) \in {"open", "parked"}
  <2>1. u \in Turn /\ rows[u].stop = "held" /\ rows[u].status \notin Finished
    BY <1>2
  <2>2. rows[u].status \in {"pending"} \cup Parked
    BY <1>0, <2>1 DEF AbsentFits, Row
  <2> QED
    BY <2>2 DEF FateOf, Parked
<1>6. S \in SUBSET Turn
  OBVIOUS
<1> HIDE DEF S
<1>7. Promise!Becomes(S, "dropped")
  BY <1>4, BecomesStep
<1>8. Promise!Drop(S)
  BY <1>5, <1>6, <1>7 DEF Promise!Drop, Promise!Unanswered
<1> QED
  BY <1>3, <1>6, <1>8 DEF Promised, Promise!InTime

\* A reply that is on record ends its turn, unless that has ended already, and
\* every message it has read; a failure on record ends its turn.
LEMMA RecordAnswers ==
    ASSUME BusyInv, NEW t \in Turn, Record(t), exec[t] = "posted"
    PROVE  Promised
<1> DEFINE S == SettledWith(rows, t) \ {t}
           put(u) == IF u = t THEN [rows[u] EXCEPT !.status = "done"]
                     ELSE IF u \in S THEN [rows[u] EXCEPT !.status = "done", !.fold = "settled"]
                     ELSE rows[u]
           rs == [u \in Turn |-> put(u)]
<1>0. /\ rows \in [Turn -> Row]
      /\ \A u \in Turn : BusyFits(u) /\ EndFits(u) /\ StopFits(u) /\ rows[u] \in Row
      /\ exec'[t] = "idle" /\ \A u \in Turn : exec'[u] # "idle" => exec[u] # "idle"
  BY DEF BusyInv, IInv, QueueTypeOK, Record, Goes
<1>1. rows' = FinishedStop(rs, t, "released")
  <2>1. rs = [u \in Turn |->
                IF u = t THEN [rows[u] EXCEPT !.status = "done"]
                ELSE IF u \in SettledWith(rows, t)
                     THEN [rows[u] EXCEPT !.status = "done", !.fold = "settled"]
                ELSE rows[u]]
    OBVIOUS
  <2> QED
    BY <2>1 DEF Record, Delivered
<1>2. \A u \in S : u \in Turn /\ u # t /\ Pending(rows, u)
  BY DEF SettledWith, Members
<1>2a. SettledWith(rows, t) = {} => S = {}
  OBVIOUS
<1> HIDE DEF S
<1>3. ASSUME NEW u \in Turn
      PROVE  /\ put(u) \in Row /\ put(u).stop = rows[u].stop
             /\ u = t => put(u).status = "done" /\ put(u).fold = rows[u].fold
             /\ u \in S => put(u).status = "done" /\ put(u).fold = "settled"
             /\ u \notin {t} \cup S => put(u) = rows[u]
  <2>0. rows[u] \in Row
    BY <1>0
  <2>1. CASE u = t
    BY <1>2, <2>0, <2>1 DEF Row, Finished
  <2>2. CASE u # t /\ u \in S
    <3>1. put(u) = [rows[u] EXCEPT !.status = "done", !.fold = "settled"]
      BY <2>2
    <3> HIDE DEF put
    <3> QED
      BY <2>0, <2>2, <3>1 DEF Row, Finished
  <2>3. CASE u # t /\ u \notin S
    BY <2>0, <2>3
  <2> QED
    BY <2>1, <2>2, <2>3
<1>4. rs \in [Turn -> Row] /\ \A u \in Turn : rs[u] = put(u)
  <2> HIDE DEF put
  <2> QED
    BY <1>3
<1> HIDE DEF put, rs
<1>5. ASSUME NEW u \in Turn
      PROVE  /\ rows'[u].status = put(u).status /\ rows'[u].fold = put(u).fold
             /\ rows'[u].stop = "dropped" <=> rows[u].stop = "dropped"
  <2>1. "released" # "dropped"
    OBVIOUS
  <2> QED
    BY <1>1, <1>3, <1>4, <2>1, FinishedStopFate
<1>6. ASSUME NEW u \in Turn, u \notin {t} \cup S PROVE Undisturbed(u)
  BY <1>3, <1>5, <1>6 DEF Undisturbed
<1>7. ASSUME NEW u \in Turn, u \in S
      PROVE  /\ rows'[u].status = "done" /\ rows'[u].fold = "settled"
             /\ FateOf(rows'[u]) = "folded" /\ FateOf(rows[u]) = "open" /\ u # t
  <2>1. rows'[u].status = "done" /\ rows'[u].fold = "settled" /\ rows[u].status = "pending" /\ u # t
    BY <1>2, <1>3, <1>5, <1>7 DEF Pending
  <2>2. rows'[u].stop # "dropped"
    BY <1>0, <1>5, <2>1 DEF StopFits, Finished
  <2> QED
    BY <2>1, <2>2 DEF FateOf, Parked
<1>8. rows'[t].status = "done" /\ (rows'[t].fold = "settled" <=> rows[t].fold = "settled")
  BY <1>3, <1>5
<1>9. ASSUME NEW u \in Turn PROVE BusyFits(u)'
  <2>1. CASE u = t
    BY <1>0, <2>1 DEF BusyFits
  <2>2. CASE u \in S
    BY <1>7, <2>2 DEF BusyFits, EndedByOther
  <2>3. CASE u \notin {t} \cup S
    BY <1>0, <1>6, <2>3, UndisturbedBusy
  <2> QED
    BY <2>1, <2>2, <2>3
<1>10. S \in SUBSET Turn
  BY <1>2
<1>11. CASE rows[t].status \in {"pending", "cancelled"}
  <2>1. FateOf(rows[t]) \in {"open", "parked"}
    BY <1>11 DEF FateOf, Parked
  <2>2. FateOf(rows'[t]) = "answered"
    <3>1. rows[t].stop # "dropped" /\ rows[t].fold # "settled"
      BY <1>0, <1>11 DEF StopFits, EndFits, Finished
    <3> QED
      BY <1>5, <1>8, <3>1 DEF FateOf, Parked
  <2>3. ASSUME NEW u \in Turn
        PROVE  FateOf(rows'[u]) = IF u = t THEN "answered"
                                  ELSE IF u \in S THEN "folded" ELSE FateOf(rows[u])
    BY <1>6, <1>7, <2>2, UndisturbedFate
  <2>4. Promise!Answer(t, S)
    BY <1>2, <1>7, <2>1, <2>3 DEF Promise!Answer, Promise!Unanswered
  <2> QED
    BY <1>9, <1>10, <2>4 DEF Promised, Promise!InTime
<1>12. CASE rows[t].status = "done" /\ EndedByOther(rows[t])
  <2>1. Undisturbed(t)
    BY <1>5, <1>8, <1>12 DEF Undisturbed
  <2>2. FateOf(rows[t]) \in {"dropped", "folded"}
    BY <1>12 DEF FateOf, EndedByOther, Parked
  <2>3. ASSUME NEW u \in Turn
        PROVE  FateOf(rows'[u]) = IF u \in S THEN "folded" ELSE FateOf(rows[u])
    BY <1>6, <1>7, <2>1, UndisturbedFate
  <2>4. Promise!Becomes(S, "folded")
    BY <2>3, BecomesStep
  <2>5. Promise!AnswerLate(t, S)
    BY <1>2, <1>7, <2>2, <2>4 DEF Promise!AnswerLate
  <2>6. CASE SettledWith(rows, t) = {}
    <3>1. \A u \in Turn : FateOf(rows'[u]) = FateOf(rows[u])
      BY <1>2a, <2>3, <2>6
    <3> QED
      BY <1>9, <3>1 DEF Promised
  <2>7. CASE SettledWith(rows, t) # {}
    <3>1. Late
      BY <1>0, <1>10, <1>12, <2>5, <2>7 DEF Late, Pending
    <3> QED
      BY <1>9, <3>1 DEF Promised
  <2> QED
    BY <2>6, <2>7
<1> QED
  BY <1>0, <1>11, <1>12 DEF BusyFits

LEMMA RecordFails ==
    ASSUME BusyInv, NEW t \in Turn, Record(t), exec[t] = "failed"
    PROVE  Promised
<1> DEFINE rs == [rows EXCEPT ![t].status = "error"]
<1>0. /\ rows \in [Turn -> Row] /\ rows[t] \in Row
      /\ \A u \in Turn : BusyFits(u)
      /\ exec'[t] = "idle" /\ \A u \in Turn : exec'[u] # "idle" => exec[u] # "idle"
  BY DEF BusyInv, IInv, QueueTypeOK, Record, Goes
<1>1. rows' = FinishedStop(rs, t, "released")
  BY DEF Record, Errored
<1>2. /\ rs[t] = [rows[t] EXCEPT !.status = "error"]
      /\ \A u \in Turn : u # t => rs[u] = rows[u]
      /\ rs = [rows EXCEPT ![t] = rs[t]]
  BY <1>0
<1>3. rs[t] \in Row /\ rs[t].status = "error"
  BY <1>0, <1>2 DEF Row, Finished
<1>4. rs \in [Turn -> Row]
  BY <1>0, <1>2, <1>3
<1> HIDE DEF rs
<1>5. ASSUME NEW u \in Turn
      PROVE  /\ rows'[u].status = rs[u].status /\ rows'[u].fold = rs[u].fold
             /\ rows'[u].stop = "dropped" <=> rs[u].stop = "dropped"
  <2>1. "released" # "dropped"
    OBVIOUS
  <2> QED
    BY <1>1, <1>4, <2>1, FinishedStopFate
<1>6. ASSUME NEW u \in Turn, u # t PROVE Undisturbed(u)
  BY <1>2, <1>5, <1>6 DEF Undisturbed
<1>7. ASSUME NEW u \in Turn PROVE BusyFits(u)'
  <2>1. CASE u = t
    BY <1>0, <2>1 DEF BusyFits
  <2>2. CASE u # t
    BY <1>0, <1>6, <2>2, UndisturbedBusy
  <2> QED
    BY <2>1, <2>2
<1>8. ASSUME NEW u \in Turn
      PROVE  FateOf(rows'[u]) = IF u \in {t} THEN "failed" ELSE FateOf(rows[u])
  <2>1. FateOf(rows'[t]) = "failed"
    BY <1>3, <1>5 DEF FateOf, Parked
  <2> QED
    BY <1>6, <2>1, UndisturbedFate
<1>9. FateOf(rows[t]) \in {"open", "parked", "dropped", "folded"}
  BY <1>0 DEF BusyFits, FateOf, EndedByOther, Parked
<1>10. Promise!Becomes({t}, "failed")
  BY <1>8, BecomesStep
<1>11. Promise!Fail(t)
  BY <1>9, <1>10 DEF Promise!Fail, Promise!Unanswered
<1> QED
  BY <1>7, <1>11 DEF Promised, Promise!InTime

\* An operator's cancellation, and a reconnection.
LEMMA ManyMove ==
    ASSUME BusyInv, NEW from, NEW to,
           (OperatorCancels /\ from = "pending" /\ to = "cancelled")
             \/ (Reopen /\ from = "unavailable" /\ to = "pending")
    PROVE  Promised
<1> DEFINE S == {u \in Turn : rows[u].status = from}
<1>0. /\ rows \in [Turn -> Row] /\ UNCHANGED exec
      /\ \A u \in Turn : BusyFits(u) /\ StopFits(u) /\ EndFits(u)
  BY DEF BusyInv, IInv, QueueTypeOK, OperatorCancels, Reopen
<1>1. ASSUME NEW u \in Turn, u \in S PROVE rows'[u].status = to
  <2>0. rows[u] \in Row /\ rows[u].status = from
    BY <1>0, <1>1
  <2>1. \/ rows'[u] = [rows[u] EXCEPT !.status = to]
        \/ rows'[u] = [rows[u] EXCEPT !.status = to, !.by = "alarm"]
    BY <2>0 DEF OperatorCancels, Reopen, Pending
  <2> QED
    BY <2>0, <2>1 DEF Row
<1>2. ASSUME NEW u \in Turn, u \notin S PROVE rows'[u] = rows[u]
  BY <1>2 DEF OperatorCancels, Reopen, Pending
<1>3. ASSUME NEW u \in Turn PROVE BusyFits(u)'
  <2>1. CASE u \in S
    BY <1>1, <2>1 DEF BusyFits
  <2>2. CASE u \notin S
    BY <1>0, <1>2, <2>2, SameUndisturbed, UndisturbedBusy
  <2> QED
    BY <2>1, <2>2
<1>4. S \in SUBSET Turn
  OBVIOUS
<1>5. CASE OperatorCancels /\ from = "pending" /\ to = "cancelled"
  <2>1. \A u \in Turn : FateOf(rows'[u]) = IF u \in S THEN "parked" ELSE FateOf(rows[u])
    BY <1>1, <1>2, <1>5 DEF FateOf, Parked
  <2>2. \A u \in S : FateOf(rows[u]) = "open"
    BY <1>5 DEF FateOf
  <2> HIDE DEF S
  <2>3. Promise!Becomes(S, "parked")
    BY <2>1, BecomesStep
  <2>4. Promise!Park(S)
    BY <1>4, <2>2, <2>3 DEF Promise!Park
  <2> QED
    BY <1>3, <1>4, <2>4 DEF Promised, Promise!InTime
<1>6. CASE Reopen /\ from = "unavailable" /\ to = "pending"
  <2>1. \A u \in Turn : FateOf(rows'[u]) = IF u \in S THEN "open" ELSE FateOf(rows[u])
    BY <1>1, <1>2, <1>6 DEF FateOf
  <2>2. \A u \in S : FateOf(rows[u]) = "parked"
    BY <1>6 DEF FateOf, Parked
  <2> HIDE DEF S
  <2>3. Promise!Becomes(S, "open")
    BY <2>1, BecomesStep
  <2>4. Promise!Reopen(S)
    BY <1>4, <2>2, <2>3 DEF Promise!Reopen
  <2> QED
    BY <1>3, <1>4, <2>4 DEF Promised, Promise!InTime
<1> QED
  BY <1>5, <1>6

LEMMA NextPromised ==
    ASSUME BusyInv, [Next]_vars
    PROVE  Promised
<1>1. ASSUME NEW t \in Turn, TurnStep(t) PROVE Promised
  <2>1. CASE Enqueue(t)
    BY <2>1, EnqueueArrives
  <2>2. CASE ResolveRecovery(t)
    BY <2>2, ResolveFails
  <2>3. CASE \/ HandOver(t) \/ Begin(t) \/ Prepare(t) \/ Receipt(t) \/ Settlement(t)
             \/ Post(t) \/ Interrupt(t) \/ Accept(t)
             \/ \E outcome \in Ended : SubmissionEnds(t, outcome)
    BY <2>3, StepStutters
  <2>4. CASE PreflightFails(t)
    BY <2>4, ParkParks
  <2>5. CASE GiveUp(t)
    <3>1. UNCHANGED rows \/ Goes(t, "idle")
      BY <2>5 DEF GiveUp
    <3> QED
      BY <2>5, <3>1, ParkParks, StepStutters
  <2>6. CASE FinishStop(t)
    BY <2>6, FinishStopDrops
  <2>7. CASE Record(t)
    <3>1. exec[t] \in {"posted", "failed"}
      BY <2>7 DEF Record
    <3> QED
      BY <2>7, <3>1, RecordAnswers, RecordFails
  <2>8. ASSUME NEW n \in 1..MaxTaken, Claim(t, n) PROVE Promised
    BY <2>8, ClaimStutters
  <2>9. ASSUME NEW n \in 1..MaxTaken, LateFold(t, n) PROVE Promised
    BY <2>9, LateFoldStutters
  <2>10. ASSUME NEW plan \in {"shared", "personal"}, Freeze(t, plan) PROVE Promised
    BY <2>10, FreezeStutters
  <2> QED
    BY <1>1, <2>1, <2>2, <2>3, <2>4, <2>5, <2>6, <2>7, <2>8, <2>9, <2>10 DEF TurnStep
<1>2. ASSUME NEW cutoff \in Cutoff, Stop(cutoff) PROVE Promised
  BY <1>2, StopStutters
<1>3. CASE OperatorCancels
  BY <1>3, ManyMove
<1>4. CASE Reopen
  BY <1>4, ManyMove
<1>5. CASE UNCHANGED vars
  <2>1. rows' = rows /\ exec' = exec
    BY <1>5 DEF vars
  <2>2. \A t \in Turn : Undisturbed(t)
    BY <2>1, SameUndisturbed
  <2> QED
    BY <2>1, <2>2, Stutters
<1> QED
  BY <1>1, <1>2, <1>3, <1>4, <1>5 DEF Next

LEMMA InitPromised == Init => Promise!Init /\ BusyInv
<1> SUFFICES ASSUME Init PROVE Promise!Init /\ BusyInv
  OBVIOUS
<1>1. \A t \in Turn : FateOf(rows[t]) = "absent" /\ BusyFits(t)
  BY DEF Init, NoRow, FateOf, Parked, BusyFits
<1> QED
  BY <1>1, InitInvariance DEF Promise!Init, BusyInv

LEMMA NextBusy == BusyInv /\ [Next]_vars => BusyInv'
  BY NextInvariance, NextPromised DEF BusyInv, Promised

\* The table implements the promise: every step gives the messages the fates that
\* one step of TurnPromise gives them, or leaves them as they are.
THEOREM QueueKeepsThePromise == Spec => KeepsTurnPromise
<1>1. Init => Promise!Init /\ BusyInv
  BY InitPromised
<1>2. BusyInv /\ [Next]_vars => BusyInv'
  BY NextBusy
<1>3. BusyInv /\ [Next]_vars => [Promise!Next]_[t \in Turn |-> FateOf(rows[t])]
  BY NextPromised DEF Promised, Late, Promise!Next
<1> QED
  BY <1>1, <1>2, <1>3, PTL DEF Spec, KeepsTurnPromise, Promise!Spec

\* As long as no parked turn is reopened, a reply ends only messages whose turn is
\* still open: what a run has read is never answered by a turn that was dropped
\* or folded under it (AnswerLate of TurnPromise does not happen).
THEOREM AnswersInTime ==
    Spec => [][used.reopens = 0 => Promise!InTime]_[t \in Turn |-> FateOf(rows[t])]
<1>1. FatesInv /\ BusyInv /\ [Next]_vars
        => [used.reopens = 0 => Promise!InTime]_[t \in Turn |-> FateOf(rows[t])]
  <2> SUFFICES ASSUME FatesInv, BusyInv, [Next]_vars, used.reopens = 0, Late
               PROVE  FALSE
    BY NextPromised DEF Promised
  <2>1. PICK t \in Turn : exec[t] = "posted" /\ ~Pending(rows, t) /\ SettledWith(rows, t) # {}
    BY DEF Late
  <2>2. PICK u : u \in SettledWith(rows, t)
    BY <2>1
  <2> QED
    BY <2>1, <2>2, SettledUnrun
<1>2. Init => BusyInv
  BY InitPromised
<1>3. BusyInv /\ [Next]_vars => BusyInv'
  BY NextBusy
<1> QED
  BY <1>1, <1>2, <1>3, FatesInvariance, PTL DEF Spec
=============================================================================
