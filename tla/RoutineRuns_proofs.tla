------------------------- MODULE RoutineRuns_proofs -------------------------
(***************************************************************************)
(* Proofs about RoutineRuns for every number of occurrences and heartbeats *)
(* and every amount of trouble: one message per occurrence, one count per  *)
(* failure, and no stranded one-time routine.                              *)
(***************************************************************************)
EXTENDS RoutineRuns, FiniteSetTheorems, TLAPS

\* What a heartbeat records of a post is that it was made, or why it was not.
Records ==
    \A h \in Heart : exec[h].at \in {"recording", "told"} =>
        exec[h].result \in {"succeeded"} \cup Class

TInv == RoutineTypeOK /\ Records

\* The failures counted are those of occurrences that have ended.
FailuresFit ==
    /\ EachFailureCountsOnce
    /\ \A o \in blamed : occ[o].status \in Ended

\* What a one-time routine waits for is an occurrence of its own.
OnceFits ==
    routine.kind = "once" /\ routine.state = "active" /\ routine.next = "none" =>
        \E o \in Occ : occ[o].status \in Active /\ occ[o].trigger = "once"

\* A heartbeat that has the delivery of an occurrence, from its claim to its record.
Del == {"posting", "telling", "recording", "told"}
Delivers(h, o) == exec[h].at \in Del /\ exec[h].o = o

\* One heartbeat at most delivers an occurrence; it has claimed it, and knows of
\* the message what has become of it.
MessageFits(o) ==
    /\ \A h, k \in Heart : Delivers(h, o) /\ Delivers(k, o) => h = k
    /\ \A h \in Heart : Delivers(h, o) =>
         /\ occ[o].delivery # "none"
         /\ exec[h].at \in {"posting", "telling"} => posts[o] = 0 /\ occ[o].delivery # "delivered"
         /\ exec[h].at \in {"recording", "told"} /\ exec[h].result = "succeeded" => posts[o] = 1
    /\ occ[o].delivery = "none" => posts[o] = 0
    /\ occ[o].status = "absent" => occ[o].delivery = "none"
    /\ OneMessageOf(o)

MessagesFit == \A o \in Occ : MessageFits(o)

IInv == TInv /\ FailuresFit /\ OnceFits /\ MessagesFit

----------------------------------------------------------------------------
(***************************************************************************)
(* Steps, by what they leave standing.                                     *)
(***************************************************************************)
Free == {Idle} \cup Listed \cup Reader \cup Step
Stage == {"dispatching", "reading", "settling", "finalizing", "expiring", "claiming",
          "posting", "recording", "closing", "failing", "noticing", "telling", "told"}
Rows == occ' \in [Occ -> Occurrence] /\ routine' \in Routine /\ blamed' \subseteq Occ
Others ==
    /\ sub' \in [Occ -> {"none", "running", "ended"}]
    /\ posts' \in [Occ -> Nat]
    /\ used' \in 0..MaxTrouble
ExecOK == exec \in [Heart -> Free] /\ Records

\* A delivery nobody has made stays claimed.
KeepsDelivery(r, s) ==
    \/ s.delivery = r.delivery
    \/ r.delivery \in Undelivered /\ s.delivery \notin {"none", "delivered"}

\* A row that stays active, ended or absent as it was.
Kept(r, s) ==
    /\ s.trigger = r.trigger
    /\ KeepsDelivery(r, s)
    /\ r.status \in Ended => s.status = r.status
    /\ r.status \in Active => s.status \in Active
    /\ r.status = "absent" => s.status = "absent"

\* No heartbeat enters a delivery.
Calm == \A k \in Heart : exec'[k] = exec[k] \/ exec'[k].at \notin Del

LEMMA Pieces ==
  ASSUME Rows, Others, ExecOK'
  PROVE  TInv'
BY DEF Rows, Others, ExecOK, TInv, RoutineTypeOK, Free

\* What the step does to failures: nothing, and nothing comes back from its end.
LEMMA FailuresKept ==
  ASSUME TInv, FailuresFit, routine'.failures = routine.failures, blamed' = blamed,
         \A p \in Occ : occ[p].status \in Ended => occ'[p].status \in Ended
  PROVE  FailuresFit'
BY DEF FailuresFit, EachFailureCountsOnce, TInv, RoutineTypeOK

LEMMA OnceKept ==
  ASSUME TInv, OnceFits,
         routine'.kind = "once" /\ routine'.state = "active" /\ routine'.next = "none" =>
           /\ routine.kind = "once" /\ routine.state = "active" /\ routine.next = "none"
           /\ \A p \in Occ : occ[p].status \in Active /\ occ[p].trigger = "once" =>
                               occ'[p].status \in Active /\ occ'[p].trigger = "once"
  PROVE  OnceFits'
BY DEF OnceFits

\* The row of an occurrence as its messages see it.
Faithful(r, s) ==
    /\ KeepsDelivery(r, s) \/ (r.status = "absent" /\ s.delivery = "none")
    /\ s.status = "absent" => r.status = "absent"

LEMMA MessagesKept ==
  ASSUME TInv, MessagesFit, posts' = posts, Calm,
         \A p \in Occ : Faithful(occ[p], occ'[p])
  PROVE  MessagesFit'
<1> SUFFICES ASSUME NEW p \in Occ PROVE MessageFits(p)'
  BY DEF MessagesFit
<1>1. MessageFits(p)
  BY DEF MessagesFit
<1>2. \A k \in Heart : Delivers(k, p)' => Delivers(k, p) /\ exec'[k] = exec[k]
  BY DEF Calm, Delivers
<1>3. \/ occ'[p].delivery = occ[p].delivery
      \/ occ[p].delivery \in Undelivered /\ occ'[p].delivery \notin {"none", "delivered"}
  BY <1>1 DEF Faithful, KeepsDelivery, MessageFits
<1>4. occ'[p].status = "absent" => occ'[p].delivery = "none"
  <2>1. SUFFICES ASSUME occ'[p].status = "absent" PROVE occ'[p].delivery = "none"
    OBVIOUS
  <2>2. occ[p].delivery = "none"
    BY <1>1, <2>1 DEF Faithful, MessageFits
  <2> QED BY <1>3, <2>2 DEF Undelivered
<1>5. OneMessageOf(p)'
  BY <1>1, <1>3 DEF MessageFits, OneMessageOf
<1>6. \A h, k \in Heart : Delivers(h, p)' /\ Delivers(k, p)' => h = k
  BY <1>1, <1>2 DEF MessageFits
<1>7. ASSUME NEW h \in Heart, Delivers(h, p)'
      PROVE  /\ occ'[p].delivery # "none"
             /\ exec'[h].at \in {"posting", "telling"} =>
                  posts'[p] = 0 /\ occ'[p].delivery # "delivered"
             /\ exec'[h].at \in {"recording", "told"} /\ exec'[h].result = "succeeded" =>
                  posts'[p] = 1
  <2>1. Delivers(h, p) /\ exec'[h] = exec[h]
    BY <1>2, <1>7
  <2> QED BY <1>1, <1>3, <2>1 DEF MessageFits
<1>8. occ'[p].delivery = "none" => posts'[p] = 0
  BY <1>1, <1>3 DEF MessageFits
<1> QED BY <1>4, <1>5, <1>6, <1>7, <1>8 DEF MessageFits

LEMMA KeptFaithful ==
  ASSUME TInv, \A p \in Occ : Kept(occ[p], occ'[p])
  PROVE  \A p \in Occ : Faithful(occ[p], occ'[p])
<1> SUFFICES ASSUME NEW p \in Occ PROVE Faithful(occ[p], occ'[p])
  OBVIOUS
<1>1. occ[p] \in Occurrence
  BY DEF TInv, RoutineTypeOK
<1>2. Kept(occ[p], occ'[p]) /\ occ[p].status \in {"absent"} \cup Ended \cup Active
  BY <1>1 DEF Occurrence
<1>3. occ'[p].status = "absent" => occ[p].status = "absent"
  BY <1>2 DEF Kept, Ended, Active
<1> QED BY <1>2, <1>3 DEF Kept, Faithful

\* A step that writes no more than rows which stay what they were.
LEMMA QuietStep ==
  ASSUME IInv, TInv', routine' = routine, blamed' = blamed, posts' = posts, Calm,
         \A p \in Occ : Kept(occ[p], occ'[p])
  PROVE  IInv'
<1>1. FailuresFit'
  BY FailuresKept DEF Kept, IInv
<1>2. OnceFits'
  BY OnceKept DEF Kept, IInv
<1>3. MessagesFit'
  BY KeptFaithful, MessagesKept DEF IInv
<1> QED BY <1>1, <1>2, <1>3 DEF IInv

----------------------------------------------------------------------------
(***************************************************************************)
(* Where a heartbeat goes.                                                 *)
(***************************************************************************)
LEMMA HeartType ==
  ASSUME TInv, NEW h \in Heart, exec[h] # Idle
  PROVE  /\ exec[h] \in Listed \cup Reader \cup Step
         /\ exec[h].o \in Occ
         /\ occ[exec[h].o] \in Occurrence
<1>1. exec[h] \in Listed \cup Reader \cup Step
  BY DEF TInv, RoutineTypeOK
<1>2. exec[h].o \in Occ
  BY <1>1 DEF Listed, Reader, Step
<1> QED BY <1>1, <1>2 DEF TInv, RoutineTypeOK

LEMMA SetsHeart ==
  ASSUME TInv, NEW h \in Heart, NEW x \in Free, exec' = [exec EXCEPT ![h] = x],
         x.at \in {"recording", "told"} => x.result \in {"succeeded"} \cup Class
  PROVE  ExecOK' /\ (x.at \notin Del => Calm)
<1>0. exec \in [Heart -> Free]
  BY DEF TInv, RoutineTypeOK, Free
<1>1. exec' \in [Heart -> Free]
  BY <1>0
<1>2. \A k \in Heart : exec'[k] = IF k = h THEN x ELSE exec[k]
  BY <1>0
<1>3. Records'
  BY <1>2 DEF TInv, Records
<1>4. x.at \notin Del => Calm
  BY <1>2 DEF Calm
<1> QED BY <1>1, <1>3, <1>4 DEF ExecOK

LEMMA CarriesOK ==
  ASSUME TInv, NEW h \in Heart, exec[h] # Idle, NEW at \in Stage,
         NEW result \in {"none"} \cup Result, Carries(h, at, result),
         at \in {"recording", "told"} => result \in {"succeeded"} \cup Class
  PROVE  /\ ExecOK' /\ (at \notin Del => Calm)
         /\ exec' = [exec EXCEPT ![h] = [at |-> at, o |-> exec[h].o, result |-> result]]
<1> DEFINE x == [at |-> at, o |-> exec[h].o, result |-> result]
<1>1. x \in Free
  BY HeartType DEF Step, Stage, Free
<1>2. exec' = [exec EXCEPT ![h] = x]
  BY DEF Carries
<1>3. x.at = at /\ x.result = result
  OBVIOUS
<1> HIDE DEF x
<1>4. ExecOK' /\ (at \notin Del => Calm)
  BY <1>1, <1>2, <1>3, SetsHeart
<1> QED BY <1>2, <1>4 DEF x

\* The heartbeat goes on short of a delivery, or rests.
Goer(h) ==
    \/ \E at \in Stage \ Del, result \in {"none"} \cup Result : Carries(h, at, result)
    \/ Rests(h)

LEMMA GoerOK ==
  ASSUME TInv, NEW h \in Heart, exec[h] # Idle, Goer(h)
  PROVE  ExecOK' /\ Calm
<1>1. CASE Rests(h)
  <2>1. Idle \in Free /\ Idle.at = "idle"
    BY DEF Free, Idle
  <2> QED BY <1>1, <2>1, SetsHeart DEF Rests, Del
<1>2. ASSUME NEW at \in Stage \ Del, NEW result \in {"none"} \cup Result,
             Carries(h, at, result)
      PROVE  ExecOK' /\ Calm
  BY <1>2, CarriesOK DEF Del
<1> QED BY <1>1, <1>2 DEF Goer

\* One row is rewritten and stays what it was.
OneRow(o) ==
    \E r \in Occurrence :
        Kept(occ[o], r) /\ occ' = [occ EXCEPT ![o] = r] /\ UNCHANGED <<routine, blamed>>

LEMMA KeptSelf ==
  ASSUME NEW r
  PROVE  Kept(r, r)
BY DEF Kept, KeepsDelivery

LEMMA OneRowOK ==
  ASSUME TInv, NEW o \in Occ, Nothing \/ OneRow(o)
  PROVE  /\ Rows /\ routine' = routine /\ blamed' = blamed
         /\ \A p \in Occ : Kept(occ[p], occ'[p])
<1>0. occ \in [Occ -> Occurrence] /\ routine \in Routine /\ blamed \subseteq Occ
  BY DEF TInv, RoutineTypeOK
<1>1. CASE Nothing
  BY <1>0, <1>1, KeptSelf DEF Nothing, Rows
<1>2. CASE OneRow(o)
  <2>1. PICK r \in Occurrence :
          Kept(occ[o], r) /\ occ' = [occ EXCEPT ![o] = r] /\ UNCHANGED <<routine, blamed>>
    BY <1>2 DEF OneRow
  <2>2. \A p \in Occ : occ'[p] = IF p = o THEN r ELSE occ[p]
    BY <1>0, <2>1
  <2> QED BY <1>0, <2>1, <2>2, KeptSelf DEF Rows
<1> QED BY <1>1, <1>2

\* A step that writes one row at most, and delivers nothing.
LEMMA QuietHeart ==
  ASSUME IInv, NEW o \in Occ, ExecOK', Calm, Others, posts' = posts, Nothing \/ OneRow(o)
  PROVE  IInv'
<1>1. /\ Rows /\ routine' = routine /\ blamed' = blamed
      /\ \A p \in Occ : Kept(occ[p], occ'[p])
  BY OneRowOK DEF IInv
<1>2. TInv'
  BY <1>1, Pieces
<1> QED BY <1>1, <1>2, QuietStep

LEMMA SameOthers ==
  ASSUME TInv, UNCHANGED <<sub, posts, used>>
  PROVE  Others
BY DEF TInv, RoutineTypeOK, Others

LEMMA TroubleOthers ==
  ASSUME TInv, Trouble, UNCHANGED <<sub, posts>>
  PROVE  Others
BY RoutineAssumption DEF TInv, RoutineTypeOK, Others, Trouble

----------------------------------------------------------------------------
(***************************************************************************)
(* The end of an occurrence.                                               *)
(***************************************************************************)
LEMMA CountedType ==
  ASSUME routine \in Routine
  PROVE  /\ [routine EXCEPT !.failures = @ + 1, !.state = IF Tired THEN "paused" ELSE @] \in Routine
         /\ [routine EXCEPT !.failures = @ + 1,
                            !.state = IF Tired THEN "paused" ELSE @].failures = routine.failures + 1
         /\ [routine EXCEPT !.failures = @ + 1,
                            !.state = IF Tired THEN "paused" ELSE @].kind = routine.kind
         /\ [routine EXCEPT !.failures = @ + 1,
                            !.state = IF Tired THEN "paused" ELSE @].next = routine.next
         /\ [routine EXCEPT !.failures = @ + 1,
                            !.state = IF Tired THEN "paused" ELSE @].state
              \in {"paused", routine.state}
<1>1. (IF Tired THEN "paused" ELSE routine.state) \in {"paused", routine.state}
  OBVIOUS
<1>2. ASSUME NEW s \in {"paused", routine.state}
      PROVE  /\ [routine EXCEPT !.failures = @ + 1, !.state = s] \in Routine
             /\ [routine EXCEPT !.failures = @ + 1, !.state = s].failures = routine.failures + 1
             /\ [routine EXCEPT !.failures = @ + 1, !.state = s].kind = routine.kind
             /\ [routine EXCEPT !.failures = @ + 1, !.state = s].next = routine.next
             /\ [routine EXCEPT !.failures = @ + 1, !.state = s].state \in {"paused", routine.state}
  <2>1. routine.failures + 1 \in Nat
    BY DEF Routine
  <2> QED BY <2>1 DEF Routine
<1> QED BY <1>1, <1>2

\* What a routine hears of an end.
Heard(t, to, class, r) ==
    /\ r \in Routine
    /\ r.kind = routine.kind
    /\ Resets(t, to) => r.failures = 0
    /\ Counts(t, to, class) => r.failures = routine.failures + 1
    /\ ~Resets(t, to) /\ ~Counts(t, to, class) => r.failures = routine.failures
    /\ r.kind = "once" /\ r.state = "active" /\ r.next = "none" =>
         routine.state = "active" /\ routine.next = "none" /\ t # "once"

LEMMA OutcomeHeard ==
  ASSUME routine \in Routine, NEW t, NEW to, NEW class,
         to \in {"succeeded", "no_op"} => class = "other"
  PROVE  Heard(t, to, class, Outcome(t, to, class))
<1>0. ~(Resets(t, to) /\ Counts(t, to, class))
  BY DEF Resets, Counts
<1>1. CASE class = "gone"
  <2>1. Outcome(t, to, class) = [routine EXCEPT !.state = "paused", !.next = "none"]
    BY <1>1 DEF Outcome
  <2>2. ~Resets(t, to) /\ ~Counts(t, to, class)
    BY <1>1 DEF Resets, Counts
  <2>3. [routine EXCEPT !.state = "paused", !.next = "none"] \in Routine
    BY DEF Routine
  <2> QED BY <2>1, <2>2, <2>3 DEF Heard, Routine
<1>2. CASE class # "gone" /\ Completes(t, to, class)
  <2>1. Outcome(t, to, class) = [routine EXCEPT !.state = "completed", !.next = "none"]
    BY <1>2, Zenon DEF Outcome
  <2>2. ~Resets(t, to) /\ ~Counts(t, to, class)
    BY <1>2 DEF Resets, Counts, Completes
  <2>3. [routine EXCEPT !.state = "completed", !.next = "none"] \in Routine
    BY DEF Routine
  <2> QED BY <2>1, <2>2, <2>3 DEF Heard, Routine
<1>3. ASSUME class # "gone", ~Completes(t, to, class)
      PROVE  Heard(t, to, class, Outcome(t, to, class))
  <2>0. ~(t = "once" /\ routine.kind = "once")
    BY <1>3 DEF Completes, OneTime
  <2>1. CASE Resets(t, to)
    <3>1. Outcome(t, to, class) = [routine EXCEPT !.failures = 0]
      BY <1>3, <2>1, Zenon DEF Outcome
    <3>2. [routine EXCEPT !.failures = 0] \in Routine
      BY DEF Routine
    <3> QED BY <1>0, <2>0, <2>1, <3>1, <3>2 DEF Heard, Routine
  <2>2. CASE ~Resets(t, to) /\ class = "access" /\ to = "failed"
    <3>1. Outcome(t, to, class) = [routine EXCEPT !.state = "disabled"]
      BY <1>3, <2>2, Zenon DEF Outcome
    <3>2. ~Counts(t, to, class)
      BY <2>2 DEF Counts
    <3>3. [routine EXCEPT !.state = "disabled"] \in Routine
      BY DEF Routine
    <3> QED BY <2>2, <3>1, <3>2, <3>3 DEF Heard, Routine
  <2>3. CASE ~Resets(t, to) /\ ~(class = "access" /\ to = "failed") /\ Doubts(t, to, class)
    <3>1. Outcome(t, to, class) = [routine EXCEPT !.state = "paused"]
      BY <1>3, <2>3, Zenon DEF Outcome
    <3>2. ~Counts(t, to, class)
      BY <2>3 DEF Counts, Doubts
    <3>3. [routine EXCEPT !.state = "paused"] \in Routine
      BY DEF Routine
    <3> QED BY <2>3, <3>1, <3>2, <3>3 DEF Heard, Routine
  <2>4. CASE /\ ~Resets(t, to) /\ ~(class = "access" /\ to = "failed")
             /\ ~Doubts(t, to, class) /\ Counts(t, to, class)
    <3> DEFINE r == [routine EXCEPT !.failures = @ + 1,
                                    !.state = IF Tired THEN "paused" ELSE @]
    <3>1. Outcome(t, to, class) = r
      BY <1>3, <2>4, Zenon DEF Outcome
    <3>2. /\ r \in Routine /\ r.kind = routine.kind /\ r.next = routine.next
          /\ r.failures = routine.failures + 1 /\ r.state \in {"paused", routine.state}
      BY CountedType
    <3> HIDE DEF r
    <3> QED BY <2>0, <2>4, <3>1, <3>2 DEF Heard
  <2>5. CASE /\ ~Resets(t, to) /\ ~(class = "access" /\ to = "failed")
             /\ ~Doubts(t, to, class) /\ ~Counts(t, to, class)
    <3>1. Outcome(t, to, class) = routine
      BY <1>3, <2>5, Zenon DEF Outcome
    <3> QED BY <2>0, <2>5, <3>1 DEF Heard
  <2> QED BY <2>1, <2>2, <2>3, <2>4, <2>5
<1> QED BY <1>1, <1>2, <1>3

\* An active occurrence ends; the row it ends with is that of its delivery.
LEMMA EndsStep ==
  ASSUME IInv, NEW o \in Occ, NEW r \in Occurrence,
         occ[o].status \in Active, r.trigger = occ[o].trigger, KeepsDelivery(occ[o], r),
         NEW to \in Ended, NEW class, to \in {"succeeded", "no_op"} => class = "other",
         Ends([occ EXCEPT ![o] = r], o, to, class),
         posts' = posts, Calm, ExecOK', Others
  PROVE  IInv'
<1> DEFINE t == occ[o].trigger
           s == [r EXCEPT !.status = to, !.lease = "none"]
<1>0. TInv /\ occ \in [Occ -> Occurrence] /\ routine \in Routine /\ blamed \subseteq Occ
  BY DEF IInv, TInv, RoutineTypeOK
<1>1. s \in Occurrence
  BY DEF Occurrence
<1>2. s.status = to /\ s.trigger = t /\ s.delivery = r.delivery
  BY DEF Occurrence
<1>3. occ' = [occ EXCEPT ![o] = s]
  BY <1>0 DEF Ends
<1> HIDE DEF s
<1>4. \A p \in Occ : occ'[p] = IF p = o THEN s ELSE occ[p]
  BY <1>0, <1>3
<1>5. Heard(t, to, class, routine')
  BY <1>0, OutcomeHeard DEF Ends
<1>6. Rows
  <2>1. occ' \in [Occ -> Occurrence]
    BY <1>0, <1>1, <1>3
  <2>2. blamed' \subseteq Occ
    BY <1>0 DEF Ends
  <2> QED BY <1>5, <2>1, <2>2 DEF Rows, Heard
<1>7. FailuresFit'
  <2>1. o \notin blamed /\ \A p \in blamed : occ[p].status \in Ended
    BY DEF IInv, FailuresFit, Active, Ended
  <2>2. IsFiniteSet(blamed) /\ routine.failures = Cardinality(blamed)
    BY <1>0, RoutineAssumption, FS_Subset DEF IInv, FailuresFit, EachFailureCountsOnce
  <2>3. CASE Resets(t, to)
    <3>1. blamed' = {} /\ routine'.failures = 0
      BY <1>5, <2>3 DEF Ends, Heard
    <3> QED BY <3>1, FS_EmptySet DEF FailuresFit, EachFailureCountsOnce
  <2>4. CASE ~Resets(t, to) /\ Counts(t, to, class)
    <3>1. blamed' = blamed \cup {o} /\ routine'.failures = routine.failures + 1
      BY <1>5, <2>4 DEF Ends, Heard
    <3>2. Cardinality(blamed') = Cardinality(blamed) + 1
      BY <2>1, <2>2, <3>1, FS_AddElement
    <3>3. \A p \in blamed' : occ'[p].status \in Ended
      BY <1>0, <1>2, <1>4, <2>1, <3>1
    <3> QED BY <2>2, <3>1, <3>2, <3>3 DEF FailuresFit, EachFailureCountsOnce
  <2>5. CASE ~Resets(t, to) /\ ~Counts(t, to, class)
    <3>1. blamed' = blamed /\ routine'.failures = routine.failures
      BY <1>5, <2>5 DEF Ends, Heard
    <3>2. \A p \in blamed' : occ'[p].status \in Ended
      BY <1>0, <1>2, <1>4, <2>1, <3>1
    <3> QED BY <2>2, <3>1, <3>2 DEF FailuresFit, EachFailureCountsOnce
  <2> QED BY <2>3, <2>4, <2>5
<1>8. OnceFits'
  <2>1. SUFFICES ASSUME routine'.kind = "once", routine'.state = "active", routine'.next = "none"
                 PROVE  \E p \in Occ : occ'[p].status \in Active /\ occ'[p].trigger = "once"
    BY DEF OnceFits
  <2>2. routine.kind = "once" /\ routine.state = "active" /\ routine.next = "none" /\ t # "once"
    BY <1>5, <2>1 DEF Heard
  <2>3. PICK p \in Occ : occ[p].status \in Active /\ occ[p].trigger = "once"
    BY <2>2 DEF IInv, OnceFits
  <2> QED BY <1>4, <2>2, <2>3
<1>9. MessagesFit'
  <2>1. \A p \in Occ : Faithful(occ[p], occ'[p])
    <3> SUFFICES ASSUME NEW p \in Occ PROVE Faithful(occ[p], occ'[p])
      OBVIOUS
    <3>1. CASE p = o
      BY <1>2, <1>4, <3>1 DEF Faithful, KeepsDelivery, Ended
    <3>2. CASE p # o
      BY <1>4, <3>2 DEF Faithful, KeepsDelivery
    <3> QED BY <3>1, <3>2
  <2> QED BY <1>0, <2>1, MessagesKept DEF IInv
<1>10. TInv'
  BY <1>6, Pieces
<1> QED BY <1>7, <1>8, <1>9, <1>10 DEF IInv

\* The same, for an end that leaves the delivery alone.
LEMMA EndsPlain ==
  ASSUME IInv, NEW o \in Occ, occ[o].status \in Active,
         NEW to \in Ended, NEW class, to \in {"succeeded", "no_op"} => class = "other",
         Ends(occ, o, to, class), posts' = posts, Calm, ExecOK', Others
  PROVE  IInv'
<1>1. occ \in [Occ -> Occurrence]
  BY DEF IInv, TInv, RoutineTypeOK
<1>2. occ = [occ EXCEPT ![o] = occ[o]] /\ occ[o] \in Occurrence
  BY <1>1
<1>3. Ends([occ EXCEPT ![o] = occ[o]], o, to, class)
  BY <1>2
<1>4. KeepsDelivery(occ[o], occ[o])
  BY DEF KeepsDelivery
<1> QED BY <1>2, <1>3, <1>4, EndsStep

\* What recordDelivery writes of a delivery that was not made.
LEMMA UndeliversRow ==
  ASSUME TInv, NEW o \in Occ, occ[o].delivery \in Undelivered,
         NEW outcome \in {"unknown", "failed"}, NEW class \in Class
  PROVE  \E r \in Occurrence :
           /\ Undelivers(o, outcome, class) = [occ EXCEPT ![o] = r]
           /\ r.trigger = occ[o].trigger /\ r.status = occ[o].status
           /\ r.delivery = outcome
<1>0. occ \in [Occ -> Occurrence] /\ occ[o] \in Occurrence
  BY DEF TInv, RoutineTypeOK
<1> DEFINE cause == IF occ[o].status = "running" THEN class ELSE occ[o].cause
<1>1. cause \in {"none"} \cup Class
  BY <1>0 DEF Occurrence
<1>2. Undelivers(o, outcome, class) =
        [occ EXCEPT ![o] = [occ[o] EXCEPT !.delivery = outcome, !.cause = cause]]
  BY <1>0 DEF Undelivers
<1> HIDE DEF cause
<1>3. [occ[o] EXCEPT !.delivery = outcome, !.cause = cause] \in Occurrence
  BY <1>0, <1>1 DEF Occurrence
<1>4. /\ [occ[o] EXCEPT !.delivery = outcome, !.cause = cause].trigger = occ[o].trigger
      /\ [occ[o] EXCEPT !.delivery = outcome, !.cause = cause].status = occ[o].status
      /\ [occ[o] EXCEPT !.delivery = outcome, !.cause = cause].delivery = outcome
  BY <1>0 DEF Occurrence
<1> QED BY <1>2, <1>3, <1>4

----------------------------------------------------------------------------
(***************************************************************************)
(* The steps of a heartbeat.                                               *)
(***************************************************************************)
LEMMA Here ==
  ASSUME IInv, NEW h \in Heart, NEW at \in Stage \cup {"listed", "entered"}, On(h, at)
  PROVE  /\ TInv /\ exec[h] # Idle
         /\ exec[h].o \in Occ /\ occ[exec[h].o] \in Occurrence
         /\ at \in Stage => exec[h] \in Step /\ exec[h].result \in {"none"} \cup Result
         /\ at = "entered" => exec[h] \in Reader
<1>1. TInv /\ exec[h] # Idle
  BY DEF IInv, On, Idle, Stage
<1>2. exec[h] \in Listed \cup Reader \cup Step
  BY <1>1, HeartType
<1>3. at \in Stage => exec[h] \in Step
  BY <1>2 DEF On, Stage, Listed, Reader
<1>4. at = "entered" => exec[h] \in Reader
  BY <1>2 DEF On, Listed, Step
<1> QED BY <1>1, <1>3, <1>4, HeartType DEF Step

LEMMA ExpiresStep ==
  ASSUME IInv, NEW h \in Heart, Expires(h)
  PROVE  IInv'
<1> DEFINE o == exec[h].o
<1>1. TInv /\ exec[h] # Idle /\ o \in Occ
  BY Here DEF Expires
<1>2. Goer(h)
  BY DEF Expires, Goer
<1>3. ExecOK' /\ Calm
  BY <1>1, <1>2, GoerOK
<1>4. Others /\ posts' = posts
  BY <1>1, SameOthers DEF Expires
<1>5. CASE occ[o].status = "queued" /\ Ends(occ, o, "skipped", "other")
  BY <1>1, <1>3, <1>4, <1>5, EndsPlain DEF Active, Ended
<1>6. CASE Nothing
  BY <1>1, <1>3, <1>4, <1>6, QuietHeart
<1> QED BY <1>5, <1>6 DEF Expires

LEMMA EnteredOK ==
  ASSUME TInv, NEW h \in Heart, NEW o \in Occ, NEW attempt \in Nat, Entered(h, o, attempt)
  PROVE  ExecOK' /\ Calm
<1> DEFINE x == [at |-> "entered", o |-> o, version |-> routine.version,
                 attempt |-> attempt, phase |-> Phase(occ[o])]
<1>1. x \in Free
  <2>1. Phase(occ[o]) \in {"fresh", "frozen", "receipted", "settled"}
    BY DEF Phase
  <2>2. routine.version \in Nat
    BY DEF TInv, RoutineTypeOK, Routine
  <2> QED BY <2>1, <2>2 DEF Free, Reader
<1>2. x.at = "entered"
  OBVIOUS
<1>3. exec' = [exec EXCEPT ![h] = x]
  BY DEF Entered
<1> HIDE DEF x
<1> QED BY <1>1, <1>2, <1>3, SetsHeart DEF Del

LEMMA AdmitStep ==
  ASSUME IInv, NEW h \in Heart, Admit(h)
  PROVE  IInv'
<1> DEFINE o == exec[h].o
           r == [occ[o] EXCEPT !.status = "admitting", !.lease = "live", !.attempts = @ + 1]
<1>1. TInv /\ exec[h] # Idle /\ o \in Occ /\ occ[o] \in Occurrence
  BY Here DEF Admit
<1>2. Others /\ posts' = posts
  BY <1>1, SameOthers DEF Admit
<1>3. occ[o].attempts \in Nat /\ occ[o].attempts + 1 \in Nat
  BY <1>1 DEF Occurrence
<1>4. CASE /\ occ[o].status = "queued" \/ (occ[o].status = "admitting" /\ occ[o].lease = "over")
           /\ occ' = [occ EXCEPT ![o].status = "admitting", ![o].lease = "live",
                                 ![o].attempts = @ + 1]
           /\ Entered(h, o, occ[o].attempts + 1)
           /\ UNCHANGED <<routine, blamed>>
  <2>1. ExecOK' /\ Calm
    BY <1>1, <1>3, <1>4, EnteredOK
  <2>2. r \in Occurrence
    BY <1>1, <1>3 DEF Occurrence, Active
  <2>3. Kept(occ[o], r)
    BY <1>1, <1>4 DEF Kept, KeepsDelivery, Occurrence, Active, Ended
  <2>4. occ' = [occ EXCEPT ![o] = r]
    BY <1>1, <1>4 DEF TInv, RoutineTypeOK
  <2> HIDE DEF r
  <2>5. OneRow(o)
    BY <1>4, <2>2, <2>3, <2>4 DEF OneRow
  <2> QED BY <1>1, <1>2, <2>1, <2>5, QuietHeart
<1>5. CASE Rests(h) /\ Nothing
  <2>1. ExecOK' /\ Calm
    BY <1>1, <1>5, GoerOK DEF Goer
  <2> QED BY <1>1, <1>2, <1>5, <2>1, QuietHeart
<1>6. CASE Entered(h, o, occ[o].attempts) /\ Nothing
  <2>1. ExecOK' /\ Calm
    BY <1>1, <1>3, <1>6, EnteredOK
  <2> QED BY <1>1, <1>2, <1>6, <2>1, QuietHeart
<1> QED BY <1>4, <1>5, <1>6, Zenon DEF Admit

LEMMA FailsStep ==
  ASSUME IInv, NEW h \in Heart, FailsToPrepare(h), Nothing
  PROVE  IInv'
<1>1. TInv /\ exec[h] # Idle /\ exec[h].o \in Occ
  BY Here DEF FailsToPrepare
<1>2. Goer(h)
  BY DEF FailsToPrepare, Goer, Stage, Del, Result, Class
<1>3. ExecOK' /\ Calm
  BY <1>1, <1>2, GoerOK
<1>4. Others /\ posts' = posts
  BY <1>1, SameOthers, TroubleOthers DEF FailsToPrepare
<1> QED BY <1>1, <1>3, <1>4, QuietHeart

LEMMA DispatchStep ==
  ASSUME IInv, NEW h \in Heart, Dispatch(h)
  PROVE  IInv'
<1> DEFINE o == exec[h].o
           r == [occ[o] EXCEPT !.receipt = TRUE]
<1>1. TInv /\ exec[h] # Idle /\ o \in Occ /\ occ[o] \in Occurrence
  BY Here DEF Dispatch, Stage
<1>2. Goer(h)
  BY DEF Dispatch, Goer, Goes, Stage, Del, Result, Class
<1>3. ExecOK' /\ Calm
  BY <1>1, <1>2, GoerOK
<1>4. Others /\ posts' = posts
  <2>1. sub' \in [Occ -> {"none", "running", "ended"}]
    BY <1>1 DEF Dispatch, TInv, RoutineTypeOK
  <2> QED BY <1>1, <2>1 DEF Dispatch, Others, TInv, RoutineTypeOK
<1>5. Nothing \/ OneRow(o)
  <2>1. r \in Occurrence /\ Kept(occ[o], r)
    BY <1>1 DEF Occurrence, Kept, KeepsDelivery
  <2>2. occ[o].status = "running" /\ occ' = [occ EXCEPT ![o].receipt = TRUE]
          => occ' = [occ EXCEPT ![o] = r]
    BY <1>1 DEF TInv, RoutineTypeOK
  <2> HIDE DEF r
  <2> QED BY <2>1, <2>2 DEF Dispatch, OneRow
<1> QED BY <1>1, <1>3, <1>4, <1>5, QuietHeart

LEMMA FollowStep ==
  ASSUME IInv, NEW h \in Heart, Follow(h)
  PROVE  IInv'
<1>1. TInv /\ exec[h] # Idle /\ exec[h].o \in Occ
  BY Here DEF Follow, Stage
<1>2. Goer(h)
  BY DEF Follow, Goer, Stage, Del, Result, Class
<1>3. ExecOK' /\ Calm
  BY <1>1, <1>2, GoerOK
<1>4. Others /\ posts' = posts
  <2>1. sub' \in [Occ -> {"none", "running", "ended"}]
    BY <1>1 DEF Follow, TInv, RoutineTypeOK
  <2> QED BY <1>1, <2>1 DEF Follow, Others, TInv, RoutineTypeOK
<1> QED BY <1>1, <1>3, <1>4, QuietHeart DEF Follow

LEMMA SettleStep ==
  ASSUME IInv, NEW h \in Heart, Settle(h)
  PROVE  IInv'
<1> DEFINE o == exec[h].o
           r == [occ[o] EXCEPT !.settled = exec[h].result]
<1>1. /\ TInv /\ exec[h] # Idle /\ o \in Occ /\ occ[o] \in Occurrence
      /\ exec[h].result \in {"none"} \cup Result
  BY Here DEF Settle, Stage
<1>2. Goer(h)
  BY <1>1 DEF Settle, Goer, Stage, Del
<1>3. ExecOK' /\ Calm
  BY <1>1, <1>2, GoerOK
<1>4. Others /\ posts' = posts
  BY <1>1, SameOthers DEF Settle
<1>5. Nothing \/ OneRow(o)
  <2>1. r \in Occurrence /\ Kept(occ[o], r)
    BY <1>1 DEF Occurrence, Kept, KeepsDelivery
  <2>2. occ' = [occ EXCEPT ![o].settled = exec[h].result] => occ' = [occ EXCEPT ![o] = r]
    BY <1>1 DEF TInv, RoutineTypeOK
  <2> HIDE DEF r
  <2> QED BY <2>1, <2>2 DEF Settle, OneRow
<1> QED BY <1>1, <1>3, <1>4, <1>5, QuietHeart

LEMMA FinalizeStep ==
  ASSUME IInv, NEW h \in Heart, Finalize(h)
  PROVE  IInv'
<1>1. /\ TInv /\ exec[h] # Idle /\ exec[h].o \in Occ /\ occ[exec[h].o] \in Occurrence
      /\ exec[h].result \in {"none"} \cup Result
  BY Here DEF Finalize, Stage
<1>2. occ[exec[h].o].cause \in {"none"} \cup Result
  BY <1>1 DEF Occurrence, Result
<1>3. Goer(h)
  <2>1. \/ \E result \in {"none"} \cup Result : Carries(h, "closing", result)
        \/ Rests(h) \/ Goes(h, "expiring") \/ Goes(h, "claiming")
    <3> DEFINE cause == IF occ[exec[h].o].cause = "none" THEN "unknown"
                        ELSE occ[exec[h].o].cause
    <3>1. cause \in {"none"} \cup Result
      BY <1>2 DEF Result, Class
    <3>2. \/ Carries(h, "closing", exec[h].result) \/ Carries(h, "closing", "succeeded")
          \/ Rests(h) \/ Goes(h, "expiring") \/ Goes(h, "claiming")
          \/ Carries(h, "closing", cause)
      BY DEF Finalize
    <3>3. "succeeded" \in Result
      BY DEF Result
    <3> QED BY <1>1, <3>1, <3>2, <3>3
  <2> QED BY <2>1 DEF Goer, Goes, Stage, Del
<1>4. ExecOK' /\ Calm
  BY <1>1, <1>3, GoerOK
<1>5. Others /\ posts' = posts
  BY <1>1, SameOthers DEF Finalize
<1> QED BY <1>1, <1>4, <1>5, QuietHeart DEF Finalize

LEMMA ExpireStep ==
  ASSUME IInv, NEW h \in Heart, Expire(h)
  PROVE  IInv'
<1> DEFINE o == exec[h].o
<1>1. TInv /\ exec[h] # Idle /\ o \in Occ /\ occ[o] \in Occurrence
  BY Here DEF Expire, Stage
<1>2. Goer(h)
  BY DEF Expire, Goer, Stage, Del, Result, Class
<1>3. ExecOK' /\ Calm
  BY <1>1, <1>2, GoerOK
<1>4. Others /\ posts' = posts
  BY <1>1, SameOthers DEF Expire
<1>5. ASSUME occ[o].delivery \in Undelivered, occ' = Undelivers(o, "unknown", "unknown"),
             UNCHANGED <<routine, blamed>>
      PROVE  OneRow(o)
  <2>1. PICK r \in Occurrence :
          /\ Undelivers(o, "unknown", "unknown") = [occ EXCEPT ![o] = r]
          /\ r.trigger = occ[o].trigger /\ r.status = occ[o].status
          /\ r.delivery = "unknown"
    BY <1>1, <1>5, UndeliversRow DEF Class
  <2>2. Kept(occ[o], r)
    BY <1>5, <2>1 DEF Kept, KeepsDelivery
  <2> QED BY <1>5, <2>1, <2>2 DEF OneRow
<1>6. Nothing \/ OneRow(o)
  BY <1>5 DEF Expire
<1> QED BY <1>1, <1>3, <1>4, <1>6, QuietHeart

LEMMA LeaveStep ==
  ASSUME IInv, NEW h \in Heart, Leave(h)
  PROVE  IInv'
<1>1. TInv /\ exec[h] # Idle /\ exec[h].o \in Occ
  BY HeartType DEF Leave, IInv
<1>2. ExecOK' /\ Calm
  BY <1>1, GoerOK DEF Leave, Goer
<1>3. Others /\ posts' = posts
  BY <1>1, TroubleOthers DEF Leave
<1> QED BY <1>1, <1>2, <1>3, QuietHeart DEF Leave

LEMMA ListStep ==
  ASSUME IInv, NEW h \in Heart, NEW o \in Occ, List(h, o)
  PROVE  IInv'
<1> DEFINE x == [at |-> "listed", o |-> o, queued |-> occ[o].status = "queued"]
<1>1. TInv
  BY DEF IInv
<1>2. x \in Free /\ x.at = "listed"
  BY DEF Free, Listed
<1>3. exec' = [exec EXCEPT ![h] = x]
  BY DEF List
<1> HIDE DEF x
<1>4. ExecOK' /\ Calm
  BY <1>1, <1>2, <1>3, SetsHeart DEF Del
<1>5. Others /\ posts' = posts
  BY <1>1, SameOthers DEF List
<1> QED BY <1>4, <1>5, QuietHeart DEF List

\* An occurrence that was not dispatched before its routine stopped is over.
LEMMA PrepareStep ==
  ASSUME IInv, NEW h \in Heart, Prepare(h)
  PROVE  IInv'
<1> DEFINE o == exec[h].o
           r == [occ[o] EXCEPT !.status = "running", !.lease = "none",
                               !.envelope = exec[h].attempt]
           s == [occ[o] EXCEPT !.status = "superseded", !.lease = "none"]
<1>1. /\ TInv /\ exec[h] # Idle /\ o \in Occ /\ occ[o] \in Occurrence
      /\ exec[h] \in Reader
  BY Here DEF Prepare
<1>2. Others /\ posts' = posts
  BY <1>1, SameOthers DEF Prepare
<1>3. occ[o].settled \in {"none"} \cup Result /\ exec[h].attempt \in Nat
  BY <1>1 DEF Occurrence, Reader
<1>4. Goer(h)
  <2>1. Runs(h, o) => Goer(h)
    BY <1>3 DEF Runs, Goer, Goes, Stage, Del
  <2>2. Runs(h, o) \/ Carries(h, "failing", "counted") \/ Rests(h) \/ Goes(h, "dispatching")
    BY Zenon DEF Prepare
  <2> QED BY <2>1, <2>2 DEF Goer, Goes, Stage, Del, Result, Class
<1>5. ExecOK' /\ Calm
  BY <1>1, <1>4, GoerOK
<1>6. \/ Nothing
      \/ /\ occ[o].status = "admitting" /\ routine.state # "active"
         /\ occ' = [occ EXCEPT ![o].status = "superseded", ![o].lease = "none"]
         /\ UNCHANGED <<routine, blamed>>
      \/ /\ occ[o].status = "admitting"
         /\ occ' = [occ EXCEPT ![o].status = "running", ![o].lease = "none",
                               ![o].envelope = exec[h].attempt]
         /\ UNCHANGED <<routine, blamed>>
  BY Zenon DEF Prepare
<1>7. CASE Nothing
  BY <1>1, <1>2, <1>5, <1>7, QuietHeart
<1>8. CASE /\ occ[o].status = "admitting"
           /\ occ' = [occ EXCEPT ![o].status = "running", ![o].lease = "none",
                                 ![o].envelope = exec[h].attempt]
           /\ UNCHANGED <<routine, blamed>>
  <2>1. r \in Occurrence
    BY <1>1, <1>3 DEF Occurrence, Active
  <2>2. Kept(occ[o], r)
    BY <1>1, <1>8 DEF Kept, KeepsDelivery, Occurrence, Active, Ended
  <2>3. occ' = [occ EXCEPT ![o] = r]
    BY <1>1, <1>8 DEF TInv, RoutineTypeOK
  <2> HIDE DEF r
  <2>4. OneRow(o)
    BY <1>8, <2>1, <2>2, <2>3 DEF OneRow
  <2> QED BY <1>1, <1>2, <1>5, <2>4, QuietHeart
<1>9. CASE /\ occ[o].status = "admitting" /\ routine.state # "active"
           /\ occ' = [occ EXCEPT ![o].status = "superseded", ![o].lease = "none"]
           /\ UNCHANGED <<routine, blamed>>
  <2>0. occ \in [Occ -> Occurrence] /\ routine \in Routine /\ blamed \subseteq Occ
    BY <1>1 DEF TInv, RoutineTypeOK
  <2>1. s \in Occurrence
    BY <1>1 DEF Occurrence, Ended
  <2>2. s.status = "superseded" /\ s.delivery = occ[o].delivery
    BY <1>1 DEF Occurrence
  <2>3. occ' = [occ EXCEPT ![o] = s]
    BY <1>1, <1>9, <2>0
  <2> HIDE DEF s
  <2>4. \A p \in Occ : occ'[p] = IF p = o THEN s ELSE occ[p]
    BY <2>0, <2>3
  <2>5. Rows
    BY <1>9, <2>0, <2>1, <2>3 DEF Rows
  <2>6. FailuresFit'
    <3>1. \A p \in Occ : occ[p].status \in Ended => occ'[p].status \in Ended
      BY <1>9, <2>2, <2>4 DEF Ended
    <3> QED BY <1>1, <1>9, <3>1, FailuresKept DEF IInv
  <2>7. OnceFits'
    BY <1>9 DEF OnceFits
  <2>8. \A p \in Occ : Faithful(occ[p], occ'[p])
    <3> SUFFICES ASSUME NEW p \in Occ PROVE Faithful(occ[p], occ'[p])
      OBVIOUS
    <3>1. CASE p = o
      BY <2>2, <2>4, <3>1 DEF Faithful, KeepsDelivery
    <3>2. CASE p # o
      BY <2>4, <3>2 DEF Faithful, KeepsDelivery
    <3> QED BY <3>1, <3>2
  <2>9. MessagesFit'
    BY <1>1, <1>2, <1>5, <2>8, MessagesKept DEF IInv
  <2>10. TInv'
    BY <1>2, <1>5, <2>5, Pieces
  <2> QED BY <2>6, <2>7, <2>9, <2>10 DEF IInv
<1> QED BY <1>6, <1>7, <1>8, <1>9

LEMMA CloseStep ==
  ASSUME IInv, NEW h \in Heart, Close(h)
  PROVE  IInv'
<1> DEFINE o == exec[h].o
           result == exec[h].result
           to == Terminal(result)
<1>1. /\ TInv /\ exec[h] # Idle /\ o \in Occ /\ occ[o] \in Occurrence
      /\ result \in {"none"} \cup Result
  BY Here DEF Close, Stage
<1>2. Goer(h)
  BY DEF Close, Goer, Goes, Stage, Del
<1>3. ExecOK' /\ Calm
  BY <1>1, <1>2, GoerOK
<1>4. Others /\ posts' = posts
  BY <1>1, SameOthers DEF Close
<1>5. to \in Ended /\ (to \in {"succeeded", "no_op"} => to # "failed")
  BY DEF Terminal, Ended
<1>6. CASE occ[o].status = "running" /\ Ends(occ, o, to, IF to = "failed" THEN result ELSE "other")
  <2>1. occ[o].status \in Active
    BY <1>6 DEF Active
  <2>2. to \in {"succeeded", "no_op"} => (IF to = "failed" THEN result ELSE "other") = "other"
    BY <1>5
  <2> HIDE DEF to
  <2> QED BY <1>1, <1>3, <1>4, <1>5, <1>6, <2>1, <2>2, EndsPlain
<1>7. CASE Nothing
  BY <1>1, <1>3, <1>4, <1>7, QuietHeart
<1> QED BY <1>6, <1>7, Zenon DEF Close, Moves

LEMMA FailStep ==
  ASSUME IInv, NEW h \in Heart, Fail(h)
  PROVE  IInv'
<1> DEFINE o == exec[h].o
           class == exec[h].result
<1>1. TInv /\ exec[h] # Idle /\ o \in Occ
  BY Here DEF Fail, Stage
<1>2. Goer(h)
  BY DEF Fail, Goer, Goes, Stage, Del
<1>3. ExecOK' /\ Calm
  BY <1>1, <1>2, GoerOK
<1>4. Others /\ posts' = posts
  BY <1>1, SameOthers DEF Fail
<1>5. CASE occ[o].status = "admitting" /\ Ends(occ, o, "skipped", class)
  BY <1>1, <1>3, <1>4, <1>5, EndsPlain DEF Active, Ended
<1>6. CASE occ[o].status \in {"admitting", "running"} /\ Ends(occ, o, "failed", class)
  BY <1>1, <1>3, <1>4, <1>6, EndsPlain DEF Active, Ended
<1>7. CASE Nothing
  BY <1>1, <1>3, <1>4, <1>7, QuietHeart
<1> QED BY <1>5, <1>6, <1>7, Zenon DEF Fail

----------------------------------------------------------------------------
(***************************************************************************)
(* The steps of a delivery.                                                *)
(***************************************************************************)
\* Whoever else delivers goes on as before.
LEMMA OtherHearts ==
  ASSUME TInv, NEW h \in Heart, NEW o \in Occ, NEW at, NEW result,
         exec' = [exec EXCEPT ![h] = [at |-> at, o |-> o, result |-> result]]
  PROVE  /\ exec'[h] = [at |-> at, o |-> o, result |-> result]
         /\ \A k \in Heart \ {h} : exec'[k] = exec[k]
BY DEF TInv, RoutineTypeOK

\* A delivery is claimed by one heartbeat, when nobody has it.
LEMMA ClaimedStep ==
  ASSUME IInv, NEW h \in Heart, exec[h] # Idle, NEW at \in {"posting", "telling"},
         Claims(exec[h].o), occ' = [occ EXCEPT ![exec[h].o].delivery = "leased"],
         Goes(h, at), UNCHANGED <<routine, blamed>>, UNCHANGED <<sub, posts, used>>
  PROVE  IInv'
<1> DEFINE o == exec[h].o
           r == [occ[o] EXCEPT !.delivery = "leased"]
<1>0. /\ TInv /\ o \in Occ /\ occ[o] \in Occurrence
      /\ occ \in [Occ -> Occurrence] /\ routine \in Routine /\ blamed \subseteq Occ
  BY HeartType DEF IInv, TInv, RoutineTypeOK
<1>1. ExecOK' /\ exec' = [exec EXCEPT ![h] = [at |-> at, o |-> o, result |-> "none"]]
  BY <1>0, CarriesOK DEF Goes, Stage
<1>2. Others
  BY <1>0, SameOthers
<1>3. r \in Occurrence
  BY <1>0 DEF Occurrence
<1>4. /\ r.status = occ[o].status /\ r.trigger = occ[o].trigger /\ r.delivery = "leased"
      /\ r.status # "absent"
  BY <1>0 DEF Occurrence, Claims, Deliverable
<1>5. occ' = [occ EXCEPT ![o] = r]
  BY <1>0
<1> HIDE DEF r
<1>6. \A p \in Occ : occ'[p] = IF p = o THEN r ELSE occ[p]
  BY <1>0, <1>5
<1>7. TInv'
  <2>1. Rows
    BY <1>0, <1>3, <1>5 DEF Rows
  <2> QED BY <1>1, <1>2, <2>1, Pieces
<1>8. \A p \in Occ : occ'[p].status = occ[p].status /\ occ'[p].trigger = occ[p].trigger
  BY <1>4, <1>6
<1>9. FailuresFit'
  BY <1>0, <1>8, FailuresKept DEF IInv
<1>10. OnceFits'
  BY <1>0, <1>8, OnceKept DEF IInv
<1>11. MessagesFit'
  <2> SUFFICES ASSUME NEW p \in Occ PROVE MessageFits(p)'
    BY DEF MessagesFit
  <2>1. MessageFits(p)
    BY DEF IInv, MessagesFit
  <2>2. /\ exec'[h].at = at /\ exec'[h].o = o
        /\ \A k \in Heart \ {h} : exec'[k] = exec[k]
    <3>1. /\ exec'[h] = [at |-> at, o |-> o, result |-> "none"]
          /\ \A k \in Heart \ {h} : exec'[k] = exec[k]
      BY <1>0, <1>1, OtherHearts
    <3> QED BY <3>1
  <2>3. CASE p = o
    <3>1. occ[o].delivery = "none" /\ posts[o] = 0
      BY <2>1, <2>3 DEF Claims, MessageFits
    <3>2. \A k \in Heart : ~Delivers(k, o)
      BY <2>1, <2>3, <3>1 DEF MessageFits
    <3>3. \A k \in Heart : Delivers(k, o)' => k = h
      BY <2>2, <3>2 DEF Delivers
    <3>4. occ'[o].delivery = "leased" /\ occ'[o].status # "absent" /\ posts'[o] = 0
      BY <1>0, <1>4, <1>6, <3>1
    <3> QED BY <2>2, <2>3, <3>3, <3>4 DEF MessageFits, OneMessageOf
  <2>4. CASE p # o
    <3>1. \A k \in Heart : Delivers(k, p)' => Delivers(k, p) /\ exec'[k] = exec[k]
      BY <2>2, <2>4 DEF Delivers
    <3>2. occ'[p] = occ[p] /\ posts'[p] = posts[p]
      BY <1>6, <2>4
    <3> QED BY <2>1, <3>1, <3>2 DEF MessageFits, OneMessageOf
  <2> QED BY <2>3, <2>4
<1> QED BY <1>7, <1>9, <1>10, <1>11 DEF IInv

LEMMA ClaimDeliveryStep ==
  ASSUME IInv, NEW h \in Heart, ClaimDelivery(h)
  PROVE  IInv'
<1> DEFINE o == exec[h].o
<1>1. TInv /\ exec[h] # Idle /\ o \in Occ
  BY Here DEF ClaimDelivery, Stage
<1>2. CASE /\ Claims(o) /\ occ' = [occ EXCEPT ![o].delivery = "leased"]
           /\ Goes(h, "posting") /\ UNCHANGED <<routine, blamed>>
  BY <1>1, <1>2, ClaimedStep DEF ClaimDelivery
<1>3. CASE /\ Nothing
           /\ Carries(h, "closing", "succeeded") \/ Carries(h, "closing", "unknown")
  <2>1. Goer(h)
    BY <1>3 DEF Goer, Stage, Del, Result, Class
  <2>2. ExecOK' /\ Calm
    BY <1>1, <2>1, GoerOK
  <2>3. Others /\ posts' = posts
    BY <1>1, SameOthers DEF ClaimDelivery
  <2> QED BY <1>1, <1>3, <2>2, <2>3, QuietHeart
<1> QED BY <1>2, <1>3, Zenon DEF ClaimDelivery

LEMMA NotifyStep ==
  ASSUME IInv, NEW h \in Heart, Notify(h)
  PROVE  IInv'
<1> DEFINE o == exec[h].o
<1>1. TInv /\ exec[h] # Idle /\ o \in Occ
  BY Here DEF Notify, Stage
<1>2. CASE /\ Claims(o) /\ occ' = [occ EXCEPT ![o].delivery = "leased"]
           /\ Goes(h, "telling") /\ UNCHANGED <<routine, blamed>>
  BY <1>1, <1>2, ClaimedStep DEF Notify
<1>3. CASE Nothing /\ Rests(h)
  <2>1. ExecOK' /\ Calm
    BY <1>1, <1>3, GoerOK DEF Goer
  <2>2. Others /\ posts' = posts
    BY <1>1, SameOthers DEF Notify
  <2> QED BY <1>1, <1>3, <2>1, <2>2, QuietHeart
<1> QED BY <1>2, <1>3, Zenon DEF Notify

\* The message goes out once: nobody else delivers, and it had not gone out.
LEMMA PostStep ==
  ASSUME IInv, NEW h \in Heart, Post(h)
  PROVE  IInv'
<1> DEFINE o == exec[h].o
           posted == [posts EXCEPT ![o] = @ + 1]
<1>1. exec[h].at \in {"posting", "telling"}
  BY DEF Post, On
<1>2. TInv /\ exec[h] # Idle /\ o \in Occ
  BY Here DEF Post, Stage
<1>3. PICK next \in {"recording", "told"}, result \in {"succeeded"} \cup Class :
        /\ Carries(h, next, result)
        /\ posts' \in {posts, posted}
        /\ result = "succeeded" => posts' = posted
  BY DEF Post, Class
<1>4. /\ ExecOK'
      /\ exec' = [exec EXCEPT ![h] = [at |-> next, o |-> o, result |-> result]]
  <2>1. next \in Stage /\ result \in {"none"} \cup Result
    BY DEF Stage, Result
  <2> QED BY <1>2, <1>3, <2>1, CarriesOK
<1>5. Nothing /\ sub' = sub
  BY DEF Post
<1>6. posts \in [Occ -> Nat] /\ posted \in [Occ -> Nat]
  BY <1>2 DEF TInv, RoutineTypeOK
<1>7. TInv'
  <2>1. Others
    BY <1>2, <1>3, <1>5, <1>6, RoutineAssumption DEF Post, Others, TInv, RoutineTypeOK, Trouble
  <2>2. Rows
    BY <1>2, <1>5 DEF Nothing, Rows, TInv, RoutineTypeOK
  <2> QED BY <1>4, <2>1, <2>2, Pieces
<1>8. FailuresFit' /\ OnceFits'
  BY <1>5 DEF Nothing, IInv, FailuresFit, EachFailureCountsOnce, OnceFits
<1>9. MessagesFit'
  <2> SUFFICES ASSUME NEW p \in Occ PROVE MessageFits(p)'
    BY DEF MessagesFit
  <2>1. MessageFits(p) /\ MessageFits(o)
    BY <1>2 DEF IInv, MessagesFit
  <2>2. /\ exec'[h].at = next /\ exec'[h].o = o /\ exec'[h].result = result
        /\ \A k \in Heart \ {h} : exec'[k] = exec[k]
    <3>1. /\ exec'[h] = [at |-> next, o |-> o, result |-> result]
          /\ \A k \in Heart \ {h} : exec'[k] = exec[k]
      BY <1>2, <1>4, OtherHearts
    <3> QED BY <3>1
  <2>3. Delivers(h, o)
    BY <1>1 DEF Delivers, Del
  <2>4. \A k \in Heart : Delivers(k, o) => k = h
    BY <2>1, <2>3 DEF MessageFits
  <2>5. posts[o] = 0 /\ occ[o].delivery \notin {"none", "delivered"}
    BY <1>1, <2>1, <2>3 DEF MessageFits
  <2>6. occ' = occ
    BY <1>5 DEF Nothing
  <2>7. CASE p = o
    <3>1. posts'[o] \in {0, 1} /\ (result = "succeeded" => posts'[o] = 1)
      BY <1>2, <1>3, <1>6, <2>5
    <3>2. \A k \in Heart : Delivers(k, o)' => k = h
      BY <2>2, <2>4 DEF Delivers
    <3>3. occ'[o].delivery \notin {"none", "delivered"} /\ occ'[o].status # "absent"
      BY <2>1, <2>5, <2>6 DEF MessageFits
    <3> QED BY <2>2, <2>7, <3>1, <3>2, <3>3 DEF MessageFits, OneMessageOf
  <2>8. CASE p # o
    <3>1. \A k \in Heart : Delivers(k, p)' => Delivers(k, p) /\ exec'[k] = exec[k]
      BY <2>2, <2>8 DEF Delivers
    <3>2. posts'[p] = posts[p]
      BY <1>2, <1>3, <1>6, <2>8
    <3> QED BY <2>1, <2>6, <3>1, <3>2 DEF MessageFits, OneMessageOf
  <2> QED BY <2>7, <2>8
<1> QED BY <1>7, <1>8, <1>9 DEF IInv

\* What is recorded as delivered was delivered by the heartbeat that records it.
LEMMA DeliveredStep ==
  ASSUME IInv, NEW h \in Heart, On(h, "recording") \/ On(h, "told"),
         exec[h].result = "succeeded", occ[exec[h].o].delivery \in Undelivered,
         occ' = [occ EXCEPT ![exec[h].o].delivery = "delivered",
                            ![exec[h].o].cause = IF occ[exec[h].o].status = "running"
                                                 THEN "none" ELSE @],
         UNCHANGED <<routine, blamed, sub, posts, used>>, Goer(h)
  PROVE  IInv'
<1> DEFINE o == exec[h].o
           cause == IF occ[o].status = "running" THEN "none" ELSE occ[o].cause
           r == [occ[o] EXCEPT !.delivery = "delivered", !.cause = cause]
<1>0. TInv /\ exec[h] # Idle /\ o \in Occ /\ occ[o] \in Occurrence
  BY Here DEF Stage
<1>1. occ \in [Occ -> Occurrence] /\ routine \in Routine /\ blamed \subseteq Occ
  BY <1>0 DEF TInv, RoutineTypeOK
<1>2. ExecOK' /\ Calm
  BY <1>0, GoerOK
<1>3. cause \in {"none"} \cup Class
  BY <1>0 DEF Occurrence
<1>4. occ' = [occ EXCEPT ![o] = r]
  BY <1>0, <1>1
<1> HIDE DEF cause
<1>5. r \in Occurrence
  BY <1>0, <1>3 DEF Occurrence
<1>6. r.status = occ[o].status /\ r.trigger = occ[o].trigger /\ r.delivery = "delivered"
  BY <1>0 DEF Occurrence
<1> HIDE DEF r
<1>7. \A p \in Occ : occ'[p] = IF p = o THEN r ELSE occ[p]
  BY <1>1, <1>4
<1>8. TInv'
  <2>1. Rows
    BY <1>1, <1>4, <1>5 DEF Rows
  <2> QED BY <1>0, <1>2, <2>1, SameOthers, Pieces
<1>9. \A p \in Occ : occ'[p].status = occ[p].status /\ occ'[p].trigger = occ[p].trigger
  BY <1>6, <1>7
<1>10. FailuresFit'
  BY <1>0, <1>9, FailuresKept DEF IInv
<1>11. OnceFits'
  BY <1>0, <1>9, OnceKept DEF IInv
<1>12. MessagesFit'
  <2> SUFFICES ASSUME NEW p \in Occ PROVE MessageFits(p)'
    BY DEF MessagesFit
  <2>1. MessageFits(p)
    BY DEF IInv, MessagesFit
  <2>2. \A k \in Heart : Delivers(k, p)' => Delivers(k, p) /\ exec'[k] = exec[k]
    BY <1>2 DEF Calm, Delivers
  <2>3. CASE p = o
    <3>1. Delivers(h, o) /\ exec[h].at \in {"recording", "told"}
      BY DEF On, Delivers, Del
    <3>2. posts[o] = 1 /\ occ[o].status # "absent"
      BY <2>1, <2>3, <3>1 DEF MessageFits, Undelivered
    <3>3. ~Delivers(h, p)'
      <4>1. \/ exec'[h] = Idle
            \/ \E at \in Stage \ Del : exec'[h].at = at
        <5>1. exec \in [Heart -> Free]
          BY <1>0 DEF TInv, RoutineTypeOK, Free
        <5> QED BY <5>1 DEF Goer, Rests, Carries
      <4> QED BY <4>1 DEF Delivers, Del, Idle
    <3>4. \A k \in Heart : ~Delivers(k, p)'
      BY <2>1, <2>2, <2>3, <3>1, <3>3 DEF MessageFits
    <3>5. occ'[p].delivery = "delivered" /\ occ'[p].status # "absent" /\ posts'[p] = 1
      BY <1>0, <1>6, <1>7, <2>3, <3>2
    <3> QED BY <2>3, <3>4, <3>5 DEF MessageFits, OneMessageOf
  <2>4. CASE p # o
    <3>1. occ'[p] = occ[p] /\ posts'[p] = posts[p]
      BY <1>7, <2>4
    <3> QED BY <2>1, <2>2, <3>1 DEF MessageFits, OneMessageOf
  <2> QED BY <2>3, <2>4
<1> QED BY <1>8, <1>10, <1>11, <1>12 DEF IInv

LEMMA RecordStep ==
  ASSUME IInv, NEW h \in Heart, Record(h)
  PROVE  IInv'
<1> DEFINE o == exec[h].o
           result == exec[h].result
           taken == Deliverable(o) /\ occ[o].delivery \in Undelivered
           outcome == IF result = "unknown" THEN "unknown" ELSE "failed"
           failure == IF result = "succeeded" THEN "unknown" ELSE result
<1>0. On(h, "recording") \/ On(h, "told")
  BY DEF Record
<1>1. TInv /\ exec[h] # Idle /\ o \in Occ /\ occ[o] \in Occurrence
  BY <1>0, Here DEF Stage
<1>2. result \in {"succeeded"} \cup Class
  BY <1>0, <1>1 DEF TInv, Records, On
<1>3. failure \in Class /\ outcome \in {"unknown", "failed"}
  BY <1>2 DEF Class
<1>4. Goer(h)
  <2>1. Rests(h) \/ Carries(h, "closing", "succeeded") \/ Carries(h, "closing", failure)
    BY Zenon DEF Record
  <2>2. failure \in Result /\ "succeeded" \in Result /\ "closing" \in Stage \ Del
    BY <1>3 DEF Result, Stage, Del
  <2> QED BY <2>1, <2>2 DEF Goer
<1>5. UNCHANGED <<routine, blamed, sub, posts, used>>
  BY DEF Record
<1>6. ExecOK' /\ Calm /\ Others /\ posts' = posts
  BY <1>1, <1>4, <1>5, GoerOK, SameOthers
<1>7. CASE ~taken
  <2>1. Nothing
    BY <1>5, <1>7 DEF Record, Nothing
  <2> QED BY <1>1, <1>6, <2>1, QuietHeart
<1>8. CASE taken /\ result = "succeeded"
  <2>1. occ' = [occ EXCEPT ![o].delivery = "delivered",
                           ![o].cause = IF occ[o].status = "running" THEN "none" ELSE @]
    BY <1>8 DEF Record
  <2> QED BY <1>0, <1>4, <1>5, <1>8, <2>1, DeliveredStep
<1>9. CASE taken /\ result # "succeeded"
  <2>1. occ' = Undelivers(o, outcome, result)
    BY <1>9 DEF Record
  <2>2. result \in Class
    BY <1>2, <1>9
  <2>3. PICK r \in Occurrence :
          /\ Undelivers(o, outcome, result) = [occ EXCEPT ![o] = r]
          /\ r.trigger = occ[o].trigger /\ r.status = occ[o].status
          /\ r.delivery = outcome
    <3> HIDE DEF outcome, result
    <3> QED BY <1>1, <1>3, <1>9, <2>2, UndeliversRow
  <2>4. Kept(occ[o], r)
    BY <1>3, <1>9, <2>3 DEF Kept, KeepsDelivery
  <2>5. OneRow(o)
    BY <1>5, <2>1, <2>3, <2>4 DEF OneRow
  <2> QED BY <1>1, <1>6, <2>5, QuietHeart
<1> QED BY <1>7, <1>8, <1>9

----------------------------------------------------------------------------
(***************************************************************************)
(* The steps of the schedule, of people, of the cleanup and of Flue.       *)
(***************************************************************************)
LEMMA SameExec ==
  ASSUME TInv, UNCHANGED exec
  PROVE  ExecOK' /\ Calm
BY DEF TInv, RoutineTypeOK, Records, ExecOK, Calm, Free

\* A routine that leaves its active state takes its queued occurrences along.
LEMMA StopsStep ==
  ASSUME IInv, NEW target \in {"paused", "disabled"}, Stops(target), blamed' = blamed,
         posts' = posts, Calm, ExecOK', Others
  PROVE  IInv'
<1>0. /\ TInv /\ occ \in [Occ -> Occurrence] /\ routine \in Routine /\ blamed \subseteq Occ
  BY DEF IInv, TInv, RoutineTypeOK
<1>1. /\ routine' \in Routine /\ routine'.failures = routine.failures
      /\ routine'.state = target
  <2>1. routine.version + 1 \in Nat
    BY <1>0 DEF Routine
  <2>2. routine' = [routine EXCEPT !.state = target, !.version = routine.version + 1]
    BY DEF Stops
  <2> QED BY <1>0, <2>1, <2>2 DEF Routine
<1>2. \A p \in Occ :
        /\ occ'[p] \in Occurrence
        /\ occ'[p].delivery = occ[p].delivery
        /\ \/ occ'[p].status = occ[p].status
           \/ occ[p].status = "queued" /\ occ'[p].status = "cancelled"
  <2> SUFFICES ASSUME NEW p \in Occ
               PROVE  /\ occ'[p] \in Occurrence
                      /\ occ'[p].delivery = occ[p].delivery
                      /\ \/ occ'[p].status = occ[p].status
                         \/ occ[p].status = "queued" /\ occ'[p].status = "cancelled"
    OBVIOUS
  <2>1. occ'[p] = IF occ[p].status = "queued" /\ occ[p].trigger # "run_now"
                  THEN [occ[p] EXCEPT !.status = "cancelled"] ELSE occ[p]
    BY DEF Stops, Cancelled
  <2>2. occ[p] \in Occurrence
    BY <1>0
  <2> QED BY <2>1, <2>2 DEF Occurrence, Ended
<1>3. Rows
  <2>1. occ' \in [Occ -> Occurrence]
    <3>1. occ' = [p \in Occ |-> IF occ[p].status = "queued" /\ occ[p].trigger # "run_now"
                                THEN [occ[p] EXCEPT !.status = "cancelled"] ELSE occ[p]]
      BY DEF Stops, Cancelled
    <3> QED BY <1>2, <3>1
  <2> QED BY <1>0, <1>1, <2>1 DEF Rows
<1>4. FailuresFit'
  <2>1. \A p \in Occ : occ[p].status \in Ended => occ'[p].status \in Ended
    BY <1>2 DEF Ended
  <2> QED BY <1>0, <1>1, <2>1, FailuresKept DEF IInv
<1>5. OnceFits'
  BY <1>1 DEF OnceFits
<1>6. MessagesFit'
  <2>1. \A p \in Occ : Faithful(occ[p], occ'[p])
    BY <1>2 DEF Faithful, KeepsDelivery
  <2> QED BY <1>0, <2>1, MessagesKept DEF IInv
<1>7. TInv'
  BY <1>3, Pieces
<1> QED BY <1>4, <1>5, <1>6, <1>7 DEF IInv

LEMMA FailsToPrepareStep ==
  ASSUME IInv, NEW h \in Heart, FailsToPrepare(h)
  PROVE  IInv'
<1>1. CASE Nothing
  BY <1>1, FailsStep
<1>2. CASE /\ Trouble /\ Carries(h, "failing", "access") /\ Stops("paused")
           /\ UNCHANGED <<blamed, sub, posts>>
  <2>1. TInv /\ exec[h] # Idle
    BY Here DEF FailsToPrepare
  <2>2. Goer(h)
    BY <1>2 DEF Goer, Stage, Del, Result, Class
  <2>3. ExecOK' /\ Calm
    BY <2>1, <2>2, GoerOK
  <2>4. Others
    BY <1>2, <2>1, TroubleOthers
  <2> QED BY <1>2, <2>3, <2>4, StopsStep
<1> QED BY <1>1, <1>2 DEF FailsToPrepare

LEMMA StopStep ==
  ASSUME IInv, NEW target \in {"paused", "disabled"}, Stop(target)
  PROVE  IInv'
<1>1. TInv
  BY DEF IInv
<1>2. ExecOK' /\ Calm /\ Others
  BY <1>1, SameExec, TroubleOthers DEF Stop
<1> QED BY <1>2, StopsStep DEF Stop

\* A new occurrence, for which nothing has been delivered.
LEMMA CreatedStep ==
  ASSUME IInv, NEW o \in Occ, occ[o].status = "absent",
         NEW status \in {"queued", "skipped"}, NEW trigger \in {"schedule", "once", "run_now"},
         occ' = Created(o, trigger, status),
         routine' \in Routine, routine'.failures = routine.failures, blamed' = blamed,
         OnceFits', posts' = posts, UNCHANGED exec, Others
  PROVE  IInv'
<1> DEFINE r == [NoOccurrence EXCEPT !.status = status, !.trigger = trigger]
<1>0. TInv /\ occ \in [Occ -> Occurrence] /\ blamed \subseteq Occ
  BY DEF IInv, TInv, RoutineTypeOK
<1>1. r \in Occurrence
  <2>1. NoOccurrence \in Occurrence
    BY DEF NoOccurrence, Occurrence
  <2> QED BY <2>1 DEF Occurrence, Active, Ended
<1>2. r.status = status /\ r.delivery = "none"
  BY DEF NoOccurrence
<1>3. occ' = [occ EXCEPT ![o] = r]
  BY DEF Created
<1> HIDE DEF r
<1>4. \A p \in Occ : occ'[p] = IF p = o THEN r ELSE occ[p]
  BY <1>0, <1>3
<1>5. ExecOK' /\ Calm
  BY <1>0, SameExec
<1>6. TInv'
  <2>1. Rows
    BY <1>0, <1>1, <1>3 DEF Rows
  <2> QED BY <1>5, <2>1, Pieces
<1>7. FailuresFit'
  <2>1. \A p \in Occ : occ[p].status \in Ended => occ'[p].status \in Ended
    BY <1>4 DEF Ended
  <2> QED BY <1>0, <2>1, FailuresKept DEF IInv
<1>8. MessagesFit'
  <2>1. \A p \in Occ : Faithful(occ[p], occ'[p])
    <3> SUFFICES ASSUME NEW p \in Occ PROVE Faithful(occ[p], occ'[p])
      OBVIOUS
    <3>1. CASE p = o
      BY <1>2, <1>4, <3>1 DEF Faithful
    <3>2. CASE p # o
      BY <1>4, <3>2 DEF Faithful, KeepsDelivery
    <3> QED BY <3>1, <3>2
  <2> QED BY <1>0, <1>5, <2>1, MessagesKept DEF IInv
<1> QED BY <1>6, <1>7, <1>8 DEF IInv

LEMMA ClaimStep ==
  ASSUME IInv, NEW o \in Occ, Claim(o)
  PROVE  IInv'
<1>0. TInv /\ routine \in Routine /\ occ \in [Occ -> Occurrence]
  BY DEF IInv, TInv, RoutineTypeOK
<1>1. /\ occ[o].status = "absent" /\ blamed' = blamed /\ posts' = posts /\ UNCHANGED exec
      /\ Others
  BY <1>0, SameOthers DEF Claim, Fresh
<1>2. CASE routine.kind = "once" /\ Busy
  <2>1. /\ occ' = Created(o, "once", "skipped")
        /\ routine' = [routine EXCEPT !.next = "none", !.state = "completed"]
    BY <1>2 DEF Claim
  <2>2. /\ routine' \in Routine /\ routine'.failures = routine.failures
        /\ routine'.state = "completed"
    BY <1>0, <2>1 DEF Routine
  <2>3. OnceFits'
    BY <2>2 DEF OnceFits
  <2> QED BY <1>1, <2>1, <2>2, <2>3, CreatedStep
<1>3. CASE routine.kind = "once" /\ ~Busy
  <2>1. /\ occ' = Created(o, "once", "queued")
        /\ routine' = [routine EXCEPT !.next = "none", !.state = routine.state]
    BY <1>3 DEF Claim
  <2>2. routine' \in Routine /\ routine'.failures = routine.failures
    BY <1>0, <2>1 DEF Routine
  <2>3. occ'[o].status \in Active /\ occ'[o].trigger = "once"
    BY <1>0, <2>1 DEF Created, NoOccurrence, Active
  <2>4. OnceFits'
    BY <2>3 DEF OnceFits
  <2> QED BY <1>1, <2>1, <2>2, <2>4, CreatedStep
<1>4. CASE routine.kind # "once"
  <2>1. PICK status \in {"queued", "skipped"} : occ' = Created(o, "schedule", status)
    BY <1>4 DEF Claim
  <2>2. routine' = [routine EXCEPT !.next = "future"]
    BY <1>4 DEF Claim
  <2>3. routine' \in Routine /\ routine'.failures = routine.failures /\ routine'.next = "future"
    BY <1>0, <2>2 DEF Routine
  <2>4. OnceFits'
    BY <2>3 DEF OnceFits
  <2> QED BY <1>1, <2>1, <2>3, <2>4, CreatedStep
<1> QED BY <1>2, <1>3, <1>4

LEMMA RunNowStep ==
  ASSUME IInv, NEW o \in Occ, RunNow(o)
  PROVE  IInv'
<1>0. TInv /\ routine \in Routine
  BY DEF IInv, TInv, RoutineTypeOK
<1>1. Others
  BY <1>0, TroubleOthers DEF RunNow
<1>2. OnceFits'
  BY DEF RunNow, OnceFits
<1> QED BY <1>0, <1>1, <1>2, CreatedStep DEF RunNow, Fresh

\* The routine changes, its occurrences do not.
LEMMA RoutineStep ==
  ASSUME IInv, UNCHANGED <<occ, exec, posts>>, Others, routine' \in Routine,
         \/ routine'.failures = routine.failures /\ blamed' = blamed
         \/ routine'.failures = 0 /\ blamed' = {},
         routine'.next # "none"
  PROVE  IInv'
<1>0. TInv /\ occ \in [Occ -> Occurrence] /\ blamed \subseteq Occ
  BY DEF IInv, TInv, RoutineTypeOK
<1>1. ExecOK' /\ Calm
  BY <1>0, SameExec
<1>2. TInv'
  <2>1. Rows
    BY <1>0 DEF Rows
  <2> QED BY <1>1, <2>1, Pieces
<1>3. FailuresFit'
  <2>1. CASE routine'.failures = routine.failures /\ blamed' = blamed
    BY <2>1 DEF IInv, FailuresFit, EachFailureCountsOnce
  <2>2. CASE routine'.failures = 0 /\ blamed' = {}
    BY <2>2, FS_EmptySet DEF FailuresFit, EachFailureCountsOnce
  <2> QED BY <2>1, <2>2
<1>4. OnceFits'
  BY DEF OnceFits
<1>5. MessagesFit'
  <2>1. \A p \in Occ : Faithful(occ[p], occ'[p])
    BY DEF Faithful, KeepsDelivery
  <2> QED BY <1>0, <1>1, <2>1, MessagesKept DEF IInv
<1> QED BY <1>2, <1>3, <1>4, <1>5 DEF IInv

LEMMA ScheduleStep ==
  ASSUME IInv, SlotComesDue \/ Resume \/ Edit
  PROVE  IInv'
<1>0. TInv /\ routine \in Routine
  BY DEF IInv, TInv, RoutineTypeOK
<1>v. routine.version + 1 \in Nat
  BY <1>0 DEF Routine
<1>1. CASE SlotComesDue
  <2>1. /\ routine' \in Routine /\ routine'.failures = routine.failures
        /\ routine'.next # "none"
    BY <1>0, <1>1 DEF SlotComesDue, Routine
  <2>2. Others
    BY <1>0, <1>1, SameOthers DEF SlotComesDue
  <2> QED BY <1>1, <2>1, <2>2, RoutineStep DEF SlotComesDue
<1>2. CASE Resume
  <2>1. routine' = [routine EXCEPT !.state = "active", !.version = routine.version + 1,
                                   !.failures = 0, !.next = "future"]
    BY <1>2 DEF Resume
  <2>2. routine' \in Routine /\ routine'.failures = 0 /\ routine'.next # "none"
    BY <1>0, <1>v, <2>1 DEF Routine
  <2>3. Others
    BY <1>0, <1>2, TroubleOthers DEF Resume
  <2> QED BY <1>2, <2>2, <2>3, RoutineStep DEF Resume
<1>3. CASE Edit
  <2>1. PICK kind \in Kinds :
          routine' = [routine EXCEPT !.kind = kind, !.version = @ + 1, !.next = "future",
                                     !.state = IF @ = "completed" THEN "active" ELSE @]
    BY <1>3 DEF Edit
  <2> DEFINE state == IF routine.state = "completed" THEN "active" ELSE routine.state
  <2>2. state \in {"active", "paused", "disabled", "completed"}
    BY <1>0 DEF Routine
  <2>3. routine' = [routine EXCEPT !.kind = kind, !.version = routine.version + 1,
                                   !.next = "future", !.state = state]
    BY <1>0, <2>1
  <2> HIDE DEF state
  <2>4. /\ routine' \in Routine /\ routine'.failures = routine.failures
        /\ routine'.next # "none"
    BY <1>0, <1>v, <2>2, <2>3 DEF Routine
  <2>5. Others
    BY <1>0, <1>3, TroubleOthers DEF Edit
  <2> QED BY <1>3, <2>4, <2>5, RoutineStep DEF Edit
<1> QED BY <1>1, <1>2, <1>3

LEMMA GrowsStep ==
  ASSUME IInv, NEW o \in Occ, Grows(o)
  PROVE  IInv'
<1> DEFINE r == [occ[o] EXCEPT !.age = @ + 1]
<1>0. TInv /\ occ \in [Occ -> Occurrence] /\ occ[o] \in Occurrence
  BY DEF IInv, TInv, RoutineTypeOK
<1>1. ExecOK' /\ Calm /\ Others
  BY <1>0, SameExec, SameOthers DEF Grows
<1>2. occ[o].age + 1 \in 0..2
  BY <1>0 DEF Grows, Occurrence
<1>3. r \in Occurrence /\ Kept(occ[o], r)
  BY <1>0, <1>2 DEF Occurrence, Kept, KeepsDelivery
<1>4. occ' = [occ EXCEPT ![o] = r]
  BY <1>0 DEF Grows
<1> HIDE DEF r
<1>5. OneRow(o)
  BY <1>3, <1>4 DEF OneRow, Grows
<1> QED BY <1>0, <1>1, <1>5, QuietHeart DEF Grows

LEMMA LeaseRunsOutStep ==
  ASSUME IInv, NEW o \in Occ, LeaseRunsOut(o)
  PROVE  IInv'
<1> DEFINE r == [occ[o] EXCEPT !.lease = "over"]
           s == [occ[o] EXCEPT !.delivery = "lapsed"]
<1>0. TInv /\ occ \in [Occ -> Occurrence] /\ occ[o] \in Occurrence
  BY DEF IInv, TInv, RoutineTypeOK
<1>1. ExecOK' /\ Calm /\ Others
  BY <1>0, SameExec, SameOthers DEF LeaseRunsOut
<1>2. r \in Occurrence /\ Kept(occ[o], r)
  BY <1>0 DEF Occurrence, Kept, KeepsDelivery
<1>3. s \in Occurrence /\ (occ[o].delivery = "leased" => Kept(occ[o], s))
  BY <1>0 DEF Occurrence, Kept, KeepsDelivery, Undelivered
<1>4. \/ occ' = [occ EXCEPT ![o] = r]
      \/ occ[o].delivery = "leased" /\ occ' = [occ EXCEPT ![o] = s]
  BY <1>0 DEF LeaseRunsOut
<1> HIDE DEF r, s
<1>5. OneRow(o)
  BY <1>2, <1>3, <1>4 DEF OneRow, LeaseRunsOut
<1> QED BY <1>0, <1>1, <1>5, QuietHeart DEF LeaseRunsOut

LEMMA SubmissionEndsStep ==
  ASSUME IInv, NEW o \in Occ, SubmissionEnds(o)
  PROVE  IInv'
<1>0. TInv
  BY DEF IInv
<1>1. ExecOK' /\ Calm
  BY <1>0, SameExec DEF SubmissionEnds
<1>2. Others
  <2>1. sub' \in [Occ -> {"none", "running", "ended"}]
    BY <1>0 DEF SubmissionEnds, TInv, RoutineTypeOK
  <2> QED BY <1>0, <2>1 DEF SubmissionEnds, Others, TInv, RoutineTypeOK
<1>3. Nothing /\ posts' = posts
  BY DEF SubmissionEnds, Nothing
<1> QED BY <1>1, <1>2, <1>3, QuietHeart

LEMMA CleanUpStep ==
  ASSUME IInv, NEW o \in Occ, CleanUp(o)
  PROVE  IInv'
<1>0. /\ TInv /\ occ \in [Occ -> Occurrence] /\ occ[o] \in Occurrence
      /\ routine \in Routine /\ blamed \subseteq Occ
  BY DEF IInv, TInv, RoutineTypeOK
<1>1. ExecOK' /\ Calm /\ Others /\ posts' = posts
  BY <1>0, SameExec, SameOthers DEF CleanUp
<1>2. ASSUME occ[o].delivery = "lapsed"
      PROVE  \E r \in Occurrence :
               /\ Undelivers(o, "unknown", "unknown") = [occ EXCEPT ![o] = r]
               /\ r.trigger = occ[o].trigger /\ r.status = occ[o].status
               /\ r.delivery = "unknown" /\ Kept(occ[o], r) /\ KeepsDelivery(occ[o], r)
  <2>1. PICK r \in Occurrence :
          /\ Undelivers(o, "unknown", "unknown") = [occ EXCEPT ![o] = r]
          /\ r.trigger = occ[o].trigger /\ r.status = occ[o].status
          /\ r.delivery = "unknown"
    BY <1>0, <1>2, UndeliversRow DEF Class, Undelivered
  <2>2. KeepsDelivery(occ[o], r)
    BY <1>2, <2>1 DEF KeepsDelivery, Undelivered
  <2> QED BY <2>1, <2>2 DEF Kept
<1>3. CASE /\ occ[o].delivery = "lapsed" /\ occ[o].status = "running"
           /\ Ends(Undelivers(o, "unknown", "unknown"), o, "failed", "unknown")
  <2>1. PICK r \in Occurrence :
          /\ Undelivers(o, "unknown", "unknown") = [occ EXCEPT ![o] = r]
          /\ r.trigger = occ[o].trigger /\ KeepsDelivery(occ[o], r)
    BY <1>2, <1>3
  <2>2. Ends([occ EXCEPT ![o] = r], o, "failed", "unknown")
    BY <1>3, <2>1
  <2> QED BY <1>1, <1>3, <2>1, <2>2, EndsStep DEF Active, Ended
<1>4. CASE /\ occ[o].delivery = "lapsed" /\ occ[o].status # "running"
           /\ occ' = Undelivers(o, "unknown", "unknown")
           /\ routine' = IF routine.state = "disabled" THEN routine
                         ELSE [routine EXCEPT !.state = "paused"]
           /\ UNCHANGED blamed
  <2>1. PICK r \in Occurrence :
          occ' = [occ EXCEPT ![o] = r] /\ Kept(occ[o], r)
    BY <1>2, <1>4
  <2>2. \A p \in Occ : occ'[p] = IF p = o THEN r ELSE occ[p]
    BY <1>0, <2>1
  <2>3. \A p \in Occ : Kept(occ[p], occ'[p])
    BY <2>1, <2>2, KeptSelf
  <2>4. /\ routine' \in Routine /\ routine'.failures = routine.failures
        /\ routine'.state # "active"
    <3>1. CASE routine.state = "disabled"
      BY <1>0, <1>4, <3>1
    <3>2. CASE routine.state # "disabled"
      BY <1>0, <1>4, <3>2 DEF Routine
    <3> QED BY <3>1, <3>2
  <2>5. TInv'
    <3>1. Rows
      BY <1>0, <1>4, <2>1, <2>4 DEF Rows
    <3> QED BY <1>1, <3>1, Pieces
  <2>6. FailuresFit'
    <3>1. \A p \in Occ : occ[p].status \in Ended => occ'[p].status \in Ended
      BY <2>3 DEF Kept
    <3> QED BY <1>0, <1>4, <2>4, <3>1, FailuresKept DEF IInv
  <2>7. OnceFits'
    BY <2>4 DEF OnceFits
  <2>8. MessagesFit'
    <3>1. \A p \in Occ : Faithful(occ[p], occ'[p])
      BY <1>0, <2>3, KeptFaithful
    <3> QED BY <1>0, <1>1, <3>1, MessagesKept DEF IInv
  <2> QED BY <2>5, <2>6, <2>7, <2>8 DEF IInv
<1>5. CASE occ[o].status = "queued" /\ Ends(occ, o, "skipped", "other")
  BY <1>1, <1>5, EndsPlain DEF Active, Ended
<1>6. CASE occ[o].status = "admitting" /\ Ends(occ, o, "failed", "other")
  BY <1>1, <1>6, EndsPlain DEF Active, Ended
<1>7. CASE occ[o].status = "running" /\ Ends(occ, o, "failed", "unknown")
  BY <1>1, <1>7, EndsPlain DEF Active, Ended
<1> QED BY <1>3, <1>4, <1>5, <1>6, <1>7, Zenon DEF CleanUp

----------------------------------------------------------------------------
(***************************************************************************)
(* The theorems.                                                           *)
(***************************************************************************)
LEMMA InitFits ==
  ASSUME Init
  PROVE  IInv
<1>0. \A o \in Occ : occ[o] = NoOccurrence /\ posts[o] = 0
  BY DEF Init
<1>1. \A h \in Heart : exec[h].at = "idle"
  BY DEF Init, Idle
<1>2. NoOccurrence \in Occurrence /\ NoOccurrence.delivery = "none"
  BY DEF NoOccurrence, Occurrence
<1>3. TInv
  <2>1. routine \in Routine
    BY DEF Init, Routine
  <2>2. occ \in [Occ -> Occurrence]
    BY <1>2 DEF Init
  <2>3. exec \in [Heart -> {Idle} \cup Listed \cup Reader \cup Step]
    BY DEF Init
  <2>4. Records
    BY <1>1 DEF Records
  <2> QED BY <2>1, <2>2, <2>3, <2>4, RoutineAssumption DEF Init, TInv, RoutineTypeOK
<1>4. FailuresFit
  <2>1. routine.failures = 0 /\ blamed = {}
    BY DEF Init
  <2> QED BY <2>1, FS_EmptySet DEF FailuresFit, EachFailureCountsOnce
<1>5. OnceFits
  BY DEF Init, OnceFits
<1>6. MessagesFit
  BY <1>0, <1>1, <1>2 DEF MessagesFit, MessageFits, OneMessageOf, Delivers, Del
<1> QED BY <1>3, <1>4, <1>5, <1>6 DEF IInv

LEMMA HeartStep ==
  ASSUME IInv, NEW h \in Heart, Executes(h) \/ Leave(h)
  PROVE  IInv'
<1>1. ASSUME Expires(h) PROVE IInv'
  BY <1>1, ExpiresStep
<1>2. ASSUME Admit(h) PROVE IInv'
  BY <1>2, AdmitStep
<1>3. ASSUME FailsToPrepare(h) PROVE IInv'
  BY <1>3, FailsToPrepareStep
<1>4. ASSUME Prepare(h) PROVE IInv'
  BY <1>4, PrepareStep
<1>5. ASSUME Dispatch(h) PROVE IInv'
  BY <1>5, DispatchStep
<1>6. ASSUME Follow(h) PROVE IInv'
  BY <1>6, FollowStep
<1>7. ASSUME Settle(h) PROVE IInv'
  BY <1>7, SettleStep
<1>8. ASSUME Finalize(h) PROVE IInv'
  BY <1>8, FinalizeStep
<1>9. ASSUME Expire(h) PROVE IInv'
  BY <1>9, ExpireStep
<1>10. ASSUME ClaimDelivery(h) PROVE IInv'
  BY <1>10, ClaimDeliveryStep
<1>11. ASSUME Notify(h) PROVE IInv'
  BY <1>11, NotifyStep
<1>12. ASSUME Post(h) PROVE IInv'
  BY <1>12, PostStep
<1>13. ASSUME Record(h) PROVE IInv'
  BY <1>13, RecordStep
<1>14. ASSUME Close(h) PROVE IInv'
  BY <1>14, CloseStep
<1>15. ASSUME Fail(h) PROVE IInv'
  BY <1>15, FailStep
<1>16. ASSUME Leave(h) PROVE IInv'
  BY <1>16, LeaveStep
<1> QED BY <1>1, <1>2, <1>3, <1>4, <1>5, <1>6, <1>7, <1>8, <1>9, <1>10, <1>11, <1>12,
           <1>13, <1>14, <1>15, <1>16 DEF Executes

LEMMA NextFits ==
  ASSUME IInv, Next
  PROVE  IInv'
<1>1. CASE SlotComesDue \/ Resume \/ Edit
  BY <1>1, ScheduleStep
<1>2. ASSUME NEW o \in Occ,
             \/ Grows(o) \/ LeaseRunsOut(o) \/ Claim(o) \/ RunNow(o) \/ CleanUp(o)
             \/ SubmissionEnds(o)
      PROVE  IInv'
  <2>1. ASSUME Grows(o) PROVE IInv'
    BY <2>1, GrowsStep
  <2>2. ASSUME LeaseRunsOut(o) PROVE IInv'
    BY <2>2, LeaseRunsOutStep
  <2>3. ASSUME Claim(o) PROVE IInv'
    BY <2>3, ClaimStep
  <2>4. ASSUME RunNow(o) PROVE IInv'
    BY <2>4, RunNowStep
  <2>5. ASSUME CleanUp(o) PROVE IInv'
    BY <2>5, CleanUpStep
  <2>6. ASSUME SubmissionEnds(o) PROVE IInv'
    BY <2>6, SubmissionEndsStep
  <2> QED BY <1>2, <2>1, <2>2, <2>3, <2>4, <2>5, <2>6
<1>3. ASSUME NEW target \in {"paused", "disabled"}, Stop(target)
      PROVE  IInv'
  BY <1>3, StopStep
<1>4. ASSUME NEW h \in Heart, Executes(h) \/ Leave(h)
      PROVE  IInv'
  BY <1>4, HeartStep
<1>5. ASSUME NEW h \in Heart, NEW o \in Occ, List(h, o)
      PROVE  IInv'
  BY <1>5, ListStep
<1> QED BY <1>1, <1>2, <1>3, <1>4, <1>5 DEF Next

LEMMA StutterFits ==
  ASSUME IInv, UNCHANGED vars
  PROVE  IInv'
<1>1. TInv
  BY DEF IInv
<1>2. TInv'
  BY <1>1 DEF vars, TInv, RoutineTypeOK, Records
<1>3. Calm /\ \A p \in Occ : Kept(occ[p], occ'[p])
  BY KeptSelf DEF vars, Calm
<1> QED BY <1>2, <1>3, QuietStep DEF vars

\* The occurrences, the heartbeats, the routine and the messages fit together in
\* every state: what the theorems below are read off.
THEOREM RoutineInvariance == Spec => []IInv
<1>1. Init => IInv
  BY InitFits
<1>2. IInv /\ [Next]_vars => IInv'
  BY NextFits, StutterFits
<1> QED BY <1>1, <1>2, PTL DEF Spec

\* Every row, heartbeat and submission keeps its shape.
THEOREM RoutineTypeCorrect == Spec => []RoutineTypeOK
<1>1. IInv => RoutineTypeOK
  BY DEF IInv, TInv
<1> QED BY <1>1, RoutineInvariance, PTL

\* An occurrence puts at most one message in its destination, and what is
\* recorded as delivered is there (claimDelivery, recordDelivery).
THEOREM OneMessageEach == Spec => []OneMessage
<1>1. IInv => OneMessage
  BY DEF IInv, MessagesFit, MessageFits, OneMessage
<1> QED BY <1>1, RoutineInvariance, PTL

\* An occurrence counts at most once toward the pause of its routine.
THEOREM OneCountEach == Spec => []EachFailureCountsOnce
<1>1. IInv => EachFailureCountsOnce
  BY DEF IInv, FailuresFit
<1> QED BY <1>1, RoutineInvariance, PTL

\* A one-time routine is never active with nothing to wait for.
THEOREM NeverStranded == Spec => []OnceNeverStranded
<1>1. IInv => OnceNeverStranded
  BY DEF IInv, OnceFits, OnceNeverStranded, Busy
<1> QED BY <1>1, RoutineInvariance, PTL
=============================================================================
