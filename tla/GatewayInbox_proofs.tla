------------------------ MODULE GatewayInbox_proofs ------------------------
(***************************************************************************)
(* Proofs about GatewayInbox: its types, one admission per event, the       *)
(* budget of hand-outs and the grace of orphaned claims, for every set of  *)
(* deliveries and all limits.                                              *)
(*                                                                         *)
(* The argument is local to a delivery.  FitRow relates a row to the time   *)
(* since Slack sent the event and to what has happened to it: a row that    *)
(* was admitted is present until Slack cannot send the event any more, it   *)
(* is no older than the event, every hand-out cost an attempt, and a key    *)
(* form that still has its body was never handed out.                      *)
(*                                                                         *)
(* The last part relates a row to the call that a replaced instance left    *)
(* behind: what is left of the call and of the claim it began with differ   *)
(* by a constant, which is more than the grace takes away.                  *)
(***************************************************************************)
EXTENDS GatewayInbox, TLAPS

Budget(d) == IF d \in KeyForm THEN 1 ELSE MaxAttempts

\* row: of delivery d; s: time since it was sent; a, h: admissions, hand-outs.
FitRow(d, row, s, a, h) ==
    /\ row \in Row
    /\ row.status = "pending" => row.attempts < MaxAttempts
    /\ ~Active(row) => row.left = 0 /\ ~row.body
    /\ a \in 0..1 /\ h \in 0..Budget(d)
    /\ a = 0 => row.status = "absent" /\ h = 0
    /\ a = 1 /\ row.status = "absent" => s = Window + 1
    /\ row.status # "absent" =>
         s >= 0 /\ h <= row.attempts /\ (row.age <= s \/ s = Window + 1)
    /\ d \in KeyForm /\ row.body => h = 0

Fit(d) == FitRow(d, inbox[d], slack[d], ghost.admitted[d], ghost.handed[d])

IInv ==
    /\ inbox \in [Delivery -> Row]
    /\ instance \in 0..MaxRestarts /\ alarm \in BOOLEAN
    /\ drain \in [running: BOOLEAN, looked: BOOLEAN, batch: [Delivery -> Item]]
    /\ stray \in [Delivery -> 0..CallTime]
    /\ intake \in SUBSET Delivery
    /\ slack \in [Delivery -> -1..(Window + 1)]
    /\ ghost \in [admitted: [Delivery -> Nat], handed: [Delivery -> Nat],
                  receipted: SUBSET Delivery]
    /\ \A d \in Delivery : Fit(d)

-----------------------------------------------------------------------------
(* What the operators on rows keep *)

\* A row stays a row when some of its columns are set.
LEMMA RowUpdates ==
    ASSUME NEW row \in Row
    PROVE  /\ NoRow \in Row
           /\ \A status \in Status : Ended(row, status) \in Row
           /\ \A left \in Nat : [row EXCEPT !.status = "pending", !.left = left] \in Row
  <1>1. 0 \in 0..Horizon /\ 0 \in 0..MaxAttempts /\ 0 \in 0..MaxRestarts /\ 0 \in Nat
    BY InboxAssumption
  <1>2. "pending" \in Status /\ "absent" \in Status
    BY DEF Status
  <1>3. NoRow \in Row
    BY <1>1, <1>2 DEF Row, NoRow
  <1>4. ASSUME NEW status \in Status
        PROVE  Ended(row, status) \in Row
    BY <1>1 DEF Row, Ended
  <1>5. ASSUME NEW left \in Nat
        PROVE  [row EXCEPT !.status = "pending", !.left = left] \in Row
    BY <1>2 DEF Row
  <1> QED BY <1>3, <1>4, <1>5

\* Ending an active row keeps it fit.
LEMMA EndedFits ==
    ASSUME NEW d, NEW row, NEW s \in -1..(Window + 1), NEW a, NEW h,
           FitRow(d, row, s, a, h), Active(row),
           NEW status \in {"completed", "recovery_required"}
    PROVE  FitRow(d, Ended(row, status), s, a, h)
  <1> USE InboxAssumption
  <1>1. row \in Row
    BY DEF FitRow
  <1>2. Ended(row, status) \in Row
    BY <1>1, RowUpdates DEF Status
  <1>3. /\ Ended(row, status).status = status
        /\ ~Ended(row, status).body
        /\ Ended(row, status).left = 0
        /\ Ended(row, status).age = 0
        /\ Ended(row, status).attempts = row.attempts
    BY <1>1 DEF Row, Ended
  <1> QED BY <1>2, <1>3 DEF FitRow, Active

\* A lease that ends keeps its row fit.
LEMMA ReclaimedFits ==
    ASSUME NEW d, NEW row, NEW s \in -1..(Window + 1), NEW a, NEW h,
           FitRow(d, row, s, a, h), row.status = "in_flight"
    PROVE  FitRow(d, Reclaimed(row), s, a, h)
  <1> USE InboxAssumption
  <1>1. CASE row.attempts >= MaxAttempts
    BY <1>1, EndedFits DEF Reclaimed, Parked, Active
  <1>2. CASE ~(row.attempts >= MaxAttempts)
    <2>1. Reclaimed(row) = [row EXCEPT !.status = "pending", !.left = 0]
      BY <1>2 DEF Reclaimed
    <2>2. row \in Row
      BY DEF FitRow
    <2>3. Reclaimed(row) \in Row
      BY <2>1, <2>2, RowUpdates
    <2>4. /\ Reclaimed(row).status = "pending"
          /\ Reclaimed(row).body = row.body
          /\ Reclaimed(row).age = row.age
          /\ Reclaimed(row).attempts = row.attempts
      BY <2>1, <2>2 DEF Row
    <2>5. row.attempts < MaxAttempts
      BY <1>2, <2>2 DEF Row
    <2> QED BY <2>3, <2>4, <2>5 DEF FitRow, Active
  <1> QED BY <1>1, <1>2

\* A tombstone is purged only when Slack cannot send the event any more.
LEMMA PurgedFits ==
    ASSUME NEW d, NEW row, NEW s \in -1..(Window + 1), NEW a, NEW h,
           FitRow(d, row, s, a, h)
    PROVE  FitRow(d, Purged(row), s, a, h)
  <1> USE InboxAssumption
  <1>1. CASE Terminal(row) /\ row.age > Retention
    <2>1. Purged(row) = NoRow
      BY <1>1 DEF Purged
    <2>2. row.status # "absent" /\ row.age \in Nat
      BY <1>1 DEF Terminal, FitRow, Row
    <2>3. s = Window + 1
      BY <1>1, <2>2 DEF FitRow
    <2>4. /\ NoRow \in Row /\ NoRow.status = "absent" /\ NoRow.left = 0
          /\ ~NoRow.body
      BY RowUpdates DEF NoRow, FitRow
    <2> QED BY <2>1, <2>2, <2>3, <2>4 DEF FitRow, Active
  <1>2. CASE ~(Terminal(row) /\ row.age > Retention)
    BY <1>2 DEF Purged
  <1> QED BY <1>1, <1>2

\* Giving a delivery back keeps its row fit.
LEMMA ReturnedFits ==
    ASSUME NEW d, NEW row, NEW s \in -1..(Window + 1), NEW a, NEW h,
           FitRow(d, row, s, a, h), NEW delay \in Nat
    PROVE  FitRow(d, Returned(row, delay), s, a, h)
  <1> USE InboxAssumption
  <1>1. CASE row.status # "in_flight"
    BY <1>1 DEF Returned
  <1>2. CASE row.status = "in_flight" /\ row.attempts >= MaxAttempts
    BY <1>2, EndedFits DEF Returned, Parked, Active
  <1>3. CASE row.status = "in_flight" /\ ~(row.attempts >= MaxAttempts)
    <2>1. Returned(row, delay) = [row EXCEPT !.status = "pending", !.left = delay]
      BY <1>3 DEF Returned
    <2>2. row \in Row
      BY DEF FitRow
    <2>3. Returned(row, delay) \in Row
      BY <2>1, <2>2, RowUpdates
    <2>4. /\ Returned(row, delay).status = "pending"
          /\ Returned(row, delay).body = row.body
          /\ Returned(row, delay).age = row.age
          /\ Returned(row, delay).attempts = row.attempts
      BY <2>1, <2>2 DEF Row
    <2>5. row.attempts < MaxAttempts
      BY <1>3, <2>2 DEF Row
    <2> QED BY <1>3, <2>3, <2>4, <2>5 DEF FitRow, Active
  <1> QED BY <1>1, <1>2, <1>3

\* A claim costs an attempt, and the claim of a key form its body.
LEMMA ClaimedFits ==
    ASSUME NEW d, NEW row, NEW s \in -1..(Window + 1), NEW a, NEW h,
           FitRow(d, row, s, a, h), instance \in 0..MaxRestarts,
           row.status = "pending", row.body
    PROVE  FitRow(d, Claimed(d, row), s, a, h + 1)
  <1> USE InboxAssumption
  <1>1. row \in Row /\ row.attempts \in 0..MaxAttempts /\ row.attempts < MaxAttempts
    BY DEF FitRow, Row
  <1>2. "in_flight" \in Status /\ row.attempts + 1 \in 0..MaxAttempts
        /\ Lease \in Nat /\ (d \notin KeyForm) \in BOOLEAN
    BY <1>1 DEF Status
  <1>3. Claimed(d, row) \in Row
    BY <1>1, <1>2 DEF Row, Claimed
  <1>4. /\ Claimed(d, row).status = "in_flight"
        /\ Claimed(d, row).age = row.age
        /\ Claimed(d, row).attempts = row.attempts + 1
    BY <1>1 DEF Row, Claimed
  <1>5. Claimed(d, row).body => d \notin KeyForm
    BY <1>1 DEF Row, Claimed
  <1>6. h \in 0..Budget(d) /\ (d \in KeyForm => h = 0) /\ h <= row.attempts
    BY DEF FitRow
  <1>7. h + 1 \in 0..Budget(d)
    BY <1>1, <1>6 DEF Budget
  <1> QED BY <1>1, <1>3, <1>4, <1>5, <1>6, <1>7 DEF FitRow, Active

\* The sweep keeps every row fit.
LEMMA SweepFits ==
    ASSUME IInv, NEW d \in Delivery
    PROVE  FitRow(d, Swept[d], slack[d], ghost.admitted[d], ghost.handed[d])
  <1> DEFINE leases == IF LeaseOver(inbox[d]) THEN Reclaimed(inbox[d]) ELSE inbox[d]
             keys == IF leases.status = "pending" /\ d \in KeyForm /\ leases.body
                        /\ leases.age > Lease
                     THEN Parked(leases) ELSE leases
             aged == IF Active(keys) /\ keys.age > ActiveAge THEN Parked(keys) ELSE keys
             F(row) == FitRow(d, row, slack[d], ghost.admitted[d], ghost.handed[d])
  <1>1. Swept[d] = Purged(aged)
    BY DEF Swept, Maintained
  <1>2. slack[d] \in -1..(Window + 1) /\ F(inbox[d])
    BY DEF IInv, Fit
  <1>3. F(leases)
    BY <1>2, ReclaimedFits DEF LeaseOver
  <1> HIDE DEF leases
  <1>4. F(keys)
    <2>1. CASE leases.status = "pending" /\ d \in KeyForm /\ leases.body /\ leases.age > Lease
      BY <2>1, <1>2, <1>3, EndedFits DEF Parked, Active
    <2> QED BY <2>1, <1>3
  <1> HIDE DEF keys
  <1>5. F(aged)
    <2>1. CASE Active(keys) /\ keys.age > ActiveAge
      BY <2>1, <1>2, <1>4, EndedFits DEF Parked
    <2> QED BY <2>1, <1>4
  <1> HIDE DEF aged
  <1> QED BY <1>1, <1>2, <1>5, PurgedFits

-----------------------------------------------------------------------------
(* The inductive invariant *)

\* What every row of an unchanged inbox keeps.
LEMMA FitUnchanged ==
    ASSUME IInv, UNCHANGED <<inbox, slack, ghost>>
    PROVE  \A d \in Delivery : Fit(d)'
  BY DEF IInv, Fit, FitRow, Active, Row, Status, Budget

\* Setting one item of the batch keeps the drain's shape.
LEMMA SetItemKeepsShape ==
    ASSUME IInv, NEW d \in Delivery, NEW item \in Item, SetItem(d, item)
    PROVE  drain' \in [running: BOOLEAN, looked: BOOLEAN, batch: [Delivery -> Item]]
  BY DEF IInv, SetItem

\* The items that the drain sets.
LEMMA Items ==
    /\ NoItem \in Item
    /\ NoDrain \in [running: BOOLEAN, looked: BOOLEAN, batch: [Delivery -> Item]]
    /\ \A call \in 0..CallTime : [state |-> "busy", call |-> call] \in Item
    /\ [state |-> "queued", call |-> 0] \in Item
  BY InboxAssumption DEF NoItem, NoDrain, Item

LEMMA InitFits == Init => IInv
  <1> SUFFICES ASSUME Init
               PROVE  IInv
    OBVIOUS
  <1> USE InboxAssumption
  <1>1. /\ NoRow \in Row /\ NoRow.status = "absent" /\ NoRow.left = 0 /\ ~NoRow.body
    BY DEF NoRow, Row, Status
  <1>2. \A d \in Delivery : Fit(d)
    BY <1>1 DEF Init, Fit, FitRow, Active, Budget
  <1>3. drain \in [running: BOOLEAN, looked: BOOLEAN, batch: [Delivery -> Item]]
    BY Items DEF Init
  <1>4. inbox \in [Delivery -> Row] /\ slack \in [Delivery -> -1..(Window + 1)]
    BY <1>1 DEF Init
  <1>5. stray \in [Delivery -> 0..CallTime] /\ instance \in 0..MaxRestarts
    BY DEF Init
  <1>6. ghost \in [admitted: [Delivery -> Nat], handed: [Delivery -> Nat],
                    receipted: SUBSET Delivery]
    BY DEF Init
  <1> QED BY <1>2, <1>3, <1>4, <1>5, <1>6 DEF Init, IInv

\* Admission, full or not.
LEMMA AdmissionFits ==
    ASSUME IInv, NEW d \in Delivery, Admit(d) \/ AdmitFull(d)
    PROVE  IInv'
  <1> USE InboxAssumption
  <1>1. Swept \in [Delivery -> Row]
    BY SweepFits DEF FitRow, Swept
  <1>2. CASE UNCHANGED ghost /\ inbox' = Swept
    <2>1. \A e \in Delivery : Fit(e)'
      BY <1>2, SweepFits DEF Fit, FitRow, Active, Budget, Admit, AdmitFull
    <2> QED BY <1>1, <1>2, <2>1 DEF IInv, Admit, AdmitFull
  <1>3. CASE /\ Admit(d)
             /\ Swept[d].status = "absent"
             /\ inbox' = [Swept EXCEPT ![d] = [NoRow EXCEPT !.status = "pending", !.body = TRUE]]
             /\ ghost' = [ghost EXCEPT !.admitted[d] = @ + 1]
    <2> DEFINE new == [NoRow EXCEPT !.status = "pending", !.body = TRUE]
    <2>0. 0 \in 0..Horizon /\ 0 \in 0..MaxAttempts /\ 0 \in 0..MaxRestarts /\ 0 \in Nat
      OBVIOUS
    <2>1. /\ new \in Row /\ new.status = "pending" /\ new.attempts = 0 /\ new.age = 0
      BY <2>0 DEF NoRow, Row, Status
    <2>2. slack[d] >= 0 /\ slack[d] # Window + 1 /\ slack' = slack
      BY <1>3 DEF Admit
    <2>3. ghost.admitted[d] = 0 /\ ghost.handed[d] = 0
      BY <1>3, <2>2, SweepFits DEF FitRow
    <2>4. /\ ghost' \in [admitted: [Delivery -> Nat], handed: [Delivery -> Nat],
                          receipted: SUBSET Delivery]
          /\ ghost'.admitted = [ghost.admitted EXCEPT ![d] = @ + 1]
          /\ ghost'.handed = ghost.handed
      BY <1>3 DEF IInv
    <2>5. inbox'[d] = new /\ inbox' \in [Delivery -> Row]
      BY <1>1, <1>3, <2>1
    <2> HIDE DEF new
    <2>6. Fit(d)'
      BY <2>1, <2>2, <2>3, <2>4, <2>5 DEF Fit, FitRow, Active, Budget, IInv
    <2>7. ASSUME NEW e \in Delivery, e # d
          PROVE  Fit(e)'
      <3>1. inbox'[e] = Swept[e] /\ ghost'.admitted[e] = ghost.admitted[e]
        BY <1>1, <1>3, <2>4, <2>7 DEF IInv
      <3> QED BY <3>1, <2>2, <2>4, SweepFits DEF Fit, FitRow, Active, Budget
    <2> QED BY <1>3, <2>4, <2>5, <2>6, <2>7 DEF IInv, Admit
  <1> QED BY <1>2, <1>3 DEF Admit, AdmitFull

\* The claim of a batch.
LEMMA ClaimFits ==
    ASSUME IInv, ClaimPending
    PROVE  IInv'
  <1> USE InboxAssumption
  <1>1. PICK S \in Choices(Swept) :
          LET claims == {d \in S : Swept[d].body} IN
          /\ inbox' = [d \in Delivery |->
               IF d \in claims THEN Claimed(d, Swept[d])
               ELSE IF d \in S THEN Parked(Swept[d]) ELSE Swept[d]]
          /\ drain' = [drain EXCEPT !.looked = TRUE, !.batch = [d \in Delivery |->
               IF d \in claims THEN [state |-> "queued", call |-> 0] ELSE NoItem]]
          /\ ghost' = [ghost EXCEPT !.handed =
               [d \in Delivery |-> IF d \in claims THEN @[d] + 1 ELSE @[d]]]
    BY DEF ClaimPending
  <1> DEFINE claims == {d \in S : Swept[d].body}
  <1>2. \A d \in S : d \in Delivery /\ Swept[d].status = "pending"
    BY DEF Choices, Claimable
  <1>3. drain' \in [running: BOOLEAN, looked: BOOLEAN, batch: [Delivery -> Item]]
    BY <1>1, Items DEF IInv
  <1>4. /\ ghost' \in [admitted: [Delivery -> Nat], handed: [Delivery -> Nat],
                        receipted: SUBSET Delivery]
        /\ ghost'.admitted = ghost.admitted
        /\ ghost'.handed =
             [d \in Delivery |-> IF d \in claims THEN ghost.handed[d] + 1 ELSE ghost.handed[d]]
    BY <1>1 DEF IInv
  <1>5. UNCHANGED <<instance, alarm, stray, intake, slack>>
    BY DEF ClaimPending
  <1>6. ASSUME NEW d \in Delivery
        PROVE  Fit(d)'
    <2>1. slack[d] \in -1..(Window + 1) /\ instance \in 0..MaxRestarts
      BY DEF IInv
    <2>2. FitRow(d, Swept[d], slack[d], ghost.admitted[d], ghost.handed[d])
      BY SweepFits
    <2>3. CASE d \in claims
      <3>1. inbox'[d] = Claimed(d, Swept[d]) /\ ghost'.handed[d] = ghost.handed[d] + 1
        BY <1>1, <1>4, <2>3
      <3>2. FitRow(d, Claimed(d, Swept[d]), slack[d], ghost.admitted[d], ghost.handed[d] + 1)
        BY <1>2, <2>1, <2>2, <2>3, ClaimedFits
      <3> QED BY <1>4, <1>5, <3>1, <3>2 DEF Fit, FitRow, Active, Budget
    <2>4. CASE d \in S /\ d \notin claims
      <3>1. inbox'[d] = Parked(Swept[d]) /\ ghost'.handed[d] = ghost.handed[d]
        BY <1>1, <1>4, <2>4
      <3>2. FitRow(d, Parked(Swept[d]), slack[d], ghost.admitted[d], ghost.handed[d])
        BY <1>2, <2>1, <2>2, <2>4, EndedFits DEF Parked, Active
      <3> QED BY <1>4, <1>5, <3>1, <3>2 DEF Fit, FitRow, Active, Budget
    <2>5. CASE d \notin S
      <3>1. inbox'[d] = Swept[d] /\ ghost'.handed[d] = ghost.handed[d]
        BY <1>1, <1>4, <2>5
      <3> QED BY <1>4, <1>5, <2>2, <3>1 DEF Fit, FitRow, Active, Budget
    <2> QED BY <2>3, <2>4, <2>5
  <1>7. inbox' \in [Delivery -> Row]
    <2>1. ASSUME NEW d \in Delivery
          PROVE  inbox'[d] \in Row
      BY <1>6 DEF Fit, FitRow, Row, Status
    <2> QED BY <1>1, <2>1
  <1> QED BY <1>3, <1>4, <1>5, <1>6, <1>7 DEF IInv

\* Setting the outcome of a delivery, or of the whole batch.
LEMMA OutcomeFits ==
    ASSUME IInv, NoClient \/ \E d \in Delivery : Processed(d)
    PROVE  IInv'
  <1> USE InboxAssumption
  <1>1. \A d \in Delivery :
          /\ slack[d] \in -1..(Window + 1)
          /\ FitRow(d, inbox[d], slack[d], ghost.admitted[d], ghost.handed[d])
    BY DEF IInv, Fit
  <1>2. CASE NoClient
    <2>1. \A d \in Delivery :
            FitRow(d, inbox'[d], slack[d], ghost.admitted[d], ghost.handed[d])
      <3>1. 0 \in Nat
        OBVIOUS
      <3> QED BY <1>1, <1>2, <3>1, ReturnedFits DEF NoClient
    <2>2. UNCHANGED <<instance, alarm, stray, intake, slack, ghost>>
      BY <1>2 DEF NoClient
    <2>3. drain' \in [running: BOOLEAN, looked: BOOLEAN, batch: [Delivery -> Item]]
      BY <1>2, Items DEF NoClient, IInv
    <2>4. \A d \in Delivery : Fit(d)'
      BY <2>1, <2>2 DEF Fit, FitRow, Active, Budget
    <2>5. inbox' \in [Delivery -> Row]
      <3>1. \A d \in Delivery : inbox'[d] \in Row
        BY <2>1 DEF FitRow
      <3> QED BY <1>2, <3>1 DEF NoClient
    <2> QED BY <2>2, <2>3, <2>4, <2>5 DEF IInv
  <1>3. ASSUME NEW d \in Delivery, Processed(d)
        PROVE  IInv'
    <2>1. PICK row : /\ inbox' = [inbox EXCEPT ![d] = row]
                     /\ FitRow(d, row, slack[d], ghost.admitted[d], ghost.handed[d])
      <3>1. CASE Complete(d)
        BY <3>1, <1>1, EndedFits DEF Complete, Active
      <3>2. CASE MarkRecoveryRequired(d)
        BY <3>2, <1>1, EndedFits DEF MarkRecoveryRequired, Parked
      <3>3. ASSUME NEW delay \in {0, Backoff}, RetryOrRecover(d, delay)
            PROVE  /\ inbox' = [inbox EXCEPT ![d] = Returned(inbox[d], delay)]
                   /\ FitRow(d, Returned(inbox[d], delay), slack[d],
                             ghost.admitted[d], ghost.handed[d])
        <4>1. delay \in Nat
          OBVIOUS
        <4> QED BY <3>3, <4>1, <1>1, ReturnedFits DEF RetryOrRecover
      <3> QED BY <1>3, <3>1, <3>2, <3>3 DEF Processed
    <2>2. UNCHANGED <<instance, alarm, stray, intake, slack, ghost>>
      BY <1>3 DEF Processed
    <2>3. drain' \in [running: BOOLEAN, looked: BOOLEAN, batch: [Delivery -> Item]]
      BY <1>3, Items, SetItemKeepsShape DEF Processed
    <2>4. row \in Row /\ inbox \in [Delivery -> Row]
      BY <2>1 DEF FitRow, IInv
    <2>5. \A e \in Delivery : Fit(e)'
      BY <1>1, <2>1, <2>2, <2>4 DEF Fit, FitRow, Active, Budget
    <2> QED BY <2>1, <2>2, <2>3, <2>4, <2>5 DEF IInv
  <1> QED BY <1>2, <1>3

\* The passage of time: a row ages no faster than its event.
LEMMA TickFits ==
    ASSUME IInv, Tick
    PROVE  IInv'
  <1> USE InboxAssumption
  <1>1. \A n \in 0..Horizon : Later(n) \in 0..Horizon /\ Later(n) <= n + 1
    BY DEF Later
  <1>2. /\ \A n \in Nat : Sooner(n) \in Nat
        /\ \A n \in 0..CallTime : Sooner(n) \in 0..CallTime
        /\ Sooner(0) = 0
    BY DEF Sooner
  <1>3. UNCHANGED <<instance, alarm, intake, ghost>>
    BY DEF Tick
  <1>4. drain' \in [running: BOOLEAN, looked: BOOLEAN, batch: [Delivery -> Item]]
    <2>1. \A d \in Delivery : [drain.batch[d] EXCEPT !.call = Sooner(@)] \in Item
      BY <1>2 DEF IInv, Item
    <2>2. drain' = [drain EXCEPT !.batch =
                      [d \in Delivery |-> [drain.batch[d] EXCEPT !.call = Sooner(@)]]]
      BY DEF Tick
    <2> QED BY <2>1, <2>2 DEF IInv
  <1>5. stray' \in [Delivery -> 0..CallTime]
    BY <1>2 DEF Tick, IInv
  <1>6. slack' \in [Delivery -> -1..(Window + 1)]
    <2>1. \A n \in -1..(Window + 1) :
            (IF n \in 0..Window THEN n + 1 ELSE n) \in -1..(Window + 1)
      OBVIOUS
    <2>2. slack' = [d \in Delivery |->
                      IF slack[d] \in 0..Window THEN slack[d] + 1 ELSE slack[d]]
      BY DEF Tick
    <2>3. slack \in [Delivery -> -1..(Window + 1)]
      BY DEF IInv
    <2> QED BY <2>1, <2>2, <2>3
  <1>7. ASSUME NEW d \in Delivery
        PROVE  FitRow(d, inbox'[d], slack'[d], ghost.admitted[d], ghost.handed[d])
    <2>1. /\ FitRow(d, inbox[d], slack[d], ghost.admitted[d], ghost.handed[d])
          /\ inbox[d] \in Row /\ slack[d] \in -1..(Window + 1)
      BY DEF IInv, Fit
    <2>2. slack'[d] = IF slack[d] \in 0..Window THEN slack[d] + 1 ELSE slack[d]
      BY DEF Tick
    <2>3. CASE inbox[d].status = "absent"
      <3>1. inbox'[d] = inbox[d]
        BY <2>3 DEF Tick
      <3> QED BY <2>1, <2>2, <2>3, <3>1 DEF FitRow
    <2>4. CASE inbox[d].status # "absent"
      <3>1. inbox'[d] = [inbox[d] EXCEPT !.age = Later(@), !.left = Sooner(@)]
        BY <2>4 DEF Tick
      <3>2. inbox[d].age \in 0..Horizon /\ inbox[d].left \in Nat
        BY <2>1 DEF Row
      <3>3. inbox'[d] \in Row
        BY <1>1, <1>2, <2>1, <3>1, <3>2 DEF Row
      <3>4. /\ inbox'[d].status = inbox[d].status
            /\ inbox'[d].body = inbox[d].body
            /\ inbox'[d].attempts = inbox[d].attempts
            /\ inbox'[d].age = Later(inbox[d].age)
            /\ inbox'[d].left = Sooner(inbox[d].left)
        BY <2>1, <3>1 DEF Row
      <3>5. inbox'[d].age \in 0..Horizon /\ inbox'[d].age <= inbox[d].age + 1
        BY <1>1, <3>2, <3>4
      <3>6. slack[d] >= 0 /\ (inbox[d].age <= slack[d] \/ slack[d] = Window + 1)
        BY <2>1, <2>4 DEF FitRow
      <3>7. slack'[d] >= 0 /\ (inbox'[d].age <= slack'[d] \/ slack'[d] = Window + 1)
        BY <2>1, <2>2, <3>2, <3>5, <3>6
      <3> QED BY <1>2, <2>1, <2>4, <3>3, <3>4, <3>7 DEF FitRow, Active
    <2> QED BY <2>3, <2>4
  <1>8. inbox' \in [Delivery -> Row]
    <2>1. \A d \in Delivery : inbox'[d] \in Row
      BY <1>7 DEF FitRow
    <2> QED BY <2>1 DEF Tick
  <1>9. \A d \in Delivery : Fit(d)'
    BY <1>3, <1>7 DEF Fit, FitRow, Active, Budget
  <1> QED BY <1>3, <1>4, <1>5, <1>6, <1>8, <1>9 DEF IInv

\* A step keeps the inductive invariant.
LEMMA StepFits == IInv /\ [Next]_vars => IInv'
  <1> SUFFICES ASSUME IInv, [Next]_vars
               PROVE  IInv'
    OBVIOUS
  <1> USE InboxAssumption
  <1>1. CASE Fire
    <2>1. \A d \in Delivery : Fit(d)'
      BY <1>1, FitUnchanged DEF Fire
    <2>2. drain' \in [running: BOOLEAN, looked: BOOLEAN, batch: [Delivery -> Item]]
      BY <1>1, Items DEF Fire
    <2> QED BY <1>1, <2>1, <2>2 DEF Fire, IInv
  <1>2. CASE ClaimPending
    BY <1>2, ClaimFits
  <1>3. CASE NoClient \/ \E d \in Delivery : Processed(d)
    BY <1>3, OutcomeFits
  <1>4. CASE EndDrain
    <2>1. \A d \in Delivery : Fit(d)'
      BY <1>4, FitUnchanged DEF EndDrain
    <2>2. drain' \in [running: BOOLEAN, looked: BOOLEAN, batch: [Delivery -> Item]]
      BY <1>4, Items DEF EndDrain
    <2> QED BY <1>4, <2>1, <2>2 DEF EndDrain, IInv, HasPending, BackingOff
  <1>5. ASSUME NEW d \in Delivery, Process(d) \/ NextCall(d)
        PROVE  IInv'
    <2>1. \A e \in Delivery : Fit(e)'
      BY <1>5, FitUnchanged DEF Process, NextCall
    <2>2. CallTime \in 0..CallTime
      OBVIOUS
    <2>3. SetItem(d, [state |-> "busy", call |-> CallTime])
      BY <1>5 DEF Process, NextCall
    <2>4. drain' \in [running: BOOLEAN, looked: BOOLEAN, batch: [Delivery -> Item]]
      BY <2>2, <2>3, Items, SetItemKeepsShape
    <2> QED BY <1>5, <2>1, <2>4 DEF Process, NextCall, IInv
  <1>6. CASE Tick
    BY <1>6, TickFits
  <1>7. CASE Replace
    <2>1. \A d \in Delivery : Fit(d)'
      BY <1>7, FitUnchanged DEF Replace
    <2>2. drain' \in [running: BOOLEAN, looked: BOOLEAN, batch: [Delivery -> Item]]
      BY <1>7, Items DEF Replace
    <2>3. instance' \in 0..MaxRestarts
      BY <1>7 DEF Replace, IInv
    <2>4. stray' \in [Delivery -> 0..CallTime]
      <3>1. \A d \in Delivery : drain.batch[d].call \in 0..CallTime
        BY DEF IInv, Item
      <3> QED BY <1>7, <3>1 DEF Replace, IInv
    <2> QED BY <1>7, <2>1, <2>2, <2>3, <2>4 DEF Replace, IInv
  <1>8. ASSUME NEW d \in Delivery, Send(d)
        PROVE  IInv'
    <2>1. slack' = [slack EXCEPT ![d] = 0] /\ slack[d] = -1
      BY <1>8 DEF Send
    <2>2. slack' \in [Delivery -> -1..(Window + 1)]
      BY <2>1 DEF IInv
    <2>3. UNCHANGED <<inbox, instance, alarm, drain, stray, intake, ghost>>
      BY <1>8 DEF Send
    <2>4. \A e \in Delivery : Fit(e)'
      BY <2>1, <2>3 DEF IInv, Fit, FitRow, Active, Row, Status, Budget
    <2> QED BY <2>2, <2>3, <2>4 DEF IInv
  <1>9. ASSUME NEW d \in Delivery, Admit(d) \/ AdmitFull(d)
        PROVE  IInv'
    BY <1>9, AdmissionFits
  <1>10. ASSUME NEW d \in Delivery, Receipt(d) \/ ReceiptFails(d)
         PROVE  IInv'
    <2>1. /\ ghost' \in [admitted: [Delivery -> Nat], handed: [Delivery -> Nat],
                          receipted: SUBSET Delivery]
          /\ ghost'.admitted = ghost.admitted
          /\ ghost'.handed = ghost.handed
      BY <1>10 DEF Receipt, ReceiptFails, IInv
    <2>2. \A e \in Delivery : Fit(e)'
      BY <1>10, <2>1 DEF IInv, Fit, FitRow, Active, Budget, Receipt, ReceiptFails
    <2> QED BY <1>10, <2>1, <2>2 DEF Receipt, ReceiptFails, IInv
  <1>11. CASE UNCHANGED vars
    <2>1. \A d \in Delivery : Fit(d)'
      BY <1>11, FitUnchanged DEF vars
    <2> QED BY <1>11, <2>1 DEF vars, IInv
  <1> QED BY <1>1, <1>2, <1>3, <1>4, <1>5, <1>6, <1>7, <1>8, <1>9, <1>10, <1>11
          DEF Next, Drain

\* Every behaviour of the inbox keeps every row fit.
THEOREM InboxInvariance == Spec => []IInv
  BY InitFits, StepFits, PTL DEF Spec

-----------------------------------------------------------------------------
(* The properties *)

\* The rows of the inbox and the state of its drain keep their shape.
THEOREM InboxTypeCorrect == Spec => []InboxTypeOK
  <1>1. IInv => InboxTypeOK
    BY DEF IInv, InboxTypeOK, Fit, FitRow
  <1> QED BY <1>1, InboxInvariance, PTL

\* While Slack may send an event again, it is admitted once.
THEOREM OneAdmission == Spec => []AdmittedOnce
  <1>1. IInv => AdmittedOnce
    BY DEF IInv, AdmittedOnce, Fit, FitRow
  <1> QED BY <1>1, InboxInvariance, PTL

\* An event is handed out within its budget, a key at most once.
THEOREM BudgetHolds == Spec => []HandedWithinBudget
  <1>1. IInv => HandedWithinBudget
    <2> SUFFICES ASSUME IInv, NEW d \in Delivery
                 PROVE  ghost.handed[d] <= Budget(d)
      BY DEF HandedWithinBudget, Budget
    <2>1. ghost.handed[d] \in 0..Budget(d)
      BY DEF IInv, Fit, FitRow
    <2> QED BY <2>1, InboxAssumption DEF Budget
  <1> QED BY <1>1, InboxInvariance, PTL

-----------------------------------------------------------------------------
(* The overlap of a replaced instance's call with the next claim *)

\* A call that outlives its instance began with a claim that is at most as old:
\* the row is still claimed by that instance, or has ended for good.
Orphaned(d, row) ==
    \/ ~Active(row)
    \/ row.status = "in_flight" /\ row.owner < instance /\ row.left = Lease - CallTime + stray[d]

\* A delivery in the batch is claimed by this instance, or its lease is over.
Held(row) == row.left = 0 \/ (row.status = "in_flight" /\ row.owner = instance)

OverlapFits(d) ==
    /\ drain.batch[d].state = "none" => drain.batch[d].call = 0
    /\ drain.batch[d].state # "none" =>
         stray[d] = 0 /\ ghost.admitted[d] # 0 /\ Held(inbox[d])
    /\ stray[d] > 0 => ghost.admitted[d] # 0 /\ Orphaned(d, inbox[d])

OverlapInv == IInv /\ \A d \in Delivery : OverlapFits(d)

\* A sweep ends no claim within its grace and revives no row that has ended.
LEMMA SweepSpares ==
    ASSUME IInv, NEW d \in Delivery
    PROVE  /\ Held(inbox[d]) => Held(Swept[d])
           /\ stray[d] > 0 /\ Orphaned(d, inbox[d]) => Orphaned(d, Swept[d])
  <1> DEFINE leases == IF LeaseOver(inbox[d]) THEN Reclaimed(inbox[d]) ELSE inbox[d]
             keys == IF leases.status = "pending" /\ d \in KeyForm /\ leases.body
                        /\ leases.age > Lease
                     THEN Parked(leases) ELSE leases
             aged == IF Active(keys) /\ keys.age > ActiveAge THEN Parked(keys) ELSE keys
             G(row) == row \in Row /\ (Held(inbox[d]) => Held(row))
                       /\ (stray[d] > 0 /\ Orphaned(d, inbox[d]) => Orphaned(d, row))
  <1> USE InboxAssumption
  <1>1. Swept[d] = Purged(aged)
    BY DEF Swept, Maintained
  <1>2. inbox[d] \in Row /\ stray[d] \in 0..CallTime /\ instance \in Nat
    BY DEF IInv
  <1>3. ASSUME NEW row \in Row
        PROVE  /\ Parked(row) \in Row /\ Parked(row).left = 0 /\ ~Active(Parked(row))
    <2>1. "recovery_required" \in Status
      BY DEF Status
    <2>2. Parked(row) \in Row
      BY <2>1, RowUpdates DEF Parked
    <2>3. Parked(row).left = 0 /\ Parked(row).status = "recovery_required"
      BY DEF Parked, Ended, Row
    <2> QED BY <2>2, <2>3 DEF Active
  <1>4. G(leases)
    <2>1. CASE ~LeaseOver(inbox[d])
      BY <1>2, <2>1
    <2>2. CASE LeaseOver(inbox[d])
      <3>1. Reclaimed(inbox[d]) \in Row /\ Reclaimed(inbox[d]).left = 0
        <4>1. CASE inbox[d].attempts >= MaxAttempts
          BY <1>2, <1>3, <4>1 DEF Reclaimed
        <4>2. CASE ~(inbox[d].attempts >= MaxAttempts)
          <5>1. Reclaimed(inbox[d]) = [inbox[d] EXCEPT !.status = "pending", !.left = 0]
            BY <4>2 DEF Reclaimed
          <5>2. Reclaimed(inbox[d]) \in Row
            BY <1>2, <5>1, RowUpdates
          <5>3. Reclaimed(inbox[d]).left = 0
            BY <1>2, <5>1 DEF Row
          <5> QED BY <5>2, <5>3
        <4> QED BY <4>1, <4>2
      <3>2. ~(stray[d] > 0 /\ Orphaned(d, inbox[d]))
        <4> SUFFICES ASSUME stray[d] > 0, Orphaned(d, inbox[d]) PROVE FALSE
          OBVIOUS
        <4>1. inbox[d].status = "in_flight" /\ inbox[d].left = Lease - CallTime + stray[d]
          BY <2>2 DEF Orphaned, LeaseOver, Active
        <4>2. Lease \in Nat /\ CallTime \in Nat /\ Grace \in Nat /\ CallTime <= Grace /\ Grace <= Lease
          OBVIOUS
        <4>3. inbox[d].left > 0 /\ ~(inbox[d].left <= Lease - Grace)
          BY <1>2, <4>1, <4>2
        <4> QED BY <2>2, <4>3 DEF LeaseOver
      <3> QED BY <2>2, <3>1, <3>2 DEF Held
    <2> QED BY <2>1, <2>2
  <1>5. ASSUME NEW row, G(row) PROVE G(Parked(row))
    BY <1>3, <1>5 DEF Held, Orphaned
  <1> HIDE DEF leases
  <1>6. G(keys)
    BY <1>4, <1>5
  <1> HIDE DEF keys
  <1>7. G(aged)
    BY <1>5, <1>6
  <1> HIDE DEF aged
  <1>8. NoRow.left = 0 /\ ~Active(NoRow)
    BY DEF NoRow, Active
  <1> QED BY <1>1, <1>7, <1>8 DEF Purged, Held, Orphaned

\* What a delivery that is neither claimed nor released keeps.
LEMMA OverlapKept ==
    ASSUME OverlapInv, NEW d \in Delivery,
           drain'.batch[d] = drain.batch[d], stray' = stray, instance' = instance,
           ghost'.admitted[d] # 0 \/ ghost'.admitted[d] = ghost.admitted[d],
           inbox'[d] = inbox[d] \/ inbox'[d] = Swept[d]
    PROVE  OverlapFits(d)'
  <1>1. OverlapFits(d) /\ IInv
    BY DEF OverlapInv
  <1>2. Held(inbox[d]) => Held(inbox[d])'
    <2>1. Held(inbox[d]) => Held(inbox'[d])
      BY <1>1, SweepSpares
    <2> QED BY <2>1 DEF Held
  <1>3. stray[d] > 0 /\ Orphaned(d, inbox[d]) => Orphaned(d, inbox[d])'
    <2>1. stray[d] > 0 /\ Orphaned(d, inbox[d]) => Orphaned(d, inbox'[d])
      BY <1>1, SweepSpares
    <2> QED BY <2>1 DEF Orphaned
  <1> QED BY <1>1, <1>2, <1>3 DEF OverlapFits

LEMMA AdmissionOverlap ==
    ASSUME OverlapInv, NEW d \in Delivery, Admit(d) \/ AdmitFull(d)
    PROVE  \A e \in Delivery : OverlapFits(e)'
  <1>1. /\ UNCHANGED <<instance, drain, stray>> /\ IInv
        /\ slack[d] \in 0..Window
    BY DEF Admit, AdmitFull, OverlapInv
  <1>2. CASE inbox' = Swept /\ UNCHANGED ghost
    BY <1>1, <1>2, OverlapKept
  <1>3. CASE /\ Admit(d) /\ Swept[d].status = "absent"
             /\ inbox' = [Swept EXCEPT ![d] = [NoRow EXCEPT !.status = "pending", !.body = TRUE]]
             /\ ghost' = [ghost EXCEPT !.admitted[d] = @ + 1]
    <2>1. ghost.admitted[d] = 0
      <3>1. FitRow(d, Swept[d], slack[d], ghost.admitted[d], ghost.handed[d])
        BY <1>1, SweepFits
      <3> QED BY <1>1, <1>3, <3>1, InboxAssumption DEF FitRow
    <2>2. \A e \in Delivery : e # d => ghost'.admitted[e] = ghost.admitted[e] /\ inbox'[e] = Swept[e]
      BY <1>1, <1>3 DEF IInv, Swept
    <2>3. OverlapFits(d)'
      <3>1. OverlapFits(d)
        BY DEF OverlapInv
      <3>2. drain.batch[d].state = "none" /\ ~(stray[d] > 0)
        BY <2>1, <3>1 DEF OverlapFits
      <3> QED BY <1>1, <3>1, <3>2 DEF OverlapFits
    <2>4. ASSUME NEW e \in Delivery, e # d PROVE OverlapFits(e)'
      BY <1>1, <2>2, <2>4, OverlapKept
    <2> QED BY <2>3, <2>4
  <1> QED BY <1>2, <1>3 DEF Admit, AdmitFull

\* What is claimed waits: nobody is processing it any more.
LEMMA ClaimOverlap ==
    ASSUME OverlapInv, ClaimPending
    PROVE  \A d \in Delivery : OverlapFits(d)'
  <1> SUFFICES ASSUME NEW d \in Delivery PROVE OverlapFits(d)'
    OBVIOUS
  <1>0. /\ IInv /\ OverlapFits(d) /\ Batch = {} /\ UNCHANGED <<instance, stray>>
        /\ drain \in [running: BOOLEAN, looked: BOOLEAN, batch: [Delivery -> Item]]
        /\ stray[d] \in 0..CallTime
    BY DEF OverlapInv, ClaimPending, IInv
  <1>1. PICK S \in Choices(Swept) :
          LET claims == {e \in S : Swept[e].body} IN
          /\ inbox' = [e \in Delivery |->
               IF e \in claims THEN Claimed(e, Swept[e])
               ELSE IF e \in S THEN Parked(Swept[e]) ELSE Swept[e]]
          /\ drain' = [drain EXCEPT !.looked = TRUE, !.batch = [e \in Delivery |->
               IF e \in claims THEN [state |-> "queued", call |-> 0] ELSE NoItem]]
          /\ ghost' = [ghost EXCEPT !.handed =
               [e \in Delivery |-> IF e \in claims THEN @[e] + 1 ELSE @[e]]]
    BY DEF ClaimPending
  <1> DEFINE claims == {e \in S : Swept[e].body}
  <1>2. ghost'.admitted = ghost.admitted
    BY <1>0, <1>1 DEF IInv
  <1>3. drain'.batch[d] = IF d \in claims THEN [state |-> "queued", call |-> 0] ELSE NoItem
    BY <1>0, <1>1
  <1>4. inbox'[d] = IF d \in claims THEN Claimed(d, Swept[d])
                    ELSE IF d \in S THEN Parked(Swept[d]) ELSE Swept[d]
    BY <1>1
  <1>5. FitRow(d, Swept[d], slack[d], ghost.admitted[d], ghost.handed[d])
    BY <1>0, SweepFits
  <1>6. drain.batch[d].state = "none"
    BY <1>0 DEF Batch
  <1>7. d \in S => Swept[d].status = "pending"
    BY DEF Choices, Claimable
  <1>8. d \in S => ghost.admitted[d] # 0 /\ stray[d] = 0
    <2>1. d \in S => ~Orphaned(d, Swept[d])
      BY <1>7 DEF Orphaned, Active
    <2>2. d \in S => ~(stray[d] > 0)
      BY <1>0, <2>1, SweepSpares DEF OverlapFits
    <2>3. d \in S => ghost.admitted[d] # 0
      BY <1>5, <1>7 DEF FitRow
    <2> QED BY <1>0, <2>2, <2>3
  <1> HIDE DEF claims
  <1>9. CASE d \in claims
    <2>1. d \in S
      BY <1>9 DEF claims
    <2>2. Claimed(d, Swept[d]).status = "in_flight" /\ Claimed(d, Swept[d]).owner = instance
      BY <1>5 DEF FitRow, Claimed, Row
    <2>3. Held(inbox[d])'
      BY <1>0, <1>4, <1>9, <2>2 DEF Held
    <2> QED BY <1>0, <1>2, <1>3, <1>8, <1>9, <2>1, <2>3 DEF OverlapFits
  <1>10. CASE d \notin claims
    <2>1. drain'.batch[d].state = "none" /\ drain'.batch[d].call = 0
      BY <1>3, <1>10 DEF NoItem
    <2>2. CASE d \in S
      BY <1>0, <1>8, <2>1, <2>2, InboxAssumption DEF OverlapFits
    <2>3. CASE d \notin S
      <3>1. stray[d] > 0 => Orphaned(d, inbox[d])'
        <4>1. stray[d] > 0 => Orphaned(d, Swept[d])
          BY <1>0, SweepSpares DEF OverlapFits
        <4>2. inbox'[d] = Swept[d]
          BY <1>4, <1>10, <2>3
        <4> QED BY <1>0, <4>1, <4>2 DEF Orphaned
      <3> QED BY <1>0, <1>2, <2>1, <3>1 DEF OverlapFits
    <2> QED BY <2>2, <2>3
  <1> QED BY <1>9, <1>10

\* A delivery that the drain lets go of, with its outcome or untouched.
LEMMA ReleaseOverlap ==
    ASSUME OverlapInv, NEW d \in Delivery,
           drain'.batch[d] = NoItem, UNCHANGED <<instance, stray, ghost>>,
           drain.batch[d].state # "none" \/ inbox'[d] = inbox[d]
    PROVE  OverlapFits(d)'
  <1>1. OverlapFits(d) /\ stray[d] \in 0..CallTime
    BY DEF OverlapInv, IInv
  <1>2. drain'.batch[d].state = "none" /\ drain'.batch[d].call = 0
    BY DEF NoItem
  <1>3. CASE drain.batch[d].state # "none"
    BY <1>1, <1>2, <1>3, InboxAssumption DEF OverlapFits
  <1>4. CASE inbox'[d] = inbox[d]
    BY <1>1, <1>2, <1>4 DEF OverlapFits, Orphaned
  <1> QED BY <1>3, <1>4

LEMMA OutcomeOverlap ==
    ASSUME OverlapInv, NoClient \/ \E d \in Delivery : Processed(d)
    PROVE  \A e \in Delivery : OverlapFits(e)'
  <1> SUFFICES ASSUME NEW e \in Delivery PROVE OverlapFits(e)'
    OBVIOUS
  <1>1. /\ drain \in [running: BOOLEAN, looked: BOOLEAN, batch: [Delivery -> Item]]
        /\ inbox \in [Delivery -> Row]
    BY DEF OverlapInv, IInv
  <1>2. CASE NoClient
    <2>1. drain'.batch[e] = NoItem /\ UNCHANGED <<instance, stray, ghost>>
      BY <1>1, <1>2 DEF NoClient
    <2>2. drain.batch[e].state # "none" \/ inbox'[e] = inbox[e]
      BY <1>2 DEF NoClient, Batch
    <2> QED BY <2>1, <2>2, ReleaseOverlap
  <1>3. ASSUME NEW d \in Delivery, Processed(d)
        PROVE  OverlapFits(e)'
    <2>1. UNCHANGED <<instance, stray, ghost>> /\ drain.batch[d].state = "busy"
      BY <1>3 DEF Processed
    <2>2. CASE e = d
      <3>1. drain'.batch[e] = NoItem
        BY <1>1, <1>3, <2>2 DEF Processed, SetItem
      <3> QED BY <2>1, <2>2, <3>1, ReleaseOverlap
    <2>3. CASE e # d
      <3>1. drain'.batch[e] = drain.batch[e]
        BY <1>1, <1>3, <2>3 DEF Processed, SetItem
      <3>2. inbox'[e] = inbox[e]
        BY <1>1, <1>3, <2>3 DEF Processed, Complete, MarkRecoveryRequired, RetryOrRecover
      <3> QED BY <2>1, <3>1, <3>2, OverlapKept
    <2> QED BY <2>2, <2>3
  <1> QED BY <1>2, <1>3

\* A call begins for a delivery of the batch.
LEMMA CallOverlap ==
    ASSUME OverlapInv, NEW d \in Delivery, Process(d) \/ NextCall(d)
    PROVE  \A e \in Delivery : OverlapFits(e)'
  <1> SUFFICES ASSUME NEW e \in Delivery PROVE OverlapFits(e)'
    OBVIOUS
  <1>1. /\ drain \in [running: BOOLEAN, looked: BOOLEAN, batch: [Delivery -> Item]]
        /\ UNCHANGED <<inbox, instance, stray, ghost>>
        /\ SetItem(d, [state |-> "busy", call |-> CallTime])
        /\ drain.batch[d].state # "none"
    BY DEF OverlapInv, IInv, Process, NextCall
  <1>2. CASE e = d
    <2>1. drain'.batch[e].state = "busy"
      BY <1>1, <1>2 DEF SetItem
    <2> QED BY <1>1, <1>2, <2>1 DEF OverlapInv, OverlapFits, Held, Orphaned
  <1>3. CASE e # d
    <2>1. drain'.batch[e] = drain.batch[e]
      BY <1>1, <1>3 DEF SetItem
    <2> QED BY <1>1, <2>1, OverlapKept
  <1> QED BY <1>2, <1>3

\* The alarm fires or its drain ends: the batch is empty before and after.
LEMMA AlarmOverlap ==
    ASSUME OverlapInv, Fire \/ EndDrain
    PROVE  \A e \in Delivery : OverlapFits(e)'
  <1> SUFFICES ASSUME NEW e \in Delivery PROVE OverlapFits(e)'
    OBVIOUS
  <1>1. drain'.batch[e] = NoItem /\ UNCHANGED <<inbox, instance, stray, ghost>>
    BY DEF Fire, EndDrain, NoDrain
  <1> QED BY <1>1, ReleaseOverlap

\* Time: the lease of an orphaned claim and the call that began with it run out
\* together.
LEMMA TickOverlap ==
    ASSUME OverlapInv, Tick
    PROVE  \A d \in Delivery : OverlapFits(d)'
  <1> SUFFICES ASSUME NEW d \in Delivery PROVE OverlapFits(d)'
    OBVIOUS
  <1> USE InboxAssumption
  <1>1. /\ OverlapFits(d) /\ inbox[d] \in Row /\ stray[d] \in 0..CallTime
        /\ drain \in [running: BOOLEAN, looked: BOOLEAN, batch: [Delivery -> Item]]
        /\ UNCHANGED <<instance, ghost>>
    BY DEF OverlapInv, IInv, Tick
  <1>2. /\ drain'.batch[d].state = drain.batch[d].state
        /\ drain'.batch[d].call = Sooner(drain.batch[d].call)
    <2>1. drain'.batch[d] = [drain.batch[d] EXCEPT !.call = Sooner(@)]
      BY <1>1 DEF Tick
    <2>2. drain.batch[d] \in Item
      BY <1>1
    <2> QED BY <2>1, <2>2 DEF Item
  <1>3. stray'[d] = Sooner(stray[d])
    BY DEF Tick
  <1>4. /\ inbox'[d].status = inbox[d].status /\ inbox'[d].owner = inbox[d].owner
        /\ inbox'[d].left = Sooner(inbox[d].left)
           \/ (inbox[d].status = "absent" /\ inbox'[d].left = inbox[d].left)
    BY <1>1 DEF Tick, Row
  <1>5. Held(inbox[d]) => Held(inbox[d])'
    <2>1. inbox[d].left = 0 => inbox'[d].left = 0
      BY <1>4 DEF Sooner
    <2> QED BY <1>1, <1>4, <2>1 DEF Held
  <1>6. stray'[d] > 0 => stray[d] > 0 /\ stray'[d] = stray[d] - 1
    BY <1>1, <1>3 DEF Sooner
  <1>7. ASSUME stray'[d] > 0
        PROVE  Orphaned(d, inbox[d])'
    <2>1. Orphaned(d, inbox[d])
      BY <1>1, <1>6, <1>7 DEF OverlapFits
    <2>2. CASE ~Active(inbox[d])
      BY <1>4, <2>2 DEF Orphaned, Active
    <2>3. CASE /\ inbox[d].status = "in_flight" /\ inbox[d].owner < instance
               /\ inbox[d].left = Lease - CallTime + stray[d]
      <3>1. inbox[d].left > 0 /\ inbox'[d].left = Sooner(inbox[d].left)
        BY <1>1, <1>4, <1>6, <1>7, <2>3
      <3>2. inbox'[d].left = Lease - CallTime + stray'[d]
        BY <1>1, <1>6, <1>7, <2>3, <3>1 DEF Sooner
      <3> QED BY <1>1, <1>4, <2>3, <3>2 DEF Orphaned
    <2> QED BY <2>1, <2>2, <2>3 DEF Orphaned
  <1>8. stray[d] = 0 => stray'[d] = 0
    BY <1>3 DEF Sooner
  <1>9. drain.batch[d].call = 0 => drain'.batch[d].call = 0
    BY <1>2 DEF Sooner
  <1> QED BY <1>1, <1>2, <1>5, <1>6, <1>7, <1>8, <1>9 DEF OverlapFits

\* The instance is replaced: a call that began with its claim is left behind
\* with the claim, and what was left behind before is older still.
LEMMA ReplaceOverlap ==
    ASSUME OverlapInv, Replace
    PROVE  \A d \in Delivery : OverlapFits(d)'
  <1> SUFFICES ASSUME NEW d \in Delivery PROVE OverlapFits(d)'
    OBVIOUS
  <1> USE InboxAssumption
  <1>1. /\ OverlapFits(d) /\ inbox[d] \in Row /\ stray[d] \in 0..CallTime
        /\ drain.batch[d].call \in 0..CallTime
        /\ UNCHANGED <<inbox, ghost>> /\ instance \in Nat /\ instance' = instance + 1
    BY DEF OverlapInv, IInv, Replace, Item
  <1>2. drain'.batch[d].state = "none" /\ drain'.batch[d].call = 0
    BY DEF Replace, NoDrain, NoItem
  <1>3. stray'[d] = IF BegunWithClaim(d) /\ drain.batch[d].call > stray[d]
                    THEN drain.batch[d].call ELSE stray[d]
    BY DEF Replace
  <1>4. CASE BegunWithClaim(d) /\ drain.batch[d].call > stray[d]
    <2>1. stray'[d] = drain.batch[d].call /\ drain.batch[d].call > 0
      BY <1>1, <1>3, <1>4
    <2>2. drain.batch[d].state # "none" /\ ghost.admitted[d] # 0 /\ Held(inbox[d])
      BY <1>1, <2>1 DEF OverlapFits
    <2>3. inbox[d].left = Lease - CallTime + stray'[d] /\ inbox[d].left > 0
      BY <1>1, <1>4, <2>1 DEF BegunWithClaim, Row
    <2>4. inbox[d].status = "in_flight" /\ inbox[d].owner = instance
      BY <2>2, <2>3 DEF Held
    <2>5. Orphaned(d, inbox[d])'
      BY <1>1, <2>3, <2>4 DEF Orphaned
    <2> QED BY <1>1, <1>2, <2>2, <2>5 DEF OverlapFits
  <1>5. CASE ~(BegunWithClaim(d) /\ drain.batch[d].call > stray[d])
    <2>1. stray'[d] = stray[d]
      BY <1>3, <1>5
    <2>2. Orphaned(d, inbox[d]) => Orphaned(d, inbox[d])'
      BY <1>1, <2>1 DEF Orphaned, Row
    <2> QED BY <1>1, <1>2, <2>1, <2>2 DEF OverlapFits
  <1> QED BY <1>4, <1>5

LEMMA OverlapInit == Init => OverlapInv
  <1> SUFFICES ASSUME Init PROVE \A d \in Delivery : OverlapFits(d)
    BY InitFits DEF OverlapInv
  <1> QED BY DEF Init, OverlapFits, NoDrain, NoItem

LEMMA OverlapStep == OverlapInv /\ [Next]_vars => OverlapInv'
  <1> SUFFICES ASSUME OverlapInv, [Next]_vars
               PROVE  \A d \in Delivery : OverlapFits(d)'
    BY StepFits DEF OverlapInv
  <1>1. CASE ClaimPending
    BY <1>1, ClaimOverlap
  <1>2. CASE NoClient \/ \E d \in Delivery : Processed(d)
    BY <1>2, OutcomeOverlap
  <1>3. CASE Fire \/ EndDrain
    BY <1>3, AlarmOverlap
  <1>4. CASE \E d \in Delivery : Process(d) \/ NextCall(d)
    BY <1>4, CallOverlap
  <1>5. CASE Tick
    BY <1>5, TickOverlap
  <1>6. CASE Replace
    BY <1>6, ReplaceOverlap
  <1>7. CASE \E d \in Delivery : Admit(d) \/ AdmitFull(d)
    BY <1>7, AdmissionOverlap
  <1>8. CASE \/ \E d \in Delivery : Send(d) \/ Receipt(d) \/ ReceiptFails(d)
             \/ UNCHANGED vars
    <2>1. /\ UNCHANGED <<inbox, instance, drain, stray>>
          /\ ghost'.admitted = ghost.admitted
      BY <1>8 DEF Send, Receipt, ReceiptFails, vars, OverlapInv, IInv
    <2> QED BY <2>1, OverlapKept
  <1> QED BY <1>1, <1>2, <1>3, <1>4, <1>5, <1>6, <1>7, <1>8 DEF Next, Drain

\* The grace of an orphaned claim covers the call that a replaced instance began
\* with it: no delivery is processed again while such a call may still complete.
THEOREM OverlapIsCovered == Spec => []OverlapCovered
  <1>1. OverlapInv => OverlapCovered
    BY DEF OverlapInv, OverlapFits, OverlapCovered
  <1> QED BY <1>1, OverlapInit, OverlapStep, PTL DEF Spec
============================================================================
