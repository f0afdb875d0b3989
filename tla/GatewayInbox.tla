---------------------------- MODULE GatewayInbox ----------------------------
(***************************************************************************)
(* The durable inbox of gateway deliveries (src/slack/gateway/inbox.ts) and *)
(* the drain that empties it from the state object's alarm                 *)
(* (drainGatewayInbox in src/cloudflare.ts).                               *)
(*                                                                         *)
(* Every operation of the inbox is one synchronous turn of the state       *)
(* object.  The object's instance may be replaced between any two turns:   *)
(* it loses its storage at once, so nothing it was doing is ever written,  *)
(* but a network call it was awaiting goes on.                             *)
(*                                                                         *)
(* Instants are kept as the time since (age, of a row accepted or ended)   *)
(* or until (left, of a lease or a backoff), which is all the code         *)
(* compares; ages beyond Horizon are told apart by no comparison.          *)
(***************************************************************************)
EXTENDS Integers, FiniteSets

CONSTANTS
    Delivery,      \* delivery ids
    KeyForm,       \* those that carry an Add key form's key
    Conversation,  \* the conversation each belongs to
    MaxActive, MaxInFlight, MaxAttempts,       \* limits
    Lease, Grace, ActiveAge, Retention,        \* times of the inbox
    Backoff,       \* retry delay after a retryable dependency failure
    CallTime,      \* how long one network call may take
    Window,        \* how long Slack retries an event
    Horizon,       \* bound on ages
    MaxRestarts    \* bound on replaced instances

ASSUME InboxAssumption ==
    /\ KeyForm \subseteq Delivery
    /\ MaxActive \in Nat \ {0} /\ MaxInFlight \in 1..MaxActive /\ MaxAttempts \in Nat \ {0}
    /\ Lease \in Nat \ {0} /\ Grace \in 1..Lease /\ Backoff \in Nat
    /\ CallTime \in 1..Grace
    /\ ActiveAge \in Nat /\ Retention \in Nat /\ Window \in 0..Retention
    /\ Horizon \in Nat /\ \A age \in {Lease, ActiveAge, Retention} : age < Horizon
    /\ MaxRestarts \in Nat

VARIABLES
    inbox,     \* the rows of gateway_inbox
    instance,  \* the instance of the state object
    alarm,     \* the object's alarm is set
    drain,     \* the drain of the running alarm and what it does with its batch
    stray,     \* what is left of a call that a replaced instance began with its claim
    intake,    \* admissions that have not set the alarm yet
    slack,     \* time since Slack sent the event; -1: not sent
    ghost      \* what happened: admissions, hand-outs, receipts

vars == <<inbox, instance, alarm, drain, stray, intake, slack, ghost>>

Status == {"absent", "pending", "in_flight", "completed", "recovery_required"}

\* age: since accepted_at while active, since terminal_at once terminal.
Row == [status: Status, body: BOOLEAN, attempts: 0..MaxAttempts, age: 0..Horizon,
        left: Nat, owner: 0..MaxRestarts]
NoRow == [status |-> "absent", body |-> FALSE, attempts |-> 0, age |-> 0, left |-> 0, owner |-> 0]

Item == [state: {"none", "queued", "busy"}, call: 0..CallTime]
NoItem == [state |-> "none", call |-> 0]
NoDrain == [running |-> FALSE, looked |-> FALSE, batch |-> [d \in Delivery |-> NoItem]]

Init ==
    /\ inbox = [d \in Delivery |-> NoRow]
    /\ instance = 0 /\ alarm = FALSE
    /\ drain = NoDrain
    /\ stray = [d \in Delivery |-> 0]
    /\ intake = {}
    /\ slack = [d \in Delivery |-> -1]
    /\ ghost = [admitted |-> [d \in Delivery |-> 0], handed |-> [d \in Delivery |-> 0],
                receipted |-> {}]

-----------------------------------------------------------------------------
(* The inbox *)

Active(row) == row.status \in {"pending", "in_flight"}
Terminal(row) == row.status \in {"completed", "recovery_required"}

\* Both leave no body behind.
Ended(row, status) == [row EXCEPT !.status = status, !.body = FALSE, !.left = 0, !.age = 0]
Parked(row) == Ended(row, "recovery_required")

\* A lease that is over counts as an attempt.
Reclaimed(row) ==
    IF row.attempts >= MaxAttempts THEN Parked(row)
    ELSE [row EXCEPT !.status = "pending", !.left = 0]

\* Bug: a claim of a replaced instance ends at once.
MutantLeaseOver(row) ==
    /\ row.status = "in_flight"
    /\ row.left = 0 \/ row.owner # instance

\* A claim of a replaced instance ends when it is Grace old.
LeaseOver(row) ==
    /\ row.status = "in_flight"
    /\ row.left = 0 \/ (row.owner # instance /\ row.left <= Lease - Grace)

\* A tombstone is gone once it is as old as the retention.
MutantPurged(row) == IF Terminal(row) /\ row.age >= Retention THEN NoRow ELSE row

Purged(row) == IF Terminal(row) /\ row.age > Retention THEN NoRow ELSE row

\* maintain, in the order of its statements: leases, keys that nobody checked,
\* abandoned rows, tombstones.
Maintained(d) ==
    LET leases == IF LeaseOver(inbox[d]) THEN Reclaimed(inbox[d]) ELSE inbox[d]
        keys == IF leases.status = "pending" /\ d \in KeyForm /\ leases.body
                   /\ leases.age > Lease
                THEN Parked(leases) ELSE leases
        aged == IF Active(keys) /\ keys.age > ActiveAge THEN Parked(keys) ELSE keys
    IN Purged(aged)

Swept == [d \in Delivery |-> Maintained(d)]

HasPending(rows) ==
    \E d \in Delivery :
      rows[d].status = "in_flight" \/ (rows[d].status = "pending" /\ rows[d].left = 0)

\* nextPendingDueAt.
BackingOff(rows) == \E d \in Delivery : rows[d].status = "pending" /\ rows[d].left > 0

-----------------------------------------------------------------------------
(* Admission *)

Send(d) ==
    /\ slack[d] = -1
    /\ slack' = [slack EXCEPT ![d] = 0]
    /\ UNCHANGED <<inbox, instance, alarm, drain, stray, intake, ghost>>

\* The first copy of an event, or one that Slack sends again.
Admit(d) ==
    /\ slack[d] \in 0..Window /\ d \notin intake
    /\ IF Swept[d].status # "absent"
       THEN inbox' = Swept /\ UNCHANGED ghost
       ELSE /\ Cardinality({e \in Delivery : Active(Swept[e])}) < MaxActive
            /\ inbox' = [Swept EXCEPT ![d] = [NoRow EXCEPT !.status = "pending", !.body = TRUE]]
            /\ ghost' = [ghost EXCEPT !.admitted[d] = @ + 1]
    /\ intake' = intake \cup {d}
    /\ UNCHANGED <<instance, alarm, drain, stray, slack>>

\* A full inbox admits nothing, but its sweep is kept.
AdmitFull(d) ==
    /\ slack[d] \in 0..Window /\ d \notin intake
    /\ Swept[d].status = "absent"
    /\ Cardinality({e \in Delivery : Active(Swept[e])}) >= MaxActive
    /\ inbox' = Swept
    /\ UNCHANGED <<instance, alarm, drain, stray, intake, slack, ghost>>

\* A duplicate sets the alarm too: the first copy may have died before it did.
Receipt(d) ==
    /\ d \in intake
    /\ alarm' = TRUE
    /\ intake' = intake \ {d}
    /\ ghost' = [ghost EXCEPT !.receipted = @ \cup {d}]
    /\ UNCHANGED <<inbox, instance, drain, stray, slack>>

\* The alarm cannot be set: Slack gets no receipt.
ReceiptFails(d) ==
    /\ d \in intake
    /\ intake' = intake \ {d}
    /\ UNCHANGED <<inbox, instance, alarm, drain, stray, slack, ghost>>

-----------------------------------------------------------------------------
(* The drain *)

Batch == {d \in Delivery : drain.batch[d].state # "none"}
SetItem(d, item) == drain' = [drain EXCEPT !.batch[d] = item]

\* An alarm fires once at a time, for the inbox or for other work.
Fire ==
    /\ ~drain.running
    /\ alarm' = FALSE
    /\ drain' = [NoDrain EXCEPT !.running = TRUE]
    /\ UNCHANGED <<inbox, instance, stray, intake, slack, ghost>>

FireForInbox == alarm /\ Fire

Claimable(rows) ==
    {d \in Delivery : rows[d].status = "pending" /\ rows[d].attempts < MaxAttempts
                      /\ rows[d].left = 0}

Room(rows) == MaxInFlight - Cardinality({d \in Delivery : rows[d].status = "in_flight"})

\* The oldest rows that there is room for; rows of one instant in any order.
Choices(rows) ==
    {S \in SUBSET Claimable(rows) :
        /\ Cardinality(S) <= Room(rows)
        /\ S = Claimable(rows) \/ Cardinality(S) >= Room(rows)
        /\ \A d \in S, e \in Claimable(rows) \ S : rows[d].age >= rows[e].age}

\* The claim of a key form keeps its key.
MutantClaimed(d, row) ==
    [row EXCEPT !.status = "in_flight", !.attempts = @ + 1, !.left = Lease, !.owner = instance]

\* The claim of a key form takes its key out of the row.
Claimed(d, row) ==
    [row EXCEPT !.status = "in_flight", !.attempts = @ + 1, !.left = Lease,
                !.owner = instance, !.body = d \notin KeyForm]

\* A row chosen without its body is parked instead.
ClaimPending ==
    /\ drain.running /\ Batch = {}
    /\ \E S \in Choices(Swept) :
         LET claims == {d \in S : Swept[d].body} IN
         /\ inbox' = [d \in Delivery |->
              IF d \in claims THEN Claimed(d, Swept[d])
              ELSE IF d \in S THEN Parked(Swept[d]) ELSE Swept[d]]
         /\ drain' = [drain EXCEPT !.looked = TRUE, !.batch = [d \in Delivery |->
              IF d \in claims THEN [state |-> "queued", call |-> 0] ELSE NoItem]]
         /\ ghost' = [ghost EXCEPT !.handed =
              [d \in Delivery |-> IF d \in claims THEN @[d] + 1 ELSE @[d]]]
    /\ UNCHANGED <<instance, alarm, stray, intake, slack>>

\* complete: a row that is no longer in flight is left as it is.
Complete(d) ==
    inbox' = [inbox EXCEPT ![d] =
                IF @.status = "in_flight" THEN Ended(@, "completed") ELSE @]

MarkRecoveryRequired(d) ==
    inbox' = [inbox EXCEPT ![d] = IF Active(@) THEN Parked(@) ELSE @]

\* The attempts are not counted.
MutantReturned(row, delay) ==
    IF row.status # "in_flight" THEN row ELSE [row EXCEPT !.status = "pending", !.left = delay]

Returned(row, delay) ==
    IF row.status # "in_flight" THEN row
    ELSE IF row.attempts >= MaxAttempts THEN Parked(row)
    ELSE [row EXCEPT !.status = "pending", !.left = delay]

RetryOrRecover(d, delay) == inbox' = [inbox EXCEPT ![d] = Returned(@, delay)]

\* The gateway client cannot be built: the whole batch is given back.
NoClient ==
    /\ Batch # {} /\ \A d \in Batch : drain.batch[d].state = "queued"
    /\ inbox' = [d \in Delivery |-> IF d \in Batch THEN Returned(inbox[d], 0) ELSE inbox[d]]
    /\ drain' = [drain EXCEPT !.batch = [d \in Delivery |-> NoItem]]
    /\ UNCHANGED <<instance, alarm, stray, intake, slack, ghost>>

\* One delivery of a conversation at a time; its processing is one network call
\* after another.
Process(d) ==
    /\ drain.batch[d].state = "queued"
    /\ \A e \in Batch : Conversation[e] = Conversation[d] => drain.batch[e].state # "busy"
    /\ SetItem(d, [state |-> "busy", call |-> CallTime])
    /\ UNCHANGED <<inbox, instance, alarm, stray, intake, slack, ghost>>

NextCall(d) ==
    /\ drain.batch[d].state = "busy" /\ drain.batch[d].call < CallTime
    /\ SetItem(d, [state |-> "busy", call |-> CallTime])
    /\ UNCHANGED <<inbox, instance, alarm, stray, intake, slack, ghost>>

\* The outcome is written in the turn in which the last call returns.
Processed(d) ==
    /\ drain.batch[d].state = "busy"
    /\ \/ Complete(d)
       \/ MarkRecoveryRequired(d)
       \/ \E delay \in {0, Backoff} : RetryOrRecover(d, delay)
    /\ SetItem(d, NoItem)
    /\ UNCHANGED <<instance, alarm, stray, intake, slack, ghost>>

\* Rows that back off are not waited for.
MutantEndDrain ==
    /\ drain.looked /\ Batch = {}
    /\ drain' = NoDrain
    /\ alarm' = (alarm \/ HasPending(inbox))
    /\ UNCHANGED <<inbox, instance, stray, intake, slack, ghost>>

\* The alarm is set again for rows that can be claimed, for leases, and for
\* rows that back off.
EndDrain ==
    /\ drain.looked /\ Batch = {}
    /\ drain' = NoDrain
    /\ alarm' = (alarm \/ HasPending(inbox) \/ BackingOff(inbox))
    /\ UNCHANGED <<inbox, instance, stray, intake, slack, ghost>>

-----------------------------------------------------------------------------
(* Time and restarts *)

Later(n) == IF n < Horizon THEN n + 1 ELSE n
Sooner(n) == IF n > 0 THEN n - 1 ELSE 0

\* No call lasts longer than CallTime.
Tick ==
    /\ \A d \in Delivery : drain.batch[d].state = "busy" => drain.batch[d].call > 0
    /\ inbox' = [d \in Delivery |->
         IF inbox[d].status = "absent" THEN inbox[d]
         ELSE [inbox[d] EXCEPT !.age = Later(@), !.left = Sooner(@)]]
    /\ drain' = [drain EXCEPT !.batch =
         [d \in Delivery |-> [drain.batch[d] EXCEPT !.call = Sooner(@)]]]
    /\ stray' = [d \in Delivery |-> Sooner(stray[d])]
    /\ slack' = [d \in Delivery |->
         IF slack[d] \in 0..Window THEN slack[d] + 1 ELSE slack[d]]
    /\ UNCHANGED <<instance, alarm, intake, ghost>>

\* The call under way is as old as the claim of its delivery.
BegunWithClaim(d) == CallTime - drain.batch[d].call = Lease - inbox[d].left

\* The instance is replaced: an alarm that was running is fired again, by the
\* platform or by the new instance, which looks for orphaned leases.
Replace ==
    /\ instance < MaxRestarts
    /\ instance' = instance + 1
    /\ alarm' = (alarm \/ drain.running)
    /\ stray' = [d \in Delivery |->
         IF BegunWithClaim(d) /\ drain.batch[d].call > stray[d]
         THEN drain.batch[d].call ELSE stray[d]]
    /\ drain' = NoDrain
    /\ intake' = {}
    /\ UNCHANGED <<inbox, slack, ghost>>

Drain ==
    \/ ClaimPending \/ NoClient \/ EndDrain
    \/ \E d \in Delivery : Process(d) \/ Processed(d)

Next ==
    \/ Fire \/ Drain \/ Tick \/ Replace
    \/ \E d \in Delivery :
         \/ Send(d) \/ Admit(d) \/ AdmitFull(d) \/ Receipt(d) \/ ReceiptFails(d)
         \/ NextCall(d)

Spec == Init /\ [][Next]_vars

\* A set alarm fires, the drain goes on and ends, and time passes.
Fairness ==
    /\ WF_vars(FireForInbox) /\ WF_vars(Tick)
    /\ WF_vars(ClaimPending) /\ WF_vars(EndDrain)
    /\ \A d \in Delivery : WF_vars(Process(d)) /\ WF_vars(Processed(d))

FairSpec == Spec /\ Fairness

-----------------------------------------------------------------------------
(* Properties *)

\* Every variable keeps its shape, a row that can be claimed has attempts left,
\* and only a row that is in flight or backs off has time left.
InboxTypeOK ==
    /\ inbox \in [Delivery -> Row]
    /\ instance \in 0..MaxRestarts /\ alarm \in BOOLEAN
    /\ drain \in [running: BOOLEAN, looked: BOOLEAN, batch: [Delivery -> Item]]
    /\ stray \in [Delivery -> 0..CallTime]
    /\ intake \in SUBSET Delivery
    /\ slack \in [Delivery -> -1..(Window + 1)]
    /\ ghost \in [admitted: [Delivery -> Nat], handed: [Delivery -> Nat],
                  receipted: SUBSET Delivery]
    /\ \A d \in Delivery :
         /\ inbox[d].status = "pending" => inbox[d].attempts < MaxAttempts
         /\ ~Active(inbox[d]) => inbox[d].left = 0 /\ ~inbox[d].body

\* While Slack may send an event again, it is admitted once: its row, or the
\* tombstone its row leaves, is still there, however the row ended.
AdmittedOnce == \A d \in Delivery : ghost.admitted[d] <= 1

\* Whatever lapses, is given back, aged out or taken over by a new instance, an
\* event is handed to processing at most MaxAttempts times, and a key at most once.
HandedWithinBudget ==
    \A d \in Delivery : ghost.handed[d] <= IF d \in KeyForm THEN 1 ELSE MaxAttempts

\* A delivery that Slack has a receipt for is ended, without further traffic and
\* however often the instance is replaced.
ReceiptedDeliveriesEnd ==
    \A d \in Delivery : d \in ghost.receipted ~> ~Active(inbox[d])

\* The grace of an orphaned claim covers the call that the replaced instance was
\* making: the delivery is not processed again while a call that began with its
\* claim may still complete.  (A call begun later is not covered.)
OverlapCovered ==
    \A d \in Delivery : drain.batch[d].state = "busy" => stray[d] = 0
=============================================================================
