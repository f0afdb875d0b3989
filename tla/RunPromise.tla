----------------------------- MODULE RunPromise -----------------------------
(***************************************************************************)
(* What the ledger promises about one run of work, with no word of leases, *)
(* fences, phases or tables: a run is opened once, may need an operator's  *)
(* attention, and is closed for good; and towards the outside world it     *)
(* replies at most once, trying again only when the previous try is known  *)
(* to have been rejected and the run is still open.                        *)
(***************************************************************************)
CONSTANT Run

VARIABLES
    stage,  \* how far each run is: not yet there, open, stuck, closed
    reply   \* what is durably known of each run's outward replies

Stage == {"none", "open", "attention", "closed"}
Reply == {"none", "trying", "rejected", "sent", "unknown"}

Init ==
    /\ stage = [r \in Run |-> "none"]
    /\ reply = [r \in Run |-> "none"]

Admit(r) ==
    /\ stage[r] = "none"
    /\ stage' = [stage EXCEPT ![r] = "open"]
    /\ UNCHANGED reply

\* Runs found to be in doubt, possibly several at once.
Flag(S) ==
    /\ \A r \in S : stage[r] = "open"
    /\ stage' = [r \in Run |-> IF r \in S THEN "attention" ELSE stage[r]]
    /\ UNCHANGED reply

Close(r) ==
    /\ stage[r] \in {"open", "attention"}
    /\ stage' = [stage EXCEPT ![r] = "closed"]
    /\ UNCHANGED reply

Try(r) ==
    /\ stage[r] = "open" /\ reply[r] \in {"none", "rejected"}
    /\ reply' = [reply EXCEPT ![r] = "trying"]
    /\ UNCHANGED stage

Rejected(r) ==
    /\ reply[r] = "trying"
    /\ reply' = [reply EXCEPT ![r] = "rejected"]
    /\ UNCHANGED stage

\* A proof of delivery closes the run, and is accepted even of a closed one.
Sent(r) ==
    /\ stage[r] # "none" /\ reply[r] = "trying"
    /\ reply' = [reply EXCEPT ![r] = "sent"]
    /\ stage' = [stage EXCEPT ![r] = "closed"]

\* A reply whose fate is not known is an operator's to resolve.
Unknown(r) ==
    /\ stage[r] \in {"open", "attention"} /\ reply[r] = "trying"
    /\ reply' = [reply EXCEPT ![r] = "unknown"]
    /\ stage' = [stage EXCEPT ![r] = "attention"]

Next ==
    \/ \E S \in SUBSET Run : Flag(S)
    \/ \E r \in Run :
         Admit(r) \/ Close(r) \/ Try(r) \/ Rejected(r) \/ Sent(r) \/ Unknown(r)

Spec == Init /\ [][Next]_<<stage, reply>>
=============================================================================
