--------------------------- MODULE MCLedgerDriver ---------------------------
(***************************************************************************)
(* Constants of the TLC instances of LedgerDriver.                         *)
(***************************************************************************)
EXTENDS LedgerDriver

MCKeyOf == [r \in Run |-> "thread"]
MCOwnKey == [r \in Run |-> r]
MCAllLedger == [r \in Run |-> "ledger"]

\* The second run is there for its release, which the store may refuse while the
\* first run is being handled: its job goes to an operator before its turn begins.
\* A failing Agent and the operator's quarantine have runs of their own.
MCStrayHandler ==
    /\ \A f \in Token : worker[2][f].pc \in {"idle", "claimed", "release"}
    /\ \A f \in Token : worker[2][f].verdict # "requeue"
    /\ agent[1].state # "failed"
    /\ \A r \in Run : runs[r].disposition # "quarantined"
=============================================================================
