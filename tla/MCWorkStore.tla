---------------------------- MODULE MCWorkStore ----------------------------
(***************************************************************************)
(* Constants of the TLC instances of WorkStore.  Runs 1 and 2 are owned by *)
(* the ledger and share an ordering key; run 3 is owned by the legacy      *)
(* runner and has a key of its own.                                        *)
(***************************************************************************)
EXTENDS WorkStore

MCKeyOf == [r \in Run |-> IF r <= 2 THEN "thread" ELSE "other"]
MCAuthority == [r \in Run |-> IF r <= 2 THEN "ledger" ELSE "legacy"]

\* A run in little detail: one lease, no answer, nothing rendered.
Coarse(r) ==
    /\ runs[r].fence <= 1
    /\ runs[r].approved = None /\ runs[r].rendered = None
    /\ runs[r].attempt = None

\* The legacy run uses one delivery method and one rendering.
Plain(r) ==
    \E m \in Method, w \in Rendering :
        /\ \A a \in AttemptId : trail[r][a] # "none" => a[2] = m
        /\ runs[r].rendered \in {None, w}

\* One run at a time is followed in full; the two of one key only coarsely.
OneInDetail ==
    \/ \E r \in {1, 3} : /\ runs[r].createdAt = 0
                         /\ \A s \in Run \ {r} : ~Present(s)
                         /\ r = 3 => Plain(r)
    \/ ~Present(3) /\ \A r \in {1, 2} : Coarse(r)
=============================================================================
