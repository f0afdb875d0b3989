------------------------ MODULE ThreadRunner_proofs ------------------------
(***************************************************************************)
(* Proofs about ThreadRunner for every number of turns, stops and faults:  *)
(* no turn is executed again, turns run one after the other, and an abort  *)
(* ends no turn but a stopped one.                                         *)
(***************************************************************************)
EXTENDS ThreadRunner, FiniteSetTheorems, TLAPS

Over == {"deferred", "done"}

\* The alarm has a turn in hand whose ending it has not settled.
Holds == run.at \notin {"idle", "marking"}

\* A turn is handed over after those before it; the one in hand is the next; a
\* turn whose ending was reported, or is to be synced, is done.
JobFits ==
    /\ \A t \in Turn : row[t].confirmed => job[t].state # "absent"
    /\ \A t, u \in Turn : t < u /\ job[u].state # "absent" /\ Open(t) => job[t].state # "absent"
    /\ Holds => run.turn \in Turn /\ IsNext(run.turn)
    /\ run.at = "marking" => run.turn \in Turn /\ job[run.turn].state = "done"
    /\ \A t \in told : job[t].state = "done"
    /\ \A t \in Turn : job[t].sync => job[t].state = "done"

\* A held turn was not dispatched; a turn that ended unheard of was not either.
RowFits ==
    /\ \A t \in Turn : row[t].stop = "held" => ~row[t].envelope
    /\ \A t \in Turn : row[t].owed => row[t].stop = "stopped"
    /\ \A t \in Turn : ~Open(t) /\ job[t].state \in Ordered => ~row[t].envelope
    /\ \A t \in Turn : row[t].settled # "none" => host[t] \in Ended

\* What Flue runs was dispatched, after all turns before it were over; a turn
\* that is over runs on only if it was stopped before its receipt.
HostFits ==
    /\ \A t \in Turn : host[t] # "none" \/ t \in net.dispatches => row[t].envelope
    /\ \A u \in Turn : row[u].envelope =>
         /\ job[u].state # "absent"
         /\ \A t \in Turn : t < u => job[t].state \notin Ordered
    /\ \A t \in Turn :
         job[t].state \in Over /\ host[t] \notin Ended /\ row[t].envelope =>
           row[t].stop = "stopped" /\ ~row[t].receipt

\* What the alarm has read still holds, and its ending has a reason.
RunFits ==
    /\ run.at = "reading" =>
         /\ run.view.status = "done" <=> ~Open(run.turn)
         /\ run.view.stop = "stopped" => row[run.turn].stop = "stopped"
         /\ run.view.settled # "none" => row[run.turn].settled # "none"
         /\ run.view.receipt <=> row[run.turn].receipt
    /\ run.at \notin {"idle", "reading", "marking"} => Open(run.turn)
    /\ run.at \in {"settled", "reporting"} => row[run.turn].settled # "none"
    /\ run.at \in {"ending", "posted"} =>
         \/ row[run.turn].settled # "none"
         \/ row[run.turn].stop = "stopped" /\ ~row[run.turn].receipt

\* An abort is asked for a stopped turn that was dispatched, and none is out for
\* a turn before the one that starts.
Started == (run.at = "reading" /\ run.waited) \/ run.at \in Executing \ {"marking"}

StopFits ==
    /\ \A t \in Turn : stop[t].abort # "none" => row[t].stop = "stopped"
    /\ \A t \in Turn : stop[t].instance => row[t].envelope
    /\ \A t \in Turn : mem.request[t] # NoRequest => row[t].stop = "stopped" /\ row[t].envelope
    /\ \A t, u \in Turn : t < u /\ row[u].envelope => mem.request[t] = NoRequest
    /\ Started => \A t \in Turn : t < run.turn => mem.request[t] = NoRequest

IInv == RunnerTypeOK /\ JobFits /\ RowFits /\ HostFits /\ RunFits /\ StopFits


----------------------------------------------------------------------------
(***************************************************************************)
(* What a step may do to each part of the state.  Every action of the      *)
(* model moves this way from a state where IInv holds, and what moves this *)
(* way keeps IInv.                                                         *)
(***************************************************************************)
\* A row only gains: an ending, a stop, a dispatch, a receipt, a settlement.
RowMoves(t) ==
    /\ row'[t].confirmed => row[t].confirmed \/ job'[t].state # "absent"
    /\ row[t].status = "done" => row'[t].status = "done"
    /\ row'[t].status = "done" =>
         \/ row[t].status = "done"
         \/ job'[t].state \notin Ordered
         \/ ~row'[t].envelope /\ t # run.turn
    /\ row[t].stop = "stopped" => row'[t].stop = "stopped"
    /\ row'[t].stop = "held" => row[t].stop = "held" \/ ~row'[t].envelope
    /\ row'[t].owed => row[t].owed \/ row'[t].stop = "stopped"
    /\ row[t].envelope => row'[t].envelope
    /\ row'[t].envelope => row[t].envelope \/ (At(t, "claimed") /\ row[t].stop # "held")
    /\ row[t].receipt => row'[t].receipt
    /\ row'[t].receipt => row[t].receipt \/ At(t, "dispatching")
    /\ row[t].settled # "none" => row'[t].settled # "none"
    /\ row'[t].settled # "none" => row[t].settled # "none" \/ host'[t] \in Ended

\* The alarm ends the turn it has in hand: with its ending, or unheard.
Finishing(t) ==
    /\ run.turn = t
    /\ run.at \in {"ending", "posted"} \/ (run.at = "reading" /\ ~row[t].envelope)

\* A job is admitted in order, and left for over by the alarm alone.
JobMoves(t) ==
    /\ job[t].state # "absent" => job'[t].state # "absent"
    /\ job'[t].state # "absent" =>
         job[t].state # "absent" \/ \A u \in Turn : u < t /\ Open(u) => row[u].confirmed
    /\ job'[t].state \in Ordered =>
         job[t].state \in Ordered \/ (job[t].state = "absent" /\ Open(t))
    /\ job[t].state = "done" => job'[t].state = "done"
    /\ job'[t].state \in Over => job[t].state \in Over \/ Finishing(t)
    /\ job'[t].sync => job[t].sync \/ job'[t].state = "done"
    /\ t \in told' => t \in told \/ job'[t].state = "done"

HostMoves(t) ==
    /\ host'[t] # "none" \/ t \in net'.dispatches =>
         host[t] # "none" \/ t \in net.dispatches \/ row'[t].envelope
    /\ host[t] \in Ended => host'[t] \in Ended

\* The alarm takes up the next turn, and executes what it has read is open.
RunMoves ==
    /\ Holds' => run'.turn \in Turn /\ IsNext(run'.turn) /\ job'[run'.turn].state \in Ordered
    /\ run'.at = "marking" => run'.turn \in Turn /\ job'[run'.turn].state = "done"
    /\ run'.at = "reading" =>
         \/ run.at = "reading" /\ run'.turn = run.turn /\ run'.view = run.view
         \/ run'.view = row'[run'.turn]
    /\ run'.at \notin {"idle", "reading", "marking"} => run'.turn = run.turn /\ Open(run.turn)
    /\ run'.at \in {"settled", "reporting"} =>
         row[run.turn].settled # "none" \/ row'[run.turn].settled # "none"
    /\ run'.at \in {"ending", "posted"} =>
         /\ run.at # "dispatching"
         /\ \/ row[run.turn].settled # "none"
            \/ row[run.turn].stop = "stopped" /\ ~row[run.turn].receipt
    /\ Started' => (Started /\ run'.turn = run.turn) \/ AbortsSettled(mem')

\* Markers and requests are about stopped turns that were dispatched; a request
\* is made for a turn in the order of its thread.
MarkersOK(s) ==
    /\ s \in [Turn -> Marker]
    /\ \A t \in Turn : /\ s[t].abort # "none" => row[t].stop = "stopped"
                       /\ s[t].instance => row[t].envelope
Requests(m, t) ==
    m.request[t] # NoRequest =>
        \/ mem.request[t] # NoRequest
        \/ row[t].stop = "stopped" /\ row[t].envelope /\ job[t].state \in Ordered
Memory == [receipts: SUBSET Turn, settled: SUBSET Turn,
           cascading: SUBSET Turn, request: [Turn -> Request]]
MemoryOK(m) == m \in Memory /\ \A t \in Turn : Requests(m, t)

Moves ==
    /\ \A t \in Turn : RowMoves(t) /\ JobMoves(t) /\ HostMoves(t)
    /\ RunMoves /\ MarkersOK(stop') /\ MemoryOK(mem')

\* What the type invariant says of each part.
LEMMA Types ==
  ASSUME RunnerTypeOK
  PROVE  /\ \A t \in Turn : row[t] \in Row /\ job[t] \in Job /\ stop[t] \in Marker
         /\ stop \in [Turn -> Marker] /\ mem \in Memory
         /\ run.turn \in Turn \cup {None} /\ run.at \in {"idle", "reading"} \cup Executing
BY DEF RunnerTypeOK, Memory

LEMMA JobsFit ==
  ASSUME RunnerTypeOK, RunnerTypeOK', JobFits, Moves
  PROVE  JobFits'
<1>1. \A t \in Turn : row'[t].confirmed => job'[t].state # "absent"
  BY DEF Moves, RowMoves, JobMoves, JobFits
<1>2. ASSUME NEW t \in Turn, NEW u \in Turn, t < u, job'[u].state # "absent", Open(t)'
      PROVE  job'[t].state # "absent"
  <2>1. Open(t)
    BY <1>2, Types DEF Moves, RowMoves, Open, Row
  <2>2. job[t].state # "absent"
    BY <1>2, <2>1 DEF Moves, JobMoves, JobFits
  <2> QED BY <2>2 DEF Moves, JobMoves
<1>3. ASSUME Holds' PROVE (run.turn \in Turn /\ IsNext(run.turn))'
  <2>1. /\ run'.turn \in Turn /\ IsNext(run'.turn) /\ job'[run'.turn].state \in Ordered
    BY <1>3 DEF Moves, RunMoves
  <2>2. ASSUME NEW u \in Turn, u < run'.turn PROVE job'[u].state \notin Ordered
    <3>1. job[u].state \notin Ordered
      BY <2>1, <2>2 DEF IsNext
    <3>2. ~(job[u].state = "absent" /\ Open(u))
      BY <2>1, <2>2 DEF JobFits, IsNext, Ordered
    <3> QED BY <3>1, <3>2 DEF Moves, JobMoves
  <2> QED BY <2>1, <2>2 DEF IsNext
<1>4. run'.at = "marking" => run'.turn \in Turn /\ job'[run'.turn].state = "done"
  BY DEF Moves, RunMoves
<1>5. \A t \in told' : job'[t].state = "done"
  BY DEF Moves, JobMoves, JobFits, RunnerTypeOK
<1>6. \A t \in Turn : job'[t].sync => job'[t].state = "done"
  BY DEF Moves, JobMoves, JobFits
<1> QED BY <1>1, <1>2, <1>3, <1>4, <1>5, <1>6 DEF JobFits

LEMMA RowsFit ==
  ASSUME RunnerTypeOK, RunnerTypeOK', JobFits, RowFits, RunFits, Moves
  PROVE  RowFits'
<1>1. ASSUME NEW t \in Turn, row'[t].stop = "held" PROVE ~row'[t].envelope
  BY <1>1 DEF Moves, RowMoves, RowFits
<1>2. ASSUME NEW t \in Turn, row'[t].owed PROVE row'[t].stop = "stopped"
  BY <1>2 DEF Moves, RowMoves, RowFits
<1>3. ASSUME NEW t \in Turn, ~Open(t)', job'[t].state \in Ordered
      PROVE  ~row'[t].envelope
  <2>1. row'[t].status = "done"
    BY <1>3 DEF Open, RunnerTypeOK, Row
  <2> QED BY <1>3, <2>1, Types DEF Moves, RowMoves, JobMoves, RowFits, RunFits, At, Open, Row
<1>4. ASSUME NEW t \in Turn, row'[t].settled # "none" PROVE host'[t] \in Ended
  BY <1>4 DEF Moves, RowMoves, HostMoves, RowFits
<1> QED BY <1>1, <1>2, <1>3, <1>4 DEF RowFits

LEMMA HostsFit ==
  ASSUME RunnerTypeOK, JobFits, RowFits, HostFits, RunFits, Moves
  PROVE  HostFits'
<1>1. ASSUME NEW t \in Turn, host'[t] # "none" \/ t \in net'.dispatches PROVE row'[t].envelope
  BY <1>1 DEF Moves, RowMoves, HostMoves, HostFits
<1>2. ASSUME NEW u \in Turn, row'[u].envelope, ~row[u].envelope
      PROVE  At(u, "claimed") /\ IsNext(u)
  BY <1>2 DEF Moves, RowMoves, JobFits, Holds, At
<1>3. ASSUME NEW u \in Turn, row'[u].envelope PROVE job[u].state # "absent"
  BY <1>2, <1>3 DEF HostFits, IsNext, Ordered
<1>4. ASSUME NEW u \in Turn, row'[u].envelope, NEW t \in Turn, t < u
      PROVE  job'[t].state \notin Ordered
  <2>1. job[t].state \notin Ordered
    BY <1>2, <1>4 DEF HostFits, IsNext
  <2>2. ~(job[t].state = "absent" /\ Open(t))
    BY <1>3, <1>4 DEF JobFits
  <2> QED BY <2>1, <2>2 DEF Moves, JobMoves
<1>5. ASSUME NEW t \in Turn, job'[t].state \in Over, host'[t] \notin Ended, row'[t].envelope
      PROVE  row'[t].stop = "stopped" /\ ~row'[t].receipt
  <2>1. host[t] \notin Ended /\ row[t].settled = "none"
    BY <1>5 DEF Moves, HostMoves, RowFits
  <2>2. CASE job[t].state \in Over
    <3>1. ~(Holds /\ run.turn = t)
      BY <2>2 DEF JobFits, IsNext, Over, Ordered
    <3>2. row[t].envelope /\ (row'[t].receipt <=> row[t].receipt)
      <4>1. row[t].envelope
        BY <1>5, <3>1 DEF Moves, RowMoves, At, Holds
      <4>2. row[t].receipt <=> row'[t].receipt
        BY <3>1 DEF Moves, RowMoves, At, Holds
      <4> QED BY <4>1, <4>2
    <3> QED BY <2>1, <2>2, <3>2 DEF HostFits, Moves, RowMoves
  <2>3. CASE Finishing(t)
    <3>1. CASE run.at \in {"ending", "posted"}
      BY <2>1, <2>3, <3>1 DEF Finishing, RunFits, Moves, RowMoves, At
    <3>2. CASE run.at = "reading" /\ ~row[t].envelope
      BY <1>5, <3>2 DEF Moves, RowMoves, At
    <3> QED BY <2>3, <3>1, <3>2 DEF Finishing
  <2> QED BY <1>5, <2>2, <2>3 DEF Moves, JobMoves
<1> QED BY <1>1, <1>3, <1>4, <1>5 DEF HostFits, Moves, JobMoves

LEMMA RunFitsStill ==
  ASSUME RunnerTypeOK, RunnerTypeOK', JobFits, JobFits', RowFits, RunFits, Moves
  PROVE  RunFits'
<1>1. ASSUME NEW t \in Turn, Holds', run'.turn = t, run.turn = t, Open(t) PROVE Open(t)'
  <2>1. job'[t].state \in Ordered
    BY <1>1 DEF Moves, RunMoves
  <2>2. row'[t].status # "done"
    BY <1>1, <2>1 DEF Moves, RowMoves, Open
  <2> QED BY <2>2 DEF RunnerTypeOK, Row, Open
<1>2. ASSUME run'.at = "reading"
      PROVE  /\ run'.view.status = "done" <=> ~Open(run.turn)'
             /\ run'.view.stop = "stopped" => row'[run'.turn].stop = "stopped"
             /\ run'.view.settled # "none" => row'[run'.turn].settled # "none"
             /\ run'.view.receipt <=> row'[run'.turn].receipt
  <2>1. Holds' /\ run'.turn \in Turn
    BY <1>2 DEF Holds, JobFits
  <2>2. CASE run'.view = row'[run'.turn]
    <3>1. row'[run'.turn] \in Row
      BY <2>1 DEF RunnerTypeOK
    <3> QED BY <2>2, <3>1 DEF Open, Row
  <2>3. CASE run.at = "reading" /\ run'.turn = run.turn /\ run'.view = run.view
    <3>1. Open(run.turn) => Open(run.turn)'
      BY <1>1, <2>1, <2>3
    <3>2. ~Open(run.turn) => ~Open(run.turn)'
      BY <2>1, <2>3, Types DEF Moves, RowMoves, Open, Row
    <3>3. row[run.turn].receipt <=> row'[run.turn].receipt
      BY <2>1, <2>3 DEF Moves, RowMoves, At
    <3> QED BY <2>1, <2>3, <3>1, <3>2, <3>3 DEF RunFits, Moves, RowMoves
  <2> QED BY <1>2, <2>2, <2>3 DEF Moves, RunMoves
<1>3. ASSUME run'.at \notin {"idle", "reading", "marking"} PROVE Open(run.turn)'
  <2>1. Holds' /\ run'.turn \in Turn /\ run'.turn = run.turn /\ Open(run.turn)
    BY <1>3 DEF Holds, JobFits, Moves, RunMoves
  <2>2. Open(run'.turn) /\ run'.turn = run.turn /\ Holds'
    BY <2>1
  <2> QED BY <1>1, <2>1
<1>4. ASSUME run'.at \in {"settled", "reporting"} PROVE row'[run'.turn].settled # "none"
  <2>1. run'.turn = run.turn /\ run'.turn \in Turn
    BY <1>4 DEF Moves, RunMoves, JobFits, Holds
  <2> QED BY <1>4, <2>1 DEF Moves, RunMoves, RowMoves
<1>5. ASSUME run'.at \in {"ending", "posted"}
      PROVE  \/ row'[run'.turn].settled # "none"
             \/ row'[run'.turn].stop = "stopped" /\ ~row'[run'.turn].receipt
  <2>1. run'.turn = run.turn /\ run'.turn \in Turn
    BY <1>5 DEF Moves, RunMoves, JobFits, Holds
  <2> QED BY <1>5, <2>1 DEF Moves, RunMoves, RowMoves, At
<1> QED BY <1>2, <1>3, <1>4, <1>5 DEF RunFits

LEMMA StopsFit ==
  ASSUME RunnerTypeOK, JobFits, HostFits, StopFits, Moves
  PROVE  StopFits'
<1>1. ASSUME NEW t \in Turn, stop'[t].abort # "none" PROVE row'[t].stop = "stopped"
  BY <1>1 DEF Moves, MarkersOK, RowMoves
<1>2. ASSUME NEW t \in Turn, stop'[t].instance PROVE row'[t].envelope
  BY <1>2 DEF Moves, MarkersOK, RowMoves
<1>3. ASSUME NEW t \in Turn, mem'.request[t] # NoRequest
      PROVE  row'[t].stop = "stopped" /\ row'[t].envelope
  BY <1>3 DEF Moves, MemoryOK, Requests, RowMoves, StopFits
<1>4. ASSUME NEW t \in Turn, NEW u \in Turn, t < u, row'[u].envelope
      PROVE  mem'.request[t] = NoRequest
  <2>1. CASE row[u].envelope
    BY <1>4, <2>1 DEF Moves, MemoryOK, Requests, StopFits, HostFits
  <2>2. CASE ~row[u].envelope
    <3>1. run.at = "claimed" /\ run.turn = u
      BY <1>4, <2>2 DEF Moves, RowMoves, At
    <3>2. Started /\ IsNext(u)
      BY <3>1 DEF Started, Executing, JobFits, Holds
    <3> QED BY <1>4, <3>1, <3>2 DEF Moves, MemoryOK, Requests, StopFits, IsNext
  <2> QED BY <2>1, <2>2
<1>5. ASSUME Started', NEW t \in Turn, t < run'.turn PROVE mem'.request[t] = NoRequest
  <2>1. IsNext(run'.turn)
    BY <1>5 DEF Started, Executing, Moves, RunMoves, Holds
  <2>2. CASE Started /\ run'.turn = run.turn
    BY <1>5, <2>1, <2>2 DEF Moves, MemoryOK, Requests, StopFits, IsNext
  <2>3. CASE AbortsSettled(mem')
    BY <2>3 DEF AbortsSettled
  <2> QED BY <1>5, <2>2, <2>3 DEF Moves, RunMoves
<1> QED BY <1>1, <1>2, <1>3, <1>4, <1>5 DEF StopFits

LEMMA MovesFit ==
  ASSUME IInv, RunnerTypeOK', Moves
  PROVE  IInv'
BY JobsFit, RowsFit, HostsFit, RunFitsStill, StopsFit DEF IInv

----------------------------------------------------------------------------
(***************************************************************************)
(* A part a step leaves alone moves as it may.                             *)
(***************************************************************************)
Place == {"idle", "reading"} \cup Executing
Alarm == [turn: Turn \cup {None}, at: Place, waited: BOOLEAN, view: Row]
Wire == [dispatches: SUBSET Turn, strays: Nat]
Use == [stops: 0..MaxStops, faults: 0..MaxFaults]

LEMMA Pieces ==
  ASSUME row' \in [Turn -> Row], job' \in [Turn -> Job], stop' \in [Turn -> Marker],
         mem' \in Memory, run' \in Alarm, host' \in [Turn -> {"none", "running"} \cup Ended],
         net' \in Wire, told' \subseteq Turn, used' \in Use
  PROVE  RunnerTypeOK'
BY DEF RunnerTypeOK, Memory, Alarm, Wire, Use, Place

LEMMA Parts ==
  ASSUME RunnerTypeOK
  PROVE  /\ row \in [Turn -> Row] /\ job \in [Turn -> Job] /\ stop \in [Turn -> Marker]
         /\ mem \in Memory /\ run \in Alarm
         /\ host \in [Turn -> {"none", "running"} \cup Ended]
         /\ net \in Wire /\ told \subseteq Turn /\ used \in Use
BY DEF RunnerTypeOK, Memory, Alarm, Wire, Use, Place

RowStep == row' \in [Turn -> Row] /\ \A t \in Turn : RowMoves(t)
JobStep == job' \in [Turn -> Job] /\ told' \subseteq Turn /\ \A t \in Turn : JobMoves(t)
HostStep ==
    /\ host' \in [Turn -> {"none", "running"} \cup Ended] /\ net' \in Wire
    /\ \A t \in Turn : HostMoves(t)
RunStep == run' \in Alarm /\ RunMoves
StopStep == MarkersOK(stop') /\ MemoryOK(mem')
Step == RowStep /\ JobStep /\ HostStep /\ RunStep /\ StopStep /\ used' \in Use

LEMMA StepFits ==
  ASSUME IInv, Step
  PROVE  IInv'
<1>1. RunnerTypeOK'
  BY Pieces DEF Step, RowStep, JobStep, HostStep, RunStep, StopStep, MarkersOK, MemoryOK
<1>2. Moves
  BY DEF Step, RowStep, JobStep, HostStep, RunStep, StopStep, Moves
<1> QED BY <1>1, <1>2, MovesFit

LEMMA RowSame ==
  ASSUME IInv, row' = row
  PROVE  RowStep
BY Parts DEF IInv, RowStep, RowMoves

LEMMA JobSame ==
  ASSUME IInv, job' = job, told' = told
  PROVE  JobStep
BY Parts DEF IInv, JobStep, JobMoves

LEMMA HostSame ==
  ASSUME IInv, host' = host, net' \in Wire, net'.dispatches = net.dispatches
  PROVE  HostStep
BY Parts DEF IInv, HostStep, HostMoves

LEMMA SameNet ==
  ASSUME IInv, host' = host, net' = net
  PROVE  HostStep
BY HostSame, Parts DEF IInv

LEMMA RunSame ==
  ASSUME IInv, run' = run,
         \A t \in Turn : /\ job[t].state \in Ordered => job'[t].state \in Ordered
                         /\ job[t].state = "done" => job'[t].state = "done"
  PROVE  RunStep
<1>1. run' \in Alarm
  BY Parts DEF IInv
<1>2. Holds' => run'.turn \in Turn /\ IsNext(run'.turn) /\ job'[run'.turn].state \in Ordered
  BY DEF Holds, IInv, JobFits, IsNext
<1>3. run'.at = "marking" => run'.turn \in Turn /\ job'[run'.turn].state = "done"
  BY DEF IInv, JobFits
<1>4. run'.at \notin {"idle", "reading", "marking"} => run'.turn = run.turn /\ Open(run.turn)
  BY DEF IInv, RunFits
<1>5. run'.at \in {"settled", "reporting"} => row[run.turn].settled # "none"
  BY DEF IInv, RunFits
<1>6. run'.at \in {"ending", "posted"} =>
         /\ run.at # "dispatching"
         /\ \/ row[run.turn].settled # "none"
            \/ row[run.turn].stop = "stopped" /\ ~row[run.turn].receipt
  BY DEF IInv, RunFits
<1>7. Started' => Started /\ run'.turn = run.turn
  BY DEF Started
<1> QED BY <1>1, <1>2, <1>3, <1>4, <1>5, <1>6, <1>7 DEF RunStep, RunMoves

LEMMA SameRun ==
  ASSUME IInv, run' = run, job' = job
  PROVE  RunStep
BY RunSame

LEMMA RunRests ==
  ASSUME IInv, run' = Resting
  PROVE  RunStep
<1>1. Resting \in Alarm
  BY DEF Resting, NoRow, Alarm, Place, Row
<1>2. run'.at = "idle"
  BY DEF Resting
<1>3. ~Holds' /\ ~Started'
  BY <1>2 DEF Holds, Started, Executing
<1> QED BY <1>1, <1>2, <1>3 DEF RunStep, RunMoves

LEMMA RunGoes ==
  ASSUME IInv, NEW t \in Turn, NEW place \in Executing \ {"marking"},
         run.turn = t, run.at \in Executing \ {"marking"}, Goes(place),
         job'[t].state \in Ordered,
         place \in {"settled", "reporting"} =>
           row[t].settled # "none" \/ row'[t].settled # "none",
         place \in {"ending", "posted"} =>
           /\ run.at # "dispatching"
           /\ \/ row[t].settled # "none"
              \/ row[t].stop = "stopped" /\ ~row[t].receipt
  PROVE  RunStep
<1>1. run' \in Alarm /\ run'.turn = t /\ run'.at = place
  BY Parts DEF IInv, Goes, Alarm, Place
<1>2. Holds /\ run.at \notin {"idle", "reading", "marking"}
  BY DEF Holds, Executing
<1>3. IsNext(t) /\ Open(t)
  BY <1>2 DEF IInv, JobFits, RunFits
<1>4. Started
  BY DEF Started
<1>5. run'.at \notin {"reading", "marking"}
  BY <1>1 DEF Executing
<1> QED BY <1>1, <1>3, <1>4, <1>5 DEF RunStep, RunMoves

LEMMA StopSame ==
  ASSUME IInv, stop' = stop
  PROVE  MarkersOK(stop')
BY Parts DEF IInv, MarkersOK, StopFits

LEMMA MemSame ==
  ASSUME IInv, mem' = mem
  PROVE  MemoryOK(mem')
BY Parts DEF IInv, MemoryOK, Requests

LEMMA StopsSame ==
  ASSUME IInv, stop' = stop, mem' = mem
  PROVE  StopStep
BY StopSame, MemSame DEF StopStep

LEMMA UseSame ==
  ASSUME IInv, used' = used
  PROVE  used' \in Use
BY Parts DEF IInv

LEMMA FaultUse ==
  ASSUME IInv, Fault
  PROVE  used' \in Use
<1>1. used \in Use
  BY Parts DEF IInv
<1>2. MaxFaults \in Nat /\ MaxStops \in Nat
  BY RunnerAssumption
<1> QED BY <1>1, <1>2 DEF Fault, Use

----------------------------------------------------------------------------
(***************************************************************************)
(* The alarm of the runner.                                                *)
(***************************************************************************)
LEMMA InHand ==
  ASSUME IInv, Holds
  PROVE  /\ run.turn \in Turn /\ IsNext(run.turn) /\ job[run.turn].state \in Ordered
         /\ job[run.turn].state \notin Over /\ job[run.turn].state # "absent"
BY DEF IInv, JobFits, IsNext, Ordered, Over

LEMMA JobBecomes ==
  ASSUME IInv, NEW t \in Turn, NEW state \in Ordered \cup Over, Becomes(t, state),
         told' = told, job[t].state # "absent",
         state \in Ordered => job[t].state \in Ordered,
         job[t].state = "done" => state = "done",
         state \in Over => job[t].state \in Over \/ Finishing(t)
  PROVE  JobStep /\ job'[t].state = state
<1>1. job \in [Turn -> Job] /\ told \subseteq Turn
  BY Parts DEF IInv
<1>2. job' \in [Turn -> Job] /\ job'[t].state = state /\ job'[t].sync = job[t].sync
  BY <1>1 DEF Becomes, Job, Ordered, Over
<1>3. \A u \in Turn : u # t => job'[u] = job[u]
  BY <1>1 DEF Becomes
<1>4. JobMoves(t)
  BY <1>2 DEF JobMoves, Ordered, Over
<1>5. \A u \in Turn : u # t => JobMoves(u)
  BY <1>3 DEF JobMoves
<1> QED BY <1>1, <1>2, <1>4, <1>5 DEF JobStep

LEMMA BeginStep ==
  ASSUME IInv, NEW t \in Turn, Begin(t)
  PROVE  Step
<1>1. row' = row /\ job' = job /\ told' = told /\ stop' = stop /\ mem' = mem /\ used' = used
      /\ host' = host /\ net' = net
  BY DEF Begin
<1>2. row[t] \in Row
  BY Types DEF IInv
<1>3. run' = [turn |-> t, at |-> "reading", waited |-> AbortsSettled(mem), view |-> row[t]]
  BY DEF Begin
<1>4. AbortsSettled(mem) \in BOOLEAN
  BY DEF AbortsSettled
<1>5. run' \in Alarm /\ run'.turn = t /\ run'.at = "reading" /\ run'.view = row'[t]
  BY <1>1, <1>2, <1>3, <1>4 DEF Alarm, Place
<1>6. run'.waited = AbortsSettled(mem')
  BY <1>1, <1>3
<1>7. IsNext(t) /\ job'[t].state \in Ordered
  BY <1>1 DEF Begin, IsNext
<1>8. Started' => AbortsSettled(mem')
  BY <1>5, <1>6 DEF Started, Executing
<1>9. RunStep
  BY <1>5, <1>7, <1>8 DEF RunStep, RunMoves
<1> QED BY <1>1, <1>9, RowSame, JobSame, SameNet, StopsSame, UseSame DEF Step

LEMMA StartStep ==
  ASSUME IInv, NEW t \in Turn, Start(t)
  PROVE  Step
<1>1. row' = row /\ told' = told /\ stop' = stop /\ mem' = mem /\ used' = used
      /\ host' = host /\ net' = net /\ run.turn = t /\ run.at = "reading" /\ run.waited
  BY DEF Start, At
<1>2. IsNext(t) /\ job[t].state \in Ordered /\ job[t].state \notin Over /\ job[t].state # "absent"
  BY <1>1, InHand DEF Holds
<1>3. job[t].state # "done"
  BY <1>2 DEF Over
<1>4. CASE run.view.status = "done"
  <2>1. Becomes(t, "done") /\ run' = Resting
    BY <1>4 DEF Start
  <2>2. ~row[t].envelope
    BY <1>1, <1>2, <1>4 DEF IInv, RunFits, RowFits
  <2>3. Finishing(t)
    BY <1>1, <2>2 DEF Finishing
  <2>4. JobStep
    BY <1>1, <1>2, <1>3, <2>1, <2>3, JobBecomes DEF Over, Ordered
  <2> QED BY <1>1, <2>1, <2>4, RowSame, RunRests, SameNet, StopsSame, UseSame DEF Step
<1>5. CASE run.view.status # "done" /\ run.view.stop = "held"
  <2>1. Becomes(t, "admitted") /\ run' = Resting
    BY <1>5 DEF Start
  <2>2. JobStep
    BY <1>1, <1>2, <1>3, <2>1, JobBecomes DEF Over, Ordered
  <2> QED BY <1>1, <2>1, <2>2, RowSame, RunRests, SameNet, StopsSame, UseSame DEF Step
<1>6. CASE run.view.status # "done" /\ run.view.stop # "held"
  <2>1. Becomes(t, "running") /\ Resumes(t, Resume(run.view))
    BY <1>6 DEF Start
  <2>2. JobStep /\ job'[t].state \in Ordered
    BY <1>1, <1>2, <1>3, <2>1, JobBecomes DEF Over, Ordered
  <2>3. Resume(run.view) \in {"ending", "reporting", "observing", "claimed"}
    BY DEF Resume
  <2>4. run' = [Resting EXCEPT !.turn = t, !.at = Resume(run.view)]
    BY <2>1 DEF Resumes
  <2>5. Resting \in Alarm
    BY DEF Resting, NoRow, Alarm, Place, Row
  <2>6. run' \in Alarm /\ run'.turn = t /\ run'.at = Resume(run.view)
    BY <2>3, <2>4, <2>5 DEF Alarm, Place, Executing
  <2>7. Open(t)
    BY <1>1, <1>6 DEF IInv, RunFits
  <2>8. Resume(run.view) = "reporting" => row[t].settled # "none"
    <3>1. Resume(run.view) = "reporting" => run.view.settled # "none"
      BY DEF Resume
    <3> QED BY <1>1, <3>1 DEF IInv, RunFits
  <2>9. Resume(run.view) = "ending" => row[t].stop = "stopped" /\ ~row[t].receipt
    <3>1. Resume(run.view) = "ending" => run.view.stop = "stopped" /\ ~run.view.receipt
      BY DEF Resume
    <3> QED BY <1>1, <3>1 DEF IInv, RunFits
  <2>10. Started
    BY <1>1 DEF Started
  <2>11. RunStep
    BY <1>1, <1>2, <2>2, <2>3, <2>6, <2>7, <2>8, <2>9, <2>10 DEF RunStep, RunMoves
  <2> QED BY <1>1, <2>2, <2>11, RowSame, SameNet, StopsSame, UseSame DEF Step
<1> QED BY <1>4, <1>5, <1>6

LEMMA OneRow ==
  ASSUME IInv, NEW t \in Turn, row' \in [Turn -> Row], RowMoves(t),
         \A u \in Turn : u # t => row'[u] = row[u]
  PROVE  RowStep
<1>1. \A u \in Turn : u # t => RowMoves(u)
  BY DEF RowMoves
<1> QED BY <1>1 DEF RowStep

----------------------------------------------------------------------------
(***************************************************************************)
(* The stops of the runner.                                                *)
(***************************************************************************)
LEMMA OneMarker ==
  ASSUME NEW s, MarkersOK(s), NEW t \in Turn, NEW n \in Marker,
         n.abort # "none" => row[t].stop = "stopped",
         n.instance => row[t].envelope
  PROVE  MarkersOK([s EXCEPT ![t] = n])
BY DEF MarkersOK

LEMMA LapsedOK ==
  ASSUME NEW s, MarkersOK(s), NEW m, NEW t \in Turn
  PROVE  MarkersOK(Lapsed(s, m, t))
<1> DEFINE n == [s[t] EXCEPT !.abort = IF @ = "owed" THEN "none" ELSE @,
                             !.cascade = IF @ = "owed" /\ s[t].abort # "done" /\ t \notin m.cascading
                                         THEN "none" ELSE @]
<1>1. s \in [Turn -> Marker] /\ s[t] \in Marker
  BY DEF MarkersOK
<1>2. n \in Marker /\ n.instance = s[t].instance /\ (n.abort # "none" => s[t].abort # "none")
  BY <1>1 DEF Marker
<1>3. MarkersOK([s EXCEPT ![t] = n])
  <2> HIDE DEF n
  <2> QED BY <1>2, OneMarker DEF MarkersOK
<1>4. Lapsed(s, m, t) = [s EXCEPT ![t] = n]
  BY <1>1 DEF Lapsed
<1> QED BY <1>3, <1>4

LEMMA NotedOK ==
  ASSUME NEW s, MarkersOK(s), NEW m, NEW t \in Turn, NEW outcome
  PROVE  MarkersOK(Noted(s, m, t, outcome))
<1>1. s \in [Turn -> Marker] /\ s[t] \in Marker
  BY DEF MarkersOK
<1>2. CASE outcome = "aborted"
  <2> DEFINE n == [s[t] EXCEPT !.abort = IF @ = "owed" THEN "done" ELSE @]
  <2>1. n \in Marker /\ n.instance = s[t].instance /\ (n.abort # "none" => s[t].abort # "none")
    BY <1>1 DEF Marker
  <2>2. MarkersOK([s EXCEPT ![t] = n])
    <3> HIDE DEF n
    <3> QED BY <2>1, OneMarker DEF MarkersOK
  <2>3. Noted(s, m, t, outcome) = [s EXCEPT ![t] = n]
    BY <1>1, <1>2 DEF Noted
  <2> QED BY <2>2, <2>3
<1>3. CASE outcome # "aborted"
  <2> DEFINE n == [s[t] EXCEPT !.abort = IF @ = "owed" THEN "none" ELSE @,
                               !.cascade = IF @ = "owed" /\ t \notin m.cascading
                                           THEN "none" ELSE @]
  <2>1. n \in Marker /\ n.instance = s[t].instance /\ (n.abort # "none" => s[t].abort # "none")
    BY <1>1 DEF Marker
  <2>2. MarkersOK([s EXCEPT ![t] = n])
    <3> HIDE DEF n
    <3> QED BY <2>1, OneMarker DEF MarkersOK
  <2>3. Noted(s, m, t, outcome) = [s EXCEPT ![t] = n]
    BY <1>1, <1>3 DEF Noted
  <2> QED BY <2>2, <2>3
<1> QED BY <1>2, <1>3

LEMMA RecordedOK ==
  ASSUME IInv, NEW t \in Turn, row[t].stop = "stopped", NEW owes \in {"none", "owed"}
  PROVE  MarkersOK(Recorded(stop, t, row[t], owes))
<1> DEFINE n == [known |-> TRUE, instance |-> stop[t].instance \/ row[t].envelope,
                 submission |-> stop[t].submission \/ row[t].receipt,
                 settled |-> stop[t].settled \/ row[t].settled # "none",
                 covered |-> stop[t].covered,
                 abort |-> IF stop[t].known THEN stop[t].abort ELSE owes,
                 cascade |-> IF stop[t].known THEN stop[t].cascade ELSE owes]
<1>1. MarkersOK(stop)
  BY StopSame, Parts DEF IInv, MarkersOK, StopFits
<1>2. stop[t] \in Marker /\ row[t] \in Row
  BY Types DEF IInv
<1>3. n \in Marker
  BY <1>2 DEF Marker, Row
<1>4. n.instance => row[t].envelope
  BY <1>1, <1>2 DEF MarkersOK
<1>5. MarkersOK([stop EXCEPT ![t] = n])
  <2> HIDE DEF n
  <2> QED BY <1>1, <1>3, <1>4, OneMarker
<1>6. Recorded(stop, t, row[t], owes) = [stop EXCEPT ![t] = n]
  BY DEF Recorded
<1> QED BY <1>5, <1>6

\* A marker that owes its abort again.
LEMMA OwedOK ==
  ASSUME NEW s, MarkersOK(s), NEW t \in Turn, s[t].abort # "none", NEW v \in {"owed", "done"}
  PROVE  MarkersOK([s EXCEPT ![t].abort = v])
<1> DEFINE n == [s[t] EXCEPT !.abort = v]
<1>1. s \in [Turn -> Marker] /\ s[t] \in Marker
  BY DEF MarkersOK
<1>2. n \in Marker /\ n.instance = s[t].instance
  BY <1>1 DEF Marker
<1>3. MarkersOK([s EXCEPT ![t] = n])
  <2> HIDE DEF n
  <2> QED BY <1>2, OneMarker DEF MarkersOK
<1> QED BY <1>3

LEMMA RenewedOK ==
  ASSUME NEW s, MarkersOK(s), NEW t \in Turn, NEW n
  PROVE  MarkersOK(Renewed(s, t, n))
BY OwedOK DEF Renewed

LEMMA TryAbortOK ==
  ASSUME NEW s, MarkersOK(s), NEW m, MemoryOK(m), NEW t \in Turn, TryAbort(s, m, t)
  PROVE  StopStep
<1>1. CASE stop' = s /\ mem' = m
  BY <1>1 DEF StopStep
<1>2. CASE stop' = Lapsed(s, m, t) /\ mem' = m
  BY <1>2, LapsedOK DEF StopStep
<1>3. CASE /\ s[t].abort = "owed" /\ s[t].instance /\ Stoppable(s, m, t) /\ stop' = s
           /\ mem' = [m EXCEPT !.request[t] =
                        [at |-> "out", covers |-> s[t].submission \/ t \in m.receipts]]
  <2> DEFINE q == [at |-> "out", covers |-> s[t].submission \/ t \in m.receipts]
  <2>1. q \in Request
    BY DEF Request, MarkersOK, Marker
  <2>2. m \in Memory /\ m.request \in [Turn -> Request]
    BY DEF MemoryOK, Memory
  <2>3. mem' = [m EXCEPT !.request = [m.request EXCEPT ![t] = q]]
    BY <1>3, <2>2 DEF Memory
  <2>4. mem' \in Memory /\ mem'.request = [m.request EXCEPT ![t] = q]
    <3> HIDE DEF q
    <3> QED BY <2>1, <2>2, <2>3 DEF Memory
  <2>5. row[t].stop = "stopped" /\ row[t].envelope /\ job[t].state \in Ordered
    BY <1>3 DEF MarkersOK, Stoppable
  <2>6. Requests(mem', t)
    BY <2>5 DEF Requests
  <2>7. \A u \in Turn : u # t => Requests(mem', u)
    <3> HIDE DEF q
    <3> QED BY <2>2, <2>4 DEF Requests, MemoryOK
  <2> QED BY <1>3, <2>4, <2>6, <2>7 DEF StopStep, MemoryOK
<1> QED BY <1>1, <1>2, <1>3 DEF TryAbort

----------------------------------------------------------------------------
(***************************************************************************)
(* The alarm executes its turn.                                            *)
(***************************************************************************)
LEMMA MarkersNow ==
  ASSUME IInv
  PROVE  MarkersOK(stop) /\ MemoryOK(mem)
BY Parts DEF IInv, MarkersOK, StopFits, MemoryOK, Requests

LEMMA Hand ==
  ASSUME IInv, NEW t \in Turn, run.turn = t, run.at \in Executing \ {"marking"}
  PROVE  /\ IsNext(t) /\ Open(t) /\ job[t].state \in Ordered
         /\ job[t].state \notin Over /\ job[t].state # "absent"
         /\ row[t] \in Row /\ run.at \notin {"idle", "reading", "marking"}
<1>1. Holds /\ run.at \notin {"idle", "reading", "marking"}
  BY DEF Holds, Executing
<1> QED BY <1>1, InHand, Types DEF IInv, RunFits

LEMMA PrepareStep ==
  ASSUME IInv, NEW t \in Turn, Prepare(t)
  PROVE  Step
<1>1. /\ run.turn = t /\ run.at = "claimed" /\ stop' = stop /\ mem' = mem /\ told' = told
      /\ host' = host /\ used' = used
  BY DEF Prepare, At
<1>2. /\ IsNext(t) /\ Open(t) /\ job[t].state \in Ordered
      /\ job[t].state \notin Over /\ job[t].state # "absent" /\ row[t] \in Row
  BY <1>1, Hand DEF Executing
<1>3. job[t].state # "done"
  BY <1>2 DEF Over
<1>4. CASE ~row[t].envelope /\ row[t].stop # "none"
  <2>1. Becomes(t, "admitted") /\ run' = Resting /\ row' = row /\ net' = net
    BY <1>4 DEF Prepare
  <2>2. JobStep
    BY <1>1, <1>2, <1>3, <2>1, JobBecomes DEF Over, Ordered
  <2> QED BY <1>1, <2>1, <2>2, RowSame, RunRests, SameNet, StopsSame, UseSame DEF Step
<1>5. CASE row[t].envelope \/ row[t].stop = "none"
  <2>1. /\ row' = [row EXCEPT ![t].envelope = TRUE] /\ job' = job
        /\ net' = [net EXCEPT !.dispatches = @ \cup {t}] /\ Goes("dispatching")
    BY <1>5 DEF Prepare
  <2>2. row \in [Turn -> Row] /\ net \in Wire
    BY Parts DEF IInv
  <2>3. row[t].stop # "held"
    BY <1>5 DEF IInv, RowFits
  <2>4. row' \in [Turn -> Row] /\ row'[t] = [row[t] EXCEPT !.envelope = TRUE]
    BY <1>2, <2>1, <2>2 DEF Row
  <2>5. RowMoves(t)
    BY <1>1, <1>2, <2>3, <2>4 DEF RowMoves, At, Row
  <2>6. RowStep
    BY <2>1, <2>2, <2>4, <2>5, OneRow
  <2>7. net' \in Wire /\ net'.dispatches = net.dispatches \cup {t}
    BY <2>1, <2>2 DEF Wire
  <2>8. HostStep
    BY <1>1, <1>2, <2>4, <2>7, Parts DEF HostStep, HostMoves, IInv, Row
  <2>9. RunStep
    BY <1>1, <1>2, <2>1, RunGoes DEF Executing
  <2> QED BY <1>1, <2>1, <2>6, <2>8, <2>9, JobSame, StopsSame, UseSame DEF Step
<1> QED BY <1>4, <1>5, <1>2 DEF Row

LEMMA RecordReceiptStep ==
  ASSUME IInv, NEW t \in Turn, RecordReceipt(t)
  PROVE  Step
<1>1. /\ run.turn = t /\ run.at = "dispatching" /\ stop' = stop /\ mem' = mem /\ told' = told
      /\ host' = host /\ used' = used /\ net' = net /\ job' = job
      /\ row' = [row EXCEPT ![t].receipt = TRUE] /\ Goes("received")
  BY DEF RecordReceipt, At
<1>2. job[t].state \in Ordered /\ row[t] \in Row
  BY <1>1, Hand DEF Executing
<1>3. row \in [Turn -> Row]
  BY Parts DEF IInv
<1>4. row' \in [Turn -> Row] /\ row'[t] = [row[t] EXCEPT !.receipt = TRUE]
  BY <1>1, <1>2, <1>3 DEF Row
<1>5. RowMoves(t)
  BY <1>1, <1>2, <1>4 DEF RowMoves, At, Row
<1>6. RowStep
  BY <1>1, <1>3, <1>4, <1>5, OneRow
<1>7. RunStep
  BY <1>1, <1>2, RunGoes DEF Executing
<1> QED BY <1>1, <1>6, <1>7, SameNet, JobSame, StopsSame, UseSame DEF Step

LEMMA ReceiptNoted ==
  ASSUME IInv, NEW t \in Turn
  PROVE  MemoryOK([mem EXCEPT !.receipts = @ \cup {t}])
<1>1. MemoryOK(mem)
  BY MarkersNow
<1> QED BY <1>1 DEF MemoryOK, Requests, Memory

LEMMA NoteReceiptStep ==
  ASSUME IInv, NEW t \in Turn, NoteReceipt(t)
  PROVE  Step
<1> DEFINE m == [mem EXCEPT !.receipts = @ \cup {t}]
<1>1. /\ run.turn = t /\ run.at = "received" /\ told' = told /\ row' = row
      /\ host' = host /\ used' = used /\ net' = net /\ job' = job /\ Goes("observing")
  BY DEF NoteReceipt, At
<1>2. job[t].state \in Ordered
  BY <1>1, Hand DEF Executing
<1>3. MemoryOK(m)
  BY ReceiptNoted
<1>4. StopStep
  <2>1. CASE stop[t].instance /\ stop[t].abort # "none" /\ ~stop[t].covered
    <3>1. TryAbort([stop EXCEPT ![t].abort = "owed"], m, t)
      BY <2>1 DEF NoteReceipt
    <3>2. MarkersOK([stop EXCEPT ![t].abort = "owed"])
      BY <2>1, MarkersNow, OwedOK
    <3> HIDE DEF m
    <3> QED BY <1>3, <3>1, <3>2, TryAbortOK
  <2>2. CASE ~(stop[t].instance /\ stop[t].abort # "none" /\ ~stop[t].covered)
    <3>1. mem' = m /\ stop' = stop
      BY <2>2 DEF NoteReceipt
    <3> QED BY <1>3, <3>1, StopSame DEF StopStep
  <2> QED BY <2>1, <2>2
<1>5. RunStep
  BY <1>1, <1>2, RunGoes DEF Executing
<1> QED BY <1>1, <1>4, <1>5, RowSame, SameNet, JobSame, UseSame DEF Step

LEMMA RecordSettlementStep ==
  ASSUME IInv, NEW t \in Turn, RecordSettlement(t)
  PROVE  Step
<1>1. /\ run.turn = t /\ run.at = "observing" /\ stop' = stop /\ mem' = mem /\ told' = told
      /\ host' = host /\ used' = used /\ net' = net /\ job' = job
      /\ row' = [row EXCEPT ![t].settled = host[t]] /\ host[t] \in Ended /\ Goes("settled")
  BY DEF RecordSettlement, At
<1>2. job[t].state \in Ordered /\ row[t] \in Row
  BY <1>1, Hand DEF Executing
<1>3. row \in [Turn -> Row]
  BY Parts DEF IInv
<1>4. row' \in [Turn -> Row] /\ row'[t] = [row[t] EXCEPT !.settled = host[t]]
  BY <1>1, <1>2, <1>3 DEF Row
<1>5. row'[t].settled = host[t] /\ host[t] # "none"
  BY <1>1, <1>2, <1>4 DEF Row, Ended
<1>6. RowMoves(t)
  BY <1>1, <1>2, <1>4, <1>5 DEF RowMoves, At, Row
<1>7. RowStep
  BY <1>1, <1>3, <1>4, <1>6, OneRow
<1>8. RunStep
  BY <1>1, <1>2, <1>5, RunGoes DEF Executing
<1> QED BY <1>1, <1>7, <1>8, SameNet, JobSame, StopsSame, UseSame DEF Step

LEMMA SettlementNoted ==
  ASSUME IInv, NEW t \in Turn
  PROVE  MemoryOK([mem EXCEPT !.settled = @ \cup {t}, !.receipts = @ \ {t}])
<1>1. MemoryOK(mem)
  BY MarkersNow
<1> QED BY <1>1 DEF MemoryOK, Requests, Memory

LEMMA NoteSettlementStep ==
  ASSUME IInv, NEW t \in Turn, NoteSettlement(t)
  PROVE  Step
<1>1. /\ run.turn = t /\ run.at = "settled" /\ told' = told /\ row' = row
      /\ host' = host /\ used' = used /\ net' = net /\ job' = job /\ Goes("reporting")
      /\ mem' = [mem EXCEPT !.settled = @ \cup {t}, !.receipts = @ \ {t}]
      /\ stop' = Noted(stop, mem, t, row[t].settled)
  BY DEF NoteSettlement, At
<1>2. job[t].state \in Ordered
  BY <1>1, Hand DEF Executing
<1>3. row[t].settled # "none"
  BY <1>1 DEF IInv, RunFits
<1>4. StopStep
  BY <1>1, MarkersNow, NotedOK, SettlementNoted DEF StopStep
<1>5. RunStep
  BY <1>1, <1>2, <1>3, RunGoes DEF Executing
<1> QED BY <1>1, <1>4, <1>5, RowSame, SameNet, JobSame, UseSame DEF Step

LEMMA CascadeNoted ==
  ASSUME IInv, NEW t \in Turn
  PROVE  MemoryOK([mem EXCEPT !.cascading = @ \cup {t}])
<1>1. MemoryOK(mem)
  BY MarkersNow
<1> QED BY <1>1 DEF MemoryOK, Requests, Memory

LEMMA CodingReportStep ==
  ASSUME IInv, NEW t \in Turn, CodingReport(t)
  PROVE  Step
<1>1. /\ run.turn = t /\ run.at = "reporting" /\ told' = told /\ row' = row
      /\ host' = host /\ used' = used /\ net' = net /\ job' = job /\ Goes("ending")
  BY DEF CodingReport, At
<1>2. job[t].state \in Ordered
  BY <1>1, Hand DEF Executing
<1>3. row[t].settled # "none"
  BY <1>1 DEF IInv, RunFits
<1>4. StopStep
  <2>1. CASE row[t].stop = "stopped" /\ row[t].settled = "aborted" /\ stop[t].cascade = "owed"
    <3>1. /\ stop' = [stop EXCEPT ![t].abort = IF @ = "owed" THEN "done" ELSE @]
          /\ mem' = [mem EXCEPT !.cascading = @ \cup {t}]
      BY <2>1 DEF CodingReport
    <3>2. stop' = Noted(stop, mem, t, "aborted")
      BY <3>1 DEF Noted
    <3>3. MarkersOK(Noted(stop, mem, t, "aborted"))
      BY MarkersNow, NotedOK
    <3>4. MarkersOK(stop')
      BY <3>2, <3>3
    <3>5. MemoryOK(mem')
      BY <3>1, CascadeNoted
    <3> QED BY <3>4, <3>5 DEF StopStep
  <2>2. CASE ~(row[t].stop = "stopped" /\ row[t].settled = "aborted" /\ stop[t].cascade = "owed")
    BY <2>2, StopsSame DEF CodingReport
  <2> QED BY <2>1, <2>2
<1>5. RunStep
  BY <1>1, <1>2, <1>3, RunGoes DEF Executing
<1> QED BY <1>1, <1>4, <1>5, RowSame, SameNet, JobSame, UseSame DEF Step

\* An ending in the state store: the turn's, and the release of what it held.
LEMMA DeliveredRows ==
  ASSUME IInv, NEW t \in Turn, row' = Delivered(row, t), job'[t].state \notin Ordered
  PROVE  RowStep
<1>1. row \in [Turn -> Row]
  BY Parts DEF IInv
<1>2. \A u \in Turn : row'[u] = IF u = t THEN [row[u] EXCEPT !.status = "done"]
                                ELSE IF row[u].stop = "held" /\ Open(u)
                                THEN [row[u] EXCEPT !.stop = "none"] ELSE row[u]
  BY DEF Delivered
<1>3. ASSUME NEW u \in Turn PROVE row'[u] \in Row /\ RowMoves(u)
  <2>1. row[u] \in Row
    BY <1>1
  <2>2. CASE u = t
    <3>1. row'[u] = [row[u] EXCEPT !.status = "done"]
      BY <1>2, <2>2
    <3> QED BY <2>1, <2>2, <3>1 DEF Row, RowMoves
  <2>3. CASE u # t /\ row[u].stop = "held" /\ Open(u)
    <3>1. row'[u] = [row[u] EXCEPT !.stop = "none"]
      BY <1>2, <2>3
    <3> QED BY <2>1, <2>3, <3>1 DEF Row, RowMoves
  <2>4. CASE u # t /\ ~(row[u].stop = "held" /\ Open(u))
    <3>1. row'[u] = row[u]
      BY <1>2, <2>4
    <3> QED BY <2>1, <3>1 DEF RowMoves
  <2> QED BY <2>2, <2>3, <2>4
<1>4. row' \in [Turn -> Row]
  BY <1>3 DEF Delivered
<1> QED BY <1>3, <1>4 DEF RowStep

\* The stopped ending of a turn drops what it held, none of which was dispatched.
LEMMA DroppedRows ==
  ASSUME IInv, NEW t \in Turn, run.turn = t, row[t].stop = "stopped", row' = Dropped(row)
  PROVE  RowStep
<1>1. row \in [Turn -> Row]
  BY Parts DEF IInv
<1>2. \A u \in Turn : row'[u] = IF row[u].stop = "held"
                                THEN [row[u] EXCEPT !.status = "done"] ELSE row[u]
  BY DEF Dropped
<1>3. ASSUME NEW u \in Turn PROVE row'[u] \in Row /\ RowMoves(u)
  <2>1. row[u] \in Row
    BY <1>1
  <2>2. CASE row[u].stop = "held"
    <3>1. row'[u] = [row[u] EXCEPT !.status = "done"]
      BY <1>2, <2>2
    <3>2. ~row[u].envelope /\ u # t
      BY <2>2 DEF IInv, RowFits
    <3> QED BY <2>1, <2>2, <3>1, <3>2 DEF Row, RowMoves
  <2>3. CASE row[u].stop # "held"
    <3>1. row'[u] = row[u]
      BY <1>2, <2>3
    <3> QED BY <2>1, <3>1 DEF RowMoves
  <2> QED BY <2>2, <2>3
<1>4. row' \in [Turn -> Row]
  BY <1>3 DEF Dropped
<1> QED BY <1>3, <1>4 DEF RowStep

LEMMA PostStep ==
  ASSUME IInv, NEW t \in Turn, Post(t)
  PROVE  Step
<1>1. /\ run.turn = t /\ run.at = "ending" /\ told' = told /\ stop' = stop /\ mem' = mem
      /\ host' = host /\ used' = used /\ net' = net
  BY DEF Post, At
<1>2. /\ job[t].state \in Ordered /\ job[t].state # "absent" /\ job[t].state # "done"
  BY <1>1, Hand DEF Executing, Over
<1>3. RowStep
  <2>1. CASE row[t].stop = "stopped" /\ row[t].settled # "completed"
    BY <1>1, <2>1, DroppedRows DEF Post
  <2>2. CASE ~(row[t].stop = "stopped" /\ row[t].settled # "completed")
    BY <2>2, RowSame DEF Post
  <2> QED BY <2>1, <2>2
<1>4. \/ row[t].settled # "none"
      \/ row[t].stop = "stopped" /\ ~row[t].receipt
  BY <1>1 DEF IInv, RunFits
<1>5. JobStep /\ RunStep
  <2>1. CASE Goes("posted") /\ job' = job
    BY <1>1, <1>2, <1>4, <2>1, JobSame, RunGoes DEF Executing
  <2>2. CASE run' = Resting /\ Becomes(t, "deferred")
    <3>1. Finishing(t)
      BY <1>1 DEF Finishing
    <3> QED BY <1>1, <1>2, <2>2, <3>1, JobBecomes, RunRests DEF Over, Ordered
  <2> QED BY <2>1, <2>2 DEF Post
<1> QED BY <1>1, <1>3, <1>5, SameNet, StopsSame, UseSame DEF Step

LEMMA SettleTerminalStep ==
  ASSUME IInv, NEW t \in Turn, SettleTerminal(t)
  PROVE  Step
<1>1. /\ run.turn = t /\ run.at = "posted" /\ row' = row /\ stop' = stop /\ mem' = mem
      /\ host' = host /\ used' = used /\ net' = net /\ told' = told \cup {t}
      /\ job' = [job EXCEPT ![t] = [state |-> "done", sync |-> TRUE]]
      /\ run' = [run EXCEPT !.at = "marking"]
  BY DEF SettleTerminal, At, Goes
<1>2. job \in [Turn -> Job] /\ told \subseteq Turn /\ run \in Alarm
  BY Parts DEF IInv
<1>3. job' \in [Turn -> Job] /\ job'[t] = [state |-> "done", sync |-> TRUE]
  BY <1>1, <1>2 DEF Job
<1>4. JobMoves(t)
  <2>1. job[t].state # "absent"
    BY <1>1, Hand DEF Executing
  <2> QED BY <1>1, <1>3, <2>1 DEF JobMoves, Finishing, Ordered
<1>5. ASSUME NEW u \in Turn, u # t PROVE JobMoves(u)
  <2>1. job'[u] = job[u] /\ (u \in told' <=> u \in told)
    BY <1>1, <1>2, <1>5
  <2> QED BY <2>1 DEF JobMoves
<1>6. JobStep
  BY <1>1, <1>2, <1>3, <1>4, <1>5 DEF JobStep
<1>7. run' \in Alarm /\ run'.turn = t /\ run'.at = "marking"
  BY <1>1, <1>2 DEF Alarm, Place, Executing
<1>8. ~Holds' /\ ~Started'
  BY <1>7 DEF Holds, Started, Executing
<1>9. RunStep
  BY <1>3, <1>7, <1>8 DEF RunStep, RunMoves
<1> QED BY <1>1, <1>6, <1>9, RowSame, SameNet, StopsSame, UseSame DEF Step

\* A job that is done stays so, whether its ending is still to be synced or not.
LEMMA DoneJob ==
  ASSUME IInv, NEW t \in Turn, job[t].state = "done", told' = told,
         job' \in [Turn -> Job], job'[t].state = "done",
         \A u \in Turn : u # t => job'[u] = job[u]
  PROVE  JobStep
<1>1. JobMoves(t)
  BY DEF JobMoves, Over, Ordered
<1>2. \A u \in Turn : u # t => JobMoves(u)
  BY DEF JobMoves
<1> QED BY <1>1, <1>2, Parts DEF JobStep, IInv

LEMMA MarkDeliveredStep ==
  ASSUME IInv, NEW t \in Turn, MarkDelivered(t)
  PROVE  Step
<1>1. /\ run.turn = t /\ run.at = "marking" /\ stop' = stop /\ mem' = mem
      /\ host' = host /\ net' = net /\ told' = told /\ run' = Resting
  BY DEF MarkDelivered, At
<1>2. job[t].state = "done" /\ job \in [Turn -> Job]
  BY <1>1, Parts DEF IInv, JobFits
<1>3. \/ job' = [job EXCEPT ![t].sync = FALSE, ![t].state = "done"]
      \/ job' = job
  BY <1>2 DEF MarkDelivered, Left
<1>4. /\ job' \in [Turn -> Job] /\ job'[t].state = "done"
      /\ \A u \in Turn : u # t => job'[u] = job[u]
  <2>1. CASE job' = [job EXCEPT ![t].sync = FALSE, ![t].state = "done"]
    BY <1>2, <2>1 DEF Job, Ordered
  <2>2. CASE job' = job
    BY <1>2, <2>2
  <2> QED BY <1>3, <2>1, <2>2
<1>5. JobStep
  BY <1>1, <1>2, <1>4, DoneJob
<1>6. RowStep
  BY <1>4, RowSame, DeliveredRows DEF MarkDelivered, Ordered
<1>7. used' \in Use
  BY UseSame, FaultUse DEF MarkDelivered
<1> QED BY <1>1, <1>5, <1>6, <1>7, RunRests, SameNet, StopsSame DEF Step

LEMMA SyncTerminalStep ==
  ASSUME IInv, NEW t \in Turn, SyncTerminal(t)
  PROVE  Step
<1>1. /\ run.at = "idle" /\ job[t].sync /\ row' = Delivered(row, t)
      /\ job' = [job EXCEPT ![t].sync = FALSE] /\ stop' = stop /\ mem' = mem /\ run' = run
      /\ host' = host /\ net' = net /\ told' = told /\ used' = used
  BY DEF SyncTerminal
<1>2. job[t].state = "done" /\ job \in [Turn -> Job]
  BY <1>1, Parts DEF IInv, JobFits
<1>3. /\ job' \in [Turn -> Job] /\ job'[t].state = "done"
      /\ \A u \in Turn : u # t => job'[u] = job[u]
  BY <1>1, <1>2 DEF Job
<1>4. \A u \in Turn : job'[u].state = job[u].state
  BY <1>2, <1>3
<1> QED BY <1>1, <1>2, <1>3, <1>4, DoneJob, DeliveredRows, RunSame, SameNet, StopsSame, UseSame
       DEF Step, Ordered

LEMMA CheckDeferredStep ==
  ASSUME IInv, NEW t \in Turn, CheckDeferred(t)
  PROVE  Step
<1>1. /\ run.at = "idle" /\ job[t].state = "deferred" /\ row' = row
      /\ Becomes(t, "done") /\ stop' = stop /\ mem' = mem /\ run' = run
      /\ host' = host /\ net' = net /\ told' = told /\ used' = used
  BY DEF CheckDeferred
<1>2. JobStep
  BY <1>1, JobBecomes DEF Over, Ordered
<1>3. run' \in Alarm /\ ~Holds' /\ ~Started'
  BY <1>1, Parts DEF IInv, Holds, Started, Executing
<1>4. RunStep
  BY <1>1, <1>3 DEF RunStep, RunMoves
<1> QED BY <1>1, <1>2, <1>4, RowSame, SameNet, StopsSame, UseSame DEF Step

LEMMA LeaveStep ==
  ASSUME IInv, NEW t \in Turn, Leave(t)
  PROVE  Step
<1>1. /\ run.turn = t /\ run.at \in Executing \ {"marking"} /\ row' = row
      /\ stop' = stop /\ mem' = mem /\ run' = Resting
      /\ host' = host /\ net' = net /\ told' = told
      /\ Fault
  BY DEF Leave
<1>2. PICK state \in {"running", "yielded", "admitted"} : Becomes(t, state)
  BY DEF Leave
<1>3. job[t].state \in Ordered /\ job[t].state # "absent" /\ job[t].state # "done"
  BY <1>1, Hand DEF Over
<1>4. JobStep
  BY <1>1, <1>2, <1>3, JobBecomes DEF Over, Ordered
<1> QED BY <1>1, <1>4, RowSame, RunRests, SameNet, StopsSame, FaultUse DEF Step

----------------------------------------------------------------------------
(***************************************************************************)
(* The `stop` RPC and the requests it makes.                               *)
(***************************************************************************)
\* A row the RPC leaves as it was, but for the notice it answers.
LEMMA AnsweredRow ==
  ASSUME IInv, NEW t \in Turn, NEW owed \in BOOLEAN, owed => row[t].owed,
         row' = [row EXCEPT ![t].owed = owed]
  PROVE  RowStep
<1>1. row \in [Turn -> Row] /\ row[t] \in Row
  BY Parts DEF IInv
<1>2. row' \in [Turn -> Row] /\ row'[t] = [row[t] EXCEPT !.owed = owed]
  BY <1>1 DEF Row
<1>3. RowMoves(t)
  BY <1>1, <1>2 DEF RowMoves, Row
<1> QED BY <1>1, <1>2, <1>3, OneRow

LEMMA ReceiveStep ==
  ASSUME IInv, NEW t \in Turn, Receive(t)
  PROVE  Step
<1> DEFINE n == row[t]
           live == n.settled = "none" /\ Stoppable(stop, mem, t)
           owes == IF live /\ n.envelope THEN "owed" ELSE "none"
           s == Recorded(stop, t, n, owes)
           acknowledged == ~live \/ ~n.envelope \/ Covered(s, t)
<1>1. /\ row[t].owed /\ job' = job /\ run' = run /\ host' = host /\ net' = net /\ told' = told
  BY DEF Receive
<1>2. row[t].stop = "stopped" /\ row \in [Turn -> Row] /\ row[t] \in Row
  BY <1>1, Parts DEF IInv, RowFits
<1>3. owes \in {"none", "owed"}
  OBVIOUS
<1>4. MarkersOK(s)
  <2> HIDE DEF owes
  <2> QED BY <1>2, <1>3, RecordedOK
<1>5. StopStep
  <2>1. CASE live
    <3>1. TryAbort(Renewed(s, t, n), mem, t)
      BY <2>1 DEF Receive
    <3> HIDE DEF s, n
    <3>2. MarkersOK(Renewed(s, t, n))
      BY <1>4, RenewedOK
    <3> QED BY <3>1, <3>2, MarkersNow, TryAbortOK
  <2>2. CASE ~live /\ n.settled # "none"
    <3>1. /\ stop' = Noted(s, mem, t, n.settled)
          /\ mem' = [mem EXCEPT !.settled = @ \cup {t}, !.receipts = @ \ {t}]
      BY <2>2 DEF Receive
    <3> HIDE DEF s, n
    <3>2. MarkersOK(Noted(s, mem, t, n.settled))
      BY <1>4, NotedOK
    <3>3. MemoryOK(mem')
      BY <3>1, SettlementNoted
    <3> QED BY <3>1, <3>2, <3>3 DEF StopStep
  <2>3. CASE ~live /\ n.settled = "none"
    <3>1. /\ stop' = IF s[t].abort = "owed" THEN Lapsed(s, mem, t) ELSE s
          /\ mem' = mem
      BY <2>3 DEF Receive
    <3> HIDE DEF s, n
    <3> QED BY <1>4, <3>1, LapsedOK, MarkersNow DEF StopStep
  <2> QED BY <2>1, <2>2, <2>3
<1>6. RowStep /\ used' \in Use
  <2>1. CASE row' = [row EXCEPT ![t].owed = @ /\ ~acknowledged] /\ used' = used
    <3>1. row' = [row EXCEPT ![t].owed = (row[t].owed /\ ~acknowledged)]
      BY <1>2, <2>1
    <3>2. (row[t].owed /\ ~acknowledged) \in BOOLEAN
      OBVIOUS
    <3> HIDE DEF acknowledged
    <3> QED BY <2>1, <3>1, <3>2, AnsweredRow, UseSame
  <2>2. CASE Fault /\ row' = row
    BY <2>2, RowSame, FaultUse
  <2> QED BY <2>1, <2>2 DEF Receive
<1> QED BY <1>1, <1>5, <1>6, JobSame, SameRun, SameNet DEF Step

LEMMA ClosedOK ==
  ASSUME IInv, NEW t \in Turn, mem' = Closed(mem, t)
  PROVE  MemoryOK(mem')
<1>1. MemoryOK(mem) /\ mem \in Memory
  BY MarkersNow DEF MemoryOK
<1>2. mem' \in Memory /\ mem'.request = [mem.request EXCEPT ![t] = NoRequest]
  BY <1>1 DEF Closed, Memory, Request
<1>3. \A u \in Turn : Requests(mem', u)
  BY <1>1, <1>2 DEF Requests, Memory
<1> QED BY <1>2, <1>3 DEF MemoryOK

\* A turn that waits for requests goes on when none is out.
LEMMA ProceedsStep ==
  ASSUME IInv, Proceeds(mem'), job' = job
  PROVE  RunStep
<1>1. CASE run.at # "reading"
  BY <1>1, SameRun DEF Proceeds
<1>2. CASE run.at = "reading"
  <2>1. run \in Alarm /\ run' = [run EXCEPT !.waited = @ \/ AbortsSettled(mem')]
    BY <1>2, Parts DEF IInv, Proceeds
  <2>2. run' = [run EXCEPT !.waited = (run.waited \/ AbortsSettled(mem'))]
    BY <2>1 DEF Alarm
  <2>3. (run.waited \/ AbortsSettled(mem')) \in BOOLEAN
    OBVIOUS
  <2>4. /\ run' \in Alarm /\ run'.turn = run.turn /\ run'.at = "reading" /\ run'.view = run.view
        /\ run'.waited => run.waited \/ AbortsSettled(mem')
    BY <1>2, <2>1, <2>2, <2>3 DEF Alarm
  <2>5. run.turn \in Turn /\ IsNext(run.turn) /\ job'[run.turn].state \in Ordered
    BY <1>2, InHand DEF Holds
  <2>6. Started' => (Started /\ run'.turn = run.turn) \/ AbortsSettled(mem')
    BY <1>2, <2>4 DEF Started, Executing
  <2> QED BY <1>2, <2>4, <2>5, <2>6 DEF RunStep, RunMoves
<1> QED BY <1>1, <1>2

LEMMA AnswerStep ==
  ASSUME IInv, NEW t \in Turn, Answer(t)
  PROVE  Step
<1>1. /\ row' = row /\ job' = job /\ host' = host /\ net' = net /\ told' = told /\ used' = used
      /\ mem' = Closed(mem, t) /\ Proceeds(mem')
  BY DEF Answer
<1> DEFINE moot == stop[t].abort = "owed" /\ ~Stoppable(stop, mem, t)
<1>2. MarkersOK(stop')
  <2>1. CASE stop[t].abort = "none"
    BY <2>1, MarkersNow DEF Answer
  <2>2. CASE stop[t].abort # "none" /\ moot
    <3>1. stop' = Lapsed(stop, mem, t)
      BY <2>2 DEF Answer
    <3> QED BY <3>1, MarkersNow, LapsedOK
  <2>3. CASE stop[t].abort # "none" /\ ~moot
    <3> DEFINE q == [stop[t] EXCEPT !.abort = "done", !.covered = @ \/ mem.request[t].covers]
    <3>1. stop \in [Turn -> Marker] /\ stop[t] \in Marker /\ mem.request[t].covers \in BOOLEAN
      <4>1. mem.request[t] \in Request
        BY Parts DEF IInv, Memory
      <4>2. \A r \in [at: {"out", "landed"}, covers: BOOLEAN] : r.covers \in BOOLEAN
        OBVIOUS
      <4>3. mem.request[t] = NoRequest => mem.request[t].covers = FALSE
        BY DEF NoRequest
      <4>4. mem.request[t].covers \in BOOLEAN
        BY <4>1, <4>2, <4>3 DEF Request
      <4> QED BY <4>4, Parts DEF IInv
    <3>2. stop' = [stop EXCEPT ![t] = q]
      BY <2>3, <3>1 DEF Answer
    <3>3. q \in Marker /\ q.instance = stop[t].instance
      BY <3>1 DEF Marker
    <3>4. row[t].stop = "stopped" /\ (q.instance => row[t].envelope)
      BY <2>3, <3>3, MarkersNow DEF MarkersOK
    <3> HIDE DEF q
    <3> QED BY <3>2, <3>3, <3>4, MarkersNow, OneMarker
  <2> QED BY <2>1, <2>2, <2>3
<1> QED BY <1>1, <1>2, ClosedOK, ProceedsStep, RowSame, JobSame, SameNet, UseSame DEF Step, StopStep

LEMMA GiveUpRequestStep ==
  ASSUME IInv, NEW t \in Turn, GiveUpRequest(t)
  PROVE  Step
<1>1. /\ row' = row /\ job' = job /\ host' = host /\ told' = told /\ stop' = stop
      /\ mem' = Closed(mem, t) /\ Proceeds(mem') /\ Fault
      /\ net' = [net EXCEPT !.strays = IF mem.request[t].at = "out" THEN @ + 1 ELSE @]
  BY DEF GiveUpRequest
<1>2. net \in Wire /\ net.strays + 1 \in Nat
  BY Parts DEF IInv, Wire
<1>3. net' \in Wire /\ net'.dispatches = net.dispatches
  BY <1>1, <1>2 DEF Wire
<1> QED BY <1>1, <1>3, ClosedOK, ProceedsStep, RowSame, JobSame, HostSame, StopSame, FaultUse
       DEF Step, StopStep

LEMMA FollowUpStep ==
  ASSUME IInv, NEW t \in Turn, FollowUp(t)
  PROVE  Step
<1>1. /\ row' = row /\ job' = job /\ host' = host /\ net' = net /\ told' = told /\ used' = used
      /\ run' = run
  BY DEF FollowUp
<1>2. CASE TryAbort(stop, mem, t)
  BY <1>1, <1>2, MarkersNow, TryAbortOK, RowSame, JobSame, SameNet, SameRun, UseSame DEF Step
<1>3. CASE stop' = Lapsed(stop, mem, t) /\ mem' = mem
  BY <1>1, <1>3, MarkersNow, LapsedOK, RowSame, JobSame, SameNet, SameRun, UseSame
     DEF Step, StopStep
<1>4. CASE mem' = [mem EXCEPT !.cascading = @ \cup {t}] /\ stop' = stop
  <2>1. MemoryOK(mem')
    BY <1>4, CascadeNoted
  <2> QED BY <1>1, <1>4, <2>1, StopSame, RowSame, JobSame, SameNet, SameRun, UseSame
         DEF Step, StopStep
<1> QED BY <1>2, <1>3, <1>4 DEF FollowUp

LEMMA CascadeEndsStep ==
  ASSUME IInv, NEW t \in Turn, CascadeEnds(t)
  PROVE  Step
<1>1. /\ row' = row /\ job' = job /\ host' = host /\ net' = net /\ told' = told /\ run' = run
      /\ mem' = [mem EXCEPT !.cascading = @ \ {t}]
  BY DEF CascadeEnds
<1>2. MemoryOK(mem')
  BY <1>1, MarkersNow DEF MemoryOK, Requests, Memory
<1>3. CASE stop' = [stop EXCEPT ![t].cascade = "done"] /\ used' = used
  <2> DEFINE q == [stop[t] EXCEPT !.cascade = "done"]
  <2>1. stop[t] \in Marker /\ stop' = [stop EXCEPT ![t] = q]
    BY <1>3, Types DEF IInv
  <2>2. q \in Marker /\ q.instance = stop[t].instance /\ q.abort = stop[t].abort
    BY <2>1 DEF Marker
  <2>3. (q.abort # "none" => row[t].stop = "stopped") /\ (q.instance => row[t].envelope)
    BY <2>2, MarkersNow DEF MarkersOK
  <2>4. MarkersOK(stop')
    <3> HIDE DEF q
    <3> QED BY <2>1, <2>2, <2>3, MarkersNow, OneMarker
  <2> QED BY <1>1, <1>2, <1>3, <2>4, RowSame, JobSame, SameNet, SameRun, UseSame DEF Step, StopStep
<1>4. CASE Fault /\ stop' = stop
  BY <1>1, <1>2, <1>4, StopSame, RowSame, JobSame, SameNet, SameRun, FaultUse DEF Step, StopStep
<1> QED BY <1>3, <1>4 DEF CascadeEnds

----------------------------------------------------------------------------
(***************************************************************************)
(* The state store, the Flue instance, an eviction.                        *)
(***************************************************************************)
LEMMA AdmitStep ==
  ASSUME IInv, NEW t \in Turn, Admit(t)
  PROVE  Step
<1>1. /\ Open(t) /\ \A u \in Turn : u < t /\ Open(u) => row[u].confirmed
      /\ job' = [job EXCEPT ![t].state = IF @ = "absent" THEN "admitted" ELSE @]
      /\ stop' = stop /\ mem' = mem /\ run' = run /\ host' = host /\ net' = net /\ told' = told
  BY DEF Admit, Admitted
<1>2. job \in [Turn -> Job] /\ row \in [Turn -> Row] /\ told \subseteq Turn
  BY Parts DEF IInv
<1>3. /\ job' \in [Turn -> Job]
      /\ job'[t].state = IF job[t].state = "absent" THEN "admitted" ELSE job[t].state
      /\ job'[t].sync = job[t].sync
  BY <1>1, <1>2 DEF Job, Ordered
<1>4. \A u \in Turn : u # t => job'[u] = job[u]
  BY <1>1, <1>2
<1>5. JobMoves(t)
  BY <1>1, <1>3 DEF JobMoves, Ordered, Over
<1>6. \A u \in Turn : u # t => JobMoves(u)
  BY <1>1, <1>4 DEF JobMoves
<1>7. JobStep
  BY <1>1, <1>2, <1>3, <1>5, <1>6 DEF JobStep
<1>8. RunStep
  <2>1. \A u \in Turn : job[u].state # "absent" => job'[u].state = job[u].state
    BY <1>3, <1>4
  <2> QED BY <1>1, <2>1, RunSame DEF Ordered
<1>9. RowStep /\ used' \in Use
  <2>1. CASE row' = [row EXCEPT ![t].confirmed = TRUE] /\ used' = used
    <3>1. row' \in [Turn -> Row] /\ row'[t] = [row[t] EXCEPT !.confirmed = TRUE] /\ row[t] \in Row
      BY <1>2, <2>1 DEF Row
    <3>2. job'[t].state # "absent"
      BY <1>3
    <3>3. RowMoves(t)
      BY <3>1, <3>2 DEF RowMoves, Row
    <3> QED BY <1>2, <2>1, <3>1, <3>3, OneRow, UseSame
  <2>2. CASE Fault /\ row' = row
    BY <2>2, RowSame, FaultUse
  <2> QED BY <2>1, <2>2 DEF Admit
<1> QED BY <1>1, <1>7, <1>8, <1>9, SameNet, StopsSame DEF Step

LEMMA PressStep ==
  ASSUME IInv, NEW t \in Turn, Press(t)
  PROVE  Step
<1>1. /\ Open(t) /\ used.stops < MaxStops /\ used' = [used EXCEPT !.stops = @ + 1]
      /\ \A u \in Turn : Open(u) => row[u].stop = "none"
      /\ job' = job /\ stop' = stop /\ mem' = mem /\ run' = run /\ host' = host /\ net' = net
      /\ told' = told
  BY DEF Press
<1>2. PICK held \in SUBSET {u \in Turn : u > t /\ Open(u) /\ ~row[u].envelope} :
         row' = [u \in Turn |->
                   IF u = t THEN [row[u] EXCEPT !.stop = "stopped", !.owed = TRUE]
                   ELSE IF u \in held THEN [row[u] EXCEPT !.stop = "held"] ELSE row[u]]
  BY DEF Press
<1>3. row \in [Turn -> Row] /\ used \in Use
  BY Parts DEF IInv
<1>4. ASSUME NEW u \in Turn PROVE row'[u] \in Row /\ RowMoves(u)
  <2>1. row[u] \in Row
    BY <1>3
  <2>2. CASE u = t
    <3>1. row'[u] = [row[u] EXCEPT !.stop = "stopped", !.owed = TRUE]
      BY <1>2, <2>2
    <3> QED BY <2>1, <3>1 DEF Row, RowMoves
  <2>3. CASE u # t /\ u \in held
    <3>1. row'[u] = [row[u] EXCEPT !.stop = "held"]
      BY <1>2, <2>3
    <3>2. ~row[u].envelope /\ row[u].stop = "none"
      BY <1>1, <2>3
    <3>3. ~row[u].owed
      BY <3>2 DEF IInv, RowFits
    <3> QED BY <2>1, <3>1, <3>2, <3>3 DEF Row, RowMoves
  <2>4. CASE u # t /\ u \notin held
    <3>1. row'[u] = row[u]
      BY <1>2, <2>4
    <3> QED BY <2>1, <3>1 DEF RowMoves
  <2> QED BY <2>2, <2>3, <2>4
<1>5. RowStep
  BY <1>2, <1>4 DEF RowStep
<1>6. used' \in Use
  BY <1>1, <1>3, RunnerAssumption DEF Use
<1> QED BY <1>1, <1>5, <1>6, JobSame, SameRun, SameNet, StopsSame DEF Step

LEMMA OutboxDeliversStep ==
  ASSUME IInv, NEW t \in Turn, OutboxDelivers(t)
  PROVE  Step
<1>1. /\ job[t].state = "deferred" /\ row' = Delivered(row, t) /\ job' = job /\ stop' = stop
      /\ mem' = mem /\ run' = run /\ host' = host /\ net' = net /\ told' = told /\ used' = used
  BY DEF OutboxDelivers
<1>2. job'[t].state \notin Ordered
  BY <1>1 DEF Ordered
<1> QED BY <1>1, <1>2, DeliveredRows, JobSame, SameRun, SameNet, StopsSame, UseSame DEF Step

LEMMA DispatchLandsStep ==
  ASSUME IInv, NEW t \in Turn, DispatchLands(t)
  PROVE  Step
<1>1. /\ t \in net.dispatches /\ row' = row /\ job' = job /\ stop' = stop /\ mem' = mem
      /\ run' = run /\ told' = told /\ used' = used
      /\ net' = [net EXCEPT !.dispatches = @ \ {t}]
      /\ host' = [host EXCEPT ![t] = IF @ = "none" THEN "running" ELSE @]
  BY DEF DispatchLands
<1>2. net \in Wire /\ host \in [Turn -> {"none", "running"} \cup Ended]
  BY Parts DEF IInv
<1>3. net' \in Wire /\ net'.dispatches = net.dispatches \ {t}
  BY <1>1, <1>2 DEF Wire
<1>4. /\ host' \in [Turn -> {"none", "running"} \cup Ended]
      /\ \A u \in Turn : host'[u] = host[u] \/ (u = t /\ host[u] = "none")
  BY <1>1, <1>2
<1>5. HostStep
  BY <1>1, <1>3, <1>4 DEF HostStep, HostMoves, Ended
<1> QED BY <1>1, <1>5, RowSame, JobSame, SameRun, StopsSame, UseSame DEF Step

LEMMA SubmissionEndsStep ==
  ASSUME IInv, NEW t \in Turn, SubmissionEnds(t)
  PROVE  Step
<1>1. /\ host[t] = "running" /\ row' = row /\ job' = job /\ stop' = stop /\ mem' = mem
      /\ run' = run /\ told' = told /\ used' = used /\ net' = net
      /\ host' = [host EXCEPT ![t] = "completed"]
  BY DEF SubmissionEnds
<1>2. net \in Wire /\ host \in [Turn -> {"none", "running"} \cup Ended]
  BY Parts DEF IInv
<1>3. HostStep
  BY <1>1, <1>2 DEF HostStep, HostMoves, Ended
<1> QED BY <1>1, <1>3, RowSame, JobSame, SameRun, StopsSame, UseSame DEF Step

LEMMA AbortedHost ==
  ASSUME IInv, host' = Aborted, net' \in Wire, net'.dispatches = net.dispatches
  PROVE  HostStep
<1>1. host \in [Turn -> {"none", "running"} \cup Ended]
  BY Parts DEF IInv
<1>2. \A t \in Turn : host'[t] = IF host[t] = "running" THEN "aborted" ELSE host[t]
  BY DEF Aborted
<1>3. host' \in [Turn -> {"none", "running"} \cup Ended]
  BY <1>1 DEF Aborted, Ended
<1> QED BY <1>2, <1>3 DEF HostStep, HostMoves, Ended

LEMMA AbortLandsStep ==
  ASSUME IInv, NEW t \in Turn, AbortLands(t)
  PROVE  Step
<1>1. /\ mem.request[t].at = "out" /\ row' = row /\ job' = job /\ stop' = stop
      /\ run' = run /\ told' = told /\ used' = used /\ net' = net /\ host' = Aborted
      /\ mem' = [mem EXCEPT !.request[t].at = "landed"]
  BY DEF AbortLands
<1> DEFINE q == [mem.request[t] EXCEPT !.at = "landed"]
<1>2. mem \in Memory /\ mem.request \in [Turn -> Request] /\ mem.request[t] \in Request
  BY Parts DEF IInv, Memory
<1>3. q \in Request /\ mem.request[t] # NoRequest
  BY <1>1, <1>2 DEF Request, NoRequest
<1>4. mem' = [mem EXCEPT !.request = [mem.request EXCEPT ![t] = q]]
  BY <1>1, <1>2 DEF Memory
<1>5. MemoryOK(mem')
  <2> HIDE DEF q
  <2>1. mem' \in Memory /\ mem'.request = [mem.request EXCEPT ![t] = q]
    BY <1>2, <1>3, <1>4 DEF Memory
  <2>2. \A u \in Turn : Requests(mem', u)
    BY <1>2, <1>3, <2>1 DEF Requests
  <2> QED BY <2>1, <2>2 DEF MemoryOK
<1>6. HostStep
  BY <1>1, AbortedHost, Parts DEF IInv
<1> QED BY <1>1, <1>5, <1>6, RowSame, JobSame, SameRun, StopSame, UseSame DEF Step, StopStep

LEMMA StrayLandsStep ==
  ASSUME IInv, StrayLands
  PROVE  Step
<1>1. /\ net.strays > 0 /\ row' = row /\ job' = job /\ stop' = stop /\ mem' = mem
      /\ run' = run /\ told' = told /\ used' = used /\ host' = Aborted
      /\ net' = [net EXCEPT !.strays = @ - 1]
  BY DEF StrayLands
<1>2. net \in Wire /\ net.strays - 1 \in Nat
  BY <1>1, Parts DEF IInv, Wire
<1>3. net' \in Wire /\ net'.dispatches = net.dispatches
  BY <1>1, <1>2 DEF Wire
<1> QED BY <1>1, <1>3, AbortedHost, RowSame, JobSame, SameRun, StopsSame, UseSame DEF Step

LEMMA EvictStep ==
  ASSUME IInv, Evict
  PROVE  Step
<1> DEFINE out == {t \in Turn : mem.request[t].at = "out"}
<1>1. /\ row' = row /\ job' = job /\ stop' = stop /\ host' = host /\ told' = told /\ Fault
      /\ mem' = Forgotten /\ run' = Resting
      /\ net' = [net EXCEPT !.strays = @ + Cardinality(out)]
  BY DEF Evict
<1>2. Cardinality(out) \in Nat
  BY RunnerAssumption, FS_Subset, FS_CardinalityType
<1>3. net \in Wire /\ net.strays + Cardinality(out) \in Nat
  BY <1>2, Parts DEF IInv, Wire
<1>4. net' \in Wire /\ net'.dispatches = net.dispatches
  <2> HIDE DEF out
  <2> QED BY <1>1, <1>3 DEF Wire
<1>5. MemoryOK(mem')
  BY <1>1 DEF MemoryOK, Memory, Requests, Forgotten, Request
<1> QED BY <1>1, <1>4, <1>5, HostSame, RowSame, JobSame, RunRests, StopSame, FaultUse
       DEF Step, StopStep

----------------------------------------------------------------------------
(***************************************************************************)
(* The invariant, and what it says.                                        *)
(***************************************************************************)
LEMMA InitFits ==
  ASSUME Init
  PROVE  IInv
<1>1. RunnerTypeOK
  <2>1. row \in [Turn -> Row] /\ job \in [Turn -> Job] /\ stop \in [Turn -> Marker]
    BY DEF Init, NoRow, Row, Job, Marker
  <2>2. mem \in Memory
    BY DEF Init, Forgotten, Memory, Request
  <2>3. run \in Alarm
    BY DEF Init, Resting, NoRow, Row, Alarm, Place
  <2>4. net \in Wire /\ host \in [Turn -> {"none", "running"} \cup Ended] /\ told \subseteq Turn
    BY DEF Init, Wire
  <2>5. used \in Use
    BY RunnerAssumption DEF Init, Use
  <2> QED BY <2>1, <2>2, <2>3, <2>4, <2>5
         DEF RunnerTypeOK, Memory, Alarm, Place, Wire, Use
<1>2. run.at = "idle" /\ told = {} /\ net.dispatches = {}
  BY DEF Init, Resting
<1>3. ~Holds /\ ~Started
  BY <1>2 DEF Holds, Started, Executing
<1>4. \A t \in Turn : /\ row[t] = NoRow /\ host[t] = "none"
                      /\ job[t] = [state |-> "absent", sync |-> FALSE]
                      /\ stop[t].abort = "none" /\ ~stop[t].instance
                      /\ mem.request[t] = NoRequest
  BY DEF Init, Forgotten
<1>5. JobFits
  BY <1>2, <1>3, <1>4 DEF JobFits, NoRow
<1>6. RowFits
  BY <1>4 DEF RowFits, NoRow, Ordered
<1>7. HostFits
  BY <1>2, <1>4 DEF HostFits, NoRow
<1>8. RunFits
  BY <1>2 DEF RunFits
<1>9. StopFits
  BY <1>3, <1>4 DEF StopFits, NoRow
<1> QED BY <1>1, <1>5, <1>6, <1>7, <1>8, <1>9 DEF IInv

LEMMA NextStep ==
  ASSUME IInv, Next
  PROVE  Step
<1>1. CASE Evict
  BY <1>1, EvictStep
<1>2. CASE StrayLands
  BY <1>2, StrayLandsStep
<1>3. CASE \E t \in Turn : Turns(t)
  BY <1>3, BeginStep, StartStep, PrepareStep, RecordReceiptStep, NoteReceiptStep,
     RecordSettlementStep, NoteSettlementStep, CodingReportStep, PostStep,
     SettleTerminalStep, MarkDeliveredStep DEF Turns
<1>4. CASE \E t \in Turn : Rows(t) \/ Leave(t) \/ Stops(t) \/ GiveUpRequest(t)
  BY <1>4, SyncTerminalStep, CheckDeferredStep, LeaveStep, ReceiveStep, AnswerStep,
     FollowUpStep, CascadeEndsStep, GiveUpRequestStep DEF Rows, Stops
<1>5. CASE \E t \in Turn : \/ Admit(t) \/ Press(t) \/ OutboxDelivers(t)
                           \/ DispatchLands(t) \/ SubmissionEnds(t) \/ AbortLands(t)
  BY <1>5, AdmitStep, PressStep, OutboxDeliversStep, DispatchLandsStep, SubmissionEndsStep,
     AbortLandsStep
<1> QED BY <1>1, <1>2, <1>3, <1>4, <1>5 DEF Next

LEMMA StutterFits ==
  ASSUME IInv, UNCHANGED vars
  PROVE  IInv'
<1>1. /\ row' = row /\ job' = job /\ stop' = stop /\ mem' = mem /\ run' = run
      /\ host' = host /\ net' = net /\ told' = told /\ used' = used
  BY DEF vars
<1> QED BY <1>1, RowSame, JobSame, SameNet, SameRun, StopsSame, UseSame, StepFits DEF Step

\* The inductive invariant: every turn's row, job, request and submission fit its
\* place in the thread.
THEOREM RunnerInvariance == Spec => []IInv
<1>1. Init => IInv
  BY InitFits
<1>2. IInv /\ [Next]_vars => IInv'
  BY NextStep, StepFits, StutterFits
<1> QED BY <1>1, <1>2, PTL DEF Spec

\* Every variable keeps its type (RunnerTypeOK).
THEOREM RunnerTypeCorrect == Spec => []RunnerTypeOK
<1>1. IInv => RunnerTypeOK
  BY DEF IInv
<1> QED BY <1>1, RunnerInvariance, PTL

\* A turn whose ending was reported to the state store is never executed again
\* (NoReplayAfterMark, markDelivered).
THEOREM NeverReplayed == Spec => []NoReplayAfterMark
<1>1. IInv => NoReplayAfterMark
  <2>1. SUFFICES ASSUME IInv, run.at \in Executing \ {"marking"}
                 PROVE  run.turn \notin told
    BY DEF NoReplayAfterMark
  <2>2. Holds
    BY <2>1 DEF Holds, Executing
  <2>3. job[run.turn].state \in Ordered
    BY <2>1, <2>2, InHand
  <2> QED BY <2>1, <2>3 DEF IInv, JobFits, Ordered
<1> QED BY <1>1, RunnerInvariance, PTL

\* Of two turns of a thread that Flue runs at once, the earlier was stopped before
\* its receipt was recorded (OneRunAtATime, runOne's order).
THEOREM OneAtATime == Spec => []OneRunAtATime
<1>1. IInv => OneRunAtATime
  <2>1. SUFFICES ASSUME IInv, NEW t \in Turn, NEW u \in Turn, t < u,
                        host[t] = "running", host[u] = "running"
                 PROVE  row[t].stop = "stopped" /\ ~row[t].receipt
    BY DEF OneRunAtATime
  <2>2. row[t].envelope /\ row[u].envelope
    BY <2>1 DEF IInv, HostFits
  <2>3. job[t].state \in Over
    <3>1. job[t].state \notin Ordered /\ job[t].state # "absent"
      BY <2>1, <2>2 DEF IInv, HostFits
    <3> QED BY <2>1, <3>1, Types DEF IInv, Job, Over
  <2> QED BY <2>1, <2>2, <2>3 DEF IInv, HostFits, Ended
<1> QED BY <1>1, RunnerInvariance, PTL

\* The abort of a turn that lands while the runner waits for it ends no turn but a
\* stopped one (AbortSparesOthers, tryAbort).
THEOREM AbortsSpareOthers == Spec => AbortSparesOthers
<1> DEFINE Spared == \A t, u \in Turn :
              (/\ mem.request[t].at = "out" /\ mem'.request[t].at = "landed"
               /\ host[u] = "running" /\ host'[u] = "aborted")
              => row[u].stop = "stopped"
<1>1. IInv /\ [Next]_vars => [Spared]_vars
  <2>1. SUFFICES ASSUME IInv, NEW t \in Turn, NEW u \in Turn, mem.request[t].at = "out",
                        host[u] = "running"
                 PROVE  row[u].stop = "stopped"
    OBVIOUS
  <2>2. mem.request[t] # NoRequest
    BY <2>1 DEF NoRequest
  <2>3. row[t].stop = "stopped" /\ row[t].envelope /\ row[u].envelope
    BY <2>1, <2>2 DEF IInv, StopFits, HostFits
  <2>4. CASE u < t
    <3>1. job[u].state \notin Ordered /\ job[u].state # "absent"
      BY <2>1, <2>3, <2>4 DEF IInv, HostFits
    <3>2. job[u].state \in Over
      BY <2>1, <3>1, Types DEF IInv, Job, Over
    <3> QED BY <2>1, <2>3, <3>2 DEF IInv, HostFits, Ended
  <2>5. CASE t < u
    BY <2>1, <2>2, <2>3, <2>5 DEF IInv, StopFits
  <2>6. CASE t = u
    BY <2>3, <2>6
  <2>7. t \in Nat /\ u \in Nat
    BY RunnerAssumption
  <2> QED BY <2>4, <2>5, <2>6, <2>7
<1> QED BY <1>1, RunnerInvariance, PTL DEF Spec, AbortSparesOthers
=============================================================================
