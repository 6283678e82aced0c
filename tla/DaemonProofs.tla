---------------------------- MODULE DaemonProofs ----------------------------
(***************************************************************************)
(* Proofs, for every set of requests and every interleaving of the         *)
(* goroutines, of the safety properties of the process.                    *)
(***************************************************************************)
EXTENDS Daemon, TLAPS

States == {"new", "accepted", "read", "error", "ok", "failed", "lost"}

\* The types of the variables.
DaemonTypeOK ==
  /\ cmd \in {"run", "index", "serve"}
  /\ poll \in BOOLEAN
  /\ proc \in {"starting", "up", "returning", "closed", "exited"}
  /\ code \in {0, 1}
  /\ ctx \in {"live", "done"}
  /\ store \in {"none", "open", "closed"}
  /\ loop \in {"none", "run", "doomed", "pause", "ended"}
  /\ server \in {"none", "listening", "closed", "failed"}
  /\ reqs \in [Requests -> States]

\* The store is opened before main goes on, and closed by its deferred call only.
StoreFollowsMain ==
  /\ proc = "starting" => store = "none"
  /\ proc \in {"up", "returning"} => store = "open"
  /\ proc = "closed" => store = "closed"

\* Which goroutines a command has.
Goroutines ==
  /\ cmd = "run" => poll
  /\ cmd = "serve" => loop \in {"none", "ended"}
  /\ proc = "starting" => loop = "none" /\ server = "none"
  /\ cmd = "index" /\ proc # "exited" => server = "none"
  /\ cmd = "index" /\ proc \in {"returning", "closed"} => loop = "ended"

\* main is on its way out only for a reason, and a server is closed only by the interrupt
\* or with its process.
OnlyForAReason ==
  /\ proc \in {"returning", "closed"} => ctx = "done" \/ (cmd = "index" /\ ~poll)
  /\ server = "closed" => ctx = "done" \/ proc = "exited"
  /\ server = "listening" => proc # "exited"

DaemonInv == DaemonTypeOK /\ StoreFollowsMain /\ Goroutines /\ OnlyForAReason /\ CleanExit

-----------------------------------------------------------------------------
\* The process starts with the invariant.
LEMMA DaemonInit == Init => DaemonInv
BY DEF Init, DaemonInv, DaemonTypeOK, StoreFollowsMain, Goroutines, OnlyForAReason, CleanExit,
       States

\* Every step keeps the types.
LEMMA DaemonTypeStep == DaemonTypeOK /\ [Next]_vars => DaemonTypeOK'
<1> SUFFICES ASSUME DaemonTypeOK, [Next]_vars
             PROVE  DaemonTypeOK'
  OBVIOUS
<1> USE DEF DaemonTypeOK
<1>1. ASSUME NEW c \in {0, 1}, Exit(c), UNCHANGED <<cmd, poll, ctx, store>>
      PROVE  DaemonTypeOK'
  BY <1>1 DEF Exit, States
<1>2. ASSUME NEW r \in Requests, NEW s \in States, To(r, s)
      PROVE  DaemonTypeOK'
  BY <1>2 DEF To
<1>3. CASE Open \/ CloseStore \/ Listen \/ ServeReturns
  BY <1>3 DEF Open, CloseStore, Listen, ServeReturns, CallRun, Return
<1>4. CASE OpenFails \/ ListenFails \/ ServeFails \/ MainReturns
  BY <1>1, <1>4 DEF OpenFails, ListenFails, ServeFails, MainReturns, Fatal
<1>5. CASE RunSucceeds \/ RunFailsInRun \/ Tick \/ LoopEnds
  BY <1>5 DEF RunSucceeds, RunFailsInRun, Tick, LoopEnds, CallRun, Return
<1>6. CASE RunFailsInIndex
  BY <1>1, <1>6 DEF RunFailsInIndex, Return, Fatal
<1>7. CASE Shutdown \/ Interrupt \/ AcceptFails \/ Ended \/ UNCHANGED vars
  BY <1>7 DEF Shutdown, Interrupt, AcceptFails, Ended, vars
<1>8. CASE \E r \in Requests : Accept(r) \/ Handler(r)
  BY <1>2, <1>8 DEF Accept, Handler, Query, Respond, States
<1> QED
  BY <1>3, <1>4, <1>5, <1>6, <1>7, <1>8 DEF Next, Main, Loop

\* Every step keeps the rest of the invariant.
LEMMA DaemonControlStep ==
  DaemonInv /\ [Next]_vars => (StoreFollowsMain /\ Goroutines /\ OnlyForAReason /\ CleanExit)'
<1> SUFFICES ASSUME DaemonInv, [Next]_vars
             PROVE  (StoreFollowsMain /\ Goroutines /\ OnlyForAReason /\ CleanExit)'
  OBVIOUS
<1> USE DEF DaemonInv, DaemonTypeOK, StoreFollowsMain, Goroutines, OnlyForAReason, CleanExit
<1>1. CASE OpenFails \/ ListenFails \/ ServeFails \/ MainReturns
  BY <1>1 DEF OpenFails, ListenFails, ServeFails, MainReturns, Fatal, Exit
<1>2. CASE Open \/ CloseStore \/ Listen \/ ServeReturns
  BY <1>2 DEF Open, CloseStore, Listen, ServeReturns, Return, CallRun
<1>3. CASE RunSucceeds
  BY <1>3 DEF RunSucceeds, Running, Return
<1>4. CASE RunFailsInRun \/ RunFailsInIndex
  BY <1>4 DEF RunFailsInRun, RunFailsInIndex, Running, Return, Fatal, Exit
<1>5. CASE Tick \/ LoopEnds
  BY <1>5 DEF Tick, LoopEnds, CallRun, Return
<1>6. CASE Shutdown \/ Interrupt \/ AcceptFails \/ Ended \/ UNCHANGED vars
  BY <1>6 DEF Shutdown, Interrupt, AcceptFails, Ended, vars
<1>7. CASE \E r \in Requests : Accept(r) \/ Handler(r)
  BY <1>7 DEF Accept, Handler, Query, Respond, To
<1> QED
  BY <1>1, <1>2, <1>3, <1>4, <1>5, <1>6, <1>7 DEF Next, Main, Loop

\* The invariant holds throughout.
THEOREM DaemonInvariance == Spec => []DaemonInv
<1>1. DaemonInv /\ [Next]_vars => DaemonInv'
  BY DaemonTypeStep, DaemonControlStep DEF DaemonInv
<1>2. Init /\ [][Next]_vars => []DaemonInv
  BY <1>1, DaemonInit, PTL
<1> QED
  BY <1>2, PTL DEF Spec

\* main.go: an exit code of zero means that the store was closed, and that the interrupt
\* came or that index without -poll has caught up.
THEOREM ExitsCleanly == Spec => []CleanExit
<1>1. DaemonInv => CleanExit
  BY DEF DaemonInv
<1> QED
  BY <1>1, DaemonInvariance, PTL

\* What one step may do to a server that listens.
StaysUp ==
  server = "listening" /\ ctx = "live" =>
    server' \in {"listening", "failed"} /\ store' = "open" /\ proc' = "up"

\* No step but the interrupt makes way for the shutdown.
LEMMA StaysUpStep == DaemonInv /\ [Next]_vars => [StaysUp]_vars
<1> SUFFICES ASSUME DaemonInv, [Next]_vars, server = "listening", ctx = "live"
             PROVE  server' \in {"listening", "failed"} /\ store' = "open" /\ proc' = "up"
  BY DEF StaysUp
<1>0. proc = "up" /\ cmd # "index" /\ store = "open"
  BY DEF DaemonInv, DaemonTypeOK, StoreFollowsMain, Goroutines, OnlyForAReason
<1>1. CASE Main \/ Shutdown \/ Interrupt \/ AcceptFails \/ Ended \/ UNCHANGED vars
  BY <1>0, <1>1 DEF Main, Open, OpenFails, CloseStore, MainReturns, Listen, ListenFails,
     ServeReturns, ServeFails, Shutdown, Interrupt, AcceptFails, Ended, vars
<1>2. CASE Loop
  BY <1>0, <1>2 DEF DaemonInv, DaemonTypeOK, Goroutines, Loop, RunSucceeds, RunFailsInRun,
     RunFailsInIndex, Tick, LoopEnds, Running
<1>3. CASE \E r \in Requests : Accept(r) \/ Handler(r)
  BY <1>0, <1>3 DEF Accept, Handler, Query, Respond, To
<1> QED
  BY <1>1, <1>2, <1>3 DEF Next

\* cmdRun: whatever Run returns and however requests and the indexer interleave, a server
\* that listens goes on listening on an open store until the interrupt, unless its own
\* listener fails.
THEOREM ServerStaysUp == Spec => ApiStaysUp
<1>1. Spec => [][StaysUp]_vars
  <2>1. Init /\ [][Next]_vars /\ []DaemonInv => [][StaysUp]_vars
    BY StaysUpStep, PTL
  <2> QED
    BY <2>1, DaemonInvariance, PTL DEF Spec
<1> QED
  BY <1>1 DEF ApiStaysUp, StaysUp
=============================================================================
