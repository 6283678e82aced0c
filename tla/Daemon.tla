------------------------------- MODULE Daemon -------------------------------
(***************************************************************************)
(* main.go: the process of the run, index and serve commands.              *)
(*                                                                         *)
(* Its goroutines are main itself, the indexer loop, the one that waits    *)
(* for the interrupt to shut the server down, and one for each request.    *)
(* What Run does inside is the module Scanner: here it returns, with or    *)
(* without an error.  http.Server and database/sql are external: after a   *)
(* call of Shutdown, ListenAndServe returns at once, while the requests    *)
(* that were accepted go on; a query on a closed database is an error.     *)
(***************************************************************************)
EXTENDS Integers, FiniteSets

CONSTANT Requests   \* the requests that clients make

VARIABLES
  cmd,      \* the command
  poll,     \* index: was a positive -poll given?  (run always has one)
  proc,     \* main: "starting", "up", "returning", "closed", then "exited"
  code,     \* the exit code
  ctx,      \* the context: "live", "done" once the interrupt has arrived
  store,    \* the store: "none", "open", "closed"
  loop,     \* the indexer loop: "none", "run" in Run, "pause" in select, "ended";
            \* "doomed" in a Run that was called with a context that is done
  server,   \* the server: "none", "listening", "closed" by Shutdown, "failed" by itself
  reqs      \* reqs[r]: "new", "accepted", "read", "error", then "ok", "failed" or "lost"

vars == <<cmd, poll, proc, code, ctx, store, loop, server, reqs>>

Init ==
  /\ cmd \in {"run", "index", "serve"}
  /\ poll \in BOOLEAN
  /\ cmd = "run" => poll
  /\ cmd = "serve" => ~poll
  /\ proc = "starting" /\ code = 0
  /\ ctx = "live" /\ store = "none" /\ loop = "none" /\ server = "none"
  /\ reqs = [r \in Requests |-> "new"]

\* The process is gone, and what its goroutines were doing.
Exit(c) ==
  /\ proc' = "exited" /\ code' = c
  /\ loop' = "ended"
  /\ server' = "closed"
  /\ reqs' = [r \in Requests |->
               IF reqs[r] \in {"accepted", "read", "error"} THEN "lost" ELSE reqs[r]]

\* log.Fatalf: the deferred calls are not made.
Fatal == Exit(1) /\ UNCHANGED <<cmd, poll, ctx, store>>

\* main returns: first the deferred st.Close, ...
Return == proc' = "returning" /\ UNCHANGED <<cmd, poll, code, ctx, store, server, reqs>>

CloseStore ==
  /\ proc = "returning"
  /\ proc' = "closed" /\ store' = "closed"
  /\ UNCHANGED <<cmd, poll, code, ctx, loop, server, reqs>>

\* ... then the process ends.
MainReturns == proc = "closed" /\ Exit(0) /\ UNCHANGED <<cmd, poll, ctx, store>>

-----------------------------------------------------------------------------
\* OpenSQLite, and the goroutines.

\* Run's first call, LoadCursor, fails if the context is done.
CallRun == IF ctx = "done" THEN "doomed" ELSE "run"

Open ==
  /\ proc = "starting"
  /\ proc' = "up" /\ store' = "open"
  /\ loop' = IF cmd = "serve" THEN "none" ELSE CallRun
  /\ UNCHANGED <<cmd, poll, code, ctx, server, reqs>>

OpenFails == proc = "starting" /\ Fatal

\* os.Interrupt, once; NotifyContext takes no notice of another.
Interrupt ==
  /\ proc \in {"starting", "up"} /\ ctx = "live"
  /\ ctx' = "done"
  /\ UNCHANGED <<cmd, poll, proc, code, store, loop, server, reqs>>

-----------------------------------------------------------------------------
\* The indexer loop.

Running == loop \in {"run", "doomed"} /\ proc # "exited"

\* Run returns nil: it caught up.  An interrupt may have come after its last call.
RunSucceeds ==
  /\ Running /\ loop = "run" /\ store = "open"
  /\ IF poll THEN loop' = "pause" /\ UNCHANGED <<cmd, poll, proc, code, ctx, store, server, reqs>>
     ELSE loop' = "ended" /\ Return

\* Faulty: the goroutine ends with the first error.
RunFailsInRunOnce ==
  /\ Running /\ cmd = "run"
  /\ loop' = "ended"
  /\ UNCHANGED <<cmd, poll, proc, code, ctx, store, server, reqs>>

\* Faulty: log.Fatalf, as in cmdIndex.
RunFailsInRunFatal == Running /\ cmd = "run" /\ Fatal

\* cmdRun: an error is logged.
RunFailsInRun ==
  /\ Running /\ cmd = "run"
  /\ loop' = "pause"
  /\ UNCHANGED <<cmd, poll, proc, code, ctx, store, server, reqs>>

\* Faulty: the error is retried, the context is not looked at.
RunFailsInIndexRetry ==
  /\ Running /\ cmd = "index"
  /\ loop' = "pause"
  /\ UNCHANGED <<cmd, poll, proc, code, ctx, store, server, reqs>>

\* Faulty: every error ends the command like an interrupt.
RunFailsInIndexReturn == Running /\ cmd = "index" /\ loop' = "ended" /\ Return

\* cmdIndex: an error is the end, and a clean one if it may be due to the interrupt.
RunFailsInIndex ==
  /\ Running /\ cmd = "index"
  /\ IF ctx = "done" THEN loop' = "ended" /\ Return ELSE Fatal

\* select: the timer, or the context.  Once both are ready, either may be taken.
Tick ==
  /\ loop = "pause" /\ proc # "exited"
  /\ loop' = CallRun
  /\ UNCHANGED <<cmd, poll, proc, code, ctx, store, server, reqs>>

LoopEnds ==
  /\ loop = "pause" /\ ctx = "done" /\ proc # "exited"
  /\ loop' = "ended"
  /\ IF cmd = "index" THEN Return
     ELSE UNCHANGED <<cmd, poll, proc, code, ctx, store, server, reqs>>

-----------------------------------------------------------------------------
\* The server.

Listen ==
  /\ proc = "up" /\ cmd # "index" /\ server = "none"
  /\ server' = "listening"
  /\ UNCHANGED <<cmd, poll, proc, code, ctx, store, loop, reqs>>

\* The address is in use.
ListenFails == proc = "up" /\ cmd # "index" /\ server = "none" /\ Fatal

\* The goroutine that waits for the context.
Shutdown ==
  /\ proc = "up" /\ cmd # "index" /\ ctx = "done" /\ server \in {"none", "listening"}
  /\ server' = "closed"
  /\ UNCHANGED <<cmd, poll, proc, code, ctx, store, loop, reqs>>

\* ListenAndServe returns ErrServerClosed.
ServeReturns ==
  /\ proc = "up" /\ server = "closed"
  /\ Return
  /\ UNCHANGED loop

\* The listener of a server that is not shut down fails: ListenAndServe has another error, ...
AcceptFails ==
  /\ proc = "up" /\ server = "listening"
  /\ server' = "failed"
  /\ UNCHANGED <<cmd, poll, proc, code, ctx, store, loop, reqs>>

\* ... which main takes as fatal.
ServeFails == proc = "up" /\ server = "failed" /\ Fatal

To(r, s) == reqs' = [reqs EXCEPT ![r] = s]
                 /\ UNCHANGED <<cmd, poll, proc, code, ctx, store, loop, server>>

Accept(r) == server = "listening" /\ reqs[r] = "new" /\ To(r, "accepted")

\* The handler's call of the store.
Query(r) ==
  /\ proc # "exited" /\ reqs[r] = "accepted"
  /\ \/ store = "open" /\ To(r, "read")
     \/ To(r, "error")

Respond(r) ==
  /\ proc # "exited"
  /\ \/ reqs[r] = "read" /\ To(r, "ok")
     \/ reqs[r] = "error" /\ To(r, "failed")

-----------------------------------------------------------------------------
Loop == RunSucceeds \/ RunFailsInRun \/ RunFailsInIndex \/ Tick \/ LoopEnds

Main ==
  \/ Open \/ OpenFails \/ CloseStore \/ MainReturns
  \/ Listen \/ ListenFails \/ ServeReturns \/ ServeFails

Handler(r) == Query(r) \/ Respond(r)

Ended == proc = "exited" /\ UNCHANGED vars

Next ==
  \/ Main \/ Loop \/ Shutdown \/ Interrupt \/ AcceptFails \/ Ended
  \/ \E r \in Requests : Accept(r) \/ Handler(r)

\* Every goroutine runs: each call of the node and of the store returns (the RPC client
\* gives up after 30 seconds), the timer fires, and Go schedules a goroutine that can run.
Spec ==
  /\ Init /\ [][Next]_vars
  /\ WF_vars(Main) /\ WF_vars(Loop) /\ WF_vars(Shutdown)
  /\ \A r \in Requests : WF_vars(Handler(r))

-----------------------------------------------------------------------------
\* Properties.

\* cmdRun: "a transient RPC error is logged and retried [...] rather than taking down the
\* API".  Whatever Run returns, until the interrupt a server that listens goes on listening,
\* on an open store, unless its own listener fails.
ApiStaysUp ==
  [][server = "listening" /\ ctx = "live" =>
       server' \in {"listening", "failed"} /\ store' = "open" /\ proc' = "up"]_vars

\* A request that was accepted is lost only to the interrupt or to the listener's failure:
\* without either it is answered in the end.
AcceptedIsAnswered ==
  \A r \in Requests :
    reqs[r] = "accepted" ~> reqs[r] \in {"ok", "failed"} \/ ctx = "done" \/ server = "failed"

\* cmdRun: "retried on the next tick".  The loop calls Run again and again, until the
\* interrupt or until the process could not listen, or listen on.
KeepsPolling == cmd = "run" /\ proc = "up" ~> loop = "run" \/ ctx = "done" \/ proc = "exited"

\* One interrupt ends the process, in every command and wherever each goroutine is.
InterruptEnds == ctx = "done" ~> proc = "exited"

\* An exit code of zero without an interrupt: index caught up.  The store was closed.
CleanExit ==
  proc = "exited" /\ code = 0 =>
    /\ store = "closed"
    /\ ctx = "done" \/ (cmd = "index" /\ ~poll)

\* README: "`run`/`index` [...] A transient RPC error is logged and retried on the next
\* poll".  index -poll, once the store is open, ends only by an interrupt.
IndexKeepsPolling ==
  cmd = "index" /\ poll /\ store # "none" /\ proc = "exited" => ctx = "done"
=============================================================================
