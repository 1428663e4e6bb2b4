------------------------------- MODULE Serve --------------------------------
(***************************************************************************)
(* One life of the daemon (cmd/redrill/serve.go, serve): boot, the         *)
(* scheduler loop, the HTTP API's "Run now", the background sweeper, and   *)
(* the shutdown that drains all of them before the store is closed.  The   *)
(* gate is the one of Gate.tla; this module says who calls it and when.    *)
(*                                                                         *)
(* A goroutine of Gate.tla is here first the caller (the scheduler loop or *)
(* an HTTP handler) and then the run goroutine it starts.  A run is        *)
(* abstracted to its uses of the store: CreateRun under the run's context, *)
(* FinishRun and afterRun regardless of it (RunLifecycle.tla has the run). *)
(***************************************************************************)
EXTENDS Gate

CONSTANT Timed        \* the drills configured with a timeout

ASSUME ServeAssumption == Timed \subseteq Drills

VARIABLES phase,      \* where the main goroutine is in serve
          ctx,        \* the daemon's context: "live" or "done"
          handler,    \* goroutines that are an HTTP handler, before the gate
          waited,     \* the WaitGroup that counts a run goroutine
          row,        \* a run goroutine's use of the store
          sweeper     \* the staleness sweeper (and heartbeat) goroutine

serveVars == <<phase, ctx, handler, waited, row, sweeper>>

allVars == <<vars, serveVars>>

Phases == {"boot", "loop", "schedWait", "shutdown", "apiWait", "auxWait", "closed"}

ServeInit ==
  /\ Init
  /\ phase = "boot"
  /\ ctx = "live"
  /\ handler = {}
  /\ waited = [g \in Goroutines |-> "none"]
  /\ row = [g \in Goroutines |-> "none"]
  /\ sweeper = "off"

-----------------------------------------------------------------------------
\* The main goroutine.

\* Boot succeeds: the HTTP server listens, the sweeper starts if notifications
\* are configured, and the scheduler loop begins.
Boot ==
  /\ phase = "boot"
  /\ phase' = "loop"
  /\ sweeper' \in {"off", "on"}
  /\ UNCHANGED <<vars, ctx, handler, waited, row>>

\* Boot fails (schedule, server configuration, listen): serve returns and the
\* deferred Close shuts the store.
BootFails ==
  /\ phase = "boot"
  /\ phase' = "closed"
  /\ UNCHANGED <<vars, ctx, handler, waited, row, sweeper>>

\* SIGTERM or SIGINT.
Signal ==
  /\ ctx = "live"
  /\ ctx' = "done"
  /\ UNCHANGED <<vars, phase, handler, waited, row, sweeper>>

\* The loop's select takes ctx.Done().
StopLoop ==
  /\ phase = "loop"
  /\ ctx = "done"
  /\ phase' = "schedWait"
  /\ UNCHANGED <<vars, ctx, handler, waited, row, sweeper>>

\* s.wg.Wait() returns and the HTTP server stops accepting.
SchedulerDrained ==
  /\ phase = "schedWait"
  /\ \A g \in Goroutines : waited[g] # "sched"
  /\ phase' = "shutdown"
  /\ UNCHANGED <<vars, ctx, handler, waited, row, sweeper>>

\* httpSrv.Shutdown returns: no handler is left, or its ten seconds are over
\* and a slow handler is still on its way to the gate.
ShutdownReturns ==
  /\ phase = "shutdown"
  /\ phase' = "apiWait"
  /\ UNCHANGED <<vars, ctx, handler, waited, row, sweeper>>

\* Mutation: the drain of the API runs is missing.
ApiNotDrained ==
  /\ phase = "apiWait"
  /\ phase' = "auxWait"
  /\ UNCHANGED <<vars, ctx, handler, waited, row, sweeper>>

\* apiWG.Wait() returns.
ApiDrained ==
  /\ phase = "apiWait"
  /\ \A g \in Goroutines : waited[g] # "api"
  /\ phase' = "auxWait"
  /\ UNCHANGED <<vars, ctx, handler, waited, row, sweeper>>

\* wg.Wait() returns; serve returns and its deferred Close shuts the store.
CloseStore ==
  /\ phase = "auxWait"
  /\ sweeper = "off"
  /\ phase' = "closed"
  /\ UNCHANGED <<vars, ctx, handler, waited, row, sweeper>>

\* runSweeps and runHeartbeat see ctx.Done() between two ticks.
SweeperStops ==
  /\ sweeper = "on"
  /\ ctx = "done"
  /\ sweeper' = "off"
  /\ UNCHANGED <<vars, phase, ctx, handler, waited, row>>

-----------------------------------------------------------------------------
\* The two callers of the gate.

\* A goroutine slot that no earlier run occupies.
Fresh(g) == pc[g] = "idle" /\ waited[g] = "none" /\ g \notin handler

Claim(g, d, group) ==
  /\ TryAcquire(g, d)
  /\ waited' = [waited EXCEPT ![g] = group]
  /\ row' = [row EXCEPT ![g] = "none"]

\* dispatch of a due job; a job the gate does not admit is dropped and leaves
\* no trace but a log line.  The loop's select may take a wake that is ready
\* together with ctx.Done(), so a dispatch after the signal is possible.
Dispatch(g, d) ==
  /\ phase = "loop"
  /\ Fresh(g)
  /\ Claim(g, d, "sched")
  /\ UNCHANGED <<phase, ctx, handler, sweeper>>

\* A POST reaches the trigger handler while the server accepts connections,
\* which it does from before the loop until Shutdown.
Request(g) ==
  /\ phase \in {"loop", "schedWait"}
  /\ Fresh(g)
  /\ handler' = handler \cup {g}
  /\ UNCHANGED <<vars, phase, ctx, waited, row, sweeper>>

\* apiTrigger: the claim succeeds, apiWG counts the run, the reply is 202.
Accepted(g, d) ==
  /\ g \in handler
  /\ Claim(g, d, "api")
  /\ handler' = handler \ {g}
  /\ UNCHANGED <<phase, ctx, sweeper>>

\* apiTrigger: the gate does not admit the drill (409), or no such drill.
Refused(g) ==
  /\ g \in handler
  /\ handler' = handler \ {g}
  /\ UNCHANGED <<vars, phase, ctx, waited, row, sweeper>>

-----------------------------------------------------------------------------
\* The run goroutine.

InRun(g) == pc[g] = "running" /\ waited[g] # "none"

\* CreateRun, under a context that derives from the daemon's.
CreateRun(g) ==
  /\ InRun(g) /\ row[g] = "none"
  /\ ctx = "live"
  /\ row' = [row EXCEPT ![g] = "open"]
  /\ UNCHANGED <<vars, phase, ctx, handler, waited, sweeper>>

\* CreateRun fails (the context is done, a timeout, the store): the run
\* returns its error and runOnce ends without a row or an alert.
CreateRunFails(g) ==
  /\ InRun(g) /\ row[g] = "none"
  /\ row' = [row EXCEPT ![g] = "over"]
  /\ UNCHANGED <<vars, phase, ctx, handler, waited, sweeper>>

\* FinishRun and the writes behind it, which ignore the cancellation; with an
\* error from the run (or no notifier) the goroutine is done, otherwise
\* afterRun reads the store once more.
FinishRun(g) ==
  /\ InRun(g) /\ row[g] = "open"
  /\ \E next \in {"finished", "over"} : row' = [row EXCEPT ![g] = next]
  /\ UNCHANGED <<vars, phase, ctx, handler, waited, sweeper>>

AfterRun(g) ==
  /\ InRun(g) /\ row[g] = "finished"
  /\ row' = [row EXCEPT ![g] = "over"]
  /\ UNCHANGED <<vars, phase, ctx, handler, waited, sweeper>>

\* The deferred calls, in the order they unwind: release, then Done.
ReleaseMark(g) ==
  /\ row[g] = "over"
  /\ Unmark(g)
  /\ UNCHANGED serveVars

ReleaseToken(g) ==
  /\ FreeToken(g)
  /\ UNCHANGED serveVars

\* Mutation: Done is deferred last, so it unwinds before the release.
DoneBeforeRelease(g) ==
  /\ row[g] = "over"
  /\ waited[g] # "none"
  /\ waited' = [waited EXCEPT ![g] = "none"]
  /\ UNCHANGED <<vars, phase, ctx, handler, row, sweeper>>

Done(g) ==
  /\ pc[g] = "idle"
  /\ waited[g] # "none"
  /\ waited' = [waited EXCEPT ![g] = "none"]
  /\ UNCHANGED <<vars, phase, ctx, handler, row, sweeper>>

-----------------------------------------------------------------------------
RunGoroutine(g) ==
  \/ CreateRun(g)
  \/ CreateRunFails(g)
  \/ FinishRun(g)
  \/ AfterRun(g)
  \/ ReleaseMark(g)
  \/ ReleaseToken(g)
  \/ Done(g)

Main ==
  \/ Boot
  \/ BootFails
  \/ StopLoop
  \/ SchedulerDrained
  \/ ShutdownReturns
  \/ ApiDrained
  \/ CloseStore

ServeNext ==
  \/ Main
  \/ Signal
  \/ SweeperStops
  \/ \E g \in Goroutines :
       \/ RunGoroutine(g)
       \/ Request(g)
       \/ Refused(g)
       \/ \E d \in Drills : Dispatch(g, d) \/ Accepted(g, d)

\* A run whose executor is at work ends by itself only when its context does:
\* at the drill's timeout, which is optional, or at the daemon's signal.
MayWorkForEver(g) == row[g] = "open" /\ ctx = "live" /\ claim[g] \notin Timed

RunOwed(g) == ~ MayWorkForEver(g) /\ RunGoroutine(g)

\* The Go scheduler runs every goroutine that can step, and the executor of a
\* run returns once the run's context is done (Executor.tla says when it does
\* not: an exec check whose command leaves a process holding its output).  No
\* request, dispatch or signal is ever owed.
ServeFairness ==
  /\ WF_allVars(Main)
  /\ WF_allVars(SweeperStops)
  /\ \A g \in Goroutines : WF_allVars(RunOwed(g))

ServeSpec == ServeInit /\ [][ServeNext]_allVars

ServeFairSpec == ServeSpec /\ ServeFairness

-----------------------------------------------------------------------------
ServeTypeOK ==
  /\ TypeOK
  /\ phase \in Phases
  /\ ctx \in {"live", "done"}
  /\ handler \in SUBSET Goroutines
  /\ waited \in [Goroutines -> {"none", "sched", "api"}]
  /\ row \in [Goroutines -> {"none", "open", "finished", "over"}]
  /\ sweeper \in {"off", "on"}

\* "so no background run writes to a closed store" (serve.go): once the store
\* is closed no goroutine has a row to finish or a history to read, not even
\* one a slow handler started after the drain.
StoreQuietWhenClosed ==
  phase = "closed" => \A g \in Goroutines : InRun(g) => row[g] \in {"none", "over"}

\* The drain hands back everything: when the scheduler's own runs have been
\* waited for, none of them still holds a mark or a token of the gate.
DrainedRunsHoldNothing ==
  phase \notin {"boot", "loop", "schedWait"} =>
    \A g \in Holders : waited[g] = "api"

\* A signal ends the daemon: the chain of waits is never stuck.
SignalEndsDaemon == ctx = "done" ~> phase = "closed"

\* A claim is given back whole: a run that is over, that has a timeout, or that
\* a signal has reached is counted out of its WaitGroup, and by then its drill
\* is marked only if another run of it is in progress and no token is in the
\* channel but those of goroutines that have yet to release theirs.
ClaimIsReturned ==
  \A g \in Goroutines : \A d \in Drills :
    /\ pc[g] = "running"
    /\ claim[g] = d
    /\ d \in Timed \/ row[g] = "over" \/ ctx = "done"
    ~> /\ waited[g] = "none"
       /\ d \in inflight => d \in RunningDrills
       /\ sem = Cardinality(Holders)
=============================================================================
