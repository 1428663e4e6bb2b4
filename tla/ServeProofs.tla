---------------------------- MODULE ServeProofs -----------------------------
(***************************************************************************)
(* The daemon inherits the gate's theorems, and its shutdown order keeps   *)
(* the store quiet after it is closed.                                     *)
(***************************************************************************)
EXTENDS Serve, GateProofs

\* A step of the daemon is a step of the gate or leaves the gate alone.
LEMMA StepUsesGate == [ServeNext]_allVars => [Next]_vars
  <1> SUFFICES ASSUME [ServeNext]_allVars PROVE [Next]_vars
    OBVIOUS
  <1>1. CASE Main
    BY <1>1 DEF Main, Boot, BootFails, StopLoop, SchedulerDrained, ShutdownReturns,
                ApiDrained, CloseStore
  <1>2. CASE Signal \/ SweeperStops
    BY <1>2 DEF Signal, SweeperStops
  <1>3. ASSUME NEW g \in Goroutines, RunGoroutine(g)
        PROVE  [Next]_vars
    BY <1>3 DEF RunGoroutine, CreateRun, CreateRunFails, FinishRun, AfterRun,
                ReleaseMark, ReleaseToken, Done, Next
  <1>4. ASSUME NEW g \in Goroutines, Request(g) \/ Refused(g)
        PROVE  [Next]_vars
    BY <1>4 DEF Request, Refused
  <1>5. ASSUME NEW g \in Goroutines, NEW d \in Drills, Dispatch(g, d) \/ Accepted(g, d)
        PROVE  [Next]_vars
    BY <1>5 DEF Dispatch, Accepted, Claim, Next
  <1>6. CASE UNCHANGED allVars
    BY <1>6 DEF allVars
  <1> QED
    BY <1>1, <1>2, <1>3, <1>4, <1>5, <1>6 DEF ServeNext

LEMMA InitUsesGate == ServeInit => Init
  BY DEF ServeInit

\* Every behaviour of the daemon is a behaviour of the gate.
THEOREM DaemonUsesGate == ServeSpec => Spec
  BY InitUsesGate, StepUsesGate, PTL DEF ServeSpec, Spec

\* A scheduled run and a "Run now" of the same drill never overlap, and never
\* more than Cap runs are in progress, in the whole daemon.
THEOREM DaemonSingleFlight == ServeSpec => []SingleFlightHeld
  BY DaemonUsesGate, SingleFlightSafe, PTL

\* The daemon as a whole implements the abstract gate.
THEOREM DaemonRefinesSingleFlight == ServeSpec => ImplementsSingleFlight
  BY DaemonUsesGate, GateRefinesSingleFlight, PTL

-----------------------------------------------------------------------------
\* The part of the daemon's invariant the shutdown order rests on.  Before the
\* loop nobody is in the gate or a handler; after it the context is done, so
\* CreateRun opens no row any more; after a wait its group counts nobody that
\* can still be using the store.
ShutdownInv ==
  /\ ServeTypeOK
  /\ phase = "boot" =>
       handler = {} /\ \A g \in Goroutines : pc[g] = "idle" /\ waited[g] = "none"
  /\ phase \in {"schedWait", "shutdown", "apiWait", "auxWait"} => ctx = "done"
  /\ phase = "closed" /\ ctx = "live" =>
       handler = {} /\ \A g \in Goroutines : pc[g] = "idle"
  /\ phase \notin {"boot", "loop", "schedWait"} => \A g \in Goroutines : waited[g] # "sched"
  /\ \A g \in Holders : waited[g] # "none"
  /\ phase \in {"auxWait", "closed"} =>
       \A g \in Goroutines : InRun(g) => row[g] \in {"none", "over"}

LEMMA InitShutdownInv == ServeInit => ShutdownInv
  BY CapPositive
  DEF ServeInit, Init, ShutdownInv, ServeTypeOK, TypeOK, Phases, Places, Holders, InRun

LEMMA GateTypeStep == GateInv /\ [ServeNext]_allVars => TypeOK'
  BY NextGateInv, StepUsesGate DEF GateInv

LEMMA MainShutdownInv ==
  ASSUME ShutdownInv, Main, TypeOK'
  PROVE  ShutdownInv'
  <1> USE DEF ShutdownInv, ServeTypeOK, Phases, Holders, InRun, vars
  <1>1. CASE Boot
    BY <1>1 DEF Boot
  <1>2. CASE BootFails
    BY <1>2 DEF BootFails
  <1>3. CASE StopLoop
    BY <1>3 DEF StopLoop
  <1>4. CASE SchedulerDrained
    BY <1>4 DEF SchedulerDrained
  <1>5. CASE ShutdownReturns
    BY <1>5 DEF ShutdownReturns
  <1>6. CASE ApiDrained
    BY <1>6 DEF ApiDrained
  <1>7. CASE CloseStore
    BY <1>7 DEF CloseStore
  <1> QED
    BY <1>1, <1>2, <1>3, <1>4, <1>5, <1>6, <1>7 DEF Main

LEMMA CallerShutdownInv ==
  ASSUME ShutdownInv, TypeOK', NEW g \in Goroutines,
         \/ Request(g)
         \/ Refused(g)
         \/ \E d \in Drills : Dispatch(g, d) \/ Accepted(g, d)
  PROVE  ShutdownInv'
  <1> USE DEF ShutdownInv, ServeTypeOK, Phases, Holders, InRun, vars
  <1>1. CASE Request(g)
    BY <1>1 DEF Request
  <1>2. CASE Refused(g)
    BY <1>2 DEF Refused
  <1>3. ASSUME NEW d \in Drills, Dispatch(g, d)
        PROVE  ShutdownInv'
    BY <1>3 DEF Dispatch, Claim, TryAcquire, TypeOK
  <1>4. ASSUME NEW d \in Drills, Accepted(g, d)
        PROVE  ShutdownInv'
    BY <1>4 DEF Accepted, Claim, TryAcquire, TypeOK
  <1> QED
    BY <1>1, <1>2, <1>3, <1>4

LEMMA RunShutdownInv ==
  ASSUME ShutdownInv, TypeOK', NEW g \in Goroutines, RunGoroutine(g)
  PROVE  ShutdownInv'
  <1> USE DEF ShutdownInv, ServeTypeOK, Phases, Holders, InRun, vars
  <1>1. CASE CreateRun(g)
    BY <1>1 DEF CreateRun
  <1>2. CASE CreateRunFails(g)
    BY <1>2 DEF CreateRunFails
  <1>3. CASE FinishRun(g)
    BY <1>3 DEF FinishRun
  <1>4. CASE AfterRun(g)
    BY <1>4 DEF AfterRun
  <1>5. CASE ReleaseMark(g)
    BY <1>5 DEF ReleaseMark, Unmark, serveVars, TypeOK
  <1>6. CASE ReleaseToken(g)
    BY <1>6 DEF ReleaseToken, FreeToken, serveVars, TypeOK
  <1>7. CASE Done(g)
    BY <1>7 DEF Done
  <1> QED
    BY <1>1, <1>2, <1>3, <1>4, <1>5, <1>6, <1>7 DEF RunGoroutine

LEMMA NextShutdownInv == GateInv /\ ShutdownInv /\ [ServeNext]_allVars => ShutdownInv'
  <1> SUFFICES ASSUME GateInv, ShutdownInv, [ServeNext]_allVars PROVE ShutdownInv'
    OBVIOUS
  <1>1. TypeOK'
    BY GateTypeStep
  <1>2. CASE Signal \/ SweeperStops
    BY <1>1, <1>2
    DEF Signal, SweeperStops, ShutdownInv, ServeTypeOK, Phases, Holders, InRun, vars
  <1>3. CASE UNCHANGED allVars
    BY <1>1, <1>3
    DEF allVars, serveVars, ShutdownInv, ServeTypeOK, Phases, Holders, InRun, vars
  <1> QED
    BY <1>1, <1>2, <1>3, MainShutdownInv, CallerShutdownInv, RunShutdownInv DEF ServeNext

LEMMA DaemonInvariant == ServeSpec => [](GateInv /\ ShutdownInv)
  BY DaemonUsesGate, GateInvariant, InitShutdownInv, NextShutdownInv, PTL DEF ServeSpec

\* No run, however late its handler came to the gate, has a row to finish or a
\* history to read when the store is closed.
THEOREM StoreQuiet == ServeSpec => []StoreQuietWhenClosed
  <1>1. ShutdownInv => StoreQuietWhenClosed
    BY DEF ShutdownInv, StoreQuietWhenClosed
  <1> QED
    BY <1>1, DaemonInvariant, PTL

\* What the scheduler has waited for holds nothing of the gate any more.
THEOREM DrainComplete == ServeSpec => []DrainedRunsHoldNothing
  <1>1. ShutdownInv => DrainedRunsHoldNothing
    BY DEF ShutdownInv, ServeTypeOK, DrainedRunsHoldNothing, Holders
  <1> QED
    BY <1>1, DaemonInvariant, PTL
=============================================================================
