----------------------------- MODULE GateProofs -----------------------------
(***************************************************************************)
(* The gate's contract for every set of drills, every finite set of        *)
(* goroutines and every configured concurrency.                            *)
(***************************************************************************)
EXTENDS Gate, FiniteSetTheorems, TLAPS

\* NewGate never builds a channel of capacity 0.
LEMMA CapPositive == Cap \in Nat /\ Cap >= 1
  BY GateAssumption DEF Cap

\* The goroutines that hold a token are a finite set, and one joining or
\* leaving it changes its size by one.
LEMMA HoldersFinite == IsFiniteSet(Holders) /\ Cardinality(Holders) \in Nat
  <1>1. Holders \subseteq Goroutines
    BY DEF Holders
  <1>2. IsFiniteSet(Holders)
    BY <1>1, GateAssumption, FS_Subset
  <1> QED
    BY <1>2, FS_CardinalityType

LEMMA JoinHolders ==
  ASSUME NEW g \in Goroutines, g \notin Holders, Holders' = Holders \cup {g}
  PROVE  Cardinality(Holders') = Cardinality(Holders) + 1
  BY HoldersFinite, FS_AddElement

LEMMA LeaveHolders ==
  ASSUME NEW g \in Holders, Holders' = Holders \ {g}
  PROVE  Cardinality(Holders') = Cardinality(Holders) - 1
  BY HoldersFinite, FS_RemoveElement

\* What each step does to the set of token holders.
LEMMA HoldersSteps ==
  ASSUME TypeOK, NEW g \in Goroutines
  PROVE  /\ \A d \in Drills : TryAcquire(g, d) => /\ g \notin Holders
                                                  /\ Holders' = Holders \cup {g}
         /\ Unmark(g) => Holders' = Holders
         /\ FreeToken(g) => g \in Holders /\ Holders' = Holders \ {g}
  BY DEF TypeOK, Places, Holders, TryAcquire, Unmark, FreeToken

-----------------------------------------------------------------------------
LEMMA InitGateInv == Init => GateInv
  <1> SUFFICES ASSUME Init PROVE GateInv
    OBVIOUS
  <1>1. Holders = {}
    BY DEF Init, Holders
  <1>2. sem = Cardinality(Holders)
    BY <1>1, FS_EmptySet DEF Init
  <1>3. TypeOK
    BY CapPositive DEF Init, TypeOK, Places
  <1> QED
    BY <1>2, <1>3 DEF Init, GateInv, Running

LEMMA TryAcquireGateInv ==
  ASSUME GateInv, NEW g \in Goroutines, NEW d \in Drills, TryAcquire(g, d)
  PROVE  GateInv'
  <1> USE DEF GateInv
  <1>1. TypeOK'
    BY CapPositive DEF TypeOK, TryAcquire, Admits, Places
  <1>2. (\A h \in Goroutines : pc[h] = "running" => claim[h] \in inflight)'
    BY DEF TypeOK, TryAcquire, Places
  <1>3. (\A e \in inflight : \E h \in Running : claim[h] = e)'
    BY DEF TypeOK, TryAcquire, Places, Running
  <1>4. (\A h, k \in Running : claim[h] = claim[k] => h = k)'
    BY DEF TypeOK, TryAcquire, Admits, Places, Running
  <1>5. (sem = Cardinality(Holders))'
    <2>1. g \notin Holders /\ Holders' = Holders \cup {g}
      BY HoldersSteps
    <2>2. Cardinality(Holders') = Cardinality(Holders) + 1
      BY <2>1, JoinHolders
    <2> QED
      BY <2>2 DEF TryAcquire
  <1> QED
    BY <1>1, <1>2, <1>3, <1>4, <1>5

LEMMA UnmarkGateInv ==
  ASSUME GateInv, NEW g \in Goroutines, Unmark(g)
  PROVE  GateInv'
  <1> USE DEF GateInv
  <1>1. TypeOK'
    BY DEF TypeOK, Unmark, Places
  <1>2. (\A h \in Goroutines : pc[h] = "running" => claim[h] \in inflight)'
    BY DEF TypeOK, Unmark, Places, Running
  <1>3. (\A e \in inflight : \E h \in Running : claim[h] = e)'
    BY DEF TypeOK, Unmark, Places, Running
  <1>4. (\A h, k \in Running : claim[h] = claim[k] => h = k)'
    BY DEF TypeOK, Unmark, Places, Running
  <1>5. (sem = Cardinality(Holders))'
    BY HoldersSteps DEF Unmark
  <1> QED
    BY <1>1, <1>2, <1>3, <1>4, <1>5

LEMMA FreeTokenGateInv ==
  ASSUME GateInv, NEW g \in Goroutines, FreeToken(g)
  PROVE  GateInv'
  <1> USE DEF GateInv
  <1>1. TypeOK'
    BY CapPositive DEF TypeOK, FreeToken, Places
  <1>2. (\A h \in Goroutines : pc[h] = "running" => claim[h] \in inflight)'
    BY DEF TypeOK, FreeToken, Places
  <1>3. (\A e \in inflight : \E h \in Running : claim[h] = e)'
    BY DEF TypeOK, FreeToken, Places, Running
  <1>4. (\A h, k \in Running : claim[h] = claim[k] => h = k)'
    BY DEF TypeOK, FreeToken, Places, Running
  <1>5. (sem = Cardinality(Holders))'
    <2>1. g \in Holders /\ Holders' = Holders \ {g}
      BY HoldersSteps
    <2>2. Cardinality(Holders') = Cardinality(Holders) - 1
      BY <2>1, LeaveHolders
    <2> QED
      BY <2>2 DEF FreeToken
  <1> QED
    BY <1>1, <1>2, <1>3, <1>4, <1>5

LEMMA NextGateInv == GateInv /\ [Next]_vars => GateInv'
  <1> SUFFICES ASSUME GateInv, [Next]_vars PROVE GateInv'
    OBVIOUS
  <1>1. CASE Next
    BY <1>1, TryAcquireGateInv, UnmarkGateInv, FreeTokenGateInv DEF Next
  <1>2. CASE UNCHANGED vars
    BY <1>2 DEF GateInv, TypeOK, Running, Holders, vars
  <1> QED
    BY <1>1, <1>2

\* The marks are exactly the drills being run and the tokens exactly the
\* goroutines that have not finished their release, whatever the interleaving
\* of TryAcquire with the two steps of a release.
THEOREM GateInvariant == Spec => []GateInv
  BY InitGateInv, NextGateInv, PTL DEF Spec

-----------------------------------------------------------------------------
LEMMA GateInvImpliesSingleFlight == GateInv => SingleFlightHeld
  <1> SUFFICES ASSUME GateInv PROVE SingleFlightHeld
    OBVIOUS
  <1>1. Running \subseteq Holders
    BY DEF Running, Holders
  <1>2. Cardinality(Running) =< Cardinality(Holders)
    BY <1>1, HoldersFinite, FS_Subset
  <1>3. Cardinality(Running) \in Nat
    BY <1>1, HoldersFinite, FS_Subset, FS_CardinalityType
  <1>4. Cardinality(Running) =< Cap
    BY <1>2, <1>3, HoldersFinite, CapPositive DEF GateInv, TypeOK
  <1> QED
    BY <1>4 DEF GateInv, SingleFlightHeld

\* No drill runs twice at once and no more than Cap runs are in progress.
THEOREM SingleFlightSafe == Spec => []SingleFlightHeld
  BY GateInvariant, GateInvImpliesSingleFlight, PTL

LEMMA GateInvImpliesRefusal == GateInv => RefusalJustified
  BY HoldersFinite, CapPositive
  DEF GateInv, TypeOK, RefusalJustified, Admits, RunningDrills

\* The gate refuses only while the drill runs or all tokens are held.
THEOREM RefusalSafe == Spec => []RefusalJustified
  BY GateInvariant, GateInvImpliesRefusal, PTL

LEMMA GateInvImpliesRelease == GateInv => ReleaseNeverBlocks
  <1> SUFFICES ASSUME GateInv, NEW g \in Goroutines, pc[g] = "unmarked"
               PROVE  sem > 0
    BY DEF ReleaseNeverBlocks
  <1>1. g \in Holders
    BY DEF Holders
  <1>2. Cardinality(Holders) # 0
    BY <1>1, HoldersFinite, FS_EmptySet
  <1> QED
    BY <1>2, HoldersFinite DEF GateInv, TypeOK

\* The receive of a release always finds a token in the channel.
THEOREM ReleaseSafe == Spec => []ReleaseNeverBlocks
  BY GateInvariant, GateInvImpliesRelease, PTL

-----------------------------------------------------------------------------
\* The half-done releases are a finite set, and each step of a release changes
\* their number by one.
LEMMA ReleasingFinite == IsFiniteSet(Releasing) /\ Cardinality(Releasing) \in Nat
  <1>1. Releasing \subseteq Goroutines
    BY DEF Releasing
  <1>2. IsFiniteSet(Releasing)
    BY <1>1, GateAssumption, FS_Subset
  <1> QED
    BY <1>2, FS_CardinalityType

LEMMA RefinementInit == Init => Abstract!Init
  <1> SUFFICES ASSUME Init PROVE Abstract!Init
    OBVIOUS
  <1>1. Releasing = {}
    BY DEF Init, Releasing
  <1>2. Cardinality(Releasing) = 0
    BY <1>1, FS_EmptySet
  <1> QED
    BY <1>2, CapPositive DEF Init, Abstract!Init, RunningDrills, Running

LEMMA RefinementStep ==
  ASSUME GateInv, [Next]_vars
  PROVE  [Abstract!Next]_<<RunningDrills, Cap - sem, Cardinality(Releasing)>>
  <1>0. sem \in 0..Cap /\ Cap \in Nat
    BY CapPositive DEF GateInv, TypeOK
  <1>1. ASSUME NEW g \in Goroutines, NEW d \in Drills, TryAcquire(g, d)
        PROVE  Abstract!Start(d)
    <2>1. d \notin RunningDrills
      BY <1>1 DEF GateInv, TryAcquire, Admits, RunningDrills, Running
    <2>2. RunningDrills' = RunningDrills \cup {d}
      BY <1>1 DEF GateInv, TypeOK, Places, TryAcquire, RunningDrills, Running
    <2>3. sem < Cap /\ sem' = sem + 1
      BY <1>1 DEF TryAcquire, Admits
    <2>4. Cap - sem > 0 /\ (Cap - sem)' = (Cap - sem) - 1
      BY <1>0, <2>3 DEF Cap
    <2>5. Releasing' = Releasing
      BY <1>1 DEF GateInv, TypeOK, Places, TryAcquire, Releasing
    <2> QED
      BY <2>1, <2>2, <2>4, <2>5 DEF Abstract!Start
  <1>2. ASSUME NEW g \in Goroutines, Unmark(g)
        PROVE  claim[g] \in Drills /\ Abstract!Finish(claim[g])
    <2>1. g \in Running /\ claim[g] \in Drills /\ claim[g] \in RunningDrills
      BY <1>2 DEF GateInv, TypeOK, Unmark, RunningDrills, Running
    <2>2. Running' = Running \ {g} /\ claim' = claim /\ sem' = sem
      BY <1>2 DEF GateInv, TypeOK, Places, Unmark, Running
    <2>3. RunningDrills' = RunningDrills \ {claim[g]}
      BY <2>1, <2>2 DEF GateInv, RunningDrills
    <2>4. (Cap - sem)' = Cap - sem
      BY <2>2 DEF Cap
    <2>5. g \notin Releasing /\ Releasing' = Releasing \cup {g}
      BY <1>2 DEF GateInv, TypeOK, Places, Unmark, Releasing
    <2>6. Cardinality(Releasing') = Cardinality(Releasing) + 1
      BY <2>5, ReleasingFinite, FS_AddElement
    <2> QED
      BY <2>1, <2>3, <2>4, <2>6 DEF Abstract!Finish
  <1>3. ASSUME NEW g \in Goroutines, FreeToken(g)
        PROVE  Abstract!Return
    <2>1. RunningDrills' = RunningDrills
      BY <1>3 DEF GateInv, TypeOK, Places, FreeToken, RunningDrills, Running
    <2>2. sem' = sem - 1
      BY <1>3 DEF FreeToken
    <2>3. (Cap - sem)' = (Cap - sem) + 1
      BY <1>0, <2>2 DEF Cap
    <2>4. g \in Releasing /\ Releasing' = Releasing \ {g}
      BY <1>3 DEF GateInv, TypeOK, Places, FreeToken, Releasing
    <2>5. Cardinality(Releasing') = Cardinality(Releasing) - 1
      BY <2>4, ReleasingFinite, FS_RemoveElement
    <2>6. Cardinality(Releasing) > 0
      BY <2>4, ReleasingFinite, FS_EmptySet
    <2> QED
      BY <2>1, <2>3, <2>5, <2>6 DEF Abstract!Return
  <1>4. CASE UNCHANGED vars
    BY <1>4 DEF vars, RunningDrills, Running, Releasing, Cap
  <1> QED
    BY <1>1, <1>2, <1>3, <1>4 DEF Next, Abstract!Next

\* The two-step release implements the abstract gate: the mark's removal is the
\* end of the run, and the receive returns the slot that run had taken.
THEOREM GateRefinesSingleFlight == Spec => ImplementsSingleFlight
  <1>1. GateInv /\ [Next]_vars
          => [Abstract!Next]_<<RunningDrills, Cap - sem, Cardinality(Releasing)>>
    BY RefinementStep
  <1> QED
    BY RefinementInit, <1>1, GateInvariant, PTL
    DEF Spec, ImplementsSingleFlight, Abstract!Spec
=============================================================================
