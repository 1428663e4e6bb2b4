------------------------- MODULE RunLifecycleProofs -------------------------
(***************************************************************************)
(* Proofs about RunLifecycle for every number of processes, rows, levels,  *)
(* ticks and faults: the rows, the recorded steps and the proofs agree in  *)
(* every interleaving, and the proof timeline is the one of ProofLedger.   *)
(***************************************************************************)
EXTENDS RunLifecycle, WellFoundedInduction, TLAPS

\* A run's verdict is one of the three.
LEMMA VerdictType ==
  ASSUME NEW p \in Procs PROVE Verdict(p) \in Verdicts
  BY DEF Verdict, aggregateRun, Verdicts

\* The rows start empty and every variable in its type.
LEMMA TypeInit == Init => TypeOK
  BY RunAssumption
  DEF Init, TypeOK, Places, RunIds, NoSteps, Statuses, Verdicts

\* Run returning, or its process dying, keeps the local variables in their
\* types.
LEMMA LeaveType ==
  ASSUME TypeOK, NEW p \in Procs, NEW where \in Places, Leave(p, where)
  PROVE  /\ pc' \in [Procs -> Places]
         /\ ctx' \in [Procs -> {"live", "done"}]
         /\ run' \in [Procs -> 0..MaxRuns]
         /\ start' \in [Procs -> Nat]
         /\ end' \in [Procs -> Nat]
         /\ selected' \in [Procs -> SUBSET Levels]
         /\ outcome' \in [Procs -> [Levels -> Statuses \cup {"none"}]]
         /\ restored' \in [Procs -> Nat]
         /\ baseline' \in [Procs -> Nat]
         /\ unproven' \in [Procs -> SUBSET Levels]
  BY RunAssumption DEF TypeOK, Leave, Forget, Goto, NoSteps

\* Every step keeps every variable in its type.
LEMMA TypeStep == TypeOK /\ [Next]_vars => TypeOK'
<1> SUFFICES ASSUME TypeOK, [Next]_vars PROVE TypeOK'
  OBVIOUS
<1> USE RunAssumption
<1>1. ASSUME NEW p \in Procs, Start(p) PROVE TypeOK'
  BY <1>1 DEF Start, selectLevels, Goto, TypeOK, Places, db
<1>2. ASSUME NEW p \in Procs, CreateRun(p) PROVE TypeOK'
  <2>1. lastId' \in 0..MaxRuns /\ run' \in [Procs -> 0..MaxRuns]
    BY <1>2 DEF CreateRun, TypeOK
  <2>2. /\ result' \in [RunIds -> Verdicts \cup {"absent", "open", "pruned"}]
        /\ started' \in [RunIds -> Nat]
    BY <1>2 DEF CreateRun, TypeOK
  <2>3. pc' \in [Procs -> Places]
    BY <1>2 DEF CreateRun, Goto, Places, TypeOK
  <2> QED
    BY <1>2, <2>1, <2>2, <2>3 DEF CreateRun, TypeOK
<1>3. ASSUME NEW p \in Procs, CreateRunFails(p) PROVE TypeOK'
  BY <1>3, LeaveType DEF CreateRunFails, Cancelled, Fault, NoFault, TypeOK, Places, db
<1>4. ASSUME NEW p \in Procs, ReadBaseline(p) PROVE TypeOK'
  <2>0. PrevFileCount \subseteq Nat
    BY DEF PrevFileCount, LastBaselineRun, BaselineRuns, TypeOK
  <2>1. baseline' \in [Procs -> Nat]
    BY <1>4, <2>0 DEF ReadBaseline, TypeOK
  <2> QED
    BY <1>4, <2>1 DEF ReadBaseline, Cancelled, Fault, NoFault, Goto, TypeOK, Places, db
<1>5. ASSUME NEW p \in Procs, RunLevel(p) PROVE TypeOK'
  <2>1. PICK l \in Todo(p), s \in Statuses, n \in FileCounts \cup {0} :
          /\ outcome' = [outcome EXCEPT ![p][l] = s]
          /\ restored' = [restored EXCEPT ![p] = @ + n]
    BY <1>5 DEF RunLevel
  <2>2. outcome' \in [Procs -> [Levels -> Statuses \cup {"none"}]]
    BY <2>1 DEF TypeOK, Todo
  <2>3. restored' \in [Procs -> Nat]
    BY <2>1 DEF TypeOK
  <2> QED
    BY <1>5, <2>2, <2>3 DEF RunLevel, Goto, TypeOK, Places, db
<1>6. ASSUME NEW p \in Procs, RecordStep(p) PROVE TypeOK'
  <2>1. PICK l \in Levels : steps' = [steps EXCEPT ![run[p]][l] = outcome[p][l]]
    BY <1>6 DEF RecordStep
  <2>2. steps' \in [RunIds -> [Levels -> Statuses \cup {"none"}]]
    <3>1. outcome[p][l] \in Statuses \cup {"none"}
      BY DEF TypeOK
    <3> HIDE RunAssumption
    <3> QED
      BY <2>1, <3>1 DEF TypeOK
  <2> QED
    BY <1>6, <2>2 DEF RecordStep, Goto, TypeOK, Places, local
<1>7. ASSUME NEW p \in Procs, RecordStepFails(p) PROVE TypeOK'
  BY <1>7 DEF RecordStepFails, Forget, Cancelled, Fault, NoFault, Goto, NoSteps, TypeOK, Places, db
<1>8. ASSUME NEW p \in Procs, FinishRun(p) PROVE TypeOK'
  <2>2. /\ result' \in [RunIds -> Verdicts \cup {"absent", "open", "pruned"}]
        /\ files' \in [RunIds -> Nat]
    BY <1>8, VerdictType DEF FinishRun, Finalize, TypeOK
  <2>3. unproven' \in [Procs -> SUBSET Levels] /\ end' \in [Procs -> Nat]
    BY <1>8 DEF FinishRun, PassedLevels, TypeOK
  <2>4. \A v \in verdicts' : v.run \in 0..MaxRuns /\ v.start \in Nat /\ v.result \in Verdicts
    BY <1>8, VerdictType DEF FinishRun, TypeOK
  <2>5. /\ pc' \in [Procs -> Places]
        /\ ctx' \in [Procs -> {"live", "done"}]
        /\ selected' \in [Procs -> SUBSET Levels]
        /\ outcome' \in [Procs -> [Levels -> Statuses \cup {"none"}]]
        /\ baseline' \in [Procs -> Nat]
    BY <1>8 DEF FinishRun, Forget, Goto, NoSteps, TypeOK, Places
  <2> QED
    BY <1>8, <2>2, <2>3, <2>4, <2>5 DEF FinishRun, TypeOK
<1>9. ASSUME NEW p \in Procs, FinishRunFails(p) PROVE TypeOK'
  BY <1>9 DEF FinishRunFails, Forget, Fault, NoFault, Goto, NoSteps, TypeOK, Places, db
<1>10. ASSUME NEW p \in Procs, DeferredFinish(p) PROVE TypeOK'
  <2>1. /\ result' \in [RunIds -> Verdicts \cup {"absent", "open", "pruned"}]
        /\ files' \in [RunIds -> Nat]
    <3>1. CASE Finalize(p, "error")
      BY <3>1 DEF Finalize, TypeOK, Verdicts
    <3>2. CASE UNCHANGED <<result, files>>
      BY <3>2 DEF TypeOK
    <3> QED
      BY <1>10, <3>1, <3>2 DEF DeferredFinish
  <2>2. faults' \in 0..MaxFaults
    BY <1>10 DEF DeferredFinish, Fault, NoFault, TypeOK
  <2>3. Leave(p, "idle") /\ "idle" \in Places
    BY <1>10 DEF DeferredFinish, Places
  <2> QED
    BY <1>10, <2>1, <2>2, <2>3, LeaveType DEF DeferredFinish, TypeOK
<1>11. ASSUME NEW p \in Procs, AddBytesRestored(p) PROVE TypeOK'
  BY <1>11 DEF AddBytesRestored, Fault, NoFault, Goto, TypeOK, Places, local
<1>12. ASSUME NEW p \in Procs, RecordProof(p) PROVE TypeOK'
  BY <1>12 DEF RecordProof, Goto, TypeOK, Places
<1>13. ASSUME NEW p \in Procs, RecordProofFails(p) PROVE TypeOK'
  BY <1>13, LeaveType DEF RecordProofFails, Fault, TypeOK, Places, db
<1>14. ASSUME NEW p \in Procs, PruneRetention(p) PROVE TypeOK'
  <2>1. /\ result' \in [RunIds -> Verdicts \cup {"absent", "open", "pruned"}]
        /\ files' \in [RunIds -> Nat]
        /\ steps' \in [RunIds -> [Levels -> Statuses \cup {"none"}]]
    BY <1>14 DEF PruneRetention, NoSteps, TypeOK
  <2>2. faults' \in 0..MaxFaults
    BY <1>14 DEF PruneRetention, Fault, NoFault, TypeOK
  <2>3. Leave(p, "idle") /\ "idle" \in Places
    BY <1>14 DEF PruneRetention, Places
  <2> QED
    BY <1>14, <2>1, <2>2, <2>3, LeaveType DEF PruneRetention, TypeOK
<1>15. ASSUME NEW p \in Procs, Cancel(p) PROVE TypeOK'
  BY <1>15 DEF Cancel, TypeOK, db
<1>16. ASSUME NEW p \in Procs, Crash(p) PROVE TypeOK'
  BY <1>16, LeaveType DEF Crash, TypeOK, Places, db
<1>17. CASE MarkAbandonedRuns
  BY <1>17 DEF MarkAbandonedRuns, Fault, NoFault, Goto, TypeOK, Places, Verdicts, local
<1>18. CASE Tick
  BY <1>18 DEF Tick, TypeOK, db, local
<1>19. CASE UNCHANGED vars
  BY <1>19 DEF vars, db, local, TypeOK
<1> QED
  BY <1>1, <1>2, <1>3, <1>4, <1>5, <1>6, <1>7, <1>8, <1>9, <1>10, <1>11, <1>12, <1>13,
     <1>14, <1>15, <1>16, <1>17, <1>18, <1>19 DEF Next, Step

\* A step that ends p's use of its row, without touching another process,
\* keeps RowInv if it keeps rows that are past lastId or decided so.
LEMMA LeaveRow ==
  ASSUME TypeOK, RowInv, NEW p \in Procs, NEW where \in {"idle", "down"}, Leave(p, where),
         lastId' = lastId,
         \A i \in RunIds : i > lastId => result'[i] = "absent" /\ steps'[i] = NoSteps,
         \A i \in RunIds : result[i] # "open" => result'[i] # "open"
  PROVE  RowInv'
<1>1. /\ pc \in [Procs -> Places] /\ run \in [Procs -> 0..MaxRuns]
      /\ pc' = [pc EXCEPT ![p] = where] /\ run' = [run EXCEPT ![p] = 0]
  BY DEF TypeOK, Leave, Goto
<1> QED
  BY <1>1 DEF RowInv, InRow

\* A process about a row has that row to itself; rows not yet created are
\* blank; and once FinishRun has succeeded the row has its verdict.
LEMMA RowStep == TypeOK /\ RowInv /\ [Next]_vars => RowInv'
<1> SUFFICES ASSUME TypeOK, RowInv, [Next]_vars PROVE RowInv'
  OBVIOUS
<1>t. /\ pc \in [Procs -> Places] /\ run \in [Procs -> 0..MaxRuns]
      /\ lastId \in 0..MaxRuns /\ MaxRuns \in Nat
      /\ result \in [RunIds -> Verdicts \cup {"absent", "open", "pruned"}]
      /\ steps \in [RunIds -> [Levels -> Statuses \cup {"none"}]]
  BY RunAssumption DEF TypeOK
<1> USE <1>t
<1>1. ASSUME NEW p \in Procs, Start(p) PROVE RowInv'
  BY <1>1 DEF Start, Goto, RowInv, InRow, db
<1>2. ASSUME NEW p \in Procs, CreateRun(p) PROVE RowInv'
  <2>1. /\ lastId' = lastId + 1 /\ lastId + 1 \in RunIds /\ steps' = steps
        /\ pc[p] = "create" /\ pc' = [pc EXCEPT ![p] = "baseline"]
        /\ run' = [run EXCEPT ![p] = lastId + 1]
        /\ result' = [result EXCEPT ![lastId + 1] = "open"]
    BY <1>2 DEF CreateRun, Goto, RunIds
  <2>2. \A i \in RunIds : i > lastId' => result'[i] = "absent" /\ steps'[i] = NoSteps
    BY <2>1 DEF RowInv, RunIds
  <2>3. \A q \in Procs : InRow(q)' =>
          \/ q = p /\ run'[q] = lastId + 1
          \/ q # p /\ InRow(q) /\ run'[q] = run[q] /\ run[q] \in RunIds /\ run[q] < lastId + 1
    BY <2>1 DEF RowInv, InRow
  <2>4. \A q \in Procs : pc'[q] \in {"count", "prove", "prune"} => result'[run'[q]] # "open"
    <3> SUFFICES ASSUME NEW q \in Procs, pc'[q] \in {"count", "prove", "prune"}
                 PROVE  result'[run'[q]] # "open"
      OBVIOUS
    <3>1. q # p /\ pc[q] = pc'[q] /\ InRow(q)'
      BY <2>1 DEF InRow
    <3>2. result'[run'[q]] = result[run[q]]
      BY <2>1, <2>3, <3>1
    <3> QED
      BY <3>1, <3>2 DEF RowInv
  <2>5. \A q \in Procs : InRow(q)' => run'[q] \in RunIds /\ run'[q] =< lastId'
    BY <2>1, <2>3 DEF RunIds
  <2>6. \A q, r \in Procs : InRow(q)' /\ InRow(r)' /\ run'[q] = run'[r] => q = r
    BY <2>3 DEF RowInv, RunIds
  <2> QED
    BY <2>2, <2>4, <2>5, <2>6 DEF RowInv
<1>3. ASSUME NEW p \in Procs, CreateRunFails(p) PROVE RowInv'
  BY <1>3, LeaveRow DEF CreateRunFails, RowInv, db
<1>4. ASSUME NEW p \in Procs, ReadBaseline(p) PROVE RowInv'
  BY <1>4 DEF ReadBaseline, Goto, RowInv, InRow, db
<1>5. ASSUME NEW p \in Procs, RunLevel(p) PROVE RowInv'
  BY <1>5 DEF RunLevel, Goto, RowInv, InRow, db
<1>6. ASSUME NEW p \in Procs, RecordStep(p) PROVE RowInv'
  <2>1. \A i \in RunIds : i # run[p] => steps'[i] = steps[i]
    BY <1>6 DEF RecordStep
  <2>2. run[p] =< lastId
    BY <1>6 DEF RecordStep, RowInv, InRow
  <2>3. lastId' = lastId /\ result' = result /\ run' = run
    BY <1>6 DEF RecordStep, local
  <2>4. \A i \in RunIds : i > lastId' => result'[i] = "absent" /\ steps'[i] = NoSteps
    BY <2>1, <2>2, <2>3 DEF RowInv, RunIds
  <2> QED
    BY <1>6, <2>3, <2>4 DEF RecordStep, Goto, RowInv, InRow
<1>7. ASSUME NEW p \in Procs, RecordStepFails(p) PROVE RowInv'
  BY <1>7 DEF RecordStepFails, Goto, RowInv, InRow, db
<1>8. ASSUME NEW p \in Procs, FinishRun(p) PROVE RowInv'
  <2>1. run[p] \in RunIds /\ run[p] =< lastId
    BY <1>8 DEF FinishRun, RowInv, InRow
  <2>2. /\ lastId' = lastId /\ steps' = steps /\ run' = run
        /\ pc' = [pc EXCEPT ![p] = "count"]
        /\ result' = [result EXCEPT ![run[p]] = Verdict(p)]
    BY <1>8 DEF FinishRun, Finalize, Goto
  <2>3. Verdict(p) # "open"
    BY VerdictType DEF Verdicts
  <2>4. \A i \in RunIds : i > lastId' => result'[i] = "absent" /\ steps'[i] = NoSteps
    BY <2>1, <2>2 DEF RowInv, RunIds
  <2>5. \A q \in Procs : pc'[q] \in {"count", "prove", "prune"} => result'[run'[q]] # "open"
    BY <1>8, <2>1, <2>2, <2>3 DEF RowInv, InRow, FinishRun
  <2> QED
    BY <1>8, <2>2, <2>4, <2>5 DEF RowInv, InRow, FinishRun
<1>9. ASSUME NEW p \in Procs, FinishRunFails(p) PROVE RowInv'
  BY <1>9 DEF FinishRunFails, Goto, RowInv, InRow, db
<1>10. ASSUME NEW p \in Procs, DeferredFinish(p) PROVE RowInv'
  <2>1. run[p] \in RunIds /\ run[p] =< lastId
    BY <1>10 DEF DeferredFinish, RowInv, InRow
  <2>2. result' = result \/ result' = [result EXCEPT ![run[p]] = "error"]
    BY <1>10 DEF DeferredFinish, Finalize
  <2>3. Leave(p, "idle") /\ lastId' = lastId /\ steps' = steps
    BY <1>10 DEF DeferredFinish
  <2> QED
    BY <2>1, <2>2, <2>3, LeaveRow DEF RowInv, RunIds
<1>11. ASSUME NEW p \in Procs, AddBytesRestored(p) PROVE RowInv'
  BY <1>11 DEF AddBytesRestored, Goto, RowInv, InRow, local
<1>12. ASSUME NEW p \in Procs, RecordProof(p) PROVE RowInv'
  BY <1>12 DEF RecordProof, Goto, RowInv, InRow
<1>13. ASSUME NEW p \in Procs, RecordProofFails(p) PROVE RowInv'
  BY <1>13, LeaveRow DEF RecordProofFails, RowInv, db
<1>14. ASSUME NEW p \in Procs, PruneRetention(p) PROVE RowInv'
  <2>1. Leave(p, "idle") /\ lastId' = lastId
    BY <1>14 DEF PruneRetention
  <2>2. \A i \in RunIds : \/ result'[i] = result[i] /\ steps'[i] = steps[i]
                          \/ result[i] # "absent" /\ result'[i] = "pruned"
    BY <1>14 DEF PruneRetention, Expired, Exists
  <2> QED
    BY <2>1, <2>2, LeaveRow DEF RowInv
<1>15. ASSUME NEW p \in Procs, Cancel(p) PROVE RowInv'
  BY <1>15 DEF Cancel, RowInv, InRow, db
<1>16. ASSUME NEW p \in Procs, Crash(p) PROVE RowInv'
  BY <1>16, LeaveRow DEF Crash, RowInv, db
<1>17. CASE MarkAbandonedRuns
  <2>1. /\ lastId' = lastId /\ steps' = steps /\ run' = run
        /\ pc' = [pc EXCEPT ![Daemon] = "idle"]
    BY <1>17 DEF MarkAbandonedRuns, Goto, local
  <2>2. \A i \in RunIds : \/ result'[i] = result[i]
                          \/ result[i] = "open" /\ result'[i] = "error"
    BY <1>17 DEF MarkAbandonedRuns
  <2> QED
    BY <2>1, <2>2, RunAssumption DEF RowInv, InRow
<1>18. CASE Tick
  BY <1>18 DEF Tick, RowInv, InRow, db, local
<1>19. CASE UNCHANGED vars
  BY <1>19 DEF vars, db, local, RowInv, InRow
<1> QED
  BY <1>1, <1>2, <1>3, <1>4, <1>5, <1>6, <1>7, <1>8, <1>9, <1>10, <1>11, <1>12, <1>13,
     <1>14, <1>15, <1>16, <1>17, <1>18, <1>19 DEF Next, Step

\* A process that has nothing left to prove keeps PendingInv, whatever it does,
\* as long as no verdict is forgotten and the others are left alone.
LEMMA PendingFrame ==
  ASSUME TypeOK, PendingInv, NEW p \in Procs, NEW where,
         pc' = [pc EXCEPT ![p] = where],
         \A q \in Procs \ {p} : start'[q] = start[q] /\ unproven'[q] = unproven[q],
         verdicts \subseteq verdicts',
         unproven'[p] = {}
  PROVE  PendingInv'
<1> SUFFICES ASSUME NEW q \in Procs, unproven'[q] # {}
             PROVE  /\ pc'[q] \in {"count", "prove"}
                    /\ \E v \in Passes' : v.start = start'[q] /\ unproven'[q] \subseteq v.passed
  BY DEF PendingInv
<1>1. q # p
  OBVIOUS
<1>2. pc'[q] = pc[q]
  BY <1>1 DEF TypeOK
<1>3. Passes \subseteq Passes'
  BY DEF Passes
<1> QED
  BY <1>1, <1>2, <1>3 DEF PendingInv

\* The levels of a process that are still to be proved belong to a pass that
\* FinishRun has recorded, with the time that will be written.
LEMMA PendingStep == TypeOK /\ PendingInv /\ [Next]_vars => PendingInv'
<1> SUFFICES ASSUME TypeOK, PendingInv, [Next]_vars PROVE PendingInv'
  OBVIOUS
<1>t. /\ pc \in [Procs -> Places] /\ start \in [Procs -> Nat]
      /\ unproven \in [Procs -> SUBSET Levels]
  BY DEF TypeOK
<1> USE <1>t
<1>u. ASSUME NEW p \in Procs, pc[p] \notin {"count", "prove"} PROVE unproven[p] = {}
  BY <1>u DEF PendingInv
<1>a. ASSUME NEW p \in Procs, NEW where, Leave(p, where), UNCHANGED verdicts PROVE PendingInv'
  BY <1>a, PendingFrame DEF Leave, Goto
<1>b. ASSUME NEW p \in Procs, NEW where, Goto(p, where), pc[p] \notin {"count", "prove"},
             UNCHANGED <<unproven, verdicts>>, \A q \in Procs \ {p} : start'[q] = start[q]
      PROVE  PendingInv'
  BY <1>b, <1>u, PendingFrame DEF Goto
<1>1. ASSUME NEW p \in Procs, Start(p) PROVE PendingInv'
  BY <1>1, <1>b DEF Start
<1>2. ASSUME NEW p \in Procs, CreateRun(p) PROVE PendingInv'
  BY <1>2, <1>b DEF CreateRun
<1>3. ASSUME NEW p \in Procs, CreateRunFails(p) PROVE PendingInv'
  BY <1>3, <1>a DEF CreateRunFails
<1>4. ASSUME NEW p \in Procs, ReadBaseline(p) PROVE PendingInv'
  BY <1>4, <1>b DEF ReadBaseline
<1>5. ASSUME NEW p \in Procs, RunLevel(p) PROVE PendingInv'
  BY <1>5, <1>b DEF RunLevel
<1>6. ASSUME NEW p \in Procs, RecordStep(p) PROVE PendingInv'
  <2>1. \E where : Goto(p, where)
    BY <1>6 DEF RecordStep
  <2> QED
    BY <1>6, <2>1, <1>b DEF RecordStep, local
<1>7. ASSUME NEW p \in Procs, RecordStepFails(p) PROVE PendingInv'
  BY <1>7, <1>b DEF RecordStepFails
<1>8. ASSUME NEW p \in Procs, FinishRun(p) PROVE PendingInv'
  <2>1. CASE unproven'[p] = {}
    BY <1>8, <2>1, PendingFrame DEF FinishRun, Goto
  <2>2. CASE unproven'[p] # {}
    <3>1. Verdict(p) = "pass" /\ unproven'[p] = PassedLevels(outcome[p])
      BY <1>8, <2>2 DEF FinishRun
    <3>2. \E v \in Passes' : v.start = start[p] /\ unproven'[p] \subseteq v.passed
      <4> DEFINE v == [run |-> run[p], start |-> start[p], result |-> Verdict(p),
                       levels |-> selected[p], passed |-> PassedLevels(outcome[p]),
                       files |-> restored[p]]
      <4>1. v \in verdicts' /\ v.start = start[p] /\ v.passed = PassedLevels(outcome[p])
        BY <1>8 DEF FinishRun
      <4>2. v.result = "pass"
        BY <3>1
      <4> QED
        BY <3>1, <4>1, <4>2 DEF Passes
    <3>3. Passes \subseteq Passes'
      BY <1>8 DEF FinishRun, Passes
    <3>4. start' = start /\ pc' = [pc EXCEPT ![p] = "count"]
      BY <1>8 DEF FinishRun, Goto
    <3>5. \A q \in Procs \ {p} : unproven'[q] = unproven[q]
      BY <1>8 DEF FinishRun
    <3> QED
      BY <3>2, <3>3, <3>4, <3>5 DEF PendingInv
  <2> QED
    BY <2>1, <2>2
<1>9. ASSUME NEW p \in Procs, FinishRunFails(p) PROVE PendingInv'
  BY <1>9, <1>b DEF FinishRunFails
<1>10. ASSUME NEW p \in Procs, DeferredFinish(p) PROVE PendingInv'
  BY <1>10, <1>a DEF DeferredFinish
<1>11. ASSUME NEW p \in Procs, AddBytesRestored(p) PROVE PendingInv'
  BY <1>11 DEF AddBytesRestored, Goto, PendingInv, Passes, local
<1>12. ASSUME NEW p \in Procs, RecordProof(p) PROVE PendingInv'
  <2>1. PICK l \in unproven[p] :
          /\ unproven' = [unproven EXCEPT ![p] = @ \ {l}]
          /\ pc' = [pc EXCEPT ![p] = IF unproven[p] = {l} THEN "prune" ELSE "prove"]
    BY <1>12 DEF RecordProof, Goto
  <2>2. start' = start /\ Passes' = Passes
    BY <1>12 DEF RecordProof, Passes
  <2>3. unproven[p] # {l} => pc'[p] = "prove"
    BY <2>1
  <2> QED
    BY <2>1, <2>2, <2>3 DEF PendingInv
<1>13. ASSUME NEW p \in Procs, RecordProofFails(p) PROVE PendingInv'
  BY <1>13, <1>a DEF RecordProofFails
<1>14. ASSUME NEW p \in Procs, PruneRetention(p) PROVE PendingInv'
  BY <1>14, <1>a DEF PruneRetention
<1>15. ASSUME NEW p \in Procs, Cancel(p) PROVE PendingInv'
  BY <1>15 DEF Cancel, PendingInv, Passes
<1>16. ASSUME NEW p \in Procs, Crash(p) PROVE PendingInv'
  BY <1>16, <1>a DEF Crash
<1>17. CASE MarkAbandonedRuns
  BY <1>17, <1>b, RunAssumption DEF MarkAbandonedRuns, local
<1>18. CASE Tick
  BY <1>18 DEF Tick, PendingInv, Passes, local
<1>19. CASE UNCHANGED vars
  BY <1>19 DEF vars, local, PendingInv, Passes
<1> QED
  BY <1>1, <1>2, <1>3, <1>4, <1>5, <1>6, <1>7, <1>8, <1>9, <1>10, <1>11, <1>12, <1>13,
     <1>14, <1>15, <1>16, <1>17, <1>18, <1>19 DEF Next, Step

\* Only FinishRun records a verdict and only RecordProof moves a proof.
LEMMA LedgerFrame ==
  ASSUME [Next]_vars
  PROVE  \/ \E p \in Procs : FinishRun(p) \/ RecordProof(p)
         \/ UNCHANGED <<verdicts, proof>>
<1> USE DEF db, local
<1>1. ASSUME NEW p \in Procs, Step(p)
      PROVE  FinishRun(p) \/ RecordProof(p) \/ UNCHANGED <<verdicts, proof>>
  BY <1>1 DEF Step, CreateRun, CreateRunFails, ReadBaseline, RunLevel, RecordStep,
     RecordStepFails, FinishRunFails, DeferredFinish, AddBytesRestored, RecordProofFails,
     PruneRetention
<1>2. ASSUME NEW p \in Procs, Start(p) \/ Cancel(p) \/ Crash(p) PROVE UNCHANGED <<verdicts, proof>>
  BY <1>2 DEF Start, Cancel, Crash
<1>3. CASE MarkAbandonedRuns \/ Tick \/ UNCHANGED vars
  BY <1>3 DEF MarkAbandonedRuns, Tick, vars
<1> QED
  BY <1>1, <1>2, <1>3 DEF Next

\* A step of a run is a step of the proof ledger or leaves it alone.
LEMMA LedgerStep ==
  ASSUME TypeOK, PendingInv, [Next]_vars
  PROVE  [Ledger!Next]_<<Passes, proof>>
<1>1. ASSUME NEW p \in Procs, FinishRun(p) PROVE [Ledger!Next]_<<Passes, proof>>
  <2> DEFINE v == [run |-> run[p], start |-> start[p], result |-> Verdict(p),
                   levels |-> selected[p], passed |-> PassedLevels(outcome[p]),
                   files |-> restored[p]]
  <2>1. verdicts' = verdicts \cup {v} /\ proof' = proof
    BY <1>1 DEF FinishRun
  <2>2. CASE v.result = "pass"
    <3>1. Passes' = Passes \cup {v} /\ v \in Passes'
      BY <2>1, <2>2 DEF Passes
    <3> QED
      BY <2>1, <3>1 DEF Ledger!Next, Ledger!Pass
  <2>3. CASE v.result # "pass"
    BY <2>1, <2>3 DEF Passes
  <2> QED
    BY <2>2, <2>3
<1>2. ASSUME NEW p \in Procs, RecordProof(p) PROVE [Ledger!Next]_<<Passes, proof>>
  <2>1. PICK l \in unproven[p] :
          proof' = [proof EXCEPT ![l] = IF start[p] > @ THEN start[p] ELSE @]
    BY <1>2 DEF RecordProof
  <2>2. PICK v \in Passes : v.start = start[p] /\ unproven[p] \subseteq v.passed
    BY <2>1 DEF PendingInv
  <2>3. Passes' = Passes
    BY <1>2 DEF RecordProof, Passes
  <2>4. l \in Levels /\ proof \in [Levels -> Nat]
    BY DEF TypeOK
  <2>5. CASE start[p] > proof[l]
    <3>1. Ledger!Prove(v, l)
      BY <2>1, <2>2, <2>3, <2>4, <2>5 DEF Ledger!Prove
    <3> QED
      BY <2>4, <3>1 DEF Ledger!Next
  <2>6. CASE ~ (start[p] > proof[l])
    BY <2>1, <2>3, <2>4, <2>6
  <2> QED
    BY <2>5, <2>6
<1>3. CASE UNCHANGED <<verdicts, proof>>
  BY <1>3 DEF Passes
<1> QED
  BY <1>1, <1>2, <1>3, LedgerFrame

\* The abstract timeline begins where the store does.
LEMMA LedgerInit == Init => Ledger!Init
  BY DEF Init, Ledger!Init, Passes

\* Every proof stays backed by a recorded pass in which its level passed.
LEMMA ProofStep == TypeOK /\ PendingInv /\ ProofBacked /\ [Next]_vars => ProofBacked'
<1> SUFFICES ASSUME TypeOK, PendingInv, ProofBacked, [Next]_vars PROVE ProofBacked'
  OBVIOUS
<1>1. ASSUME NEW p \in Procs, FinishRun(p) PROVE ProofBacked'
  <2>1. verdicts \subseteq verdicts' /\ proof' = proof
    BY <1>1 DEF FinishRun
  <2> QED
    BY <2>1 DEF ProofBacked
<1>2. ASSUME NEW p \in Procs, RecordProof(p) PROVE ProofBacked'
  <2>1. PICK l \in unproven[p] :
          proof' = [proof EXCEPT ![l] = IF start[p] > @ THEN start[p] ELSE @]
    BY <1>2 DEF RecordProof
  <2>2. PICK v \in Passes : v.start = start[p] /\ unproven[p] \subseteq v.passed
    BY <2>1 DEF PendingInv
  <2>3. verdicts' = verdicts /\ v \in verdicts /\ v.result = "pass" /\ l \in v.passed
    BY <1>2, <2>2 DEF RecordProof, Passes
  <2>4. l \in Levels /\ proof \in [Levels -> Nat]
    BY DEF TypeOK
  <2>5. \A k \in Levels : proof'[k] = proof[k] \/ (k = l /\ proof'[k] = start[p])
    BY <2>1, <2>4
  <2> QED
    BY <2>2, <2>3, <2>5 DEF ProofBacked
<1>3. CASE UNCHANGED <<verdicts, proof>>
  BY <1>3 DEF ProofBacked
<1> QED
  BY <1>1, <1>2, <1>3, LedgerFrame

\* A row that has a verdict keeps it until retention deletes the row.
LEMMA ImmutableStep ==
  ASSUME TypeOK, RowInv, Next
  PROVE  \A i \in RunIds : result[i] \in Verdicts => result'[i] \in {result[i], "pruned"}
<1>t. /\ result \in [RunIds -> Verdicts \cup {"absent", "open", "pruned"}]
      /\ lastId \in 0..MaxRuns
  BY DEF TypeOK
<1> USE <1>t DEF Verdicts
<1>1. ASSUME NEW p \in Procs, CreateRun(p)
      PROVE  \A i \in RunIds : result[i] \in Verdicts => result'[i] = result[i]
  BY <1>1 DEF CreateRun, RowInv, RunIds
<1>2. ASSUME NEW p \in Procs, NEW x, Finalize(p, x)
      PROVE  \A i \in RunIds : result[i] \in Verdicts => result'[i] = result[i]
  BY <1>2 DEF Finalize
<1>3. ASSUME NEW p \in Procs, PruneRetention(p)
      PROVE  \A i \in RunIds : result'[i] \in {result[i], "pruned"}
  BY <1>3 DEF PruneRetention
<1>4. CASE MarkAbandonedRuns
  BY <1>4 DEF MarkAbandonedRuns
<1>5. ASSUME NEW p \in Procs, Start(p) \/ Cancel(p) \/ Crash(p) PROVE result' = result
  BY <1>5 DEF Start, Cancel, Crash, db
<1>6. ASSUME NEW p \in Procs, Step(p)
      PROVE  \/ CreateRun(p) \/ PruneRetention(p) \/ result' = result
             \/ \E x : Finalize(p, x)
  BY <1>6 DEF Step, CreateRunFails, ReadBaseline, RunLevel, RecordStep, RecordStepFails,
     FinishRun, FinishRunFails, DeferredFinish, AddBytesRestored, RecordProof,
     RecordProofFails, db
<1>7. CASE Tick
  BY <1>7 DEF Tick, db
<1> QED
  BY <1>1, <1>2, <1>3, <1>4, <1>5, <1>6, <1>7 DEF Next

\* A pruned row stays pruned: ids are not used again.
LEMMA PrunedStays ==
  ASSUME TypeOK, RowInv, [Next]_vars
  PROVE  \A i \in RunIds : result[i] = "pruned" => result'[i] = "pruned"
<1>t. /\ result \in [RunIds -> Verdicts \cup {"absent", "open", "pruned"}]
      /\ lastId \in 0..MaxRuns
  BY DEF TypeOK
<1> USE <1>t DEF Verdicts
<1>1. ASSUME NEW p \in Procs, CreateRun(p)
      PROVE  \A i \in RunIds : result[i] = "pruned" => result'[i] = result[i]
  BY <1>1 DEF CreateRun, RowInv, RunIds
<1>2. ASSUME NEW p \in Procs, NEW x, Finalize(p, x)
      PROVE  \A i \in RunIds : result[i] = "pruned" => result'[i] = result[i]
  BY <1>2 DEF Finalize
<1>3. ASSUME NEW p \in Procs, PruneRetention(p)
      PROVE  \A i \in RunIds : result'[i] \in {result[i], "pruned"}
  BY <1>3 DEF PruneRetention
<1>4. CASE MarkAbandonedRuns
  BY <1>4 DEF MarkAbandonedRuns
<1>5. ASSUME NEW p \in Procs, Start(p) \/ Cancel(p) \/ Crash(p) PROVE result' = result
  BY <1>5 DEF Start, Cancel, Crash, db
<1>6. ASSUME NEW p \in Procs, Step(p)
      PROVE  \/ CreateRun(p) \/ PruneRetention(p) \/ result' = result
             \/ \E x : Finalize(p, x)
  BY <1>6 DEF Step, CreateRunFails, ReadBaseline, RunLevel, RecordStep, RecordStepFails,
     FinishRun, FinishRunFails, DeferredFinish, AddBytesRestored, RecordProof,
     RecordProofFails, db
<1>7. CASE Tick \/ UNCHANGED vars
  BY <1>7 DEF Tick, vars, db
<1> QED
  BY <1>1, <1>2, <1>3, <1>4, <1>5, <1>6, <1>7 DEF Next

\* A process that comes back to idle without a kill or a failed statement has
\* left its row with a verdict, or found it gone.
LEMMA ZombieStep ==
  ASSUME TypeOK, RowInv, Next, NEW p \in Procs,
         pc[p] \notin {"idle", "down", "create"}, pc'[p] = "idle",
         ~ Crash(p), faults' = faults
  PROVE  result'[run[p]] # "open"
<1>t. /\ pc \in [Procs -> Places] /\ faults \in 0..MaxFaults
      /\ result \in [RunIds -> Verdicts \cup {"absent", "open", "pruned"}]
      /\ run[p] \in RunIds
      /\ MaxFaults \in Nat
  BY RunAssumption DEF TypeOK, RowInv, InRow
<1>0. ~ Fault
  BY <1>t DEF Fault
<1>1. ASSUME NEW q \in Procs, NEW where, Goto(q, where) PROVE q = p /\ where = "idle"
  BY <1>t, <1>1 DEF Goto
<1>2. CASE DeferredFinish(p)
  BY <1>t, <1>0, <1>2 DEF DeferredFinish, Finalize
<1>3. CASE PruneRetention(p)
  <2>1. result[run[p]] # "open"
    BY <1>3 DEF PruneRetention, RowInv
  <2> QED
    BY <1>t, <1>0, <1>3, <2>1 DEF PruneRetention
<1>4. ~ RecordProofFails(p) /\ ~ CreateRunFails(p)
  BY <1>0 DEF RecordProofFails, CreateRunFails
<1>5. ASSUME NEW q \in Procs, q # p PROVE ~ (Start(q) \/ Step(q) \/ Crash(q))
  <2>1. ASSUME NEW where PROVE ~ Goto(q, where)
    BY <1>1, <1>5
  <2> QED
    BY <2>1 DEF Start, Step, Crash, CreateRun, CreateRunFails, ReadBaseline, RunLevel,
       RecordStep, RecordStepFails, FinishRun, FinishRunFails, DeferredFinish,
       AddBytesRestored, RecordProof, RecordProofFails, PruneRetention, Leave
<1>6. ASSUME NEW q \in Procs PROVE ~ Cancel(q)
  BY DEF Cancel
<1>7. ~ MarkAbandonedRuns /\ ~ Tick
  <2>1. ASSUME MarkAbandonedRuns PROVE FALSE
    BY <1>1, <2>1, RunAssumption DEF MarkAbandonedRuns
  <2>2. ASSUME Tick PROVE FALSE
    BY <2>2 DEF Tick
  <2> QED
    BY <2>1, <2>2
<1>8. ASSUME Step(p) PROVE DeferredFinish(p) \/ PruneRetention(p)
  BY <1>8, <1>1, <1>4
  DEF Step, CreateRun, ReadBaseline, RunLevel, RecordStep, RecordStepFails, FinishRun,
      FinishRunFails, AddBytesRestored, RecordProof
<1> QED
  BY <1>2, <1>3, <1>5, <1>6, <1>7, <1>8 DEF Next, Start

\* A process that a step leaves alone keeps its agreement with its row, if the
\* row is left alone too, or is reaped or pruned.
LEMMA StepsFrame ==
  ASSUME NEW q \in Procs, StepsOf(q),
         pc'[q] = pc[q], run'[q] = run[q], outcome'[q] = outcome[q], selected'[q] = selected[q],
         InLevels(q) =>
           \/ result'[run[q]] = result[run[q]] /\ steps'[run[q]] = steps[run[q]]
           \/ result'[run[q]] \in {"error", "pruned"}
  PROVE  StepsOf(q)'
  BY DEF StepsOf, InLevels, AtLevel

\* A process that is not at its levels has no outcomes to agree with.
LEMMA StepsOutside ==
  ASSUME NEW q \in Procs, outcome'[q] = NoSteps,
         pc'[q] \notin {"baseline", "level", "record", "finish"}
  PROVE  StepsOf(q)'
  BY DEF StepsOf, InLevels, NoSteps

\* The other processes keep their agreement when p only moves its own locals.
LEMMA StepsOthers ==
  ASSUME TypeOK, StepsInv, NEW p \in Procs,
         \A q \in Procs \ {p} : /\ pc'[q] = pc[q] /\ run'[q] = run[q]
                                /\ outcome'[q] = outcome[q] /\ selected'[q] = selected[q],
         \A q \in Procs \ {p} : InLevels(q) =>
           \/ result'[run[q]] = result[run[q]] /\ steps'[run[q]] = steps[run[q]]
           \/ result'[run[q]] \in {"error", "pruned"},
         StepsOf(p)'
  PROVE  StepsInv'
<1> SUFFICES ASSUME NEW q \in Procs, q # p PROVE StepsOf(q)'
  BY DEF StepsInv
<1>1. StepsOf(q)
  BY DEF StepsInv
<1> QED
  BY <1>1, StepsFrame

\* While a run's levels execute, its row carries exactly the outcomes so far,
\* or has been reaped or pruned.
LEMMA StepsStep == TypeOK /\ RowInv /\ StepsInv /\ [Next]_vars => StepsInv'
<1> SUFFICES ASSUME TypeOK, RowInv, StepsInv, [Next]_vars PROVE StepsInv'
  OBVIOUS
<1>t. /\ pc \in [Procs -> Places] /\ run \in [Procs -> 0..MaxRuns]
      /\ selected \in [Procs -> SUBSET Levels]
      /\ outcome \in [Procs -> [Levels -> Statuses \cup {"none"}]]
      /\ result \in [RunIds -> Verdicts \cup {"absent", "open", "pruned"}]
      /\ steps \in [RunIds -> [Levels -> Statuses \cup {"none"}]]
      /\ lastId \in 0..MaxRuns
  BY DEF TypeOK
<1> USE <1>t
<1>i. ASSUME NEW p \in Procs PROVE StepsOf(p)
  BY DEF StepsInv
<1>r. ASSUME NEW p \in Procs, InRow(p), NEW q \in Procs, q # p, InLevels(q)
      PROVE  run[q] # run[p] /\ run[q] \in RunIds /\ run[q] =< lastId
  BY <1>r DEF RowInv, InRow, InLevels
<1>a. ASSUME NEW p \in Procs, NEW where \in {"idle", "down"}, Leave(p, where), steps' = steps,
             result' = result
      PROVE  StepsInv'
  <2>1. outcome'[p] = NoSteps /\ pc'[p] = where
    BY <1>a DEF Leave, Forget, Goto
  <2>2. StepsOf(p)'
    BY <2>1, StepsOutside
  <2> QED
    BY <1>a, <2>2, StepsOthers DEF Leave, Forget, Goto
<1>1. ASSUME NEW p \in Procs, Start(p) PROVE StepsInv'
  <2>1. StepsOf(p)'
    BY <1>1, <1>i, StepsOutside DEF Start, Goto, StepsOf, InLevels
  <2> QED
    BY <1>1, <2>1, StepsOthers DEF Start, Goto, db
<1>2. ASSUME NEW p \in Procs, CreateRun(p) PROVE StepsInv'
  <2>1. /\ lastId + 1 \in RunIds /\ steps' = steps /\ outcome' = outcome /\ selected' = selected
        /\ pc[p] = "create" /\ pc' = [pc EXCEPT ![p] = "baseline"]
        /\ run' = [run EXCEPT ![p] = lastId + 1]
        /\ result' = [result EXCEPT ![lastId + 1] = "open"]
    BY <1>2, RunAssumption DEF CreateRun, Goto, RunIds
  <2>n. lastId \in Nat
    BY RunAssumption
  <2>2. outcome[p] = NoSteps /\ steps[lastId + 1] = NoSteps
    <3>1. outcome[p] = NoSteps
      BY <1>i, <2>1 DEF StepsOf, InLevels
    <3>2. lastId + 1 > lastId
      BY <2>n
    <3> QED
      BY <2>1, <3>1, <3>2 DEF RowInv
  <2>3. StepsOf(p)'
    BY <2>1, <2>2 DEF StepsOf, InLevels, AtLevel, NoSteps
  <2>4. \A q \in Procs \ {p} : InLevels(q) => result'[run[q]] = result[run[q]]
    <3> SUFFICES ASSUME NEW q \in Procs \ {p}, InLevels(q) PROVE result'[run[q]] = result[run[q]]
      OBVIOUS
    <3>1. run[q] \in RunIds /\ run[q] =< lastId
      BY DEF RowInv, InRow, InLevels
    <3>2. run[q] # lastId + 1
      BY <2>n, <3>1
    <3> QED
      BY <2>1, <3>1, <3>2
  <2> QED
    BY <2>1, <2>3, <2>4, StepsOthers
<1>3. ASSUME NEW p \in Procs, CreateRunFails(p) PROVE StepsInv'
  BY <1>3, <1>a DEF CreateRunFails, db
<1>4. ASSUME NEW p \in Procs, ReadBaseline(p) PROVE StepsInv'
  <2>1. /\ pc[p] = "baseline" /\ pc' = [pc EXCEPT ![p] = "level"]
        /\ UNCHANGED <<result, steps, run, outcome, selected>>
    BY <1>4 DEF ReadBaseline, Goto, db
  <2>2. StepsOf(p)'
    BY <1>i, <2>1 DEF StepsOf, InLevels
  <2> QED
    BY <2>1, <2>2, StepsOthers
<1>5. ASSUME NEW p \in Procs, RunLevel(p) PROVE StepsInv'
  <2>1. PICK l \in Todo(p), s \in Statuses :
          /\ \A k \in Todo(p) : l =< k
          /\ outcome' = [outcome EXCEPT ![p][l] = s]
    BY <1>5 DEF RunLevel
  <2>2. /\ pc[p] = "level" /\ pc' = [pc EXCEPT ![p] = "record"]
        /\ UNCHANGED <<result, steps, run, selected>>
    BY <1>5 DEF RunLevel, Goto, db
  <2>3. /\ l \in Levels /\ l \in selected[p] /\ outcome[p][l] = "none"
        /\ outcome'[p][l] = s /\ s # "none"
        /\ \A k \in Levels : k # l => outcome'[p][k] = outcome[p][k]
    BY <2>1 DEF Todo, Statuses, Verdicts
  <2>4. \A k \in Levels : k \in Int
    BY RunAssumption
  <2>5. \A k \in Levels : k > l => outcome'[p][k] = "none"
    <3> SUFFICES ASSUME NEW k \in Levels, k > l, outcome[p][k] # "none" PROVE FALSE
      BY <2>3, <2>4
    <3> QED
      BY <1>i, <2>3, <2>4 DEF StepsOf
  <2>6. \A k \in Levels : k < l /\ k \in selected[p] => outcome'[p][k] # "none"
    BY <2>1, <2>3, <2>4 DEF Todo
  <2>7. AtLevel(p, l)'
    BY <2>3, <2>5 DEF AtLevel
  <2>8. \A k, m \in Levels :
          /\ outcome'[p][m] # "none" => m \in selected'[p]
          /\ outcome'[p][m] # "none" /\ k < m /\ k \in selected'[p] => outcome'[p][k] # "none"
    BY <1>i, <2>2, <2>3, <2>5, <2>6 DEF StepsOf
  <2>9. InLevels(p) /\ result'[run'[p]] \in {"open", "error", "pruned"}
    BY <1>i, <2>2 DEF StepsOf, InLevels
  <2>10. result'[run'[p]] = "open" => \A k \in Levels : k # l => steps'[run'[p]][k] = outcome'[p][k]
    BY <1>i, <2>2, <2>3, <2>9 DEF StepsOf
  <2>11. pc'[p] = "record"
    BY <2>2
  <2>12. StepsOf(p)'
    BY <2>7, <2>8, <2>9, <2>10, <2>11 DEF StepsOf, InLevels
  <2> QED
    BY <2>1, <2>2, <2>12, StepsOthers
<1>6. ASSUME NEW p \in Procs, RecordStep(p) PROVE StepsInv'
  <2>1. PICK l \in Levels : AtLevel(p, l) /\ steps' = [steps EXCEPT ![run[p]][l] = outcome[p][l]]
    BY <1>6 DEF RecordStep
  <2>2. /\ pc[p] = "record" /\ pc'[p] \in {"finish", "level"}
        /\ UNCHANGED <<result, run, outcome, selected>>
        /\ \A q \in Procs \ {p} : pc'[q] = pc[q]
    BY <1>6 DEF RecordStep, Goto, local
  <2>3. InRow(p) /\ InLevels(p) /\ run[p] \in RunIds
    BY <2>2 DEF InRow, InLevels, RowInv
  <2>4. \A k \in Levels : k # l => ~ AtLevel(p, k)
    BY <2>1, RunAssumption DEF AtLevel
  <2>5. /\ steps'[run[p]][l] = outcome[p][l]
        /\ \A k \in Levels : k # l => steps'[run[p]][k] = steps[run[p]][k]
    BY <2>1, <2>3
  <2>6. result[run[p]] = "open" => \A k \in Levels : steps'[run[p]][k] = outcome[p][k]
    BY <1>i, <2>3, <2>4, <2>5 DEF StepsOf
  <2>9. pc'[p] = "finish" => \A k \in selected'[p] : outcome'[p][k] # "none"
    BY <1>6, <2>2 DEF RecordStep, Goto, Todo
  <2>7. StepsOf(p)'
    BY <1>i, <2>2, <2>3, <2>6, <2>9 DEF StepsOf, InLevels
  <2>8. \A q \in Procs \ {p} : InLevels(q) => steps'[run[q]] = steps[run[q]]
    BY <1>r, <2>1, <2>3
  <2> QED
    BY <2>2, <2>7, <2>8, StepsOthers
<1>7. ASSUME NEW p \in Procs, RecordStepFails(p) \/ FinishRunFails(p) PROVE StepsInv'
  <2>1. /\ pc' = [pc EXCEPT ![p] = "deferred"] /\ outcome' = [outcome EXCEPT ![p] = NoSteps]
        /\ selected' = [selected EXCEPT ![p] = {}] /\ UNCHANGED <<result, steps, run>>
    BY <1>7 DEF RecordStepFails, FinishRunFails, Forget, Goto, db
  <2>2. StepsOf(p)'
    BY <2>1, StepsOutside
  <2> QED
    BY <2>1, <2>2, StepsOthers
<1>8. ASSUME NEW p \in Procs, FinishRun(p) PROVE StepsInv'
  <2>1. /\ pc[p] = "finish" /\ pc' = [pc EXCEPT ![p] = "count"]
        /\ outcome' = [outcome EXCEPT ![p] = NoSteps]
        /\ selected' = [selected EXCEPT ![p] = {}] /\ UNCHANGED <<steps, run>>
        /\ result' = [result EXCEPT ![run[p]] = Verdict(p)]
    BY <1>8 DEF FinishRun, Finalize, Forget, Goto
  <2>2. StepsOf(p)'
    BY <2>1, StepsOutside
  <2>3. InRow(p)
    BY <2>1 DEF InRow
  <2>4. \A q \in Procs \ {p} : InLevels(q) => result'[run[q]] = result[run[q]]
    BY <1>r, <2>1, <2>3
  <2> QED
    BY <2>1, <2>2, <2>4, StepsOthers
<1>9. ASSUME NEW p \in Procs, DeferredFinish(p) PROVE StepsInv'
  <2>1. /\ pc[p] = "deferred" /\ Leave(p, "idle") /\ steps' = steps
        /\ result' = result \/ result' = [result EXCEPT ![run[p]] = "error"]
    BY <1>9 DEF DeferredFinish, Finalize
  <2>2. outcome'[p] = NoSteps /\ pc'[p] = "idle"
    BY <2>1 DEF Leave, Forget, Goto
  <2>3. StepsOf(p)'
    BY <2>2, StepsOutside
  <2>4. InRow(p)
    BY <2>1 DEF InRow
  <2>5. \A q \in Procs \ {p} : InLevels(q) => result'[run[q]] = result[run[q]]
    BY <1>r, <2>1, <2>4
  <2> QED
    BY <2>1, <2>3, <2>5, StepsOthers DEF Leave, Forget, Goto
<1>10. ASSUME NEW p \in Procs, AddBytesRestored(p) \/ RecordProof(p) PROVE StepsInv'
  <2>1. /\ pc[p] \in {"count", "prove"} /\ pc'[p] \in {"prove", "prune"}
        /\ \A q \in Procs \ {p} : pc'[q] = pc[q]
        /\ UNCHANGED <<result, steps, run, outcome, selected>>
    BY <1>10 DEF AddBytesRestored, RecordProof, Goto, local
  <2>2. outcome'[p] = NoSteps
    BY <1>i, <2>1 DEF StepsOf, InLevels
  <2>3. StepsOf(p)'
    BY <2>1, <2>2, StepsOutside
  <2> QED
    BY <2>1, <2>3, StepsOthers
<1>11. ASSUME NEW p \in Procs, RecordProofFails(p) \/ Crash(p) PROVE StepsInv'
  BY <1>11, <1>a DEF RecordProofFails, Crash, db
<1>12. ASSUME NEW p \in Procs, PruneRetention(p) PROVE StepsInv'
  <2>1. Leave(p, "idle")
    BY <1>12 DEF PruneRetention
  <2>2. \A i \in RunIds : \/ result'[i] = result[i] /\ steps'[i] = steps[i]
                          \/ result'[i] = "pruned"
    BY <1>12 DEF PruneRetention
  <2>3. outcome'[p] = NoSteps /\ pc'[p] = "idle"
    BY <2>1 DEF Leave, Forget, Goto
  <2>4. StepsOf(p)'
    BY <2>3, StepsOutside
  <2>5. \A q \in Procs \ {p} : InLevels(q) =>
           \/ result'[run[q]] = result[run[q]] /\ steps'[run[q]] = steps[run[q]]
           \/ result'[run[q]] \in {"error", "pruned"}
    BY <2>2 DEF RowInv, InRow, InLevels
  <2> QED
    BY <2>1, <2>4, <2>5, StepsOthers DEF Leave, Forget, Goto
<1>13. ASSUME NEW p \in Procs, Cancel(p) PROVE StepsInv'
  BY <1>13 DEF Cancel, StepsInv, StepsOf, InLevels, AtLevel, db
<1>14. CASE MarkAbandonedRuns
  <2>1. /\ pc[Daemon] = "down" /\ pc' = [pc EXCEPT ![Daemon] = "idle"]
        /\ UNCHANGED <<steps, run, outcome, selected>>
    BY <1>14 DEF MarkAbandonedRuns, Goto, local
  <2>2. \A i \in RunIds : result'[i] = result[i] \/ result'[i] = "error"
    BY <1>14 DEF MarkAbandonedRuns
  <2>3. Daemon \in Procs /\ outcome'[Daemon] = NoSteps
    BY <1>i, <2>1, RunAssumption DEF StepsOf, InLevels
  <2>4. StepsOf(Daemon)'
    BY <2>1, <2>3, StepsOutside
  <2>5. \A q \in Procs \ {Daemon} : InLevels(q) =>
           \/ result'[run[q]] = result[run[q]] /\ steps'[run[q]] = steps[run[q]]
           \/ result'[run[q]] \in {"error", "pruned"}
    BY <2>1, <2>2 DEF RowInv, InRow, InLevels
  <2> QED
    BY <2>1, <2>3, <2>4, <2>5, StepsOthers
<1>15. CASE Tick \/ UNCHANGED vars
  <2>1. UNCHANGED <<pc, run, outcome, selected, result, steps>>
    BY <1>15 DEF Tick, vars, db, local
  <2> QED
    BY <1>i, <2>1, StepsFrame DEF StepsInv
<1> QED
  BY <1>1, <1>2, <1>3, <1>4, <1>5, <1>6, <1>7, <1>8, <1>9, <1>10, <1>11, <1>12, <1>13,
     <1>14, <1>15 DEF Next, Step

\* The verdict a row gets is the fold of the steps it holds, those of every
\* level its run selected, and none of it changes afterwards but by retention.
LEMMA MatchStep ==
  TypeOK /\ RowInv /\ StepsInv /\ VerdictMatchesSteps /\ [Next]_vars => VerdictMatchesSteps'
<1> DEFINE Matched(i) ==
      /\ aggregateRun(steps[i]) = result[i]
      /\ \E v \in verdicts : v.run = i /\ v.result = result[i] /\ v.levels = RecordedLevels(i)
<1> SUFFICES ASSUME TypeOK, RowInv, StepsInv, VerdictMatchesSteps, [Next]_vars,
                    NEW i \in RunIds, result'[i] \in {"pass", "fail"}
             PROVE  Matched(i)'
  BY DEF VerdictMatchesSteps
<1>t. /\ result \in [RunIds -> Verdicts \cup {"absent", "open", "pruned"}]
      /\ steps \in [RunIds -> [Levels -> Statuses \cup {"none"}]]
      /\ outcome \in [Procs -> [Levels -> Statuses \cup {"none"}]]
  BY DEF TypeOK
<1>s. ASSUME result'[i] = result[i], steps'[i] = steps[i], verdicts \subseteq verdicts'
      PROVE  Matched(i)'
  <2>1. Matched(i)
    BY <1>s DEF VerdictMatchesSteps
  <2>2. aggregateRun(steps[i])' = aggregateRun(steps[i]) /\ RecordedLevels(i)' = RecordedLevels(i)
    BY <1>s DEF aggregateRun, RecordedLevels
  <2> QED
    BY <1>s, <2>1, <2>2
<1> HIDE DEF Matched
<1> DEFINE Kept == result'[i] = result[i] /\ steps'[i] = steps[i] /\ verdicts \subseteq verdicts'
<1>1. ASSUME NEW p \in Procs, CreateRun(p) PROVE Kept
  BY <1>t, <1>1 DEF CreateRun
<1>2. ASSUME NEW p \in Procs, RecordStep(p) PROVE Kept
  <2>1. InLevels(p) /\ result[run[p]] \in {"open", "error", "pruned"} /\ result' = result
    BY <1>2 DEF RecordStep, InLevels, StepsInv, StepsOf
  <2>2. run[p] # i
    BY <2>1
  <2> QED
    BY <1>t, <1>2, <2>1, <2>2 DEF RecordStep
<1>3. ASSUME NEW p \in Procs, FinishRun(p) PROVE Matched(i)'
  <2> DEFINE v == [run |-> run[p], start |-> start[p], result |-> Verdict(p),
                   levels |-> selected[p], passed |-> PassedLevels(outcome[p]),
                   files |-> restored[p]]
  <2>1. /\ pc[p] = "finish" /\ InLevels(p) /\ result[run[p]] = "open" /\ steps' = steps
        /\ result' = [result EXCEPT ![run[p]] = Verdict(p)]
        /\ verdicts' = verdicts \cup {v}
    BY <1>3 DEF FinishRun, Finalize, InLevels
  <2>2. CASE run[p] = i
    <3>1. steps[i] = outcome[p]
      BY <1>t, <2>1, <2>2 DEF StepsInv, StepsOf
    <3>2. result'[i] = Verdict(p)
      BY <1>t, <2>1, <2>2
    <3>3. aggregateRun(steps[i])' = result'[i]
      BY <2>1, <3>1, <3>2 DEF aggregateRun, Verdict
    <3>4. v.run = i /\ v.result = result'[i] /\ v.levels = selected[p]
      BY <2>2, <3>2
    <3>5. \A l \in Levels : outcome[p][l] # "none" <=> l \in selected[p]
      BY <2>1 DEF StepsInv, StepsOf
    <3>6. RecordedLevels(i)' = selected[p]
      BY <2>1, <3>1, <3>5 DEF TypeOK, RecordedLevels
    <3>7. v \in verdicts'
      BY <2>1
    <3> HIDE DEF v
    <3> QED
      BY <3>3, <3>4, <3>6, <3>7 DEF Matched
  <2>3. CASE run[p] # i
    BY <1>s, <1>t, <2>1, <2>3
  <2> QED
    BY <2>2, <2>3
<1>4. ASSUME NEW p \in Procs, DeferredFinish(p) PROVE Kept
  BY <1>t, <1>4 DEF DeferredFinish, Finalize
<1>5. ASSUME NEW p \in Procs, PruneRetention(p) PROVE Kept
  BY <1>t, <1>5 DEF PruneRetention
<1>6. CASE MarkAbandonedRuns
  BY <1>s, <1>t, <1>6 DEF MarkAbandonedRuns
<1>7. ASSUME NEW p \in Procs, Step(p)
      PROVE  \/ CreateRun(p) \/ RecordStep(p) \/ FinishRun(p) \/ DeferredFinish(p)
             \/ PruneRetention(p) \/ UNCHANGED <<result, steps, verdicts>>
  BY <1>7 DEF Step, CreateRunFails, ReadBaseline, RunLevel, RecordStepFails, FinishRunFails,
     AddBytesRestored, RecordProof, RecordProofFails, db
<1>8. ASSUME NEW p \in Procs, Start(p) \/ Cancel(p) \/ Crash(p)
      PROVE  UNCHANGED <<result, steps, verdicts>>
  BY <1>8 DEF Start, Cancel, Crash, db
<1>9. CASE Tick \/ UNCHANGED vars
  BY <1>s, <1>9 DEF Tick, vars, db
<1> QED
  BY <1>s, <1>1, <1>2, <1>3, <1>4, <1>5, <1>6, <1>7, <1>8, <1>9 DEF Next

\* The store and the processes begin inside the invariant.
LEMMA InvInit == Init => RunInv
<1> SUFFICES ASSUME Init PROVE RunInv
  OBVIOUS
<1>1. TypeOK
  BY TypeInit
<1>2. RowInv
  BY DEF Init, RowInv, InRow
<1>3. StepsInv
  BY DEF Init, StepsInv, StepsOf, InLevels, NoSteps
<1>4. PendingInv
  BY DEF Init, PendingInv
<1>5. ProofBacked
  BY DEF Init, ProofBacked
<1>6. VerdictMatchesSteps
  BY DEF Init, VerdictMatchesSteps
<1> QED
  BY <1>1, <1>2, <1>3, <1>4, <1>5, <1>6 DEF RunInv

\* RunInv is inductive: in every interleaving of the daemon and the CLI
\* processes, with kills, cancellations and failing statements, the rows, the
\* steps and the proofs agree.
THEOREM RunInvariant == Spec => []RunInv
<1>1. RunInv /\ [Next]_vars => RunInv'
  BY TypeStep, RowStep, StepsStep, PendingStep, ProofStep, MatchStep DEF RunInv
<1> QED
  BY <1>1, InvInit, PTL DEF Spec

\* A proof in drill_state always names a run that was recorded as a pass and in
\* which that level passed.
THEOREM ProofsAreBacked == Spec => []ProofBacked
<1>1. RunInv => ProofBacked
  BY DEF RunInv
<1> QED
  BY <1>1, RunInvariant, PTL

\* A pass or fail in the history is the fold of the steps stored with it.
THEOREM VerdictsMatchSteps == Spec => []VerdictMatchesSteps
<1>1. RunInv => VerdictMatchesSteps
  BY DEF RunInv
<1> QED
  BY <1>1, RunInvariant, PTL

\* No process, reaper or late finisher rewrites a verdict.
THEOREM VerdictsAreImmutable == Spec => VerdictImmutable
<1>1. RunInv /\ [Next]_vars =>
        [\A i \in RunIds : result[i] \in Verdicts => result'[i] \in {result[i], "pruned"}]_vars
  BY ImmutableStep DEF RunInv
<1> QED
  BY <1>1, RunInvariant, PTL DEF Spec, VerdictImmutable

\* A run that returns leaves no row without a verdict.
THEOREM NoZombies == Spec => NoZombieRun
<1>1. RunInv /\ [Next]_vars =>
        [\A p \in Procs :
           /\ pc[p] \notin {"idle", "down", "create"} /\ pc'[p] = "idle"
           /\ ~ Crash(p) /\ faults' = faults
           => result'[run[p]] # "open"]_vars
  BY ZombieStep DEF RunInv
<1> QED
  BY <1>1, RunInvariant, PTL DEF Spec, NoZombieRun

\* The runs of all processes together implement the proof ledger: last_proven_at
\* only moves forward, and only to the start of a recorded pass.
THEOREM RunsImplementLedger == Spec => ImplementsLedger
<1>1. RunInv /\ [Next]_vars => [Ledger!Next]_<<Passes, proof>>
  BY LedgerStep DEF RunInv
<1> QED
  BY <1>1, LedgerInit, RunInvariant, PTL DEF Spec, ImplementsLedger, Ledger!Spec

-----------------------------------------------------------------------------
(***************************************************************************)
(* The bytes counter.  First sums over the rows, by their least            *)
(* counterexample, then what the counter holds.                            *)
(***************************************************************************)

\* Some naturals have a least one.
LEMMA Least ==
  ASSUME NEW T \in SUBSET Nat, T # {}
  PROVE  \E n \in T : \A m \in T : n =< m
<1> DEFINE Less == OpToRel(<, Nat)
<1>1. PICK n \in T : \A m \in T : ~ (<<m, n>> \in Less)
  <2> HIDE DEF Less
  <2>1. IsWellFoundedOn(Less, Nat)
    BY NatLessThanWellFounded DEF Less
  <2> QED
    BY <2>1, WFMin
<1>2. \A m \in T : ~ (m < n)
  BY <1>1 DEF OpToRel
<1> QED
  BY <1>2

\* s adds up f as far as n.
IsSums(f, s, n) ==
  /\ s \in [0..n -> Nat]
  /\ s[0] = 0
  /\ \A k \in 1..n : s[k] = s[k - 1] + f[k]

\* What the rows hold can be added up.
LEMMA SumsExist ==
  ASSUME NEW f \in [RunIds -> Nat] PROVE \E s : IsSums(f, s, MaxRuns)
<1> DEFINE T == {n \in 0..MaxRuns : ~ \E s : IsSums(f, s, n)}
<1>0. MaxRuns \in Nat
  BY RunAssumption
<1>1. SUFFICES ASSUME T # {} PROVE FALSE
  BY <1>0
<1>2. PICK n \in T : \A m \in T : n =< m
  <2>1. T \in SUBSET Nat
    BY <1>0
  <2> QED
    BY <1>1, <2>1, Least
<1>3. CASE n = 0
  <2>1. IsSums(f, [k \in 0..0 |-> 0], 0)
    BY DEF IsSums
  <2> QED
    BY <1>3, <2>1
<1>4. CASE n # 0
  <2>1. n \in 1..MaxRuns /\ n - 1 \in 0..MaxRuns /\ n - 1 \notin T
    BY <1>0, <1>2, <1>4
  <2>2. PICK s : IsSums(f, s, n - 1)
    BY <2>1
  <2> DEFINE t == [k \in 0..n |-> IF k = n THEN s[n - 1] + f[n] ELSE s[k]]
  <2>3. s \in [0..(n - 1) -> Nat] /\ s[0] = 0 /\ \A k \in 1..(n - 1) : s[k] = s[k - 1] + f[k]
    BY <2>2 DEF IsSums
  <2>4. f[n] \in Nat /\ s[n - 1] \in Nat
    BY <2>1, <2>3 DEF RunIds
  <2>5. t \in [0..n -> Nat] /\ t[0] = 0
    BY <2>1, <2>3, <2>4
  <2>6. ASSUME NEW k \in 1..n PROVE t[k] = t[k - 1] + f[k]
    <3>1. k - 1 \in 0..n /\ k - 1 # n /\ k \in 0..n
      BY <2>1
    <3>2. t[k - 1] = s[k - 1]
      BY <3>1
    <3>3. CASE k = n
      BY <3>2, <3>3
    <3>4. CASE k # n
      <4>1. k \in 1..(n - 1)
        BY <2>1, <3>4
      <4> QED
        BY <2>3, <3>1, <3>2, <3>4, <4>1
    <3> QED
      BY <3>3, <3>4
  <2>7. IsSums(f, t, n)
    <3> HIDE DEF t
    <3> QED
      BY <2>5, <2>6 DEF IsSums
  <2> QED
    BY <2>7
<1> QED
  BY <1>3, <1>4

\* Sums are unique, and grow with what is added up.
LEMMA TotalIsSum ==
  ASSUME NEW f \in [RunIds -> Nat]
  PROVE  \E s : IsSums(f, s, MaxRuns) /\ Total(f) = s[MaxRuns]
<1>0. MaxRuns \in Nat
  BY RunAssumption
<1>1. PICK s : IsSums(f, s, MaxRuns)
  BY SumsExist
<1>2. s \in [0..MaxRuns -> Nat] /\ s[0] = 0 /\ \A k \in 1..MaxRuns : s[k] = s[k - 1] + f[k]
  BY <1>1 DEF IsSums
<1> DEFINE u == CHOOSE g : g = [n \in 0..MaxRuns |-> IF n = 0 THEN 0 ELSE g[n - 1] + f[n]]
<1>3. s = [n \in 0..MaxRuns |-> IF n = 0 THEN 0 ELSE s[n - 1] + f[n]]
  <2>1. \A n \in 0..MaxRuns : s[n] = IF n = 0 THEN 0 ELSE s[n - 1] + f[n]
    BY <1>0, <1>2
  <2> QED
    BY <1>2, <2>1
<1>4. u = [n \in 0..MaxRuns |-> IF n = 0 THEN 0 ELSE u[n - 1] + f[n]]
  BY <1>3
<1>5. Total(f) = u[MaxRuns]
  BY DEF Total
<1> HIDE DEF u
<1>6. u[0] = 0 /\ \A k \in 1..MaxRuns : u[k] = u[k - 1] + f[k]
  BY <1>0, <1>4
<1> DEFINE T == {n \in 0..MaxRuns : u[n] # s[n]}
<1>7. T = {}
  <2>1. SUFFICES ASSUME T # {} PROVE FALSE
    OBVIOUS
  <2>2. T \in SUBSET Nat
    BY <1>0
  <2>3. PICK n \in T : \A m \in T : n =< m
    <3> HIDE DEF T
    <3> QED
      BY <2>1, <2>2, Least
  <2>4. n # 0
    BY <1>2, <1>6
  <2>5. n \in 1..MaxRuns /\ n - 1 \in 0..MaxRuns /\ n - 1 \notin T
    BY <1>0, <2>3, <2>4
  <2> QED
    BY <1>2, <1>6, <2>5
<1> QED
  BY <1>0, <1>1, <1>5, <1>7

\* The total is a natural number.
LEMMA TotalNat ==
  ASSUME NEW f \in [RunIds -> Nat] PROVE Total(f) \in Nat
<1>1. PICK s : IsSums(f, s, MaxRuns) /\ Total(f) = s[MaxRuns]
  BY TotalIsSum
<1> QED
  BY <1>1, RunAssumption DEF IsSums

\* What is more in every row is more in all.
LEMMA TotalGrows ==
  ASSUME NEW f \in [RunIds -> Nat], NEW g \in [RunIds -> Nat], \A i \in RunIds : f[i] =< g[i]
  PROVE  Total(f) =< Total(g)
<1>0. MaxRuns \in Nat
  BY RunAssumption
<1>1. PICK s : IsSums(f, s, MaxRuns) /\ Total(f) = s[MaxRuns]
  BY TotalIsSum
<1>2. PICK t : IsSums(g, t, MaxRuns) /\ Total(g) = t[MaxRuns]
  BY TotalIsSum
<1> DEFINE T == {n \in 0..MaxRuns : ~ (s[n] =< t[n])}
<1>3. T = {}
  <2>1. SUFFICES ASSUME T # {} PROVE FALSE
    OBVIOUS
  <2>2. T \in SUBSET Nat
    BY <1>0
  <2>3. PICK n \in T : \A m \in T : n =< m
    <3> HIDE DEF T
    <3> QED
      BY <2>1, <2>2, Least
  <2>4. s \in [0..MaxRuns -> Nat] /\ t \in [0..MaxRuns -> Nat] /\ s[0] = 0 /\ t[0] = 0
    BY <1>1, <1>2 DEF IsSums
  <2>5. n # 0
    BY <2>4
  <2>6. n \in 1..MaxRuns /\ n - 1 \in 0..MaxRuns /\ n - 1 \notin T
    BY <1>0, <2>3, <2>5
  <2>7. s[n] = s[n - 1] + f[n] /\ t[n] = t[n - 1] + g[n]
    BY <1>1, <1>2, <2>6 DEF IsSums
  <2>8. f[n] \in Nat /\ g[n] \in Nat /\ f[n] =< g[n]
    BY <2>6 DEF RunIds
  <2>9. s[n - 1] =< t[n - 1] /\ s[n - 1] \in Nat /\ t[n - 1] \in Nat
    BY <2>4, <2>6
  <2>10. s[n] =< t[n]
    BY <2>7, <2>8, <2>9
  <2> QED
    BY <2>10
<1> QED
  BY <1>0, <1>1, <1>2, <1>3

\* A row that holds more by x adds x.
LEMMA TotalAdds ==
  ASSUME NEW f \in [RunIds -> Nat], NEW g \in [RunIds -> Nat], NEW i \in RunIds, NEW x \in Nat,
         g[i] = f[i] + x, \A j \in RunIds : j # i => g[j] = f[j]
  PROVE  Total(g) = Total(f) + x
<1>0. MaxRuns \in Nat /\ i \in 1..MaxRuns
  BY RunAssumption DEF RunIds
<1>1. PICK s : IsSums(f, s, MaxRuns) /\ Total(f) = s[MaxRuns]
  BY TotalIsSum
<1>2. PICK t : IsSums(g, t, MaxRuns) /\ Total(g) = t[MaxRuns]
  BY TotalIsSum
<1> DEFINE More(n) == IF n < i THEN s[n] ELSE s[n] + x
           T == {n \in 0..MaxRuns : t[n] # More(n)}
<1>3. T = {}
  <2>1. SUFFICES ASSUME T # {} PROVE FALSE
    OBVIOUS
  <2>2. T \in SUBSET Nat
    BY <1>0
  <2>3. PICK n \in T : \A m \in T : n =< m
    <3> HIDE DEF T
    <3> QED
      BY <2>1, <2>2, Least
  <2>4. s \in [0..MaxRuns -> Nat] /\ t \in [0..MaxRuns -> Nat] /\ s[0] = 0 /\ t[0] = 0
    BY <1>1, <1>2 DEF IsSums
  <2>5. n # 0
    BY <1>0, <2>4
  <2>6. n \in 1..MaxRuns /\ n - 1 \in 0..MaxRuns /\ n - 1 \notin T
    BY <1>0, <2>3, <2>5
  <2>7. s[n] = s[n - 1] + f[n] /\ t[n] = t[n - 1] + g[n]
    BY <1>1, <1>2, <2>6 DEF IsSums
  <2>8. f[n] \in Nat /\ g[n] \in Nat /\ (n = i => g[n] = f[n] + x) /\ (n # i => g[n] = f[n])
    BY <2>6 DEF RunIds
  <2>9. t[n - 1] = More(n - 1) /\ s[n - 1] \in Nat
    BY <2>4, <2>6
  <2>10. t[n] = More(n)
    BY <1>0, <2>6, <2>7, <2>8, <2>9
  <2> QED
    BY <2>10
<1>4. t[MaxRuns] = More(MaxRuns)
  BY <1>0, <1>3
<1> QED
  BY <1>0, <1>1, <1>2, <1>4
\* Who is about to count: a process stays there with its run and what it
\* restored, comes there by FinishRun, and leaves the counter to AddBytesRestored.
LEMMA CountFrame ==
  ASSUME TypeOK, [Next]_vars
  PROVE  /\ \A p \in Procs : pc'[p] = "count" =>
              \/ pc[p] = "count" /\ run'[p] = run[p] /\ restored'[p] = restored[p]
              \/ FinishRun(p)
         /\ (\E p \in Procs : AddBytesRestored(p)) \/ counter' = counter
<1> USE DEF db, local
<1>t. /\ pc \in [Procs -> Places] /\ run \in [Procs -> 0..MaxRuns] /\ restored \in [Procs -> Nat]
  BY DEF TypeOK
<1> DEFINE Kept(q) == pc'[q] = "count" =>
                        pc[q] = "count" /\ run'[q] = run[q] /\ restored'[q] = restored[q]
<1>l. ASSUME NEW p \in Procs, NEW where, where # "count", Leave(p, where)
      PROVE  \A q \in Procs : Kept(q)
  <2>1. /\ pc' = [pc EXCEPT ![p] = where] /\ run' = [run EXCEPT ![p] = 0]
        /\ restored' = [restored EXCEPT ![p] = 0]
    BY <1>l DEF Leave, Goto
  <2> QED
    BY <1>t, <1>l, <2>1
<1>g. ASSUME NEW p \in Procs, NEW where, where # "count", Goto(p, where),
             \A q \in Procs \ {p} : run'[q] = run[q] /\ restored'[q] = restored[q]
      PROVE  \A q \in Procs : Kept(q)
  BY <1>t, <1>g DEF Goto
<1>1. ASSUME NEW p \in Procs, CreateRunFails(p) \/ RecordProofFails(p)
      PROVE  (\A q \in Procs : Kept(q)) /\ counter' = counter
  BY <1>1, <1>l DEF CreateRunFails, RecordProofFails
<1>2. ASSUME NEW p \in Procs, DeferredFinish(p) \/ PruneRetention(p)
      PROVE  (\A q \in Procs : Kept(q)) /\ counter' = counter
  BY <1>2, <1>l DEF DeferredFinish, PruneRetention
<1>3. ASSUME NEW p \in Procs, Crash(p)
      PROVE  (\A q \in Procs : Kept(q)) /\ counter' = counter
  BY <1>3, <1>l DEF Crash
<1>4. ASSUME NEW p \in Procs, Start(p) \/ CreateRun(p) \/ ReadBaseline(p) \/ RunLevel(p)
      PROVE  (\A q \in Procs : Kept(q)) /\ counter' = counter
  BY <1>4, <1>t, <1>g DEF Start, CreateRun, ReadBaseline, RunLevel
<1>5. ASSUME NEW p \in Procs, RecordStep(p) \/ RecordProof(p)
      PROVE  (\A q \in Procs : Kept(q)) /\ counter' = counter
  <2>1. UNCHANGED <<run, restored>> /\ counter' = counter
    BY <1>5 DEF RecordStep, RecordProof
  <2>2. \E where \in {"finish", "level", "prune", "prove"} : Goto(p, where)
    BY <1>5 DEF RecordStep, RecordProof
  <2> QED
    BY <1>g, <2>1, <2>2
<1>6. ASSUME NEW p \in Procs, RecordStepFails(p) \/ FinishRunFails(p)
      PROVE  (\A q \in Procs : Kept(q)) /\ counter' = counter
  BY <1>6, <1>t, <1>g DEF RecordStepFails, FinishRunFails
<1>7. ASSUME NEW p \in Procs, FinishRun(p)
      PROVE  (\A q \in Procs \ {p} : Kept(q)) /\ counter' = counter
  BY <1>7, <1>t DEF FinishRun, Goto
<1>8. ASSUME NEW p \in Procs, AddBytesRestored(p)
      PROVE  \A q \in Procs : Kept(q)
  <2>1. \E where \in {"prune", "prove"} : Goto(p, where)
    BY <1>8 DEF AddBytesRestored
  <2> QED
    BY <1>8, <1>g, <2>1 DEF AddBytesRestored
<1>9. ASSUME NEW p \in Procs, Cancel(p)
      PROVE  (\A q \in Procs : Kept(q)) /\ counter' = counter
  BY <1>9 DEF Cancel
<1>10. CASE MarkAbandonedRuns
  <2>1. (\A q \in Procs : Kept(q)) /\ counter' = counter
    BY <1>10, <1>g, RunAssumption DEF MarkAbandonedRuns
  <2> QED
    BY <2>1
<1>11. CASE Tick \/ UNCHANGED vars
  BY <1>11 DEF Tick, vars
<1> QED
  BY <1>1, <1>2, <1>3, <1>4, <1>5, <1>6, <1>7, <1>8, <1>9, <1>10, <1>11 DEF Next, Step

\* FinishRun records one verdict per row, and the process that is about to
\* count has recorded one for its row.
LEMMA VerdictRowsStep ==
  ASSUME TypeOK, RowInv, VerdictRows, [Next]_vars
  PROVE  VerdictRows'
<1>1. \A i \in RunIds : result[i] \notin {"absent", "open"} => result'[i] \notin {"absent", "open"}
  <2>1. result \in [RunIds -> Verdicts \cup {"absent", "open", "pruned"}]
    BY DEF TypeOK
  <2> QED
    BY <2>1, ImmutableStep, PrunedStays DEF Verdicts, vars, db
<1>2. \A p \in Procs : pc'[p] = "count" =>
        \/ pc[p] = "count" /\ run'[p] = run[p] /\ restored'[p] = restored[p]
        \/ FinishRun(p)
  BY CountFrame
<1>3. CASE UNCHANGED verdicts
  <2>1. \A p \in Procs : ~ FinishRun(p)
    <3>1. SUFFICES ASSUME NEW p \in Procs, FinishRun(p) PROVE FALSE
      OBVIOUS
    <3> DEFINE v == [run |-> run[p], start |-> start[p], result |-> Verdict(p),
                     levels |-> selected[p], passed |-> PassedLevels(outcome[p]),
                     files |-> restored[p]]
    <3>2. v \in verdicts'
      BY <3>1 DEF FinishRun
    <3>3. v.run = run[p] /\ result[run[p]] = "open"
      BY <3>1 DEF FinishRun, Finalize
    <3> HIDE DEF v
    <3> QED
      BY <1>3, <3>2, <3>3 DEF VerdictRows
  <2> QED
    BY <1>1, <1>2, <1>3, <2>1 DEF VerdictRows
<1>4. ASSUME NEW p \in Procs, FinishRun(p) PROVE VerdictRows'
  <2> DEFINE v == [run |-> run[p], start |-> start[p], result |-> Verdict(p),
                   levels |-> selected[p], passed |-> PassedLevels(outcome[p]),
                   files |-> restored[p]]
  <2>1. verdicts' = verdicts \cup {v}
    BY <1>4 DEF FinishRun
  <2>2. v.run = run[p] /\ v.files = restored[p]
    OBVIOUS
  <2>3. run[p] \in RunIds /\ restored[p] \in Nat
    BY <1>4 DEF FinishRun, RowInv, InRow, TypeOK
  <2>4. result[run[p]] = "open" /\ result'[run[p]] = Verdict(p) /\ UNCHANGED <<run, restored>>
    BY <1>4, <2>3 DEF FinishRun, Finalize, TypeOK
  <2>5. Verdict(p) \notin {"absent", "open"}
    BY VerdictType DEF Verdicts
  <2> HIDE DEF v
  <2>6. \A w \in verdicts : w.run # run[p]
    BY <2>4 DEF VerdictRows
  <2>7. \A w \in verdicts' :
          w.run \in RunIds /\ w.files \in Nat /\ result'[w.run] \notin {"absent", "open"}
    BY <1>1, <2>1, <2>2, <2>3, <2>4, <2>5 DEF VerdictRows
  <2>8. \A w, u \in verdicts' : w.run = u.run => w = u
    BY <2>1, <2>2, <2>6 DEF VerdictRows
  <2>9. ASSUME NEW q \in Procs, pc'[q] = "count"
        PROVE  \E w \in verdicts' : w.run = run'[q] /\ w.files = restored'[q]
    <3>1. CASE q = p
      BY <2>1, <2>2, <2>4, <3>1
    <3>2. CASE q # p
      <4>1. pc[q] = "count"
        BY <1>4, <2>9, <3>2 DEF FinishRun, Goto, TypeOK
      <4> QED
        BY <2>1, <2>4, <4>1 DEF VerdictRows
    <3> QED
      BY <3>1, <3>2
  <2> QED
    BY <2>7, <2>8, <2>9 DEF VerdictRows
<1>5. ASSUME NEW p \in Procs, RecordProof(p) PROVE UNCHANGED verdicts
  BY <1>5 DEF RecordProof
<1> QED
  BY <1>3, <1>4, <1>5, LedgerFrame

\* The files of a row are those of its verdict.
LEMMA FilesRecorded ==
  ASSUME VerdictRows
  PROVE  /\ RecordedFiles \in [RunIds -> Nat]
         /\ \A v \in verdicts : RecordedFiles[v.run] = v.files
         /\ \A i \in RunIds : (\A v \in verdicts : v.run # i) => RecordedFiles[i] = 0
<1>1. ASSUME NEW v \in verdicts PROVE (CHOOSE w \in verdicts : w.run = v.run) = v
  BY DEF VerdictRows
<1> QED
  BY <1>1 DEF RecordedFiles, VerdictRows

\* What is recorded stays recorded.
LEMMA FilesKept ==
  ASSUME VerdictRows, VerdictRows', verdicts \subseteq verdicts'
  PROVE  /\ RecordedFiles' \in [RunIds -> Nat]
         /\ \A i \in RunIds : RecordedFiles[i] =< RecordedFiles'[i]
         /\ \A v \in verdicts : RecordedFiles'[v.run] = v.files
<1>1. ASSUME NEW v \in verdicts' PROVE (CHOOSE w \in verdicts' : w.run = v.run) = v
  BY DEF VerdictRows
<1>2. /\ RecordedFiles' \in [RunIds -> Nat]
      /\ \A v \in verdicts' : RecordedFiles'[v.run] = v.files
  BY <1>1 DEF RecordedFiles, VerdictRows
<1>3. ASSUME NEW i \in RunIds PROVE RecordedFiles[i] =< RecordedFiles'[i]
  <2>1. RecordedFiles[i] \in Nat /\ RecordedFiles'[i] \in Nat
    BY <1>2, FilesRecorded
  <2>2. CASE \A v \in verdicts : v.run # i
    BY <2>1, <2>2, FilesRecorded
  <2>3. ASSUME NEW v \in verdicts, v.run = i PROVE RecordedFiles[i] = RecordedFiles'[i]
    BY <1>2, <2>3, FilesRecorded
  <2> QED
    BY <2>1, <2>2, <2>3
<1> QED
  BY <1>2, <1>3

\* The counter stays within what it may hold: AddBytesRestored adds what the
\* row of its own run holds, once; and no other step takes from the counted rows.
LEMMA CountStep ==
  ASSUME TypeOK, RowInv, CountInv, [Next]_vars
  PROVE  CountInv'
<1>1. VerdictRows /\ VerdictRows' /\ counter =< Total(CountedFiles)
  BY VerdictRowsStep DEF CountInv
<1>2. verdicts \subseteq verdicts'
  <2>1. ASSUME NEW p \in Procs, FinishRun(p) \/ RecordProof(p) PROVE verdicts \subseteq verdicts'
    BY <2>1 DEF FinishRun, RecordProof
  <2> QED
    BY <2>1, LedgerFrame
<1>3. RecordedFiles \in [RunIds -> Nat] /\ RecordedFiles' \in [RunIds -> Nat]
  BY <1>1, <1>2, FilesRecorded, FilesKept
<1>4. CountedFiles \in [RunIds -> Nat] /\ CountedFiles' \in [RunIds -> Nat]
  BY <1>3 DEF CountedFiles
<1>5. counter \in Nat /\ Total(CountedFiles) \in Nat /\ Total(CountedFiles') \in Nat
  BY <1>4, TotalNat DEF TypeOK
<1>6. ASSUME NEW p \in Procs, AddBytesRestored(p) PROVE counter' =< Total(CountedFiles')
  <2>1. /\ pc[p] = "count" /\ UNCHANGED <<verdicts, run>>
        /\ \/ counter' = counter + restored[p]
           \/ counter' = counter
    BY <1>6 DEF AddBytesRestored, local
  <2>2. pc'[p] # "count" /\ \A q \in Procs \ {p} : pc'[q] = pc[q]
    BY <1>6 DEF AddBytesRestored, Goto, TypeOK
  <2>3. run[p] \in RunIds /\ restored[p] \in Nat /\ \A q \in Procs \ {p} :
          pc[q] = "count" => run[q] # run[p]
    BY <2>1 DEF RowInv, InRow, TypeOK
  <2>4. PICK v \in verdicts : v.run = run[p] /\ v.files = restored[p]
    BY <1>1, <2>1 DEF VerdictRows
  <2>5. RecordedFiles[run[p]] = restored[p] /\ RecordedFiles' = RecordedFiles
    <3>1. RecordedFiles[run[p]] = restored[p]
      BY <1>1, <2>4, FilesRecorded
    <3>2. RecordedFiles' = RecordedFiles
      BY <2>1 DEF RecordedFiles
    <3> QED
      BY <3>1, <3>2
  <2>6. CountedFiles[run[p]] = 0 /\ CountedFiles'[run[p]] = restored[p]
    <3>1. CountedFiles[run[p]] = 0
      BY <2>1, <2>3 DEF CountedFiles
    <3>2. ~ \E q \in Procs : pc'[q] = "count" /\ run'[q] = run[p]
      BY <2>1, <2>2, <2>3
    <3> QED
      BY <2>3, <2>5, <3>1, <3>2 DEF CountedFiles
  <2>7. ASSUME NEW j \in RunIds, j # run[p] PROVE CountedFiles'[j] = CountedFiles[j]
    <3>1. (\E q \in Procs : pc'[q] = "count" /\ run'[q] = j) <=>
            \E q \in Procs : pc[q] = "count" /\ run[q] = j
      BY <2>1, <2>2, <2>7
    <3> QED
      BY <2>5, <3>1 DEF CountedFiles
  <2>8. Total(CountedFiles') = Total(CountedFiles) + restored[p]
    <3>1. CountedFiles'[run[p]] = CountedFiles[run[p]] + restored[p]
      BY <2>3, <2>6
    <3> HIDE DEF Total, CountedFiles
    <3> QED
      BY <1>4, <2>3, <2>7, <3>1, TotalAdds
  <2> QED
    BY <1>1, <1>5, <2>1, <2>3, <2>8
<1>7. ASSUME counter' = counter PROVE counter' =< Total(CountedFiles')
  <2>1. ASSUME NEW i \in RunIds PROVE CountedFiles[i] =< CountedFiles'[i]
    <3>1. RecordedFiles[i] =< RecordedFiles'[i] /\ CountedFiles'[i] \in Nat
      BY <1>1, <1>2, <1>4, FilesKept
    <3>2. CASE \E q \in Procs : pc[q] = "count" /\ run[q] = i
      <4>1. CountedFiles[i] = 0
        BY <3>2 DEF CountedFiles
      <4> QED
        BY <3>1, <4>1
    <3>3. CASE /\ ~ \E q \in Procs : pc[q] = "count" /\ run[q] = i
               /\ ~ \E q \in Procs : pc'[q] = "count" /\ run'[q] = i
      <4>1. CountedFiles[i] = RecordedFiles[i] /\ CountedFiles'[i] = RecordedFiles'[i]
        BY <3>3 DEF CountedFiles
      <4> QED
        BY <3>1, <4>1
    <3>4. ASSUME ~ \E q \in Procs : pc[q] = "count" /\ run[q] = i,
                 NEW q \in Procs, pc'[q] = "count", run'[q] = i
          PROVE  CountedFiles[i] =< CountedFiles'[i]
      <4>1. FinishRun(q)
        BY <3>4, CountFrame
      <4>2. result[i] = "open"
        BY <3>4, <4>1 DEF FinishRun, Finalize
      <4>3. RecordedFiles[i] = 0
        BY <1>1, <4>2, FilesRecorded DEF VerdictRows
      <4>4. CountedFiles[i] = 0
        BY <4>3 DEF CountedFiles
      <4> QED
        BY <3>1, <4>4
    <3> QED
      BY <3>2, <3>3, <3>4
  <2>2. Total(CountedFiles) =< Total(CountedFiles')
    <3> HIDE DEF Total, CountedFiles
    <3> QED
      BY <1>4, <2>1, TotalGrows
  <2> QED
    BY <1>1, <1>5, <1>7, <2>2
<1> QED
  BY <1>1, <1>6, <1>7, CountFrame DEF CountInv

\* drill_counters.bytes_restored_total never counts a restore twice, nor one
\* whose run was not finished by its own FinishRun: for any number of processes,
\* runs, kills and failing statements, and whatever retention deletes.
THEOREM CounterIsBacked == Spec => []CounterWithinVerdicts
<1>1. Init => CountInv
  <2>1. ASSUME Init PROVE VerdictRows /\ counter = 0
    BY <2>1 DEF Init, VerdictRows
  <2>2. ASSUME Init PROVE CountedFiles \in [RunIds -> Nat]
    BY <2>1, <2>2, FilesRecorded DEF CountedFiles
  <2>3. ASSUME Init PROVE CountInv
    <3>1. Total(CountedFiles) \in Nat
      BY <2>2, <2>3, TotalNat
    <3> QED
      BY <2>1, <2>3, <3>1 DEF CountInv
  <2> QED
    BY <2>3
<1>2. RunInv /\ CountInv /\ [Next]_vars => CountInv'
  BY CountStep DEF RunInv
<1>3. RunInv /\ CountInv => CounterWithinVerdicts
  <2>1. ASSUME RunInv, CountInv PROVE CounterWithinVerdicts
    <3>1. RecordedFiles \in [RunIds -> Nat] /\ CountedFiles \in [RunIds -> Nat]
      BY <2>1, FilesRecorded DEF CountInv, CountedFiles
    <3>2. \A i \in RunIds : CountedFiles[i] =< RecordedFiles[i]
      BY <3>1 DEF CountedFiles
    <3>3. Total(CountedFiles) =< Total(RecordedFiles)
      BY <3>1, <3>2, TotalGrows
    <3>4. /\ Total(CountedFiles) \in Nat /\ Total(RecordedFiles) \in Nat
          /\ counter \in Nat /\ counter =< Total(CountedFiles)
      BY <2>1, <3>1, TotalNat DEF CountInv, RunInv, TypeOK
    <3> QED
      BY <3>3, <3>4 DEF CounterWithinVerdicts
  <2> QED
    BY <2>1
<1> QED
  BY <1>1, <1>2, <1>3, RunInvariant, PTL DEF Spec
=============================================================================
