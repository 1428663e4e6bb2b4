--------------------------- MODULE StartupProofs ----------------------------
(***************************************************************************)
(* However many processes of however many releases open the database at    *)
(* once, and wherever one of them dies: the schema is what                 *)
(* schema_migrations says, and whoever has the store open finds what its   *)
(* statements name in it.  The checks of every accepted drill leave        *)
(* evidence, and the exit code of `redrill run` tells the worst of its     *)
(* drills.                                                                 *)
(***************************************************************************)
EXTENDS Startup, TLAPS

\* COALESCE(MAX(version), 0) over the versions 1 to n is n.
LEMMA MaxOfRange == ASSUME NEW n \in Nat PROVE Max0(1..n) = n
<1>1. CASE n = 0
  BY <1>1 DEF Max0
<1>2. CASE n > 0
  <2>1. n \in 1..n /\ \A k \in 1..n : k =< n
    BY <1>2
  <2>2. \A m \in 1..n : (\A k \in 1..n : k =< m) => m = n
    BY <1>2
  <2>3. Max0(1..n) = CHOOSE m \in 1..n : \A k \in 1..n : k =< m
    BY <2>1 DEF Max0
  <2> QED
    BY <2>1, <2>2, <2>3
<1> QED
  BY <1>1, <1>2

\* An empty database satisfies the invariant.
LEMMA SchemaInit == Init => SchemaInv
<1> SUFFICES ASSUME Init PROVE SchemaInv
  OBVIOUS
<1>1. SchemaType
  BY DEF Init, SchemaType, Places
<1>2. SchemaMatchesVersions
  <2>1. Len(applied) = 0 /\ applied = [i \in 1..0 |-> i]
    BY DEF Init
  <2> QED
    BY <2>1 DEF Init, SchemaMatchesVersions
<1>3. \A p \in Procs : MigratorOf(p)
  BY StartupAssumption DEF Init, MigratorOf, NoTx, Tx
<1> QED
  BY <1>1, <1>2, <1>3 DEF SchemaInv

\* A process that leaves, at whatever statement, takes its transaction with it
\* and disturbs nobody else's.
LEMMA LeaveKeeps ==
  ASSUME SchemaInv, NEW p \in Procs, NEW code, Leave(p, code), UNCHANGED <<applied, versions>>
  PROVE  SchemaInv'
<1>1. SchemaType'
  BY DEF SchemaInv, SchemaType, Leave, Goto, Places
<1>2. SchemaMatchesVersions'
  BY DEF SchemaInv, SchemaMatchesVersions
<1>3. ASSUME NEW q \in Procs PROVE MigratorOf(q)'
  <2>1. CASE q = p
    BY <2>1, StartupAssumption DEF SchemaInv, SchemaType, MigratorOf, Leave, Goto, NoTx, Tx
  <2>2. CASE q # p
    <3>1. pc'[q] = pc[q] /\ next'[q] = next[q] /\ binary'[q] = binary[q]
      BY <2>2 DEF SchemaInv, SchemaType, Leave, Goto
    <3>2. MigratorOf(q)
      BY DEF SchemaInv
    <3>3. CASE tx.owner = p
      <4>1. pc[q] \notin {"insert", "commit"}
        BY <2>2, <3>2, <3>3 DEF MigratorOf, Tx
      <4>2. tx'.owner # q
        BY <3>3, StartupAssumption DEF Leave, NoTx, Tx
      <4> QED
        BY <3>1, <3>2, <4>1, <4>2 DEF MigratorOf
    <3>4. CASE tx.owner # p
      <4>1. tx' = tx
        BY <3>4 DEF Leave
      <4> QED
        BY <3>1, <3>2, <4>1 DEF MigratorOf
    <3> QED
      BY <3>3, <3>4
  <2> QED
    BY <2>1, <2>2
<1> QED
  BY <1>1, <1>2, <1>3 DEF SchemaInv

\* A step that moves one process along and touches neither the database nor a
\* transaction, if it leaves that process where the invariant wants it.
LEMMA MoveKeeps ==
  ASSUME SchemaInv, NEW p \in Procs, NEW where \in Places, Goto(p, where),
         UNCHANGED schema,
         SchemaType', MigratorOf(p)',
         \A q \in Procs \ {p} : next'[q] = next[q] /\ binary'[q] = binary[q]
  PROVE  SchemaInv'
<1>1. SchemaMatchesVersions'
  BY DEF SchemaInv, SchemaMatchesVersions, schema
<1>2. ASSUME NEW q \in Procs \ {p} PROVE MigratorOf(q)'
  <2>1. pc'[q] = pc[q] /\ MigratorOf(q)
    BY DEF Goto, SchemaInv, SchemaType
  <2> QED
    BY <2>1 DEF MigratorOf, schema
<1> QED
  BY <1>1, <1>2 DEF SchemaInv

\* The commit appends the next migration and its row together.
LEMMA CommitKeeps == ASSUME SchemaInv, NEW p \in Procs, Commit(p) PROVE SchemaInv'
<1> DEFINE n == Len(applied)
<1>1. /\ pc[p] = "commit" /\ tx = Tx(p, TRUE, TRUE) /\ next[p] = n + 1
      /\ applied \in Seq(Nat) /\ n \in Nat
      /\ applied = [i \in 1..n |-> i] /\ versions = 1..n
  <2>1. pc[p] = "commit" /\ MigratorOf(p)
    BY DEF Commit, SchemaInv
  <2>2. tx = Tx(p, TRUE, TRUE) /\ next[p] = n + 1
    BY <2>1 DEF MigratorOf
  <2>3. applied \in Seq(Nat) /\ n \in Nat
    BY DEF SchemaInv, SchemaType
  <2>4. applied = [i \in 1..n |-> i] /\ versions = 1..n
    BY DEF SchemaInv, SchemaMatchesVersions
  <2> QED
    BY <2>1, <2>2, <2>3, <2>4
<1>2. /\ applied' = Append(applied, n + 1) /\ versions' = versions \cup {n + 1}
      /\ tx' = NoTx /\ next' = [next EXCEPT ![p] = @ + 1] /\ Goto(p, "migrate")
      /\ binary' = binary
  BY <1>1 DEF Commit, Tx
<1>3. applied' \in Seq(Nat) /\ Len(applied') = n + 1
  BY <1>1, <1>2
<1>4. SchemaType'
  BY <1>2, <1>3 DEF SchemaInv, SchemaType, Goto, Places
<1>5. SchemaMatchesVersions'
  <2>1. \A i \in 1..(n + 1) : applied'[i] = i
    BY <1>1, <1>2
  <2>2. applied' = [i \in 1..(n + 1) |-> applied'[i]]
    BY <1>3
  <2>3. applied' = [i \in 1..(n + 1) |-> i]
    BY <2>1, <2>2
  <2>4. versions' = 1..(n + 1)
    BY <1>1, <1>2
  <2> QED
    BY <1>3, <2>3, <2>4 DEF SchemaMatchesVersions
<1>6. ASSUME NEW q \in Procs PROVE MigratorOf(q)'
  <2>0. tx'.owner = "none" /\ "none" \notin Procs
    BY <1>2, StartupAssumption DEF NoTx, Tx
  <2>1. CASE q = p
    <3>1. pc'[p] = "migrate" /\ next'[p] = n + 2
      BY <1>1, <1>2 DEF SchemaInv, SchemaType, Goto
    <3> QED
      BY <1>1, <1>3, <2>0, <2>1, <3>1 DEF MigratorOf
  <2>2. CASE q # p
    <3>1. pc'[q] = pc[q] /\ next'[q] = next[q] /\ binary'[q] = binary[q] /\ MigratorOf(q)
      BY <1>2, <2>2 DEF SchemaInv, SchemaType, Goto
    <3>2. pc[q] \notin {"insert", "commit"}
      BY <1>1, <2>2, <3>1 DEF MigratorOf, Tx
    <3>3. next[q] \in Nat /\ binary[q] \in Nat
      BY DEF SchemaInv, SchemaType
    <3>4. tx'.owner # q
      BY <2>0
    <3>5. pc[q] = "migrate" => next'[q] \in 1..(Len(applied') + 1)
      <4>1. pc[q] = "migrate" => next[q] \in 1..(n + 1)
        BY <3>1 DEF MigratorOf
      <4> QED
        BY <1>1, <1>3, <3>1, <3>3, <4>1
    <3>6. pc[q] \in {"open", "running"} => Len(applied') >= binary'[q]
      <4>1. pc[q] \in {"open", "running"} => n >= binary[q]
        BY <3>1 DEF MigratorOf
      <4> QED
        BY <1>1, <1>3, <3>1, <3>3, <4>1
    <3> QED
      BY <3>1, <3>2, <3>4, <3>5, <3>6 DEF MigratorOf
  <2> QED
    BY <2>1, <2>2
<1> QED
  BY <1>4, <1>5, <1>6 DEF SchemaInv

\* Every step of a process that is opening its store.
LEMMA OpeningKeeps == ASSUME SchemaInv, NEW p \in Procs, Opening(p) PROVE SchemaInv'
<1>0. SchemaType /\ MigratorOf(p) /\ Len(applied) \in Nat
  BY DEF SchemaInv, SchemaType
<1>1. CASE LoadRejects(p)
  BY <1>1, LeaveKeeps DEF LoadRejects
<1>2. CASE NothingSelected(p)
  BY <1>2, LeaveKeeps DEF NothingSelected
<1>3. CASE ApplySQLFails(p)
  BY <1>3, LeaveKeeps DEF ApplySQLFails
<1>4. CASE LoadAccepts(p)
  <2>1. SchemaType' /\ MigratorOf(p)'
    BY <1>0, <1>4 DEF LoadAccepts, Goto, SchemaType, MigratorOf, Places, schema
  <2> QED
    BY <1>4, <2>1, MoveKeeps DEF LoadAccepts, Places
<1>5. CASE CreateTable(p)
  <2>1. SchemaType' /\ MigratorOf(p)'
    BY <1>0, <1>5 DEF CreateTable, Goto, SchemaType, MigratorOf, Places, schema
  <2> QED
    BY <1>5, <2>1, MoveKeeps DEF CreateTable, Places
<1>6. CASE ReadVersion(p)
  <2>1. Max0(versions) = Len(applied)
    BY <1>0, MaxOfRange DEF SchemaInv, SchemaMatchesVersions
  <2>2. next' = [next EXCEPT ![p] = Len(applied) + 1]
    BY <1>6, <2>1 DEF ReadVersion
  <2>3. SchemaType' /\ MigratorOf(p)'
    BY <1>0, <1>6, <2>2 DEF ReadVersion, Goto, SchemaType, MigratorOf, Places, schema
  <2>4. \A q \in Procs \ {p} : next'[q] = next[q] /\ binary'[q] = binary[q]
    BY <1>0, <1>6, <2>2 DEF ReadVersion, SchemaType
  <2> QED
    BY <1>6, <2>3, <2>4, MoveKeeps DEF ReadVersion, Places
<1>7. CASE ApplySQL(p)
  <2> DEFINE n == Len(applied)
  <2>1. next[p] = n + 1
    <3>1. next[p] \in 1..(n + 1) /\ applied = [i \in 1..n |-> i]
      BY <1>0, <1>7 DEF ApplySQL, Pending, MigratorOf, SchemaInv, SchemaMatchesVersions
    <3>2. next[p] \notin 1..n
      BY <1>7, <3>1 DEF ApplySQL, InEffect
    <3> QED
      BY <1>0, <3>1, <3>2
  <2>2. SchemaType' /\ SchemaMatchesVersions'
    BY <1>7 DEF SchemaInv, SchemaType, SchemaMatchesVersions, ApplySQL, Goto, Places
  <2>3. ASSUME NEW q \in Procs PROVE MigratorOf(q)'
    <3>1. CASE q = p
      BY <1>0, <1>7, <2>1, <3>1 DEF ApplySQL, Goto, MigratorOf, SchemaType, Tx
    <3>2. CASE q # p
      <4>1. pc'[q] = pc[q] /\ MigratorOf(q) /\ tx'.owner # q
        BY <1>7, <3>2 DEF ApplySQL, Goto, SchemaInv, SchemaType, Tx
      <4>2. pc[q] \notin {"insert", "commit"}
        BY <1>7, <4>1, StartupAssumption DEF ApplySQL, MigratorOf, NoTx, Tx
      <4> QED
        BY <1>7, <4>1, <4>2 DEF ApplySQL, MigratorOf
    <3> QED
      BY <3>1, <3>2
  <2> QED
    BY <2>2, <2>3 DEF SchemaInv
<1>8. CASE InsertVersion(p)
  <2>0. tx = Tx(p, TRUE, FALSE) /\ pc[p] = "insert" /\ tx' = Tx(p, tx.sql, TRUE)
    BY <1>0, <1>8 DEF InsertVersion, MigratorOf
  <2>1. tx = Tx(p, TRUE, FALSE) /\ tx' = Tx(p, TRUE, TRUE) /\ pc[p] = "insert"
    <3>1. Tx(p, TRUE, FALSE).sql = TRUE
      BY Zenon DEF Tx
    <3> QED
      BY <2>0, <3>1
  <2>2. SchemaType' /\ SchemaMatchesVersions'
    BY <1>8 DEF SchemaInv, SchemaType, SchemaMatchesVersions, InsertVersion, Goto, Places
  <2>3. ASSUME NEW q \in Procs PROVE MigratorOf(q)'
    <3>1. CASE q = p
      BY <1>0, <1>8, <2>1, <3>1 DEF InsertVersion, Goto, MigratorOf, SchemaType, Tx
    <3>2. CASE q # p
      <4>1. pc'[q] = pc[q] /\ MigratorOf(q) /\ tx'.owner # q
        BY <1>8, <2>1, <3>2 DEF InsertVersion, Goto, SchemaInv, SchemaType, Tx
      <4>2. pc[q] \notin {"insert", "commit"}
        BY <2>1, <3>2, <4>1 DEF MigratorOf, Tx
      <4> QED
        BY <1>8, <4>1, <4>2 DEF InsertVersion, MigratorOf
    <3> QED
      BY <3>1, <3>2
  <2> QED
    BY <2>2, <2>3 DEF SchemaInv
<1>9. CASE Commit(p)
  BY <1>9, CommitKeeps
<1>10. CASE Opened(p)
  <2>1. next[p] \in 1..(Len(applied) + 1) /\ next[p] > binary[p] /\ binary[p] \in Nat
    BY <1>0, <1>10 DEF Opened, MigratorOf, SchemaType
  <2>2. Len(applied) >= binary[p]
    BY <1>0, <2>1
  <2>3. SchemaType' /\ MigratorOf(p)'
    BY <1>0, <1>10, <2>2 DEF Opened, Goto, SchemaType, MigratorOf, Places, schema
  <2> QED
    BY <1>10, <2>3, MoveKeeps DEF Opened, Places
<1> QED
  BY <1>1, <1>2, <1>3, <1>4, <1>5, <1>6, <1>7, <1>8, <1>9, <1>10 DEF Opening

\* Every step of the specification.
LEMMA SchemaStep == SchemaInv /\ [Next]_vars => SchemaInv'
<1> SUFFICES ASSUME SchemaInv, [Next]_vars PROVE SchemaInv'
  OBVIOUS
<1>0. SchemaType /\ \A p \in Procs : MigratorOf(p)
  BY DEF SchemaInv
<1>1. CASE Stop
  BY <1>1, LeaveKeeps, StartupAssumption DEF Stop
<1>2. ASSUME NEW p \in Procs, Launch(p) PROVE SchemaInv'
  <2>1. PICK v \in 1..MaxVersion : binary' = [binary EXCEPT ![p] = v]
    BY <1>2 DEF Launch
  <2>2. SchemaType' /\ MigratorOf(p)'
    <3>1. v \in Nat
      BY StartupAssumption
    <3>2. pc'[p] = "load" /\ tx.owner # p /\ tx' = tx
      BY <1>0, <1>2 DEF Launch, Goto, SchemaType, MigratorOf, schema
    <3>3. SchemaType'
      BY <1>0, <1>2, <2>1, <3>1 DEF Launch, Goto, SchemaType, Places, schema
    <3> QED
      BY <3>2, <3>3 DEF MigratorOf
  <2>3. \A q \in Procs \ {p} : next'[q] = next[q] /\ binary'[q] = binary[q]
    BY <1>0, <1>2, <2>1 DEF Launch, SchemaType
  <2> QED
    BY <1>2, <2>2, <2>3, MoveKeeps DEF Launch, Places
<1>3. ASSUME NEW p \in Procs, Opening(p) PROVE SchemaInv'
  BY <1>3, OpeningKeeps
<1>4. ASSUME NEW p \in Procs, RunDrill(p) PROVE SchemaInv'
  <2>1. SchemaType' /\ MigratorOf(p)'
    BY <1>0, <1>4 DEF RunDrill, Goto, SchemaType, MigratorOf, Places, schema
  <2> QED
    BY <1>4, <2>1, MoveKeeps DEF RunDrill, Places
<1>5. ASSUME NEW p \in Procs, DrillDone(p) PROVE SchemaInv'
  <2>1. SchemaType' /\ MigratorOf(p)'
    BY <1>0, <1>5 DEF DrillDone, Goto, SchemaType, MigratorOf, Places, schema
  <2> QED
    BY <1>5, <2>1, MoveKeeps DEF DrillDone, Places
<1>6. ASSUME NEW p \in Procs,
             RunReturns(p) \/ ReadReturns(p) \/ ReadFails(p) \/ OpenFails(p) \/ Killed(p)
      PROVE  SchemaInv'
  BY <1>6, LeaveKeeps DEF RunReturns, ReadReturns, ReadFails, OpenFails, Killed
<1>7. CASE UNCHANGED vars
  BY <1>7 DEF SchemaInv, SchemaType, SchemaMatchesVersions, MigratorOf, vars, schema
<1> QED
  BY <1>1, <1>2, <1>3, <1>4, <1>5, <1>6, <1>7 DEF Next, Running

\* migrate.go: for any number of processes and releases, killed or failing at
\* any statement, what each process in migrate knows is still so when it acts.
THEOREM SchemaInvariant == Spec => []SchemaInv
  BY SchemaInit, SchemaStep, PTL DEF Spec

\* applyMigration: the migrations in effect are those of the rows of
\* schema_migrations, each once and in order.
THEOREM SchemaIsVersioned == Spec => []SchemaMatchesVersions
<1>1. SchemaInv => SchemaMatchesVersions
  BY DEF SchemaInv
<1> QED
  BY <1>1, SchemaInvariant, PTL

\* Open: whoever has the store open finds the tables and columns its release
\* uses, although the version it started from was read outside the transactions
\* and newer migrations may have dropped tables.
THEOREM OpenStoreHasSchema == Spec => []OpenHasSchema
<1>1. ASSUME SchemaInv PROVE OpenHasSchema
  <2>1. SUFFICES ASSUME NEW p \in Procs, pc[p] \in {"open", "running"},
                        NEW k \in 1..binary[p], NEW o \in Creates(k), o # "registry"
                 PROVE  o \in Present
    BY DEF OpenHasSchema, Uses
  <2>2. binary[p] \in Nat /\ Len(applied) \in Nat /\ Len(applied) >= binary[p]
    <3>1. SchemaType /\ MigratorOf(p)
      BY <1>1 DEF SchemaInv
    <3> QED
      BY <2>1, <3>1 DEF SchemaType, MigratorOf
  <2>3. applied = [i \in 1..Len(applied) |-> i]
    BY <1>1 DEF SchemaInv, SchemaMatchesVersions
  <2>4. k \in DOMAIN applied /\ applied[k] = k
    BY <2>2, <2>3
  <2>5. \A i \in DOMAIN applied : o \notin Drops(applied[i])
    BY <2>1 DEF Drops
  <2> QED
    BY <2>4, <2>5 DEF Present
<1> QED
  BY <1>1, SchemaInvariant, PTL

-----------------------------------------------------------------------------
(***************************************************************************)
(* The two halves of the configuration: what Validate accepts, the         *)
(* executor builds, for blocks of any size.                                *)
(***************************************************************************)

\* finishL2, l1Checks and loadAndCheck build every check of an accepted block
\* that is not switched off, and none without a builder.
LEMMA AcceptedIsBuilt ==
  ASSUME NEW d, d.level \in {"l1", "l2", "l3"}, Accepted(d), NEW s \in d.block,
         s.value # "off", s.key # "read_data_subset_pct"
  PROVE  Supported(d, s) /\ s \in Built(d)
<1>1. CASE d.level = "l1"
  <2>1. L1OK(d.block, d.type)
    BY <1>1 DEF Accepted
  <2>2. s.key \in (IF d.type = "dumpdir" THEN DumpKeys ELSE RepoKeys)
    BY <2>1 DEF L1OK
  <2>3. s.key \in (IF d.type = "dumpdir" THEN DumpKeys ELSE RepoKeys \ {"read_data_subset_pct"})
    BY <2>2
  <2>4. s \in Built(d)
    BY <1>1, <2>3 DEF Built
  <2>5. Supported(d, s)
    BY <1>1 DEF Supported
  <2> QED
    BY <2>4, <2>5
<1>2. CASE d.level = "l2"
  <2>1. L2OK(d.block, d.restore, d.type)
    BY <1>2 DEF Accepted
  <2>2. s.key \in L2Builders
    BY <2>1 DEF L2OK, CheckOK, CheckKinds, L2Kinds, L2Builders
  <2>3. s \in Built(d)
    BY <1>2 DEF Built
  <2>4. Supported(d, s)
    BY <1>2, <2>2 DEF Supported
  <2> QED
    BY <2>3, <2>4
<1>3. CASE d.level = "l3"
  <2>1. L3OK(d.block, d.complete, d.extract, d.type)
    BY <1>3 DEF Accepted
  <2>2. s.key \in L3Builders
    BY <2>1 DEF L3OK, CheckOK, CheckKinds, L3Kinds, L3Builders
  <2>3. s \in Built(d)
    BY <1>3 DEF Built
  <2>4. Supported(d, s)
    BY <1>3, <2>2 DEF Supported
  <2> QED
    BY <2>3, <2>4
<1> QED
  BY <1>1, <1>2, <1>3

\* Validate lets no L1 or L3 block through without a check that the executor
\* builds and that can fail, but for a minimum size of 0.
LEMMA AcceptedCanFail ==
  ASSUME NEW d, d.level \in {"l1", "l3"}, Accepted(d)
  PROVE  \E s \in d.block : s \in Built(d) /\ (CanFail(s) \/ s.value = "zero")
<1>1. CASE d.level = "l1"
  <2>1. L1OK(d.block, d.type)
    BY <1>1 DEF Accepted
  <2>2. PICK s \in d.block : s.key \notin {"size_anomaly_pct", "read_data_subset_pct"}
                             /\ s.value # "off"
    BY <2>1 DEF L1OK, hasVerdictCheck
  <2>3. s.key \in DumpKeys \cup RepoKeys
    BY <2>1 DEF L1OK
  <2>4. CanFail(s) \/ s.value = "zero"
    BY <2>2, <2>3 DEF CanFail, DumpKeys, RepoKeys
  <2>5. s \in Built(d)
    BY <2>2, AcceptedIsBuilt
  <2> QED
    BY <2>4, <2>5
<1>2. CASE d.level = "l3"
  <2>1. L3OK(d.block, d.complete, d.extract, d.type)
    BY <1>2 DEF Accepted
  <2>2. PICK s \in d.block : s.key \in L3Kinds
    BY <2>1 DEF L3OK, CheckOK, CheckKinds
  <2>3. CanFail(s) \/ s.value = "zero"
    BY <2>2 DEF CanFail, L3Kinds
  <2>4. s \in Built(d)
    BY <1>2 DEF Built
  <2> QED
    BY <2>3, <2>4
<1> QED
  BY <1>1, <1>2

\* Every built check is in the evidence of a level that came to its checks.
LEMMA EvidenceOfBuilt ==
  ASSUME NEW d, NEW ev \in Evidences(d), NEW s \in Built(d)
  PROVE  \E e \in ev : e.of = s
<1>1. PICK f : ev = {[of |-> t, status |-> f[t]] : t \in Built(d)}
  BY DEF Evidences
<1>2. [of |-> s, status |-> f[s]] \in ev
  BY <1>1
<1> QED
  BY <1>2

\* A level ends without any evidence and with an error, in the version trap, or
\* its evidence is that of every check of an accepted drill.
LEMMA WhatJobsAre ==
  ASSUME NEW j \in Jobs
  PROVE  /\ j.result \in {"pass", "fail", "error"}
         /\ \/ j.result = "error" /\ j.evidence = {}
            \/ j.result = "fail" /\ j.drill.level = "l3" /\ j.evidence = VersionTrap
            \/ /\ j.drill.level \in {"l1", "l2", "l3"} /\ Accepted(j.drill)
               /\ j.evidence \in Evidences(j.drill)
<1>1. PICK d \in AcceptedDrills : j \in UNION {Outcomes(d, snap) : snap \in Snapshots}
  BY DEF Jobs
<1>2. PICK snap \in Snapshots : j \in Outcomes(d, snap)
  BY <1>1
<1>3. Accepted(d) /\ d.level \in {"l1", "l2", "l3"}
  BY StartupAssumption DEF AcceptedDrills
<1>4. CASE j = [drill |-> d, evidence |-> {}, over |-> FALSE, result |-> "error"]
  BY <1>4
<1>5. ASSUME NEW ev \in Evidences(d), NEW o,
             j = [drill |-> d, evidence |-> ev, result |-> Aggregate(d, ev), over |-> o]
      PROVE  /\ j.result \in {"pass", "fail", "error"}
             /\ j.drill.level \in {"l1", "l2", "l3"} /\ Accepted(j.drill)
             /\ j.evidence \in Evidences(j.drill)
  <2>1. Aggregate(d, ev) \in {"pass", "fail", "error"}
    BY DEF Aggregate
  <2>2. j.drill = d /\ j.evidence = ev /\ j.result = Aggregate(d, ev)
    BY <1>5
  <2> QED
    BY <1>3, <2>1, <2>2
<1>6. CASE d.level = "l3" /\ j = [drill |-> d, evidence |-> VersionTrap, over |-> FALSE, result |-> "fail"]
  BY <1>6
<1>7. \/ j = [drill |-> d, evidence |-> {}, over |-> FALSE, result |-> "error"]
      \/ d.level = "l3" /\ j = [drill |-> d, evidence |-> VersionTrap, over |-> FALSE, result |-> "fail"]
      \/ \E ev \in Evidences(d) :
           j = [drill |-> d, evidence |-> ev, result |-> Aggregate(d, ev),
                over |-> Copies(d) /\ Quota > 0 /\ Restored(d, snap) > Quota]
  BY <1>2 DEF Outcomes
<1> QED
  BY <1>4, <1>5, <1>6, <1>7

-----------------------------------------------------------------------------
(***************************************************************************)
(* The drills of `redrill run` and its exit code.                          *)
(***************************************************************************)

DrillResults == {"pass", "fail", "error"}

WorstOf(S) == IF "fail" \in S THEN "fail" ELSE IF "error" \in S THEN "error" ELSE "pass"

CliType ==
  /\ pc \in [Procs -> Places]
  /\ left \in [Procs -> Nat]
  /\ job \in [Procs -> Jobs \cup {NoJob}]
  /\ worst \in [Procs -> DrillResults]
  /\ exit \in [Procs -> Nat]
  /\ results \in [Procs -> SUBSET DrillResults]

ExitOf(p) ==
  pc[p] = "off" /\ results[p] # {} /\ exit[p] # Signal =>
    /\ (exit[p] = 0) = (results[p] = {"pass"})
    /\ (exit[p] = 1) = ("fail" \in results[p])

\* A process that has not opened its store has no result to forget, one that has
\* carries the worst of its results, and the daemon never runs a drill this way.
CliOf(p) ==
  /\ pc[p] \in {"load", "create", "version", "migrate", "insert", "commit"} => results[p] = {}
  /\ worst[p] = IF pc[p] = "off" THEN "pass" ELSE WorstOf(results[p])
  /\ pc[p] = "running" => job[p] \in Jobs /\ left[p] > 0
  /\ p = Daemon => results[p] = {} /\ left[p] = 0
  /\ ExitOf(p)

CliInv == CliType /\ \A p \in Procs : CliOf(p)

LEMMA CliInit == ASSUME Init PROVE CliInv
<1>1. CliType
  BY DEF Init, CliType, Places, DrillResults, NoExit
<1>2. ASSUME NEW p \in Procs PROVE CliOf(p)
  BY DEF Init, CliOf, ExitOf
<1> QED
  BY <1>1, <1>2 DEF CliInv

\* A step of process p leaves the others as they are.
LEMMA OthersKeep ==
  ASSUME CliInv, NEW p \in Procs, CliType', CliOf(p)',
         \A q \in Procs \ {p} :
           /\ pc'[q] = pc[q] /\ left'[q] = left[q] /\ job'[q] = job[q]
           /\ worst'[q] = worst[q] /\ exit'[q] = exit[q] /\ results'[q] = results[q]
  PROVE  CliInv'
<1>1. ASSUME NEW q \in Procs \ {p} PROVE CliOf(q)'
  <2>1. CliOf(q)
    BY DEF CliInv
  <2> QED
    BY <2>1 DEF CliOf, ExitOf
<1> QED
  BY <1>1 DEF CliInv

\* A process leaves with the code of its results, or without any, or killed.
LEMMA LeaveTells ==
  ASSUME CliInv, NEW p \in Procs, NEW code \in Nat, Leave(p, code), UNCHANGED results,
         results[p] # {} /\ code # Signal => code = resultExit(WorstOf(results[p]))
  PROVE  CliInv'
<1>0. CliType /\ CliOf(p)
  BY DEF CliInv
<1>1. /\ pc' = [pc EXCEPT ![p] = "off"] /\ left' = [left EXCEPT ![p] = 0]
      /\ job' = [job EXCEPT ![p] = NoJob] /\ worst' = [worst EXCEPT ![p] = "pass"]
      /\ exit' = [exit EXCEPT ![p] = code]
  BY DEF Leave, Goto
<1>2. CliType'
  BY <1>0, <1>1 DEF CliType, Places, DrillResults
<1>3. ExitOf(p)'
  <2>1. SUFFICES ASSUME results[p] # {}, code # Signal
                 PROVE  /\ (code = 0) = (results[p] = {"pass"})
                        /\ (code = 1) = ("fail" \in results[p])
    BY <1>0, <1>1 DEF ExitOf, CliType
  <2>2. results[p] \subseteq {"pass", "fail", "error"}
    BY <1>0 DEF CliType, DrillResults
  <2>3. CASE "fail" \in results[p]
    <3>1. code = 1
      BY <2>1, <2>3 DEF WorstOf, resultExit
    <3> QED
      BY <2>3, <3>1
  <2>4. CASE "fail" \notin results[p] /\ "error" \in results[p]
    <3>1. code = 2
      BY <2>1, <2>4 DEF WorstOf, resultExit
    <3> QED
      BY <2>4, <3>1
  <2>5. CASE "fail" \notin results[p] /\ "error" \notin results[p]
    <3>1. code = 0
      BY <2>1, <2>5 DEF WorstOf, resultExit
    <3>2. results[p] = {"pass"}
      BY <2>1, <2>2, <2>5
    <3> QED
      BY <2>5, <3>1, <3>2
  <2> QED
    BY <2>3, <2>4, <2>5
<1>4. CliOf(p)'
  BY <1>0, <1>1, <1>3 DEF CliOf, CliType
<1>5. \A q \in Procs \ {p} :
        /\ pc'[q] = pc[q] /\ left'[q] = left[q] /\ job'[q] = job[q]
        /\ worst'[q] = worst[q] /\ exit'[q] = exit[q] /\ results'[q] = results[q]
  BY <1>0, <1>1 DEF CliType
<1> QED
  BY <1>2, <1>4, <1>5, OthersKeep

\* A step within Open moves the process along and touches none of this.
LEMMA OpeningTells ==
  ASSUME CliInv, NEW p \in Procs, NEW where \in Places \ {"off", "running"}, Goto(p, where),
         pc[p] \notin {"off", "open", "running"}, UNCHANGED <<cli, exit>>
  PROVE  CliInv'
<1>0. CliType /\ CliOf(p)
  BY DEF CliInv
<1>1. pc' = [pc EXCEPT ![p] = where] /\ UNCHANGED <<left, job, worst, results, exit>>
  BY DEF Goto, cli
<1>2. CliType'
  BY <1>0, <1>1 DEF CliType
<1>3. results[p] = {}
  BY <1>0 DEF CliOf, CliType, Places
<1>4. CliOf(p)'
  BY <1>0, <1>1, <1>3 DEF CliOf, ExitOf, CliType
<1>5. \A q \in Procs \ {p} : pc'[q] = pc[q]
  BY <1>0, <1>1 DEF CliType
<1> QED
  BY <1>1, <1>2, <1>4, <1>5, OthersKeep

\* worseResult keeps the worst of the results.
LEMMA WorstOfOneMore ==
  ASSUME NEW S, NEW r \in DrillResults
  PROVE  worseResult(WorstOf(S), r) = WorstOf(S \cup {r}) /\ WorstOf(S) \in DrillResults
  BY DEF worseResult, WorstOf, DrillResults

LEMMA CliStep == ASSUME CliInv, [Next]_vars PROVE CliInv'
<1>0. CliType /\ \A p \in Procs : CliOf(p)
  BY DEF CliInv
<1>1. CASE Stop
  <2>1. results[Daemon] = {} /\ Daemon \in Procs
    BY <1>0, StartupAssumption DEF CliOf
  <2> QED
    BY <1>1, <2>1, LeaveTells DEF Stop
<1>2. ASSUME NEW p \in Procs, Launch(p) PROVE CliInv'
  <2>1. /\ pc[p] = "off" /\ pc' = [pc EXCEPT ![p] = "load"] /\ UNCHANGED <<left, job, worst>>
        /\ exit' = [exit EXCEPT ![p] = NoExit] /\ results' = [results EXCEPT ![p] = {}]
    BY <1>2 DEF Launch, Goto
  <2>2. CliType'
    BY <1>0, <2>1 DEF CliType, Places, NoExit
  <2>3. CliOf(p)'
    BY <1>0, <2>1 DEF CliOf, ExitOf, CliType, WorstOf
  <2>4. \A q \in Procs \ {p} : pc'[q] = pc[q] /\ exit'[q] = exit[q] /\ results'[q] = results[q]
    BY <1>0, <2>1 DEF CliType
  <2> QED
    BY <2>1, <2>2, <2>3, <2>4, OthersKeep
<1>3. ASSUME NEW p \in Procs, LoadRejects(p) \/ NothingSelected(p) \/ ApplySQLFails(p) \/ OpenFails(p)
      PROVE  CliInv'
  <2>1. /\ pc[p] \in {"load", "create", "version", "migrate", "insert", "commit"}
        /\ UNCHANGED results /\ \E code \in Nat : Leave(p, code)
    BY <1>3 DEF LoadRejects, NothingSelected, ApplySQLFails, OpenFails, Pending
  <2>2. results[p] = {}
    BY <1>0, <2>1 DEF CliOf
  <2> QED
    BY <2>1, <2>2, LeaveTells
<1>4. ASSUME NEW p \in Procs, LoadAccepts(p) PROVE CliInv'
  <2>1. /\ pc[p] = "load" /\ pc' = [pc EXCEPT ![p] = "create"]
        /\ UNCHANGED <<job, worst, exit, results>>
    BY <1>4 DEF LoadAccepts, Goto
  <2>2. PICK n \in Nat : left' = [left EXCEPT ![p] = n] /\ (p = Daemon => n = 0)
    <3>1. PICK k \in 0..MaxDrills : left' = [left EXCEPT ![p] = IF p = Daemon THEN 0 ELSE k]
      BY <1>4 DEF LoadAccepts
    <3>2. k \in Nat
      BY StartupAssumption
    <3>3. CASE p = Daemon
      BY <3>1, <3>3
    <3>4. CASE p # Daemon
      BY <3>1, <3>2, <3>4
    <3> QED
      BY <3>3, <3>4
  <2>3. CliType'
    BY <1>0, <2>1, <2>2 DEF CliType, Places
  <2>4. CliOf(p)'
    BY <1>0, <2>1, <2>2 DEF CliOf, ExitOf, CliType
  <2>5. \A q \in Procs \ {p} : pc'[q] = pc[q] /\ left'[q] = left[q]
    BY <1>0, <2>1, <2>2 DEF CliType
  <2> QED
    BY <2>1, <2>3, <2>4, <2>5, OthersKeep
<1>5. ASSUME NEW p \in Procs,
             CreateTable(p) \/ ReadVersion(p) \/ ApplySQL(p) \/ InsertVersion(p) \/ Commit(p) \/ Opened(p)
      PROVE  CliInv'
  <2>1. /\ pc[p] \notin {"off", "open", "running"} /\ UNCHANGED <<cli, exit>>
        /\ \E where \in Places \ {"off", "running"} : Goto(p, where)
    BY <1>5 DEF CreateTable, ReadVersion, ApplySQL, InsertVersion, Commit, Opened, Pending, Places
  <2> QED
    BY <2>1, OpeningTells
<1>6. ASSUME NEW p \in Procs, RunDrill(p) PROVE CliInv'
  <2>1. /\ pc[p] = "open" /\ left[p] > 0 /\ pc' = [pc EXCEPT ![p] = "running"]
        /\ UNCHANGED <<left, worst, exit, results>>
    BY <1>6 DEF RunDrill, Goto
  <2>2. PICK j \in Jobs : job' = [job EXCEPT ![p] = j]
    BY <1>6 DEF RunDrill
  <2>3. CliType'
    BY <1>0, <2>1, <2>2 DEF CliType, Places
  <2>4. CliOf(p)'
    BY <1>0, <2>1, <2>2 DEF CliOf, ExitOf, CliType
  <2>5. \A q \in Procs \ {p} : pc'[q] = pc[q] /\ job'[q] = job[q]
    BY <1>0, <2>1, <2>2 DEF CliType
  <2> QED
    BY <2>1, <2>3, <2>4, <2>5, OthersKeep
<1>7. ASSUME NEW p \in Procs, DrillDone(p) PROVE CliInv'
  <2>1. /\ pc[p] = "running" /\ pc' = [pc EXCEPT ![p] = "open"] /\ UNCHANGED exit
        /\ left' = [left EXCEPT ![p] = left[p] - 1] /\ job' = [job EXCEPT ![p] = NoJob]
    BY <1>7 DEF DrillDone, Goto
  <2>2. PICK r \in {job[p].result, "error"} :
          /\ worst' = [worst EXCEPT ![p] = worseResult(worst[p], r)]
          /\ results' = [results EXCEPT ![p] = results[p] \cup {r}]
    BY <1>7 DEF DrillDone
  <2>3. job[p] \in Jobs /\ left[p] > 0 /\ p # Daemon /\ worst[p] = WorstOf(results[p])
    <3>1. CliOf(p) /\ left[p] \in Nat
      BY <1>0 DEF CliType
    <3> QED
      BY <2>1, <3>1 DEF CliOf
  <2>4. r \in DrillResults
    BY <2>3, WhatJobsAre DEF DrillResults
  <2>5. left[p] - 1 \in Nat
    BY <1>0, <2>3 DEF CliType
  <2>6. /\ worseResult(worst[p], r) = WorstOf(results[p] \cup {r})
        /\ WorstOf(results[p] \cup {r}) \in DrillResults
    BY <2>3, <2>4, WorstOfOneMore
  <2>7. /\ pc'[p] = "open" /\ worst'[p] = WorstOf(results'[p])
    BY <1>0, <2>1, <2>2, <2>6 DEF CliType
  <2>8. CliType'
    <3>1. worst' \in [Procs -> DrillResults]
      BY <1>0, <2>2, <2>6 DEF CliType
    <3>2. results' \in [Procs -> SUBSET DrillResults]
      BY <1>0, <2>2, <2>4 DEF CliType
    <3> QED
      BY <1>0, <2>1, <2>5, <3>1, <3>2 DEF CliType, Places
  <2>9. CliOf(p)'
    BY <2>3, <2>7 DEF CliOf, ExitOf
  <2>10. \A q \in Procs \ {p} :
           /\ pc'[q] = pc[q] /\ left'[q] = left[q] /\ job'[q] = job[q]
           /\ worst'[q] = worst[q] /\ results'[q] = results[q]
    BY <1>0, <2>1, <2>2 DEF CliType
  <2> QED
    BY <2>1, <2>8, <2>9, <2>10, OthersKeep
<1>8. ASSUME NEW p \in Procs, RunReturns(p) PROVE CliInv'
  <2>1. worst[p] = WorstOf(results[p]) /\ worst[p] \in {"pass", "fail", "error"}
    BY <1>0, <1>8 DEF RunReturns, CliOf, CliType, DrillResults
  <2>2. resultExit(worst[p]) \in Nat
    BY <2>1 DEF resultExit
  <2> QED
    BY <1>8, <2>1, <2>2, LeaveTells DEF RunReturns
<1>9. ASSUME NEW p \in Procs, ReadReturns(p) \/ ReadFails(p) PROVE CliInv'
  BY <1>9, LeaveTells DEF ReadReturns, ReadFails, Reads
<1>10. ASSUME NEW p \in Procs, Killed(p) PROVE CliInv'
  BY <1>10, LeaveTells DEF Killed, Signal
<1>11. CASE UNCHANGED vars
  BY <1>0, <1>11 DEF CliInv, CliType, CliOf, ExitOf, vars, cli
<1> QED
  BY <1>1, <1>2, <1>3, <1>4, <1>5, <1>6, <1>7, <1>8, <1>9, <1>10, <1>11 DEF Next, Opening, Running

LEMMA CliInvariant == Spec => []CliInv
  BY CliInit, CliStep, PTL DEF Spec

\* selectDrills, worseResult and resultExit: whatever the drills, their order and
\* the way each ends, and wherever else the process may leave.
THEOREM ExitCodeTellsWorst == Spec => []ExitTellsWorst
<1>1. CliInv => ExitTellsWorst
  BY DEF CliInv, CliOf, ExitOf, ExitTellsWorst
<1> QED
  BY <1>1, CliInvariant, PTL

\* config.Validate and the builders of exec.go and l3.go agree: a level of an
\* accepted drill that gets to its checks passes none of them over, whatever
\* drills the files hold.
THEOREM NoConfiguredCheckVanishes == Spec => []NoCheckVanishes
<1>1. ASSUME CliInv PROVE NoCheckVanishes
  <2>1. SUFFICES ASSUME NEW p \in Procs, pc[p] = "running",
                        ~ (job[p].result = "error" /\ job[p].evidence = {}),
                        ~ (/\ job[p].result = "fail" /\ job[p].drill.level = "l3"
                           /\ job[p].evidence = VersionTrap),
                        NEW s \in job[p].drill.block,
                        s.value # "off", s.key # "read_data_subset_pct"
                 PROVE  Supported(job[p].drill, s) /\ \E e \in job[p].evidence : e.of = s
    BY DEF NoCheckVanishes
  <2>2. job[p] \in Jobs
    BY <1>1, <2>1 DEF CliInv, CliOf
  <2> DEFINE d == job[p].drill
  <2>3. /\ d.level \in {"l1", "l2", "l3"} /\ Accepted(d)
        /\ job[p].evidence \in Evidences(d)
    BY <2>1, <2>2, WhatJobsAre
  <2> HIDE DEF d
  <2>4. Supported(d, s) /\ s \in Built(d)
    BY <2>1, <2>3, AcceptedIsBuilt DEF d
  <2> QED
    BY <2>3, <2>4, EvidenceOfBuilt DEF d
<1> QED
  BY <1>1, CliInvariant, PTL

\* config.Validate refuses an L1 or L3 that cannot fail, and the executor runs
\* the check for which it was accepted, whatever drills the files hold.
THEOREM PassedCheckCouldFail == Spec => []PassCouldHaveFailed
<1>1. ASSUME CliInv PROVE PassCouldHaveFailed
  <2>1. SUFFICES ASSUME NEW p \in Procs, pc[p] = "running", job[p].drill.level # "l2",
                        job[p].result = "pass"
                 PROVE  \E e \in job[p].evidence :
                          e.of \in job[p].drill.block /\ (CanFail(e.of) \/ e.of.value = "zero")
    BY DEF PassCouldHaveFailed
  <2>2. job[p] \in Jobs
    BY <1>1, <2>1 DEF CliInv, CliOf
  <2> DEFINE d == job[p].drill
  <2>3. d.level \in {"l1", "l3"} /\ Accepted(d) /\ job[p].evidence \in Evidences(d)
    BY <2>1, <2>2, WhatJobsAre
  <2> HIDE DEF d
  <2>4. PICK s \in d.block : s \in Built(d) /\ (CanFail(s) \/ s.value = "zero")
    BY <2>3, AcceptedCanFail
  <2>5. PICK e \in job[p].evidence : e.of = s
    BY <2>3, <2>4, EvidenceOfBuilt
  <2> QED
    BY <2>4, <2>5 DEF d
<1> QED
  BY <1>1, CliInvariant, PTL
=============================================================================
