---------------------------- MODULE AlerterProofs ---------------------------
(***************************************************************************)
(* The alerter for every SLA, retention, digest period and number of runs: *)
(* no repeated stale alert, no recovery out of the blue, no second digest  *)
(* for a slot.                                                             *)
(***************************************************************************)
EXTENDS Alerter, FiniteSetTheorems, TLAPS

-----------------------------------------------------------------------------
(***************************************************************************)
(* What keeps the alerts apart, one part for each kind.                    *)
(***************************************************************************)

\* The digest: what was sent is behind the mark, and a digest on its way is for
\* a later slot, which the mark has passed.
DigestKept ==
  /\ digested =< digestMark /\ digestMark =< clock
  /\ sweeper = "digestSend" => digested < LastSlot(digestAt) /\ LastSlot(digestAt) =< digestMark

\* The stale alert: an episode lasts as long as the SLA is missed, keeps the flag
\* up until a recover, and the sweeper does not think otherwise.
EpisodeKept ==
  /\ episode => IsStale
  /\ episode /\ ~ recovered => stale
  /\ episode /\ sweeper \in {"firstFlag", "flag"} => swept

\* The recover after a flag: a flag that is up, or was when afterRun read it, has
\* a cause that no recover accounts for.
FlagKept ==
  /\ stale => raised \/ cause
  /\ cause => runner \in {"prev", "classify"}
  /\ seen.wasStale /\ runner \in {"prev", "classify"} => cause

\* The runs table: rows come one after the other, and retention leaves no hole
\* among them.
TableKept ==
  /\ \A i \in RunIds : result[i] = "absent" <=> i > lastId
  /\ \A i, j \in RunIds : i < j /\ j =< lastId /\ Exists(i) => Exists(j)

\* The table as afterRun finds it: its own row is there, or was pruned.
RowsKept ==
  /\ TableKept
  /\ runner \in {"flag", "prev", "classify"} => result[own.id] \in {own.verdict, "pruned"}

\* The runs that are over for the alerter have ids below this one.
Ceiling == IF runner \in {"running", "flag", "prev", "classify"} THEN own.id ELSE lastId + 1

\* The recover after a bad run: a bad row is still to be accounted for, or a
\* later run, which is over, has done so.
BadRowsKept ==
  /\ \A i \in RunIds : result[i] \in Bad => i \in badRows \/ \E r \in RunIds : i < r /\ r < Ceiling
  /\ seen.prev \in Bad /\ runner = "classify" => \E i \in badRows : i < own.id

AlerterInv ==
  /\ TypeOK
  /\ DigestKept
  /\ EpisodeKept
  /\ FlagKept
  /\ RowsKept
  /\ BadRowsKept

-----------------------------------------------------------------------------
\* The constants, as the provers need them.
LEMMA Bounds ==
  /\ MaxProofAge \in Nat /\ MaxCount \in Nat /\ Week \in Nat /\ Week > 0
  /\ MaxRuns \in Nat /\ MaxTime \in Nat /\ MaxTime > 0 /\ MaxFaults \in Nat
  /\ MaxCrashes \in Nat
  BY AlerterAssumption

\* Division by the digest period, and by any other.
LEMMA Division ==
  ASSUME NEW w \in Nat \ {0}, NEW t \in Nat
  PROVE  /\ t \div w \in Nat
         /\ t % w \in 0..(w - 1)
         /\ t % w = t - w * (t \div w)
  <1>1. t \div w \in Nat
    OBVIOUS
  <1>2. t % w \in 0..(w - 1)
    OBVIOUS
  <1>3. t % w = t - w * (t \div w)
    OBVIOUS
  <1> QED
    BY <1>1, <1>2, <1>3

\* The multiples of a period come in steps of it.
LEMMA Multiples ==
  ASSUME NEW w \in Nat \ {0}, NEW p \in Nat, NEW q \in Nat, w * p < w * q + w
  PROVE  w * p =< w * q
  <1>1. p =< q
    <2>1. SUFFICES ASSUME p >= q + 1
                   PROVE  FALSE
      OBVIOUS
    <2>2. w * p >= w * (q + 1)
      BY <2>1
    <2>3. w * (q + 1) = w * q + w
      OBVIOUS
    <2> QED
      BY <2>2, <2>3
  <1> QED
    BY <1>1

\* What `LastSlot' returns: no slot later than the time, and none between.
LEMMA LastSlotIsLast ==
  ASSUME NEW t \in Nat
  PROVE  /\ LastSlot(t) \in 0..t
         /\ \A s \in 1..t : s % Week = 0 => s =< LastSlot(t)
  <1>1. Week \in Nat \ {0}
    BY Bounds
  <1> DEFINE r == t % Week
             q == t \div Week
  <1>2. r \in 0..(Week - 1) /\ q \in Nat /\ r = t - Week * q
    BY <1>1, Division, Zenon
  <1>3. ASSUME NEW s \in 1..t, s % Week = 0
        PROVE  \E p \in Nat : s = Week * p /\ p # 0
    <2> DEFINE p == s \div Week
    <2>1. s \in Nat /\ s # 0
      OBVIOUS
    <2>2. p \in Nat /\ s % Week = s - Week * p
      BY <1>1, <2>1, Division, Zenon
    <2> HIDE DEF p
    <2>3. Week * p \in Nat
      BY <1>1, <2>2
    <2>4. s = Week * p
      BY <1>3, <2>2, <2>3
    <2>5. p # 0
      BY <1>1, <2>1, <2>4
    <2> QED
      BY <2>2, <2>4, <2>5
  <1> HIDE DEF q
  <1>4. ASSUME NEW s \in 1..t, s % Week = 0
        PROVE  ~(t < Week) /\ s =< t - r
    <2>1. PICK p \in Nat : s = Week * p /\ p # 0
      BY <1>3, <1>4
    <2>2. Week * p >= Week
      BY <1>1, <2>1
    <2> HIDE DEF r
    <2>3. Week * p < Week * q + Week
      BY <1>1, <1>2, <2>1
    <2>4. Week * p =< Week * q
      BY <1>1, <1>2, <2>1, <2>3, Multiples
    <2> QED
      BY <1>1, <1>2, <2>1, <2>2, <2>4
  <1>5. LastSlot(t) = IF t < Week THEN 0 ELSE t - r
    BY DEF LastSlot
  <1>6. t - r \in 0..t
    <2>1. Week * q \in Nat
      BY <1>1, <1>2
    <2> HIDE DEF r
    <2> QED
      BY <1>2, <2>1
  <1> HIDE DEF r
  <1> QED
    BY <1>4, <1>5, <1>6

-----------------------------------------------------------------------------
\* The older the row, the more rows are newer.
LEMMA NewerShrinks ==
  ASSUME NEW i \in RunIds
  PROVE  /\ IsFiniteSet(Newer(i)) /\ Cardinality(Newer(i)) \in Nat
         /\ \A j \in RunIds : i < j => Cardinality(Newer(j)) =< Cardinality(Newer(i))
  <1>1. IsFiniteSet(RunIds)
    BY Bounds, FS_Interval DEF RunIds
  <1>2. Newer(i) \in SUBSET RunIds
    BY DEF Newer
  <1>3. IsFiniteSet(Newer(i))
    BY <1>1, <1>2, FS_Subset
  <1>4. Cardinality(Newer(i)) \in Nat
    BY <1>3, FS_CardinalityType
  <1>5. ASSUME NEW j \in RunIds, i < j
        PROVE  Cardinality(Newer(j)) =< Cardinality(Newer(i))
    <2>1. \A k \in RunIds : k > j => k > i
      BY <1>5, Bounds DEF RunIds
    <2>2. Newer(j) \in SUBSET Newer(i)
      BY <2>1 DEF Newer
    <2> QED
      BY <1>3, <2>2, FS_Subset
  <1> QED
    BY <1>3, <1>4, <1>5

\* Two rows newer than a row keep it from being one of the newest two.
LEMMA NotOfTheNewestTwo ==
  ASSUME NEW i \in RunIds, NEW j \in Newer(i), NEW k \in Newer(i), j # k
  PROVE  i \notin Newest(2)
  <1>1. IsFiniteSet({j}) /\ Cardinality({j}) = 1
    BY FS_Singleton
  <1>2. IsFiniteSet({j} \cup {k}) /\ Cardinality({j} \cup {k}) = 2
    <2>1. k \notin {j}
      OBVIOUS
    <2>2. /\ IsFiniteSet({j} \cup {k})
          /\ Cardinality({j} \cup {k}) = IF k \in {j} THEN Cardinality({j}) ELSE Cardinality({j}) + 1
      BY <1>1, FS_AddElement, Zenon
    <2> QED
      BY <1>1, <2>1, <2>2
  <1>3. {j} \cup {k} \in SUBSET Newer(i)
    OBVIOUS
  <1>4. Cardinality({j} \cup {k}) =< Cardinality(Newer(i))
    BY <1>3, NewerShrinks, FS_Subset
  <1> QED
    BY <1>2, <1>4, NewerShrinks DEF Newest

\* What a new row does to the table.
LEMMA CreateRowDoes ==
  ASSUME StoreOK, CreateRow
  PROVE  /\ lastId + 1 \in RunIds /\ lastId' = lastId + 1 /\ lastId' \in 0..MaxRuns
         /\ result' \in [RunIds -> Verdicts \cup {"absent", "open", "pruned"}]
         /\ result'[lastId + 1] = "open"
         /\ \A i \in RunIds : i # lastId + 1 => result'[i] = result[i]
  BY Bounds DEF StoreOK, CreateRow, RunIds

\* What the end of a run does to the table and the proof.
LEMMA EndRowDoes ==
  ASSUME StoreOK, NEW r, r.id \in RunIds, r.start \in 0..MaxTime, NEW verdict \in Verdicts,
         NEW proves \in BOOLEAN, NEW prunes \in BOOLEAN,
         EndRow(r, verdict, proves, prunes)
  PROVE  /\ proof' \in 0..MaxTime
         /\ result' \in [RunIds -> Verdicts \cup {"absent", "open", "pruned"}]
         /\ result[r.id] = "open" /\ result'[r.id] \in {verdict, "pruned"}
         /\ \A i \in RunIds : i # r.id =>
              \/ result'[i] = result[i]
              \/ result'[i] = "pruned" /\ Exists(i)
         /\ result' = [result EXCEPT ![r.id] = verdict]
            \/ \A i \in RunIds : result'[i] = "pruned" <=>
                 result[i] = "pruned" \/ (MaxCount > 0 /\ Exists(i) /\ Cardinality(Newer(i)) >= MaxCount)
  <1> DEFINE res == [result EXCEPT ![r.id] = verdict]
  <1>1. result[r.id] = "open"
    BY DEF EndRow
  <1>2. proof' \in 0..MaxTime
    <2>1. proof' = r.start \/ proof' = proof
      BY DEF EndRow
    <2> QED
      BY <2>1 DEF StoreOK
  <1>3. result' = res \/ result' = Pruned(res)
    BY DEF EndRow
  <1>4. CASE result' = res
    BY <1>1, <1>2, <1>4 DEF StoreOK
  <1>5. CASE result' = Pruned(res)
    <2>1. res \in [RunIds -> Verdicts \cup {"absent", "open", "pruned"}]
      BY DEF StoreOK
    <2>2. /\ res[r.id] = verdict
          /\ \A i \in RunIds : i # r.id => res[i] = result[i]
      BY DEF StoreOK
    <2> HIDE DEF res
    <2>3. result' \in [RunIds -> Verdicts \cup {"absent", "open", "pruned"}]
      BY <1>5, <2>1 DEF Pruned
    <2>4. \A i \in RunIds : \/ result'[i] = res[i]
                            \/ result'[i] = "pruned" /\ Exists(i)
      BY <1>5 DEF Pruned
    <2>5. \A i \in RunIds : result'[i] = "pruned" <=>
            res[i] = "pruned" \/ (MaxCount > 0 /\ Exists(i) /\ Cardinality(Newer(i)) >= MaxCount)
      BY <1>5 DEF Pruned
    <2>6. verdict # "pruned"
      BY DEF Verdicts, Bad
    <2> QED
      BY <1>1, <1>2, <2>2, <2>3, <2>4, <2>5, <2>6
  <1> QED
    BY <1>3, <1>4, <1>5

-----------------------------------------------------------------------------
\* The steps, one by one, for the proofs by cases.
LEMMA Steps ==
  ASSUME [Next]_vars
  PROVE  \/ RunStarts
         \/ \E v \in Verdicts, b \in BOOLEAN : RunEnds(v, b)
         \/ \E v \in {"error", "pass"} : RunAborts(v)
         \/ RunLosesRow \/ ReadFlag \/ ReadPrev \/ Classify \/ SendRunEvent
         \/ ReadProof \/ MarkStale \/ SendStale \/ MaybeDigest \/ SendDigest \/ NextTick
         \/ CliStarts
         \/ \E v \in Verdicts, b, c \in BOOLEAN : CliEnds(v, b, c)
         \/ CliLosesRow \/ Restart \/ Tick
         \/ UNCHANGED vars
  BY DEF Next, RunGoroutine, AfterRun, Sweeper

\* The steps of the run goroutine and of the command line leave the sweeper's
\* state and the clock alone.
LEMMA RunsLeaveSweeper ==
  ASSUME \/ RunStarts
         \/ \E v \in Verdicts, b \in BOOLEAN : RunEnds(v, b)
         \/ \E v \in {"error", "pass"} : RunAborts(v)
         \/ RunLosesRow \/ ReadFlag \/ ReadPrev \/ Classify \/ SendRunEvent
         \/ CliStarts
         \/ \E v \in Verdicts, b, c \in BOOLEAN : CliEnds(v, b, c)
         \/ CliLosesRow
         \/ UNCHANGED vars
  PROVE  UNCHANGED <<clock, digestMark, sweeper, swept, digestAt, digested>>
  <1> USE DEF store, after, sweep, history, Silent
  <1>1. CASE RunStarts
    BY <1>1 DEF RunStarts
  <1>2. CASE \E v \in Verdicts, b \in BOOLEAN : RunEnds(v, b)
    BY <1>2 DEF RunEnds
  <1>3. CASE \E v \in {"error", "pass"} : RunAborts(v)
    BY <1>3 DEF RunAborts
  <1>4. CASE RunLosesRow \/ ReadFlag \/ ReadPrev \/ Classify \/ SendRunEvent
    BY <1>4 DEF RunLosesRow, ReadFlag, ReadPrev, Classify, SendRunEvent
  <1>5. CASE CliStarts \/ CliLosesRow
    BY <1>5 DEF CliStarts, CliLosesRow
  <1>6. CASE \E v \in Verdicts, b, c \in BOOLEAN : CliEnds(v, b, c)
    BY <1>6 DEF CliEnds
  <1>7. CASE UNCHANGED vars
    BY <1>7 DEF vars
  <1> QED
    BY <1>1, <1>2, <1>3, <1>4, <1>5, <1>6, <1>7

\* The steps of the sweeper leave the runs and the run goroutine alone.
LEMMA SweepsLeaveRuns ==
  ASSUME ReadProof \/ MarkStale \/ SendStale \/ MaybeDigest \/ SendDigest \/ NextTick
  PROVE  UNCHANGED <<lastId, result, proof, clock, crashes, runner, own, seen, cli, alerts, cause>>
  <1> USE DEF store, after, sweep, history, Silent
  <1>1. CASE ReadProof \/ SendStale \/ NextTick
    BY <1>1 DEF ReadProof, SendStale, NextTick
  <1>2. CASE MarkStale
    BY <1>2 DEF MarkStale
  <1>3. CASE MaybeDigest \/ SendDigest
    BY <1>3 DEF MaybeDigest, SendDigest
  <1> QED
    BY <1>1, <1>2, <1>3

-----------------------------------------------------------------------------
(***************************************************************************)
(* The digest.                                                             *)
(***************************************************************************)

LEMMA StepDigest ==
  ASSUME TypeOK, DigestKept, [Next]_vars
  PROVE  DigestKept'
  <1> USE DEF DigestKept, store, after, sweep, history, Silent
  <1>1. /\ digested \in Nat /\ digestMark \in Nat /\ clock \in Nat /\ digestAt \in Nat
        /\ clock =< MaxTime
    BY Bounds DEF TypeOK, StoreOK, SweeperOK, HistoryOK
  <1>2. CASE UNCHANGED <<clock, digestMark, sweeper, swept, digestAt, digested>>
    BY <1>2 DEF LastSlot
  <1>3. CASE Tick
    BY <1>1, <1>3 DEF Tick, LastSlot
  <1>4. CASE ReadProof \/ MarkStale \/ SendStale \/ NextTick
    <2>1. UNCHANGED <<clock, digestMark, digestAt, digested>> /\ sweeper' # "digestSend"
      <3>1. CASE ReadProof
        BY <3>1 DEF ReadProof
      <3>2. CASE MarkStale
        BY <3>2 DEF MarkStale, SweepFlag
      <3>3. CASE SendStale \/ NextTick
        BY <3>3 DEF SendStale, NextTick
      <3> QED
        BY <1>4, <3>1, <3>2, <3>3
    <2> QED
      BY <2>1
  <1>5. CASE MaybeDigest
    <2>1. UNCHANGED <<clock, digested>>
      BY <1>5 DEF MaybeDigest
    <2>2. CASE ~DigestDue
      BY <1>5, <2>1, <2>2 DEF MaybeDigest
    <2>3. CASE DigestDue
      <3>1. digestMark' = clock /\ digestAt' = clock
        BY <1>5, <2>3 DEF MaybeDigest
      <3>2. PICK t \in Slots : digestMark < t /\ t =< clock
        BY <2>3 DEF DigestDue
      <3>3. t \in 1..clock /\ t % Week = 0
        BY <1>1, <3>2, Bounds DEF Slots
      <3>4. t =< LastSlot(clock) /\ LastSlot(clock) \in 0..clock
        BY <1>1, <3>3, LastSlotIsLast
      <3>5. LastSlot(digestAt)' = LastSlot(clock)
        BY <3>1 DEF LastSlot
      <3> QED
        BY <1>1, <2>1, <3>1, <3>2, <3>3, <3>4, <3>5
    <2> QED
      BY <2>2, <2>3
  <1>6. CASE SendDigest
    BY <1>1, <1>6 DEF SendDigest
  <1>7. CASE Restart
    BY <1>1, <1>7 DEF Restart, NewAlerter
  <1> QED
    BY <1>2, <1>3, <1>4, <1>5, <1>6, <1>7, Steps, RunsLeaveSweeper

-----------------------------------------------------------------------------
(***************************************************************************)
(* The stale alert.                                                        *)
(***************************************************************************)

\* The sweeper judges a drill stale whenever it is: a proof it cannot read looks
\* like no proof.
LEMMA UnreadIsStale ==
  ASSUME IsStale
  PROVE  Stale(0, clock)
  BY DEF IsStale, Stale

\* A step that decides on nothing keeps the episode, if the flag and what the
\* sweeper thinks stay.
LEMMA EpisodeStays ==
  ASSUME TypeOK, EpisodeKept, Episode, UNCHANGED stale,
         UNCHANGED <<sweeper, swept>> \/ sweeper' \notin {"firstFlag", "flag"}
  PROVE  EpisodeKept'
  <1>1. (episode' => episode /\ IsStale') /\ (recovered /\ IsStale' => recovered')
    BY DEF Episode
  <1>2. (episode => IsStale) /\ (episode /\ ~recovered => stale)
    BY DEF EpisodeKept
  <1>3. episode /\ sweeper \in {"firstFlag", "flag"} => swept
    BY DEF EpisodeKept
  <1>4. (episode => IsStale)'
    BY <1>1
  <1>5. (episode /\ ~recovered => stale)'
    BY <1>1, <1>2
  <1>6. (episode /\ sweeper \in {"firstFlag", "flag"} => swept)'
    BY <1>1, <1>3
  <1> QED
    BY <1>4, <1>5, <1>6 DEF EpisodeKept

\* The steps that decide on nothing: the flag is as it was.
LEMMA DecidesNothing ==
  ASSUME \/ RunStarts
         \/ \E v \in Verdicts, b \in BOOLEAN : RunEnds(v, b)
         \/ \E v \in {"error", "pass"} : RunAborts(v)
         \/ RunLosesRow \/ ReadPrev \/ SendRunEvent
         \/ SendStale \/ MaybeDigest \/ SendDigest \/ NextTick
         \/ CliStarts
         \/ \E v \in Verdicts, b, c \in BOOLEAN : CliEnds(v, b, c)
         \/ CliLosesRow \/ Tick
  PROVE  /\ Episode /\ UNCHANGED <<stale, raised, cause>>
         /\ UNCHANGED <<sweeper, swept>> \/ sweeper' \notin {"firstFlag", "flag"}
         /\ \/ UNCHANGED <<runner, seen>>
            \/ {runner, runner'} \cap {"prev", "classify"} = {}
            \/ ReadPrev
  <1> USE DEF store, after, sweep, history, Silent
  <1>1. CASE RunStarts
    BY <1>1 DEF RunStarts
  <1>2. CASE \E v \in Verdicts, b \in BOOLEAN : RunEnds(v, b)
    BY <1>2 DEF RunEnds
  <1>3. CASE \E v \in {"error", "pass"} : RunAborts(v)
    BY <1>3 DEF RunAborts
  <1>4. CASE RunLosesRow \/ SendRunEvent
    BY <1>4 DEF RunLosesRow, SendRunEvent
  <1>5. CASE ReadPrev
    BY <1>5 DEF ReadPrev
  <1>6. CASE SendStale \/ NextTick
    BY <1>6 DEF SendStale, NextTick
  <1>7. CASE MaybeDigest
    BY <1>7 DEF MaybeDigest
  <1>8. CASE SendDigest
    BY <1>8 DEF SendDigest
  <1>9. CASE CliStarts \/ CliLosesRow \/ Tick
    BY <1>9 DEF CliStarts, CliLosesRow, Tick
  <1>10. CASE \E v \in Verdicts, b, c \in BOOLEAN : CliEnds(v, b, c)
    BY <1>10 DEF CliEnds
  <1> QED
    BY <1>1, <1>2, <1>3, <1>4, <1>5, <1>6, <1>7, <1>8, <1>9, <1>10

\* Only a recover clears the flag after a run.
LEMMA RecoverClears ==
  ASSUME TypeOK, Classify
  PROVE  /\ ClassifyRun = "recover" => stale' = FALSE /\ own.verdict = "pass"
         /\ ClassifyRun # "recover" => stale' = stale
  <1>1. own.verdict \in Verdicts /\ stale \in BOOLEAN
    BY DEF TypeOK, RunnerOK, SweeperOK, Classify
  <1>2. ClassifyRun = "recover" => own.verdict = "pass"
    BY <1>1 DEF ClassifyRun, Verdicts, Bad
  <1>3. ClassifyRun # "recover" /\ ClassifyRun # "silent" => own.verdict # "pass"
    BY <1>1 DEF ClassifyRun, Bad
  <1>4. CASE ClassifyRun = "silent"
    BY <1>4 DEF Classify
  <1>5. CASE ClassifyRun # "silent"
    <2>1. stale' = (stale /\ own.verdict # "pass")
      BY <1>5 DEF Classify
    <2> QED
      BY <1>1, <1>2, <1>3, <1>5, <2>1
  <1> QED
    BY <1>4, <1>5

LEMMA StepEpisode ==
  ASSUME TypeOK, EpisodeKept, [Next]_vars
  PROVE  EpisodeKept'
  <1> USE DEF store, after, sweep, history, Silent
  <1>1. /\ episode => IsStale
        /\ episode /\ ~recovered => stale
        /\ episode /\ sweeper \in {"firstFlag", "flag"} => swept
    BY DEF EpisodeKept
  <1>2. CASE Episode /\ UNCHANGED stale
             /\ (UNCHANGED <<sweeper, swept>> \/ sweeper' \notin {"firstFlag", "flag"})
    BY <1>2, EpisodeStays
  <1>3. CASE ReadFlag
    BY <1>3, EpisodeStays DEF ReadFlag
  <1>4. CASE Classify
    <2>1. UNCHANGED <<episode, proof, clock, sweeper, swept>>
      BY <1>4 DEF Classify
    <2>2. IsStale' <=> IsStale
      BY <2>1 DEF IsStale, Stale
    <2>3. recovered' = (episode /\ (recovered \/ ClassifyRun = "recover"))
      BY <1>4 DEF Classify
    <2>4. (episode /\ ~recovered => stale)'
      BY <1>1, <1>4, <2>1, <2>3, RecoverClears
    <2> QED
      BY <1>1, <2>1, <2>2, <2>4 DEF EpisodeKept
  <1>5. CASE ReadProof
    <2>1. UNCHANGED <<proof, clock, stale>> /\ Episode
      BY <1>5 DEF ReadProof
    <2>2. IsStale' <=> IsStale
      BY <2>1 DEF IsStale, Stale
    <2>3. (episode' => episode) /\ (recovered /\ IsStale' => recovered')
      BY <2>1 DEF Episode
    <2>4. swept' = Stale(proof, clock) \/ swept' = Stale(0, clock)
      BY <1>5 DEF ReadProof
    <2>5. IsStale => swept'
      BY <2>4, UnreadIsStale DEF IsStale
    <2> QED
      BY <1>1, <2>1, <2>2, <2>3, <2>5 DEF EpisodeKept
  <1>6. CASE MarkStale
    <2>1. UNCHANGED <<proof, clock>> /\ sweeper' \notin {"firstFlag", "flag"}
      BY <1>6 DEF MarkStale, SweepFlag
    <2>2. IsStale' <=> IsStale
      BY <2>1 DEF IsStale, Stale
    <2>3. stale' = swept /\ (episode => swept)
      BY <1>1, <1>6 DEF MarkStale, SweepFlag
    <2>4. CASE sweeper' \in {"firstSend", "send"}
      <3>1. swept
        BY <1>6, <2>4 DEF MarkStale, SweepFlag
      <3>2. episode' = IsStale
        BY <1>6, <2>4 DEF MarkStale
      <3> QED
        BY <2>1, <2>2, <2>3, <3>1, <3>2 DEF EpisodeKept
    <2>5. CASE sweeper' \notin {"firstSend", "send"}
      <3>1. UNCHANGED <<episode, recovered>>
        BY <1>6, <2>5 DEF MarkStale
      <3> QED
        BY <1>1, <2>1, <2>2, <2>3, <3>1 DEF EpisodeKept
    <2> QED
      BY <2>4, <2>5
  <1>7. CASE Restart
    BY <1>7 DEF Restart, EpisodeKept
  <1>8. CASE UNCHANGED vars
    BY <1>1, <1>8 DEF vars, EpisodeKept, IsStale, Stale
  <1> QED
    BY <1>2, <1>3, <1>4, <1>5, <1>6, <1>7, <1>8, Steps, DecidesNothing

-----------------------------------------------------------------------------
(***************************************************************************)
(* The flag and its cause.                                                 *)
(***************************************************************************)

LEMMA StepFlag ==
  ASSUME TypeOK, FlagKept, [Next]_vars
  PROVE  FlagKept'
  <1> USE DEF store, after, sweep, history, Silent
  <1>1. /\ stale => raised \/ cause
        /\ cause => runner \in {"prev", "classify"}
        /\ seen.wasStale /\ runner \in {"prev", "classify"} => cause
    BY DEF FlagKept
  <1>2. CASE UNCHANGED <<stale, raised, cause, runner, seen>>
    BY <1>1, <1>2 DEF FlagKept
  <1>3. CASE UNCHANGED <<stale, raised, cause>> /\ {runner, runner'} \cap {"prev", "classify"} = {}
    BY <1>1, <1>3 DEF FlagKept
  <1>4. CASE ReadFlag
    <2>1. /\ runner = "flag" /\ runner' = "prev" /\ stale' = stale
          /\ cause' = raised /\ raised' = FALSE
      BY <1>4 DEF ReadFlag
    <2>2. seen'.wasStale = stale
      BY <1>4 DEF ReadFlag, TypeOK, RunnerOK
    <2>3. stale => raised
      BY <1>1, <2>1
    <2> QED
      BY <2>1, <2>2, <2>3 DEF FlagKept
  <1>5. CASE ReadPrev
    <2>1. UNCHANGED <<stale, raised, cause>> /\ runner = "prev" /\ runner' = "classify"
      BY <1>5 DEF ReadPrev
    <2>2. seen'.wasStale = seen.wasStale
      BY <1>5 DEF ReadPrev, TypeOK, RunnerOK
    <2> QED
      BY <1>1, <2>1, <2>2 DEF FlagKept
  <1>6. CASE Classify
    <2>1. cause' = FALSE /\ raised' = (raised \/ (cause /\ ClassifyRun # "recover"))
      BY <1>6 DEF Classify
    <2>2. runner' \notin {"prev", "classify"}
      BY <1>6 DEF Classify
    <2>3. stale' => raised'
      BY <1>1, <1>6, <2>1, RecoverClears
    <2> QED
      BY <2>1, <2>2, <2>3 DEF FlagKept
  <1>7. CASE MarkStale
    <2>1. /\ stale' = swept /\ raised' = (raised \/ (swept /\ ~stale))
          /\ UNCHANGED <<cause, runner, seen>>
      BY <1>7 DEF MarkStale, SweepFlag
    <2>2. stale' => raised' \/ cause
      BY <1>1, <2>1
    <2> QED
      BY <1>1, <2>1, <2>2 DEF FlagKept
  <1>8. CASE ReadProof
    BY <1>2, <1>8 DEF ReadProof
  <1>9. CASE Restart
    BY <1>9 DEF Restart, NewAlerter, FlagKept
  <1>10. CASE UNCHANGED vars
    BY <1>2, <1>10 DEF vars
  <1> QED
    BY <1>2, <1>3, <1>4, <1>5, <1>6, <1>7, <1>8, <1>9, <1>10, Steps, DecidesNothing

-----------------------------------------------------------------------------
(***************************************************************************)
(* The runs table.                                                         *)
(***************************************************************************)

LEMMA CreateRowKeepsTable ==
  ASSUME StoreOK, TableKept, CreateRow
  PROVE  TableKept'
  <1>1. lastId \in Nat
    BY Bounds DEF StoreOK
  <1>2. \A i \in RunIds : i \in Nat
    BY DEF RunIds
  <1>3. ASSUME NEW i \in RunIds
        PROVE  (result[i] = "absent")' <=> i > lastId'
    BY <1>1, <1>2, CreateRowDoes DEF TableKept
  <1>4. ASSUME NEW i \in RunIds, NEW j \in RunIds, i < j, j =< lastId', Exists(i)'
        PROVE  Exists(j)'
    <2>1. CASE j = lastId + 1
      BY <2>1, CreateRowDoes DEF Exists
    <2>2. CASE j # lastId + 1
      <3>1. j =< lastId /\ i # lastId + 1
        BY <1>1, <1>2, <1>4, <2>2, CreateRowDoes
      <3>2. result'[i] = result[i] /\ result'[j] = result[j]
        BY <2>2, <3>1, CreateRowDoes
      <3> QED
        BY <1>4, <3>1, <3>2 DEF TableKept, Exists
    <2> QED
      BY <2>1, <2>2
  <1> QED
    BY <1>3, <1>4 DEF TableKept

\* Retention goes from the oldest row up, and a row that has ended exists.
LEMMA EndRowKeepsTable ==
  ASSUME StoreOK, TableKept, NEW r, r.id \in RunIds, r.start \in 0..MaxTime,
         NEW verdict \in Verdicts, NEW proves \in BOOLEAN, NEW prunes \in BOOLEAN,
         EndRow(r, verdict, proves, prunes), UNCHANGED lastId
  PROVE  TableKept'
  <1>1. /\ result[r.id] = "open" /\ result'[r.id] \in {verdict, "pruned"}
        /\ \A i \in RunIds : i # r.id =>
             \/ result'[i] = result[i]
             \/ result'[i] = "pruned" /\ Exists(i)
    BY EndRowDoes
  <1>2. verdict \notin {"absent", "open", "pruned"}
    BY DEF Verdicts, Bad
  <1>3. \A i \in RunIds : (result'[i] = "absent" <=> result[i] = "absent") /\ (Exists(i)' => Exists(i))
    BY <1>1, <1>2 DEF Exists
  <1>4. \A i \in RunIds : (result[i] = "absent")' <=> i > lastId'
    BY <1>3 DEF TableKept
  <1>5. ASSUME NEW i \in RunIds, NEW j \in RunIds, i < j, j =< lastId', Exists(i)'
        PROVE  Exists(j)'
    <2>1. Exists(i) /\ Exists(j)
      BY <1>3, <1>5 DEF TableKept
    <2>2. result'[j] # "absent"
      BY <1>3, <2>1 DEF Exists
    <2>3. result'[j] # "pruned"
      <3>1. CASE result' = [result EXCEPT ![r.id] = verdict]
        <4>1. result'[j] = verdict \/ result'[j] = result[j]
          BY <3>1 DEF StoreOK
        <4> QED
          BY <1>2, <2>1, <4>1 DEF Exists
      <3>2. CASE \A k \in RunIds : result'[k] = "pruned" <=>
                   result[k] = "pruned"
                     \/ (MaxCount > 0 /\ Exists(k) /\ Cardinality(Newer(k)) >= MaxCount)
        <4>1. ~(MaxCount > 0 /\ Cardinality(Newer(i)) >= MaxCount)
          BY <1>5, <2>1, <3>2 DEF Exists
        <4>2. Cardinality(Newer(j)) =< Cardinality(Newer(i)) /\ Cardinality(Newer(i)) \in Nat
          BY <1>5, NewerShrinks
        <4>3. Cardinality(Newer(j)) \in Nat
          BY NewerShrinks
        <4>4. ~(MaxCount > 0 /\ Cardinality(Newer(j)) >= MaxCount)
          BY <4>1, <4>2, <4>3, Bounds
        <4> QED
          BY <2>1, <3>2, <4>4 DEF Exists
      <3> QED
        BY <3>1, <3>2, EndRowDoes
    <2> QED
      BY <2>2, <2>3 DEF Exists
  <1> QED
    BY <1>4, <1>5 DEF TableKept

\* The ids of the daemon's run and of the CLI run are rows of the table.
LEMMA IdsAreRows ==
  ASSUME TypeOK
  PROVE  /\ runner # "idle" => own.id \in RunIds /\ own.id =< lastId /\ own.start \in 0..MaxTime
         /\ cli # NoRun => cli.id \in RunIds /\ cli.id =< lastId /\ cli.start \in 0..MaxTime
  BY Bounds DEF TypeOK, StoreOK, RunnerOK, RunIds

LEMMA StepRows ==
  ASSUME TypeOK, RowsKept, [Next]_vars
  PROVE  RowsKept'
  <1> USE DEF store, after, sweep, history, Silent
  <1> DEFINE OwnRow == runner \in {"flag", "prev", "classify"} => result[own.id] \in {own.verdict, "pruned"}
  <1>1. StoreOK /\ TableKept /\ OwnRow
    BY DEF TypeOK, RowsKept
  <1>2. SUFFICES TableKept' /\ OwnRow'
    BY DEF RowsKept
  <1>3. CASE UNCHANGED <<lastId, result>>
             /\ (UNCHANGED <<runner, own>> \/ runner' \notin {"flag", "prev", "classify"})
    BY <1>1, <1>3 DEF TableKept, Exists
  <1>4. CASE RunStarts
    BY <1>1, <1>4, CreateRowKeepsTable DEF RunStarts
  <1>5. ASSUME NEW v \in Verdicts, NEW b \in BOOLEAN, RunEnds(v, b)
        PROVE  TableKept' /\ OwnRow'
    <2>1. EndRow(own, v, b, TRUE) /\ UNCHANGED lastId /\ runner # "idle"
      BY <1>5 DEF RunEnds
    <2>2. own.id \in RunIds /\ own.start \in 0..MaxTime
      BY <2>1, IdsAreRows
    <2>3. result'[own.id] \in {v, "pruned"}
      BY <1>1, <2>1, <2>2, EndRowDoes
    <2>4. own'.id = own.id /\ own'.verdict = v
      BY <1>5 DEF RunEnds, TypeOK, RunnerOK
    <2> QED
      BY <1>1, <2>1, <2>2, <2>3, <2>4, EndRowKeepsTable
  <1>6. ASSUME NEW v \in {"error", "pass"}, RunAborts(v)
        PROVE  TableKept' /\ OwnRow'
    <2>1. EndRow(own, v, FALSE, FALSE) /\ UNCHANGED lastId /\ runner # "idle" /\ runner' = "idle"
      BY <1>6 DEF RunAborts
    <2>2. own.id \in RunIds /\ own.start \in 0..MaxTime /\ v \in Verdicts
      BY <2>1, IdsAreRows DEF Verdicts, Bad
    <2> QED
      BY <1>1, <2>1, <2>2, EndRowKeepsTable
  <1>7. CASE RunLosesRow \/ Classify \/ SendRunEvent
    BY <1>3, <1>7 DEF RunLosesRow, Classify, SendRunEvent
  <1>8. CASE ReadFlag \/ ReadPrev
    <2>1. UNCHANGED <<lastId, result, own>> /\ runner \in {"flag", "prev", "classify"}
      BY <1>8 DEF ReadFlag, ReadPrev
    <2> QED
      BY <1>1, <2>1 DEF TableKept, Exists
  <1>9. CASE CliStarts
    <2>1. CreateRow /\ UNCHANGED <<runner, own>>
      BY <1>9 DEF CliStarts
    <2>2. runner # "idle" => result'[own.id] = result[own.id]
      BY <1>1, <2>1, IdsAreRows, CreateRowDoes, Bounds DEF StoreOK, RunIds
    <2> QED
      BY <1>1, <2>1, <2>2, CreateRowKeepsTable
  <1>10. ASSUME NEW v \in Verdicts, NEW b \in BOOLEAN, NEW c \in BOOLEAN, CliEnds(v, b, c)
         PROVE  TableKept' /\ OwnRow'
    <2>1. EndRow(cli, v, b, c) /\ UNCHANGED <<lastId, runner, own>> /\ cli # NoRun
      BY <1>10 DEF CliEnds
    <2>2. cli.id \in RunIds /\ cli.start \in 0..MaxTime
      BY <2>1, IdsAreRows
    <2>3. TableKept'
      BY <1>1, <2>1, <2>2, EndRowKeepsTable
    <2>4. ASSUME runner \in {"flag", "prev", "classify"}
          PROVE  result'[own.id] \in {own.verdict, "pruned"}
      <3>1. own.id \in RunIds /\ own.verdict \in Verdicts
        BY <2>4, IdsAreRows DEF TypeOK, RunnerOK
      <3>2. own.id # cli.id
        BY <1>1, <2>1, <2>2, <2>4, <3>1, EndRowDoes DEF Verdicts, Bad
      <3>3. result'[own.id] \in {result[own.id], "pruned"}
        BY <1>1, <2>1, <2>2, <3>1, <3>2, EndRowDoes
      <3> QED
        BY <1>1, <2>4, <3>3
    <2> QED
      BY <2>1, <2>3, <2>4
  <1>11. CASE CliLosesRow \/ Tick
    BY <1>3, <1>11 DEF CliLosesRow, Tick
  <1>12. CASE Restart
    <2>1. lastId' = lastId /\ runner' = "idle"
      BY <1>12 DEF Restart
    <2>2. \A i \in RunIds : result'[i] = IF result[i] = "open" THEN "error" ELSE result[i]
      BY <1>12 DEF Restart
    <2> QED
      BY <1>1, <2>1, <2>2 DEF TableKept, Exists
  <1>13. CASE UNCHANGED vars
    BY <1>3, <1>13 DEF vars
  <1>14. CASE ReadProof \/ MarkStale \/ SendStale \/ MaybeDigest \/ SendDigest \/ NextTick
    BY <1>3, <1>14, SweepsLeaveRuns
  <1> QED
    BY <1>4, <1>5, <1>6, <1>7, <1>8, <1>9, <1>10, <1>11, <1>12, <1>13, <1>14, Steps

-----------------------------------------------------------------------------
(***************************************************************************)
(* The bad rows.                                                           *)
(***************************************************************************)

\* A run that begins or ends turns no bad row into anything but a pruned one,
\* and the rows it makes bad are accounted for.
LEMMA TableSteps ==
  ASSUME StoreOK,
         \/ CreateRow
         \/ \E r, v, b, c : /\ r.id \in RunIds /\ r.start \in 0..MaxTime /\ v \in Verdicts
                            /\ b \in BOOLEAN /\ c \in BOOLEAN /\ EndRow(r, v, b, c)
         \/ result' = [i \in RunIds |-> IF result[i] = "open" THEN "error" ELSE result[i]]
         \/ UNCHANGED result
  PROVE  \A i \in RunIds : result'[i] \in Bad => result[i] \in Bad \/ result[i] = "open"
  <1>1. CASE CreateRow
    BY <1>1, CreateRowDoes DEF Bad
  <1>2. ASSUME NEW r, NEW v, NEW b, NEW c, r.id \in RunIds, r.start \in 0..MaxTime,
               v \in Verdicts, b \in BOOLEAN, c \in BOOLEAN, EndRow(r, v, b, c)
        PROVE  \A i \in RunIds : result'[i] \in Bad => result[i] \in Bad \/ result[i] = "open"
    <2>1. /\ result[r.id] = "open"
          /\ \A i \in RunIds : i # r.id => result'[i] \in {result[i], "pruned"}
      BY <1>2, EndRowDoes
    <2> QED
      BY <2>1 DEF Bad
  <1>3. CASE result' = [i \in RunIds |-> IF result[i] = "open" THEN "error" ELSE result[i]]
    BY <1>3
  <1>4. CASE UNCHANGED result
    BY <1>4
  <1> QED
    BY <1>1, <1>2, <1>3, <1>4

\* A step keeps the bad rows accounted for, if it is a step of the table, drops
\* none of them, brings no run back and leaves what afterRun has read.
LEMMA BadRowsStay ==
  ASSUME TypeOK, BadRowsKept,
         \A i \in RunIds : result'[i] \in Bad => result[i] \in Bad \/ result[i] = "open",
         badRows \subseteq badRows',
         \A i \in RunIds : result[i] = "open" /\ result'[i] \in Bad => i \in badRows',
         Ceiling \in Nat, Ceiling' \in Nat, Ceiling =< Ceiling',
         UNCHANGED <<runner, own, seen>> \/ runner' # "classify"
  PROVE  BadRowsKept'
  <1>1. ASSUME NEW i \in RunIds, result'[i] \in Bad, i \notin badRows'
        PROVE  \E r \in RunIds : i < r /\ r < Ceiling'
    <2>1. result[i] \in Bad /\ i \notin badRows
      BY <1>1
    <2>2. PICK r \in RunIds : i < r /\ r < Ceiling
      BY <2>1 DEF BadRowsKept
    <2>3. r \in Nat
      BY DEF RunIds
    <2>4. r < Ceiling'
      BY <2>2, <2>3
    <2> QED
      BY <2>2, <2>4
  <1>2. (seen.prev \in Bad /\ runner = "classify" => \E i \in badRows : i < own.id)'
    BY DEF BadRowsKept
  <1> QED
    BY <1>1, <1>2 DEF BadRowsKept

\* Ids are numbers, and the ceiling is one of them or the next.
LEMMA CeilingIsNat ==
  ASSUME TypeOK
  PROVE  Ceiling \in Nat /\ Ceiling =< lastId + 1 /\ lastId \in Nat
  BY Bounds, IdsAreRows DEF TypeOK, StoreOK, Ceiling, RunIds

LEMMA StepBadRows ==
  ASSUME TypeOK, TypeOK', RowsKept, BadRowsKept, [Next]_vars
  PROVE  BadRowsKept'
  <1> USE DEF store, after, sweep, history, Silent
  <1>1. StoreOK /\ TableKept
    BY DEF TypeOK, RowsKept
  <1>2. Ceiling \in Nat /\ Ceiling =< lastId + 1 /\ lastId \in Nat
    BY CeilingIsNat
  <1>3. Ceiling' \in Nat /\ lastId' \in Nat
    <2>1. lastId' \in Nat
      BY Bounds DEF TypeOK, StoreOK
    <2>2. own'.id \in Nat
      BY Bounds DEF TypeOK, RunnerOK
    <2>3. Ceiling' = own'.id \/ Ceiling' = lastId' + 1
      BY DEF Ceiling
    <2> QED
      BY <2>1, <2>2, <2>3
  <1>4. BadRows => /\ badRows \subseteq badRows'
                   /\ \A i \in RunIds : result[i] = "open" /\ result'[i] \in Bad => i \in badRows'
    BY DEF BadRows
  <1>5. CASE RunStarts
    <2>1. /\ CreateRow /\ BadRows /\ runner = "idle" /\ runner' = "running"
          /\ own' = [id |-> lastId + 1, start |-> clock, verdict |-> "none"]
      BY <1>5 DEF RunStarts
    <2>2. Ceiling = lastId + 1 /\ Ceiling' = lastId + 1
      BY <2>1 DEF Ceiling
    <2> QED
      BY <1>1, <1>2, <1>4, <2>1, <2>2, TableSteps, BadRowsStay
  <1>6. ASSUME NEW v \in Verdicts, NEW b \in BOOLEAN, RunEnds(v, b)
        PROVE  BadRowsKept'
    <2>1. EndRow(own, v, b, TRUE) /\ BadRows /\ runner = "running" /\ runner' = "flag"
      BY <1>6 DEF RunEnds
    <2>2. own'.id = own.id
      BY <1>6 DEF RunEnds, TypeOK, RunnerOK
    <2>3. Ceiling' = Ceiling
      BY <2>1, <2>2 DEF Ceiling
    <2>4. own.id \in RunIds /\ own.start \in 0..MaxTime
      BY <2>1, IdsAreRows
    <2>5. \A i \in RunIds : result'[i] \in Bad => result[i] \in Bad \/ result[i] = "open"
      BY <1>1, <2>1, <2>4, TableSteps
    <2> QED
      BY <1>2, <1>4, <2>1, <2>3, <2>5, BadRowsStay
  <1>7. ASSUME NEW v \in {"error", "pass"}, RunAborts(v)
        PROVE  BadRowsKept'
    <2>1. EndRow(own, v, FALSE, FALSE) /\ BadRows /\ runner = "running" /\ runner' = "idle"
          /\ lastId' = lastId
      BY <1>7 DEF RunAborts
    <2>2. Ceiling' = lastId + 1
      BY <2>1 DEF Ceiling
    <2>3. own.id \in RunIds /\ own.start \in 0..MaxTime /\ v \in Verdicts
      BY <2>1, IdsAreRows DEF Verdicts, Bad
    <2>4. \A i \in RunIds : result'[i] \in Bad => result[i] \in Bad \/ result[i] = "open"
      BY <1>1, <2>1, <2>3, TableSteps
    <2> QED
      BY <1>2, <1>3, <1>4, <2>1, <2>2, <2>4, BadRowsStay
  <1>8. CASE RunLosesRow \/ SendRunEvent
    <2>1. UNCHANGED <<lastId, result>> /\ runner' = "idle"
      BY <1>8 DEF RunLosesRow, SendRunEvent
    <2>2. BadRows \/ badRows' = badRows
      BY <1>8 DEF RunLosesRow, SendRunEvent
    <2>3. badRows \subseteq badRows'
      BY <1>4, <2>2
    <2>4. Ceiling' = lastId + 1
      BY <2>1 DEF Ceiling
    <2>5. \A i \in RunIds : ~(result[i] = "open" /\ result'[i] \in Bad)
      BY <2>1 DEF Bad
    <2> QED
      BY <1>2, <1>3, <2>1, <2>3, <2>4, <2>5, BadRowsStay
  <1>9. CASE ReadFlag
    <2>1. UNCHANGED <<lastId, result, own, badRows>> /\ runner = "flag" /\ runner' = "prev"
      BY <1>9 DEF ReadFlag
    <2>2. Ceiling' = Ceiling
      BY <2>1 DEF Ceiling
    <2>3. \A i \in RunIds : ~(result[i] = "open" /\ result'[i] \in Bad)
      BY <2>1 DEF Bad
    <2> QED
      BY <1>2, <2>1, <2>2, <2>3, BadRowsStay
  <1>10. CASE ReadPrev
    <2>1. /\ UNCHANGED <<lastId, result, own>> /\ BadRows
          /\ runner = "prev" /\ runner' = "classify"
      BY <1>10 DEF ReadPrev
    <2>2. badRows \subseteq badRows'
      BY <1>4, <2>1
    <2>3. Ceiling' = own.id /\ Ceiling = own.id
      BY <2>1 DEF Ceiling
    <2>4. ASSUME seen'.prev \in Bad
          PROVE  \E i \in badRows' : i < own.id
      <3>1. PrevResult(seen'.prev)
        <4>1. CASE seen' = [seen EXCEPT !.prev = "none"]
          BY <2>4, <4>1 DEF Bad, TypeOK, RunnerOK
        <4>2. ASSUME NEW prev, PrevResult(prev), seen' = [seen EXCEPT !.prev = prev]
              PROVE  PrevResult(seen'.prev)
          <5>1. seen'.prev = prev
            BY <4>2 DEF TypeOK, RunnerOK
          <5> QED
            BY <4>2, <5>1
        <4> QED
          BY <1>10, <4>1, <4>2 DEF ReadPrev
      <3>2. PICK i \in Candidates : result[i] = seen'.prev
        BY <2>4, <3>1 DEF PrevResult, Bad
      <3>3. i \in RunIds /\ i \in Newest(2) /\ i < own.id /\ Exists(i)
        BY <3>2 DEF Candidates, Newest
      <3>4. ASSUME NEW r \in RunIds, i < r, r < own.id
            PROVE  FALSE
        <4>1. own.id \in RunIds /\ own.id =< lastId /\ i \in Nat /\ r \in Nat /\ own.id \in Nat
          BY <2>1, <3>3, IdsAreRows DEF RunIds
        <4>2. r =< lastId
          BY <1>2, <3>4, <4>1
        <4>3. Exists(r) /\ Exists(own.id)
          BY <1>1, <3>3, <3>4, <4>1, <4>2 DEF TableKept
        <4>4. r \in Newer(i) /\ own.id \in Newer(i) /\ r # own.id
          BY <3>3, <3>4, <4>1, <4>3 DEF Newer
        <4> QED
          BY <3>3, <4>4, NotOfTheNewestTwo
      <3>5. i \in badRows
        BY <2>3, <2>4, <3>2, <3>3, <3>4 DEF BadRowsKept
      <3> QED
        BY <2>2, <3>3, <3>5
    <2>5. ASSUME NEW i \in RunIds, result'[i] \in Bad, i \notin badRows'
          PROVE  \E r \in RunIds : i < r /\ r < Ceiling'
      BY <2>1, <2>2, <2>3, <2>5 DEF BadRowsKept
    <2> QED
      BY <2>1, <2>4, <2>5 DEF BadRowsKept
  <1>11. CASE Classify
    <2>1. /\ UNCHANGED <<lastId, result>> /\ runner = "classify" /\ runner' \in {"idle", "send"}
          /\ badRows' = {i \in badRows : ClassifyRun = "recover" => i > own.id}
      BY <1>11 DEF Classify
    <2>2. Ceiling' = lastId + 1 /\ Ceiling = own.id
      BY <2>1 DEF Ceiling
    <2>3. own.id \in RunIds /\ own.id =< lastId /\ own.id \in Nat
      BY <2>1, IdsAreRows DEF RunIds
    <2>4. ASSUME NEW i \in RunIds, result'[i] \in Bad, i \notin badRows'
          PROVE  \E r \in RunIds : i < r /\ r < Ceiling'
      <3>1. i \in Nat
        BY DEF RunIds
      <3>2. CASE i \in badRows
        <4>1. ClassifyRun = "recover" /\ i =< own.id
          BY <2>1, <2>3, <2>4, <3>1, <3>2
        <4>2. own.verdict = "pass"
          BY <1>11, <4>1, RecoverClears
        <4>3. result[own.id] \in {"pass", "pruned"}
          BY <2>1, <4>2 DEF RowsKept
        <4>4. i # own.id
          BY <2>1, <2>4, <4>3 DEF Bad
        <4> QED
          BY <1>2, <2>2, <2>3, <3>1, <4>1, <4>4
      <3>3. CASE i \notin badRows
        <4>1. PICK r \in RunIds : i < r /\ r < Ceiling
          BY <2>1, <2>4, <3>3 DEF BadRowsKept
        <4>2. r \in Nat
          BY DEF RunIds
        <4>3. r < Ceiling'
          BY <1>2, <2>2, <2>3, <4>1, <4>2
        <4> QED
          BY <4>1, <4>3
      <3> QED
        BY <3>2, <3>3
    <2> QED
      BY <2>1, <2>4 DEF BadRowsKept
  <1>12. CASE CliStarts
    <2>1. CreateRow /\ BadRows /\ UNCHANGED <<runner, own, seen>> /\ lastId' = lastId + 1
      BY <1>12 DEF CliStarts, CreateRow
    <2>2. Ceiling =< Ceiling'
      BY <1>2, <2>1 DEF Ceiling
    <2>3. \A i \in RunIds : result'[i] \in Bad => result[i] \in Bad \/ result[i] = "open"
      BY <1>1, <2>1, TableSteps
    <2> QED
      BY <1>2, <1>3, <1>4, <2>1, <2>2, <2>3, BadRowsStay
  <1>13. ASSUME NEW v \in Verdicts, NEW b \in BOOLEAN, NEW c \in BOOLEAN, CliEnds(v, b, c)
         PROVE  BadRowsKept'
    <2>1. /\ EndRow(cli, v, b, c) /\ BadRows /\ UNCHANGED <<runner, own, seen, lastId>>
          /\ cli # NoRun
      BY <1>13 DEF CliEnds
    <2>2. Ceiling' = Ceiling
      BY <2>1 DEF Ceiling
    <2>3. cli.id \in RunIds /\ cli.start \in 0..MaxTime
      BY <2>1, IdsAreRows
    <2>4. \A i \in RunIds : result'[i] \in Bad => result[i] \in Bad \/ result[i] = "open"
      BY <1>1, <2>1, <2>3, TableSteps
    <2> QED
      BY <1>2, <1>4, <2>1, <2>2, <2>4, BadRowsStay
  <1>14. CASE \/ CliLosesRow \/ Tick \/ UNCHANGED vars
              \/ ReadProof \/ MarkStale \/ SendStale \/ MaybeDigest \/ SendDigest \/ NextTick
    <2>1. UNCHANGED <<runner, own, seen, lastId, result>>
      BY <1>14, SweepsLeaveRuns DEF CliLosesRow, Tick, vars
    <2>2. BadRows \/ badRows' = badRows
      <3>1. CASE CliLosesRow \/ Tick \/ UNCHANGED vars
        BY <3>1 DEF CliLosesRow, Tick, vars
      <3>2. CASE ReadProof \/ SendStale \/ NextTick
        BY <3>2 DEF ReadProof, SendStale, NextTick
      <3>3. CASE MarkStale \/ MaybeDigest \/ SendDigest
        BY <3>3 DEF MarkStale, MaybeDigest, SendDigest
      <3> QED
        BY <1>14, <3>1, <3>2, <3>3
    <2>3. badRows \subseteq badRows'
      BY <1>4, <2>2
    <2>4. Ceiling' = Ceiling
      BY <2>1 DEF Ceiling
    <2>5. \A i \in RunIds : ~(result[i] = "open" /\ result'[i] \in Bad)
      BY <2>1 DEF Bad
    <2> QED
      BY <1>2, <2>1, <2>3, <2>4, <2>5, BadRowsStay
  <1>15. CASE Restart
    <2>1. /\ result' = [i \in RunIds |-> IF result[i] = "open" THEN "error" ELSE result[i]]
          /\ BadRows /\ runner' = "idle" /\ lastId' = lastId
      BY <1>15 DEF Restart
    <2>2. Ceiling' = lastId + 1
      BY <2>1 DEF Ceiling
    <2>3. \A i \in RunIds : result'[i] \in Bad => result[i] \in Bad \/ result[i] = "open"
      BY <1>1, <2>1, TableSteps
    <2> QED
      BY <1>2, <1>3, <1>4, <2>1, <2>2, <2>3, BadRowsStay
  <1> QED
    BY <1>5, <1>6, <1>7, <1>8, <1>9, <1>10, <1>11, <1>12, <1>13, <1>14, <1>15, Steps

-----------------------------------------------------------------------------
(***************************************************************************)
(* The types.                                                              *)
(***************************************************************************)

LEMMA StepStoreOK ==
  ASSUME TypeOK, [Next]_vars
  PROVE  StoreOK'
  <1> USE DEF store, after, sweep, history, Silent
  <1>1. StoreOK /\ clock \in Nat /\ faults \in Nat /\ crashes \in Nat
    BY Bounds DEF TypeOK, StoreOK
  <1>2. CASE UNCHANGED <<lastId, result, proof, clock, faults, crashes>>
    BY <1>1, <1>2 DEF StoreOK
  <1>3. CASE CreateRow /\ UNCHANGED <<proof, clock, faults, crashes>>
    BY <1>1, <1>3, CreateRowDoes DEF StoreOK
  <1>4. ASSUME NEW r, NEW v, NEW b, NEW c, r.id \in RunIds, r.start \in 0..MaxTime,
               v \in Verdicts, b \in BOOLEAN, c \in BOOLEAN, EndRow(r, v, b, c),
               UNCHANGED <<lastId, clock, faults, crashes>>
        PROVE  StoreOK'
    BY <1>1, <1>4, EndRowDoes DEF StoreOK
  <1>5. CASE UNCHANGED <<lastId, result, proof, clock, crashes>> /\ Fault
    BY <1>1, <1>5, Bounds DEF StoreOK, Fault
  <1>6. CASE RunStarts \/ CliStarts
    BY <1>3, <1>6 DEF RunStarts, CliStarts
  <1>7. ASSUME NEW v \in Verdicts, NEW b \in BOOLEAN, RunEnds(v, b)
        PROVE  StoreOK'
    BY <1>4, <1>7, IdsAreRows DEF RunEnds
  <1>8. ASSUME NEW v \in {"error", "pass"}, RunAborts(v)
        PROVE  StoreOK'
    <2>1. v \in Verdicts
      BY DEF Verdicts, Bad
    <2> QED
      BY <1>4, <1>8, <2>1, IdsAreRows DEF RunAborts
  <1>9. CASE RunLosesRow \/ ReadFlag \/ Classify \/ SendRunEvent
    BY <1>2, <1>9 DEF RunLosesRow, ReadFlag, Classify, SendRunEvent
  <1>10. CASE ReadPrev \/ ReadProof
    BY <1>2, <1>5, <1>10 DEF ReadPrev, ReadProof
  <1>11. CASE MarkStale \/ SendStale \/ MaybeDigest \/ SendDigest \/ NextTick
    BY <1>2, <1>11 DEF MarkStale, SendStale, MaybeDigest, SendDigest, NextTick
  <1>12. ASSUME NEW v \in Verdicts, NEW b \in BOOLEAN, NEW c \in BOOLEAN, CliEnds(v, b, c)
         PROVE  StoreOK'
    BY <1>4, <1>12, IdsAreRows DEF CliEnds
  <1>13. CASE CliLosesRow \/ UNCHANGED vars
    BY <1>2, <1>13 DEF CliLosesRow, vars
  <1>14. CASE Restart
    <2>1. UNCHANGED <<lastId, proof, clock, faults>> /\ crashes' \in 0..MaxCrashes
      BY <1>1, <1>14, Bounds DEF Restart
    <2>2. result' \in [RunIds -> Verdicts \cup {"absent", "open", "pruned"}]
      BY <1>1, <1>14 DEF Restart, StoreOK, Verdicts, Bad
    <2> QED
      BY <1>1, <2>1, <2>2 DEF StoreOK
  <1>15. CASE Tick
    BY <1>1, <1>15, Bounds DEF Tick, StoreOK
  <1> QED
    BY <1>6, <1>7, <1>8, <1>9, <1>10, <1>11, <1>12, <1>13, <1>14, <1>15, Steps

LEMMA StepRunnerOK ==
  ASSUME TypeOK, [Next]_vars
  PROVE  RunnerOK'
  <1> USE DEF store, after, sweep, history, Silent
  <1>1. RunnerOK /\ StoreOK /\ lastId \in Nat /\ stale \in BOOLEAN /\ clock \in 0..MaxTime
    BY Bounds DEF TypeOK, StoreOK, SweeperOK
  <1>2. NoRun \in [id : 0..MaxRuns, start : 0..MaxTime, verdict : {"none"}]
    BY Bounds DEF NoRun
  <1>3. Unread \in [wasStale : BOOLEAN, prev : Verdicts \cup {"none"}]
    BY DEF Unread
  <1>4. CASE UNCHANGED <<lastId, runner, own, seen, cli>>
    BY <1>1, <1>4 DEF RunnerOK
  <1>5. CASE RunStarts
    <2>1. own' = [id |-> lastId + 1, start |-> clock, verdict |-> "none"] /\ CreateRow
      BY <1>5 DEF RunStarts
    <2>2. lastId + 1 \in 1..lastId' /\ lastId + 1 \in 0..MaxRuns
      BY <1>1, <2>1, CreateRowDoes
    <2>3. cli # NoRun => cli.id \in 1..lastId'
      BY <1>1, <2>1, CreateRowDoes DEF RunnerOK
    <2>4. runner' = "running" /\ UNCHANGED <<seen, cli>>
      BY <1>5 DEF RunStarts
    <2> QED
      BY <1>1, <2>1, <2>2, <2>3, <2>4 DEF RunnerOK
  <1>6. ASSUME NEW v \in Verdicts, NEW b \in BOOLEAN, RunEnds(v, b)
        PROVE  RunnerOK'
    <2>1. /\ own' = [own EXCEPT !.verdict = v] /\ runner = "running" /\ runner' = "flag"
          /\ UNCHANGED <<lastId, seen, cli>>
      BY <1>6 DEF RunEnds
    <2> QED
      BY <1>1, <2>1 DEF RunnerOK
  <1>7. CASE runner' = "idle" /\ own' = NoRun /\ seen' \in {seen, Unread} /\ UNCHANGED <<lastId, cli>>
    BY <1>1, <1>2, <1>3, <1>7 DEF RunnerOK
  <1>8. ASSUME NEW v \in {"error", "pass"}, RunAborts(v)
        PROVE  RunnerOK'
    BY <1>7, <1>8 DEF RunAborts
  <1>9. CASE RunLosesRow \/ SendRunEvent
    BY <1>7, <1>9 DEF RunLosesRow, SendRunEvent
  <1>10. CASE ReadFlag
    <2>1. /\ runner = "flag" /\ runner' = "prev" /\ UNCHANGED <<lastId, own, cli>>
          /\ seen' = [seen EXCEPT !.wasStale = stale]
      BY <1>10 DEF ReadFlag
    <2> QED
      BY <1>1, <2>1 DEF RunnerOK
  <1>11. CASE ReadPrev
    <2>1. runner = "prev" /\ runner' = "classify" /\ UNCHANGED <<lastId, own, cli>>
      BY <1>11 DEF ReadPrev
    <2>2. \E prev \in Verdicts \cup {"none"} : seen' = [seen EXCEPT !.prev = prev]
      BY <1>11 DEF ReadPrev
    <2>3. seen' \in [wasStale : BOOLEAN, prev : Verdicts \cup {"none"}]
      BY <1>1, <2>2 DEF RunnerOK
    <2> QED
      BY <1>1, <2>1, <2>3 DEF RunnerOK
  <1>12. CASE Classify
    <2>1. CASE ClassifyRun = "silent"
      BY <1>7, <1>12, <2>1 DEF Classify
    <2>2. CASE ClassifyRun # "silent"
      <3>1. runner = "classify" /\ runner' = "send" /\ UNCHANGED <<lastId, own, seen, cli>>
        BY <1>12, <2>2 DEF Classify
      <3> QED
        BY <1>1, <3>1 DEF RunnerOK
    <2> QED
      BY <2>1, <2>2
  <1>13. CASE ReadProof \/ MarkStale \/ SendStale \/ MaybeDigest \/ SendDigest \/ NextTick
    BY <1>4, <1>13, SweepsLeaveRuns
  <1>14. CASE CliStarts
    <2>1. cli' = [id |-> lastId + 1, start |-> clock, verdict |-> "none"] /\ CreateRow
      BY <1>14 DEF CliStarts
    <2>2. lastId + 1 \in 1..lastId' /\ lastId + 1 \in 0..MaxRuns
      BY <1>1, <2>1, CreateRowDoes
    <2>3. runner # "idle" => own.id \in 1..lastId'
      BY <1>1, <2>1, CreateRowDoes DEF RunnerOK
    <2>4. UNCHANGED <<runner, own, seen>>
      BY <1>14 DEF CliStarts
    <2> QED
      BY <1>1, <2>1, <2>2, <2>3, <2>4 DEF RunnerOK
  <1>15. CASE cli' = NoRun /\ UNCHANGED <<lastId, runner, own, seen>>
    BY <1>1, <1>2, <1>15 DEF RunnerOK
  <1>16. ASSUME NEW v \in Verdicts, NEW b \in BOOLEAN, NEW c \in BOOLEAN, CliEnds(v, b, c)
         PROVE  RunnerOK'
    BY <1>15, <1>16 DEF CliEnds
  <1>17. CASE CliLosesRow
    BY <1>15, <1>17 DEF CliLosesRow
  <1>18. CASE Restart
    BY <1>7, <1>18 DEF Restart
  <1>19. CASE Tick \/ UNCHANGED vars
    BY <1>4, <1>19 DEF Tick, vars
  <1> QED
    BY <1>5, <1>6, <1>8, <1>9, <1>10, <1>11, <1>12, <1>13, <1>14, <1>16, <1>17, <1>18, <1>19, Steps

LEMMA StepSweeperOK ==
  ASSUME TypeOK, [Next]_vars
  PROVE  SweeperOK'
  <1> USE DEF store, after, sweep, history, Silent
  <1>1. SweeperOK /\ clock \in 0..MaxTime
    BY Bounds DEF TypeOK, StoreOK
  <1>2. CASE UNCHANGED <<stale, digestMark, sweeper, swept, digestAt>>
    BY <1>1, <1>2 DEF SweeperOK
  <1>3. CASE Classify
    <2>1. UNCHANGED <<digestMark, sweeper, swept, digestAt>>
      BY <1>3 DEF Classify
    <2>2. stale' \in BOOLEAN
      BY <1>1, <1>3, RecoverClears DEF SweeperOK
    <2> QED
      BY <1>1, <2>1, <2>2 DEF SweeperOK
  <1>4. CASE ReadFlag
    BY <1>2, <1>4 DEF ReadFlag
  <1>5. CASE ReadProof
    <2>1. /\ UNCHANGED <<stale, digestMark, digestAt>> /\ sweeper' \in {"firstFlag", "flag"}
          /\ swept' \in BOOLEAN
      BY <1>5 DEF ReadProof, Stale
    <2> QED
      BY <1>1, <2>1 DEF SweeperOK
  <1>6. CASE MarkStale
    <2>1. /\ UNCHANGED <<digestMark, digestAt>> /\ stale' = swept /\ swept' = FALSE
          /\ sweeper' \in {"firstSend", "send", "wait", "digest"}
      BY <1>6 DEF MarkStale, SweepFlag
    <2> QED
      BY <1>1, <2>1 DEF SweeperOK
  <1>7. CASE SendStale \/ NextTick
    <2>1. /\ UNCHANGED <<stale, digestMark, swept, digestAt>>
          /\ sweeper' \in {"wait", "digest", "tick"}
      BY <1>7 DEF SendStale, NextTick
    <2> QED
      BY <1>1, <2>1 DEF SweeperOK
  <1>8. CASE MaybeDigest \/ SendDigest
    <2>1. UNCHANGED <<stale, swept>> /\ sweeper' \in {"wait", "digestSend"}
      BY <1>8 DEF MaybeDigest, SendDigest
    <2>2. digestMark' \in {digestMark, clock} /\ digestAt' \in {digestAt, clock, 0}
      BY <1>8 DEF MaybeDigest, SendDigest
    <2> QED
      BY <1>1, <2>1, <2>2, Bounds DEF SweeperOK
  <1>9. CASE Restart
    <2>1. /\ stale' = FALSE /\ digestMark' = clock
          /\ sweeper' = "first" /\ swept' = FALSE /\ digestAt' = 0
      BY <1>9 DEF Restart, NewAlerter
    <2>2. 0 \in 0..MaxTime
      BY Bounds
    <2> QED
      BY <1>1, <2>1, <2>2 DEF SweeperOK
  <1>10. CASE Tick \/ UNCHANGED vars
    BY <1>2, <1>10 DEF Tick, vars
  <1> QED
    BY <1>2, <1>3, <1>4, <1>5, <1>6, <1>7, <1>8, <1>9, <1>10, Steps, RunsLeaveSweeper, DecidesNothing

LEMMA StepHistoryOK ==
  ASSUME TypeOK, DigestKept, [Next]_vars
  PROVE  HistoryOK'
  <1> USE DEF store, after, sweep, history, Silent
  <1>1. HistoryOK
    BY DEF TypeOK
  <1>2. (Episode => episode' \in BOOLEAN /\ recovered' \in BOOLEAN)
        /\ (BadRows => badRows' \subseteq RunIds)
    BY <1>1 DEF Episode, BadRows, HistoryOK
  <1>3. CASE Silent
    BY <1>1, <1>2, <1>3 DEF HistoryOK
  <1>4. CASE UNCHANGED history
    BY <1>1, <1>4 DEF HistoryOK
  <1>5. CASE ReadFlag
    BY <1>1, <1>2, <1>5 DEF ReadFlag, HistoryOK
  <1>6. CASE Classify
    BY <1>1, <1>6 DEF Classify, HistoryOK
  <1>7. CASE SendRunEvent
    <2>1. own.id \in RunIds
      BY <1>7, IdsAreRows DEF SendRunEvent
    <2>2. alerts' \subseteq [run : RunIds, event : Bad]
      BY <1>1, <1>7, <2>1 DEF SendRunEvent, HistoryOK
    <2>3. Episode /\ UNCHANGED <<raised, cause, badRows, digested>>
      BY <1>7 DEF SendRunEvent
    <2> QED
      BY <1>1, <1>2, <2>2, <2>3 DEF HistoryOK
  <1>8. CASE MarkStale
    <2>1. (episode' = IsStale /\ recovered' = FALSE) \/ UNCHANGED <<episode, recovered>>
      BY <1>8 DEF MarkStale
    <2>2. episode' \in BOOLEAN /\ recovered' \in BOOLEAN
      BY <1>1, <2>1 DEF IsStale, Stale, HistoryOK
    <2>3. raised' \in BOOLEAN /\ UNCHANGED <<alerts, cause, badRows, digested>>
      BY <1>8 DEF MarkStale
    <2> QED
      BY <1>1, <2>2, <2>3 DEF HistoryOK
  <1>9. CASE SendDigest
    <2>1. Episode /\ UNCHANGED <<alerts, raised, cause, badRows>>
      BY <1>9 DEF SendDigest
    <2>2. digested' = LastSlot(digestAt)
      BY <1>9 DEF SendDigest
    <2>3. digestAt \in Nat /\ digestAt =< MaxTime
      BY Bounds DEF TypeOK, SweeperOK
    <2>4. LastSlot(digestAt) \in 0..digestAt
      BY <2>3, LastSlotIsLast
    <2>5. digested' \in 0..MaxTime
      BY <2>2, <2>3, <2>4, Bounds
    <2> QED
      BY <1>1, <1>2, <2>1, <2>5 DEF HistoryOK
  <1>10. CASE Restart
    BY <1>1, <1>2, <1>10 DEF Restart, HistoryOK
  <1>11. ASSUME NEW v \in Verdicts, NEW b \in BOOLEAN, RunEnds(v, b)
         PROVE  Silent
    BY <1>11 DEF RunEnds
  <1>12. ASSUME NEW v \in {"error", "pass"}, RunAborts(v)
         PROVE  Silent
    BY <1>12 DEF RunAborts
  <1>13. ASSUME NEW v \in Verdicts, NEW b \in BOOLEAN, NEW c \in BOOLEAN, CliEnds(v, b, c)
         PROVE  Silent
    BY <1>13 DEF CliEnds
  <1>14. CASE RunStarts \/ RunLosesRow \/ ReadPrev \/ CliStarts \/ CliLosesRow \/ Tick
    BY <1>3, <1>14 DEF RunStarts, RunLosesRow, ReadPrev, CliStarts, CliLosesRow, Tick
  <1>15. CASE ReadProof \/ SendStale \/ MaybeDigest \/ NextTick
    BY <1>3, <1>15 DEF ReadProof, SendStale, MaybeDigest, NextTick
  <1>16. CASE UNCHANGED vars
    BY <1>4, <1>16 DEF vars
  <1> QED
    BY <1>3, <1>5, <1>6, <1>7, <1>8, <1>9, <1>10, <1>11, <1>12, <1>13, <1>14, <1>15, <1>16, Steps

-----------------------------------------------------------------------------
(***************************************************************************)
(* The invariant and what follows from it.                                 *)
(***************************************************************************)

LEMMA InitAlerterInv ==
  ASSUME Init
  PROVE  AlerterInv
  <1>1. StoreOK
    BY Bounds DEF Init, StoreOK
  <1>2. RunnerOK
    <2>1. NoRun \in [id : 0..MaxRuns, start : 0..MaxTime, verdict : {"none"}]
      BY Bounds DEF NoRun
    <2> QED
      BY <2>1 DEF Init, RunnerOK, Unread
  <1>3. SweeperOK
    <2>1. 0 \in 0..MaxTime /\ 1 \in 0..MaxTime
      BY Bounds
    <2>2. digestMark \in 0..MaxTime /\ digestAt \in 0..MaxTime
      BY <2>1 DEF Init
    <2>3. stale = FALSE /\ swept = FALSE /\ sweeper = "first"
      BY DEF Init
    <2> QED
      BY <2>2, <2>3 DEF SweeperOK
  <1>4. HistoryOK
    <2>1. 0 \in 0..MaxTime
      BY Bounds
    <2>2. digested \in 0..MaxTime
      BY <2>1 DEF Init
    <2>3. /\ alerts = {} /\ badRows = {}
          /\ episode = FALSE /\ recovered = FALSE /\ raised = FALSE /\ cause = FALSE
      BY DEF Init
    <2> QED
      BY <2>2, <2>3 DEF HistoryOK
  <1>5. DigestKept
    BY DEF Init, DigestKept
  <1>6. EpisodeKept /\ FlagKept
    BY DEF Init, EpisodeKept, FlagKept
  <1>7. RowsKept
    <2>1. \A i \in RunIds : result[i] = "absent" /\ i > lastId /\ ~Exists(i)
      BY Bounds DEF Init, RunIds, Exists
    <2> QED
      BY <2>1 DEF Init, RowsKept, TableKept
  <1>8. BadRowsKept
    BY DEF Init, BadRowsKept, Bad
  <1> QED
    BY <1>1, <1>2, <1>3, <1>4, <1>5, <1>6, <1>7, <1>8 DEF AlerterInv, TypeOK

LEMMA NextAlerterInv ==
  ASSUME AlerterInv, [Next]_vars
  PROVE  AlerterInv'
  <1>1. TypeOK'
    BY StepStoreOK, StepRunnerOK, StepSweeperOK, StepHistoryOK DEF AlerterInv, TypeOK
  <1>2. DigestKept'
    BY StepDigest DEF AlerterInv
  <1>3. EpisodeKept'
    BY StepEpisode DEF AlerterInv
  <1>4. FlagKept'
    BY StepFlag DEF AlerterInv
  <1>5. RowsKept'
    BY StepRows DEF AlerterInv
  <1>6. BadRowsKept'
    BY <1>1, StepBadRows DEF AlerterInv
  <1> QED
    BY <1>1, <1>2, <1>3, <1>4, <1>5, <1>6 DEF AlerterInv

LEMMA AlerterInvariant == Spec => []AlerterInv
  BY InitAlerterInv, NextAlerterInv, PTL DEF Spec

\* What the alerter and the goroutines around it keep is what they say it is; in
\* particular afterRun's row is a row of the table.
THEOREM AlerterTypeOK == Spec => []TypeOK
  <1>1. AlerterInv => TypeOK
    BY DEF AlerterInv
  <1> QED
    BY <1>1, AlerterInvariant, PTL

\* maybeDigest sends at most one digest for a slot, whatever the period and the
\* restarts: each one is for a later slot than the one before.
THEOREM NoSecondDigest == Spec => DigestOncePerSlot
  <1>1. ASSUME AlerterInv, [Next]_vars
        PROVE  [SendDigest => digested' > digested]_vars
    <2>1. SUFFICES ASSUME SendDigest
                   PROVE  digested' > digested
      OBVIOUS
    <2>2. digested' = LastSlot(digestAt) /\ digested < LastSlot(digestAt)
      BY <1>1, <2>1 DEF AlerterInv, DigestKept, SendDigest
    <2>3. digestAt \in Nat /\ digested \in Nat
      BY <1>1, Bounds DEF AlerterInv, TypeOK, SweeperOK, HistoryOK
    <2>4. LastSlot(digestAt) \in 0..digestAt
      BY <2>3, LastSlotIsLast
    <2> QED
      BY <2>2, <2>3, <2>4
  <1> QED
    BY <1>1, AlerterInvariant, PTL DEF Spec, DigestOncePerSlot

\* sweepStale raises a second alert of one episode only after afterRun has
\* decided on a recover, in whatever order the two goroutines take the mutex and
\* whichever reads of the proof fail.
THEOREM NoRepeatedStaleAlert == Spec => NoRepeatWithoutRecover
  <1>1. ASSUME AlerterInv, [Next]_vars
        PROVE  [RaisesStale /\ IsStale /\ episode => recovered]_vars
    <2>1. SUFFICES ASSUME RaisesStale, episode
                   PROVE  recovered
      OBVIOUS
    <2>2. ~stale
      BY <2>1 DEF RaisesStale, MarkStale, SweepFlag
    <2>3. episode /\ ~recovered => stale
      BY <1>1 DEF AlerterInv, EpisodeKept
    <2> QED
      BY <2>1, <2>2, <2>3
  <1> QED
    BY <1>1, AlerterInvariant, PTL DEF Spec, NoRepeatWithoutRecover

\* afterRun announces a recovery only for a bad run before its own or a raised
\* flag, and only once for each, whatever runs of the command line and retention
\* do to the two rows it looks at.
THEOREM NoUnjustifiedRecover == Spec => RecoverJustified
  <1>1. ASSUME AlerterInv, [Next]_vars
        PROVE  [Classify /\ ClassifyRun = "recover" =>
                  cause \/ raised \/ \E i \in badRows : i < own.id]_vars
    <2>1. SUFFICES ASSUME Classify, ClassifyRun = "recover"
                   PROVE  cause \/ \E i \in badRows : i < own.id
      OBVIOUS
    <2>2. runner = "classify"
      BY <2>1 DEF Classify
    <2>3. seen.wasStale \/ seen.prev \in Bad
      BY <2>1 DEF ClassifyRun, Bad
    <2>4. seen.wasStale => cause
      BY <1>1, <2>2 DEF AlerterInv, FlagKept
    <2>5. seen.prev \in Bad => \E i \in badRows : i < own.id
      BY <1>1, <2>2 DEF AlerterInv, BadRowsKept
    <2> QED
      BY <2>3, <2>4, <2>5
  <1> QED
    BY <1>1, AlerterInvariant, PTL DEF Spec, RecoverJustified
=============================================================================
