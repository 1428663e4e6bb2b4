---------------------------- MODULE ViewsProofs -----------------------------
(***************************************************************************)
(* What a page says about the SLA is backed, though it is put together     *)
(* from several statements: the proof it read was some recorded run's, and *)
(* a recorded pass stays one, whatever happens before the page is shown.   *)
(* The verdict it shows is that of the steps it shows, and it does not     *)
(* contradict itself.                                                      *)
(***************************************************************************)
EXTENDS Views, RunLifecycleProofs

Fields == DOMAIN NoPage

\* The headline proof on the page, once it is there, is a recorded pass.
HeadlineBacked ==
  /\ page.headline \in Nat /\ page.now \in Nat
  /\ page.headline > 0 =>
       \E v \in Passes : HeadlineLevel \in v.passed /\ v.start = page.headline

ViewInv == RunInv /\ DOMAIN page = Fields /\ HeadlineBacked

\* Readers leave the run lifecycle alone.
LEMMA ReadersOnlyRead == ViewNext => [Next]_vars
  BY DEF ViewNext, Read, Request, ListRuns, GetRun, ListSteps, ListEvidence, ListProofs, GetProof,
         LatestPassingRun, LatestFinishedRun, BytesRestoredTotal, SampleOmitted, Refused, Written,
         Show

\* HeadlineLevel: the highest level of the drill is one of its levels.
LEMMA HeadlineIsLevel == HeadlineLevel \in Levels
  BY ViewAssumption DEF HeadlineLevel

\* FinishRun records, nothing forgets.
LEMMA PassesGrow == RunInv /\ [Next]_vars => Passes \subseteq Passes'
  BY LedgerStep DEF RunInv, Ledger!Next, Ledger!Pass, Ledger!Prove

\* The invariant holds of the empty page.
LEMMA ViewInitInv == ViewInit => ViewInv
<1>1. ViewInit => DOMAIN page = Fields /\ page.headline = 0 /\ page.now = 0
  BY DEF ViewInit, Fields, NoPage
<1> QED
  BY <1>1, InvInit DEF ViewInit, ViewInv, HeadlineBacked

\* Each statement of a page keeps what the page shows about the SLA backed.
LEMMA ViewStepInv == ViewInv /\ [ViewNext]_viewVars => ViewInv'
<1> SUFFICES ASSUME ViewInv, [ViewNext]_viewVars PROVE ViewInv'
  OBVIOUS
<1>0. [Next]_vars
  BY ReadersOnlyRead DEF viewVars
<1>1. RunInv'
  BY <1>0, TypeStep, RowStep, StepsStep, PendingStep, ProofStep, MatchStep DEF RunInv, ViewInv
<1>2. Passes \subseteq Passes'
  BY <1>0, PassesGrow DEF ViewInv
<1>3. proof[HeadlineLevel] \in Nat /\ (proof[HeadlineLevel] > 0 =>
        \E v \in Passes' : HeadlineLevel \in v.passed /\ v.start = proof[HeadlineLevel])
  <2>1. proof[HeadlineLevel] \in Nat
    BY HeadlineIsLevel DEF ViewInv, RunInv, TypeOK
  <2>2. proof[HeadlineLevel] > 0 =>
          \E v \in Passes : HeadlineLevel \in v.passed /\ v.start = proof[HeadlineLevel]
    BY HeadlineIsLevel DEF ViewInv, RunInv, ProofBacked, Passes
  <2> QED
    BY <1>2, <2>1, <2>2
<1>4. CASE page' = page
  BY <1>1, <1>2, <1>4 DEF ViewInv, HeadlineBacked
<1>5. ASSUME DOMAIN page' = Fields, page'.now \in {0, page.now, clock},
             page'.headline \in {0, page.headline, proof[HeadlineLevel]}
      PROVE  ViewInv'
  BY <1>1, <1>2, <1>3, <1>5 DEF ViewInv, HeadlineBacked, RunInv, TypeOK
<1>6. DOMAIN page = Fields /\ Fields = {"kind", "todo", "now", "row", "verdict", "steps",
        "evidence", "listed", "headline", "passing", "failed"}
  BY DEF ViewInv, Fields, NoPage
<1>7. NoPage.headline = 0 /\ NoPage.now = 0 /\ DOMAIN NoPage = Fields
  BY DEF NoPage, Fields
<1>8. CASE Request
  <2>1. PICK k \in Kinds : \E t \in {0, clock} :
          page' = [NoPage EXCEPT !.kind = k, !.todo = Statements[k], !.now = t]
    BY <1>8 DEF Request
  <2> QED
    BY <1>5, <1>6, <1>7, <2>1
<1>9. CASE Refused \/ Written
  BY <1>5, <1>7, <1>9 DEF Refused, Written
<1>10. ASSUME NEW shown, Show(shown), DOMAIN shown = Fields, shown.now = page.now,
              shown.headline \in {0, page.headline, proof[HeadlineLevel]}
       PROVE  ViewInv'
  BY <1>5, <1>6, <1>10 DEF Show
<1>11. CASE ListRuns
  BY <1>6, <1>10, <1>11 DEF ListRuns
<1>12. CASE GetRun
  BY <1>6, <1>10, <1>12 DEF GetRun
<1>13. CASE ListSteps \/ ListEvidence
  BY <1>6, <1>10, <1>13 DEF ListSteps, ListEvidence
<1>14. CASE ListProofs
  BY <1>6, <1>10, <1>14 DEF ListProofs
<1>15. CASE GetProof
  BY <1>6, <1>10, <1>15 DEF GetProof
<1>16. CASE LatestPassingRun \/ LatestFinishedRun \/ SampleOmitted
  BY <1>6, <1>10, <1>16 DEF LatestPassingRun, LatestFinishedRun, SampleOmitted
<1>17. CASE BytesRestoredTotal
  BY <1>5, <1>6, <1>17 DEF BytesRestoredTotal
<1> QED
  BY <1>4, <1>8, <1>9, <1>11, <1>12, <1>13, <1>14, <1>15, <1>16, <1>17
  DEF ViewNext, Read, viewVars

\* Nobody is told that a drill is fresh without a recorded pass of its headline
\* level within max_proof_age, for any number of processes, rows and faults.
THEOREM FreshIsBacked == ViewSpec => []ShownFreshIsBacked
<1>1. ViewInv => ShownFreshIsBacked
  <2> SUFFICES ASSUME ViewInv, MaxProofAge > 0, ~ Stale(page.headline, page.now)
               PROVE  \E v \in Passes : HeadlineLevel \in v.passed /\ page.now - v.start =< MaxProofAge
    BY DEF ShownFreshIsBacked
  <2>1. page.headline # 0 /\ page.now - page.headline =< MaxProofAge
    BY ViewAssumption DEF Stale, ViewInv, HeadlineBacked
  <2>2. PICK v \in Passes : HeadlineLevel \in v.passed /\ v.start = page.headline
    BY <2>1 DEF ViewInv, HeadlineBacked
  <2> QED
    BY <2>1, <2>2
<1> QED
  BY <1>1, ViewInitInv, ViewStepInv, PTL DEF ViewSpec

\* AddBytesRestored is the only statement that touches the counter.
LEMMA CounterGrows == ASSUME TypeOK, [Next]_vars PROVE counter' \in Nat /\ counter' >= counter
<1>0. counter \in Nat
  BY DEF TypeOK
<1>1. ASSUME NEW p \in Procs, AddBytesRestored(p) PROVE counter' \in Nat /\ counter' >= counter
  <2>1. restored[p] \in Nat
    BY DEF TypeOK
  <2> QED
    BY <1>0, <1>1, <2>1 DEF AddBytesRestored
<1>2. ASSUME NEW p \in Procs, Step(p), ~ AddBytesRestored(p) PROVE counter' = counter
  BY <1>2 DEF Step, CreateRun, CreateRunFails, ReadBaseline, RunLevel, RecordStep, RecordStepFails,
     FinishRun, FinishRunFails, DeferredFinish, RecordProof, RecordProofFails, PruneRetention, db
<1>3. ASSUME NEW p \in Procs, Start(p) \/ Cancel(p) \/ Crash(p) PROVE counter' = counter
  BY <1>3 DEF Start, Cancel, Crash, db
<1>4. CASE MarkAbandonedRuns \/ Tick
  BY <1>0, <1>4 DEF MarkAbandonedRuns, Tick, db
<1>5. CASE UNCHANGED vars
  BY <1>0, <1>5 DEF vars, db
<1> QED
  BY <1>0, <1>1, <1>2, <1>3, <1>4, <1>5 DEF Next

\* What was scraped is never ahead of the counter.
ExportedBehind == exported \in Nat /\ exported =< counter

\* BytesRestoredTotal reads a counter that retention leaves alone, so the
\* exported series never regresses.
THEOREM ScrapeNeverRegresses == ViewSpec => CounterNeverRegresses
<1>1. ViewInit => ExportedBehind
  BY DEF ViewInit, Init, ExportedBehind
<1>2. RunInv /\ ExportedBehind /\ [ViewNext]_viewVars => ExportedBehind' /\ exported' >= exported
  <2> SUFFICES ASSUME RunInv, ExportedBehind, [ViewNext]_viewVars
               PROVE  ExportedBehind' /\ exported' >= exported
    OBVIOUS
  <2>1. [Next]_vars
    BY ReadersOnlyRead DEF viewVars
  <2>2. counter \in Nat /\ counter' \in Nat /\ counter' >= counter
    BY <2>1, CounterGrows DEF RunInv, TypeOK
  <2>3. exported' = exported \/ (BytesRestoredTotal /\ exported' = counter)
    BY DEF ViewNext, Read, Request, ListRuns, GetRun, ListSteps, ListEvidence, ListProofs, GetProof,
           LatestPassingRun, LatestFinishedRun, BytesRestoredTotal, SampleOmitted, Refused, Written,
           Show, viewVars
  <2> QED
    BY <2>2, <2>3 DEF ExportedBehind
<1>3. ViewInv => RunInv
  BY DEF ViewInv
<1>4. RunInv /\ ExportedBehind /\ [ViewNext]_viewVars => [exported' >= exported]_viewVars
  BY <1>2
<1> QED
  BY <1>1, <1>2, <1>3, <1>4, ViewInitInv, ViewStepInv, PTL DEF ViewSpec, CounterNeverRegresses

-----------------------------------------------------------------------------
(***************************************************************************)
(* The store under the reader: what a later statement still finds.         *)
(***************************************************************************)

\* The steps behind a pass or a fail are final: nobody writes a step of a row
\* that has such a verdict, and retention takes the row with them.
LEMMA StepsFinal ==
  ASSUME TypeOK, RowInv, StepsInv, [Next]_vars
  PROVE  \A i \in RunIds : result[i] \in {"pass", "fail"} =>
           steps'[i] = steps[i] \/ result'[i] = "pruned"
<1>t. /\ result \in [RunIds -> Verdicts \cup {"absent", "open", "pruned"}]
      /\ steps \in [RunIds -> [Levels -> Statuses \cup {"none"}]]
  BY DEF TypeOK
<1>1. ASSUME NEW p \in Procs, RecordStep(p)
      PROVE  \A i \in RunIds : result[i] \in {"pass", "fail"} => steps'[i] = steps[i]
  <2>1. run[p] \in RunIds /\ result[run[p]] \in {"open", "error", "pruned"}
    BY <1>1 DEF RecordStep, RowInv, InRow, StepsInv, StepsOf, InLevels
  <2>2. \A i \in RunIds : i # run[p] => steps'[i] = steps[i]
    BY <1>1, <1>t DEF RecordStep
  <2> QED
    BY <2>1, <2>2
<1>2. ASSUME NEW p \in Procs, PruneRetention(p)
      PROVE  \A i \in RunIds : steps'[i] = steps[i] \/ result'[i] = "pruned"
  BY <1>2 DEF PruneRetention
<1>3. ASSUME NEW p \in Procs, Start(p) \/ Cancel(p) \/ Crash(p) PROVE steps' = steps
  BY <1>3 DEF Start, Cancel, Crash, db
<1>4. ASSUME NEW p \in Procs, Step(p)
      PROVE  RecordStep(p) \/ PruneRetention(p) \/ steps' = steps
  BY <1>4 DEF Step, CreateRun, CreateRunFails, ReadBaseline, RunLevel, RecordStepFails,
     FinishRun, FinishRunFails, DeferredFinish, AddBytesRestored, RecordProof,
     RecordProofFails, db
<1>5. CASE MarkAbandonedRuns \/ Tick \/ UNCHANGED vars
  BY <1>5 DEF MarkAbandonedRuns, Tick, vars, db
<1> QED
  BY <1>1, <1>2, <1>3, <1>4, <1>5 DEF Next

\* A proof never goes back.
LEMMA ProofsGrow ==
  ASSUME RunInv, [Next]_vars
  PROVE  \A l \in Levels : proof[l] \in Nat /\ proof'[l] \in Nat /\ proof[l] =< proof'[l]
<1>1. proof \in [Levels -> Nat] /\ proof' \in [Levels -> Nat]
  BY TypeStep DEF RunInv, TypeOK
<1>2. [Ledger!Next]_<<Passes, proof>>
  BY LedgerStep DEF RunInv
<1>3. CASE proof' = proof
  BY <1>1, <1>3
<1>4. ASSUME NEW v, NEW l \in Levels, v.start > proof[l], proof' = [proof EXCEPT ![l] = v.start]
      PROVE  \A k \in Levels : proof[k] =< proof'[k]
  <2>1. proof'[l] = v.start /\ proof'[l] \in Nat
    BY <1>1, <1>4
  <2> QED
    BY <1>1, <1>4, <2>1
<1>5. proof' = proof \/ \E v \in Passes, l \in Levels :
        v.start > proof[l] /\ proof' = [proof EXCEPT ![l] = v.start]
  BY <1>2 DEF Ledger!Next, Ledger!Pass, Ledger!Prove
<1> QED
  BY <1>1, <1>3, <1>4, <1>5

\* The row of a recorded pass says so until retention takes it.
PassedRows ==
  \A v \in Passes : v.run \in RunIds /\ result[v.run] \in {"pass", "pruned"}

LEMMA PassedRowsStep ==
  ASSUME RunInv, PassedRows, [Next]_vars
  PROVE  PassedRows'
<1>1. \A i \in RunIds : result[i] \in {"pass", "pruned"} => result'[i] \in {"pass", "pruned"}
  BY ImmutableStep, PrunedStays DEF RunInv, Verdicts, vars, db
<1>2. ASSUME NEW p \in Procs, FinishRun(p) PROVE PassedRows'
  <2> DEFINE v == [run |-> run[p], start |-> start[p], result |-> Verdict(p),
                   levels |-> selected[p], passed |-> PassedLevels(outcome[p]),
                   files |-> restored[p]]
  <2>1. verdicts' = verdicts \cup {v}
    BY <1>2 DEF FinishRun
  <2>2. v.run = run[p] /\ v.result = Verdict(p)
    OBVIOUS
  <2>3. run[p] \in RunIds /\ result'[run[p]] = Verdict(p)
    BY <1>2 DEF FinishRun, Finalize, RunInv, RowInv, InRow, TypeOK
  <2> HIDE DEF v
  <2>4. \A u \in Passes' : u \in Passes \/ (u = v /\ Verdict(p) = "pass")
    BY <2>1, <2>2 DEF Passes
  <2> QED
    BY <1>1, <2>2, <2>3, <2>4 DEF PassedRows
<1>3. CASE UNCHANGED verdicts
  BY <1>1, <1>3 DEF PassedRows, Passes
<1>4. ASSUME NEW p \in Procs, RecordProof(p) PROVE UNCHANGED verdicts
  BY <1>4 DEF RecordProof
<1> QED
  BY <1>2, <1>3, <1>4, LedgerFrame

\* The newest of some rows is one of them, if there is any.
LEMMA NewestIsNewest ==
  ASSUME NEW rows \in SUBSET RunIds
  PROVE  /\ rows = {} => Newest(rows) = 0
         /\ rows # {} => Newest(rows) \in rows /\ \A j \in rows : j =< Newest(rows)
<1>1. CASE rows = {}
  BY <1>1 DEF Newest
<1>2. CASE rows # {}
  <2> DEFINE T == {n \in Nat : \E i \in rows : n = MaxRuns - i}
  <2>1. MaxRuns \in Nat /\ \A i \in rows : i \in 1..MaxRuns
    BY RunAssumption DEF RunIds
  <2>2. T \subseteq Nat /\ T # {}
    BY <1>2, <2>1
  <2>4. PICK n \in T : \A m \in T : n =< m
    <3> HIDE DEF T
    <3> QED
      BY <2>2, Least
  <2>5. PICK i \in rows : n = MaxRuns - i
    OBVIOUS
  <2>6. ASSUME NEW j \in rows PROVE j =< i
    <3>1. MaxRuns - j \in T
      BY <2>1
    <3> QED
      BY <2>1, <2>4, <2>5, <3>1
  <2>7. Newest(rows) = CHOOSE k \in rows : \A j \in rows : j =< k
    BY <1>2 DEF Newest
  <2> HIDE DEF T
  <2> QED
    BY <1>2, <2>5, <2>6, <2>7
<1> QED
  BY <1>1, <1>2

-----------------------------------------------------------------------------
(***************************************************************************)
(* The page: how far it is, and what it shows by then.                     *)
(***************************************************************************)

\* What is left to read of a page of each kind.
DrillRest  == {DrillPage, <<"ListProofs", "GetProof">>, <<"GetProof">>, <<>>}
ReportRest == {ReportPage, <<"ListRuns", "ListSteps", "ListEvidence">>,
               <<"ListSteps", "ListEvidence">>, <<"ListEvidence">>, <<>>}
RunRest    == {RunPage, <<"ListSteps", "ListEvidence">>, <<"ListEvidence">>, <<>>}
ScrapeRest == {ScrapePage,
               <<"GetProof", "LatestPassingRun", "LatestFinishedRun", "BytesRestoredTotal">>,
               <<"LatestPassingRun", "LatestFinishedRun", "BytesRestoredTotal">>,
               <<"LatestFinishedRun", "BytesRestoredTotal">>, <<"BytesRestoredTotal">>, <<>>}

TodoKept ==
  \/ page.kind = "none" /\ page.todo = <<>>
  \/ page.kind = "drill" /\ page.todo \in DrillRest
  \/ page.kind = "report" /\ page.todo \in ReportRest
  \/ page.kind = "run" /\ page.todo \in RunRest
  \/ page.kind = "scrape" /\ page.todo \in ScrapeRest

ToGo == Len(page.todo)

\* The row, its steps and its evidence, as far as they are read: they are those
\* of the store, or retention took the row.
RowShown ==
  page.kind \in {"run", "report"} /\ page.verdict \in {"pass", "fail"} =>
    /\ page.row \in RunIds
    /\ \/ result[page.row] = "pruned"
       \/ /\ result[page.row] = page.verdict
          /\ ToGo =< 1 => page.steps = steps[page.row]
          /\ ToGo = 0 => page.evidence = {l \in Levels : steps[page.row][l] # "none"}

\* The proofs were read before the headline level's, and are at most what the
\* store holds.
HeadlineRead == (page.kind = "drill" => ToGo = 0) /\ (page.kind = "scrape" => ToGo =< 3)

ProofShown ==
  page.kind \in {"drill", "report", "scrape"} =>
    /\ page.listed \in [Levels -> Nat]
    /\ \A l \in Levels : page.listed[l] =< proof[l]
    /\ ~ page.failed /\ HeadlineRead => page.listed[HeadlineLevel] =< page.headline

\* Without retention, a scrape has found the run behind a proof, and a last run
\* that is not before it.
ScrapeShown ==
  page.kind = "scrape" /\ ~ page.failed /\ (\A i \in RunIds : result[i] # "pruned") =>
    /\ ToGo =< 2 =>
         /\ page.passing # 0 => page.passing \in RunIds /\ result[page.passing] = "pass"
         /\ (\E l \in Levels : page.listed[l] > 0) => page.passing # 0
    /\ ToGo =< 1 => page.row \in Nat /\ page.passing =< page.row

PageInv == TodoKept /\ RowShown /\ ProofShown /\ ScrapeShown

\* Whose turn it is, and how much is left after it.
LEMMA Turns ==
  ASSUME TodoKept, page.kind # "none", page.todo # <<>>
  PROVE  LET turn == <<page.kind, Head(page.todo), ToGo>>
             rest == Tail(page.todo)
         IN  /\ turn \in {<<"drill", "ListRuns", 3>>, <<"drill", "ListProofs", 2>>,
                          <<"drill", "GetProof", 1>>, <<"report", "ListProofs", 4>>,
                          <<"report", "ListRuns", 3>>, <<"report", "ListSteps", 2>>,
                          <<"report", "ListEvidence", 1>>, <<"run", "GetRun", 3>>,
                          <<"run", "ListSteps", 2>>, <<"run", "ListEvidence", 1>>,
                          <<"scrape", "ListProofs", 5>>, <<"scrape", "GetProof", 4>>,
                          <<"scrape", "LatestPassingRun", 3>>,
                          <<"scrape", "LatestFinishedRun", 2>>,
                          <<"scrape", "BytesRestoredTotal", 1>>}
             /\ Len(rest) = ToGo - 1 /\ ToGo \in 1..5
             /\ page.kind = "drill" => rest \in DrillRest
             /\ page.kind = "report" => rest \in ReportRest
             /\ page.kind = "run" => rest \in RunRest
             /\ page.kind = "scrape" => rest \in ScrapeRest
<1> USE DEF ToGo
<1>1. CASE page.kind = "drill"
  <2>1. page.todo \in DrillRest \ {<<>>}
    BY <1>1 DEF TodoKept
  <2>2. CASE page.todo = <<"ListRuns", "ListProofs", "GetProof">>
    BY <1>1, <2>2 DEF DrillRest
  <2>3. CASE page.todo = <<"ListProofs", "GetProof">>
    BY <1>1, <2>3 DEF DrillRest
  <2>4. CASE page.todo = <<"GetProof">>
    BY <1>1, <2>4 DEF DrillRest
  <2> QED
    BY <2>1, <2>2, <2>3, <2>4 DEF DrillRest, DrillPage
<1>2. CASE page.kind = "report"
  <2>1. page.todo \in ReportRest \ {<<>>}
    BY <1>2 DEF TodoKept
  <2>2. CASE page.todo = <<"ListProofs", "ListRuns", "ListSteps", "ListEvidence">>
    BY <1>2, <2>2 DEF ReportRest
  <2>3. CASE page.todo = <<"ListRuns", "ListSteps", "ListEvidence">>
    BY <1>2, <2>3 DEF ReportRest
  <2>4. CASE page.todo = <<"ListSteps", "ListEvidence">>
    BY <1>2, <2>4 DEF ReportRest
  <2>5. CASE page.todo = <<"ListEvidence">>
    BY <1>2, <2>5 DEF ReportRest
  <2> QED
    BY <2>1, <2>2, <2>3, <2>4, <2>5 DEF ReportRest, ReportPage
<1>3. CASE page.kind = "run"
  <2>1. page.todo \in RunRest \ {<<>>}
    BY <1>3 DEF TodoKept
  <2>2. CASE page.todo = <<"GetRun", "ListSteps", "ListEvidence">>
    BY <1>3, <2>2 DEF RunRest
  <2>3. CASE page.todo = <<"ListSteps", "ListEvidence">>
    BY <1>3, <2>3 DEF RunRest
  <2>4. CASE page.todo = <<"ListEvidence">>
    BY <1>3, <2>4 DEF RunRest
  <2> QED
    BY <2>1, <2>2, <2>3, <2>4 DEF RunRest, RunPage
<1>4. CASE page.kind = "scrape"
  <2>1. page.todo \in ScrapeRest \ {<<>>}
    BY <1>4 DEF TodoKept
  <2>2. CASE page.todo = <<"ListProofs", "GetProof", "LatestPassingRun", "LatestFinishedRun",
                           "BytesRestoredTotal">>
    BY <1>4, <2>2 DEF ScrapeRest
  <2>3. CASE page.todo = <<"GetProof", "LatestPassingRun", "LatestFinishedRun",
                           "BytesRestoredTotal">>
    BY <1>4, <2>3 DEF ScrapeRest
  <2>4. CASE page.todo = <<"LatestPassingRun", "LatestFinishedRun", "BytesRestoredTotal">>
    BY <1>4, <2>4 DEF ScrapeRest
  <2>5. CASE page.todo = <<"LatestFinishedRun", "BytesRestoredTotal">>
    BY <1>4, <2>5 DEF ScrapeRest
  <2>6. CASE page.todo = <<"BytesRestoredTotal">>
    BY <1>4, <2>6 DEF ScrapeRest
  <2> QED
    BY <2>1, <2>2, <2>3, <2>4, <2>5, <2>6 DEF ScrapeRest, ScrapePage
<1> QED
  BY <1>1, <1>2, <1>3, <1>4 DEF TodoKept

\* What a statement that was answered does to the page.
LEMMA Shows ==
  ASSUME TodoKept, page.todo # <<>>, NEW shown, Show(shown), DOMAIN shown = Fields,
         shown.kind = page.kind
  PROVE  /\ UNCHANGED vars /\ TodoKept' /\ ToGo' = ToGo - 1 /\ ToGo \in 1..5
         /\ page'.kind = page.kind /\ page'.row = shown.row /\ page'.verdict = shown.verdict
         /\ page'.steps = shown.steps /\ page'.evidence = shown.evidence
         /\ page'.listed = shown.listed /\ page'.headline = shown.headline
         /\ page'.passing = shown.passing /\ page'.failed = shown.failed
<1>1. page' = [shown EXCEPT !.todo = Tail(page.todo)] /\ UNCHANGED vars
  BY DEF Show
<1>2. {"kind", "todo", "row", "verdict", "steps", "evidence", "listed", "headline", "passing",
       "failed"} \subseteq DOMAIN shown
  BY DEF Fields, NoPage
<1>3. /\ page'.todo = Tail(page.todo)
      /\ page'.kind = page.kind /\ page'.row = shown.row /\ page'.verdict = shown.verdict
      /\ page'.steps = shown.steps /\ page'.evidence = shown.evidence
      /\ page'.listed = shown.listed /\ page'.headline = shown.headline
      /\ page'.passing = shown.passing /\ page'.failed = shown.failed
  BY <1>1, <1>2
<1>4. page.kind # "none"
  BY DEF TodoKept
<1>5. ToGo' = ToGo - 1 /\ ToGo \in 1..5
  BY <1>3, <1>4, Turns DEF ToGo
<1>6. TodoKept'
  BY <1>3, <1>4, Turns DEF TodoKept
<1> QED
  BY <1>1, <1>3, <1>5, <1>6

\* A step of the store under a page that stays as it is.
LEMMA StorePage ==
  ASSUME RunInv, PassedRows, PageInv, [Next]_vars, UNCHANGED page
  PROVE  PageInv'
<1>1. TodoKept' /\ ToGo' = ToGo
  BY DEF PageInv, TodoKept, ToGo
<1>2. \A i \in RunIds : result[i] = "pruned" => result'[i] = "pruned"
  BY PrunedStays DEF RunInv
<1>3. \A i \in RunIds : result[i] \in Verdicts => result'[i] \in {result[i], "pruned"}
  BY ImmutableStep DEF RunInv, vars, db
<1>4. \A i \in RunIds : result[i] \in {"pass", "fail"} => steps'[i] = steps[i] \/ result'[i] = "pruned"
  BY StepsFinal DEF RunInv
<1>5. \A l \in Levels : proof[l] \in Nat /\ proof'[l] \in Nat /\ proof[l] =< proof'[l]
  BY ProofsGrow
<1>6. RowShown'
  <2>1. SUFFICES ASSUME page.kind \in {"run", "report"}, page.verdict \in {"pass", "fail"}
                 PROVE  /\ page.row \in RunIds
                        /\ \/ result'[page.row] = "pruned"
                           \/ /\ result'[page.row] = page.verdict
                              /\ ToGo =< 1 => page.steps = steps'[page.row]
                              /\ ToGo = 0 => page.evidence = {l \in Levels : steps'[page.row][l] # "none"}
    BY <1>1 DEF RowShown
  <2>2. /\ page.row \in RunIds
        /\ \/ result[page.row] = "pruned"
           \/ /\ result[page.row] = page.verdict
              /\ ToGo =< 1 => page.steps = steps[page.row]
              /\ ToGo = 0 => page.evidence = {l \in Levels : steps[page.row][l] # "none"}
    BY <2>1 DEF PageInv, RowShown
  <2>3. CASE result[page.row] = "pruned"
    BY <1>2, <2>2, <2>3
  <2>4. CASE result[page.row] = page.verdict
    <3>1. result'[page.row] \in {page.verdict, "pruned"}
      BY <1>3, <2>1, <2>2, <2>4 DEF Verdicts
    <3>2. steps'[page.row] = steps[page.row] \/ result'[page.row] = "pruned"
      BY <1>4, <2>1, <2>2, <2>4
    <3>3. result[page.row] # "pruned"
      BY <2>1, <2>4
    <3> QED
      BY <2>2, <3>1, <3>2, <3>3
  <2> QED
    BY <2>2, <2>3, <2>4
<1>7. ProofShown'
  <2>1. HeadlineRead' <=> HeadlineRead
    BY <1>1 DEF HeadlineRead
  <2>2. ASSUME page.kind \in {"drill", "report", "scrape"}
        PROVE  page.listed \in [Levels -> Nat] /\ \A l \in Levels : page.listed[l] =< proof'[l]
    <3>1. page.listed \in [Levels -> Nat] /\ \A l \in Levels : page.listed[l] =< proof[l]
      BY <2>2 DEF PageInv, ProofShown
    <3> QED
      BY <1>5, <3>1
  <2> QED
    BY <2>1, <2>2 DEF PageInv, ProofShown
<1>8. ScrapeShown'
  <2>1. SUFFICES ASSUME page.kind = "scrape", ~ page.failed, \A i \in RunIds : result'[i] # "pruned"
                 PROVE  ScrapeShown'
    BY DEF ScrapeShown
  <2>2. \A i \in RunIds : result[i] # "pruned"
    BY <1>2, <2>1
  <2>3. \A i \in RunIds : result[i] = "pass" => result'[i] = "pass"
    BY <1>3, <2>1 DEF Verdicts
  <2> QED
    BY <1>1, <2>1, <2>2, <2>3 DEF PageInv, ScrapeShown
<1> QED
  BY <1>1, <1>6, <1>7, <1>8 DEF PageInv

\* The part of a page about the row.
LEMMA RowPage ==
  ASSUME RunInv, DOMAIN page = Fields, PageInv,
         ListRuns \/ GetRun \/ ListSteps \/ ListEvidence
  PROVE  PageInv'
<1>f. Fields = {"kind", "todo", "now", "row", "verdict", "steps", "evidence", "listed", "headline",
                "passing", "failed"}
  BY DEF Fields, NoPage
<1>t. page.todo # <<>> /\ TodoKept
  BY DEF ListRuns, GetRun, ListSteps, ListEvidence, Reading, PageInv
<1>n. page.kind # "none"
  BY <1>t DEF TodoKept
<1>1. ASSUME NEW shown, Show(shown), DOMAIN shown = Fields, shown.kind = page.kind,
             shown.listed = page.listed, shown.headline = page.headline,
             shown.failed = page.failed, page.kind # "scrape", page.kind = "drill" => ToGo > 1,
             (RowShown /\ page.kind \in {"run", "report"} /\ shown.verdict \in {"pass", "fail"} =>
                /\ shown.row \in RunIds
                /\ \/ result[shown.row] = "pruned"
                   \/ /\ result[shown.row] = shown.verdict
                      /\ ToGo =< 2 => shown.steps = steps[shown.row]
                      /\ ToGo = 1 => shown.evidence = {l \in Levels : steps[shown.row][l] # "none"})
      PROVE  PageInv'
  <2>1. /\ UNCHANGED vars /\ TodoKept' /\ ToGo' = ToGo - 1 /\ ToGo \in 1..5
        /\ page'.kind = page.kind /\ page'.row = shown.row /\ page'.verdict = shown.verdict
        /\ page'.steps = shown.steps /\ page'.evidence = shown.evidence
        /\ page'.listed = page.listed /\ page'.headline = page.headline
        /\ page'.failed = page.failed
    BY <1>1, <1>t, Shows
  <2>2. UNCHANGED <<result, steps, proof>>
    BY <2>1 DEF vars, db
  <2>3. RowShown'
    BY <1>1, <2>1, <2>2 DEF RowShown, PageInv
  <2>4. ProofShown'
    BY <1>1, <2>1, <2>2 DEF ProofShown, HeadlineRead, PageInv
  <2>5. ScrapeShown'
    BY <1>1, <2>1 DEF ScrapeShown
  <2> QED
    BY <2>1, <2>3, <2>4, <2>5 DEF PageInv
<1>2. CASE ListRuns
  <2>1. page.kind \in {"drill", "report"} /\ ToGo = 3
    BY <1>2, <1>t, <1>n, Turns DEF ListRuns, Reading
  <2> DEFINE i == Newest(Rows)
  <2>2. CASE Show(page)
    BY <1>1, <2>1, <2>2 DEF RowShown
  <2>3. CASE i # 0 /\ Show([page EXCEPT !.row = i, !.verdict = result[i]])
    <3> DEFINE shown == [page EXCEPT !.row = i, !.verdict = result[i]]
    <3>1. i \in RunIds
      <4>1. Rows \in SUBSET RunIds
        BY DEF Rows
      <4> QED
        BY <2>3, <4>1, NewestIsNewest
    <3>2. /\ DOMAIN shown = Fields /\ shown.kind = page.kind /\ shown.listed = page.listed
          /\ shown.headline = page.headline /\ shown.failed = page.failed
          /\ shown.row = i /\ shown.verdict = result[i]
      BY <1>f
    <3>3. Show(shown)
      BY <2>3
    <3> HIDE DEF shown, i
    <3> QED
      BY <1>1, <2>1, <3>1, <3>2, <3>3
  <2> QED
    BY <1>2, <2>2, <2>3 DEF ListRuns
<1>3. CASE GetRun
  <2>1. page.kind = "run" /\ ToGo = 3
    BY <1>3, <1>t, <1>n, Turns DEF GetRun, Reading
  <2>2. PICK i \in Rows : Show([page EXCEPT !.row = i, !.verdict = result[i]])
    BY <1>3 DEF GetRun
  <2> DEFINE shown == [page EXCEPT !.row = i, !.verdict = result[i]]
  <2>3. i \in RunIds
    BY DEF Rows
  <2>4. /\ DOMAIN shown = Fields /\ shown.kind = page.kind /\ shown.listed = page.listed
        /\ shown.headline = page.headline /\ shown.failed = page.failed
        /\ shown.row = i /\ shown.verdict = result[i]
    BY <1>f
  <2>5. Show(shown)
    BY <2>2
  <2> HIDE DEF shown
  <2> QED
    BY <1>1, <2>1, <2>3, <2>4, <2>5
<1>4. CASE ListSteps
  <2>1. page.kind \in {"run", "report"} /\ ToGo = 2
    BY <1>4, <1>t, <1>n, Turns DEF ListSteps, Reading
  <2>2. CASE page.row = 0
    <3>1. page.row \notin RunIds
      BY <2>2, RunAssumption DEF RunIds
    <3>2. Show(page)
      BY <1>4, <2>2 DEF ListSteps
    <3> QED
      BY <1>1, <2>1, <3>1, <3>2 DEF RowShown
  <2>3. CASE page.row # 0
    <3> DEFINE shown == [page EXCEPT !.steps = steps[page.row]]
    <3>1. Show(shown)
      BY <1>4, <2>3 DEF ListSteps
    <3>2. /\ DOMAIN shown = Fields /\ shown.kind = page.kind /\ shown.listed = page.listed
          /\ shown.headline = page.headline /\ shown.failed = page.failed
          /\ shown.row = page.row /\ shown.verdict = page.verdict
          /\ shown.steps = steps[page.row]
      BY <1>f
    <3> HIDE DEF shown
    <3> QED
      BY <1>1, <2>1, <3>1, <3>2 DEF RowShown
  <2> QED
    BY <2>2, <2>3
<1>5. CASE ListEvidence
  <2>1. page.kind \in {"run", "report"} /\ ToGo = 1
    BY <1>5, <1>t, <1>n, Turns DEF ListEvidence, Reading
  <2>2. CASE page.row = 0
    <3>1. page.row \notin RunIds
      BY <2>2, RunAssumption DEF RunIds
    <3>2. Show(page)
      BY <1>5, <2>2 DEF ListEvidence
    <3> QED
      BY <1>1, <2>1, <3>1, <3>2 DEF RowShown
  <2>3. CASE page.row # 0
    <3> DEFINE there == {l \in Levels : steps[page.row][l] # "none"}
               shown == [page EXCEPT !.evidence = there]
    <3>1. Show(shown)
      BY <1>5, <2>3 DEF ListEvidence
    <3> HIDE DEF there
    <3>2. /\ DOMAIN shown = Fields /\ shown.kind = page.kind /\ shown.listed = page.listed
          /\ shown.headline = page.headline /\ shown.failed = page.failed
          /\ shown.row = page.row /\ shown.verdict = page.verdict
          /\ shown.steps = page.steps /\ shown.evidence = there
      BY <1>f
    <3> HIDE DEF shown
    <3> QED
      BY <1>1, <2>1, <3>1, <3>2 DEF RowShown, there
  <2> QED
    BY <2>2, <2>3
<1> QED
  BY <1>2, <1>3, <1>4, <1>5

\* The part of a page about the proofs and, in a scrape, the runs behind them.
LEMMA ProofPage ==
  ASSUME RunInv, PassedRows, DOMAIN page = Fields, PageInv, page.headline \in Nat,
         ListProofs \/ GetProof \/ LatestPassingRun \/ LatestFinishedRun \/ SampleOmitted
  PROVE  PageInv'
<1>f. Fields = {"kind", "todo", "now", "row", "verdict", "steps", "evidence", "listed", "headline",
                "passing", "failed"}
  BY DEF Fields, NoPage
<1>t. page.todo # <<>> /\ TodoKept
  BY DEF ListProofs, GetProof, LatestPassingRun, LatestFinishedRun, SampleOmitted, Reading, PageInv
<1>n. page.kind # "none"
  BY <1>t DEF TodoKept
<1>p. proof \in [Levels -> Nat] /\ HeadlineLevel \in Levels
  BY HeadlineIsLevel DEF RunInv, TypeOK
<1>1. CASE ListProofs
  <2>1. <<page.kind, ToGo>> \in {<<"drill", 2>>, <<"report", 4>>, <<"scrape", 5>>}
    BY <1>1, <1>t, <1>n, Turns DEF ListProofs, Reading
  <2> DEFINE head == IF page.kind = "report" THEN proof[HeadlineLevel] ELSE page.headline
             shown == [page EXCEPT !.listed = proof, !.headline = head]
  <2>2. Show(shown)
    BY <1>1, <1>f DEF ListProofs
  <2>3. /\ DOMAIN shown = Fields /\ shown.kind = page.kind /\ shown.listed = proof
        /\ shown.headline = head /\ shown.failed = page.failed
        /\ shown.row = page.row /\ shown.verdict = page.verdict
    BY <1>f
  <2> HIDE DEF shown
  <2>4. /\ UNCHANGED vars /\ TodoKept' /\ ToGo' = ToGo - 1
        /\ page'.kind = page.kind /\ page'.row = page.row /\ page'.verdict = page.verdict
        /\ page'.listed = proof /\ page'.headline = head /\ page'.failed = page.failed
    BY <1>t, <2>2, <2>3, Shows
  <2>5. UNCHANGED <<result, steps, proof>>
    BY <2>4 DEF vars, db
  <2>6. RowShown'
    BY <2>1, <2>4, <2>5 DEF RowShown, PageInv
  <2>7. ProofShown'
    <3>1. \A l \in Levels : proof[l] =< proof[l]
      BY <1>p
    <3>2. HeadlineRead' => page.kind = "report"
      BY <2>1, <2>4 DEF HeadlineRead
    <3>3. HeadlineRead' => proof[HeadlineLevel] =< head
      BY <1>p, <3>2
    <3> QED
      BY <1>p, <2>4, <2>5, <3>1, <3>3 DEF ProofShown
  <2>8. ScrapeShown'
    BY <2>1, <2>4 DEF ScrapeShown
  <2> QED
    BY <2>4, <2>6, <2>7, <2>8 DEF PageInv
<1>2. CASE GetProof
  <2>1. <<page.kind, ToGo>> \in {<<"drill", 1>>, <<"scrape", 4>>}
    BY <1>2, <1>t, <1>n, Turns DEF GetProof, Reading
  <2> DEFINE shown == [page EXCEPT !.headline = proof[HeadlineLevel]]
  <2>2. Show(shown)
    BY <1>2 DEF GetProof
  <2>3. /\ DOMAIN shown = Fields /\ shown.kind = page.kind /\ shown.listed = page.listed
        /\ shown.headline = proof[HeadlineLevel] /\ shown.failed = page.failed
    BY <1>f
  <2> HIDE DEF shown
  <2>4. /\ UNCHANGED vars /\ TodoKept' /\ ToGo' = ToGo - 1
        /\ page'.kind = page.kind /\ page'.listed = page.listed
        /\ page'.headline = proof[HeadlineLevel] /\ page'.failed = page.failed
    BY <1>t, <2>2, <2>3, Shows
  <2>5. UNCHANGED <<result, steps, proof>>
    BY <2>4 DEF vars, db
  <2>6. RowShown'
    BY <2>1, <2>4 DEF RowShown
  <2>7. ProofShown'
    <3>1. page.listed \in [Levels -> Nat] /\ \A l \in Levels : page.listed[l] =< proof[l]
      BY <2>1 DEF ProofShown, PageInv
    <3> QED
      BY <1>p, <2>4, <2>5, <3>1 DEF ProofShown
  <2>8. ScrapeShown'
    BY <2>1, <2>4 DEF ScrapeShown
  <2> QED
    BY <2>4, <2>6, <2>7, <2>8 DEF PageInv
<1>3. CASE LatestPassingRun
  <2>1. page.kind = "scrape" /\ ToGo = 3
    BY <1>3, <1>t, <1>n, Turns DEF LatestPassingRun, Reading
  <2> DEFINE passed == {i \in RunIds : result[i] = "pass"}
             shown == [page EXCEPT !.passing = Newest(passed)]
  <2>2. Show(shown)
    BY <1>3 DEF LatestPassingRun
  <2> HIDE DEF passed
  <2>3. /\ DOMAIN shown = Fields /\ shown.kind = page.kind /\ shown.listed = page.listed
        /\ shown.headline = page.headline /\ shown.failed = page.failed
        /\ shown.passing = Newest(passed)
    BY <1>f
  <2> HIDE DEF shown
  <2>4. /\ UNCHANGED vars /\ TodoKept' /\ ToGo' = ToGo - 1
        /\ page'.kind = page.kind /\ page'.listed = page.listed
        /\ page'.headline = page.headline /\ page'.failed = page.failed
        /\ page'.passing = Newest(passed)
    BY <1>t, <2>2, <2>3, Shows
  <2>5. UNCHANGED <<result, steps, proof>>
    BY <2>4 DEF vars, db
  <2>6. RowShown'
    BY <2>1, <2>4 DEF RowShown
  <2>7. page.listed \in [Levels -> Nat] /\ \A l \in Levels : page.listed[l] =< proof[l]
    BY <2>1 DEF ProofShown, PageInv
  <2>8. ProofShown'
    BY <2>1, <2>4, <2>5, <2>7 DEF ProofShown, PageInv, HeadlineRead
  <2>9. passed \in SUBSET RunIds /\ \A i \in passed : i # 0
    BY RunAssumption DEF passed, RunIds
  <2>10. Newest(passed) # 0 => Newest(passed) \in RunIds /\ result[Newest(passed)] = "pass"
    <3>1. Newest(passed) # 0 => Newest(passed) \in passed
      BY <2>9, NewestIsNewest
    <3> QED
      BY <3>1 DEF passed
  <2>11. ASSUME \A i \in RunIds : result[i] # "pruned", NEW l \in Levels, page.listed[l] > 0
         PROVE  Newest(passed) # 0
    <3>1. proof[l] > 0
      BY <1>p, <2>7, <2>11
    <3>2. PICK v \in Passes : l \in v.passed
      BY <3>1 DEF RunInv, ProofBacked, Passes
    <3>3. v.run \in passed
      BY <2>11, <3>2 DEF PassedRows, passed
    <3> QED
      BY <2>9, <3>3, NewestIsNewest
  <2>12. ScrapeShown'
    BY <2>1, <2>4, <2>5, <2>10, <2>11 DEF ScrapeShown
  <2> QED
    BY <2>4, <2>6, <2>8, <2>12 DEF PageInv
<1>4. CASE LatestFinishedRun
  <2>1. page.kind = "scrape" /\ ToGo = 2
    BY <1>4, <1>t, <1>n, Turns DEF LatestFinishedRun, Reading
  <2> DEFINE done == {i \in RunIds : result[i] \in Verdicts}
             shown == [page EXCEPT !.row = Newest(done)]
  <2>2. Show(shown)
    BY <1>4 DEF LatestFinishedRun
  <2> HIDE DEF done
  <2>3. /\ DOMAIN shown = Fields /\ shown.kind = page.kind /\ shown.listed = page.listed
        /\ shown.headline = page.headline /\ shown.failed = page.failed
        /\ shown.passing = page.passing /\ shown.row = Newest(done)
    BY <1>f
  <2> HIDE DEF shown
  <2>4. /\ UNCHANGED vars /\ TodoKept' /\ ToGo' = ToGo - 1
        /\ page'.kind = page.kind /\ page'.listed = page.listed
        /\ page'.headline = page.headline /\ page'.failed = page.failed
        /\ page'.passing = page.passing /\ page'.row = Newest(done)
    BY <1>t, <2>2, <2>3, Shows
  <2>5. UNCHANGED <<result, steps, proof>>
    BY <2>4 DEF vars, db
  <2>6. RowShown'
    BY <2>1, <2>4 DEF RowShown
  <2>7. ProofShown'
    BY <2>1, <2>4, <2>5 DEF ProofShown, PageInv, HeadlineRead
  <2>8. done \in SUBSET RunIds
    BY DEF done
  <2>9. Newest(done) \in Nat
    <3>1. \A i \in done : i \in Nat
      BY <2>8, RunAssumption DEF RunIds
    <3>2. CASE done = {}
      BY <3>2, NewestIsNewest
    <3>3. CASE done # {}
      <4>1. Newest(done) \in done
        BY <2>8, <3>3, NewestIsNewest
      <4> QED
        BY <3>1, <4>1
    <3> QED
      BY <3>2, <3>3
  <2>10. page.passing \in RunIds /\ result[page.passing] = "pass" => page.passing =< Newest(done)
    <3>1. page.passing \in RunIds /\ result[page.passing] = "pass" => page.passing \in done
      BY DEF done, Verdicts
    <3> QED
      BY <2>8, <3>1, NewestIsNewest
  <2>11. page.passing = 0 => page.passing =< Newest(done)
    BY <2>9
  <2>12. ScrapeShown'
    <3>1. SUFFICES ASSUME ~ page.failed, \A i \in RunIds : result[i] # "pruned"
                   PROVE  ScrapeShown'
      BY <2>4, <2>5 DEF ScrapeShown
    <3>2. /\ page.passing # 0 => page.passing \in RunIds /\ result[page.passing] = "pass"
          /\ (\E l \in Levels : page.listed[l] > 0) => page.passing # 0
      BY <2>1, <3>1 DEF ScrapeShown, PageInv
    <3> QED
      BY <2>1, <2>4, <2>5, <2>9, <2>10, <2>11, <3>2 DEF ScrapeShown
  <2> QED
    BY <2>4, <2>6, <2>7, <2>12 DEF PageInv
<1>5. CASE SampleOmitted
  <2> DEFINE shown == [page EXCEPT !.failed = TRUE]
  <2>1. page.kind = "scrape" /\ Show(shown)
    BY <1>5 DEF SampleOmitted
  <2>2. /\ DOMAIN shown = Fields /\ shown.kind = page.kind /\ shown.listed = page.listed
        /\ shown.failed = TRUE
    BY <1>f
  <2> HIDE DEF shown
  <2>3. /\ UNCHANGED vars /\ TodoKept' /\ page'.kind = page.kind /\ page'.listed = page.listed
        /\ page'.failed = TRUE
    BY <1>t, <2>1, <2>2, Shows
  <2>4. UNCHANGED proof
    BY <2>3 DEF vars, db
  <2>5. RowShown' /\ ScrapeShown'
    BY <2>1, <2>3 DEF RowShown, ScrapeShown
  <2>6. ProofShown'
    BY <2>1, <2>3, <2>4 DEF ProofShown, PageInv
  <2> QED
    BY <2>3, <2>5, <2>6 DEF PageInv
<1> QED
  BY <1>1, <1>2, <1>3, <1>4, <1>5

\* The beginning and the end of a page, and the scrape's last statement.
LEMMA EdgePage ==
  ASSUME RunInv, DOMAIN page = Fields, PageInv,
         Request \/ Refused \/ Written \/ BytesRestoredTotal
  PROVE  PageInv'
<1>f. Fields = {"kind", "todo", "now", "row", "verdict", "steps", "evidence", "listed", "headline",
                "passing", "failed"}
  BY DEF Fields, NoPage
<1>p. proof \in [Levels -> Nat] /\ HeadlineLevel \in Levels
  BY HeadlineIsLevel DEF RunInv, TypeOK
<1>1. CASE Refused \/ Written
  <2>1. page'.kind = "none" /\ page'.todo = <<>>
    BY <1>1 DEF Refused, Written, NoPage
  <2> QED
    BY <2>1 DEF PageInv, TodoKept, RowShown, ProofShown, ScrapeShown
<1>2. CASE Request
  <2>1. PICK k \in Kinds : \E t \in {0, clock} :
          page' = [NoPage EXCEPT !.kind = k, !.todo = Statements[k], !.now = t]
    BY <1>2 DEF Request
  <2>2. /\ page'.kind = k /\ page'.todo = Statements[k] /\ page'.verdict = "none"
        /\ page'.listed = NoProofs /\ page'.headline = 0
    BY <2>1 DEF NoPage
  <2>3. k \in {"drill", "report", "run", "scrape"}
    BY DEF Kinds, Statements
  <2>4. TodoKept'
    BY <2>2, <2>3 DEF TodoKept, Statements, DrillRest, ReportRest, RunRest, ScrapeRest
  <2>5. UNCHANGED proof
    BY <1>2 DEF Request, vars, db
  <2>6. RowShown'
    BY <2>2 DEF RowShown
  <2>7. ProofShown'
    BY <1>p, <2>2, <2>5 DEF ProofShown, NoProofs
  <2>8. k = "scrape" => ToGo' = 5
    BY <2>2 DEF ToGo, Statements, ScrapePage
  <2>9. ScrapeShown'
    BY <2>2, <2>8 DEF ScrapeShown
  <2> QED
    BY <2>4, <2>6, <2>7, <2>9 DEF PageInv
<1>3. CASE BytesRestoredTotal
  <2>1. page' = [page EXCEPT !.todo = Tail(page.todo)] /\ UNCHANGED vars /\ page.todo # <<>>
    BY <1>3 DEF BytesRestoredTotal, Reading
  <2>2. page.kind # "none"
    BY <2>1 DEF PageInv, TodoKept
  <2>3. page.kind = "scrape" /\ ToGo = 1 /\ Len(Tail(page.todo)) = 0 /\ Tail(page.todo) \in ScrapeRest
    <3>1. Head(page.todo) = "BytesRestoredTotal" /\ TodoKept
      BY <1>3 DEF BytesRestoredTotal, Reading, PageInv
    <3>2. page.kind = "scrape" /\ ToGo = 1
      BY <2>1, <2>2, <3>1, Turns
    <3>3. Len(Tail(page.todo)) = ToGo - 1 /\ (page.kind = "scrape" => Tail(page.todo) \in ScrapeRest)
      BY <2>1, <2>2, <3>1, Turns
    <3> QED
      BY <3>2, <3>3
  <2>4. /\ page'.kind = page.kind /\ page'.row = page.row /\ page'.listed = page.listed
        /\ page'.headline = page.headline /\ page'.passing = page.passing
        /\ page'.failed = page.failed /\ page'.todo = Tail(page.todo)
    BY <1>f, <2>1
  <2>5. UNCHANGED <<result, proof>> /\ ToGo' = 0
    BY <2>1, <2>3, <2>4 DEF vars, db, ToGo
  <2>6. TodoKept' /\ RowShown'
    BY <2>3, <2>4 DEF TodoKept, RowShown
  <2>7. ProofShown'
    BY <2>3, <2>4, <2>5 DEF ProofShown, PageInv, HeadlineRead
  <2>8. ScrapeShown'
    BY <2>3, <2>4, <2>5 DEF ScrapeShown, PageInv
  <2> QED
    BY <2>6, <2>7, <2>8 DEF PageInv
<1> QED
  BY <1>1, <1>2, <1>3

\* The invariant of the pages.
LEMMA PageInvariant == ViewSpec => [](ViewInv /\ PassedRows /\ PageInv)
<1>1. ViewInit => PassedRows /\ PageInv
  <2>1. ViewInit => page.kind = "none" /\ page.todo = <<>> /\ Passes = {}
    BY DEF ViewInit, NoPage, Init, Passes
  <2> QED
    BY <2>1 DEF PassedRows, PageInv, TodoKept, RowShown, ProofShown, ScrapeShown
<1>2. ASSUME ViewInv, PassedRows, PageInv, [ViewNext]_viewVars
      PROVE  PassedRows' /\ PageInv'
  <2>1. [Next]_vars
    BY <1>2, ReadersOnlyRead DEF viewVars
  <2>2. RunInv /\ DOMAIN page = Fields /\ page.headline \in Nat
    BY <1>2 DEF ViewInv, HeadlineBacked
  <2>3. PassedRows'
    BY <1>2, <2>1, <2>2, PassedRowsStep
  <2>p. PassedRows /\ PageInv
    BY <1>2
  <2>4. CASE UNCHANGED page
    BY <2>p, <2>1, <2>2, <2>4, <2>3, StorePage, Zenon
  <2>5. CASE Read
    <3>1. CASE ListRuns \/ GetRun \/ ListSteps \/ ListEvidence
      BY <2>p, <2>2, <3>1, <2>3, RowPage, Zenon
    <3>2. CASE ListProofs \/ GetProof \/ LatestPassingRun \/ LatestFinishedRun \/ SampleOmitted
      BY <2>p, <2>2, <3>2, <2>3, ProofPage, Zenon
    <3>3. CASE Request \/ Refused \/ Written \/ BytesRestoredTotal
      BY <2>p, <2>2, <3>3, <2>3, EdgePage, Zenon
    <3> QED
      BY <2>5, <3>1, <3>2, <3>3, Zenon DEF Read
  <2> QED
    BY <1>2, <2>3, <2>4, <2>5 DEF ViewNext, viewVars
<1> QED
  BY <1>1, <1>2, ViewInitInv, ViewStepInv, PTL DEF ViewSpec

\* The run page and the report: a row that is read, then its steps, then its
\* evidence, show one run or one that retention took meanwhile.
THEOREM ShownVerdictIsBacked == ViewSpec => []ShownVerdictHasSteps
<1>1. ASSUME ViewInv, PageInv PROVE ShownVerdictHasSteps
  <2>1. SUFFICES ASSUME Shown, page.kind \in {"run", "report"}, page.verdict \in {"pass", "fail"},
                        result[page.row] # "pruned"
                 PROVE  /\ aggregateRun(page.steps) = page.verdict
                        /\ \A l \in Levels : page.steps[l] # "none" => l \in page.evidence
    BY DEF ShownVerdictHasSteps
  <2>2. ToGo = 0
    BY <2>1 DEF Shown, ToGo
  <2>3. /\ page.row \in RunIds /\ result[page.row] = page.verdict /\ page.steps = steps[page.row]
        /\ page.evidence = {l \in Levels : steps[page.row][l] # "none"}
    BY <1>1, <2>1, <2>2 DEF PageInv, RowShown
  <2>4. aggregateRun(steps[page.row]) = result[page.row]
    BY <1>1, <2>1, <2>3 DEF ViewInv, RunInv, VerdictMatchesSteps
  <2> QED
    BY <2>3, <2>4
<1> QED
  BY <1>1, PageInvariant, PTL

\* The drill list, the report and the scrape do not contradict themselves,
\* whatever the runs do between two of their statements.
THEOREM PagesAgree == ViewSpec => []PageAgrees
<1>1. ASSUME ViewInv, PageInv PROVE PageAgrees
  <2>1. ASSUME Shown, page.kind # "run", ~ page.failed, ~ Stale(page.listed[HeadlineLevel], page.now)
        PROVE  ~ Stale(page.headline, page.now)
    <3>1. page.kind \in {"drill", "report", "scrape"} /\ ToGo = 0
      BY <1>1, <2>1 DEF Shown, ToGo, PageInv, TodoKept
    <3>2. page.listed[HeadlineLevel] \in Nat /\ page.listed[HeadlineLevel] =< page.headline
      BY <1>1, <2>1, <3>1, HeadlineIsLevel DEF PageInv, ProofShown, HeadlineRead
    <3>3. page.headline \in Nat /\ page.now \in Nat /\ MaxProofAge \in Nat
      BY <1>1, ViewAssumption DEF ViewInv, HeadlineBacked
    <3> QED
      BY <2>1, <3>2, <3>3 DEF Stale
  <2>2. ASSUME Shown, page.kind = "scrape", ~ page.failed, \A i \in RunIds : result[i] # "pruned"
        PROVE  /\ (\E l \in Levels : page.listed[l] > 0) => page.passing > 0
               /\ page.passing =< page.row
    <3>1. ToGo = 0
      BY <2>2 DEF Shown, ToGo
    <3>2. /\ page.passing # 0 => page.passing \in RunIds
          /\ (\E l \in Levels : page.listed[l] > 0) => page.passing # 0
          /\ page.passing =< page.row
      BY <1>1, <2>2, <3>1 DEF PageInv, ScrapeShown
    <3>3. \A i \in RunIds : i > 0
      BY RunAssumption DEF RunIds
    <3> QED
      BY <3>2, <3>3
  <2> QED
    BY <2>1, <2>2 DEF PageAgrees
<1> QED
  BY <1>1, PageInvariant, PTL
=============================================================================
