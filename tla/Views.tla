------------------------------- MODULE Views --------------------------------
(***************************************************************************)
(* What people and monitors are shown of a drill while its runs go on: the *)
(* drill list of the API and of `redrill status`, the run page, the report *)
(* and the metrics scrape.  None of them reads in a transaction: a page is *)
(* put together from several statements, and between two of them a run may *)
(* finish, prove, or be pruned (server/api.go, server/metrics.go,          *)
(* report/report.go, cmd/redrill/status.go over internal/store).           *)
(*                                                                         *)
(* A reader writes nothing, so one reader at a time stands for any number. *)
(* `redrill history` and the run list are one statement, and show what the *)
(* table held.  A run's artifacts are read last and there are never any.   *)
(***************************************************************************)
EXTENDS RunLifecycle, Sequences

CONSTANTS MaxProofAge   \* max_proof_age, 0 when there is no SLA

ASSUME ViewAssumption ==
  /\ MaxProofAge \in Nat
  /\ \E l \in Levels : \A k \in Levels : k =< l

VARIABLES page,      \* the page being put together
          exported   \* the bytes counter the last scrape showed

viewVars == <<vars, page, exported>>

\* Mutation: the headline proof is read before the list.
DrillPageHeadlineFirst == <<"ListRuns", "GetProof", "ListProofs">>

\* The statements of a page, in the order of the code.  A drill's line in the
\* API's list and in `redrill status`:
DrillPage == <<"ListRuns", "ListProofs", "GetProof">>

\* A drill's section of the report, with its newest run:
ReportPage == <<"ListProofs", "ListRuns", "ListSteps", "ListEvidence">>

\* The page of one run:
RunPage == <<"GetRun", "ListSteps", "ListEvidence">>

\* A drill's samples in a scrape of the metrics:
ScrapePage ==
  <<"ListProofs", "GetProof", "LatestPassingRun", "LatestFinishedRun", "BytesRestoredTotal">>

Statements ==
  [drill |-> DrillPage, report |-> ReportPage, run |-> RunPage, scrape |-> ScrapePage]

Kinds    == DOMAIN Statements
NoProofs == [l \in Levels |-> 0]

\* row is 0 without a run; listed and headline are 0 without a proof.
NoPage ==
  [kind |-> "none", todo |-> <<>>, now |-> 0, row |-> 0, verdict |-> "none",
   steps |-> NoSteps, evidence |-> {}, listed |-> NoProofs, headline |-> 0,
   passing |-> 0, failed |-> FALSE]

ViewInit == Init /\ page = NoPage /\ exported = 0

-----------------------------------------------------------------------------
HeadlineLevel == CHOOSE l \in Levels : \A k \in Levels : k =< l

\* Mutation: a drill that was never proven is not stale.
StaleOnceProven(proven, now) == MaxProofAge > 0 /\ proven > 0 /\ now - proven > MaxProofAge

\* A never-proven drill is stale; without a max_proof_age nothing is.
Stale(proven, now) == MaxProofAge > 0 /\ (proven = 0 \/ now - proven > MaxProofAge)

Newest(rows) == IF rows = {} THEN 0 ELSE CHOOSE i \in rows : \A j \in rows : j =< i

Rows == {i \in RunIds : Exists(i)}

Reading(statement) == page.todo # <<>> /\ Head(page.todo) = statement

\* One statement answered: the page now shows what it returned.
Show(shown) ==
  /\ page' = [shown EXCEPT !.todo = Tail(page.todo)]
  /\ UNCHANGED <<vars, exported>>

\* The request comes in; every page but the run's reads the clock first.
Request ==
  /\ page.kind = "none"
  /\ \E k \in Kinds :
       page' = [NoPage EXCEPT !.kind = k, !.todo = Statements[k],
                              !.now = IF k = "run" THEN 0 ELSE clock]
  /\ UNCHANGED <<vars, exported>>

\* The newest row; the drill list shows it beside the proofs and reads nothing
\* by it.
ListRuns ==
  /\ Reading("ListRuns")
  /\ LET i == Newest(Rows) IN
       Show(IF i = 0 \/ page.kind = "drill" THEN page
            ELSE [page EXCEPT !.row = i, !.verdict = result[i]])

\* Of the run asked for.
GetRun ==
  /\ Reading("GetRun")
  /\ \E i \in Rows : Show([page EXCEPT !.row = i, !.verdict = result[i]])

\* Mutation: the steps of the newest run, whichever it is by now.
ListStepsOfNewest ==
  /\ Reading("ListSteps")
  /\ Show(IF Rows = {} THEN page ELSE [page EXCEPT !.steps = steps[Newest(Rows)]])

\* By the id of the row read before; that row may have been pruned since.
ListSteps ==
  /\ Reading("ListSteps")
  /\ Show(IF page.row = 0 THEN page ELSE [page EXCEPT !.steps = steps[page.row]])

\* The levels whose evidence rows are there: they are written before the
\* level's step row, and deleted with the run's row.
ListEvidence ==
  /\ Reading("ListEvidence")
  /\ Show(IF page.row = 0 THEN page
          ELSE [page EXCEPT !.evidence = {l \in Levels : steps[page.row][l] # "none"}])

\* The report judges the SLA by the list.
ListProofs ==
  /\ Reading("ListProofs")
  /\ Show([page EXCEPT !.listed = proof,
                       !.headline = IF page.kind = "report" THEN proof[HeadlineLevel] ELSE @])

\* The other pages read the headline level's proof once more.
GetProof ==
  /\ Reading("GetProof")
  /\ Show([page EXCEPT !.headline = proof[HeadlineLevel]])

LatestPassingRun ==
  /\ Reading("LatestPassingRun")
  /\ Show([page EXCEPT !.passing = Newest({i \in RunIds : result[i] = "pass"})])

LatestFinishedRun ==
  /\ Reading("LatestFinishedRun")
  /\ Show([page EXCEPT !.row = Newest({i \in RunIds : result[i] \in Verdicts})])

\* Mutation: the counter is summed over the rows of the run table.
SumOverRuns ==
  /\ Reading("BytesRestoredTotal")
  /\ exported' = LET sum[i \in 0..MaxRuns] == IF i = 0 THEN 0 ELSE sum[i - 1] + files[i]
                 IN  sum[MaxRuns]
  /\ page' = [page EXCEPT !.todo = Tail(@)]
  /\ UNCHANGED vars

\* The row of drill_counters, which retention leaves alone.
BytesRestoredTotal ==
  /\ Reading("BytesRestoredTotal")
  /\ exported' = counter
  /\ page' = [page EXCEPT !.todo = Tail(@)]
  /\ UNCHANGED vars

\* A statement fails.  A scrape goes on without the sample: a proof it could
\* not read counts as none.
SampleOmitted ==
  /\ page.kind = "scrape" /\ page.todo # <<>>
  /\ Show([page EXCEPT !.failed = TRUE])

\* The other pages are an error to whoever asked, as is the page of a run that
\* is not there.
Refused ==
  /\ page.kind # "scrape" /\ page.todo # <<>>
  /\ page' = NoPage
  /\ UNCHANGED <<vars, exported>>

\* The page is written out.
Written ==
  /\ page.kind # "none" /\ page.todo = <<>>
  /\ page' = NoPage
  /\ UNCHANGED <<vars, exported>>

Read ==
  \/ Request
  \/ ListRuns \/ GetRun \/ ListSteps \/ ListEvidence \/ ListProofs \/ GetProof
  \/ LatestPassingRun \/ LatestFinishedRun \/ BytesRestoredTotal
  \/ SampleOmitted \/ Refused \/ Written

ViewNext == Read \/ (Next /\ UNCHANGED <<page, exported>>)

ViewSpec == ViewInit /\ [][ViewNext]_viewVars
-----------------------------------------------------------------------------
Shown == page.kind # "none" /\ page.todo = <<>>

\* A page that shows a verdict with its steps shows a run whose recorded steps
\* fold to that verdict, with the evidence of each, though row, steps and
\* evidence are read one after the other while the run may still be going on:
\* the steps can be missing only because the run was pruned in between.
ShownVerdictHasSteps ==
  Shown /\ page.kind \in {"run", "report"} /\ page.verdict \in {"pass", "fail"} =>
    \/ aggregateRun(page.steps) = page.verdict /\ \A l \in Levels :
         page.steps[l] # "none" => l \in page.evidence
    \/ result[page.row] = "pruned"

\* Nobody is told that a drill is within its SLA without a recorded pass of the
\* headline level that is no older than max_proof_age, whichever way
\* they ask and whatever statement of the page failed.
ShownFreshIsBacked ==
  Shown /\ page.kind # "run" /\ MaxProofAge > 0 /\ ~ Stale(page.headline, page.now) =>
    \E v \in Passes :
      HeadlineLevel \in v.passed /\ page.now - v.start =< MaxProofAge

\* A page does not contradict itself, though it reads the proofs twice and the
\* run table after them: if it lists a headline proof within the SLA it does
\* not call the drill stale, and a scrape that shows a proof shows the run
\* behind the RTO and a last run no older than that.  Only a statement of the
\* scrape that failed, or retention, takes that away.
PageAgrees ==
  /\ Shown /\ page.kind # "run" /\ ~ page.failed /\ ~ Stale(page.listed[HeadlineLevel], page.now)
     => ~ Stale(page.headline, page.now)
  /\ Shown /\ page.kind = "scrape" /\ ~ page.failed /\ (\A i \in RunIds : result[i] # "pruned")
     => /\ (\E l \in Levels : page.listed[l] > 0) => page.passing > 0
        /\ page.passing =< page.row

\* "a Prometheus counter must never regress" (server/metrics.go): from scrape
\* to scrape, over retention and restarts.
CounterNeverRegresses == [][exported' >= exported]_viewVars
=============================================================================
