--------------------------- MODULE EvaluationRun ---------------------------
(***************************************************************************)
(* The baseline evaluation: scripts/run_agent_eval_live.py around          *)
(* run_evaluation.  Results and progress go to the database of a           *)
(* disposable stack, a transaction per case.  The script keeps the stack   *)
(* and a resume file when the provider's quota stops the run, and deletes  *)
(* both after any other ending, unless an error finds the directory of a   *)
(* recovery bundle, whole or not.                                          *)
(***************************************************************************)
EXTENDS AgentTurn, EvaluationCorpus, CaseScore

VARIABLES
    runner,      \* where the script stands
    known,       \* the results that run_evaluation holds in memory
    observed,    \* whether the case under way passed
    rows,        \* the rows of eval_results for this run
    row,         \* the row of eval_runs
    resume,      \* the resume file is there
    partial,     \* the recovery directory is there, and its results are not
    bundle,      \* the results exported to the recovery bundle
    baseline     \* the results that the published baseline rests on

evaluationVars ==
    <<runner, known, observed, rows, row, resume, partial, bundle, baseline>>

Result == [case : CaseIds, passed : BOOLEAN]
NoRow == [status |-> "none", done |-> 0, count |-> 0]
None == {}

EvaluationTypeOK ==
    /\ runner \in {"off", "ready", "waiting", "observed", "completed",
                  "exporting", "exported"}
    /\ known \subseteq Result /\ rows \subseteq Result
    /\ observed \in BOOLEAN
    /\ row \in [status : {"none", "running", "failed", "completed"},
                done : 0 .. CaseCount, count : 0 .. CaseCount]
    /\ resume \in BOOLEAN /\ partial \in BOOLEAN
    /\ bundle \subseteq Result /\ baseline \subseteq Result

EvaluationInit ==
    /\ runner = "off"
    /\ known = {} /\ rows = {} /\ bundle = None /\ baseline = None
    /\ observed = FALSE /\ resume = FALSE /\ partial = FALSE
    /\ row = NoRow

Cases(results) == {r.case : r \in results}
Remaining == CaseIds \ Cases(known)

\* aggregate_results: how many cases were scored and how many of them passed.
Summary(status, results) ==
    [status |-> status, done |-> Cardinality(results),
     count |-> Cardinality({r \in results : r.passed})]

\* interruption_summary: how many were scored and how many are left.
Interruption(results) ==
    [status |-> "failed", done |-> Cardinality(results),
     count |-> CaseCount - Cardinality(results)]

-----------------------------------------------------------------------------
\* A runner that trusts its memory, which a restart has emptied.
Loaded_Nothing(results) == {}

\* What a runner that finds the run in the database takes over from it.
Loaded(results) == results

\* Without a resume file a fresh stack is started, with an empty database.
StartBaseline ==
    /\ runner = "off" /\ baseline = None /\ bundle = None /\ ~partial
    /\ LET found == IF resume THEN rows ELSE {}
       IN  /\ rows' = found
           /\ row' = IF resume THEN row ELSE NoRow
           /\ known' = Loaded(found)
    /\ resume' = TRUE
    /\ runner' = "ready"
    /\ UNCHANGED <<agentVars, observed, partial, bundle, baseline>>

Ask ==
    /\ runner = "ready" /\ Remaining # {}
    /\ TurnOver /\ turn.id < MaxTurns
    /\ turn' = NewTurn(turn.id + 1, "retrieve")
    /\ runner' = "waiting"
    /\ UNCHANGED <<candidate, sidecars, known, observed, rows, row, resume, partial,
                   bundle, baseline>>

\* A turn that failed, or that outlived its client, is an empty observation.
Observe ==
    /\ runner = "waiting"
    /\ observed' \in IF turn.at = "completed" THEN VerdictsOf(turn.ran, turn.answer = "fallback")
                    ELSE {Scored(kind, Unobserved).passed : kind \in CaseKinds}
    /\ runner' = "observed"
    /\ UNCHANGED <<agentVars, known, rows, row, resume, partial, bundle, baseline>>

\* The result and the progress of the run are one transaction.
AddResult ==
    /\ runner = "observed"
    /\ LET results == known \cup {[case |-> NextCase(Cases(known)), passed |-> observed]}
       IN  /\ known' = results
           /\ rows' = rows \cup (results \ known)
           /\ row' = Summary("running", results)
    /\ runner' = "ready"
    /\ UNCHANGED <<agentVars, observed, resume, partial, bundle, baseline>>

CompleteRun ==
    /\ runner = "ready" /\ Remaining = {}
    /\ row' = Summary("completed", known)
    /\ runner' = "completed"
    /\ UNCHANGED <<agentVars, known, observed, rows, resume, partial, bundle, baseline>>

\* The recovery directory is made once the database has every result.
OpenBundle ==
    /\ runner = "completed"
    /\ row.status = "completed" /\ Cardinality(rows) = CaseCount
    /\ row.done = CaseCount /\ Cases(rows) = CaseIds
    /\ partial' = TRUE
    /\ runner' = "exporting"
    /\ UNCHANGED <<agentVars, known, observed, rows, row, resume, bundle, baseline>>

\* With its last result the bundle can be read; its manifest, which is written last,
\* is read by nobody.
WriteBundle ==
    /\ runner = "exporting"
    /\ bundle' = rows /\ partial' = FALSE
    /\ runner' = "exported"
    /\ UNCHANGED <<agentVars, known, observed, rows, row, resume, baseline>>

TearDown(keep) ==
    /\ rows' = IF keep THEN rows ELSE {}
    /\ row' = IF keep THEN row ELSE NoRow
    /\ resume' = (keep /\ resume)

\* Publishing, after which the stack and the resume file go.
Promote ==
    /\ runner = "exported"
    /\ baseline' = bundle
    /\ TearDown(FALSE)
    /\ runner' = "off" /\ known' = {}
    /\ UNCHANGED <<agentVars, observed, partial, bundle>>

\* The separate mode that publishes from the bundle alone, with or without a correction
\* of its safety scores, which by ScoresAgree leaves it as it is.
Finalize ==
    /\ runner = "off" /\ bundle # None
    /\ baseline' = bundle
    /\ UNCHANGED <<agentVars, runner, known, observed, rows, row, resume, partial, bundle>>

\* A 429 on the way to the agent: the marker is committed and the stack kept.
QuotaExceeded ==
    /\ runner = "waiting"
    /\ row' = Interruption(known)
    /\ runner' = "off" /\ known' = {}
    /\ UNCHANGED <<agentVars, observed, rows, resume, partial, bundle, baseline>>

\* Any other error, at any step, takes the results along, unless it finds a directory
\* of recovery.
StopOnError ==
    /\ runner # "off"
    /\ TearDown(partial \/ bundle # None)
    /\ runner' = "off" /\ known' = {}
    /\ UNCHANGED <<agentVars, observed, partial, bundle, baseline>>

\* A keyboard interrupt is no Exception: the cleanup runs as after a success.
StopByHand ==
    /\ runner # "off"
    /\ TearDown(FALSE)
    /\ runner' = "off" /\ known' = {}
    /\ UNCHANGED <<agentVars, observed, partial, bundle, baseline>>

\* The process is killed: no cleanup at all.
Kill ==
    /\ runner # "off"
    /\ runner' = "off" /\ known' = {}
    /\ UNCHANGED <<agentVars, observed, rows, row, resume, partial, bundle, baseline>>

\* A smoke run of another stack ends by deleting the resume file, whoever wrote it.
Smoke ==
    /\ runner = "off" /\ resume
    /\ resume' = FALSE
    /\ UNCHANGED <<agentVars, runner, known, observed, rows, row, partial, bundle, baseline>>

EvaluationNext ==
    \/ StartBaseline \/ Ask \/ Observe \/ AddResult \/ CompleteRun \/ OpenBundle
    \/ WriteBundle \/ Promote \/ Finalize
    \/ QuotaExceeded \/ StopOnError \/ StopByHand \/ Kill \/ Smoke
=============================================================================
