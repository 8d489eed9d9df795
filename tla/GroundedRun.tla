---------------------------- MODULE GroundedRun ----------------------------
(***************************************************************************)
(* A canonical run of the grounded evaluation: scripts/                    *)
(* run_m5d_grounded_eval.py over run_grounded_evaluation, whose only       *)
(* memory is the checkpoint file, one record for each case answered.  The  *)
(* cases are numbered in the order of the dataset.  The process may die at *)
(* any step and be launched again, by then perhaps from another commit.    *)
(***************************************************************************)
EXTENDS RunProvenance, EvaluationCorpus

VARIABLES
    harness,      \* where the evaluation process, or the correction, stands
    checkpoint,   \* the records of the checkpoint file
    torn,         \* the file ends in half a line
    report,       \* report.json is there
    summary,      \* what run-summary.json says of the run
    corrected,    \* provenance-correction.json is there
    closeouts     \* the closeout of the run, once it is closed

fileVars == <<checkpoint, torn, report, summary, corrected, closeouts>>
groundedVars == <<provenanceVars, harness, fileVars>>

\* A record also bears the tree that its process was launched from (by).
Record == [case : CaseIds, turn : Nat, diagnosis : Diagnoses,
           repair : [attempted : BOOLEAN, succeeded : BOOLEAN],
           under : Identities, by : Trees]
Observations(records) == {<<r.case, r.turn>> : r \in records}
Running == {"ready", "waiting", "answered", "scored"}
Correcting == {"relabelled", "rebound", "recorded"}

GroundedTypeOK ==
    /\ ProvenanceTypeOK
    /\ harness \in {"off"} \cup Running \cup Correcting
    /\ checkpoint \subseteq Record
    /\ torn \in BOOLEAN /\ report \in BOOLEAN /\ corrected \in BOOLEAN
    /\ summary \in [status : {"none", "interrupted", "complete"},
                    of : SUBSET (CaseIds \X (0 .. MaxTurns))]
    /\ closeouts \subseteq
           [records : SUBSET checkpoint, sidecars : SUBSET sidecars]

\* What the adapter makes of the trace of a turn: the agent does not say that it
\* repaired an answer, but no other turn without a tool call calls a model twice.
RepairSeen(t) ==
    LET attempted == candidate = "P3" /\ t.evidence /\ t.tools = 0 /\ t.requests > 1
    IN  [attempted |-> attempted, succeeded |-> attempted /\ t.answer = "cited"]

\* The run that the harness began when it still named the wrong versions.
OldRecord == [case |-> 1, turn |-> 0, diagnosis |-> Diagnosis(turn),
              repair |-> RepairSeen(turn), under |-> OldIdentity, by |-> Defective]

GroundedInit(old) ==
    /\ ProvenanceInit
    /\ bound = IF old THEN OldIdentity ELSE NoIdentity
    /\ harness = "off"
    /\ checkpoint = IF old THEN {OldRecord} ELSE {}
    /\ summary = IF old THEN [status |-> "interrupted", of |-> Observations({OldRecord})]
                 ELSE [status |-> "none", of |-> {}]
    /\ torn = FALSE /\ report = FALSE /\ corrected = FALSE
    /\ closeouts = {}

Recorded == {r.case : r \in checkpoint}
Pending == CaseIds \ Recorded

\* verify_p4_trace_records, verify_p5_trace_records: a file for each record, and
\* no file besides.
TracesMatch == Traced => sidecars = {r.turn : r \in checkpoint}

\* The run under its identity, its records all under the same.
Bindable(identity) ==
    /\ bound \in {NoIdentity, identity}
    /\ ~torn
    /\ \A r \in checkpoint : r.under = identity

Off == harness' = "off" /\ launched' = Nothing
Proceed(where) == harness' = where /\ UNCHANGED launched

-----------------------------------------------------------------------------
\* require_p4_inference_authorized, require_p5_inference_authorized
P4Authorized == closeouts = {} /\ FrozenAndGreen
P5Authorized ==
    closeouts = {} /\ ~report /\ summary.status # "complete" /\ FrozenAndGreen

\* A second run after the closeout, which only the name of the file forbids.
Authorized_Reopened ==
    IF Traced THEN ~report /\ FrozenAndGreen ELSE RevisionsCanonical

Authorized ==
    CASE candidate = "P4" -> P4Authorized
      [] candidate = "P5" -> P5Authorized
      [] OTHER            -> RevisionsCanonical

Launch ==
    /\ harness = "off" /\ Authorized
    /\ Bindable(IdentityOf(history)) /\ TracesMatch
    /\ bound' = IdentityOf(history)
    /\ launched' = WorkingTree
    /\ harness' = "ready"
    /\ UNCHANGED <<agentVars, history, edited, passed, fileVars>>

\* A turn left behind by a process that died ends before the next one is asked for.
Post ==
    /\ harness = "ready" /\ Pending # {}
    /\ TurnOver /\ turn.id < MaxTurns
    /\ turn' = NewTurn(turn.id + 1, "retrieve")
    /\ Proceed("waiting")
    /\ UNCHANGED <<candidate, sidecars, history, edited, passed, bound, fileVars>>

Respond ==
    /\ harness = "waiting" /\ turn.at = "completed"
    /\ Proceed("answered")
    /\ UNCHANGED <<agentVars, history, edited, passed, bound, fileVars>>

NextRecord ==
    [case |-> NextCase(Recorded), turn |-> turn.id, diagnosis |-> Diagnosis(turn),
     repair |-> RepairSeen(turn), under |-> IdentityOf(launched), by |-> launched]

\* The adapter reads the trace of the turn; the record is appended and synced.
AppendRecord ==
    /\ harness = "answered"
    /\ checkpoint' = checkpoint \cup {NextRecord}
    /\ Proceed("ready")
    /\ UNCHANGED <<agentVars, history, edited, passed, bound, torn, report, summary,
                   corrected, closeouts>>

Summarised(status) == [status |-> status, of |-> Observations(checkpoint)]

\* A request refused, unanswered or without its trace: the run stops and says
\* so, unless the files that it is to vouch for do not match.  A turn under way
\* goes on without its client.
Block ==
    /\ harness \in {"waiting", "answered"}
    /\ Off
    /\ summary' = IF TracesMatch THEN Summarised("interrupted") ELSE summary
    /\ UNCHANGED <<agentVars, history, edited, passed, bound, checkpoint, torn, report,
                   corrected, closeouts>>

Die ==
    /\ harness # "off"
    /\ Off
    /\ torn' \in IF harness = "answered" THEN BOOLEAN ELSE {torn}
    /\ UNCHANGED <<agentVars, history, edited, passed, bound, checkpoint, report,
                   summary, corrected, closeouts>>

-----------------------------------------------------------------------------
Scorable == IF candidate = "P4" THEN P4Scorable ELSE P5Scorable

CanScore ==
    /\ TracesMatch
    /\ Traced => \A r \in checkpoint : r.diagnosis \in Scorable

\* The report goes first, the summary with the hashes of everything after it.
Score ==
    /\ harness = "ready" /\ Pending = {}
    /\ IF CanScore THEN report' = TRUE /\ Proceed("scored")
                   ELSE Off /\ UNCHANGED report
    /\ UNCHANGED <<agentVars, history, edited, passed, bound, checkpoint, torn, summary,
                   corrected, closeouts>>

Summarise ==
    /\ harness = "scored"
    /\ summary' = Summarised("complete")
    /\ Off
    /\ UNCHANGED <<agentVars, history, edited, passed, bound, checkpoint, torn, report,
                   corrected, closeouts>>

-----------------------------------------------------------------------------
\* The evidence of an interrupted run, pinned by its hashes.
EvidenceKept ==
    \A c \in closeouts : checkpoint = c.records /\ sidecars = c.sidecars

NothingScored ==
    /\ ~report
    /\ summary = Summarised("interrupted")

\* audit_m5d_b2_p4_closeout, audit_m5d_b2_p5_closeout
CloseoutHolds == EvidenceKept /\ TracesMatch /\ NothingScored

CloseOut ==
    /\ Traced /\ harness = "off" /\ TurnOver
    /\ closeouts = {} /\ ~torn /\ CloseoutHolds
    /\ closeouts' = {[records |-> checkpoint, sidecars |-> sidecars]}
    /\ UNCHANGED <<agentVars, provenanceVars, harness, checkpoint, torn, report, summary,
                   corrected>>

\* migrate_checkpoint_provenance: the identity of a run of the defective harness is
\* replaced file by file, its observations stay as they are.
Relabelled(identity) == {[r EXCEPT !.under = identity] : r \in checkpoint}

CorrectRecords ==
    /\ harness = "off" /\ RevisionsCanonical
    /\ bound = OldIdentity /\ ~corrected
    /\ checkpoint # {} /\ \A r \in checkpoint : r.under = bound
    /\ checkpoint' = Relabelled(GroundedIdentity(history))
    /\ launched' = history
    /\ harness' = "relabelled"
    /\ UNCHANGED <<agentVars, history, edited, passed, bound, torn, report, summary,
                   corrected, closeouts>>

CorrectSidecar ==
    /\ harness = "relabelled"
    /\ bound' = GroundedIdentity(launched)
    /\ Proceed("rebound")
    /\ UNCHANGED <<agentVars, history, edited, passed, fileVars>>

RecordCorrection ==
    /\ harness = "rebound"
    /\ corrected' = TRUE
    /\ Proceed("recorded")
    /\ UNCHANGED <<agentVars, history, edited, passed, bound, checkpoint, torn, report,
                   summary, closeouts>>

\* A file that cannot be replaced takes the others back with it.
UndoCorrection ==
    /\ harness \in {"relabelled", "rebound"}
    /\ checkpoint' = Relabelled(OldIdentity)
    /\ bound' = OldIdentity
    /\ Off
    /\ UNCHANGED <<agentVars, history, edited, passed, torn, report, summary, corrected,
                   closeouts>>

\* _refresh_run_metadata
RefreshSummary ==
    /\ harness = "recorded"
    /\ summary' = Summarised(summary.status)
    /\ Off
    /\ UNCHANGED <<agentVars, history, edited, passed, bound, checkpoint, torn, report,
                   corrected, closeouts>>

GroundedNext ==
    \/ Launch \/ Post \/ Respond \/ AppendRecord \/ Block \/ Die \/ Score \/ Summarise
    \/ CloseOut
    \/ CorrectRecords \/ CorrectSidecar \/ RecordCorrection \/ UndoCorrection
    \/ RefreshSummary
    \/ harness = "off" /\ TurnOver /\ RepositoryStep /\ UNCHANGED <<harness, fileVars>>
=============================================================================
