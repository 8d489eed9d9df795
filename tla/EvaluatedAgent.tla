--------------------------- MODULE EvaluatedAgent ---------------------------
(***************************************************************************)
(* A deployment of the agent under one of the two evaluation campaigns:    *)
(* the baseline of the agent as shipped, or a grounded run of one of the   *)
(* candidates.  The turns of the agent interleave with the campaign's      *)
(* process, which may stop or die and leave a turn behind.                 *)
(***************************************************************************)
EXTENDS EvaluationRun, GroundedRun

VARIABLE campaign   \* "baseline" or "grounded"

vars == <<agentVars, evaluationVars, groundedVars, campaign>>

TypeOK ==
    /\ AgentTypeOK /\ EvaluationTypeOK /\ GroundedTypeOK
    /\ campaign \in {"baseline", "grounded"}

Init ==
    /\ AgentInit /\ EvaluationInit
    /\ campaign \in IF candidate = "P0" THEN {"baseline", "grounded"} ELSE {"grounded"}
    /\ \E old \in IF campaign = "grounded" /\ candidate \in {"P0", "P2"}
                  THEN BOOLEAN ELSE {FALSE} : GroundedInit(old)

Next ==
    \/ AgentStep /\ UNCHANGED <<evaluationVars, groundedVars, campaign>>
    \/ campaign = "baseline" /\ EvaluationNext /\ UNCHANGED <<groundedVars, campaign>>
    \/ campaign = "grounded" /\ GroundedNext /\ UNCHANGED <<evaluationVars, campaign>>

Spec == Init /\ [][Next]_vars

-----------------------------------------------------------------------------
\* What the finalizer lets out is what the answer says of itself.  An answer with
\* citations had evidence; a fail-closed candidate answers a turn that called no
\* tool from the evidence with a citation or with the fallback, an extractive one
\* a turn that ran no tool with a validated claim or the fallback, whatever
\* invalid calls came before; the diagnosis of every such answer passes both the
\* trace store and, weeks later, the scorer, which check it on their own; and the
\* repair that the record of a turn infers from its trace is one that took place.
AnswersAreHonest ==
    /\ CandidatesAgree
    /\ turn.at \in {"answered", "traced", "completed"} =>
        /\ turn.answer \in {"cited", "validated"} => turn.evidence
        /\ turn.answer = "validated" => turn.ran = 0
        /\ turn.evidence /\ turn.tools = 0 /\ candidate \in {"P2", "P3"} =>
               turn.answer \in {"cited", "fallback"}
        /\ turn.evidence /\ turn.ran = 0 /\ Traced =>
               turn.answer \in {"validated", "fallback"}
        /\ Traced => /\ Diagnosis(turn) \in Storable \cap Scorable
                     /\ (turn.answer = "validated")
                            = (Extractive(turn) /\ Diagnosis(turn).outcome = "validated")
        /\ RepairSeen(turn) = [attempted |-> turn.repaired,
                               succeeded |-> turn.repaired /\ turn.answer = "cited"]

\* A campaign that was stopped, killed, resumed and stopped again counts each case
\* once, and as passed only after a turn that completed with one tool call at most, or
\* none if its answer is the fallback.  The row of the run says what the rows of the results say; what is
\* published covers the corpus; a record of the checkpoint stands for a turn of
\* its own whose trace is there; and a summary that says "complete" covers them all.
ResultsAreWhole ==
    /\ ScoresAgree
    /\ runner = "observed" /\ observed =>
           turn.at = "completed" /\ turn.ran <= IF turn.answer = "fallback" THEN 0 ELSE 1
    /\ Cardinality(rows) = Cardinality(Cases(rows))
    /\ known \subseteq rows \/ runner = "exported"
    /\ row \in {NoRow, Summary("running", rows), Interruption(rows),
               Summary("completed", rows)}
    /\ row.status = "completed" => Cases(rows) = CaseIds
    /\ \A published \in {bundle, baseline} \ {None} :
           Cases(published) = CaseIds /\ Cardinality(published) = CaseCount
    /\ Cardinality(checkpoint) = Cardinality(Recorded)
    /\ Cardinality(checkpoint) = Cardinality({r.turn : r \in checkpoint})
    /\ Traced => {r.turn : r \in checkpoint} \subseteq sidecars
    /\ summary.status = "complete" =>
           Recorded = CaseIds /\ summary.of = Observations(checkpoint) /\ report

\* A run is a measurement of one revision.  While it runs every record is under the
\* identity of the sidecar; whatever was committed, edited or restarted in between,
\* its records come from one revision of the harness and of the application, under
\* P4 and P5 from one commit on which the whole CI was green (records that a harness
\* named wrongly only ever get the identity that their traces prove); and nothing
\* that is done later touches the evidence of a run that is closed.
OneRevisionPerRun ==
    /\ harness \in Running => \A r \in checkpoint : r.under = bound
    /\ LET own == {r \in checkpoint : r.by # Defective}
       IN  /\ \A r, s \in own : IdentityOf(r.by) = IdentityOf(s.by)
                              /\ HarnessRevision(r.by) = HarnessRevision(s.by)
           /\ \A r \in own : IF Traced THEN r.by \in passed ELSE ~Drifted(r.by)
           /\ own # checkpoint /\ own # {} => bound.harness # Nothing
    /\ closeouts # {} => CloseoutHolds
=============================================================================
