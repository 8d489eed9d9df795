-------------------------- MODULE EvaluationCorpus --------------------------
(***************************************************************************)
(* The cases of a dataset, numbered in the order in which both evaluation  *)
(* runners take them, and the bound on what asking them may cost.          *)
(***************************************************************************)
EXTENDS Naturals, FiniteSetsExt

CONSTANTS
    CaseCount,   \* the cases of the dataset
    MaxTurns     \* bound on the turns of the agent that a campaign may cost

ASSUME CorpusAssumption == CaseCount \in Nat \ {0} /\ MaxTurns \in Nat

CaseIds == 1 .. CaseCount

\* The case that a runner which has done those cases asks next.
NextCase(done) == Min(CaseIds \ done)
=============================================================================
