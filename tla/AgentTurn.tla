----------------------------- MODULE AgentTurn -----------------------------
(***************************************************************************)
(* One turn of the agent: the compiled graph of agent/graph.py, a step per *)
(* node or per call inside one, and the end of AgentRuntime.run_turn.      *)
(*                                                                         *)
(* The model provider is free to answer anything: an error, a text of one  *)
(* of the classes that the code tells apart, or a batch of tool calls.  A  *)
(* batch is three numbers: the calls that pass validation, those that do   *)
(* not, and how many of the former bear the id of one of the latter.       *)
(***************************************************************************)
EXTENDS AgentServices, GroundedClaims

CONSTANTS
    Candidates,      \* the grounding candidates under evaluation
    MaxModelCalls, MaxToolRounds, MaxToolCalls, MaxRepairs, RecursionLimit

ASSUME AgentAssumption ==
    /\ Candidates \subseteq {"P0", "P2", "P3", "P4", "P5"}
    /\ {MaxModelCalls, MaxToolRounds, MaxToolCalls, MaxRepairs, RecursionLimit}
           \subseteq Nat

VARIABLES
    candidate,   \* the candidate of the deployment
    turn,        \* the state of the turn under way, or of the last one
    sidecars     \* the turns with a trace file

agentVars == <<candidate, turn, sidecars>>

Answers == {"none", "prose", "cited", "validated", "fallback"}
InGraph == {"retrieve", "agent", "validate", "execute", "finalize", "repair"}
Over == {"idle", "completed", "failed"}

Turn == [id : Nat, at : InGraph \cup Over \cup {"answered", "traced"},
         steps : Nat, calls : Nat, requests : Nat, rounds : Nat, tools : Nat,
         repairs : Nat, entered : BOOLEAN, evidence : BOOLEAN, repaired : BOOLEAN,
         pending : Batches \cup {NoBatch}, left : Nat, ran : Nat,
         text : Texts \cup {"none"}, answer : Answers]

AgentTypeOK ==
    /\ candidate \in Candidates
    /\ turn \in Turn
    /\ sidecars \subseteq Nat

NewTurn(id, at) ==
    [id |-> id, at |-> at, steps |-> 0, calls |-> 0, requests |-> 0, rounds |-> 0,
     tools |-> 0, repairs |-> 0, entered |-> FALSE, evidence |-> FALSE,
     repaired |-> FALSE, pending |-> NoBatch, left |-> 0, ran |-> 0, text |-> "none", answer |-> "none"]

AgentInit ==
    /\ candidate \in Candidates
    /\ turn = NewTurn(0, "idle")
    /\ sidecars = {}

TurnOver == turn.at \in Over
\* The state of the graph goes with the turn; what was asked of the model was asked.
Failed(t) == [NewTurn(t.id, "failed") EXCEPT !.requests = t.requests]
\* The node t is at ends its superstep and hands over to the next.
Enter(t, node) == [t EXCEPT !.at = node, !.steps = @ + 1]

Retrieve(found) ==
    /\ turn.at = "retrieve"
    /\ turn' = Enter([turn EXCEPT !.evidence = found], "agent")
    /\ UNCHANGED <<candidate, sidecars>>

\* The mode that forgets to ask whether a tool has run.
Extractive_AfterTools(t) == candidate \in {"P4", "P5"} /\ t.evidence

\* The answer must be built from claims on the evidence, and is read as such.
Extractive(t) == candidate \in {"P4", "P5"} /\ t.evidence /\ ~t.entered

Asked(t) == [t EXCEPT !.requests = @ + 1]

ModelNode(t, after) == IF t.calls >= MaxModelCalls THEN Failed(t) ELSE after

\* Tool calls come before any text that came with them.
ModelCall(answer) ==
    /\ turn.at = "agent"
    /\ LET t == [Asked(turn) EXCEPT !.calls = @ + 1]
       IN  turn' = ModelNode(turn,
               IF ~answer.got THEN Failed(Asked(turn))
               ELSE IF answer.calls # NoBatch
                    THEN Enter([t EXCEPT !.pending = answer.calls], "validate")
               ELSE IF answer.text = "blank" /\ ~Extractive(turn) THEN Failed(Asked(turn))
               ELSE Enter([t EXCEPT !.text = answer.text], "finalize"))
    /\ UNCHANGED <<candidate, sidecars>>

\* A budget that is looked at before the batch is counted, not with it.
Validated_Late(t) ==
    LET b == t.pending
        size == b.valid + b.invalid
    IN  IF \/ t.rounds >= MaxToolRounds
           \/ t.tools >= MaxToolCalls
           \/ b.invalid > 0 /\ t.repairs >= MaxRepairs
        THEN Failed(t)
        ELSE Enter([t EXCEPT !.rounds = @ + 1,
                             !.tools = @ + size,
                             !.repairs = IF b.invalid > 0 THEN @ + 1 ELSE @,
                             !.left = b.valid - b.shared],
                   "execute")

Validated(t) ==
    LET b == t.pending
        size == b.valid + b.invalid
    IN  IF \/ t.rounds >= MaxToolRounds
           \/ t.tools + size > MaxToolCalls
           \/ b.invalid > 0 /\ t.repairs >= MaxRepairs
        THEN Failed(t)
        ELSE Enter([t EXCEPT !.rounds = @ + 1,
                             !.tools = @ + size,
                             !.repairs = IF b.invalid > 0 THEN @ + 1 ELSE @,
                             !.left = b.valid - b.shared],
                   "execute")

ValidateToolCalls ==
    /\ turn.at = "validate"
    /\ turn' = Validated(turn)
    /\ UNCHANGED <<candidate, sidecars>>

\* One call of the batch.  What the model is told goes on with the round.
ExecuteTool(result) ==
    /\ turn.at = "execute" /\ turn.left > 0
    /\ LET t == [turn EXCEPT !.left = @ - 1, !.ran = @ + 1, !.entered = TRUE]
       IN  turn' = IF result \in Told THEN t ELSE Failed(t)
    /\ UNCHANGED <<candidate, sidecars>>

EndRound ==
    /\ turn.at = "execute" /\ turn.left = 0
    /\ turn' = Enter([turn EXCEPT !.pending = NoBatch], "agent")
    /\ UNCHANGED <<candidate, sidecars>>

-----------------------------------------------------------------------------
\* CitationFinalizer: any handle that the evidence does not have costs the text.
Prose(t, text) ==
    IF text = "cited" /\ t.evidence                 THEN "cited"
    ELSE IF text \in {"cited", "forged", "refused"} THEN "fallback"
    ELSE "prose"

\* finalize_p4_response
FromClaims(text) == IF text = "validated" THEN "validated" ELSE "fallback"

\* The fail-closed candidates do not let an uncited answer of a turn that
\* called no tool stand next to evidence.
Uncited(t) ==
    /\ candidate \in {"P2", "P3"}
    /\ t.evidence /\ t.tools = 0
    /\ Prose(t, t.text) # "cited"

Answered(t, answer) == Enter([t EXCEPT !.answer = answer], "answered")

FinalizeGrounding ==
    /\ turn.at = "finalize"
    /\ turn' = IF Extractive(turn) THEN Answered(turn, FromClaims(turn.text))
               ELSE IF ~Uncited(turn) THEN Answered(turn, Prose(turn, turn.text))
               ELSE IF candidate = "P3" /\ turn.calls < MaxModelCalls
                    THEN [turn EXCEPT !.at = "repair", !.repaired = TRUE]
                    ELSE Answered(turn, "fallback")
    /\ UNCHANGED <<candidate, sidecars>>

\* The repaired text counts only when it cites and adds no word of its own.
RepairCitation(answer, addsNothing) ==
    /\ turn.at = "repair"
    /\ LET text == IF answer.got /\ answer.calls = NoBatch THEN answer.text ELSE "blank"
           t == [Asked(turn) EXCEPT !.calls = IF text # "blank" THEN @ + 1 ELSE @]
       IN  turn' = Answered(t, IF text = "cited" /\ addsNothing THEN "cited"
                               ELSE "fallback")
    /\ UNCHANGED <<candidate, sidecars>>

\* The deadline, or an error of the database or of the retrieval service.
Interrupt ==
    /\ turn.at \in InGraph
    /\ turn' = Failed(turn)
    /\ UNCHANGED <<candidate, sidecars>>

-----------------------------------------------------------------------------
\* What the finalizer node reports of an answer under P4 and P5.
Diagnosis(t) ==
    [mode    |-> [active |-> Extractive(t), entered |-> t.entered],
     outcome |-> IF Extractive(t) /\ t.text \in Claims THEN t.text ELSE "malformed"]

Traced == candidate \in {"P4", "P5"}
Storable == IF candidate = "P4" THEN P4Storable ELSE P5Storable

\* The stores refuse a diagnosis that they cannot keep, and may fail to write: neither
\* leaves a file.  Only P5 reads its file back before the turn goes on, from which
\* secrets have been removed: one that does not pass then stays behind.
WriteTrace(ending) ==
    /\ turn.at = "answered" /\ Traced
    /\ ending # "unwritten" => Diagnosis(turn) \in Storable
    /\ ending = "unread" => candidate = "P5"
    /\ sidecars' = IF ending = "unwritten" THEN sidecars ELSE sidecars \cup {turn.id}
    /\ turn' = IF ending = "stored" THEN [turn EXCEPT !.at = "traced"] ELSE Failed(turn)
    /\ UNCHANGED candidate

\* complete_turn commits, or raises: the run was recovered, the database is gone.
CompleteTurn(commits) ==
    /\ turn.at = IF Traced THEN "traced" ELSE "answered"
    /\ turn' = IF commits THEN [turn EXCEPT !.at = "completed"] ELSE Failed(turn)
    /\ UNCHANGED <<candidate, sidecars>>

AgentStep ==
    \/ \E found \in BOOLEAN : Retrieve(found)
    \/ \E answer \in Generated : ModelCall(answer)
    \/ ValidateToolCalls
    \/ \E result \in ToolResults : ExecuteTool(result)
    \/ EndRound
    \/ FinalizeGrounding
    \/ \E answer \in Generated, addsNothing \in BOOLEAN :
           RepairCitation(answer, addsNothing)
    \/ Interrupt
    \/ \E ending \in {"stored", "unread", "unwritten"} : WriteTrace(ending)
    \/ \E commits \in BOOLEAN : CompleteTurn(commits)

-----------------------------------------------------------------------------
\* The budgets of a turn are counted in four nodes that do not know of each other,
\* and a batch is counted before its calls run.  No schedule of answers, batches,
\* repairs and errors overruns one of them; a tool round always leaves a model
\* call for the answer that its results are for; and a turn that ends in an answer
\* has not used up the supersteps of the graph.  A read of a tool is tried as often
\* as the tool says.
BudgetsHold ==
    /\ ReadsFollowPolicy
    /\ turn.requests <= MaxModelCalls
    /\ turn.rounds <= MaxToolRounds
    /\ turn.ran + turn.left <= turn.tools
    /\ turn.tools <= MaxToolCalls
    /\ turn.repairs <= MaxRepairs
    /\ turn.at = "agent" => turn.calls < MaxModelCalls
    /\ turn.steps <= RecursionLimit
=============================================================================
