--------------------------- MODULE AgentTurnProofs ---------------------------
(***************************************************************************)
(* The turns of the agent, whatever the model and the tools answer and     *)
(* whichever campaign asks: their budgets, for any limits that leave a     *)
(* model call after the last tool round and enough supersteps for all of   *)
(* them; their types and what an answer claims to be, for all limits.      *)
(***************************************************************************)
EXTENDS EvaluatedAgent, TLAPS

\* What the settings of VerbaOps provide: the defaults do, with eight supersteps
\* to spare.
BudgetsFit ==
    /\ MaxToolRounds < MaxModelCalls
    /\ 3 * MaxToolRounds + 3 <= RecursionLimit

Ended == Over \cup {"answered", "traced"}

\* A tool round costs a model call and three supersteps, so where a turn stands
\* and how many rounds it had tell what was asked of the model.
PaceKept(t) ==
    /\ t.at = "retrieve" =>
           t.requests = 0 /\ t.calls = 0 /\ t.rounds = 0 /\ t.steps = 0
    /\ t.at = "agent" =>
           t.requests = t.rounds /\ t.calls = t.rounds /\ t.steps = 3 * t.rounds + 1
    /\ t.at = "execute" =>
           t.requests = t.rounds /\ t.calls = t.rounds /\ t.steps = 3 * t.rounds
    /\ t.at \in {"validate", "finalize", "repair"} =>
           t.requests = t.rounds + 1 /\ t.calls = t.rounds + 1 /\ t.steps = 3 * t.rounds + 2
    /\ t.at = "repair" => t.calls < MaxModelCalls
    /\ t.at \in Ended => t.requests <= MaxModelCalls /\ t.steps <= 3 * MaxToolRounds + 3

\* Only a turn that executes has calls of its batch left, and they are counted.
BudgetsKept(t) ==
    /\ t.rounds <= MaxToolRounds
    /\ t.tools <= MaxToolCalls
    /\ t.repairs <= MaxRepairs
    /\ t.ran + t.left <= t.tools
    /\ t.at # "execute" => t.left = 0
    /\ t.at = "validate" => t.pending \in Batches

Sound(t) == t \in Turn /\ PaceKept(t) /\ BudgetsKept(t)

IInv == candidate \in Candidates /\ sidecars \subseteq Nat /\ Sound(turn)

\* A turn that has its text has asked for it once, if it called no tool; only P3
\* repairs an answer, of a turn that called no tool and has evidence; and what the
\* finalizer makes of the text is there until the next turn.
Honest(t) ==
    /\ t \in Turn
    /\ t.at = "validate" => t.pending \in Batches
    /\ IF t.entered THEN t.ran > 0 ELSE t.ran = 0
    /\ t.at = "retrieve" => t.requests = 0 /\ t.tools = 0
    /\ t.at = "agent" /\ t.tools = 0 => t.requests = 0
    /\ t.at = "execute" => t.tools > 0
    /\ t.at \in {"finalize", "repair"} /\ t.tools = 0 => t.requests = 1
    /\ t.at \in {"retrieve", "agent", "validate", "execute", "finalize"} => ~t.repaired
    /\ t.at = "repair" => t.repaired /\ candidate = "P3" /\ t.evidence /\ t.tools = 0
    /\ t.at = "finalize" => t.text \in Texts
    /\ t.at \in {"answered", "traced", "completed"} =>
           /\ t.answer # "none"
           /\ t.repaired => candidate = "P3" /\ t.evidence /\ t.tools = 0
           /\ t.tools = 0 => t.requests = IF t.repaired THEN 2 ELSE 1
           /\ IF Extractive(t) THEN t.answer = FromClaims(t.text) /\ t.text \in Texts
              ELSE t.answer # "validated" /\ (t.answer = "cited" => t.evidence)
           /\ candidate \in {"P2", "P3"} /\ t.evidence /\ t.tools = 0 =>
                  t.answer \in {"cited", "fallback"}

TurnInv ==
    /\ candidate \in Candidates
    /\ Honest(turn)
    /\ sidecars \subseteq Nat
    /\ Traced /\ turn.at \in {"traced", "completed"} => turn.id \in sidecars

-----------------------------------------------------------------------------
\* A turn that is asked for, or that has failed, has everything before it.
LEMMA NewTurnSound ==
    ASSUME BudgetsFit, NEW id \in Nat, NEW at \in {"idle", "retrieve"}
    PROVE  Sound(NewTurn(id, at))
<1>1. NewTurn(id, at) \in Turn
  BY DEF NewTurn, Turn, Answers, InGraph, Over
<1>2. PaceKept(NewTurn(id, at))
  BY AgentAssumption DEF NewTurn, PaceKept, Ended, Over, BudgetsFit
<1>3. BudgetsKept(NewTurn(id, at))
  BY AgentAssumption DEF NewTurn, BudgetsKept
<1> QED BY <1>1, <1>2, <1>3 DEF Sound

LEMMA FailedSound ==
    ASSUME BudgetsFit, NEW t \in Turn, t.requests <= MaxModelCalls
    PROVE  Sound(Failed(t))
<1> DEFINE f == Failed(t)
<1>1. /\ f \in Turn /\ f.at = "failed" /\ f.requests = t.requests
      /\ f.steps = 0 /\ f.rounds = 0 /\ f.tools = 0 /\ f.repairs = 0
      /\ f.ran = 0 /\ f.left = 0
  BY DEF Failed, NewTurn, Turn, Answers, InGraph, Over
<1> HIDE DEF f
<1>2. PaceKept(f)
  BY <1>1, AgentAssumption DEF PaceKept, Ended, Over, BudgetsFit
<1>3. BudgetsKept(f)
  BY <1>1, AgentAssumption DEF BudgetsKept
<1> QED BY <1>1, <1>2, <1>3 DEF Sound, f

\* Nowhere in the graph has the model been asked more often than it may be.
LEMMA RequestsWithin ==
    ASSUME BudgetsFit, NEW t, Sound(t)
    PROVE  /\ t.requests <= MaxModelCalls
           /\ t.at \in {"agent", "repair"} => t.requests + 1 <= MaxModelCalls
<1>1. /\ t.requests \in Nat /\ t.rounds \in Nat /\ t.calls \in Nat
      /\ t.at \in InGraph \cup Ended
  BY DEF Sound, Turn, Ended
<1>2. t.rounds + 1 <= MaxModelCalls
  BY <1>1, AgentAssumption DEF Sound, BudgetsKept, BudgetsFit
<1> QED BY <1>1, <1>2, AgentAssumption DEF Sound, PaceKept, InGraph

\* The gateway's answers as the model node knows them.
LEMMA GeneratedTyped ==
    ASSUME NEW answer \in Generated
    PROVE  answer.text \in Texts /\ answer.calls \in Batches \cup {NoBatch}
<1>1. PICK x \in Exchange : answer = Generate(x)
  BY DEF Generated
<1>2. CASE Shaped(x)
  <2>1. x.message \in Message
    BY <1>2 DEF Exchange, Shaped
  <2> QED BY <1>1, <2>1 DEF Generate, Message, Texts
<1>3. CASE ~Shaped(x)
  BY <1>1, <1>3 DEF Generate, Texts
<1> QED BY <1>2, <1>3

\* What the budgets are about, but for the supersteps.
SameCounts(u, t) ==
    /\ u.calls = t.calls /\ u.requests = t.requests /\ u.rounds = t.rounds
    /\ u.tools = t.tools /\ u.repairs = t.repairs /\ u.left = t.left /\ u.ran = t.ran

\* What the answer rests on.
SameAnswer(u, t) ==
    /\ u.id = t.id /\ u.evidence = t.evidence /\ u.entered = t.entered
    /\ u.repaired = t.repaired /\ u.text = t.text /\ u.answer = t.answer

\* A counter is set to a number.
LEMMA CountersTyped ==
    ASSUME NEW t \in Turn, NEW n \in Nat
    PROVE  /\ [t EXCEPT !.steps = n] \in Turn /\ [t EXCEPT !.calls = n] \in Turn
           /\ [t EXCEPT !.requests = n] \in Turn /\ [t EXCEPT !.rounds = n] \in Turn
           /\ [t EXCEPT !.tools = n] \in Turn /\ [t EXCEPT !.repairs = n] \in Turn
           /\ [t EXCEPT !.left = n] \in Turn /\ [t EXCEPT !.ran = n] \in Turn
  BY DEF Turn

\* A node that hands over changes its place and the count of supersteps.
LEMMA EnterEffect ==
    ASSUME NEW t \in Turn, NEW node \in InGraph \cup {"answered"}
    PROVE  LET e == Enter(t, node) IN
           /\ e \in Turn
           /\ e.at = node /\ e.steps = t.steps + 1 /\ e.pending = t.pending
           /\ SameCounts(e, t) /\ SameAnswer(e, t)
<1> DEFINE u == [t EXCEPT !.at = node]
<1>1. u \in Turn /\ Enter(t, node) = [u EXCEPT !.steps = u.steps + 1]
  BY DEF Turn, Enter
<1>2. Enter(t, node) \in Turn
  <2> HIDE DEF u
  <2> QED BY <1>1 DEF Turn
<1> QED BY <1>2 DEF Turn, Enter, SameCounts, SameAnswer

-----------------------------------------------------------------------------
LEMMA RetrieveKeeps ==
    ASSUME IInv, NEW found \in BOOLEAN, Retrieve(found)
    PROVE  Sound(turn')
<1> DEFINE t == [turn EXCEPT !.evidence = found]
<1>1. turn \in Turn /\ PaceKept(turn) /\ BudgetsKept(turn) /\ turn.at = "retrieve"
  BY DEF IInv, Sound, Retrieve
<1>2. /\ t \in Turn /\ SameCounts(t, turn) /\ t.steps = turn.steps
      /\ turn' = Enter(t, "agent")
  BY <1>1 DEF Retrieve, Turn, SameCounts
<1> HIDE DEF t
<1>3. /\ turn' \in Turn /\ SameCounts(turn', t)
      /\ turn'.at = "agent" /\ turn'.steps = t.steps + 1
  BY <1>2, EnterEffect DEF InGraph
<1>4. PaceKept(turn')
  BY <1>1, <1>2, <1>3 DEF PaceKept, Ended, Over, SameCounts
<1>5. BudgetsKept(turn')
  BY <1>1, <1>2, <1>3 DEF BudgetsKept, SameCounts
<1> QED BY <1>3, <1>4, <1>5 DEF Sound

\* The model node: the turn fails, or goes on with one more call.
LEMMA ModelCallKeeps ==
    ASSUME BudgetsFit, IInv, NEW answer \in Generated, ModelCall(answer)
    PROVE  Sound(turn')
<1> DEFINE asked == Asked(turn)
           t == [asked EXCEPT !.calls = asked.calls + 1]
           batch == [t EXCEPT !.pending = answer.calls]
           said == [t EXCEPT !.text = answer.text]
<1>1. turn \in Turn /\ PaceKept(turn) /\ BudgetsKept(turn) /\ turn.at = "agent"
  BY DEF IInv, Sound, ModelCall
<1>2. answer.text \in Texts /\ answer.calls \in Batches \cup {NoBatch}
  BY GeneratedTyped
<1>3. turn.requests + 1 <= MaxModelCalls /\ turn.requests <= MaxModelCalls
  BY <1>1, RequestsWithin DEF Sound
<1>4. /\ asked \in Turn /\ asked.requests = turn.requests + 1
      /\ asked.calls = turn.calls /\ asked.rounds = turn.rounds
      /\ asked.tools = turn.tools /\ asked.repairs = turn.repairs
      /\ asked.left = turn.left /\ asked.ran = turn.ran /\ asked.steps = turn.steps
  BY <1>1 DEF Asked, Turn
<1>5. turn' = ModelNode(turn,
                IF ~answer.got THEN Failed(asked)
                ELSE IF answer.calls # NoBatch THEN Enter(batch, "validate")
                ELSE IF answer.text = "blank" /\ ~Extractive(turn) THEN Failed(asked)
                ELSE Enter(said, "finalize"))
  BY DEF ModelCall
<1> HIDE DEF asked
<1>6. /\ t \in Turn /\ t.requests = turn.requests + 1 /\ t.calls = turn.calls + 1
      /\ t.rounds = turn.rounds /\ t.tools = turn.tools /\ t.repairs = turn.repairs
      /\ t.left = turn.left /\ t.ran = turn.ran /\ t.steps = turn.steps
  BY <1>4 DEF Turn
<1> HIDE DEF t
<1>7. /\ batch \in Turn /\ SameCounts(batch, t) /\ batch.steps = t.steps
      /\ batch.pending = answer.calls
      /\ said \in Turn /\ SameCounts(said, t) /\ said.steps = t.steps
  BY <1>2, <1>6 DEF Turn, SameCounts
<1> HIDE DEF batch, said
<1>8. \/ turn' \in {Failed(turn), Failed(asked)}
      \/ turn' = Enter(said, "finalize")
      \/ turn' = Enter(batch, "validate") /\ answer.calls # NoBatch
  BY <1>5 DEF ModelNode
<1>9. CASE turn' \in {Failed(turn), Failed(asked)}
  BY <1>1, <1>3, <1>4, <1>9, FailedSound
<1>10. ASSUME NEW u \in Turn, NEW node \in {"validate", "finalize"},
             turn' = Enter(u, node), SameCounts(u, t), u.steps = t.steps,
             node = "validate" => u.pending \in Batches
      PROVE  Sound(turn')
  <2>1. /\ turn' \in Turn /\ SameCounts(turn', u) /\ turn'.pending = u.pending
        /\ turn'.at = node /\ turn'.steps = u.steps + 1
    BY <1>10, EnterEffect DEF InGraph
  <2>2. PaceKept(turn')
    BY <1>1, <1>6, <1>10, <2>1 DEF PaceKept, Ended, Over, SameCounts, Turn
  <2>3. BudgetsKept(turn')
    BY <1>1, <1>6, <1>10, <2>1 DEF BudgetsKept, SameCounts
  <2> QED BY <2>1, <2>2, <2>3 DEF Sound
<1> QED BY <1>2, <1>7, <1>8, <1>9, <1>10

\* The batch is counted whole before any of its calls runs.
LEMMA ValidateKeeps ==
    ASSUME BudgetsFit, IInv, ValidateToolCalls
    PROVE  Sound(turn')
<1> DEFINE b == turn.pending
           size == b.valid + b.invalid
           t1 == [turn EXCEPT !.rounds = turn.rounds + 1]
           t2 == [t1 EXCEPT !.tools = turn.tools + size]
           t3 == [t2 EXCEPT !.repairs = IF b.invalid > 0 THEN turn.repairs + 1 ELSE turn.repairs]
           t4 == [t3 EXCEPT !.left = b.valid - b.shared]
<1>1. turn \in Turn /\ PaceKept(turn) /\ BudgetsKept(turn) /\ turn.at = "validate"
  BY DEF IInv, Sound, ValidateToolCalls
<1>2. /\ b.valid \in Nat /\ b.invalid \in Nat /\ b.shared \in Nat
      /\ b.shared <= b.valid
  BY <1>1, BatchesAssumption DEF BudgetsKept
<1>3. CASE turn' = Failed(turn)
  BY <1>1, <1>3, RequestsWithin, FailedSound DEF Sound
<1>4. CASE turn' # Failed(turn)
  <2>1. /\ turn' = Enter(t4, "execute")
        /\ ~(turn.rounds >= MaxToolRounds) /\ ~(turn.tools + size > MaxToolCalls)
        /\ ~(b.invalid > 0 /\ turn.repairs >= MaxRepairs)
    BY <1>1, <1>4 DEF ValidateToolCalls, Validated, Turn
  <2>2. /\ turn.rounds + 1 \in Nat /\ turn.tools + size \in Nat
        /\ turn.repairs \in Nat /\ turn.repairs + 1 \in Nat
        /\ b.valid - b.shared \in Nat
    BY <1>1, <1>2 DEF Turn
  <2>3. t1 \in Turn
    BY <1>1, <2>2, CountersTyped
  <2>4. t4 \in Turn
    <3> HIDE DEF t1, b, size
    <3>1. t2 \in Turn
      BY <2>2, <2>3, CountersTyped
    <3> HIDE DEF t2
    <3>2. t3 \in Turn
      BY <2>2, <3>1, CountersTyped
    <3> HIDE DEF t3
    <3> QED BY <2>2, <3>2, CountersTyped
  <2>5. /\ t4.steps = turn.steps /\ t4.calls = turn.calls /\ t4.requests = turn.requests
        /\ t4.rounds = turn.rounds + 1 /\ t4.tools = turn.tools + size
        /\ t4.repairs = IF b.invalid > 0 THEN turn.repairs + 1 ELSE turn.repairs
        /\ t4.left = b.valid - b.shared /\ t4.ran = turn.ran
    BY <1>1 DEF Turn
  <2> HIDE DEF t4, b
  <2>6. /\ turn' \in Turn /\ SameCounts(turn', t4)
        /\ turn'.at = "execute" /\ turn'.steps = t4.steps + 1
    BY <2>1, <2>4, EnterEffect DEF InGraph
  <2>7. PaceKept(turn')
    BY <1>1, <2>5, <2>6 DEF PaceKept, Ended, Over, SameCounts, Turn
  <2>8. BudgetsKept(turn')
    BY <1>1, <1>2, <2>1, <2>5, <2>6, AgentAssumption DEF BudgetsKept, SameCounts, Turn
  <2> QED BY <2>6, <2>7, <2>8 DEF Sound
<1> QED BY <1>3, <1>4

\* A call that runs was counted with its batch.
LEMMA ExecuteKeeps ==
    ASSUME BudgetsFit, IInv, NEW result, ExecuteTool(result)
    PROVE  Sound(turn')
<1> DEFINE t1 == [turn EXCEPT !.left = turn.left - 1]
           t2 == [t1 EXCEPT !.ran = turn.ran + 1]
           t3 == [t2 EXCEPT !.entered = TRUE]
<1>1. /\ turn \in Turn /\ PaceKept(turn) /\ BudgetsKept(turn) /\ turn.at = "execute"
      /\ turn.left > 0
  BY DEF IInv, Sound, ExecuteTool
<1>2. turn.left - 1 \in Nat /\ turn.ran + 1 \in Nat
  BY <1>1 DEF Turn
<1>3. t1 \in Turn
  BY <1>1, <1>2, CountersTyped
<1>4. t3 \in Turn
  <2> HIDE DEF t1
  <2>1. t2 \in Turn
    BY <1>2, <1>3, CountersTyped
  <2> HIDE DEF t2
  <2> QED BY <2>1 DEF Turn
<1>5. /\ t3.at = turn.at /\ t3.pending = turn.pending
      /\ t3.steps = turn.steps /\ t3.calls = turn.calls /\ t3.requests = turn.requests
      /\ t3.rounds = turn.rounds /\ t3.tools = turn.tools /\ t3.repairs = turn.repairs
      /\ t3.left = turn.left - 1 /\ t3.ran = turn.ran + 1
  BY <1>1 DEF Turn
<1>6. turn' \in {t3, Failed(t3)}
  BY <1>1 DEF ExecuteTool, Turn
<1> HIDE DEF t3
<1>7. PaceKept(t3)
  BY <1>1, <1>5 DEF PaceKept, Ended, Over
<1>8. BudgetsKept(t3)
  BY <1>1, <1>4, <1>5, AgentAssumption DEF BudgetsKept, Turn
<1>9. Sound(t3)
  BY <1>4, <1>7, <1>8 DEF Sound
<1> QED BY <1>4, <1>6, <1>9, RequestsWithin, FailedSound

LEMMA EndRoundKeeps ==
    ASSUME IInv, EndRound
    PROVE  Sound(turn')
<1> DEFINE t == [turn EXCEPT !.pending = NoBatch]
<1>1. /\ turn \in Turn /\ PaceKept(turn) /\ BudgetsKept(turn) /\ turn.at = "execute"
      /\ turn.left = 0
  BY DEF IInv, Sound, EndRound
<1>2. /\ t \in Turn /\ SameCounts(t, turn) /\ t.steps = turn.steps
      /\ turn' = Enter(t, "agent")
  BY <1>1 DEF EndRound, Turn, SameCounts
<1> HIDE DEF t
<1>3. /\ turn' \in Turn /\ SameCounts(turn', t)
      /\ turn'.at = "agent" /\ turn'.steps = t.steps + 1
  BY <1>2, EnterEffect DEF InGraph
<1>4. PaceKept(turn')
  BY <1>1, <1>2, <1>3 DEF PaceKept, Ended, Over, SameCounts
<1>5. BudgetsKept(turn')
  BY <1>1, <1>2, <1>3 DEF BudgetsKept, SameCounts
<1> QED BY <1>3, <1>4, <1>5 DEF Sound

-----------------------------------------------------------------------------
\* An answer may come after any of the nodes that end a turn.
LEMMA AnsweredSound ==
    ASSUME BudgetsFit, NEW t \in Turn, BudgetsKept(t), t.left = 0,
           t.requests <= MaxModelCalls, t.steps <= 3 * MaxToolRounds + 2,
           NEW answer \in Answers
    PROVE  Sound(Answered(t, answer))
<1> DEFINE u == [t EXCEPT !.answer = answer]
           e == Answered(t, answer)
<1>1. u \in Turn /\ SameCounts(u, t) /\ u.steps = t.steps /\ e = Enter(u, "answered")
  BY DEF Turn, SameCounts, Answered
<1> HIDE DEF u, e
<1>2. /\ e \in Turn /\ SameCounts(e, u) /\ e.at = "answered" /\ e.steps = u.steps + 1
  BY <1>1, EnterEffect
<1>3. e.steps <= 3 * MaxToolRounds + 3
  BY <1>1, <1>2, AgentAssumption DEF Turn
<1>4. PaceKept(e)
  BY <1>1, <1>2, <1>3 DEF PaceKept, Ended, SameCounts
<1>5. BudgetsKept(e)
  BY <1>1, <1>2 DEF BudgetsKept, SameCounts
<1> QED BY <1>2, <1>4, <1>5 DEF Sound, e

\* A turn that has its text has had a superstep for the finalizer left.
LEMMA LastStep ==
    ASSUME BudgetsFit, NEW t, Sound(t), t.at \in {"finalize", "repair"}
    PROVE  t.steps <= 3 * MaxToolRounds + 2
<1>1. t.rounds \in Nat /\ t.rounds <= MaxToolRounds /\ t.steps = 3 * t.rounds + 2
  BY DEF Sound, PaceKept, BudgetsKept, Turn
<1> QED BY <1>1, AgentAssumption

LEMMA FinalizeKeeps ==
    ASSUME BudgetsFit, IInv, FinalizeGrounding
    PROVE  Sound(turn')
<1> DEFINE t == [turn EXCEPT !.at = "repair", !.repaired = TRUE]
<1>1. /\ turn \in Turn /\ PaceKept(turn) /\ BudgetsKept(turn) /\ turn.at = "finalize"
      /\ turn.left = 0
  BY DEF IInv, Sound, BudgetsKept, FinalizeGrounding
<1>2. turn.requests <= MaxModelCalls /\ turn.steps <= 3 * MaxToolRounds + 2
  BY <1>1, RequestsWithin, LastStep DEF IInv
<1>3. \/ \E answer \in Answers : turn' = Answered(turn, answer)
      \/ turn' = t /\ turn.calls < MaxModelCalls
  <2>1. /\ FromClaims(turn.text) \in Answers /\ Prose(turn, turn.text) \in Answers
        /\ "fallback" \in Answers
    BY DEF FromClaims, Prose, Answers
  <2>2. turn' = IF Extractive(turn) THEN Answered(turn, FromClaims(turn.text))
                ELSE IF ~Uncited(turn) THEN Answered(turn, Prose(turn, turn.text))
                ELSE IF candidate = "P3" /\ turn.calls < MaxModelCalls
                     THEN t ELSE Answered(turn, "fallback")
    BY DEF FinalizeGrounding
  <2> HIDE DEF t
  <2> QED BY <2>1, <2>2
<1>4. CASE turn' = t /\ turn.calls < MaxModelCalls
  <2>1. /\ t \in Turn /\ SameCounts(t, turn) /\ t.at = "repair" /\ t.steps = turn.steps
    BY <1>1 DEF Turn, InGraph, SameCounts
  <2> HIDE DEF t
  <2>2. PaceKept(t)
    BY <1>1, <1>4, <2>1 DEF PaceKept, Ended, Over, SameCounts
  <2>3. BudgetsKept(t)
    BY <1>1, <2>1 DEF BudgetsKept, SameCounts
  <2> QED BY <1>4, <2>1, <2>2, <2>3 DEF Sound
<1>5. CASE \E answer \in Answers : turn' = Answered(turn, answer)
  BY <1>1, <1>2, <1>5, AnsweredSound
<1> HIDE DEF t
<1> QED BY <1>3, <1>4, <1>5

\* The call for the repair is one that the budget has left.
LEMMA RepairKeeps ==
    ASSUME BudgetsFit, IInv, NEW answer \in Generated, NEW addsNothing \in BOOLEAN,
           RepairCitation(answer, addsNothing)
    PROVE  Sound(turn')
<1> DEFINE asked == Asked(turn)
           text == IF answer.got /\ answer.calls = NoBatch THEN answer.text ELSE "blank"
           calls == IF text # "blank" THEN asked.calls + 1 ELSE asked.calls
           t == [asked EXCEPT !.calls = calls]
           said == IF text = "cited" /\ addsNothing THEN "cited" ELSE "fallback"
<1>1. /\ turn \in Turn /\ PaceKept(turn) /\ BudgetsKept(turn) /\ turn.at = "repair"
      /\ turn.left = 0
  BY DEF IInv, Sound, BudgetsKept, RepairCitation
<1>2. turn.requests + 1 <= MaxModelCalls /\ turn.steps <= 3 * MaxToolRounds + 2
  BY <1>1, RequestsWithin, LastStep DEF IInv
<1>3. /\ asked \in Turn /\ asked.requests = turn.requests + 1
      /\ asked.at = turn.at /\ asked.calls = turn.calls /\ asked.rounds = turn.rounds
      /\ asked.tools = turn.tools /\ asked.repairs = turn.repairs
      /\ asked.left = turn.left /\ asked.ran = turn.ran /\ asked.steps = turn.steps
  BY <1>1 DEF Asked, Turn
<1>4. turn' = Answered(t, said) /\ said \in Answers
  BY DEF RepairCitation, Answers
<1> HIDE DEF asked, text, said
<1>5. calls \in Nat
  BY <1>3 DEF Turn
<1> HIDE DEF calls
<1>6. t \in Turn
  BY <1>3, <1>5, CountersTyped
<1>7. /\ t.at = turn.at /\ t.requests = turn.requests + 1
      /\ t.rounds = turn.rounds /\ t.tools = turn.tools /\ t.repairs = turn.repairs
      /\ t.left = turn.left /\ t.ran = turn.ran /\ t.steps = turn.steps
  BY <1>3 DEF Turn
<1> HIDE DEF t
<1>8. BudgetsKept(t)
  BY <1>1, <1>7 DEF BudgetsKept
<1> QED BY <1>1, <1>2, <1>4, <1>6, <1>7, <1>8, AnsweredSound

\* The end of a turn leaves its counters alone.
LEMMA EndKeeps ==
    ASSUME BudgetsFit, IInv, NEW at \in Ended, turn.at \in Ended,
           turn' \in {[turn EXCEPT !.at = at], Failed(turn)}
    PROVE  Sound(turn')
<1> DEFINE t == [turn EXCEPT !.at = at]
<1>1. turn \in Turn /\ PaceKept(turn) /\ BudgetsKept(turn)
  BY DEF IInv, Sound
<1>2. /\ t \in Turn /\ SameCounts(t, turn) /\ t.at = at /\ t.steps = turn.steps
  BY <1>1 DEF Turn, Ended, SameCounts
<1> HIDE DEF t
<1>3. PaceKept(t)
  BY <1>1, <1>2 DEF PaceKept, Ended, Over, SameCounts
<1>4. BudgetsKept(t)
  BY <1>1, <1>2 DEF BudgetsKept, SameCounts, Ended, Over
<1>5. Sound(t)
  BY <1>2, <1>3, <1>4 DEF Sound
<1> QED BY <1>1, <1>5, RequestsWithin, FailedSound DEF IInv, t

-----------------------------------------------------------------------------
LEMMA InitIInv ==
    ASSUME BudgetsFit, Init
    PROVE  IInv
<1>1. 0 \in Nat
  OBVIOUS
<1> QED BY <1>1, NewTurnSound DEF Init, AgentInit, IInv

LEMMA AgentStepKeeps ==
    ASSUME BudgetsFit, IInv, AgentStep
    PROVE  IInv'
<1>1. CASE \E found \in BOOLEAN : Retrieve(found)
  BY <1>1, RetrieveKeeps DEF IInv, Retrieve
<1>2. CASE \E answer \in Generated : ModelCall(answer)
  BY <1>2, ModelCallKeeps DEF IInv, ModelCall
<1>3. CASE ValidateToolCalls
  BY <1>3, ValidateKeeps DEF IInv, ValidateToolCalls
<1>4. CASE \E result \in ToolResults : ExecuteTool(result)
  BY <1>4, ExecuteKeeps DEF IInv, ExecuteTool
<1>5. CASE EndRound
  BY <1>5, EndRoundKeeps DEF IInv, EndRound
<1>6. CASE FinalizeGrounding
  BY <1>6, FinalizeKeeps DEF IInv, FinalizeGrounding
<1>7. CASE \E answer \in Generated, addsNothing \in BOOLEAN :
               RepairCitation(answer, addsNothing)
  BY <1>7, RepairKeeps DEF IInv, RepairCitation
<1>8. CASE Interrupt
  <2>1. Sound(turn')
    BY <1>8, RequestsWithin, FailedSound DEF Interrupt, IInv, Sound
  <2> QED BY <1>8, <2>1 DEF IInv, Interrupt
<1>9. CASE \E ending \in {"stored", "unread", "unwritten"} : WriteTrace(ending)
  <2>1. Sound(turn')
    BY <1>9, EndKeeps DEF WriteTrace, Ended
  <2>2. turn.id \in Nat
    BY DEF IInv, Sound, Turn
  <2> QED BY <1>9, <2>1, <2>2 DEF IInv, WriteTrace
<1>10. CASE \E commits \in BOOLEAN : CompleteTurn(commits)
  <2>1. Sound(turn')
    BY <1>10, EndKeeps DEF CompleteTurn, Ended, Over
  <2> QED BY <1>10, <2>1 DEF IInv, CompleteTurn
<1> QED
  BY <1>1, <1>2, <1>3, <1>4, <1>5, <1>6, <1>7, <1>8, <1>9, <1>10 DEF AgentStep

\* A campaign only asks for new turns.
LEMMA CampaignsAsk ==
    ASSUME EvaluationNext \/ GroundedNext
    PROVE  \/ UNCHANGED agentVars
           \/ turn' = NewTurn(turn.id + 1, "retrieve") /\ UNCHANGED <<candidate, sidecars>>
<1>1. CASE EvaluationNext
  BY <1>1 DEF EvaluationNext, StartBaseline, Ask, Observe, AddResult, CompleteRun,
              OpenBundle, WriteBundle, Promote, Finalize, QuotaExceeded, StopOnError,
              StopByHand, Kill, Smoke
<1>2. CASE GroundedNext
  BY <1>2 DEF GroundedNext, Launch, Post, Respond, AppendRecord, Block, Die, Score,
              Summarise, CloseOut, CorrectRecords, CorrectSidecar, RecordCorrection,
              UndoCorrection, RefreshSummary, RepositoryStep, Edit,
              Commit, CiSucceeds, agentVars
<1> QED BY <1>1, <1>2

LEMMA StepKeeps ==
    ASSUME BudgetsFit, IInv, [Next]_vars
    PROVE  IInv'
<1>1. CASE AgentStep
  BY <1>1, AgentStepKeeps
<1>2. CASE UNCHANGED agentVars
  BY <1>2 DEF agentVars, IInv, Sound, PaceKept, BudgetsKept
<1>3. CASE turn' = NewTurn(turn.id + 1, "retrieve") /\ UNCHANGED <<candidate, sidecars>>
  <2>1. turn.id + 1 \in Nat
    BY DEF IInv, Sound, Turn
  <2> QED BY <1>3, <2>1, NewTurnSound DEF IInv
<1> QED BY <1>1, <1>2, <1>3, CampaignsAsk DEF Next, vars

\* Where a turn stands, what it was asked and what it spent agree in every
\* reachable state.
THEOREM InvariantHolds == ASSUME BudgetsFit PROVE Spec => []IInv
  BY InitIInv, StepKeeps, PTL DEF Spec

\* What the retry policy of reads says holds of every pair of answers.
LEMMA PolicyFollowed == ReadsFollowPolicy
<1> SUFFICES ASSUME NEW e \in Exchanges
             PROVE  /\ Settled(e) = IF Retryable(e.first) THEN e.second ELSE e.first
                    /\ ReadAs(Settled(e), e.garbled) \in Told =>
                           {e.first, e.second} \cap {"ok", "missing"} # {}
  BY DEF ReadsFollowPolicy
<1>1. Settled(e) = IF Retryable(e.first) THEN e.second ELSE e.first
  BY DEF Settled, Retryable, Silence
<1>2. Settled(e) \in {e.first, e.second} /\ Settled(e) \in Reply
  BY DEF Settled, Exchanges
<1>3. ReadAs(Settled(e), e.garbled) \in Told => Settled(e) \in {"ok", "missing"}
  BY <1>2 DEF ReadAs, Told, Reply, Silence, Answer
<1> QED BY <1>1, <1>2, <1>3

LEMMA InvBudgets ==
    ASSUME BudgetsFit, IInv
    PROVE  BudgetsHold
<1>1. turn \in Turn /\ PaceKept(turn) /\ BudgetsKept(turn)
  BY DEF IInv, Sound
<1>2. turn.requests <= MaxModelCalls
  BY RequestsWithin DEF IInv
<1>3. /\ turn.at \in InGraph \cup Ended
      /\ turn.steps \in Nat /\ turn.rounds \in Nat /\ turn.calls \in Nat
  BY <1>1 DEF Turn, Ended
<1>4. turn.at = "agent" => turn.calls < MaxModelCalls
  BY <1>1, <1>3, AgentAssumption DEF PaceKept, BudgetsKept, BudgetsFit
<1>5. turn.steps <= RecursionLimit
  BY <1>1, <1>3, AgentAssumption DEF PaceKept, BudgetsKept, BudgetsFit, InGraph
<1> QED BY <1>1, <1>2, <1>4, <1>5, PolicyFollowed DEF BudgetsHold, BudgetsKept

\* No schedule of answers, batches, repairs and errors overruns a budget of a
\* turn, for any budgets that fit together.
THEOREM TurnsKeepBudgets == ASSUME BudgetsFit PROVE Spec => []BudgetsHold
  BY InvariantHolds, InvBudgets, PTL

-----------------------------------------------------------------------------
\* A turn that is asked for has no answer yet, and one that failed has none at all.
LEMMA NewTurnHonest ==
    ASSUME NEW id \in Nat, NEW at \in {"idle", "retrieve"}
    PROVE  Honest(NewTurn(id, at))
<1> DEFINE t == NewTurn(id, at)
<1>1. /\ t \in Turn /\ t.at = at /\ ~t.entered /\ t.ran = 0 /\ t.requests = 0
      /\ t.tools = 0 /\ ~t.repaired
  BY DEF NewTurn, Turn, Answers, InGraph, Over
<1> HIDE DEF t
<1> QED BY <1>1 DEF Honest, t

LEMMA FailedHonest ==
    ASSUME NEW t \in Turn
    PROVE  Honest(Failed(t)) /\ Failed(t).at = "failed" /\ Failed(t).id = t.id
<1> DEFINE f == Failed(t)
<1>1. /\ f \in Turn /\ f.at = "failed" /\ f.id = t.id /\ ~f.entered /\ f.ran = 0
  BY DEF Failed, NewTurn, Turn, Answers, InGraph, Over
<1> HIDE DEF f
<1> QED BY <1>1 DEF Honest, f

LEMMA RetrieveHonest ==
    ASSUME TurnInv, NEW found \in BOOLEAN, Retrieve(found)
    PROVE  Honest(turn') /\ turn'.id = turn.id /\ turn'.at = "agent"
<1> DEFINE t == [turn EXCEPT !.evidence = found]
<1>1. turn \in Turn /\ turn.at = "retrieve"
  BY DEF TurnInv, Honest, Retrieve
<1>2. /\ t \in Turn /\ SameCounts(t, turn) /\ turn' = Enter(t, "agent")
      /\ t.id = turn.id /\ t.entered = turn.entered /\ t.repaired = turn.repaired
  BY <1>1 DEF Retrieve, Turn, SameCounts
<1> HIDE DEF t
<1>3. /\ turn' \in Turn /\ SameCounts(turn', t) /\ SameAnswer(turn', t)
      /\ turn'.at = "agent"
  BY <1>2, EnterEffect DEF InGraph
<1> QED BY <1>1, <1>2, <1>3 DEF TurnInv, Honest, SameCounts, SameAnswer

LEMMA ModelCallHonest ==
    ASSUME TurnInv, NEW answer \in Generated, ModelCall(answer)
    PROVE  /\ Honest(turn') /\ turn'.id = turn.id
           /\ turn'.at \in {"failed", "validate", "finalize"}
<1> DEFINE asked == Asked(turn)
           t == [asked EXCEPT !.calls = asked.calls + 1]
           batch == [t EXCEPT !.pending = answer.calls]
           said == [t EXCEPT !.text = answer.text]
<1>1. turn \in Turn /\ turn.at = "agent" /\ Honest(turn)
  BY DEF TurnInv, Honest, ModelCall
<1>2. answer.text \in Texts /\ answer.calls \in Batches \cup {NoBatch}
  BY GeneratedTyped
<1>3. /\ asked \in Turn /\ asked.requests = turn.requests + 1
      /\ asked.tools = turn.tools /\ asked.ran = turn.ran
      /\ SameAnswer(asked, turn)
  BY <1>1 DEF Asked, Turn, SameAnswer
<1>4. turn' = ModelNode(turn,
                IF ~answer.got THEN Failed(asked)
                ELSE IF answer.calls # NoBatch THEN Enter(batch, "validate")
                ELSE IF answer.text = "blank" /\ ~Extractive(turn) THEN Failed(asked)
                ELSE Enter(said, "finalize"))
  BY DEF ModelCall
<1> HIDE DEF asked
<1>5. /\ t \in Turn /\ t.requests = turn.requests + 1
      /\ t.tools = turn.tools /\ t.ran = turn.ran /\ SameAnswer(t, turn)
  BY <1>3 DEF Turn, SameAnswer
<1> HIDE DEF t
<1>6. /\ batch \in Turn /\ SameCounts(batch, t) /\ SameAnswer(batch, t)
      /\ batch.pending = answer.calls
      /\ said \in Turn /\ SameCounts(said, t) /\ said.text = answer.text
      /\ said.id = t.id /\ said.entered = t.entered /\ said.repaired = t.repaired
  BY <1>2, <1>5 DEF Turn, SameCounts, SameAnswer
<1> HIDE DEF batch, said
<1>7. \/ turn' \in {Failed(turn), Failed(asked)}
      \/ turn' = Enter(said, "finalize")
      \/ turn' = Enter(batch, "validate") /\ answer.calls # NoBatch
  BY <1>4 DEF ModelNode
<1>8. CASE turn' \in {Failed(turn), Failed(asked)}
  BY <1>1, <1>3, <1>8, FailedHonest DEF SameAnswer
<1>9. CASE turn' = Enter(said, "finalize")
  <2>1. /\ turn' \in Turn /\ SameCounts(turn', said) /\ SameAnswer(turn', said)
        /\ turn'.at = "finalize"
    BY <1>6, <1>9, EnterEffect DEF InGraph
  <2>2. turn.tools = 0 => turn.requests + 1 = 1
    BY <1>1 DEF Honest
  <2> QED BY <1>1, <1>2, <1>5, <1>6, <2>1, <2>2 DEF Honest, SameCounts, SameAnswer
<1>10. CASE turn' = Enter(batch, "validate") /\ answer.calls # NoBatch
  <2>1. /\ turn' \in Turn /\ SameCounts(turn', batch) /\ SameAnswer(turn', batch)
        /\ turn'.at = "validate" /\ turn'.pending = batch.pending
    BY <1>6, <1>10, EnterEffect DEF InGraph
  <2> QED BY <1>1, <1>2, <1>5, <1>6, <1>10, <2>1 DEF Honest, SameCounts, SameAnswer
<1> QED BY <1>7, <1>8, <1>9, <1>10

\* A batch that is validated is not empty, so a turn that executes has called a tool.
LEMMA ValidateHonest ==
    ASSUME TurnInv, ValidateToolCalls
    PROVE  Honest(turn') /\ turn'.id = turn.id /\ turn'.at \in {"failed", "execute"}
<1> DEFINE b == turn.pending
           size == b.valid + b.invalid
           t1 == [turn EXCEPT !.rounds = turn.rounds + 1]
           t2 == [t1 EXCEPT !.tools = turn.tools + size]
           t3 == [t2 EXCEPT !.repairs = IF b.invalid > 0 THEN turn.repairs + 1 ELSE turn.repairs]
           t4 == [t3 EXCEPT !.left = b.valid - b.shared]
<1>1. turn \in Turn /\ Honest(turn) /\ turn.at = "validate"
  BY DEF TurnInv, Honest, ValidateToolCalls
<1>2. /\ b.valid \in Nat /\ b.invalid \in Nat /\ b.shared \in Nat
      /\ b.shared <= b.valid /\ size > 0
  BY <1>1, BatchesAssumption DEF Honest
<1>3. CASE turn' = Failed(turn)
  BY <1>1, <1>3, FailedHonest
<1>4. CASE turn' # Failed(turn)
  <2>1. turn' = Enter(t4, "execute")
    BY <1>1, <1>4 DEF ValidateToolCalls, Validated, Turn
  <2>2. /\ turn.rounds + 1 \in Nat /\ turn.tools + size \in Nat
        /\ turn.repairs \in Nat /\ turn.repairs + 1 \in Nat
        /\ b.valid - b.shared \in Nat /\ turn.tools + size > 0
    BY <1>1, <1>2 DEF Turn
  <2>3. t1 \in Turn
    BY <1>1, <2>2, CountersTyped
  <2>4. t4 \in Turn
    <3> HIDE DEF t1, b, size
    <3>1. t2 \in Turn
      BY <2>2, <2>3, CountersTyped
    <3> HIDE DEF t2
    <3>2. t3 \in Turn
      BY <2>2, <3>1, CountersTyped
    <3> HIDE DEF t3
    <3> QED BY <2>2, <3>2, CountersTyped
  <2>5. t4.tools = turn.tools + size /\ t4.ran = turn.ran /\ SameAnswer(t4, turn)
    BY <1>1 DEF Turn, SameAnswer
  <2> HIDE DEF t4, b
  <2>6. /\ turn' \in Turn /\ SameCounts(turn', t4) /\ SameAnswer(turn', t4)
        /\ turn'.at = "execute"
    BY <2>1, <2>4, EnterEffect DEF InGraph
  <2> QED BY <1>1, <2>2, <2>5, <2>6 DEF Honest, SameCounts, SameAnswer
<1> QED BY <1>3, <1>4

LEMMA ExecuteHonest ==
    ASSUME TurnInv, NEW result, ExecuteTool(result)
    PROVE  Honest(turn') /\ turn'.id = turn.id /\ turn'.at \in {"failed", "execute"}
<1> DEFINE t1 == [turn EXCEPT !.left = turn.left - 1]
           t2 == [t1 EXCEPT !.ran = turn.ran + 1]
           t3 == [t2 EXCEPT !.entered = TRUE]
<1>1. /\ turn \in Turn /\ Honest(turn) /\ turn.at = "execute" /\ turn.left > 0
  BY DEF TurnInv, Honest, ExecuteTool
<1>2. turn.left - 1 \in Nat /\ turn.ran + 1 \in Nat /\ turn.ran + 1 > 0
  BY <1>1 DEF Turn
<1>3. t1 \in Turn
  BY <1>1, <1>2, CountersTyped
<1>4. t3 \in Turn
  <2> HIDE DEF t1
  <2>1. t2 \in Turn
    BY <1>2, <1>3, CountersTyped
  <2> HIDE DEF t2
  <2> QED BY <2>1 DEF Turn
<1>5. /\ t3.at = turn.at /\ t3.id = turn.id /\ t3.tools = turn.tools
      /\ t3.ran = turn.ran + 1 /\ t3.entered = TRUE /\ t3.repaired = turn.repaired
  BY <1>1 DEF Turn
<1>6. turn' \in {t3, Failed(t3)}
  BY <1>1 DEF ExecuteTool, Turn
<1> HIDE DEF t3
<1>7. Honest(t3)
  BY <1>1, <1>2, <1>4, <1>5 DEF Honest
<1> QED BY <1>1, <1>4, <1>5, <1>6, <1>7, FailedHonest

LEMMA EndRoundHonest ==
    ASSUME TurnInv, EndRound
    PROVE  Honest(turn') /\ turn'.id = turn.id /\ turn'.at = "agent"
<1> DEFINE t == [turn EXCEPT !.pending = NoBatch]
<1>1. turn \in Turn /\ Honest(turn) /\ turn.at = "execute"
  BY DEF TurnInv, Honest, EndRound
<1>2. /\ t \in Turn /\ SameCounts(t, turn) /\ SameAnswer(t, turn)
      /\ turn' = Enter(t, "agent")
  BY <1>1 DEF EndRound, Turn, SameCounts, SameAnswer
<1> HIDE DEF t
<1>3. /\ turn' \in Turn /\ SameCounts(turn', t) /\ SameAnswer(turn', t)
      /\ turn'.at = "agent"
  BY <1>2, EnterEffect DEF InGraph
<1>4. turn.tools # 0
  BY <1>1 DEF Honest, Turn
<1> QED BY <1>1, <1>2, <1>3, <1>4 DEF Honest, SameCounts, SameAnswer

\* An answer changes the place of the turn and nothing that it rests on.
LEMMA AnsweredEffect ==
    ASSUME NEW t \in Turn, NEW answer \in Answers
    PROVE  LET e == Answered(t, answer) IN
           /\ e \in Turn /\ e.at = "answered" /\ e.answer = answer /\ e.id = t.id
           /\ e.evidence = t.evidence /\ e.entered = t.entered
           /\ e.repaired = t.repaired /\ e.text = t.text
           /\ SameCounts(e, t)
<1> DEFINE u == [t EXCEPT !.answer = answer]
           e == Answered(t, answer)
<1>1. /\ u \in Turn /\ SameCounts(u, t) /\ e = Enter(u, "answered")
      /\ u.answer = answer /\ u.id = t.id /\ u.evidence = t.evidence
      /\ u.entered = t.entered /\ u.repaired = t.repaired /\ u.text = t.text
  BY DEF Turn, SameCounts, Answered
<1> HIDE DEF u, e
<1>2. e \in Turn /\ SameCounts(e, u) /\ SameAnswer(e, u) /\ e.at = "answered"
  BY <1>1, EnterEffect
<1> QED BY <1>1, <1>2 DEF SameCounts, SameAnswer, e

LEMMA FinalizeHonest ==
    ASSUME TurnInv, FinalizeGrounding
    PROVE  Honest(turn') /\ turn'.id = turn.id /\ turn'.at \in {"answered", "repair"}
<1> DEFINE t == [turn EXCEPT !.at = "repair", !.repaired = TRUE]
           answer == IF Extractive(turn) THEN FromClaims(turn.text)
                     ELSE IF ~Uncited(turn) THEN Prose(turn, turn.text) ELSE "fallback"
<1>1. /\ turn \in Turn /\ Honest(turn) /\ turn.at = "finalize"
  BY DEF TurnInv, Honest, FinalizeGrounding
<1>2. \/ turn' = Answered(turn, answer)
      \/ turn' = t /\ ~Extractive(turn) /\ Uncited(turn) /\ candidate = "P3"
  <2>1. turn' = IF Extractive(turn) THEN Answered(turn, FromClaims(turn.text))
                ELSE IF ~Uncited(turn) THEN Answered(turn, Prose(turn, turn.text))
                ELSE IF candidate = "P3" /\ turn.calls < MaxModelCalls
                     THEN t ELSE Answered(turn, "fallback")
    BY DEF FinalizeGrounding
  <2> HIDE DEF t
  <2> QED BY <2>1
<1>3. CASE turn' = t /\ ~Extractive(turn) /\ Uncited(turn) /\ candidate = "P3"
  <2>1. /\ t \in Turn /\ SameCounts(t, turn) /\ t.at = "repair" /\ t.repaired
        /\ t.id = turn.id /\ t.evidence = turn.evidence /\ t.entered = turn.entered
    BY <1>1 DEF Turn, InGraph, SameCounts
  <2> HIDE DEF t
  <2> QED BY <1>1, <1>3, <2>1 DEF Honest, SameCounts, Uncited
<1>4. CASE turn' = Answered(turn, answer)
  <2>1. /\ answer \in Answers /\ answer # "none"
        /\ Extractive(turn) => answer = FromClaims(turn.text)
        /\ ~Extractive(turn) =>
               answer # "validated" /\ (answer = "cited" => turn.evidence)
        /\ ~Extractive(turn) /\ Uncited(turn) => answer = "fallback"
        /\ ~Extractive(turn) /\ ~Uncited(turn) => answer = Prose(turn, turn.text)
    BY DEF FromClaims, Prose, Answers
  <2> HIDE DEF answer
  <2>2. /\ turn' \in Turn /\ turn'.at = "answered" /\ turn'.answer = answer
        /\ turn'.id = turn.id /\ turn'.evidence = turn.evidence
        /\ turn'.entered = turn.entered /\ turn'.repaired = turn.repaired
        /\ turn'.text = turn.text /\ SameCounts(turn', turn)
    BY <1>1, <1>4, <2>1, AnsweredEffect
  <2>3. Extractive(turn') = Extractive(turn)
    BY <2>2 DEF Extractive
  <2>4. candidate \in {"P2", "P3"} /\ turn.evidence /\ turn.tools = 0 =>
            answer \in {"cited", "fallback"}
    BY <2>1 DEF Uncited, Extractive
  <2>5. turn.text \in Texts /\ (turn.tools = 0 => turn.requests = 1)
        /\ ~turn.repaired /\ IF turn.entered THEN turn.ran > 0 ELSE turn.ran = 0
    BY <1>1 DEF Honest
  <2> QED BY <2>1, <2>2, <2>3, <2>4, <2>5 DEF Honest, SameCounts
<1> HIDE DEF t, answer
<1> QED BY <1>2, <1>3, <1>4

LEMMA RepairHonest ==
    ASSUME TurnInv, NEW answer \in Generated, NEW addsNothing \in BOOLEAN,
           RepairCitation(answer, addsNothing)
    PROVE  Honest(turn') /\ turn'.id = turn.id /\ turn'.at = "answered"
<1> DEFINE asked == Asked(turn)
           text == IF answer.got /\ answer.calls = NoBatch THEN answer.text ELSE "blank"
           calls == IF text # "blank" THEN asked.calls + 1 ELSE asked.calls
           t == [asked EXCEPT !.calls = calls]
           said == IF text = "cited" /\ addsNothing THEN "cited" ELSE "fallback"
<1>1. /\ turn \in Turn /\ Honest(turn) /\ turn.at = "repair"
  BY DEF TurnInv, Honest, RepairCitation
<1>2. /\ asked \in Turn /\ asked.requests = turn.requests + 1
      /\ asked.tools = turn.tools /\ asked.ran = turn.ran /\ SameAnswer(asked, turn)
  BY <1>1 DEF Asked, Turn, SameAnswer
<1>3. turn' = Answered(t, said) /\ said \in {"cited", "fallback"}
  BY DEF RepairCitation
<1> HIDE DEF asked, text, said
<1>4. calls \in Nat
  BY <1>2 DEF Turn
<1> HIDE DEF calls
<1>5. t \in Turn
  BY <1>2, <1>4, CountersTyped
<1>6. /\ t.requests = turn.requests + 1
      /\ t.tools = turn.tools /\ t.ran = turn.ran /\ SameAnswer(t, turn)
  BY <1>2 DEF Turn, SameAnswer
<1> HIDE DEF t
<1>7. /\ turn' \in Turn /\ turn'.at = "answered" /\ turn'.answer = said
      /\ turn'.id = t.id /\ turn'.evidence = t.evidence
      /\ turn'.entered = t.entered /\ turn'.repaired = t.repaired
      /\ turn'.text = t.text /\ SameCounts(turn', t)
  BY <1>3, <1>5, AnsweredEffect DEF Answers
<1>8. ~Extractive(turn')
  BY <1>1 DEF Honest, Extractive
<1>9. turn.requests + 1 = 2
  BY <1>1 DEF Honest
<1> QED BY <1>1, <1>3, <1>6, <1>7, <1>8, <1>9 DEF Honest, SameCounts, SameAnswer

\* The end of a turn leaves its answer alone.
LEMMA EndHonest ==
    ASSUME TurnInv, NEW at \in {"traced", "completed"},
           turn.at \in {"answered", "traced"}
    PROVE  LET t == [turn EXCEPT !.at = at]
           IN  Honest(t) /\ t.id = turn.id /\ t.at = at
<1> DEFINE t == [turn EXCEPT !.at = at]
<1>1. turn \in Turn /\ Honest(turn)
  BY DEF TurnInv, Honest
<1>2. /\ t \in Turn /\ SameCounts(t, turn) /\ SameAnswer(t, turn) /\ t.at = at
  BY <1>1 DEF Turn, SameCounts, SameAnswer, Over
<1> HIDE DEF t
<1>3. Extractive(t) = Extractive(turn)
  BY <1>2 DEF Extractive, SameAnswer
<1> QED BY <1>1, <1>2, <1>3 DEF Honest, SameCounts, SameAnswer, t

\* Only the trace store puts a turn among those with a file, and a turn that goes
\* on without one is not traced.
LEMMA AgentStepHonest ==
    ASSUME TurnInv, AgentStep
    PROVE  /\ TurnInv' /\ UNCHANGED candidate /\ turn'.id = turn.id
           /\ sidecars \subseteq sidecars'
           /\ ~TurnOver
<1>0. turn \in Turn /\ turn.id \in Nat
  BY DEF TurnInv, Honest, Turn
<1>1. ASSUME Honest(turn'), UNCHANGED candidate, turn'.id = turn.id,
             sidecars \subseteq sidecars', sidecars' \subseteq Nat, ~TurnOver,
             Traced /\ turn'.at \in {"traced", "completed"} => turn'.id \in sidecars'
      PROVE  /\ TurnInv' /\ UNCHANGED candidate /\ turn'.id = turn.id
             /\ sidecars \subseteq sidecars' /\ ~TurnOver
  BY <1>1 DEF TurnInv, Honest, Extractive, Traced
<1>2. CASE \E found \in BOOLEAN : Retrieve(found)
  BY <1>1, <1>2, RetrieveHonest DEF TurnInv, Retrieve, TurnOver, Over
<1>3. CASE \E answer \in Generated : ModelCall(answer)
  BY <1>1, <1>3, ModelCallHonest DEF TurnInv, ModelCall, TurnOver, Over
<1>4. CASE ValidateToolCalls
  BY <1>1, <1>4, ValidateHonest DEF TurnInv, ValidateToolCalls, TurnOver, Over
<1>5. CASE \E result \in ToolResults : ExecuteTool(result)
  BY <1>1, <1>5, ExecuteHonest DEF TurnInv, ExecuteTool, TurnOver, Over
<1>6. CASE EndRound
  BY <1>1, <1>6, EndRoundHonest DEF TurnInv, EndRound, TurnOver, Over
<1>7. CASE FinalizeGrounding
  BY <1>1, <1>7, FinalizeHonest DEF TurnInv, FinalizeGrounding, TurnOver, Over
<1>8. CASE \E answer \in Generated, addsNothing \in BOOLEAN :
               RepairCitation(answer, addsNothing)
  BY <1>1, <1>8, RepairHonest DEF TurnInv, RepairCitation, TurnOver, Over
<1>9. CASE Interrupt
  BY <1>0, <1>1, <1>9, FailedHonest DEF TurnInv, Interrupt, TurnOver, Over, InGraph
<1>10. CASE \E ending \in {"stored", "unread", "unwritten"} : WriteTrace(ending)
  <2>1. turn.at = "answered" /\ UNCHANGED candidate
    BY <1>10 DEF WriteTrace
  <2>2. \/ turn' = [turn EXCEPT !.at = "traced"] /\ sidecars' = sidecars \cup {turn.id}
        \/ turn' = Failed(turn) /\ sidecars' \in {sidecars, sidecars \cup {turn.id}}
    BY <1>10 DEF WriteTrace
  <2>3. sidecars' \subseteq Nat /\ sidecars \subseteq sidecars'
    BY <1>0, <2>2 DEF TurnInv
  <2>4. CASE turn' = [turn EXCEPT !.at = "traced"] /\ sidecars' = sidecars \cup {turn.id}
    BY <1>1, <2>1, <2>3, <2>4, EndHonest DEF TurnOver, Over
  <2>5. CASE turn' = Failed(turn)
    BY <1>0, <1>1, <2>1, <2>3, <2>5, FailedHonest DEF TurnOver, Over
  <2> QED BY <2>2, <2>4, <2>5
<1>11. CASE \E commits \in BOOLEAN : CompleteTurn(commits)
  <2>1. /\ turn.at = IF Traced THEN "traced" ELSE "answered"
        /\ UNCHANGED <<candidate, sidecars>>
        /\ turn' \in {[turn EXCEPT !.at = "completed"], Failed(turn)}
    BY <1>11 DEF CompleteTurn
  <2>2. CASE turn' = [turn EXCEPT !.at = "completed"]
    BY <1>1, <2>1, <2>2, EndHonest DEF TurnInv, TurnOver, Over
  <2>3. CASE turn' = Failed(turn)
    BY <1>0, <1>1, <2>1, <2>3, FailedHonest DEF TurnInv, TurnOver, Over
  <2> QED BY <2>1, <2>2, <2>3
<1> QED
  BY <1>2, <1>3, <1>4, <1>5, <1>6, <1>7, <1>8, <1>9, <1>10, <1>11 DEF AgentStep

LEMMA TurnStep ==
    ASSUME TurnInv, [Next]_vars
    PROVE  TurnInv'
<1>1. CASE AgentStep
  BY <1>1, AgentStepHonest
<1>2. CASE UNCHANGED agentVars
  BY <1>2 DEF agentVars, TurnInv, Honest, Extractive, Traced
<1>3. CASE turn' = NewTurn(turn.id + 1, "retrieve") /\ UNCHANGED <<candidate, sidecars>>
  <2>1. turn.id + 1 \in Nat
    BY DEF TurnInv, Honest, Turn
  <2>2. Honest(turn') /\ turn'.at = "retrieve"
    BY <1>3, <2>1, NewTurnHonest DEF NewTurn
  <2> QED BY <1>3, <2>2 DEF TurnInv, Honest, Extractive, Traced
<1> QED BY <1>1, <1>2, <1>3, CampaignsAsk DEF Next, vars

LEMMA InitTurnInv == Init => TurnInv
<1> SUFFICES ASSUME Init PROVE TurnInv
  OBVIOUS
<1>1. 0 \in Nat
  OBVIOUS
<1>2. Honest(turn) /\ turn.at = "idle"
  BY <1>1, NewTurnHonest DEF Init, AgentInit, NewTurn
<1> QED BY <1>2 DEF Init, AgentInit, TurnInv

\* What a turn has of evidence, tools and text agrees with where it stands, in
\* every reachable state and whatever the budgets are.
THEOREM TurnsStayHonest == Spec => []TurnInv
  BY InitTurnInv, TurnStep, PTL DEF Spec

\* Every part of a turn keeps its type.
THEOREM TypesHold == Spec => []AgentTypeOK
<1>1. TurnInv => AgentTypeOK
  BY DEF TurnInv, Honest, AgentTypeOK
<1> QED BY <1>1, TurnsStayHonest, PTL

-----------------------------------------------------------------------------
\* A response with no list of claims has none, and a claim fails the checks or not.
LEMMA FinalizedEffect ==
    ASSUME NEW r \in Response
    PROVE  LET f == Finalized(r) IN
           /\ f.parsed = IF r.form = "claims" THEN "yes" ELSE "no"
           /\ f.failure = IF r.form = "claims" THEN "none" ELSE r.form
           /\ f.claims = r.claims /\ f.rendered = Taken(r.claims)
           /\ f.fallback = FallbackReason(r)
           /\ DOMAIN f.checks = DOMAIN r.claims /\ DOMAIN f.reasons = DOMAIN r.claims
           /\ \A i \in DOMAIN r.claims : /\ f.checks[i] = Checked(r.claims[i])
                                         /\ f.reasons[i] = ValidatedClaim(r.claims[i])
           /\ ClaimsConsistent(f)
           /\ r.form \in {"blank", "not_json", "bad_schema", "claims"}
           /\ r.form # "claims" => r.claims = <<>> /\ f.rendered = {}
           /\ f.rendered = {} <=> \A i \in DOMAIN f.reasons : f.reasons[i] # "none"
<1> DEFINE f == Finalized(r)
<1>1. /\ f.parsed = IF r.form = "claims" THEN "yes" ELSE "no"
      /\ f.failure = IF r.form = "claims" THEN "none" ELSE r.form
      /\ f.claims = r.claims /\ f.rendered = Taken(r.claims)
      /\ f.fallback = FallbackReason(r)
      /\ f.checks = [i \in DOMAIN r.claims |-> Checked(r.claims[i])]
      /\ f.reasons = [i \in DOMAIN r.claims |-> ValidatedClaim(r.claims[i])]
  BY DEF Finalized, Parsed
<1> HIDE DEF f
<1>2. /\ DOMAIN f.checks = DOMAIN r.claims /\ DOMAIN f.reasons = DOMAIN r.claims
      /\ \A i \in DOMAIN r.claims : /\ f.checks[i] = Checked(r.claims[i])
                                    /\ f.reasons[i] = ValidatedClaim(r.claims[i])
  BY <1>1
<1>3. f.rendered = {i \in DOMAIN f.claims : f.reasons[i] = "none"}
  BY <1>1, <1>2 DEF Taken
<1>4. ClaimsConsistent(f)
  BY <1>1, <1>2, <1>3 DEF ClaimsConsistent, ValidatedClaim
<1>5. /\ r.form \in {"blank", "not_json", "bad_schema", "claims"}
      /\ r.form # "claims" => r.claims = <<>>
  BY DEF Response
<1>6. r.form # "claims" => f.rendered = {}
  BY <1>1, <1>3, <1>5
<1> QED BY <1>1, <1>2, <1>3, <1>4, <1>5, <1>6 DEF f

\* The four outcomes of a response.
LEMMA OutcomeEffect ==
    ASSUME NEW r \in Response
    PROVE  /\ Outcome(r) \in Outcomes
           /\ (Outcome(r) = "malformed") = (r.form # "claims")
           /\ r.form = "claims" => (Outcome(r) = "all_rejected") = (Taken(r.claims) = {})
           /\ FallbackReason(r) =
                  IF r.form # "claims" THEN r.form
                  ELSE IF Outcome(r) = "validated" THEN "none"
                  ELSE IF Outcome(r) = "all_rejected" THEN "all_claims_rejected"
                  ELSE "citation_finalizer_rejected_claims"
  BY DEF Outcome, Outcomes, FallbackReason, Parsed, Response

LEMMA P4Passes ==
    ASSUME NEW mode \in Modes, ~(mode.active /\ mode.entered), NEW r \in Response
    PROVE  P4Accepts(P4Report(mode, r)) /\ ScorerAccepts(P4Report(mode, r))
<1> DEFINE f == Finalized(r)
           d == P4Report(mode, r)
<1>1. /\ d.mode = mode /\ d.why = ModeReason(mode, r)
      /\ mode.active => d.response = f
      /\ ~mode.active => d.response = NotApplicable
  BY DEF P4Report
<1>2. mode.active \in BOOLEAN /\ mode.entered \in BOOLEAN
  BY DEF Modes
<1> HIDE DEF d
<1>3. CASE ~mode.active
  <2>1. ClaimsConsistent(NotApplicable)
    BY DEF ClaimsConsistent, NotApplicable
  <2>2. d.why = IF mode.entered THEN "terminal_tool_answer_bypassed_validator"
                ELSE "no_selected_knowledge_evidence"
    BY <1>1, <1>2, <1>3 DEF ModeReason
  <2>3. P4Accepts(d)
    BY <1>1, <1>2, <1>3, <2>1, <2>2 DEF P4Accepts
  <2>4. ScorerAccepts(d)
    BY <1>1, <1>2, <1>3, <2>2 DEF ScorerAccepts
  <2> QED BY <2>3, <2>4 DEF d
<1>4. CASE mode.active
  <2>1. ~mode.entered /\ d.response = f
    BY <1>1, <1>4
  <2>2. d.why = IF r.form # "claims" THEN "malformed_or_invalid_structured_knowledge_output"
                ELSE IF Taken(r.claims) = {} THEN "all_claims_rejected_safe_fallback"
                ELSE "terminal_knowledge_answer_validated"
    BY <1>1, <1>4, <2>1, OutcomeEffect DEF ModeReason, Parsed
  <2>3. P4Accepts(d)
    BY <1>1, <1>4, <2>1, <2>2, FinalizedEffect, OutcomeEffect DEF P4Accepts, Silent
  <2>4. ScorerAccepts(d)
    BY <1>1, <1>4, <2>1, <2>2, FinalizedEffect DEF ScorerAccepts
  <2> QED BY <2>3, <2>4 DEF d
<1> QED BY <1>3, <1>4

\* P5's diagnosis of an answer in the words of P4.
LEMMA SharedIsP4 ==
    ASSUME NEW mode \in Modes, ~(mode.active /\ mode.entered), NEW r \in Response
    PROVE  Shared(P5Report(mode, r)) = P4Report(mode, r)
<1> DEFINE f == IF mode.active THEN Finalized(r) ELSE NotApplicable
           d == P5Report(mode, r)
           parsed == IF d.schema = "no" THEN "no" ELSE d.json
           failure == IF d.schema = "no" THEN "bad_schema" ELSE d.jsonFailure
           why == IF mode.entered        THEN "terminal_tool_answer_bypassed_validator"
                  ELSE IF ~mode.active   THEN "no_selected_knowledge_evidence"
                  ELSE IF d.schema # "yes" THEN "malformed_or_invalid_structured_knowledge_output"
                  ELSE IF \A i \in DOMAIN f.reasons : f.reasons[i] # "none"
                       THEN "all_claims_rejected_safe_fallback"
                  ELSE "terminal_knowledge_answer_validated"
<1>1. /\ d.mode = mode /\ d.response = f
      /\ d.json = IF f.failure = "bad_schema" THEN "yes" ELSE f.parsed
      /\ d.jsonFailure = IF f.failure = "bad_schema" THEN "none" ELSE f.failure
      /\ d.schema = IF f.failure = "bad_schema" THEN "no"
                    ELSE IF f.parsed = "yes" THEN "yes" ELSE "none"
  BY DEF P5Report
<1>2. mode.active \in BOOLEAN /\ mode.entered \in BOOLEAN
  BY DEF Modes
<1>3. /\ mode.active => f = Finalized(r)
      /\ ~mode.active => f = NotApplicable
  OBVIOUS
<1>4. f = [parsed |-> f.parsed, failure |-> f.failure, claims |-> f.claims,
           checks |-> f.checks, reasons |-> f.reasons, rendered |-> f.rendered,
           fallback |-> f.fallback]
  BY DEF Finalized, NotApplicable
<1>5. Shared(d) = [mode |-> mode, why |-> why,
                   response |-> [f EXCEPT !.parsed = parsed, !.failure = failure]]
  BY <1>1 DEF Shared
<1>6. P4Report(mode, r) = [mode |-> mode, why |-> ModeReason(mode, r), response |-> f]
  BY DEF P4Report
<1> HIDE DEF d, f
<1>7. parsed = f.parsed /\ failure = f.failure
  BY <1>1, <1>3, FinalizedEffect DEF NotApplicable
<1>8. why = ModeReason(mode, r)
  <2>1. CASE ~mode.active
    BY <1>2, <2>1 DEF ModeReason
  <2>2. CASE mode.active
    <3>1. /\ f.parsed = IF r.form = "claims" THEN "yes" ELSE "no"
          /\ f.failure = IF r.form = "claims" THEN "none" ELSE r.form
          /\ (\A i \in DOMAIN f.reasons : f.reasons[i] # "none") <=> Taken(r.claims) = {}
      BY <1>3, <2>2, FinalizedEffect
    <3>2. (d.schema = "yes") <=> (r.form = "claims")
      BY <1>1, <3>1
    <3>3. (Outcome(r) = "all_rejected") <=> (r.form = "claims" /\ Taken(r.claims) = {})
      BY OutcomeEffect
    <3> QED BY <1>2, <2>2, <3>1, <3>2, <3>3 DEF ModeReason, Parsed
  <2> QED BY <1>2, <2>1, <2>2
<1> HIDE DEF parsed, failure, why
<1>9. [f EXCEPT !.parsed = parsed, !.failure = failure] = f
  BY <1>4, <1>7
<1> QED BY <1>5, <1>6, <1>8, <1>9 DEF d

LEMMA P5Passes ==
    ASSUME NEW mode \in Modes, ~(mode.active /\ mode.entered), NEW r \in Response
    PROVE  P5Accepts(P5Report(mode, r)) /\ ScorerAccepts(Shared(P5Report(mode, r)))
<1> DEFINE f == IF mode.active THEN Finalized(r) ELSE NotApplicable
           d == P5Report(mode, r)
<1>1. /\ d.mode = mode /\ d.response = f
      /\ d.json = IF f.failure = "bad_schema" THEN "yes" ELSE f.parsed
      /\ d.jsonFailure = IF f.failure = "bad_schema" THEN "none" ELSE f.failure
      /\ d.schema = IF f.failure = "bad_schema" THEN "no"
                    ELSE IF f.parsed = "yes" THEN "yes" ELSE "none"
  BY DEF P5Report
<1>2. mode.active \in BOOLEAN /\ mode.entered \in BOOLEAN
  BY DEF Modes
<1>3. /\ mode.active => f = Finalized(r)
      /\ ~mode.active => f = NotApplicable
  OBVIOUS
<1> HIDE DEF d, f
<1>4. CASE ~mode.active
  <2>1. ClaimsConsistent(NotApplicable)
    BY DEF ClaimsConsistent, NotApplicable
  <2>2. d.json = "none" /\ d.jsonFailure = "none" /\ d.schema = "none"
    BY <1>1, <1>3, <1>4 DEF NotApplicable
  <2> QED BY <1>1, <1>3, <1>4, <2>1, <2>2, P4Passes, SharedIsP4 DEF P5Accepts, d
<1>5. CASE mode.active
  <2>1. P5Accepts(d)
    BY <1>1, <1>3, <1>5, FinalizedEffect, OutcomeEffect DEF P5Accepts, Silent
  <2> QED BY <2>1, P4Passes, SharedIsP4 DEF d
<1> QED BY <1>4, <1>5

\* What the three programs check of a diagnosis holds of every diagnosis that the
\* finalizer writes.
LEMMA CandidatesDoAgree == CandidatesAgree
<1> SUFFICES ASSUME NEW r \in Response
             PROVE  /\ Shared(P5Report([active |-> TRUE, entered |-> FALSE], r))
                           = P4Report([active |-> TRUE, entered |-> FALSE], r)
                    /\ (Outcome(r) = "validated") = (Finalized(r).fallback = "none")
                    /\ \A i \in Finalized(r).rendered :
                           /\ r.claims[i].handle = "supplied"
                           /\ r.claims[i].excerpt = "source"
                           /\ r.claims[i].text # "beyond"
  BY DEF CandidatesAgree
<1>1. [active |-> TRUE, entered |-> FALSE] \in Modes
  BY DEF Modes
<1>2. (Outcome(r) = "validated") = (Finalized(r).fallback = "none")
  BY FinalizedEffect, OutcomeEffect DEF Outcomes
<1>3. ASSUME NEW i \in Finalized(r).rendered
      PROVE  /\ r.claims[i].handle = "supplied" /\ r.claims[i].excerpt = "source"
             /\ r.claims[i].text # "beyond"
  <2>1. i \in DOMAIN r.claims /\ ValidatedClaim(r.claims[i]) = "none"
    BY <1>3, FinalizedEffect DEF Taken
  <2>2. r.claims \in {<<>>} \cup Seq(Claim)
    <3>1. ASSUME NEW m \in 0 .. 2, NEW c \in [1 .. m -> Claim] PROVE c \in Seq(Claim)
      OBVIOUS
    <3> QED BY <3>1 DEF Response, BoundedSeq, SeqOf
  <2>3. r.claims[i] \in Claim
    BY <2>1, <2>2
  <2> QED BY <2>1, <2>3 DEF ValidatedClaim, ReasonFor, Checked, Claim
<1> QED BY <1>1, <1>2, <1>3, SharedIsP4

\* The diagnosis of a turn whose mode is that of its graph passes every check.
LEMMA DiagnosisPasses ==
    ASSUME NEW t \in Turn, t.text \in Texts \/ ~Extractive(t)
    PROVE  /\ Diagnosis(t) \in Diagnoses
           /\ Diagnosis(t) \in P4Storable \cap P4Scorable
           /\ Diagnosis(t) \in P5Storable \cap P5Scorable
<1> DEFINE d == Diagnosis(t)
<1>1. d.mode.active = Extractive(t) /\ d.mode.entered = t.entered
  BY DEF Diagnosis
<1>2. t.evidence \in BOOLEAN /\ t.entered \in BOOLEAN
  BY DEF Turn
<1>3. d.mode \in Modes /\ ~(d.mode.active /\ d.mode.entered)
  BY <1>2 DEF Diagnosis, Modes, Extractive
<1>4. d = [mode |-> d.mode, outcome |-> d.outcome] /\ d.outcome \in Outcomes
  BY DEF Diagnosis, Outcomes, Claims
<1> HIDE DEF d
<1>5. d \in Diagnoses
  BY <1>3, <1>4 DEF Diagnoses
<1>6. ASSUME NEW r \in Behind(d.outcome) PROVE r \in Response
  BY DEF Behind
<1>7. d \in P4Storable /\ d \in P4Scorable
  BY <1>3, <1>5, <1>6, P4Passes DEF P4Storable, P4Scorable
<1>8. d \in P5Storable /\ d \in P5Scorable
  BY <1>3, <1>5, <1>6, P5Passes DEF P5Storable, P5Scorable
<1> QED BY <1>5, <1>7, <1>8 DEF d

\* What the record of a turn infers from its requests is whether it was repaired.
LEMMA RepairIsSeen ==
    ASSUME TurnInv, turn.at \in {"answered", "traced", "completed"}
    PROVE  RepairSeen(turn) = [attempted |-> turn.repaired,
                               succeeded |-> turn.repaired /\ turn.answer = "cited"]
<1> DEFINE attempted ==
        candidate = "P3" /\ turn.evidence /\ turn.tools = 0 /\ turn.requests > 1
<1>1. /\ turn.repaired \in BOOLEAN /\ turn.evidence \in BOOLEAN
      /\ turn.repaired => candidate = "P3" /\ turn.evidence /\ turn.tools = 0
      /\ turn.tools = 0 => turn.requests = IF turn.repaired THEN 2 ELSE 1
  BY DEF TurnInv, Honest, Turn
<1>2. CASE turn.repaired
  <2>1. turn.requests > 1 /\ candidate = "P3" /\ turn.evidence /\ turn.tools = 0
    BY <1>1, <1>2
  <2>2. attempted = TRUE /\ turn.repaired = TRUE
    BY <1>1, <1>2, <2>1
  <2> HIDE DEF attempted
  <2>3. RepairSeen(turn) = [attempted |-> attempted,
                            succeeded |-> attempted /\ turn.answer = "cited"]
    BY DEF RepairSeen, attempted
  <2> QED BY <2>2, <2>3
<1>3. CASE ~turn.repaired
  <2>1. turn.tools = 0 => ~(turn.requests > 1)
    BY <1>1, <1>3
  <2>2. attempted = FALSE /\ turn.repaired = FALSE
    BY <1>1, <1>3, <2>1
  <2> HIDE DEF attempted
  <2>3. RepairSeen(turn) = [attempted |-> attempted,
                            succeeded |-> attempted /\ turn.answer = "cited"]
    BY DEF RepairSeen, attempted
  <2> QED BY <2>2, <2>3
<1> QED BY <1>2, <1>3

LEMMA InvAnswers ==
    ASSUME TurnInv
    PROVE  AnswersAreHonest
<1> SUFFICES ASSUME turn.at \in {"answered", "traced", "completed"}
             PROVE  /\ turn.answer \in {"cited", "validated"} => turn.evidence
                    /\ turn.answer = "validated" => turn.ran = 0
                    /\ turn.evidence /\ turn.tools = 0 /\ candidate \in {"P2", "P3"} =>
                           turn.answer \in {"cited", "fallback"}
                    /\ turn.evidence /\ turn.ran = 0 /\ Traced =>
                           turn.answer \in {"validated", "fallback"}
                    /\ Traced => /\ Diagnosis(turn) \in Storable \cap Scorable
                                 /\ (turn.answer = "validated")
                                        = (Extractive(turn)
                                           /\ Diagnosis(turn).outcome = "validated")
                    /\ RepairSeen(turn) = [attempted |-> turn.repaired,
                                           succeeded |-> turn.repaired /\ turn.answer = "cited"]
  BY CandidatesDoAgree DEF AnswersAreHonest
<1>1. /\ turn \in Turn /\ turn.evidence \in BOOLEAN /\ turn.entered \in BOOLEAN
      /\ turn.ran \in Nat
      /\ IF turn.entered THEN turn.ran > 0 ELSE turn.ran = 0
      /\ IF Extractive(turn) THEN turn.answer = FromClaims(turn.text) /\ turn.text \in Texts
         ELSE turn.answer # "validated" /\ (turn.answer = "cited" => turn.evidence)
      /\ candidate \in {"P2", "P3"} /\ turn.evidence /\ turn.tools = 0 =>
             turn.answer \in {"cited", "fallback"}
  BY DEF TurnInv, Honest, Turn
<1>2. turn.entered <=> turn.ran # 0
  BY <1>1
<1>3. (turn.answer = "validated") =
          (Extractive(turn) /\ Diagnosis(turn).outcome = "validated")
  <2>1. CASE Extractive(turn)
    <3>1. Diagnosis(turn).outcome = IF turn.text \in Claims THEN turn.text ELSE "malformed"
      BY <2>1 DEF Diagnosis
    <3> QED BY <1>1, <2>1, <3>1 DEF FromClaims, Claims
  <2>2. CASE ~Extractive(turn)
    BY <1>1, <2>2
  <2> QED BY <2>1, <2>2
<1>4. Diagnosis(turn) \in Storable \cap Scorable
  BY <1>1, DiagnosisPasses DEF Storable, Scorable
<1>5. turn.answer \in {"cited", "validated"} => turn.evidence
  BY <1>1 DEF Extractive
<1>6. turn.answer = "validated" => turn.ran = 0
  BY <1>1, <1>2 DEF Extractive
<1>7. turn.evidence /\ turn.ran = 0 /\ Traced => turn.answer \in {"validated", "fallback"}
  BY <1>1, <1>2 DEF Extractive, Traced, FromClaims
<1> QED BY <1>1, <1>3, <1>4, <1>5, <1>6, <1>7, RepairIsSeen

\* What the finalizer lets out is what the answer says of itself, whatever the
\* model, the tools and the budgets are: an answer with citations had evidence, no
\* candidate lets an answer out that its mode forbids, and every diagnosis passes
\* the trace store and the scorer.
THEOREM AnswersStayHonest == Spec => []AnswersAreHonest
  BY TurnsStayHonest, InvAnswers, PTL
=============================================================================
