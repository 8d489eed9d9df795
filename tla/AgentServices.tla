--------------------------- MODULE AgentServices ---------------------------
(***************************************************************************)
(* The two services a turn of the agent talks to, as their clients read    *)
(* them: the LLM gateway (llm/litellm.py) and NovaCommerce, asked by the   *)
(* tools (tools/, CommerceClient._get).  An exchange is whatever may come  *)
(* back over the network; what the graph goes on with is far less.         *)
(***************************************************************************)
EXTENDS Naturals, FiniteSets

CONSTANTS
    Batches          \* the batches of tool calls a model may ask for

ASSUME BatchesAssumption ==
    /\ Batches \subseteq [valid : Nat, invalid : Nat, shared : Nat]
    /\ \A b \in Batches : /\ b.valid + b.invalid > 0
                          /\ b.shared <= b.valid
                          /\ b.invalid = 0 => b.shared = 0

NoBatch == [valid |-> 0, invalid |-> 0, shared |-> 0]

\* What a text is to the two finalizers: "cited" carries handles of the evidence,
\* "forged" a handle of nothing; the last three parse as a list of claims, which
\* fares as its name says.
Claims == {"all_rejected", "validated", "refused"}
Texts == {"blank", "plain", "cited", "forged"} \cup Claims

\* An answer is known by its status: 2xx or 3xx, 401 or 403, 404, 429, the rest of
\* 4xx, 502 to 504, and the rest of 5xx.
Silence == {"timeout", "transport"}
Answer == {"ok", "denied", "missing", "limited", "rejected", "down", "failed"}

-----------------------------------------------------------------------------
\* A message of the gateway: a text, tool calls, both, or neither; a call may be no
\* function call or have arguments that are no object; the accounting (usage, cost,
\* names of the model) may be ill-typed.
Message == [text : Texts, calls : Batches \cup {NoBatch},
            callsParse : BOOLEAN, accounted : BOOLEAN]
Exchange == [status : Silence \cup Answer]
            \cup [status : {"ok"}, message : Message]

Posted(x) == x.status = "ok"

\* Content that is no string fails like a choice that is no object.
Shaped(x) == "message" \in DOMAIN x
CallsParsed(message) == message.calls = NoBatch \/ message.callsParse
Accounted(message) == message.accounted

\* LiteLLMClient.generate
Generate(x) ==
    IF Posted(x) /\ Shaped(x) /\ CallsParsed(x.message) /\ Accounted(x.message)
    THEN [got |-> TRUE, text |-> x.message.text, calls |-> x.message.calls]
    ELSE [got |-> FALSE, text |-> "blank", calls |-> NoBatch]

Generated == {Generate(x) : x \in Exchange}

-----------------------------------------------------------------------------
Tools == [asks : {"order", "catalog", "proposal"}, retries : BOOLEAN]
\* The ten tools: reads of a customer's order, reads of the catalog and of the
\* slots, and proposals, which the registry declares not to be retried.
Registry == {t \in Tools : t.retries = (t.asks # "proposal")}

\* The identity of the turn: the tenant that the client serves, and a customer.
Scopes == [tenant : BOOLEAN, customer : BOOLEAN]

\* "garbled" is an answer whose body is not what was asked for.
Reply == Silence \cup Answer
Exchanges == [first : Reply, second : Reply, garbled : BOOLEAN]

\* RetryPolicy.commerce_read, which the tools that read declare and nothing obeys.
Retryable(reply) == reply \in Silence \cup {"down"}

\* CommerceClient._get: the same, as the client has it.
Settled(e) == IF e.first \in {"timeout", "transport", "down"} THEN e.second ELSE e.first

\* _raise_for_status, _parse
ReadAs(reply, garbled) ==
    CASE reply = "timeout"                                    -> "timeout"
      [] reply \in {"transport", "limited", "down", "failed"} -> "unavailable"
      [] reply = "denied"                                     -> "authentication"
      [] reply = "missing"                                    -> "not_found"
      [] reply = "rejected"                                   -> "protocol"
      [] reply = "ok" -> IF garbled THEN "protocol" ELSE "ok"

\* _require_commerce_tenant, _trusted_customer_id; ActionProposalService.propose asks
\* the same of a proposal.
Refused(tool, scope) ==
    IF ~scope.tenant THEN "not_found"
    ELSE IF tool.asks # "catalog" /\ ~scope.customer THEN "customer_required"
    ELSE "no"

\* A proposal may also be refused, by what is in flight or by the database, after all
\* that it read.
ProposalEndings == {"ok", "error"}

\* Stage6ToolRegistry.execute
Execute(tool, scope, e, ending) ==
    LET read == ReadAs(Settled(e), e.garbled)
    IN  IF Refused(tool, scope) # "no" THEN Refused(tool, scope)
        ELSE IF read = "ok" /\ tool.asks = "proposal" THEN ending
        ELSE read

ToolResults ==
    {Execute(tool, scope, e, ending) :
        tool \in Registry, scope \in Scopes, e \in Exchanges, ending \in ProposalEndings}

\* The results that the model is told, every other one ends the turn.
Told == {"ok", "not_found", "customer_required"}

\* The retry policy of reads is written down twice, with the tools and in the client,
\* and only the latter is obeyed: a read is repeated just when its tool says so, never
\* after an answer; and what a tool tells of an order rests on an answer.
ReadsFollowPolicy ==
    \A e \in Exchanges :
        /\ Settled(e) = IF Retryable(e.first) THEN e.second ELSE e.first
        /\ ReadAs(Settled(e), e.garbled) \in Told =>
               {e.first, e.second} \cap {"ok", "missing"} # {}
=============================================================================
