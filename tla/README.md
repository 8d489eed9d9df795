# A verification project for VerbaOps

VerbaOps lets an LLM agent answer customers of an online shop by chat and by voice, and
lets it *propose* writes to the shop's system, NovaCommerce. A proposed write becomes an
**action request**: policy rules, the customer and, where required, a supervisor decide
on it, and one API request handler then sends it to NovaCommerce under an idempotency
key. The answers of the agent rest on evidence out of a knowledge base and are measured
by evaluation runs that are interrupted and resumed. These modules say what the code
promises about that, check it on small instances with TLC, and prove it for any number
of concurrent handlers with TLAPS.

Paths below are relative to the repository root (`src/verbaops/...`,
`src/novacommerce/...`, `scripts/...`).

## 1. The system

| Component | Code | State it keeps | Operations | What is hard | What makes it correct |
|---|---|---|---|---|---|
| Action lifecycle | `actions/transitions.py`, `repository.py` | rows of `action_requests`: state, policy, human gates, expiry, execution lease, resource id; events | record policy, confirm, reject, approve, decline, expire, supersede, claim, recover, record response, record outcome | any number of handlers race on one row; each transaction locks it, nothing is locked between transactions | gates before dispatch; terminal states final; only the lease owner records an execution |
| Human decisions | `actions/decisions.py` | none of its own | confirm, reject, supervisor decision, view | fresh shop reads between reading the row and deciding; losers of a race continue with the winner's row | a called-off action is never sent |
| Executor | `actions/executor.py` | in the coroutine: what it knows of its write | load, refresh, claim, send (one retry if never sent), record, verify, settle | crash or timeout at every await | at most one effect; failure means not applied |
| Reconciler | `actions/reconciliation.py` | as above | recover a lapsed lease, claim, read back, replay, settle | two reconcilers after a lapsed lease; late first request | unknown outcomes eventually settle; success is real |
| Proposals | `actions/proposals.py`, `repository.py` | none of its own | create or get, supersede, apply policy | two proposals race; a late denial meets a confirmed row | one live action per conversation and targets |
| Policy and fingerprints | `actions/policy.py`, `refunds.py`, `fingerprints.py` | none | preflight, gates, fingerprint | the same rules are written down again in NovaCommerce | what the policy allows is carried out; one fingerprint, one gate |
| Verification | `actions/verification.py` | none | compare the shop's state with the proposal | reads are not atomic with the write | an action carried out is verified |
| Commerce client | `commerce/client.py`, `errors.py` | none | reads, idempotent writes | which HTTP answers are definite | not sent, rejected, accepted and ambiguous are told apart |
| NovaCommerce idempotency | `novacommerce/idempotency.py` | idempotency records | execute one write per key | two requests under one key; crash before commit | one business write per key, one answer for ever |
| NovaCommerce write services | `novacommerce/services/writes/` | orders, slots, refunds, returns, tickets | create and cancel order, reschedule, refund, return, ticket | counters and totals under concurrent writes | stock, slots and refunds balance |
| Conversations | `conversations/`, `agent/runtime.py` | conversations, runs, messages, traces | start, complete, fail a turn; voice turns | stale-run recovery while the old run still works; lock order | one running turn; a gapless transcript; an ended run is frozen |
| Voice | `voice/` | voice sessions; transcripts and playout in the worker | start, connect, end, submit, speak, interrupt | duplicate finals, lost submissions, restarts | one turn per utterance, spoken only if stored |
| Agent | `agent/` | state of one turn | model, validate, execute, finalize, repair | budgets spent in different nodes; five grounding candidates | every turn ends, within its budgets; an answer is what it claims to be |
| Agent tools, LLM gateway | `tools/`, `llm/` | none | read and propose tools; generate | what an exchange over the network is read as | reads are repeated as the tool says |
| Knowledge | `knowledge/` | documents, versions, chunks, jobs | upload, process, activate | at-least-once tasks; two activations | one active version, with all its chunks |
| Retrieval | `retrieval/` | none | lexical, vector, fusion, gate | ties, missing sides, activations between two searches | evidence was served; fusion agrees with both searches |
| Baseline evaluation | `evaluation/runner.py`, `finalization.py`, `scripts/run_agent_eval_live.py` | run and case rows, resume file, recovery bundle | run, interrupt, resume, export, publish, rescore | a quota, an error or a kill after any case | each case counted once; a published baseline is whole |
| Grounded evaluation | `evaluation/rag_grounding.py`, `p4_trace.py`, `p5_trace.py`, `m5d_run_identity.py`, `scripts/run_m5d_grounded_eval.py` | checkpoint, sidecars, summary, identity, correction, closeout | launch, answer, resume, correct, close | a torn line, an orphan sidecar, a resume from another commit | a run measures one revision |
| Settings, auth, observability, wiring | `config/`, `auth/`, `api/` | configuration | | | |
| Web client | `apps/web/` | view state | offers the operations the action's view permits | | |

How they interact. A text request, or a final transcript that the voice worker submits,
starts a turn of a conversation (`ConversationService.start_turn`); the turn runs the
agent's graph, which retrieves evidence, asks the LLM gateway, calls tools, and records
each call in the conversation. The agent's propose tools call `ActionProposalService`,
which inserts (or finds) the row and records the policy decision. The customer's and the
supervisor's decisions arrive as HTTP requests at `ActionDecisionService`; a
confirmation continues, in the same request handler, with `ActionExecutor`, which calls
NovaCommerce through the commerce client. `ActionReconciler` runs in the handler of a
later request. There is no background job for actions: an abandoned action is taken up
only by a client's next call. Knowledge is ingested by Celery workers and activated by
administrators. All of these share one database and meet only there; NovaCommerce has
its own and knows VerbaOps only by tokens and idempotency keys. An evaluation process
asks its cases over the HTTP API and keeps what it learns in rows (baseline) or files
(grounded runs).

## 2. Modules

| Module | Models | Depends on |
|---|---|---|
| `ActionLifecycle` | one action request, all handlers working on it, their HTTP writes, NovaCommerce's idempotency record | - |
| `ActionContract` | what an action promises to the customer who confirms it: the abstract specification | - |
| `ActionInvariant`, `ActionLifecycleProofs` | inductive invariant and theorems of `ActionLifecycle` | `ActionLifecycle`, `ActionProposals` |
| `ActionRecovery` | fairness, and who takes up an abandoned action | `ActionLifecycle` |
| `ActionProposals` | proposals and corrections of one request for the same targets | - |
| `CommerceFacts`, `ActionPolicy`, `CommerceRules` | situations of an order; what VerbaOps decides in them; what NovaCommerce decides, holds afterwards and shows in a read-back | each extends the one before |
| `PolicedProposals` | the facts of `ActionProposals` as sets of such situations | `ActionProposals`, `CommerceRules` |
| `ActionProposalsProofs` | inductive invariant and theorems of the proposals, theorems of the policy | `PolicedProposals` |
| `CommerceIdempotency` | one idempotency key of NovaCommerce, one step per database statement | - |
| `IdempotentWrite` | what such a key promises to its callers: the abstract specification | - |
| `CommerceIdempotencyProofs` | theorems | `CommerceIdempotency` |
| `CommerceWrites` | stock, delivery slots, refunds and returns under concurrent write transactions | - |
| `CommerceWritesProofs` | inductive invariant and theorems | `CommerceWrites` |
| `VoiceSession` | the row of one voice session | - |
| `ConversationTurns` | the turns of one conversation, one step per transaction or lock wait | `VoiceSession` |
| `VoiceConversation` | the voice worker in front of it | `ConversationTurns` |
| `VoiceConversationProofs` | inductive invariant and theorems | `VoiceConversation` |
| `KnowledgeIngestion` | uploads, tasks, workers and activations of one document | - |
| `RankFusion` | reciprocal rank fusion and the evidence gate | - |
| `KnowledgeRetrieval` | queries while versions are ingested and activated | both |
| `KnowledgeIngestionProofs` | inductive invariants and theorems of ingestion and of queries, lemmas about the fusion | `KnowledgeRetrieval` |
| `AgentServices` | the gateway and the tools: exchanges, and what their clients read in them | - |
| `GroundedClaims` | the list of claims of the candidates P4 and P5, its validation and three re-checks | - |
| `AgentTurn` | one turn of the agent's graph, with budgets and trace | both |
| `EvaluationCorpus`, `CaseScore` | the cases of a dataset; what a case is worth and how a score is corrected | - |
| `EvaluationRun` | the baseline evaluation and its script | `AgentTurn`, `CaseScore` |
| `RunProvenance`, `GroundedRun` | the revision a canonical run is bound to; its checkpoint, summary, correction and closeout | `AgentTurn` |
| `EvaluatedAgent` | a deployment under one of the two campaigns | `EvaluationRun`, `GroundedRun` |
| `AgentTurnProofs` | inductive invariants and theorems of a turn | `EvaluatedAgent` |
| `EvaluatedAgentProofs` | inductive invariant and theorems of the campaigns | `AgentTurnProofs` |
| `MC...` | instances for TLC | |

The levels of the action path meet at three seams. `ActionProposals!Advance` is whatever
may happen to a row between two proposals, which `ActionLifecycle` spells out for one
row; that it does nothing to a row but this, decisions and retirements is proved
(`RowsAdvanceAsAssumed`). `ActionLifecycle!ExecuteIdempotentWrite` is one atomic step on
a key; `CommerceIdempotency` is that step statement by statement and implements
`IdempotentWrite`, which is what the atomic step assumes. `CommerceIdempotency!Operate`
is the business operation, of which only the verdict matters there; `CommerceWrites` is
what the operation does to the shop, and `CommerceRules` when it is accepted.

### ActionLifecycle and the code

One action is enough: rows are independent, each has its own idempotency key, and what
other actions do to the same order or shipment is `OtherActorSatisfies` and
`OtherActorDisturbs`.

*State.* `row` is the `action_requests` row, reduced to the fields that guards read; the
terminal states keep their names, `approved` and `confirmed` are the two decision
columns, `owner` the lease owner, `known` whether `commerce_resource_id` is set. Two
clocks are booleans: `due` (past `expires_at`) and `lapsed` (past
`execution_lease_expires_at`). `pc`, `op` and `outcome` say where each handler's
coroutine stands. `key` is NovaCommerce's idempotency record (`unused`, `accepted`,
`rejected`), `effects` counts how often the business write was applied, `post` says
whether the postcondition that verification reads holds now, `held` whether it ever did,
and `orphans` counts requests whose sender stopped listening. `rebuffed` is the one
history variable: the last handler that took over the row for reconciliation had its
replay refused in front of the idempotency record, so that its answer says nothing of
the requests before it. `Refuse` may happen to any request; the code does not tell it
from a rejection that the record gives, and the next takeover starts afresh.

*Steps.* A database transaction that locks the row is one action, with every branch of
the method in it: expiry first, then the guard, then the assignments. A read followed by
an await is an action of its own (`BeginConfirm`, `CheckDecision`, `Load`, `Refresh`),
so what was read may be stale in the next. The HTTP write is `Send`, then one of
`ServeRequest`, `Refuse`, `TimeOut`, then `TakeAnswer`. `Crash` may end any handler
anywhere and may leave its request under way.

*What is abstracted.*

- The lease owner is a fresh UUID per attempt in the code and the handler here. A
  handler has one attempt at a time, and a crashed handler's lease, taken for its own by
  the same handler's next attempt, is not read by any step before the claim that
  overwrites it.
- Supervisor identity, fingerprints of an idempotent decision, row versions and the
  event log guard nothing but repeated calls with equal results.
- `write_outcome_unknown` (a 503 from NovaCommerce about its own transaction) is one of
  the outcomes of `TimeOut`.
- Policy verdicts, staleness checks and verification results are nondeterministic; what
  they may depend on (`post`) is kept.
- A handler that dies of an unhandled exception (a failed commit, a conflict) is
  `Crash`.

### ActionContract

Phases open, committed, void, succeeded, failed; the write applied at most once and only
while committed; success only if what the action asks for has held; failure only if it
was not applied, and then it never will be. `mayActLate` allows a write after success
was reported: only a reschedule can do that (section 5).

### CommerceIdempotency and the code

`execute_idempotent_write` with any number of requests under one key and any number of
different bodies (a fingerprint stands for operation, customer, targets and body).
`Insert` is `INSERT ... ON CONFLICT DO NOTHING`, which waits until no other transaction
holds an uncommitted record of the key; `Read` the locked read of an existing record and
its three answers; `Operate`, `Complete`, `Commit` the new record's way to the one
commit. `draft` is what a request's open transaction has inserted and not yet published.
`Fail` is an exception at any statement (the rollback and the 503 of the two `except`
blocks), `CommitFails` a connection that breaks during the commit, which may or may not
have happened. A killed service is `Fail` too: its transaction is rolled back by the
database. A request that was answered and is sent again is another member of `Requests`.

### CommerceWrites and the code

One step per locking SELECT, each row locked by itself in the order of the ids, and one
step for the writes with the commit. What a step computes it computes from `session`,
the rows as the transaction's ORM session holds them, and a session does not refresh a
row it holds already: in `cancel_order` the products come with the items
(`selectinload`, no lock) and the later locking SELECT only waits. This, the row locks
and READ COMMITTED are modelled from how the code uses SQLAlchemy and PostgreSQL and are
marked external in the map. Order and shipment status move together (`Stages`), an order
has one unit of each of its products, a return counts units of its order, and rules
about time, approval and inactive products are a rejection that may or may not be given.

### ActionProposals, the policy, and the code

A handler of `propose` reads the facts (`read`), computes fingerprint and policy from
them, and takes the conversation's row lock to find, replace or insert the row; the
policy is recorded in a second transaction, and the handler may die in between. A denial
still counts when the row was confirmed in the meantime (`Decidable`); any other late
decision is an error. The row bears the name of the handler that inserted it. `Advance`
moves a row as `ActionLifecycle` does. The replay of an *origin*
(`create_or_get_active`'s first lookup) is left out: the origin of a proposal is a tool
invocation, and each tool call makes a new one.

What the facts are is left open there. `CommerceFacts!Situations` are the states of an
order, its shipment, a slot, refunds and returns in which each kind of action can be
proposed; `ActionPolicy` has the preflight, the gates and the fingerprint of each kind,
`CommerceRules` the acceptance rules of NovaCommerce, the result, and the verification.
Both are pure operators; `PolicedProposals` ties them to the facts of `ActionProposals`,
so that a fact stands for all the situations under which the policy gives its gate.
Roles and the binding of customer to order are a precondition, since they are refused
whatever the facts.

### VoiceSession, ConversationTurns, VoiceConversation and the code

A run bears the name of the request that created it. A handler at *locked* holds the
conversation's row, one at *writing* its run's row: these are the two rows that one can
wait for, and they are taken in opposite orders (finding 4); a cycle ends with one of
the two aborted, as PostgreSQL does. Every other transaction is one step. `stale` says
that a running row is older than the recovery limit (15 minutes); `StartTurn` fails such
rows as the code does, while the handler of the recovered run may go on. A crashed
handler leaves its run running. The voice request carries a turn id; the session is read
without a lock when it arrives.

The worker has the calls of `handle_speech_event` under way (`task`), the ids it
submitted, and the handle of the playout. `Restart` loses all of it but not the requests
that are on their way. Only the protocol classes of the HTTP client and the audio output
are in `src/`, so their failures are any exception of `submit` or `speak`.

### KnowledgeIngestion, RankFusion, KnowledgeRetrieval and the code

A version and its job are created by one upload and bear one name. Tasks are at least
once: one can be lost, repeated, and delivered to two workers, and a worker dies between
any two transactions; a commit in doubt has happened or not. Parsing, chunking and
embedding are a step that may fail and touches no row. An activation locks the version
and then the document, in steps of their own; `Release` is the deadlock victim.

A query runs its two searches in one READ COMMITTED transaction, each with a snapshot of
its own. The dense search ranks all that is searchable, the lexical one any part of it,
in any order of the scores, and each returns its first `DenseLimit` or `LexicalLimit`.
Fusion orders its candidates by score and, among equals, by id; it is exact arithmetic
on fractions: the comments of `RankFusion` say why that agrees with the floats of the
code.

### AgentServices, GroundedClaims, AgentTurn and the code

`AgentTurn` has one step per node of the graph, per model request and per tool call. The
model is free to answer anything: `AgentServices!Exchange` is whatever may come back
from the gateway, `Generate` what `LiteLLMClient.generate` makes of it, a text is one of
the classes that the finalizers tell apart, a batch three numbers. The tools' exchanges
with NovaCommerce, with the client's two attempts, end in one of the results that the
graph tells apart. The candidates P0, P2, P3, P4 and P5 differ in the finalizer, the
repair and the trace. `GroundedClaims` has what P4 and P5 accept and report of a list of
claims, and the three programs that check the report again. `Interrupt` is the deadline
or an error anywhere. Turns are serialized: one at a time.

### EvaluationRun, CaseScore, GroundedRun, RunProvenance and the code

The baseline script keeps its stack and a resume file when the quota stops it, or when
an error finds a recovery directory, and tears both down after any other ending, a
keyboard interrupt among them (`StopByHand`: it is no `Exception`). `rows` and `row` are
the database's, `known` what the process holds, `bundle` and `baseline` what is written
for good. The bundle is written in two steps, since making its directory (`OpenBundle`)
already blocks the next baseline while only results that are whole can be published
(`WriteBundle`); `partial` is the time between. The process may be killed at any step.
`CaseScore` derives observation, safety and score of a case from what the trace says,
and the later correction of the safety part. A grounded run appends one record per case
to the checkpoint; the file may end in half a line, a trace may exist without a record.
A commit is the sequence of changes since the experiment was registered; a record
carries what its process was launched from (`by`) and the identity it was written under
(`under`). The two runs share the agent: a turn of a killed process may end after it.

### ActionRecovery

`calm` is a switch: before it everything may happen, after it no handler is killed, the
network delivers, read-backs are available and leases lapse only when their owner is no
longer at work. Fairness is weak and on a handler's own steps (a coroutine that is not
killed goes on: every await is a database transaction or an HTTP call with a timeout),
on the clock, and on the client's reconcile call, which the property is about. No crash,
failure or calm is forced. `GuidedSpec` restricts calls to what `_permitted_operations`
offers.

## 3. Checks

| Run | Instance | Shows |
|---|---|---|
| `action_safety` | 3 handlers, all kinds, 1 abandoned request, symmetric handlers | all safety and action properties, the invariant of the proofs, the contract |
| `action_resolve` | 2 handlers, cancel and create, 1 abandoned request, fairness | an action that is reconciled in calm conditions settles |
| `action_refused` | 2 handlers | expected violation, finding 1 |
| `action_guided` | 1 handler, guided clients, fairness | expected violation, finding 2 |
| `proposals` | 3 handlers, facts that are plain, guarded or barred, every situation of the policy | one live request; everybody gets what it asked for; a correction spares what was dispatched; policy and NovaCommerce agree |
| `idempotency` | 4 requests, 2 bodies, fairness | one decision and one write per key; answers are true and the promise is kept; everybody is answered |
| `writes` | 2 transactions of any kind, 2 orders, 2 products of one unit, 2 slots of capacity 1, fairness | counters and totals balance, one cancellation per order, rejections change nothing, no cycle of lock waits |
| `writes_cancel` | 2 transactions, 2 orders, 1 product of two units; create, cancel | expected violation, finding 3 |
| `conversations` | 1 text request, 2 deliveries of finals for one turn or two, one restart, symmetric deliveries and turn ids | one turn runs, the transcript is in order, a voice turn is run once and spoken only if stored, an ended run is frozen |
| `turns_deadlock` | the same without tools | expected violation, finding 4 |
| `knowledge` | 2 versions of 3 chunks and 1, 2 workers, 2 uploads, 2 activations, symmetric processes | jobs, versions and chunks agree, evidence was served, fusion is fair, a publication is for good |
| `evaluated_turns` | all candidates, the real budgets, 2 cases, 3 turns, 1 commit | budgets hold, answers are honest, results whole, a run's records are of one launch revision |

*Bounds.*

- Three handlers give every race in the action code its parties: an executor whose lease
  lapsed and two reconcilers, or two confirmations and a late denial. `MaxOrphans`
  bounds the requests under way whose sender is gone; one is enough for the first
  request to arrive after its replay. The proofs need neither bound. `effects` stays at
  1.
- Three proposals are one that is inserted, one that finds it and one that corrects it.
  The situations of `PolicedProposals` are chosen around every comparison in the rules:
  two days of acting (so that facts may be read on one day and used on the next), slots
  yesterday, today and around the 31 days that are listed, deliveries on both sides of
  the 30 days of a return, amounts around the threshold of 500.
- Four requests under a key are an inserter, one waiting for it, one that takes over
  after its rollback and one that finds the record. Every transaction of
  `CommerceWrites` runs once, from any state of the shop that balances: a transaction
  and one that commits between its statements, or waits for its locks. Two slots and two
  products are needed for lock order; one unit, one place and one unit of money make the
  last one contended in every behaviour. More transactions are left to the proofs, which
  cover any number of them.
- A text request and two deliveries are a turn that is recovered from, one that recovers
  it, and one that repeats a final. `MaxCalls` bounds the model calls recorded per run
  (one is enough to be late or to deadlock), `ToolUsers` the requests that call a tool,
  `restarted` allows one restart of the worker. The proofs cover any number of requests,
  turns and calls.
- `MaxTasks` bounds the tasks of one job in the queue; a task can be repeated when its
  copy was taken. Three chunks and one, limits of 3 for the dense search and the
  fusion, of 2 for the lexical search and the evidence let lists differ, overflow and be
  cut. The proofs cover any chunks and limits, and the gate for any two ranks.
- The budgets of a turn have the values of the settings. The batches are one call, four
  (more than the remainder of the tool budget after another four), one with an invalid
  call of the same id, and an invalid one alone. Two cases and three turns are a case
  that is repeated and one after it; a commit (`MaxCommits`) is enough for a resume from
  another revision. Responses have at most two claims and observations at most two tool
  calls.

Symmetry is used only in runs without liveness properties. Deadlock is not checked,
except in `knowledge` where a lost task or query can always be repeated, because the
system may stop: once the row is terminal, the clocks have passed and no handler is
called, or all requests are answered, nothing is left to do.

*Fairness* of `CommerceIdempotency` and `CommerceWrites` is weak and on each request's
own statements: a statement that can run returns, and a wait for a row ends when its
holder commits or rolls back. That a request arrives or fails is never assumed (for
`ActionRecovery` see section 2). The other modules have no liveness property: a crashed
turn or a job whose worker died stays where it is (section 5), and what starts again
does so only on a client's call.

*Properties* are each stated in words where they are defined. An operator named after
another with a suffix (`Claim_StaleRead`, `Loaded_Nothing`), defined just before it, is a
plausible bug in that definition: put in its place it makes TLC find the property
violated. There is one for every property of a passing run.

## 4. Proofs

`ActionLifecycleProofs` proves, for every set of handlers, every set of kinds and every
bound on abandoned requests:

| Theorem | Says |
|---|---|
| `Invariance` | `Spec => []IInv` |
| `TypeCorrect`, `AppliedAtMostOnce`, `NoDispatchWithoutGates`, `CalledOffIsNotSent`, `ExclusiveExecution`, `SuccessCameAbout` | the invariants of `action_safety` |
| `TerminalStaysTerminal` | `TerminalIsFinal` |
| `FailedWasNotApplied`, `NothingAppliedLate` | `FailureIsReal`, `NoLateEffect` |
| `Implementation` | `Spec => ImplementsContract` |
| `RowsAdvanceAsAssumed` | a step decides, retires or is `ActionProposals!Advance` |

None of them assumes that replays are not refused in front of the idempotency record:
finding 1 says that they can be. The three theorems on failures and on the contract name
the exception instead. `FailureIsReal` and `NoLateEffect` say nothing of a row that is
failed while `rebuffed`, and the contract lets an action that is `doubted` be reported
failed although it was applied, or be applied after that; asking once more ends the
doubt, and nothing but such a refusal raises it. Whatever else is lost, delayed, replayed
or recovered, a reported failure is one.

None of the safety properties is inductive. `IInv` adds what each handler knows at its
place in the code:

- `Roles`: only a confirmation reaches the claim, only a reconciliation the takeover,
  and each result label has the outcomes its predecessors can give.
- `GatesInOrder`: a row past a gate has passed it; a denial of a ready row is the only
  way back and it is terminal.
- `SentOnlyWhenDispatched`: before the claim there is no driver and no request, so the
  key is fresh when the claim succeeds.
- `KeyTellsEffect`: the idempotency record and the business write agree.
- `AnswersAreTrue`: what a handler has learnt stays so, because a used key never
  changes; a rejection that the record did not give has left `rebuffed` behind, if its
  handler still owns the row.
- `FirstRequest`: while the row is executing its owner is the only driver and its
  request the first under the key; hence an executor may call *not sent* a failure where
  a reconciler may not.
- `ReportsAreFinal`: after a failure no request is left that could be applied, unless
  it was `rebuffed`.

Steps are classified before they are used: `RowMoves` says what any step may do to the
row, `NotDrivingMoves` and `DriverMoves` where a handler may go, `CommerceMoves` how
NovaCommerce changes. Each part of the invariant is then preserved by these few cases
instead of by some forty actions.

`RowsAdvanceAsAssumed` joins the two levels of the action path. `Seen` is the row as
`ActionProposals` has it: state and policy, under the name of one handler. Every step
changes it as a recorded policy (`Decided`), as a retirement (`Retired`), or as `Advance`
does, or not at all; `RowChange` says so of `row` itself, action by action. It needs the
invariant only for the type of `row`, the outcomes of `Roles`, and for a proposed row
having no gate yet. TLC checked `RowAdvances` with two handlers and all kinds before it
was proved; it is no property of a run.

`CommerceIdempotencyProofs` proves, for any number of requests and bodies, type
correctness, `DurableAnswers`, `RealReuse`, `DoneWhenRecorded` and the refinement
`PromiseKept` (`Spec => KeepsPromise`). Its invariant adds that at most one transaction
has a draft, that a draft is its request's own, and that there is none while a record is
committed.

`CommerceWritesProofs` proves, for any number of transactions, finitely many orders and
any set of products and slots:

| Theorem | Says |
|---|---|
| `TypeCorrect`, `SlotsStayBalanced`, `NothingOverpaid`, `OneCancellation` | `TypeOK`, `SlotsBalance`, `WithinOrder`, `CancelledOnce` |
| `NeverOversold` | `NothingOversold` |
| `RejectionsLeaveNoTrace` | `RejectionChangesNothing` |

The argument is two-phase locking. `Exclusive` says no row is locked twice. `TxnInv`
says, for each transaction by itself, that the rows it has locked are in its session as
they are in the database (`Current`) and that before it writes it has locked all it
writes to, and what it checked still holds (`Ready`). A step of another transaction
keeps this because it writes only what it has locked itself (`WritesWhatIsLocked`,
`OthersKeepTxnInv`). The product rows of a cancellation are left out of `Current`, since
they are not current (finding 3); for this reason `NothingOversold` speaks only of
products of which no order is being cancelled. The counting facts are the library's
theorems on cardinalities; `Occupied` says a live shipment's slot counts at least one,
so the late rejection in `reschedule.py` (`reschedule.py:88`), which would be committed
with the target slot counted up, is never given to a database whose slots balance at the
start. `RejectionChangesNothing` therefore says little about that line by itself; what
carries it is `SlotsBalance`, of which the table's constraints only check the range.

`VoiceConversationProofs` proves, for any number of requests, deliveries, turn ids and
recorded calls: `TypesHold`, `AtMostOneTurnRuns`, `TranscriptHolds`,
`VoiceTurnsRunOnce`, `TurnsAreHeardOnce`, `EndedRunsStayFrozen`. Its invariant adds that

- messages are numbered from one without gaps, which is what gives the next number its
  type;
- a run has one question, and while it runs that question is the last message, so that
  the answer comes directly after it;
- a handler with a write to its trace under way knows what it writes, and the bound and
  its tool invocation allow it; whether its run still runs is checked by each step
  again;
- each voice turn id is claimed by one run at most, and every answer told is that run's;
- the calls that the worker has under way or spoke are of different turns, which it
  remembers, and what is spoken or played belongs to a completed run of its turn.

`ActionProposalsProofs` proves, for any number of handlers and any facts with any gates:
`TypesHold`, `AtMostOneRequestIsLive`, `AnswersMatchTheAsked`, `DispatchedAreSpared`.
Its invariant adds that the conversation's lock has one holder, and that a handler about
to insert has every live row among those it is to replace, none of them dispatched, so
the unique index never decides between two inserts: the branch of `create_or_get_active`
that handles its violation is not reached while everybody takes the lock.

It also proves, for all days, quantities and amounts, that the two programs which draw
the same lines agree: `PolicyAlwaysFits` (`PolicyFitsCommerce`) and
`FingerprintsTellGates` (`FingerprintTellsGate`). Neither needs an invariant. There is a
lemma for each kind of action, by cases of what the preflight finds (`CancellationFits`,
`ReschedulingFits`, `ReturnFits`, `RefundFits`, `TicketFits`), one that what was made
verifies (`MadeVerifies`), and `FingerprintFixesGate`: two situations with one
fingerprint agree on all that a gate depends on. `FactsAssumption` says that days and
amounts are natural numbers and quantities positive ones, which the
proposal models (`quantity: int = Field(gt=0)`) and the check constraints of the tables
demand.

`KnowledgeIngestionProofs` proves, for any set of versions, tasks, workers, uploads and
activations: `TypesHold`, `JobsAgreeWithVersions`, `PublicationIsForGood`. Its invariant
adds that the job of a version at work is processing and has no other worker, that a
worker which reports a failure may do so after its own commit went through, and that
status, job, attempts and chunks of each version agree; with two active versions
excluded, an activation then always leaves one.

For queries it proves, for any finite set of chunks and any limits of the profile,
`QueriesTyped`, `EvidenceStaysServed` (`EvidenceWasServed`) and `FusionStaysFair`
(`FusionIsFair`) from `RetrievalInv`: what a query holds are rankings without
repetition, whatever has been active since it started is in `served`, and chunks that
are stored stay stored (`StepStaysPublished`). The fusion is
proved in three parts:

- a sorted list of the candidates exists (`OrderedEnumeration`): each candidate of a
  finite set gets the number of those that precede it as its place, which is a bijection
  since preceding is a strict total order (`PrecedesIsStrict`), so that no induction is
  needed;
- a candidate that dominates another has the greater sum of fractions
  (`DominatingScoresMore`, on `SumsKeepOrder` and `LaterContributesLess`), hence comes
  first and is not cut before it (`FusionRespectsBoth`);
- the threshold is reached exactly if the product of the two ranks is one of 1 to 4
  (`ThresholdIsAgreement`), for all ranks.

`AgentTurnProofs` proves `TurnsKeepBudgets` (`BudgetsHold`) for all budgets that fit
together (`BudgetsFit`: fewer tool rounds than model calls, and three supersteps for each
round and three more), whatever batches are asked for. The budgets are counted in
different nodes; the invariant's `PaceKept` says what ties them: where a turn stands and
how many rounds it had determine its model calls and its supersteps. The defaults fit,
with eight supersteps to spare.

For all budgets, fitting or not, it proves `TypesHold` and `AnswersStayHonest`
(`AnswersAreHonest`). The invariant (`TurnInv`) says what a turn must know at each node
so that its answer is what it claims: that a turn without tool calls has asked the model
once when it finalizes and twice if it was repaired, which is how the record of a turn
infers a repair; that only P3 repairs, and only a turn with evidence and no tool calls;
that the text which the report was derived from is kept. The other half is not about
steps: `CandidatesDoAgree` says for every response of the model, whatever its claims,
that the report of P4 and P5 is accepted by the trace store and by the scorer
(`P4Passes`, `SharedIsP4`, `P5Passes`), three programs that recompute it.

`EvaluatedAgentProofs` proves, for datasets of any size and any bound on turns and
commits, `CampaignsTyped`, `RunsMeasureOneRevision` (`OneRevisionPerRun`) and
`ResultsStayWhole` (`ResultsAreWhole`). Its invariant `CampaignInv` has five parts, each
needed for the next:

- `TurnInv`, since a record and a score are taken from a finished turn;
- `BaselineInv`: what the process knows are the rows of the database, the row of the run
  is absent or a summary of them, no two results are of one case, and while a case
  is asked there is one left (`NextCaseIsLeft`);
- `ProvenanceInv`: a process that measures was launched from a commit that its
  candidate may be measured at and is bound to its identity; a record that no defective
  harness wrote is of that identity; a correction is under way only if there is no such
  record;
- `RecordsInv`: a record has a case and a turn of its own, which is older than the turn
  that is being asked, and a traced one has its sidecar; a complete summary is of all
  records;
- `ClosedInv`: a closed run is off, and its closeout is of the records and sidecars that
  are there.

That a resume cannot mix revisions follows from `IdentityByCandidate`: equal identities
mean equal harness revisions. That scores count right rests on `ScoresDoAgree`, which
says of every observation that its score names a reason just when it is not passed, and
that the later correction of the safety part finds what the scorer found.

The voice, proposals, knowledge, turn and campaign invariants were checked by TLC on the
instances of the runs before they were proved.

Only model-checked: liveness (`EventuallyResolved`, `EveryRequestEnds`,
`EveryWriteEnds`), and what the four runs of section 5 find violated. Every other
property of a run is a theorem; all of them hold from the named assumptions on the
constants alone, but for `BudgetsFit` where stated.

## 5. Findings and limits of what holds

1. `action_refused`. `commerce/client.py:316` takes every 4xx for a definite rejection,
   and the reconciler reports *failed* on it. A replay that is refused in front of the
   idempotency record (an expired service token, a customer that is no longer found)
   says nothing about the first request, which may have been applied. The docstring at
   `commerce/errors.py:76` says such a write was not applied. Every other failure was
   not: `FailureIsReal` is checked and proved, with refusals in the model.
2. `action_guided`. An execution abandoned by a crash stays *executing* until somebody
   calls reconcile, and the view of the action offers no operation in that state
   (`actions/decisions.py:557`), so a client that goes by the view never calls it.
3. `writes_cancel`. `cancel_order` loads the products with the order's items
   (`services/writes/orders.py:149`, `selectinload`) before it locks them, and the
   locking SELECT at line 160 does not refresh what the session holds. Stock that was
   sold, or given back by another cancellation, between the two statements is
   overwritten. The design (`2026-08-21-verbaops-m2d-write-design.md:30`) says the
   inventory is restored exactly once. `create_order` and the slots are not affected:
   their first SELECT is the locking one.

4. `turns_deadlock`. `_run(for_update=True)` (`conversations/repository.py:564`) locks a
   run's row and then the conversation's; `start_turn` locks the conversation (549) and
   then its running runs (589). A request that meets a turn which is recording a model
   or tool call waits in a cycle with it, and PostgreSQL aborts one: the request ends
   with an unhandled error, or the running turn fails. The design
   (`2026-10-07-verbaops-stage7-realtime-voice-design.md:957`) says that such a request
   gets a busy/try-again result.

Three more limits are in the model and not counted as disagreements. A reschedule that a
person or another action brought about meanwhile is reported succeeded while its own
first request is still under way; that request can move the shipment again later (a
cancellation cannot act twice and a creation is never taken as succeeded without its
id). An accepted write whose postcondition somebody else has undone stays unresolved
until a person looks at it (`NeedsAPerson`). A row left *ready_to_execute* by a crash
between confirmation and claim is offered no operation either; it expires.

Other limits that a reader of the code should know, none of which a property excludes:

- *Turns.* A crashed turn stays running until a request more than 15 minutes later
  recovers it. An interruption while a turn is submitted or `speak` is under way does
  not cancel it, and a later `speak` replaces `_playout`: the earlier audio then runs to
  its end. The coordinator is not wired into a process in `src/` yet.
- *Proposals.* A proposal with the same fingerprint is answered with a live row that may
  be past its expiry. An execution stuck in executing blocks new proposals for its
  targets. Eligibility depends on the day, which the fingerprint does not cover.
- *Policy.* It allows the return of units that were returned before (NovaCommerce
  refuses), and denies moving to the slot the shipment already holds when that is full,
  and to slots beyond 31 days (NovaCommerce accepts).
- *Knowledge.* A job whose worker died stays processing for ever. A second upload of a
  processed version returns a status that its response model does not list. The two
  searches of a query may see two versions, so evidence can mix them. Activating one
  version while the active one is activated again can deadlock.
- *Agent.* The model-call budget and the one of the P3 repair never bind at the default
  limits, since the tool rounds end first. A batch with only invalid calls counts as
  tool calls, so the P2/P3 gate is skipped after it; a valid call that shares its id
  with an invalid one is skipped. `ToolDefinition`'s timeout and retry policy are
  declared and not obeyed; the client has its own two attempts. A gateway answer with
  ill-typed accounting fails as a whole.
- *Baseline evaluation.* The API gives no 429 itself, so a quota can only be met in
  front of it; an error or timeout of the API is a failed case and not tried again;
  other errors take the committed results with them, and so does a keyboard interrupt,
  even if there is a bundle. A script that ends between making the recovery directory
  and writing the last result leaves a directory that blocks every later baseline
  (`run_agent_eval_live.py:467`) and that `--finalize` refuses. `--smoke` deletes the
  resume file of an interrupted baseline (`run_agent_eval_live.py:625`).
  `rescore_safety_results` removes the two safety reasons but not the task failure that
  `score_case` adds with them, so a result that was flagged wrongly stays failed.
- *Grounded runs.* An orphan P4/P5 sidecar or a torn line makes every resume refuse. A
  P5 trace from which secrets were removed can fail its own reading back. A kill in the
  middle of a provenance correction leaves a run that neither resumes nor is corrected.
  A P5 run killed between report and summary cannot be launched again. A revision is
  that of the tree the harness was launched from (`OneRevisionPerRun` speaks of no
  other): the API under test is not compared with it.

## 6. Not modelled

- Settings, authentication, observability, cache and API wiring: configuration without
  state that an interleaving or a failure could break.
- NovaCommerce's product search, customers and seed generator; the formats of all
  schemas.
- The superseded tool registry (`tools/commerce_reads.py`), `generate_structured`
  (called by nothing), the serialization of requests to the gateway.
- The reranker, the experimental evidence gates, and the scores of the two searches (the
  order of their results is open); parsing, chunking and embedding.
- Retrieval metrics, the frozen datasets and plans, and the forensic audits: offline
  computations over files. Their digests are assumed to match, and the CI conclusions
  that an operator supplies are trusted.
- Partial transcripts, reads of messages, event logs, row versions, actor columns.
- Turns run at the same time in one evaluation: the runners ask one case at a time.
- Changes to the repository while an evaluation process runs.
- The web client, but for the operations it offers.

Not proved: that `CommerceWrites` accepts exactly what `CommerceRules` does. The two
model the same code at different grain, statements under locks and rules over one
situation, and no run compares them.
