-------------------------- MODULE ActionLifecycle --------------------------
(***************************************************************************)
(* The life of ONE action request of VerbaOps: a write that the agent      *)
(* proposed on behalf of a customer, that a supervisor and the customer    *)
(* decide on, and that one API request handler finally sends to            *)
(* NovaCommerce under the request's idempotency key.                       *)
(*                                                                         *)
(* The row of table action_requests is shared by any number of concurrent  *)
(* API request handlers (Workers).  A handler is a coroutine: each of its  *)
(* database transactions is one step here, and so is each thing that       *)
(* happens to its one HTTP write, because other handlers, other actions,   *)
(* the clock and the commerce system run between them.  A handler may be   *)
(* killed at any point, leaving its request to NovaCommerce under way.     *)
(*                                                                         *)
(* Sources: src/verbaops/actions/{transitions,decisions,executor,          *)
(* reconciliation,proposals,repository,verification}.py, the write half of *)
(* src/verbaops/commerce/client.py and src/novacommerce/idempotency.py.    *)
(***************************************************************************)
EXTENDS Naturals

CONSTANTS
    Workers,           \* concurrently running API request handlers
    NoWorker,          \* "no lease owner"
    Kinds,             \* the kinds of write to consider
    MaxOrphans         \* BOUND: abandoned requests still under way at once

(* "create" stands for the three kinds that make a new resource (return,   *)
(* support ticket, refund): they can be read back only by a known id.      *)
AllKinds == {"cancel", "reschedule", "create"}

ASSUME NoWorkerAssumption == NoWorker \notin Workers
ASSUME KindsAssumption == Kinds \subseteq AllKinds
ASSUME MaxOrphansAssumption == MaxOrphans \in Nat

VARIABLES
    row,      \* the action_requests row
    due,      \* the clock has passed row.expires_at
    lapsed,   \* the clock has passed row.execution_lease_expires_at
    pc,       \* where each handler stands
    op,       \* what each handler was called for
    outcome,  \* what each handler knows about its write
    key,      \* NovaCommerce: the idempotency record of the action's key
    effects,  \* NovaCommerce: how often the write was applied (history)
    post,     \* NovaCommerce: the postcondition the action asks for holds now
    held,     \* ... and it has held at some time (history)
    rebuffed, \* the last lease owner's replay was refused unread (history)
    orphans   \* requests under way whose sender no longer listens

handlerVars  == <<pc, op, outcome>>
commerceVars == <<key, effects, post, held, rebuffed>>
vars == <<row, due, lapsed, handlerVars, commerceVars, orphans>>

-----------------------------------------------------------------------------
(* States.                                                                 *)

Undispatched == {"proposed", "awaiting_approval", "awaiting_confirmation",
                 "ready_to_execute"}
Dispatched   == {"executing", "unresolved"}
Terminal     == {"policy_denied", "rejected", "succeeded", "failed", "expired"}
States       == Undispatched \cup Dispatched \cup Terminal

Row == [kind      : Kinds,
        state     : States,
        policy    : {"none", "allowed", "denied"},
        approval  : BOOLEAN,                             \* approval_required
        approved  : {"none", "approved", "rejected"},    \* the supervisor's
        confirmed : {"none", "confirmed", "rejected"},   \* the customer's
        owner     : Workers \cup {NoWorker},             \* lease owner
        known     : BOOLEAN]                             \* commerce_resource_id set

Labels == {"idle", "policy", "check", "stale", "decide", "reload",
           "load", "refresh", "retire", "deny", "claim",
           "recover", "reclaim", "precheck",
           "send", "resend", "await", "answered", "record", "verify", "settle"}
Ops == {"none", "propose", "confirm", "reject", "approve", "decline", "reconcile"}
Outcomes == {"none", "accepted", "rejected",
             "succeeded", "unverified", "failed", "unresolved"}

KeyStates == {"unused", "accepted", "rejected"}

TypeOK ==
    /\ row \in Row
    /\ due \in BOOLEAN
    /\ lapsed \in BOOLEAN
    /\ pc \in [Workers -> Labels]
    /\ op \in [Workers -> Ops]
    /\ outcome \in [Workers -> Outcomes]
    /\ key \in KeyStates
    /\ effects \in Nat
    /\ post \in BOOLEAN
    /\ held \in BOOLEAN
    /\ rebuffed \in BOOLEAN
    /\ orphans \in 0..MaxOrphans

(* The durable human gates, checked before every dispatch and replay.      *)
GatesSatisfied(r) ==
    /\ r.policy = "allowed"
    /\ r.confirmed = "confirmed"
    /\ r.approval => r.approved = "approved"

Executable(r) == r.state = "ready_to_execute" /\ GatesSatisfied(r)

(* Every transition of an undispatched row past its expiry expires it.     *)
Overdue == due /\ row.state \in Undispatched

Expired(r) == [r EXCEPT !.state = "expired"]
Denied(r)  == [r EXCEPT !.state = "policy_denied", !.policy = "denied",
                        !.approval = FALSE]

-----------------------------------------------------------------------------
(* The proposal has just been inserted; its handler is about to record the *)
(* policy decision.  Nothing was sent to NovaCommerce under its fresh key. *)
Init ==
    /\ \E kind \in Kinds :
          row = [kind |-> kind, state |-> "proposed", policy |-> "none",
                 approval |-> FALSE, approved |-> "none", confirmed |-> "none",
                 owner |-> NoWorker, known |-> FALSE]
    /\ due = FALSE /\ lapsed = FALSE
    /\ pc = [w \in Workers |-> "idle"]
    /\ op = [w \in Workers |-> "none"]
    /\ outcome = [w \in Workers |-> "none"]
    /\ key = "unused" /\ effects = 0
    /\ post = FALSE /\ held = FALSE /\ rebuffed = FALSE
    /\ orphans = 0

(* How a handler's step ends.                                              *)
Call(w, operation, label) ==
    /\ pc[w] = "idle"
    /\ pc' = [pc EXCEPT ![w] = label]
    /\ op' = [op EXCEPT ![w] = operation]
    /\ UNCHANGED outcome

Goto(w, label) ==
    /\ pc' = [pc EXCEPT ![w] = label]
    /\ UNCHANGED <<op, outcome>>

Learn(w, label, what) ==
    /\ pc' = [pc EXCEPT ![w] = label]
    /\ outcome' = [outcome EXCEPT ![w] = what]
    /\ UNCHANGED op

Finish(w) ==
    /\ pc' = [pc EXCEPT ![w] = "idle"]
    /\ op' = [op EXCEPT ![w] = "none"]
    /\ outcome' = [outcome EXCEPT ![w] = "none"]

-----------------------------------------------------------------------------
(* Policy: ActionProposalService.propose.  Any number of proposers may     *)
(* have read the row as proposed (a retried tool call gets the same row).  *)

BeginPropose(w) ==
    /\ row.state = "proposed"
    /\ Call(w, "propose", "policy")
    /\ UNCHANGED <<row, due, lapsed, commerceVars, orphans>>

(* Faulty variant: the decision is written whatever the row became.        *)
RecordPolicy_Unguarded(w) ==
    /\ pc[w] = "policy"
    /\ \/ row' = Denied(row)
       \/ row' = [row EXCEPT !.state = "awaiting_approval",
                             !.policy = "allowed", !.approval = TRUE]
    /\ Finish(w)
    /\ UNCHANGED <<due, lapsed, commerceVars, orphans>>

RecordPolicy(w) ==
    /\ pc[w] = "policy"
    /\ \/ /\ Overdue
          /\ row' = Expired(row)
       \/ /\ ~Overdue
          /\ row.state = "proposed"
          /\ \/ row' = Denied(row)
             \/ row' = [row EXCEPT !.state = "awaiting_confirmation",
                                   !.policy = "allowed"]
             \/ /\ row.kind # "reschedule"
                /\ row' = [row EXCEPT !.state = "awaiting_approval",
                                      !.policy = "allowed", !.approval = TRUE]
       \/ /\ ~Overdue
          /\ row.state = "ready_to_execute"     \* a late denial still counts
          /\ row' = Denied(row)
       \/ /\ ~Overdue
          /\ row.state # "proposed"
          /\ UNCHANGED row
    /\ Finish(w)
    /\ UNCHANGED <<due, lapsed, commerceVars, orphans>>

(* Faulty variant: every active row is retired, not just undispatched ones.*)
Supersede_Active ==
    /\ row.state \in Undispatched \cup Dispatched
    /\ row' = Expired(row)
    /\ UNCHANGED <<due, lapsed, handlerVars, commerceVars, orphans>>

(* A corrected proposal for the same targets retires this one.             *)
Supersede ==
    /\ row.state \in Undispatched
    /\ row' = Expired(row)
    /\ UNCHANGED <<due, lapsed, handlerVars, commerceVars, orphans>>

-----------------------------------------------------------------------------
(* Human decisions: ActionDecisionService.                                 *)

BeginConfirm(w) ==
    /\ \/ Executable(row) /\ Call(w, "confirm", "load")
       \/ /\ row.state = "awaiting_confirmation"
          /\ Call(w, "confirm", "check")
    /\ UNCHANGED <<row, due, lapsed, commerceVars, orphans>>

BeginReject(w) ==
    /\ row.state \in {"awaiting_approval", "awaiting_confirmation"}
    /\ Call(w, "reject", "decide")
    /\ UNCHANGED <<row, due, lapsed, commerceVars, orphans>>

BeginSupervisorDecision(w) ==
    /\ row.approval
    /\ row.approved = "none"
    /\ row.state = "awaiting_approval"
    /\ \E decision \in {"approve", "decline"} : Call(w, decision, "check")
    /\ UNCHANGED <<row, due, lapsed, commerceVars, orphans>>

(* The fresh commerce reads: unavailable, stale, or as when proposed.      *)
CheckDecision(w) ==
    /\ pc[w] = "check"
    /\ \/ Finish(w)
       \/ Goto(w, "stale")
       \/ /\ op[w] = "confirm" /\ row.approval => row.approved = "approved"
          /\ Goto(w, "decide")
    /\ UNCHANGED <<row, due, lapsed, commerceVars, orphans>>

ExpireStale(w) ==
    /\ pc[w] = "stale"
    /\ IF row.state \in Undispatched
       THEN row' = Expired(row) /\ Finish(w)
       ELSE /\ UNCHANGED row
            /\ IF op[w] = "confirm" /\ row.state # "expired"
               THEN Goto(w, "reload")
               ELSE Finish(w)
    /\ UNCHANGED <<due, lapsed, commerceVars, orphans>>

ConfirmDecision(w) ==
    /\ pc[w] = "decide" /\ op[w] = "confirm"
    /\ \/ Overdue /\ row' = Expired(row) /\ Goto(w, "reload")
       \/ /\ ~Overdue
          /\ row.state = "awaiting_confirmation"
          /\ row' = [row EXCEPT !.state = "ready_to_execute",
                                !.confirmed = "confirmed"]
          /\ Goto(w, "load")
       \/ /\ ~Overdue
          /\ row.state # "awaiting_confirmation"
          /\ UNCHANGED row
          /\ Goto(w, "reload")
    /\ UNCHANGED <<due, lapsed, commerceVars, orphans>>

RejectDecision(w) ==
    /\ pc[w] = "decide" /\ op[w] = "reject"
    /\ row' = CASE Overdue -> Expired(row)
                [] ~Overdue /\ row.state \in {"awaiting_approval", "awaiting_confirmation"} ->
                      [row EXCEPT !.state = "rejected", !.confirmed = "rejected"]
                [] OTHER -> row
    /\ Finish(w)
    /\ UNCHANGED <<due, lapsed, commerceVars, orphans>>

SupervisorDecision(w) ==
    /\ pc[w] = "decide" /\ op[w] \in {"approve", "decline"}
    /\ row' = CASE Overdue -> Expired(row)
                [] ~Overdue /\ row.state = "awaiting_approval" /\ op[w] = "approve" ->
                      [row EXCEPT !.state = "awaiting_confirmation", !.approved = "approved"]
                [] ~Overdue /\ row.state = "awaiting_approval" /\ op[w] = "decline" ->
                      [row EXCEPT !.state = "rejected", !.approved = "rejected"]
                [] OTHER -> row
    /\ Finish(w)
    /\ UNCHANGED <<due, lapsed, commerceVars, orphans>>

(* The loser of a race executes what the winner confirmed, if it is ready. *)
Reload(w) ==
    /\ pc[w] = "reload"
    /\ IF Executable(row) THEN Goto(w, "load") ELSE Finish(w)
    /\ UNCHANGED <<row, due, lapsed, commerceVars, orphans>>

-----------------------------------------------------------------------------
(* Execution: ActionExecutor.execute_ready up to the committed claim.      *)

Load(w) ==
    /\ pc[w] = "load"
    /\ IF Executable(row) THEN Goto(w, "refresh") ELSE Finish(w)
    /\ UNCHANGED <<row, due, lapsed, commerceVars, orphans>>

Refresh(w) ==
    /\ pc[w] = "refresh"
    /\ Finish(w) \/ \E verdict \in {"retire", "deny", "claim"} : Goto(w, verdict)
    /\ UNCHANGED <<row, due, lapsed, commerceVars, orphans>>

Retire(w) ==
    /\ pc[w] = "retire"
    /\ row' = IF row.state \in Undispatched THEN Expired(row) ELSE row
    /\ Finish(w)
    /\ UNCHANGED <<due, lapsed, commerceVars, orphans>>

Deny(w) ==
    /\ pc[w] = "deny"
    /\ row' = CASE Overdue -> Expired(row)
                [] ~Overdue /\ row.state = "ready_to_execute" -> Denied(row)
                [] OTHER -> row
    /\ Finish(w)
    /\ UNCHANGED <<due, lapsed, commerceVars, orphans>>

(* Faulty variant: the claim goes by the row as it was loaded.             *)
Claim_StaleRead(w) ==
    /\ pc[w] = "claim"
    /\ IF row.state \in {"ready_to_execute", "executing"}
       THEN /\ row' = [row EXCEPT !.state = "executing", !.owner = w]
            /\ lapsed' = FALSE
            /\ Goto(w, "send")
       ELSE UNCHANGED <<row, lapsed>> /\ Finish(w)
    /\ UNCHANGED <<due, commerceVars, orphans>>

Claim(w) ==
    /\ pc[w] = "claim"
    /\ \/ /\ Executable(row) /\ ~due
          /\ row' = [row EXCEPT !.state = "executing", !.owner = w]
          /\ lapsed' = FALSE
          /\ Goto(w, "send")
       \/ /\ Executable(row) /\ due
          /\ row' = Expired(row)
          /\ Finish(w)
          /\ UNCHANGED lapsed
       \/ /\ ~Executable(row)
          /\ Finish(w)
          /\ UNCHANGED <<row, lapsed>>
    /\ UNCHANGED <<due, commerceVars, orphans>>

-----------------------------------------------------------------------------
(* Reconciliation: ActionReconciler.reconcile up to the replay.            *)

BeginReconcile(w) ==
    /\ \/ row.state = "executing" /\ Call(w, "reconcile", "recover")
       \/ /\ row.state = "unresolved" /\ GatesSatisfied(row)
          /\ Call(w, "reconcile", "reclaim")
    /\ UNCHANGED <<row, due, lapsed, commerceVars, orphans>>

(* Faulty variant: an abandoned execution goes back to ready_to_execute.   *)
Recover_ToReady(w) ==
    /\ pc[w] = "recover"
    /\ row' = IF row.state = "executing" /\ row.owner # NoWorker /\ lapsed
              THEN [row EXCEPT !.state = "ready_to_execute", !.owner = NoWorker]
              ELSE row
    /\ Finish(w)
    /\ UNCHANGED <<due, lapsed, commerceVars, orphans>>

Recover(w) ==
    /\ pc[w] = "recover"
    /\ row' = IF row.state = "executing" /\ row.owner # NoWorker /\ lapsed
              THEN [row EXCEPT !.state = "unresolved", !.owner = NoWorker]
              ELSE row
    /\ IF row'.state = "unresolved" /\ GatesSatisfied(row')
       THEN Goto(w, "reclaim")
       ELSE Finish(w)
    /\ UNCHANGED <<due, lapsed, commerceVars, orphans>>

(* Cancel and reschedule can always be read back; a created resource only  *)
(* once its id was recorded.                                               *)
CanReadBeforeReplay(r) == r.kind # "create" \/ r.known

(* Faulty variant: a lapsed reconciliation lease still excludes others.    *)
ClaimReconciliation_NoTakeover(w) ==
    /\ pc[w] = "reclaim"
    /\ IF row.state = "unresolved" /\ row.owner = NoWorker
       THEN /\ row' = [row EXCEPT !.owner = w]
            /\ lapsed' = FALSE /\ rebuffed' = FALSE
            /\ Goto(w, IF CanReadBeforeReplay(row) THEN "precheck" ELSE "send")
       ELSE UNCHANGED <<row, lapsed, rebuffed>> /\ Finish(w)
    /\ UNCHANGED <<due, key, effects, post, held, orphans>>

ClaimReconciliation(w) ==
    /\ pc[w] = "reclaim"
    /\ IF row.state = "unresolved" /\ (row.owner = NoWorker \/ lapsed)
       THEN /\ row' = [row EXCEPT !.owner = w]
            /\ lapsed' = FALSE /\ rebuffed' = FALSE
            /\ Goto(w, IF CanReadBeforeReplay(row) THEN "precheck" ELSE "send")
       ELSE /\ UNCHANGED <<row, lapsed, rebuffed>>
            /\ Finish(w)
    /\ UNCHANGED <<due, key, effects, post, held, orphans>>

(* Faulty variant: whatever the read-back says counts as verified.         *)
ReadBeforeReplay_Trusting(w) ==
    /\ pc[w] = "precheck"
    /\ Goto(w, "send") \/ Learn(w, "settle", "succeeded")
    /\ UNCHANGED <<row, due, lapsed, commerceVars, orphans>>

ReadBeforeReplay(w) ==
    /\ pc[w] = "precheck"
    /\ \/ Goto(w, "send")              \* unavailable, or not there and replayable
       \/ post /\ Learn(w, "settle", "succeeded")
       \/ ~post /\ row.kind = "create" /\ Learn(w, "settle", "unresolved")
    /\ UNCHANGED <<row, due, lapsed, commerceVars, orphans>>

-----------------------------------------------------------------------------
(* The HTTP write: CommerceClient._post_write and the executor's and the   *)
(* reconciler's handling of its result.                                    *)

(* Faulty variant: the reconciler, too, reports an unsent replay as failed.*)
SendFails_AlwaysFailed(w) ==
    /\ \/ pc[w] = "send" /\ Goto(w, "resend")
       \/ pc[w] = "resend" /\ Learn(w, "settle", "failed")
    /\ UNCHANGED <<row, due, lapsed, commerceVars, orphans>>

(* The connection was never made; the first such failure is retried.       *)
SendFails(w) ==
    /\ \/ pc[w] = "send" /\ Goto(w, "resend")
       \/ /\ pc[w] = "resend"
          /\ Learn(w, "settle", IF op[w] = "confirm" THEN "failed" ELSE "unresolved")
    /\ UNCHANGED <<row, due, lapsed, commerceVars, orphans>>

(* The stored proposal does not make a valid request.                      *)
RequestInvalid(w) ==
    /\ pc[w] = "send" /\ op[w] = "confirm"
    /\ Learn(w, "settle", "failed")
    /\ UNCHANGED <<row, due, lapsed, commerceVars, orphans>>

Send(w) ==
    /\ pc[w] \in {"send", "resend"}
    /\ Goto(w, "await")
    /\ UNCHANGED <<row, due, lapsed, commerceVars, orphans>>

(* Faulty variant: a stored acceptance does not stop the operation.        *)
ExecuteIdempotentWrite_Again ==
    \/ /\ key # "unused"
       /\ UNCHANGED commerceVars
    \/ /\ key' = "accepted" /\ effects' = effects + 1
       /\ post' = TRUE /\ held' = TRUE
       /\ UNCHANGED rebuffed

(* NovaCommerce's transaction: the first request under the key decides,    *)
(* its stored response answers all later ones.  An order that is already   *)
(* cancelled cannot be cancelled.                                          *)
ExecuteIdempotentWrite ==
    \/ /\ key # "unused"
       /\ UNCHANGED commerceVars
    \/ /\ key = "unused"
       /\ row.kind = "cancel" => ~post
       /\ key' = "accepted" /\ effects' = effects + 1
       /\ post' = TRUE /\ held' = TRUE
       /\ UNCHANGED rebuffed
    \/ /\ key = "unused"
       /\ key' = "rejected"
       /\ UNCHANGED <<effects, post, held, rebuffed>>

ServeRequest(w) ==
    /\ pc[w] = "await"
    /\ ExecuteIdempotentWrite
    /\ Learn(w, "answered", key')
    /\ UNCHANGED <<row, due, lapsed, orphans>>

ServeOrphan ==
    /\ orphans > 0
    /\ ExecuteIdempotentWrite
    /\ orphans' = orphans - 1
    /\ UNCHANGED <<row, due, lapsed, handlerVars>>

OwnsExecution(w)      == row.state = "executing" /\ row.owner = w
OwnsReconciliation(w) == row.state = "unresolved" /\ row.owner = w

(* A 4xx from in front of the idempotency record: the service token, the   *)
(* customer lookup, the request's schema.  For the client it is the same   *)
(* definite rejection as one that the record gives.                        *)
Refuse(w) ==
    /\ pc[w] = "await"
    /\ Learn(w, "answered", "rejected")
    /\ rebuffed' = (rebuffed \/ (op[w] = "reconcile" /\ OwnsReconciliation(w)))
    /\ UNCHANGED <<row, due, lapsed, key, effects, post, held, orphans>>

(* The sender stops listening; its request may still arrive, or be lost.   *)
Abandon(w) ==
    orphans' \in {orphans} \cup
        (IF pc[w] = "await" /\ orphans < MaxOrphans THEN {orphans + 1} ELSE {})

(* Faulty variant: no answer is taken for a failure.                       *)
TimeOut_ReportsFailure(w) ==
    /\ pc[w] \in {"await", "answered"}
    /\ Abandon(w)
    /\ Learn(w, "settle", "failed")
    /\ UNCHANGED <<row, due, lapsed, commerceVars>>

(* No response, a 5xx (the transaction was rolled back or its commit is in *)
(* doubt, the tenant has no currency) or one that cannot be read.          *)
TimeOut(w) ==
    /\ pc[w] \in {"await", "answered"}
    /\ Abandon(w)
    /\ Learn(w, "settle", "unresolved")
    /\ UNCHANGED <<row, due, lapsed, commerceVars>>

TakeAnswer(w) ==
    /\ pc[w] = "answered"
    /\ \/ /\ outcome[w] = "accepted"
          /\ Goto(w, IF op[w] = "confirm" THEN "record" ELSE "verify")
       \/ outcome[w] = "rejected" /\ Learn(w, "settle", "failed")
    /\ UNCHANGED <<row, due, lapsed, commerceVars, orphans>>

(* The executor commits the resource id while it keeps its lease.          *)
RecordResponse(w) ==
    /\ pc[w] = "record"
    /\ IF OwnsExecution(w)
       THEN row' = [row EXCEPT !.known = TRUE] /\ Goto(w, "verify")
       ELSE UNCHANGED row /\ Finish(w)
    /\ UNCHANGED <<due, lapsed, commerceVars, orphans>>

Verify(w) ==
    /\ pc[w] = "verify"
    /\ \/ post /\ Learn(w, "settle", "succeeded")
       \/ Learn(w, "settle", "unverified")          \* mismatched or unavailable
    /\ UNCHANGED <<row, due, lapsed, commerceVars, orphans>>

(* An accepted but unverified write leaves the action unresolved, with its *)
(* resource id recorded.  Every outcome gives up the lease.                *)
Settled(r, what) ==
    [r EXCEPT !.state = IF what = "unverified" THEN "unresolved" ELSE what,
              !.owner = NoWorker,
              !.known = @ \/ what \in {"succeeded", "unverified"}]

(* Faulty variant: nobody checks that the lease still owns the row.        *)
RecordExecutionOutcome_Unowned(w) ==
    /\ pc[w] = "settle" /\ op[w] = "confirm"
    /\ row' = Settled(row, outcome[w])
    /\ Finish(w)
    /\ UNCHANGED <<due, lapsed, commerceVars, orphans>>

RecordExecutionOutcome(w) ==
    /\ pc[w] = "settle" /\ op[w] = "confirm"
    /\ row' = IF OwnsExecution(w) THEN Settled(row, outcome[w]) ELSE row
    /\ Finish(w)
    /\ UNCHANGED <<due, lapsed, commerceVars, orphans>>

RecordReconciliationOutcome(w) ==
    /\ pc[w] = "settle" /\ op[w] = "reconcile"
    /\ row' = IF OwnsReconciliation(w) THEN Settled(row, outcome[w]) ELSE row
    /\ Finish(w)
    /\ UNCHANGED <<due, lapsed, commerceVars, orphans>>

-----------------------------------------------------------------------------
(* What the handlers do not control.                                       *)

(* The process, or the client's connection, goes away.                     *)
Crash(w) ==
    /\ pc[w] # "idle"
    /\ Abandon(w)
    /\ Finish(w)
    /\ UNCHANGED <<row, due, lapsed, commerceVars>>

DeadlinePasses ==
    /\ ~due
    /\ due' = TRUE
    /\ UNCHANGED <<row, lapsed, handlerVars, commerceVars, orphans>>

LeaseLapses ==
    /\ row.owner # NoWorker /\ ~lapsed
    /\ lapsed' = TRUE
    /\ UNCHANGED <<row, due, handlerVars, commerceVars, orphans>>

(* The shop's own staff, or another action, cancels the same order or      *)
(* moves the same shipment to the slot this action asks for ...            *)
OtherActorSatisfies ==
    /\ row.kind \in {"cancel", "reschedule"}
    /\ ~post
    /\ post' = TRUE /\ held' = TRUE
    /\ UNCHANGED <<row, due, lapsed, handlerVars, key, effects, rebuffed, orphans>>

(* ... or moves the shipment on, or works on the created resource.         *)
OtherActorDisturbs ==
    /\ row.kind \in {"reschedule", "create"}
    /\ post
    /\ post' = FALSE
    /\ UNCHANGED <<row, due, lapsed, handlerVars, key, effects, held, rebuffed, orphans>>

-----------------------------------------------------------------------------
Begin(w) ==
    \/ BeginPropose(w) \/ BeginConfirm(w) \/ BeginReject(w)
    \/ BeginSupervisorDecision(w) \/ BeginReconcile(w)

(* Steps a running handler takes by itself ...                             *)
SteadyStep(w) ==
    \/ RecordPolicy(w)
    \/ CheckDecision(w) \/ ExpireStale(w) \/ ConfirmDecision(w)
    \/ RejectDecision(w) \/ SupervisorDecision(w) \/ Reload(w)
    \/ Load(w) \/ Refresh(w) \/ Retire(w) \/ Deny(w) \/ Claim(w)
    \/ Recover(w) \/ ClaimReconciliation(w) \/ ReadBeforeReplay(w)
    \/ RequestInvalid(w) \/ Send(w) \/ TakeAnswer(w) \/ RecordResponse(w)
    \/ Verify(w) \/ RecordExecutionOutcome(w) \/ RecordReconciliationOutcome(w)

(* ... or because the network fails it.                                    *)
HandlerStep(w) == SteadyStep(w) \/ SendFails(w) \/ TimeOut(w)

NetworkStep(w) == ServeRequest(w) \/ Refuse(w)

Environment ==
    \/ Supersede \/ ServeOrphan \/ DeadlinePasses \/ LeaseLapses
    \/ OtherActorSatisfies \/ OtherActorDisturbs

Next ==
    \/ \E w \in Workers : Begin(w) \/ HandlerStep(w) \/ NetworkStep(w) \/ Crash(w)
    \/ Environment

Spec == Init /\ [][Next]_vars

-----------------------------------------------------------------------------
(* Properties.                                                             *)

(* Handlers that have claimed the row and may still reach NovaCommerce or  *)
(* write down what it said.                                                *)
Driving == {"precheck", "send", "resend", "await", "answered", "record",
            "verify", "settle"}

(* The write is applied at most once, however often handlers crash, time   *)
(* out and replay it (executor.py, reconciliation.py, idempotency.py).     *)
AtMostOneEffect == effects <= 1

(* Nothing leaves for NovaCommerce, and no state that claims it did is     *)
(* reached, unless policy allowed the action, the customer confirmed it    *)
(* and, where required, a supervisor approved it.                          *)
GatesBeforeDispatch ==
    \/ row.state \in Dispatched \cup {"succeeded", "failed"}
    \/ effects > 0 \/ orphans > 0
    \/ \E w \in Workers : pc[w] \in Driving
    => /\ row.policy = "allowed" /\ row.confirmed = "confirmed"
       /\ row.approval => row.approved = "approved"

(* An action that reads as not sent, denied, rejected, expired or          *)
(* superseded was not sent, and nobody is about to send it.                *)
CalledOffMeansNotSent ==
    row.state \in Undispatched \cup {"policy_denied", "rejected", "expired"} =>
        /\ key = "unused" /\ effects = 0 /\ orphans = 0
        /\ \A w \in Workers : pc[w] \notin Driving

(* While the row says "executing", only its lease owner drives the write.  *)
ExecutionIsExclusive ==
    row.state = "executing" =>
        \A w \in Workers : pc[w] \in Driving => row.owner = w

(* A failure reported to the customer was not applied: what errors.py says *)
(* of a definite rejection, and what the code does not keep.               *)
FailedMeansNoEffect == row.state = "failed" => effects = 0

(* What it keeps: a reported failure was not applied, however requests     *)
(* were lost, delayed and replayed, unless the very replay it reports was  *)
(* refused in front of the idempotency record and so says nothing of the   *)
(* requests before it (executor.py, reconciliation.py: reconcile).         *)
FailureIsReal == row.state = "failed" /\ ~rebuffed => effects = 0

(* A success reported to the customer really came about, and what had to   *)
(* be created was created by this action.                                  *)
SuccessIsReal ==
    row.state = "succeeded" => held /\ (row.kind = "create" => effects = 1)

(* Nothing about an action changes after a terminal state: no late         *)
(* decision, outcome or lease overwrites it.                               *)
TerminalIsFinal == [][row.state \in Terminal => row' = row]_vars

(* ... and no write under way is applied after it, but for the failure of  *)
(* a replay that was refused unread.  (A reschedule may be: see the        *)
(* README.)                                                                *)
NoLateEffect ==
    [][/\ row.state \in Terminal /\ row.kind # "reschedule"
       /\ row.state = "failed" => ~rebuffed
       => effects' = effects]_vars

-----------------------------------------------------------------------------
(* The contract this component implements.                                 *)

Phase ==
    CASE row.state \in Undispatched -> "open"
      [] row.state \in Dispatched -> "committed"
      [] row.state = "succeeded" -> "succeeded"
      [] row.state = "failed" -> "failed"
      [] OTHER -> "void"

Contract == INSTANCE ActionContract WITH
    mayActLate <- row.kind = "reschedule", doubted <- rebuffed,
    phase <- Phase, applied <- effects > 0, met <- held

(* Seen from outside, an action is called off or committed to, applied at  *)
(* most once, and reports only what is so, or was told by a replay that    *)
(* was refused unread.                                                     *)
ImplementsContract == Contract!Spec
=============================================================================
