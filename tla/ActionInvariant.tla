-------------------------- MODULE ActionInvariant --------------------------
(***************************************************************************)
(* The inductive invariant of ActionLifecycle: why its safety properties   *)
(* hold.  Each part is about something a handler knows, or has ruled out,  *)
(* at some place in its code.                                              *)
(***************************************************************************)
EXTENDS ActionLifecycle

(* Where a handler stands says what it was called for, and what it has     *)
(* learnt about its write.                                                 *)
RoleOf(w) ==
    /\ pc[w] \in {"reload", "load", "refresh", "retire", "deny", "claim", "record"} =>
          op[w] = "confirm"
    /\ pc[w] \in {"recover", "reclaim", "precheck"} => op[w] = "reconcile"
    /\ pc[w] \in Driving => op[w] \in {"confirm", "reconcile"}
    /\ pc[w] = "answered" => outcome[w] \in {"accepted", "rejected"}
    /\ pc[w] = "settle" =>
          outcome[w] \in {"succeeded", "unverified", "failed", "unresolved"}

Roles == \A w \in Workers : RoleOf(w)

(* The gates are passed one after the other and stay passed.               *)
GatesInOrder ==
    /\ row.state = "proposed" => ~row.approval
    /\ row.state \in {"awaiting_approval", "awaiting_confirmation"} =>
          row.policy = "allowed"
    /\ row.state = "awaiting_confirmation" /\ row.approval => row.approved = "approved"
    /\ row.state \in {"ready_to_execute", "succeeded", "failed"} \cup Dispatched =>
          GatesSatisfied(row)

(* Before the claim, and when the action is called off, there is no        *)
(* driver and no request, and NovaCommerce has never seen the key.         *)
SentOnlyWhenDispatched ==
    row.state \notin Dispatched \cup {"succeeded", "failed"} =>
        /\ key = "unused" /\ orphans = 0
        /\ \A w \in Workers : pc[w] \notin Driving

(* The idempotency record and what NovaCommerce did agree.                 *)
KeyTellsEffect ==
    /\ effects = (IF key = "accepted" THEN 1 ELSE 0)
    /\ key = "accepted" \/ post => held
    /\ row.kind = "create" /\ held => key = "accepted"
    /\ row.kind = "cancel" /\ held => post

(* What a handler has learnt from NovaCommerce is so; a refused replay     *)
(* counts only if its handler is still to record it.                       *)
AnswerIsTrue(w) ==
    /\ \/ pc[w] \in {"record", "verify"}
       \/ pc[w] = "answered" /\ outcome[w] = "accepted"
       => key = "accepted"
    /\ pc[w] = "settle" /\ outcome[w] = "succeeded" => held
    /\ /\ op[w] = "reconcile"
       /\ \/ pc[w] = "answered" /\ outcome[w] = "rejected"
          \/ pc[w] = "settle" /\ outcome[w] = "failed"
       => key = "rejected" \/ rebuffed \/ ~OwnsReconciliation(w)

AnswersAreTrue == \A w \in Workers : AnswerIsTrue(w)

(* While the row is executing, the only driver is the executor that owns   *)
(* it, and its request is the first that NovaCommerce gets to see.         *)
SendsFirstRequest(w) ==
    /\ row.owner = w /\ op[w] = "confirm"
    /\ pc[w] \in {"send", "resend", "await"} => key = "unused" /\ orphans = 0
    /\ \/ pc[w] = "answered" /\ outcome[w] = "rejected"
       \/ pc[w] = "settle" /\ outcome[w] = "failed"
       => key \in {"unused", "rejected"} /\ orphans = 0

FirstRequest ==
    row.state = "executing" =>
        \A w \in Workers : pc[w] \in Driving => SendsFirstRequest(w)

(* Terminal reports are final: a success was seen, and after a failure     *)
(* nothing can be applied any more, unless it rests on a refused replay.   *)
ReportsAreFinal ==
    /\ row.state = "succeeded" => held
    /\ row.state = "failed" =>
          \/ key = "rejected"
          \/ /\ key = "unused" /\ orphans = 0
             /\ \A w \in Workers : pc[w] \notin Driving
          \/ rebuffed

IInv ==
    /\ TypeOK
    /\ Roles
    /\ GatesInOrder
    /\ SentOnlyWhenDispatched
    /\ KeyTellsEffect
    /\ AnswersAreTrue
    /\ FirstRequest
    /\ ReportsAreFinal
=============================================================================
