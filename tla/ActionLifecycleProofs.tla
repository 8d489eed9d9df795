----------------------- MODULE ActionLifecycleProofs -----------------------
(***************************************************************************)
(* Theorems about ActionLifecycle, for any number of handlers, abandoned   *)
(* requests and kinds of write.                                            *)
(***************************************************************************)
EXTENDS ActionInvariant, TLAPS

-----------------------------------------------------------------------------
(* The handlers' variables: their types, and what each way of ending a     *)
(* handler's step does to them.                                            *)
HandlerTypes ==
    /\ pc \in [Workers -> Labels]
    /\ op \in [Workers -> Ops]
    /\ outcome \in [Workers -> Outcomes]

LEMMA CallEffect ==
  ASSUME HandlerTypes, NEW w \in Workers, NEW operation \in Ops, NEW label \in Labels,
         Call(w, operation, label)
  PROVE  /\ HandlerTypes'
         /\ \A v \in Workers : /\ pc'[v] = IF v = w THEN label ELSE pc[v]
                               /\ op'[v] = IF v = w THEN operation ELSE op[v]
                               /\ outcome'[v] = outcome[v]
BY DEF HandlerTypes, Call

LEMMA GotoEffect ==
  ASSUME HandlerTypes, NEW w \in Workers, NEW label \in Labels, Goto(w, label)
  PROVE  /\ HandlerTypes'
         /\ \A v \in Workers : /\ pc'[v] = IF v = w THEN label ELSE pc[v]
                               /\ op'[v] = op[v]
                               /\ outcome'[v] = outcome[v]
BY DEF HandlerTypes, Goto

LEMMA LearnEffect ==
  ASSUME HandlerTypes, NEW w \in Workers, NEW label \in Labels, NEW what \in Outcomes,
         Learn(w, label, what)
  PROVE  /\ HandlerTypes'
         /\ \A v \in Workers : /\ pc'[v] = IF v = w THEN label ELSE pc[v]
                               /\ op'[v] = op[v]
                               /\ outcome'[v] = IF v = w THEN what ELSE outcome[v]
BY DEF HandlerTypes, Learn

LEMMA FinishEffect ==
  ASSUME HandlerTypes, NEW w \in Workers, Finish(w)
  PROVE  /\ HandlerTypes'
         /\ \A v \in Workers : /\ pc'[v] = IF v = w THEN "idle" ELSE pc[v]
                               /\ op'[v] = IF v = w THEN "none" ELSE op[v]
                               /\ outcome'[v] = IF v = w THEN "none" ELSE outcome[v]
BY DEF HandlerTypes, Finish, Labels, Ops, Outcomes

-----------------------------------------------------------------------------
(* One step of one handler, which moves no other handler, or a step of     *)
(* their environment.                                                      *)
HandlerAction(w) == Begin(w) \/ HandlerStep(w) \/ NetworkStep(w) \/ Crash(w)

LEMMA NextCases ==
  ASSUME [Next]_vars
  PROVE  \/ \E w \in Workers : HandlerAction(w)
         \/ Environment
         \/ UNCHANGED vars
BY DEF Next, HandlerAction

LEMMA HandlerTypesKept ==
  ASSUME HandlerTypes, key \in KeyStates, NEW w \in Workers, HandlerAction(w)
  PROVE  /\ HandlerTypes'
         /\ \A v \in Workers \ {w} :
               pc'[v] = pc[v] /\ op'[v] = op[v] /\ outcome'[v] = outcome[v]
<1> USE DEF Labels, Ops, Outcomes
<1>1. CASE Begin(w)
  BY <1>1, CallEffect
  DEF Begin, BeginPropose, BeginConfirm, BeginReject, BeginSupervisorDecision, BeginReconcile
<1>2. CASE \/ RecordPolicy(w) \/ RejectDecision(w) \/ SupervisorDecision(w) \/ Retire(w)
           \/ Deny(w) \/ RecordExecutionOutcome(w) \/ RecordReconciliationOutcome(w)
           \/ Crash(w)
  BY <1>2, FinishEffect
  DEF RecordPolicy, RejectDecision, SupervisorDecision, Retire, Deny,
      RecordExecutionOutcome, RecordReconciliationOutcome, Crash
<1>3. CASE \/ CheckDecision(w) \/ ExpireStale(w) \/ ConfirmDecision(w) \/ Reload(w)
           \/ Load(w) \/ Refresh(w)
  BY <1>3, FinishEffect, GotoEffect
  DEF CheckDecision, ExpireStale, ConfirmDecision, Reload, Load, Refresh
<1>4. CASE \/ Claim(w) \/ Recover(w) \/ ClaimReconciliation(w) \/ RecordResponse(w) \/ Send(w)
  BY <1>4, FinishEffect, GotoEffect
  DEF Claim, Recover, ClaimReconciliation, RecordResponse, Send
<1>5. CASE \/ ReadBeforeReplay(w) \/ SendFails(w) \/ RequestInvalid(w) \/ Refuse(w)
           \/ TimeOut(w) \/ TakeAnswer(w) \/ Verify(w)
  BY <1>5, GotoEffect, LearnEffect
  DEF ReadBeforeReplay, SendFails, RequestInvalid, Refuse, TimeOut, TakeAnswer, Verify
<1>6. CASE ServeRequest(w)
  <2>1. key' \in {"accepted", "rejected"}
    BY <1>6 DEF ServeRequest, ExecuteIdempotentWrite, commerceVars, KeyStates
  <2> QED BY <1>6, <2>1, LearnEffect DEF ServeRequest
<1> QED
  BY <1>1, <1>2, <1>3, <1>4, <1>5, <1>6
  DEF HandlerAction, HandlerStep, SteadyStep, NetworkStep

LEMMA RowTypeKept ==
  ASSUME TypeOK, Roles, NEW w \in Workers, HandlerAction(w)
  PROVE  row' \in Row
<1>1. row \in Row
  BY DEF TypeOK
<1> USE <1>1 DEF Row, States, Undispatched, Dispatched, Terminal, Expired, Denied
<1>2. CASE Begin(w)
  BY <1>2
  DEF Begin, BeginPropose, BeginConfirm, BeginReject, BeginSupervisorDecision, BeginReconcile
<1>3. CASE RecordPolicy(w)
  BY <1>3 DEF RecordPolicy
<1>4. CASE ExpireStale(w) \/ ConfirmDecision(w)
  BY <1>4 DEF ExpireStale, ConfirmDecision
<1>9. CASE RejectDecision(w)
  BY <1>9 DEF RejectDecision
<1>10. CASE SupervisorDecision(w)
  <2>1. \/ row' = Expired(row) \/ row' = row
        \/ row' = [row EXCEPT !.state = "awaiting_confirmation", !.approved = "approved"]
        \/ row' = [row EXCEPT !.state = "rejected", !.approved = "rejected"]
    BY <1>10 DEF SupervisorDecision
  <2> QED BY <2>1
<1>5. CASE Retire(w) \/ Deny(w) \/ Claim(w)
  BY <1>5 DEF Retire, Deny, Claim
<1>6. CASE Recover(w) \/ ClaimReconciliation(w) \/ RecordResponse(w)
  BY <1>6 DEF Recover, ClaimReconciliation, RecordResponse
<1>7. CASE RecordExecutionOutcome(w) \/ RecordReconciliationOutcome(w)
  <2>1. outcome[w] \in {"succeeded", "unverified", "failed", "unresolved"}
    BY <1>7 DEF Roles, RoleOf, RecordExecutionOutcome, RecordReconciliationOutcome
  <2>2. row' = Settled(row, outcome[w]) \/ row' = row
    BY <1>7 DEF RecordExecutionOutcome, RecordReconciliationOutcome
  <2> QED BY <2>1, <2>2 DEF Settled
<1>8. CASE \/ CheckDecision(w) \/ Reload(w) \/ Load(w) \/ Refresh(w) \/ ReadBeforeReplay(w)
           \/ SendFails(w) \/ RequestInvalid(w) \/ Send(w) \/ NetworkStep(w) \/ TimeOut(w)
           \/ TakeAnswer(w) \/ Verify(w) \/ Crash(w)
  BY <1>8
  DEF CheckDecision, Reload, Load, Refresh, ReadBeforeReplay, SendFails, RequestInvalid, Send,
      NetworkStep, ServeRequest, Refuse, TimeOut, TakeAnswer, Verify, Crash
<1> QED
  BY <1>2, <1>3, <1>4, <1>5, <1>6, <1>7, <1>8, <1>9, <1>10
  DEF HandlerAction, HandlerStep, SteadyStep

(* The types of everything but the row and the handlers.                   *)
CommerceTypes ==
    /\ key \in KeyStates /\ effects \in Nat /\ post \in BOOLEAN /\ held \in BOOLEAN
    /\ rebuffed \in BOOLEAN

LEMMA CommerceTypesKept ==
  ASSUME CommerceTypes, ExecuteIdempotentWrite
  PROVE  CommerceTypes'
<1>1. CASE UNCHANGED commerceVars
  BY <1>1 DEF CommerceTypes, commerceVars
<1>2. CASE /\ key' = "accepted" /\ effects' = effects + 1 /\ post' = TRUE /\ held' = TRUE
           /\ UNCHANGED rebuffed
  BY <1>2 DEF CommerceTypes, KeyStates
<1>3. CASE key' = "rejected" /\ UNCHANGED <<effects, post, held, rebuffed>>
  BY <1>3 DEF CommerceTypes, KeyStates
<1> QED BY <1>1, <1>2, <1>3 DEF ExecuteIdempotentWrite

LEMMA OrphansTypeKept ==
  ASSUME orphans \in 0..MaxOrphans, NEW w, Abandon(w)
  PROVE  orphans' \in 0..MaxOrphans
<1>1. orphans' = orphans \/ (orphans < MaxOrphans /\ orphans' = orphans + 1)
  BY DEF Abandon
<1> QED BY <1>1, MaxOrphansAssumption

LEMMA OtherTypesKept ==
  ASSUME TypeOK, NEW w \in Workers, HandlerAction(w)
  PROVE  /\ due' \in BOOLEAN /\ lapsed' \in BOOLEAN
         /\ CommerceTypes'
         /\ orphans' \in 0..MaxOrphans
<1>1. /\ due \in BOOLEAN /\ lapsed \in BOOLEAN
      /\ CommerceTypes
      /\ orphans \in 0..MaxOrphans
  BY DEF TypeOK, CommerceTypes
<1>2. CASE Begin(w)
  BY <1>1, <1>2
  DEF CommerceTypes, commerceVars, Begin, BeginPropose, BeginConfirm, BeginReject,
      BeginSupervisorDecision, BeginReconcile
<1>3. CASE \/ RecordPolicy(w) \/ CheckDecision(w) \/ ExpireStale(w) \/ ConfirmDecision(w)
           \/ RejectDecision(w) \/ SupervisorDecision(w) \/ Reload(w)
  BY <1>1, <1>3
  DEF CommerceTypes, commerceVars, RecordPolicy, CheckDecision, ExpireStale, ConfirmDecision,
      RejectDecision, SupervisorDecision, Reload
<1>4. CASE \/ Load(w) \/ Refresh(w) \/ Retire(w) \/ Deny(w) \/ Claim(w)
           \/ Recover(w) \/ ClaimReconciliation(w) \/ ReadBeforeReplay(w)
  BY <1>1, <1>4
  DEF CommerceTypes, commerceVars, Load, Refresh, Retire, Deny, Claim, Recover,
      ClaimReconciliation, ReadBeforeReplay
<1>5. CASE \/ SendFails(w) \/ RequestInvalid(w) \/ Send(w) \/ TakeAnswer(w) \/ Refuse(w)
           \/ RecordResponse(w) \/ Verify(w) \/ RecordExecutionOutcome(w)
           \/ RecordReconciliationOutcome(w)
  BY <1>1, <1>5
  DEF CommerceTypes, commerceVars, SendFails, RequestInvalid, Send, TakeAnswer, Refuse,
      RecordResponse, Verify, RecordExecutionOutcome, RecordReconciliationOutcome
<1>6. CASE ServeRequest(w)
  BY <1>1, <1>6, CommerceTypesKept DEF ServeRequest
<1>7. CASE TimeOut(w) \/ Crash(w)
  BY <1>1, <1>7, OrphansTypeKept DEF TimeOut, Crash, CommerceTypes, commerceVars
<1> QED
  BY <1>2, <1>3, <1>4, <1>5, <1>6, <1>7
  DEF HandlerAction, HandlerStep, SteadyStep, NetworkStep

LEMMA EnvironmentTypesKept ==
  ASSUME row \in Row, due \in BOOLEAN, lapsed \in BOOLEAN, HandlerTypes, CommerceTypes,
         orphans \in 0..MaxOrphans, Environment
  PROVE  /\ row' \in Row
         /\ due' \in BOOLEAN /\ lapsed' \in BOOLEAN
         /\ HandlerTypes' /\ CommerceTypes'
         /\ orphans' \in 0..MaxOrphans
<1>1. CASE Supersede
  BY <1>1
  DEF Supersede, Expired, Row, States, Terminal, handlerVars, commerceVars, HandlerTypes,
      CommerceTypes
<1>2. CASE ServeOrphan
  <2>1. CommerceTypes'
    BY <1>2, CommerceTypesKept DEF ServeOrphan
  <2>2. orphans' \in 0..MaxOrphans
    BY <1>2, MaxOrphansAssumption DEF ServeOrphan
  <2> QED BY <1>2, <2>1, <2>2 DEF ServeOrphan, handlerVars, HandlerTypes
<1>3. CASE DeadlinePasses \/ LeaseLapses
  BY <1>3 DEF DeadlinePasses, LeaseLapses, handlerVars, commerceVars, HandlerTypes, CommerceTypes
<1>4. CASE OtherActorSatisfies \/ OtherActorDisturbs
  BY <1>4 DEF OtherActorSatisfies, OtherActorDisturbs, handlerVars, HandlerTypes, CommerceTypes
<1> QED BY <1>1, <1>2, <1>3, <1>4 DEF Environment

LEMMA TypeKept ==
  ASSUME TypeOK, Roles, [Next]_vars
  PROVE  TypeOK'
<1>1. /\ row \in Row /\ due \in BOOLEAN /\ lapsed \in BOOLEAN
      /\ HandlerTypes /\ CommerceTypes /\ orphans \in 0..MaxOrphans
  BY DEF TypeOK, HandlerTypes, CommerceTypes
<1>2. /\ row' \in Row /\ due' \in BOOLEAN /\ lapsed' \in BOOLEAN
      /\ HandlerTypes' /\ CommerceTypes' /\ orphans' \in 0..MaxOrphans
  <2>1. CASE UNCHANGED vars
    BY <1>1, <2>1 DEF vars, handlerVars, commerceVars, HandlerTypes, CommerceTypes
  <2>2. CASE Environment
    BY <1>1, <2>2, EnvironmentTypesKept
  <2>3. ASSUME NEW w \in Workers, HandlerAction(w)
        PROVE  <1>2
    BY <1>1, <2>3, RowTypeKept, HandlerTypesKept, OtherTypesKept DEF CommerceTypes
  <2> QED BY <2>1, <2>2, <2>3, NextCases
<1> QED BY <1>2 DEF TypeOK, HandlerTypes, CommerceTypes

-----------------------------------------------------------------------------
(* Roles.                                                                  *)

LEMMA RoleKept ==
  ASSUME HandlerTypes, key \in KeyStates, Roles, NEW w \in Workers, HandlerAction(w)
  PROVE  RoleOf(w)'
<1>1. RoleOf(w)
  BY DEF Roles
<1> USE <1>1 DEF RoleOf, Driving, Labels, Ops, Outcomes
<1>2. CASE Begin(w)
  BY <1>2, CallEffect
  DEF Begin, BeginPropose, BeginConfirm, BeginReject, BeginSupervisorDecision, BeginReconcile
<1>3. CASE \/ RecordPolicy(w) \/ RejectDecision(w) \/ SupervisorDecision(w) \/ Retire(w)
           \/ Deny(w) \/ RecordExecutionOutcome(w) \/ RecordReconciliationOutcome(w)
           \/ Crash(w)
  BY <1>3, FinishEffect
  DEF RecordPolicy, RejectDecision, SupervisorDecision, Retire, Deny,
      RecordExecutionOutcome, RecordReconciliationOutcome, Crash
<1>4. CASE \/ CheckDecision(w) \/ ExpireStale(w) \/ ConfirmDecision(w) \/ Reload(w)
           \/ Load(w) \/ Refresh(w)
  BY <1>4, FinishEffect, GotoEffect
  DEF CheckDecision, ExpireStale, ConfirmDecision, Reload, Load, Refresh
<1>5. CASE \/ Claim(w) \/ Recover(w) \/ ClaimReconciliation(w) \/ RecordResponse(w) \/ Send(w)
  BY <1>5, FinishEffect, GotoEffect
  DEF Claim, Recover, ClaimReconciliation, RecordResponse, Send
<1>6. CASE \/ ReadBeforeReplay(w) \/ SendFails(w) \/ RequestInvalid(w) \/ Refuse(w)
           \/ TimeOut(w) \/ TakeAnswer(w) \/ Verify(w)
  BY <1>6, GotoEffect, LearnEffect
  DEF ReadBeforeReplay, SendFails, RequestInvalid, Refuse, TimeOut, TakeAnswer, Verify
<1>7. CASE ServeRequest(w)
  <2>1. key' \in {"accepted", "rejected"}
    BY <1>7 DEF ServeRequest, ExecuteIdempotentWrite, commerceVars, KeyStates
  <2> QED BY <1>7, <2>1, LearnEffect DEF ServeRequest
<1> QED
  BY <1>2, <1>3, <1>4, <1>5, <1>6, <1>7
  DEF HandlerAction, HandlerStep, SteadyStep, NetworkStep

LEMMA RolesKept ==
  ASSUME TypeOK, Roles, [Next]_vars
  PROVE  Roles'
<1>1. HandlerTypes /\ key \in KeyStates
  BY DEF TypeOK, HandlerTypes
<1>2. CASE UNCHANGED handlerVars
  BY <1>2 DEF handlerVars, Roles, RoleOf
<1>3. ASSUME NEW w \in Workers, HandlerAction(w)
      PROVE  Roles'
  <2>1. RoleOf(w)'
    BY <1>1, <1>3, RoleKept
  <2>2. ASSUME NEW v \in Workers \ {w}
        PROVE  RoleOf(v)'
    BY <1>1, <1>3, <2>2, HandlerTypesKept DEF Roles, RoleOf
  <2> QED BY <2>1, <2>2 DEF Roles
<1>4. CASE Environment
  BY <1>2, <1>4
  DEF Environment, Supersede, ServeOrphan, DeadlinePasses, LeaseLapses, OtherActorSatisfies,
      OtherActorDisturbs
<1>5. CASE UNCHANGED vars
  BY <1>2, <1>5 DEF vars
<1> QED BY <1>3, <1>4, <1>5, NextCases

-----------------------------------------------------------------------------
(* Gates.                                                                  *)

LEMMA GatesKept ==
  ASSUME TypeOK, Roles, GatesInOrder, [Next]_vars
  PROVE  GatesInOrder'
<1>1. row \in Row
  BY DEF TypeOK
<1>2. CASE UNCHANGED row
  BY <1>2 DEF GatesInOrder, GatesSatisfied
<1> USE <1>1 DEF GatesInOrder, GatesSatisfied, Row, Undispatched, Dispatched
<1>3. ASSUME NEW w \in Workers, HandlerAction(w)
      PROVE  GatesInOrder'
  <2>1. CASE Begin(w)
    BY <1>2, <2>1
    DEF Begin, BeginPropose, BeginConfirm, BeginReject, BeginSupervisorDecision, BeginReconcile
  <2>2. CASE RecordPolicy(w)
    BY <2>2 DEF RecordPolicy, Expired, Denied
  <2>3. CASE ExpireStale(w) \/ Retire(w) \/ Deny(w)
    BY <2>3 DEF ExpireStale, Retire, Deny, Expired, Denied
  <2>4. CASE ConfirmDecision(w)
    BY <2>4 DEF ConfirmDecision, Expired
  <2>5. CASE RejectDecision(w)
    BY <2>5 DEF RejectDecision, Expired
  <2>6. CASE SupervisorDecision(w)
    BY <2>6 DEF SupervisorDecision, Expired
  <2>7. CASE Claim(w)
    BY <2>7 DEF Claim, Executable, Expired
  <2>8. CASE Recover(w) \/ ClaimReconciliation(w) \/ RecordResponse(w)
    BY <2>8 DEF Recover, ClaimReconciliation, RecordResponse
  <2>9. CASE RecordExecutionOutcome(w) \/ RecordReconciliationOutcome(w)
    <3>1. outcome[w] \in {"succeeded", "unverified", "failed", "unresolved"}
      BY <2>9 DEF Roles, RoleOf, RecordExecutionOutcome, RecordReconciliationOutcome
    <3>2. row' = row \/ (row.state \in Dispatched /\ row' = Settled(row, outcome[w]))
      BY <2>9
      DEF RecordExecutionOutcome, RecordReconciliationOutcome, OwnsExecution, OwnsReconciliation
    <3> QED BY <3>1, <3>2 DEF Settled
  <2>10. CASE \/ CheckDecision(w) \/ Reload(w) \/ Load(w) \/ Refresh(w) \/ ReadBeforeReplay(w)
              \/ SendFails(w) \/ RequestInvalid(w) \/ Send(w) \/ NetworkStep(w) \/ TimeOut(w)
              \/ TakeAnswer(w) \/ Verify(w) \/ Crash(w)
    BY <1>2, <2>10
    DEF CheckDecision, Reload, Load, Refresh, ReadBeforeReplay, SendFails, RequestInvalid, Send,
        NetworkStep, ServeRequest, Refuse, TimeOut, TakeAnswer, Verify, Crash
  <2> QED
    BY <1>3, <2>1, <2>2, <2>3, <2>4, <2>5, <2>6, <2>7, <2>8, <2>9, <2>10
    DEF HandlerAction, HandlerStep, SteadyStep
<1>4. CASE Supersede
  BY <1>4 DEF Supersede, Expired
<1>5. CASE Environment /\ ~Supersede
  BY <1>2, <1>5
  DEF Environment, ServeOrphan, DeadlinePasses, LeaseLapses, OtherActorSatisfies,
      OtherActorDisturbs
<1>6. CASE UNCHANGED vars
  BY <1>2, <1>6 DEF vars
<1> QED BY <1>3, <1>4, <1>5, <1>6, NextCases

-----------------------------------------------------------------------------
(* What a handler's step may do to the row, and what a handler that drives *)
(* no write may do at all.                                                 *)

Sent == Dispatched \cup {"succeeded", "failed"}

RowMove(w) ==
    \/ row' = row
    \/ row.state \in Undispatched /\ row'.state \notin Sent /\ row'.kind = row.kind
    \/ /\ pc[w] = "claim" /\ Executable(row)
       /\ row' = [row EXCEPT !.state = "executing", !.owner = w]
    \/ /\ row.state = "executing"
       /\ row' = [row EXCEPT !.state = "unresolved", !.owner = NoWorker]
    \/ row.state = "unresolved" /\ row' = [row EXCEPT !.owner = w]
    \/ row.state = "executing" /\ row' = [row EXCEPT !.known = TRUE]
    \/ /\ pc[w] = "settle"
       /\ \/ op[w] = "confirm" /\ OwnsExecution(w)
          \/ op[w] = "reconcile" /\ OwnsReconciliation(w)
       /\ row' = Settled(row, outcome[w])

LEMMA RowMoves ==
  ASSUME row \in Row, NEW w \in Workers, HandlerAction(w)
  PROVE  RowMove(w)
<1> USE DEF RowMove
<1>1. CASE Begin(w)
  BY <1>1
  DEF Begin, BeginPropose, BeginConfirm, BeginReject, BeginSupervisorDecision, BeginReconcile
<1>2. CASE \/ RecordPolicy(w) \/ ExpireStale(w) \/ ConfirmDecision(w) \/ RejectDecision(w)
           \/ SupervisorDecision(w) \/ Retire(w) \/ Deny(w)
  <2> USE DEF Row, Overdue, Undispatched, Sent, Dispatched, Expired, Denied
  <2>1. CASE RecordPolicy(w)
    BY <2>1 DEF RecordPolicy
  <2>2. CASE ExpireStale(w) \/ Retire(w) \/ Deny(w)
    BY <2>2 DEF ExpireStale, Retire, Deny
  <2>3. CASE ConfirmDecision(w)
    BY <2>3 DEF ConfirmDecision
  <2>4. CASE RejectDecision(w)
    BY <2>4 DEF RejectDecision
  <2>5. CASE SupervisorDecision(w)
    BY <2>5 DEF SupervisorDecision
  <2> QED BY <1>2, <2>1, <2>2, <2>3, <2>4, <2>5
<1>3. CASE Claim(w)
  BY <1>3 DEF Claim, Executable, Expired, Row, Undispatched, Sent, Dispatched
<1>4. CASE Recover(w)
  BY <1>4 DEF Recover
<1>5. CASE ClaimReconciliation(w)
  BY <1>5 DEF ClaimReconciliation
<1>6. CASE RecordResponse(w)
  BY <1>6 DEF RecordResponse, OwnsExecution
<1>7. CASE RecordExecutionOutcome(w)
  BY <1>7 DEF RecordExecutionOutcome
<1>8. CASE RecordReconciliationOutcome(w)
  BY <1>8 DEF RecordReconciliationOutcome
<1>9. CASE \/ CheckDecision(w) \/ Reload(w) \/ Load(w) \/ Refresh(w) \/ ReadBeforeReplay(w)
           \/ SendFails(w) \/ RequestInvalid(w) \/ Send(w) \/ NetworkStep(w) \/ TimeOut(w)
           \/ TakeAnswer(w) \/ Verify(w) \/ Crash(w)
  BY <1>9
  DEF CheckDecision, Reload, Load, Refresh, ReadBeforeReplay, SendFails, RequestInvalid, Send,
      NetworkStep, ServeRequest, Refuse, TimeOut, TakeAnswer, Verify, Crash
<1> QED
  BY <1>1, <1>2, <1>3, <1>4, <1>5, <1>6, <1>7, <1>8, <1>9
  DEF HandlerAction, HandlerStep, SteadyStep

(* The state that a settling handler leaves.                               *)
LEMMA SettledRow ==
  ASSUME row \in Row, Roles, NEW w \in Workers, pc[w] = "settle"
  PROVE  /\ outcome[w] \in {"succeeded", "unverified", "failed", "unresolved"}
         /\ Settled(row, outcome[w]).kind = row.kind
         /\ Settled(row, outcome[w]).state =
               IF outcome[w] = "unverified" THEN "unresolved" ELSE outcome[w]
<1>1. outcome[w] \in {"succeeded", "unverified", "failed", "unresolved"}
  BY DEF Roles, RoleOf
<1> QED BY <1>1 DEF Settled, Row

(* It starts to drive one only by claiming the row.                        *)
LEMMA NotDrivingMoves ==
  ASSUME HandlerTypes, NEW w \in Workers, HandlerAction(w), pc[w] \notin Driving
  PROVE  /\ UNCHANGED <<key, effects, post, held, orphans>>
         /\ pc'[w] \in Driving =>
               \/ /\ pc[w] = "claim" /\ pc'[w] = "send" /\ op'[w] = op[w]
                  /\ Executable(row)
                  /\ row' = [row EXCEPT !.state = "executing", !.owner = w]
               \/ /\ pc[w] = "reclaim" /\ pc'[w] \in {"precheck", "send"}
                  /\ row.state = "unresolved" /\ row' = [row EXCEPT !.owner = w]
<1> USE DEF Driving, Labels, Ops, Outcomes, commerceVars
<1>1. CASE Begin(w)
  BY <1>1, CallEffect
  DEF Begin, BeginPropose, BeginConfirm, BeginReject, BeginSupervisorDecision, BeginReconcile
<1>2. CASE RecordPolicy(w) \/ Retire(w) \/ Deny(w) \/ RejectDecision(w) \/ SupervisorDecision(w)
  BY <1>2, FinishEffect DEF RecordPolicy, Retire, Deny, RejectDecision, SupervisorDecision
<1>3. CASE CheckDecision(w) \/ Reload(w) \/ Load(w) \/ Refresh(w)
  BY <1>3, FinishEffect, GotoEffect DEF CheckDecision, Reload, Load, Refresh
<1>4. CASE ExpireStale(w)
  BY <1>4, FinishEffect, GotoEffect DEF ExpireStale
<1>5. CASE ConfirmDecision(w)
  BY <1>5, GotoEffect DEF ConfirmDecision
<1>6. CASE Claim(w)
  BY <1>6, FinishEffect, GotoEffect DEF Claim
<1>7. CASE Recover(w)
  BY <1>7, FinishEffect, GotoEffect DEF Recover
<1>8. CASE ClaimReconciliation(w)
  <2>1. CASE row.state = "unresolved" /\ (row.owner = NoWorker \/ lapsed)
    <3>1. \E label \in {"precheck", "send"} : Goto(w, label)
      BY <1>8, <2>1 DEF ClaimReconciliation
    <3>2. pc'[w] \in {"precheck", "send"}
      BY <3>1, GotoEffect
    <3> QED BY <1>8, <2>1, <3>2 DEF ClaimReconciliation
  <2>2. CASE ~(row.state = "unresolved" /\ (row.owner = NoWorker \/ lapsed))
    BY <1>8, <2>2, FinishEffect DEF ClaimReconciliation
  <2> QED BY <2>1, <2>2
<1>9. CASE Crash(w)
  BY <1>9, FinishEffect DEF Crash, Abandon
<1> QED
  BY <1>1, <1>2, <1>3, <1>4, <1>5, <1>6, <1>7, <1>8, <1>9
  DEF HandlerAction, HandlerStep, SteadyStep, NetworkStep, ReadBeforeReplay, SendFails,
      RequestInvalid, Send, ServeRequest, Refuse, TimeOut, TakeAnswer, RecordResponse, Verify,
      RecordExecutionOutcome, RecordReconciliationOutcome

DriverStep(w) ==
    \/ ReadBeforeReplay(w) \/ SendFails(w) \/ RequestInvalid(w) \/ Send(w) \/ ServeRequest(w)
    \/ Refuse(w) \/ TimeOut(w) \/ TakeAnswer(w) \/ RecordResponse(w) \/ Verify(w)
    \/ RecordExecutionOutcome(w) \/ RecordReconciliationOutcome(w) \/ Crash(w)

LEMMA DriverMoves ==
  ASSUME NEW w \in Workers, HandlerAction(w), pc[w] \in Driving
  PROVE  DriverStep(w)
BY DEF DriverStep, HandlerAction, HandlerStep, SteadyStep, NetworkStep, Driving, Begin,
       BeginPropose, BeginConfirm, BeginReject, BeginSupervisorDecision, BeginReconcile, Call,
       RecordPolicy, CheckDecision, ExpireStale, ConfirmDecision, RejectDecision,
       SupervisorDecision, Reload, Load, Refresh, Retire, Deny, Claim, Recover,
       ClaimReconciliation

(* A handler records that a replay was refused unread, or forgets it, only *)
(* while it owns the reconciliation or takes it over.                      *)
RebuffMove(w) ==
    \/ UNCHANGED rebuffed
    \/ OwnsReconciliation(w) /\ row' = row /\ rebuffed' = TRUE
    \/ /\ pc[w] = "reclaim" /\ row.state = "unresolved"
       /\ row' = [row EXCEPT !.owner = w]

LEMMA RebuffMoves ==
  ASSUME CommerceTypes, NEW w \in Workers, HandlerAction(w)
  PROVE  RebuffMove(w)
<1> USE DEF RebuffMove, commerceVars
<1>1. CASE Refuse(w)
  BY <1>1 DEF Refuse, CommerceTypes
<1>2. CASE ClaimReconciliation(w)
  BY <1>2 DEF ClaimReconciliation
<1>3. CASE ServeRequest(w)
  BY <1>3 DEF ServeRequest, ExecuteIdempotentWrite
<1>4. CASE \/ Begin(w) \/ RecordPolicy(w) \/ CheckDecision(w) \/ ExpireStale(w)
           \/ ConfirmDecision(w) \/ RejectDecision(w) \/ SupervisorDecision(w) \/ Reload(w)
           \/ Load(w) \/ Refresh(w) \/ Retire(w) \/ Deny(w) \/ Claim(w) \/ Recover(w)
  BY <1>4
  DEF Begin, BeginPropose, BeginConfirm, BeginReject, BeginSupervisorDecision, BeginReconcile,
      RecordPolicy, CheckDecision, ExpireStale, ConfirmDecision, RejectDecision,
      SupervisorDecision, Reload, Load, Refresh, Retire, Deny, Claim, Recover
<1>5. CASE \/ ReadBeforeReplay(w) \/ SendFails(w) \/ RequestInvalid(w) \/ Send(w) \/ TimeOut(w)
           \/ TakeAnswer(w) \/ RecordResponse(w) \/ Verify(w) \/ RecordExecutionOutcome(w)
           \/ RecordReconciliationOutcome(w) \/ Crash(w)
  BY <1>5
  DEF ReadBeforeReplay, SendFails, RequestInvalid, Send, TimeOut, TakeAnswer, RecordResponse,
      Verify, RecordExecutionOutcome, RecordReconciliationOutcome, Crash
<1> QED
  BY <1>1, <1>2, <1>3, <1>4, <1>5 DEF HandlerAction, HandlerStep, SteadyStep, NetworkStep

(* Only a handler itself makes it the owner of the reconciliation, and     *)
(* nobody else forgets that its replay was refused.                        *)
LEMMA OthersOwnership ==
  ASSUME row \in Row, Roles, CommerceTypes, NEW w \in Workers, HandlerAction(w),
         NEW v \in Workers \ {w}, OwnsReconciliation(v)'
  PROVE  OwnsReconciliation(v) /\ (rebuffed => rebuffed')
<1>1. RowMove(w) /\ RebuffMove(w)
  BY RowMoves, RebuffMoves
<1>2. row'.state = "unresolved" /\ row'.owner = v /\ v # NoWorker
  BY NoWorkerAssumption DEF OwnsReconciliation
<1>3. row' # [row EXCEPT !.owner = w]
  BY <1>2 DEF Row
<1>4. CASE pc[w] = "settle" /\ row' = Settled(row, outcome[w])
  BY <1>2, <1>4 DEF Settled, Row
<1>5. CASE row' = row
  BY <1>1, <1>2, <1>3, <1>5 DEF RebuffMove, OwnsReconciliation
<1>6. CASE row.state \in Undispatched /\ row'.state \notin Sent
  BY <1>2, <1>6 DEF Sent, Dispatched
<1>7. CASE row' = [row EXCEPT !.state = "executing", !.owner = w]
  BY <1>2, <1>7 DEF Row
<1>8. CASE row' = [row EXCEPT !.state = "unresolved", !.owner = NoWorker]
  BY <1>2, <1>8 DEF Row
<1>9. CASE row.state = "executing" /\ row' = [row EXCEPT !.known = TRUE]
  BY <1>2, <1>9 DEF Row
<1> QED
  BY <1>1, <1>3, <1>4, <1>5, <1>6, <1>7, <1>8, <1>9 DEF RowMove

(* Other than by its handlers nothing about a dispatched row changes.      *)
LEMMA EnvironmentOwnership ==
  ASSUME row \in Row, Environment
  PROVE  /\ UNCHANGED rebuffed
         /\ \A v \in Workers : OwnsReconciliation(v)' => OwnsReconciliation(v)
BY DEF Environment, Supersede, ServeOrphan, DeadlinePasses, LeaseLapses, OtherActorSatisfies,
       OtherActorDisturbs, ExecuteIdempotentWrite, commerceVars, Expired, Row, OwnsReconciliation

-----------------------------------------------------------------------------
(* Nothing is sent before the claim.                                       *)

LEMMA SentKept ==
  ASSUME TypeOK, Roles, SentOnlyWhenDispatched, [Next]_vars
  PROVE  SentOnlyWhenDispatched'
<1>1. row \in Row /\ HandlerTypes /\ key \in KeyStates
  BY DEF TypeOK, HandlerTypes
<1> USE DEF SentOnlyWhenDispatched, Sent, Dispatched
<1>2. ASSUME NEW w \in Workers, HandlerAction(w), row'.state \notin Sent
      PROVE  SentOnlyWhenDispatched'
  <2>1. \A v \in Workers \ {w} : pc'[v] = pc[v]
    BY <1>1, <1>2, HandlerTypesKept
  <2>2. RowMove(w)
    BY <1>1, <1>2, RowMoves
  <2>3. row.state \notin Sent
    <3>1. CASE pc[w] = "settle" /\ row' = Settled(row, outcome[w])
      BY <1>1, <1>2, <3>1, SettledRow
    <3> QED BY <1>1, <1>2, <2>2, <3>1 DEF RowMove, Row, Undispatched
  <2>4. pc[w] \notin Driving
    BY <2>3
  <2>5. UNCHANGED <<key, orphans>> /\ pc'[w] \notin Driving
    BY <1>1, <1>2, <2>3, <2>4, NotDrivingMoves DEF Row
  <2> QED BY <2>1, <2>3, <2>5
<1>3. CASE Environment
  BY <1>1, <1>3
  DEF Environment, Supersede, ServeOrphan, DeadlinePasses, LeaseLapses, OtherActorSatisfies,
      OtherActorDisturbs, Expired, Undispatched, Dispatched, Row, handlerVars, commerceVars
<1>4. CASE UNCHANGED vars
  BY <1>4 DEF vars, handlerVars, commerceVars
<1> QED BY <1>2, <1>3, <1>4, NextCases

-----------------------------------------------------------------------------
(* NovaCommerce's side.                                                    *)

(* A handler reaches NovaCommerce only through ServeRequest.               *)
LEMMA CommerceMoves ==
  ASSUME HandlerTypes, NEW w \in Workers, HandlerAction(w)
  PROVE  UNCHANGED <<key, effects, post, held>> \/ ServeRequest(w)
<1>1. CASE pc[w] \notin Driving
  BY <1>1, NotDrivingMoves
<1>2. CASE pc[w] \in Driving
  BY <1>2, DriverMoves
  DEF DriverStep, ReadBeforeReplay, SendFails, RequestInvalid, Send, Refuse, TimeOut, TakeAnswer,
      RecordResponse, Verify, RecordExecutionOutcome, RecordReconciliationOutcome, Crash,
      commerceVars
<1> QED BY <1>1, <1>2

LEMMA KindKept ==
  ASSUME row \in Row, Roles, [Next]_vars
  PROVE  row'.kind = row.kind
<1>1. ASSUME NEW w \in Workers, HandlerAction(w)
      PROVE  row'.kind = row.kind
  <2>1. RowMove(w)
    BY <1>1, RowMoves
  <2>2. CASE pc[w] = "settle" /\ row' = Settled(row, outcome[w])
    BY <2>2, SettledRow
  <2> QED BY <2>1, <2>2 DEF RowMove, Row
<1>2. CASE Environment
  BY <1>2
  DEF Environment, Supersede, ServeOrphan, DeadlinePasses, LeaseLapses, OtherActorSatisfies,
      OtherActorDisturbs, Expired, Row
<1>3. CASE UNCHANGED vars
  BY <1>3 DEF vars
<1> QED BY <1>1, <1>2, <1>3, NextCases

LEMMA CommerceSteps ==
  ASSUME HandlerTypes, [Next]_vars
  PROVE  \/ UNCHANGED <<key, effects, post, held>>
         \/ ExecuteIdempotentWrite
         \/ OtherActorSatisfies
         \/ OtherActorDisturbs
<1>1. ASSUME NEW w \in Workers, HandlerAction(w)
      PROVE  UNCHANGED <<key, effects, post, held>> \/ ExecuteIdempotentWrite
  BY <1>1, CommerceMoves DEF ServeRequest
<1>2. CASE Environment
  BY <1>2 DEF Environment, Supersede, ServeOrphan, DeadlinePasses, LeaseLapses, commerceVars
<1>3. CASE UNCHANGED vars
  BY <1>3 DEF vars, commerceVars
<1> QED BY <1>1, <1>2, <1>3, NextCases

(* The record of a key is never changed, and what has held has held.       *)
LEMMA CommerceMonotone ==
  ASSUME HandlerTypes, [Next]_vars
  PROVE  /\ key # "unused" => key' = key
         /\ held => held'
<1>1. CASE UNCHANGED <<key, effects, post, held>>
  BY <1>1
<1>2. CASE ExecuteIdempotentWrite
  BY <1>2 DEF ExecuteIdempotentWrite, commerceVars
<1>3. CASE OtherActorSatisfies \/ OtherActorDisturbs
  BY <1>3 DEF OtherActorSatisfies, OtherActorDisturbs
<1> QED BY <1>1, <1>2, <1>3, CommerceSteps

LEMMA KeyTellsEffectKept ==
  ASSUME TypeOK, Roles, KeyTellsEffect, [Next]_vars
  PROVE  KeyTellsEffect'
<1>1. row \in Row /\ HandlerTypes /\ CommerceTypes
  BY DEF TypeOK, HandlerTypes, CommerceTypes
<1>2. row'.kind = row.kind
  BY <1>1, KindKept
<1> USE <1>1, <1>2 DEF KeyTellsEffect, CommerceTypes, KeyStates
<1>3. CASE UNCHANGED <<key, effects, post, held>>
  BY <1>3
<1>4. CASE ExecuteIdempotentWrite
  BY <1>4, <1>3 DEF ExecuteIdempotentWrite, commerceVars
<1>5. CASE OtherActorSatisfies \/ OtherActorDisturbs
  BY <1>5 DEF OtherActorSatisfies, OtherActorDisturbs
<1> QED BY <1>3, <1>4, <1>5, CommerceSteps

-----------------------------------------------------------------------------
(* Answers.                                                                *)

LEMMA AnswerKept ==
  ASSUME HandlerTypes, key \in KeyStates, Roles, KeyTellsEffect, AnswersAreTrue,
         NEW w \in Workers, HandlerAction(w)
  PROVE  AnswerIsTrue(w)'
<1>1. RoleOf(w) /\ AnswerIsTrue(w) /\ (post => held)
  BY DEF Roles, AnswersAreTrue, KeyTellsEffect
<1>2. (key # "unused" => key' = key) /\ (held => held')
  BY CommerceMonotone DEF Next, HandlerAction
<1> USE DEF AnswerIsTrue, Labels, Ops, Outcomes
<1>3. CASE pc'[w] \notin {"record", "verify", "answered", "settle"}
  BY <1>3
<1>4. CASE ReadBeforeReplay(w) \/ SendFails(w) \/ RequestInvalid(w)
  BY <1>1, <1>2, <1>4, GotoEffect, LearnEffect
  DEF RoleOf, ReadBeforeReplay, SendFails, RequestInvalid, commerceVars
<1>5. CASE TimeOut(w)
  BY <1>1, <1>5, LearnEffect DEF TimeOut
<1>13. CASE Refuse(w)
  <2>1. /\ pc'[w] = "answered" /\ op'[w] = op[w] /\ outcome'[w] = "rejected"
        /\ UNCHANGED OwnsReconciliation(w)
        /\ rebuffed' = (rebuffed \/ (op[w] = "reconcile" /\ OwnsReconciliation(w)))
    BY <1>13, LearnEffect DEF Refuse, OwnsReconciliation
  <2>2. op'[w] = "reconcile" => rebuffed' \/ ~OwnsReconciliation(w)'
    BY <2>1
  <2> QED BY <2>1, <2>2
<1>6. CASE ServeRequest(w)
  <2>1. key' \in KeyStates \ {"unused"}
    BY <1>6 DEF ServeRequest, ExecuteIdempotentWrite, commerceVars, KeyStates
  <2> QED BY <1>6, <2>1, LearnEffect DEF ServeRequest, KeyStates
<1>7. CASE TakeAnswer(w)
  <2>1. UNCHANGED <<key, held, rebuffed, OwnsReconciliation(w)>>
    BY <1>7 DEF TakeAnswer, commerceVars, OwnsReconciliation
  <2>2. CASE outcome[w] = "accepted"
    BY <1>1, <1>7, <2>1, <2>2, GotoEffect DEF TakeAnswer
  <2>3. CASE outcome[w] = "rejected"
    BY <1>1, <1>7, <2>1, <2>3, LearnEffect DEF TakeAnswer
  <2> QED BY <1>7, <2>2, <2>3 DEF TakeAnswer
<1>8. CASE RecordResponse(w)
  BY <1>1, <1>2, <1>8, GotoEffect, FinishEffect DEF RoleOf, RecordResponse
<1>9. CASE Verify(w)
  BY <1>1, <1>2, <1>9, LearnEffect DEF Verify
<1>10. CASE Send(w)
  BY <1>10, GotoEffect DEF Send
<1>11. CASE Crash(w) \/ RecordExecutionOutcome(w) \/ RecordReconciliationOutcome(w)
  BY <1>11, FinishEffect DEF Crash, RecordExecutionOutcome, RecordReconciliationOutcome
<1>12. CASE pc[w] \notin Driving
  <2>1. pc'[w] \notin {"record", "verify", "answered", "settle"}
    BY <1>12, NotDrivingMoves DEF Driving
  <2> QED BY <1>3, <2>1
<1> QED
  BY <1>4, <1>5, <1>6, <1>7, <1>8, <1>9, <1>10, <1>11, <1>12, <1>13, DriverMoves DEF DriverStep

LEMMA AnswersKept ==
  ASSUME TypeOK, Roles, KeyTellsEffect, AnswersAreTrue, [Next]_vars
  PROVE  AnswersAreTrue'
<1>1. row \in Row /\ HandlerTypes /\ CommerceTypes /\ key \in KeyStates
  BY DEF TypeOK, HandlerTypes, CommerceTypes
<1>2. (key # "unused" => key' = key) /\ (held => held')
  BY <1>1, CommerceMonotone
<1>3. ASSUME NEW v \in Workers, pc'[v] = pc[v], op'[v] = op[v], outcome'[v] = outcome[v],
             OwnsReconciliation(v)' => OwnsReconciliation(v) /\ (rebuffed => rebuffed')
      PROVE  AnswerIsTrue(v)'
  BY <1>2, <1>3 DEF AnswersAreTrue, AnswerIsTrue
<1>4. ASSUME NEW w \in Workers, HandlerAction(w)
      PROVE  AnswersAreTrue'
  <2>1. AnswerIsTrue(w)'
    BY <1>1, <1>4, AnswerKept
  <2>2. ASSUME NEW v \in Workers \ {w}
        PROVE  AnswerIsTrue(v)'
    BY <1>1, <1>3, <1>4, <2>2, HandlerTypesKept, OthersOwnership
  <2> QED BY <2>1, <2>2 DEF AnswersAreTrue
<1>6. CASE Environment
  <2>1. UNCHANGED handlerVars
    BY <1>6
    DEF Environment, Supersede, ServeOrphan, DeadlinePasses, LeaseLapses, OtherActorSatisfies,
        OtherActorDisturbs
  <2> QED BY <1>1, <1>3, <1>6, <2>1, EnvironmentOwnership DEF handlerVars, AnswersAreTrue
<1>7. CASE UNCHANGED vars
  BY <1>3, <1>7 DEF vars, handlerVars, commerceVars, AnswersAreTrue, OwnsReconciliation
<1> QED BY <1>4, <1>6, <1>7, NextCases

-----------------------------------------------------------------------------
(* The executor's request is the first.                                    *)

LEMMA OwnRequestKept ==
  ASSUME HandlerTypes, key \in KeyStates, Roles, NEW w \in Workers, HandlerAction(w),
         pc[w] \in Driving, SendsFirstRequest(w), row'.owner = row.owner, pc'[w] \in Driving
  PROVE  SendsFirstRequest(w)'
<1>1. RoleOf(w)
  BY DEF Roles
<1> USE DEF SendsFirstRequest, Labels, Ops, Outcomes
<1>2. CASE ReadBeforeReplay(w)
  BY <1>1, <1>2 DEF RoleOf, ReadBeforeReplay
<1>3. CASE SendFails(w) \/ RequestInvalid(w) \/ Send(w)
  BY <1>3, GotoEffect, LearnEffect DEF SendFails, RequestInvalid, Send, commerceVars
<1>4. CASE ServeRequest(w)
  <2>1. key' \in KeyStates \ {"unused"} /\ orphans = 0
    BY <1>4 DEF ServeRequest, ExecuteIdempotentWrite, commerceVars, KeyStates
  <2> QED BY <1>4, <2>1, LearnEffect DEF ServeRequest, KeyStates
<1>5. CASE Refuse(w)
  BY <1>5, LearnEffect DEF Refuse, commerceVars
<1>6. CASE TimeOut(w)
  BY <1>6, LearnEffect DEF TimeOut
<1>7. CASE TakeAnswer(w)
  <2>1. UNCHANGED <<key, orphans>>
    BY <1>7 DEF TakeAnswer, commerceVars
  <2>2. CASE outcome[w] = "accepted"
    BY <1>7, <2>1, <2>2, GotoEffect DEF TakeAnswer
  <2>3. CASE outcome[w] = "rejected"
    BY <1>7, <2>1, <2>3, LearnEffect DEF TakeAnswer
  <2> QED BY <1>7, <2>2, <2>3 DEF TakeAnswer
<1>8. CASE RecordResponse(w)
  BY <1>8, GotoEffect, FinishEffect DEF RecordResponse, Driving
<1>9. CASE Verify(w)
  BY <1>9, LearnEffect DEF Verify
<1>10. CASE Crash(w) \/ RecordExecutionOutcome(w) \/ RecordReconciliationOutcome(w)
  BY <1>10, FinishEffect
  DEF Crash, RecordExecutionOutcome, RecordReconciliationOutcome, Driving
<1> QED
  BY <1>2, <1>3, <1>4, <1>5, <1>6, <1>7, <1>8, <1>9, <1>10, DriverMoves DEF DriverStep

LEMMA FirstRequestKept ==
  ASSUME TypeOK, Roles, SentOnlyWhenDispatched, FirstRequest, [Next]_vars
  PROVE  FirstRequest'
<1>1. row \in Row /\ HandlerTypes /\ key \in KeyStates
  BY DEF TypeOK, HandlerTypes
<1> SUFFICES ASSUME row'.state = "executing", NEW v \in Workers, pc'[v] \in Driving
             PROVE  SendsFirstRequest(v)'
  BY DEF FirstRequest
<1>2. ASSUME NEW w \in Workers, HandlerAction(w)
      PROVE  SendsFirstRequest(v)'
  <2>1. RowMove(w) /\ RoleOf(w)
    BY <1>1, <1>2, RowMoves DEF Roles
  <2>2. v # w => pc'[v] = pc[v] /\ op'[v] = op[v] /\ outcome'[v] = outcome[v]
    BY <1>1, <1>2, HandlerTypesKept
  <2>3. CASE /\ pc[w] = "claim" /\ Executable(row)
             /\ row' = [row EXCEPT !.state = "executing", !.owner = w]
    <3>1. /\ key = "unused" /\ orphans = 0
          /\ \A u \in Workers : pc[u] \notin Driving
      BY <2>3 DEF SentOnlyWhenDispatched, Executable, Dispatched
    <3>2. v = w
      BY <2>2, <3>1
    <3>3. UNCHANGED <<key, orphans>> /\ pc'[w] = "send" /\ op'[w] = op[w]
      BY <1>1, <1>2, <2>3, <3>1, <3>2, NotDrivingMoves
    <3>4. row'.owner = w /\ op[w] = "confirm"
      BY <1>1, <2>1, <2>3 DEF Row, RoleOf
    <3> QED BY <3>1, <3>2, <3>3, <3>4 DEF SendsFirstRequest
  <2>4. CASE row.state = "executing" /\ row'.owner = row.owner
    <3>1. pc[w] \in Driving => SendsFirstRequest(w) /\ row.owner = w
      BY <2>4 DEF FirstRequest, SendsFirstRequest
    <3>2. CASE v = w
      <4>1. pc[w] \in Driving
        BY <1>1, <1>2, <2>4, <3>2, NotDrivingMoves DEF Executable
      <4> QED BY <1>1, <1>2, <2>4, <3>1, <3>2, <4>1, OwnRequestKept
    <3>3. CASE v # w
      <4>1. pc[v] \in Driving /\ SendsFirstRequest(v)
        BY <2>2, <2>4, <3>3 DEF FirstRequest
      <4>2. pc[w] \notin Driving
        BY <3>1, <3>3, <4>1 DEF SendsFirstRequest
      <4>3. UNCHANGED <<key, orphans>>
        BY <1>1, <1>2, <4>2, NotDrivingMoves
      <4> QED BY <2>2, <2>4, <3>3, <4>1, <4>3 DEF SendsFirstRequest
    <3> QED BY <3>2, <3>3
  <2>5. CASE pc[w] = "settle" /\ row' = Settled(row, outcome[w])
    BY <1>1, <2>5, SettledRow
  <2> QED BY <1>1, <2>1, <2>3, <2>4, <2>5 DEF RowMove, Row, Sent, Dispatched
<1>3. CASE Environment
  <2>1. UNCHANGED <<row, handlerVars>>
    BY <1>1, <1>3
    DEF Environment, Supersede, ServeOrphan, DeadlinePasses, LeaseLapses, OtherActorSatisfies,
        OtherActorDisturbs, Expired, Row
  <2>2. SendsFirstRequest(v)
    BY <2>1 DEF FirstRequest, handlerVars
  <2>3. UNCHANGED <<key, orphans>> \/ orphans > 0
    BY <1>3
    DEF Environment, Supersede, ServeOrphan, DeadlinePasses, LeaseLapses, OtherActorSatisfies,
        OtherActorDisturbs, commerceVars
  <2> QED BY <2>1, <2>2, <2>3 DEF SendsFirstRequest, handlerVars
<1>4. CASE UNCHANGED vars
  BY <1>4 DEF vars, handlerVars, commerceVars, FirstRequest, SendsFirstRequest
<1> QED BY <1>2, <1>3, <1>4, NextCases

-----------------------------------------------------------------------------
(* Terminal reports.                                                       *)

LEMMA ReportsKept ==
  ASSUME TypeOK, Roles, SentOnlyWhenDispatched, AnswersAreTrue, FirstRequest, ReportsAreFinal,
         [Next]_vars
  PROVE  ReportsAreFinal'
<1>1. row \in Row /\ HandlerTypes /\ CommerceTypes /\ key \in KeyStates
  BY DEF TypeOK, HandlerTypes, CommerceTypes
<1>2. (key # "unused" => key' = key) /\ (held => held')
  BY <1>1, CommerceMonotone
<1>3. ASSUME NEW w \in Workers, HandlerAction(w)
      PROVE  ReportsAreFinal'
  <2>1. RowMove(w) /\ RoleOf(w) /\ AnswerIsTrue(w)
    BY <1>1, <1>3, RowMoves DEF Roles, AnswersAreTrue
  <2>6. RebuffMove(w)
    BY <1>1, <1>3, RebuffMoves
  <2>2. \A v \in Workers \ {w} : pc'[v] = pc[v]
    BY <1>1, <1>3, HandlerTypesKept
  <2>3. CASE row' = row
    <3>1. CASE row.state = "failed" /\ key = "unused" /\ ~rebuffed
      <4>1. orphans = 0 /\ \A v \in Workers : pc[v] \notin Driving
        BY <3>1 DEF ReportsAreFinal
      <4>2. UNCHANGED <<key, orphans>> /\ pc'[w] \notin Driving
        BY <1>1, <1>3, <3>1, <4>1, NotDrivingMoves DEF Executable
      <4> QED BY <2>2, <2>3, <3>1, <4>1, <4>2 DEF ReportsAreFinal
    <3>2. CASE row.state = "failed" /\ rebuffed
      BY <2>3, <2>6, <3>2 DEF RebuffMove, ReportsAreFinal
    <3>3. CASE row.state # "failed" \/ key = "rejected"
      BY <1>2, <2>3, <3>3 DEF ReportsAreFinal
    <3> QED BY <3>1, <3>2, <3>3 DEF ReportsAreFinal
  <2>4. CASE /\ pc[w] = "settle" /\ row' = Settled(row, outcome[w]) /\ row' # row
             /\ \/ op[w] = "confirm" /\ OwnsExecution(w)
                \/ op[w] = "reconcile" /\ OwnsReconciliation(w)
    <3>1. row'.state = IF outcome[w] = "unverified" THEN "unresolved" ELSE outcome[w]
      BY <1>1, <2>4, SettledRow
    <3>2. CASE outcome[w] = "failed" /\ op[w] = "confirm" /\ OwnsExecution(w)
      <4>1. /\ \A v \in Workers : pc[v] \in Driving => v = w
            /\ key \in {"unused", "rejected"} /\ orphans = 0
        BY <2>4, <3>2 DEF FirstRequest, SendsFirstRequest, OwnsExecution, Driving
      <4>2. RecordExecutionOutcome(w)
        BY <1>3, <2>4, <3>2, DriverMoves
        DEF Driving, DriverStep, ReadBeforeReplay, SendFails, RequestInvalid, Send, ServeRequest,
            Refuse, TimeOut, TakeAnswer, RecordResponse, Verify, RecordReconciliationOutcome, Crash
      <4>3. UNCHANGED <<key, orphans>> /\ pc'[w] = "idle"
        BY <1>1, <4>2, FinishEffect DEF RecordExecutionOutcome, commerceVars
      <4>4. \A v \in Workers : pc'[v] \notin Driving
        BY <2>2, <4>1, <4>3 DEF Driving
      <4> QED BY <3>1, <3>2, <4>1, <4>3, <4>4 DEF ReportsAreFinal
    <3>3. CASE outcome[w] = "failed" /\ op[w] = "reconcile"
      <4>1. OwnsReconciliation(w) /\ (key = "rejected" \/ rebuffed)
        BY <2>1, <2>4, <3>3 DEF AnswerIsTrue
      <4>2. rebuffed' = rebuffed
        BY <2>4, <2>6 DEF RebuffMove
      <4> QED BY <1>2, <3>1, <3>3, <4>1, <4>2 DEF ReportsAreFinal
    <3>4. CASE outcome[w] = "succeeded"
      BY <1>2, <2>1, <2>4, <3>1, <3>4 DEF AnswerIsTrue, ReportsAreFinal
    <3>5. CASE outcome[w] \notin {"succeeded", "failed"}
      BY <3>1, <3>5 DEF ReportsAreFinal
    <3> QED BY <2>4, <3>2, <3>3, <3>4, <3>5
  <2>5. CASE row'.state \notin {"succeeded", "failed"}
    BY <2>5 DEF ReportsAreFinal
  <2> QED BY <1>1, <2>1, <2>3, <2>4, <2>5 DEF RowMove, Row, Sent
<1>4. CASE Environment
  <2>1. CASE Supersede
    BY <1>1, <2>1 DEF Supersede, Expired, Row, ReportsAreFinal
  <2>2. CASE ServeOrphan
    BY <1>2, <2>2 DEF ServeOrphan, ExecuteIdempotentWrite, commerceVars, ReportsAreFinal,
                      handlerVars
  <2>3. CASE DeadlinePasses \/ LeaseLapses \/ OtherActorSatisfies \/ OtherActorDisturbs
    BY <1>2, <2>3
    DEF DeadlinePasses, LeaseLapses, OtherActorSatisfies, OtherActorDisturbs, ReportsAreFinal,
        handlerVars, commerceVars
  <2> QED BY <1>4, <2>1, <2>2, <2>3 DEF Environment
<1>5. CASE UNCHANGED vars
  BY <1>5 DEF vars, handlerVars, commerceVars, ReportsAreFinal
<1> QED BY <1>3, <1>4, <1>5, NextCases

-----------------------------------------------------------------------------
(* The inductive invariant.                                                *)

LEMMA InitIInv == Init => IInv
<1> SUFFICES ASSUME Init PROVE IInv
  OBVIOUS
<1> USE DEF Init
<1>1. row \in Row /\ row.state = "proposed" /\ row.policy = "none" /\ ~row.approval
  BY DEF Row, States, Undispatched
<1>2. TypeOK
  <2>1. HandlerTypes
    BY DEF HandlerTypes, Labels, Ops, Outcomes
  <2>2. CommerceTypes
    BY DEF CommerceTypes, KeyStates
  <2>3. due \in BOOLEAN /\ lapsed \in BOOLEAN
    OBVIOUS
  <2>4. orphans \in 0..MaxOrphans
    BY MaxOrphansAssumption
  <2> QED BY <1>1, <2>1, <2>2, <2>3, <2>4 DEF TypeOK, HandlerTypes, CommerceTypes
<1>3. Roles /\ AnswersAreTrue
  BY DEF Roles, RoleOf, AnswersAreTrue, AnswerIsTrue, Driving
<1>4. GatesInOrder /\ FirstRequest /\ ReportsAreFinal
  BY <1>1 DEF GatesInOrder, Dispatched, FirstRequest, ReportsAreFinal
<1>5. SentOnlyWhenDispatched /\ KeyTellsEffect
  BY <1>1 DEF SentOnlyWhenDispatched, Driving, KeyTellsEffect
<1> QED BY <1>2, <1>3, <1>4, <1>5 DEF IInv

LEMMA NextIInv == IInv /\ [Next]_vars => IInv'
<1> SUFFICES ASSUME IInv, [Next]_vars PROVE IInv'
  OBVIOUS
<1> USE DEF IInv
<1>1. TypeOK' /\ Roles'
  BY TypeKept, RolesKept
<1>2. GatesInOrder' /\ SentOnlyWhenDispatched'
  BY GatesKept, SentKept
<1>3. KeyTellsEffect' /\ AnswersAreTrue'
  BY KeyTellsEffectKept, AnswersKept
<1>4. FirstRequest' /\ ReportsAreFinal'
  BY FirstRequestKept, ReportsKept
<1> QED BY <1>1, <1>2, <1>3, <1>4

(* What every handler knows, has ruled out or may still do holds always,   *)
(* whatever crashes, times out, is replayed or is decided meanwhile.       *)
THEOREM Invariance == Spec => []IInv
BY InitIInv, NextIInv, PTL DEF Spec

-----------------------------------------------------------------------------
(* The safety properties.                                                  *)

(* Every variable keeps its type: no state of the row outside the enum of  *)
(* models/action.py, no handler outside its own code path.                 *)
THEOREM TypeCorrect == Spec => []TypeOK
<1>1. IInv => TypeOK
  BY DEF IInv
<1> QED BY <1>1, Invariance, PTL

(* Crashes, timeouts and replays never make NovaCommerce apply the write   *)
(* twice (idempotency.py: execute_idempotent_write).                       *)
THEOREM AppliedAtMostOnce == Spec => []AtMostOneEffect
<1>1. IInv => AtMostOneEffect
  BY DEF IInv, KeyTellsEffect, AtMostOneEffect
<1> QED BY <1>1, Invariance, PTL

(* Nothing is dispatched without policy, customer and, where required,     *)
(* supervisor (transitions.py: _execution_gates_satisfied).                *)
THEOREM NoDispatchWithoutGates == Spec => []GatesBeforeDispatch
<1>1. IInv => GatesBeforeDispatch
  <2> SUFFICES ASSUME IInv,
                      \/ row.state \in Dispatched \cup {"succeeded", "failed"}
                      \/ effects > 0 \/ orphans > 0
                      \/ \E w \in Workers : pc[w] \in Driving
               PROVE  GatesSatisfied(row)
    BY DEF GatesBeforeDispatch, GatesSatisfied
  <2>1. row.state \in Dispatched \cup {"succeeded", "failed"}
    BY DEF IInv, SentOnlyWhenDispatched, KeyTellsEffect
  <2> QED BY <2>1 DEF IInv, GatesInOrder
<1> QED BY <1>1, Invariance, PTL

(* An action that is called off was never sent and never will be           *)
(* (transitions.py: _transition_locked, claim_execution).                  *)
THEOREM CalledOffIsNotSent == Spec => []CalledOffMeansNotSent
<1>1. IInv => CalledOffMeansNotSent
  BY DEF IInv, CalledOffMeansNotSent, SentOnlyWhenDispatched, KeyTellsEffect, Undispatched,
         Dispatched
<1> QED BY <1>1, Invariance, PTL

(* While a row is executing, its lease owner alone drives the write        *)
(* (transitions.py: claim_execution, recover_expired_execution).           *)
THEOREM ExclusiveExecution == Spec => []ExecutionIsExclusive
<1>1. IInv => ExecutionIsExclusive
  BY DEF IInv, ExecutionIsExclusive, FirstRequest, SendsFirstRequest
<1> QED BY <1>1, Invariance, PTL

(* A reported success came about, and a created resource is the action's   *)
(* own (verification.py; reconciliation.py: _read_back).                   *)
THEOREM SuccessCameAbout == Spec => []SuccessIsReal
<1>1. IInv => SuccessIsReal
  BY DEF IInv, SuccessIsReal, ReportsAreFinal, KeyTellsEffect
<1> QED BY <1>1, Invariance, PTL

(* An action that is reported failed was not applied, unless the replay    *)
(* that this report rests on was refused before the idempotency record was *)
(* read (executor.py; reconciliation.py: reconcile).                       *)
THEOREM FailedWasNotApplied == Spec => []FailureIsReal
<1>1. IInv => FailureIsReal
  BY DEF IInv, FailureIsReal, ReportsAreFinal, KeyTellsEffect
<1> QED BY <1>1, Invariance, PTL

(* No late decision, outcome or lease changes a terminal row               *)
(* (transitions.py: _ALLOWED_TRANSITIONS).                                 *)
THEOREM TerminalStaysTerminal == Spec => TerminalIsFinal
<1>1. IInv /\ [Next]_vars => (row.state \in Terminal => row' = row)
  <2> SUFFICES ASSUME IInv, [Next]_vars, row.state \in Terminal
               PROVE  row' = row
    OBVIOUS
  <2>1. row \in Row
    BY DEF IInv, TypeOK
  <2>2. ASSUME NEW w \in Workers, HandlerAction(w)
        PROVE  row' = row
    <3>1. RowMove(w)
      BY <2>1, <2>2, RowMoves
    <3> QED
      BY <3>1
      DEF RowMove, Terminal, Undispatched, Executable, OwnsExecution, OwnsReconciliation
  <2>3. CASE Environment
    BY <2>3
    DEF Environment, Supersede, ServeOrphan, DeadlinePasses, LeaseLapses, OtherActorSatisfies,
        OtherActorDisturbs, Terminal, Undispatched
  <2>4. CASE UNCHANGED vars
    BY <2>4 DEF vars
  <2> QED BY <2>2, <2>3, <2>4, NextCases
<1> QED BY <1>1, Invariance, PTL DEF Spec, TerminalIsFinal

-----------------------------------------------------------------------------
(* NovaCommerce acts on the action only while it is dispatched, except     *)
(* that an abandoned request may still land on a reschedule, or after the  *)
(* failure of a replay that was refused unread.                            *)

(* When NovaCommerce looks up an unused key, a driver or an abandoned      *)
(* request brought it.                                                     *)
LEMMA WhenApplied ==
  ASSUME IInv, [Next]_vars, effects' # effects
  PROVE  /\ key = "unused" /\ key' = "accepted" /\ effects = 0 /\ effects' = 1
         /\ held' /\ row' = row
         /\ row.kind = "cancel" => ~post
         /\ rebuffed' = rebuffed
         /\ \/ row.state \in Dispatched \/ row.state = "succeeded"
            \/ row.state = "failed" /\ rebuffed
<1>1. TypeOK /\ HandlerTypes
  BY DEF IInv, TypeOK, HandlerTypes
<1>2. ExecuteIdempotentWrite
  BY <1>1, CommerceSteps DEF OtherActorSatisfies, OtherActorDisturbs
<1>3. /\ key = "unused" /\ key' = "accepted" /\ effects = 0 /\ effects' = 1 /\ held'
      /\ row.kind = "cancel" => ~post
      /\ rebuffed' = rebuffed
  BY <1>2 DEF ExecuteIdempotentWrite, commerceVars, IInv, KeyTellsEffect
<1>4. (\E w \in Workers : ServeRequest(w)) \/ ServeOrphan
  <2>1. ASSUME NEW w \in Workers, HandlerAction(w)
        PROVE  ServeRequest(w)
    BY <1>1, <2>1, CommerceMoves
  <2>2. CASE Environment
    BY <2>2
    DEF Environment, Supersede, DeadlinePasses, LeaseLapses, OtherActorSatisfies,
        OtherActorDisturbs, commerceVars
  <2>3. ~UNCHANGED vars
    BY DEF vars, commerceVars
  <2> QED BY <2>1, <2>2, <2>3, NextCases
<1>5. row' = row /\ (orphans > 0 \/ \E w \in Workers : pc[w] \in Driving)
  BY <1>4 DEF ServeRequest, ServeOrphan, Driving
<1>6. row.state \in Dispatched \cup {"succeeded", "failed"}
  BY <1>1, <1>5 DEF IInv, SentOnlyWhenDispatched, TypeOK
<1>7. row.state = "failed" => rebuffed
  BY <1>1, <1>3, <1>5 DEF IInv, ReportsAreFinal, TypeOK
<1> QED BY <1>3, <1>5, <1>6, <1>7

(* After a terminal state no write under way is applied any more, unless   *)
(* it is a reschedule, or the state is the failure of a replay that was    *)
(* refused unread (novacommerce/services/writes/orders.py: cancel_order    *)
(* refuses an order that is already cancelled).                            *)
THEOREM NothingAppliedLate == Spec => NoLateEffect
<1>1. IInv /\ [Next]_vars =>
         (/\ row.state \in Terminal /\ row.kind # "reschedule"
          /\ row.state = "failed" => ~rebuffed
          => effects' = effects)
  <2> SUFFICES ASSUME IInv, [Next]_vars, row.state \in Terminal, row.kind # "reschedule",
                      row.state = "failed" => ~rebuffed, effects' # effects
               PROVE  FALSE
    OBVIOUS
  <2>1. /\ key = "unused" /\ row.state = "succeeded"
        /\ row.kind = "cancel" => ~post
    BY WhenApplied DEF Terminal, Dispatched
  <2>2. held
    BY <2>1 DEF IInv, ReportsAreFinal
  <2>3. row.kind \in {"cancel", "create"}
    BY KindsAssumption DEF IInv, TypeOK, Row, AllKinds
  <2> QED BY <2>1, <2>2, <2>3 DEF IInv, KeyTellsEffect
<1> QED BY <1>1, Invariance, PTL DEF Spec, NoLateEffect

-----------------------------------------------------------------------------
(* Refinement.                                                             *)

(* A step that changes the row's state is a database transaction: it does  *)
(* not reach NovaCommerce.                                                 *)
LEMMA StateMovesAlone ==
  ASSUME row \in Row, row' \in Row, HandlerTypes, Roles, [Next]_vars, row'.state # row.state
  PROVE  /\ UNCHANGED <<key, effects, post, held>>
         /\ \/ /\ row.state \in Undispatched
               /\ row'.state \notin {"succeeded", "failed", "unresolved"}
            \/ row.state \in Dispatched /\ row'.state \in {"unresolved", "succeeded", "failed"}
<1>1. ASSUME NEW w \in Workers, HandlerAction(w)
      PROVE  /\ UNCHANGED <<key, effects, post, held>>
             /\ \/ /\ row.state \in Undispatched
                   /\ row'.state \notin {"succeeded", "failed", "unresolved"}
                \/ row.state \in Dispatched /\ row'.state \in {"unresolved", "succeeded", "failed"}
  <2>1. UNCHANGED <<key, effects, post, held>>
    BY <1>1, CommerceMoves DEF ServeRequest
  <2>2. RowMove(w)
    BY <1>1, RowMoves
  <2>3. CASE /\ pc[w] = "settle" /\ row' = Settled(row, outcome[w])
             /\ OwnsExecution(w) \/ OwnsReconciliation(w)
    BY <2>1, <2>3, SettledRow DEF OwnsExecution, OwnsReconciliation, Dispatched
  <2> QED
    BY <2>1, <2>2, <2>3 DEF RowMove, Row, Sent, Undispatched, Dispatched, Executable
<1>2. CASE Environment
  BY <1>2
  DEF Environment, Supersede, ServeOrphan, DeadlinePasses, LeaseLapses, OtherActorSatisfies,
      OtherActorDisturbs, Expired, Row, commerceVars
<1>3. ~UNCHANGED vars
  BY DEF vars
<1> QED BY <1>1, <1>2, <1>3, NextCases

(* What the action asks for is fixed.                                      *)
LEMMA KindStays ==
  ASSUME row \in Row, Roles, [Next]_vars
  PROVE  row'.kind = row.kind
<1>1. ASSUME NEW w \in Workers, HandlerAction(w)  PROVE row'.kind = row.kind
  <2>1. RowMove(w)
    BY <1>1, RowMoves
  <2>2. CASE pc[w] = "settle" /\ row' = Settled(row, outcome[w])
    BY <2>2, SettledRow
  <2> QED BY <2>1, <2>2 DEF RowMove, Row
<1>2. CASE Environment
  BY <1>2
  DEF Environment, Supersede, ServeOrphan, DeadlinePasses, LeaseLapses, OtherActorSatisfies,
      OtherActorDisturbs, Expired, Row, commerceVars
<1>3. CASE UNCHANGED vars
  BY <1>3 DEF vars
<1> QED BY <1>1, <1>2, <1>3, NextCases

(* That a replay was refused is recorded, or forgotten, while the row is   *)
(* unresolved, and nothing else happens in that step that shows outside.   *)
LEMMA RebuffsAlone ==
  ASSUME IInv, [Next]_vars, rebuffed' # rebuffed
  PROVE  /\ UNCHANGED <<key, effects, post, held>>
         /\ row.state = "unresolved" /\ row'.state = "unresolved"
<1>1. row \in Row /\ CommerceTypes /\ HandlerTypes
  BY DEF IInv, TypeOK, CommerceTypes, HandlerTypes
<1>2. ~Environment
  BY <1>1, EnvironmentOwnership
<1>3. ~UNCHANGED vars
  BY DEF vars, commerceVars
<1>4. PICK w \in Workers : HandlerAction(w)
  BY <1>2, <1>3, NextCases
<1>5. row.state = "unresolved" /\ row'.state = "unresolved"
  BY <1>1, <1>4, RebuffMoves DEF RebuffMove, OwnsReconciliation, Row
<1>6. ~ServeRequest(w)
  BY DEF ServeRequest, ExecuteIdempotentWrite, commerceVars
<1> QED BY <1>1, <1>4, <1>5, <1>6, CommerceMoves

(* Seen from outside, the handlers together implement the contract.        *)
THEOREM Implementation == Spec => ImplementsContract
<1>1. Init => Contract!Init
  <2> SUFFICES ASSUME Init PROVE Contract!Init
    OBVIOUS
  <2>1. Phase = "open"
    <3>1. row.state = "proposed"
      BY DEF Init
    <3> QED BY <3>1 DEF Phase, Undispatched, Dispatched
  <2>2. (effects > 0) = FALSE
    BY DEF Init
  <2>3. held = FALSE
    BY DEF Init
  <2>4. (row.kind = "reschedule") \in BOOLEAN
    OBVIOUS
  <2>5. rebuffed = FALSE
    BY DEF Init
  <2> QED BY <2>1, <2>2, <2>3, <2>4, <2>5 DEF Contract!Init
<1>2. IInv /\ IInv' /\ [Next]_vars => [Contract!Next]_(Contract!vars)
  <2> SUFFICES ASSUME IInv, IInv', [Next]_vars
               PROVE  Contract!Next \/ UNCHANGED Contract!vars
    OBVIOUS
  <2> USE DEF Contract!Next, Contract!vars
  <2>1. /\ row \in Row /\ row' \in Row /\ HandlerTypes /\ Roles
        /\ effects \in Nat /\ held \in BOOLEAN /\ held' \in BOOLEAN
        /\ rebuffed \in BOOLEAN /\ rebuffed' \in BOOLEAN
    BY DEF IInv, TypeOK, HandlerTypes
  <2>2. UNCHANGED (row.kind = "reschedule")
    BY <2>1, KindStays
  <2>3. CASE effects' # effects
    <3>1. /\ effects = 0 /\ effects' = 1 /\ held' /\ row' = row /\ rebuffed' = rebuffed
          /\ \/ row.state \in Dispatched \/ row.state = "succeeded"
             \/ row.state = "failed" /\ rebuffed
          /\ row.kind = "cancel" => ~post
          /\ key = "unused"
      BY <2>3, WhenApplied
    <3>2. row.state = "succeeded" => row.kind = "reschedule"
      BY <2>1, <3>1, KindsAssumption DEF IInv, ReportsAreFinal, KeyTellsEffect, Row, AllKinds
    <3>3. /\ Phase' = Phase
          /\ \/ Phase = "committed"
             \/ Phase = "succeeded" /\ row.kind = "reschedule"
             \/ Phase = "failed" /\ rebuffed
      BY <3>1, <3>2 DEF Phase, Dispatched, Undispatched
    <3>4. (effects > 0)' = TRUE /\ ~(effects > 0)
      BY <3>1
    <3>5. held' = TRUE
      BY <2>1, <3>1
    <3> QED BY <2>2, <3>1, <3>3, <3>4, <3>5 DEF Contract!Apply
  <2>6. CASE rebuffed' # rebuffed
    <3>1. /\ UNCHANGED <<key, effects, post, held>>
          /\ row.state = "unresolved" /\ row'.state = "unresolved"
      BY <2>6, RebuffsAlone
    <3>2. Phase = "committed" /\ Phase' = "committed" /\ (effects > 0)' = (effects > 0)
      BY <3>1 DEF Phase, Undispatched, Dispatched
    <3>3. rebuffed' = TRUE \/ rebuffed' = FALSE
      BY <2>1
    <3> QED BY <2>2, <3>1, <3>2, <3>3 DEF Contract!Doubt, Contract!AskAgain
  <2>4. CASE effects' = effects /\ row'.state = row.state /\ rebuffed' = rebuffed
    <3>1. Phase' = Phase /\ (effects > 0)' = (effects > 0)
      BY <2>4 DEF Phase
    <3>2. held => held'
      BY <2>1, CommerceMonotone
    <3>3. held' = held \/ held' = TRUE
      BY <2>1, <3>2
    <3> QED BY <2>2, <2>4, <3>1, <3>3 DEF Contract!ComesTrue
  <2>5. CASE effects' = effects /\ row'.state # row.state /\ rebuffed' = rebuffed
    <3>1. UNCHANGED <<key, effects, post, held>>
      BY <2>1, <2>5, StateMovesAlone
    <3>2. \/ Phase' = Phase
          \/ Phase = "open" /\ Phase' \in {"void", "committed"}
          \/ Phase = "committed" /\ Phase' \in {"succeeded", "failed"}
      BY <2>1, <2>5, StateMovesAlone DEF Phase, Undispatched, Dispatched, Terminal, Row, States
    <3>3. (effects > 0)' = (effects > 0)
      BY <3>1
    <3>4. Phase' = "succeeded" => held = TRUE
      BY <2>1, <3>1 DEF Phase, Undispatched, Dispatched, IInv, ReportsAreFinal
    <3>5. Phase' = "failed" => ((effects > 0) => rebuffed)
      <4>1. Phase' = "failed" => row'.state = "failed"
        BY <2>1 DEF Phase, Undispatched, Dispatched
      <4>2. row'.state = "failed" => effects' = 0 \/ rebuffed'
        BY DEF IInv, ReportsAreFinal, KeyTellsEffect
      <4> QED BY <2>5, <4>1, <4>2
    <3> QED
      BY <2>2, <2>5, <3>1, <3>2, <3>3, <3>4, <3>5
      DEF Contract!CallOff, Contract!Commit, Contract!Succeed, Contract!Fail
  <2> QED BY <2>3, <2>4, <2>5, <2>6
<1> QED BY <1>1, <1>2, Invariance, PTL DEF Spec, ImplementsContract, Contract!Spec

-----------------------------------------------------------------------------
(* ActionProposals has many rows and one step, Advance, for all that       *)
(* decisions, execution and reconciliation do to a row between proposals.  *)
(* This is its row of the request modelled here; what the request stands   *)
(* for never changes, and its gate is as the policy recorded it.           *)
It == 0
Asked == "asked"

PolicyOf(r) ==
    IF r.policy = "none" THEN "none"
    ELSE IF r.policy = "denied" THEN "policy_denied"
    ELSE IF r.approval THEN "awaiting_approval" ELSE "awaiting_confirmation"

Seen == [q \in {It} |->
            [state |-> row.state, fingerprint |-> Asked, policy |-> PolicyOf(row)]]

Proposals == INSTANCE ActionProposals WITH
    Handlers <- {It}, NoHandler <- 1,
    Facts <- {Asked}, GateOf <- [f \in {Asked} |-> "awaiting_confirmation"],
    facts <- Asked, row <- Seen, due <- IF due THEN {It} ELSE {},
    pc <- [q \in {It} |-> "told"], read <- [q \in {It} |-> Asked],
    decision <- [q \in {It} |-> "awaiting_confirmation"],
    priors <- [q \in {It} |-> {}], found <- [q \in {It} |-> It]

(* What ActionProposals!RecordPolicy and Insert do to a row.               *)
Decided ==
    /\ ~due
    /\ \E d \in Proposals!Decisions :
          /\ Proposals!Decidable(row.state, d)
          /\ Seen' = [Seen EXCEPT ![It].state = d, ![It].policy = d]

Retired ==
    /\ row.state \in Undispatched
    /\ Seen' = [Seen EXCEPT ![It].state = "expired"]

RowAdvances == [][Decided \/ Retired \/ Proposals!Advance(It)]_Seen

(* How a step changes state and gate of the row.                           *)
GetsDecision(d) ==
    /\ ~due /\ row.state = "proposed" /\ d \in Proposals!Decisions
    /\ row'.state = d /\ PolicyOf(row') = d

IsRetired ==
    row.state \in Undispatched /\ row'.state = "expired" /\ PolicyOf(row') = PolicyOf(row)

Progresses ==
    /\ ~Overdue /\ due' = due /\ row.state \notin Terminal
    /\ row'.state \in Proposals!Successors[row.state]
    /\ PolicyOf(row') = IF row'.state = "policy_denied" THEN "policy_denied" ELSE PolicyOf(row)

Stays == row'.state = row.state /\ PolicyOf(row') = PolicyOf(row)

RowChange == (\E d \in Proposals!Decisions : GetsDecision(d)) \/ IsRetired \/ Progresses \/ Stays

LEMMA ExpiredRow ==
  ASSUME row \in Row, row.state \in Undispatched, row' = Expired(row)
  PROVE  RowChange
BY DEF RowChange, IsRetired, Expired, Row, PolicyOf

LEMMA DeniedRow ==
  ASSUME row \in Row, ~due, due' = due, row.state \in {"proposed", "ready_to_execute"},
         row' = Denied(row)
  PROVE  RowChange
<1>1. row'.state = "policy_denied" /\ PolicyOf(row') = "policy_denied"
  BY DEF Denied, Row, PolicyOf
<1>2. CASE row.state = "proposed"
  <2>1. GetsDecision("policy_denied")
    BY <1>1, <1>2 DEF GetsDecision, Proposals!Decisions
  <2> QED BY <2>1 DEF RowChange, Proposals!Decisions
<1>3. CASE row.state = "ready_to_execute"
  BY <1>1, <1>3 DEF RowChange, Progresses, Overdue, Terminal, Proposals!Successors
<1> QED BY <1>2, <1>3

LEMMA HandlerChangesRow ==
  ASSUME IInv, NEW w \in Workers, HandlerAction(w)
  PROVE  RowChange
<1>1. /\ row \in Row /\ Roles
      /\ row.state = "proposed" => ~row.approval
  BY DEF IInv, TypeOK, GatesInOrder
<1>2. due' = due
  BY NextCases
  DEF HandlerAction, Begin, HandlerStep, SteadyStep, NetworkStep, Crash, BeginPropose, BeginConfirm,
      BeginReject, BeginSupervisorDecision, BeginReconcile, RecordPolicy, CheckDecision,
      ExpireStale, ConfirmDecision, RejectDecision, SupervisorDecision, Reload, Load, Refresh,
      Retire, Deny, Claim, Recover, ClaimReconciliation, ReadBeforeReplay, SendFails,
      RequestInvalid, Send, ServeRequest, Refuse, TimeOut, TakeAnswer, RecordResponse, Verify,
      RecordExecutionOutcome, RecordReconciliationOutcome
<1>3. CASE row' = row
  BY <1>3 DEF RowChange, Stays
<1>4. CASE RecordPolicy(w)
  <2>1. CASE Overdue
    BY <1>1, <1>3, <1>4, <2>1, ExpiredRow DEF RecordPolicy, Overdue
  <2>2. CASE ~Overdue /\ row' = Denied(row) /\ row.state \in {"proposed", "ready_to_execute"}
    BY <1>1, <1>2, <2>2, DeniedRow DEF Overdue, Undispatched
  <2>3. ASSUME ~Overdue, row.state = "proposed", NEW gate \in {"awaiting_confirmation", "awaiting_approval"},
               row' = [row EXCEPT !.state = gate, !.policy = "allowed",
                                  !.approval = (gate = "awaiting_approval")]
        PROVE  RowChange
    <3>1. row'.state = gate /\ PolicyOf(row') = gate
      BY <1>1, <2>3 DEF Row, PolicyOf
    <3>2. gate \in Proposals!Decisions
      BY DEF Proposals!Decisions, Proposals!Gates
    <3> QED BY <2>3, <3>1, <3>2 DEF RowChange, GetsDecision, Overdue, Undispatched
  <2>4. CASE ~Overdue /\ row.state = "proposed"
             /\ row' = [row EXCEPT !.state = "awaiting_confirmation", !.policy = "allowed"]
    <3>1. row' = [row EXCEPT !.state = "awaiting_confirmation", !.policy = "allowed",
                             !.approval = ("awaiting_confirmation" = "awaiting_approval")]
      BY <1>1, <2>4 DEF Row
    <3> QED BY <2>3, <2>4, <3>1
  <2>5. CASE ~Overdue /\ row.state = "proposed"
             /\ row' = [row EXCEPT !.state = "awaiting_approval", !.policy = "allowed",
                                   !.approval = TRUE]
    <3>1. row' = [row EXCEPT !.state = "awaiting_approval", !.policy = "allowed",
                             !.approval = ("awaiting_approval" = "awaiting_approval")]
      BY <1>1, <2>5 DEF Row
    <3> QED BY <2>3, <2>5, <3>1
  <2> QED BY <1>3, <1>4, <2>1, <2>2, <2>4, <2>5 DEF RecordPolicy
<1>5. CASE ExpireStale(w) \/ Retire(w)
  BY <1>1, <1>3, <1>5, ExpiredRow DEF ExpireStale, Retire
<1>6. CASE Deny(w)
  BY <1>1, <1>2, <1>3, <1>6, ExpiredRow, DeniedRow DEF Deny, Overdue, Undispatched
<1>7. CASE ConfirmDecision(w) \/ RejectDecision(w) \/ SupervisorDecision(w)
  <2>1. CASE Overdue
    BY <1>1, <1>7, <2>1, ExpiredRow
    DEF ConfirmDecision, RejectDecision, SupervisorDecision, Overdue
  <2>2. CASE ~Overdue /\ row' # row
    <3>1. /\ row'.policy = row.policy /\ row'.approval = row.approval
          /\ \/ row.state = "awaiting_confirmation" /\ row'.state \in {"ready_to_execute", "rejected"}
             \/ row.state = "awaiting_approval" /\ row'.state \in {"awaiting_confirmation", "rejected"}
      BY <1>1, <1>7, <2>2 DEF ConfirmDecision, RejectDecision, SupervisorDecision, Row
    <3> QED BY <1>2, <2>2, <3>1
            DEF RowChange, Progresses, PolicyOf, Terminal, Proposals!Successors
  <2> QED BY <1>3, <2>1, <2>2
<1>8. CASE Claim(w)
  <2>1. CASE Executable(row) /\ ~due
    <3>1. /\ row.state = "ready_to_execute" /\ row'.state = "executing"
          /\ row'.policy = row.policy /\ row'.approval = row.approval
      BY <1>1, <1>8, <2>1 DEF Claim, Executable, Row
    <3> QED BY <1>2, <2>1, <3>1
            DEF RowChange, Progresses, PolicyOf, Overdue, Terminal, Proposals!Successors
  <2>2. CASE Executable(row) /\ due
    BY <1>1, <1>8, <2>2, ExpiredRow DEF Claim, Executable, Undispatched
  <2> QED BY <1>3, <1>8, <2>1, <2>2 DEF Claim
<1>9. CASE Recover(w) \/ ClaimReconciliation(w) \/ RecordResponse(w)
           \/ RecordExecutionOutcome(w) \/ RecordReconciliationOutcome(w)
  <2>1. CASE row.state \in Dispatched /\ row'.policy = row.policy
             /\ row'.approval = row.approval
             /\ row'.state \in {row.state, "unresolved", "succeeded", "failed"}
    BY <1>2, <2>1
    DEF RowChange, Progresses, Stays, PolicyOf, Overdue, Undispatched, Dispatched, Terminal,
        Proposals!Successors
  <2>2. CASE Recover(w) \/ ClaimReconciliation(w) \/ RecordResponse(w)
    BY <1>1, <1>3, <2>1, <2>2
    DEF Recover, ClaimReconciliation, RecordResponse, OwnsExecution, Row, Dispatched
  <2>3. CASE RecordExecutionOutcome(w) \/ RecordReconciliationOutcome(w)
    <3>1. pc[w] = "settle"
      BY <2>3 DEF RecordExecutionOutcome, RecordReconciliationOutcome
    <3>2. outcome[w] \in {"succeeded", "unverified", "failed", "unresolved"}
      BY <1>1, <3>1, SettledRow
    <3>3. row' = row \/ (row.state \in Dispatched /\ row' = Settled(row, outcome[w]))
      BY <2>3
      DEF RecordExecutionOutcome, RecordReconciliationOutcome, OwnsExecution,
          OwnsReconciliation, Dispatched
    <3> QED BY <1>1, <1>3, <2>1, <3>2, <3>3 DEF Settled, Row
  <2> QED BY <1>9, <2>2, <2>3
<1>10. CASE \/ Begin(w) \/ CheckDecision(w) \/ Reload(w) \/ Load(w) \/ Refresh(w)
            \/ ReadBeforeReplay(w) \/ SendFails(w) \/ RequestInvalid(w) \/ Send(w)
            \/ NetworkStep(w) \/ TimeOut(w) \/ TakeAnswer(w) \/ Verify(w) \/ Crash(w)
  BY <1>3, <1>10
  DEF Begin, BeginPropose, BeginConfirm, BeginReject, BeginSupervisorDecision, BeginReconcile,
      CheckDecision, Reload, Load, Refresh, ReadBeforeReplay, SendFails, RequestInvalid, Send,
      NetworkStep, ServeRequest, Refuse, TimeOut, TakeAnswer, Verify, Crash
<1> QED
  BY <1>4, <1>5, <1>6, <1>7, <1>8, <1>9, <1>10 DEF HandlerAction, HandlerStep, SteadyStep

LEMMA StepChangesRow ==
  ASSUME IInv, [Next]_vars
  PROVE  RowChange
<1>1. row \in Row
  BY DEF IInv, TypeOK
<1>2. CASE Environment
  <2>1. CASE Supersede
    BY <1>1, <2>1, ExpiredRow DEF Supersede
  <2> QED BY <1>2, <2>1
          DEF Environment, ServeOrphan, DeadlinePasses, LeaseLapses, OtherActorSatisfies,
              OtherActorDisturbs, RowChange, Stays
<1>3. CASE UNCHANGED vars
  BY <1>3 DEF vars, RowChange, Stays
<1> QED BY <1>2, <1>3, NextCases, HandlerChangesRow

(* ... and so what ActionProposals sees of it.                             *)
LEMMA SeenChanges ==
  ASSUME NEW s, NEW p, row'.state = s, PolicyOf(row') = p
  PROVE  Seen' = [Seen EXCEPT ![It].state = s, ![It].policy = p]
BY DEF Seen

LEMMA StepAdvances ==
  ASSUME IInv, [Next]_vars
  PROVE  [Decided \/ Retired \/ Proposals!Advance(It)]_Seen
<1>1. ASSUME NEW d \in Proposals!Decisions, GetsDecision(d) PROVE Decided
  BY <1>1, SeenChanges DEF GetsDecision, Decided, Proposals!Decidable
<1>2. CASE IsRetired
  BY <1>2 DEF IsRetired, Retired, Seen
<1>3. CASE Progresses
  <2>1. It \in Proposals!Active /\ ~Proposals!RowLocked(It)
    <3>1. row.state \in Proposals!ActiveStates
      BY <1>3
      DEF Progresses, IInv, TypeOK, Row, States, Terminal, Undispatched, Dispatched,
          Proposals!ActiveStates, Proposals!Undispatched, Proposals!Dispatched
    <3> QED BY <3>1 DEF Proposals!Active, Proposals!RowLocked, Seen
  <2>2. ~(It \in (IF due THEN {It} ELSE {}) /\ Seen[It].state \in Proposals!Undispatched)
    BY <1>3 DEF Progresses, Overdue, Seen, Undispatched, Proposals!Undispatched
  <2>3. Seen' = [Seen EXCEPT ![It].state = row'.state,
                             ![It].policy = IF row'.state = "policy_denied"
                                            THEN row'.state ELSE @]
    BY <1>3 DEF Progresses, Seen
  <2>4. row'.state \in Proposals!Successors[Seen[It].state]
    BY <1>3 DEF Progresses, Seen
  <2>5. due' = due
    BY <1>3 DEF Progresses
  <2> QED BY <2>1, <2>2, <2>3, <2>4, <2>5 DEF Proposals!Advance
<1>4. CASE Stays
  BY <1>4 DEF Stays, Seen
<1> QED BY <1>1, <1>2, <1>3, <1>4, StepChangesRow DEF RowChange

(* Whatever handlers, the clock and other actors do to a request, to the   *)
(* proposals for its targets it is a decision on the policy, a retirement  *)
(* or one of the moves that they are proved to be safe with                *)
(* (transitions.py: _ALLOWED_TRANSITIONS, _transition_locked).             *)
THEOREM RowsAdvanceAsAssumed == Spec => RowAdvances
<1>1. IInv /\ [Next]_vars => [Decided \/ Retired \/ Proposals!Advance(It)]_Seen
  BY StepAdvances
<1> QED BY <1>1, Invariance, PTL DEF Spec, RowAdvances
=============================================================================
