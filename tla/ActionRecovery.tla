--------------------------- MODULE ActionRecovery ---------------------------
(***************************************************************************)
(* What must eventually happen to an action of module ActionLifecycle, and *)
(* who makes it happen.  VerbaOps has no background job for actions: an    *)
(* abandoned action is taken up only by a client's next call.              *)
(***************************************************************************)
EXTENDS ActionLifecycle

VARIABLE calm    \* from now on nothing disrupts a handler

allVars == <<vars, calm>>

-----------------------------------------------------------------------------
(* Once it is calm, no handler dies, the network works and read-backs are  *)
(* available, no lease lapses under a running handler, and nobody undoes   *)
(* what the action brought about.  Before that, everything may happen.     *)

QuietHandlerStep(w) ==
    /\ SteadyStep(w)
    /\ pc[w] \in {"precheck", "verify"} /\ post => outcome'[w] = "succeeded"

QuietLapse ==
    /\ row.owner # NoWorker
    /\ pc[row.owner] \notin Driving
    /\ LeaseLapses

QuietStep ==
    \/ \E w \in Workers : Begin(w) \/ QuietHandlerStep(w) \/ NetworkStep(w)
    \/ Supersede \/ ServeOrphan \/ DeadlinePasses \/ OtherActorSatisfies
    \/ QuietLapse

BecomeCalm == ~calm /\ calm' = TRUE /\ UNCHANGED vars

CalmingNext ==
    \/ ~calm /\ Next /\ UNCHANGED calm
    \/ calm /\ QuietStep /\ UNCHANGED calm
    \/ BecomeCalm

(* A coroutine that is not killed goes on: every await of it is a database *)
(* transaction or an HTTP call with a timeout.  Time passes.  The client   *)
(* keeps asking to reconcile an action that was dispatched.  Nothing makes *)
(* the calm come: the property below is about the behaviours where it does.*)
CalmingSpec ==
    /\ Init /\ calm = FALSE
    /\ [][CalmingNext]_allVars
    /\ \A w \in Workers :
          WF_allVars((QuietHandlerStep(w) \/ NetworkStep(w)) /\ UNCHANGED calm)
    /\ WF_allVars(LeaseLapses /\ UNCHANGED calm)
    /\ WF_allVars((\E w \in Workers : BeginReconcile(w)) /\ UNCHANGED calm)

(* No replay will ever change the answer: the write was accepted, and its  *)
(* postcondition is gone again.                                            *)
NeedsAPerson == key = "accepted" /\ ~post

(* A dispatched action whose client keeps reconciling it settles once it   *)
(* is calm, whatever crashes, timeouts and lost leases it went through     *)
(* before, unless it needs a person (reconciliation.py: reconcile).        *)
EventuallyResolved ==
    calm /\ row.state \in Dispatched ~> row.state \in Terminal \/ NeedsAPerson

-----------------------------------------------------------------------------
(* Clients that call exactly what the view of the action permits           *)
(* (_permitted_operations), as the web client does, and keep doing so.     *)
PermittedBegin(w) ==
    \/ BeginPropose(w)
    \/ row.state = "awaiting_confirmation" /\ BeginConfirm(w)
    \/ BeginReject(w)
    \/ BeginSupervisorDecision(w)
    \/ row.state = "unresolved" /\ BeginReconcile(w)

GuidedNext ==
    /\ \/ \E w \in Workers :
             PermittedBegin(w) \/ HandlerStep(w) \/ NetworkStep(w) \/ Crash(w)
       \/ Environment
    /\ UNCHANGED calm

GuidedSpec ==
    /\ Init /\ calm = FALSE
    /\ [][GuidedNext]_allVars
    /\ \A w \in Workers :
          WF_allVars((HandlerStep(w) \/ NetworkStep(w)) /\ UNCHANGED calm)
    /\ WF_allVars(LeaseLapses /\ UNCHANGED calm)
    /\ WF_allVars((\E w \in Workers : PermittedBegin(w)) /\ UNCHANGED calm)

(* A crash after "executing" was committed is ambiguous only until a       *)
(* read-back or a replay resolves it: the action does not stay "executing".*)
ExecutionIsTakenUp == row.state = "executing" ~> row.state # "executing"
=============================================================================
