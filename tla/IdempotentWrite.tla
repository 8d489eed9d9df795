-------------------------- MODULE IdempotentWrite --------------------------
(***************************************************************************)
(* What NovaCommerce promises to those who write under one idempotency     *)
(* key: the key is decided once, together with the business write, for one *)
(* request body; whoever gets a definite answer gets that decision.        *)
(***************************************************************************)
EXTENDS Naturals

CONSTANTS
    Requests,      \* the HTTP requests that carry the key
    Fingerprints   \* the operations, customers and bodies they ask for

VARIABLES
    decided,   \* "unused", "accepted" or "rejected"
    written,   \* how often the business write was applied
    answers    \* what each request was told

vars == <<decided, written, answers>>

Init ==
    /\ decided = "unused"
    /\ written = 0
    /\ answers = [r \in Requests |-> "none"]

Tell(r, what) ==
    /\ answers[r] = "none"
    /\ answers' = [answers EXCEPT ![r] = what]

(* A decision may be told in the same step, or later, or never.            *)
Decide(verdict) ==
    /\ decided = "unused"
    /\ decided' = verdict
    /\ written' = written + (IF verdict = "accepted" THEN 1 ELSE 0)
    /\ \E r \in Requests : Tell(r, verdict) \/ Tell(r, "unknown")

Replay(r) ==
    /\ decided # "unused"
    /\ Tell(r, decided)
    /\ UNCHANGED <<decided, written>>

(* The key is taken by a different request.                                *)
Refuse(r) ==
    /\ decided # "unused"
    /\ Tell(r, "reused")
    /\ UNCHANGED <<decided, written>>

Shrug(r) == Tell(r, "unknown") /\ UNCHANGED <<decided, written>>

Next ==
    \/ \E verdict \in {"accepted", "rejected"} : Decide(verdict)
    \/ \E r \in Requests : Replay(r) \/ Refuse(r) \/ Shrug(r)

Spec == Init /\ [][Next]_vars
=============================================================================
