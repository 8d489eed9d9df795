--------------------------- MODULE ActionContract ---------------------------
(***************************************************************************)
(* What an action request promises to the customer who confirms it, with   *)
(* the handlers, the network and the leases left out.  The write is either *)
(* still open to be called off, or committed to; once committed to it can  *)
(* no longer be called off.  It is applied at most once, success is        *)
(* reported only for what really holds, and a failure is reported only for *)
(* a write that was not applied and never will be, unless the action was   *)
(* doubted: somebody in front of NovaCommerce's records, who cannot know,  *)
(* was the last to say no.                                                 *)
(***************************************************************************)
VARIABLES
    mayActLate,   \* may the write land after its success was reported?
    doubted,      \* may a failure that is reported be wrong?
    phase,        \* open, committed, void, succeeded or failed
    applied,      \* the write has been applied
    met           \* what the action asks for has held

vars == <<mayActLate, doubted, phase, applied, met>>

Init ==
    /\ mayActLate \in BOOLEAN /\ doubted = FALSE
    /\ phase = "open" /\ applied = FALSE /\ met = FALSE

CallOff == phase = "open" /\ phase' = "void" /\ UNCHANGED <<doubted, applied, met>>

Commit == phase = "open" /\ phase' = "committed" /\ UNCHANGED <<doubted, applied, met>>

Doubt == phase = "committed" /\ doubted' = TRUE /\ UNCHANGED <<phase, applied, met>>

(* It is asked once more, and only that answer counts.                     *)
AskAgain == phase = "committed" /\ doubted' = FALSE /\ UNCHANGED <<phase, applied, met>>

Apply ==
    /\ \/ phase = "committed"
       \/ phase = "succeeded" /\ mayActLate
       \/ phase = "failed" /\ doubted
    /\ ~applied
    /\ applied' = TRUE /\ met' = TRUE
    /\ UNCHANGED <<doubted, phase>>

(* Somebody else brings about what the action asks for.                    *)
ComesTrue == met' = TRUE /\ UNCHANGED <<doubted, phase, applied>>

Succeed ==
    /\ phase = "committed" /\ met
    /\ phase' = "succeeded"
    /\ UNCHANGED <<doubted, applied, met>>

Fail ==
    /\ phase = "committed" /\ (applied => doubted)
    /\ phase' = "failed"
    /\ UNCHANGED <<doubted, applied, met>>

Next ==
    /\ CallOff \/ Commit \/ Doubt \/ AskAgain \/ Apply \/ ComesTrue \/ Succeed \/ Fail
    /\ UNCHANGED mayActLate

Spec == Init /\ [][Next]_vars
=============================================================================
