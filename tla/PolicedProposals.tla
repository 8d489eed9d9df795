-------------------------- MODULE PolicedProposals --------------------------
(***************************************************************************)
(* ActionProposals with the policy it abstracts from: the facts a handler  *)
(* reads stand for the situations in which the policy asks for the gate    *)
(* that GateOf gives them.                                                 *)
(***************************************************************************)
EXTENDS ActionProposals, CommerceRules

\* What was asked for is carried out: NovaCommerce accepts the request that
\* goes out after this gate, and the read-back of what it then holds verifies
\* it, also without the response where the action can be read back without
\* it.  Only returns may be refused, for what was returned before.
CarriedOut(s) ==
    LET gate == Decision(s) IN
    \/ s.kind = "return" /\ s.item.returned > 0
    \/ /\ Accepts(s, ApprovalReference(gate))
       /\ \A answered \in {TRUE, s.kind \notin {"cancel", "reschedule"}} :
             VerifyPostcondition(s.kind, After(s), answered, gate) = "verified"

\* What the policy denies NovaCommerce would refuse, however it is approved,
\* and so nobody is refused an action that was possible; but the policy knows
\* neither slots that are booked out nor those beyond the listed days.
Impossible(s) ==
    \/ ~Accepts(s, TRUE)
    \/ s.kind = "reschedule" /\ ~Listed(s)

Fits(s) == IF Allowed(s) THEN CarriedOut(s) ELSE Impossible(s)

UnfitDecisions == {Decision(s) : s \in {t \in Situations : ~Fits(t)}}

\* Whatever the facts are, the policy of VerbaOps and the rules of NovaCommerce
\* agree on them, each being written down on its own: what the policy allows
\* is carried out behind exactly the gates that it asks for, and what it
\* denies would have been refused.
PolicyFitsCommerce == GateOf[facts] \notin UnfitDecisions

Gated == {<<Fingerprint(s), Decision(s)>> : s \in {t \in Situations : Allowed(t)}}

OtherGate(d) == IF d = "awaiting_approval" THEN "awaiting_confirmation" ELSE "awaiting_approval"

AmbiguousDecisions ==
    {g[2] : g \in {h \in Gated : <<h[1], OtherGate(h[2])>> \in Gated}}

\* Situations with one fingerprint never ask for different gates, so that
\* handlers answered with the same row need the same decisions, on whatever
\* day they made the proposal (what ActionProposals assumes of GateOf).
FingerprintTellsGate == GateOf[facts] \notin AmbiguousDecisions
=============================================================================
