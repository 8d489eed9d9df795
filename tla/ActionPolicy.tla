---------------------------- MODULE ActionPolicy ----------------------------
(***************************************************************************)
(* What VerbaOps decides about a proposal in a situation: whether the      *)
(* commerce facts allow the action, which human gates it must pass, and    *)
(* which of the facts its fingerprint is taken from, so that a decision on *)
(* it is void once they change.  The one who proposes may do so: others    *)
(* are refused whatever the facts.                                         *)
(*                                                                         *)
(* Sources: src/verbaops/actions/{proposals,policy,fingerprints}.py.       *)
(***************************************************************************)
EXTENDS CommerceFacts

CancellableOrders == {"pending", "confirmed", "processing"}
CancellableShipments == {"none", "pending", "label_created"}
ReschedulableOrders == {"confirmed", "processing", "shipped"}
ReschedulableShipments == {"pending", "label_created", "in_transit"}

PreflightReschedule(s) ==
    /\ Shipped(s)
    /\ s.order \in ReschedulableOrders /\ s.shipment \in ReschedulableShipments
    /\ Listed(s)

PreflightCancellation(s) ==
    s.order \in CancellableOrders /\ s.shipment \in CancellableShipments

\* What was returned before is not looked at.
PreflightReturn(s) ==
    /\ Shipped(s)
    /\ s.order = "delivered" /\ s.shipment = "delivered"
    /\ s.delivered # Missing /\ s.delivered \in (s.today - 30)..s.today
    /\ s.item.asked <= s.item.bought

PreflightRefund(s) ==
    /\ s.order \in {"delivered", "cancelled"}
    /\ s.money.asked <= s.money.total - s.money.refunded

PreflightTicket(s) == s.booked = "none" \/ Found(s)

Eligible(s) ==
    CASE s.kind = "reschedule" -> PreflightReschedule(s)
      [] s.kind = "cancel"     -> PreflightCancellation(s)
      [] s.kind = "return"     -> PreflightReturn(s)
      [] s.kind = "refund"     -> PreflightRefund(s)
      [] s.kind = "ticket"     -> PreflightTicket(s)

\* Faulty variant: the threshold is taken for the first amount that needs an
\* approval.
ApprovalRequired_AtThreshold(s) ==
    \/ s.kind = "cancel" /\ (s.order = "processing" \/ s.shipment = "label_created")
    \/ s.kind = "refund" /\ s.money.asked >= 500

ApprovalRequired(s) ==
    \/ s.kind = "cancel" /\ (s.order = "processing" \/ s.shipment = "label_created")
    \/ s.kind = "refund" /\ s.money.asked > 500

\* evaluate_action_policy
Decision(s) ==
    IF ~Eligible(s) \/ (s.kind = "refund" /\ ~s.currency) THEN "policy_denied"
    ELSE IF ApprovalRequired(s) THEN "awaiting_approval"
    ELSE "awaiting_confirmation"

Allowed(s) == Decision(s) # "policy_denied"

\* Faulty variant: nothing but the order's status is taken.
Material_OrderOnly(s) == [order |-> s.order]

\* The material snapshot: the facts that go into the fingerprint.  The day is
\* none of them, so that a request does not lapse at midnight, nor is what was
\* returned before.
Material(s) ==
    LET stages == [order |-> s.order, shipment |-> s.shipment] IN
    IF ~Found(s) \/ s.kind = "ticket" THEN [order |-> s.order]
    ELSE IF s.kind = "refund" THEN
        [order |-> s.order, total |-> s.money.total, refunded |-> s.money.refunded,
         currency |-> s.currency]
    ELSE IF s.kind = "cancel" \/ ~Shipped(s) THEN stages
    ELSE IF s.kind = "reschedule" THEN
        [stages |-> stages, booked |-> s.booked,
         slot |-> IF Listed(s) THEN s.slot.day ELSE Missing]
    ELSE [stages |-> stages, delivered |-> s.delivered, bought |-> s.item.bought]

\* fingerprint_proposal: what is asked for and the material it is asked on.
Fingerprint(s) ==
    [kind |-> s.kind, items |-> s.item.asked, amount |-> s.money.asked,
     named |-> s.booked # "none" \/ s.kind # "ticket", material |-> Material(s)]
=============================================================================
