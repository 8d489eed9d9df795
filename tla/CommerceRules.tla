--------------------------- MODULE CommerceRules ---------------------------
(***************************************************************************)
(* What NovaCommerce decides about the same action when the write arrives, *)
(* what it then holds, and how VerbaOps tells from a read-back whether the *)
(* action was carried out.                                                 *)
(*                                                                         *)
(* Sources: src/novacommerce/services/writes/ for the rules,               *)
(* src/verbaops/actions/{refunds,executor,reconciliation,verification}.py  *)
(* for the request and the read-back.                                      *)
(***************************************************************************)
EXTENDS ActionPolicy

CancellationAllowed(s) ==
    /\ s.order \in {"pending", "confirmed", "processing"}
    /\ s.shipment \in {"none", "pending", "label_created"}

\* The slot that the shipment has already is accepted without a look at its
\* capacity, and one further away than the read API lists is accepted too.
RescheduleAllowed(s) ==
    /\ s.shipment \in {"pending", "label_created", "in_transit"}
    /\ s.order \in {"confirmed", "processing", "shipped"}
    /\ s.slot.day # Missing /\ s.slot.day >= s.today
    /\ s.booked = "asked" \/ s.slot.room

ReturnAllowed(s) ==
    /\ s.order = "delivered" /\ s.shipment = "delivered" /\ s.delivered # Missing
    /\ s.today <= s.delivered + 30
    /\ s.item.bought > 0                       \* an item of this order
    /\ s.item.returned + s.item.asked <= s.item.bought

NeedsApproval(amount) == amount > 500

RefundAllowed(s, approved) ==
    /\ s.currency
    /\ s.order \in {"delivered", "cancelled"}
    /\ s.money.asked <= s.money.total - s.money.refunded
    /\ NeedsApproval(s.money.asked) => approved

TicketAllowed(s) == s.booked # "none" => Found(s)

\* approved: the request carries a reference to a supervisor's approval.
Accepts(s, approved) ==
    CASE s.kind = "cancel"     -> CancellationAllowed(s)
      [] s.kind = "reschedule" -> RescheduleAllowed(s)
      [] s.kind = "return"     -> ReturnAllowed(s)
      [] s.kind = "refund"     -> RefundAllowed(s, approved)
      [] s.kind = "ticket"     -> TicketAllowed(s)

-----------------------------------------------------------------------------
\* What an accepted write leaves behind.  A new resource stands for its whole
\* content, which is that of the request.
NoResource == [status |-> "none", manual |-> FALSE]

Resource(s) ==
    CASE s.kind = "return" -> [status |-> "requested", manual |-> FALSE]
      [] s.kind = "refund" -> [status |-> "approved", manual |-> NeedsApproval(s.money.asked)]
      [] s.kind = "ticket" -> [status |-> "open", manual |-> FALSE]
      [] OTHER -> NoResource

Before(s) == [order |-> s.order, shipment |-> s.shipment, booked |-> s.booked, made |-> NoResource]

After(s) ==
    CASE s.kind = "cancel" ->
           [Before(s) EXCEPT !.order = "cancelled",
                             !.shipment = IF @ = "none" THEN "none" ELSE "cancelled"]
      [] s.kind = "reschedule" -> [Before(s) EXCEPT !.booked = "asked"]
      [] OTHER -> [Before(s) EXCEPT !.made = Resource(s)]

\* A refund that passed the supervisor's gate refers to it, no other does.
ApprovalReference(gate) == gate = "awaiting_approval"

-----------------------------------------------------------------------------
\* The read-back w against what was asked for; answered: the commerce response
\* is at hand too, or at least the id of what it made.
VerifyCancel(w) ==
    CASE w.order = "missing" -> "unavailable"
      [] w.order = "cancelled" /\ w.shipment \in {"none", "cancelled"} -> "verified"
      [] OTHER -> "mismatched"

VerifyReschedule(w) ==
    IF w.order = "missing" \/ w.shipment = "none" THEN "unavailable"
    ELSE IF w.booked = "asked" THEN "verified"
    ELSE "mismatched"

VerifyReturn(w, answered) ==
    IF ~answered \/ w.made = NoResource THEN "unavailable"
    ELSE IF w.made.status = "requested" THEN "verified"
    ELSE "mismatched"

VerifyTicket(w, answered) ==
    IF ~answered \/ w.made = NoResource THEN "unavailable"
    ELSE IF w.made.status = "open" THEN "verified"
    ELSE "mismatched"

VerifyRefund(w, answered, gate) ==
    IF ~answered \/ w.made = NoResource THEN "unavailable"
    ELSE IF w.made.status = "approved" /\ (w.made.manual <=> gate = "awaiting_approval")
         THEN "verified"
    ELSE "mismatched"

VerifyPostcondition(kind, w, answered, gate) ==
    CASE kind = "cancel"     -> VerifyCancel(w)
      [] kind = "reschedule" -> VerifyReschedule(w)
      [] kind = "return"     -> VerifyReturn(w, answered)
      [] kind = "ticket"     -> VerifyTicket(w, answered)
      [] kind = "refund"     -> VerifyRefund(w, answered, gate)
=============================================================================
