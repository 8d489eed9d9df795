--------------------------- MODULE CommerceFacts ---------------------------
(***************************************************************************)
(* What an action on one order of a customer depends on in NovaCommerce,   *)
(* and what VerbaOps can see of it through the read API: the situations in *)
(* which each kind of action can be proposed.  An order of another         *)
(* customer cannot be told from one that does not exist.                   *)
(*                                                                         *)
(* Sources: src/novacommerce/services/{orders,delivery_slots}.py, clock.py *)
(* and db/models; src/verbaops/commerce/{client,models}.py.                *)
(***************************************************************************)
EXTENDS Integers

CONSTANTS
    Days,         \* days on which an action is proposed or executed
    SlotDays,     \* service days of the slot that is asked for
    DeliveryDays, \* days on which the shipment was delivered
    Quantities,   \* units bought, returned before, and asked to be returned
    Amounts       \* of an order, of the refunds it had, and of the one asked for

\* Days are counted from a first one; nobody asks to return nothing.
ASSUME FactsAssumption ==
    /\ Days \subseteq Nat /\ SlotDays \subseteq Nat /\ DeliveryDays \subseteq Nat
    /\ Quantities \subseteq Nat \ {0} /\ Amounts \subseteq Nat

Missing == -1     \* no such slot, never delivered

OrderStatus == {"pending", "confirmed", "processing", "shipped", "delivered", "cancelled"}
ShipmentStatus == {"pending", "label_created", "in_transit", "out_for_delivery",
                   "delivered", "exception", "cancelled"}

\* The target slot; the returned items, taken together; what was paid and refunded.
Slot == [day : SlotDays \cup {Missing}, room : BOOLEAN]
Item == [bought : Quantities \cup {0}, returned : Quantities \cup {0}, asked : Quantities]
Money == [total : Amounts, refunded : Amounts \cup {0}, asked : Amounts]

Situation(kind, today, order, shipment) ==
    [kind |-> kind, today |-> today, order |-> order, shipment |-> shipment,
     booked |-> "other",                      \* the slot of the shipment
     slot |-> [day |-> Missing, room |-> FALSE],            \* the slot asked for
     delivered |-> Missing,
     item |-> [bought |-> 0, returned |-> 0, asked |-> 0],
     money |-> [total |-> 0, refunded |-> 0, asked |-> 0],
     currency |-> TRUE]                       \* the tenant's is configured

Orders(kind) ==
    {Situation(kind, d, o, s) : d \in Days, o \in OrderStatus \cup {"missing"},
                                s \in ShipmentStatus \cup {"none"}}

Cancellations == Orders("cancel")

ForSlot(s, booked, slot) == [s EXCEPT !.booked = booked, !.slot = slot]
ForItem(s, delivered, item) == [s EXCEPT !.delivered = delivered, !.item = item]
ForMoney(s, money, currency) == [s EXCEPT !.money = money, !.currency = currency]

Reschedulings ==
    {ForSlot(r, b, s) :
        r \in Orders("reschedule"), b \in {"asked", "other", "none"}, s \in Slot}

Returns ==
    {ForItem(r, d, i) :
        r \in {o \in Orders("return") : o.order \in {"missing", "shipped", "delivered"}},
        d \in DeliveryDays \cup {Missing}, i \in Item}

Refunds ==
    {ForMoney(r, m, c) :
        r \in {o \in Orders("refund") : o.shipment = "delivered"}, c \in BOOLEAN,
        m \in Money}

\* A ticket may name an order or none.
Tickets == {[t EXCEPT !.booked = b] :
               t \in {o \in Orders("ticket") : o.shipment = "none"}, b \in {"other", "none"}}

\* Nothing bought stands for an item of another order.  Nothing is delivered in
\* the future, and no more returned or refunded than there was (CommerceWrites).
Possible(s) ==
    /\ s.delivered <= s.today
    /\ s.item.returned <= s.item.bought
    /\ s.money.refunded <= s.money.total

Situations ==
    {s \in Cancellations \cup Reschedulings \cup Returns \cup Refunds \cup Tickets : Possible(s)}

-----------------------------------------------------------------------------
Found(s) == s.order # "missing"
Shipped(s) == Found(s) /\ s.shipment # "none"

\* What the read API tells.  It lists slots of up to 31 days and, if only the
\* available ones are asked for, none that is booked out.
DeliveryDateRange(from) == from..(from + 31)

Listed(s) == s.slot.day \in DeliveryDateRange(s.today) /\ s.slot.room
=============================================================================
