--------------------------- MODULE CommerceWrites ---------------------------
(***************************************************************************)
(* NovaCommerce's stock, delivery slots, refunds and returns under         *)
(* concurrent write transactions.  A transaction is a series of locking    *)
(* SELECTs (rows of one kind in the order of their ids), after which it    *)
(* writes what it computed from the rows as its session holds them and     *)
(* commits.  Locks are kept to the end; a SELECT without FOR UPDATE waits  *)
(* for nobody.  What a session once loaded it keeps: a later SELECT of the *)
(* same row, locking or not, does not refresh it (SQLAlchemy, unless told  *)
(* to with populate_existing).                                             *)
(*                                                                         *)
(* Sources: src/novacommerce/services/writes/.  That each operation is     *)
(* executed at most once per key is module CommerceIdempotency.            *)
(***************************************************************************)
EXTENDS Naturals, FiniteSets

CONSTANTS
    Txns,        \* write transactions, each executed once
    Orders,      \* orders, existing and still to be created
    Products,    \* ids, and so the order in which rows are locked
    Slots,       \* ids of delivery slots, likewise
    NoOrder, NoSlot,
    Operations,  \* the operations to consider
    Supply,      \* units of each product before anything was sold
    Capacity,    \* of each delivery slot
    Total,       \* what each order cost
    Bought       \* returnable units of each order

AllOperations == {"create", "cancel", "reschedule", "refund", "return"}

ASSUME OrdersAssumption == IsFiniteSet(Orders) /\ NoOrder \notin Orders
ASSUME IdsAssumption == Products \subseteq Nat /\ Slots \subseteq Nat /\ NoSlot \notin Slots
ASSUME OperationsAssumption == Operations \subseteq AllOperations
ASSUME AmountsAssumption ==
    Supply \in Nat /\ Capacity \in Nat /\ Total \in Nat /\ Bought \in Nat

VARIABLES
    order,      \* orders with their shipment: stage, products, slot
    stock,      \* products.stock
    reserved,   \* delivery_slots.reserved_count
    refunded,   \* sum of the order's approved refunds
    returned,   \* units in the order's open or completed returns
    pc,         \* where each transaction stands
    job,        \* what each transaction was called for
    held,       \* the rows it has locked
    session     \* the rows as its ORM session holds them

data == <<order, stock, reserved, refunded, returned>>
vars == <<data, pc, job, held, session>>

-----------------------------------------------------------------------------
(* Order and shipment status move together: "confirmed" stands for an      *)
(* order and a shipment that can be cancelled and rescheduled, "pending"   *)
(* for one that can only be cancelled, "shipped" only rescheduled.  An     *)
(* order has one unit of each of its products.                             *)
Stages == {"absent", "pending", "confirmed", "shipped", "delivered", "cancelled"}
Order == [stage : Stages, items : SUBSET Products, slot : Slots \cup {NoSlot}]
NewOrder == [stage |-> "absent", items |-> {}, slot |-> NoSlot]

Eligible(op, o) ==
    CASE op = "cancel"     -> o.stage \in {"pending", "confirmed"}
      [] op = "reschedule" -> o.stage \in {"confirmed", "shipped"}
      [] op = "refund"     -> o.stage \in {"delivered", "cancelled"}
      [] op = "return"     -> o.stage = "delivered"
      [] OTHER             -> FALSE

Rows == ({"order"} \X Orders) \cup ({"product"} \X Products) \cup ({"slot"} \X Slots)

Job == [op : Operations \cup {"none"}, order : Orders \cup {NoOrder}, items : SUBSET Products,
        slot : Slots \cup {NoSlot}, amount : Nat]

JobOf(op, o, items, s, n) ==
    [op |-> op, order |-> o, items |-> items, slot |-> s, amount |-> n]

JobsOf(op) ==
    CASE op = "create"     -> {JobOf(op, o, items, NoSlot, 0) :
                                 o \in Orders, items \in SUBSET Products \ {{}}}
      [] op = "cancel"     -> {JobOf(op, o, {}, NoSlot, 0) : o \in Orders}
      [] op = "reschedule" -> {JobOf(op, o, {}, s, 0) : o \in Orders, s \in Slots}
      [] op = "refund"     -> {JobOf(op, o, {}, NoSlot, n) : o \in Orders, n \in 1..Total}
      [] op = "return"     -> {JobOf(op, o, {}, NoSlot, n) : o \in Orders, n \in 1..Bought}

Ended  == {"accepted", "rejected", "failed"}
Labels == {"idle", "order", "load", "products", "slots", "sum", "write"} \cup Ended

Session == [order : Order, stock : [Products -> Nat], slots : [Slots -> Nat], sum : Nat]
Blank == [order |-> NewOrder, stock |-> [p \in Products |-> 0],
          slots |-> [s \in Slots |-> 0], sum |-> 0]

TypeOK ==
    /\ order \in [Orders -> Order]
    /\ stock \in [Products -> Nat]
    /\ reserved \in [Slots -> Nat]
    /\ refunded \in [Orders -> Nat]
    /\ returned \in [Orders -> Nat]
    /\ pc \in [Txns -> Labels]
    /\ job \in [Txns -> Job]
    /\ held \in [Txns -> SUBSET Rows]
    /\ session \in [Txns -> Session]

Sold(p) == {o \in Orders : /\ order[o].stage \notin {"absent", "cancelled"}
                           /\ p \in order[o].items}
Booked(s) == {o \in Orders : order[o].stage # "cancelled" /\ order[o].slot = s}

-----------------------------------------------------------------------------
(* The database as seeded, or as earlier writes left it.                   *)
Init ==
    /\ order \in [Orders -> Order]
    /\ \A o \in Orders :
          /\ order[o].stage = "absent" <=> order[o].items = {}
          /\ order[o].stage \in {"absent", "pending", "cancelled"} => order[o].slot = NoSlot
    /\ stock \in [Products -> 0..Supply]
    /\ \A p \in Products : stock[p] + Cardinality(Sold(p)) = Supply
    /\ reserved \in [Slots -> 0..Capacity]
    /\ \A s \in Slots : reserved[s] = Cardinality(Booked(s))
    /\ refunded = [o \in Orders |-> 0]
    /\ returned = [o \in Orders |-> 0]
    /\ pc = [t \in Txns |-> "idle"]
    /\ job = [t \in Txns |-> JobOf("none", NoOrder, {}, NoSlot, 0)]
    /\ held = [t \in Txns |-> {}]
    /\ session = [t \in Txns |-> Blank]

Goto(t, label) == pc' = [pc EXCEPT ![t] = label]

(* Commit, or roll back: the transaction gives up its locks.               *)
End(t, how) ==
    /\ Goto(t, how)
    /\ held' = [held EXCEPT ![t] = {}]
    /\ session' = [session EXCEPT ![t] = Blank]
    /\ UNCHANGED job

Free(t, row) == \A other \in Txns \ {t} : row \notin held[other]

Lock(t, row) ==
    /\ Free(t, row)
    /\ held' = [held EXCEPT ![t] = @ \cup {row}]

-----------------------------------------------------------------------------
(* A new order gets a UUID that nobody has seen.                           *)
IsFresh(o) == order[o].stage = "absent" /\ \A t \in Txns : job[t].order # o

Begin(t) ==
    /\ pc[t] = "idle"
    /\ \E op \in Operations : \E j \in JobsOf(op) :
          /\ op = "create" => IsFresh(j.order)
          /\ job' = [job EXCEPT ![t] = j]
    /\ Goto(t, IF job'[t].op = "create" THEN "products" ELSE "order")
    /\ UNCHANGED <<data, held, session>>

(* Faulty variant: the order is read without FOR UPDATE.                   *)
LockOrder_NoLock(t) ==
    LET o == job[t].order IN
    /\ pc[t] = "order"
    /\ IF Eligible(job[t].op, order[o])
       THEN /\ session' = [session EXCEPT ![t].order = order[o]]
            /\ Goto(t, CASE job[t].op = "cancel"     -> "load"
                         [] job[t].op = "reschedule" -> "slots"
                         [] OTHER                    -> "sum")
            /\ UNCHANGED <<job, held>>
       ELSE End(t, "rejected")
    /\ UNCHANGED data

(* The order is locked before its shipment, and with it everything that    *)
(* hangs on it: shipment, items, refunds, returns.                         *)
LockOrder(t) ==
    LET o == job[t].order IN
    /\ pc[t] = "order"
    /\ Free(t, <<"order", o>>)
    /\ IF Eligible(job[t].op, order[o])
       THEN /\ Lock(t, <<"order", o>>)
            /\ session' = [session EXCEPT ![t].order = order[o]]
            /\ Goto(t, CASE job[t].op = "cancel"     -> "load"
                         [] job[t].op = "reschedule" -> "slots"
                         [] OTHER                    -> "sum")
            /\ UNCHANGED job
       ELSE End(t, "rejected")
    /\ UNCHANGED data

(* Cancelling loads the items with their products, and locks only the      *)
(* items: selectinload reads the products in a statement of its own.       *)
LoadProducts(t) ==
    /\ pc[t] = "load"
    /\ session' = [session EXCEPT ![t].stock =
          [p \in Products |-> IF p \in session[t].order.items THEN stock[p] ELSE 0]]
    /\ Goto(t, "products")
    /\ UNCHANGED <<data, job, held>>

Unlocked(t, kind, ids) == {id \in ids : <<kind, id>> \notin held[t]}
IsFirst(id, ids) == id \in ids /\ \A other \in ids : id <= other

WantedProducts(t) ==
    Unlocked(t, "product",
             IF job[t].op = "create" THEN job[t].items ELSE session[t].order.items)

WantedSlots(t) == Unlocked(t, "slot", {session[t].order.slot, job[t].slot} \ {NoSlot})

(* Faulty variant: the products are locked in no particular order.         *)
LockProduct_AnyOrder(t) ==
    /\ pc[t] = "products"
    /\ \E p \in WantedProducts(t) :
          /\ Lock(t, <<"product", p>>)
          /\ session' = IF job[t].op = "create"
                        THEN [session EXCEPT ![t].stock[p] = stock[p]]
                        ELSE session
    /\ UNCHANGED <<data, pc, job>>

(* Faulty variant: the products are read without FOR UPDATE.               *)
LockProduct_NoLock(t) ==
    /\ pc[t] = "products"
    /\ \E p \in WantedProducts(t) :
          /\ held' = [held EXCEPT ![t] = @ \cup {<<"product", p>>}]
          /\ session' = IF job[t].op = "create"
                        THEN [session EXCEPT ![t].stock[p] = stock[p]]
                        ELSE session
    /\ UNCHANGED <<data, pc, job>>

(* The products are locked one after the other.  An order being created    *)
(* loads them here; a cancellation has loaded them before.                 *)
LockProduct(t) ==
    /\ pc[t] = "products"
    /\ \E p \in WantedProducts(t) :
          /\ IsFirst(p, WantedProducts(t))
          /\ Lock(t, <<"product", p>>)
          /\ session' = IF job[t].op = "create"
                        THEN [session EXCEPT ![t].stock[p] = stock[p]]
                        ELSE session
    /\ UNCHANGED <<data, pc, job>>

(* An order that asks for an inactive product, or for more than there is,  *)
(* is rejected.                                                            *)
ProductsLocked(t) ==
    /\ pc[t] = "products" /\ WantedProducts(t) = {}
    /\ \/ /\ job[t].op = "create"
          /\ \A p \in job[t].items : session[t].stock[p] >= 1
          /\ Goto(t, "write")
          /\ UNCHANGED <<job, held, session>>
       \/ job[t].op = "create" /\ End(t, "rejected")
       \/ job[t].op = "cancel" /\ Goto(t, "slots") /\ UNCHANGED <<job, held, session>>
    /\ UNCHANGED data

(* The slots, likewise; they were not loaded before.                       *)
LockSlot(t) ==
    /\ pc[t] = "slots"
    /\ \E s \in WantedSlots(t) :
          /\ IsFirst(s, WantedSlots(t))
          /\ Lock(t, <<"slot", s>>)
          /\ session' = [session EXCEPT ![t].slots[s] = reserved[s]]
    /\ UNCHANGED <<data, pc, job>>

(* A target slot in the past or without capacity is rejected; the slot the *)
(* shipment has already is not.                                            *)
SlotsLocked(t) ==
    /\ pc[t] = "slots" /\ WantedSlots(t) = {}
    /\ \/ job[t].op = "cancel" /\ Goto(t, "write") /\ UNCHANGED <<job, held, session>>
       \/ job[t].op = "reschedule" /\ End(t, "rejected")
       \/ /\ job[t].op = "reschedule" /\ session[t].order.slot = job[t].slot
          /\ End(t, "accepted")
       \/ /\ job[t].op = "reschedule" /\ session[t].order.slot # job[t].slot
          /\ session[t].slots[job[t].slot] < Capacity
          /\ Goto(t, "write") /\ UNCHANGED <<job, held, session>>
    /\ UNCHANGED data

(* What the order's refunds, or returns, add up to.  A refund without the  *)
(* approval it needs and a return after its window are rejected.           *)
Sum(t) ==
    LET o == job[t].order
        sum == IF job[t].op = "refund" THEN refunded[o] ELSE returned[o]
        most == IF job[t].op = "refund" THEN Total ELSE Bought
    IN
    /\ pc[t] = "sum"
    /\ \/ /\ sum + job[t].amount <= most
          /\ Goto(t, "write") /\ UNCHANGED <<job, held, session>>
       \/ End(t, "rejected")
    /\ UNCHANGED data

-----------------------------------------------------------------------------
(* The writes.  Each is one step with the commit: what it changes is       *)
(* locked, and its UPDATEs set the values computed in the session.         *)

CreateOrder(t) ==
    /\ pc[t] = "write" /\ job[t].op = "create"
    /\ order' = [order EXCEPT ![job[t].order] =
          [stage |-> "confirmed", items |-> job[t].items, slot |-> NoSlot]]
    /\ stock' = [p \in Products |-> IF p \in job[t].items THEN session[t].stock[p] - 1
                                                          ELSE stock[p]]
    /\ End(t, "accepted")
    /\ UNCHANGED <<reserved, refunded, returned>>

(* Faulty variant: the reservation is not given back.                      *)
CancelOrder_KeepsSlot(t) ==
    /\ pc[t] = "write" /\ job[t].op = "cancel"
    /\ order' = [order EXCEPT ![job[t].order].stage = "cancelled"]
    /\ stock' = [p \in Products |->
          IF p \in session[t].order.items THEN session[t].stock[p] + 1 ELSE stock[p]]
    /\ End(t, "accepted")
    /\ UNCHANGED <<reserved, refunded, returned>>

CancelOrder(t) ==
    LET o == session[t].order IN
    /\ pc[t] = "write" /\ job[t].op = "cancel"
    /\ order' = [order EXCEPT ![job[t].order].stage = "cancelled"]
    /\ stock' = [p \in Products |-> IF p \in o.items THEN session[t].stock[p] + 1
                                                     ELSE stock[p]]
    /\ reserved' = [s \in Slots |-> IF s = o.slot THEN session[t].slots[s] - 1
                                                  ELSE reserved[s]]
    /\ End(t, "accepted")
    /\ UNCHANGED <<refunded, returned>>

(* The target is counted up first.  That is flushed and committed with the *)
(* stored response even if the old reservation then turns out to be wrong. *)
RescheduleShipment(t) ==
    LET old == session[t].order.slot
        new == job[t].slot
    IN
    /\ pc[t] = "write" /\ job[t].op = "reschedule"
    /\ IF old = NoSlot \/ session[t].slots[old] > 0
       THEN /\ reserved' = [s \in Slots |-> CASE s = new -> session[t].slots[s] + 1
                                              [] s = old -> session[t].slots[s] - 1
                                              [] OTHER   -> reserved[s]]
            /\ order' = [order EXCEPT ![job[t].order].slot = new]
            /\ End(t, "accepted")
       ELSE /\ reserved' = [reserved EXCEPT ![new] = session[t].slots[new] + 1]
            /\ UNCHANGED order
            /\ End(t, "rejected")
    /\ UNCHANGED <<stock, refunded, returned>>

CreateRefund(t) ==
    /\ pc[t] = "write" /\ job[t].op = "refund"
    /\ refunded' = [refunded EXCEPT ![job[t].order] = @ + job[t].amount]
    /\ End(t, "accepted")
    /\ UNCHANGED <<order, stock, reserved, returned>>

CreateReturn(t) ==
    /\ pc[t] = "write" /\ job[t].op = "return"
    /\ returned' = [returned EXCEPT ![job[t].order] = @ + job[t].amount]
    /\ End(t, "accepted")
    /\ UNCHANGED <<order, stock, reserved, refunded>>

(* Any statement may fail.                                                 *)
Abort(t) ==
    /\ pc[t] \notin {"idle"} \cup Ended
    /\ End(t, "failed")
    /\ UNCHANGED data

Proceed(t) ==
    \/ LockOrder(t) \/ LoadProducts(t) \/ LockProduct(t) \/ ProductsLocked(t)
    \/ LockSlot(t) \/ SlotsLocked(t) \/ Sum(t)
    \/ CreateOrder(t) \/ CancelOrder(t) \/ RescheduleShipment(t)
    \/ CreateRefund(t) \/ CreateReturn(t)

Next == \E t \in Txns : Begin(t) \/ Proceed(t) \/ Abort(t)

Spec == Init /\ [][Next]_vars

(* A transaction that has begun goes on; a wait for a lock ends when the   *)
(* transaction that has it ends.                                           *)
FairSpec == Spec /\ \A t \in Txns : WF_vars(Proceed(t))

-----------------------------------------------------------------------------
(* Properties.                                                             *)

(* A slot's counter is the number of live shipments booked into it, and    *)
(* never exceeds its capacity, whichever cancellations and reschedulings   *)
(* of whichever orders race.                                               *)
SlotsBalance ==
    \A s \in Slots : reserved[s] = Cardinality(Booked(s)) /\ reserved[s] <= Capacity

(* Every unit of a product is either in stock or in a live order: nothing  *)
(* is oversold, and a cancellation gives back what it took, once.          *)
StockBalances ==
    \A p \in Products : stock[p] + Cardinality(Sold(p)) = Supply

(* As long as nobody cancels an order for a product, none of its units is  *)
(* oversold or lost, however many orders for it are placed at once.        *)
Cancelling(p) ==
    \E t \in Txns : job[t].op = "cancel" /\ p \in order[job[t].order].items

NothingOversold ==
    \A p \in Products : ~Cancelling(p) => stock[p] + Cardinality(Sold(p)) = Supply

(* Refunds and returns of one order that are requested concurrently stay   *)
(* within what was paid and bought, and are of settled orders only.        *)
WithinOrder ==
    \A o \in Orders :
        /\ refunded[o] <= Total /\ returned[o] <= Bought
        /\ refunded[o] > 0 => Eligible("refund", order[o])
        /\ returned[o] > 0 => Eligible("return", order[o])

(* An order is cancelled at most once.                                     *)
CancelledOnce ==
    \A t, u \in Txns :
        /\ job[t].op = "cancel" /\ pc[t] = "accepted"
        /\ job[u].op = "cancel" /\ pc[u] = "accepted"
        /\ job[t].order = job[u].order
        => t = u

(* A rejection leaves the database as it was.  The one that reschedule.py  *)
(* gives after it has counted up its target slot would not: it is not      *)
(* reached, but only because the locks keep the slots balanced.            *)
RejectionChangesNothing ==
    [][\A t \in Txns : pc[t] # "rejected" /\ pc'[t] = "rejected" => UNCHANGED data]_vars

(* Transactions that wait for each other's rows all end: there is no cycle *)
(* of waits, because rows are locked in one order.                         *)
EveryWriteEnds ==
    \A t \in Txns : pc[t] \in Labels \ ({"idle"} \cup Ended) ~> pc[t] \in Ended
=============================================================================
