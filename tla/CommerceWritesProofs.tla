------------------------ MODULE CommerceWritesProofs ------------------------
(***************************************************************************)
(* The theorems of CommerceWrites: for any number of transactions, orders, *)
(* products and slots.                                                     *)
(***************************************************************************)
EXTENDS CommerceWrites, FiniteSetTheorems, TLAPS

-----------------------------------------------------------------------------
(* Two transactions never lock the same row.                               *)
Exclusive ==
    \A t, u \in Txns : t # u => held[t] \cap held[u] = {}

OrderLocked(t) ==
    \/ pc[t] \in {"load", "sum"}
    \/ pc[t] \in {"products", "slots", "write"} /\ job[t].op # "create"

(* What a transaction is doing, and for which order.                       *)
Purpose(t) ==
    /\ pc[t] \in {"idle", "order"} \cup Ended => held[t] = {}
    /\ pc[t] = "idle" => job[t].op = "none"
    /\ pc[t] = "order" => job[t].op # "create"
    /\ pc[t] \in {"order", "load", "products", "slots", "sum", "write"} =>
          job[t].order \in Orders
    /\ pc[t] = "load" => job[t].op = "cancel"
    /\ pc[t] = "products" => job[t].op \in {"create", "cancel"}
    /\ pc[t] = "slots" => job[t].op \in {"cancel", "reschedule"}
    /\ pc[t] = "sum" => job[t].op \in {"refund", "return"}
    /\ job[t].op = "reschedule" => job[t].slot \in Slots
    /\ job[t].op = "cancel" => job[t].order \in Orders

(* The rows a session holds under lock are as the database has them.       *)
Current(t) ==
    /\ OrderLocked(t) =>
          /\ <<"order", job[t].order>> \in held[t]
          /\ session[t].order = order[job[t].order]
          /\ Eligible(job[t].op, order[job[t].order])
    /\ \A s \in Slots :
          <<"slot", s>> \in held[t] => session[t].slots[s] = reserved[s]
    /\ job[t].op = "create" =>
          \A p \in Products :
             <<"product", p>> \in held[t] => session[t].stock[p] = stock[p]

(* A transaction that is about to write has locked all it writes to, and   *)
(* what it checked still holds.                                            *)
Ready(t) ==
    /\ pc[t] = "write" /\ job[t].op = "create" =>
          \A p \in job[t].items : <<"product", p>> \in held[t] /\ session[t].stock[p] >= 1
    /\ pc[t] \in {"slots", "write"} /\ job[t].op = "cancel" =>
          \A p \in session[t].order.items : <<"product", p>> \in held[t]
    /\ pc[t] = "write" /\ job[t].op = "cancel" /\ session[t].order.slot # NoSlot =>
          <<"slot", session[t].order.slot>> \in held[t]
    /\ pc[t] = "write" /\ job[t].op = "reschedule" =>
          /\ job[t].slot \in Slots /\ <<"slot", job[t].slot>> \in held[t]
          /\ session[t].order.slot # NoSlot => <<"slot", session[t].order.slot>> \in held[t]
          /\ session[t].order.slot # job[t].slot
          /\ session[t].slots[job[t].slot] < Capacity
    /\ pc[t] = "write" /\ job[t].op = "refund" =>
          refunded[job[t].order] + job[t].amount <= Total
    /\ pc[t] = "write" /\ job[t].op = "return" =>
          returned[job[t].order] + job[t].amount <= Bought

TxnInv(t) == Purpose(t) /\ Current(t) /\ Ready(t)

(* An order being created is known to its creator only.                    *)
Creating(t) == job[t].op = "create" /\ pc[t] \in {"products", "write"}

FreshOrders ==
    /\ \A o \in Orders :
          order[o].stage = "absent" => order[o].slot = NoSlot /\ order[o].items = {}
    /\ \A t \in Txns : Creating(t) => order[job[t].order].stage = "absent"
    /\ \A t, u \in Txns : Creating(t) /\ Creating(u) /\ t # u => job[t].order # job[u].order

(* A cancelled order stays so.                                             *)
CancelledStays ==
    \A t \in Txns : job[t].op = "cancel" /\ pc[t] = "accepted" =>
        job[t].order \in Orders /\ order[job[t].order].stage = "cancelled"

IInv ==
    /\ TypeOK
    /\ Exclusive
    /\ \A t \in Txns : TxnInv(t)
    /\ FreshOrders
    /\ SlotsBalance
    /\ WithinOrder
    /\ CancelledStays
    /\ CancelledOnce

-----------------------------------------------------------------------------
(* How Goto and End change their transaction's entry, and no other.        *)
LEMMA GotoEffect ==
  ASSUME TypeOK, NEW t \in Txns, NEW label, Goto(t, label)
  PROVE  pc'[t] = label /\ \A u \in Txns \ {t} : pc'[u] = pc[u]
  BY DEF TypeOK, Goto

LEMMA EndEffect ==
  ASSUME TypeOK, NEW t \in Txns, NEW how, End(t, how)
  PROVE  /\ pc'[t] = how /\ held'[t] = {} /\ session'[t] = Blank /\ job' = job
         /\ \A u \in Txns \ {t} :
               pc'[u] = pc[u] /\ held'[u] = held[u] /\ session'[u] = session[u]
  BY DEF TypeOK, End, Goto

Step(t) == Begin(t) \/ Proceed(t) \/ Abort(t)

(* Steps that only read or lock, and what they may lock.                   *)
Reads(t) ==
    \/ Begin(t) \/ LockOrder(t) \/ LoadProducts(t) \/ LockProduct(t) \/ ProductsLocked(t)
    \/ LockSlot(t) \/ SlotsLocked(t) \/ Sum(t) \/ Abort(t)

Writes(t) ==
    \/ CreateOrder(t) \/ CancelOrder(t) \/ RescheduleShipment(t)
    \/ CreateRefund(t) \/ CreateReturn(t)

LEMMA StepCases ==
  ASSUME NEW t \in Txns, Step(t)
  PROVE  (Reads(t) /\ UNCHANGED data) \/ (Writes(t) /\ pc[t] = "write")
  BY DEF Step, Reads, Writes, Proceed, Begin, LockOrder, LoadProducts, LockProduct,
         ProductsLocked, LockSlot, SlotsLocked, Sum, Abort,
         CreateOrder, CancelOrder, RescheduleShipment, CreateRefund, CreateReturn

-----------------------------------------------------------------------------
(* Types.                                                                  *)
LEMMA BlankType == Blank \in Session
  BY DEF Blank, Session, Order, NewOrder, Stages

LEMMA EndTypes ==
  ASSUME TypeOK, NEW t \in Txns, NEW how \in Ended, End(t, how)
  PROVE  /\ pc' \in [Txns -> Labels] /\ held' \in [Txns -> SUBSET Rows]
         /\ session' \in [Txns -> Session] /\ job' \in [Txns -> Job]
  BY BlankType DEF TypeOK, End, Goto, Labels

LEMMA JobType ==
  ASSUME NEW op \in AllOperations \cap Operations, NEW j \in JobsOf(op)
  PROVE  /\ j \in Job /\ j.op = op /\ j.order \in Orders
         /\ op = "reschedule" => j.slot \in Slots
         /\ op # "reschedule" => j.slot = NoSlot
<1>1. CASE op = "create"
  <2>1. JobsOf(op) = {JobOf(op, o, items, NoSlot, 0) :
                        o \in Orders, items \in SUBSET Products \ {{}}}
    BY <1>1 DEF JobsOf
  <2>2. PICK o \in Orders, items \in SUBSET Products : j = JobOf(op, o, items, NoSlot, 0)
    BY <2>1
  <2> QED BY <1>1, <2>2 DEF JobOf, Job
<1>2. CASE op = "cancel"
  <2>1. JobsOf(op) = {JobOf(op, o, {}, NoSlot, 0) : o \in Orders}
    BY <1>2 DEF JobsOf
  <2>2. PICK o \in Orders : j = JobOf(op, o, {}, NoSlot, 0)
    BY <2>1
  <2> QED BY <1>2, <2>2 DEF JobOf, Job
<1>3. CASE op = "reschedule"
  <2>1. JobsOf(op) = {JobOf(op, o, {}, s, 0) : o \in Orders, s \in Slots}
    BY <1>3 DEF JobsOf
  <2>2. PICK o \in Orders, s \in Slots : j = JobOf(op, o, {}, s, 0)
    BY <2>1
  <2> QED BY <1>3, <2>2 DEF JobOf, Job
<1>4. CASE op = "refund"
  <2>1. JobsOf(op) = {JobOf(op, o, {}, NoSlot, n) : o \in Orders, n \in 1..Total}
    BY <1>4 DEF JobsOf
  <2>2. PICK o \in Orders, n \in Nat : j = JobOf(op, o, {}, NoSlot, n)
    BY <2>1, AmountsAssumption
  <2> QED BY <1>4, <2>2 DEF JobOf, Job
<1>5. CASE op = "return"
  <2>1. JobsOf(op) = {JobOf(op, o, {}, NoSlot, n) : o \in Orders, n \in 1..Bought}
    BY <1>5 DEF JobsOf
  <2>2. PICK o \in Orders, n \in Nat : j = JobOf(op, o, {}, NoSlot, n)
    BY <2>1, AmountsAssumption
  <2> QED BY <1>5, <2>2 DEF JobOf, Job
<1> QED BY <1>1, <1>2, <1>3, <1>4, <1>5 DEF AllOperations

LEMMA ReadTypes ==
  ASSUME IInv, NEW t \in Txns, Reads(t), UNCHANGED data
  PROVE  TypeOK'
<1>1. TypeOK /\ Purpose(t)
  BY DEF IInv, TxnInv
<1> SUFFICES /\ pc' \in [Txns -> Labels] /\ held' \in [Txns -> SUBSET Rows]
             /\ session' \in [Txns -> Session] /\ job' \in [Txns -> Job]
  BY <1>1 DEF TypeOK, data
<1>2. CASE Begin(t)
  <2>1. PICK op \in Operations : \E j \in JobsOf(op) : job' = [job EXCEPT ![t] = j]
    BY <1>2 DEF Begin
  <2>2. PICK j \in JobsOf(op) : job' = [job EXCEPT ![t] = j]
    BY <2>1
  <2>3. j \in Job
    BY <2>2, JobType, OperationsAssumption
  <2> QED BY <1>1, <1>2, <2>2, <2>3 DEF TypeOK, Begin, Goto, Labels
<1>3. CASE LockOrder(t)
  <2>1. CASE End(t, "rejected")
    BY <1>1, <2>1, EndTypes DEF Ended
  <2>2. CASE ~End(t, "rejected")
    <3> DEFINE o == job[t].order
    <3>1. o \in Orders /\ order[o] \in Order
      BY <1>1, <1>3 DEF TypeOK, Purpose, LockOrder
    <3>2. <<"order", o>> \in Rows
      BY <3>1 DEF Rows
    <3>3. /\ session' = [session EXCEPT ![t].order = order[o]]
          /\ held' = [held EXCEPT ![t] = @ \cup {<<"order", o>>}]
          /\ pc' = [pc EXCEPT ![t] = CASE job[t].op = "cancel"     -> "load"
                                       [] job[t].op = "reschedule" -> "slots"
                                       [] OTHER                    -> "sum"]
          /\ job' = job
      BY <1>3, <2>2 DEF LockOrder, Lock, Goto
    <3>4. session' \in [Txns -> Session]
      BY <1>1, <3>1, <3>3 DEF TypeOK, Session
    <3>5. held' \in [Txns -> SUBSET Rows]
      BY <1>1, <3>2, <3>3 DEF TypeOK
    <3>6. pc' \in [Txns -> Labels]
      BY <1>1, <3>3 DEF TypeOK, Labels
    <3> QED BY <1>1, <3>3, <3>4, <3>5, <3>6 DEF TypeOK
  <2> QED BY <2>1, <2>2
<1>4. CASE LoadProducts(t)
  <2> DEFINE loaded == [p \in Products |-> IF p \in session[t].order.items THEN stock[p] ELSE 0]
  <2>1. loaded \in [Products -> Nat]
    BY <1>1 DEF TypeOK
  <2>2. session' = [session EXCEPT ![t].stock = loaded]
    BY <1>4 DEF LoadProducts
  <2>3. session' \in [Txns -> Session]
    BY <1>1, <2>1, <2>2 DEF TypeOK, Session
  <2> QED BY <1>1, <1>4, <2>3 DEF TypeOK, LoadProducts, Goto, Labels
<1>5. CASE LockProduct(t)
  <2>1. PICK p \in WantedProducts(t) :
           /\ held' = [held EXCEPT ![t] = @ \cup {<<"product", p>>}]
           /\ session' = IF job[t].op = "create"
                         THEN [session EXCEPT ![t].stock[p] = stock[p]] ELSE session
    BY <1>5 DEF LockProduct, Lock
  <2>2. p \in Products
    BY <1>1, <2>1 DEF WantedProducts, Unlocked, TypeOK, Job, Session, Order
  <2>3. <<"product", p>> \in Rows
    BY <2>2 DEF Rows
  <2>4. session' \in [Txns -> Session]
    BY <1>1, <2>1, <2>2 DEF TypeOK, Session
  <2>5. held' \in [Txns -> SUBSET Rows]
    BY <1>1, <2>1, <2>3 DEF TypeOK
  <2> QED BY <1>1, <1>5, <2>4, <2>5 DEF TypeOK, LockProduct
<1>6. CASE LockSlot(t)
  <2>1. PICK s \in WantedSlots(t) :
           /\ held' = [held EXCEPT ![t] = @ \cup {<<"slot", s>>}]
           /\ session' = [session EXCEPT ![t].slots[s] = reserved[s]]
    BY <1>6 DEF LockSlot, Lock
  <2>2. s \in Slots
    BY <1>1, <2>1 DEF WantedSlots, Unlocked, TypeOK, Job, Session, Order
  <2>3. <<"slot", s>> \in Rows
    BY <2>2 DEF Rows
  <2>4. session' \in [Txns -> Session]
    BY <1>1, <2>1, <2>2 DEF TypeOK, Session
  <2>5. held' \in [Txns -> SUBSET Rows]
    BY <1>1, <2>1, <2>3 DEF TypeOK
  <2> QED BY <1>1, <1>6, <2>4, <2>5 DEF TypeOK, LockSlot
<1>7. CASE ProductsLocked(t) \/ SlotsLocked(t) \/ Sum(t) \/ Abort(t)
  <2>1. \/ \E how \in Ended : End(t, how)
        \/ \E label \in {"slots", "write"} : Goto(t, label) /\ UNCHANGED <<job, held, session>>
    BY <1>7 DEF ProductsLocked, SlotsLocked, Sum, Abort, Ended
  <2> QED BY <1>1, <2>1, EndTypes DEF TypeOK, Goto, Labels
<1> QED BY <1>2, <1>3, <1>4, <1>5, <1>6, <1>7 DEF Reads

-----------------------------------------------------------------------------
(* A step changes nothing of the other transactions.                       *)
LEMMA OthersUntouched ==
  ASSUME TypeOK, NEW t \in Txns, Step(t), NEW u \in Txns \ {t}
  PROVE  pc'[u] = pc[u] /\ job'[u] = job[u] /\ held'[u] = held[u] /\ session'[u] = session[u]
<1> USE DEF TypeOK
<1>1. CASE Begin(t)
  BY <1>1 DEF Begin, Goto
<1>2. CASE LockOrder(t) \/ LoadProducts(t)
  BY <1>2 DEF LockOrder, LoadProducts, Goto, Lock, End
<1>3. CASE LockProduct(t)
  BY <1>3 DEF LockProduct, Lock
<1>4. CASE LockSlot(t)
  BY <1>4 DEF LockSlot, Lock
<1>5. CASE ProductsLocked(t) \/ SlotsLocked(t) \/ Sum(t) \/ Abort(t)
  BY <1>5 DEF ProductsLocked, SlotsLocked, Sum, Abort, Goto, End
<1>6. CASE Writes(t)
  BY <1>6 DEF Writes, CreateOrder, CancelOrder, RescheduleShipment, CreateRefund,
              CreateReturn, Goto, End
<1> QED BY <1>1, <1>2, <1>3, <1>4, <1>5, <1>6 DEF Step, Proceed, Writes

(* The rows a step adds to those its transaction holds were free.          *)
LEMMA NewLocksWereFree ==
  ASSUME TypeOK, NEW t \in Txns, Step(t), NEW row \in held'[t] \ held[t]
  PROVE  Free(t, row)
<1> USE DEF TypeOK
<1>1. CASE Begin(t) \/ LoadProducts(t)
  BY <1>1 DEF Begin, LoadProducts
<1>2. CASE LockOrder(t)
  BY <1>2 DEF LockOrder, Lock, End
<1>3. CASE LockProduct(t)
  BY <1>3 DEF LockProduct, Lock
<1>4. CASE LockSlot(t)
  BY <1>4 DEF LockSlot, Lock
<1>5. CASE ProductsLocked(t) \/ SlotsLocked(t) \/ Sum(t) \/ Abort(t)
  BY <1>5 DEF ProductsLocked, SlotsLocked, Sum, Abort, End
<1>6. CASE Writes(t)
  BY <1>6 DEF Writes, CreateOrder, CancelOrder, RescheduleShipment, CreateRefund,
              CreateReturn, End
<1> QED BY <1>1, <1>2, <1>3, <1>4, <1>5, <1>6 DEF Step, Proceed, Writes

LEMMA KeepsExclusive ==
  ASSUME IInv, NEW t \in Txns, Step(t)
  PROVE  Exclusive'
<1>1. TypeOK /\ Exclusive
  BY DEF IInv
<1> SUFFICES ASSUME NEW u \in Txns, NEW v \in Txns, u # v,
                    NEW row \in held'[u], row \in held'[v]
             PROVE  FALSE
  BY DEF Exclusive
<1>2. ASSUME NEW w \in Txns \ {t}, row \in held'[t], row \in held'[w]
      PROVE  FALSE
  <2>1. row \in held[w]
    BY <1>1, <1>2, OthersUntouched
  <2>2. CASE row \in held[t]
    BY <1>1, <2>1, <2>2 DEF Exclusive
  <2>3. CASE row \notin held[t]
    BY <1>1, <1>2, <2>1, <2>3, NewLocksWereFree DEF Free
  <2> QED BY <2>2, <2>3
<1>3. CASE u # t /\ v # t
  BY <1>1, <1>3, OthersUntouched DEF Exclusive
<1> QED BY <1>2, <1>3

-----------------------------------------------------------------------------
(* What a transaction about to write knows.                                *)
LEMMA Writer ==
  ASSUME IInv, NEW t \in Txns, pc[t] = "write"
  PROVE  /\ job[t].order \in Orders
         /\ job[t].op = "create" =>
               /\ order[job[t].order].stage = "absent"
               /\ \A p \in job[t].items :
                     <<"product", p>> \in held[t] /\ session[t].stock[p] = stock[p] /\ stock[p] >= 1
         /\ job[t].op # "create" =>
               /\ <<"order", job[t].order>> \in held[t]
               /\ session[t].order = order[job[t].order]
               /\ Eligible(job[t].op, order[job[t].order])
         /\ \A s \in Slots : <<"slot", s>> \in held[t] => session[t].slots[s] = reserved[s]
  BY DEF IInv, TypeOK, Job, TxnInv, Purpose, Current, Ready, OrderLocked, FreshOrders, Creating

(* A live order's slot counts at least that order.                         *)
LEMMA Occupied ==
  ASSUME IInv, NEW o \in Orders, order[o].stage # "cancelled", order[o].slot \in Slots
  PROVE  reserved[order[o].slot] >= 1
<1> DEFINE s == order[o].slot
<1>1. IsFiniteSet(Booked(s)) /\ o \in Booked(s)
  BY OrdersAssumption, FS_Subset DEF Booked
<1>2. Cardinality(Booked(s)) \in Nat /\ Cardinality(Booked(s)) # 0
  BY <1>1, FS_CardinalityType, FS_EmptySet
<1> QED BY <1>2 DEF IInv, SlotsBalance

(* The rows a cancellation and a rescheduling write to are locked.         *)
LEMMA OldSlot ==
  ASSUME IInv, NEW t \in Txns, pc[t] = "write", job[t].op \in {"cancel", "reschedule"},
         session[t].order.slot # NoSlot
  PROVE  LET s == session[t].order.slot IN
         /\ s \in Slots /\ <<"slot", s>> \in held[t]
         /\ session[t].slots[s] = reserved[s] /\ reserved[s] >= 1
         /\ order[job[t].order].slot = s
<1> DEFINE o == job[t].order
           s == session[t].order.slot
<1>1. o \in Orders /\ session[t].order = order[o] /\ Eligible(job[t].op, order[o])
  BY Writer
<1>2. order[o] \in Order
  BY <1>1 DEF IInv, TypeOK
<1>3. s \in Slots /\ order[o].slot = s /\ order[o].stage # "cancelled"
  BY <1>1, <1>2 DEF Order, Eligible
<1>4. <<"slot", s>> \in held[t]
  BY DEF IInv, TxnInv, Ready
<1> QED BY <1>1, <1>3, <1>4, Writer, Occupied

LEMMA GivesBack ==
  ASSUME IInv, NEW t \in Txns, pc[t] = "write", job[t].op \in {"cancel", "reschedule"},
         session[t].order.slot # NoSlot
  PROVE  session[t].slots[session[t].order.slot] - 1 \in Nat
<1> DEFINE s == session[t].order.slot
<1>1. s \in Slots /\ session[t].slots[s] = reserved[s] /\ reserved[s] >= 1
  BY OldSlot
<1>2. reserved[s] \in Nat
  BY <1>1 DEF IInv, TypeOK
<1> QED BY <1>1, <1>2

LEMMA WriteTypes ==
  ASSUME IInv, NEW t \in Txns, Writes(t), pc[t] = "write"
  PROVE  TypeOK'
<1>1. TypeOK
  BY DEF IInv
<1>2. /\ pc' \in [Txns -> Labels] /\ held' \in [Txns -> SUBSET Rows]
      /\ session' \in [Txns -> Session] /\ job' \in [Txns -> Job]
  BY <1>1, EndTypes
     DEF Writes, CreateOrder, CancelOrder, RescheduleShipment, CreateRefund, CreateReturn, Ended
<1>3. job[t] \in Job /\ session[t] \in Session /\ job[t].order \in Orders
  BY <1>1, Writer DEF TypeOK
<1> SUFFICES /\ order' \in [Orders -> Order] /\ stock' \in [Products -> Nat]
             /\ reserved' \in [Slots -> Nat]
             /\ refunded' \in [Orders -> Nat] /\ returned' \in [Orders -> Nat]
  BY <1>2 DEF TypeOK
<1>4. CASE CreateOrder(t)
  <2>1. [stage |-> "confirmed", items |-> job[t].items, slot |-> NoSlot] \in Order
    BY <1>3 DEF Job, Order, Stages
  <2>2. order' \in [Orders -> Order]
    BY <1>1, <1>3, <1>4, <2>1 DEF CreateOrder, TypeOK
  <2>3. \A p \in job[t].items : session[t].stock[p] - 1 \in Nat
    <3>1. job[t].op = "create" /\ job[t].items \subseteq Products
      BY <1>3, <1>4 DEF CreateOrder, Job
    <3>2. \A p \in job[t].items : session[t].stock[p] = stock[p] /\ stock[p] >= 1
      BY <3>1, Writer
    <3>3. \A p \in Products : stock[p] \in Nat
      BY <1>1 DEF TypeOK
    <3>4. \A n \in Nat : n >= 1 => n - 1 \in Nat
      OBVIOUS
    <3> QED BY <3>1, <3>2, <3>3, <3>4
  <2>4. stock' \in [Products -> Nat]
    BY <1>1, <1>4, <2>3 DEF CreateOrder, TypeOK
  <2> QED BY <1>1, <1>4, <2>2, <2>4 DEF CreateOrder, TypeOK
<1>5. CASE CancelOrder(t)
  <2>1. order' \in [Orders -> Order]
    BY <1>1, <1>3, <1>5 DEF CancelOrder, TypeOK, Order, Stages
  <2>2. stock' \in [Products -> Nat]
    BY <1>1, <1>3, <1>5 DEF CancelOrder, TypeOK, Session
  <2>3. session[t].order.slot # NoSlot => session[t].slots[session[t].order.slot] - 1 \in Nat
    <3>1. job[t].op = "cancel"
      BY <1>5 DEF CancelOrder
    <3> QED BY <1>1, <3>1, GivesBack
  <2>4. reserved' \in [Slots -> Nat]
    BY <1>1, <1>5, <2>3, IdsAssumption DEF CancelOrder, TypeOK
  <2> QED BY <1>1, <1>5, <2>1, <2>2, <2>4 DEF CancelOrder, TypeOK
<1>6. CASE RescheduleShipment(t)
  <2>1. job[t].slot \in Slots
    BY <1>6 DEF RescheduleShipment, IInv, TxnInv, Ready
  <2>2. order' \in [Orders -> Order]
    <3>1. \/ order' = [order EXCEPT ![job[t].order].slot = job[t].slot]
          \/ UNCHANGED order
      BY <1>6 DEF RescheduleShipment
    <3> QED BY <1>1, <1>3, <2>1, <3>1 DEF TypeOK, Order
  <2>3. session[t].order.slot # NoSlot => session[t].slots[session[t].order.slot] - 1 \in Nat
    <3>1. job[t].op = "reschedule"
      BY <1>6 DEF RescheduleShipment
    <3> QED BY <1>1, <3>1, GivesBack
  <2>4. session[t].slots[job[t].slot] + 1 \in Nat
    BY <1>3, <2>1 DEF Session
  <2>5. reserved' \in [Slots -> Nat]
    BY <1>1, <1>6, <2>1, <2>3, <2>4, IdsAssumption DEF RescheduleShipment, TypeOK
  <2> QED BY <1>1, <1>6, <2>2, <2>5 DEF RescheduleShipment, TypeOK
<1>7. CASE CreateRefund(t)
  BY <1>1, <1>3, <1>7 DEF CreateRefund, TypeOK, Job
<1>8. CASE CreateReturn(t)
  BY <1>1, <1>3, <1>8 DEF CreateReturn, TypeOK, Job
<1> QED BY <1>4, <1>5, <1>6, <1>7, <1>8 DEF Writes

(* A write changes only rows its transaction has locked, and the order it  *)
(* creates.                                                                *)
LEMMA WritesWhatIsLocked ==
  ASSUME IInv, NEW t \in Txns, Writes(t), pc[t] = "write"
  PROVE  /\ \A o \in Orders :
               <<"order", o>> \notin held[t] /\ ~(job[t].op = "create" /\ o = job[t].order) =>
                   order'[o] = order[o] /\ refunded'[o] = refunded[o] /\ returned'[o] = returned[o]
         /\ \A p \in Products : <<"product", p>> \notin held[t] => stock'[p] = stock[p]
         /\ \A s \in Slots : <<"slot", s>> \notin held[t] => reserved'[s] = reserved[s]
<1>1. TypeOK /\ Ready(t)
  BY DEF IInv, TxnInv
<1>2. CASE CreateOrder(t)
  BY <1>1, <1>2, Writer DEF CreateOrder, TypeOK
<1>3. CASE CancelOrder(t)
  <2>1. \A o \in Orders : <<"order", o>> \notin held[t] => order'[o] = order[o]
    BY <1>1, <1>3, Writer DEF CancelOrder, TypeOK
  <2>2. \A p \in Products : <<"product", p>> \notin held[t] => stock'[p] = stock[p]
    BY <1>1, <1>3 DEF CancelOrder, TypeOK, Ready
  <2>3. \A s \in Slots : <<"slot", s>> \notin held[t] => reserved'[s] = reserved[s]
    BY <1>1, <1>3, IdsAssumption DEF CancelOrder, TypeOK, Ready
  <2> QED BY <1>3, <2>1, <2>2, <2>3 DEF CancelOrder
<1>4. CASE RescheduleShipment(t)
  <2>1. \A o \in Orders : <<"order", o>> \notin held[t] => order'[o] = order[o]
    BY <1>1, <1>4, Writer DEF RescheduleShipment, TypeOK
  <2>2. \A s \in Slots : <<"slot", s>> \notin held[t] => reserved'[s] = reserved[s]
    BY <1>1, <1>4, IdsAssumption DEF RescheduleShipment, TypeOK, Ready
  <2> QED BY <1>4, <2>1, <2>2 DEF RescheduleShipment
<1>5. CASE CreateRefund(t)
  BY <1>1, <1>5, Writer DEF CreateRefund, TypeOK
<1>6. CASE CreateReturn(t)
  BY <1>1, <1>6, Writer DEF CreateReturn, TypeOK
<1> QED BY <1>2, <1>3, <1>4, <1>5, <1>6 DEF Writes

(* Hence a step leaves what the other transactions rely on.                *)
LEMMA OthersKeepTxnInv ==
  ASSUME IInv, NEW t \in Txns, Step(t), NEW u \in Txns \ {t}
  PROVE  TxnInv(u)'
<1>1. TypeOK /\ Exclusive /\ Purpose(u) /\ Current(u) /\ Ready(u)
  BY DEF IInv, TxnInv
<1>2. pc'[u] = pc[u] /\ job'[u] = job[u] /\ held'[u] = held[u] /\ session'[u] = session[u]
  BY <1>1, OthersUntouched
<1>3. Purpose(u)'
  BY <1>1, <1>2 DEF Purpose
<1>4. CASE UNCHANGED data
  BY <1>1, <1>2, <1>3, <1>4 DEF data, TxnInv, Current, Ready, OrderLocked, Eligible
<1>5. CASE Writes(t) /\ pc[t] = "write"
  <2> DEFINE o == job[u].order
  <2>1. \A row \in held[u] : row \notin held[t]
    BY <1>1 DEF Exclusive
  <2>2. /\ \A s \in Slots : <<"slot", s>> \in held[u] => reserved'[s] = reserved[s]
        /\ \A p \in Products : <<"product", p>> \in held[u] => stock'[p] = stock[p]
    BY <1>5, <2>1, WritesWhatIsLocked
  <2>3. ASSUME OrderLocked(u)
        PROVE  /\ o \in Orders /\ order'[o] = order[o]
               /\ refunded'[o] = refunded[o] /\ returned'[o] = returned[o]
    <3>1. o \in Orders /\ <<"order", o>> \notin held[t]
      BY <1>1, <2>1, <2>3 DEF Purpose, Current, OrderLocked
    <3>2. order[o].stage # "absent"
      BY <1>1, <2>3 DEF Current, Eligible
    <3>3. ~(job[t].op = "create" /\ o = job[t].order)
      BY <1>5, <3>2, Writer
    <3> QED BY <1>5, <3>1, <3>3, WritesWhatIsLocked
  <2>4. Current(u)'
    BY <1>1, <1>2, <2>2, <2>3 DEF Current, OrderLocked, Eligible
  <2>5. Ready(u)'
    BY <1>1, <1>2, <2>3 DEF Ready, OrderLocked
  <2> QED BY <1>3, <2>4, <2>5 DEF TxnInv
<1> QED BY <1>4, <1>5, StepCases

-----------------------------------------------------------------------------
(* The transaction that takes the step.                                    *)
LEMMA Ending ==
  ASSUME TypeOK, NEW t \in Txns, Purpose(t), NEW how \in Ended, End(t, how)
  PROVE  TxnInv(t)'
<1>1. pc'[t] = how /\ held'[t] = {} /\ job' = job /\ ~OrderLocked(t)'
  BY EndEffect DEF OrderLocked, Ended
<1> QED BY <1>1 DEF TxnInv, Purpose, Current, Ready, Ended

LEMMA MoverKeepsTxnInv ==
  ASSUME IInv, NEW t \in Txns, Step(t)
  PROVE  TxnInv(t)'
<1>1. TypeOK /\ Purpose(t) /\ Current(t) /\ Ready(t) /\ job[t] \in Job /\ session[t] \in Session
  BY DEF IInv, TxnInv, TypeOK
<1>2. ASSUME NEW how \in Ended, End(t, how)  PROVE TxnInv(t)'
  BY <1>1, <1>2, Ending
<1>3. CASE Begin(t)
  <2>1. PICK op \in Operations : \E j \in JobsOf(op) : job' = [job EXCEPT ![t] = j]
    BY <1>3 DEF Begin
  <2>2. PICK j \in JobsOf(op) : job' = [job EXCEPT ![t] = j]
    BY <2>1
  <2>3. j.op = op /\ j.order \in Orders /\ (op = "reschedule" => j.slot \in Slots)
    BY <2>2, JobType, OperationsAssumption
  <2>4. job'[t] = j /\ pc'[t] = (IF op = "create" THEN "products" ELSE "order")
    BY <1>1, <1>3, <2>2, <2>3 DEF Begin, Goto, TypeOK
  <2>5. held'[t] = {}
    BY <1>1, <1>3 DEF Begin, Purpose
  <2> QED BY <2>3, <2>4, <2>5 DEF TxnInv, Purpose, Current, Ready, OrderLocked, Ended
<1>4. CASE LockOrder(t)
  <2>1. CASE ~End(t, "rejected")
    <3> DEFINE o == job[t].order
    <3>1. /\ Eligible(job[t].op, order[o]) /\ pc[t] = "order" /\ UNCHANGED <<order, job>>
          /\ session' = [session EXCEPT ![t].order = order[o]]
          /\ held' = [held EXCEPT ![t] = @ \cup {<<"order", o>>}]
          /\ pc' = [pc EXCEPT ![t] = CASE job[t].op = "cancel"     -> "load"
                                       [] job[t].op = "reschedule" -> "slots"
                                       [] OTHER                    -> "sum"]
      BY <1>4, <2>1 DEF LockOrder, Lock, Goto, data
    <3>2. /\ session'[t].order = order[o] /\ held'[t] = {<<"order", o>>} /\ job'[t] = job[t]
          /\ pc'[t] = CASE job[t].op = "cancel"     -> "load"
                        [] job[t].op = "reschedule" -> "slots"
                        [] OTHER                    -> "sum"
      BY <1>1, <3>1 DEF TypeOK, Purpose, Session
    <3>3. job[t].op \in {"cancel", "reschedule", "refund", "return"}
      BY <3>1 DEF Eligible
    <3>4. o \in Orders
      BY <1>1, <3>1 DEF Purpose
    <3>5. Purpose(t)'
      BY <1>1, <3>2, <3>3, <3>4 DEF Purpose, Ended
    <3>6. Current(t)'
      BY <3>1, <3>2, <3>3 DEF Current, Eligible
    <3>7. Ready(t)'
      BY <3>2, <3>3 DEF Ready
    <3> QED BY <3>5, <3>6, <3>7 DEF TxnInv
  <2> QED BY <1>2, <2>1 DEF Ended
<1>5. CASE LoadProducts(t)
  <2>1. /\ session'[t].order = session[t].order /\ session'[t].slots = session[t].slots
        /\ pc[t] = "load" /\ pc'[t] = "products" /\ UNCHANGED <<order, reserved, held, job>>
    BY <1>1, <1>5 DEF LoadProducts, Goto, TypeOK, data, Session
  <2> QED BY <1>1, <2>1 DEF TxnInv, Purpose, Current, Ready, OrderLocked, Eligible, Ended
<1>6. CASE LockProduct(t)
  <2>1. PICK p \in WantedProducts(t) :
           /\ held' = [held EXCEPT ![t] = @ \cup {<<"product", p>>}]
           /\ session' = IF job[t].op = "create"
                         THEN [session EXCEPT ![t].stock[p] = stock[p]] ELSE session
    BY <1>6 DEF LockProduct, Lock
  <2>2. p \in Products
    BY <1>1, <2>1 DEF WantedProducts, Unlocked, Job, Session, Order
  <2>3. /\ held'[t] = held[t] \cup {<<"product", p>>} /\ pc[t] = "products"
        /\ UNCHANGED <<order, stock, reserved, pc, job>>
    BY <1>1, <1>6, <2>1 DEF LockProduct, TypeOK, data
  <2>4. /\ session'[t].order = session[t].order /\ session'[t].slots = session[t].slots
        /\ job[t].op = "create" => session'[t].stock = [session[t].stock EXCEPT ![p] = stock[p]]
    BY <1>1, <2>1 DEF TypeOK, Session
  <2>5. job[t].op = "create" => \A q \in Products :
           session'[t].stock[q] = IF q = p THEN stock[p] ELSE session[t].stock[q]
    BY <1>1, <2>2, <2>4 DEF Session
  <2>6. Purpose(t)'
    BY <1>1, <2>3 DEF Purpose, Ended
  <2>7. Current(t)'
    BY <1>1, <2>3, <2>4, <2>5 DEF Current, OrderLocked, Eligible
  <2> QED BY <2>3, <2>6, <2>7 DEF TxnInv, Ready
<1>7. CASE ProductsLocked(t)
  <2>1. CASE \E label \in {"slots", "write"} : Goto(t, label) /\ UNCHANGED <<job, held, session>>
    <3>1. /\ pc[t] = "products" /\ WantedProducts(t) = {} /\ UNCHANGED <<data, job, held, session>>
          /\ \/ /\ job[t].op = "create" /\ Goto(t, "write")
                /\ \A p \in job[t].items : session[t].stock[p] >= 1
             \/ job[t].op = "cancel" /\ Goto(t, "slots")
             \/ End(t, "rejected")
      BY <1>7, <2>1 DEF ProductsLocked
    <3>2. CASE job[t].op = "create" /\ pc'[t] = "write"
               /\ \A p \in job[t].items : session[t].stock[p] >= 1
      <4>1. \A p \in job[t].items : <<"product", p>> \in held[t]
        BY <3>1, <3>2 DEF WantedProducts, Unlocked
      <4> QED BY <1>1, <3>1, <3>2, <4>1
              DEF TxnInv, Purpose, Current, Ready, OrderLocked, Eligible, Ended, data
    <3>3. CASE job[t].op = "cancel" /\ pc'[t] = "slots"
      <4>1. \A p \in session[t].order.items : <<"product", p>> \in held[t]
        BY <3>1, <3>3 DEF WantedProducts, Unlocked
      <4> QED BY <1>1, <3>1, <3>3, <4>1
              DEF TxnInv, Purpose, Current, Ready, OrderLocked, Eligible, Ended, data
    <3> QED BY <1>1, <1>2, <3>1, <3>2, <3>3, GotoEffect DEF Ended
  <2> QED BY <1>2, <1>7, <2>1 DEF ProductsLocked, Ended
<1>8. CASE LockSlot(t)
  <2>1. PICK s \in WantedSlots(t) :
           /\ held' = [held EXCEPT ![t] = @ \cup {<<"slot", s>>}]
           /\ session' = [session EXCEPT ![t].slots[s] = reserved[s]]
    BY <1>8 DEF LockSlot, Lock
  <2>2. s \in Slots
    BY <1>1, <2>1 DEF WantedSlots, Unlocked, Job, Session, Order
  <2>3. /\ held'[t] = held[t] \cup {<<"slot", s>>} /\ pc[t] = "slots"
        /\ UNCHANGED <<order, stock, reserved, pc, job>>
    BY <1>1, <1>8, <2>1 DEF LockSlot, TypeOK, data
  <2>4. /\ session'[t].order = session[t].order /\ session'[t].stock = session[t].stock
        /\ session'[t].slots = [session[t].slots EXCEPT ![s] = reserved[s]]
    BY <1>1, <2>1 DEF TypeOK, Session
  <2>5. \A r \in Slots : session'[t].slots[r] = IF r = s THEN reserved[s] ELSE session[t].slots[r]
    BY <1>1, <2>2, <2>4 DEF Session
  <2>6. Purpose(t)'
    BY <1>1, <2>3 DEF Purpose, Ended
  <2>7. Current(t)'
    BY <1>1, <2>3, <2>4, <2>5 DEF Current, OrderLocked, Eligible
  <2>8. Ready(t)'
    BY <1>1, <2>3, <2>4 DEF Ready
  <2> QED BY <2>6, <2>7, <2>8 DEF TxnInv
<1>9. CASE SlotsLocked(t)
  <2>1. CASE \A how \in Ended : ~End(t, how)
    <3>1. /\ pc[t] = "slots" /\ WantedSlots(t) = {} /\ UNCHANGED <<data, job, held, session>>
          /\ Goto(t, "write")
          /\ \/ job[t].op = "cancel"
             \/ /\ job[t].op = "reschedule" /\ session[t].order.slot # job[t].slot
                /\ session[t].slots[job[t].slot] < Capacity
      BY <1>9, <2>1 DEF SlotsLocked, Ended
    <3>2. pc'[t] = "write"
      BY <1>1, <3>1, GotoEffect
    <3>3. /\ session[t].order.slot # NoSlot => <<"slot", session[t].order.slot>> \in held[t]
          /\ job[t].slot # NoSlot => <<"slot", job[t].slot>> \in held[t]
      BY <3>1 DEF WantedSlots, Unlocked
    <3>4. job[t].op = "reschedule" => job[t].slot \in Slots
      BY <1>1, <3>1 DEF Purpose
    <3>5. Purpose(t)' /\ Current(t)'
      BY <1>1, <3>1, <3>2 DEF Purpose, Current, OrderLocked, Eligible, Ended, data
    <3>6. Ready(t)'
      BY <1>1, <3>1, <3>2, <3>3, <3>4, IdsAssumption DEF Ready, data
    <3> QED BY <3>5, <3>6 DEF TxnInv
  <2> QED BY <1>2, <2>1
<1>10. CASE Sum(t)
  <2>1. CASE ~End(t, "rejected")
    <3>1. /\ pc[t] = "sum" /\ UNCHANGED <<data, job, held, session>> /\ Goto(t, "write")
          /\ job[t].op = "refund" => refunded[job[t].order] + job[t].amount <= Total
          /\ job[t].op # "refund" => returned[job[t].order] + job[t].amount <= Bought
      BY <1>10, <2>1 DEF Sum
    <3>2. pc'[t] = "write"
      BY <1>1, <3>1, GotoEffect
    <3> QED BY <1>1, <3>1, <3>2
            DEF TxnInv, Purpose, Current, Ready, OrderLocked, Eligible, Ended, data
  <2> QED BY <1>2, <2>1 DEF Ended
<1>11. CASE Writes(t) \/ Abort(t)
  <2>1. \E how \in Ended : End(t, how)
    BY <1>11 DEF Writes, CreateOrder, CancelOrder, RescheduleShipment, CreateRefund,
                 CreateReturn, Abort, Ended
  <2> QED BY <1>2, <2>1
<1> QED BY <1>3, <1>4, <1>5, <1>6, <1>7, <1>8, <1>9, <1>10, <1>11 DEF Step, Proceed, Writes

-----------------------------------------------------------------------------
(* What a write does to the one order it is about.                         *)
LEMMA OrderChange ==
  ASSUME IInv, NEW t \in Txns, Step(t), NEW o \in Orders, order'[o] # order[o]
  PROVE  /\ o = job[t].order /\ pc[t] = "write" /\ pc'[t] = "accepted"
         /\ \/ CreateOrder(t) /\ order[o].stage = "absent"
                /\ order'[o] = [stage |-> "confirmed", items |-> job[t].items, slot |-> NoSlot]
            \/ CancelOrder(t) /\ Eligible("cancel", order[o])
                /\ order'[o] = [order[o] EXCEPT !.stage = "cancelled"]
            \/ RescheduleShipment(t) /\ Eligible("reschedule", order[o])
                /\ order'[o] = [order[o] EXCEPT !.slot = job[t].slot]
<1>1. TypeOK
  BY DEF IInv
<1>2. Writes(t) /\ pc[t] = "write"
  BY StepCases DEF data
<1>3. CASE CreateOrder(t)
  <2>1. o = job[t].order
    BY <1>1, <1>3 DEF CreateOrder, TypeOK
  <2>2. order'[o] = [stage |-> "confirmed", items |-> job[t].items, slot |-> NoSlot]
    BY <1>1, <1>3, <2>1 DEF CreateOrder, TypeOK
  <2>3. order[o].stage = "absent"
    BY <1>2, <1>3, <2>1, Writer DEF CreateOrder
  <2>4. pc'[t] = "accepted"
    BY <1>1, <1>3, EndEffect DEF CreateOrder
  <2> QED BY <1>2, <1>3, <2>1, <2>2, <2>3, <2>4
<1>4. CASE CancelOrder(t)
  <2>1. o = job[t].order
    BY <1>1, <1>4 DEF CancelOrder, TypeOK
  <2>2. order'[o] = [order[o] EXCEPT !.stage = "cancelled"]
    BY <1>1, <1>4, <2>1 DEF CancelOrder, TypeOK
  <2>3. Eligible("cancel", order[o])
    BY <1>2, <1>4, <2>1, Writer DEF CancelOrder
  <2>4. pc'[t] = "accepted"
    BY <1>1, <1>4, EndEffect DEF CancelOrder
  <2> QED BY <1>2, <1>4, <2>1, <2>2, <2>3, <2>4
<1>5. CASE RescheduleShipment(t)
  <2>1. order' = [order EXCEPT ![job[t].order].slot = job[t].slot] /\ End(t, "accepted")
    BY <1>5 DEF RescheduleShipment
  <2>2. o = job[t].order
    BY <1>1, <2>1 DEF TypeOK
  <2>3. order'[o] = [order[o] EXCEPT !.slot = job[t].slot]
    BY <1>1, <2>1, <2>2 DEF TypeOK
  <2>4. Eligible("reschedule", order[o])
    BY <1>2, <1>5, <2>2, Writer DEF RescheduleShipment
  <2>5. pc'[t] = "accepted"
    BY <1>1, <2>1, EndEffect
  <2> QED BY <1>2, <1>5, <2>2, <2>3, <2>4, <2>5
<1>6. CASE CreateRefund(t) \/ CreateReturn(t)
  BY <1>6 DEF CreateRefund, CreateReturn
<1> QED BY <1>2, <1>3, <1>4, <1>5, <1>6 DEF Writes

(* Hence a stage only becomes "confirmed" from "absent", and "cancelled"   *)
(* from "pending" or "confirmed".                                          *)
LEMMA StageChange ==
  ASSUME IInv, NEW t \in Txns, Step(t), NEW o \in Orders
  PROVE  \/ order'[o].stage = order[o].stage
         \/ /\ order[o].stage = "absent" /\ order'[o].stage = "confirmed"
            /\ job[t].op = "create" /\ pc[t] = "write" /\ o = job[t].order
         \/ /\ order[o].stage \in {"pending", "confirmed"} /\ order'[o].stage = "cancelled"
            /\ job[t].op = "cancel" /\ pc[t] = "write" /\ o = job[t].order
<1>1. order[o] \in Order
  BY DEF IInv, TypeOK
<1>2. CASE order'[o] = order[o]
  BY <1>2
<1>3. CASE order'[o] # order[o]
  <2>1. o = job[t].order /\ pc[t] = "write"
    BY <1>3, OrderChange
  <2>2. CASE CreateOrder(t) /\ order[o].stage = "absent"
             /\ order'[o] = [stage |-> "confirmed", items |-> job[t].items, slot |-> NoSlot]
    BY <2>1, <2>2 DEF CreateOrder
  <2>3. CASE CancelOrder(t) /\ Eligible("cancel", order[o])
             /\ order'[o] = [order[o] EXCEPT !.stage = "cancelled"]
    <3>1. job[t].op = "cancel" /\ order[o].stage \in {"pending", "confirmed"}
      BY <2>3 DEF CancelOrder, Eligible
    <3>2. order'[o].stage = "cancelled"
      BY <1>1, <2>3 DEF Order
    <3> QED BY <2>1, <3>1, <3>2
  <2>4. CASE order'[o] = [order[o] EXCEPT !.slot = job[t].slot]
    BY <1>1, <2>4 DEF Order
  <2> QED BY <1>3, <2>2, <2>3, <2>4, OrderChange
<1> QED BY <1>2, <1>3

(* A transaction is creating an order only if it has just chosen a fresh   *)
(* one, or was creating that order before.                                 *)
LEMMA CreatingStep ==
  ASSUME IInv, NEW t \in Txns, Step(t), Creating(t)'
  PROVE  \/ Begin(t) /\ job'[t].order \in Orders /\ IsFresh(job'[t].order)
         \/ Creating(t) /\ pc[t] = "products" /\ job'[t] = job[t]
<1>1. TypeOK /\ Purpose(t)
  BY DEF IInv, TxnInv
<1>2. CASE Begin(t)
  <2>1. PICK op \in Operations : \E j \in JobsOf(op) :
           /\ op = "create" => IsFresh(j.order)
           /\ job' = [job EXCEPT ![t] = j]
    BY <1>2 DEF Begin
  <2>2. PICK j \in JobsOf(op) : /\ op = "create" => IsFresh(j.order)
                               /\ job' = [job EXCEPT ![t] = j]
    BY <2>1
  <2>3. j.op = op /\ j.order \in Orders
    BY <2>2, JobType, OperationsAssumption
  <2>4. job'[t] = j
    BY <1>1, <2>2 DEF TypeOK
  <2> QED BY <1>2, <2>2, <2>3, <2>4 DEF Creating
<1>3. CASE ~Begin(t)
  <2>1. UNCHANGED job
    BY <1>3 DEF Step, Proceed, LockOrder, LoadProducts, LockProduct, ProductsLocked, LockSlot,
                SlotsLocked, Sum, CreateOrder, CancelOrder, RescheduleShipment, CreateRefund,
                CreateReturn, Abort, End
  <2>2. job[t].op = "create" /\ pc'[t] \in {"products", "write"}
    BY <2>1 DEF Creating
  <2>3. pc'[t] \notin Ended
    BY <2>2 DEF Ended
  <2>4. \A how \in Ended : ~End(t, how)
    BY <1>1, <2>3, EndEffect
  <2>5. LockProduct(t) \/ ProductsLocked(t)
    <3>1. ~LockOrder(t) /\ ~LoadProducts(t) /\ ~Sum(t)
      BY <1>1, <2>2 DEF LockOrder, LoadProducts, Sum, Purpose
    <3>2. ~LockSlot(t) /\ ~SlotsLocked(t)
      BY <1>1, <2>2 DEF LockSlot, SlotsLocked, Purpose
    <3>3. ~Writes(t) /\ ~Abort(t)
      BY <2>4 DEF Writes, CreateOrder, CancelOrder, RescheduleShipment, CreateRefund,
                  CreateReturn, Abort, Ended
    <3> QED BY <1>3, <3>1, <3>2, <3>3 DEF Step, Proceed, Writes
  <2> QED BY <2>1, <2>2, <2>5 DEF LockProduct, ProductsLocked, Creating
<1> QED BY <1>2, <1>3

LEMMA KeepsFreshOrders ==
  ASSUME IInv, NEW t \in Txns, Step(t)
  PROVE  FreshOrders'
<1>1. TypeOK /\ FreshOrders
  BY DEF IInv
<1>2. ASSUME NEW o \in Orders, order'[o].stage = "absent"
      PROVE  order'[o].slot = NoSlot /\ order'[o].items = {}
  <2>1. order[o] \in Order
    BY <1>1 DEF TypeOK
  <2>2. order'[o] = order[o]
    <3> SUFFICES ASSUME order'[o] # order[o]  PROVE FALSE
      OBVIOUS
    <3>1. order[o].stage = "absent"
      BY <1>2, StageChange
    <3>2. ~Eligible("cancel", order[o]) /\ ~Eligible("reschedule", order[o])
      BY <3>1 DEF Eligible
    <3>3. order'[o] # [stage |-> "confirmed", items |-> job[t].items, slot |-> NoSlot]
      BY <1>2
    <3> QED BY <3>2, <3>3, OrderChange
  <2> QED BY <1>1, <1>2, <2>2 DEF FreshOrders
<1>3. ASSUME NEW u \in Txns, Creating(u)'
      PROVE  \/ u = t /\ Begin(t) /\ job'[u].order \in Orders /\ IsFresh(job'[u].order)
             \/ Creating(u) /\ job'[u] = job[u] /\ (u = t => pc[u] = "products")
  BY <1>1, <1>3, CreatingStep, OthersUntouched DEF Creating
<1>4. ASSUME NEW u \in Txns, Creating(u)'
      PROVE  order'[job'[u].order].stage = "absent"
  <2>1. CASE Begin(t) /\ u = t /\ job'[u].order \in Orders /\ IsFresh(job'[u].order)
    BY <2>1 DEF Begin, IsFresh, data
  <2>2. CASE Creating(u) /\ job'[u] = job[u] /\ (u = t => pc[u] = "products")
    <3> DEFINE o == job[u].order
    <3>1. o \in Orders /\ order[o].stage = "absent"
      BY <1>1, <2>2 DEF FreshOrders, Creating, IInv, TxnInv, Purpose
    <3>2. CASE order'[o].stage = order[o].stage
      BY <2>2, <3>1, <3>2
    <3>3. CASE order'[o].stage # order[o].stage
      <4>1. job[t].op = "create" /\ pc[t] = "write" /\ o = job[t].order
        BY <3>1, <3>3, StageChange
      <4> QED BY <1>1, <2>2, <4>1 DEF FreshOrders, Creating
    <3> QED BY <3>2, <3>3
  <2> QED BY <1>3, <1>4, <2>1, <2>2
<1>5. ASSUME NEW u \in Txns, NEW v \in Txns, Creating(u)', Creating(v)', u # v
      PROVE  job'[u].order # job'[v].order
  <2>1. ASSUME NEW w \in Txns, NEW x \in Txns, w # x, Creating(w)', Creating(x)', w # t
        PROVE  job'[w].order # job'[x].order
    <3>1. Creating(w) /\ job'[w] = job[w]
      BY <1>3, <2>1
    <3>2. CASE Creating(x) /\ job'[x] = job[x]
      BY <1>1, <2>1, <3>1, <3>2 DEF FreshOrders
    <3>3. CASE IsFresh(job'[x].order)
      BY <3>1, <3>3 DEF IsFresh
    <3> QED BY <1>3, <2>1, <3>2, <3>3
  <2> QED BY <1>5, <2>1
<1> QED BY <1>2, <1>4, <1>5 DEF FreshOrders

-----------------------------------------------------------------------------
(* Counting.                                                               *)
LEMMA OrderSets ==
  ASSUME NEW S \in SUBSET Orders
  PROVE  /\ IsFiniteSet(S) /\ Cardinality(S) \in Nat
         /\ \A o \in Orders \ S : Cardinality(S \cup {o}) = Cardinality(S) + 1
         /\ \A o \in S : Cardinality(S \ {o}) = Cardinality(S) - 1
<1>1. IsFiniteSet(S)
  BY OrdersAssumption, FS_Subset
<1> QED BY <1>1, FS_CardinalityType, FS_AddElement, FS_RemoveElement

LEMMA KeepsSlotsBalance ==
  ASSUME IInv, NEW t \in Txns, Step(t)
  PROVE  SlotsBalance'
<1>1. TypeOK /\ SlotsBalance /\ Ready(t)
  BY DEF IInv, TxnInv
<1> DEFINE o == job[t].order
           old == session[t].order.slot
           new == job[t].slot
<1>2. \A s \in Slots : Booked(s) \in SUBSET Orders /\ reserved[s] \in Nat
  BY <1>1 DEF Booked, TypeOK
<1>3. CASE order' = order /\ reserved' = reserved
  BY <1>1, <1>3 DEF SlotsBalance, Booked
<1>4. CASE CreateOrder(t)
  <2>1. pc[t] = "write"
    BY <1>4 DEF CreateOrder
  <2>2. \A x \in Orders : order'[x] = order[x] \/ (order[x].slot = NoSlot /\ order'[x].slot = NoSlot)
    <3> SUFFICES ASSUME NEW x \in Orders, order'[x] # order[x]
                 PROVE  order[x].slot = NoSlot /\ order'[x].slot = NoSlot
      OBVIOUS
    <3>1. x = job[t].order /\ order[x].stage = "absent"
      BY <1>1, <1>4, <2>1, Writer DEF CreateOrder, TypeOK
    <3>2. order'[x] = [stage |-> "confirmed", items |-> job[t].items, slot |-> NoSlot]
      BY <1>1, <1>4, <3>1 DEF CreateOrder, TypeOK
    <3> QED BY <3>1, <3>2 DEF IInv, FreshOrders
  <2>3. \A s \in Slots : Booked(s)' = Booked(s)
    BY <2>2, IdsAssumption DEF Booked
  <2> QED BY <1>1, <1>4, <2>3 DEF CreateOrder, SlotsBalance
<1>5. CASE CancelOrder(t)
  <2>1. /\ pc[t] = "write" /\ job[t].op = "cancel"
        /\ order' = [order EXCEPT ![o].stage = "cancelled"]
        /\ reserved' = [s \in Slots |-> IF s = old THEN session[t].slots[s] - 1 ELSE reserved[s]]
    BY <1>5 DEF CancelOrder
  <2>2. o \in Orders /\ session[t].order = order[o] /\ order[o].stage # "cancelled"
    BY <2>1, Writer DEF Eligible
  <2>3. \A x \in Orders : order'[x].slot = order[x].slot
    BY <1>1, <2>1 DEF TypeOK, Order
  <2>4. \A x \in Orders : order'[x].stage = IF x = o THEN "cancelled" ELSE order[x].stage
    BY <1>1, <2>1 DEF TypeOK, Order
  <2>5. ASSUME NEW s \in Slots
        PROVE  reserved'[s] = Cardinality(Booked(s)') /\ reserved'[s] <= Capacity
    <3>1. CASE s = old
      <4>1. session[t].slots[s] = reserved[s] /\ old # NoSlot
        BY <2>1, <2>5, <3>1, OldSlot, IdsAssumption
      <4>2. reserved'[s] = reserved[s] - 1
        BY <2>1, <3>1, <4>1
      <4>3. o \in Booked(s) /\ Booked(s)' = Booked(s) \ {o}
        BY <2>2, <2>3, <2>4, <3>1 DEF Booked
      <4>4. reserved[s] = Cardinality(Booked(s)) /\ reserved[s] <= Capacity
        BY <1>1 DEF SlotsBalance
      <4> QED BY <1>2, <4>2, <4>3, <4>4, OrderSets, AmountsAssumption
    <3>2. CASE s # old
      <4>1. Booked(s)' = Booked(s)
        BY <2>2, <2>3, <2>4, <3>2 DEF Booked
      <4> QED BY <1>1, <2>1, <3>2, <4>1 DEF SlotsBalance
    <3> QED BY <3>1, <3>2
  <2> QED BY <2>5 DEF SlotsBalance
<1>6. CASE RescheduleShipment(t)
  <2>1. pc[t] = "write" /\ job[t].op = "reschedule"
    BY <1>6 DEF RescheduleShipment
  <2>2. /\ o \in Orders /\ session[t].order = order[o]
        /\ order[o].stage \notin {"absent", "cancelled"}
    BY <2>1, Writer DEF Eligible
  <2>3. /\ new \in Slots /\ old # new
        /\ session[t].slots[new] = reserved[new] /\ reserved[new] < Capacity
    BY <1>1, <2>1, Writer DEF Ready
  <2>4. old # NoSlot => old \in Slots /\ session[t].slots[old] = reserved[old] /\ reserved[old] >= 1
    BY <2>1, OldSlot
  <2>5. old = NoSlot \/ session[t].slots[old] > 0
    BY <1>2, <2>4
  <2>6. /\ order' = [order EXCEPT ![o].slot = new]
        /\ reserved' = [s \in Slots |-> CASE s = new -> session[t].slots[s] + 1
                                         [] s = old -> session[t].slots[s] - 1
                                         [] OTHER   -> reserved[s]]
    BY <1>6, <2>5 DEF RescheduleShipment
  <2>7. \A x \in Orders : /\ order'[x].stage = order[x].stage
                          /\ order'[x].slot = IF x = o THEN new ELSE order[x].slot
    BY <1>1, <2>6 DEF TypeOK, Order
  <2>8. ASSUME NEW s \in Slots
        PROVE  reserved'[s] = Cardinality(Booked(s)') /\ reserved'[s] <= Capacity
    <3>1. reserved[s] = Cardinality(Booked(s)) /\ reserved[s] <= Capacity
      BY <1>1 DEF SlotsBalance
    <3>2. CASE s = new
      <4>1. reserved'[s] = reserved[s] + 1
        BY <2>3, <2>6, <3>2
      <4>2. o \notin Booked(s) /\ Booked(s)' = Booked(s) \cup {o}
        BY <2>2, <2>3, <2>7, <3>2 DEF Booked
      <4> QED BY <1>2, <2>2, <2>3, <3>1, <3>2, <4>1, <4>2, OrderSets, AmountsAssumption
    <3>3. CASE s = old
      <4>1. old # NoSlot
        BY <3>3, IdsAssumption
      <4>2. reserved'[s] = reserved[s] - 1
        BY <2>3, <2>4, <2>6, <3>3, <4>1
      <4>3. o \in Booked(s) /\ Booked(s)' = Booked(s) \ {o}
        BY <2>2, <2>3, <2>7, <3>3 DEF Booked
      <4> QED BY <1>2, <3>1, <4>2, <4>3, OrderSets, AmountsAssumption
    <3>4. CASE s # new /\ s # old
      <4>1. Booked(s)' = Booked(s)
        BY <2>2, <2>7, <3>4 DEF Booked
      <4>2. reserved'[s] = reserved[s]
        BY <2>6, <3>4
      <4> QED BY <3>1, <4>1, <4>2
    <3> QED BY <3>2, <3>3, <3>4
  <2> QED BY <2>8 DEF SlotsBalance
<1>7. CASE CreateRefund(t) \/ CreateReturn(t)
  BY <1>3, <1>7 DEF CreateRefund, CreateReturn
<1> QED BY <1>3, <1>4, <1>5, <1>6, <1>7, StepCases DEF Writes, data

-----------------------------------------------------------------------------
LEMMA KeepsWithinOrder ==
  ASSUME IInv, NEW t \in Txns, Step(t)
  PROVE  WithinOrder'
<1>1. TypeOK /\ WithinOrder /\ Ready(t)
  BY DEF IInv, TxnInv
<1> SUFFICES ASSUME NEW o \in Orders
             PROVE  /\ refunded'[o] <= Total /\ returned'[o] <= Bought
                    /\ refunded'[o] > 0 => Eligible("refund", order'[o])
                    /\ returned'[o] > 0 => Eligible("return", order'[o])
  BY DEF WithinOrder, Eligible
<1>2. /\ refunded[o] <= Total /\ returned[o] <= Bought
      /\ refunded[o] > 0 => order[o].stage \in {"delivered", "cancelled"}
      /\ returned[o] > 0 => order[o].stage = "delivered"
  BY <1>1 DEF WithinOrder, Eligible
<1>3. CASE CreateRefund(t)
  <2>1. /\ pc[t] = "write" /\ job[t].op = "refund" /\ order' = order /\ returned' = returned
        /\ refunded' = [refunded EXCEPT ![job[t].order] = @ + job[t].amount]
    BY <1>3 DEF CreateRefund
  <2>2. CASE o = job[t].order
    <3>1. refunded'[o] <= Total
      BY <1>1, <2>1, <2>2 DEF Ready, TypeOK
    <3>2. order[o].stage \in {"delivered", "cancelled"}
      BY <2>1, <2>2, Writer DEF Eligible
    <3> QED BY <1>2, <2>1, <3>1, <3>2 DEF Eligible
  <2>3. CASE o # job[t].order
    BY <1>1, <1>2, <2>1, <2>3 DEF TypeOK, Eligible
  <2> QED BY <2>2, <2>3
<1>4. CASE CreateReturn(t)
  <2>1. /\ pc[t] = "write" /\ job[t].op = "return" /\ order' = order /\ refunded' = refunded
        /\ returned' = [returned EXCEPT ![job[t].order] = @ + job[t].amount]
    BY <1>4 DEF CreateReturn
  <2>2. CASE o = job[t].order
    <3>1. returned'[o] <= Bought
      BY <1>1, <2>1, <2>2 DEF Ready, TypeOK
    <3>2. order[o].stage = "delivered"
      BY <2>1, <2>2, Writer DEF Eligible
    <3> QED BY <1>2, <2>1, <3>1, <3>2 DEF Eligible
  <2>3. CASE o # job[t].order
    BY <1>1, <1>2, <2>1, <2>3 DEF TypeOK, Eligible
  <2> QED BY <2>2, <2>3
<1>5. CASE ~CreateRefund(t) /\ ~CreateReturn(t)
  <2>1. refunded' = refunded /\ returned' = returned
    BY <1>5, StepCases DEF data, Writes, CreateOrder, CancelOrder, RescheduleShipment
  <2>2. \/ order'[o].stage = order[o].stage
        \/ order[o].stage \in {"absent", "pending", "confirmed"}
    BY StageChange
  <2> QED BY <1>2, <2>1, <2>2 DEF Eligible
<1> QED BY <1>3, <1>4, <1>5

LEMMA KeepsCancelled ==
  ASSUME IInv, NEW t \in Txns, Step(t)
  PROVE  CancelledStays' /\ CancelledOnce'
<1>1. TypeOK /\ CancelledStays /\ CancelledOnce /\ Purpose(t)
  BY DEF IInv, TxnInv
<1>2. \A o \in Orders : order[o].stage = "cancelled" => order'[o].stage = "cancelled"
  BY StageChange
(* Only the write of a cancellation makes it accepted.                     *)
<1>3. ASSUME job'[t].op = "cancel", pc'[t] = "accepted", pc[t] # "accepted"
      PROVE  CancelOrder(t) /\ job'[t] = job[t]
  <2>1. CASE Begin(t)
    BY <1>1, <1>3, <2>1 DEF Begin, Goto, TypeOK
  <2>2. CASE ~Begin(t)
    <3>1. UNCHANGED job
      BY <2>2 DEF Step, Proceed, LockOrder, LoadProducts, LockProduct, ProductsLocked, LockSlot,
                  SlotsLocked, Sum, CreateOrder, CancelOrder, RescheduleShipment, CreateRefund,
                  CreateReturn, Abort, End
    <3>2. job[t].op = "cancel"
      BY <1>3, <3>1
    <3>3. ASSUME NEW how \in {"rejected", "failed"}  PROVE ~End(t, how)
      BY <1>1, <1>3, EndEffect
    <3>4. ASSUME NEW label \in Labels \ Ended  PROVE ~Goto(t, label)
      BY <1>1, <1>3, GotoEffect DEF Ended
    <3>5. ~LockOrder(t) /\ ~LoadProducts(t) /\ ~ProductsLocked(t)
      BY <3>2, <3>3, <3>4 DEF LockOrder, LoadProducts, ProductsLocked, Labels, Ended
    <3>6. ~LockProduct(t) /\ ~LockSlot(t)
      BY <1>3 DEF LockProduct, LockSlot
    <3>7. ~SlotsLocked(t)
      BY <3>2, <3>3, <3>4 DEF SlotsLocked, Labels, Ended
    <3>8. ~Sum(t) /\ ~Abort(t)
      BY <1>1, <3>2, <3>3, <3>4 DEF Sum, Abort, Purpose
    <3>9. ~CreateOrder(t) /\ ~RescheduleShipment(t) /\ ~CreateRefund(t) /\ ~CreateReturn(t)
      BY <3>2 DEF CreateOrder, RescheduleShipment, CreateRefund, CreateReturn
    <3> QED BY <2>2, <3>1, <3>5, <3>6, <3>7, <3>8, <3>9 DEF Step, Proceed
  <2> QED BY <2>1, <2>2
<1>4. ASSUME pc[t] = "accepted"  PROVE FALSE
  <2>1. ~Writes(t)
    BY <1>4, StepCases DEF Writes, CreateOrder, CancelOrder, RescheduleShipment, CreateRefund,
                           CreateReturn
  <2> QED BY <1>4, <2>1 DEF Step, Proceed, Writes, Begin, LockOrder, LoadProducts, LockProduct,
                            ProductsLocked, LockSlot, SlotsLocked, Sum, Abort, Ended
<1> DEFINE Cancelled(u) == job[u].op = "cancel" /\ pc[u] = "accepted"
<1>5. ASSUME CancelOrder(t)
      PROVE  /\ job[t].order \in Orders /\ order[job[t].order].stage # "cancelled"
             /\ order'[job[t].order].stage = "cancelled"
  <2>1. job[t].order \in Orders /\ order[job[t].order].stage # "cancelled"
    BY <1>5, Writer DEF CancelOrder, Eligible
  <2> QED BY <1>1, <1>5, <2>1 DEF CancelOrder, TypeOK, Order
<1>6. ASSUME NEW u \in Txns, Cancelled(u)'
      PROVE  \/ u = t /\ CancelOrder(t) /\ job'[u] = job[u]
             \/ u # t /\ Cancelled(u) /\ job'[u] = job[u]
  BY <1>1, <1>3, <1>4, <1>6, OthersUntouched
<1>7. CancelledStays'
  BY <1>1, <1>2, <1>5, <1>6 DEF CancelledStays
<1>8. CancelledOnce'
  BY <1>1, <1>5, <1>6 DEF CancelledStays, CancelledOnce
<1> QED BY <1>7, <1>8

-----------------------------------------------------------------------------
LEMMA InitIInv == Init => IInv
<1> SUFFICES ASSUME Init  PROVE IInv
  OBVIOUS
<1>1. JobOf("none", NoOrder, {}, NoSlot, 0) \in Job
  BY DEF JobOf, Job
<1>2. TypeOK
  BY <1>1, BlankType, AmountsAssumption DEF Init, TypeOK, Labels
<1>3. Exclusive
  BY DEF Init, Exclusive
<1>4. \A t \in Txns : TxnInv(t)
  BY DEF Init, TxnInv, Purpose, Current, Ready, OrderLocked, JobOf, Ended
<1>5. FreshOrders
  BY DEF Init, FreshOrders, Creating
<1>6. SlotsBalance
  BY AmountsAssumption DEF Init, SlotsBalance
<1>7. WithinOrder
  BY AmountsAssumption DEF Init, WithinOrder
<1>8. CancelledStays /\ CancelledOnce
  BY DEF Init, CancelledStays, CancelledOnce
<1> QED BY <1>2, <1>3, <1>4, <1>5, <1>6, <1>7, <1>8 DEF IInv

LEMMA NextIInv == IInv /\ [Next]_vars => IInv'
<1> SUFFICES ASSUME IInv, [Next]_vars  PROVE IInv'
  OBVIOUS
<1>1. CASE UNCHANGED vars
  <2> USE <1>1 DEF vars, data, IInv
  <2>1. TypeOK' /\ Exclusive'
    BY DEF TypeOK, Exclusive
  <2>2. ASSUME NEW t \in Txns  PROVE TxnInv(t)'
    <3>1. Purpose(t)' /\ Current(t)' /\ Ready(t)'
      BY DEF TxnInv, Purpose, Current, Ready, OrderLocked, Eligible
    <3> QED BY <3>1 DEF TxnInv
  <2>3. FreshOrders' /\ SlotsBalance'
    BY DEF FreshOrders, Creating, SlotsBalance, Booked
  <2>4. WithinOrder' /\ CancelledStays' /\ CancelledOnce'
    BY DEF WithinOrder, Eligible, CancelledStays, CancelledOnce
  <2> QED BY <2>1, <2>2, <2>3, <2>4
<1>2. ASSUME NEW t \in Txns, Step(t)  PROVE IInv'
  <2>1. TypeOK'
    BY <1>2, StepCases, ReadTypes, WriteTypes
  <2>2. \A u \in Txns : TxnInv(u)'
    BY <1>2, MoverKeepsTxnInv, OthersKeepTxnInv
  <2>3. Exclusive' /\ FreshOrders' /\ SlotsBalance'
    BY <1>2, KeepsExclusive, KeepsFreshOrders, KeepsSlotsBalance
  <2>4. WithinOrder' /\ CancelledStays' /\ CancelledOnce'
    BY <1>2, KeepsWithinOrder, KeepsCancelled
  <2> QED BY <2>1, <2>2, <2>3, <2>4 DEF IInv
<1> QED BY <1>1, <1>2 DEF Next, Step

(* In every reachable state the inductive invariant holds.                 *)
THEOREM Invariance == Spec => []IInv
  BY InitIInv, NextIInv, PTL DEF Spec

(* Every variable stays in its type.                                       *)
THEOREM TypeCorrect == Spec => []TypeOK
<1>1. IInv => TypeOK
  BY DEF IInv
<1> QED BY Invariance, <1>1, PTL

(* Slot counters match the shipments booked and stay within capacity, for  *)
(* any number of cancellations and reschedulings at once.                  *)
THEOREM SlotsStayBalanced == Spec => []SlotsBalance
<1>1. IInv => SlotsBalance
  BY DEF IInv
<1> QED BY Invariance, <1>1, PTL

(* Refunds and returns stay within what the order was paid and bought.     *)
THEOREM NothingOverpaid == Spec => []WithinOrder
<1>1. IInv => WithinOrder
  BY DEF IInv
<1> QED BY Invariance, <1>1, PTL

(* No order is cancelled by two transactions.                              *)
THEOREM OneCancellation == Spec => []CancelledOnce
<1>1. IInv => CancelledOnce
  BY DEF IInv
<1> QED BY Invariance, <1>1, PTL

(* A rejected write has changed nothing: the rejection a rescheduling      *)
(* gives after it has counted up its target slot is never reached, because *)
(* an old reservation is always counted.                                   *)
THEOREM RejectionsLeaveNoTrace == Spec => RejectionChangesNothing
<1>1. ASSUME IInv, [Next]_vars, NEW t \in Txns, pc[t] # "rejected", pc'[t] = "rejected"
      PROVE  UNCHANGED data
  <2>1. TypeOK
    BY <1>1 DEF IInv
  <2>2. PICK u \in Txns : Step(u)
    BY <1>1 DEF Next, Step, vars
  <2>3. u = t
    BY <1>1, <2>1, <2>2, OthersUntouched
  <2>4. CASE Writes(t) /\ pc[t] = "write"
    <3>1. ~End(t, "accepted")
      BY <1>1, <2>1, EndEffect
    <3>2. RescheduleShipment(t)
      BY <2>4, <3>1 DEF Writes, CreateOrder, CancelOrder, CreateRefund, CreateReturn
    <3>3. session[t].order.slot = NoSlot \/ session[t].slots[session[t].order.slot] > 0
      <4>1. CASE session[t].order.slot # NoSlot
        <5>1. job[t].op = "reschedule"
          BY <3>2 DEF RescheduleShipment
        <5>2. /\ session[t].order.slot \in Slots
              /\ session[t].slots[session[t].order.slot] >= 1
          BY <1>1, <2>4, <4>1, <5>1, OldSlot
        <5>3. session[t].slots[session[t].order.slot] \in Nat
          BY <2>1, <5>2 DEF TypeOK, Session
        <5> QED BY <5>2, <5>3
      <4> QED BY <4>1
    <3> QED BY <3>1, <3>2, <3>3 DEF RescheduleShipment
  <2> QED BY <1>1, <2>2, <2>3, <2>4, StepCases
<1>2. IInv /\ [Next]_vars =>
        [\A t \in Txns : pc[t] # "rejected" /\ pc'[t] = "rejected" => UNCHANGED data]_vars
  BY <1>1
<1> QED BY Invariance, <1>2, PTL DEF Spec, RejectionChangesNothing

(* What a cancellation is about stays what it is about.                    *)
LEMMA CancelTarget ==
  ASSUME IInv, NEW u \in Txns, job[u].op = "cancel"
  PROVE  job[u].order \in Orders
  BY DEF IInv, TxnInv, Purpose

LEMMA CancellingStays ==
  ASSUME IInv, NEW t \in Txns, Step(t), NEW p \in Products, Cancelling(p)
  PROVE  Cancelling(p)'
<1>1. TypeOK /\ FreshOrders /\ Purpose(t)
  BY DEF IInv, TxnInv
<1>2. PICK u \in Txns : job[u].op = "cancel" /\ p \in order[job[u].order].items
  BY DEF Cancelling
<1> DEFINE o == job[u].order
<1>3. job'[u] = job[u]
  <2>1. CASE u = t
    <3>1. ~Begin(t)
      BY <1>1, <1>2, <2>1 DEF Begin, Purpose
    <3> QED BY <2>1, <3>1 DEF Step, Proceed, LockOrder, LoadProducts, LockProduct, ProductsLocked,
                LockSlot, SlotsLocked, Sum, CreateOrder, CancelOrder, RescheduleShipment,
                CreateRefund, CreateReturn, Abort, End
  <2>2. CASE u # t
    BY <1>1, <2>2, OthersUntouched
  <2> QED BY <2>1, <2>2
<1>4. CASE order'[o] = order[o]
  BY <1>2, <1>3, <1>4 DEF Cancelling
<1>5. CASE order'[o] # order[o]
  <2>1. o \in Orders /\ order[o] \in Order
    BY <1>1, <1>2, CancelTarget DEF TypeOK
  <2>2. order[o].stage # "absent"
    BY <1>1, <1>2, <2>1 DEF FreshOrders
  <2>3. \/ order'[o] = [order[o] EXCEPT !.stage = "cancelled"]
        \/ order'[o] = [order[o] EXCEPT !.slot = job[t].slot]
    BY <1>5, <2>1, <2>2, OrderChange
  <2>4. order'[o].items = order[o].items
    BY <2>1, <2>3 DEF Order
  <2> QED BY <1>2, <1>3, <2>4 DEF Cancelling
<1> QED BY <1>4, <1>5

(* A product of which no order is being, or has been, cancelled is never   *)
(* oversold, however many orders are placed at once.                       *)
THEOREM NeverOversold == Spec => []NothingOversold
<1>1. Init => NothingOversold
  BY DEF Init, NothingOversold
<1>2. ASSUME IInv, NothingOversold, [Next]_vars  PROVE NothingOversold'
  <2>1. TypeOK /\ FreshOrders
    BY <1>2 DEF IInv
  <2>2. CASE UNCHANGED vars
    BY <1>2, <2>2 DEF vars, data, NothingOversold, Sold, Cancelling
  <2>3. ASSUME NEW t \in Txns, Step(t)  PROVE NothingOversold'
    <3> SUFFICES ASSUME NEW p \in Products, ~Cancelling(p)'
                 PROVE  stock'[p] + Cardinality(Sold(p)') = Supply
      BY DEF NothingOversold
    <3>1. ~Cancelling(p)
      BY <1>2, <2>3, CancellingStays
    <3>2. stock[p] + Cardinality(Sold(p)) = Supply /\ stock[p] \in Nat
      BY <1>2, <2>1, <3>1 DEF NothingOversold, TypeOK
    <3>3. Sold(p) \in SUBSET Orders
      BY DEF Sold
    <3>4. ASSUME stock'[p] = stock[p],
                 \A x \in Orders : order'[x] = order[x] \/
                     (order'[x].stage = order[x].stage /\ order'[x].items = order[x].items) \/
                     (p \notin order[x].items /\ order'[x].items = order[x].items)
          PROVE  stock'[p] + Cardinality(Sold(p)') = Supply
      <4>1. Sold(p)' = Sold(p)
        BY <3>4 DEF Sold
      <4> QED BY <3>2, <3>4, <4>1
    <3>5. CASE UNCHANGED data
      BY <3>4, <3>5 DEF data
    <3>6. CASE CreateOrder(t)
      <4> DEFINE o == job[t].order
                 items == job[t].items
      <4>1. /\ pc[t] = "write" /\ job[t].op = "create"
            /\ order' = [order EXCEPT ![o] =
                  [stage |-> "confirmed", items |-> items, slot |-> NoSlot]]
            /\ stock' = [q \in Products |->
                  IF q \in items THEN session[t].stock[q] - 1 ELSE stock[q]]
        BY <3>6 DEF CreateOrder
      <4>2. /\ o \in Orders /\ order[o].stage = "absent"
            /\ \A q \in items : session[t].stock[q] = stock[q]
        BY <1>2, <4>1, Writer
      <4>3. \A x \in Orders : order'[x] =
              IF x = o THEN [stage |-> "confirmed", items |-> items, slot |-> NoSlot] ELSE order[x]
        BY <2>1, <4>1 DEF TypeOK
      <4>4. CASE p \in items
        <5>1. o \notin Sold(p) /\ Sold(p)' = Sold(p) \cup {o}
          BY <4>2, <4>3, <4>4 DEF Sold
        <5>2. stock'[p] = stock[p] - 1
          BY <4>1, <4>2, <4>4
        <5> QED BY <3>2, <3>3, <4>2, <5>1, <5>2, OrderSets, AmountsAssumption
      <4>5. CASE p \notin items
        <5>1. Sold(p)' = Sold(p)
          BY <4>2, <4>3, <4>5 DEF Sold
        <5>2. stock'[p] = stock[p]
          BY <4>1, <4>5
        <5> QED BY <3>2, <5>1, <5>2
      <4> QED BY <4>4, <4>5
    <3>7. CASE CancelOrder(t)
      <4> DEFINE o == job[t].order
      <4>1. /\ pc[t] = "write" /\ job[t].op = "cancel"
            /\ order' = [order EXCEPT ![o].stage = "cancelled"]
            /\ stock' = [q \in Products |-> IF q \in session[t].order.items
                                            THEN session[t].stock[q] + 1 ELSE stock[q]]
        BY <3>7 DEF CancelOrder
      <4>2. o \in Orders /\ session[t].order = order[o]
        BY <1>2, <4>1, Writer
      <4>3. p \notin order[o].items
        BY <3>1, <4>1 DEF Cancelling
      <4>4. \A x \in Orders : /\ order'[x].items = order[x].items
                              /\ x # o => order'[x] = order[x]
        BY <2>1, <4>1 DEF TypeOK, Order
      <4>5. stock'[p] = stock[p]
        BY <4>1, <4>2, <4>3
      <4> QED BY <3>4, <4>3, <4>4, <4>5
    <3>8. CASE RescheduleShipment(t)
      <4>1. stock' = stock /\ (UNCHANGED order \/
                               order' = [order EXCEPT ![job[t].order].slot = job[t].slot])
        BY <3>8 DEF RescheduleShipment
      <4>2. \A x \in Orders : order'[x].stage = order[x].stage /\ order'[x].items = order[x].items
        BY <2>1, <4>1 DEF TypeOK, Order
      <4> QED BY <3>4, <4>1, <4>2
    <3>9. CASE CreateRefund(t) \/ CreateReturn(t)
      BY <3>4, <3>9 DEF CreateRefund, CreateReturn
    <3> QED BY <2>3, <3>5, <3>6, <3>7, <3>8, <3>9, StepCases DEF Writes
  <2> QED BY <1>2, <2>2, <2>3 DEF Next, Step
<1> QED BY <1>1, <1>2, Invariance, PTL DEF Spec
=============================================================================
