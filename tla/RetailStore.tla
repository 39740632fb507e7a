------------------------------ MODULE RetailStore -----------------------------
(***************************************************************************)
(* The retail database of tau-bench and the seven tools that write to it   *)
(* (tau_bench/envs/retail/tools).  A call either passes every check of its *)
(* tool and writes, which is an action below, or returns an "Error: ..."   *)
(* string and leaves the database alone, which is a stuttering step.       *)
(* Money is in whole cents.  Operators marked "Mutant" are not part of the *)
(* model: each is a bug the property named in PROJECT.json must catch.     *)
(***************************************************************************)
EXTENDS Integers, Sequences, FiniteSets, FiniteSetsExt, SequencesExt

CONSTANTS
    Orders, Users, Items, Products, Methods, Addresses,
    GiftCards,     \* the payment methods whose source is "gift_card"
    Owner,         \* [Orders -> Users]: order["user_id"]
    MethodsOf,     \* [Users -> SUBSET Methods]: user["payment_methods"]
    Product,       \* [Items -> Products]: the product an item is a variant of
    Price,         \* [Items -> Nat]: the catalogue price
    Available,     \* the items that are in stock
    MaxItems,      \* bound on the length of the item lists of a call
    InitOrders,    \* the orders of data/orders.json
    InitBalance,   \* the gift card balances of data/users.json
    InitHome       \* the addresses of data/users.json

\* data["orders"], one variable per field of an order, and data["users"].
VARIABLES
    status,        \* order["status"]
    items,         \* order["items"]: the item ids, prices being the catalogue's
    history,       \* order["payment_history"]
    address,       \* order["address"]
    request,       \* the return_* and exchange_* fields
    balance,       \* the "balance" of every gift card
    home           \* user["address"]

vars == <<status, items, history, address, request, balance, home>>

-------------------------------------------------------------------------------
(* Data.                                                                   *)

NoMethod == "none"

ItemLists == UNION {[1..n -> Items] : n \in 0..MaxItems}

Statuses == {"pending", "pending (item modified)", "processed", "delivered",
             "cancelled", "return requested", "exchange requested"}

\* One entry of order["payment_history"].
Entry == [type : {"payment", "refund"}, amount : Nat, method : Methods]

\* The fields a return or an exchange request adds to an order.  The code sorts
\* the item lists it stores: what is left of a list is how often it names an item.
Counts == [Items -> Nat]
Request == [kind : {"none", "return", "exchange"}, items : Counts,
            newItems : Counts, method : Methods \cup {NoMethod}, diff : Int]

Count(x, list) == Cardinality({k \in DOMAIN list : list[k] = x})
CountsOf(list) == [x \in Items |-> Count(x, list)]

ListPrice(list) == SumFunction([k \in DOMAIN list |-> Price[list[k]]])

NoItems == [x \in Items |-> 0]
NoRequest == [kind |-> "none", items |-> NoItems, newItems |-> NoItems,
              method |-> NoMethod, diff |-> 0]

Payment(amount, m) == [type |-> "payment", amount |-> amount, method |-> m]
Refund(amount, m) == [type |-> "refund", amount |-> amount, method |-> m]

ConstantsAssumption ==
    /\ IsFiniteSet(Orders)
    /\ GiftCards \subseteq Methods
    /\ NoMethod \notin Methods
    /\ Owner \in [Orders -> Users]
    /\ MethodsOf \in [Users -> SUBSET Methods]
    /\ Product \in [Items -> Products]
    /\ Price \in [Items -> Nat]
    /\ MaxItems \in Nat

\* The data files: an order was paid by one payment that covers its items, and
\* refunded when it is cancelled.
InitDataAssumption ==
    /\ InitBalance \in [GiftCards -> Nat]
    /\ InitHome \in [Users -> Addresses]
    /\ \A o \in Orders : LET ord == InitOrders[o] IN
         /\ ord.status \in {"pending", "processed", "delivered", "cancelled"}
         /\ ord.items \in Seq(Items)
         /\ ord.address \in Addresses
         /\ \E m \in MethodsOf[Owner[o]] :
              LET amount == ListPrice(ord.items) IN
              ord.history = IF ord.status = "cancelled"
                            THEN <<Payment(amount, m), Refund(amount, m)>>
                            ELSE <<Payment(amount, m)>>

ASSUME StoreAssumptions ==
    /\ ConstantsAssumption
    /\ InitDataAssumption

-------------------------------------------------------------------------------
(* Checks and updates the tools share.                                     *)

\* Mutant: a substring test instead of equality.
IsPendingLoose(o) == status[o] \in {"pending", "pending (item modified)"}
IsPending(o) == status[o] = "pending"

IsDelivered(o) == status[o] = "delivered"

HasMethod(o, m) == m \in MethodsOf[Owner[o]]

\* No item is named more often than the order holds it.
Holds(o, ids) ==
    \A k \in DOMAIN ids : Count(ids[k], ids) <= Count(ids[k], items[o])

\* Every new item is an available variant of the product it replaces.
Replaceable(ids, newIds) ==
    /\ Len(ids) = Len(newIds)
    /\ \A k \in DOMAIN ids : /\ Product[newIds[k]] = Product[ids[k]]
                             /\ newIds[k] \in Available

\* Mutant: old and new price swapped.
DiffPriceSwapped(ids, newIds) == ListPrice(ids) - ListPrice(newIds)
DiffPrice(ids, newIds) == ListPrice(newIds) - ListPrice(ids)

\* Mutant: only the first entry is looked at.
FirstIsPayment(h) == h[1].type = "payment"
\* The history is the one payment that the order was placed with.
SinglePayment(h) == Len(h) <= 1 /\ h[1].type = "payment"

\* Mutant: the balance is never looked at.
CoversAny(m, amount) == TRUE
\* A gift card must cover the amount; any other method may be charged at will.
Covers(m, amount) == m \in GiftCards => ~ (balance[m] < amount)

\* Mutant: a card is charged but never credited.
DebitOnly(bal, m, amount) ==
    [c \in GiftCards |-> IF c = m /\ amount > 0 THEN bal[c] - amount ELSE bal[c]]
\* Method m pays the amount; only gift cards have a balance.
Debit(bal, m, amount) ==
    [c \in GiftCards |-> IF c = m THEN bal[c] - amount ELSE bal[c]]

\* Mutant: every copy of the old item is overwritten.
ReplaceEveryCopy(list, ids, newIds) ==
    FoldLeft(LAMBDA l, k : [j \in DOMAIN l |-> IF l[j] = ids[k] THEN newIds[k] ELSE l[j]],
             list, [k \in DOMAIN ids |-> k])

\* Overwrites the first occurrence of each old item with its replacement, in
\* the order of the call.
FirstAt(l, x) == CHOOSE j \in DOMAIN l : l[j] = x /\ \A i \in 1..(j - 1) : l[i] # x

Replace(list, ids, newIds) ==
    FoldLeft(LAMBDA l, k : [l EXCEPT ![FirstAt(l, ids[k])] = newIds[k]],
             list, [k \in DOMAIN ids |-> k])

\* What cancelling gives back to card c: the amount of every entry on c, the
\* entries of type "refund" included.
CancelCredit(h, c) ==
    SumFunction([k \in DOMAIN h |-> IF h[k].method = c THEN h[k].amount ELSE 0])

-------------------------------------------------------------------------------
(* The write tools: the checks of a call, then what an accepted call does. *)
(* A cancellation and an address only need the order to be pending.        *)

CanModifyItems(o, ids, newIds, m) ==
    /\ IsPending(o)
    /\ Holds(o, ids)
    /\ Replaceable(ids, newIds)
    /\ HasMethod(o, m)
    /\ Covers(m, DiffPrice(ids, newIds))

CanModifyPayment(o, m) ==
    /\ IsPending(o)
    /\ HasMethod(o, m)
    /\ SinglePayment(history[o])
    /\ history[o][1].method # m
    /\ Covers(m, history[o][1].amount)

CanReturn(o, ids, m) ==
    /\ IsDelivered(o)
    /\ HasMethod(o, m)
    /\ m \in GiftCards \/ m = history[o][1].method
    /\ Holds(o, ids)

CanExchange(o, ids, newIds, m) ==
    /\ IsDelivered(o)
    /\ Holds(o, ids)
    /\ Replaceable(ids, newIds)
    /\ HasMethod(o, m)
    /\ Covers(m, DiffPrice(ids, newIds))

CancelPendingOrder(o) ==
    /\ IsPending(o)
    /\ balance' = [c \in GiftCards |-> balance[c] + CancelCredit(history[o], c)]
    /\ status' = [status EXCEPT ![o] = "cancelled"]
    /\ history' = [history EXCEPT ![o] =
         @ \o [k \in DOMAIN @ |-> Refund(@[k].amount, @[k].method)]]
    /\ UNCHANGED <<items, address, request, home>>

ModifyPendingOrderItems(o, ids, newIds, m) ==
    LET diff == DiffPrice(ids, newIds) IN
    /\ CanModifyItems(o, ids, newIds, m)
    /\ history' = [history EXCEPT ![o] =
         Append(@, IF diff > 0 THEN Payment(diff, m) ELSE Refund(-diff, m))]
    /\ balance' = Debit(balance, m, diff)
    /\ items' = [items EXCEPT ![o] = Replace(@, ids, newIds)]
    /\ status' = [status EXCEPT ![o] = "pending (item modified)"]
    /\ UNCHANGED <<address, request, home>>

ModifyPendingOrderPayment(o, m) ==
    LET first == history[o][1] IN
    /\ CanModifyPayment(o, m)
    /\ history' = [history EXCEPT ![o] =
         @ \o <<Payment(first.amount, m), Refund(first.amount, first.method)>>]
    /\ balance' = Debit(Debit(balance, m, first.amount), first.method, -first.amount)
    /\ UNCHANGED <<status, items, address, request, home>>

ModifyPendingOrderAddress(o, a) ==
    /\ IsPending(o)
    /\ address' = [address EXCEPT ![o] = a]
    /\ UNCHANGED <<status, items, history, request, balance, home>>

ModifyUserAddress(u, a) ==
    /\ home' = [home EXCEPT ![u] = a]
    /\ UNCHANGED <<status, items, history, address, request, balance>>

ReturnDeliveredOrderItems(o, ids, m) ==
    /\ CanReturn(o, ids, m)
    /\ status' = [status EXCEPT ![o] = "return requested"]
    /\ request' = [request EXCEPT ![o] =
         [kind |-> "return", items |-> CountsOf(ids), newItems |-> NoItems,
          method |-> m, diff |-> 0]]
    /\ UNCHANGED <<items, history, address, balance, home>>

\* An exchange checks that the gift card covers the difference but moves no money.
ExchangeDeliveredOrderItems(o, ids, newIds, m) ==
    LET diff == DiffPrice(ids, newIds) IN
    /\ CanExchange(o, ids, newIds, m)
    /\ status' = [status EXCEPT ![o] = "exchange requested"]
    /\ request' = [request EXCEPT ![o] =
         [kind |-> "exchange", items |-> CountsOf(ids), newItems |-> CountsOf(newIds),
          method |-> m, diff |-> diff]]
    /\ UNCHANGED <<items, history, address, balance, home>>

Init ==
    /\ status = [o \in Orders |-> InitOrders[o].status]
    /\ items = [o \in Orders |-> InitOrders[o].items]
    /\ history = [o \in Orders |-> InitOrders[o].history]
    /\ address = [o \in Orders |-> InitOrders[o].address]
    /\ request = [o \in Orders |-> NoRequest]
    /\ balance = InitBalance
    /\ home = InitHome

\* load_data once more: whatever was written is gone.
LoadData ==
    /\ status' = [o \in Orders |-> InitOrders[o].status]
    /\ items' = [o \in Orders |-> InitOrders[o].items]
    /\ history' = [o \in Orders |-> InitOrders[o].history]
    /\ address' = [o \in Orders |-> InitOrders[o].address]
    /\ request' = [o \in Orders |-> NoRequest]
    /\ balance' = InitBalance
    /\ home' = InitHome

Next ==
    \/ \E o \in Orders :
         \/ CancelPendingOrder(o)
         \/ \E m \in Methods : ModifyPendingOrderPayment(o, m)
         \/ \E a \in Addresses : ModifyPendingOrderAddress(o, a)
         \/ \E ids \in ItemLists, m \in Methods :
              \/ ReturnDeliveredOrderItems(o, ids, m)
              \/ \E newIds \in ItemLists :
                   \/ ModifyPendingOrderItems(o, ids, newIds, m)
                   \/ ExchangeDeliveredOrderItems(o, ids, newIds, m)
    \/ \E u \in Users, a \in Addresses : ModifyUserAddress(u, a)

Spec == Init /\ [][Next]_vars

-------------------------------------------------------------------------------
(* Properties.                                                             *)

\* The types of everything but the item lists.
RecordsOK ==
    /\ status \in [Orders -> Statuses]
    /\ history \in [Orders -> Seq(Entry)]
    /\ address \in [Orders -> Addresses]
    /\ request \in [Orders -> Request]
    /\ balance \in [GiftCards -> Int]
    /\ home \in [Users -> Addresses]

\* No sequence of accepted calls overdraws a gift card: each tool that charges
\* one compares the balance with the amount it is about to take.
NoOverdraft == \A c \in GiftCards : balance[c] >= 0

\* What the customer has paid for an order, less what was refunded.
Paid(e) == IF e.type = "payment" THEN e.amount ELSE -e.amount
NetPaid(h) == SumFunction([k \in DOMAIN h |-> Paid(h[k])])

\* The payment history of an order that is not cancelled always adds up to the
\* price of the items it holds now, through every change of items and method.
PaidInFull ==
    \A o \in Orders : status[o] # "cancelled" =>
        NetPaid(history[o]) = ListPrice(items[o])

\* What gift card c has paid, net, over all orders.
PaidBy(h, c) == SumFunction([k \in DOMAIN h |-> IF h[k].method = c THEN Paid(h[k]) ELSE 0])
NetOnCard(ledgers, c) == SumFunction([o \in Orders |-> PaidBy(ledgers[o], c)])

\* The balances and the payment histories tell the same story: no call moves
\* money on a gift card without an entry in some order, nor the other way round.
CardsMatchLedgers ==
    LET placed == [o \in Orders |-> InitOrders[o].history] IN
    \A c \in GiftCards : balance[c] + NetOnCard(history, c)
                            = InitBalance[c] + NetOnCard(placed, c)

\* A pending order was paid once, or was paid once and had that payment moved
\* to another method once: cancelling and changing the payment rely on it.
PendingLedger ==
    \A o \in Orders : LET h == history[o] IN
        status[o] = "pending" =>
            /\ Len(h) \in {1, 3}
            /\ h[1].type = "payment"
            /\ Len(h) = 3 => /\ h[2].type = "payment"
                             /\ h[2].method # h[1].method
                             /\ h[2].amount = h[1].amount
                             /\ h[3] = Refund(h[1].amount, h[1].method)

\* Whatever the lists of a call and the order in which the loop meets chained
\* ids, the replaced order holds the old items, less ids, plus newIds.
SwapsExactly ==
    \A o \in Orders : status[o] = "pending" =>
        \A ids, newIds \in ItemLists :
            Holds(o, ids) /\ Replaceable(ids, newIds) =>
                LET after == Replace(items[o], ids, newIds) IN
                \A x \in Items : Count(x, after) =
                    Count(x, items[o]) - Count(x, ids) + Count(x, newIds)

\* The tools implement the life cycle of an order (OrderLifecycle.tla).
Lifecycle == INSTANCE OrderLifecycle WITH
    contents <- [o \in Orders |-> <<items[o], request[o]>>],
    terms    <- [o \in Orders |-> <<history[o], address[o]>>]
LifecycleSpec == Lifecycle!LifecycleSpec

\* What the policy says of a cancellation: "the total will be refunded via the
\* original payment method" (wiki.md), so nothing is left paid nor overpaid.
CancelRefundsTotal ==
    \A o \in Orders : status[o] = "cancelled" => NetPaid(history[o]) = 0

===============================================================================
