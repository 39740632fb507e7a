---------------------------- MODULE RetailProofs ------------------------------
(***************************************************************************)
(* Proofs about RetailStore, for every database and every call, and about  *)
(* RetailCredit, for every order of calls: the constraint rules and the    *)
(* checks of the tools, which are written independently, agree.            *)
(***************************************************************************)
EXTENDS RetailCredit, SequenceTheorems, FoldLemmas

-------------------------------------------------------------------------------
(* The store *)

\* The inductive invariant: the checks of a tool compare amounts that have the
\* right type, and the amounts it refunds are those of PendingLedger.
LedgerInv == RecordsOK /\ NoOverdraft /\ PendingLedger

-------------------------------------------------------------------------------

\* Counting the items of a call gives a natural number for every item.
LEMMA CountsType ==
    ASSUME NEW ids \in ItemLists
    PROVE  CountsOf(ids) \in Counts
<1>1. PICK n \in 0..MaxItems : ids \in [1..n -> Items]
  BY DEF ItemLists
<1>2. ASSUME NEW x \in Items
      PROVE  Cardinality({k \in DOMAIN ids : ids[k] = x}) \in Nat
  <2>1. IsFiniteSet(1..n) /\ n \in Int
    BY FS_Interval, StoreAssumptions DEF ConstantsAssumption
  <2>2. IsFiniteSet({k \in DOMAIN ids : ids[k] = x})
    BY <1>1, <2>1, FS_Subset
  <2>3. QED
    BY <2>2, FS_CardinalityType
<1>3. QED
  BY <1>2 DEF CountsOf, Count, Counts

\* The lists of a call are sequences of items.
LEMMA ListsAreSeqs == \A ids \in ItemLists : ids \in Seq(Items)
<1> SUFFICES ASSUME NEW ids \in ItemLists PROVE ids \in Seq(Items)
  OBVIOUS
<1>1. PICK n \in 0..MaxItems : ids \in [1..n -> Items]
  BY DEF ItemLists
<1>2. n \in Nat
  BY StoreAssumptions DEF StoreAssumptions, ConstantsAssumption
<1> QED BY <1>1, <1>2, SeqDef

\* The price of a list is the total of the prices of its items, in whole cents.
LEMMA ListPriceIs ==
    ASSUME NEW list \in Seq(Items)
    PROVE  /\ Price \in [Items -> Int]
           /\ ListPrice(list) = Total(Price, list)
           /\ ListPrice(list) \in Nat
<1>1. Price \in [Items -> Nat] /\ Price \in [Items -> Int]
  BY StoreAssumptions DEF StoreAssumptions, ConstantsAssumption
<1>2. ListPrice(list) = Total(Price, list)
  BY DEF ListPrice, Total, Along
<1>3. Total(Price, list) \in Nat
  BY <1>1, TotalNat
<1> QED BY <1>1, <1>2, <1>3

\* The price difference of a call is a whole number of cents.
LEMMA DiffPriceType ==
    ASSUME NEW ids \in ItemLists, NEW newIds \in ItemLists
    PROVE  DiffPrice(ids, newIds) \in Int
<1>1. ListPrice(ids) \in Nat /\ ListPrice(newIds) \in Nat
  BY ListsAreSeqs, ListPriceIs
<1> QED BY <1>1 DEF DiffPrice

\* What the data files say of one order.
LEMMA InitOrderFacts ==
    ASSUME NEW o \in Orders
    PROVE  /\ InitOrders[o].items \in Seq(Items)
           /\ \E m \in Methods, amount \in Nat :
                /\ amount = ListPrice(InitOrders[o].items)
                /\ InitOrders[o].history = IF InitOrders[o].status = "cancelled"
                                           THEN <<Payment(amount, m), Refund(amount, m)>>
                                           ELSE <<Payment(amount, m)>>
<1> DEFINE ord == InitOrders[o]
           amount == ListPrice(ord.items)
<1>1. Owner[o] \in Users /\ MethodsOf[Owner[o]] \subseteq Methods
  BY StoreAssumptions DEF StoreAssumptions, ConstantsAssumption
<1>2. /\ ord.items \in Seq(Items)
      /\ \E m \in MethodsOf[Owner[o]] :
           ord.history = IF ord.status = "cancelled"
                         THEN <<Payment(amount, m), Refund(amount, m)>>
                         ELSE <<Payment(amount, m)>>
  BY StoreAssumptions DEF StoreAssumptions, InitDataAssumption
<1>3. amount \in Nat
  BY <1>2, ListPriceIs
<1>4. QED
  BY <1>1, <1>2, <1>3

\* The data files satisfy the invariant.
LEMMA InitLedger == Init => LedgerInv
<1> SUFFICES ASSUME Init PROVE LedgerInv
  OBVIOUS
<1>1. ASSUME NEW o \in Orders
      PROVE  /\ history[o] \in Seq(Entry)
             /\ status[o] = "pending" => Len(history[o]) = 1 /\ history[o][1].type = "payment"
  <2>1. PICK m \in Methods, amount \in Nat :
             InitOrders[o].history = IF InitOrders[o].status = "cancelled"
                                     THEN <<Payment(amount, m), Refund(amount, m)>>
                                     ELSE <<Payment(amount, m)>>
    BY InitOrderFacts
  <2>2. history[o] = InitOrders[o].history /\ status[o] = InitOrders[o].status
    BY DEF Init
  <2>3. Payment(amount, m) \in Entry /\ Refund(amount, m) \in Entry
    BY DEF Payment, Refund, Entry
  <2>4. /\ <<Payment(amount, m)>> \in Seq(Entry)
        /\ <<Payment(amount, m), Refund(amount, m)>> \in Seq(Entry)
    BY <2>3
  <2>5. history[o] \in Seq(Entry)
    BY <2>1, <2>2, <2>4
  <2>6. Len(<<Payment(amount, m)>>) = 1 /\ <<Payment(amount, m)>>[1].type = "payment"
    BY DEF Payment
  <2>7. QED
    BY <2>1, <2>2, <2>5, <2>6
<1>2. NoRequest \in Request
  BY DEF NoRequest, NoItems, Request, Counts
<1>3. ASSUME NEW o \in Orders
      PROVE  InitOrders[o].status \in Statuses /\ InitOrders[o].address \in Addresses
  BY StoreAssumptions DEF StoreAssumptions, InitDataAssumption, Statuses
<1>4. InitBalance \in [GiftCards -> Nat] /\ InitHome \in [Users -> Addresses]
  BY StoreAssumptions DEF StoreAssumptions, InitDataAssumption
<1>5. RecordsOK
  BY <1>1, <1>2, <1>3, <1>4 DEF RecordsOK, Init
<1>6. NoOverdraft
  BY <1>4 DEF NoOverdraft, Init
<1>7. PendingLedger
  BY <1>1 DEF PendingLedger
<1>8. QED
  BY <1>5, <1>6, <1>7 DEF LedgerInv

-------------------------------------------------------------------------------

\* The entries of a payment history have the fields of an Entry.
LEMMA EntryFields ==
    ASSUME NEW h \in Seq(Entry)
    PROVE  /\ Len(h) \in Nat
           /\ DOMAIN h = 1..Len(h)
           /\ \A k \in DOMAIN h : /\ h[k].type \in {"payment", "refund"}
                                 /\ h[k].amount \in Nat
                                 /\ h[k].method \in Methods
                                 /\ Refund(h[k].amount, h[k].method) \in Entry
<1>1. \A k \in DOMAIN h : h[k] \in Entry
  OBVIOUS
<1>2. \A e \in Entry : /\ e.type \in {"payment", "refund"}
                       /\ e.amount \in Nat
                       /\ e.method \in Methods
                       /\ Refund(e.amount, e.method) \in Entry
  BY DEF Entry, Refund
<1>3. QED
  BY <1>1, <1>2

\* What an entry says of the money that moved: in all, on card c, and in the
\* eyes of a cancellation.
Amounts == [e \in Entry |-> Paid(e)]
AmountsOn(c) == [e \in Entry |-> IF e.method = c THEN Paid(e) ELSE 0]
CreditOn(c) == [e \in Entry |-> IF e.method = c THEN e.amount ELSE 0]

LEMMA AmountsType ==
    ASSUME NEW c
    PROVE  /\ Amounts \in [Entry -> Int]
           /\ AmountsOn(c) \in [Entry -> Int]
           /\ CreditOn(c) \in [Entry -> Nat]
           /\ CreditOn(c) \in [Entry -> Int]
<1>1. \A e \in Entry : e.amount \in Nat /\ Paid(e) \in Int
  BY DEF Entry, Paid
<1> QED BY <1>1 DEF Amounts, AmountsOn, CreditOn

\* The sums over a history are totals along it.
LEMMA LedgerTotals ==
    ASSUME NEW h \in Seq(Entry), NEW c
    PROVE  /\ NetPaid(h) = Total(Amounts, h) /\ NetPaid(h) \in Int
           /\ PaidBy(h, c) = Total(AmountsOn(c), h) /\ PaidBy(h, c) \in Int
           /\ CancelCredit(h, c) = Total(CreditOn(c), h) /\ CancelCredit(h, c) \in Nat
<1>1. \A k \in DOMAIN h : h[k] \in Entry
  OBVIOUS
<1>2. /\ [k \in DOMAIN h |-> Paid(h[k])] = Along(Amounts, h)
      /\ [k \in DOMAIN h |-> IF h[k].method = c THEN Paid(h[k]) ELSE 0] = Along(AmountsOn(c), h)
      /\ [k \in DOMAIN h |-> IF h[k].method = c THEN h[k].amount ELSE 0] = Along(CreditOn(c), h)
  BY <1>1 DEF Along, Amounts, AmountsOn, CreditOn
<1>3. /\ NetPaid(h) = Total(Amounts, h)
      /\ PaidBy(h, c) = Total(AmountsOn(c), h)
      /\ CancelCredit(h, c) = Total(CreditOn(c), h)
  BY <1>2, Zenon DEF NetPaid, PaidBy, CancelCredit, Total
<1>4. Total(Amounts, h) \in Int /\ Total(AmountsOn(c), h) \in Int /\ Total(CreditOn(c), h) \in Nat
  BY AmountsType, TotalAlong, TotalNat
<1> QED BY <1>3, <1>4

\* Crediting the entries of a history adds a natural number to each card.
LEMMA CreditType ==
    ASSUME NEW h \in Seq(Entry), NEW c
    PROVE  CancelCredit(h, c) \in Nat
BY LedgerTotals

\* Cancelling: what is credited is never negative, and the order is not pending
\* any more.
LEMMA CancelStep ==
    ASSUME LedgerInv, NEW o \in Orders, CancelPendingOrder(o)
    PROVE  LedgerInv'
<1> USE DEF LedgerInv, RecordsOK
<1> DEFINE h == history[o]
           refunds == [k \in DOMAIN h |-> Refund(h[k].amount, h[k].method)]
<1>1. h \in Seq(Entry)
  OBVIOUS
<1>2. refunds \in Seq(Entry)
  <2>1. Len(h) \in Nat /\ refunds \in [1..Len(h) -> Entry]
    BY <1>1, EntryFields
  <2>2. QED
    BY <2>1, SeqDef
<1>3. h \o refunds \in Seq(Entry)
  BY <1>1, <1>2
<1>4. \A c \in GiftCards : CancelCredit(h, c) \in Nat
  BY <1>1, CreditType
<1>5. history' \in [Orders -> Seq(Entry)] /\ \A p \in Orders \ {o} : history'[p] = history[p]
  BY <1>3 DEF CancelPendingOrder
<1>6. status' \in [Orders -> Statuses] /\ status' = [status EXCEPT ![o] = "cancelled"]
  BY DEF CancelPendingOrder, Statuses
<1>7. RecordsOK'
  BY <1>4, <1>5, <1>6 DEF CancelPendingOrder
<1>8. NoOverdraft'
  BY <1>4 DEF CancelPendingOrder, NoOverdraft
<1>9. PendingLedger'
  BY <1>5, <1>6 DEF PendingLedger
<1>10. QED
  BY <1>7, <1>8, <1>9

\* A payment method that is a gift card covers what it is charged.
LEMMA DebitStays ==
    ASSUME balance \in [GiftCards -> Int], NoOverdraft,
           NEW m, NEW amount \in Int, Covers(m, amount)
    PROVE  /\ Debit(balance, m, amount) \in [GiftCards -> Int]
           /\ \A c \in GiftCards : Debit(balance, m, amount)[c] >= 0
BY DEF Debit, Covers, NoOverdraft

\* Changing the items: the card covers the difference, and the order is not
\* pending any more.
LEMMA ItemsStep ==
    ASSUME LedgerInv, NEW o \in Orders, NEW m \in Methods,
           NEW ids \in ItemLists, NEW newIds \in ItemLists,
           ModifyPendingOrderItems(o, ids, newIds, m)
    PROVE  LedgerInv'
<1> USE DEF LedgerInv, RecordsOK
<1> DEFINE diff == DiffPrice(ids, newIds)
           entry == IF diff > 0 THEN Payment(diff, m) ELSE Refund(-diff, m)
<1>1. diff \in Int
  BY DiffPriceType
<1>2. entry \in Entry
  BY <1>1 DEF Payment, Refund, Entry
<1> HIDE DEF diff, entry
<1>3. Covers(m, diff) /\ balance' = Debit(balance, m, diff)
  BY DEF ModifyPendingOrderItems, CanModifyItems, diff
<1>4. history' = [history EXCEPT ![o] = Append(@, entry)]
  BY DEF ModifyPendingOrderItems, diff, entry
<1>5. Append(history[o], entry) \in Seq(Entry)
  BY <1>2
<1>6. history' \in [Orders -> Seq(Entry)] /\ \A p \in Orders \ {o} : history'[p] = history[p]
  BY <1>4, <1>5
<1>7. /\ status' = [status EXCEPT ![o] = "pending (item modified)"]
      /\ UNCHANGED <<address, request, home>>
  BY DEF ModifyPendingOrderItems
<1>8. RecordsOK' /\ NoOverdraft'
  BY <1>1, <1>3, <1>6, <1>7, DebitStays DEF NoOverdraft, Statuses
<1>9. PendingLedger'
  BY <1>6, <1>7 DEF PendingLedger
<1>10. QED
  BY <1>8, <1>9

\* A history of one entry after two more were appended.
LEMMA AppendTwo ==
    ASSUME NEW S, NEW s \in Seq(S), Len(s) = 1, NEW a \in S, NEW b \in S
    PROVE  /\ Len(s \o <<a, b>>) = 3 /\ (s \o <<a, b>>)[1] = s[1]
           /\ (s \o <<a, b>>)[2] = a /\ (s \o <<a, b>>)[3] = b
<1> DEFINE t == <<a, b>>
<1>1. t \in Seq(S) /\ Len(t) = 2 /\ t[1] = a /\ t[2] = b
  OBVIOUS
<1> HIDE DEF t
<1>2. /\ Len(s \o t) = Len(s) + Len(t)
      /\ \A i \in 1..(Len(s) + Len(t)) :
            (s \o t)[i] = IF i <= Len(s) THEN s[i] ELSE t[i - Len(s)]
  BY <1>1, ConcatProperties
<1>3. Len(s \o t) = 3 /\ (s \o t)[1] = s[1] /\ (s \o t)[2] = t[1] /\ (s \o t)[3] = t[2]
  BY <1>1, <1>2
<1>4. QED
  BY <1>1, <1>3 DEF t

\* Changing the payment method: it is done once only, so that the order then
\* has its payment, the same payment by the new method and the refund.
LEMMA PaymentStep ==
    ASSUME LedgerInv, NEW o \in Orders, NEW m \in Methods,
           ModifyPendingOrderPayment(o, m)
    PROVE  LedgerInv'
<1> USE DEF LedgerInv, RecordsOK
<1> DEFINE h == history[o]
           first == h[1]
           moved == <<Payment(first.amount, m), Refund(first.amount, first.method)>>
<1>1. h \in Seq(Entry) /\ Len(h) = 1 /\ first.type = "payment" /\ first.method # m
  BY DEF ModifyPendingOrderPayment, CanModifyPayment, PendingLedger, SinglePayment, IsPending
<1>2. /\ first.amount \in Nat /\ first.method \in Methods
      /\ Payment(first.amount, m) \in Entry
      /\ Refund(first.amount, first.method) \in Entry
  <2>1. 1 \in DOMAIN h
    BY <1>1, EntryFields
  <2>2. first.amount \in Nat /\ first.method \in Methods
    BY <1>1, <2>1, EntryFields
  <2>3. QED
    BY <2>2 DEF Payment, Refund, Entry
<1>3. moved \in Seq(Entry) /\ Len(moved) = 2
  BY <1>2
<1>4. h \o moved \in Seq(Entry)
  BY <1>1, <1>3
<1>5. /\ Len(h \o moved) = 3 /\ (h \o moved)[1] = first
      /\ (h \o moved)[2] = Payment(first.amount, m)
      /\ (h \o moved)[3] = Refund(first.amount, first.method)
  BY <1>1, <1>2, AppendTwo
<1>6. /\ history' = [history EXCEPT ![o] = h \o moved]
      /\ Covers(m, first.amount)
      /\ balance' = Debit(Debit(balance, m, first.amount), first.method, -first.amount)
      /\ UNCHANGED <<status, address, request, home>>
  BY DEF ModifyPendingOrderPayment, CanModifyPayment
<1> HIDE DEF moved
<1>7. /\ history' \in [Orders -> Seq(Entry)]
      /\ history'[o] = h \o moved
      /\ \A p \in Orders \ {o} : history'[p] = history[p]
  BY <1>4, <1>6
<1>8. balance' \in [GiftCards -> Int] /\ NoOverdraft'
  <2>1. /\ Debit(balance, m, first.amount) \in [GiftCards -> Int]
        /\ \A c \in GiftCards : Debit(balance, m, first.amount)[c] >= 0
    BY <1>2, <1>6, DebitStays
  <2>2. QED
    BY <1>2, <1>6, <2>1 DEF Debit, NoOverdraft
<1>9. RecordsOK'
  BY <1>6, <1>7, <1>8
<1>10. PendingLedger'
  <2>1. ASSUME NEW p \in Orders, p # o
        PROVE  history'[p] = history[p] /\ status'[p] = status[p]
    BY <1>6, <1>7, <2>1
  <2>2. QED
    BY <1>1, <1>5, <1>6, <1>7, <2>1 DEF PendingLedger, Payment
<1>11. QED
  BY <1>8, <1>9, <1>10

\* A return or an exchange touches neither payments nor balances.
LEMMA RequestStep ==
    ASSUME LedgerInv, NEW o \in Orders, NEW m \in Methods,
           NEW ids \in ItemLists, NEW newIds \in ItemLists,
           \/ ReturnDeliveredOrderItems(o, ids, m)
           \/ ExchangeDeliveredOrderItems(o, ids, newIds, m)
    PROVE  LedgerInv'
<1> USE DEF LedgerInv, RecordsOK
<1>1. CountsOf(ids) \in Counts /\ CountsOf(newIds) \in Counts
  BY CountsType
<1>2. DiffPrice(ids, newIds) \in Int
  BY DiffPriceType
<1>3. \E r \in Request : request' = [request EXCEPT ![o] = r]
  <2>1. CASE ReturnDeliveredOrderItems(o, ids, m)
    <3> DEFINE r == [kind |-> "return", items |-> CountsOf(ids), newItems |-> NoItems,
                     method |-> m, diff |-> 0]
    <3>1. NoItems \in Counts
      BY DEF NoItems, Counts
    <3>2. r \in Request
      BY <1>1, <3>1 DEF Request
    <3>3. request' = [request EXCEPT ![o] = r]
      BY <2>1 DEF ReturnDeliveredOrderItems
    <3>4. QED
      BY <3>2, <3>3
  <2>2. CASE ExchangeDeliveredOrderItems(o, ids, newIds, m)
    <3> DEFINE r == [kind |-> "exchange", items |-> CountsOf(ids),
                     newItems |-> CountsOf(newIds), method |-> m,
                     diff |-> DiffPrice(ids, newIds)]
    <3>1. r \in Request
      BY <1>1, <1>2 DEF Request
    <3>2. request' = [request EXCEPT ![o] = r]
      BY <2>2 DEF ExchangeDeliveredOrderItems
    <3>3. QED
      BY <3>1, <3>2
  <2>3. QED
    BY <2>1, <2>2
<1>4. /\ \E s \in {"return requested", "exchange requested"} :
           status' = [status EXCEPT ![o] = s]
      /\ UNCHANGED <<history, address, balance, home>>
  BY DEF ReturnDeliveredOrderItems, ExchangeDeliveredOrderItems
<1>5. RecordsOK'
  BY <1>3, <1>4 DEF Statuses
<1>6. NoOverdraft' /\ PendingLedger'
  BY <1>4 DEF NoOverdraft, PendingLedger
<1>7. QED
  BY <1>5, <1>6

\* An address concerns no other field.
LEMMA AddressStep ==
    ASSUME LedgerInv, NEW a \in Addresses,
           \/ \E o \in Orders : ModifyPendingOrderAddress(o, a)
           \/ \E u \in Users : ModifyUserAddress(u, a)
    PROVE  LedgerInv'
<1>1. /\ address' \in [Orders -> Addresses] /\ home' \in [Users -> Addresses]
      /\ UNCHANGED <<status, history, request, balance>>
  BY DEF LedgerInv, RecordsOK, ModifyPendingOrderAddress, ModifyUserAddress
<1>2. QED
  BY <1>1 DEF LedgerInv, RecordsOK, NoOverdraft, PendingLedger

\* Every call of a tool preserves the invariant.
LEMMA NextLedger == LedgerInv /\ [Next]_vars => LedgerInv'
<1> SUFFICES ASSUME LedgerInv, [Next]_vars PROVE LedgerInv'
  OBVIOUS
<1>1. CASE UNCHANGED vars
  BY <1>1 DEF vars, LedgerInv, RecordsOK, NoOverdraft, PendingLedger
<1>2. CASE Next
  BY <1>2, CancelStep, ItemsStep, PaymentStep, RequestStep, AddressStep DEF Next
<1>3. QED
  BY <1>1, <1>2

\* The payments, requests, statuses, addresses and balances keep their types.
THEOREM RecordsTypes == Spec => []RecordsOK
BY InitLedger, NextLedger, PTL DEF Spec, LedgerInv

\* No sequence of tool calls overdraws a gift card.
THEOREM NeverOverdrawn == Spec => []NoOverdraft
BY InitLedger, NextLedger, PTL DEF Spec, LedgerInv

\* A pending order is paid by one payment, moved to another method at most once.
THEOREM PendingPaidOnce == Spec => []PendingLedger
BY InitLedger, NextLedger, PTL DEF Spec, LedgerInv

-------------------------------------------------------------------------------
(* Replacing items of an order *)

\* One step of the loop over the ids of a call.
Swap(l, ids, newIds, k) == [l EXCEPT ![FirstAt(l, ids[k])] = newIds[k]]

\* The ids of a call are held by the list it changes.
HeldBy(list, ids) == \A k \in DOMAIN ids : Count(ids[k], ids) <= Count(ids[k], list)

\* l weighs what the list weighs after its first k ids were replaced.
Swapped(l, list, ids, newIds, k) ==
    \A w \in [Items -> Int] :
        Total(w, l) = (Total(w, list) - TotalTo(w, ids, k)) + TotalTo(w, newIds, k)

Mark(x) == [y \in Items |-> IF y = x THEN 1 ELSE 0]

\* Counting an item is one way of weighing a list.
LEMMA CountIs ==
    ASSUME NEW list \in Seq(Items), NEW x \in Items
    PROVE  /\ Mark(x) \in [Items -> Int] /\ Mark(x) \in [Items -> Nat]
           /\ Count(x, list) = Total(Mark(x), list)
           /\ Count(x, list) \in Nat
<1> DEFINE D == Positions(Len(list))
           f == Along(Mark(x), list)
<1>1. Mark(x) \in [Items -> Int] /\ Mark(x) \in [Items -> Nat]
  BY DEF Mark
<1>2. /\ DOMAIN list = D /\ IsFiniteSet(D)
      /\ \A k \in D : list[k] \in Items /\ f[k] = Mark(x)[list[k]]
      /\ Total(Mark(x), list) = SumFunctionOnSet(f, D)
  BY <1>1, TotalAlong
<1> HIDE DEF D, f
<1>3. \A k \in D : f[k] \in {0, 1} /\ (f[k] = 1 <=> list[k] = x)
  BY <1>2 DEF Mark
<1>4. Marked(f, D) = {k \in DOMAIN list : list[k] = x}
  BY <1>2, <1>3 DEF Marked
<1>5. Cardinality(Marked(f, D)) = SumFunctionOnSet(f, D)
  BY <1>2, <1>3, SumOfMarks
<1>6. Count(x, list) = Total(Mark(x), list)
  BY <1>2, <1>4, <1>5 DEF Count
<1>7. Total(Mark(x), list) \in Nat
  BY <1>1, TotalNat
<1> QED BY <1>1, <1>6, <1>7

\* An item that is not in a list weighs nothing there.
LEMMA FirstIsThere ==
    ASSUME NEW l \in Seq(Items), NEW x \in Items, Total(Mark(x), l) # 0
    PROVE  FirstAt(l, x) \in 1..Len(l) /\ l[FirstAt(l, x)] = x
<1> DEFINE T == {k \in 1..Len(l) : l[k] = x}
<1>1. \E k \in 1..Len(l) : l[k] = x
  <2> SUFFICES ASSUME \A k \in 1..Len(l) : l[k] # x PROVE FALSE
    OBVIOUS
  <2> DEFINE f == Along(Mark(x), l)
  <2>1. /\ DOMAIN l = Positions(Len(l)) /\ IsFiniteSet(Positions(Len(l)))
        /\ \A k \in Positions(Len(l)) : l[k] \in Items /\ f[k] = Mark(x)[l[k]]
        /\ Total(Mark(x), l) = SumFunctionOnSet(f, Positions(Len(l)))
    <3>1. Mark(x) \in [Items -> Int]
      BY DEF Mark
    <3> QED BY <3>1, TotalAlong
  <2> HIDE DEF f
  <2>2. \A k \in Positions(Len(l)) : f[k] = 0
    BY <2>1 DEF Mark, Positions
  <2>3. SumFunctionOnSet(f, Positions(Len(l))) = 0
    BY <2>1, <2>2, SumOfZeros
  <2> QED BY <2>1, <2>3
<1>2. T \subseteq Nat /\ T # {}
  BY <1>1
<1>3. PICK j \in T : \A k \in T : j <= k
  <2> HIDE DEF T
  <2> QED BY <1>2, LeastNumber
<1>4. j \in DOMAIN l /\ l[j] = x /\ \A i \in 1..(j - 1) : l[i] # x
  BY <1>3
<1>5. FirstAt(l, x) \in DOMAIN l /\ l[FirstAt(l, x)] = x
  BY <1>4 DEF FirstAt
<1> QED BY <1>5

\* As long as the call names no more of an item than the list holds, each id
\* finds its item, whatever the ids before it have put in or taken out.
LEMMA SwapStep ==
    ASSUME NEW list \in Seq(Items), NEW ids \in Seq(Items), NEW newIds \in Seq(Items),
           Len(ids) = Len(newIds), HeldBy(list, ids),
           NEW k \in Nat, k < Len(ids),
           NEW l \in Seq(Items), Swapped(l, list, ids, newIds, k)
    PROVE  /\ Swap(l, ids, newIds, k + 1) \in Seq(Items)
           /\ Swapped(Swap(l, ids, newIds, k + 1), list, ids, newIds, k + 1)
<1> DEFINE x == ids[k + 1]
           y == newIds[k + 1]
           m == Mark(x)
           j == FirstAt(l, x)
<1>1. /\ Len(ids) \in Nat /\ k + 1 \in DOMAIN ids /\ k + 1 \in DOMAIN newIds
      /\ k <= Len(ids) /\ k + 1 <= Len(ids) /\ k + 1 \in Nat
      /\ x \in Items /\ y \in Items
  OBVIOUS
<1> HIDE DEF x, y
<1>2. Total(m, l) # 0
  <2>1. /\ m \in [Items -> Int] /\ m \in [Items -> Nat]
        /\ Count(x, ids) = Total(m, ids) /\ Count(x, list) = Total(m, list)
        /\ Total(m, ids) \in Nat /\ Total(m, list) \in Nat
    BY <1>1, CountIs
  <2>2. m[x] = 1
    BY <1>1 DEF Mark
  <2> HIDE DEF m
  <2>3. Total(m, ids) <= Total(m, list)
    BY <1>1, <2>1 DEF HeldBy, x
  <2>4. /\ TotalTo(m, ids, k) \in Nat
        /\ TotalTo(m, ids, k + 1) <= Total(m, ids)
    BY <1>1, <2>1, TotalToPart
  <2>5. TotalTo(m, newIds, k) \in Nat
    <3>1. k <= Len(newIds)
      BY <1>1
    <3> QED BY <2>1, <3>1, TotalToPart
  <2>6. TotalTo(m, ids, k + 1) = TotalTo(m, ids, k) + 1
    <3>1. TotalTo(m, ids, k + 1) = TotalTo(m, ids, k) + m[ids[k + 1]]
      BY <2>1, TotalToSteps
    <3> QED BY <2>2, <3>1 DEF x
  <2>7. Total(m, l) = (Total(m, list) - TotalTo(m, ids, k)) + TotalTo(m, newIds, k)
    BY <2>1 DEF Swapped
  <2> QED BY <2>1, <2>3, <2>4, <2>5, <2>6, <2>7
<1>3. j \in 1..Len(l) /\ l[j] = x
  BY <1>1, <1>2, FirstIsThere
<1> HIDE DEF m, j
<1>4. Swap(l, ids, newIds, k + 1) = Put(l, j, y)
  BY DEF Swap, Put, x, y, j
<1>5. /\ Put(l, j, y) \in Seq(Items)
      /\ \A w \in [Items -> Int] : Total(w, Put(l, j, y)) = Total(w, l) + (w[y] - w[l[j]])
  <2>1. ASSUME NEW w \in [Items -> Int]
        PROVE  /\ Put(l, j, y) \in Seq(Items)
               /\ Total(w, Put(l, j, y)) = Total(w, l) + (w[y] - w[l[j]])
    <3>1. j \in Positions(Len(l))
      BY <1>3 DEF Positions
    <3>2. y \in Items
      BY <1>1
    <3> QED BY <3>1, <3>2, TotalChange
  <2>2. [z \in Items |-> 0] \in [Items -> Int]
    OBVIOUS
  <2> QED BY <2>1, <2>2, Zenon
<1>6. ASSUME NEW w \in [Items -> Int]
      PROVE  Total(w, Put(l, j, y))
               = (Total(w, list) - TotalTo(w, ids, k + 1)) + TotalTo(w, newIds, k + 1)
  <2>1. /\ TotalTo(w, ids, k + 1) = TotalTo(w, ids, k) + w[x]
        /\ TotalTo(w, ids, k) \in Int
    BY <1>1, TotalToSteps DEF x
  <2>2. /\ TotalTo(w, newIds, k + 1) = TotalTo(w, newIds, k) + w[y]
        /\ TotalTo(w, newIds, k) \in Int
    <3>1. k < Len(newIds) /\ k <= Len(newIds)
      OBVIOUS
    <3> QED BY <3>1, TotalToSteps DEF y
  <2>3. Total(w, l) = (Total(w, list) - TotalTo(w, ids, k)) + TotalTo(w, newIds, k)
    BY DEF Swapped
  <2>4. Total(w, Put(l, j, y)) = Total(w, l) + (w[y] - w[x])
    BY <1>3, <1>5
  <2>5. Total(w, list) \in Int /\ w[x] \in Int /\ w[y] \in Int
    BY <1>1, TotalAlong
  <2> DEFINE a == Total(w, list)
             b == TotalTo(w, ids, k)
             c == TotalTo(w, newIds, k)
             d == w[x]
             e == w[y]
  <2>6. /\ Total(w, Put(l, j, y)) = ((a - b) + c) + (e - d)
        /\ (Total(w, list) - TotalTo(w, ids, k + 1)) + TotalTo(w, newIds, k + 1)
             = (a - (b + d)) + (c + e)
    BY <2>1, <2>2, <2>3, <2>4, Zenon
  <2>7. a \in Int /\ b \in Int /\ c \in Int /\ d \in Int /\ e \in Int
    BY <2>1, <2>2, <2>5
  <2> HIDE DEF a, b, c, d, e
  <2>8. ((a - b) + c) + (e - d) = (a - (b + d)) + (c + e)
    BY <2>7
  <2> QED BY <2>6, <2>8, Zenon
<1> QED BY <1>4, <1>5, <1>6, Zenon DEF Swapped

\* The loop over the ids of a call, as the fold that Replace is.
Indices(ids) == [k \in DOMAIN ids |-> k]
SwapFrom(h, list, ids, newIds, s) ==
    IF s = {} THEN list ELSE Swap(h[s \ {Max(s)}], ids, newIds, Indices(ids)[Max(s)])
IsSwapping(h, list, ids, newIds) ==
    h = [s \in SUBSET DOMAIN Indices(ids) |-> SwapFrom(h, list, ids, newIds, s)]

\* Replacing the items of a call takes out what the ids weigh and puts in what
\* the new ids weigh, for every way of weighing items: counting one of them, or
\* adding up the prices.
LEMMA ReplaceTotals ==
    ASSUME NEW list \in Seq(Items), NEW ids \in Seq(Items), NEW newIds \in Seq(Items),
           Len(ids) = Len(newIds), HeldBy(list, ids)
    PROVE  /\ Replace(list, ids, newIds) \in Seq(Items)
           /\ \A w \in [Items -> Int] :
                Total(w, Replace(list, ids, newIds))
                  = (Total(w, list) - Total(w, ids)) + Total(w, newIds)
<1> DEFINE n == Len(ids)
           V == Seq(Items)
           step == [p \in V \X Positions(n) |-> Swap(p[1], ids, newIds, p[2])]
<1>1. /\ n \in Nat /\ DOMAIN ids = Positions(n) /\ DOMAIN newIds = Positions(n)
      /\ \A k \in Positions(n) : ids[k] \in Items /\ newIds[k] \in Items
  BY DEF Positions
<1>2. ASSUME NEW l \in V, NEW k \in Positions(n) PROVE Swap(l, ids, newIds, k) \in V
  <2> DEFINE y == newIds[k]
             j == FirstAt(l, ids[k])
  <2>1. y \in Items
    BY <1>1
  <2> HIDE DEF y, j
  <2>2. [l EXCEPT ![j] = y] \in Seq(Items)
    <3>1. Len(l) \in Nat /\ l \in [1..Len(l) -> Items]
      OBVIOUS
    <3>2. [l EXCEPT ![j] = y] \in [1..Len(l) -> Items]
      BY <2>1, <3>1
    <3> QED BY <3>1, <3>2, SeqDef
  <2> QED BY <2>2 DEF Swap, y, j
<1>0. n \in Nat /\ DOMAIN Indices(ids) = Positions(n) /\ \A k \in Positions(n) : Indices(ids)[k] = k
  BY DEF Indices, Positions
<1> HIDE DEF n, V
<1>3. /\ step \in FoldSteps(V, n)
      /\ \A l \in V, k \in Positions(n) : step[<<l, k>>] = Swap(l, ids, newIds, k)
  BY <1>2 DEF FoldSteps
<1> HIDE DEF step
<1>4. list \in V
  BY DEF V
<1>5. PICK g : IsFold(g, step, list, SUBSET Positions(n))
  BY <1>0, FoldExists
<1>6. /\ \A s \in SUBSET Positions(n) : g[s] \in V
      /\ \A s \in SUBSET Positions(n) : s # {} => Max(s) \in s
  BY <1>0, <1>3, <1>4, <1>5, FoldType, LargestIn
<1>7. IsSwapping(g, list, ids, newIds)
  <2>1. ASSUME NEW s \in SUBSET Positions(n)
        PROVE  Folded(step, list, g, s) = SwapFrom(g, list, ids, newIds, s)
    BY <1>0, <1>3, <1>6 DEF Folded, SwapFrom
  <2> QED BY <1>0, <1>5, <2>1 DEF IsFold, IsSwapping
<1>8. Replace(list, ids, newIds) = (CHOOSE h : IsSwapping(h, list, ids, newIds))[Positions(n)]
  <2>1. Replace(list, ids, newIds)
          = (CHOOSE h : IsSwapping(h, list, ids, newIds))[DOMAIN Indices(ids)]
    BY DEF Replace, FoldLeft, MapThenFoldSet, IsSwapping, SwapFrom, Swap, Indices
  <2> QED BY <1>0, <2>1
<1>9. PICK h : IsSwapping(h, list, ids, newIds) /\ Replace(list, ids, newIds) = h[Positions(n)]
  BY <1>7, <1>8
<1>10. FoldsAlike(h, step, list, V, n)
  <2>1. \A s \in SUBSET Positions(n) : h[s] = SwapFrom(h, list, ids, newIds, s)
    BY <1>0, <1>9 DEF IsSwapping
  <2> QED BY <1>0, <1>3, <1>6, <2>1 DEF SwapFrom, FoldsAlike
<1>11. Runs(h, step, list, n)
  <2>1. n \in Nat
    BY <1>0
  <2> QED BY <1>3, <1>4, <1>5, <1>10, <2>1, FoldRuns
<1> DEFINE Good(k) == h[Positions(k)] \in Seq(Items) /\ Swapped(h[Positions(k)], list, ids, newIds, k)
           T == {k \in Nat : k <= n => Good(k)}
<1>12. 0 \in T
  <2>1. ASSUME NEW w \in [Items -> Int]
        PROVE  Total(w, list) = (Total(w, list) - TotalTo(w, ids, 0)) + TotalTo(w, newIds, 0)
    BY TotalAlong, TotalToSteps
  <2> QED BY <1>11, <2>1 DEF Swapped, Runs
<1>13. ASSUME NEW k \in Nat, k \in T PROVE k + 1 \in T
  <2> SUFFICES ASSUME k + 1 <= n PROVE Good(k + 1)
    OBVIOUS
  <2> DEFINE l == h[Positions(k)]
  <2>1. k < n /\ k <= n /\ k + 1 \in Positions(n) /\ k < Len(ids)
    BY <1>1 DEF n, Positions
  <2>2. l \in Seq(Items) /\ Swapped(l, list, ids, newIds, k)
    BY <1>13, <2>1
  <2>3. h[Positions(k + 1)] = Swap(l, ids, newIds, k + 1)
    BY <1>3, <1>11, <2>1, <2>2 DEF V, Runs
  <2> HIDE DEF l
  <2>4. /\ Swap(l, ids, newIds, k + 1) \in Seq(Items)
        /\ Swapped(Swap(l, ids, newIds, k + 1), list, ids, newIds, k + 1)
    BY <2>1, <2>2, SwapStep
  <2> QED BY <2>3, <2>4, Zenon
<1>14. Good(n)
  <2>1. \A k \in Nat : k \in T
    <3> HIDE DEF T
    <3> QED BY <1>12, <1>13, Induction
  <2> QED BY <1>1, <2>1
<1> DEFINE after == Replace(list, ids, newIds)
<1>15. after \in Seq(Items) /\ Swapped(after, list, ids, newIds, Len(ids))
  <2> HIDE DEF after
  <2>1. after = h[Positions(n)]
    BY <1>9, Zenon DEF after
  <2> QED BY <1>14, <2>1, Zenon DEF n
<1> HIDE DEF after
<1>16. ASSUME NEW w \in [Items -> Int]
       PROVE  Total(w, after) = (Total(w, list) - Total(w, ids)) + Total(w, newIds)
  <2>1. TotalTo(w, ids, Len(ids)) = Total(w, ids)
    BY TotalToSteps
  <2>2. TotalTo(w, newIds, Len(newIds)) = Total(w, newIds)
    BY TotalToSteps
  <2>3. Total(w, after) = (Total(w, list) - TotalTo(w, ids, Len(ids))) + TotalTo(w, newIds, Len(ids))
    BY <1>15, Zenon DEF Swapped
  <2> QED BY <2>1, <2>2, <2>3, Zenon
<1> QED BY <1>15, <1>16 DEF after

-------------------------------------------------------------------------------
(* Payment histories, item lists and gift cards *)

ItemsOK == items \in [Orders -> Seq(Items)]

\* The inductive invariant of the money: what an order's history adds up to
\* matters to its items, and what all the histories say of a card to its
\* balance; the checks of PendingLedger make the tools move the right amounts.
MoneyInv == LedgerInv /\ ItemsOK /\ PaidInFull /\ CardsMatchLedgers

\* One history is replaced by another.
LEMMA NetOnCardChange ==
    ASSUME NEW L \in [Orders -> Seq(Entry)], NEW o \in Orders, NEW g \in Seq(Entry), NEW c
    PROVE  /\ NetOnCard(L, c) \in Int
           /\ NetOnCard([L EXCEPT ![o] = g], c)
                = NetOnCard(L, c) + (PaidBy(g, c) - PaidBy(L[o], c))
<1> DEFINE M == [L EXCEPT ![o] = g]
           before == [p \in Orders |-> PaidBy(L[p], c)]
           after == [p \in Orders |-> PaidBy(M[p], c)]
<1>1. IsFiniteSet(Orders)
  BY StoreAssumptions DEF StoreAssumptions, ConstantsAssumption
<1>2. \A h \in Seq(Entry) : PaidBy(h, c) \in Int
  BY LedgerTotals
<1>3. /\ M \in [Orders -> Seq(Entry)] /\ M[o] = g
      /\ \A p \in Orders \ {o} : M[p] = L[p]
  OBVIOUS
<1>4. /\ \A p \in Orders : before[p] \in Int /\ after[p] \in Int
      /\ \A p \in Orders \ {o} : before[p] = after[p]
      /\ after[o] = PaidBy(g, c) /\ before[o] = PaidBy(L[o], c)
  <2> HIDE DEF M
  <2> QED BY <1>2, <1>3
<1>5. /\ NetOnCard(L, c) = SumFunctionOnSet(before, Orders)
      /\ NetOnCard(M, c) = SumFunctionOnSet(after, Orders)
  BY DEF NetOnCard, SumFunction
<1> HIDE DEF before, after, M
<1>6. SumFunctionOnSet(before, Orders) \in Int
  BY <1>1, <1>4, SumType
<1>7. SumFunctionOnSet(after, Orders) = SumFunctionOnSet(before, Orders) + (after[o] - before[o])
  BY <1>1, <1>4, SumChange
<1>8. NetOnCard(M, c) = NetOnCard(L, c) + (PaidBy(g, c) - PaidBy(L[o], c))
  BY <1>4, <1>5, <1>7, Zenon
<1> QED BY <1>5, <1>6, <1>8 DEF M

\* A step that changes one history, and the balances by as much.
LEMMA LedgerChange ==
    ASSUME MoneyInv, NEW o \in Orders, NEW g \in Seq(Entry),
           history' = [history EXCEPT ![o] = g],
           \A c \in GiftCards :
              /\ balance'[c] \in Int
              /\ balance'[c] + PaidBy(g, c) = balance[c] + PaidBy(history[o], c)
    PROVE  CardsMatchLedgers'
<1> DEFINE placed == [p \in Orders |-> InitOrders[p].history]
<1>1. SUFFICES ASSUME NEW c \in GiftCards
               PROVE  balance'[c] + NetOnCard(history', c)
                        = InitBalance[c] + NetOnCard(placed, c)
  BY DEF CardsMatchLedgers
<1>2. balance[c] + NetOnCard(history, c) = InitBalance[c] + NetOnCard(placed, c)
  BY DEF MoneyInv, CardsMatchLedgers
<1> HIDE DEF placed
<1>3. history \in [Orders -> Seq(Entry)] /\ balance[c] \in Int /\ history[o] \in Seq(Entry)
  BY DEF MoneyInv, LedgerInv, RecordsOK
<1>4. /\ NetOnCard(history, c) \in Int
      /\ NetOnCard(history', c)
           = NetOnCard(history, c) + (PaidBy(g, c) - PaidBy(history[o], c))
  <2>1. /\ NetOnCard(history, c) \in Int
        /\ NetOnCard([history EXCEPT ![o] = g], c)
             = NetOnCard(history, c) + (PaidBy(g, c) - PaidBy(history[o], c))
    BY <1>3, NetOnCardChange
  <2> QED BY <2>1, Zenon
<1>5. PaidBy(g, c) \in Int /\ PaidBy(history[o], c) \in Int
  BY <1>3, LedgerTotals
<1> DEFINE b == balance[c]
           after == balance'[c]
           n == NetOnCard(history, c)
           p == PaidBy(g, c)
           q == PaidBy(history[o], c)
<1>6. /\ b \in Int /\ after \in Int /\ n \in Int /\ p \in Int /\ q \in Int
      /\ after + p = b + q
  BY <1>1, <1>3, <1>4, <1>5
<1> HIDE DEF b, after, n, p, q
<1>7. after + (n + (p - q)) = b + n
  BY <1>6
<1> QED BY <1>2, <1>4, <1>7, Zenon DEF b, after, n, p, q

\* Every refund of a cancellation is the opposite of an amount that it credits.
LEMMA RefundsOf ==
    ASSUME NEW h \in Seq(Entry), NEW c
    PROVE  LET refunds == [k \in DOMAIN h |-> Refund(h[k].amount, h[k].method)] IN
           /\ refunds \in Seq(Entry)
           /\ PaidBy(h \o refunds, c) = PaidBy(h, c) - CancelCredit(h, c)
<1> DEFINE refunds == [k \in DOMAIN h |-> Refund(h[k].amount, h[k].method)]
<1>1. /\ Len(h) \in Nat /\ DOMAIN h = 1..Len(h)
      /\ \A k \in DOMAIN h : h[k] \in Entry /\ Refund(h[k].amount, h[k].method) \in Entry
  BY EntryFields
<1>2. refunds \in Seq(Entry) /\ Len(refunds) = Len(h)
  <2>1. refunds \in [1..Len(h) -> Entry]
    BY <1>1
  <2> QED BY <1>1, <2>1, SeqDef
<1>3. ASSUME NEW k \in DOMAIN h
      PROVE  AmountsOn(c)[refunds[k]] = -CreditOn(c)[h[k]]
  <2> DEFINE e == h[k]
             r == Refund(e.amount, e.method)
  <2>1. /\ e \in Entry /\ r \in Entry /\ refunds[k] = r
        /\ e.amount \in Nat /\ r.method = e.method /\ Paid(r) = -e.amount
    BY <1>1, EntryFields DEF Refund, Paid
  <2> HIDE DEF e, r, refunds
  <2>2. /\ AmountsOn(c)[r] = IF e.method = c THEN -e.amount ELSE 0
        /\ CreditOn(c)[e] = IF e.method = c THEN e.amount ELSE 0
    BY <2>1 DEF AmountsOn, CreditOn
  <2>3. -CreditOn(c)[e] = IF e.method = c THEN -e.amount ELSE 0
    BY <2>1, <2>2
  <2> QED BY <2>1, <2>2, <2>3 DEF e
<1> HIDE DEF refunds
<1>4. Opposite(CreditOn(c), h, AmountsOn(c), refunds)
  BY <1>2, <1>3 DEF Opposite
<1>5. Total(CreditOn(c), h) + Total(AmountsOn(c), refunds) = 0
  <2>1. AmountsOn(c) \in [Entry -> Int] /\ CreditOn(c) \in [Entry -> Int]
    BY AmountsType
  <2>2. refunds \in Seq(Entry)
    BY <1>2
  <2> QED BY <1>4, <2>1, <2>2, TotalNegated
<1>6. Total(AmountsOn(c), h \o refunds) = Total(AmountsOn(c), h) + Total(AmountsOn(c), refunds)
  BY <1>2, AmountsType, TotalConcat
<1>7. h \o refunds \in Seq(Entry)
  BY <1>2
<1>8. /\ PaidBy(h \o refunds, c) = Total(AmountsOn(c), h \o refunds)
      /\ PaidBy(h, c) = Total(AmountsOn(c), h) /\ PaidBy(h, c) \in Int
      /\ CancelCredit(h, c) = Total(CreditOn(c), h) /\ CancelCredit(h, c) \in Nat
  BY <1>7, LedgerTotals
<1>9. PaidBy(h \o refunds, c) = PaidBy(h, c) + Total(AmountsOn(c), refunds)
  BY <1>6, <1>8, Zenon
<1>10. CancelCredit(h, c) + Total(AmountsOn(c), refunds) = 0
  BY <1>5, <1>8, Zenon
<1>11. Total(AmountsOn(c), refunds) \in Int
  BY <1>2, AmountsType, TotalAlong
<1>12. PaidBy(h \o refunds, c) = PaidBy(h, c) - CancelCredit(h, c)
  <2> DEFINE a == Total(AmountsOn(c), refunds)
             b == PaidBy(h, c)
             d == CancelCredit(h, c)
  <2>1. a \in Int /\ b \in Int /\ d \in Int /\ d + a = 0 /\ PaidBy(h \o refunds, c) = b + a
    BY <1>8, <1>9, <1>10, <1>11
  <2> HIDE DEF a, b, d
  <2>2. b + a = b - d
    BY <2>1
  <2>3. PaidBy(h \o refunds, c) = b - d
    BY <2>1, <2>2
  <2> QED BY <2>3 DEF b, d
<1> QED BY <1>2, <1>12 DEF refunds

\* What the two kinds of entries weigh.
LEMMA EntryAmounts ==
    ASSUME NEW a \in Nat, NEW m \in Methods, NEW c
    PROVE  /\ Payment(a, m) \in Entry /\ Refund(a, m) \in Entry
           /\ Amounts[Payment(a, m)] = a /\ Amounts[Refund(a, m)] = -a
           /\ AmountsOn(c)[Payment(a, m)] = IF m = c THEN a ELSE 0
           /\ AmountsOn(c)[Refund(a, m)] = IF m = c THEN -a ELSE 0
<1>1. Payment(a, m) \in Entry /\ Refund(a, m) \in Entry
  BY DEF Payment, Refund, Entry
<1>2. /\ Paid(Payment(a, m)) = a /\ Payment(a, m).method = m
      /\ Paid(Refund(a, m)) = -a /\ Refund(a, m).method = m
  BY DEF Paid, Payment, Refund
<1> QED BY <1>1, <1>2 DEF Amounts, AmountsOn

\* Cancelling credits each card with what its refunds take from the history.
LEMMA CancelMoney ==
    ASSUME MoneyInv, NEW o \in Orders, CancelPendingOrder(o)
    PROVE  ItemsOK' /\ PaidInFull' /\ CardsMatchLedgers'
<1> DEFINE h == history[o]
           refunds == [k \in DOMAIN h |-> Refund(h[k].amount, h[k].method)]
<1>1. /\ history \in [Orders -> Seq(Entry)] /\ status \in [Orders -> Statuses]
      /\ balance \in [GiftCards -> Int] /\ h \in Seq(Entry)
  BY DEF MoneyInv, LedgerInv, RecordsOK
<1>2. /\ history' = [history EXCEPT ![o] = h \o refunds]
      /\ status' = [status EXCEPT ![o] = "cancelled"]
      /\ balance' = [c \in GiftCards |-> balance[c] + CancelCredit(h, c)]
      /\ items' = items
  BY DEF CancelPendingOrder
<1>3. refunds \in Seq(Entry)
      /\ \A c : PaidBy(h \o refunds, c) = PaidBy(h, c) - CancelCredit(h, c)
  BY <1>1, RefundsOf
<1> HIDE DEF refunds, h
<1>4. h \o refunds \in Seq(Entry)
  BY <1>1, <1>3
<1>5. ASSUME NEW c \in GiftCards
      PROVE  /\ balance'[c] \in Int
             /\ balance'[c] + PaidBy(h \o refunds, c) = balance[c] + PaidBy(h, c)
  <2>1. /\ PaidBy(h \o refunds, c) = PaidBy(h, c) - CancelCredit(h, c)
        /\ PaidBy(h, c) \in Int /\ CancelCredit(h, c) \in Int /\ balance[c] \in Int
        /\ balance'[c] = balance[c] + CancelCredit(h, c)
    BY <1>1, <1>2, <1>3, LedgerTotals
  <2> QED BY <2>1
<1>6. CardsMatchLedgers'
  BY <1>2, <1>4, <1>5, LedgerChange DEF h
<1>7. PaidInFull'
  <2>1. \A p \in Orders \ {o} : history'[p] = history[p] /\ status'[p] = status[p]
    BY <1>1, <1>2
  <2>2. status'[o] = "cancelled"
    BY <1>1, <1>2
  <2> QED BY <1>2, <2>1, <2>2 DEF MoneyInv, PaidInFull
<1>8. ItemsOK'
  BY <1>2 DEF MoneyInv, ItemsOK
<1> QED BY <1>6, <1>7, <1>8

\* A new method pays what the old one is refunded.
LEMMA PaymentMoney ==
    ASSUME MoneyInv, NEW o \in Orders, NEW m \in Methods,
           ModifyPendingOrderPayment(o, m)
    PROVE  ItemsOK' /\ PaidInFull' /\ CardsMatchLedgers'
<1> DEFINE h == history[o]
           a == h[1].amount
           f == h[1].method
           moved == <<Payment(a, m), Refund(a, f)>>
<1>1. /\ history \in [Orders -> Seq(Entry)] /\ status \in [Orders -> Statuses]
      /\ balance \in [GiftCards -> Int] /\ h \in Seq(Entry)
  BY DEF MoneyInv, LedgerInv, RecordsOK
<1>2. /\ history' = [history EXCEPT ![o] = h \o moved]
      /\ balance' = Debit(Debit(balance, m, a), f, -a)
      /\ items' = items /\ status' = status
      /\ f # m
  BY DEF ModifyPendingOrderPayment, CanModifyPayment
<1>3. a \in Nat /\ f \in Methods
  <2>1. Len(h) = 1
    BY DEF ModifyPendingOrderPayment, CanModifyPayment, SinglePayment, IsPending,
           MoneyInv, LedgerInv, PendingLedger
  <2>2. 1 \in DOMAIN h
    BY <1>1, <2>1, EntryFields
  <2> QED BY <1>1, <2>2, EntryFields
<1> DEFINE e1 == Payment(a, m)
           e2 == Refund(a, f)
<1> HIDE DEF h, a, f
<1>4. /\ e1 \in Entry /\ e2 \in Entry
      /\ Amounts[e1] = a /\ Amounts[e2] = -a
      /\ \A c : /\ AmountsOn(c)[e1] = IF m = c THEN a ELSE 0
                /\ AmountsOn(c)[e2] = IF f = c THEN -a ELSE 0
  BY <1>3, EntryAmounts
<1>5. moved = <<e1, e2>>
  OBVIOUS
<1> HIDE DEF moved, e1, e2
<1>6. moved \in Seq(Entry) /\ h \o moved \in Seq(Entry)
  BY <1>1, <1>4, <1>5
<1>7. ASSUME NEW w \in [Entry -> Int]
      PROVE  /\ Total(w, h \o moved) = Total(w, h) + (w[e1] + w[e2])
             /\ Total(w, h) \in Int
  <2>1. Total(w, h \o moved) = Total(w, h) + Total(w, moved)
    BY <1>1, <1>6, TotalConcat
  <2>2. Total(w, <<e1, e2>>) = w[e1] + w[e2]
    BY <1>4, TotalOfTwo
  <2>3. Total(w, h) \in Int
    BY <1>1, TotalAlong
  <2> QED BY <1>5, <2>1, <2>2, <2>3
<1>8. NetPaid(h \o moved) = NetPaid(h)
  <2>1. Total(Amounts, h \o moved) = Total(Amounts, h) + (a + (-a)) /\ Total(Amounts, h) \in Int
    BY <1>4, <1>7, AmountsType
  <2>2. Total(Amounts, h \o moved) = Total(Amounts, h)
    BY <1>3, <2>1
  <2>3. NetPaid(h) = Total(Amounts, h) /\ NetPaid(h \o moved) = Total(Amounts, h \o moved)
    BY <1>1, <1>6, LedgerTotals
  <2> QED BY <2>2, <2>3
<1>9. ASSUME NEW c \in GiftCards
      PROVE  /\ balance'[c] \in Int
             /\ balance'[c] + PaidBy(h \o moved, c) = balance[c] + PaidBy(h, c)
  <2> DEFINE b == balance[c]
             p == PaidBy(h, c)
             q == PaidBy(h \o moved, c)
             in == IF m = c THEN a ELSE 0
             out == IF f = c THEN -a ELSE 0
  <2>1. /\ p = Total(AmountsOn(c), h) /\ p \in Int
        /\ q = Total(AmountsOn(c), h \o moved)
    BY <1>1, <1>6, LedgerTotals
  <2>2. Total(AmountsOn(c), h \o moved)
          = Total(AmountsOn(c), h) + (AmountsOn(c)[e1] + AmountsOn(c)[e2])
    BY <1>7, AmountsType
  <2>3. q = p + (in + out)
    BY <1>4, <2>1, <2>2, Zenon
  <2>4. b \in Int /\ balance'[c] = (b - in) - out
    BY <1>1, <1>2, <1>3 DEF Debit
  <2>5. in \in Int /\ out \in Int
    BY <1>3
  <2> HIDE DEF b, p, q, in, out
  <2>6. balance'[c] \in Int /\ balance'[c] + q = b + p
    BY <2>1, <2>3, <2>4, <2>5
  <2> QED BY <2>6 DEF b, p, q
<1>10. CardsMatchLedgers'
  BY <1>2, <1>6, <1>9, LedgerChange DEF h
<1>11. PaidInFull'
  <2>1. \A p \in Orders \ {o} : history'[p] = history[p]
    BY <1>1, <1>2
  <2>2. history'[o] = h \o moved
    BY <1>1, <1>2
  <2>3. NetPaid(history'[o]) = NetPaid(history[o])
    BY <1>8, <2>2 DEF h
  <2> QED BY <1>2, <2>1, <2>3 DEF MoneyInv, PaidInFull
<1>12. ItemsOK'
  BY <1>2 DEF MoneyInv, ItemsOK
<1> QED BY <1>10, <1>11, <1>12

\* The entry for a difference weighs the difference, whichever its sign.
LEMMA DiffEntry ==
    ASSUME NEW d \in Int, NEW m \in Methods, NEW e,
           e = IF d > 0 THEN Payment(d, m) ELSE Refund(-d, m)
    PROVE  /\ e \in Entry /\ Amounts[e] = d
           /\ \A c : AmountsOn(c)[e] = IF m = c THEN d ELSE 0
<1>1. CASE d > 0
  BY <1>1, EntryAmounts
<1>2. CASE ~(d > 0)
  <2> DEFINE a == -d
  <2>1. a \in Nat /\ -a = d /\ e = Refund(a, m)
    BY <1>2
  <2> HIDE DEF a
  <2>2. /\ Refund(a, m) \in Entry /\ Amounts[Refund(a, m)] = -a
        /\ \A c : AmountsOn(c)[Refund(a, m)] = IF m = c THEN -a ELSE 0
    BY <2>1, EntryAmounts
  <2> QED BY <2>1, <2>2
<1> QED BY <1>1, <1>2

\* The price of the new items, less that of the old ones, is paid or refunded,
\* and it is by as much that the price of the order changes.
LEMMA ItemsMoney ==
    ASSUME MoneyInv, NEW o \in Orders, NEW m \in Methods,
           NEW ids \in ItemLists, NEW newIds \in ItemLists,
           ModifyPendingOrderItems(o, ids, newIds, m)
    PROVE  ItemsOK' /\ PaidInFull' /\ CardsMatchLedgers'
<1> DEFINE h == history[o]
           list == items[o]
           diff == DiffPrice(ids, newIds)
           entry == IF diff > 0 THEN Payment(diff, m) ELSE Refund(-diff, m)
           after == Replace(list, ids, newIds)
<1>1. /\ history \in [Orders -> Seq(Entry)] /\ status \in [Orders -> Statuses]
      /\ balance \in [GiftCards -> Int] /\ h \in Seq(Entry)
      /\ items \in [Orders -> Seq(Items)] /\ list \in Seq(Items)
      /\ ids \in Seq(Items) /\ newIds \in Seq(Items)
  BY ListsAreSeqs DEF MoneyInv, LedgerInv, RecordsOK, ItemsOK
<1>2. /\ history' = [history EXCEPT ![o] = Append(h, entry)]
      /\ balance' = Debit(balance, m, diff)
      /\ items' = [items EXCEPT ![o] = after]
      /\ status' = [status EXCEPT ![o] = "pending (item modified)"]
      /\ status[o] = "pending"
  BY DEF ModifyPendingOrderItems, CanModifyItems, IsPending
<1>3. Len(ids) = Len(newIds) /\ HeldBy(list, ids)
  BY DEF ModifyPendingOrderItems, CanModifyItems, Holds, HeldBy, Replaceable
<1>4. diff \in Int
  BY DiffPriceType
<1>5. /\ entry \in Entry /\ Amounts[entry] = diff
      /\ \A c : AmountsOn(c)[entry] = IF m = c THEN diff ELSE 0
  BY <1>4, DiffEntry
<1> HIDE DEF h, list, diff, entry, after
<1>6. Append(h, entry) \in Seq(Entry)
  BY <1>1, <1>5
<1>7. ASSUME NEW w \in [Entry -> Int]
      PROVE  Total(w, Append(h, entry)) = Total(w, h) + w[entry] /\ Total(w, h) \in Int
  BY <1>1, <1>5, TotalAppend, TotalAlong
<1>8. NetPaid(Append(h, entry)) = NetPaid(h) + diff
  <2>1. Total(Amounts, Append(h, entry)) = Total(Amounts, h) + Amounts[entry]
    BY <1>7, AmountsType
  <2>2. NetPaid(h) = Total(Amounts, h) /\ NetPaid(Append(h, entry)) = Total(Amounts, Append(h, entry))
    BY <1>1, <1>6, LedgerTotals
  <2> QED BY <1>5, <2>1, <2>2, Zenon
<1>9. ASSUME NEW c \in GiftCards
      PROVE  /\ balance'[c] \in Int
             /\ balance'[c] + PaidBy(Append(h, entry), c) = balance[c] + PaidBy(h, c)
  <2> DEFINE b == balance[c]
             p == PaidBy(h, c)
             q == PaidBy(Append(h, entry), c)
             paid == IF m = c THEN diff ELSE 0
  <2>1. /\ p = Total(AmountsOn(c), h) /\ p \in Int
        /\ q = Total(AmountsOn(c), Append(h, entry))
    BY <1>1, <1>6, LedgerTotals
  <2>2. Total(AmountsOn(c), Append(h, entry)) = Total(AmountsOn(c), h) + AmountsOn(c)[entry]
    BY <1>7, AmountsType
  <2>3. q = p + paid
    BY <1>5, <2>1, <2>2, Zenon
  <2>4. b \in Int /\ balance'[c] = b - paid /\ paid \in Int
    <3>1. balance \in [GiftCards -> Int] /\ balance' = Debit(balance, m, diff)
      BY <1>1, <1>2
    <3> QED BY <1>4, <3>1 DEF Debit
  <2> HIDE DEF b, p, q, paid
  <2>5. balance'[c] \in Int /\ balance'[c] + q = b + p
    BY <2>1, <2>3, <2>4
  <2> QED BY <2>5 DEF b, p, q
<1>10. CardsMatchLedgers'
  BY <1>2, <1>6, <1>9, LedgerChange DEF h
<1>11. /\ after \in Seq(Items)
       /\ Total(Price, after) = (Total(Price, list) - Total(Price, ids)) + Total(Price, newIds)
  <2>1. /\ after \in Seq(Items)
        /\ \A w \in [Items -> Int] :
             Total(w, after) = (Total(w, list) - Total(w, ids)) + Total(w, newIds)
    BY <1>1, <1>3, ReplaceTotals DEF after
  <2>2. Price \in [Items -> Int]
    BY <1>1, ListPriceIs
  <2> QED BY <2>1, <2>2
<1>12. ListPrice(after) = ListPrice(list) + diff
  <2>1. /\ ListPrice(after) = Total(Price, after) /\ ListPrice(list) = Total(Price, list)
        /\ ListPrice(ids) = Total(Price, ids) /\ ListPrice(newIds) = Total(Price, newIds)
    BY <1>1, <1>11, ListPriceIs
  <2>2. ListPrice(list) \in Nat /\ ListPrice(ids) \in Nat /\ ListPrice(newIds) \in Nat
    BY <1>1, ListPriceIs
  <2>3. ListPrice(after) = (ListPrice(list) - ListPrice(ids)) + ListPrice(newIds)
    BY <1>11, <2>1, Zenon
  <2>4. diff = ListPrice(newIds) - ListPrice(ids)
    BY DEF diff, DiffPrice
  <2> DEFINE a == ListPrice(list)
             b == ListPrice(ids)
             d == ListPrice(newIds)
  <2>5. a \in Int /\ b \in Int /\ d \in Int
    BY <2>2
  <2> HIDE DEF a, b, d
  <2>6. (a - b) + d = a + (d - b)
    BY <2>5
  <2> QED BY <2>3, <2>4, <2>6, Zenon DEF a, b, d
<1>13. PaidInFull'
  <2>1. \A p \in Orders \ {o} : /\ history'[p] = history[p] /\ status'[p] = status[p]
                                /\ items'[p] = items[p]
    BY <1>1, <1>2
  <2>2. history'[o] = Append(h, entry) /\ items'[o] = after
    BY <1>1, <1>2
  <2>3. NetPaid(h) = ListPrice(list)
    BY <1>2 DEF MoneyInv, PaidInFull, h, list
  <2>4. NetPaid(history'[o]) = ListPrice(items'[o])
    BY <1>8, <1>12, <2>2, <2>3
  <2> QED BY <2>1, <2>4 DEF MoneyInv, PaidInFull
<1>14. ItemsOK'
  BY <1>1, <1>2, <1>11 DEF ItemsOK
<1> QED BY <1>10, <1>13, <1>14

\* The other tools leave the payments, the items and the balances alone, and a
\* return or an exchange cancels nothing.
LEMMA OtherMoney ==
    ASSUME MoneyInv, UNCHANGED <<history, items, balance>>,
           \A o \in Orders : status'[o] # "cancelled" => status[o] # "cancelled"
    PROVE  ItemsOK' /\ PaidInFull' /\ CardsMatchLedgers'
BY DEF MoneyInv, ItemsOK, PaidInFull, CardsMatchLedgers

LEMMA NextMoney == MoneyInv /\ [Next]_vars => MoneyInv'
<1> SUFFICES ASSUME MoneyInv, [Next]_vars PROVE MoneyInv'
  OBVIOUS
<1> SUFFICES ItemsOK' /\ PaidInFull' /\ CardsMatchLedgers'
  BY NextLedger DEF MoneyInv
<1>2. status \in [Orders -> Statuses]
  BY DEF MoneyInv, LedgerInv, RecordsOK
<1>3. CASE UNCHANGED vars
  <2>1. UNCHANGED <<status, history, items, balance>>
    BY <1>3 DEF vars
  <2> QED BY <2>1, OtherMoney
<1>4. ASSUME NEW o \in Orders, CancelPendingOrder(o)
      PROVE  ItemsOK' /\ PaidInFull' /\ CardsMatchLedgers'
  BY <1>4, CancelMoney
<1>5. ASSUME NEW o \in Orders, NEW m \in Methods, ModifyPendingOrderPayment(o, m)
      PROVE  ItemsOK' /\ PaidInFull' /\ CardsMatchLedgers'
  BY <1>5, PaymentMoney
<1>6. ASSUME NEW o \in Orders, NEW m \in Methods, NEW ids \in ItemLists, NEW newIds \in ItemLists,
             ModifyPendingOrderItems(o, ids, newIds, m)
      PROVE  ItemsOK' /\ PaidInFull' /\ CardsMatchLedgers'
  BY <1>6, ItemsMoney
<1>7. ASSUME NEW o \in Orders, NEW m \in Methods, NEW ids \in ItemLists,
             \/ ReturnDeliveredOrderItems(o, ids, m)
             \/ \E newIds \in ItemLists : ExchangeDeliveredOrderItems(o, ids, newIds, m)
      PROVE  ItemsOK' /\ PaidInFull' /\ CardsMatchLedgers'
  <2>1. /\ UNCHANGED <<history, items, balance>>
        /\ status[o] = "delivered" /\ \E s \in Statuses : status' = [status EXCEPT ![o] = s]
    BY <1>7 DEF ReturnDeliveredOrderItems, ExchangeDeliveredOrderItems, Statuses,
                CanReturn, CanExchange, IsDelivered
  <2>2. \A p \in Orders : status'[p] # "cancelled" => status[p] # "cancelled"
    BY <1>2, <2>1
  <2> QED BY <2>1, <2>2, OtherMoney
<1>8. ASSUME NEW a \in Addresses,
             \/ \E o \in Orders : ModifyPendingOrderAddress(o, a)
             \/ \E u \in Users : ModifyUserAddress(u, a)
      PROVE  ItemsOK' /\ PaidInFull' /\ CardsMatchLedgers'
  <2>1. UNCHANGED <<status, history, items, balance>>
    BY <1>8 DEF ModifyPendingOrderAddress, ModifyUserAddress
  <2> QED BY <2>1, OtherMoney
<1>9. CASE Next
  <2>1. CASE \E o \in Orders :
               \/ CancelPendingOrder(o)
               \/ \E m \in Methods : ModifyPendingOrderPayment(o, m)
               \/ \E a \in Addresses : ModifyPendingOrderAddress(o, a)
    BY <1>4, <1>5, <1>8, <2>1
  <2>2. CASE \E o \in Orders, ids \in ItemLists, m \in Methods :
               \/ ReturnDeliveredOrderItems(o, ids, m)
               \/ \E newIds \in ItemLists :
                    \/ ModifyPendingOrderItems(o, ids, newIds, m)
                    \/ ExchangeDeliveredOrderItems(o, ids, newIds, m)
    BY <1>6, <1>7, <2>2
  <2>3. CASE \E u \in Users, a \in Addresses : ModifyUserAddress(u, a)
    BY <1>8, <2>3
  <2> QED BY <1>9, <2>1, <2>2, <2>3 DEF Next
<1> QED BY <1>3, <1>9

\* An order that is not cancelled was paid the price of its items.
LEMMA InitMoney == Init => MoneyInv
<1> SUFFICES ASSUME Init PROVE MoneyInv
  OBVIOUS
<1>1. ItemsOK
  BY InitOrderFacts DEF Init, ItemsOK
<1>2. PaidInFull
  <2>1. ASSUME NEW o \in Orders, status[o] # "cancelled"
        PROVE  NetPaid(history[o]) = ListPrice(items[o])
    <3>1. PICK m \in Methods, amount \in Nat :
            /\ amount = ListPrice(InitOrders[o].items)
            /\ InitOrders[o].history = IF InitOrders[o].status = "cancelled"
                                       THEN <<Payment(amount, m), Refund(amount, m)>>
                                       ELSE <<Payment(amount, m)>>
      BY InitOrderFacts
    <3> DEFINE e == Payment(amount, m)
    <3>2. history[o] = <<e>> /\ items[o] = InitOrders[o].items
      BY <2>1, <3>1 DEF Init
    <3>3. e \in Entry /\ Amounts[e] = amount
      BY EntryAmounts
    <3> HIDE DEF e
    <3>4. <<e>> \in Seq(Entry) /\ Total(Amounts, <<e>>) = amount
      BY <3>3, AmountsType, TotalOfOne
    <3> QED BY <3>1, <3>2, <3>4, LedgerTotals
  <2> QED BY <2>1 DEF PaidInFull
<1>3. CardsMatchLedgers
  BY DEF Init, CardsMatchLedgers
<1> QED BY <1>1, <1>2, <1>3, InitLedger DEF MoneyInv

\* Through every change of items and of method, what was paid for an order, less
\* what was refunded, is the price of what it holds.
THEOREM AlwaysPaidInFull == Spec => []PaidInFull
BY InitMoney, NextMoney, PTL DEF Spec, MoneyInv

\* No money moves on a gift card without an entry in a payment history, nor the
\* other way round.
THEOREM CardsBalance == Spec => []CardsMatchLedgers
BY InitMoney, NextMoney, PTL DEF Spec, MoneyInv

\* Every exchange of items that a pending order accepts swaps exactly what the
\* call names, whatever the lists and however their ids are chained.
THEOREM SwapsAreExact == Spec => []SwapsExactly
<1>1. MoneyInv => SwapsExactly
  <2> SUFFICES ASSUME MoneyInv, NEW o \in Orders, NEW ids \in ItemLists, NEW newIds \in ItemLists,
                      Holds(o, ids), Replaceable(ids, newIds), NEW x \in Items
               PROVE  Count(x, Replace(items[o], ids, newIds))
                        = Count(x, items[o]) - Count(x, ids) + Count(x, newIds)
    BY DEF SwapsExactly
  <2> DEFINE list == items[o]
             after == Replace(list, ids, newIds)
             w == Mark(x)
  <2>1. list \in Seq(Items) /\ ids \in Seq(Items) /\ newIds \in Seq(Items)
    BY ListsAreSeqs DEF MoneyInv, ItemsOK
  <2>2. Len(ids) = Len(newIds) /\ HeldBy(list, ids)
    BY DEF Holds, HeldBy, Replaceable
  <2> HIDE DEF list, after
  <2>3. /\ after \in Seq(Items)
        /\ \A v \in [Items -> Int] :
             Total(v, after) = (Total(v, list) - Total(v, ids)) + Total(v, newIds)
    BY <2>1, <2>2, ReplaceTotals DEF after
  <2>4. /\ w \in [Items -> Int]
        /\ Count(x, after) = Total(w, after) /\ Count(x, list) = Total(w, list)
        /\ Count(x, ids) = Total(w, ids) /\ Count(x, newIds) = Total(w, newIds)
    BY <2>1, <2>3, CountIs
  <2> HIDE DEF w
  <2>5. Count(x, after) = (Count(x, list) - Count(x, ids)) + Count(x, newIds)
    BY <2>3, <2>4
  <2> QED BY <2>5 DEF after, list
<1> QED BY <1>1, InitMoney, NextMoney, PTL DEF Spec

-------------------------------------------------------------------------------

\* Every accepted call is a step of the life cycle of one order, or of none.
LEMMA NextLifecycle ==
    ASSUME MoneyInv, [Next]_vars
    PROVE  [Lifecycle!LifecycleNext]_(Lifecycle!lifecycleVars)
<1>0. RecordsOK /\ DOMAIN items = Orders
  BY DEF MoneyInv, LedgerInv, ItemsOK
<1> USE <1>0 DEF Lifecycle!Others, Lifecycle!Amend, Lifecycle!Close, Lifecycle!Closings
<1>1. ASSUME NEW o \in Orders, CancelPendingOrder(o)
      PROVE  Lifecycle!Close(o)
  BY <1>1 DEF CancelPendingOrder, IsPending, RecordsOK
<1>2. ASSUME NEW o \in Orders, NEW ids, NEW newIds, NEW m,
             ModifyPendingOrderItems(o, ids, newIds, m)
      PROVE  Lifecycle!Close(o)
  <2>1. /\ \A p \in Orders \ {o} : items'[p] = items[p] /\ history'[p] = history[p]
        /\ status[o] = "pending"
        /\ status' = [status EXCEPT ![o] = "pending (item modified)"]
        /\ UNCHANGED <<address, request>>
    BY <1>2 DEF ModifyPendingOrderItems, CanModifyItems, IsPending, RecordsOK
  <2>2. Lifecycle!Others(o)
    BY <2>1 DEF RecordsOK
  <2>3. status'[o] = "pending (item modified)"
    BY <2>1 DEF RecordsOK
  <2>4. QED
    BY <2>1, <2>2, <2>3
<1>3. ASSUME NEW o \in Orders, NEW m, ModifyPendingOrderPayment(o, m)
      PROVE  Lifecycle!Amend(o)
  BY <1>3 DEF ModifyPendingOrderPayment, CanModifyPayment, IsPending, RecordsOK
<1>4. ASSUME NEW o \in Orders, NEW a, ModifyPendingOrderAddress(o, a)
      PROVE  Lifecycle!Amend(o)
  BY <1>4 DEF ModifyPendingOrderAddress, IsPending, RecordsOK
<1>5. ASSUME NEW o \in Orders, NEW ids, NEW newIds, NEW m,
             \/ ReturnDeliveredOrderItems(o, ids, m)
             \/ ExchangeDeliveredOrderItems(o, ids, newIds, m)
      PROVE  Lifecycle!Close(o)
  <2>1. /\ \A p \in Orders \ {o} : request'[p] = request[p]
        /\ status[o] = "delivered"
        /\ \E s \in {"return requested", "exchange requested"} :
              status' = [status EXCEPT ![o] = s]
        /\ UNCHANGED <<items, history, address>>
    BY <1>5 DEF ReturnDeliveredOrderItems, ExchangeDeliveredOrderItems, CanReturn, CanExchange,
                IsDelivered, RecordsOK
  <2>2. Lifecycle!Others(o)
    BY <2>1 DEF RecordsOK
  <2>3. status'[o] \in {"return requested", "exchange requested"}
    BY <2>1 DEF RecordsOK
  <2>4. QED
    BY <2>1, <2>2, <2>3
<1>6. ASSUME \/ UNCHANGED vars
             \/ \E u \in Users, a \in Addresses : ModifyUserAddress(u, a)
      PROVE  UNCHANGED Lifecycle!lifecycleVars
  BY <1>6 DEF vars, ModifyUserAddress, Lifecycle!lifecycleVars
<1> HIDE DEF Lifecycle!Others, Lifecycle!Amend, Lifecycle!Close, Lifecycle!Closings
<1>7. CASE Next
  BY <1>1, <1>2, <1>3, <1>4, <1>5, <1>6, <1>7 DEF Next, Lifecycle!LifecycleNext
<1>8. QED
  BY <1>6, <1>7

\* The seven tools, called with any arguments in any order, implement the life
\* cycle: one call closes an open order, and a closed order is frozen.
THEOREM ImplementsLifecycle == Spec => LifecycleSpec
BY InitMoney, NextMoney, NextLifecycle, PTL
   DEF Spec, LifecycleSpec, Lifecycle!LifecycleSpec

-------------------------------------------------------------------------------
(* Step credit over the store *)

\* What calculate_reward has yet to replay it replays on a database no write of
\* the agent stands in; and until there is a transfer all its writes stand.
HistoryOK ==
    /\ standing \subseteq writes
    /\ replay \in Seq(Calls)
    /\ replay # <<>> => transferred /\ standing = {}
    /\ ~ transferred => standing = writes

\* What the standing writes leave behind: each one-shot tool moves its order to
\* a status, or to a payment history, in which the tool refuses it; and before
\* a transfer nothing but a recorded write gives a pending order its second and
\* third entry.
WritesLeaveMarks ==
    /\ \A w \in standing :
         /\ w \in Calls
         /\ w.tool \in OrderTools => w.order \in Orders
         /\ w.tool \in {"cancel_pending_order", "modify_pending_order_items"} =>
              status[w.order] # "pending"
         /\ w.tool \in DeliveredTools => status[w.order] # "delivered"
         /\ w.tool = "modify_pending_order_payment" /\ status[w.order] = "pending" =>
              Len(history[w.order]) = 3
    /\ \A o \in Orders : ~ transferred /\ status[o] = "pending" /\ Len(history[o]) = 3 =>
         \E w \in writes : w.tool = "modify_pending_order_payment" /\ w.order = o

CreditInv == LedgerInv /\ HistoryOK /\ WritesLeaveMarks

-------------------------------------------------------------------------------

\* The fields of a call.
LEMMA CallFields ==
    ASSUME NEW c \in Calls
    PROVE  /\ c.tool \in OrderTools \cup {"modify_user_address"}
           /\ c.tool \in OrderTools => c.order \in OrderIds
           /\ c.tool \in PaymentTools => c.method \in Methods
           /\ c.tool \in ItemTools => c.ids \in ItemLists
           /\ c.tool \in VariantTools => c.newIds \in ItemLists
           /\ c.tool = "modify_pending_order_address" => c.address \in Addresses
           /\ c.tool = "modify_user_address" =>
                c.user \in Users \cup {NoUser} /\ c.address \in Addresses
BY DEF Calls, OrderTools, PendingTools, DeliveredTools, PaymentTools, ItemTools,
       VariantTools

\* An accepted call is a step of the database.
LEMMA InvokeIsNext ==
    ASSUME NEW c \in Calls, Accepts(c), Invoke(c)
    PROVE  Next
<1>1. CASE c.tool = "cancel_pending_order"
  BY <1>1 DEF Accepts, Invoke, Next
<1>2. CASE c.tool = "modify_pending_order_address"
  BY <1>2, CallFields DEF Accepts, Invoke, Next
<1>3. CASE c.tool = "modify_pending_order_payment"
  BY <1>3, CallFields DEF Accepts, Invoke, Next, PaymentTools
<1>4. CASE c.tool = "modify_pending_order_items"
  BY <1>4, CallFields DEF Accepts, Invoke, Next, PaymentTools, ItemTools, VariantTools
<1>5. CASE c.tool = "return_delivered_order_items"
  BY <1>5, CallFields DEF Accepts, Invoke, Next, PaymentTools, ItemTools, DeliveredTools
<1>6. CASE c.tool = "exchange_delivered_order_items"
  BY <1>6, CallFields
     DEF Accepts, Invoke, Next, PaymentTools, ItemTools, VariantTools, DeliveredTools
<1>7. CASE c.tool = "modify_user_address"
  BY <1>7, CallFields DEF Accepts, Invoke, Next
<1>8. QED
  BY <1>1, <1>2, <1>3, <1>4, <1>5, <1>6, <1>7, CallFields
     DEF OrderTools, PendingTools, DeliveredTools

\* What an accepted call does to the statuses and the histories.
LEMMA InvokeMarks ==
    ASSUME LedgerInv, NEW c \in Calls, Accepts(c), Invoke(c)
    PROVE  /\ c.tool \in OrderTools => c.order \in Orders
           /\ \A o \in Orders :
                /\ status'[o] \in {"pending", "delivered"} => status'[o] = status[o]
                /\ status'[o] = "pending" /\ history'[o] # history[o] =>
                     /\ c.tool = "modify_pending_order_payment" /\ c.order = o
                     /\ Len(history'[o]) = 3 /\ Len(history[o]) = 1
           /\ c.tool \in {"cancel_pending_order", "modify_pending_order_items"} =>
                status'[c.order] # "pending"
           /\ c.tool \in DeliveredTools => status'[c.order] # "delivered"
           /\ c.tool = "modify_pending_order_payment" => Len(history'[c.order]) = 3
<1> USE DEF LedgerInv, RecordsOK, DeliveredTools, OrderTools, PendingTools
<1>1. CASE c.tool = "cancel_pending_order"
  BY <1>1 DEF Accepts, Invoke, CancelPendingOrder, IsPending
<1>2. CASE c.tool = "modify_pending_order_address"
  BY <1>2 DEF Accepts, Invoke, ModifyPendingOrderAddress
<1>3. CASE c.tool = "modify_pending_order_payment"
  <2> DEFINE o == c.order
             h == history[o]
             moved == <<Payment(h[1].amount, c.method), Refund(h[1].amount, h[1].method)>>
  <2>1. o \in Orders /\ CanModifyPayment(o, c.method) /\ c.method \in Methods
    BY <1>3, CallFields DEF Accepts, PaymentTools
  <2>2. h \in Seq(Entry) /\ Len(h) = 1
    BY <2>1 DEF CanModifyPayment, SinglePayment, PendingLedger, IsPending
  <2>3. Payment(h[1].amount, c.method) \in Entry /\ Refund(h[1].amount, h[1].method) \in Entry
    <3>1. 1 \in DOMAIN h
      BY <2>2, EntryFields
    <3>2. h[1].amount \in Nat /\ h[1].method \in Methods
      BY <2>2, <3>1, EntryFields
    <3>3. QED
      BY <2>1, <3>2 DEF Payment, Refund, Entry
  <2>4. /\ Len(h \o moved) = 3 /\ (h \o moved)[1] = h[1]
        /\ (h \o moved)[2] = Payment(h[1].amount, c.method)
        /\ (h \o moved)[3] = Refund(h[1].amount, h[1].method)
    BY <2>2, <2>3, AppendTwo
  <2>5. history' = [history EXCEPT ![o] = h \o moved] /\ UNCHANGED status
    BY <1>3 DEF Invoke, ModifyPendingOrderPayment
  <2> HIDE DEF moved
  <2>6. Len(history'[o]) = 3 /\ \A p \in Orders \ {o} : history'[p] = history[p]
    BY <2>1, <2>4, <2>5
  <2>7. QED
    BY <1>3, <2>1, <2>2, <2>5, <2>6
<1>4. CASE c.tool = "modify_pending_order_items"
  <2>1. /\ c.order \in Orders
        /\ status' = [status EXCEPT ![c.order] = "pending (item modified)"]
        /\ \A p \in Orders \ {c.order} : history'[p] = history[p]
    BY <1>4 DEF Accepts, Invoke, ModifyPendingOrderItems
  <2>2. QED
    BY <1>4, <2>1
<1>5. CASE c.tool = "return_delivered_order_items"
  BY <1>5 DEF Accepts, Invoke, ReturnDeliveredOrderItems
<1>6. CASE c.tool = "exchange_delivered_order_items"
  BY <1>6 DEF Accepts, Invoke, ExchangeDeliveredOrderItems
<1>7. CASE c.tool = "modify_user_address"
  BY <1>7 DEF Invoke, ModifyUserAddress
<1>8. c.tool \in {"cancel_pending_order", "modify_pending_order_address",
                  "modify_pending_order_payment", "modify_pending_order_items",
                  "return_delivered_order_items", "exchange_delivered_order_items",
                  "modify_user_address"}
  BY CallFields
<1>9. QED
  BY <1>1, <1>2, <1>3, <1>4, <1>5, <1>6, <1>7, <1>8

-------------------------------------------------------------------------------

\* No order of the data files was written to.
LEMMA InitCredit == CreditInit => CreditInv
<1> SUFFICES ASSUME CreditInit PROVE CreditInv
  OBVIOUS
<1>1. LedgerInv
  BY InitLedger DEF CreditInit
<1>2. \A o \in Orders : status[o] = "pending" => Len(history[o]) # 3
  <2> TAKE o \in Orders
  <2>1. PICK m \in Methods, amount \in Nat :
             InitOrders[o].history = IF InitOrders[o].status = "cancelled"
                                     THEN <<Payment(amount, m), Refund(amount, m)>>
                                     ELSE <<Payment(amount, m)>>
    BY InitOrderFacts
  <2>2. history[o] = InitOrders[o].history /\ status[o] = InitOrders[o].status
    BY DEF CreditInit, Init
  <2>3. QED
    BY <2>1, <2>2
<1>3. WritesLeaveMarks
  BY <1>2 DEF CreditInit, WritesLeaveMarks
<1>4. HistoryOK
  BY DEF CreditInit, HistoryOK
<1>5. QED
  BY <1>1, <1>3, <1>4 DEF CreditInv

\* An accepted write leaves its mark and erases no other.
LEMMA WriteMarks ==
    ASSUME CreditInv, NEW c \in Calls, Write(c), UNCHANGED replay, replay = <<>>
    PROVE  CreditInv'
<1>0. HistoryOK'
  BY DEF Write, Observe, Record, CreditInv, HistoryOK
<1>1. CASE ~ Accepts(c)
  BY <1>0, <1>1 DEF Write, Call, Observe, CreditInv, WritesLeaveMarks, LedgerInv,
                    RecordsOK, NoOverdraft, PendingLedger, vars
<1>2. CASE Accepts(c)
  <2>1. /\ Invoke(c) /\ writes' = writes \cup {c} /\ standing' = standing \cup {c}
        /\ transferred' = transferred
    BY <1>2 DEF Write, Call, Observe, Record
  <2>2. LedgerInv'
    BY <1>2, <2>1, InvokeIsNext, NextLedger DEF CreditInv
  <2>3. WritesLeaveMarks'
    <3>1. ASSUME NEW w \in standing
          PROVE  /\ w \in Calls
                 /\ w.tool \in OrderTools => w.order \in Orders
                 /\ w.tool \in {"cancel_pending_order", "modify_pending_order_items"} =>
                      status'[w.order] # "pending"
                 /\ w.tool \in DeliveredTools => status'[w.order] # "delivered"
                 /\ w.tool = "modify_pending_order_payment" /\ status'[w.order] = "pending" =>
                      Len(history'[w.order]) = 3
      BY <1>2, <2>1, <3>1, InvokeMarks
         DEF CreditInv, WritesLeaveMarks, OrderTools, PendingTools, DeliveredTools
    <3>2. ASSUME NEW o \in Orders, ~ transferred, status'[o] = "pending",
                 Len(history'[o]) = 3
          PROVE  \E w \in writes' : w.tool = "modify_pending_order_payment" /\ w.order = o
      BY <1>2, <2>1, <3>2, InvokeMarks DEF CreditInv, WritesLeaveMarks
    <3>3. QED
      BY <1>2, <2>1, <3>1, <3>2, InvokeMarks DEF CreditInv, WritesLeaveMarks
  <2>4. QED
    BY <1>0, <2>2, <2>3 DEF CreditInv
<1>3. QED
  BY <1>1, <1>2

\* A transfer leaves no write standing, on the database of the data files.
LEMMA TransferMarks ==
    ASSUME CreditInv, Transfer
    PROVE  CreditInv'
<1>1. Init'
  BY DEF Transfer, LoadData, Init
<1>2. LedgerInv'
  BY <1>1, InitLedger, PTL
<1>3. HistoryOK' /\ WritesLeaveMarks'
  BY GoalAssumption DEF Transfer, CreditInv, HistoryOK, WritesLeaveMarks
<1>4. QED
  BY <1>2, <1>3 DEF CreditInv

\* Nor does any stand while the target actions are replayed.
LEMMA ReplayMarks ==
    ASSUME CreditInv, replay # <<>>, ReplayGoal
    PROVE  CreditInv'
<1> DEFINE c == Head(replay)
<1>1. c \in Calls /\ Tail(replay) \in Seq(Calls)
  BY HeadTailProperties DEF CreditInv, HistoryOK
<1>2. [Next]_vars
  BY <1>1, InvokeIsNext DEF ReplayGoal, Call
<1>3. LedgerInv'
  BY <1>2, NextLedger DEF CreditInv
<1>4. HistoryOK' /\ WritesLeaveMarks'
  BY <1>1 DEF ReplayGoal, CreditInv, HistoryOK, WritesLeaveMarks, evidence
<1>5. QED
  BY <1>3, <1>4 DEF CreditInv

\* Reading and talking change nothing the invariant is about.
LEMMA NextCredit == CreditInv /\ [CreditNext]_creditVars => CreditInv'
<1> SUFFICES ASSUME CreditInv, [CreditNext]_creditVars PROVE CreditInv'
  OBVIOUS
<1>1. ASSUME UNCHANGED <<vars, writes, transferred, replay, standing>>
      PROVE  CreditInv'
  BY <1>1 DEF CreditInv, HistoryOK, WritesLeaveMarks, LedgerInv, RecordsOK,
              NoOverdraft, PendingLedger, vars
<1>2. CASE UNCHANGED creditVars
  BY <1>1, <1>2 DEF creditVars, evidence
<1>3. ASSUME NEW u \in Users, FindUser(u) \/ GetUserDetails(u), UNCHANGED replay
      PROVE  CreditInv'
  BY <1>1, <1>3 DEF FindUser, GetUserDetails
<1>4. ASSUME NEW o \in Orders, GetOrderDetails(o), UNCHANGED replay
      PROVE  CreditInv'
  BY <1>1, <1>4 DEF GetOrderDetails
<1>5. ASSUME NEW words, CustomerSpeaks(words), UNCHANGED replay
      PROVE  CreditInv'
  BY <1>1, <1>5 DEF CustomerSpeaks
<1>6. QED
  BY <1>2, <1>3, <1>4, <1>5, WriteMarks, TransferMarks, ReplayMarks
     DEF CreditNext, AgentActs

\* What every accepted write leaves behind stays.
LEMMA CreditInvariant == CreditSpec => []CreditInv
BY InitCredit, NextCredit, PTL DEF CreditSpec

-------------------------------------------------------------------------------

\* Each one-shot tool refuses the order it was used on.
LEMMA MarksRefuse == CreditInv => RepeatIsRefused
<1> SUFFICES ASSUME CreditInv, NEW c \in Calls, Accepts(c), Repeated(c),
                    c.tool \notin Repeatable, RepeatedIn(c, standing)
             PROVE  FALSE
  BY DEF RepeatIsRefused, Repeated, CreditInv, HistoryOK
<1>1. c.tool \in OrderTools \ Repeatable
  BY CallFields DEF Repeatable
<1>2. PICK w \in standing : w.tool = c.tool /\ w.order = c.order
  BY DEF RepeatedIn
<1>3. CASE c.tool \in {"cancel_pending_order", "modify_pending_order_items"}
  BY <1>2, <1>3 DEF CreditInv, WritesLeaveMarks, Accepts, IsPending, CanModifyItems
<1>4. CASE c.tool \in DeliveredTools
  BY <1>2, <1>4 DEF CreditInv, WritesLeaveMarks, Accepts, IsDelivered, CanReturn,
                    CanExchange, DeliveredTools
<1>5. CASE c.tool = "modify_pending_order_payment"
  <2>1. IsPending(c.order) /\ SinglePayment(history[c.order])
    BY <1>5 DEF Accepts, CanModifyPayment
  <2>2. Len(history[c.order]) = 3
    BY <1>2, <1>5, <2>1 DEF CreditInv, WritesLeaveMarks, IsPending
  <2>3. QED
    BY <2>1, <2>2 DEF SinglePayment
<1>6. QED
  BY <1>1, <1>3, <1>4, <1>5 DEF OrderTools, PendingTools, Repeatable

\* Whatever was called before, a one-shot tool that worked on an order works on
\* it no more, unless a transfer has undone what it did: until then the rule
\* against repeating it costs nothing to keep.
THEOREM RepeatsAreRefused == CreditSpec => []RepeatIsRefused
BY CreditInvariant, MarksRefuse, PTL

-------------------------------------------------------------------------------

\* A call names an item at least once at each of its places.
LEMMA CountPositive ==
    ASSUME NEW ids \in ItemLists, NEW k \in DOMAIN ids
    PROVE  Count(ids[k], ids) \in Nat /\ Count(ids[k], ids) > 0
<1>1. PICK n \in 0..MaxItems : ids \in [1..n -> Items]
  BY DEF ItemLists
<1> DEFINE places == {j \in DOMAIN ids : ids[j] = ids[k]}
<1>2. IsFiniteSet(1..n) /\ n \in Int
  BY FS_Interval, StoreAssumptions DEF StoreAssumptions, ConstantsAssumption
<1>3. IsFiniteSet(places) /\ places # {}
  BY <1>1, <1>2, FS_Subset
<1>4. Cardinality(places) \in Nat /\ Cardinality(places) # 0
  BY <1>3, FS_CardinalityType, FS_EmptySet
<1>5. QED
  BY <1>4 DEF Count

\* The items a call may change are items of the order.
LEMMA HeldArePairs ==
    ASSUME NEW c, c.ids \in ItemLists, Holds(c.order, c.ids)
    PROVE  Pairs(c) = DOMAIN c.ids
<1> SUFFICES ASSUME NEW k \in DOMAIN c.ids
             PROVE  \E j \in DOMAIN items[c.order] : items[c.order][j] = c.ids[k]
  BY DEF Pairs
<1> DEFINE places == {j \in DOMAIN items[c.order] : items[c.order][j] = c.ids[k]}
<1>1. Count(c.ids[k], c.ids) <= Cardinality(places)
  BY DEF Holds, Count
<1>2. Count(c.ids[k], c.ids) \in Nat /\ Count(c.ids[k], c.ids) > 0
  BY CountPositive
<1>3. places # {}
  BY <1>1, <1>2, FS_EmptySet
<1>4. QED
  BY <1>3

\* The length of the item lists of a call.
LEMMA ItemListLen ==
    ASSUME NEW ids \in ItemLists
    PROVE  Len(ids) \in Nat /\ DOMAIN ids = 1..Len(ids)
<1>1. PICK n \in 0..MaxItems : ids \in [1..n -> Items]
  BY DEF ItemLists
<1>2. n \in Nat
  BY StoreAssumptions DEF StoreAssumptions, ConstantsAssumption
<1>3. ids \in Seq(Items)
  BY <1>1, <1>2, SeqDef
<1>4. QED
  BY <1>3

-------------------------------------------------------------------------------

\* An accepted replacement breaks neither the rule of items nor those of
\* variants, and keeps every rule of payment.
LEMMA AcceptedVariants ==
    ASSUME NEW c, c.tool \in VariantTools, Holds(c.order, c.ids),
           Replaceable(c.ids, c.newIds), HasMethod(c.order, c.method),
           Covers(c.method, DiffPrice(c.ids, c.newIds)), c.ids # <<>>
    PROVE  ItemRules(c) = {} /\ VariantRules(c) = {} /\ PaymentRules(c) = {}
<1>1. ItemRules(c) = {}
  BY DEF ItemRules, Rule
<1>2. VariantRules(c) = {}
  BY DEF VariantRules, Rule, Replaceable, Pairs, SameProduct
<1>3. ~ (/\ c.method \in GiftCards
         /\ Required(c) > 0
         /\ balance[c.method] < Required(c))
  <2>1. CASE Priced(c)
    BY <2>1 DEF Required, Covers, VariantTools
  <2>2. CASE ~ Priced(c)
    BY <2>2 DEF Required, VariantTools
  <2>3. QED
    BY <2>1, <2>2
<1>4. PaymentRules(c) = {}
  BY <1>3 DEF PaymentRules, Rule, VariantTools
<1>5. QED
  BY <1>1, <1>2, <1>4

\* An order whose status a tool accepts breaks only rules that no tool knows.
LEMMA StatusRules ==
    ASSUME NEW c,
           c.tool \in PendingTools => status[c.order] = "pending",
           c.tool \in DeliveredTools => status[c.order] = "delivered"
    PROVE  OrderRules(c) \subseteq PolicyRules
BY DEF OrderRules, PolicyRules, Rule, NotPending

\* What is accepted breaks only rules that no tool knows.
LEMMA AcceptedAreClean == ImpossibleIsRefused
<1> SUFFICES ASSUME NEW c \in Calls, Accepts(c), c.tool \in ItemTools => c.ids # <<>>
             PROVE  Broken(c) \subseteq PolicyRules
  BY DEF ImpossibleIsRefused
<1>1. IdentityRules(c) \cup Rule("repeated_one_shot_write", Repeated(c)) \subseteq PolicyRules
  BY DEF IdentityRules, Rule, PolicyRules
<1>2. CASE c.tool = "modify_user_address"
  <2>1. UserRules(c) \subseteq PolicyRules
    BY <1>2 DEF UserRules, Rule, PolicyRules, Accepts
  <2>2. QED
    BY <1>1, <1>2, <2>1 DEF Broken, OrderTools, PendingTools, DeliveredTools
<1> DEFINE Parts == /\ c.order \in Orders
                    /\ OrderRules(c) \subseteq PolicyRules
                    /\ c.tool \in ItemTools => ItemRules(c) = {}
                    /\ c.tool \in VariantTools => VariantRules(c) = {}
                    /\ c.tool \in PaymentTools => PaymentRules(c) = {}
<1>3. ASSUME c.tool \in OrderTools, Parts
      PROVE  Broken(c) \subseteq PolicyRules
  BY <1>1, <1>3 DEF Broken
<1>4. CASE c.tool \in {"cancel_pending_order", "modify_pending_order_address"}
  <2>1. c.order \in Orders /\ status[c.order] = "pending"
    BY <1>4 DEF Accepts, IsPending
  <2>2. OrderRules(c) \subseteq PolicyRules
    BY <1>4, <2>1, StatusRules DEF DeliveredTools
  <2>3. QED
    BY <1>3, <1>4, <2>1, <2>2
       DEF ItemTools, VariantTools, PaymentTools, DeliveredTools, OrderTools, PendingTools
<1>5. CASE c.tool = "modify_pending_order_payment"
  <2>1. c.order \in Orders /\ CanModifyPayment(c.order, c.method)
    BY <1>5 DEF Accepts
  <2>2. OrderRules(c) \subseteq PolicyRules
    BY <1>5, <2>1, StatusRules DEF DeliveredTools, CanModifyPayment, IsPending
  <2>3. PaymentRules(c) = {}
    BY <1>5, <2>1 DEF PaymentRules, Rule, CanModifyPayment, Required, Covers,
                      VariantTools
  <2>4. QED
    BY <1>3, <1>5, <2>1, <2>2, <2>3
       DEF ItemTools, VariantTools, DeliveredTools, OrderTools, PendingTools
<1>6. CASE c.tool = "return_delivered_order_items"
  <2>1. c.order \in Orders /\ CanReturn(c.order, c.ids, c.method) /\ c.ids # <<>>
    BY <1>6 DEF Accepts, ItemTools, DeliveredTools
  <2>2. OrderRules(c) \subseteq PolicyRules
    BY <1>6, <2>1, StatusRules DEF PendingTools, CanReturn, IsDelivered
  <2>3. ItemRules(c) = {} /\ PaymentRules(c) = {}
    BY <1>6, <2>1 DEF ItemRules, PaymentRules, Rule, CanReturn, Required, VariantTools
  <2>4. QED
    BY <1>3, <1>6, <2>1, <2>2, <2>3 DEF VariantTools, DeliveredTools, OrderTools
<1>7. CASE c.tool = "modify_pending_order_items"
  <2>1. /\ c.order \in Orders /\ CanModifyItems(c.order, c.ids, c.newIds, c.method)
        /\ c.ids # <<>>
    BY <1>7 DEF Accepts, ItemTools
  <2>2. OrderRules(c) \subseteq PolicyRules
    BY <1>7, <2>1, StatusRules DEF DeliveredTools, CanModifyItems, IsPending
  <2>3. ItemRules(c) = {} /\ VariantRules(c) = {} /\ PaymentRules(c) = {}
    BY <1>7, <2>1, AcceptedVariants DEF CanModifyItems, VariantTools
  <2>4. QED
    BY <1>3, <1>7, <2>1, <2>2, <2>3 DEF OrderTools, PendingTools
<1>8. CASE c.tool = "exchange_delivered_order_items"
  <2>1. /\ c.order \in Orders /\ CanExchange(c.order, c.ids, c.newIds, c.method)
        /\ c.ids # <<>>
    BY <1>8 DEF Accepts, ItemTools, DeliveredTools
  <2>2. OrderRules(c) \subseteq PolicyRules
    BY <1>8, <2>1, StatusRules DEF PendingTools, CanExchange, IsDelivered
  <2>3. ItemRules(c) = {} /\ VariantRules(c) = {} /\ PaymentRules(c) = {}
    BY <1>8, <2>1, AcceptedVariants DEF CanExchange, VariantTools
  <2>4. QED
    BY <1>3, <1>8, <2>1, <2>2, <2>3 DEF OrderTools, DeliveredTools
<1>9. c.tool \in {"cancel_pending_order", "modify_pending_order_address",
                  "modify_pending_order_payment", "modify_pending_order_items",
                  "return_delivered_order_items", "exchange_delivered_order_items",
                  "modify_user_address"}
  BY CallFields DEF OrderTools, PendingTools, DeliveredTools
<1> HIDE DEF Parts
<1>10. QED
  BY <1>2, <1>4, <1>5, <1>6, <1>7, <1>8, <1>9

\* No accepted write is charged for a state of the database it was not in.
THEOREM ImpossibleAreRefused == CreditSpec => []ImpossibleIsRefused
BY AcceptedAreClean, PTL

-------------------------------------------------------------------------------

\* What a call that breaks no rule of variants and payment names can be paid
\* and replaced.
LEMMA CleanVariants ==
    ASSUME CreditInv, NEW c \in Calls, c.tool \in VariantTools, c.order \in Orders,
           ItemRules(c) = {}, VariantRules(c) = {}, PaymentRules(c) = {}
    PROVE  /\ Holds(c.order, c.ids)
           /\ Replaceable(c.ids, c.newIds)
           /\ HasMethod(c.order, c.method)
           /\ Covers(c.method, DiffPrice(c.ids, c.newIds))
<1>1. c.ids \in ItemLists /\ c.newIds \in ItemLists /\ c.method \in Methods
  BY CallFields DEF VariantTools, ItemTools, PaymentTools, DeliveredTools
<1>2. Holds(c.order, c.ids)
  BY DEF ItemRules, Rule
<1>3. Pairs(c) = DOMAIN c.ids
  BY <1>1, <1>2, HeldArePairs
<1>4. Replaceable(c.ids, c.newIds) /\ Priced(c)
  BY <1>3 DEF VariantRules, Rule, Replaceable, Priced, SameProduct
<1>5. HasMethod(c.order, c.method)
  BY DEF PaymentRules
<1>6. Required(c) = DiffPrice(c.ids, c.newIds)
  BY <1>4 DEF Required, VariantTools
<1>7. ~ (/\ c.method \in GiftCards
         /\ Required(c) > 0
         /\ balance[c.method] < Required(c))
  BY <1>5 DEF PaymentRules, Rule
<1>8. DiffPrice(c.ids, c.newIds) \in Int
  BY <1>1, DiffPriceType
<1>9. \A m \in GiftCards : balance[m] \in Int /\ balance[m] >= 0
  BY DEF CreditInv, LedgerInv, RecordsOK, NoOverdraft
<1>10. Covers(c.method, DiffPrice(c.ids, c.newIds))
  BY <1>6, <1>7, <1>8, <1>9 DEF Covers
<1>11. QED
  BY <1>2, <1>4, <1>5, <1>10

\* A change of payment that breaks no rule and changes the method is accepted:
\* an order that was not changed that way before has one payment, unless the
\* target of a transfer changed it.
LEMMA CleanPayment ==
    ASSUME CreditInv, NEW c \in Calls, c.tool = "modify_pending_order_payment",
           c.order \in Orders, status[c.order] = "pending", PaymentRules(c) = {},
           ~ Repeated(c), ~ Overlooked(c)
    PROVE  CanModifyPayment(c.order, c.method)
<1> DEFINE h == history[c.order]
<1>1. h \in Seq(Entry) /\ Len(h) \in {1, 3} /\ h[1].type = "payment"
  BY DEF CreditInv, LedgerInv, RecordsOK, PendingLedger
<1>2. Len(h) # 3
  <2>1. CASE transferred
    <3>1. Len(h) <= 1
      BY <2>1 DEF Overlooked, SinglePayment
    <3>2. \A n \in {1, 3} : n <= 1 => n # 3
      OBVIOUS
    <3>3. QED
      BY <1>1, <3>1, <3>2, Zenon
  <2>2. CASE ~ transferred
    BY <2>2 DEF CreditInv, WritesLeaveMarks, Repeated, RepeatedIn, OrderTools,
                PendingTools
  <2>3. QED
    BY <2>1, <2>2
<1>3. SinglePayment(h) /\ h[1].method # c.method
  <2>1. h[1].method # c.method
    BY DEF Overlooked
  <2>2. Len(h) = 1
    BY <1>1, <1>2
  <2>3. QED
    BY <1>1, <2>1, <2>2 DEF SinglePayment
<1>4. h[1].amount \in Nat
  <2>1. 1 \in DOMAIN h
    BY <1>1, EntryFields
  <2>2. QED
    BY <1>1, <2>1, EntryFields
<1>5. HasMethod(c.order, c.method)
  BY DEF PaymentRules
<1>6. Required(c) = h[1].amount
  BY DEF Required, VariantTools
<1>7. ~ (/\ c.method \in GiftCards
         /\ Required(c) > 0
         /\ balance[c.method] < Required(c))
  BY <1>5 DEF PaymentRules, Rule
<1>8. \A m \in GiftCards : balance[m] \in Int /\ balance[m] >= 0
  BY DEF CreditInv, LedgerInv, RecordsOK, NoOverdraft
<1>9. Covers(c.method, h[1].amount)
  BY <1>4, <1>6, <1>7, <1>8 DEF Covers
<1>10. QED
  BY <1>3, <1>5, <1>9 DEF CanModifyPayment, IsPending

\* What breaks no rule is accepted, but for what the rules overlook.
LEMMA CleanAreAccepted == CreditInv => CleanIsAccepted
<1> SUFFICES ASSUME CreditInv, NEW c \in Calls, Broken(c) = {}, ~ Overlooked(c)
             PROVE  Accepts(c)
  BY DEF CleanIsAccepted
<1>1. CASE c.tool = "modify_user_address"
  <2>1. UserRules(c) = {}
    BY <1>1 DEF Broken, OrderTools, PendingTools, DeliveredTools
  <2>2. c.user \in Users
    BY <2>1 DEF UserRules, Rule
  <2>3. QED
    BY <1>1, <2>2 DEF Accepts
<1>2. ASSUME c.tool \in OrderTools
      PROVE  /\ c.order \in Orders
             /\ c.tool \in PendingTools => status[c.order] = "pending"
             /\ c.tool \in DeliveredTools => status[c.order] = "delivered"
             /\ c.tool \in ItemTools => ItemRules(c) = {}
             /\ c.tool \in VariantTools => VariantRules(c) = {}
             /\ c.tool \in PaymentTools => PaymentRules(c) = {}
             /\ ~ Repeated(c)
  <2>1. c.order \in Orders
    BY <1>2 DEF Broken
  <2>2. OrderRules(c) = {} /\ Rule("repeated_one_shot_write", Repeated(c)) = {}
    BY <1>2, <2>1 DEF Broken
  <2>3. ~ Repeated(c)
    BY <2>2 DEF Rule
  <2>4. /\ c.tool \in PendingTools => status[c.order] = "pending"
        /\ c.tool \in DeliveredTools => status[c.order] = "delivered"
    BY <2>2 DEF OrderRules, Rule, NotPending
  <2>5. /\ c.tool \in ItemTools => ItemRules(c) = {}
        /\ c.tool \in VariantTools => VariantRules(c) = {}
        /\ c.tool \in PaymentTools => PaymentRules(c) = {}
    BY <1>2, <2>1 DEF Broken
  <2>6. QED
    BY <2>1, <2>3, <2>4, <2>5
<1>3. CASE c.tool \in {"cancel_pending_order", "modify_pending_order_address"}
  BY <1>2, <1>3 DEF Accepts, IsPending, Overlooked, OrderTools, PendingTools
<1>4. CASE c.tool = "modify_pending_order_payment"
  BY <1>2, <1>4, CleanPayment DEF Accepts, OrderTools, PendingTools, PaymentTools
<1>5. CASE c.tool = "return_delivered_order_items"
  <2>1. /\ c.order \in Orders /\ status[c.order] = "delivered"
        /\ ItemRules(c) = {} /\ PaymentRules(c) = {}
    BY <1>2, <1>5 DEF OrderTools, DeliveredTools, ItemTools, PaymentTools
  <2>2. Holds(c.order, c.ids)
    BY <2>1 DEF ItemRules, Rule
  <2>3. HasMethod(c.order, c.method)
    BY <2>1 DEF PaymentRules
  <2>4. c.method \in GiftCards \/ c.method = history[c.order][1].method
    BY <1>5, <2>1, <2>3 DEF PaymentRules, Rule
  <2>5. QED
    BY <1>5, <2>1, <2>2, <2>3, <2>4 DEF Accepts, CanReturn, IsDelivered
<1>6. CASE c.tool \in VariantTools
  <2>1. /\ c.order \in Orders
        /\ c.tool = "modify_pending_order_items" => status[c.order] = "pending"
        /\ c.tool = "exchange_delivered_order_items" => status[c.order] = "delivered"
        /\ ItemRules(c) = {} /\ VariantRules(c) = {} /\ PaymentRules(c) = {}
    BY <1>2, <1>6
       DEF OrderTools, PendingTools, DeliveredTools, ItemTools, PaymentTools, VariantTools
  <2>2. /\ Holds(c.order, c.ids)
        /\ Replaceable(c.ids, c.newIds)
        /\ HasMethod(c.order, c.method)
        /\ Covers(c.method, DiffPrice(c.ids, c.newIds))
    BY <1>6, <2>1, CleanVariants
  <2>3. QED
    BY <1>6, <2>1, <2>2
       DEF Accepts, CanModifyItems, CanExchange, IsPending, IsDelivered, VariantTools
<1>7. c.tool \in {"cancel_pending_order", "modify_pending_order_address",
                  "modify_pending_order_payment", "return_delivered_order_items",
                  "modify_user_address"} \cup VariantTools
  BY CallFields DEF OrderTools, PendingTools, DeliveredTools, VariantTools
<1>8. QED
  BY <1>1, <1>3, <1>4, <1>5, <1>6, <1>7

\* A policy that keeps every rule meets an error only for what the rules
\* overlook, whatever it did before.
THEOREM CleanAlwaysAccepted == CreditSpec => []CleanIsAccepted
BY CreditInvariant, CleanAreAccepted, PTL

===============================================================================
