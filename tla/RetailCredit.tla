----------------------------- MODULE RetailCredit -----------------------------
(***************************************************************************)
(* The policy evidence of a trajectory and the constraint rules of step    *)
(* credit (src/envs/retail_cs_grpo.py), beside the database the write      *)
(* tools change.  The rules restate the policy independently of the tools: *)
(* the properties relate the two.  Calls are records; an order id or user  *)
(* id no entry has is NoOrder or NoUser.  Each rule costs 1 (no weights).  *)
(* A transfer to a human is judged at once, and the judgement leaves the   *)
(* target actions replayed on a fresh database: the training loop and the  *)
(* evidence go on over a database the agent did not write.                 *)
(***************************************************************************)
EXTENDS RetailStore

CONSTANTS
    NoOrder, NoUser,
    Messages,      \* the kinds of words that messages of the customer contain
    GoalActions,   \* the write calls among task.actions
    MaxWrites      \* bound on the writes recorded when there is a transfer

ASSUME CreditAssumption ==
    /\ NoOrder \notin Orders
    /\ NoUser \notin Users
    /\ Messages \subseteq SUBSET {"affirmative", "negation"}

\* The keys make_initial_state gives to the evidence.
VARIABLES
    authenticated,   \* state["authenticated_user_id"]
    readOrders,      \* state["read_order_ids"]
    readUsers,       \* state["read_user_ids"]
    writes,          \* state["successful_writes"]: the calls that were accepted
    message,         \* state["last_user_message"]: the kinds of words it contains
    transferred      \* state["transferred_to_human"]

VARIABLES
    replay,          \* the target actions calculate_reward has yet to replay
    standing         \* history: the writes recorded since the database was loaded

evidence == <<authenticated, readOrders, readUsers, writes, message, transferred>>
creditVars == <<vars, evidence, replay, standing>>

-------------------------------------------------------------------------------
(* Calls of the write tools.                                               *)

PendingTools == {"cancel_pending_order", "modify_pending_order_address",
                 "modify_pending_order_items", "modify_pending_order_payment"}
DeliveredTools == {"exchange_delivered_order_items", "return_delivered_order_items"}
OrderTools == PendingTools \cup DeliveredTools
ItemTools == DeliveredTools \cup {"modify_pending_order_items"}
VariantTools == {"exchange_delivered_order_items", "modify_pending_order_items"}
PaymentTools == ItemTools \cup {"modify_pending_order_payment"}

OrderIds == Orders \cup {NoOrder}
Reasons == {"no longer needed or ordered by mistake", "other"}

Calls ==
    [tool : {"cancel_pending_order"}, order : OrderIds, reason : Reasons]
    \cup [tool : {"modify_pending_order_address"}, order : OrderIds, address : Addresses]
    \cup [tool : {"modify_pending_order_payment"}, order : OrderIds, method : Methods]
    \cup [tool : {"return_delivered_order_items"}, order : OrderIds,
          ids : ItemLists, method : Methods]
    \cup [tool : VariantTools, order : OrderIds, ids : ItemLists,
          newIds : ItemLists, method : Methods]
    \cup [tool : {"modify_user_address"}, user : Users \cup {NoUser}, address : Addresses]

ASSUME GoalAssumption == GoalActions \in Seq(Calls) /\ MaxWrites \in Nat

\* The checks of each tool: what is not accepted returns "Error: ...".
Accepts(c) ==
    CASE c.tool = "cancel_pending_order" ->
           c.order \in Orders /\ IsPending(c.order) /\ c.reason # "other"
      [] c.tool = "modify_pending_order_address" ->
           c.order \in Orders /\ IsPending(c.order)
      [] c.tool = "modify_pending_order_payment" ->
           c.order \in Orders /\ CanModifyPayment(c.order, c.method)
      [] c.tool = "modify_pending_order_items" ->
           c.order \in Orders /\ CanModifyItems(c.order, c.ids, c.newIds, c.method)
      [] c.tool = "return_delivered_order_items" ->
           c.order \in Orders /\ CanReturn(c.order, c.ids, c.method)
      [] c.tool = "exchange_delivered_order_items" ->
           c.order \in Orders /\ CanExchange(c.order, c.ids, c.newIds, c.method)
      [] c.tool = "modify_user_address" -> c.user \in Users

\* What an accepted call does to the database.
Invoke(c) ==
    CASE c.tool = "cancel_pending_order" -> CancelPendingOrder(c.order)
      [] c.tool = "modify_pending_order_address" ->
           ModifyPendingOrderAddress(c.order, c.address)
      [] c.tool = "modify_pending_order_payment" ->
           ModifyPendingOrderPayment(c.order, c.method)
      [] c.tool = "modify_pending_order_items" ->
           ModifyPendingOrderItems(c.order, c.ids, c.newIds, c.method)
      [] c.tool = "return_delivered_order_items" ->
           ReturnDeliveredOrderItems(c.order, c.ids, c.method)
      [] c.tool = "exchange_delivered_order_items" ->
           ExchangeDeliveredOrderItems(c.order, c.ids, c.newIds, c.method)
      [] c.tool = "modify_user_address" -> ModifyUserAddress(c.user, c.address)

-------------------------------------------------------------------------------
(* The constraint rules: check_retail_constraints.                         *)

\* An affirmative word and no negation in the latest message of the customer.
HasExplicitConfirmation(words) == "affirmative" \in words /\ "negation" \notin words

Rule(name, broken) == IF broken THEN {name} ELSE {}

\* The owner of the data a call changes, or what the call names as the owner.
OwnerOf(c) == IF c.tool = "modify_user_address" THEN c.user ELSE Owner[c.order]

IdentityRules(c) ==
    Rule("identity_not_authenticated", authenticated = NoUser)
    \cup Rule("missing_explicit_confirmation", ~ HasExplicitConfirmation(message))

\* Mutant: an order that was modified is still pending.
NotPendingAtAll(o) == status[o] \notin {"pending", "pending (item modified)"}
NotPending(o) == status[o] # "pending"

OrderRules(c) ==
    Rule("authenticated_user_not_order_owner", authenticated \notin {NoUser, OwnerOf(c)})
    \cup Rule("order_not_read", c.order \notin readOrders)
    \cup Rule("user_not_read", OwnerOf(c) \notin readUsers)
    \cup Rule("order_not_pending", c.tool \in PendingTools /\ NotPending(c.order))
    \cup Rule("order_not_delivered",
              c.tool \in DeliveredTools /\ status[c.order] # "delivered")

UserRules(c) ==
    Rule("user_not_found", c.user \notin Users)
    \cup Rule("authenticated_user_mismatch", authenticated \notin {NoUser, c.user})
    \cup Rule("user_not_read", c.user \notin readUsers)

\* The call is one of those made, or its tool was used on this order by one.
RepeatedIn(c, made) ==
    \/ c \in made
    \/ /\ c.tool \in OrderTools
       /\ \E w \in made : w.tool = c.tool /\ w.order = c.order

Repeated(c) == RepeatedIn(c, writes)

ItemRules(c) ==
    Rule("order_item_mismatch",
         c.ids = <<>> \/ ~ Holds(c.order, c.ids))

\* The pairs of old and new items the code looks up in the catalogue: the old
\* item is one of the order.
Pairs(c) == {k \in DOMAIN c.ids :
               \E j \in DOMAIN items[c.order] : items[c.order][j] = c.ids[k]}
SameProduct(c, k) == Product[c.newIds[k]] = Product[c.ids[k]]

VariantRules(c) ==
    IF Len(c.ids) # Len(c.newIds) THEN {"variant_count_mismatch"}
    ELSE Rule("variant_product_mismatch", \E k \in Pairs(c) : ~ SameProduct(c, k))
         \cup Rule("variant_unavailable",
                   \E k \in Pairs(c) : SameProduct(c, k) /\ c.newIds[k] \notin Available)

\* The price difference can be computed: every old item and variant is found.
Priced(c) == /\ Len(c.ids) = Len(c.newIds)
             /\ Pairs(c) = DOMAIN c.ids
             /\ \A k \in DOMAIN c.ids : SameProduct(c, k)

\* _payment_diff: what the call charges the payment method, 0 if unknown.
Required(c) ==
    CASE c.tool = "modify_pending_order_payment" -> history[c.order][1].amount
      [] c.tool \in VariantTools -> IF Priced(c) THEN DiffPrice(c.ids, c.newIds) ELSE 0
      [] OTHER -> 0

PaymentRules(c) ==
    IF ~ HasMethod(c.order, c.method) THEN {"payment_method_not_owned"}
    ELSE Rule("invalid_return_refund_method",
              /\ c.tool = "return_delivered_order_items"
              /\ c.method \notin GiftCards
              /\ c.method # history[c.order][1].method)
         \cup Rule("insufficient_gift_card_balance",
              /\ c.method \in GiftCards
              /\ Required(c) > 0
              /\ balance[c.method] < Required(c))

\* The rules the call breaks, read in the state the call is made in.
Broken(c) ==
    IdentityRules(c)
    \cup Rule("repeated_one_shot_write", Repeated(c))
    \cup (IF c.tool \notin OrderTools THEN UserRules(c)
          ELSE IF c.order \notin Orders THEN {"order_not_found"}
          ELSE OrderRules(c)
               \cup (IF c.tool \in ItemTools THEN ItemRules(c) ELSE {})
               \cup (IF c.tool \in VariantTools THEN VariantRules(c) ELSE {})
               \cup (IF c.tool \in PaymentTools THEN PaymentRules(c) ELSE {}))

-------------------------------------------------------------------------------
(* The trajectory.                                                         *)

\* find_user_id_by_email and find_user_id_by_name_zip, when they find a user.
FindUser(u) ==
    /\ authenticated' = u
    /\ UNCHANGED <<vars, readOrders, readUsers, writes, message, transferred, standing>>

GetOrderDetails(o) ==
    /\ readOrders' = readOrders \cup {o}
    /\ UNCHANGED <<vars, authenticated, readUsers, writes, message, transferred, standing>>

GetUserDetails(u) ==
    /\ readUsers' = readUsers \cup {u}
    /\ UNCHANGED <<vars, authenticated, readOrders, writes, message, transferred, standing>>

\* The interaction records the customer's answer.
CustomerSpeaks(words) ==
    /\ message' = words
    /\ UNCHANGED <<vars, authenticated, readOrders, readUsers, writes, transferred, standing>>

Record(c) == writes' = writes \cup {c} /\ standing' = standing \cup {c}

\* Mutant: a refused call is recorded as well.
ObserveAny(c) == Record(c)
\* observe_retail_tool_result on a write.
Observe(c) == IF Accepts(c) THEN Record(c) ELSE UNCHANGED <<writes, standing>>

\* tool.invoke: the database changes, or the observation is an error.
Call(c) == IF Accepts(c) THEN Invoke(c) ELSE UNCHANGED vars

\* A write call and the observation of its result.
Write(c) ==
    /\ Call(c)
    /\ Observe(c)
    /\ UNCHANGED <<authenticated, readOrders, readUsers, message, transferred>>

\* transfer_to_human_agents, whatever its arguments: the step is done, so
\* calculate_reward loads the database and starts to replay the target actions.
\* The evidence keeps what was recorded before.
Transfer ==
    /\ LoadData
    /\ replay' = GoalActions
    /\ standing' = {}
    /\ transferred' = TRUE
    /\ UNCHANGED <<authenticated, readOrders, readUsers, writes, message>>

\* The next target action; one that is refused is passed over.
ReplayGoal ==
    /\ Call(Head(replay))
    /\ replay' = Tail(replay)
    /\ UNCHANGED <<evidence, standing>>

CreditInit ==
    /\ Init
    /\ authenticated = NoUser
    /\ readOrders = {} /\ readUsers = {} /\ writes = {}
    /\ message = {} /\ transferred = FALSE
    /\ replay = <<>> /\ standing = {}

AgentActs ==
    \/ \E u \in Users : FindUser(u) \/ GetUserDetails(u)
    \/ \E o \in Orders : GetOrderDetails(o)
    \/ \E words \in Messages : CustomerSpeaks(words)
    \/ \E c \in Calls : Write(c)

\* Bounds the histories that TLC tells apart after a transfer.
FewWrites == transferred => Cardinality(writes) <= MaxWrites

\* The replay is part of the step that transfers: no call comes between.
CreditNext ==
    \/ replay = <<>> /\ AgentActs /\ FewWrites' /\ UNCHANGED replay
    \/ replay = <<>> /\ Transfer /\ FewWrites'
    \/ replay # <<>> /\ ReplayGoal

CreditSpec == CreditInit /\ [][CreditNext]_creditVars

-------------------------------------------------------------------------------
(* Properties.                                                             *)

\* What the rules know and no tool checks.
PolicyRules == {"identity_not_authenticated", "missing_explicit_confirmation",
                "authenticated_user_not_order_owner", "authenticated_user_mismatch",
                "order_not_read", "user_not_read", "repeated_one_shot_write"}

\* A call that the rules find impossible in the current database is refused by
\* its tool: no accepted write is charged for a state it was not in.  (An empty
\* item list breaks a rule, and the tools accept it.)
ImpossibleIsRefused ==
    \A c \in Calls : Accepts(c) =>
        \/ Broken(c) \subseteq PolicyRules
        \/ c.tool \in ItemTools /\ c.ids = <<>>

\* The reasons for which a tool refuses what breaks no rule: the rules look
\* neither at the reason of a cancellation nor for a change of payment to the
\* method already used; and they know a payment that was moved by its write
\* only, which after a transfer may be one of the target's.
Overlooked(c) ==
    \/ c.tool = "cancel_pending_order" /\ c.reason = "other"
    \/ c.tool = "modify_pending_order_payment" /\ history[c.order][1].method = c.method
    \/ /\ transferred
       /\ c.tool = "modify_pending_order_payment" /\ ~ SinglePayment(history[c.order])

\* Whatever was written before, a call that breaks no rule is accepted, but for
\* those reasons: until it transfers, a policy that keeps the rules meets an
\* error of a write for one of the first two only.
CleanIsAccepted ==
    \A c \in Calls : Broken(c) = {} => Accepts(c) \/ Overlooked(c)

\* The tools that may be used on one order again and again.
Repeatable == {"modify_pending_order_address", "modify_user_address"}

\* Each other tool works on an order once: what the rules call a repeated
\* one-shot write is refused, whatever was done to the order in between, unless
\* a transfer has undone the write that it repeats.
RepeatIsRefused ==
    \A c \in Calls : Accepts(c) /\ Repeated(c) =>
        \/ c.tool \in Repeatable
        \/ transferred /\ ~ RepeatedIn(c, standing)

===============================================================================
