---------------------------- MODULE MCRetailCredit ----------------------------
(***************************************************************************)
(* A pending order paid with a gift card, whose balance covers the price   *)
(* difference of one order, and a delivered order paid by credit card.     *)
(* The task is to move the payment of the first to the credit card.        *)
(***************************************************************************)
EXTENDS RetailCredit

MCOrders == {"W1", "W2"}
MCUsers == {"ann"}
MCItems == {"shirtM", "shirtL", "shoe"}
MCProducts == {"shirt", "shoes"}
MCMethods == {"gift_card", "credit_card"}
MCGiftCards == {"gift_card"}
MCAddresses == {"home"}
MCOwner == [o \in MCOrders |-> "ann"]
MCMethodsOf == [u \in MCUsers |-> MCMethods]
MCProduct == [i \in MCItems |-> IF i = "shoe" THEN "shoes" ELSE "shirt"]
MCPrice == [i \in MCItems |-> CASE i = "shirtM" -> 3 [] i = "shirtL" -> 5 [] i = "shoe" -> 4]
MCAvailable == {"shirtL", "shoe"}

Placed(st, list, m) ==
    [status |-> st, items |-> list, history |-> <<Payment(ListPrice(list), m)>>,
     address |-> "home"]

MCInitOrders == [o \in MCOrders |->
    CASE o = "W1" -> Placed("pending", <<"shirtM">>, "gift_card")
      [] o = "W2" -> Placed("delivered", <<"shirtM">>, "credit_card")]
MCInitBalance == [c \in MCGiftCards |-> 3]
MCInitHome == [u \in MCUsers |-> "home"]

MCMessages == {{}, {"affirmative"}}
MCGoalActions ==
    <<[tool |-> "modify_pending_order_payment", order |-> "W1", method |-> "credit_card"]>>

===============================================================================
