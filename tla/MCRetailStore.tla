----------------------------- MODULE MCRetailStore ----------------------------
(***************************************************************************)
(* Two pending orders of one customer, one paid by gift card and one by    *)
(* credit card with two copies of an item, and a delivered order; two gift *)
(* cards, one of them empty.                                               *)
(***************************************************************************)
EXTENDS RetailStore

MCOrders == {"W1", "W2", "W3"}
MCUsers == {"ann"}
MCItems == {"shirtM", "shirtL", "shoe"}
MCProducts == {"shirt", "shoes"}
MCMethods == {"gift_card_1", "gift_card_2", "credit_card"}
MCGiftCards == {"gift_card_1", "gift_card_2"}
MCAddresses == {"home", "work"}
MCOwner == [o \in MCOrders |-> "ann"]
MCMethodsOf == [u \in MCUsers |-> MCMethods]
MCProduct == [i \in MCItems |-> IF i = "shoe" THEN "shoes" ELSE "shirt"]
MCPrice == [i \in MCItems |-> CASE i = "shirtM" -> 3 [] i = "shirtL" -> 5 [] i = "shoe" -> 4]
MCAvailable == {"shirtM", "shirtL"}

Placed(st, list, m) ==
    [status |-> st, items |-> list, history |-> <<Payment(ListPrice(list), m)>>,
     address |-> "home"]

MCInitOrders == [o \in MCOrders |->
    CASE o = "W1" -> Placed("pending", <<"shirtM", "shirtL">>, "gift_card_1")
      [] o = "W2" -> Placed("pending", <<"shirtM", "shirtM", "shoe">>, "credit_card")
      [] o = "W3" -> Placed("delivered", <<"shirtM", "shoe">>, "gift_card_2")]
MCInitBalance == [c \in MCGiftCards |-> IF c = "gift_card_1" THEN 4 ELSE 0]
MCInitHome == [u \in MCUsers |-> "home"]

===============================================================================
