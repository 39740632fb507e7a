---------------------------- MODULE OrderLifecycle ----------------------------
(***************************************************************************)
(* What the retail write tools promise about an order, whatever their      *)
(* arguments: an order is open while it is pending or delivered, one call  *)
(* closes it in the way its status allows, and a closed order is frozen.   *)
(* RetailStore implements this specification.                              *)
(***************************************************************************)

CONSTANT Orders

VARIABLES
    status,   \* the status string of every order
    contents, \* the items of every order and the return or exchange asked of it
    terms     \* its payment history and its shipping address

lifecycleVars == <<status, contents, terms>>

\* The only ways a status may change.
Closings == {<<"pending", "cancelled">>, <<"pending", "pending (item modified)">>,
             <<"delivered", "return requested">>, <<"delivered", "exchange requested">>}

Others(o) == \A p \in Orders \ {o} : /\ status'[p] = status[p]
                                     /\ contents'[p] = contents[p]
                                     /\ terms'[p] = terms[p]

\* A call that amends an open order: payment method or shipping address.
Amend(o) ==
    /\ status[o] = "pending"
    /\ status' = status
    /\ contents' = contents
    /\ Others(o)

\* A call that closes an open order.
Close(o) ==
    /\ <<status[o], status'[o]>> \in Closings
    /\ Others(o)

LifecycleNext == \E o \in Orders : Amend(o) \/ Close(o)

LifecycleSpec == [][LifecycleNext]_lifecycleVars

===============================================================================
