\* A cancellation after a change of the payment method.
SPECIFICATION Spec
CONSTANTS
    Orders <- MCOrders
    Users <- MCUsers
    Items <- MCItems
    Products <- MCProducts
    Methods <- MCMethods
    Addresses = {"home"}
    GiftCards <- MCGiftCards
    Owner <- MCOwner
    MethodsOf <- MCMethodsOf
    Product <- MCProduct
    Price <- MCPrice
    Available <- MCAvailable
    MaxItems = 2
    InitOrders <- MCInitOrders
    InitBalance <- MCInitBalance
    InitHome <- MCInitHome
INVARIANT CancelRefundsTotal
