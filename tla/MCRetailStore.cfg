\* Every sequence of write tools on three orders.
SPECIFICATION Spec
CONSTANTS
    Orders <- MCOrders
    Users <- MCUsers
    Items <- MCItems
    Products <- MCProducts
    Methods <- MCMethods
    Addresses <- MCAddresses
    GiftCards <- MCGiftCards
    Owner <- MCOwner
    MethodsOf <- MCMethodsOf
    Product <- MCProduct
    Price <- MCPrice
    Available <- MCAvailable
    MaxItems = 2
    InitOrders <- MCInitOrders
    InitBalance <- MCInitBalance
    InitHome <- MCInitHome
INVARIANTS
    NoOverdraft
    PaidInFull
    CardsMatchLedgers
    PendingLedger
    SwapsExactly
PROPERTY LifecycleSpec
