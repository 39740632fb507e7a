\* The rules of the step credit beside the write tools.
SPECIFICATION CreditSpec
CONSTANTS
    Orders <- MCOrders
    Users <- MCUsers
    Items <- MCItems
    Products <- MCProducts
    Methods <- MCMethods
    Addresses <- MCAddresses
    GiftCards <- MCGiftCards
    Product <- MCProduct
    Price <- MCPrice
    Available <- MCAvailable
    InitOrders <- MCInitOrders
    InitBalance <- MCInitBalance
    InitHome <- MCInitHome
    GoalActions <- MCGoalActions
    NoOrder = NoOrder
    NoUser = NoUser
    Owner <- MCOwner
    MethodsOf <- MCMethodsOf
    MaxItems = 1
    Messages <- MCMessages
    MaxWrites = 1
INVARIANTS
    ImpossibleIsRefused
    CleanIsAccepted
    RepeatIsRefused
