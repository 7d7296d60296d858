SPECIFICATION CalledSpec
CONSTANTS
    Plugins <- Three
    Keys = {"a", "b"}
    Wirings <- AnyWiring
INVARIANTS NoTrace ShutdownInOrder BorrowedResolves SupplierIsOlder
PROPERTIES SweepSettles CallsReturn
