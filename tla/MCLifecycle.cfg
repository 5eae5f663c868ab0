\* One product, every verb, outside actors at any moment.
CONSTANTS
    Products = {p1}
    NoProduct = NoProduct
    Verbs <- AllVerbs
    MaxNonce = 3
    RivalRaces = TRUE
SPECIFICATION Spec
INVARIANTS OwnAccounted TombstoneIsTrue StartedIsOwed ConfirmedIsWanted
PROPERTIES StartsOnlyWanted SuccessIsVerified
