\* Two products: the family loop over several containers.
CONSTANTS
    Products = {p1, p2}
    NoProduct = NoProduct
    Verbs <- FamilyVerbs
    MaxNonce = 2
    RivalRaces = FALSE
SPECIFICATION Spec
PROPERTIES RivalsUntouched
