\* Header and query values of up to three characters.
CONSTANTS
    User = {"u1", "u2"}
    ActiveUser = {"u1"}
    TokenOwner <- MCTokenOwner
    NoUser = NoUser
    MaxLen = 3
SPECIFICATION Spec
INVARIANTS
    QueryTokenUsedWhenHeaderHasNone
