SPECIFICATION FairSpec
CONSTANTS
    long = long
    mixed = mixed
    chat = chat
    tirade = tirade
    note = note
    Record = {long, mixed, chat, tirade, note}
    N = 2
    Pool <- MCPool
    Kind <- MCKind
    Sizes <- MCSizes
    SepTokens = 1
    Recipes <- MCRecipes
INVARIANTS
    TextIsKept
    RowsFit
    BudgetMet
    ReuseComesLast
PROPERTY Terminates
