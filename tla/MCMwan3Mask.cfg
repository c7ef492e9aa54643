CONSTANTS
    Masks <- Usual
    Ids = {1, 2, 3, 31, 59, 60}
SPECIFICATION MarksSpec
INVARIANTS
    MarksLeadHome
