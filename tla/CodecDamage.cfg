SPECIFICATION Spec
CONSTANTS
    Ids <- SomeIds
    Texts <- SomeTexts
    Extra = {0, 7}
CHECK_DEADLOCK FALSE
INVARIANTS ReadAsWritten CutIsNoMessage LongerIsTheSame
