\* Nine bytes: four digits, '%', a blank, both signs, and one other.
CONSTANTS
    Base = 3
    digit <- MCDigit
    Percent = 4
    Blanks <- MCBlanks
    Plus = 6
    Minus = 7
    MaxText = 3
    MaxUrl = 4
SPECIFICATION Spec
INVARIANTS
    TypeOK
    EncodedIsDecoded
\* The loop ends.
CHECK_DEADLOCK FALSE
