\* An int of 5 bits, with its extremes; formats of up to two conversions and a character.
CONSTANTS
    IntValues = 32
    FifoSize = 2
    MaxFormat = 5
    Ints = {16, 17, 0, 10, 15}
    Longs = {0, 7, 105}
SPECIFICATION Spec
INVARIANT OutputIsPrefix
PROPERTY AllSent
CHECK_DEADLOCK FALSE
