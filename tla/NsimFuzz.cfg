\* First bytes: 1 to 4 operations, even and odd. Device 1 may be left over, the
\* input's own or another's.
CONSTANTS
    Data0 = {0, 1, 3, 26}
    MaxOps = 3
    Leftovers = {{}, {1}}
SPECIFICATION Spec
INVARIANTS EndsClean SlicesAlive
