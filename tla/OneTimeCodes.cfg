\* Two requests at once for two numbers, from one connection or none; the caps
\* are one a day, and a code has two attempts.
SPECIFICATION Spec
CONSTANTS
    Slots = {s1, s2}
    Phones = {p, q}
    Connections = {home}
    NoConnection = none
    Purposes = {account}
    MaxCodes = 3
    MaxAttempts = 2
    MaxPerPhone = 1
    MaxPerIp = 1
SYMMETRY Symmetry
INVARIANTS
    OneSessionPerCode
    GuessesAreLimited
    CapsHold
CHECK_DEADLOCK FALSE
