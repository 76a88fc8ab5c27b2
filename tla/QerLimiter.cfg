CONSTANTS
    Cpu = {"c1", "c2"}
    Size = {1, 2}
    Mbr = {1, 3, 5}
    Kilo = 3
    RateMod = 8
    Second = 4
    Window = 2
    Burst = 4
    MaxNow = 6
    MaxBits = 8
    MaxCredit = 8
SPECIFICATION Spec
INVARIANTS TypeOK RateIsLimited
