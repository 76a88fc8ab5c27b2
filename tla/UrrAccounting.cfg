CONSTANTS
    Cpu = {"c1", "c2"}
    Size = {1}
    UrrSlots = 2
    MaxVolume = 4
SPECIFICATION Spec
INVARIANTS TypeOK NothingOverreported NothingUnreported
