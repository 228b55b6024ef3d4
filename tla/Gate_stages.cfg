SPECIFICATION Spec
CONSTANTS
    g1 = g1
    g2 = g2
    Gates = {g1, g2}
    Nobody = Nobody
    Normal = Normal
    Cases = 2
    Items = 1
    MaxFaults = 1
INVARIANTS
    TypeOK
    PassIsEarned
    RunsStayHome
    ServicesRestored
SYMMETRY Symmetry
