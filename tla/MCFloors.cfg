SPECIFICATION Spec
CONSTANTS
    r1 = r1
    r2 = r2
    Keep = Keep
    None = None
    MaxFloors = 3
    Positions = {"GROUND", "OPEN_LAND"}
    Usages = {"RESIDENTIAL", "COMMERCIAL"}
    Areas = {1, 2}
    Plots <- MCPlots
    Corrections <- MCCorrections
    Requests = {r1, r2}
    MaxCalls = 3
SYMMETRY MCSymmetry
INVARIANTS
    TypeOK
    TotalCountsFloors
    PlotLimit
CHECK_DEADLOCK FALSE
