SPECIFICATION Spec
CONSTANTS
    s1 = s1
    r1 = r1
    r2 = r2
    uField = uField
    w1 = w1
    w2 = w2
    p1 = p1
    u1 = u1
    y1 = y1
    t1 = t1
    Keep = Keep
    None = None
    ZeroWard = ZeroWard
    Surveys = {s1}
    Users = {uField}
    Requests = {r1, r2}
    Wards = {w1, w2}
    UlbCodes = {u1}
    UlbCode = u1
    Parcels = {p1}
    Formatted <- MCFormatted
    Padded <- MCFormatted
    Years = {y1}
    ClientPids = {t1}
    NewSurveys <- MCNewSurveys
    RoleOf <- MCRoleOf
    Patches <- MCPatches
    Ops <- MCOps
    ChildStates = {TRUE}
SYMMETRY MCSymmetry
PROPERTY UpgradeSparesFormulaIds
