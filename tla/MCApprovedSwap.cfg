SPECIFICATION Spec
CONSTANTS
    s1 = s1
    s2 = s2
    r1 = r1
    uAdmin = uAdmin
    w1 = w1
    w2 = w2
    p1 = p1
    long1 = long1
    u1 = u1
    y1 = y1
    t1 = t1
    Keep = Keep
    None = None
    ZeroWard = ZeroWard
    Surveys = {s1, s2}
    Users = {uAdmin}
    Requests = {r1}
    Wards = {w1, w2}
    UlbCodes = {u1}
    UlbCode = u1
    Parcels = {p1, long1}
    Formatted <- MCFormatted
    Padded <- MCFormatted
    Years = {y1}
    ClientPids = {t1}
    NewSurveys <- MCNewSurveys
    RoleOf <- MCRoleOf
    Patches <- MCPatches
    Ops <- MCSwapOps
    ChildStates = {TRUE}
SYMMETRY MCSymmetry
PROPERTY ApprovedStaysOutOfZeroWard
