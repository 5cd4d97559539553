SPECIFICATION Spec
CONSTANTS
    t1 = t1
    t2 = t2
    c1 = c1
    c2 = c2
    Tasks = {t1, t2}
    Cities = {c1, c2}
SYMMETRY Alike
INVARIANTS
    ToolTypeOK
    CauseIsTrue
    SessionsClosed
    AskedIsCounted
