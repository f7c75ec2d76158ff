SPECIFICATION Spec
CONSTANTS
    Call = {c1}
    Thread = {t1}
    Round = {r1, r2, r3}
    None = None
INVARIANT RoundsApart
CHECK_DEADLOCK FALSE
