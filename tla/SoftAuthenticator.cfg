SPECIFICATION Spec
CONSTANTS
    Callers = {t1, t2, t3}
    MaxCount = 5
INVARIANT CountExceedsStored
