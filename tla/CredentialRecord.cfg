SPECIFICATION Spec
CONSTANTS
    Requests = {q1, q2}
    MaxSignCount = 2
    Formats = {"", "packed", "compound"}
    AttestationTypes = {"", "basic_full", "uncertainty"}
    Models = {"model1", "model2"}
CHECK_DEADLOCK FALSE
INVARIANT TypeOK
INVARIANT AccountPassedPolicy
INVARIANT NoSilentDrift
INVARIANT NoSilentReset
