SPECIFICATION Spec
CONSTANTS
    Appends = {a1, a2}
    Writes = {w1}
    Outside = {x1}
    Modes = {"helper", "virtiofs", "path"}
    MaxLength = 3
    MaxAttempts = 2
INVARIANTS AnswerIsTrue DroppedFileIsReported
PROPERTIES NothingElseLost EveryCallIsAnswered
CHECK_DEADLOCK FALSE
