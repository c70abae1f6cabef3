SPECIFICATION Spec
CONSTANTS
    Children = {c1, c2, c3}
    NoChild = NoChild
CHECK_DEADLOCK FALSE
INVARIANTS
    OneTunnel
