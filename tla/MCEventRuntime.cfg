SPECIFICATION Spec
CONSTANTS
    None = None
    r1 = r1  r2 = r2
    Runtimes = {r1, r2}
    Events <- MCEvents
    Terminal = {"DONE", "CANCELLED"}
    Failures = {"nothing", "partial", "unended", "whole"}
    MaxLines = 4
INVARIANTS
    StateIsRight VerdictsStand FailsClosed
SYMMETRY Symmetry
CHECK_DEADLOCK FALSE
