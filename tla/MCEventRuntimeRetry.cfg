SPECIFICATION Spec
CONSTANTS
    None = None
    r1 = r1  r2 = r2
    Runtimes = {r1}
    Events <- FewEvents
    Terminal = {"DONE", "CANCELLED"}
    Failures = {"nothing", "whole"}
    MaxLines = 3
INVARIANTS
    Replayable
CHECK_DEADLOCK FALSE
