\* Two programs, started four times in all.
CONSTANTS
    Processes = {p1, p2}
    MaxStarts = 4
    None = None
SPECIFICATION Spec
\* MaxStarts ends a run.
CHECK_DEADLOCK FALSE
INVARIANTS AdminIsThere KeyIsTheFirst
