\* Two runs with any parameters and two writes by somebody else: the resource can
\* come and go between the two commands of each run.
SPECIFICATION Spec
CONSTANTS
    Runs = {r1, r2}
    Absent = Absent
    Foreign = Foreign
    Halted = Halted
    MaxForeign = 2
SYMMETRY Symmetry
INVARIANTS
    TypeOK
    GoalWitnessed
    ResultIsHonest
    NobodyUndoesIt
    SecondRunIsQuiet
\* Every run ends, and other users stop at the bound.
CHECK_DEADLOCK FALSE
