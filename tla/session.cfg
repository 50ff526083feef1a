SPECIFICATION SessionSpec
CONSTANTS
    Order <- MCOrder
    Starts = 3
CHECK_DEADLOCK FALSE
INVARIANTS GoodbyeLeavesNothing OnlineWhileLinked
PROPERTIES LossEndsProgram
