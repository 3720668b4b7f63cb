SPECIFICATION OperationsSpec
CONSTANTS
    Instances = {i1}
    Users = {u1}
    Ids = {c1, c2}
    Nil = Nil
INVARIANTS EveryLateFailureIsStaged
CHECK_DEADLOCK FALSE
