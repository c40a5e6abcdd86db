SPECIFICATION Spec
CONSTANTS
    p1 = p1
    p2 = p2
    w1 = w1
    w2 = w2
    Pids = {p1, p2}
    CwdOf <- MCCwdOf
    MaxSids = 4
    MaxMoves = 3
    MaxRestarts = 1
INVARIANTS BindingTypeOK OneBinding RowsAreTrue 
 
CHECK_DEADLOCK FALSE
