SPECIFICATION Spec
CONSTANTS
    u1 = u1
    u2 = u2
    n1 = n1
    n2 = n2
    n3 = n3
    NULL = NULL
    Users <- MCUsers
    Names <- MCNames
    Amounts = {0, 1, 2}
    Limited = 1
    MaxChanges = 2
    MaxFaults = 2
SYMMETRY Symmetry
INVARIANT TypeOK CachesAnswerTheCall ReadsOwnWrites
