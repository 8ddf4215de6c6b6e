SPECIFICATION Spec
CONSTANTS
    w1 = w1
    w2 = w2
    r1 = r1
    absent = absent
    Writers = {w1, w2}
    Readers = {r1}
    Requests <- MCRequests
    Absent <- absent
SYMMETRY Symmetric
INVARIANTS TypeOK NeverTorn NoLitter SuccessReplacesAll
    MatrixErrorIsJustified MatrixIsComplete
PROPERTY WritesAtomically
CHECK_DEADLOCK FALSE
