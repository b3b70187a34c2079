\* A networked database (a COMMIT may end in doubt, nothing is retried); the
\* owner copies, moves and deletes the mail while it is being delivered.
CONSTANTS
    m1 = m1  c1 = c1  c2 = c2  d1 = d1  d2 = d2  s1 = s1  s2 = s2
    NoMsg = NoMsg
    NoCall = NoCall
    Msg = {m1}
    Call = {c1}
    Domain = {d1, d2}
    Slot = {s1, s2}
    Attempts = 2
    Sqlite = FALSE
SPECIFICATION Spec
SYMMETRY Symmetry
CHECK_DEADLOCK FALSE
INVARIANTS IInv
