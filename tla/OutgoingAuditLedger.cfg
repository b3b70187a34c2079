\* One submission, three transaction attempts: the audit ledger is kept and
\* the local work ends.  No symmetry: liveness is checked.
CONSTANTS
    m1 = m1  c1 = c1  c2 = c2  d1 = d1  d2 = d2  s1 = s1  s2 = s2
    NoMsg = NoMsg
    NoCall = NoCall
    Msg = {m1}
    Call = {c1}
    Domain = {d1, d2}
    Slot = {s1, s2}
    Attempts = 3
    Sqlite = TRUE
SPECIFICATION FairSpec
CHECK_DEADLOCK FALSE
PROPERTIES ImplementsLedger LocalWorkEnds
