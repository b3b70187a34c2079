\* SQLite, one message submitted twice, two domains, a copied relation.
CONSTANTS
    m1 = m1  c1 = c1  c2 = c2  d1 = d1  d2 = d2  s1 = s1  s2 = s2
    NoMsg = NoMsg
    NoCall = NoCall
    Msg = {m1}
    Call = {c1, c2}
    Domain = {d1, d2}
    Slot = {s1}
    Attempts = 2
    Sqlite = TRUE
SPECIFICATION Spec
SYMMETRY Symmetry
CHECK_DEADLOCK FALSE
INVARIANTS DeliveredIsAudited TablesAgree StoredStatusIsTrue
           ClientMayStop DuplicateIsExplained PendingIsExplained
PROPERTIES SettledOnce
