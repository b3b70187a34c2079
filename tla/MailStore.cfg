\* One mail, two connections of ann, one of bob; both kinds of database.
CONSTANTS
    ann = ann  bob = bob  web1 = web1  imap1 = imap1  imap2 = imap2
    m1 = m1  m2 = m2  None = None
    User = {ann, bob}
    Client = {web1, imap1, imap2}
    owner <- ThreeClients
    Mail = {m1}
    MaxRelation = 3
    MaxList = 2
SPECIFICATION Spec
SYMMETRY Connections
CHECK_DEADLOCK FALSE
INVARIANTS DanglingIsExplained OrphanIsExplained

