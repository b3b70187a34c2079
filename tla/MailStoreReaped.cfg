\* COPY between the count and the delete of DelByUID, on SQLite.
CONSTANTS
    ann = ann  bob = bob  web1 = web1  imap1 = imap1  imap2 = imap2
    m1 = m1  m2 = m2  None = None
    User = {ann, bob}
    Client = {web1, imap1}
    owner <- OneUser
    Mail = {m1}
    MaxRelation = 3
    MaxList = 1
SPECIFICATION SqliteSpec
CHECK_DEADLOCK FALSE
PROPERTIES ReapedIsUnowned
