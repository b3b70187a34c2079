\* Two connections that go into IDLE twice, two mailboxes, one mail.
CONSTANTS
    a = a  b = b  inbox = inbox  other = other  m1 = m1  m2 = m2
    Session = {a, b}
    Box = {inbox, other}
    Mail = {m1}
    MaxIdle = 2
SPECIFICATION FairSpec
CHECK_DEADLOCK FALSE
INVARIANTS RegistryInv
PROPERTIES RegistryDrains FirstIdleHears
