\* Two notices cross.
CONSTANTS
    a = a  b = b  inbox = inbox  other = other  m1 = m1  m2 = m2
    Session = {a, b}
    Box = {inbox}
    Mail = {m1, m2}
    MaxIdle = 1
SPECIFICATION Spec
CHECK_DEADLOCK FALSE
INVARIANTS ToldIsSize
