\* Two clients, three commands, the tree a/b, two more folders, two relations.
CONSTANTS
    c1 = c1  c2 = c2  a = a  b = b  r1 = r1  r2 = r2
    Client = {c1, c2}
    Name = {a, b}
    Path <- Paths
    Row = {r1, r2}
    InitialTree <- TwoLevels
    MaxGroup = 4
    MaxCommand = 3
SPECIFICATION Spec
SYMMETRY Symmetry
CHECK_DEADLOCK FALSE
INVARIANTS TypeOK FiledIsExplained HiddenIsExplained PathIsTrue NamesAreUnique
PROPERTIES DeleteIsContained
