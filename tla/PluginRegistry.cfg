\* Two plugins that announce the same name, one restart.
CONSTANTS
    None = None
    spam = spam  push = push
    Plugins = 2
    MaxInit = 2
    MaxLate = 1
    Names = {spam, push}
    FileName <- MCFileName
    Announced <- MCAnnounced
SPECIFICATION FairSpec
CHECK_DEADLOCK FALSE
INVARIANTS HooksInv LivePluginStays
PROPERTIES DeadPluginLeaves LoadingEnds
