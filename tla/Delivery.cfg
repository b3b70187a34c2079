\* Two recipients, a domain whose MX changes and one with two MX, one lost answer.
CONSTANTS
    d = d  e = e  f = f  test = test  bad = bad  m1 = m1  m2 = m2  own = own  up = up
    N = 2
    Domain = {d, e, f}
    TestDomain = test
    Malformed = bad
    Host = {m1, m2}
    Own = own
    Upstream = up
    Addressings <- TwoRecipients
    Lookups <- Zone
    MaxLost = 1
SPECIFICATION FairSpec
CHECK_DEADLOCK FALSE
INVARIANTS TypeOK NobodyForgotten NoNeedlessCopy BouncedIsExplained
PROPERTIES PermanentIsFinal ImplementsSender OnlySilenceDelays
