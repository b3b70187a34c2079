\* One server started before and one after the check of the certificate, two
\* setup requests, three certificates, two of them of the same expiry, one restart.
SPECIFICATION FairSpec
CONSTANTS
    smtp = smtp  imap = imap  w1 = w1  w2 = w2
    Early = {smtp}
    Late = {imap}
    Wizard = {w1, w2}
    Expiry <- TwoAlike
    MaxCert = 3
    MaxLoad = 2
CHECK_DEADLOCK FALSE
INVARIANTS LifecycleInv StaleIsExplained
PROPERTIES RestartIsServed
