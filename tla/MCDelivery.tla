----------------------------- MODULE MCDelivery -----------------------------
(* Instances of Delivery for TLC. *)
EXTENDS Delivery, TLC

CONSTANTS d, e, f, test, bad, m1, m2, own, up

MX(hosts)  == [hosts |-> hosts, error |-> "none"]
NoMX(error) == [hosts |-> <<>>, error |-> error]

\* Both recipients on one domain, one on the test domain, one unusable
TwoRecipients == {<<d, d>>, <<e, e>>, <<f, f>>, <<d, test>>, <<bad, d>>}

\* The single MX of d changes between two lookups; e has two MX of different
\* preference; f has none, or its lookup fails
Zone == (d :> {MX(<<m1>>), MX(<<m2>>)}) @@ (e :> {MX(<<m1, m2>>)})
        @@ (f :> {NoMX("temporary"), NoMX("notfound")})
=============================================================================
