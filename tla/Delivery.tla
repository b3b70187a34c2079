------------------------------ MODULE Delivery ------------------------------
(***************************************************************************)
(* The synchronous delivery of one message: doSend with its outbound       *)
(* switch (direct to the MX hosts, SMTP relay, Tencent SES), the goroutine *)
(* of each <<domain, first MX>> group, the SMTP client it drives command   *)
(* by command, and the SMTP reply made of the outcome.                     *)
(*                                                                         *)
(* The remote hosts are the environment: a host answers a command, refuses *)
(* it, breaks the connection or falls silent; once it has the message its  *)
(* answer may still be lost.  History variables, which no guard of the     *)
(* code's actions reads, record what the hosts really did.                 *)
(***************************************************************************)
EXTENDS Naturals, Sequences, FiniteSets, Functions

CONSTANTS N,            \* recipients, in the order of the envelope
          Domain,       \* domains an address may have
          TestDomain,   \* consts.TEST_DOMAIN
          Malformed,    \* "domain" of an address without exactly one "@"
          Host,         \* mail exchangers
          Own,          \* the host smtp.<domain>, used when there is no MX
          Upstream,     \* the relay, or the SES endpoint
          Addressings,  \* the domains the recipients may have
          Lookups,      \* the answers net.LookupMX may give for each domain (external)
          MaxLost       \* bound: answers lost after a host stored the message

ASSUME DeliveryAssumption ==
    /\ N \in Nat \ {0} /\ MaxLost \in Nat
    /\ Domain \cap {TestDomain, Malformed, Upstream} = {} /\ Upstream # TestDomain
    /\ Addressings \subseteq [1..N -> Domain \union {TestDomain, Malformed}]
    /\ \A d \in Domain : \A l \in Lookups[d] : l.hosts \in Seq(Host) /\ (l.hosts = <<>>) = (l.error # "none")

VARIABLES
    domainOf,     \* domain of each recipient
    mode,         \* outbound mode read by tryRelay
    looked,       \* recipients the grouping loop has handled
    tos,          \* toByDomain
    lookupError,  \* mxLookupErrors
    failover,     \* mxFailoverMap, <<>> when a domain has no entry
    session,      \* what each group's goroutine is doing
    errEmail,     \* errEmailAddress
    errMap,       \* errMap
    reply,        \* SMTP code returned to the submitting client
    copies,       \* history: times a host stored the message of a group
    lost,         \* history: positive answers to DATA that never arrived
    refused       \* history: groups that heard a 5xx

setup   == <<domainOf, mode, looked, tos, lookupError, failover>>
outcome == <<errEmail, errMap>>
history == <<copies, lost, refused>>
vars    == <<setup, session, outcome, reply, history>>

Recipient == 1..N
Key   == (Domain \X (Host \union {Own})) \union {<<TestDomain, Own>>, <<Upstream, Upstream>>}
Cause == {"perm", "tmp", "net", "notfound"}

\* mxDomain.domain, the key of errMap: "smtp.d" and "d" differ, the MX hosts of d do not
Label(k) == <<k[1], k[2] = Own>>

\* One connection, in order.  "open" is the dial, the banner, EHLO and, after any
\* failure of EHLO, HELO; "starttls" is STARTTLS, the handshake and the second EHLO.
SendMail           == <<"open", "starttls", "mail", "rcpt", "data", "message">>
SendMailWithTls    == <<"open", "mail", "rcpt", "data", "message">>
SendMailUnsafe     == <<"open", "mail", "rcpt", "data", "message">>
sendSMTPRelay(way) == IF way = "relay"
                      THEN <<"open", "starttls", "auth", "mail", "rcpt", "data", "message">>
                      ELSE <<"open", "auth", "mail", "rcpt", "data", "message">>
sendTencentSES     == <<"open", "message">>

Way == {"starttls", "matched", "587", "465", "plain", "relay", "relaytls", "ses"}
Script(way) == IF way \in {"starttls", "matched"} THEN SendMail
               ELSE IF way \in {"587", "465"}     THEN SendMailWithTls
               ELSE IF way = "plain"              THEN SendMailUnsafe
               ELSE IF way = "ses"                THEN sendTencentSES
               ELSE sendSMTPRelay(way)
Command(s) == Script(s.way)[s.at]

\* textproto errors keep their code; a broken, refused or silent connection and a
\* missing extension are "net", which is not permanent.  The second EHLO of StartTLS
\* meets the handshake; only the direct way looks at its certificate error.  The
\* errors of the SES API are no textproto errors.
Coded              == {"perm", "tmp", "net"}
DialFails          == {"net", "notfound"}
GreetingFails      == Coded
StartTLSFails(way) == Coded \union (IF way = "relay" THEN {} ELSE {"hostname"})
AuthFails          == Coded
EnvelopeFails      == Coded
DataFails          == Coded
callTencentSES     == DialFails

Failures(s) == IF s.way = "ses"                         THEN callTencentSES
               ELSE IF Command(s) = "open"              THEN DialFails \union GreetingFails
               ELSE IF Command(s) = "starttls"          THEN StartTLSFails(s.way)
               ELSE IF Command(s) = "auth"              THEN AuthFails
               ELSE IF Command(s) \in {"mail", "rcpt"}  THEN EnvelopeFails
               ELSE DataFails

\* failover is looked up by mxDomain.domain: "smtp.d" has no entry of its own
Hosts(k) == IF k[2] = Own \/ k[1] \notin Domain THEN <<k[2]>> ELSE failover[k[1]]

Session == [phase : {"talking", "stored", "accepted", "failed", "done"}, mx : Nat, way : Way,
            at : 1..7, rcpts : 0..N, last : Cause \union {"none", "hostname"}]
Connect(mx, way) == [phase |-> "talking", mx |-> mx, way |-> way, at |-> 1, rcpts |-> 0,
                     last |-> "none"]

TypeOK ==
    /\ domainOf \in Addressings
    /\ mode \in {"none", "direct", "relay", "ses", "broken"}
    /\ looked \in 0..N
    /\ DOMAIN tos \subseteq Key /\ \A k \in DOMAIN tos : tos[k] \in (SUBSET Recipient) \ {{}}
    /\ DOMAIN lookupError \subseteq Key
    /\ failover \in [Domain -> Seq(Host)]
    /\ DOMAIN session \in {{}, DOMAIN tos} /\ \A k \in DOMAIN session : session[k] \in Session
    /\ \A k \in DOMAIN session : session[k].mx \in 1..Len(Hosts(k))
    /\ errEmail \subseteq Recipient
    /\ \A l \in DOMAIN errMap : errMap[l] \in Cause
    /\ reply \in {"none", "250", "451", "550"}
    /\ copies \in [Key -> Nat] /\ lost \in [Key -> Nat] /\ refused \subseteq Key

Empty == [k \in {} |-> {}]
Put(f, k, v) == [j \in DOMAIN f \union {k} |-> IF j = k THEN v ELSE f[j]]

Init ==
    /\ domainOf \in Addressings
    /\ mode = "none"
    /\ looked = 0
    /\ tos = Empty /\ lookupError = Empty
    /\ failover = [d \in Domain |-> <<>>]
    /\ session = Empty
    /\ errEmail = {} /\ errMap = Empty
    /\ reply = "none"
    /\ copies = [k \in Key |-> 0]
    /\ lost = [k \in Key |-> 0]
    /\ refused = {}

-----------------------------------------------------------------------------
\* The switch and the grouping, on the caller's goroutine

\* What normalizeAndValidate lets through, and what readUnlocked may return: no file
\* is direct delivery; one that cannot be read, parsed or validated fails the delivery
Validated == {"direct", "relay", "relaytls", "ses"}
Read      == Validated \union {"broken"}

\* tryRelay, deliverTencentSESRaw: all recipients in one envelope
Handover(way) ==
    /\ tos' = Put(Empty, <<Upstream, Upstream>>, Recipient)
    /\ session' = Put(Empty, <<Upstream, Upstream>>, Connect(1, way))
    /\ UNCHANGED reply

ReadConfig ==
    /\ mode = "none"
    /\ \E read \in Read :
          /\ mode' = IF read = "relaytls" THEN "relay" ELSE read
          /\ \/ read = "direct" /\ UNCHANGED <<tos, session, reply>>
             \/ read = "broken" /\ reply' = "451" /\ UNCHANGED <<tos, session>>
             \/ read \in Validated \ {"direct"} /\ Handover(read)
    /\ UNCHANGED <<domainOf, looked, lookupError, failover, outcome, history>>

\* mutant: the group is overwritten, not appended to
AddTo_Last(k, r) == {r}

\* toByDomain[address] = append(toByDomain[address], s)
AddTo(k, r) == IF k \in DOMAIN tos THEN tos[k] \union {r} ELSE {r}

\* One turn of the grouping loop.  Each recipient is looked up anew, so two of
\* one domain may get different answers; the last one wins in failover.
Lookup ==
    /\ mode = "direct" /\ looked < N
    /\ looked' = looked + 1
    /\ LET r == looked + 1
           to == domainOf[r]
       IN  \/ /\ to = Malformed
              /\ UNCHANGED <<tos, lookupError, failover>>
           \/ /\ to = TestDomain
              /\ tos' = Put(tos, <<to, Own>>, AddTo(<<to, Own>>, r))
              /\ UNCHANGED <<lookupError, failover>>
           \/ /\ to \in Domain
              /\ \E l \in Lookups[to] :
                    LET k == <<to, IF l.hosts = <<>> THEN Own ELSE l.hosts[1]>>
                    IN  /\ tos' = Put(tos, k, AddTo(k, r))
                        /\ lookupError' = IF l.error = "none" THEN lookupError
                                          ELSE Put(lookupError, k, l.error)
                        /\ failover' = IF l.hosts = <<>> THEN failover
                                       ELSE [failover EXCEPT ![to] = l.hosts]
    /\ UNCHANGED <<domainOf, mode, session, outcome, reply, history>>

FirstWay(k) == IF k[1] = TestDomain THEN "plain" ELSE "starttls"

\* WaitProcess starts every group; the caller then waits
Start ==
    /\ mode = "direct" /\ looked = N /\ session = Empty /\ tos # Empty
    /\ session' = [k \in DOMAIN tos |-> Connect(1, FirstWay(k))]
    /\ UNCHANGED <<setup, outcome, reply, history>>

-----------------------------------------------------------------------------
\* One SMTP connection of a group

Talking(k) == k \in DOMAIN session /\ session[k].phase = "talking"

\* A positive answer to a command: RCPT is repeated for every recipient
Step(k, s) == IF Command(s) = "rcpt" /\ s.rcpts + 1 < Cardinality(tos[k])
              THEN [s EXCEPT !.rcpts = @ + 1]
              ELSE [s EXCEPT !.at = @ + 1]

Answer(k) ==
    /\ Talking(k) /\ Command(session[k]) # "message"
    /\ session' = [session EXCEPT ![k] = Step(k, @)]
    /\ UNCHANGED <<setup, outcome, reply, history>>

\* The host takes responsibility for the message; its 250 is on the way
HostStores(k) ==
    /\ Talking(k) /\ Command(session[k]) = "message"
    /\ session' = [session EXCEPT ![k].phase = "stored"]
    /\ copies' = [copies EXCEPT ![k] = @ + 1]
    /\ UNCHANGED <<setup, outcome, reply, lost, refused>>

\* finishDelivery returns nil on the 250: QUIT is written, 221 is not awaited
Accepted(k) ==
    /\ k \in DOMAIN session /\ session[k].phase = "stored"
    /\ session' = [session EXCEPT ![k].phase = "accepted"]
    /\ UNCHANGED <<setup, outcome, reply, history>>

\* mutant: a connection that breaks before the answer to QUIT is an error
Quit_MayFail(k) ==
    /\ k \in DOMAIN session /\ session[k].phase = "accepted"
    /\ \E phase \in {"done", "failed"} :
          session' = [session EXCEPT ![k].phase = phase, ![k].last = "net"]
    /\ UNCHANGED <<setup, outcome, reply, history>>

\* The write of QUIT is bounded and its result ignored
Quit(k) ==
    /\ k \in DOMAIN session /\ session[k].phase = "accepted"
    /\ session' = [session EXCEPT ![k].phase = "done"]
    /\ UNCHANGED <<setup, outcome, reply, history>>

\* The error of one connection
Fails(k, error) == session' = [session EXCEPT ![k].phase = "failed", ![k].last = error]

Refuse(k) ==
    /\ Talking(k)
    /\ \E error \in Failures(session[k]) :
          /\ Fails(k, error)
          /\ refused' = IF error = "perm" THEN refused \union {k} ELSE refused
    /\ UNCHANGED <<setup, outcome, reply, copies, lost>>

LostSoFar == FoldFunction(+, 0, lost)

AnswerLost(k) ==
    /\ k \in DOMAIN session /\ session[k].phase = "stored"
    /\ LostSoFar < MaxLost
    /\ Fails(k, "net")
    /\ lost' = [lost EXCEPT ![k] = @ + 1]
    /\ UNCHANGED <<setup, outcome, reply, copies, refused>>

-----------------------------------------------------------------------------
\* tryDeliverToMX and the failover loop

\* The ways to one host, in order; a certificate made out to another name is
\* retried once under a name of the certificate
NextWay(s) == IF s.way = "starttls" /\ s.last = "hostname" THEN "matched"
              ELSE IF s.way \in {"starttls", "matched"}    THEN "587"
              ELSE IF s.way = "587"                        THEN "465"
              ELSE IF s.way = "465"                        THEN "plain"
              ELSE "none"

\* mutant: errors.As never finds the textproto error
IsPermanentSMTPResponse_Never(error) == FALSE

IsPermanentSMTPResponse(error) == error = "perm"

\* mutant: the loop runs once too often
MoreHosts_One(k, s) == s.mx <= Len(Hosts(k))

MoreHosts(k, s) == s.mx < Len(Hosts(k))

\* The next connection of group k after s failed, or "none"
NextTry(k, s) ==
    IF IsPermanentSMTPResponse(s.last) THEN <<>>
    ELSE IF NextWay(s) # "none" /\ k[1] # TestDomain THEN <<Connect(s.mx, NextWay(s))>>
    ELSE IF MoreHosts(k, s) THEN <<Connect(s.mx + 1, "starttls")>>
    ELSE <<>>

\* mutant: the error of the fallback host is reported as it is
FailureCause_Fallback(k, error) == error

\* deliveryFailureCause: a temporary lookup error outranks a network error
FailureCause(k, error) ==
    IF /\ ~IsPermanentSMTPResponse(error)
       /\ k \in DOMAIN lookupError /\ lookupError[k] = "temporary"
       /\ error \in {"net", "notfound"}
    THEN "net" ELSE error

Failed(k) == k \in DOMAIN session /\ session[k].phase = "failed"

Retry(k) ==
    /\ Failed(k) /\ NextTry(k, session[k]) # <<>>
    /\ session' = [session EXCEPT ![k] = NextTry(k, @)[1]]
    /\ UNCHANGED <<setup, outcome, reply, history>>

\* recordFailure, and the result of the relay and of SES
RecordFailure(k) ==
    /\ Failed(k) /\ NextTry(k, session[k]) = <<>>
    /\ errEmail' = errEmail \union tos[k]
    /\ errMap' = Put(errMap, Label(k), FailureCause(k, session[k].last))
    /\ session' = [session EXCEPT ![k].phase = "done", ![k].last = FailureCause(k, @)]
    /\ UNCHANGED <<setup, reply, history>>

-----------------------------------------------------------------------------
\* The result

IsPermanentDeliveryError(cause) == cause \in {"perm", "notfound"}

\* mutant: one permanent failure makes the whole delivery fail for good
ReplyOf_AnyPermanent(failed, causes) ==
    IF failed = {} THEN "250"
    ELSE IF \E l \in DOMAIN causes : IsPermanentDeliveryError(causes[l]) THEN "550"
    ELSE "451"

\* downstreamDeliverySMTPError
ReplyOf(failed, causes) ==
    IF failed = {} THEN "250"
    ELSE IF DOMAIN causes # {} /\ \A l \in DOMAIN causes : IsPermanentDeliveryError(causes[l])
         THEN "550"
    ELSE "451"

\* mutant: wg.Done is not deferred, a failed group returns before it
AllDone_Accepted ==
    \A k \in DOMAIN tos : k \in DOMAIN session /\ session[k].phase = "done"
                          /\ session[k].last = "none"

AllDone == \A k \in DOMAIN tos : k \in DOMAIN session /\ session[k].phase = "done"

Return ==
    /\ reply = "none"
    /\ \/ mode = "direct" /\ looked = N
       \/ mode \in {"relay", "ses"}
    /\ AllDone
    /\ reply' = ReplyOf(errEmail, errMap)
    /\ UNCHANGED <<setup, session, outcome, history>>

Local(k) == Quit(k) \/ Retry(k) \/ RecordFailure(k)
Remote(k) == Answer(k) \/ HostStores(k) \/ Accepted(k) \/ Refuse(k) \/ AnswerLost(k)

Next ==
    \/ ReadConfig \/ Lookup \/ Start \/ Return
    \/ \E k \in Key : Local(k) \/ Remote(k)

Spec == Init /\ [][Next]_vars

\* The code's own steps run; a lookup answers or times out; the relay's
\* connection and the SES call have deadlines; a direct connection has none once
\* it is open, so nothing is assumed of the hosts.
Timely == ReadConfig \/ Lookup \/ Start \/ Return \/ (\E k \in Key : Local(k))
          \/ Remote(<<Upstream, Upstream>>)
FairSpec == Spec /\ WF_vars(Timely)

-----------------------------------------------------------------------------
\* Properties

\* When doSend has returned, every recipient it could address has a copy at a
\* host, or is named in the error: a goroutine, a failover list or a group that
\* two lookups share loses nobody.
NobodyForgotten ==
    reply # "none" /\ mode # "broken" =>
        \A r \in Recipient : domainOf[r] = Malformed \/ r \in errEmail
            \/ \E k \in DOMAIN tos : r \in tos[k] /\ copies[k] > 0

\* A host stores a second copy only after the answer to the first was lost:
\* neither QUIT, nor another port, nor the next MX repeats an accepted message.
NoNeedlessCopy == \A k \in Key : copies[k] <= lost[k] + 1

\* A group that heard a 5xx for the message opens no other connection, on any
\* port or MX, so that no host stores what another host has refused.
PermanentIsFinal ==
    [][\A k \in DOMAIN session :
          k \in refused => session'[k].phase \in {"failed", "done"}]_vars

\* A group's failure is permanent only if its last host answered 5xx, or if a
\* name was not found and the MX lookup had not just failed temporarily; and the
\* client is told 550 only when that holds of a group under every label.
BouncedIsExplained ==
    reply = "550" =>
        \A l \in DOMAIN errMap : \E k \in DOMAIN tos :
            /\ Label(k) = l
            /\ \/ k \in refused
               \/ session[k].last = "notfound"
                  /\ ~(k \in DOMAIN lookupError /\ lookupError[k] = "temporary")

\* doSend goes on unless a host it talks to directly is silent: a group whose
\* message was accepted ends without its host, a failed one is recorded, the
\* relay and SES are bounded, and when all groups have ended the client is told.
Silence == mode = "direct" /\ \E k \in DOMAIN session : session[k].phase \in {"talking", "stored"}
OnlySilenceDelays == ~Silence ~> (Silence \/ reply # "none")

-----------------------------------------------------------------------------
\* The refinement.  Two groups of a domain whose MX changed between two lookups have
\* one label; its result is known when both have ended, and so is whether there is
\* a copy.

Labelled(l) == {k \in DOMAIN tos : Label(k) = l}

Ended(l) == /\ Labelled(l) # {}
            /\ \A k \in Labelled(l) : k \in DOMAIN session /\ session[k].phase = "done"

OutcomeOf(l) == IF ~Ended(l) THEN "none"
                ELSE IF l \notin DOMAIN errMap THEN "accepted"
                ELSE IF IsPermanentDeliveryError(errMap[l]) THEN "perm" ELSE "temp"

HeldBy(l) == Ended(l) /\ \E k \in Labelled(l) : copies[k] > 0

Labels == {Label(k) : k \in Key}

Sender == INSTANCE Sender WITH
    Target  <- Labels,
    Relay   <- Label(<<Upstream, Upstream>>),
    targets <- {Label(k) : k \in DOMAIN tos},
    outcome <- [l \in Labels |-> OutcomeOf(l)],
    held    <- {l \in Labels : HeldBy(l)},
    answer  <- reply

\* doSend is the sender that deliverOutgoingEmail expects: behind goroutines, ports,
\* hosts and lost answers every label gets one final result, a copy is at each that
\* is not reported as failed, and the reply waits for all and is made of all.
ImplementsSender == Sender!Spec
=============================================================================
