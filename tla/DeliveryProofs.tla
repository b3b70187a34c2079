--------------------------- MODULE DeliveryProofs ---------------------------
(***************************************************************************)
(* Proofs about Delivery, for any recipients, domains, mail exchangers and *)
(* answers of the DNS.                                                     *)
(*                                                                         *)
(* What the caller is told depends on what every group's goroutine left    *)
(* behind.  IInv says of each group, at each point of its connection, how  *)
(* many copies its hosts hold beyond those whose answer was lost, what it  *)
(* has heard, and once it has ended that its recipients are named in the   *)
(* error or their message is at a host.  At the end, a delivery is shown   *)
(* to be one of Sender.                                                    *)
(***************************************************************************)
EXTENDS Delivery, FiniteSetTheorems, TLAPS

Up == <<Upstream, Upstream>>

LookupFailed(k) == k \in DOMAIN lookupError /\ lookupError[k] = "temporary"

\* The message is at a host whose positive answer is not lost.
Kept(s) == IF s.phase \in {"stored", "accepted"} \/ (s.phase = "done" /\ s.last = "none")
           THEN 1 ELSE 0

\* The connection of a group
Connection(k, s) ==
    /\ s.at <= Len(Script(s.way))
    /\ k[1] = TestDomain => s.way = "plain"
    /\ s.last = "hostname" => s.way \in {"starttls", "matched"} /\ s.phase = "failed"
    /\ s.phase = "failed" => s.last # "none"
    /\ s.phase \in {"talking", "stored", "accepted"} => s.last = "none"

\* What a group's goroutine leaves behind
Settled(k, s) ==
    s.phase = "done" /\ s.last # "none" =>
        tos[k] \subseteq errEmail /\ (s.last = "notfound" => ~LookupFailed(k))

Progress(k) ==
    /\ Connection(k, session[k])
    /\ Settled(k, session[k])
    /\ copies[k] = lost[k] + Kept(session[k])
    /\ k \in refused <=> session[k].last = "perm"

\* The grouping loop has dealt with the recipients it has handled.
Grouped ==
    /\ mode \in {"none", "broken"} => looked = 0 /\ DOMAIN tos = {}
    /\ mode \in {"relay", "ses"} =>
          DOMAIN tos = {Up} /\ DOMAIN session = {Up} /\ tos[Up] = Recipient
    /\ mode = "direct" =>
          /\ \A k \in DOMAIN tos :
                /\ k[1] \in Domain \union {TestDomain}
                /\ k[1] \in Domain /\ k[2] # Own => failover[k[1]] # <<>>
          /\ \A r \in 1..looked :
                domainOf[r] = Malformed \/ \E k \in DOMAIN tos : r \in tos[k]
          /\ DOMAIN session # {} => looked = N

\* Nothing has happened to a group before its goroutine starts.
Untouched ==
    \A k \in Key : k \in DOMAIN session
                   \/ (copies[k] = 0 /\ lost[k] = 0 /\ k \notin refused)

\* Every cause the caller sees is that of a group that has ended.
Recorded ==
    \A l \in DOMAIN errMap : \E k \in DOMAIN session :
        Label(k) = l /\ session[k].phase = "done" /\ session[k].last = errMap[l]

Returned ==
    /\ mode = "broken" => reply = "451"
    /\ reply # "none" /\ mode # "broken" =>
          /\ mode \in {"relay", "ses"} \/ (mode = "direct" /\ looked = N)
          /\ AllDone
          /\ reply = ReplyOf(errEmail, errMap)

IInv ==
    /\ TypeOK
    /\ Grouped
    /\ Untouched
    /\ \A k \in DOMAIN session : Progress(k)
    /\ Recorded
    /\ Returned

-----------------------------------------------------------------------------
\* Operators

\* "message" is the last command of a connection, and only connections on port 25
\* and those of a relay that asks for it begin TLS with a command.
LEMMA ScriptEnds ==
    ASSUME NEW way \in Way
    PROVE  /\ Len(Script(way)) \in 2..7
           /\ \A i \in 1..Len(Script(way)) :
                 /\ Script(way)[i] # "message" => i + 1 <= Len(Script(way))
                 /\ Script(way)[i] = "starttls" => way \in {"starttls", "matched", "relay"}
<1>1. CASE way \in {"starttls", "matched"}
  <2>1. Script(way) = <<"open", "starttls", "mail", "rcpt", "data", "message">>
    BY <1>1 DEF Script, SendMail
  <2> QED
    BY <1>1, <2>1
<1>2. CASE way \in {"587", "465", "plain"}
  <2>1. Script(way) = <<"open", "mail", "rcpt", "data", "message">>
    BY <1>2 DEF Script, SendMailWithTls, SendMailUnsafe
  <2> QED
    BY <1>2, <2>1
<1>3. CASE way = "ses"
  <2>1. Script(way) = <<"open", "message">>
    BY <1>3 DEF Script, sendTencentSES
  <2> QED
    BY <1>3, <2>1
<1>4. CASE way = "relay"
  <2>1. Script(way) = <<"open", "starttls", "auth", "mail", "rcpt", "data", "message">>
    BY <1>4 DEF Script, sendSMTPRelay
  <2>2. Len(Script(way)) = 7
    BY <2>1
  <2>3. /\ Script(way)[1] = "open"
        /\ Script(way)[2] = "starttls"
        /\ Script(way)[3] = "auth"
        /\ Script(way)[4] = "mail"
        /\ Script(way)[5] = "rcpt"
        /\ Script(way)[6] = "data"
        /\ Script(way)[7] = "message"
    BY <2>1
  <2>4. \A i \in 1..7 : i = 1 \/ i = 2 \/ i = 3 \/ i = 4 \/ i = 5 \/ i = 6 \/ i = 7
    OBVIOUS
  <2> QED
    BY <1>4, <2>2, <2>3, <2>4
<1>5. CASE way = "relaytls"
  <2>1. Script(way) = <<"open", "auth", "mail", "rcpt", "data", "message">>
    BY <1>5 DEF Script, sendSMTPRelay
  <2>2. Len(Script(way)) = 6
    BY <2>1
  <2>3. /\ Script(way)[1] = "open"
        /\ Script(way)[2] = "auth"
        /\ Script(way)[3] = "mail"
        /\ Script(way)[4] = "rcpt"
        /\ Script(way)[5] = "data"
        /\ Script(way)[6] = "message"
    BY <2>1
  <2>4. \A i \in 1..6 : i = 1 \/ i = 2 \/ i = 3 \/ i = 4 \/ i = 5 \/ i = 6
    OBVIOUS
  <2> QED
    BY <1>5, <2>2, <2>3, <2>4
<1> QED
  BY <1>1, <1>2, <1>3, <1>4, <1>5 DEF Way

\* A certificate of another name is an error only of STARTTLS with an exchanger.
LEMMA FailureType ==
    ASSUME NEW s \in Session, s.at <= Len(Script(s.way)), NEW error \in Failures(s)
    PROVE  /\ error \in Cause \union {"hostname"}
           /\ error = "hostname" => s.way \in {"starttls", "matched"}
<1>1. s.way \in Way /\ s.at \in 1..Len(Script(s.way))
  BY ScriptEnds DEF Session
<1>2. Command(s) = "starttls" => s.way \in {"starttls", "matched", "relay"}
  BY <1>1, ScriptEnds DEF Command
<1> QED
  BY <1>2 DEF Failures, callTencentSES, DialFails, GreetingFails, StartTLSFails, AuthFails,
              EnvelopeFails, DataFails, Coded, Cause

LEMMA ConnectType ==
    ASSUME NEW mx \in Nat, NEW way \in Way, NEW k
    PROVE  /\ Connect(mx, way) \in Session
           /\ Connect(mx, way).mx = mx
           /\ Connect(mx, way).last = "none"
           /\ Kept(Connect(mx, way)) = 0
           /\ (k[1] = TestDomain => way = "plain") => Connection(k, Connect(mx, way))
           /\ Settled(k, Connect(mx, way))
<1>1. 1 <= Len(Script(way))
  BY ScriptEnds
<1>2. 0 \in 0..N
  BY DeliveryAssumption
<1> QED
  BY <1>1, <1>2 DEF Connect, Session, Kept, Connection, Settled

LEMMA HostsType ==
    ASSUME TypeOK, Grouped, NEW k \in DOMAIN tos
    PROVE  /\ Len(Hosts(k)) \in Nat \ {0}
           /\ k[1] = TestDomain => Len(Hosts(k)) = 1
<1>0. k \in Key
  BY DEF TypeOK
<1>1. CASE k[2] = Own \/ k[1] \notin Domain
  BY <1>1 DEF Hosts
<1>2. CASE k[2] # Own /\ k[1] \in Domain
  <2>1. mode = "direct"
    BY <1>2, DeliveryAssumption DEF TypeOK, Grouped, Up
  <2>2. failover[k[1]] \in Seq(Host) /\ failover[k[1]] # <<>>
    BY <1>2, <2>1 DEF TypeOK, Grouped
  <2>3. Len(failover[k[1]]) \in Nat \ {0}
    BY <2>2
  <2> QED
    BY <1>2, <2>3, DeliveryAssumption DEF Hosts
<1>3. k[1] = TestDomain => k[1] \notin Domain
  BY DeliveryAssumption
<1> QED
  BY <1>1, <1>2, <1>3 DEF Hosts

-----------------------------------------------------------------------------
\* The switch, the grouping and the result

LEMMA InitInv == Init => IInv
<1> SUFFICES ASSUME Init PROVE IInv
  OBVIOUS
<1>1. DOMAIN tos = {} /\ DOMAIN session = {} /\ DOMAIN lookupError = {} /\ DOMAIN errMap = {}
  BY DEF Init, Empty
<1>2. failover \in [Domain -> Seq(Host)]
  BY DEF Init
<1>3. TypeOK
  BY <1>1, <1>2, DeliveryAssumption DEF Init, TypeOK
<1> QED
  BY <1>1, <1>3 DEF Init, IInv, Grouped, Untouched, Recorded, Returned

LEMMA HandoverInv ==
    ASSUME IInv, mode = "none", NEW way \in {"relay", "relaytls", "ses"}, Handover(way),
           mode' \in {"relay", "ses"},
           UNCHANGED <<domainOf, looked, lookupError, failover, outcome, history>>
    PROVE  IInv'
<1>0. DOMAIN Empty = {}
  BY DEF Empty
<1>1. DOMAIN tos' = {Up} /\ tos'[Up] = Recipient
  <2>1. tos' = Put(Empty, Up, Recipient)
    BY DEF Handover, Up
  <2> QED
    BY <2>1, <1>0 DEF Put
<1>2. DOMAIN session' = {Up} /\ session'[Up] = Connect(1, way)
  <2>1. session' = Put(Empty, Up, Connect(1, way))
    BY DEF Handover, Up
  <2> QED
    BY <2>1, <1>0 DEF Put
<1>3. DOMAIN session = {} /\ looked = 0 /\ reply = "none"
  BY DEF IInv, TypeOK, Grouped, Returned
<1>4. Up \in Key
  BY DEF Up, Key
<1>5. UNCHANGED <<domainOf, looked, lookupError, failover, errEmail, errMap, copies, lost,
                  refused, reply>>
  BY DEF Handover, outcome, history
<1>6. Len(Hosts(Up)') = 1 /\ way \in Way /\ way # "plain"
  BY DeliveryAssumption DEF Hosts, Up, Way
<1>7. Recipient # {}
  BY DeliveryAssumption DEF Recipient
<1>8. /\ session'[Up] \in Session
      /\ session'[Up].mx = 1
      /\ session'[Up].last = "none"
      /\ Kept(session'[Up]) = 0
      /\ Connection(Up, session'[Up])
  BY <1>2, <1>6, ConnectType, DeliveryAssumption DEF Up
<1>9. copies[Up] = 0 /\ lost[Up] = 0 /\ Up \notin refused
  BY <1>3, <1>4 DEF IInv, Untouched
<1>10. TypeOK'
  <2>1. /\ domainOf' \in Addressings /\ looked' \in 0..N
        /\ DOMAIN lookupError' \subseteq Key
        /\ failover' \in [Domain -> Seq(Host)]
        /\ errEmail' \subseteq Recipient
        /\ \A l \in DOMAIN errMap' : errMap'[l] \in Cause
        /\ reply' = "none"
        /\ copies' \in [Key -> Nat] /\ lost' \in [Key -> Nat] /\ refused' \subseteq Key
    BY <1>3, <1>5 DEF IInv, TypeOK
  <2>2. DOMAIN tos' \subseteq Key /\ \A k \in DOMAIN tos' : tos'[k] \in (SUBSET Recipient) \ {{}}
    BY <1>1, <1>4, <1>7
  <2>3. /\ DOMAIN session' = DOMAIN tos'
        /\ \A k \in DOMAIN session' : session'[k] \in Session
    BY <1>1, <1>2, <1>8
  <2>4. \A k \in DOMAIN session' : session'[k].mx \in 1..Len(Hosts(k)')
    <3> SUFFICES 1 \in 1..Len(Hosts(Up)')
      BY <1>2, <1>8, Zenon
    <3> QED
      BY <1>6
  <2> QED
    BY <2>1, <2>2, <2>3, <2>4 DEF TypeOK
<1>11. Grouped'
  BY <1>1, <1>2 DEF Grouped, Recipient
<1>12. Untouched'
  BY <1>2, <1>3, <1>5 DEF IInv, Untouched
<1>13. \A k \in DOMAIN session' : Progress(k)'
  BY <1>1, <1>2, <1>5, <1>8, <1>9 DEF Progress, Settled, Kept, Connection
<1>14. Recorded'
  BY <1>3, <1>5 DEF IInv, Recorded
<1>15. Returned'
  BY <1>3, <1>5 DEF Returned
<1> QED
  BY <1>10, <1>11, <1>12, <1>13, <1>14, <1>15 DEF IInv

LEMMA ReadConfigInv == ASSUME IInv, ReadConfig PROVE IInv'
<1>1. PICK read \in Read :
         /\ mode' = IF read = "relaytls" THEN "relay" ELSE read
         /\ \/ read = "direct" /\ UNCHANGED <<tos, session, reply>>
            \/ read = "broken" /\ reply' = "451" /\ UNCHANGED <<tos, session>>
            \/ read \in Validated \ {"direct"} /\ Handover(read)
  BY DEF ReadConfig
<1>2. mode = "none" /\ UNCHANGED <<domainOf, looked, lookupError, failover, outcome, history>>
  BY DEF ReadConfig
<1>3. CASE read \in Validated \ {"direct"} /\ Handover(read)
  <2>1. read \in {"relay", "relaytls", "ses"} /\ mode' \in {"relay", "ses"}
    BY <1>1, <1>3 DEF Validated
  <2> QED
    BY <1>2, <1>3, <2>1, HandoverInv
<1>4. CASE read \in {"direct", "broken"} /\ UNCHANGED <<tos, session>>
  <2>1. DOMAIN session = {} /\ DOMAIN tos = {} /\ looked = 0 /\ reply = "none"
    BY <1>2 DEF IInv, TypeOK, Grouped, Returned
  <2>2. mode' = read
    BY <1>1, <1>4
  <2>3. IF read = "broken" THEN reply' = "451" ELSE reply' = reply
    BY <1>1, <1>4 DEF Validated
  <2>4. TypeOK'
    BY <1>2, <1>4, <2>1, <2>2, <2>3 DEF IInv, TypeOK, outcome, history, Hosts
  <2>5. Grouped' /\ Untouched' /\ Recorded' /\ Returned'
    BY <1>2, <1>4, <2>1, <2>2, <2>3
       DEF IInv, Grouped, Untouched, Recorded, Returned, outcome, history
  <2>6. DOMAIN session' = {}
    BY <1>4, <2>1
  <2> QED
    BY <2>4, <2>5, <2>6 DEF IInv
<1> QED
  BY <1>1, <1>3, <1>4

\* No goroutine starts, and the caller hears nothing, before the grouping has ended.
LEMMA UngroupedIsQuiet ==
    ASSUME IInv, mode = "direct", looked < N
    PROVE  DOMAIN session = {} /\ reply = "none"
<1>1. looked # N
  BY DeliveryAssumption DEF IInv, TypeOK
<1> QED
  BY <1>1 DEF IInv, Grouped, Returned

\* The groups, once one of them has a recipient more
LEMMA AddToInv ==
    ASSUME IInv, Lookup, NEW k \in Key,
           tos' = Put(tos, k, AddTo(k, looked + 1)),
           DOMAIN lookupError' \subseteq Key, failover' \in [Domain -> Seq(Host)],
           k[1] \in Domain \union {TestDomain},
           k[1] \in Domain /\ k[2] # Own => failover'[k[1]] # <<>>,
           \A d \in Domain : failover'[d] = failover[d] \/ failover'[d] # <<>>
    PROVE  IInv'
<1>1. /\ mode = "direct" /\ looked < N /\ looked' = looked + 1
      /\ UNCHANGED <<domainOf, mode, session, outcome, reply, history>>
  BY DEF Lookup
<1>2. DOMAIN session = {} /\ reply = "none"
  BY <1>1, UngroupedIsQuiet
<1>3. looked' \in 0..N /\ looked + 1 \in Recipient
  BY <1>1, DeliveryAssumption DEF IInv, TypeOK, Recipient
<1>4. /\ DOMAIN tos' = DOMAIN tos \union {k}
      /\ tos'[k] = AddTo(k, looked + 1)
      /\ \A j \in DOMAIN tos : j # k => tos'[j] = tos[j]
  BY DEF Put
<1>5. /\ AddTo(k, looked + 1) \in (SUBSET Recipient) \ {{}}
      /\ looked + 1 \in AddTo(k, looked + 1)
      /\ k \in DOMAIN tos => tos[k] \subseteq AddTo(k, looked + 1)
  BY <1>3 DEF AddTo, IInv, TypeOK
<1>6. TypeOK'
  <2>1. DOMAIN tos' \subseteq Key /\ \A j \in DOMAIN tos' : tos'[j] \in (SUBSET Recipient) \ {{}}
    BY <1>4, <1>5 DEF IInv, TypeOK
  <2>2. /\ DOMAIN session' = {}
        /\ \A j \in DOMAIN session' : session'[j] \in Session
        /\ \A j \in DOMAIN session' : session'[j].mx \in 1..Len(Hosts(j)')
    BY <1>1, <1>2
  <2> QED
    BY <1>1, <1>3, <2>1, <2>2 DEF IInv, TypeOK, outcome, history
<1>7. Grouped'
  <2>1. \A j \in DOMAIN tos' :
            /\ j[1] \in Domain \union {TestDomain}
            /\ j[1] \in Domain /\ j[2] # Own => failover'[j[1]] # <<>>
    BY <1>1, <1>4 DEF IInv, Grouped
  <2>2. \A r \in 1..looked' : r \in 1..looked \/ r = looked + 1
    BY <1>1 DEF IInv, TypeOK
  <2>3. \A r \in 1..looked' :
            domainOf'[r] = Malformed \/ \E j \in DOMAIN tos' : r \in tos'[j]
    <3> SUFFICES ASSUME NEW r \in 1..looked', domainOf[r] # Malformed
                 PROVE  \E j \in DOMAIN tos' : r \in tos'[j]
      BY <1>1
    <3>1. CASE r = looked + 1
      BY <1>4, <1>5, <3>1
    <3>2. CASE r \in 1..looked
      <4>1. PICK j \in DOMAIN tos : r \in tos[j]
        BY <1>1, <3>2 DEF IInv, Grouped
      <4> QED
        BY <4>1, <1>4, <1>5
    <3> QED
      BY <2>2, <3>1, <3>2
  <2> QED
    BY <1>1, <1>2, <2>1, <2>3 DEF Grouped
<1>8. Untouched' /\ Recorded' /\ Returned'
  BY <1>1, <1>2 DEF IInv, Untouched, Recorded, Returned, outcome, history
<1> QED
  BY <1>1, <1>2, <1>6, <1>7, <1>8 DEF IInv

LEMMA LookupInv == ASSUME IInv, Lookup PROVE IInv'
<1> DEFINE to == domainOf[looked + 1]
<1>1. /\ mode = "direct" /\ looked < N /\ looked' = looked + 1
      /\ UNCHANGED <<domainOf, mode, session, outcome, reply, history>>
  BY DEF Lookup
<1>2. CASE to = Malformed /\ UNCHANGED <<tos, lookupError, failover>>
  <2>1. DOMAIN session = {} /\ reply = "none"
    BY <1>1, UngroupedIsQuiet
  <2>2. looked' \in 0..N /\ \A r \in 1..looked' : r \in 1..looked \/ r = looked + 1
    BY <1>1, DeliveryAssumption DEF IInv, TypeOK
  <2>3. TypeOK'
    BY <1>1, <1>2, <2>1, <2>2 DEF IInv, TypeOK, outcome, history
  <2>4. Grouped'
    BY <1>1, <1>2, <2>1, <2>2 DEF IInv, Grouped
  <2>5. Untouched' /\ Recorded' /\ Returned'
    BY <1>1, <2>1 DEF IInv, Untouched, Recorded, Returned, outcome, history
  <2> QED
    BY <1>1, <2>1, <2>3, <2>4, <2>5 DEF IInv
<1>3. CASE /\ to = TestDomain
           /\ tos' = Put(tos, <<to, Own>>, AddTo(<<to, Own>>, looked + 1))
           /\ UNCHANGED <<lookupError, failover>>
  <2>1. <<to, Own>> \in Key
    BY <1>3 DEF Key
  <2> QED
    BY <1>3, <2>1, AddToInv, DeliveryAssumption DEF IInv, TypeOK
<1>4. CASE /\ to \in Domain
           /\ \E l \in Lookups[to] :
                LET k == <<to, IF l.hosts = <<>> THEN Own ELSE l.hosts[1]>>
                IN  /\ tos' = Put(tos, k, AddTo(k, looked + 1))
                    /\ lookupError' = IF l.error = "none" THEN lookupError
                                      ELSE Put(lookupError, k, l.error)
                    /\ failover' = IF l.hosts = <<>> THEN failover
                                   ELSE [failover EXCEPT ![to] = l.hosts]
  <2>1. PICK l \in Lookups[to] :
                LET k == <<to, IF l.hosts = <<>> THEN Own ELSE l.hosts[1]>>
                IN  /\ tos' = Put(tos, k, AddTo(k, looked + 1))
                    /\ lookupError' = IF l.error = "none" THEN lookupError
                                      ELSE Put(lookupError, k, l.error)
                    /\ failover' = IF l.hosts = <<>> THEN failover
                                   ELSE [failover EXCEPT ![to] = l.hosts]
    BY <1>4
  <2> DEFINE k == <<to, IF l.hosts = <<>> THEN Own ELSE l.hosts[1]>>
  <2>2. l.hosts \in Seq(Host)
    BY <1>4, DeliveryAssumption
  <2>3. l.hosts # <<>> => l.hosts[1] \in Host
    BY <2>2
  <2>4. k \in Key /\ k[1] = to
    BY <1>4, <2>3 DEF Key
  <2>5. failover' \in [Domain -> Seq(Host)]
    BY <2>1, <2>2 DEF IInv, TypeOK
  <2>6. DOMAIN lookupError' \subseteq Key
    BY <2>1, <2>4 DEF IInv, TypeOK, Put
  <2>7. k[2] # Own => failover'[to] # <<>>
    BY <1>4, <2>1 DEF IInv, TypeOK
  <2>8. \A d \in Domain : failover'[d] = failover[d] \/ failover'[d] # <<>>
    BY <2>1 DEF IInv, TypeOK
  <2>9. tos' = Put(tos, k, AddTo(k, looked + 1))
    BY <2>1
  <2> HIDE DEF k
  <2> QED
    BY <1>4, <2>4, <2>5, <2>6, <2>7, <2>8, <2>9, AddToInv
<1> QED
  BY <1>2, <1>3, <1>4 DEF Lookup

LEMMA StartInv == ASSUME IInv, Start PROVE IInv'
<1>1. /\ mode = "direct" /\ looked = N /\ DOMAIN session = {}
      /\ UNCHANGED <<setup, outcome, reply, history>>
  BY DEF Start, Empty
<1>2. DOMAIN session' = DOMAIN tos /\ \A k \in DOMAIN tos : session'[k] = Connect(1, FirstWay(k))
  BY DEF Start
<1>3. reply = "none" \/ DOMAIN tos = {}
  BY <1>1 DEF IInv, Returned, AllDone
<1>4. \A k \in DOMAIN tos : FirstWay(k) \in Way /\ (k[1] = TestDomain => FirstWay(k) = "plain")
  BY DEF FirstWay, Way
<1>5. \A k \in DOMAIN tos :
         /\ session'[k] \in Session
         /\ session'[k].mx = 1
         /\ session'[k].last = "none"
         /\ Kept(session'[k]) = 0
         /\ Connection(k, session'[k])
  BY <1>2, <1>4, ConnectType
<1>6. \A k \in DOMAIN tos : 1 \in 1..Len(Hosts(k))
  BY HostsType DEF IInv
<1>7. \A k \in DOMAIN tos : Hosts(k)' = Hosts(k)
  BY <1>1 DEF setup, Hosts
<1>8. TypeOK'
  BY <1>1, <1>2, <1>5, <1>6, <1>7 DEF IInv, TypeOK, setup, outcome, history
<1>9. Grouped'
  BY <1>1 DEF IInv, Grouped, setup
<1>10. Untouched'
  BY <1>1, <1>2 DEF IInv, Untouched, history
<1>11. ASSUME NEW k \in DOMAIN session' PROVE Progress(k)'
  <2>1. copies[k] = 0 /\ lost[k] = 0 /\ k \notin refused
    BY <1>1, <1>2 DEF IInv, Untouched, TypeOK
  <2> QED
    BY <2>1, <1>1, <1>2, <1>5 DEF Progress, Settled, Connection, Kept, history
<1>12. Recorded'
  BY <1>1 DEF IInv, Recorded, outcome
<1>13. Returned'
  BY <1>1, <1>3 DEF IInv, Returned, AllDone, setup, outcome
<1> QED
  BY <1>8, <1>9, <1>10, <1>11, <1>12, <1>13 DEF IInv

LEMMA ReturnInv == ASSUME IInv, Return PROVE IInv'
<1>1. UNCHANGED <<setup, session, outcome, history>> /\ reply' = ReplyOf(errEmail, errMap)
  BY DEF Return
<1>2. reply' \in {"250", "451", "550"}
  BY <1>1 DEF ReplyOf
<1>3. TypeOK'
  BY <1>1, <1>2 DEF IInv, TypeOK, setup, outcome, history, Hosts
<1>4. Grouped' /\ Untouched' /\ Recorded'
  BY <1>1 DEF IInv, Grouped, Untouched, Recorded, setup, outcome, history
<1>5. \A k \in DOMAIN session' : Progress(k)'
  BY <1>1 DEF IInv, Progress, Connection, Settled, Kept, LookupFailed, setup, outcome, history
<1>6. Returned'
  BY <1>1 DEF IInv, Return, Returned, AllDone, ReplyOf, setup, outcome
<1> QED
  BY <1>3, <1>4, <1>5, <1>6 DEF IInv

-----------------------------------------------------------------------------
\* The groups

\* A step of one group that has not ended: what it leaves of that group decides.
LEMMA KeyStep ==
    ASSUME IInv, NEW k \in DOMAIN session, session[k].phase # "done",
           UNCHANGED <<setup, reply>>,
           DOMAIN session' = DOMAIN session,
           \A j \in DOMAIN session : j # k => session'[j] = session[j],
           session'[k] \in Session,
           session'[k].mx \in 1..Len(Hosts(k)),
           errEmail \subseteq errEmail', errEmail' \subseteq Recipient,
           \A l \in DOMAIN errMap' : errMap'[l] \in Cause,
           Recorded',
           copies' \in [Key -> Nat], lost' \in [Key -> Nat], refused' \subseteq Key,
           \A j \in Key : j # k =>
              /\ copies'[j] = copies[j] /\ lost'[j] = lost[j]
              /\ j \in refused' <=> j \in refused,
           Progress(k)'
    PROVE  IInv'
<1>1. Hosts(k)' = Hosts(k) /\ \A j \in DOMAIN session : Hosts(j)' = Hosts(j)
  BY DEF setup, Hosts
<1>2. k \in DOMAIN tos /\ DOMAIN session \subseteq Key
  BY DEF IInv, TypeOK
<1>3. TypeOK'
  <2>1. \A j \in DOMAIN session' : session'[j] \in Session
    BY DEF IInv, TypeOK
  <2>2. \A j \in DOMAIN session' : session'[j].mx \in 1..Len(Hosts(j)')
    BY <1>1 DEF IInv, TypeOK
  <2> QED
    BY <2>1, <2>2 DEF IInv, TypeOK, setup
<1>4. Grouped'
  BY DEF IInv, Grouped, setup
<1>5. Untouched'
  BY DEF IInv, Untouched
<1>6. ASSUME NEW j \in DOMAIN session' PROVE Progress(j)'
  <2>1. CASE j = k
    BY <2>1
  <2>2. CASE j # k
    <3>1. Progress(j) /\ j \in Key /\ session'[j] = session[j]
      BY <2>2, <1>2 DEF IInv
    <3> QED
      BY <2>2, <3>1
         DEF Progress, Connection, Settled, Kept, LookupFailed, setup
  <2> QED
    BY <2>1, <2>2
<1>7. Returned'
  <2>1. ~AllDone
    BY <1>2 DEF AllDone
  <2>2. reply' # "none" => mode' = "broken"
    BY <2>1 DEF IInv, Returned, setup
  <2> QED
    BY <2>2 DEF IInv, Returned, setup
<1> QED
  BY <1>3, <1>4, <1>5, <1>6, <1>7 DEF IInv

\* The causes that are recorded are those of groups that have ended, whose sessions
\* a step of another group leaves alone.
LEMMA StaysRecorded ==
    ASSUME IInv, NEW k \in DOMAIN session, session[k].phase # "done",
           UNCHANGED errMap, DOMAIN session' = DOMAIN session,
           \A j \in DOMAIN session : j # k => session'[j] = session[j]
    PROVE  Recorded' /\ \A l \in DOMAIN errMap' : errMap'[l] \in Cause
<1>1. ASSUME NEW l \in DOMAIN errMap
      PROVE  \E j \in DOMAIN session' :
                Label(j) = l /\ session'[j].phase = "done" /\ session'[j].last = errMap[l]
  <2>1. PICK j \in DOMAIN session :
            Label(j) = l /\ session[j].phase = "done" /\ session[j].last = errMap[l]
    BY DEF IInv, Recorded
  <2> QED
    BY <2>1
<1>2. Recorded'
  BY <1>1 DEF Recorded
<1> QED
  BY <1>2 DEF IInv, TypeOK

LEMMA AnswerInv == ASSUME IInv, NEW k \in Key, Answer(k) PROVE IInv'
<1> DEFINE s == session[k]
<1>1. /\ k \in DOMAIN session /\ s.phase = "talking" /\ Command(s) # "message"
      /\ UNCHANGED <<setup, outcome, reply, history>>
      /\ session' = [session EXCEPT ![k] = Step(k, s)]
  BY DEF Answer, Talking
<1>2. s \in Session /\ s.mx \in 1..Len(Hosts(k)) /\ Progress(k) /\ s.at <= Len(Script(s.way))
  <2>1. s \in Session /\ s.mx \in 1..Len(Hosts(k)) /\ Progress(k)
    BY <1>1 DEF IInv, TypeOK
  <2> QED
    BY <2>1 DEF Progress, Connection
<1>3. s.at + 1 <= Len(Script(s.way)) /\ Len(Script(s.way)) <= 7
  <2>1. s.way \in Way /\ s.at \in 1..Len(Script(s.way))
    BY <1>2, ScriptEnds DEF Session
  <2>2. Script(s.way)[s.at] # "message"
    BY <1>1 DEF Command
  <2> HIDE DEF s
  <2> QED
    BY <2>1, <2>2, ScriptEnds
<1>4. Cardinality(tos[k]) \in 0..N
  <2>1. k \in DOMAIN tos /\ tos[k] \subseteq 1..N
    BY <1>1 DEF IInv, TypeOK, Recipient
  <2>2. IsFiniteSet(1..N) /\ Cardinality(1..N) = N
    BY DeliveryAssumption, FS_Interval
  <2> QED
    BY <2>1, <2>2, FS_Subset, FS_CardinalityType
<1>5. \E at \in 1..7, rcpts \in 0..N :
         Step(k, s) = [s EXCEPT !.at = at, !.rcpts = rcpts] /\ at <= Len(Script(s.way))
  <2>1. CASE Command(s) = "rcpt" /\ s.rcpts + 1 < Cardinality(tos[k])
    <3>1. s.rcpts + 1 \in 0..N
      BY <2>1, <1>2, <1>4, DeliveryAssumption DEF Session
    <3>2. Step(k, s) = [s EXCEPT !.at = s.at, !.rcpts = s.rcpts + 1]
      BY <2>1, <1>2 DEF Step, Session
    <3> QED
      BY <3>1, <3>2, <1>2 DEF Session
  <2>2. CASE ~(Command(s) = "rcpt" /\ s.rcpts + 1 < Cardinality(tos[k]))
    <3>1. s.at + 1 \in 1..7
      BY <1>2, <1>3, ScriptEnds DEF Session
    <3>2. Step(k, s) = [s EXCEPT !.at = s.at + 1, !.rcpts = s.rcpts]
      BY <2>2, <1>2 DEF Step, Session
    <3> QED
      BY <3>1, <3>2, <1>2, <1>3 DEF Session
  <2> QED
    BY <2>1, <2>2
<1>6. PICK at \in 1..7, rcpts \in 0..N :
         Step(k, s) = [s EXCEPT !.at = at, !.rcpts = rcpts] /\ at <= Len(Script(s.way))
  BY <1>5
<1>7. /\ session'[k] \in Session
      /\ session'[k].phase = s.phase /\ session'[k].mx = s.mx /\ session'[k].way = s.way
      /\ session'[k].last = s.last /\ session'[k].at = at
      /\ DOMAIN session' = DOMAIN session
      /\ \A j \in DOMAIN session : j # k => session'[j] = session[j]
  BY <1>1, <1>2, <1>6 DEF Session
<1> HIDE DEF s
<1>8. Progress(k)'
  <2>1. Connection(k, s) => Connection(k, session'[k])
    BY <1>6, <1>7 DEF Connection
  <2>2. Settled(k, session[k])'
    BY <1>1, <1>7 DEF Settled
  <2>3. Kept(session'[k]) = Kept(s)
    BY <1>7 DEF Kept
  <2> QED
    BY <1>1, <1>2, <1>7, <2>1, <2>2, <2>3 DEF Progress, Connection, history, s
<1>9. Recorded' /\ \A l \in DOMAIN errMap' : errMap'[l] \in Cause
  BY <1>1, <1>7, StaysRecorded DEF outcome, s
<1>10. /\ errEmail \subseteq errEmail' /\ errEmail' \subseteq Recipient
       /\ copies' = copies /\ lost' = lost /\ refused' = refused
       /\ copies' \in [Key -> Nat] /\ lost' \in [Key -> Nat] /\ refused' \subseteq Key
  BY <1>1 DEF IInv, TypeOK, outcome, history
<1>11. session[k].phase # "done" /\ session'[k].mx \in 1..Len(Hosts(k))
  BY <1>1, <1>2, <1>7 DEF s
<1> QED
  BY <1>1, <1>7, <1>8, <1>9, <1>10, <1>11, KeyStep

\* The steps that change the phase of a group, and perhaps its error
Becomes(k, phase, last) ==
    /\ session'[k] \in Session
    /\ session'[k].phase = phase /\ session'[k].last = last
    /\ session'[k].mx = session[k].mx /\ session'[k].way = session[k].way
    /\ session'[k].at = session[k].at
    /\ DOMAIN session' = DOMAIN session
    /\ \A j \in DOMAIN session : j # k => session'[j] = session[j]

LEMMA PhaseType ==
    ASSUME IInv, NEW k \in DOMAIN session,
           NEW phase \in {"stored", "accepted", "failed", "done"},
           session' = [session EXCEPT ![k].phase = phase]
    PROVE  Becomes(k, phase, session[k].last)
<1>1. session[k] \in Session
  BY DEF IInv, TypeOK
<1> QED
  BY <1>1 DEF Session, Becomes

LEMMA ErrorType ==
    ASSUME IInv, NEW k \in DOMAIN session,
           NEW phase \in {"failed", "done"}, NEW last \in Cause \union {"hostname"},
           session' = [session EXCEPT ![k].phase = phase, ![k].last = last]
    PROVE  Becomes(k, phase, last)
<1>1. session[k] \in Session
  BY DEF IInv, TypeOK
<1> QED
  BY <1>1 DEF Session, Becomes

LEMMA PhaseStep ==
    ASSUME IInv, NEW k \in DOMAIN session, session[k].phase # "done",
           UNCHANGED <<setup, outcome, reply>>,
           NEW phase, NEW last, Becomes(k, phase, last),
           copies' \in [Key -> Nat], lost' \in [Key -> Nat], refused' \subseteq Key,
           \A j \in Key : j # k =>
              /\ copies'[j] = copies[j] /\ lost'[j] = lost[j]
              /\ j \in refused' <=> j \in refused,
           Connection(k, session'[k]),
           Settled(k, session[k])',
           copies'[k] = lost'[k] + Kept(session'[k]),
           k \in refused' <=> last = "perm"
    PROVE  IInv'
<1>1. Recorded' /\ \A l \in DOMAIN errMap' : errMap'[l] \in Cause
  BY StaysRecorded DEF Becomes, outcome
<1>2. session'[k].mx \in 1..Len(Hosts(k))
  BY DEF Becomes, IInv, TypeOK
<1>3. Progress(k)'
  BY DEF Progress, Becomes, Connection, Settled, Kept
<1>4. errEmail \subseteq errEmail' /\ errEmail' \subseteq Recipient
  BY DEF outcome, IInv, TypeOK
<1> QED
  BY <1>1, <1>2, <1>3, <1>4, KeyStep DEF Becomes

LEMMA HostStoresInv == ASSUME IInv, NEW k \in Key, HostStores(k) PROVE IInv'
<1>1. /\ k \in DOMAIN session /\ session[k].phase = "talking"
      /\ session' = [session EXCEPT ![k].phase = "stored"]
      /\ copies' = [copies EXCEPT ![k] = @ + 1]
      /\ UNCHANGED <<setup, outcome, reply, lost, refused>>
  BY DEF HostStores, Talking
<1>2. Becomes(k, "stored", session[k].last)
  BY <1>1, PhaseType
<1>3. Progress(k) /\ copies \in [Key -> Nat] /\ lost \in [Key -> Nat] /\ refused \subseteq Key
  BY <1>1 DEF IInv, TypeOK
<1>4. copies' \in [Key -> Nat] /\ copies'[k] = copies[k] + 1
  BY <1>1, <1>3
<1>5. Kept(session'[k]) = 1 /\ Kept(session[k]) = 0
  BY <1>1, <1>2 DEF Becomes, Kept
<1>6. Connection(k, session'[k]) /\ Settled(k, session[k])'
  BY <1>1, <1>2, <1>3 DEF Becomes, Progress, Connection, Settled
<1>7. copies'[k] = lost'[k] + Kept(session'[k])
  BY <1>1, <1>3, <1>4, <1>5 DEF Progress
<1>8. k \in refused' <=> session[k].last = "perm"
  BY <1>1, <1>3 DEF Progress
<1>9. \A j \in Key : j # k => copies'[j] = copies[j]
  BY <1>1, <1>3
<1> QED
  BY <1>1, <1>2, <1>3, <1>4, <1>6, <1>7, <1>8, <1>9, PhaseStep

\* The answers of the hosts that arrive, and the farewell, leave the history alone.
LEMMA AcceptedInv ==
    ASSUME IInv, NEW k \in Key, Accepted(k) \/ Quit(k)
    PROVE  IInv'
<1>1. PICK phase \in {"accepted", "done"} :
         /\ k \in DOMAIN session /\ session[k].phase \in {"stored", "accepted"}
         /\ session' = [session EXCEPT ![k].phase = phase]
         /\ UNCHANGED <<setup, outcome, reply, history>>
  BY DEF Accepted, Quit
<1>2. Becomes(k, phase, session[k].last)
  BY <1>1, PhaseType
<1>3. Progress(k) /\ copies \in [Key -> Nat] /\ lost \in [Key -> Nat] /\ refused \subseteq Key
  BY <1>1 DEF IInv, TypeOK
<1>4. session[k].last = "none"
  BY <1>1, <1>3 DEF Progress, Connection
<1>5. Kept(session'[k]) = 1 /\ Kept(session[k]) = 1
  BY <1>1, <1>2, <1>4 DEF Becomes, Kept
<1>6. Connection(k, session'[k]) /\ Settled(k, session[k])'
  BY <1>1, <1>2, <1>3, <1>4 DEF Becomes, Progress, Connection, Settled
<1>7. copies'[k] = lost'[k] + Kept(session'[k]) /\ (k \in refused' <=> session[k].last = "perm")
  BY <1>1, <1>3, <1>5 DEF Progress, history
<1> QED
  BY <1>1, <1>2, <1>3, <1>6, <1>7, PhaseStep DEF history

LEMMA RefuseInv == ASSUME IInv, NEW k \in Key, Refuse(k) PROVE IInv'
<1>1. /\ k \in DOMAIN session /\ session[k].phase = "talking"
      /\ UNCHANGED <<setup, outcome, reply, copies, lost>>
  BY DEF Refuse, Talking
<1>2. PICK error \in Failures(session[k]) :
         /\ session' = [session EXCEPT ![k].phase = "failed", ![k].last = error]
         /\ refused' = IF error = "perm" THEN refused \union {k} ELSE refused
  BY DEF Refuse, Fails
<1>3. Progress(k) /\ copies \in [Key -> Nat] /\ lost \in [Key -> Nat] /\ refused \subseteq Key
  BY <1>1 DEF IInv, TypeOK
<1>4. session[k] \in Session /\ session[k].at <= Len(Script(session[k].way))
  BY <1>1, <1>3 DEF IInv, TypeOK, Progress, Connection
<1>5. /\ error \in Cause \union {"hostname"}
      /\ error = "hostname" => session[k].way \in {"starttls", "matched"}
  BY <1>4, FailureType
<1>6. Becomes(k, "failed", error)
  BY <1>1, <1>2, <1>5, ErrorType
<1>7. Kept(session'[k]) = 0 /\ Kept(session[k]) = 0
  BY <1>1, <1>6 DEF Becomes, Kept
<1>8. Connection(k, session'[k]) /\ Settled(k, session[k])'
  BY <1>1, <1>3, <1>5, <1>6 DEF Becomes, Progress, Connection, Settled, Cause
<1>9. copies'[k] = lost'[k] + Kept(session'[k])
  BY <1>1, <1>3, <1>7 DEF Progress
<1>10. k \in refused' <=> error = "perm"
  BY <1>1, <1>2, <1>3 DEF Progress, Connection
<1>11. refused' \subseteq Key /\ \A j \in Key : j # k => (j \in refused' <=> j \in refused)
  BY <1>2, <1>3
<1> QED
  BY <1>1, <1>3, <1>6, <1>8, <1>9, <1>10, <1>11, PhaseStep

LEMMA AnswerLostInv == ASSUME IInv, NEW k \in Key, AnswerLost(k) PROVE IInv'
<1>1. /\ k \in DOMAIN session /\ session[k].phase = "stored"
      /\ session' = [session EXCEPT ![k].phase = "failed", ![k].last = "net"]
      /\ lost' = [lost EXCEPT ![k] = @ + 1]
      /\ UNCHANGED <<setup, outcome, reply, copies, refused>>
  BY DEF AnswerLost, Fails
<1>2. Becomes(k, "failed", "net")
  BY <1>1, ErrorType DEF Cause
<1>3. Progress(k) /\ copies \in [Key -> Nat] /\ lost \in [Key -> Nat] /\ refused \subseteq Key
  BY <1>1 DEF IInv, TypeOK
<1>4. lost' \in [Key -> Nat] /\ lost'[k] = lost[k] + 1 /\ \A j \in Key : j # k => lost'[j] = lost[j]
  BY <1>1, <1>3
<1>5. Kept(session'[k]) = 0 /\ Kept(session[k]) = 1
  BY <1>1, <1>2 DEF Becomes, Kept
<1>6. Connection(k, session'[k]) /\ Settled(k, session[k])'
  BY <1>1, <1>2, <1>3 DEF Becomes, Progress, Connection, Settled
<1>7. copies'[k] = lost'[k] + Kept(session'[k])
  BY <1>1, <1>3, <1>4, <1>5 DEF Progress
<1>8. k \in refused' <=> "net" = "perm"
  BY <1>1, <1>3 DEF Progress, Connection
<1> QED
  BY <1>1, <1>2, <1>3, <1>4, <1>6, <1>7, <1>8, PhaseStep

\* Another way or another host is tried only after an error that is not permanent.
LEMMA NextTryType ==
    ASSUME IInv, NEW k \in DOMAIN session, NextTry(k, session[k]) # <<>>
    PROVE  /\ session[k].last # "perm"
           /\ \E mx \in 1..Len(Hosts(k)), way \in Way :
                 /\ NextTry(k, session[k]) = <<Connect(mx, way)>>
                 /\ k[1] = TestDomain => way = "plain"
<1> DEFINE s == session[k]
<1>1. s \in Session /\ s.mx \in 1..Len(Hosts(k)) /\ k \in DOMAIN tos
  BY DEF IInv, TypeOK
<1>2. Len(Hosts(k)) \in Nat /\ (k[1] = TestDomain => Len(Hosts(k)) = 1)
  BY <1>1, HostsType DEF IInv
<1> HIDE DEF s
<1>3. ~IsPermanentSMTPResponse(s.last)
  BY DEF NextTry, s
<1>4. CASE NextWay(s) # "none" /\ k[1] # TestDomain
  <2>1. NextWay(s) \in Way
    BY <1>4 DEF NextWay, Way
  <2>2. NextTry(k, s) = <<Connect(s.mx, NextWay(s))>>
    BY <1>3, <1>4 DEF NextTry
  <2> QED
    BY <1>1, <1>3, <1>4, <2>1, <2>2 DEF IsPermanentSMTPResponse, s
<1>5. CASE ~(NextWay(s) # "none" /\ k[1] # TestDomain)
  <2>1. MoreHosts(k, s)
    BY <1>3, <1>5 DEF NextTry, s
  <2>2. s.mx + 1 \in 1..Len(Hosts(k)) /\ k[1] # TestDomain
    <3>1. s.mx < Len(Hosts(k)) /\ s.mx \in 1..Len(Hosts(k))
      BY <1>1, <2>1 DEF MoreHosts
    <3>2. s.mx + 1 \in 1..Len(Hosts(k))
      BY <1>2, <3>1
    <3>3. Len(Hosts(k)) # 1
      <4> DEFINE len == Len(Hosts(k))
      <4>1. len \in Nat
        BY <1>2
      <4>2. s.mx < len /\ s.mx \in 1..len
        BY <3>1
      <4> HIDE DEF len
      <4>3. len # 1
        BY <4>1, <4>2
      <4> QED
        BY <4>3 DEF len
    <3> QED
      BY <1>2, <3>2, <3>3
  <2>3. NextTry(k, s) = <<Connect(s.mx + 1, "starttls")>>
    BY <1>3, <1>5, <2>1 DEF NextTry
  <2>4. "starttls" \in Way
    BY DEF Way
  <2> QED
    BY <1>3, <2>2, <2>3, <2>4 DEF IsPermanentSMTPResponse, s
<1> QED
  BY <1>4, <1>5

LEMMA RetryInv == ASSUME IInv, NEW k \in Key, Retry(k) PROVE IInv'
<1>1. /\ k \in DOMAIN session /\ session[k].phase = "failed"
      /\ NextTry(k, session[k]) # <<>>
      /\ session' = [session EXCEPT ![k] = NextTry(k, session[k])[1]]
      /\ UNCHANGED <<setup, outcome, reply, history>>
  BY DEF Retry, Failed
<1>2. session[k].last # "perm"
  BY <1>1, NextTryType
<1>3. PICK mx \in 1..Len(Hosts(k)), way \in Way :
         /\ NextTry(k, session[k]) = <<Connect(mx, way)>>
         /\ k[1] = TestDomain => way = "plain"
  BY <1>1, NextTryType
<1>4. session'[k] = Connect(mx, way)
  BY <1>1, <1>3
<1>5. /\ session'[k] \in Session
      /\ session'[k].mx = mx
      /\ session'[k].last = "none"
      /\ Kept(session'[k]) = 0
      /\ Connection(k, session'[k])
  BY <1>3, <1>4, ConnectType
<1>6. Progress(k)
  BY <1>1 DEF IInv
<1>7. Kept(session[k]) = 0
  BY <1>1 DEF Kept
<1>8. Progress(k)'
  BY <1>1, <1>2, <1>5, <1>6, <1>7 DEF Progress, Settled, history
<1>9. /\ DOMAIN session' = DOMAIN session
      /\ \A j \in DOMAIN session : j # k => session'[j] = session[j]
  BY <1>1
<1>10. Recorded' /\ \A l \in DOMAIN errMap' : errMap'[l] \in Cause
  BY <1>1, <1>9, StaysRecorded DEF outcome
<1>11. /\ errEmail \subseteq errEmail' /\ errEmail' \subseteq Recipient
       /\ copies' = copies /\ lost' = lost /\ refused' = refused
       /\ copies' \in [Key -> Nat] /\ lost' \in [Key -> Nat] /\ refused' \subseteq Key
  BY <1>1 DEF IInv, TypeOK, outcome, history
<1> QED
  BY <1>1, <1>3, <1>5, <1>8, <1>9, <1>10, <1>11, KeyStep

\* The cause that is recorded is final: a certificate of another name has been
\* retried, and a name is missing only if its lookup did not just fail.
LEMMA CauseType ==
    ASSUME IInv, NEW k \in DOMAIN session, session[k].phase = "failed",
           NextTry(k, session[k]) = <<>>
    PROVE  LET cause == FailureCause(k, session[k].last)
           IN  /\ cause \in Cause
               /\ cause = "perm" <=> session[k].last = "perm"
               /\ cause = "notfound" => ~LookupFailed(k)
<1> DEFINE s == session[k]
<1>1. s \in Session /\ Connection(k, s)
  BY DEF IInv, TypeOK, Progress
<1> HIDE DEF s
<1>2. s.last # "hostname"
  <2> SUFFICES ASSUME s.last = "hostname" PROVE FALSE
    OBVIOUS
  <2>1. s.way \in {"starttls", "matched"} /\ k[1] # TestDomain
    BY <1>1 DEF Connection
  <2>2. NextWay(s) # "none" /\ ~IsPermanentSMTPResponse(s.last)
    BY <2>1 DEF NextWay, IsPermanentSMTPResponse
  <2>3. NextTry(k, s) = <<Connect(s.mx, NextWay(s))>>
    BY <2>1, <2>2 DEF NextTry
  <2> QED
    BY <2>3 DEF s
<1>3. s.last \in Cause
  BY <1>1, <1>2 DEF Session, Connection, s
<1> QED
  BY <1>3 DEF FailureCause, IsPermanentSMTPResponse, LookupFailed, Cause, s

LEMMA RecordFailureInv == ASSUME IInv, NEW k \in Key, RecordFailure(k) PROVE IInv'
<1> DEFINE cause == FailureCause(k, session[k].last)
<1>1. /\ k \in DOMAIN session /\ session[k].phase = "failed"
      /\ NextTry(k, session[k]) = <<>>
      /\ errEmail' = errEmail \union tos[k]
      /\ errMap' = Put(errMap, Label(k), cause)
      /\ session' = [session EXCEPT ![k].phase = "done", ![k].last = cause]
      /\ UNCHANGED <<setup, reply, history>>
  BY DEF RecordFailure, Failed
<1>2. /\ cause \in Cause
      /\ cause = "perm" <=> session[k].last = "perm"
      /\ cause = "notfound" => ~LookupFailed(k)
  BY <1>1, CauseType
<1> HIDE DEF cause
<1>3. Becomes(k, "done", cause)
  BY <1>1, <1>2, ErrorType
<1>4. Progress(k) /\ tos[k] \subseteq Recipient
  BY <1>1 DEF IInv, TypeOK
<1>5. Kept(session'[k]) = 0 /\ Kept(session[k]) = 0
  BY <1>1, <1>2, <1>3 DEF Becomes, Kept, Cause
<1>6. Progress(k)'
  <2>1. Connection(k, session'[k])
    BY <1>1, <1>2, <1>3, <1>4 DEF Becomes, Progress, Connection, Cause
  <2>2. Settled(k, session[k])'
    BY <1>1, <1>2, <1>3 DEF Becomes, Settled, LookupFailed, setup
  <2>3. copies'[k] = lost'[k] + Kept(session'[k])
    BY <1>1, <1>4, <1>5 DEF Progress, history
  <2>4. k \in refused' <=> session'[k].last = "perm"
    BY <1>1, <1>2, <1>3, <1>4 DEF Becomes, Progress, history
  <2> QED
    BY <2>1, <2>2, <2>3, <2>4 DEF Progress
<1>7. /\ DOMAIN errMap' = DOMAIN errMap \union {Label(k)}
      /\ errMap'[Label(k)] = cause
      /\ \A l \in DOMAIN errMap : l # Label(k) => errMap'[l] = errMap[l]
  BY <1>1 DEF Put
<1>8. \A l \in DOMAIN errMap' : errMap'[l] \in Cause
  BY <1>2, <1>7 DEF IInv, TypeOK
<1>9. Recorded'
  <2> SUFFICES ASSUME NEW l \in DOMAIN errMap'
               PROVE  \E j \in DOMAIN session' :
                         Label(j) = l /\ session'[j].phase = "done"
                         /\ session'[j].last = errMap'[l]
    BY DEF Recorded
  <2>1. CASE l = Label(k)
    BY <2>1, <1>1, <1>3, <1>7 DEF Becomes
  <2>2. CASE l # Label(k)
    <3>1. PICK j \in DOMAIN session :
              Label(j) = l /\ session[j].phase = "done" /\ session[j].last = errMap[l]
      BY <2>2, <1>7 DEF IInv, Recorded
    <3> QED
      BY <2>2, <3>1, <1>1, <1>3, <1>7 DEF Becomes
  <2> QED
    BY <2>1, <2>2
<1>10. /\ errEmail \subseteq errEmail' /\ errEmail' \subseteq Recipient
       /\ copies' = copies /\ lost' = lost /\ refused' = refused
       /\ copies' \in [Key -> Nat] /\ lost' \in [Key -> Nat] /\ refused' \subseteq Key
  BY <1>1, <1>4 DEF IInv, TypeOK, history
<1>11. session'[k].mx \in 1..Len(Hosts(k))
  BY <1>1, <1>3 DEF Becomes, IInv, TypeOK
<1> QED
  BY <1>1, <1>3, <1>6, <1>8, <1>9, <1>10, <1>11, KeyStep DEF Becomes

-----------------------------------------------------------------------------
\* The invariant and what follows from it

LEMMA StutterInv == ASSUME IInv, UNCHANGED vars PROVE IInv'
<1>1. UNCHANGED <<domainOf, mode, looked, tos, lookupError, failover, session, errEmail,
                  errMap, reply, copies, lost, refused>>
  BY DEF vars, setup, outcome, history
<1>2. TypeOK' /\ Grouped' /\ Untouched' /\ Recorded'
  BY <1>1 DEF IInv, TypeOK, Grouped, Untouched, Recorded, Hosts
<1>3. \A k \in DOMAIN session' : Progress(k)'
  BY <1>1 DEF IInv, Progress, Connection, Settled, Kept, LookupFailed
<1>4. Returned'
  BY <1>1 DEF IInv, Returned, AllDone, ReplyOf
<1> QED
  BY <1>2, <1>3, <1>4 DEF IInv

LEMMA NextInv == IInv /\ [Next]_vars => IInv'
<1> SUFFICES ASSUME IInv, [Next]_vars PROVE IInv'
  OBVIOUS
<1>1. CASE ReadConfig \/ Lookup \/ Start \/ Return
  BY <1>1, ReadConfigInv, LookupInv, StartInv, ReturnInv
<1>2. ASSUME NEW k \in Key, Local(k) PROVE IInv'
  BY <1>2, AcceptedInv, RetryInv, RecordFailureInv DEF Local
<1>3. ASSUME NEW k \in Key, Remote(k) PROVE IInv'
  BY <1>3, AnswerInv, HostStoresInv, AcceptedInv, RefuseInv, AnswerLostInv DEF Remote
<1>4. CASE UNCHANGED vars
  BY <1>4, StutterInv
<1> QED
  BY <1>1, <1>2, <1>3, <1>4 DEF Next

\* The inductive invariant holds at every step of every delivery.
THEOREM Invariance == Spec => []IInv
  BY InitInv, NextInv, PTL DEF Spec

\* The groups, their connections, the failover lists and the error of doSend are
\* well formed; in particular no group's goroutine runs past the end of its MX list.
THEOREM TypeCorrect == Spec => []TypeOK
<1>1. IInv => TypeOK
  BY DEF IInv
<1> QED
  BY <1>1, Invariance, PTL

\* When doSend has returned, every recipient it could address has a copy at a host or
\* is named in the error.
THEOREM Forgotten == Spec => []NobodyForgotten
<1>1. IInv => NobodyForgotten
  <2> SUFFICES ASSUME IInv, reply # "none", mode # "broken",
                      NEW r \in Recipient, domainOf[r] # Malformed
               PROVE  r \in errEmail \/ \E k \in DOMAIN tos : r \in tos[k] /\ copies[k] > 0
    BY DEF NobodyForgotten
  <2>1. PICK k \in DOMAIN tos : r \in tos[k]
    <3>1. CASE mode \in {"relay", "ses"}
      BY <3>1 DEF IInv, Grouped
    <3>2. CASE mode = "direct" /\ looked = N
      BY <3>2 DEF IInv, Grouped, Recipient
    <3> QED
      BY <3>1, <3>2 DEF IInv, Returned
  <2>2. k \in DOMAIN session /\ session[k].phase = "done"
    BY DEF IInv, Returned, AllDone
  <2>3. Progress(k) /\ copies[k] \in Nat /\ lost[k] \in Nat
    BY <2>2 DEF IInv, TypeOK
  <2>4. CASE session[k].last = "none"
    BY <2>1, <2>2, <2>3, <2>4 DEF Progress, Kept
  <2>5. CASE session[k].last # "none"
    BY <2>1, <2>2, <2>3, <2>5 DEF Progress, Settled
  <2> QED
    BY <2>4, <2>5
<1> QED
  BY <1>1, Invariance, PTL

\* A host stores a second copy of the message of a group only after the answer to the
\* first was lost.
THEOREM NoDuplicates == Spec => []NoNeedlessCopy
<1>1. IInv => NoNeedlessCopy
  <2> SUFFICES ASSUME IInv, NEW k \in Key PROVE copies[k] <= lost[k] + 1
    BY DEF NoNeedlessCopy
  <2>1. copies[k] \in Nat /\ lost[k] \in Nat
    BY DEF IInv, TypeOK
  <2>2. CASE k \in DOMAIN session
    BY <2>1, <2>2 DEF IInv, Progress, Kept
  <2>3. CASE k \notin DOMAIN session
    BY <2>1, <2>3 DEF IInv, Untouched
  <2> QED
    BY <2>2, <2>3
<1> QED
  BY <1>1, Invariance, PTL

\* The client hears 550 only when, under every label of the error, a group was refused
\* with a 5xx, or met a name that does not exist and whose lookup had not just failed.
THEOREM BouncesAreExplained == Spec => []BouncedIsExplained
<1>1. IInv => BouncedIsExplained
  <2> SUFFICES ASSUME IInv, reply = "550", NEW l \in DOMAIN errMap
               PROVE  \E k \in DOMAIN tos :
                         /\ Label(k) = l
                         /\ \/ k \in refused
                            \/ session[k].last = "notfound" /\ ~LookupFailed(k)
    BY DEF BouncedIsExplained, LookupFailed
  <2>1. reply = ReplyOf(errEmail, errMap)
    BY DEF IInv, Returned
  <2>2. errMap[l] \in {"perm", "notfound"}
    BY <2>1 DEF ReplyOf, IsPermanentDeliveryError
  <2>3. PICK k \in DOMAIN session :
            Label(k) = l /\ session[k].phase = "done" /\ session[k].last = errMap[l]
    BY DEF IInv, Recorded
  <2>4. k \in DOMAIN tos
    BY <2>3 DEF IInv, TypeOK
  <2> QED
    BY <2>2, <2>3, <2>4 DEF IInv, Progress, Settled
<1> QED
  BY <1>1, Invariance, PTL

\* A group that heard a 5xx opens no other connection, on any port or MX.
THEOREM RefusalIsFinal == Spec => PermanentIsFinal
<1> DEFINE A == \A k \in DOMAIN session :
                   k \in refused => session'[k].phase \in {"failed", "done"}
<1>1. IInv /\ [Next]_vars => [A]_vars
  <2> SUFFICES ASSUME IInv, Next, NEW k \in DOMAIN session, k \in refused
               PROVE  session'[k].phase \in {"failed", "done"}
    OBVIOUS
  <2>1. session[k].last = "perm" /\ session[k].phase \in {"failed", "done"}
    BY DEF IInv, TypeOK, Session, Progress, Connection
  <2>2. CASE UNCHANGED session
    BY <2>1, <2>2
  <2>3. ASSUME NEW j \in Key, Local(j) \/ Remote(j)
        PROVE  session'[k].phase \in {"failed", "done"}
    <3>1. CASE j # k
      <4>1. session'[k] = session[k]
        BY <2>3, <3>1 DEF Local, Remote, Quit, Retry, RecordFailure, Answer, HostStores,
                          Accepted, Refuse, AnswerLost, Fails
      <4> QED
        BY <2>1, <4>1
    <3>2. CASE j = k
      <4>1. RecordFailure(k)
        <5>1. ~Retry(k)
          BY <2>1, NextTryType DEF Retry
        <5> QED
          BY <2>1, <2>3, <3>2, <5>1
             DEF Local, Remote, Quit, Answer, HostStores, Accepted, Refuse, AnswerLost, Talking
      <4>2. session[k] \in Session
        BY DEF IInv, TypeOK
      <4> QED
        BY <4>1, <4>2 DEF RecordFailure, Session
    <3> QED
      BY <3>1, <3>2
  <2>4. CASE Start
    BY <2>4 DEF Start, Empty
  <2>5. CASE ReadConfig
    <3>1. DOMAIN session = {}
      BY <2>5 DEF ReadConfig, IInv, TypeOK, Grouped
    <3> QED
      BY <3>1
  <2> QED
    BY <2>2, <2>3, <2>4, <2>5 DEF Next, Lookup, Return
<1>2. Spec => [][A]_vars
  BY <1>1, Invariance, PTL DEF Spec
<1> QED
  BY <1>2 DEF PermanentIsFinal

-----------------------------------------------------------------------------
\* The refinement: each step of a delivery is a step of Sender or changes nothing of it

\* A group that failed is in the map of errors under its label, and every recipient in
\* the error has a cause there.  The relay's one connection is not repeated when the
\* answer to the message is lost.
Causes ==
    /\ \A k \in DOMAIN session : session[k].phase = "done" /\ session[k].last # "none"
                                    => Label(k) \in DOMAIN errMap
    /\ errEmail = {} <=> DOMAIN errMap = {}

AskedOnce ==
    Up \in DOMAIN session =>
        /\ session[Up].way \in {"relay", "relaytls", "ses"}
        /\ lost[Up] > 0 => session[Up].phase \in {"failed", "done"} /\ session[Up].last = "net"

SInv == IInv /\ Causes /\ AskedOnce

LEMMA InitCauses == ASSUME Init PROVE Causes /\ AskedOnce
<1>1. DOMAIN session = {} /\ DOMAIN errMap = {} /\ errEmail = {}
  BY DEF Init, Empty
<1> QED
  BY <1>1 DEF Causes, AskedOnce

\* The relay is not a group of the direct delivery, and has one host.
LEMMA UpIs ==
    ASSUME IInv
    PROVE  /\ Up \in DOMAIN tos <=> mode \in {"relay", "ses"}
           /\ Up \in DOMAIN tos => DOMAIN tos = {Up}
           /\ Len(Hosts(Up)) = 1
<1>1. Upstream \notin Domain \union {TestDomain}
  BY DeliveryAssumption
<1>2. Up[1] = Upstream /\ Up[2] = Upstream
  BY DEF Up
<1>3. Len(Hosts(Up)) = 1
  BY <1>1, <1>2 DEF Hosts
<1> QED
  BY <1>1, <1>2, <1>3 DEF IInv, TypeOK, Grouped

\* A step of one group that records nothing
LEMMA QuietCauses ==
    ASSUME IInv, Causes, UNCHANGED outcome, NEW k \in DOMAIN session,
           DOMAIN session' = DOMAIN session,
           \A j \in DOMAIN session : j # k => session'[j] = session[j],
           session'[k].phase # "done" \/ session'[k].last = "none"
    PROVE  Causes'
BY DEF Causes, outcome

LEMMA BeginCauses ==
    ASSUME IInv, Causes, AskedOnce, ReadConfig \/ Lookup \/ Start \/ Return \/ UNCHANGED vars
    PROVE  Causes' /\ AskedOnce'
<1>1. CASE Lookup \/ Return \/ UNCHANGED vars
  BY <1>1 DEF Causes, AskedOnce, Lookup, Return, vars, outcome, history
<1>2. CASE Start
  <2>1. \A k \in DOMAIN session' : session'[k].phase = "talking"
    BY <1>2 DEF Start, Connect
  <2>2. Up \notin DOMAIN session'
    BY <1>2, UpIs DEF Start
  <2> QED
    BY <1>2, <2>1, <2>2 DEF Start, Causes, AskedOnce, outcome
<1>3. CASE ReadConfig
  <2>1. CASE UNCHANGED session
    BY <1>3, <2>1 DEF ReadConfig, Causes, AskedOnce, outcome, history
  <2>2. ASSUME NEW way \in {"relay", "relaytls", "ses"}, Handover(way)
        PROVE  Causes' /\ AskedOnce'
    <3>1. DOMAIN Empty = {}
      BY DEF Empty
    <3>2. DOMAIN session' = {Up} /\ session'[Up] = Connect(1, way)
      BY <2>2, <3>1 DEF Handover, Put, Up
    <3>3. lost'[Up] = 0
      <4>1. Up \in Key /\ Up \notin DOMAIN session
        BY <1>3 DEF ReadConfig, IInv, TypeOK, Grouped, Up, Key
      <4> QED
        BY <1>3, <4>1 DEF ReadConfig, history, IInv, Untouched
    <3> QED
      BY <1>3, <3>2, <3>3 DEF ReadConfig, Causes, AskedOnce, outcome, Connect
  <2> QED
    BY <1>3, <2>1, <2>2 DEF ReadConfig, Read, Validated
<1> QED
  BY <1>1, <1>2, <1>3

LEMMA GroupCauses ==
    ASSUME IInv, Causes, AskedOnce, NEW k \in Key,
           Answer(k) \/ HostStores(k) \/ Accepted(k) \/ Quit(k) \/ Refuse(k) \/ AnswerLost(k)
    PROVE  Causes' /\ AskedOnce'
<1>1. /\ k \in DOMAIN session /\ session[k] \in Session /\ session[k].phase \notin {"failed", "done"}
      /\ Connection(k, session[k]) /\ session[k].last = "none"
  <2>1. k \in DOMAIN session /\ session[k].phase \in {"talking", "stored", "accepted"}
    BY DEF Answer, HostStores, Accepted, Quit, Refuse, AnswerLost, Talking
  <2> QED
    BY <2>1 DEF IInv, TypeOK, Progress, Connection
<1>2. /\ UNCHANGED outcome /\ DOMAIN session' = DOMAIN session
      /\ \A j \in DOMAIN session : j # k => session'[j] = session[j]
      /\ \A j \in Key : j # k => lost'[j] = lost[j]
  BY DEF Answer, HostStores, Accepted, Quit, Refuse, AnswerLost, Fails, history, IInv, TypeOK
<1>3. /\ session'[k].way = session[k].way
      /\ session'[k].phase # "done" \/ session'[k].last = "none"
      /\ lost'[k] = lost[k] \/ (session'[k].phase = "failed" /\ session'[k].last = "net")
  <2>1. CASE Answer(k)
    <3> DEFINE s == session[k]
    <3>1. session'[k] = Step(k, s) /\ UNCHANGED lost
      BY <1>1, <2>1 DEF Answer, history
    <3> HIDE DEF s
    <3>2. s \in Session => Step(k, s).way = s.way /\ Step(k, s).phase = s.phase
      BY DEF Step, Session
    <3> QED
      BY <1>1, <3>1, <3>2 DEF s
  <2>2. CASE HostStores(k) \/ Accepted(k) \/ Quit(k)
    <3>1. \E phase \in {"stored", "accepted", "done"} : Becomes(k, phase, session[k].last)
      BY <1>1, <2>2, PhaseType DEF HostStores, Accepted, Quit
    <3> QED
      BY <1>1, <2>2, <3>1 DEF Becomes, HostStores, Accepted, Quit, history
  <2>3. CASE Refuse(k)
    <3>1. PICK error \in Failures(session[k]) : Fails(k, error)
      BY <2>3 DEF Refuse
    <3>2. error \in Cause \union {"hostname"}
      BY <1>1, FailureType DEF Connection
    <3>3. Becomes(k, "failed", error)
      BY <1>1, <3>1, <3>2, ErrorType DEF Fails
    <3> QED
      BY <2>3, <3>3 DEF Becomes, Refuse
  <2>4. CASE AnswerLost(k)
    BY <1>1, <2>4 DEF AnswerLost, Fails, Session
  <2> QED
    BY <2>1, <2>2, <2>3, <2>4
<1>4. Causes'
  BY <1>1, <1>2, <1>3, QuietCauses
<1>5. AskedOnce'
  <2>1. Up \in Key
    BY DEF Up, Key
  <2> QED
    BY <1>1, <1>2, <1>3, <2>1 DEF AskedOnce
<1> QED
  BY <1>4, <1>5

LEMMA RetryCauses ==
    ASSUME IInv, Causes, AskedOnce, NEW k \in Key, Retry(k)
    PROVE  Causes' /\ AskedOnce'
<1>1. /\ k \in DOMAIN session /\ session[k] \in Session /\ NextTry(k, session[k]) # <<>>
      /\ session' = [session EXCEPT ![k] = NextTry(k, session[k])[1]]
      /\ UNCHANGED <<setup, outcome, reply, history>>
  BY DEF Retry, Failed, IInv, TypeOK
<1>2. PICK mx \in 1..Len(Hosts(k)), way \in Way : NextTry(k, session[k]) = <<Connect(mx, way)>>
  BY <1>1, NextTryType
<1>3. session'[k] = Connect(mx, way)
  BY <1>1, <1>2
<1>4. Causes'
  <2>1. session'[k].phase # "done"
    BY <1>3 DEF Connect
  <2> QED
    BY <1>1, <2>1, QuietCauses
<1>5. k # Up
  <2> SUFFICES ASSUME k = Up PROVE FALSE
    OBVIOUS
  <2>1. NextWay(session[k]) = "none"
    BY <1>1 DEF AskedOnce, NextWay
  <2>2. session[k].mx \in 1..1
    BY <1>1, UpIs DEF IInv, TypeOK
  <2>3. ~MoreHosts(k, session[k])
    <3>1. Len(Hosts(k)) = 1
      BY UpIs
    <3> QED
      BY <2>2, <3>1 DEF MoreHosts
  <2> QED
    BY <1>1, <2>1, <2>3 DEF NextTry
<1>6. AskedOnce'
  BY <1>1, <1>5 DEF AskedOnce, history
<1> QED
  BY <1>4, <1>6

LEMMA RecordCauses ==
    ASSUME IInv, Causes, AskedOnce, NEW k \in Key, RecordFailure(k)
    PROVE  Causes' /\ AskedOnce'
<1> DEFINE cause == FailureCause(k, session[k].last)
<1>1. /\ k \in DOMAIN session /\ session[k] \in Session /\ session[k].phase = "failed"
      /\ errEmail' = errEmail \union tos[k]
      /\ errMap' = Put(errMap, Label(k), cause)
      /\ session' = [session EXCEPT ![k].phase = "done", ![k].last = cause]
      /\ UNCHANGED <<setup, reply, history>>
  BY DEF RecordFailure, Failed, IInv, TypeOK
<1> HIDE DEF cause
<1>2. DOMAIN errMap' = DOMAIN errMap \union {Label(k)}
  BY <1>1 DEF Put
<1>3. tos[k] # {}
  BY <1>1 DEF IInv, TypeOK
<1>4. Causes'
  BY <1>1, <1>2, <1>3 DEF Causes
<1>5. AskedOnce'
  <2>1. session[k].last = "net" => cause = "net"
    BY DEF cause, FailureCause
  <2> QED
    BY <1>1, <2>1 DEF AskedOnce, Session, history
<1> QED
  BY <1>4, <1>5

LEMMA SInvStep == ASSUME SInv, [Next]_vars PROVE SInv'
<1>1. IInv'
  BY NextInv DEF SInv
<1>2. Causes' /\ AskedOnce'
  BY BeginCauses, GroupCauses, RetryCauses, RecordCauses DEF SInv, Next, Local, Remote
<1> QED
  BY <1>1, <1>2 DEF SInv

\* The state that Sender sees: a label has a result once all its groups have ended.
LEMMA KeyIsLabel ==
    /\ \A k \in Key : Label(k) \in Labels
    /\ \A k \in Key : Label(k) = Label(Up) => k = Up
    /\ Up \in Key
<1>1. Up \in Key /\ Upstream \notin Domain \union {TestDomain}
  BY DeliveryAssumption DEF Up, Key
<1>2. ASSUME NEW k \in Key, Label(k) = Label(Up) PROVE k = Up
  BY <1>1, <1>2 DEF Label, Up, Key
<1> QED
  BY <1>1, <1>2 DEF Labels

\* Nothing has a result before the goroutines start, or when none has ended.
LEMMA NoneEnded ==
    ASSUME \A k \in DOMAIN session : session[k].phase # "done", NEW l
    PROVE  OutcomeOf(l) = "none" /\ ~HeldBy(l)
BY DEF OutcomeOf, HeldBy, Ended, Labelled

LEMMA Unseen ==
    ASSUME {Label(k) : k \in DOMAIN tos}' = {Label(k) : k \in DOMAIN tos}, reply' = reply,
           \A l \in Labels : OutcomeOf(l)' = OutcomeOf(l) /\ HeldBy(l)' = HeldBy(l)
    PROVE  UNCHANGED Sender!vars
<1>1. [l \in Labels |-> OutcomeOf(l)]' = [l \in Labels |-> OutcomeOf(l)]
  OBVIOUS
<1>2. {l \in Labels : HeldBy(l)}' = {l \in Labels : HeldBy(l)}
  OBVIOUS
<1> QED
  BY <1>1, <1>2 DEF Sender!vars

LEMMA InitSender == ASSUME Init PROVE Sender!Init
<1>1. DOMAIN tos = {} /\ DOMAIN session = {} /\ reply = "none"
  BY DEF Init, Empty
<1>2. \A l \in Labels : OutcomeOf(l) = "none" /\ ~HeldBy(l)
  BY <1>1, NoneEnded
<1> QED
  BY <1>1, <1>2 DEF Sender!Init

\* A step of one group's goroutine leaves the other labels as they are.
LEMMA OtherLabels ==
    ASSUME NEW k \in DOMAIN session, tos' = tos, DOMAIN session' = DOMAIN session,
           \A j \in DOMAIN session : j # k => session'[j] = session[j],
           DOMAIN session \subseteq Key,
           \A j \in Key : j # k => copies'[j] = copies[j],
           \A l : l # Label(k) => (l \in DOMAIN errMap' <=> l \in DOMAIN errMap)
                                  /\ (l \in DOMAIN errMap => errMap'[l] = errMap[l]),
           NEW l, l # Label(k)
    PROVE  OutcomeOf(l)' = OutcomeOf(l) /\ HeldBy(l)' = HeldBy(l)
<1>1. Labelled(l)' = Labelled(l) /\ k \notin Labelled(l)
  BY DEF Labelled
<1>2. Ended(l)' = Ended(l)
  BY <1>1 DEF Ended
<1>3. OutcomeOf(l)' = OutcomeOf(l)
  BY <1>2 DEF OutcomeOf
<1>4. HeldBy(l)' = HeldBy(l)
  <2>1. CASE ~Ended(l)
    BY <1>2, <2>1 DEF HeldBy
  <2>2. CASE Ended(l)
    <3>1. \A j \in Labelled(l) : copies'[j] = copies[j]
      BY <1>1, <2>2 DEF Ended
    <3> QED
      BY <1>1, <1>2, <3>1 DEF HeldBy
  <2> QED
    BY <2>1, <2>2
<1> QED
  BY <1>3, <1>4

LEMMA GroupIs ==
    ASSUME IInv, NEW k \in DOMAIN session
    PROVE  /\ k \in Key /\ k \in DOMAIN tos /\ DOMAIN session = DOMAIN tos
           /\ DOMAIN session \subseteq Key
           /\ session[k].phase # "done" => reply = "none"
           /\ k \in Labelled(Label(k))
<1>1. k \in Key /\ k \in DOMAIN tos /\ DOMAIN session = DOMAIN tos /\ DOMAIN session \subseteq Key
  BY DEF IInv, TypeOK
<1>2. session[k].phase # "done" => reply = "none"
  <2>1. mode # "broken"
    BY <1>1 DEF IInv, Grouped
  <2> QED
    BY <1>1, <2>1 DEF IInv, Returned, AllDone
<1> QED
  BY <1>1, <1>2 DEF Labelled

\* A group that goes on
LEMMA OngoingStep ==
    ASSUME IInv, NEW k \in Key,
           Answer(k) \/ HostStores(k) \/ Accepted(k) \/ Refuse(k) \/ AnswerLost(k) \/ Retry(k)
    PROVE  UNCHANGED Sender!vars
<1>1. /\ k \in DOMAIN session /\ session[k].phase # "done" /\ session[k] \in Session
      /\ UNCHANGED <<setup, outcome, reply>>
      /\ DOMAIN session' = DOMAIN session
      /\ \A j \in DOMAIN session : j # k => session'[j] = session[j]
      /\ \A j \in Key : j # k => copies'[j] = copies[j]
  BY DEF Answer, HostStores, Accepted, Refuse, AnswerLost, Retry, Talking, Failed, Fails,
         history, IInv, TypeOK
<1>2. session'[k].phase # "done"
  <2>1. CASE Answer(k)
    <3> DEFINE s == session[k]
    <3>1. session'[k] = Step(k, s)
      BY <1>1, <2>1 DEF Answer
    <3> HIDE DEF s
    <3>2. s \in Session => Step(k, s).phase = s.phase
      BY DEF Step, Session
    <3> QED
      BY <1>1, <3>1, <3>2 DEF s
  <2>2. CASE HostStores(k) \/ Accepted(k) \/ Refuse(k) \/ AnswerLost(k)
    <3>1. CASE HostStores(k) \/ Accepted(k)
      BY <1>1, <3>1 DEF HostStores, Accepted, Session
    <3>2. CASE Refuse(k) \/ AnswerLost(k)
      <4>1. \E error : Fails(k, error)
        BY <3>2 DEF Refuse, AnswerLost
      <4> QED
        BY <1>1, <4>1 DEF Fails, Session
    <3> QED
      BY <2>2, <3>1, <3>2
  <2>3. CASE Retry(k)
    <3>1. NextTry(k, session[k]) # <<>> /\ session'[k] = NextTry(k, session[k])[1]
      BY <1>1, <2>3 DEF Retry
    <3>2. PICK mx \in 1..Len(Hosts(k)), way \in Way :
             NextTry(k, session[k]) = <<Connect(mx, way)>>
      BY <1>1, <3>1, NextTryType
    <3> QED
      BY <3>1, <3>2 DEF Connect
  <2> QED
    BY <2>1, <2>2, <2>3
<1>3. ASSUME NEW l \in Labels
      PROVE  OutcomeOf(l)' = OutcomeOf(l) /\ HeldBy(l)' = HeldBy(l)
  <2>1. CASE l = Label(k)
    <3>1. k \in Labelled(l)
      BY <1>1, <2>1, GroupIs
    <3>2. k \in Labelled(l)'
      BY <1>1, <3>1 DEF Labelled, setup
    <3>3. ~Ended(l) /\ ~Ended(l)'
      BY <1>1, <1>2, <3>1, <3>2 DEF Ended
    <3> QED
      BY <3>3 DEF OutcomeOf, HeldBy
  <2>2. CASE l # Label(k)
    BY <1>1, <2>2, GroupIs, OtherLabels DEF setup, outcome
  <2> QED
    BY <2>1, <2>2
<1> QED
  BY <1>1, <1>3, Unseen DEF setup

\* What a label's result says of the copies under it: a group that is not in the error
\* has one, and the relay has none when it refused for good.
Truthful == \A l : Ended(l) => Sender!Allowed(l, OutcomeOf(l), HeldBy(l))

LEMMA TruthfulResults == SInv => Truthful
<1> SUFFICES ASSUME SInv, NEW l, Ended(l)
             PROVE  Sender!Allowed(l, OutcomeOf(l), HeldBy(l))
  BY DEF Truthful
<1>1. ASSUME l \notin DOMAIN errMap PROVE HeldBy(l)
  <2>1. PICK k \in Labelled(l) : k \in DOMAIN session /\ session[k].phase = "done"
    BY DEF Ended
  <2>2. Label(k) = l
    BY DEF Labelled
  <2>3. session[k].last = "none"
    BY <1>1, <2>1, <2>2 DEF SInv, Causes
  <2>4. Progress(k) /\ copies[k] \in Nat /\ lost[k] \in Nat
    BY <2>1 DEF SInv, IInv, TypeOK
  <2>5. copies[k] > 0
    BY <2>1, <2>3, <2>4 DEF Progress, Kept
  <2> QED
    BY <2>5 DEF HeldBy
<1>2. ASSUME l = Label(Up), l \in DOMAIN errMap, IsPermanentDeliveryError(errMap[l]),
             NEW k \in Labelled(l)
      PROVE  copies[k] = 0
  <2>1. k = Up
    BY <1>2, KeyIsLabel DEF Labelled, SInv, IInv, TypeOK
  <2>2. PICK j \in DOMAIN session :
           Label(j) = l /\ session[j].phase = "done" /\ session[j].last = errMap[l]
    BY <1>2 DEF SInv, IInv, Recorded
  <2>3. j = Up
    BY <1>2, <2>2, KeyIsLabel, GroupIs DEF SInv
  <2>4. session[Up].last \in {"perm", "notfound"} /\ session[Up].phase = "done"
    BY <1>2, <2>2, <2>3 DEF IsPermanentDeliveryError
  <2>5. Progress(Up) /\ copies[Up] \in Nat /\ lost[Up] \in Nat
    BY <2>2, <2>3, KeyIsLabel DEF SInv, IInv, TypeOK
  <2>6. lost[Up] = 0
    BY <2>2, <2>3, <2>4, <2>5 DEF SInv, AskedOnce
  <2> QED
    BY <2>1, <2>4, <2>5, <2>6 DEF Progress, Kept
<1>3. OutcomeOf(l) = "accepted" => HeldBy(l)
  BY <1>1 DEF OutcomeOf
<1>4. l = Label(Up) /\ OutcomeOf(l) = "perm" => ~HeldBy(l)
  <2>1. OutcomeOf(l) = "perm" => l \in DOMAIN errMap /\ IsPermanentDeliveryError(errMap[l])
    BY DEF OutcomeOf
  <2>2. SUFFICES ASSUME l = Label(Up), l \in DOMAIN errMap, IsPermanentDeliveryError(errMap[l]),
                        HeldBy(l)
                 PROVE  FALSE
    BY <2>1
  <2>3. PICK k \in Labelled(l) : copies[k] > 0
    BY <2>2 DEF HeldBy
  <2>4. copies[k] = 0
    BY <1>2, <2>2, <2>3
  <2> QED
    BY <2>3, <2>4
<1> QED
  BY <1>3, <1>4 DEF Sender!Allowed, Up

\* A group ends: its label has a result when no other group of it is left.
LEMMA EndStep ==
    ASSUME SInv, SInv', NEW k \in Key, Quit(k) \/ RecordFailure(k)
    PROVE  [Sender!Next]_(Sender!vars)
<1> DEFINE l == Label(k)
<1>1. /\ k \in DOMAIN session /\ session[k].phase # "done"
      /\ UNCHANGED <<setup, reply, history>>
      /\ DOMAIN session' = DOMAIN session
      /\ \A j \in DOMAIN session : j # k => session'[j] = session[j]
  BY DEF Quit, RecordFailure, Failed
<1>2. reply = "none" /\ k \in Labelled(l) /\ k \in DOMAIN tos /\ DOMAIN session \subseteq Key
  BY <1>1, GroupIs DEF SInv
<1>3. \A j : j # l => (j \in DOMAIN errMap' <=> j \in DOMAIN errMap)
                      /\ (j \in DOMAIN errMap => errMap'[j] = errMap[j])
  BY DEF Quit, RecordFailure, Put, outcome
<1>4. OutcomeOf(l) = "none" /\ ~HeldBy(l)
  BY <1>1, <1>2 DEF OutcomeOf, HeldBy, Ended
<1> HIDE DEF l
<1>5. l = Label(k) /\ l \in Labels
  BY KeyIsLabel DEF l
<1>6. ASSUME NEW j \in Labels, j # l
      PROVE  OutcomeOf(j)' = OutcomeOf(j) /\ HeldBy(j)' = HeldBy(j)
  BY <1>1, <1>2, <1>3, <1>5, <1>6, OtherLabels DEF setup, history
<1>7. {Label(j) : j \in DOMAIN tos}' = {Label(j) : j \in DOMAIN tos} /\ l \in {Label(j) : j \in DOMAIN tos}
  BY <1>1, <1>2, <1>5 DEF setup
<1>8. CASE ~Ended(l)'
  <2>1. OutcomeOf(l)' = "none" /\ ~HeldBy(l)'
    BY <1>8 DEF OutcomeOf, HeldBy
  <2>2. OutcomeOf(l)' = OutcomeOf(l) /\ HeldBy(l)' = HeldBy(l)
    BY <1>4, <1>8, <2>1 DEF HeldBy
  <2>3. UNCHANGED Sender!vars
    BY <1>1, <1>6, <1>7, <2>2, Unseen
  <2> QED
    BY <2>3
<1>9. CASE Ended(l)'
  <2> DEFINE o == OutcomeOf(l)'
             copy == HeldBy(l)'
  <2>1. Sender!Allowed(l, o, copy)
    <3>1. Truthful'
      BY TruthfulResults, PTL
    <3> QED
      BY <1>9, <3>1 DEF Truthful
  <2>2. o \in Sender!Outcome /\ copy \in BOOLEAN
    BY <1>9 DEF OutcomeOf, HeldBy, Sender!Outcome
  <2> HIDE DEF o, copy
  <2>3. [j \in Labels |-> OutcomeOf(j)]' = [[j \in Labels |-> OutcomeOf(j)] EXCEPT ![l] = o]
    BY <1>5, <1>6 DEF o
  <2>4. {j \in Labels : HeldBy(j)}' = IF copy THEN {j \in Labels : HeldBy(j)} \union {l}
                                      ELSE {j \in Labels : HeldBy(j)}
    BY <1>4, <1>5, <1>6, <2>2 DEF copy
  <2>5. [j \in Labels |-> OutcomeOf(j)][l] = "none"
    BY <1>4, <1>5
  <2>6. Sender!Result(l, o, copy)
    BY <1>1, <1>2, <1>7, <2>1, <2>3, <2>4, <2>5 DEF Sender!Result
  <2> QED
    BY <1>5, <2>2, <2>6 DEF Sender!Next
<1> QED
  BY <1>8, <1>9

\* The switch, the grouping and the result
LEMMA AddressStep ==
    ASSUME IInv, NEW k \in Key, reply' = reply, reply = "none",
           DOMAIN tos' = DOMAIN tos \union {k},
           \A j \in DOMAIN session : session[j].phase # "done",
           \A j \in DOMAIN session' : session'[j].phase # "done"
    PROVE  Sender!Next
<1>1. \A l \in Labels : OutcomeOf(l) = "none" /\ ~HeldBy(l)
  BY NoneEnded
<1>2. \A l \in Labels : OutcomeOf(l)' = "none" /\ ~HeldBy(l)'
  BY DEF OutcomeOf, HeldBy, Ended, Labelled
<1>3. {Label(j) : j \in DOMAIN tos}' = {Label(j) : j \in DOMAIN tos} \union {Label(k)}
  OBVIOUS
<1>4. /\ [l \in Labels |-> OutcomeOf(l)]' = [l \in Labels |-> OutcomeOf(l)]
      /\ {l \in Labels : HeldBy(l)}' = {l \in Labels : HeldBy(l)}
  BY <1>1, <1>2
<1>5. Sender!Address(Label(k))
  BY <1>1, <1>3, <1>4 DEF Sender!Address, Sender!Untried
<1> QED
  BY <1>5, KeyIsLabel DEF Sender!Next

LEMMA BeginStep ==
    ASSUME IInv, ReadConfig \/ Lookup \/ Start
    PROVE  [Sender!Next]_(Sender!vars)
<1>1. DOMAIN session = {}
  BY UngroupedIsQuiet DEF ReadConfig, Lookup, Start, Empty, IInv, TypeOK, Grouped
<1>2. \A l \in Labels : OutcomeOf(l) = "none" /\ ~HeldBy(l)
  BY <1>1, NoneEnded
<1>3. CASE Start
  <2>1. \A k \in DOMAIN session' : session'[k].phase # "done"
    BY <1>3 DEF Start, Connect
  <2>2. \A l \in Labels : OutcomeOf(l)' = "none" /\ ~HeldBy(l)'
    BY <2>1 DEF OutcomeOf, HeldBy, Ended, Labelled
  <2>3. \A l \in Labels : OutcomeOf(l)' = OutcomeOf(l) /\ HeldBy(l)' = HeldBy(l)
    BY <1>2, <2>2 DEF HeldBy
  <2> QED
    BY <1>3, <2>3, Unseen DEF Start, setup
<1>4. CASE Lookup
  <2>1. session' = session /\ reply' = reply /\ reply = "none"
    BY <1>4, UngroupedIsQuiet DEF Lookup
  <2>2. CASE tos' = tos
    <3>1. \A l \in Labels : OutcomeOf(l)' = OutcomeOf(l) /\ HeldBy(l)' = HeldBy(l)
      BY <1>4, <2>1, <2>2
         DEF Lookup, OutcomeOf, HeldBy, Ended, Labelled, outcome, history
    <3> QED
      BY <2>1, <2>2, <3>1, Unseen
  <2>3. CASE \E k \in Key : DOMAIN tos' = DOMAIN tos \union {k}
    BY <1>1, <2>1, <2>3, AddressStep
  <2>4. tos' = tos \/ \E k \in Key : DOMAIN tos' = DOMAIN tos \union {k}
    <3> DEFINE to == domainOf[looked + 1]
    <3>1. CASE tos' = Put(tos, <<TestDomain, Own>>, AddTo(<<TestDomain, Own>>, looked + 1))
      BY <3>1 DEF Put, Key
    <3>2. ASSUME to \in Domain, NEW l \in Lookups[to], NEW k,
                 k = <<to, IF l.hosts = <<>> THEN Own ELSE l.hosts[1]>>,
                 tos' = Put(tos, k, AddTo(k, looked + 1))
          PROVE  \E j \in Key : DOMAIN tos' = DOMAIN tos \union {j}
      <4>1. l.hosts \in Seq(Host)
        BY <3>2, DeliveryAssumption
      <4>2. l.hosts # <<>> => l.hosts[1] \in Host
        BY <4>1
      <4>3. k \in Key
        BY <3>2, <4>2 DEF Key
      <4> QED
        BY <3>2, <4>3 DEF Put
    <3> QED
      BY <1>4, <3>1, <3>2 DEF Lookup
  <2> QED
    BY <2>2, <2>3, <2>4
<1>5. CASE ReadConfig
  <2>1. DOMAIN tos = {} /\ reply = "none"
    BY <1>5 DEF ReadConfig, IInv, TypeOK, Grouped, Returned
  <2>2. ASSUME NEW way \in {"relay", "relaytls", "ses"}, Handover(way)
        PROVE  Sender!Next
    <3>1. DOMAIN Empty = {}
      BY DEF Empty
    <3>2. DOMAIN tos' = {Up} /\ reply' = reply
      BY <2>2, <3>1 DEF Handover, Put, Up
    <3>3. \A k \in DOMAIN session' : session'[k].phase # "done"
      BY <2>2, <3>1 DEF Handover, Put, Connect
    <3> QED
      BY <1>1, <2>1, <3>2, <3>3, KeyIsLabel, AddressStep
  <2>3. CASE UNCHANGED <<tos, session>>
    <3>1. \A l \in Labels : OutcomeOf(l)' = OutcomeOf(l) /\ HeldBy(l)' = HeldBy(l)
      BY <1>5, <2>3
         DEF ReadConfig, OutcomeOf, HeldBy, Ended, Labelled, outcome, history
    <3>2. CASE UNCHANGED reply
      BY <2>3, <3>1, <3>2, Unseen
    <3>3. CASE reply' = "451"
      <4>1. /\ [l \in Labels |-> OutcomeOf(l)]' = [l \in Labels |-> OutcomeOf(l)]
            /\ {l \in Labels : HeldBy(l)}' = {l \in Labels : HeldBy(l)}
        BY <3>1
      <4>2. Sender!Unable
        BY <1>1, <1>2, <2>1, <2>3, <3>3, <4>1 DEF Sender!Unable, Sender!Untried
      <4> QED
        BY <4>2 DEF Sender!Next
    <3> QED
      BY <1>5, <2>3, <3>2, <3>3 DEF ReadConfig, Read, Validated, Handover
  <2> QED
    BY <1>5, <2>2, <2>3 DEF ReadConfig, Read, Validated
<1> QED
  BY <1>3, <1>4, <1>5

\* The reply is made of the results of all labels.
LEMMA ReturnStep == ASSUME SInv, Return PROVE Sender!Next
<1> DEFINE all == {Label(k) : k \in DOMAIN tos}
<1>1. reply = "none" /\ AllDone /\ reply' = ReplyOf(errEmail, errMap)
      /\ UNCHANGED <<setup, session, outcome, history>>
  BY DEF Return
<1>2. \A l \in Labels : OutcomeOf(l)' = OutcomeOf(l) /\ HeldBy(l)' = HeldBy(l)
  BY <1>1 DEF OutcomeOf, HeldBy, Ended, Labelled, setup, outcome, history
<1>3. all \subseteq Labels /\ \A l \in all : Ended(l)
  <2>1. DOMAIN tos \subseteq Key
    BY DEF SInv, IInv, TypeOK
  <2> QED
    BY <1>1, <2>1, KeyIsLabel DEF Ended, Labelled, AllDone
<1>4. DOMAIN errMap \subseteq all
  BY GroupIs DEF SInv, IInv, Recorded
<1>5. \A l \in all : OutcomeOf(l) =
         IF l \notin DOMAIN errMap THEN "accepted"
         ELSE IF IsPermanentDeliveryError(errMap[l]) THEN "perm" ELSE "temp"
  BY <1>3 DEF OutcomeOf
<1>6. (\A l \in all : OutcomeOf(l) = "accepted") <=> errEmail = {}
  BY <1>4, <1>5 DEF SInv, Causes
<1>7. (\A l \in all : OutcomeOf(l) \in {"accepted", "perm"}) <=>
         \A l \in DOMAIN errMap : IsPermanentDeliveryError(errMap[l])
  BY <1>4, <1>5
<1>8. errEmail # {} => DOMAIN errMap # {}
  BY DEF SInv, Causes
<1> DEFINE results == [l \in Labels |-> OutcomeOf(l)]
<1>9. \A l \in all : results[l] = OutcomeOf(l) /\ results[l] # "none"
  BY <1>3, <1>5
<1>10. reply' = IF \A l \in all : results[l] = "accepted" THEN "250"
               ELSE IF \A l \in all : results[l] \in {"accepted", "perm"} THEN "550"
               ELSE "451"
  BY <1>1, <1>6, <1>7, <1>9, <1>8 DEF ReplyOf
<1>11. results' = results /\ {l \in Labels : HeldBy(l)}' = {l \in Labels : HeldBy(l)} /\ all' = all
  BY <1>1, <1>2 DEF setup
<1>12. Sender!Return
  BY <1>1, <1>9, <1>10, <1>11 DEF Sender!Return, Sender!Verdict
<1> QED
  BY <1>12 DEF Sender!Next

LEMMA SenderStep == SInv /\ [Next]_vars => [Sender!Next]_(Sender!vars)
<1> SUFFICES ASSUME SInv, [Next]_vars PROVE [Sender!Next]_(Sender!vars)
  OBVIOUS
<1>1. SInv'
  BY SInvStep
<1>2. CASE UNCHANGED vars
  <2>1. \A l \in Labels : OutcomeOf(l)' = OutcomeOf(l) /\ HeldBy(l)' = HeldBy(l)
    BY <1>2 DEF vars, setup, outcome, history, OutcomeOf, HeldBy, Ended, Labelled
  <2> QED
    BY <1>2, <2>1, Unseen DEF vars, setup
<1> QED
  BY <1>1, <1>2, BeginStep, ReturnStep, OngoingStep, EndStep
     DEF SInv, Next, Local, Remote

\* The inductive invariant of the refinement
THEOREM RefinementInvariance == Spec => []SInv
<1>1. Init => SInv
  BY InitInv, InitCauses DEF SInv
<1>2. SInv /\ [Next]_vars => SInv'
  BY SInvStep
<1> QED
  BY <1>1, <1>2, PTL DEF Spec

\* A synchronous delivery is what the audit of outgoing mail takes it for: every target
\* gets one final result, a target that is not reported as failed holds a copy, a relay
\* that refused for good has none, and the reply waits for all results and is made of all.
THEOREM SendsAsExpected == Spec => ImplementsSender
<1>1. Init => Sender!Init
  BY InitSender
<1>2. SInv /\ [Next]_vars => [Sender!Next]_(Sender!vars)
  BY SenderStep
<1>3. Spec => Sender!Spec
  BY <1>1, <1>2, RefinementInvariance, PTL DEF Spec, Sender!Spec
<1> QED
  BY <1>3 DEF ImplementsSender
=============================================================================
