------------------------ MODULE OutgoingAuditProofs ------------------------
(***************************************************************************)
(* Proofs about OutgoingAudit for every set of messages, calls, domains    *)
(* and relation slots, any number of attempts and either kind of database, *)
(* that it keeps the ledger of AuditLedger, and that it is given what      *)
(* Sender, which Delivery implements, may give.                            *)
(***************************************************************************)
EXTENDS OutgoingAudit, TLAPS

-----------------------------------------------------------------------------
\* Type correctness

LEMMA LocalType ==
    ASSUME TypeOK, NEW c \in Call, LocalStep(c)
    PROVE  TypeOK'
<1> USE CallAssumption DEF TypeOK, Phase, Running, Outcome, Final, EmailRow, RelRow, Answer
<1> USE DEF callVars, tables, clientVars, history
<1>1. CASE AuditCommits(c)
  BY <1>1 DEF AuditCommits, InsertAudit, LeaveTransaction
<1>2. CASE AuditFails(c)
  <2>1. attempt' \in [Call -> 1..Attempts]
    <3>1. CASE attempt[c] < Attempts /\ attempt' = [attempt EXCEPT ![c] = attempt[c] + 1]
      BY <3>1
    <3>2. CASE attempt' = [attempt EXCEPT ![c] = 1]
      BY <3>2
    <3> QED
      BY <1>2, <3>1, <3>2 DEF AuditFails, RetriesTransaction, NextAttempt, LeaveTransaction
  <2>2. \/ UNCHANGED <<pc, reply>>
        \/ /\ pc' = [pc EXCEPT ![c] = "reply"]
           /\ reply' = [reply EXCEPT ![c] = "local451"]
    BY <1>2, Zenon DEF AuditFails, RefuseLocally
  <2>3. UNCHANGED <<msg, observed, tables, took, clientVars, reaping, history>>
    BY <1>2, Zenon DEF AuditFails
  <2> QED
    BY <2>1, <2>2, <2>3
<1>3. CASE AuditCommitUnknown(c)
  BY <1>3 DEF AuditCommitUnknown, InsertAudit, RefuseLocally, LeaveTransaction
<1>4. CASE SenderAndHooksReturn(c)
  BY <1>4 DEF SenderAndHooksReturn
<1>5. DownstreamReply(c) \in Answer /\ TargetStatus(c) \in Final
  BY DEF DownstreamReply, TargetStatus
<1>6. CASE PersistCommits(c)
  BY <1>5, <1>6 DEF PersistCommits, UpdateResult, ReplyRemote, LeaveTransaction
<1>7. CASE PersistMismatch(c)
  BY <1>5, <1>7 DEF PersistMismatch, PersistGivesUp, ReplyRemote, LeaveTransaction
<1>8. CASE PersistFails(c)
  <2>1. attempt' \in [Call -> 1..Attempts]
    <3>1. CASE attempt[c] < Attempts /\ attempt' = [attempt EXCEPT ![c] = attempt[c] + 1]
      BY <3>1
    <3>2. CASE attempt' = [attempt EXCEPT ![c] = 1]
      BY <3>2
    <3> QED
      BY <1>8, <3>1, <3>2 DEF PersistFails, RetriesTransaction, NextAttempt,
         PersistGivesUp, LeaveTransaction
  <2>2. \/ UNCHANGED <<pc, reply, dbFault>>
        \/ /\ pc' = [pc EXCEPT ![c] = "reply"]
           /\ reply' = [reply EXCEPT ![c] = DownstreamReply(c)]
           /\ dbFault' = dbFault \cup {c}
    BY <1>8, Zenon DEF PersistFails, PersistGivesUp, ReplyRemote
  <2>3. UNCHANGED <<msg, observed, tables, took, clientVars, reaping, touched, abandoned>>
    BY <1>8, Zenon DEF PersistFails
  <2>4. pc' \in [Call -> Phase] /\ reply' \in [Call -> Answer] /\ dbFault' \subseteq Call
    <3>1. CASE UNCHANGED <<pc, reply, dbFault>>
      BY <3>1
    <3>2. CASE /\ pc' = [pc EXCEPT ![c] = "reply"]
               /\ reply' = [reply EXCEPT ![c] = DownstreamReply(c)]
               /\ dbFault' = dbFault \cup {c}
      BY <1>5, <3>2
    <3> QED
      BY <2>2, <3>1, <3>2
  <2> QED
    BY <2>1, <2>3, <2>4
<1>9. CASE PersistCommitUnknown(c)
  BY <1>5, <1>9 DEF PersistCommitUnknown, UpdateResult, PersistGivesUp,
     ReplyRemote, LeaveTransaction
<1>10. CASE Reply(c)
  BY <1>10 DEF Reply
<1> QED
  BY <1>1, <1>2, <1>3, <1>4, <1>6, <1>7, <1>8, <1>9, <1>10 DEF LocalStep

LEMMA RemoteType ==
    ASSUME TypeOK, NEW c \in Call, RemoteStep(c)
    PROVE  TypeOK'
<1> USE DEF TypeOK, Outcome, callVars, tables, clientVars, history
<1>1. CASE RelayResult(c)
  <2>1. PICK o \in Outcome : observed' = [observed EXCEPT ![c] = [d \in Domain |-> o]]
    BY <1>1 DEF RelayResult
  <2>2. took' \in [Call -> SUBSET Domain]
    BY <1>1 DEF RelayResult
  <2> QED
    BY <1>1, <2>1, <2>2 DEF RelayResult
<1>2. ASSUME NEW d \in Domain, DomainResult(c, d)
      PROVE  TypeOK'
  BY <1>2 DEF DomainResult
<1> QED
  BY <1>1, <1>2 DEF RemoteStep

LEMMA UserType ==
    ASSUME TypeOK, NEW c \in Call, UserStep(c)
    PROVE  TypeOK'
<1> USE DEF TypeOK, Final, EmailRow, RelRow, callVars, tables, clientVars, history
<1>1. CASE UserMoves(c)
  BY <1>1 DEF UserMoves
<1>2. CASE UserCopies(c)
  <2>1. PICK s \in Slot, box \in {"user", "sent", email[c]} :
              rel' = [rel EXCEPT ![c][s] = box]
    BY <1>2 DEF UserCopies
  <2> QED
    BY <1>2, <2>1 DEF UserCopies
<1>3. CASE UserDeletes(c)
  BY <1>3 DEF UserDeletes
<1>4. CASE UserDropsRelation(c)
  BY <1>4 DEF UserDropsRelation
<1>5. CASE UserReapsEmail(c)
  BY <1>5 DEF UserReapsEmail
<1> QED
  BY <1>1, <1>2, <1>3, <1>4, <1>5 DEF UserStep

LEMMA ClientType ==
    ASSUME TypeOK, NEW m \in Msg, ClientStep(m)
    PROVE  TypeOK'
<1> USE DEF TypeOK, Phase, Running, callVars, tables, clientVars, history
<1>1. CASE ClientTimeout(m)
  BY <1>1 DEF ClientTimeout
<1>2. ASSUME NEW c \in Call, Submit(m, c)
      PROVE  TypeOK'
  BY <1>2 DEF Submit
<1> QED
  BY <1>1, <1>2 DEF ClientStep

\* A crash changes no more than the phase of calls and what clients wait for.
LEMMA CrashType == TypeOK /\ Crash => TypeOK'
<1> SUFFICES ASSUME TypeOK, Crash PROVE TypeOK'
  OBVIOUS
<1>1. pc' \in [Call -> Phase] /\ attempt' \in [Call -> 1..Attempts]
  BY CallAssumption DEF Crash, TypeOK, Phase, Running
<1>2. client' \in [Msg -> {"idle", "waiting", "acked", "bounced"}]
  BY DEF Crash, TypeOK
<1> QED
  BY <1>1, <1>2 DEF Crash, TypeOK, tables, history

\* Every variable keeps its type, in particular no transaction is attempted
\* more than transactionAttempts times.
THEOREM TypeCorrect == Spec => []TypeOK
<1>1. Init => TypeOK
  BY CallAssumption DEF Init, TypeOK, Phase, Running, Outcome, EmailRow, RelRow, Answer
<1>2. TypeOK /\ [Next]_vars => TypeOK'
  <2> SUFFICES ASSUME TypeOK, [Next]_vars PROVE TypeOK'
    OBVIOUS
  <2>1. CASE Next
    BY <2>1, LocalType, RemoteType, UserType, ClientType, CrashType DEF Next
  <2>2. CASE UNCHANGED vars
    BY <2>2 DEF vars, callVars, tables, clientVars, history, TypeOK
  <2> QED
    BY <2>1, <2>2
<1> QED
  BY <1>1, <1>2, PTL DEF Spec

-----------------------------------------------------------------------------
\* Frames: what a step does not touch stays invariant

\* Step: everything CallInv says of x is unchanged.
SameCall(x) ==
    /\ pc'[x] = pc[x] /\ msg'[x] = msg[x] /\ observed'[x] = observed[x]
    /\ email'[x] = email[x] /\ rel'[x] = rel[x]
    /\ reply'[x] = reply[x] /\ took'[x] = took[x]
    /\ x \in touched' <=> x \in touched
    /\ x \in dbFault' <=> x \in dbFault
    /\ x \in abandoned' => x \in abandoned \/ pc[x] # "free"

LEMMA CallFrame ==
    ASSUME NEW x \in Call, CallInv(x), SameCall(x)
    PROVE  CallInv(x)'
<1>1. /\ Unsent(x)' = Unsent(x) /\ Heard(x)' = Heard(x) /\ Failed(x)' = Failed(x)
      /\ NoRelation(x)' = NoRelation(x) /\ OneRelation(x)' = OneRelation(x)
  BY DEF SameCall, Unsent, Heard, Failed, NoRelation, OneRelation
<1>2. TargetStatus(x)' = TargetStatus(x) /\ DownstreamReply(x)' = DownstreamReply(x)
  BY <1>1 DEF SameCall, TargetStatus, DownstreamReply
<1> QED
  BY <1>1, <1>2 DEF SameCall, CallInv

\* A step of a call that goes on running leaves the clients' view alone.
LEMMA ClientFrame ==
    ASSUME TypeOK, ClientInv, \A x \in Call : CallInv(x),
           UNCHANGED <<msg, client, waiter, abandoned>>,
           \A x \in Call :
              \/ pc'[x] = pc[x] /\ reply'[x] = reply[x]
              \/ /\ pc[x] \in Running /\ pc'[x] \in Running
                 /\ reply'[x] = reply[x] \/ reply[x] = "none"
    PROVE  ClientInv'
<1>1. \A x \in Call : Holds(x)' <=> Holds(x)
  BY DEF Holds, Running
<1>2. \A x \in Call : pc'[x] \in Running <=> pc[x] \in Running
  BY DEF Running
<1>3. \A x \in Call : Holds(x)' =>
        /\ pc'[x] \in Running => client'[msg'[x]] = "waiting" /\ waiter'[msg'[x]] = x
        /\ pc'[x] = "done" =>
             client'[msg'[x]] = IF reply'[x] = "250" THEN "acked" ELSE "bounced"
  BY <1>1, <1>2 DEF ClientInv, Running
<1>4. \A c1, c2 \in Call : Holds(c1)' /\ Holds(c2)' /\ msg'[c1] = msg'[c2] => c1 = c2
  BY <1>1 DEF ClientInv
<1>5. ASSUME NEW m \in Msg
      PROVE  /\ client'[m] = "waiting" =>
                   /\ waiter'[m] \in Call \ abandoned'
                   /\ pc'[waiter'[m]] \in Running
                   /\ msg'[waiter'[m]] = m
             /\ client'[m] # "waiting" => waiter'[m] = NoCall
             /\ client'[m] = "acked" => \E c \in Call : msg'[c] = m /\ reply'[c] = "250"
             /\ client'[m] = "bounced" => \E c \in Call : msg'[c] = m /\ reply'[c] = "550"
  BY <1>2 DEF ClientInv
<1> QED
  BY <1>3, <1>4, <1>5 DEF ClientInv

-----------------------------------------------------------------------------
\* The steps of a call

\* Step: the calls other than c keep everything CallInv speaks of.
OnlyCall(c) == \A x \in Call \ {c} : SameCall(x)

LEMMA OnlyCallFrame ==
    ASSUME NEW c \in Call, \A x \in Call : CallInv(x), OnlyCall(c), CallInv(c)'
    PROVE  \A x \in Call : CallInv(x)'
BY CallFrame DEF OnlyCall

\* The insert of the initial audit: a pending row and one relation, pending too.
LEMMA AuditInserted ==
    ASSUME TypeOK, NEW c \in Call, NoRelation(c), InsertAudit(c)
    PROVE  /\ email'[c] = "pending"
           /\ OneRelation(c)'
           /\ \A s \in Slot : rel'[c][s] \in {"none", "pending"}
           /\ \A x \in Call \ {c} : email'[x] = email[x] /\ rel'[x] = rel[x]
<1>1. PICK s \in Slot : rel' = [rel EXCEPT ![c][s] = "pending"]
  BY DEF InsertAudit
<1>2. rel'[c] = [rel[c] EXCEPT ![s] = "pending"]
  BY <1>1 DEF TypeOK
<1>3. \A t \in Slot : rel'[c][t] = IF t = s THEN "pending" ELSE "none"
  BY <1>2 DEF NoRelation, TypeOK
<1>4. OneRelation(c)'
  BY <1>3 DEF OneRelation
<1> QED
  BY <1>1, <1>3, <1>4 DEF InsertAudit, TypeOK

LEMMA AuditCommitsInv ==
    ASSUME TypeOK, NEW c \in Call, CallInv(c), AuditCommits(c)
    PROVE  CallInv(c)' /\ OnlyCall(c)
<1> USE DEF callVars, tables, clientVars, history
<1>1. NoRelation(c) /\ Unsent(c) /\ reply[c] = "none" /\ c \notin touched \cup dbFault
  BY DEF AuditCommits, CallInv
<1>2. /\ email'[c] = "pending"
      /\ OneRelation(c)'
      /\ \A s \in Slot : rel'[c][s] \in {"none", "pending"}
      /\ \A x \in Call \ {c} : email'[x] = email[x] /\ rel'[x] = rel[x]
  BY <1>1, AuditInserted DEF AuditCommits
<1>3. pc'[c] = "deliver" /\ Unsent(c)' /\ reply'[c] = "none" /\ msg'[c] = msg[c]
  BY <1>1 DEF AuditCommits, TypeOK, Unsent
<1>4. OnlyCall(c)
  BY <1>2 DEF AuditCommits, TypeOK, OnlyCall, SameCall
<1>5. msg[c] # NoMsg
  BY DEF AuditCommits, CallInv
<1>6. CallInv(c)'
  BY <1>1, <1>2, <1>3, <1>5 DEF CallInv, Unsent, Final
<1> QED
  BY <1>4, <1>6

\* A refused audit: the transaction rolled back, the reply is local.
LEMMA AuditFailsInv ==
    ASSUME TypeOK, NEW c \in Call, CallInv(c), AuditFails(c)
    PROVE  CallInv(c)' /\ OnlyCall(c)
<1> USE DEF callVars, tables, clientVars, history
<1>1. /\ pc[c] = "audit" /\ NoRelation(c) /\ Unsent(c) /\ email[c] = "none"
      /\ reply[c] = "none" /\ c \notin touched \cup dbFault /\ msg[c] # NoMsg
  BY DEF AuditFails, CallInv
<1>2. UNCHANGED <<msg, observed, tables, took, clientVars, reaping, history>>
  BY Zenon DEF AuditFails
<1>3. \/ UNCHANGED <<pc, reply>>
      \/ /\ pc' = [pc EXCEPT ![c] = "reply"]
         /\ reply' = [reply EXCEPT ![c] = "local451"]
  BY Zenon DEF AuditFails, RefuseLocally
<1>4. OnlyCall(c)
  BY <1>2, <1>3 DEF TypeOK, OnlyCall, SameCall
<1>5. Unsent(c)' /\ NoRelation(c)'
  BY <1>1, <1>2 DEF Unsent, NoRelation
<1>6. \/ pc'[c] = "audit" /\ reply'[c] = "none"
      \/ pc'[c] = "reply" /\ reply'[c] = "local451"
  BY <1>1, <1>3 DEF TypeOK
<1>7. CallInv(c)'
  BY <1>1, <1>2, <1>5, <1>6 DEF CallInv, Unsent, Final
<1> QED
  BY <1>4, <1>7

\* A commit in doubt: the rows are there, nothing is sent.
LEMMA AuditCommitUnknownInv ==
    ASSUME TypeOK, NEW c \in Call, CallInv(c), AuditCommitUnknown(c)
    PROVE  CallInv(c)' /\ OnlyCall(c)
<1> USE DEF callVars, tables, clientVars, history
<1>1. /\ NoRelation(c) /\ Unsent(c) /\ c \notin touched \cup dbFault /\ msg[c] # NoMsg
  BY DEF AuditCommitUnknown, CallInv
<1>2. /\ email'[c] = "pending"
      /\ OneRelation(c)'
      /\ \A s \in Slot : rel'[c][s] \in {"none", "pending"}
      /\ \A x \in Call \ {c} : email'[x] = email[x] /\ rel'[x] = rel[x]
  BY <1>1, AuditInserted DEF AuditCommitUnknown
<1>3. pc'[c] = "reply" /\ reply'[c] = "local451" /\ Unsent(c)' /\ msg'[c] = msg[c]
  BY <1>1 DEF AuditCommitUnknown, RefuseLocally, TypeOK, Unsent
<1>4. OnlyCall(c)
  BY <1>2 DEF AuditCommitUnknown, RefuseLocally, TypeOK, OnlyCall, SameCall
<1>5. CallInv(c)'
  BY <1>1, <1>2, <1>3 DEF CallInv, Unsent, Final, AuditCommitUnknown
<1> QED
  BY <1>4, <1>5

\* While the sender is at work the rows are pending and no reply is known.
LEMMA Delivering ==
    ASSUME NEW c \in Call, CallInv(c), pc[c] = "deliver"
    PROVE  /\ reply[c] = "none" /\ email[c] \in {"pending", "none"} /\ msg[c] # NoMsg
           /\ c \in touched \/ email[c] = "pending"
           /\ \A d \in Domain : observed[c][d] = "accepted" => d \in took[c]
BY DEF CallInv

\* What a domain answers changes only what is observed and who holds a copy.
LEMMA DeliveryFrame ==
    ASSUME NEW c \in Call, CallInv(c), pc[c] = "deliver",
           \A d \in Domain : observed'[c][d] = "accepted" => d \in took'[c],
           pc'[c] \in {"deliver", "persist"}, pc'[c] = "persist" => Heard(c)',
           UNCHANGED <<msg, reply, email, rel, touched, dbFault, abandoned>>
    PROVE  CallInv(c)'
<1>1. NoRelation(c)' = NoRelation(c) /\ OneRelation(c)' = OneRelation(c)
  BY DEF NoRelation, OneRelation
<1> QED
  BY <1>1, Delivering DEF CallInv, Final

LEMMA DomainResultInv ==
    ASSUME TypeOK, NEW c \in Call, CallInv(c), NEW d \in Domain, DomainResult(c, d)
    PROVE  CallInv(c)' /\ OnlyCall(c)
<1> USE DEF callVars, tables, clientVars, history
<1>1. PICK o \in Outcome :
        /\ observed' = [observed EXCEPT ![c][d] = o]
        /\ \/ took' = [took EXCEPT ![c] = @ \cup {d}]
           \/ o # "accepted" /\ UNCHANGED took
  BY DEF DomainResult
<1>2. observed'[c] = [observed[c] EXCEPT ![d] = o]
  BY <1>1 DEF TypeOK
<1>3. took[c] \subseteq took'[c] /\ (o = "accepted" => d \in took'[c])
  BY <1>1 DEF TypeOK
<1>4. \A e \in Domain : observed'[c][e] = "accepted" => e \in took'[c]
  <2> TAKE e \in Domain
  <2>1. observed'[c][e] = IF e = d THEN o ELSE observed[c][e]
    BY <1>2 DEF TypeOK
  <2> QED
    BY <1>3, <2>1, Delivering DEF DomainResult
<1>5. OnlyCall(c)
  BY <1>1 DEF DomainResult, TypeOK, OnlyCall, SameCall
<1>6. pc'[c] = "deliver"
  BY DEF DomainResult
<1>7. CallInv(c)'
  BY <1>4, <1>6, DeliveryFrame DEF DomainResult
<1> QED
  BY <1>5, <1>7

LEMMA RelayResultInv ==
    ASSUME TypeOK, NEW c \in Call, CallInv(c), RelayResult(c)
    PROVE  CallInv(c)' /\ OnlyCall(c)
<1> USE DEF callVars, tables, clientVars, history
<1>1. PICK o \in Outcome :
        /\ observed' = [observed EXCEPT ![c] = [d \in Domain |-> o]]
        /\ \/ took' = [took EXCEPT ![c] = Domain]
           \/ o # "accepted" /\ UNCHANGED took
  BY DEF RelayResult
<1>2. \A e \in Domain : observed'[c][e] = "accepted" => e \in took'[c]
  BY <1>1 DEF TypeOK
<1>3. OnlyCall(c)
  BY <1>1 DEF RelayResult, TypeOK, OnlyCall, SameCall
<1>4. CallInv(c)'
  BY <1>2, DeliveryFrame DEF RelayResult
<1> QED
  BY <1>3, <1>4

LEMMA SenderAndHooksReturnInv ==
    ASSUME TypeOK, NEW c \in Call, CallInv(c), SenderAndHooksReturn(c)
    PROVE  CallInv(c)' /\ OnlyCall(c)
<1> USE DEF callVars, tables, clientVars, history
<1>1. pc'[c] = "persist" /\ Heard(c)'
  BY DEF SenderAndHooksReturn, TypeOK, Heard
<1>2. CallInv(c)'
  BY <1>1, Delivering, DeliveryFrame DEF SenderAndHooksReturn
<1>3. OnlyCall(c)
  BY DEF SenderAndHooksReturn, TypeOK, OnlyCall, SameCall
<1> QED
  BY <1>2, <1>3

\* The reply of a call that heard from every domain is one of three.
LEMMA RemoteReply ==
    ASSUME NEW c \in Call
    PROVE  /\ DownstreamReply(c) \in {"250", "451", "550"}
           /\ DownstreamReply(c) = "250" <=> ~Failed(c)
           /\ TargetStatus(c) = IF DownstreamReply(c) = "250" THEN "sent" ELSE "fail"
BY DEF DownstreamReply, TargetStatus

\* A call about to store its result.
LEMMA Persisting ==
    ASSUME NEW c \in Call, CallInv(c), pc[c] = "persist"
    PROVE  /\ Heard(c) /\ reply[c] = "none" /\ msg[c] # NoMsg
           /\ email[c] \in {"pending", "none"}
           /\ c \in touched \/ email[c] = "pending"
BY DEF CallInv

\* What is observed and who holds a copy is settled by then.
LEMMA SettledFrame ==
    ASSUME NEW c \in Call, UNCHANGED <<observed, took>>
    PROVE  /\ Heard(c)' = Heard(c) /\ Failed(c)' = Failed(c) /\ Unsent(c)' = Unsent(c)
           /\ DownstreamReply(c)' = DownstreamReply(c)
           /\ TargetStatus(c)' = TargetStatus(c)
BY DEF Heard, Failed, Unsent, DownstreamReply, TargetStatus

\* The result is stored in both tables.
LEMMA ResultStored ==
    ASSUME TypeOK, NEW c \in Call, CallInv(c), pc[c] = "persist",
           ResultMatches(c), UpdateResult(c), ReplyRemote(c),
           UNCHANGED <<msg, observed, took, touched, abandoned>>,
           dbFault' \in {dbFault, dbFault \cup {c}}
    PROVE  CallInv(c)' /\ OnlyCall(c)
<1>1. pc'[c] = "reply" /\ reply'[c] = DownstreamReply(c) /\ email'[c] = TargetStatus(c)
  BY DEF ReplyRemote, UpdateResult, TypeOK
<1>2. \A s \in Slot : rel'[c][s] = IF rel[c][s] = "none" THEN "none" ELSE TargetStatus(c)
  BY DEF UpdateResult, TypeOK
<1>3. TargetStatus(c) \in Final
  BY DEF TargetStatus, Final
<1>4. OneRelation(c)'
  BY <1>2, <1>3 DEF ResultMatches, OneRelation, Final
<1>5. OnlyCall(c)
  BY DEF ReplyRemote, UpdateResult, TypeOK, OnlyCall, SameCall
<1>6. TargetStatus(c) = "sent" <=> ~Failed(c)
  BY DEF TargetStatus
<1>7. \A d \in Domain : observed'[c][d] = "accepted" => d \in took'[c]
  BY DEF CallInv
<1>8. CallInv(c)'
  BY <1>1, <1>2, <1>3, <1>4, <1>6, <1>7, Persisting, RemoteReply, SettledFrame
     DEF CallInv, Final
<1> QED
  BY <1>5, <1>8

LEMMA PersistCommitsInv ==
    ASSUME TypeOK, NEW c \in Call, CallInv(c), PersistCommits(c)
    PROVE  CallInv(c)' /\ OnlyCall(c)
BY ResultStored DEF PersistCommits, history

LEMMA PersistCommitUnknownInv ==
    ASSUME TypeOK, NEW c \in Call, CallInv(c), PersistCommitUnknown(c)
    PROVE  CallInv(c)' /\ OnlyCall(c)
BY ResultStored DEF PersistCommitUnknown, PersistGivesUp

\* The result could not be stored: the rows stay, the reply is the same.
LEMMA ResultLost ==
    ASSUME TypeOK, NEW c \in Call, CallInv(c), pc[c] = "persist", ReplyRemote(c),
           UNCHANGED <<msg, observed, email, rel, took, touched, abandoned>>,
           dbFault' = dbFault \cup {c}
    PROVE  CallInv(c)' /\ OnlyCall(c)
<1>1. pc'[c] = "reply" /\ reply'[c] = DownstreamReply(c)
  BY DEF ReplyRemote, TypeOK
<1>2. NoRelation(c)' = NoRelation(c) /\ OneRelation(c)' = OneRelation(c)
  BY DEF NoRelation, OneRelation
<1>3. OnlyCall(c)
  BY DEF ReplyRemote, TypeOK, OnlyCall, SameCall
<1>4. CallInv(c)'
  BY <1>1, <1>2, Persisting, RemoteReply, SettledFrame DEF CallInv, Final
<1> QED
  BY <1>3, <1>4

LEMMA PersistMismatchInv ==
    ASSUME TypeOK, NEW c \in Call, CallInv(c), PersistMismatch(c)
    PROVE  CallInv(c)' /\ OnlyCall(c)
BY ResultLost DEF PersistMismatch, PersistGivesUp, tables

LEMMA PersistFailsInv ==
    ASSUME TypeOK, NEW c \in Call, CallInv(c), PersistFails(c)
    PROVE  CallInv(c)' /\ OnlyCall(c)
<1>1. UNCHANGED <<msg, observed, tables, took, clientVars, reaping, touched, abandoned>>
  BY Zenon DEF PersistFails
<1>2. \/ UNCHANGED <<pc, reply, dbFault>>
      \/ ReplyRemote(c) /\ dbFault' = dbFault \cup {c}
  BY Zenon DEF PersistFails, PersistGivesUp
<1>3. CASE UNCHANGED <<pc, reply, dbFault>>
  <2>1. \A x \in Call : SameCall(x)
    BY <1>1, <1>3 DEF SameCall, tables
  <2> QED
    BY <2>1, CallFrame DEF OnlyCall
<1>4. CASE ReplyRemote(c) /\ dbFault' = dbFault \cup {c}
  BY <1>1, <1>4, ResultLost DEF tables, PersistFails
<1> QED
  BY <1>2, <1>3, <1>4

LEMMA ReplyInv ==
    ASSUME TypeOK, NEW c \in Call, CallInv(c), Reply(c)
    PROVE  CallInv(c)' /\ OnlyCall(c)
<1> USE DEF tables, history
<1>1. pc'[c] = "done" /\ pc[c] = "reply"
  BY DEF Reply, TypeOK
<1>2. NoRelation(c)' = NoRelation(c) /\ OneRelation(c)' = OneRelation(c)
  BY DEF Reply, NoRelation, OneRelation
<1>3. OnlyCall(c)
  BY DEF Reply, TypeOK, OnlyCall, SameCall
<1>4. UNCHANGED <<msg, observed, email, rel, reply, took, touched, dbFault, abandoned>>
  BY DEF Reply
<1>5. CallInv(c)'
  BY <1>1, <1>2, <1>4, SettledFrame DEF CallInv
<1> QED
  BY <1>3, <1>5

-----------------------------------------------------------------------------
\* The steps of owners, clients and the crash

\* An owner's step leaves a row that is as settled as it was, or none.
LEMMA OwnerFrame ==
    ASSUME TypeOK, NEW c \in Call, CallInv(c), email[c] # "none",
           UNCHANGED <<pc, msg, observed, took, reply, dbFault, abandoned>>,
           email'[c] \in {email[c], "none"}, touched' = touched \cup {c}
    PROVE  CallInv(c)'
<1>1. pc[c] \notin {"free", "audit"}
  BY DEF CallInv
<1> QED
  BY <1>1, SettledFrame DEF CallInv, Final

LEMMA UserStepInv ==
    ASSUME TypeOK, NEW c \in Call, CallInv(c), UserStep(c)
    PROVE  CallInv(c)' /\ OnlyCall(c)
<1> USE DEF callVars, tables, history
<1>1. CASE UserMoves(c)
  <2>1. CallInv(c)'
    BY <1>1, OwnerFrame DEF UserMoves, Owned
  <2> QED
    BY <1>1, <2>1 DEF UserMoves, TypeOK, OnlyCall, SameCall
<1>2. CASE UserCopies(c)
  <2>1. CallInv(c)'
    BY <1>2, OwnerFrame DEF UserCopies, Owned
  <2>2. PICK s \in Slot, box \in {"user", "sent", email[c]} :
              rel' = [rel EXCEPT ![c][s] = box]
    BY <1>2 DEF UserCopies
  <2> QED
    BY <1>2, <2>1, <2>2 DEF UserCopies, TypeOK, OnlyCall, SameCall
<1>3. CASE UserDeletes(c)
  <2>1. CallInv(c)'
    BY <1>3, OwnerFrame DEF UserDeletes, Owned, TypeOK
  <2> QED
    BY <1>3, <2>1 DEF UserDeletes, TypeOK, OnlyCall, SameCall
<1>4. CASE UserDropsRelation(c)
  <2>1. CallInv(c)'
    BY <1>4, OwnerFrame DEF UserDropsRelation, Owned
  <2>2. PICK s \in Slot : rel' = [rel EXCEPT ![c][s] = "none"]
    BY <1>4 DEF UserDropsRelation
  <2> QED
    BY <1>4, <2>1, <2>2 DEF UserDropsRelation, TypeOK, OnlyCall, SameCall
<1>5. CASE UserReapsEmail(c)
  <2>1. CASE NoRelation(c) /\ email[c] # "none"
    <3>1. c \in touched
      <4>1. CASE c \notin touched
        <5>1. OneRelation(c)
          BY <2>1, <4>1 DEF CallInv
        <5> QED
          BY <2>1, <5>1 DEF NoRelation, OneRelation
      <4> QED
        BY <4>1
    <3>2. touched' = touched \cup {c} /\ email'[c] = "none"
      BY <1>5, <2>1, <3>1 DEF UserReapsEmail, TypeOK
    <3>3. CallInv(c)'
      BY <1>5, <2>1, <3>2, OwnerFrame DEF UserReapsEmail
    <3> QED
      BY <1>5, <3>3 DEF UserReapsEmail, TypeOK, OnlyCall, SameCall
  <2>2. CASE ~NoRelation(c) \/ email[c] = "none"
    <3>1. email' = email
      BY <1>5, <2>2 DEF UserReapsEmail, TypeOK
    <3>2. \A x \in Call : SameCall(x)
      BY <1>5, <3>1 DEF UserReapsEmail, SameCall
    <3> QED
      BY <3>2, CallFrame DEF OnlyCall
  <2> QED
    BY <2>1, <2>2
<1> QED
  BY <1>1, <1>2, <1>3, <1>4, <1>5 DEF UserStep

\* A call starts from a clean slate.
LEMMA SubmitInv ==
    ASSUME TypeOK, NEW m \in Msg, NEW c \in Call, CallInv(c), Submit(m, c)
    PROVE  CallInv(c)' /\ OnlyCall(c)
<1> USE DEF tables, history
<1>1. pc[c] = "free" /\ pc'[c] = "audit" /\ msg'[c] = m /\ m # NoMsg
  BY CallAssumption DEF Submit, TypeOK
<1>2. NoRelation(c)' = NoRelation(c) /\ OneRelation(c)' = OneRelation(c)
  BY DEF Submit, NoRelation, OneRelation
<1>3. OnlyCall(c)
  BY DEF Submit, TypeOK, OnlyCall, SameCall
<1>4. UNCHANGED <<observed, email, rel, reply, took, touched, dbFault, abandoned>>
  BY DEF Submit
<1>5. CallInv(c)'
  BY <1>1, <1>2, <1>4, SettledFrame DEF CallInv
<1> QED
  BY <1>3, <1>5

LEMMA CrashInv ==
    ASSUME TypeOK, NEW c \in Call, CallInv(c), Crash
    PROVE  CallInv(c)'
<1> USE DEF tables, history
<1>1. UNCHANGED <<msg, observed, email, rel, reply, took, touched, dbFault, abandoned>>
  BY DEF Crash
<1>2. NoRelation(c)' = NoRelation(c) /\ OneRelation(c)' = OneRelation(c)
  BY <1>1 DEF NoRelation, OneRelation
<1>3. pc'[c] = IF pc[c] \in Running THEN "dead" ELSE pc[c]
  BY DEF Crash
<1> QED
  BY <1>1, <1>2, <1>3, SettledFrame DEF CallInv, Running

\* A client that starts waiting has no other call to wait for.
LEMMA SubmitClient ==
    ASSUME TypeOK, NEW m \in Msg, NEW c \in Call, ClientInv,
           \A x \in Call : CallInv(x), Submit(m, c)
    PROVE  ClientInv'
<1> USE DEF tables, history
<1>1. /\ client[m] = "idle" /\ pc[c] = "free" /\ c \notin abandoned
      /\ pc' = [pc EXCEPT ![c] = "audit"] /\ msg' = [msg EXCEPT ![c] = m]
      /\ client' = [client EXCEPT ![m] = "waiting"]
      /\ waiter' = [waiter EXCEPT ![m] = c] /\ UNCHANGED <<reply, abandoned>>
  BY DEF Submit, CallInv
<1>2. \A x \in Call \ {c} : /\ pc'[x] = pc[x] /\ msg'[x] = msg[x]
                            /\ Holds(x)' <=> Holds(x)
  BY <1>1 DEF TypeOK, Holds
<1>3. \A x \in Call \ {c} : Holds(x) => msg[x] # m /\ msg[x] \in Msg
  BY <1>1 DEF ClientInv, TypeOK, Holds, Running, CallInv
<1>4. pc'[c] = "audit" /\ msg'[c] = m /\ client'[m] = "waiting" /\ waiter'[m] = c
  BY <1>1 DEF TypeOK
<1>5. \A n \in Msg \ {m} : client'[n] = client[n] /\ waiter'[n] = waiter[n]
  BY <1>1 DEF TypeOK
<1>6. \A x \in Call : Holds(x)' =>
        /\ pc'[x] \in Running => client'[msg'[x]] = "waiting" /\ waiter'[msg'[x]] = x
        /\ pc'[x] = "done" =>
             client'[msg'[x]] = IF reply'[x] = "250" THEN "acked" ELSE "bounced"
  BY <1>1, <1>2, <1>3, <1>4, <1>5 DEF ClientInv, Running
<1>7. \A x, y \in Call : Holds(x)' /\ Holds(y)' /\ msg'[x] = msg'[y] => x = y
  BY <1>2, <1>3, <1>4 DEF ClientInv
<1>8. ASSUME NEW n \in Msg
      PROVE  /\ client'[n] = "waiting" =>
                   /\ waiter'[n] \in Call \ abandoned'
                   /\ pc'[waiter'[n]] \in Running
                   /\ msg'[waiter'[n]] = n
             /\ client'[n] # "waiting" => waiter'[n] = NoCall
             /\ client'[n] = "acked" => \E x \in Call : msg'[x] = n /\ reply'[x] = "250"
             /\ client'[n] = "bounced" => \E x \in Call : msg'[x] = n /\ reply'[x] = "550"
  <2>1. CASE n = m
    BY <1>1, <1>4, <2>1 DEF Running
  <2>2. CASE n # m
    <3>1. reply[c] = "none"
      BY <1>1 DEF CallInv
    <3>2. client'[n] = "waiting" => waiter[n] # c
      BY <1>1, <1>5, <2>2 DEF ClientInv, Running
    <3> QED
      BY <1>1, <1>2, <1>5, <2>2, <3>1, <3>2 DEF ClientInv
  <2> QED
    BY <2>1, <2>2
<1> QED
  BY <1>6, <1>7, <1>8 DEF ClientInv

\* A client that stops waiting marks the call it gave up on.
LEMMA TimeoutInv ==
    ASSUME TypeOK, NEW m \in Msg, ClientInv, \A x \in Call : CallInv(x), ClientTimeout(m)
    PROVE  ClientInv' /\ \A x \in Call : CallInv(x)'
<1> USE DEF callVars, tables
<1>1. PICK w \in Call : /\ waiter[m] = w /\ pc[w] \in Running /\ msg[w] = m
                        /\ w \notin abandoned
  BY DEF ClientTimeout, ClientInv
<1>2. abandoned' = abandoned \cup {w} /\ UNCHANGED <<pc, msg, reply>>
  BY <1>1 DEF ClientTimeout
<1>3. \A n \in Msg : /\ client'[n] = IF n = m THEN "idle" ELSE client[n]
                     /\ waiter'[n] = IF n = m THEN NoCall ELSE waiter[n]
  BY DEF ClientTimeout, TypeOK
<1>4. \A x \in Call : SameCall(x)
  BY <1>1, <1>2 DEF ClientTimeout, SameCall, Running
<1>5. \A x \in Call : Holds(x)' <=> Holds(x) /\ x # w
  BY <1>2 DEF Holds
<1>6. \A x \in Call : Holds(x)' => msg[x] # m
  BY <1>1, <1>5 DEF ClientInv, Holds
<1>7. \A x \in Call : Holds(x) => msg[x] \in Msg
  BY DEF TypeOK, CallInv, Holds, Running
<1>8. \A x \in Call : Holds(x)' =>
        /\ pc'[x] \in Running => client'[msg'[x]] = "waiting" /\ waiter'[msg'[x]] = x
        /\ pc'[x] = "done" =>
             client'[msg'[x]] = IF reply'[x] = "250" THEN "acked" ELSE "bounced"
  BY <1>2, <1>3, <1>5, <1>6, <1>7 DEF ClientInv
<1>9. \A x, y \in Call : Holds(x)' /\ Holds(y)' /\ msg'[x] = msg'[y] => x = y
  BY <1>2, <1>5 DEF ClientInv
<1>10. ASSUME NEW n \in Msg
       PROVE  /\ client'[n] = "waiting" =>
                   /\ waiter'[n] \in Call \ abandoned'
                   /\ pc'[waiter'[n]] \in Running
                   /\ msg'[waiter'[n]] = n
              /\ client'[n] # "waiting" => waiter'[n] = NoCall
              /\ client'[n] = "acked" => \E x \in Call : msg'[x] = n /\ reply'[x] = "250"
              /\ client'[n] = "bounced" => \E x \in Call : msg'[x] = n /\ reply'[x] = "550"
  BY <1>1, <1>2, <1>3 DEF ClientInv
<1> QED
  BY <1>4, <1>8, <1>9, <1>10, CallFrame DEF ClientInv

\* A reply ends the wait, for good if it is 250 or 550.
LEMMA ReplyClient ==
    ASSUME TypeOK, NEW c \in Call, ClientInv, \A x \in Call : CallInv(x), Reply(c)
    PROVE  ClientInv'
<1> USE DEF tables, history
<1>1. /\ pc[c] = "reply" /\ pc' = [pc EXCEPT ![c] = "done"]
      /\ UNCHANGED <<msg, reply, abandoned>>
  BY DEF Reply
<1>2. PICK m \in Msg : msg[c] = m
  BY <1>1 DEF CallInv, TypeOK
<1>3. reply[c] \in {"250", "451", "550", "local451"}
  BY <1>1 DEF CallInv, TypeOK, Answer
<1>4. \A x \in Call : pc'[x] = IF x = c THEN "done" ELSE pc[x]
  BY <1>1 DEF TypeOK
<1>5. \A x \in Call \ {c} : Holds(x)' <=> Holds(x)
  BY <1>1, <1>4 DEF Holds
<1>6. Holds(c)' => Holds(c)
  BY <1>1, <1>4 DEF Holds, Running
<1>7. \A x, y \in Call : Holds(x)' /\ Holds(y)' /\ msg'[x] = msg'[y] => x = y
  BY <1>1, <1>5, <1>6 DEF ClientInv
<1>8. CASE waiter[m] = c
  <2>1. client[m] = "waiting"
    BY <1>8, CallAssumption DEF ClientInv
  <2>2. Holds(c)
    BY <1>1, <1>8, <2>1 DEF ClientInv, Holds, Running
  <2>3. \A n \in Msg : /\ waiter'[n] = IF n = m THEN NoCall ELSE waiter[n]
                       /\ n # m => client'[n] = client[n]
    BY <1>2, <1>8 DEF Reply, TypeOK
  <2>4. /\ reply[c] = "250" => client'[m] = "acked"
        /\ reply[c] = "550" => client'[m] = "bounced"
        /\ reply[c] \in {"451", "local451"} => client'[m] = "idle"
    BY <1>2, <1>8 DEF Reply, TypeOK
  <2>5. \A x \in Call \ {c} : Holds(x) => msg[x] # m /\ msg[x] \in Msg
    BY <1>2, <2>2 DEF ClientInv, TypeOK, CallInv, Holds, Running
  <2>6. \A x \in Call : Holds(x)' =>
        /\ pc'[x] \in Running => client'[msg'[x]] = "waiting" /\ waiter'[msg'[x]] = x
        /\ pc'[x] = "done" =>
             client'[msg'[x]] = IF reply'[x] = "250" THEN "acked" ELSE "bounced"
    <3> SUFFICES ASSUME NEW x \in Call, Holds(x)'
                 PROVE  /\ pc'[x] \in Running =>
                             client'[msg'[x]] = "waiting" /\ waiter'[msg'[x]] = x
                        /\ pc'[x] = "done" => client'[msg'[x]] =
                             IF reply'[x] = "250" THEN "acked" ELSE "bounced"
      OBVIOUS
    <3>1. CASE x = c
      BY <1>1, <1>2, <1>4, <2>4, <3>1 DEF Holds, Running
    <3>2. CASE x # c
      BY <1>1, <1>4, <1>5, <2>3, <2>5, <3>2 DEF ClientInv
    <3> QED
      BY <3>1, <3>2
  <2>7. ASSUME NEW n \in Msg
        PROVE  /\ client'[n] = "waiting" =>
                   /\ waiter'[n] \in Call \ abandoned'
                   /\ pc'[waiter'[n]] \in Running
                   /\ msg'[waiter'[n]] = n
               /\ client'[n] # "waiting" => waiter'[n] = NoCall
               /\ client'[n] = "acked" => \E x \in Call : msg'[x] = n /\ reply'[x] = "250"
               /\ client'[n] = "bounced" => \E x \in Call : msg'[x] = n /\ reply'[x] = "550"
    <3>1. CASE n = m
      BY <1>1, <1>2, <1>3, <2>3, <2>4, <3>1
    <3>2. CASE n # m
      BY <1>1, <1>2, <1>4, <2>3, <3>2 DEF ClientInv
    <3> QED
      BY <3>1, <3>2
  <2> QED
    BY <1>7, <2>6, <2>7 DEF ClientInv
<1>9. CASE waiter[m] # c
  <2>1. UNCHANGED <<client, waiter>>
    BY <1>2, <1>9 DEF Reply, clientVars
  <2>2. ~Holds(c)
    BY <1>1, <1>2, <1>9 DEF ClientInv, Running
  <2>3. \A x \in Call : Holds(x)' =>
        /\ pc'[x] \in Running => client'[msg'[x]] = "waiting" /\ waiter'[msg'[x]] = x
        /\ pc'[x] = "done" =>
             client'[msg'[x]] = IF reply'[x] = "250" THEN "acked" ELSE "bounced"
    BY <1>1, <1>4, <1>5, <1>6, <2>1, <2>2 DEF ClientInv
  <2>4. ASSUME NEW n \in Msg
        PROVE  /\ client'[n] = "waiting" =>
                   /\ waiter'[n] \in Call \ abandoned'
                   /\ pc'[waiter'[n]] \in Running
                   /\ msg'[waiter'[n]] = n
               /\ client'[n] # "waiting" => waiter'[n] = NoCall
               /\ client'[n] = "acked" => \E x \in Call : msg'[x] = n /\ reply'[x] = "250"
               /\ client'[n] = "bounced" => \E x \in Call : msg'[x] = n /\ reply'[x] = "550"
    BY <1>1, <1>2, <1>4, <1>9, <2>1 DEF ClientInv
  <2> QED
    BY <1>7, <2>3, <2>4 DEF ClientInv
<1> QED
  BY <1>8, <1>9

\* A crash leaves no client waiting and no call running.
LEMMA CrashClient ==
    ASSUME TypeOK, ClientInv, \A x \in Call : CallInv(x), Crash
    PROVE  ClientInv'
<1> USE DEF tables, history
<1>1. /\ UNCHANGED <<msg, reply, abandoned>>
      /\ \A x \in Call : pc'[x] = IF pc[x] \in Running THEN "dead" ELSE pc[x]
      /\ \A n \in Msg : /\ client'[n] = IF client[n] = "waiting" THEN "idle" ELSE client[n]
                        /\ waiter'[n] = NoCall
  BY DEF Crash
<1>2. \A x \in Call : Holds(x)' => Holds(x) /\ pc[x] = "done" /\ pc'[x] = "done"
  BY <1>1 DEF Holds, Running
<1>3. \A x \in Call : pc[x] = "done" => msg[x] \in Msg
  BY DEF TypeOK, CallInv
<1>4. \A x \in Call : Holds(x)' =>
        /\ pc'[x] \in Running => client'[msg'[x]] = "waiting" /\ waiter'[msg'[x]] = x
        /\ pc'[x] = "done" =>
             client'[msg'[x]] = IF reply'[x] = "250" THEN "acked" ELSE "bounced"
  <2> SUFFICES ASSUME NEW x \in Call, Holds(x)'
               PROVE  client'[msg[x]] = IF reply[x] = "250" THEN "acked" ELSE "bounced"
    BY <1>1, <1>2 DEF Running
  <2>1. client[msg[x]] = IF reply[x] = "250" THEN "acked" ELSE "bounced"
    BY <1>2 DEF ClientInv
  <2> QED
    BY <1>1, <1>2, <1>3, <2>1
<1>5. \A x, y \in Call : Holds(x)' /\ Holds(y)' /\ msg'[x] = msg'[y] => x = y
  BY <1>1, <1>2 DEF ClientInv
<1>6. ASSUME NEW n \in Msg
      PROVE  /\ client'[n] # "waiting" /\ waiter'[n] = NoCall
             /\ client'[n] = "acked" => \E x \in Call : msg'[x] = n /\ reply'[x] = "250"
             /\ client'[n] = "bounced" => \E x \in Call : msg'[x] = n /\ reply'[x] = "550"
  BY <1>1 DEF ClientInv
<1> QED
  BY <1>4, <1>5, <1>6 DEF ClientInv

-----------------------------------------------------------------------------
\* The inductive invariant

\* A step of a call keeps the rows of every call.
LEMMA LocalStepInv ==
    ASSUME TypeOK, \A x \in Call : CallInv(x), NEW c \in Call, LocalStep(c)
    PROVE  \A x \in Call : CallInv(x)'
<1>1. CallInv(c)' /\ OnlyCall(c)
  BY AuditCommitsInv, AuditFailsInv, AuditCommitUnknownInv, SenderAndHooksReturnInv,
     PersistCommitsInv, PersistMismatchInv, PersistFailsInv, PersistCommitUnknownInv,
     ReplyInv DEF LocalStep
<1> QED
  BY <1>1, OnlyCallFrame

LEMMA RemoteStepInv ==
    ASSUME TypeOK, \A x \in Call : CallInv(x), NEW c \in Call, RemoteStep(c)
    PROVE  \A x \in Call : CallInv(x)'
<1>1. CallInv(c)' /\ OnlyCall(c)
  BY DomainResultInv, RelayResultInv DEF RemoteStep
<1> QED
  BY <1>1, OnlyCallFrame

\* Only Submit, ClientTimeout, Reply and Crash change what clients know.
LEMMA LocalStepClient ==
    ASSUME TypeOK, ClientInv, \A x \in Call : CallInv(x), NEW c \in Call, LocalStep(c)
    PROVE  ClientInv'
<1> USE DEF callVars, tables, clientVars, history
<1>1. CASE Reply(c)
  BY <1>1, ReplyClient
<1>2. CASE ~Reply(c)
  <2>1. UNCHANGED <<msg, client, waiter, abandoned>> /\ pc[c] \in {"audit", "deliver", "persist"}
    BY <1>2, Zenon DEF LocalStep, AuditCommits, AuditFails, AuditCommitUnknown,
       SenderAndHooksReturn, PersistCommits, PersistMismatch, PersistFails,
       PersistCommitUnknown, PersistGivesUp
  <2>2. reply[c] = "none"
    BY <2>1 DEF CallInv

  <2>3. /\ pc' = pc \/ \E p \in Running : pc' = [pc EXCEPT ![c] = p]
        /\ reply' = reply \/ \E r : reply' = [reply EXCEPT ![c] = r]
    <3>1. CASE AuditCommits(c) \/ AuditCommitUnknown(c) \/ SenderAndHooksReturn(c)
      BY <3>1 DEF AuditCommits, AuditCommitUnknown, SenderAndHooksReturn, RefuseLocally, Running
    <3>2. CASE AuditFails(c)
      <4>1. UNCHANGED <<pc, reply>> \/ RefuseLocally(c)
        BY <3>2, Zenon DEF AuditFails
      <4> QED
        BY <4>1 DEF RefuseLocally, Running
    <3>3. CASE PersistCommits(c) \/ PersistMismatch(c) \/ PersistCommitUnknown(c)
      BY <3>3 DEF PersistCommits, PersistMismatch, PersistCommitUnknown, PersistGivesUp,
         ReplyRemote, Running
    <3>4. CASE PersistFails(c)
      <4>1. UNCHANGED <<pc, reply>> \/ ReplyRemote(c)
        BY <3>4, Zenon DEF PersistFails, PersistGivesUp
      <4> QED
        BY <4>1 DEF ReplyRemote, Running
    <3> QED
      BY <1>2, <3>1, <3>2, <3>3, <3>4 DEF LocalStep
  <2>4. \A x \in Call \ {c} : pc'[x] = pc[x] /\ reply'[x] = reply[x]
    BY <2>3 DEF TypeOK
  <2>5. pc[c] \in Running /\ pc'[c] \in Running
    BY <2>1, <2>3 DEF TypeOK, Running
  <2> QED
    BY <2>1, <2>2, <2>4, <2>5, ClientFrame
<1> QED
  BY <1>1, <1>2

LEMMA RemoteStepClient ==
    ASSUME TypeOK, ClientInv, \A x \in Call : CallInv(x), NEW c \in Call, RemoteStep(c)
    PROVE  ClientInv'
<1>1. UNCHANGED <<pc, msg, reply, client, waiter, abandoned>>
  BY DEF RemoteStep, DomainResult, RelayResult, clientVars, history
<1> QED
  BY <1>1, ClientFrame

LEMMA UserStepClient ==
    ASSUME TypeOK, ClientInv, \A x \in Call : CallInv(x), NEW c \in Call, UserStep(c)
    PROVE  ClientInv'
<1>1. UNCHANGED <<pc, msg, reply, client, waiter, abandoned>>
  BY DEF UserStep, UserMoves, UserCopies, UserDeletes, UserDropsRelation, UserReapsEmail,
     callVars, clientVars, history
<1> QED
  BY <1>1, ClientFrame

LEMMA StutterInv ==
    ASSUME IInv, UNCHANGED vars
    PROVE  IInv'
<1>1. TypeOK'
  BY DEF IInv, vars, callVars, tables, clientVars, history, TypeOK
<1>2. \A x \in Call : SameCall(x)
  BY DEF vars, callVars, tables, history, SameCall
<1>3. ClientInv'
  BY ClientFrame DEF IInv, vars, callVars, clientVars, history
<1> QED
  BY <1>1, <1>2, <1>3, CallFrame DEF IInv

LEMMA InitInv == Init => IInv
<1> SUFFICES ASSUME Init PROVE IInv
  OBVIOUS
<1>1. TypeOK
  BY CallAssumption DEF Init, TypeOK, Phase, Running, Outcome, EmailRow, RelRow, Answer
<1>2. ClientInv
  BY DEF Init, ClientInv, Holds, Running
<1>3. \A c \in Call : CallInv(c)
  BY DEF Init, CallInv, Unsent, NoRelation, Final
<1> QED
  BY <1>1, <1>2, <1>3 DEF IInv

LEMMA StepInv == IInv /\ [Next]_vars => IInv'
<1> SUFFICES ASSUME IInv, [Next]_vars PROVE IInv'
  OBVIOUS
<1> USE DEF IInv
<1>1. ASSUME NEW c \in Call, LocalStep(c)
      PROVE  IInv'
  BY <1>1, LocalType, LocalStepInv, LocalStepClient
<1>2. ASSUME NEW c \in Call, RemoteStep(c)
      PROVE  IInv'
  BY <1>2, RemoteType, RemoteStepInv, RemoteStepClient
<1>3. ASSUME NEW c \in Call, UserStep(c)
      PROVE  IInv'
  <2>1. \A x \in Call : CallInv(x)'
    BY <1>3, UserStepInv, OnlyCallFrame
  <2> QED
    BY <1>3, <2>1, UserType, UserStepClient
<1>4. ASSUME NEW m \in Msg, ClientStep(m)
      PROVE  IInv'
  <2>1. TypeOK'
    BY <1>4, ClientType
  <2>2. CASE ClientTimeout(m)
    BY <2>1, <2>2, TimeoutInv
  <2>3. ASSUME NEW c \in Call, Submit(m, c)
        PROVE  IInv'
    <3>1. \A x \in Call : CallInv(x)'
      BY <2>3, SubmitInv, OnlyCallFrame
    <3> QED
      BY <2>1, <2>3, <3>1, SubmitClient
  <2> QED
    BY <1>4, <2>2, <2>3 DEF ClientStep
<1>5. CASE Crash
  BY <1>5, CrashType, CrashInv, CrashClient
<1>6. CASE UNCHANGED vars
  BY <1>6, StutterInv
<1> QED
  BY <1>1, <1>2, <1>3, <1>4, <1>5, <1>6 DEF Next

\* Rows, replies and clients hang together in every reachable state.
THEOREM Invariance == Spec => []IInv
BY InitInv, StepInv, PTL DEF Spec

-----------------------------------------------------------------------------
\* The safety properties

\* Nothing leaves the host before its audit is in the database.
THEOREM Audited == Spec => []DeliveredIsAudited
<1>1. IInv => DeliveredIsAudited
  <2> SUFFICES ASSUME IInv, NEW c \in Call \ touched, ~Unsent(c)
               PROVE  email[c] # "none" /\ OneRelation(c)
    BY DEF DeliveredIsAudited, Unsent
  <2>1. CallInv(c)
    BY DEF IInv
  <2> QED
    BY <2>1 DEF CallInv
<1> QED
  BY <1>1, Invariance, PTL

\* Table email and table user_email agree on a mail its owner left alone.
THEOREM Agreement == Spec => []TablesAgree
<1>1. IInv => TablesAgree
  <2> SUFFICES ASSUME IInv, NEW c \in Call \ touched
               PROVE  /\ email[c] = "none" => NoRelation(c)
                      /\ email[c] # "none" =>
                           OneRelation(c) /\ \A s \in Slot : rel[c][s] \in {"none", email[c]}
    BY DEF TablesAgree
  <2>1. CallInv(c)
    BY DEF IInv
  <2> QED
    BY <2>1 DEF CallInv
<1> QED
  BY <1>1, Invariance, PTL

\* "Sent" and "failed" are never wishful.
THEOREM StatusTruth == Spec => []StoredStatusIsTrue
<1>1. IInv => StoredStatusIsTrue
  <2> SUFFICES ASSUME IInv, NEW c \in Call
               PROVE  /\ email[c] = "sent" => took[c] = Domain
                      /\ email[c] = "fail" => Failed(c)
    BY DEF StoredStatusIsTrue
  <2>1. CallInv(c) /\ took[c] \subseteq Domain
    BY DEF IInv, TypeOK
  <2> QED
    BY <2>1 DEF CallInv, Failed
<1> QED
  BY <1>1, Invariance, PTL

\* A client told 250 or 550 is right to stop.
THEOREM StopIsSafe == Spec => []ClientMayStop
<1>1. IInv => ClientMayStop
  <2> SUFFICES ASSUME IInv PROVE ClientMayStop
    OBVIOUS
  <2>1. ASSUME NEW c \in Call, reply[c] = "250"
        PROVE  took[c] = Domain
    <3>1. CallInv(c) /\ took[c] \subseteq Domain
      BY DEF IInv, TypeOK
    <3>2. ~Failed(c)
      BY <2>1, <3>1 DEF CallInv, DownstreamReply
    <3> QED
      BY <3>1, <3>2 DEF CallInv, Failed
  <2>2. ASSUME NEW c \in Call, reply[c] = "550"
        PROVE  /\ \E d \in Domain : observed[c][d] = "perm"
               /\ \A d \in Domain : observed[c][d] \in {"accepted", "perm"}
    <3>1. CallInv(c)
      BY DEF IInv
    <3>2. Failed(c) /\ \A d \in Domain : observed[c][d] \in {"accepted", "perm"}
      BY <2>2, <3>1 DEF CallInv, DownstreamReply
    <3> QED
      BY <3>2 DEF Failed
  <2>3. ASSUME NEW m \in Msg, client[m] = "acked"
        PROVE  \E c \in Call : msg[c] = m /\ took[c] = Domain
    <3>1. PICK c \in Call : msg[c] = m /\ reply[c] = "250"
      BY <2>3 DEF IInv, ClientInv
    <3> QED
      BY <2>1, <3>1
  <2>4. ASSUME NEW m \in Msg, client[m] = "bounced"
        PROVE  \E c \in Call :
                  /\ msg[c] = m
                  /\ \E d \in Domain : observed[c][d] = "perm"
                  /\ \A d \in Domain : observed[c][d] \in {"accepted", "perm"}
    <3>1. PICK c \in Call : msg[c] = m /\ reply[c] = "550"
      BY <2>4 DEF IInv, ClientInv
    <3> QED
      BY <2>2, <3>1
  <2> QED
    BY <2>3, <2>4 DEF ClientMayStop
<1> QED
  BY <1>1, Invariance, PTL

\* A duplicate has a crash, an impatient client or a refusing domain behind it,
\* never the database.
THEOREM DuplicatesExplained == Spec => []DuplicateIsExplained
<1>1. IInv => DuplicateIsExplained
  <2> SUFFICES ASSUME IInv, NEW c1 \in Call, NEW c2 \in Call,
                      c1 # c2, msg[c1] = msg[c2], took[c1] \cap took[c2] # {},
                      \A c \in {c1, c2} : ~(pc[c] = "dead" \/ c \in abandoned \/ Failed(c))
               PROVE  FALSE
    BY DEF DuplicateIsExplained
  <2>1. ASSUME NEW c \in {c1, c2}
        PROVE  Holds(c)
    <3>1. CallInv(c) /\ pc[c] \in Phase /\ reply[c] \in Answer /\ c \notin abandoned
      BY DEF IInv, TypeOK
    <3>2. ~Unsent(c)
      BY DEF Unsent
    <3>3. pc[c] # "free" /\ pc[c] # "dead" /\ ~Failed(c) /\ reply[c] # "local451"
      BY <3>1, <3>2 DEF CallInv
    <3>4. reply[c] \in {"250", "451", "550"} => reply[c] = "250"
      BY <3>1, <3>3 DEF CallInv, DownstreamReply
    <3>5. pc[c] = "done" => reply[c] = "250"
      BY <3>1, <3>3, <3>4 DEF CallInv, Answer
    <3> QED
      BY <3>1, <3>3, <3>5 DEF Holds, Phase
  <2> QED
    BY <2>1 DEF IInv, ClientInv
<1> QED
  BY <1>1, Invariance, PTL

\* A mail still pending after its reply has a failed transaction, its owner or
\* a client told to retry behind it.
THEOREM PendingExplained == Spec => []PendingIsExplained
<1>1. IInv => PendingIsExplained
  <2> SUFFICES ASSUME IInv, NEW c \in Call \ (touched \cup dbFault),
                      pc[c] = "done", reply[c] # "local451"
               PROVE  email[c] = IF reply[c] = "250" THEN "sent" ELSE "fail"
    BY DEF PendingIsExplained
  <2>1. CallInv(c) /\ reply[c] \in Answer
    BY DEF IInv, TypeOK
  <2>2. email[c] = TargetStatus(c) /\ reply[c] = DownstreamReply(c)
    BY <2>1 DEF CallInv, Answer
  <2> QED
    BY <2>2 DEF TargetStatus, DownstreamReply
<1> QED
  BY <1>1, Invariance, PTL

\* A status that is settled stays, or goes with its mail.
THEOREM SettledForGood == Spec => SettledOnce
<1>1. IInv /\ [Next]_vars =>
        [\A c \in Call : email[c] \in Final => email'[c] \in {email[c], "none"}]_vars
  <2> SUFFICES ASSUME IInv, Next, NEW x \in Call, email[x] \in Final
               PROVE  email'[x] \in {email[x], "none"}
    OBVIOUS
  <2>1. TypeOK /\ pc[x] \in {"reply", "done", "dead"} /\ \A c \in Call : CallInv(c)
    BY DEF IInv, CallInv
  <2>2. ASSUME NEW c \in Call, LocalStep(c)
        PROVE  email'[x] = email[x]
    <3>1. CASE AuditCommits(c) \/ AuditCommitUnknown(c)
      BY <2>1, <3>1 DEF AuditCommits, AuditCommitUnknown, InsertAudit, TypeOK
    <3>2. CASE PersistCommits(c) \/ PersistCommitUnknown(c)
      BY <2>1, <3>2 DEF PersistCommits, PersistCommitUnknown, UpdateResult, TypeOK
    <3>3. CASE AuditFails(c) \/ PersistFails(c) \/ PersistMismatch(c)
      BY <3>3, Zenon DEF AuditFails, PersistFails, PersistMismatch, tables
    <3>4. CASE SenderAndHooksReturn(c) \/ Reply(c)
      BY <3>4 DEF SenderAndHooksReturn, Reply, tables
    <3> QED
      BY <2>2, <3>1, <3>2, <3>3, <3>4 DEF LocalStep
  <2>3. ASSUME NEW c \in Call, RemoteStep(c)
        PROVE  email'[x] = email[x]
    BY <2>3 DEF RemoteStep, DomainResult, RelayResult, tables
  <2>4. ASSUME NEW c \in Call, UserStep(c)
        PROVE  email'[x] \in {email[x], "none"}
    BY <2>1, <2>4 DEF UserStep, UserMoves, UserCopies, UserDeletes, UserDropsRelation,
       UserReapsEmail, TypeOK
  <2>5. ASSUME NEW m \in Msg, ClientStep(m)
        PROVE  email'[x] = email[x]
    BY <2>5 DEF ClientStep, ClientTimeout, Submit, tables
  <2>6. CASE Crash
    BY <2>6 DEF Crash, tables
  <2> QED
    BY <2>2, <2>3, <2>4, <2>5, <2>6 DEF Next
<1> QED
  BY <1>1, Invariance, PTL DEF Spec, SettledOnce

-----------------------------------------------------------------------------
\* The refinement: each step of deliverOutgoingEmail is a step of AuditLedger or
\* leaves the ledger alone

\* Step: what the ledger shows of x stays.
SameEntry(x) ==
    /\ EntryOf(x)' = EntryOf(x) /\ took'[x] = took[x]
    /\ RefusedOf(x)' = RefusedOf(x) /\ AnswerOf(x)' = AnswerOf(x)

LEMMA SameLedger ==
    ASSUME TypeOK, TypeOK', \A x \in Call : SameEntry(x)
    PROVE  UNCHANGED Ledger!vars
<1>1. took' = took
  BY DEF SameEntry, TypeOK
<1> QED
  BY <1>1 DEF SameEntry, Ledger!vars

\* A step of one call changes no other entry.
LEMMA OtherEntries ==
    ASSUME NEW c \in Call, OnlyCall(c)
    PROVE  \A x \in Call \ {c} : SameEntry(x)
BY DEF OnlyCall, SameCall, SameEntry, EntryOf, RefusedOf, AnswerOf

\* The shape of a step of the ledger that concerns one call.
LEMMA OneEntry ==
    ASSUME TypeOK, TypeOK', NEW c \in Call, OnlyCall(c)
    PROVE  /\ [x \in Call |-> EntryOf(x)]' =
                [[x \in Call |-> EntryOf(x)] EXCEPT ![c] = EntryOf(c)']
           /\ took' = [took EXCEPT ![c] = took'[c]]
           /\ [x \in Call |-> RefusedOf(x)]' =
                [[x \in Call |-> RefusedOf(x)] EXCEPT ![c] = RefusedOf(c)']
           /\ [x \in Call |-> AnswerOf(x)]' =
                [[x \in Call |-> AnswerOf(x)] EXCEPT ![c] = AnswerOf(c)']
           /\ took'[c] = took[c] => took' = took
<1>1. \A x \in Call \ {c} : SameEntry(x)
  BY OtherEntries
<1>2. took' = [took EXCEPT ![c] = took'[c]]
  BY <1>1 DEF SameEntry, TypeOK
<1>3. took'[c] = took[c] => took' = took
  BY <1>1 DEF SameEntry, TypeOK
<1> QED
  BY <1>1, <1>2, <1>3 DEF SameEntry

-----------------------------------------------------------------------------
\* The steps of the ledger, in terms of one call

LEMMA RecordStep ==
    ASSUME TypeOK, TypeOK', NEW c \in Call, OnlyCall(c),
           EntryOf(c) = "absent", AnswerOf(c) = "none",
           EntryOf(c)' = "pending", AnswerOf(c)' \in {"none", "unrecorded"},
           took'[c] = took[c], RefusedOf(c)' = RefusedOf(c)
    PROVE  Ledger!Record(c)
<1>1. [x \in Call |-> RefusedOf(x)]' = [x \in Call |-> RefusedOf(x)]
  BY OneEntry
<1>2. took' = took
  BY OneEntry
<1>3. [x \in Call |-> AnswerOf(x)]' \in
        {[x \in Call |-> AnswerOf(x)],
         [[x \in Call |-> AnswerOf(x)] EXCEPT ![c] = "unrecorded"]}
  BY OneEntry
<1> QED
  BY <1>1, <1>2, <1>3, OneEntry DEF Ledger!Record

LEMMA RefuseStep ==
    ASSUME TypeOK, TypeOK', NEW c \in Call, OnlyCall(c),
           EntryOf(c) = "absent", AnswerOf(c) = "none",
           EntryOf(c)' = "absent", AnswerOf(c)' = "unrecorded",
           took'[c] = took[c], RefusedOf(c)' = RefusedOf(c)
    PROVE  Ledger!Refuse(c)
<1>1. /\ [x \in Call |-> RefusedOf(x)]' = [x \in Call |-> RefusedOf(x)]
      /\ [x \in Call |-> EntryOf(x)]' = [x \in Call |-> EntryOf(x)]
  BY OneEntry
<1>2. took' = took
  BY OneEntry
<1> QED
  BY <1>1, <1>2, OneEntry DEF Ledger!Refuse

LEMMA EmitStep ==
    ASSUME TypeOK, TypeOK', NEW c \in Call, OnlyCall(c),
           EntryOf(c) # "absent", AnswerOf(c) = "none",
           EntryOf(c)' = EntryOf(c), AnswerOf(c)' = "none",
           NEW taken \in SUBSET Domain, NEW turned \in SUBSET Domain,
           took'[c] = took[c] \cup taken, RefusedOf(c)' = RefusedOf(c) \cup turned
    PROVE  Ledger!Emit(c, taken, turned)
<1>1. /\ [x \in Call |-> AnswerOf(x)]' = [x \in Call |-> AnswerOf(x)]
      /\ [x \in Call |-> EntryOf(x)]' = [x \in Call |-> EntryOf(x)]
  BY OneEntry
<1> QED
  BY <1>1, OneEntry DEF Ledger!Emit

LEMMA ConcludeStep ==
    ASSUME TypeOK, TypeOK', NEW c \in Call, OnlyCall(c),
           EntryOf(c) # "absent", AnswerOf(c) = "none",
           \/ RefusedOf(c) = {} /\ took[c] = Domain /\ AnswerOf(c)' = "ok"
              /\ EntryOf(c)' \in {EntryOf(c), "sent"}
           \/ RefusedOf(c) # {} /\ AnswerOf(c)' = "failed"
              /\ EntryOf(c)' \in {EntryOf(c), "fail"},
           EntryOf(c) = "pending" \/ EntryOf(c)' = EntryOf(c),
           took'[c] = took[c], RefusedOf(c)' = RefusedOf(c)
    PROVE  Ledger!Conclude(c)
<1>1. [x \in Call |-> RefusedOf(x)]' = [x \in Call |-> RefusedOf(x)]
  BY OneEntry
<1>2. took' = took
  BY OneEntry
<1>3. EntryOf(c)' = EntryOf(c) =>
        [x \in Call |-> EntryOf(x)]' = [x \in Call |-> EntryOf(x)]
  BY OneEntry
<1>4. CASE RefusedOf(c) = {}
  BY <1>1, <1>2, <1>3, <1>4, OneEntry DEF Ledger!Conclude
<1>5. CASE RefusedOf(c) # {}
  BY <1>1, <1>2, <1>3, <1>5, OneEntry DEF Ledger!Conclude
<1> QED
  BY <1>4, <1>5

LEMMA EraseStep ==
    ASSUME TypeOK, TypeOK', NEW c \in Call, OnlyCall(c),
           EntryOf(c) # "absent", EntryOf(c)' = "erased",
           AnswerOf(c)' = AnswerOf(c), took'[c] = took[c], RefusedOf(c)' = RefusedOf(c)
    PROVE  Ledger!Erase(c)
<1>1. /\ [x \in Call |-> RefusedOf(x)]' = [x \in Call |-> RefusedOf(x)]
      /\ [x \in Call |-> AnswerOf(x)]' = [x \in Call |-> AnswerOf(x)]
  BY OneEntry
<1>2. took' = took
  BY OneEntry
<1> QED
  BY <1>1, <1>2, OneEntry DEF Ledger!Erase

\* A step that leaves the entry of its own call alone is a stutter.
LEMMA StutterStep ==
    ASSUME TypeOK, TypeOK', NEW c \in Call, OnlyCall(c), SameEntry(c)
    PROVE  UNCHANGED Ledger!vars
BY OtherEntries, SameLedger

-----------------------------------------------------------------------------
\* The steps of deliverOutgoingEmail

LEMMA AuditSteps ==
    ASSUME TypeOK, TypeOK', NEW c \in Call, CallInv(c), OnlyCall(c),
           AuditCommits(c) \/ AuditFails(c) \/ AuditCommitUnknown(c)
    PROVE  Ledger!Record(c) \/ Ledger!Refuse(c) \/ UNCHANGED Ledger!vars
<1> USE DEF callVars, tables, clientVars, history
<1>1. pc[c] = "audit"
  BY DEF AuditCommits, AuditFails, AuditCommitUnknown
<1>2. /\ EntryOf(c) = "absent" /\ AnswerOf(c) = "none" /\ NoRelation(c)
      /\ email[c] = "none" /\ reply[c] = "none" /\ c \notin touched
  BY <1>1 DEF CallInv, EntryOf, AnswerOf
<1>3. UNCHANGED <<observed, took, touched>>
  BY DEF AuditCommits, AuditFails, AuditCommitUnknown
<1>4. RefusedOf(c)' = RefusedOf(c)
  BY <1>3 DEF RefusedOf
<1>5. CASE AuditCommits(c) \/ AuditCommitUnknown(c)
  <2>1. email'[c] = "pending"
    BY <1>2, <1>5, AuditInserted DEF AuditCommits, AuditCommitUnknown
  <2>2. reply'[c] \in {"none", "local451"}
    BY <1>2, <1>5 DEF AuditCommits, AuditCommitUnknown, RefuseLocally, TypeOK
  <2>3. EntryOf(c)' = "pending" /\ AnswerOf(c)' \in {"none", "unrecorded"}
    BY <2>1, <2>2 DEF EntryOf, AnswerOf
  <2> QED
    BY <1>2, <1>3, <1>4, <2>3, RecordStep
<1>6. CASE AuditFails(c)
  <2>1. /\ UNCHANGED email
        /\ \/ UNCHANGED reply
           \/ reply' = [reply EXCEPT ![c] = "local451"]
    BY <1>6, Zenon DEF AuditFails, RefuseLocally
  <2>2. EntryOf(c)' = "absent"
    BY <1>2, <1>3, <2>1 DEF EntryOf
  <2>3. CASE UNCHANGED reply
    BY <1>2, <1>3, <1>4, <2>2, <2>3, StutterStep DEF SameEntry, AnswerOf
  <2>4. CASE reply' = [reply EXCEPT ![c] = "local451"]
    <3>1. AnswerOf(c)' = "unrecorded"
      BY <2>4 DEF AnswerOf, TypeOK
    <3> QED
      BY <1>2, <1>3, <1>4, <2>2, <3>1, RefuseStep
  <2> QED
    BY <2>1, <2>3, <2>4
<1> QED
  BY <1>5, <1>6

\* Mail in delivery has an entry and no answer.
LEMMA HasEntry ==
    ASSUME NEW c \in Call, CallInv(c), pc[c] \in {"deliver", "persist"}
    PROVE  EntryOf(c) \in {"pending", "erased"} /\ AnswerOf(c) = "none"
BY DEF CallInv, EntryOf, AnswerOf

LEMMA DomainStep ==
    ASSUME TypeOK, TypeOK', NEW c \in Call, CallInv(c), OnlyCall(c),
           NEW d \in Domain, DomainResult(c, d)
    PROVE  \E taken, turned \in SUBSET Domain : Ledger!Emit(c, taken, turned)
<1> USE DEF callVars, tables, clientVars, history
<1>1. pc[c] = "deliver" /\ observed[c][d] = "none" /\ UNCHANGED <<email, reply, touched>>
  BY DEF DomainResult
<1>2. PICK o \in Outcome :
        /\ observed' = [observed EXCEPT ![c][d] = o]
        /\ \/ took' = [took EXCEPT ![c] = @ \cup {d}]
           \/ o # "accepted" /\ UNCHANGED took
  BY DEF DomainResult
<1>3. PICK taken \in SUBSET Domain : took'[c] = took[c] \cup taken
  <2>1. CASE took' = [took EXCEPT ![c] = @ \cup {d}]
    BY <2>1 DEF TypeOK
  <2>2. CASE UNCHANGED took
    BY <2>2 DEF TypeOK
  <2> QED
    BY <1>2, <2>1, <2>2
<1>4. \A e \in Domain : observed'[c][e] = IF e = d THEN o ELSE observed[c][e]
  BY <1>2 DEF TypeOK
<1>5. RefusedOf(c)' = RefusedOf(c) \cup (IF o = "accepted" THEN {} ELSE {d})
  BY <1>1, <1>4 DEF RefusedOf, Outcome
<1>6. EntryOf(c)' = EntryOf(c) /\ AnswerOf(c)' = AnswerOf(c)
  BY <1>1 DEF EntryOf, AnswerOf
<1>7. (IF o = "accepted" THEN {} ELSE {d}) \in SUBSET Domain
  OBVIOUS
<1> QED
  BY <1>1, <1>3, <1>5, <1>6, <1>7, HasEntry, EmitStep

LEMMA RelayStep ==
    ASSUME TypeOK, TypeOK', NEW c \in Call, CallInv(c), OnlyCall(c), RelayResult(c)
    PROVE  \E taken, turned \in SUBSET Domain : Ledger!Emit(c, taken, turned)
<1> USE DEF callVars, tables, clientVars, history
<1>1. /\ pc[c] = "deliver" /\ UNCHANGED <<email, reply, touched>>
      /\ \A d \in Domain : observed[c][d] = "none"
  BY DEF RelayResult
<1>2. PICK o \in Outcome :
        /\ observed' = [observed EXCEPT ![c] = [d \in Domain |-> o]]
        /\ \/ took' = [took EXCEPT ![c] = Domain]
           \/ o # "accepted" /\ UNCHANGED took
  BY DEF RelayResult
<1>3. PICK taken \in SUBSET Domain : took'[c] = took[c] \cup taken
  <2>1. CASE took' = [took EXCEPT ![c] = Domain]
    <3>1. took'[c] = Domain /\ took[c] \subseteq Domain
      BY <2>1 DEF TypeOK
    <3>2. took'[c] = took[c] \cup Domain
      BY <3>1
    <3> QED
      BY <3>2
  <2>2. CASE UNCHANGED took
    BY <2>2 DEF TypeOK
  <2> QED
    BY <1>2, <2>1, <2>2
<1>4. \A e \in Domain : observed'[c][e] = o
  BY <1>2 DEF TypeOK
<1>5. RefusedOf(c)' = RefusedOf(c) \cup (IF o = "accepted" THEN {} ELSE Domain)
  BY <1>1, <1>4 DEF RefusedOf, Outcome
<1>6. EntryOf(c)' = EntryOf(c) /\ AnswerOf(c)' = AnswerOf(c)
  BY <1>1 DEF EntryOf, AnswerOf
<1>7. (IF o = "accepted" THEN {} ELSE Domain) \in SUBSET Domain
  OBVIOUS
<1> QED
  BY <1>1, <1>3, <1>5, <1>6, <1>7, HasEntry, EmitStep

\* The answer, with the result stored or not.
LEMMA AnswerStep ==
    ASSUME TypeOK, TypeOK', NEW c \in Call, CallInv(c), OnlyCall(c),
           pc[c] = "persist", ReplyRemote(c), UNCHANGED <<observed, took, touched>>,
           \/ email'[c] = email[c]
           \/ email[c] # "none" /\ email'[c] = TargetStatus(c)
    PROVE  Ledger!Conclude(c)
<1>1. RefusedOf(c)' = RefusedOf(c)
  BY DEF RefusedOf
<1>2. Failed(c) <=> RefusedOf(c) # {}
  BY DEF CallInv, Heard, Failed, RefusedOf, TypeOK, Outcome
<1>3. ~Failed(c) => took[c] = Domain
  BY DEF CallInv, Failed, TypeOK
<1>4. reply'[c] = DownstreamReply(c)
  BY DEF ReplyRemote, TypeOK
<1>5. AnswerOf(c)' = IF Failed(c) THEN "failed" ELSE "ok"
  BY <1>4 DEF AnswerOf, DownstreamReply
<1>6. EntryOf(c)' \in {EntryOf(c), IF Failed(c) THEN "fail" ELSE "sent"}
  BY DEF EntryOf, TargetStatus
<1>7. EntryOf(c) = "pending" \/ EntryOf(c)' = EntryOf(c)
  BY DEF CallInv, EntryOf
<1> QED
  BY <1>1, <1>2, <1>3, <1>5, <1>6, <1>7, HasEntry, ConcludeStep

LEMMA LocalRefines ==
    ASSUME TypeOK, TypeOK', NEW c \in Call, CallInv(c), LocalStep(c)
    PROVE  Ledger!Next \/ UNCHANGED Ledger!vars
<1> USE DEF callVars, tables, clientVars, history
<1>1. CASE AuditCommits(c) \/ AuditFails(c) \/ AuditCommitUnknown(c)
  BY <1>1, AuditSteps, AuditCommitsInv, AuditFailsInv, AuditCommitUnknownInv DEF Ledger!Next
<1>2. CASE SenderAndHooksReturn(c)
  <2>1. SameEntry(c)
    BY <1>2 DEF SenderAndHooksReturn, SameEntry, EntryOf, RefusedOf, AnswerOf
  <2> QED
    BY <1>2, <2>1, SenderAndHooksReturnInv, StutterStep
<1>3. CASE PersistCommits(c) \/ PersistCommitUnknown(c)
  <2>1. /\ pc[c] = "persist" /\ email[c] # "none" /\ ReplyRemote(c) /\ UpdateResult(c)
        /\ UNCHANGED <<observed, took, touched>>
    BY <1>3 DEF PersistCommits, PersistCommitUnknown, PersistGivesUp, ResultMatches
  <2>2. email'[c] = TargetStatus(c)
    BY <2>1 DEF UpdateResult, TypeOK
  <2>3. OnlyCall(c)
    BY <1>3, PersistCommitsInv, PersistCommitUnknownInv
  <2> QED
    BY <2>1, <2>2, <2>3, AnswerStep DEF Ledger!Next
<1>4. CASE PersistMismatch(c)
  <2>1. /\ pc[c] = "persist" /\ ReplyRemote(c) /\ UNCHANGED <<email, observed, took, touched>>
    BY <1>4 DEF PersistMismatch, PersistGivesUp
  <2> QED
    BY <1>4, <2>1, PersistMismatchInv, AnswerStep DEF Ledger!Next
<1>5. CASE PersistFails(c)
  <2>1. /\ UNCHANGED <<email, observed, took, touched>> /\ pc[c] = "persist"
        /\ UNCHANGED reply \/ ReplyRemote(c)
    BY <1>5, Zenon DEF PersistFails, PersistGivesUp
  <2>2. CASE UNCHANGED reply
    <3>1. SameEntry(c)
      BY <2>1, <2>2 DEF SameEntry, EntryOf, RefusedOf, AnswerOf
    <3> QED
      BY <1>5, <3>1, PersistFailsInv, StutterStep
  <2>3. CASE ReplyRemote(c)
    BY <1>5, <2>1, <2>3, PersistFailsInv, AnswerStep DEF Ledger!Next
  <2> QED
    BY <2>1, <2>2, <2>3
<1>6. CASE Reply(c)
  <2>1. SameEntry(c)
    BY <1>6 DEF Reply, SameEntry, EntryOf, RefusedOf, AnswerOf
  <2> QED
    BY <1>6, <2>1, ReplyInv, StutterStep
<1> QED
  BY <1>1, <1>2, <1>3, <1>4, <1>5, <1>6 DEF LocalStep

LEMMA RemoteRefines ==
    ASSUME TypeOK, TypeOK', NEW c \in Call, CallInv(c), RemoteStep(c)
    PROVE  Ledger!Next
<1>1. CASE RelayResult(c)
  BY <1>1, RelayStep, RelayResultInv DEF Ledger!Next
<1>2. ASSUME NEW d \in Domain, DomainResult(c, d)
      PROVE  Ledger!Next
  BY <1>2, DomainStep, DomainResultInv DEF Ledger!Next
<1> QED
  BY <1>1, <1>2 DEF RemoteStep

\* An owner erases an entry or leaves it as it is.
LEMMA UserRefines ==
    ASSUME TypeOK, TypeOK', NEW c \in Call, CallInv(c), UserStep(c)
    PROVE  Ledger!Next \/ UNCHANGED Ledger!vars
<1>1. UNCHANGED <<observed, reply, took>>
  BY DEF UserStep, UserMoves, UserCopies, UserDeletes, UserDropsRelation, UserReapsEmail, callVars
<1>2. took'[c] = took[c] /\ RefusedOf(c)' = RefusedOf(c) /\ AnswerOf(c)' = AnswerOf(c)
  BY <1>1 DEF RefusedOf, AnswerOf
<1>3. \/ email'[c] = email[c] /\ (c \in touched' <=> c \in touched)
      \/ email'[c] = email[c] /\ email[c] # "none"
      \/ email[c] # "none" /\ email'[c] = "none" /\ c \in touched'
  <2>1. CASE UserMoves(c) \/ UserCopies(c) \/ UserDropsRelation(c)
    BY <2>1 DEF UserMoves, UserCopies, UserDropsRelation, Owned
  <2>2. CASE UserDeletes(c)
    BY <2>2 DEF UserDeletes, Owned, TypeOK
  <2>3. CASE UserReapsEmail(c)
    <3>1. UNCHANGED touched
      BY <2>3 DEF UserReapsEmail, history
    <3>2. CASE NoRelation(c) /\ email[c] # "none"
      <4>1. ~OneRelation(c)
        BY <3>2 DEF NoRelation, OneRelation
      <4>2. c \in touched
        BY <3>2, <4>1 DEF CallInv
      <4> QED
        BY <2>3, <3>1, <3>2, <4>2 DEF UserReapsEmail, TypeOK
    <3>3. CASE ~NoRelation(c) \/ email[c] = "none"
      BY <2>3, <3>1, <3>3 DEF UserReapsEmail, TypeOK
    <3> QED
      BY <3>2, <3>3
  <2> QED
    BY <2>1, <2>2, <2>3 DEF UserStep
<1>4. EntryOf(c)' = EntryOf(c) \/ (EntryOf(c) # "absent" /\ EntryOf(c)' = "erased")
  BY <1>3 DEF EntryOf, TypeOK, EmailRow, Final
<1>5. OnlyCall(c)
  BY UserStepInv
<1> QED
  BY <1>2, <1>4, <1>5, EraseStep, StutterStep DEF SameEntry, Ledger!Next

\* Submissions, timeouts and crashes are invisible in the ledger.
LEMMA InvisibleStep ==
    ASSUME UNCHANGED <<email, touched, took, observed, reply>>
    PROVE  UNCHANGED Ledger!vars
BY DEF Ledger!vars, EntryOf, RefusedOf, AnswerOf

\* deliverOutgoingEmail, its transactions, retries and crashes included, keeps
\* the audit ledger, for every number of calls, domains and attempts.
THEOREM KeepsLedger == Spec => ImplementsLedger
<1>1. Init => Ledger!Init
  BY DEF Init, Ledger!Init, EntryOf, RefusedOf, AnswerOf
<1>2. IInv /\ TypeOK' /\ [Next]_vars => [Ledger!Next]_(Ledger!vars)
  <2> SUFFICES ASSUME IInv, TypeOK', [Next]_vars
               PROVE  Ledger!Next \/ UNCHANGED Ledger!vars
    OBVIOUS
  <2> USE DEF IInv
  <2>1. ASSUME NEW c \in Call, LocalStep(c) \/ RemoteStep(c) \/ UserStep(c)
        PROVE  Ledger!Next \/ UNCHANGED Ledger!vars
    BY <2>1, LocalRefines, RemoteRefines, UserRefines
  <2>2. ASSUME NEW m \in Msg, ClientStep(m)
        PROVE  UNCHANGED Ledger!vars
    BY <2>2, InvisibleStep DEF ClientStep, ClientTimeout, Submit, callVars, tables, history
  <2>3. CASE Crash
    BY <2>3, InvisibleStep DEF Crash, tables, history
  <2>4. CASE UNCHANGED vars
    BY <2>4, InvisibleStep DEF vars, callVars, tables, history
  <2> QED
    BY <2>1, <2>2, <2>3, <2>4 DEF Next
<1> QED
  BY <1>1, <1>2, Invariance, TypeCorrect, PTL DEF Spec, ImplementsLedger, Ledger!Spec

-----------------------------------------------------------------------------
\* The sender.  What a call hears while it delivers, and what it answers, is what
\* Sender says of a synchronous delivery.

Sent(c, relay) == INSTANCE Sender WITH
    Target  <- Domain \union {relay},
    Relay   <- relay,
    targets <- Domain,
    outcome <- observed[c],
    held    <- took[c],
    answer  <- reply[c]

\* A result of one domain, or of the relay for all of them
Sends(c, relay) ==
    \/ \E d \in Domain, o \in Outcome, copy \in BOOLEAN : Sent(c, relay)!Result(d, o, copy)
    \/ /\ \A d \in Domain : observed[c][d] = "none"
       /\ \E o \in Outcome, copy \in BOOLEAN :
             /\ Sent(c, relay)!Allowed(relay, o, copy)
             /\ observed'[c] = [d \in Domain |-> o]
             /\ took'[c] = IF copy THEN Domain ELSE took[c]

\* Nothing but what a call knows of its delivery changes.
OnlyHears(c) ==
    /\ observed' = [observed EXCEPT ![c] = observed'[c]]
    /\ took' = [took EXCEPT ![c] = took'[c]]
    /\ UNCHANGED <<pc, msg, attempt, reply, tables, clientVars, reaping, history>>

LEMMA HearsDomain ==
    ASSUME IInv, NEW c \in Call, NEW relay, relay \notin Domain, pc[c] = "deliver",
           NEW d \in Domain
    PROVE  DomainResult(c, d) <=>
              OnlyHears(c) /\ \E o \in Outcome, copy \in BOOLEAN : Sent(c, relay)!Result(d, o, copy)
<1>1. /\ reply[c] = "none" /\ took[c] \subseteq Domain /\ relay # d
      /\ observed \in [Call -> [Domain -> {"none"} \cup Outcome]]
      /\ took \in [Call -> SUBSET Domain]
  BY DEF IInv, TypeOK, CallInv, Outcome
<1>2. ASSUME DomainResult(c, d)
      PROVE  OnlyHears(c) /\ \E o \in Outcome, copy \in BOOLEAN : Sent(c, relay)!Result(d, o, copy)
  <2>1. PICK o \in Outcome :
           /\ observed' = [observed EXCEPT ![c][d] = o]
           /\ \/ took' = [took EXCEPT ![c] = @ \cup {d}]
              \/ o # "accepted" /\ UNCHANGED took
    BY <1>2 DEF DomainResult
  <2>2. observed[c][d] = "none" /\ reply' = reply
    BY <1>2 DEF DomainResult
  <2>3. observed'[c] = [observed[c] EXCEPT ![d] = o]
    BY <1>1, <2>1
  <2>4. observed' = [observed EXCEPT ![c] = observed'[c]] /\ took' = [took EXCEPT ![c] = took'[c]]
    BY <1>1, <2>1
  <2>5. OnlyHears(c)
    BY <1>2, <2>4 DEF OnlyHears, DomainResult
  <2>6. PICK copy \in BOOLEAN :
           /\ o = "accepted" => copy
           /\ took'[c] = IF copy THEN took[c] \cup {d} ELSE took[c]
    <3>1. CASE took' = [took EXCEPT ![c] = @ \cup {d}]
      <4>1. took'[c] = IF TRUE THEN took[c] \cup {d} ELSE took[c]
        BY <1>1, <3>1
      <4> QED
        BY <4>1
    <3>2. CASE o # "accepted" /\ UNCHANGED took
      BY <3>2
    <3> QED
      BY <2>1, <3>1, <3>2
  <2>7. Sent(c, relay)!Result(d, o, copy)
    BY <1>1, <2>2, <2>3, <2>6 DEF Sent!Result, Sent!Allowed
  <2> QED
    BY <2>5, <2>7
<1>3. ASSUME OnlyHears(c), NEW o \in Outcome, NEW copy \in BOOLEAN, Sent(c, relay)!Result(d, o, copy)
      PROVE  DomainResult(c, d)
  <2>1. /\ observed[c][d] = "none"
        /\ observed'[c] = [observed[c] EXCEPT ![d] = o]
        /\ took'[c] = IF copy THEN took[c] \cup {d} ELSE took[c]
        /\ o = "accepted" => copy
    BY <1>3 DEF Sent!Result, Sent!Allowed
  <2>2. observed' = [observed EXCEPT ![c][d] = o]
    BY <1>1, <1>3, <2>1 DEF OnlyHears
  <2>3. took' = [took EXCEPT ![c] = @ \cup {d}] \/ (o # "accepted" /\ UNCHANGED took)
    BY <1>1, <1>3, <2>1 DEF OnlyHears
  <2> QED
    BY <1>3, <2>1, <2>2, <2>3 DEF DomainResult, OnlyHears
<1> QED
  BY <1>2, <1>3

LEMMA HearsRelay ==
    ASSUME IInv, NEW c \in Call, NEW relay, relay \notin Domain, pc[c] = "deliver"
    PROVE  RelayResult(c) <=>
              /\ OnlyHears(c)
              /\ \A d \in Domain : observed[c][d] = "none"
              /\ \E o \in Outcome, copy \in BOOLEAN :
                    /\ Sent(c, relay)!Allowed(relay, o, copy)
                    /\ observed'[c] = [d \in Domain |-> o]
                    /\ took'[c] = IF copy THEN Domain ELSE took[c]
<1>1. /\ observed \in [Call -> [Domain -> {"none"} \cup Outcome]]
      /\ took \in [Call -> SUBSET Domain]
  BY DEF IInv, TypeOK, Outcome
<1> DEFINE all(o) == [d \in Domain |-> o]
<1>2. ASSUME RelayResult(c)
      PROVE  /\ OnlyHears(c)
             /\ \E o \in Outcome, copy \in BOOLEAN :
                    /\ Sent(c, relay)!Allowed(relay, o, copy)
                    /\ observed'[c] = all(o)
                    /\ took'[c] = IF copy THEN Domain ELSE took[c]
  <2>1. PICK o \in Outcome :
           /\ observed' = [observed EXCEPT ![c] = all(o)]
           /\ \/ o # "perm" /\ took' = [took EXCEPT ![c] = Domain]
              \/ o # "accepted" /\ UNCHANGED took
    BY <1>2 DEF RelayResult
  <2> HIDE DEF all
  <2>2. observed'[c] = all(o)
    BY <1>1, <2>1
  <2>3. observed' = [observed EXCEPT ![c] = observed'[c]] /\ took' = [took EXCEPT ![c] = took'[c]]
    BY <1>1, <2>1
  <2>4. OnlyHears(c)
    BY <1>2, <2>3 DEF OnlyHears, RelayResult
  <2>5. PICK copy \in BOOLEAN :
           /\ o = "accepted" => copy
           /\ o = "perm" => ~copy
           /\ took'[c] = IF copy THEN Domain ELSE took[c]
    <3>1. CASE o # "perm" /\ took' = [took EXCEPT ![c] = Domain]
      <4>1. took'[c] = IF TRUE THEN Domain ELSE took[c]
        BY <1>1, <3>1
      <4> QED
        BY <3>1, <4>1
    <3>2. CASE o # "accepted" /\ UNCHANGED took
      BY <3>2
    <3> QED
      BY <2>1, <3>1, <3>2
  <2>6. Sent(c, relay)!Allowed(relay, o, copy)
    BY <2>5 DEF Sent!Allowed
  <2> QED
    BY <2>2, <2>4, <2>5, <2>6
<1>3. ASSUME OnlyHears(c), \A d \in Domain : observed[c][d] = "none",
             NEW o \in Outcome, NEW copy \in BOOLEAN, Sent(c, relay)!Allowed(relay, o, copy),
             observed'[c] = all(o), took'[c] = IF copy THEN Domain ELSE took[c]
      PROVE  RelayResult(c)
  <2>1. (o = "accepted" => copy) /\ (o = "perm" => ~copy)
    BY <1>3 DEF Sent!Allowed
  <2>2. observed' = [observed EXCEPT ![c] = all(o)]
    BY <1>3 DEF OnlyHears
  <2>3. \/ o # "perm" /\ took' = [took EXCEPT ![c] = Domain]
        \/ o # "accepted" /\ UNCHANGED took
    BY <1>1, <1>3, <2>1 DEF OnlyHears
  <2> QED
    BY <1>3, <2>2, <2>3 DEF RelayResult, OnlyHears
<1>4. RelayResult(c) => \A d \in Domain : observed[c][d] = "none"
  BY DEF RelayResult
<1> QED
  BY <1>2, <1>3, <1>4

\* While a call delivers, the results that may reach it are exactly those that Sender
\* gives: the audit is checked against every delivery that doSend can make of the
\* message, and against no other.
THEOREM HearsTheSender ==
    ASSUME NEW relay, relay \notin Domain
    PROVE  Spec => [][\A c \in Call : pc[c] = "deliver" =>
                        (RemoteStep(c) <=> OnlyHears(c) /\ Sends(c, relay))]_vars
<1> DEFINE A == \A c \in Call : pc[c] = "deliver" =>
                   (RemoteStep(c) <=> OnlyHears(c) /\ Sends(c, relay))
<1>1. IInv => A
  BY HearsDomain, HearsRelay DEF RemoteStep, Sends
<1>2. IInv /\ [Next]_vars => [A]_vars
  BY <1>1
<1> HIDE DEF A
<1>3. Spec => [][A]_vars
  BY <1>2, Invariance, PTL DEF Spec
<1> QED
  BY <1>3 DEF A

\* A call that answers for the remote hosts answers what the sender made of its results.
THEOREM PassesTheVerdict ==
    ASSUME NEW relay
    PROVE  Spec => [](\A c \in Call :
                         reply[c] \in {"250", "451", "550"} => reply[c] = Sent(c, relay)!Verdict)
<1>1. IInv => \A c \in Call :
                 reply[c] \in {"250", "451", "550"} => reply[c] = Sent(c, relay)!Verdict
  BY DEF IInv, CallInv, DownstreamReply, Failed, Sent!Verdict
<1> QED
  BY <1>1, Invariance, PTL
=============================================================================
