--------------------------- MODULE OutgoingAudit ---------------------------
(***************************************************************************)
(* Mail submitted by an authenticated SMTP client: deliverOutgoingEmail    *)
(* with the transactions it runs, the downstream sender, the reply, the    *)
(* client that retries, the mailbox operations its owner may run while the *)
(* delivery is in progress, and the death of the process.                  *)
(*                                                                         *)
(* A Call is one invocation of deliverOutgoingEmail.  Each call inserts    *)
(* its own row of table email (equal Message-IDs share nothing), so a call *)
(* also names its row: email[c] is the status column, rel[c] the status    *)
(* columns of the user_email rows that point at it.                        *)
(***************************************************************************)
EXTENDS Naturals

CONSTANTS Msg,       \* messages the client has to submit
          Call,      \* invocations of deliverOutgoingEmail
          Domain,    \* recipient domains of a message
          Slot,      \* places for user_email rows of one email (bounds IMAP COPY)
          Attempts,  \* transactionAttempts
          Sqlite,    \* engine.DriverName() = "sqlite"
          NoMsg, NoCall

ASSUME CallAssumption ==
    /\ NoMsg \notin Msg
    /\ NoCall \notin Call
    /\ Attempts \in Nat \ {0}
    /\ Sqlite \in BOOLEAN

VARIABLES
    pc,         \* where each call is in deliverOutgoingEmail
    msg,        \* the message a call carries
    attempt,    \* attempt of the transaction a call is in (1 outside of one)
    observed,   \* what the sender saw of each domain
    email,      \* table email: status of the row inserted by a call
    rel,        \* table user_email: status of the rows of that email
    reply,      \* SMTP reply of a call
    took,       \* domains that hold a copy delivered by a call
    client,     \* the submitting client's view of each message
    waiter,     \* the call whose reply the client is waiting for
    reaping,    \* emails whose DelByUID dropped a relation, email row not yet examined
    \* history variables
    touched,    \* emails its owner moved, copied or deleted
    dbFault,    \* calls whose final transaction returned an error
    abandoned   \* calls whose client stopped waiting

callVars   == <<pc, msg, attempt, observed, reply>>
tables     == <<email, rel>>
clientVars == <<client, waiter>>
history    == <<touched, dbFault, abandoned>>
vars == <<callVars, tables, took, clientVars, reaping, history>>

Running  == {"audit", "deliver", "persist", "reply"}
Phase    == {"free", "done", "dead"} \cup Running
Outcome  == {"accepted", "temp", "perm"}
Final    == {"sent", "fail"}
EmailRow == {"none", "pending"} \cup Final
RelRow   == EmailRow \cup {"user"}    \* "user": wait, del, drafts or junk
Answer   == {"none", "250", "451", "550", "local451"}

TypeOK ==
    /\ pc \in [Call -> Phase]
    /\ msg \in [Call -> Msg \cup {NoMsg}]
    /\ attempt \in [Call -> 1..Attempts]
    /\ observed \in [Call -> [Domain -> Outcome \cup {"none"}]]
    /\ email \in [Call -> EmailRow]
    /\ rel \in [Call -> [Slot -> RelRow]]
    /\ reply \in [Call -> Answer]
    /\ took \in [Call -> SUBSET Domain]
    /\ client \in [Msg -> {"idle", "waiting", "acked", "bounced"}]
    /\ waiter \in [Msg -> Call \cup {NoCall}]
    /\ reaping \subseteq Call
    /\ touched \subseteq Call
    /\ dbFault \subseteq Call
    /\ abandoned \subseteq Call

Init ==
    /\ pc = [c \in Call |-> "free"]
    /\ msg = [c \in Call |-> NoMsg]
    /\ attempt = [c \in Call |-> 1]
    /\ observed = [c \in Call |-> [d \in Domain |-> "none"]]
    /\ email = [c \in Call |-> "none"]
    /\ rel = [c \in Call |-> [s \in Slot |-> "none"]]
    /\ reply = [c \in Call |-> "none"]
    /\ took = [c \in Call |-> {}]
    /\ client = [m \in Msg |-> "idle"]
    /\ waiter = [m \in Msg |-> NoCall]
    /\ reaping = {}
    /\ touched = {}
    /\ dbFault = {}
    /\ abandoned = {}

-----------------------------------------------------------------------------
\* Helpers

NoRelation(c) == \A s \in Slot : rel[c][s] = "none"

\* requireOneAffected(update user_email ... where email_id): exactly one row.
OneRelation(c) == \E s \in Slot : \A t \in Slot : rel[c][t] # "none" <=> t = s

Failed(c) == \E d \in Domain : observed[c][d] # "accepted"

\* mutant: the loop over domain errors keeps only the last one
TargetStatus_AnyDomain(c) ==
    IF \E d \in Domain : observed[c][d] = "accepted" THEN "sent" ELSE "fail"

\* targetStatus
TargetStatus(c) == IF Failed(c) THEN "fail" ELSE "sent"

\* mutant: the loop variable is reset inside the loop
NextAttempt_Reset(c) == (attempt[c] % (Attempts - 1)) + 1

\* The attempt after this one.
NextAttempt(c) == attempt[c] + 1

LeaveTransaction(c) == attempt' = [attempt EXCEPT ![c] = 1]

\* How an attempt fails: BUSY or LOCKED and rolled back, any other error, or an
\* error whose rollback failed too.
TxError == {"busy", "other", "notRolledBack"}

\* transactionWithRetry goes round only for a rolled back SQLite BUSY/LOCKED
\* error with an attempt left.
RetriesTransaction(c, err) ==
    /\ Sqlite
    /\ err = "busy"
    /\ attempt[c] < Attempts

\* mutant: a partial delivery is answered as a success
DownstreamReply_Partial(c) ==
    IF \E d \in Domain : observed[c][d] = "accepted" THEN "250"
    ELSE IF \A d \in Domain : observed[c][d] = "perm" THEN "550"
    ELSE "451"

\* downstreamDeliverySMTPError: 550 only when every failed domain failed for good.
DownstreamReply(c) ==
    IF ~Failed(c) THEN "250"
    ELSE IF \A d \in Domain : observed[c][d] \in {"accepted", "perm"} THEN "550"
    ELSE "451"

-----------------------------------------------------------------------------
\* The submitting client

\* The client opens a session and sends m; Session.Data calls deliverOutgoingEmail.
Submit(m, c) ==
    /\ client[m] = "idle"
    /\ pc[c] = "free"
    /\ pc' = [pc EXCEPT ![c] = "audit"]
    /\ msg' = [msg EXCEPT ![c] = m]
    /\ client' = [client EXCEPT ![m] = "waiting"]
    /\ waiter' = [waiter EXCEPT ![m] = c]
    /\ UNCHANGED <<attempt, observed, reply, tables, took, reaping, history>>

\* The client gives up on a slow reply; the server's call goes on.
ClientTimeout(m) ==
    /\ client[m] = "waiting"
    /\ waiter[m] # NoCall
    /\ client' = [client EXCEPT ![m] = "idle"]
    /\ waiter' = [waiter EXCEPT ![m] = NoCall]
    /\ abandoned' = abandoned \cup {waiter[m]}
    /\ UNCHANGED <<callVars, tables, took, reaping, touched, dbFault>>

-----------------------------------------------------------------------------
\* Initial audit: persistInitialAudit inside db.Transaction

InsertAudit(c) ==
    /\ email' = [email EXCEPT ![c] = "pending"]
    /\ \E s \in Slot : rel' = [rel EXCEPT ![c][s] = "pending"]

\* mutant: the save error is logged and delivery goes on
RefuseLocally_Ignored(c) ==
    /\ pc' = [pc EXCEPT ![c] = "deliver"]
    /\ UNCHANGED reply

\* A local persistence failure is temporary for the client; nothing is sent.
RefuseLocally(c) ==
    /\ pc' = [pc EXCEPT ![c] = "reply"]
    /\ reply' = [reply EXCEPT ![c] = "local451"]

AuditCommits(c) ==
    /\ pc[c] = "audit"
    /\ InsertAudit(c)
    /\ LeaveTransaction(c)
    /\ pc' = [pc EXCEPT ![c] = "deliver"]
    /\ UNCHANGED <<msg, observed, reply, took, clientVars, reaping, history>>

\* An attempt fails: begin, a statement, or a commit that had no effect.
AuditFails(c) ==
    /\ pc[c] = "audit"
    /\ \E err \in TxError :
         \/ /\ RetriesTransaction(c, err)
            /\ attempt' = [attempt EXCEPT ![c] = NextAttempt(c)]
            /\ UNCHANGED <<pc, reply>>
         \/ /\ ~RetriesTransaction(c, err)
            /\ RefuseLocally(c)
            /\ LeaveTransaction(c)
    /\ UNCHANGED <<msg, observed, tables, took, clientVars, reaping, history>>

\* A networked database commits but the connection breaks before it says so.
\* (SQLite rolls back by itself when COMMIT fails.)
AuditCommitUnknown(c) ==
    /\ ~Sqlite
    /\ pc[c] = "audit"
    /\ InsertAudit(c)
    /\ LeaveTransaction(c)
    /\ RefuseLocally(c)
    /\ UNCHANGED <<msg, observed, took, clientVars, reaping, history>>

-----------------------------------------------------------------------------
\* sender(ctx, email): one goroutine per domain, or one relay session

\* doSend, direct to MX.  An answer lost after DATA makes a domain that holds
\* the message look like a failed one.
DomainResult(c, d) ==
    /\ pc[c] = "deliver"
    /\ observed[c][d] = "none"
    /\ \E o \in Outcome :
         /\ observed' = [observed EXCEPT ![c][d] = o]
         /\ \/ took' = [took EXCEPT ![c] = @ \cup {d}]
            \/ o # "accepted" /\ UNCHANGED took
    /\ UNCHANGED <<pc, msg, attempt, reply, tables, clientVars, reaping, history>>

\* tryRelay: the smarthost takes or refuses the message for every domain at once.
RelayResult(c) ==
    /\ pc[c] = "deliver"
    /\ \A d \in Domain : observed[c][d] = "none"
    /\ \E o \in Outcome :
         /\ observed' = [observed EXCEPT ![c] = [d \in Domain |-> o]]
         /\ \/ o # "perm" /\ took' = [took EXCEPT ![c] = Domain]
            \/ o # "accepted" /\ UNCHANGED took
    /\ UNCHANGED <<pc, msg, attempt, reply, tables, clientVars, reaping, history>>

\* as.Wait() returns once every goroutine is done, runSendAfterHooks once every
\* plugin is; persistDeliveryResult starts.
SenderAndHooksReturn(c) ==
    /\ pc[c] = "deliver"
    /\ \A d \in Domain : observed[c][d] # "none"
    /\ pc' = [pc EXCEPT ![c] = "persist"]
    /\ UNCHANGED <<msg, attempt, observed, reply, tables, took, clientVars, reaping, history>>

-----------------------------------------------------------------------------
\* Final audit: persistDeliveryResult inside db.Transaction, then the reply

\* Both updates matched exactly one row.
ResultMatches(c) == email[c] # "none" /\ OneRelation(c)

\* mutant: user_email is not updated
UpdateResult_EmailOnly(c) ==
    /\ email' = [email EXCEPT ![c] = TargetStatus(c)]
    /\ UNCHANGED rel

\* mutant: "where id=?" is lost
UpdateResult_EveryRow(c) ==
    /\ email' = [x \in Call |-> IF email[x] = "none" THEN "none" ELSE TargetStatus(c)]
    /\ rel' = [x \in Call |-> [s \in Slot |->
                 IF rel[x][s] = "none" THEN "none" ELSE TargetStatus(c)]]

\* mutant: the relation is updated, the email row forgotten
UpdateResult_RelationOnly(c) ==
    /\ rel' = [rel EXCEPT ![c] = [s \in Slot |->
                 IF rel[c][s] = "none" THEN "none" ELSE TargetStatus(c)]]
    /\ UNCHANGED email

UpdateResult(c) ==
    /\ email' = [email EXCEPT ![c] = TargetStatus(c)]
    /\ rel' = [rel EXCEPT ![c] = [s \in Slot |->
                 IF rel[c][s] = "none" THEN "none" ELSE TargetStatus(c)]]

\* The reply is the remote result, whatever became of the final audit.
ReplyRemote(c) ==
    /\ pc' = [pc EXCEPT ![c] = "reply"]
    /\ reply' = [reply EXCEPT ![c] = DownstreamReply(c)]

\* mutant: a final audit that cannot be stored is answered 451
PersistGivesUp_Local451(c) ==
    /\ pc' = [pc EXCEPT ![c] = "reply"]
    /\ reply' = [reply EXCEPT ![c] = "451"]
    /\ dbFault' = dbFault \cup {c}
    /\ LeaveTransaction(c)

\* persistDeliveryResult returned an error: it is logged, nothing more.
PersistGivesUp(c) ==
    /\ ReplyRemote(c)
    /\ dbFault' = dbFault \cup {c}
    /\ LeaveTransaction(c)

PersistCommits(c) ==
    /\ pc[c] = "persist"
    /\ ResultMatches(c)
    /\ UpdateResult(c)
    /\ LeaveTransaction(c)
    /\ ReplyRemote(c)
    /\ UNCHANGED <<msg, observed, took, clientVars, reaping, history>>

\* requireOneAffected refuses, the transaction rolls back, the error is logged.
PersistMismatch(c) ==
    /\ pc[c] = "persist"
    /\ ~ResultMatches(c)
    /\ PersistGivesUp(c)
    /\ UNCHANGED <<msg, observed, tables, took, clientVars, reaping, touched, abandoned>>

PersistFails(c) ==
    /\ pc[c] = "persist"
    /\ \E err \in TxError :
         \/ /\ RetriesTransaction(c, err)
            /\ attempt' = [attempt EXCEPT ![c] = NextAttempt(c)]
            /\ UNCHANGED <<pc, reply, dbFault>>
         \/ /\ ~RetriesTransaction(c, err)
            /\ PersistGivesUp(c)
    /\ UNCHANGED <<msg, observed, tables, took, clientVars, reaping, touched, abandoned>>

PersistCommitUnknown(c) ==
    /\ ~Sqlite
    /\ pc[c] = "persist"
    /\ ResultMatches(c)
    /\ UpdateResult(c)
    /\ PersistGivesUp(c)
    /\ UNCHANGED <<msg, observed, took, clientVars, reaping, touched, abandoned>>

\* The reply reaches the client if it still waits for this call.
Reply(c) ==
    /\ pc[c] = "reply"
    /\ pc' = [pc EXCEPT ![c] = "done"]
    /\ \/ /\ waiter[msg[c]] = c
          /\ client' = [client EXCEPT ![msg[c]] =
               CASE reply[c] = "250" -> "acked"
                 [] reply[c] = "550" -> "bounced"
                 [] OTHER -> "idle"]
          /\ waiter' = [waiter EXCEPT ![msg[c]] = NoCall]
       \/ /\ waiter[msg[c]] # c
          /\ UNCHANGED clientVars
    /\ UNCHANGED <<msg, attempt, observed, reply, tables, took, reaping, history>>

-----------------------------------------------------------------------------
\* The owner of the mail, through the web, IMAP and POP3

Owned(c) == email[c] # "none" /\ ~NoRelation(c)

\* DelEmail without force, Move2DefaultBox: one update of every relation.
UserMoves(c) ==
    /\ Owned(c)
    /\ \E box \in {"user", "sent"} :
         rel' = [rel EXCEPT ![c] = [s \in Slot |->
                   IF rel[c][s] = "none" THEN "none" ELSE box]]
    /\ touched' = touched \cup {c}
    /\ UNCHANGED <<callVars, email, took, clientVars, reaping, dbFault, abandoned>>

\* IMAP COPY to a default box or to a folder (which takes email.status).
UserCopies(c) ==
    /\ Owned(c)
    /\ \E s \in Slot, box \in {"user", "sent", email[c]} :
         /\ rel[c][s] = "none"
         /\ rel' = [rel EXCEPT ![c][s] = box]
    /\ touched' = touched \cup {c}
    /\ UNCHANGED <<callVars, email, took, clientVars, reaping, dbFault, abandoned>>

\* DelEmail with force: relations and email row in one transaction.
UserDeletes(c) ==
    /\ Owned(c)
    /\ email' = [email EXCEPT ![c] = "none"]
    /\ rel' = [rel EXCEPT ![c] = [s \in Slot |-> "none"]]
    /\ touched' = touched \cup {c}
    /\ UNCHANGED <<callVars, took, clientVars, reaping, dbFault, abandoned>>

\* DelByUID runs outside a transaction: the relation goes first ...
UserDropsRelation(c) ==
    /\ Owned(c)
    /\ \E s \in Slot :
         /\ rel[c][s] # "none"
         /\ rel' = [rel EXCEPT ![c][s] = "none"]
    /\ reaping' = reaping \cup {c}
    /\ touched' = touched \cup {c}
    /\ UNCHANGED <<callVars, email, took, clientVars, dbFault, abandoned>>

\* ... and the email row later, if no relation is left by then.
UserReapsEmail(c) ==
    /\ c \in reaping
    /\ email' = IF NoRelation(c) THEN [email EXCEPT ![c] = "none"] ELSE email
    /\ reaping' = reaping \ {c}
    /\ UNCHANGED <<callVars, rel, took, clientVars, history>>

-----------------------------------------------------------------------------
\* The process dies and is started again: nothing resumes a pending call.

Crash ==
    /\ \E c \in Call : pc[c] \in Running
    /\ pc' = [c \in Call |-> IF pc[c] \in Running THEN "dead" ELSE pc[c]]
    /\ client' = [m \in Msg |-> IF client[m] = "waiting" THEN "idle" ELSE client[m]]
    /\ waiter' = [m \in Msg |-> NoCall]
    /\ reaping' = {}
    /\ attempt' = [c \in Call |-> 1]
    /\ UNCHANGED <<msg, observed, reply, tables, took, history>>

LocalStep(c) ==
    \/ AuditCommits(c) \/ AuditFails(c) \/ AuditCommitUnknown(c)
    \/ SenderAndHooksReturn(c)
    \/ PersistCommits(c) \/ PersistMismatch(c) \/ PersistFails(c)
    \/ PersistCommitUnknown(c) \/ Reply(c)

RemoteStep(c) == RelayResult(c) \/ \E d \in Domain : DomainResult(c, d)

UserStep(c) ==
    \/ UserMoves(c) \/ UserCopies(c) \/ UserDeletes(c)
    \/ UserDropsRelation(c) \/ UserReapsEmail(c)

ClientStep(m) == ClientTimeout(m) \/ \E c \in Call : Submit(m, c)

Next ==
    \/ \E c \in Call : LocalStep(c) \/ RemoteStep(c) \/ UserStep(c)
    \/ \E m \in Msg : ClientStep(m)
    \/ Crash

Spec == Init /\ [][Next]_vars

\* A goroutine that can run is scheduled, and what a call does by itself ends:
\* a database call and a plugin's answer have timeouts.  Nothing is assumed of
\* the remote hosts: utils/smtp bounds the dial but not the conversation, so an
\* MX that connects and falls silent holds a call in "deliver" for ever.
FairSpec == Spec /\ \A c \in Call : WF_vars(LocalStep(c))

-----------------------------------------------------------------------------
\* Safety

\* Nothing leaves the host before its audit is in the database: a message some
\* domain holds, or was offered, has an email row and a relation to its owner
\* until that owner touches them - also after a crash, and also when COMMIT
\* failed without saying whether it took effect.
DeliveredIsAudited ==
    \A c \in Call \ touched :
        (took[c] # {} \/ \E d \in Domain : observed[c][d] # "none")
            => email[c] # "none" /\ OneRelation(c)

\* Table email and table user_email tell the same story about a mail nobody
\* touched, whatever attempt failed, was retried or was cut short by a crash.
TablesAgree ==
    \A c \in Call \ touched :
        /\ email[c] = "none" => NoRelation(c)
        /\ email[c] # "none" =>
              OneRelation(c) /\ \A s \in Slot : rel[c][s] \in {"none", email[c]}

\* A status shown to the user is never wishful: "sent" is stored only when
\* every domain holds the message, "failed" only when one did not accept it.
StoredStatusIsTrue ==
    \A c \in Call :
        /\ email[c] = "sent" => took[c] = Domain
        /\ email[c] = "fail" => Failed(c)

\* A client told 250 or 550 stops retrying, so it must be right to stop: after
\* 250 one submission reached every domain; after 550 some submission was
\* refused for good and nothing else about it was left open.
ClientMayStop ==
    \A m \in Msg :
        /\ client[m] = "acked" => \E c \in Call : msg[c] = m /\ took[c] = Domain
        /\ client[m] = "bounced" => \E c \in Call :
              /\ msg[c] = m
              /\ \E d \in Domain : observed[c][d] = "perm"
              /\ \A d \in Domain : observed[c][d] \in {"accepted", "perm"}

\* A domain gets a message twice only because a submission was cut off before
\* its reply (crash, client timeout) or because a domain did not accept it; a
\* database that fails after the remote hosts accepted never causes a resend
\* (audit_persistence.go: "returning a local 451 here would cause a duplicate
\* delivery").
DuplicateIsExplained ==
    \A c1, c2 \in Call :
        (c1 # c2 /\ msg[c1] = msg[c2] /\ took[c1] \cap took[c2] # {})
            => \E c \in {c1, c2} : pc[c] = "dead" \/ c \in abandoned \/ Failed(c)

\* "Delivery pending" is the last word on an answered mail only if the final
\* transaction failed, the owner interfered, or the client was told to retry.
PendingIsExplained ==
    \A c \in Call \ (touched \cup dbFault) :
        (pc[c] = "done" /\ reply[c] # "local451")
            => email[c] = IF reply[c] = "250" THEN "sent" ELSE "fail"

-----------------------------------------------------------------------------
\* The inductive invariant the safety properties rest on

Unsent(c) == took[c] = {} /\ \A d \in Domain : observed[c][d] = "none"
Heard(c)  == \A d \in Domain : observed[c][d] # "none"

\* The rows of a call follow its progress.
CallInv(c) ==
    /\ pc[c] = "free" <=> msg[c] = NoMsg
    /\ pc[c] \in {"free", "audit"} =>
          /\ Unsent(c)
          /\ email[c] = "none"
          /\ NoRelation(c)
          /\ reply[c] = "none"
          /\ c \notin touched \cup dbFault
    /\ pc[c] = "free" => c \notin abandoned
    /\ c \notin touched /\ ~Unsent(c) => email[c] # "none"
    /\ c \notin touched /\ email[c] = "none" => NoRelation(c)
    /\ c \notin touched /\ email[c] # "none" =>
          OneRelation(c) /\ \A s \in Slot : rel[c][s] \in {"none", email[c]}
    /\ pc[c] \in {"deliver", "persist"} =>
          /\ reply[c] = "none"
          /\ email[c] \in {"pending", "none"}
          /\ c \in touched \/ email[c] = "pending"
    /\ pc[c] = "persist" => Heard(c)
    /\ pc[c] \in {"reply", "done"} => reply[c] # "none"
    /\ reply[c] # "none" => pc[c] \in {"reply", "done", "dead"}
    /\ reply[c] \in {"250", "451", "550"} => Heard(c) /\ reply[c] = DownstreamReply(c)
    /\ reply[c] = "local451" => Unsent(c)
    /\ \A d \in Domain : observed[c][d] = "accepted" => d \in took[c]
    /\ email[c] = "sent" => ~Failed(c)
    /\ email[c] = "fail" => Failed(c) /\ Heard(c)
    /\ email[c] \in Final => pc[c] \in {"reply", "done", "dead"}
    /\ (pc[c] \in {"reply", "done"} /\ reply[c] # "local451" /\ c \notin touched \cup dbFault)
          => email[c] = TargetStatus(c)

\* A call that still decides what its client does next.
Holds(c) ==
    /\ c \notin abandoned
    /\ \/ pc[c] \in Running
       \/ pc[c] = "done" /\ reply[c] \in {"250", "550"}

ClientInv ==
    /\ \A c \in Call : Holds(c) =>
          /\ pc[c] \in Running => client[msg[c]] = "waiting" /\ waiter[msg[c]] = c
          /\ pc[c] = "done" =>
                client[msg[c]] = IF reply[c] = "250" THEN "acked" ELSE "bounced"
    /\ \A c1, c2 \in Call : Holds(c1) /\ Holds(c2) /\ msg[c1] = msg[c2] => c1 = c2
    /\ \A m \in Msg :
          /\ client[m] = "waiting" =>
                /\ waiter[m] \in Call \ abandoned
                /\ pc[waiter[m]] \in Running
                /\ msg[waiter[m]] = m
          /\ client[m] # "waiting" => waiter[m] = NoCall
          /\ client[m] = "acked" => \E c \in Call : msg[c] = m /\ reply[c] = "250"
          /\ client[m] = "bounced" => \E c \in Call : msg[c] = m /\ reply[c] = "550"

\* Rows, replies and clients hang together in every reachable state; the
\* safety properties above follow from this without looking at a step.
IInv == TypeOK /\ ClientInv /\ \A c \in Call : CallInv(c)

-----------------------------------------------------------------------------
\* Steps

\* A settled status is not settled again: it stays, or its owner deletes it.
SettledOnce ==
    [][\A c \in Call : email[c] \in Final => email'[c] \in {email[c], "none"}]_vars

\* The database cannot hold a submission for ever: its first transaction ends
\* in a delivery or in a reply, and once the remote hosts have answered the
\* client gets its reply, unless the process dies.
LocalWorkEnds ==
    \A c \in Call :
        /\ pc[c] = "audit" ~> pc[c] \in {"deliver", "done", "dead"}
        /\ pc[c] = "persist" ~> pc[c] \in {"done", "dead"}

\* The audit as its users see it: the entry of a call, the domains that turned
\* its mail down, and the kind of answer it got.
EntryOf(c) == IF email[c] # "none" THEN email[c]
              ELSE IF c \in touched THEN "erased" ELSE "absent"

RefusedOf(c) == {d \in Domain : observed[c][d] \in {"temp", "perm"}}

AnswerOf(c) == IF reply[c] = "none" THEN "none"
               ELSE IF reply[c] = "250" THEN "ok"
               ELSE IF reply[c] = "local451" THEN "unrecorded" ELSE "failed"

Ledger == INSTANCE AuditLedger WITH
    ledger  <- [c \in Call |-> EntryOf(c)],
    sentOut <- took,
    refused <- [c \in Call |-> RefusedOf(c)],
    answer  <- [c \in Call |-> AnswerOf(c)]

\* deliverOutgoingEmail, its transactions, retries and crashes included,
\* keeps the audit ledger: an entry is written before mail leaves, settled
\* once and truthfully, and never comes back after it was erased.
ImplementsLedger == Ledger!Spec
=============================================================================
