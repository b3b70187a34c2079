----------------------------- MODULE MailStore -----------------------------
(***************************************************************************)
(* The tables email and user_email as a reference count: an email row is   *)
(* shared by every user it was delivered to and goes with the last relation*)
(* of user_email.  IMAP EXPUNGE and STORE \Deleted (DelByUID, no           *)
(* transaction), forced deletion on the web (DelEmail, one transaction),   *)
(* IMAP COPY and the web's Send (relations inserted on their own) and      *)
(* delivery over SMTP (one transaction) work on them concurrently.         *)
(*                                                                         *)
(* Only the presence of rows is modelled; their statuses are the subject   *)
(* of OutgoingAudit.                                                       *)
(***************************************************************************)
EXTENDS Naturals, Sequences, FiniteSets

CONSTANTS User, Client, Mail,
          owner,       \* the user each client is logged in as
          MaxRelation, \* bound: rows ever inserted in user_email
          MaxList,     \* bound: ids one command names
          None

ASSUME StoreAssumption ==
    /\ owner \in [Client -> User]
    /\ IsFiniteSet(User)
    /\ MaxRelation \in Nat
    /\ MaxList \in Nat

Id == 1..MaxRelation
Relation == [id : Id, user : User, mail : Mail]

ASSUME NoneAssumption == None \notin Relation

VARIABLES
    db,         \* "sqlite" or "networked": one connection to it, or many
    email,      \* rows of email
    user_email, \* rows of user_email
    lastId,     \* auto-increment of user_email
    saved,      \* mails ever inserted in email
    sending,    \* web mails saved and not yet given to their sender, and whom
    step,       \* where each client's command is
    ids,        \* what is left of the ids it works through
    ue,         \* DelByUID: the relation it looked up
    undone,     \* DelEmail: rows deleted and not committed
    late,       \* history: relations not inserted along with their mail
    aborted,    \* history: mails some operation on which stopped half way
    overlapped  \* history: mails counted while others' deletes were undecided

storeVars   == <<email, user_email, lastId, saved, sending>>
clientVars  == <<step, ids, ue, undone>>
historyVars == <<late, aborted, overlapped>>
vars == <<db, storeVars, clientVars, historyVars>>

Nothing == [relations |-> {}, mails |-> {}]

TypeOK ==
    /\ db \in {"sqlite", "networked"}
    /\ email \subseteq saved
    /\ saved \subseteq Mail
    /\ user_email \subseteq Relation
    /\ lastId \in 0..MaxRelation
    /\ sending \subseteq saved \X User
    /\ step \in [Client -> {"idle", "lookup", "drop", "count", "reap", "copy",
                            "force", "forceCount"}]
    /\ ids \in [Client -> Seq(Id) \cup Seq(Mail)]
    /\ ue \in [Client -> Relation \cup {None}]
    /\ undone \in [Client -> [relations : SUBSET Relation, mails : SUBSET Mail]]
    /\ late \subseteq Id
    /\ aborted \subseteq Mail
    /\ overlapped \subseteq Mail

Init ==
    /\ db \in {"sqlite", "networked"}
    /\ email = {} /\ user_email = {} /\ lastId = 0 /\ saved = {} /\ sending = {}
    /\ step = [c \in Client |-> "idle"]
    /\ ids = [c \in Client |-> <<>>]
    /\ ue = [c \in Client |-> None]
    /\ undone = [c \in Client |-> Nothing]
    /\ late = {} /\ aborted = {} /\ overlapped = {}

Owned(c) == {r \in user_email : r.user = owner[c]}

\* SQLite is given one connection (db.Init): nothing runs beside a transaction.
Connection(others) ==
    db = "sqlite" => \A d \in others : step[d] \notin {"force", "forceCount"}

\* Rows that the transactions of others have deleted: still there for everyone
\* else, and locked.
Locked(c) == UNION {undone[d].relations : d \in Client \ {c}}

Goto(c, s) == step' = [step EXCEPT ![c] = s]
Advance(c) == ids' = [ids EXCEPT ![c] = Tail(@)]

Answer(c) ==
    /\ Goto(c, "idle")
    /\ ids' = [ids EXCEPT ![c] = <<>>]
    /\ ue' = [ue EXCEPT ![c] = None]
    /\ undone' = [undone EXCEPT ![c] = Nothing]

-----------------------------------------------------------------------------
\* Mails arrive, with a relation for each recipient, or the sender's, at once.

Deliver(m, users) ==
    /\ m \notin saved
    /\ users # {}
    /\ lastId + Cardinality(users) <= MaxRelation
    /\ \E id \in [users -> (lastId + 1)..(lastId + Cardinality(users))] :
         /\ \A u, v \in users : u # v => id[u] # id[v]
         /\ user_email' = user_email \cup
                {[id |-> id[u], user |-> u, mail |-> m] : u \in users}
    /\ lastId' = lastId + Cardinality(users)
    /\ email' = email \cup {m}
    /\ saved' = saved \cup {m}
    /\ UNCHANGED <<db, sending, clientVars, historyVars>>

\* The web's Send: the mail is saved and answered for ...
WebSend(c, m) ==
    /\ step[c] = "idle"
    /\ m \notin saved
    /\ email' = email \cup {m}
    /\ saved' = saved \cup {m}
    /\ sending' = sending \cup {<<m, owner[c]>>}
    /\ UNCHANGED <<db, user_email, lastId, clientVars, historyVars>>

\* A relation on its own: COPY, or the end of the web's Send.
InsertRelation(u, m) ==
    /\ lastId < MaxRelation
    /\ lastId' = lastId + 1
    /\ user_email' = user_email \cup {[id |-> lastId + 1, user |-> u, mail |-> m]}
    /\ late' = late \cup {lastId + 1}

\* ... and its sender gets a relation when the delivery is over; an error of
\* this insert is ignored.
WebSent(m, u) ==
    /\ <<m, u>> \in sending
    /\ sending' = sending \ {<<m, u>>}
    /\ \/ InsertRelation(u, m) /\ UNCHANGED aborted
       \/ /\ aborted' = aborted \cup {m}
          /\ UNCHANGED <<user_email, lastId, late>>
    /\ UNCHANGED <<db, email, saved, clientVars, overlapped>>
-----------------------------------------------------------------------------
\* DelByUID: every statement commits by itself

Delete(c, list) ==
    /\ step[c] = "idle"
    /\ list # <<>>
    /\ Goto(c, "lookup")
    /\ ids' = [ids EXCEPT ![c] = list]
    /\ UNCHANGED <<db, storeVars, ue, undone, historyVars>>

\* UID EXPUNGE first:last
Expunge(c, first, last) ==
    /\ last - first < MaxList
    /\ Delete(c, [i \in 1..(last + 1 - first) |-> first + i - 1])

\* STORE +FLAGS \Deleted: the relations that a listing shows for the messages.
Store(c, shown) ==
    /\ \A i \in DOMAIN shown : shown[i] \in Owned(c) /\ shown[i].mail \in email
    /\ Delete(c, [i \in DOMAIN shown |-> shown[i].id])

\* The relation is read; none found, or an error of the query, ends the
\* command with success.
Lookup(c) ==
    /\ step[c] = "lookup"
    /\ ids[c] # <<>>
    /\ \/ \E r \in Owned(c) :
            /\ r.id = Head(ids[c])
            /\ ue' = [ue EXCEPT ![c] = r]
            /\ Goto(c, "drop")
            /\ Advance(c)
            /\ UNCHANGED undone
       \/ Answer(c)
    /\ UNCHANGED <<db, storeVars, historyVars>>

Drop(c) ==
    /\ step[c] = "drop"
    /\ ue[c] \notin Locked(c)
    /\ \/ /\ user_email' = user_email \ {ue[c]}
          /\ Goto(c, "count")
          /\ UNCHANGED <<ids, ue, undone>>
       \/ Answer(c) /\ UNCHANGED user_email
    /\ UNCHANGED <<db, email, lastId, saved, sending, historyVars>>

\* mutant: the relations of other users are not counted
Left_Own(c, m) == {r \in Owned(c) : r.mail = m} \ undone[c].relations

\* Relations to the mail that a count in c's session sees.
Left(c, m) == {r \in user_email : r.mail = m} \ undone[c].relations

\* History: somebody has deleted, and not committed, a relation to the mail.
NoteOverlap(c, m) ==
    overlapped' = IF \E r \in Locked(c) : r.mail = m THEN overlapped \cup {m}
                                                    ELSE overlapped

Count(c) ==
    /\ step[c] = "count"
    /\ \/ /\ Goto(c, IF Left(c, ue[c].mail) = {} THEN "reap" ELSE "lookup")
          /\ NoteOverlap(c, ue[c].mail)
          /\ UNCHANGED <<ids, ue, undone, aborted>>
       \/ /\ Answer(c)
          /\ aborted' = aborted \cup {ue[c].mail}
          /\ UNCHANGED overlapped
    /\ UNCHANGED <<db, storeVars, late>>

\* mutant: the email row is left behind
EmailAfter_Kept(m) == email

EmailAfter(m) == email \ {m}

\* An error of this delete is logged and the command goes on.
Reap(c) ==
    /\ step[c] = "reap"
    /\ \/ email' = EmailAfter(ue[c].mail) /\ UNCHANGED aborted
       \/ aborted' = aborted \cup {ue[c].mail} /\ UNCHANGED email
    /\ Goto(c, "lookup")
    /\ UNCHANGED <<db, user_email, lastId, saved, sending, ids, ue, undone,
                   late, overlapped>>

Deleted(c) ==
    /\ step[c] = "lookup"
    /\ ids[c] = <<>>
    /\ Answer(c)
    /\ UNCHANGED <<db, storeVars, historyVars>>

-----------------------------------------------------------------------------
\* IMAP COPY: the messages are listed, then a relation is inserted for each

Copy(c, mails) ==
    /\ step[c] = "idle"
    /\ \A i \in DOMAIN mails :
         mails[i] \in email /\ \E r \in Owned(c) : r.mail = mails[i]
    /\ Goto(c, "copy")
    /\ ids' = [ids EXCEPT ![c] = mails]
    /\ UNCHANGED <<db, storeVars, ue, undone, historyVars>>

\* Errors of the insert are ignored.
CopyOne(c) ==
    /\ step[c] = "copy"
    /\ ids[c] # <<>>
    /\ \/ InsertRelation(owner[c], Head(ids[c]))
       \/ UNCHANGED <<user_email, lastId, late>>
    /\ Advance(c)
    /\ UNCHANGED <<db, email, saved, sending, step, ue, undone, aborted, overlapped>>

Copied(c) ==
    /\ step[c] = "copy"
    /\ ids[c] = <<>>
    /\ Answer(c)
    /\ UNCHANGED <<db, storeVars, historyVars>>

-----------------------------------------------------------------------------
\* DelEmail(ids, forced): one transaction

ForceBegin(c, mails) ==
    /\ step[c] = "idle"
    /\ \A i \in DOMAIN mails : mails[i] \in saved
    /\ Goto(c, "force")
    /\ ids' = [ids EXCEPT ![c] = mails]
    /\ UNCHANGED <<db, storeVars, ue, undone, historyVars>>

ForceDrop(c) ==
    /\ step[c] = "force"
    /\ ids[c] # <<>>
    /\ LET mine == {r \in Owned(c) : r.mail = Head(ids[c])}
       IN /\ mine \cap Locked(c) = {}
          /\ undone' = [undone EXCEPT ![c].relations = @ \cup mine]
    /\ Goto(c, "forceCount")
    /\ UNCHANGED <<db, storeVars, ids, ue, historyVars>>

ForceCount(c) ==
    /\ step[c] = "forceCount"
    /\ LET m == Head(ids[c])
       IN /\ undone' = [undone EXCEPT
                ![c].mails = IF Left(c, m) = {} THEN @ \cup {m} ELSE @]
          /\ NoteOverlap(c, m)
    /\ Goto(c, "force")
    /\ Advance(c)
    /\ UNCHANGED <<db, storeVars, ue, late, aborted>>

ForceCommit(c) ==
    /\ step[c] = "force"
    /\ ids[c] = <<>>
    /\ user_email' = user_email \ undone[c].relations
    /\ email' = email \ undone[c].mails
    /\ Answer(c)
    /\ UNCHANGED <<db, lastId, saved, sending, historyVars>>

\* A statement or the COMMIT fails.
ForceRollback(c) ==
    /\ step[c] \in {"force", "forceCount"}
    /\ Answer(c)
    /\ UNCHANGED <<db, storeVars, historyVars>>

-----------------------------------------------------------------------------
\* The server stops: what was committed stays.
Crash ==
    /\ step' = [c \in Client |-> "idle"]
    /\ ids' = [c \in Client |-> <<>>]
    /\ ue' = [c \in Client |-> None]
    /\ undone' = [c \in Client |-> Nothing]
    /\ sending' = {}
    /\ aborted' = aborted
         \cup {ue[c].mail : c \in {d \in Client : step[d] \in {"count", "reap"}}}
         \cup {s[1] : s \in sending}
    /\ UNCHANGED <<db, email, user_email, lastId, saved, late, overlapped>>

\* Commands are finished once they are begun.
Work(c) ==
    /\ Connection(Client \ {c})
    /\ \/ Lookup(c) \/ Drop(c) \/ Count(c) \/ Reap(c) \/ Deleted(c)
       \/ CopyOne(c) \/ Copied(c)
       \/ ForceDrop(c) \/ ForceCount(c) \/ ForceCommit(c) \/ ForceRollback(c)

Lists == UNION {{l \in [1..n -> Mail] : \A i, j \in 1..n : i # j => l[i] # l[j]}
                : n \in 1..MaxList}

Command(c) ==
    /\ Connection(Client \ {c})
    /\ \/ \E first, last \in Id : first <= last /\ Expunge(c, first, last)
       \/ \E n \in 1..MaxList : \E shown \in [1..n -> user_email] : Store(c, shown)
       \/ \E mails \in Lists : Copy(c, mails) \/ ForceBegin(c, mails)

Arrive(m) ==
    /\ Connection(Client)
    /\ \/ \E users \in SUBSET User : Deliver(m, users)
       \/ \E c \in Client : WebSend(c, m)

Sent(m) == Connection(Client) /\ \E u \in User : WebSent(m, u)

Next ==
    \/ \E m \in Mail : Arrive(m) \/ Sent(m)
    \/ \E c \in Client : Command(c) \/ Work(c)
    \/ Crash

Spec == Init /\ [][Next]_vars

-----------------------------------------------------------------------------
\* Properties

\* A relation that was inserted along with its mail has its mail: no deletion by
\* one user, at whatever moment, takes a mail from under another user.  Only a
\* relation inserted on its own, by COPY or the end of a web Send, can be left
\* without one.
DanglingIsExplained ==
    \A r \in user_email : r.mail \in email \/ r.id \in late

\* A mail that nobody has is on its way out or to its sender, unless an
\* operation on it broke off or two transactions did not see each other.
OrphanIsExplained ==
    \A m \in email :
        \/ \E r \in user_email : r.mail = m
        \/ \E c \in Client : step[c] \in {"count", "reap"} /\ ue[c].mail = m
        \/ \E u \in User : <<m, u>> \in sending
        \/ m \in aborted \/ (db = "networked" /\ m \in overlapped)

\* An email row goes when nobody has a right to it any more (del_email.go:
\* "check whether somebody still has permission to the email", in Chinese).
ReapedIsUnowned ==
    [][\A m \in email \ email' : \A r \in user_email' : r.mail # m]_vars
=============================================================================
