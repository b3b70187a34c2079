-------------------------- MODULE MailStoreProofs --------------------------
(***************************************************************************)
(* Proofs about MailStore, for any users, connections, mails and bounds.   *)
(*                                                                         *)
(* That no deletion takes a mail from under a delivered relation is not    *)
(* inductive: the decision to delete a mail is taken by a count and carried*)
(* out later.  IInv says what stays true of a decision once it is taken:   *)
(* every relation to the mail that appears after the count is late.        *)
(***************************************************************************)
EXTENDS MailStore, FiniteSetTheorems, TLAPS

\* Every relation is to a mail that was saved.
Stored == \A r \in user_email : r.mail \in saved

\* The relation DelByUID works on was one.
Working(c) ==
    step[c] \in {"drop", "count", "reap"} => ue[c] # None /\ ue[c].mail \in saved

\* DelEmail works on mails that were saved; nothing is undone outside it.
Forcing(c) ==
    /\ step[c] \in {"force", "forceCount"} =>
          /\ ids[c] \in Seq(Mail)
          /\ \A i \in 1..Len(ids[c]) : ids[c][i] \in saved
    /\ step[c] = "forceCount" => ids[c] # <<>>
    /\ step[c] \notin {"force", "forceCount"} => undone[c] = Nothing
    /\ undone[c].mails \subseteq saved

\* COPY works through a list of mails that were saved.
Copying(c) ==
    step[c] = "copy" =>
        /\ ids[c] \in Seq(Mail)
        /\ \A i \in 1..Len(ids[c]) : ids[c][i] \in saved

\* DelByUID is about to delete a mail: relations to it are late.
Reaping(c) ==
    step[c] = "reap" =>
        \A r \in user_email : r.mail = ue[c].mail => r.id \in late

\* DelEmail has deleted a mail: the relations it will leave to it are late.
Committing(c) ==
    \A r \in user_email \ undone[c].relations :
        r.mail \in undone[c].mails => r.id \in late

ClientInv(c) ==
    Working(c) /\ Copying(c) /\ Forcing(c) /\ Reaping(c) /\ Committing(c)

IInv ==
    /\ TypeOK
    /\ Stored
    /\ \A c \in Client : ClientInv(c)
    /\ DanglingIsExplained

-----------------------------------------------------------------------------
LEMMA TypeInit == Init => TypeOK
<1> SUFFICES ASSUME Init PROVE TypeOK
  OBVIOUS
<1>1. <<>> \in Seq(Id)
  OBVIOUS
<1>2. Nothing \in [relations : SUBSET Relation, mails : SUBSET Mail]
  BY DEF Nothing
<1> QED
  BY <1>1, <1>2, StoreAssumption DEF Init, TypeOK

\* The ids of a list in progress stay ids.
LEMMA TailType ==
    ASSUME NEW S, NEW T, NEW s \in Seq(S) \cup Seq(T), s # <<>>
    PROVE  Tail(s) \in Seq(S) \cup Seq(T)
<1>1. CASE s \in Seq(S)
  BY <1>1
<1>2. CASE s \in Seq(T)
  BY <1>2
<1> QED
  BY <1>1, <1>2

LEMMA AnswerType ==
    ASSUME TypeOK, NEW c \in Client, Answer(c)
    PROVE  /\ step' \in [Client -> {"idle", "lookup", "drop", "count", "reap", "copy",
                                    "force", "forceCount"}]
           /\ ids' \in [Client -> Seq(Id) \cup Seq(Mail)]
           /\ ue' \in [Client -> Relation \cup {None}]
           /\ undone' \in [Client -> [relations : SUBSET Relation, mails : SUBSET Mail]]
<1>1. <<>> \in Seq(Id)
  OBVIOUS
<1>2. Nothing \in [relations : SUBSET Relation, mails : SUBSET Mail]
  BY DEF Nothing
<1> QED
  BY <1>1, <1>2 DEF TypeOK, Answer, Goto

LEMMA DeleteType ==
    ASSUME TypeOK, NEW c \in Client, NEW list \in Seq(Id), Delete(c, list)
    PROVE  TypeOK'
<1>1. ids' \in [Client -> Seq(Id) \cup Seq(Mail)]
  BY DEF TypeOK, Delete
<1>2. step' \in [Client -> {"idle", "lookup", "drop", "count", "reap", "copy",
                            "force", "forceCount"}]
  BY DEF TypeOK, Delete, Goto
<1> QED
  BY <1>1, <1>2 DEF TypeOK, Delete, storeVars, historyVars

LEMMA InsertType ==
    ASSUME TypeOK, NEW u \in User, NEW m \in Mail, InsertRelation(u, m)
    PROVE  /\ user_email' \subseteq Relation
           /\ lastId' \in 0..MaxRelation
           /\ late' \subseteq Id
<1>1. lastId + 1 \in Id
  BY StoreAssumption DEF TypeOK, InsertRelation, Id
<1> QED
  BY <1>1, StoreAssumption DEF TypeOK, InsertRelation, Relation, Id

LEMMA ListType == Lists \subseteq Seq(Mail)
<1> SUFFICES ASSUME NEW n \in 1..MaxList, NEW l \in [1..n -> Mail]
             PROVE  l \in Seq(Mail)
  BY DEF Lists
<1> QED
  BY StoreAssumption

LEMMA CommandType ==
    ASSUME TypeOK, NEW c \in Client, Command(c)
    PROVE  TypeOK'
<1>1. CASE \E first, last \in Id : first <= last /\ Expunge(c, first, last)
  <2>1. PICK first \in Id, last \in Id : first <= last /\ Expunge(c, first, last)
    BY <1>1
  <2> DEFINE list == [i \in 1..(last + 1 - first) |-> first + i - 1]
  <2>2. list \in Seq(Id)
    BY <2>1, StoreAssumption DEF Id
  <2> HIDE DEF list
  <2> QED
    BY <2>1, <2>2, DeleteType DEF Expunge, list
<1>2. CASE \E n \in 1..MaxList : \E shown \in [1..n -> user_email] : Store(c, shown)
  <2>0. PICK n \in 1..MaxList : \E shown \in [1..n -> user_email] : Store(c, shown)
    BY <1>2
  <2>1. PICK shown \in [1..n -> user_email] : Store(c, shown)
    BY <2>0
  <2> DEFINE list == [i \in DOMAIN shown |-> shown[i].id]
  <2>2. \A i \in 1..n : shown[i].id \in Id
    BY DEF TypeOK, Relation
  <2>3. list \in Seq(Id)
    BY <2>2, StoreAssumption
  <2> HIDE DEF list
  <2> QED
    BY <2>1, <2>3, DeleteType DEF Store, list
<1>3. CASE \E mails \in Lists : Copy(c, mails) \/ ForceBegin(c, mails)
  <2>1. PICK mails \in Lists : Copy(c, mails) \/ ForceBegin(c, mails)
    BY <1>3
  <2>2. mails \in Seq(Mail)
    BY ListType
  <2> QED
    BY <2>1, <2>2 DEF TypeOK, Copy, ForceBegin, Goto, storeVars, historyVars
<1> QED
  BY <1>1, <1>2, <1>3 DEF Command

LEMMA WorkType ==
    ASSUME TypeOK, NEW c \in Client, ClientInv(c), Work(c)
    PROVE  TypeOK'
<1> USE DEF storeVars, historyVars, Goto, ClientInv
<1>1. CASE Lookup(c)
  <2>1. CASE Answer(c)
    BY <1>1, <2>1, AnswerType DEF Lookup, TypeOK
  <2>2. CASE ~Answer(c)
    <3>1. PICK r \in Owned(c) :
             /\ ue' = [ue EXCEPT ![c] = r]
             /\ step' = [step EXCEPT ![c] = "drop"]
             /\ Advance(c)
             /\ UNCHANGED undone
      BY <1>1, <2>2 DEF Lookup
    <3>2. ids' \in [Client -> Seq(Id) \cup Seq(Mail)]
      <4>1. Tail(ids[c]) \in Seq(Id) \cup Seq(Mail)
        BY <1>1, TailType DEF Lookup, TypeOK
      <4> QED
        BY <3>1, <4>1 DEF Advance, TypeOK
    <3>3. ue' \in [Client -> Relation \cup {None}]
      BY <3>1 DEF Owned, TypeOK
    <3> QED
      BY <1>1, <3>1, <3>2, <3>3 DEF Lookup, TypeOK
  <2> QED
    BY <2>1, <2>2
<1>2. CASE Drop(c)
  <2>1. CASE Answer(c)
    BY <1>2, <2>1, AnswerType DEF Drop, TypeOK
  <2>2. CASE ~Answer(c)
    BY <1>2, <2>2 DEF Drop, TypeOK
  <2> QED
    BY <2>1, <2>2
<1>3. CASE Count(c)
  <2>1. ue[c].mail \in Mail
    BY <1>3 DEF Count, Working, TypeOK
  <2>2. overlapped' \subseteq Mail
    BY <1>3, <2>1 DEF Count, NoteOverlap, TypeOK
  <2>3. CASE Answer(c)
    BY <1>3, <2>1, <2>2, <2>3, AnswerType DEF Count, TypeOK
  <2>4. CASE ~Answer(c)
    BY <1>3, <2>2, <2>4 DEF Count, TypeOK
  <2> QED
    BY <2>3, <2>4
<1>4. CASE Reap(c)
  <2>1. ue[c].mail \in Mail
    BY <1>4 DEF Reap, Working, TypeOK
  <2> QED
    BY <1>4, <2>1 DEF Reap, EmailAfter, TypeOK
<1>5. CASE Deleted(c)
  BY <1>5, AnswerType DEF Deleted, TypeOK
<1>6. CASE CopyOne(c)
  <2>1. Tail(ids[c]) \in Seq(Id) \cup Seq(Mail)
    BY <1>6, TailType DEF CopyOne, TypeOK
  <2>2. ids' \in [Client -> Seq(Id) \cup Seq(Mail)]
    BY <1>6, <2>1 DEF CopyOne, Advance, TypeOK
  <2>3. CASE UNCHANGED <<user_email, lastId, late>>
    BY <1>6, <2>2, <2>3 DEF CopyOne, TypeOK
  <2>4. CASE InsertRelation(owner[c], Head(ids[c]))
    <3>1. owner[c] \in User /\ Head(ids[c]) \in Mail
      BY <1>6, StoreAssumption DEF CopyOne, Copying
    <3> QED
      BY <1>6, <2>2, <2>4, <3>1, InsertType DEF CopyOne, TypeOK
  <2> QED
    BY <1>6, <2>3, <2>4 DEF CopyOne
<1>7. CASE Copied(c)
  BY <1>7, AnswerType DEF Copied, TypeOK
<1>8. CASE ForceDrop(c)
  <2>1. {r \in Owned(c) : r.mail = Head(ids[c])} \subseteq Relation
    BY DEF Owned, TypeOK
  <2> QED
    BY <1>8, <2>1 DEF ForceDrop, TypeOK
<1>9. CASE ForceCount(c)
  <2>1. Head(ids[c]) \in Mail /\ Tail(ids[c]) \in Seq(Mail)
    BY <1>9 DEF ForceCount, Forcing
  <2>2. overlapped' \subseteq Mail
    BY <1>9, <2>1 DEF ForceCount, NoteOverlap, TypeOK
  <2>3. undone' \in [Client -> [relations : SUBSET Relation, mails : SUBSET Mail]]
    BY <1>9, <2>1 DEF ForceCount, TypeOK
  <2> QED
    BY <1>9, <2>1, <2>2, <2>3 DEF ForceCount, Advance, TypeOK
<1>10. CASE ForceCommit(c)
  BY <1>10, AnswerType DEF ForceCommit, TypeOK
<1>11. CASE ForceRollback(c)
  BY <1>11, AnswerType DEF ForceRollback, TypeOK
<1> QED
  BY <1>1, <1>2, <1>3, <1>4, <1>5, <1>6, <1>7, <1>8, <1>9, <1>10, <1>11 DEF Work
LEMMA ArriveType ==
    ASSUME TypeOK, NEW m \in Mail, Arrive(m) \/ Sent(m)
    PROVE  TypeOK'
<1> USE DEF storeVars, clientVars, historyVars
<1>1. CASE Arrive(m)
  <2>1. CASE \E users \in SUBSET User : Deliver(m, users)
    <3>1. PICK users \in SUBSET User : Deliver(m, users)
      BY <2>1
    <3> DEFINE n == Cardinality(users)
    <3>2. n \in Nat
      BY FS_Subset, FS_CardinalityType, StoreAssumption
    <3>3. PICK id \in [users -> (lastId + 1)..(lastId + n)] :
             user_email' = user_email \cup
                {[id |-> id[u], user |-> u, mail |-> m] : u \in users}
      BY <3>1 DEF Deliver
    <3>4. lastId + n \in 0..MaxRelation
      BY <3>1, <3>2, StoreAssumption DEF Deliver, TypeOK
    <3>5. \A u \in users : id[u] \in Id
      BY <3>2, <3>4, StoreAssumption DEF Id, TypeOK
    <3>6. user_email' \subseteq Relation
      BY <3>3, <3>5 DEF TypeOK, Relation
    <3> QED
      BY <3>1, <3>4, <3>6 DEF Deliver, TypeOK
  <2>2. CASE \E c \in Client : WebSend(c, m)
    BY <2>2, StoreAssumption DEF WebSend, TypeOK
  <2> QED
    BY <1>1, <2>1, <2>2 DEF Arrive
<1>2. CASE Sent(m)
  <2>1. PICK u \in User : WebSent(m, u)
    BY <1>2 DEF Sent
  <2>2. user_email' \subseteq Relation /\ lastId' \in 0..MaxRelation /\ late' \subseteq Id
    BY <2>1, InsertType DEF WebSent, TypeOK
  <2> QED
    BY <2>1, <2>2 DEF WebSent, TypeOK
<1> QED
  BY <1>1, <1>2

LEMMA CrashType ==
    ASSUME TypeOK, \A c \in Client : Working(c), Crash
    PROVE  TypeOK'
<1>2. <<>> \in Seq(Id)
  OBVIOUS
<1>3. Nothing \in [relations : SUBSET Relation, mails : SUBSET Mail]
  BY DEF Nothing
<1>4. aborted' \subseteq Mail
  BY DEF Crash, TypeOK, Working
<1> QED
  BY <1>2, <1>3, <1>4 DEF Crash, TypeOK

-----------------------------------------------------------------------------
\* What every step does to the store: mails and history only grow, and a new
\* relation is late or to a mail that was not saved before.
Grows ==
    /\ saved \subseteq saved'
    /\ late \subseteq late'
    /\ \A r \in user_email' : r \in user_email \/ r.id \in late' \/ r.mail \notin saved

\* A connection that did nothing keeps its invariant.
LEMMA Frame ==
    ASSUME NEW d \in Client, ClientInv(d), Grows,
           step'[d] = step[d], ids'[d] = ids[d], ue'[d] = ue[d], undone'[d] = undone[d]
    PROVE  ClientInv(d)'
<1>1. Working(d)'
  BY DEF ClientInv, Grows, Working
<1>2. Copying(d)'
  BY DEF ClientInv, Grows, Copying
<1>3. Forcing(d)'
  BY DEF ClientInv, Grows, Forcing
<1>4. Reaping(d)'
  BY DEF ClientInv, Grows, Reaping, Working
<1>5. Committing(d)'
  BY DEF ClientInv, Grows, Committing, Forcing
<1> QED
  BY <1>1, <1>2, <1>3, <1>4, <1>5 DEF ClientInv

\* An idle connection has nothing to keep.
LEMMA Idling ==
    ASSUME NEW c \in Client, step'[c] = "idle", undone'[c] = Nothing
    PROVE  ClientInv(c)'
BY DEF ClientInv, Working, Copying, Forcing, Reaping, Committing, Nothing

LEMMA Answered ==
    ASSUME TypeOK, NEW c \in Client, Answer(c)
    PROVE  /\ ClientInv(c)'
           /\ \A d \in Client \ {c} :
                /\ step'[d] = step[d] /\ ids'[d] = ids[d]
                /\ ue'[d] = ue[d] /\ undone'[d] = undone[d]
<1>1. step'[c] = "idle" /\ undone'[c] = Nothing
  BY DEF Answer, Goto, TypeOK
<1>2. ClientInv(c)'
  BY <1>1, Idling
<1> QED
  BY <1>2 DEF Answer, Goto, TypeOK
-----------------------------------------------------------------------------
\* One lemma per kind of step: what it does to the store, to the connection that
\* takes it and to the others.
OthersKept(c) ==
    \A d \in Client \ {c} :
        /\ step'[d] = step[d] /\ ids'[d] = ids[d]
        /\ ue'[d] = ue[d] /\ undone'[d] = undone[d]

LEMMA CommandStep ==
    ASSUME IInv, NEW c \in Client, Command(c)
    PROVE  Grows /\ OthersKept(c) /\ ClientInv(c)' /\ DanglingIsExplained'
<1> USE DEF storeVars, historyVars, Goto
<1>1. ClientInv(c) /\ TypeOK /\ DanglingIsExplained
  BY DEF IInv
<1>2. UNCHANGED <<storeVars, historyVars, ue, undone>>
  BY DEF Command, Expunge, Store, Delete, Copy, ForceBegin
<1>3. Grows /\ DanglingIsExplained'
  BY <1>1, <1>2 DEF Grows, DanglingIsExplained
<1>4. step[c] = "idle" /\ undone[c] = Nothing
  BY <1>1 DEF Command, Expunge, Store, Delete, Copy, ForceBegin, ClientInv, Forcing
<1>5. OthersKept(c)
  BY <1>1, <1>2 DEF Command, Expunge, Store, Delete, Copy, ForceBegin, OthersKept, TypeOK
<1>6. undone'[c] = Nothing
  BY <1>2, <1>4
<1>7. ASSUME step'[c] = "lookup" PROVE ClientInv(c)'
  BY <1>6, <1>7 DEF ClientInv, Working, Copying, Forcing, Reaping, Committing, Nothing
<1>8. ASSUME step'[c] # "lookup" PROVE ClientInv(c)'
  <2>1. PICK mails \in Lists : Copy(c, mails) \/ ForceBegin(c, mails)
    BY <1>1, <1>8 DEF Command, Expunge, Store, Delete, TypeOK
  <2>2. mails \in Seq(Mail) /\ ids'[c] = mails /\ step'[c] \in {"copy", "force"}
    BY <1>1, <2>1, ListType DEF Copy, ForceBegin, TypeOK
  <2>3. \A i \in 1..Len(mails) : mails[i] \in saved
    BY <1>1, <2>1, <2>2 DEF Copy, ForceBegin, TypeOK
  <2> QED
    BY <1>2, <1>6, <2>2, <2>3
       DEF ClientInv, Working, Copying, Forcing, Reaping, Committing, Nothing
<1> QED
  BY <1>3, <1>5, <1>7, <1>8

LEMMA ArriveStep ==
    ASSUME IInv, NEW m \in Mail, Arrive(m) \/ Sent(m)
    PROVE  /\ Grows /\ UNCHANGED <<step, ids, ue, undone>>
           /\ Stored' /\ DanglingIsExplained'
<1> USE DEF clientVars, historyVars
<1>1. TypeOK /\ Stored /\ DanglingIsExplained
  BY DEF IInv
<1>2. CASE Arrive(m)
  <2>1. /\ saved' = saved \cup {m} /\ email' = email \cup {m}
        /\ m \notin saved /\ late' = late
        /\ \A r \in user_email' : r \in user_email \/ r.mail = m
    BY <1>2 DEF Arrive, Deliver, WebSend
  <2> QED
    BY <1>1, <1>2, <2>1 DEF Arrive, Deliver, WebSend, Grows, Stored, DanglingIsExplained
<1>3. CASE Sent(m)
  <2>1. /\ saved' = saved /\ email' = email /\ late \subseteq late' /\ m \in saved
        /\ \A r \in user_email' : r \in user_email \/ (r.id \in late' /\ r.mail = m)
    BY <1>1, <1>3 DEF Sent, WebSent, InsertRelation, TypeOK
  <2> QED
    BY <1>1, <1>3, <2>1 DEF Sent, WebSent, Grows, Stored, DanglingIsExplained
<1> QED
  BY <1>2, <1>3

LEMMA CrashStep ==
    ASSUME IInv, Crash
    PROVE  /\ Grows /\ Stored' /\ DanglingIsExplained'
           /\ \A c \in Client : ClientInv(c)'
<1>1. Grows /\ Stored' /\ DanglingIsExplained'
  BY DEF IInv, Crash, Grows, Stored, DanglingIsExplained
<1>2. \A c \in Client : step'[c] = "idle" /\ undone'[c] = Nothing
  BY DEF Crash
<1> QED
  BY <1>1, <1>2, Idling

\* The statements of DelByUID.
LEMMA DeleteStep ==
    ASSUME IInv, NEW c \in Client,
           Lookup(c) \/ Drop(c) \/ Count(c) \/ Reap(c) \/ Deleted(c)
    PROVE  Grows /\ OthersKept(c) /\ ClientInv(c)' /\ Stored' /\ DanglingIsExplained'
<1> USE DEF storeVars, historyVars, Goto, Advance
<1>1. TypeOK /\ Stored /\ DanglingIsExplained /\ ClientInv(c)
  BY DEF IInv
<1>2. saved' = saved /\ late' = late /\ user_email' \subseteq user_email
  BY DEF Lookup, Drop, Count, Reap, Deleted
<1>3. Grows /\ Stored'
  BY <1>1, <1>2 DEF Grows, Stored
<1>4. OthersKept(c)
  BY <1>1 DEF Lookup, Drop, Count, Reap, Deleted, Answer, OthersKept, TypeOK
<1>5. undone[c] = Nothing
  BY <1>1 DEF Lookup, Drop, Count, Reap, Deleted, ClientInv, Forcing
<1>6. ASSUME Answer(c) PROVE ClientInv(c)'
  BY <1>1, <1>6, Answered
<1>7. undone'[c] = Nothing
  BY <1>1, <1>5 DEF Lookup, Drop, Count, Reap, Deleted, Answer, TypeOK
<1>8. ASSUME ~Answer(c) PROVE ClientInv(c)'
  <2>1. Working(c)'
    BY <1>1, <1>2, <1>8, NoneAssumption
       DEF Lookup, Drop, Count, Reap, Deleted, ClientInv, Working, Owned, Stored, TypeOK
  <2>2. step'[c] \in {"lookup", "drop", "count", "reap"}
    BY <1>1, <1>8 DEF Lookup, Drop, Count, Reap, Deleted, TypeOK
  <2>3. Reaping(c)'
    <3>1. CASE Count(c) /\ step'[c] = "reap"
      <4>1. Left(c, ue[c].mail) = {} /\ ue' = ue
        BY <1>1, <1>8, <3>1 DEF Count, TypeOK
      <4> QED
        BY <1>2, <1>5, <3>1, <4>1 DEF Left, Nothing, Reaping
    <3>2. CASE step'[c] # "reap"
      BY <3>2 DEF Reaping
    <3>3. CASE ~Count(c) /\ step'[c] = "reap"
      BY <1>1, <1>8, <3>3 DEF Lookup, Drop, Reap, Deleted, TypeOK
    <3> QED
      BY <3>1, <3>2, <3>3
  <2> QED
    BY <1>7, <2>1, <2>2, <2>3 DEF ClientInv, Copying, Forcing, Committing, Nothing
<1>9. DanglingIsExplained'
  <2>1. CASE Reap(c)
    BY <1>1, <1>2, <2>1 DEF Reap, EmailAfter, ClientInv, Reaping, DanglingIsExplained
  <2>2. CASE ~Reap(c)
    BY <1>1, <1>2, <2>2 DEF Lookup, Drop, Count, Deleted, DanglingIsExplained
  <2> QED
    BY <2>1, <2>2
<1> QED
  BY <1>3, <1>4, <1>6, <1>8, <1>9

\* The inserts of COPY.
LEMMA CopyStep ==
    ASSUME IInv, NEW c \in Client, CopyOne(c) \/ Copied(c)
    PROVE  Grows /\ OthersKept(c) /\ ClientInv(c)' /\ DanglingIsExplained'
<1> USE DEF storeVars, historyVars, Goto, Advance
<1>1. TypeOK /\ DanglingIsExplained /\ ClientInv(c)
  BY DEF IInv
<1>2. CASE CopyOne(c)
  <2>1. /\ late \subseteq late' /\ saved' = saved /\ email' = email
        /\ \A r \in user_email' : r \in user_email \/ r.id \in late'
    BY <1>2 DEF CopyOne, InsertRelation
  <2>2. Grows /\ DanglingIsExplained'
    BY <1>1, <2>1 DEF Grows, DanglingIsExplained
  <2>3. OthersKept(c)
    BY <1>1, <1>2 DEF CopyOne, OthersKept, TypeOK
  <2>4. /\ ids'[c] = Tail(ids[c]) /\ step'[c] = "copy" /\ undone'[c] = Nothing
        /\ ids[c] \in Seq(Mail) /\ ids[c] # <<>>
        /\ \A i \in 1..Len(ids[c]) : ids[c][i] \in saved
    BY <1>1, <1>2 DEF CopyOne, ClientInv, Copying, Forcing, TypeOK
  <2>5. ids'[c] \in Seq(Mail) /\ \A i \in 1..Len(ids'[c]) : ids'[c][i] \in saved'
    BY <2>1, <2>4
  <2> QED
    BY <2>2, <2>3, <2>4, <2>5
       DEF ClientInv, Working, Copying, Forcing, Reaping, Committing, Nothing
<1>3. CASE Copied(c)
  BY <1>1, <1>3, Answered DEF Copied, Grows, OthersKept, DanglingIsExplained
<1> QED
  BY <1>2, <1>3

\* The statements of DelEmail.
LEMMA ForceStep ==
    ASSUME IInv, NEW c \in Client,
           ForceDrop(c) \/ ForceCount(c) \/ ForceCommit(c) \/ ForceRollback(c)
    PROVE  Grows /\ OthersKept(c) /\ ClientInv(c)' /\ Stored' /\ DanglingIsExplained'
<1> USE DEF storeVars, historyVars, Goto, Advance
<1>1. TypeOK /\ Stored /\ DanglingIsExplained /\ ClientInv(c)
  BY DEF IInv
<1>2. saved' = saved /\ late' = late /\ user_email' \subseteq user_email
  BY DEF ForceDrop, ForceCount, ForceCommit, ForceRollback
<1>3. Grows /\ Stored'
  BY <1>1, <1>2 DEF Grows, Stored
<1>4. OthersKept(c)
  BY <1>1 DEF ForceDrop, ForceCount, ForceCommit, ForceRollback, Answer, OthersKept, TypeOK
<1>5. CASE ForceDrop(c)
  <2>1. /\ step'[c] = "forceCount" /\ ids' = ids /\ ids[c] # <<>>
        /\ undone'[c].mails = undone[c].mails
        /\ undone[c].relations \subseteq undone'[c].relations
        /\ user_email' = user_email /\ email' = email /\ step[c] = "force"
    BY <1>1, <1>5 DEF ForceDrop, TypeOK
  <2>2. Forcing(c)'
    BY <1>1, <1>2, <2>1 DEF ClientInv, Forcing
  <2>3. Committing(c)'
    BY <1>1, <1>2, <2>1 DEF ClientInv, Committing
  <2> QED
    BY <1>1, <1>2, <1>3, <1>4, <2>1, <2>2, <2>3
       DEF ClientInv, Working, Copying, Reaping, DanglingIsExplained
<1>6. CASE ForceCount(c)
  <2> DEFINE m == Head(ids[c])
  <2>1. ids[c] \in Seq(Mail) /\ ids[c] # <<>> /\ m \in saved
    BY <1>1, <1>6 DEF ForceCount, ClientInv, Forcing
  <2>2. /\ step'[c] = "force" /\ ids'[c] = Tail(ids[c])
        /\ undone'[c].mails \subseteq undone[c].mails \cup {m}
        /\ undone'[c].relations = undone[c].relations
        /\ user_email' = user_email /\ email' = email
        /\ m \in undone'[c].mails =>
              Left(c, m) = {} \/ undone'[c].mails = undone[c].mails
    BY <1>1, <1>6 DEF ForceCount, TypeOK
  <2>3. Forcing(c)'
    <3>1. \A i \in 1..Len(Tail(ids[c])) : Tail(ids[c])[i] \in saved
      BY <1>1, <1>6, <2>1 DEF ForceCount, ClientInv, Forcing
    <3> QED
      BY <1>1, <1>2, <2>1, <2>2, <3>1 DEF ClientInv, Forcing
  <2>4. Committing(c)'
    BY <1>1, <1>2, <2>2 DEF ClientInv, Committing, Left
  <2> QED
    BY <1>1, <1>2, <1>3, <1>4, <2>2, <2>3, <2>4
       DEF ClientInv, Working, Copying, Reaping, DanglingIsExplained
<1>7. CASE ForceCommit(c)
  <2>1. ClientInv(c)'
    BY <1>1, <1>7, Answered DEF ForceCommit
  <2>2. DanglingIsExplained'
    BY <1>1, <1>2, <1>7 DEF ForceCommit, ClientInv, Committing, DanglingIsExplained
  <2> QED
    BY <1>3, <1>4, <2>1, <2>2
<1>8. CASE ForceRollback(c)
  BY <1>1, <1>3, <1>4, <1>8, Answered DEF ForceRollback, DanglingIsExplained
<1> QED
  BY <1>5, <1>6, <1>7, <1>8
-----------------------------------------------------------------------------
\* Initially the tables are empty and nobody is at work.
LEMMA InitInv == Init => IInv
<1> SUFFICES ASSUME Init PROVE IInv
  OBVIOUS
<1>1. \A c \in Client : ClientInv(c)
  BY DEF Init, ClientInv, Working, Copying, Forcing, Reaping, Committing, Nothing
<1> QED
  BY <1>1, TypeInit DEF Init, IInv, Stored, DanglingIsExplained

\* Every step keeps the invariant.
LEMMA NextInv == IInv /\ [Next]_vars => IInv'
<1> SUFFICES ASSUME IInv, [Next]_vars PROVE IInv'
  OBVIOUS
<1> USE DEF IInv
<1>1. ASSUME NEW c \in Client, Command(c) PROVE IInv'
  <2>1. TypeOK' /\ Grows /\ OthersKept(c) /\ ClientInv(c)' /\ DanglingIsExplained'
    BY <1>1, CommandType, CommandStep
  <2>2. Stored'
    BY <1>1 DEF Command, Expunge, Store, Delete, Copy, ForceBegin, storeVars, Stored
  <2>3. \A d \in Client \ {c} : ClientInv(d)'
    BY <2>1, Frame DEF OthersKept
  <2> QED
    BY <2>1, <2>2, <2>3
<1>2. ASSUME NEW c \in Client, Work(c) PROVE IInv'
  <2>1. TypeOK'
    BY <1>2, WorkType
  <2>2. Grows /\ OthersKept(c) /\ ClientInv(c)' /\ DanglingIsExplained'
    BY <1>2, DeleteStep, CopyStep, ForceStep DEF Work
  <2>3. Stored'
    <3>1. CASE CopyOne(c)
      <4>1. Head(ids[c]) \in saved
        BY <1>2, <3>1 DEF CopyOne, ClientInv, Copying
      <4> QED
        BY <3>1, <4>1 DEF CopyOne, InsertRelation, Stored
    <3>2. CASE ~CopyOne(c)
      BY <1>2, <3>2, DeleteStep, ForceStep DEF Work, Copied, storeVars, Stored
    <3> QED
      BY <3>1, <3>2
  <2>4. \A d \in Client \ {c} : ClientInv(d)'
    BY <2>2, Frame DEF OthersKept
  <2> QED
    BY <2>1, <2>2, <2>3, <2>4
<1>3. ASSUME NEW m \in Mail, Arrive(m) \/ Sent(m) PROVE IInv'
  <2>1. /\ TypeOK' /\ Grows /\ UNCHANGED <<step, ids, ue, undone>>
        /\ Stored' /\ DanglingIsExplained'
    BY <1>3, ArriveType, ArriveStep
  <2>2. \A d \in Client : ClientInv(d)'
    BY <2>1, Frame
  <2> QED
    BY <2>1, <2>2
<1>4. CASE Crash
  BY <1>4, CrashType, CrashStep DEF ClientInv
<1>5. CASE UNCHANGED vars
  BY <1>5 DEF vars, storeVars, clientVars, historyVars, TypeOK, Stored, ClientInv,
             Working, Copying, Forcing, Reaping, Committing, DanglingIsExplained
<1> QED
  BY <1>1, <1>2, <1>3, <1>4, <1>5 DEF Next

\* The invariant holds in every reachable state.
THEOREM Invariance == Spec => []IInv
BY InitInv, NextInv, PTL DEF Spec

\* The tables and the commands in progress are well formed (MailStore's state).
THEOREM TypeCorrect == Spec => []TypeOK
<1>1. IInv => TypeOK
  BY DEF IInv
<1> QED
  BY <1>1, Invariance, PTL

\* However the statements of DelByUID, DelEmail, COPY and delivery interleave,
\* fail or are cut off, a relation delivered along with its mail has its mail.
THEOREM DeliveredKeepsMail == Spec => []DanglingIsExplained
<1>1. IInv => DanglingIsExplained
  BY DEF IInv
<1> QED
  BY <1>1, Invariance, PTL
-----------------------------------------------------------------------------
(***************************************************************************)
(* Mails that nobody has.  OrphanIsExplained is not inductive either: what *)
(* DelEmail takes away is undecided, so the others still count it, and it  *)
(* counts what they have not committed.  OInv adds what a transaction that *)
(* has counted leaves behind (Held), and that of two transactions on one   *)
(* mail the second to count meets the locks of the first (Met).            *)
(***************************************************************************)

Forced(c) == step[c] \in {"force", "forceCount"}

\* The transaction has deleted relations to the mail and not counted yet.
Counting(c, m) == step[c] = "forceCount" /\ Head(ids[c]) = m

\* The reasons of OrphanIsExplained, without the relations that are undecided.
Accounted(m, undecided) ==
    \/ \E r \in user_email \ undecided : r.mail = m
    \/ \E c \in Client : step[c] \in {"count", "reap"} /\ ue[c].mail = m
    \/ \E u \in User : <<m, u>> \in sending
    \/ m \in aborted \/ (db = "networked" /\ m \in overlapped)

\* On SQLite there is one transaction at a time.
Alone == db = "sqlite" => \A c, d \in Client : Forced(c) /\ Forced(d) => c = d

\* No relation has an id that is still to be given out.
Numbered == \A r \in user_email : r.id <= lastId
Known(c) == \A r \in undone[c].relations : r.mail \in saved /\ r.id <= lastId

\* Of two transactions that work on one mail, the second to count sees the locks.
Met(c, d) ==
    \A r \in undone[c].relations, s \in undone[d].relations :
        c # d /\ r.mail = s.mail =>
            r.mail \in overlapped \/ Counting(c, r.mail) \/ Counting(d, r.mail)

\* A mail that a transaction has counted and leaves is accounted for without the
\* relations it takes away.
Held(c) ==
    \A r \in undone[c].relations : r.mail \in email =>
        \/ r.mail \in undone[c].mails
        \/ Counting(c, r.mail)
        \/ Accounted(r.mail, undone[c].relations)

Transactions == \A c \in Client : Known(c) /\ Held(c) /\ \A d \in Client : Met(c, d)

OInv == IInv /\ Alone /\ Numbered /\ Transactions /\ OrphanIsExplained

LEMMA Accounts == OrphanIsExplained <=> \A m \in email : Accounted(m, {})
BY DEF OrphanIsExplained, Accounted

\* A step that begins and ends no transaction keeps the accounts if whatever
\* accounts for a mail does so after it.
LEMMA Keep ==
    ASSUME Alone', Numbered', Transactions, OrphanIsExplained, TypeOK, lastId' \in Nat,
           undone' = undone, saved \subseteq saved', lastId <= lastId',
           overlapped \subseteq overlapped',
           \A c \in Client, m \in Mail : Counting(c, m) => Counting(c, m)',
           \A c \in Client, m \in email \cap email' :
               Accounted(m, undone[c].relations) => Accounted(m, undone[c].relations)',
           \A m \in email \cap email' : Accounted(m, {}) => Accounted(m, {})',
           \A m \in email' \ email : m \notin saved /\ Accounted(m, {})'
    PROVE  Transactions' /\ OrphanIsExplained'
<1>1. OrphanIsExplained'
  BY DEF OrphanIsExplained, Accounted
<1> SUFFICES ASSUME NEW c \in Client, NEW r \in undone[c].relations
             PROVE  /\ r.mail \in saved' /\ r.id <= lastId'
                    /\ r.mail \in email' => \/ r.mail \in undone[c].mails
                                            \/ Counting(c, r.mail)'
                                            \/ Accounted(r.mail, undone[c].relations)'
                    /\ \A d \in Client : \A s \in undone[d].relations :
                          c # d /\ r.mail = s.mail =>
                              \/ r.mail \in overlapped'
                              \/ Counting(c, r.mail)' \/ Counting(d, r.mail)'
  BY <1>1 DEF Transactions, Known, Held, Met
<1>2. r.mail \in Mail /\ r.id \in Nat /\ lastId \in Nat
  BY StoreAssumption DEF TypeOK, Relation, Id
<1>3. Known(c) /\ Held(c) /\ \A d \in Client : Met(c, d)
  BY DEF Transactions
<1>4. r.mail \in saved' /\ r.id <= lastId'
  BY <1>2, <1>3 DEF Known
<1>5. ASSUME r.mail \in email'
      PROVE  \/ r.mail \in undone[c].mails
             \/ Counting(c, r.mail)'
             \/ Accounted(r.mail, undone[c].relations)'
  <2>1. r.mail \in email
    BY <1>3, <1>5 DEF Known
  <2> QED
    BY <1>2, <1>3, <1>5, <2>1 DEF Held
<1>6. \A d \in Client : \A s \in undone[d].relations :
          c # d /\ r.mail = s.mail =>
              r.mail \in overlapped' \/ Counting(c, r.mail)' \/ Counting(d, r.mail)'
  BY <1>2, <1>3 DEF Met
<1> QED
  BY <1>4, <1>5, <1>6

\* What Keep needs to know of a step that leaves db, the transactions and what
\* accounts for a mail alone, or adds to it.
Adds ==
    /\ db' = db /\ undone' = undone
    /\ saved \subseteq saved' /\ email' \subseteq email \cup (saved' \ saved)
    /\ lastId <= lastId' /\ user_email \subseteq user_email'
    /\ aborted \subseteq aborted' /\ overlapped \subseteq overlapped'
    /\ \A c \in Client :
          /\ step[c] \in {"count", "reap"} => step'[c] = step[c] /\ ue'[c] = ue[c]
          /\ step[c] = "forceCount" => step'[c] = step[c] /\ ids'[c] = ids[c]

LEMMA AddsKeeps ==
    ASSUME OInv, Adds, TypeOK', Numbered', Alone',
           \A s \in sending \ sending' : s[1] \in aborted' \/ \E r \in user_email' :
               r.mail = s[1] /\ r.id > lastId,
           \A m \in email' \ email : Accounted(m, {})'
    PROVE  Transactions' /\ OrphanIsExplained'
<1>1. TypeOK /\ lastId \in Nat /\ lastId' \in Nat
  BY StoreAssumption DEF OInv, IInv, TypeOK
<1>2. \A c \in Client, m \in Mail : Counting(c, m) => Counting(c, m)'
  BY DEF Adds, Counting
<1>3. ASSUME NEW m \in email, NEW u \in SUBSET Relation, \A r \in u : r.id <= lastId,
             Accounted(m, u)
      PROVE  Accounted(m, u)'
  <2>1. CASE \E r \in user_email \ u : r.mail = m
    BY <2>1 DEF Adds, Accounted
  <2>2. CASE \E c \in Client : step[c] \in {"count", "reap"} /\ ue[c].mail = m
    BY <2>2 DEF Adds, Accounted
  <2>3. CASE \E v \in User : <<m, v>> \in sending
    <3>1. PICK v \in User : <<m, v>> \in sending
      BY <2>3
    <3>2. CASE <<m, v>> \in sending'
      BY <3>2 DEF Accounted
    <3>3. CASE <<m, v>> \notin sending'
      <4>1. m \in aborted' \/ \E r \in user_email' : r.mail = m /\ r.id > lastId
        BY <3>1, <3>3
      <4>2. \A r \in user_email' : r.id > lastId => r \notin u
        BY <1>1, <1>3 DEF TypeOK, Relation, Id
      <4> QED
        BY <4>1, <4>2 DEF Accounted
    <3> QED
      BY <3>2, <3>3
  <2>4. CASE m \in aborted \/ (db = "networked" /\ m \in overlapped)
    BY <2>4 DEF Adds, Accounted
  <2> QED
    BY <1>3, <2>1, <2>2, <2>3, <2>4 DEF Accounted
<1>4. \A c \in Client, m \in email \cap email' :
          Accounted(m, undone[c].relations) => Accounted(m, undone[c].relations)'
  <2>1. \A c \in Client : /\ undone[c].relations \in SUBSET Relation
                          /\ \A r \in undone[c].relations : r.id <= lastId
    BY <1>1 DEF OInv, Transactions, Known, TypeOK
  <2> QED
    BY <1>3, <2>1 DEF Adds, Accounted
<1>5. \A m \in email \cap email' : Accounted(m, {}) => Accounted(m, {})'
  BY <1>3
<1>6. \A m \in email' \ email : m \notin saved /\ Accounted(m, {})'
  BY DEF Adds
<1>7. undone' = undone /\ saved \subseteq saved' /\ lastId <= lastId' /\ overlapped \subseteq overlapped'
  BY DEF Adds
<1> QED
  BY <1>1, <1>2, <1>4, <1>5, <1>6, <1>7, Keep DEF OInv

\* SQLite begins a transaction only when no other is under way (db.Init).
LEMMA AloneKept == ASSUME IInv, Alone, Next PROVE Alone'
<1>0. TypeOK /\ db' = db
  BY DEF IInv, Next, Command, Expunge, Store, Delete, Copy, ForceBegin, Work, Lookup, Drop, Count,
         Reap, Deleted, CopyOne, Copied, ForceDrop, ForceCount, ForceCommit, ForceRollback,
         Arrive, Deliver, WebSend, Sent, WebSent, Crash
<1>1. ASSUME NEW c \in Client, Command(c) PROVE Alone'
  <2>1. OthersKept(c)
    BY <1>1, CommandStep
  <2> QED
    BY <1>0, <1>1, <2>1 DEF Command, Connection, OthersKept, Alone, Forced
<1>2. ASSUME NEW c \in Client, Work(c) PROVE Alone'
  <2>1. OthersKept(c)
    BY <1>2, DeleteStep, CopyStep, ForceStep DEF Work
  <2>2. Forced(c)' => Forced(c)
    BY <1>0, <1>2 DEF Work, Lookup, Drop, Count, Reap, Deleted, CopyOne, Copied, ForceDrop,
                      ForceCount, ForceCommit, ForceRollback, Answer, Goto, Forced, TypeOK
  <2> QED
    BY <1>0, <2>1, <2>2 DEF OthersKept, Alone, Forced
<1>3. ASSUME NEW m \in Mail, Arrive(m) \/ Sent(m) PROVE Alone'
  BY <1>0, <1>3, ArriveStep DEF Alone, Forced
<1>4. CASE Crash
  BY <1>4 DEF Crash, Alone, Forced
<1> QED
  BY <1>1, <1>2, <1>3, <1>4 DEF Next

LEMMA NumberedKept == ASSUME IInv, Numbered, Next PROVE Numbered' /\ lastId <= lastId'
<1>0. TypeOK /\ lastId \in Nat /\ \A r \in user_email : r.id \in Nat
  BY StoreAssumption DEF IInv, TypeOK, Relation, Id
<1>1. ASSUME NEW u \in User, NEW m \in Mail, InsertRelation(u, m)
      PROVE  Numbered' /\ lastId <= lastId'
  BY <1>0, <1>1 DEF InsertRelation, Numbered
<1>2. ASSUME user_email' \subseteq user_email, lastId' = lastId
      PROVE  Numbered' /\ lastId <= lastId'
  BY <1>0, <1>2 DEF Numbered
<1>3. ASSUME NEW m \in Mail, Arrive(m) PROVE Numbered' /\ lastId <= lastId'
  <2>1. ASSUME NEW users \in SUBSET User, Deliver(m, users) PROVE Numbered' /\ lastId <= lastId'
    <3>1. PICK id \in [users -> (lastId + 1)..(lastId + Cardinality(users))] :
             user_email' = user_email \cup
                 {[id |-> id[u], user |-> u, mail |-> m] : u \in users}
      BY <2>1 DEF Deliver
    <3>2. lastId' = lastId + Cardinality(users) /\ Cardinality(users) \in Nat
      BY <2>1, StoreAssumption, FS_Subset, FS_CardinalityType DEF Deliver
    <3> QED
      BY <1>0, <3>1, <3>2 DEF Numbered
  <2> QED
    BY <1>2, <1>3, <2>1 DEF Arrive, WebSend
<1>4. ASSUME NEW m \in Mail, Sent(m) PROVE Numbered' /\ lastId <= lastId'
  BY <1>1, <1>2, <1>4 DEF Sent, WebSent
<1>5. ASSUME NEW c \in Client, CopyOne(c) PROVE Numbered' /\ lastId <= lastId'
  BY <1>0, <1>5 DEF CopyOne, InsertRelation, Numbered
<1>6. ASSUME NEW c \in Client, Command(c) \/ (Work(c) /\ ~CopyOne(c))
      PROVE  Numbered' /\ lastId <= lastId'
  BY <1>2, <1>6 DEF Command, Expunge, Store, Delete, Copy, ForceBegin, Work, Lookup, Drop, Count,
         Reap, Deleted, Copied, ForceDrop, ForceCount, ForceCommit, ForceRollback, storeVars
<1>7. CASE Crash
  BY <1>2, <1>7 DEF Crash
<1> QED
  BY <1>3, <1>4, <1>5, <1>6, <1>7 DEF Next

-----------------------------------------------------------------------------
\* One lemma per step, or per group of steps that AddsKeeps covers.

LEMMA CommandAccounts ==
    ASSUME OInv, NEW c \in Client, Command(c), TypeOK', Numbered', Alone'
    PROVE  Transactions' /\ OrphanIsExplained'
<1>0. TypeOK /\ OthersKept(c) /\ lastId \in Nat
  BY CommandStep, StoreAssumption DEF OInv, IInv, TypeOK
<1>1. UNCHANGED <<db, storeVars, historyVars, ue, undone>> /\ step[c] = "idle"
  BY DEF Command, Expunge, Store, Delete, Copy, ForceBegin
<1>2. Adds
  BY <1>0, <1>1 DEF Adds, OthersKept, storeVars, historyVars
<1> QED
  BY <1>1, <1>2, AddsKeeps DEF storeVars

LEMMA ArriveAccounts ==
    ASSUME OInv, NEW m \in Mail, Arrive(m), TypeOK', Numbered', Alone', lastId <= lastId'
    PROVE  Transactions' /\ OrphanIsExplained'
<1>1. /\ UNCHANGED <<db, clientVars, historyVars>> /\ m \notin saved
      /\ saved' = saved \cup {m} /\ email' = email \cup {m}
      /\ user_email \subseteq user_email' /\ sending \subseteq sending'
  BY DEF Arrive, Deliver, WebSend
<1>2. Adds
  BY <1>1 DEF Adds, clientVars, historyVars
<1>3. Accounted(m, {})'
  <2>1. ASSUME NEW users \in SUBSET User, Deliver(m, users)
        PROVE  Accounted(m, {})'
    <3>1. PICK id \in [users -> (lastId + 1)..(lastId + Cardinality(users))] :
             user_email' = user_email \cup
                 {[id |-> id[u], user |-> u, mail |-> m] : u \in users}
      BY <2>1 DEF Deliver
    <3>2. PICK u \in users : TRUE
      BY <2>1 DEF Deliver
    <3>3. [id |-> id[u], user |-> u, mail |-> m] \in user_email'
      BY <3>1, <3>2
    <3> QED
      BY <3>3 DEF Accounted
  <2>2. ASSUME NEW c \in Client, WebSend(c, m) PROVE Accounted(m, {})'
    BY <2>2, StoreAssumption DEF WebSend, Accounted
  <2> QED
    BY <2>1, <2>2 DEF Arrive
<1> QED
  BY <1>1, <1>2, <1>3, AddsKeeps

LEMMA SentAccounts ==
    ASSUME OInv, NEW m \in Mail, Sent(m), TypeOK', Numbered', Alone', lastId <= lastId'
    PROVE  Transactions' /\ OrphanIsExplained'
<1>0. lastId \in Nat
  BY StoreAssumption DEF OInv, IInv, TypeOK
<1>1. PICK u \in User : WebSent(m, u)
  BY DEF Sent
<1>2. Adds
  BY <1>1 DEF Adds, WebSent, InsertRelation, clientVars
<1>3. \A s \in sending \ sending' :
          s[1] \in aborted' \/ \E r \in user_email' : r.mail = s[1] /\ r.id > lastId
  <2> SUFFICES ASSUME m \notin aborted'
               PROVE  \E r \in user_email' : r.mail = m /\ r.id > lastId
    BY <1>1 DEF WebSent
  <2>1. [id |-> lastId + 1, user |-> u, mail |-> m] \in user_email'
    BY <1>1 DEF WebSent, InsertRelation
  <2> QED
    BY <1>0, <2>1
<1>4. email' = email
  BY <1>1 DEF WebSent
<1> QED
  BY <1>2, <1>3, <1>4, AddsKeeps

LEMMA CopyAccounts ==
    ASSUME OInv, NEW c \in Client, Lookup(c) \/ Deleted(c) \/ CopyOne(c) \/ Copied(c),
           TypeOK', Numbered', Alone', lastId <= lastId'
    PROVE  Transactions' /\ OrphanIsExplained'
<1>0. TypeOK /\ ClientInv(c)
  BY DEF OInv, IInv
<1>1. OthersKept(c)
  BY DeleteStep, CopyStep DEF OInv
<1>2. /\ UNCHANGED <<db, email, saved, sending, aborted, overlapped>>
      /\ step[c] \in {"lookup", "copy"} /\ user_email \subseteq user_email'
  BY DEF Lookup, Deleted, CopyOne, Copied, InsertRelation, storeVars, historyVars
<1>3. undone' = undone
  BY <1>0 DEF Lookup, Deleted, CopyOne, Copied, Answer, ClientInv, Forcing, TypeOK
<1>4. Adds
  BY <1>1, <1>2, <1>3 DEF Adds, OthersKept
<1> QED
  BY <1>2, <1>4, AddsKeeps

\* DelByUID: the count that follows accounts for the mail, then what it found.
LEMMA DropAccounts ==
    ASSUME OInv, NEW c \in Client, Drop(c) \/ Count(c) \/ Reap(c),
           Connection(Client \ {c}), TypeOK', Numbered', Alone', lastId <= lastId'
    PROVE  Transactions' /\ OrphanIsExplained'
<1>0. /\ TypeOK /\ ClientInv(c) /\ Alone /\ Transactions /\ OrphanIsExplained
      /\ lastId' \in Nat
  BY StoreAssumption DEF OInv, IInv, TypeOK
<1>1. OthersKept(c)
  BY DeleteStep DEF OInv
<1>2. /\ UNCHANGED <<db, saved, sending>> /\ step[c] \in {"drop", "count", "reap"}
      /\ email' \subseteq email /\ aborted \subseteq aborted' /\ overlapped \subseteq overlapped'
  BY DEF Drop, Count, Reap, EmailAfter, NoteOverlap, storeVars, historyVars
<1>3. undone[c] = Nothing /\ undone' = undone
  BY <1>0, <1>2 DEF Drop, Count, Reap, Answer, ClientInv, Forcing, TypeOK
<1>4. \A d \in Client, m \in Mail : Counting(d, m) => Counting(d, m)'
  BY <1>1, <1>2 DEF OthersKept, Counting
<1>5. ASSUME NEW m \in email \cap email', NEW d \in Client, NEW u, u \in {{}, undone[d].relations},
             Accounted(m, u)
      PROVE  Accounted(m, u)'
  <2>1. CASE Drop(c)
    <3>1. CASE Answer(c)
      <4>1. user_email' = user_email /\ aborted' = aborted /\ overlapped' = overlapped
        BY <1>0, <2>1, <3>1 DEF Drop, Answer, Goto, TypeOK, historyVars
      <4>2. \A e \in Client : step[e] \in {"count", "reap"} => step'[e] = step[e] /\ ue'[e] = ue[e]
        BY <1>1, <2>1 DEF Drop, OthersKept
      <4> QED
        BY <1>2, <1>5, <4>1, <4>2 DEF Accounted
    <3>2. CASE ~Answer(c)
      <4>1. /\ user_email' = user_email \ {ue[c]} /\ step'[c] = "count" /\ ue' = ue
        BY <1>0, <2>1, <3>2 DEF Drop, Goto, TypeOK
      <4>2. \A e \in Client : step[e] \in {"count", "reap"} => step'[e] = step[e]
        BY <1>1, <2>1 DEF Drop, OthersKept
      <4>3. CASE ue[c].mail = m
        BY <4>1, <4>3 DEF Accounted
      <4>4. CASE ue[c].mail # m
        BY <1>2, <1>5, <4>1, <4>2, <4>4 DEF Accounted
      <4> QED
        BY <4>3, <4>4
    <3> QED
      BY <3>1, <3>2
  <2>2. CASE Count(c)
    <3>1. user_email' = user_email
      BY <2>2 DEF Count, storeVars
    <3>2. \A e \in Client \ {c} : step'[e] = step[e] /\ ue'[e] = ue[e]
      BY <1>1 DEF OthersKept
    <3>3. CASE m # ue[c].mail
      BY <1>2, <1>5, <3>1, <3>2, <3>3 DEF Accounted
    <3>4. CASE m = ue[c].mail /\ Answer(c)
      BY <1>0, <2>2, <3>4 DEF Count, Answer, Goto, TypeOK, Accounted
    <3>5. CASE m = ue[c].mail /\ ~Answer(c)
      <4>1. step'[c] = IF Left(c, m) = {} THEN "reap" ELSE "lookup"
        BY <1>0, <2>2, <3>5 DEF Count, Goto, TypeOK
      <4>2. NoteOverlap(c, m) /\ ue' = ue
        BY <2>2, <3>5 DEF Count
      <4>3. CASE Left(c, m) = {}
        BY <3>5, <4>1, <4>2, <4>3 DEF Accounted
      <4>4. CASE Left(c, m) # {}
        <5>1. PICK r \in user_email : r.mail = m
          BY <4>4 DEF Left
        <5>2. CASE r \notin u
          BY <3>1, <5>1, <5>2 DEF Accounted
        <5>3. CASE r \in u
          <6>1. d # c /\ r \in undone[d].relations
            BY <1>3, <1>5, <5>3 DEF Nothing
          <6>2. r \in Locked(c)
            BY <6>1 DEF Locked
          <6>3. m \in overlapped'
            BY <4>2, <5>1, <6>2 DEF NoteOverlap
          <6>4. Forced(d)
            BY <1>0, <6>1 DEF OInv, IInv, ClientInv, Forcing, Forced, Nothing
          <6>5. db' = "networked"
            BY <1>0, <1>2, <6>1, <6>4 DEF Connection, Forced, TypeOK
          <6> QED
            BY <6>3, <6>5 DEF Accounted
        <5> QED
          BY <5>2, <5>3
      <4> QED
        BY <4>3, <4>4
    <3> QED
      BY <3>3, <3>4, <3>5
  <2>3. CASE Reap(c)
    <3>1. user_email' = user_email /\ ue' = ue
      BY <2>3 DEF Reap
    <3>2. \A e \in Client \ {c} : step'[e] = step[e]
      BY <1>1 DEF OthersKept
    <3>3. CASE m # ue[c].mail
      BY <1>2, <1>5, <3>1, <3>2, <3>3 DEF Accounted
    <3>4. CASE m = ue[c].mail
      BY <2>3, <3>4 DEF Reap, EmailAfter, Accounted
    <3> QED
      BY <3>3, <3>4
  <2> QED
    BY <2>1, <2>2, <2>3
<1>6. \A d \in Client, m \in email \cap email' :
          Accounted(m, undone[d].relations) => Accounted(m, undone[d].relations)'
  BY <1>3, <1>5 DEF Accounted
<1>7. \A m \in email \cap email' : Accounted(m, {}) => Accounted(m, {})'
  BY <1>5
<1> QED
  BY <1>0, <1>2, <1>3, <1>4, <1>6, <1>7, Keep

\* DelEmail: the relations to the mail become undecided, and the mail is to be counted.
LEMMA ForceDropAccounts ==
    ASSUME OInv, NEW c \in Client, ForceDrop(c)
    PROVE  Transactions' /\ OrphanIsExplained'
<1> DEFINE m == Head(ids[c])
           mine == {r \in Owned(c) : r.mail = m}
<1>0. TypeOK /\ Stored /\ Numbered /\ Transactions /\ OrphanIsExplained /\ OthersKept(c)
  BY ForceStep DEF OInv, IInv
<1>1. /\ UNCHANGED <<db, storeVars, ids, ue, aborted, overlapped>>
      /\ Counting(c, m)' /\ step[c] = "force" /\ step'[c] = "forceCount"
      /\ undone'[c].mails = undone[c].mails
      /\ undone'[c].relations = undone[c].relations \cup mine
      /\ mine \subseteq user_email
  BY <1>0 DEF ForceDrop, Goto, Counting, TypeOK, Owned, historyVars
<1>2. \A x, u : Accounted(x, u) => Accounted(x, u)'
  BY <1>0, <1>1 DEF OthersKept, Accounted, storeVars
<1>3. \A d \in Client : \A x : Counting(d, x) => Counting(d, x)'
  BY <1>0, <1>1 DEF OthersKept, Counting
<1>4. OrphanIsExplained'
  BY <1>0, <1>1, <1>2, Accounts DEF OrphanIsExplained, Accounted, storeVars
<1>5. ASSUME NEW d \in Client PROVE Known(d)'
  <2>1. CASE d = c
    BY <1>0, <1>1, <2>1 DEF Transactions, Known, Stored, Numbered, storeVars
  <2>2. CASE d # c
    BY <1>0, <1>1, <2>2 DEF Transactions, Known, OthersKept, storeVars
  <2> QED
    BY <2>1, <2>2
<1>6. ASSUME NEW d \in Client PROVE Held(d)'
  <2>1. CASE d = c
    <3> SUFFICES ASSUME NEW r \in undone'[c].relations, r.mail \in email, r.mail # m
                 PROVE  \/ r.mail \in undone'[c].mails
                        \/ Accounted(r.mail, undone[c].relations)'
      BY <1>1, <2>1 DEF Held, Counting, storeVars
    <3>1. r \in undone[c].relations /\ ~Counting(c, r.mail)
      BY <1>1 DEF Counting
    <3>2. r.mail \in undone[c].mails \/ Accounted(r.mail, undone[c].relations)
      BY <1>0, <3>1 DEF Transactions, Held
    <3>3. Accounted(r.mail, undone[c].relations) => Accounted(r.mail, undone[c].relations)'
      BY <1>0, <1>1 DEF OthersKept, Accounted, storeVars
    <3> QED
      BY <1>1, <3>2, <3>3
  <2>2. CASE d # c
    BY <1>0, <1>1, <1>2, <1>3, <2>2 DEF Transactions, Held, OthersKept, storeVars
  <2> QED
    BY <2>1, <2>2
<1>7. ASSUME NEW d \in Client, NEW e \in Client PROVE Met(d, e)'
  <2> SUFFICES ASSUME NEW r \in undone'[d].relations, NEW s \in undone'[e].relations,
                      d # e, r.mail = s.mail
               PROVE  r.mail \in overlapped \/ Counting(d, r.mail)' \/ Counting(e, r.mail)'
    BY <1>1 DEF Met
  <2>1. CASE r.mail = m /\ c \in {d, e}
    BY <1>1, <2>1
  <2>2. CASE ~(r.mail = m /\ c \in {d, e})
    BY <1>0, <1>1, <1>3, <2>2 DEF Transactions, Met, OthersKept
  <2> QED
    BY <2>1, <2>2
<1> QED
  BY <1>4, <1>5, <1>6, <1>7 DEF Transactions

\* The count: it found nobody, or what it found accounts for the mail; if another
\* transaction holds a relation to the mail, it has been seen.
LEMMA ForceCountAccounts ==
    ASSUME OInv, NEW c \in Client, ForceCount(c)
    PROVE  Transactions' /\ OrphanIsExplained'
<1> DEFINE m == Head(ids[c])
<1>0. TypeOK /\ Transactions /\ OrphanIsExplained /\ OthersKept(c)
  BY ForceStep DEF OInv, IInv
<1>1. /\ UNCHANGED <<db, storeVars, ue, aborted>> /\ overlapped \subseteq overlapped'
      /\ NoteOverlap(c, m) /\ step[c] = "forceCount" /\ step'[c] = "force"
      /\ undone[c].mails \subseteq undone'[c].mails
      /\ undone'[c].relations = undone[c].relations
      /\ m \in undone'[c].mails \/ Left(c, m) # {}
  BY <1>0 DEF ForceCount, Goto, TypeOK, NoteOverlap
<1>2. \A x, u : Accounted(x, u) => Accounted(x, u)'
  BY <1>0, <1>1 DEF OthersKept, Accounted, storeVars
<1>3. \A d \in Client : \A x : Counting(d, x) => Counting(d, x)' \/ (d = c /\ x = m)
  BY <1>0, <1>1 DEF OthersKept, Counting
<1>4. OrphanIsExplained'
  BY <1>0, <1>1, <1>2 DEF OrphanIsExplained, Accounted, storeVars
<1>5. \A d \in Client : undone'[d].relations = undone[d].relations
  BY <1>0, <1>1 DEF OthersKept
<1>6. ASSUME NEW d \in Client PROVE Known(d)'
  BY <1>0, <1>1, <1>5 DEF Transactions, Known, storeVars
<1>7. ASSUME NEW d \in Client PROVE Held(d)'
  <2>1. CASE d = c
    <3> SUFFICES ASSUME NEW r \in undone[c].relations, r.mail \in email
                 PROVE  \/ r.mail \in undone'[c].mails
                        \/ Accounted(r.mail, undone[c].relations)'
      BY <1>1, <2>1 DEF Held, storeVars
    <3>0. Accounted(r.mail, undone[c].relations) => Accounted(r.mail, undone[c].relations)'
      BY <1>0, <1>1 DEF OthersKept, Accounted, storeVars
    <3>1. CASE r.mail = m
      BY <1>1, <3>0, <3>1 DEF Left, Accounted
    <3>2. CASE r.mail # m
      BY <1>0, <1>1, <3>0, <3>2 DEF Transactions, Held, Counting
    <3> QED
      BY <3>1, <3>2
  <2>2. CASE d # c
    BY <1>0, <1>1, <1>2, <1>3, <2>2 DEF Transactions, Held, OthersKept, storeVars
  <2> QED
    BY <2>1, <2>2
<1>8. ASSUME NEW d \in Client, NEW e \in Client PROVE Met(d, e)'
  <2> SUFFICES ASSUME NEW r \in undone[d].relations, NEW s \in undone[e].relations,
                      d # e, r.mail = s.mail
               PROVE  r.mail \in overlapped' \/ Counting(d, r.mail)' \/ Counting(e, r.mail)'
    BY <1>5 DEF Met
  <2>1. CASE r.mail = m /\ c = d
    <3>1. s \in Locked(c)
      BY <2>1 DEF Locked
    <3> QED
      BY <1>1, <2>1, <3>1 DEF NoteOverlap
  <2>2. CASE r.mail = m /\ c = e
    <3>1. r \in Locked(c)
      BY <2>2 DEF Locked
    <3> QED
      BY <1>1, <2>2, <3>1 DEF NoteOverlap
  <2>3. CASE ~(r.mail = m /\ c \in {d, e})
    BY <1>0, <1>1, <1>3, <2>3 DEF Transactions, Met
  <2> QED
    BY <2>1, <2>2, <2>3
<1> QED
  BY <1>4, <1>6, <1>7, <1>8 DEF Transactions

\* The commit takes relations away: others that had counted them have noted it.
LEMMA ForceCommitAccounts ==
    ASSUME OInv, NEW c \in Client, ForceCommit(c), Connection(Client \ {c})
    PROVE  Transactions' /\ OrphanIsExplained'
<1>0. /\ TypeOK /\ Transactions /\ OrphanIsExplained /\ OthersKept(c)
      /\ \A d \in Client : ClientInv(d)
  BY ForceStep DEF OInv, IInv
<1>1. /\ UNCHANGED <<db, lastId, saved, sending, aborted, overlapped>>
      /\ user_email' = user_email \ undone[c].relations
      /\ email' = email \ undone[c].mails
      /\ step[c] = "force" /\ undone'[c] = Nothing
  BY <1>0 DEF ForceCommit, Answer, TypeOK, historyVars
<1>2. \A d \in Client : /\ step[d] \in {"count", "reap"} => step'[d] = step[d] /\ ue'[d] = ue[d]
                        /\ d # c => undone'[d] = undone[d]
  BY <1>0, <1>1 DEF OthersKept
<1>3. \A d \in Client : \A x : Counting(d, x) => Counting(d, x)'
  BY <1>0, <1>1 DEF OthersKept, Counting
<1>4. ASSUME NEW m \in email', NEW u, Accounted(m, u),
             \A r \in undone[c].relations : r.mail # m
      PROVE  Accounted(m, u)'
  BY <1>1, <1>2, <1>4 DEF Accounted
<1>5. OrphanIsExplained'
  <2> SUFFICES ASSUME NEW m \in email' PROVE Accounted(m, {})'
    BY DEF OrphanIsExplained, Accounted
  <2>1. CASE \E r \in undone[c].relations : r.mail = m
    <3>1. Accounted(m, undone[c].relations)
      BY <1>0, <1>1, <2>1 DEF Transactions, Held, Counting
    <3> QED
      BY <1>1, <1>2, <3>1 DEF Accounted
  <2>2. CASE \A r \in undone[c].relations : r.mail # m
    BY <1>0, <1>1, <1>4, <2>2, Accounts
  <2> QED
    BY <2>1, <2>2
<1>6. ASSUME NEW d \in Client PROVE Known(d)'
  BY <1>0, <1>1, <1>2 DEF Transactions, Known, Nothing
<1>7. ASSUME NEW d \in Client PROVE Held(d)'
  <2> SUFFICES ASSUME d # c, NEW r \in undone[d].relations, r.mail \in email'
               PROVE  \/ r.mail \in undone[d].mails
                      \/ Counting(d, r.mail)'
                      \/ Accounted(r.mail, undone[d].relations)'
    BY <1>1, <1>2 DEF Held, Nothing
  <2>1. \/ r.mail \in undone[d].mails \/ Counting(d, r.mail)
        \/ Accounted(r.mail, undone[d].relations)
    BY <1>0, <1>1 DEF Transactions, Held
  <2>2. ASSUME Accounted(r.mail, undone[d].relations), ~Counting(d, r.mail)
        PROVE  Accounted(r.mail, undone[d].relations)'
    <3>1. CASE \E s \in undone[c].relations : s.mail = r.mail
      <4>1. r.mail \in overlapped
        BY <1>0, <1>1, <2>2, <3>1 DEF Transactions, Met, Counting
      <4>2. db = "networked"
        <5>1. Forced(d)
          BY <1>0 DEF ClientInv, Forcing, Forced, Nothing
        <5> QED
          BY <1>0, <5>1 DEF Connection, Forced, TypeOK
      <4> QED
        BY <1>1, <4>1, <4>2 DEF Accounted
    <3>2. CASE \A s \in undone[c].relations : s.mail # r.mail
      BY <1>1, <1>2, <2>2, <3>2 DEF Accounted
    <3> QED
      BY <3>1, <3>2
  <2> QED
    BY <1>3, <2>1, <2>2
<1>8. ASSUME NEW d \in Client, NEW e \in Client PROVE Met(d, e)'
  BY <1>0, <1>1, <1>2, <1>3 DEF Transactions, Met, Nothing
<1> QED
  BY <1>5, <1>6, <1>7, <1>8 DEF Transactions

LEMMA ForceRollbackAccounts ==
    ASSUME OInv, NEW c \in Client, ForceRollback(c)
    PROVE  Transactions' /\ OrphanIsExplained'
<1>0. TypeOK /\ Transactions /\ OrphanIsExplained /\ OthersKept(c)
  BY ForceStep DEF OInv, IInv
<1>1. /\ UNCHANGED <<db, storeVars, aborted, overlapped>>
      /\ step[c] \in {"force", "forceCount"} /\ undone'[c] = Nothing
  BY <1>0 DEF ForceRollback, Answer, TypeOK, historyVars
<1>2. \A d \in Client : /\ step[d] \in {"count", "reap"} => step'[d] = step[d] /\ ue'[d] = ue[d]
                        /\ d # c => undone'[d] = undone[d]
  BY <1>0, <1>1 DEF OthersKept
<1>3. \A d \in Client \ {c} : \A x : Counting(d, x) => Counting(d, x)'
  BY <1>0 DEF OthersKept, Counting
<1>4. OrphanIsExplained'
  BY <1>0, <1>1, <1>2 DEF OrphanIsExplained, storeVars
<1>5. ASSUME NEW d \in Client PROVE Known(d)' /\ Held(d)'
  <2>1. CASE d = c
    BY <1>1, <2>1 DEF Known, Held, Nothing
  <2>2. CASE d # c
    <3>1. Known(d)'
      BY <1>0, <1>1, <1>2, <2>2 DEF Transactions, Known, storeVars
    <3>2. ASSUME NEW r \in undone[d].relations, Accounted(r.mail, undone[d].relations)
          PROVE  Accounted(r.mail, undone[d].relations)'
      BY <1>1, <1>2, <2>2, <3>2 DEF Accounted, storeVars
    <3>3. Held(d)'
      BY <1>0, <1>1, <1>2, <1>3, <2>2, <3>2 DEF Transactions, Held, storeVars
    <3> QED
      BY <3>1, <3>3
  <2> QED
    BY <2>1, <2>2
<1>6. ASSUME NEW d \in Client, NEW e \in Client PROVE Met(d, e)'
  BY <1>0, <1>1, <1>2, <1>3 DEF Transactions, Met, Nothing
<1> QED
  BY <1>4, <1>5, <1>6 DEF Transactions

\* What stopped half way is noted; nothing is undecided any more.
LEMMA CrashAccounts == ASSUME OInv, Crash PROVE Transactions' /\ OrphanIsExplained'
<1>1. \A c \in Client : undone'[c].relations = {}
  BY DEF Crash, Nothing
<1>2. Transactions'
  BY <1>1 DEF Transactions, Known, Held, Met
<1>3. OrphanIsExplained'
  <2> SUFFICES ASSUME NEW m \in email PROVE Accounted(m, {})'
    BY DEF Crash, OrphanIsExplained, Accounted
  <2>1. CASE \E c \in Client : step[c] \in {"count", "reap"} /\ ue[c].mail = m
    BY <2>1 DEF Crash, Accounted
  <2>2. CASE \E u \in User : <<m, u>> \in sending
    <3>1. PICK u \in User : <<m, u>> \in sending
      BY <2>2
    <3>2. <<m, u>>[1] = m
      OBVIOUS
    <3> QED
      BY <3>1, <3>2 DEF Crash, Accounted
  <2>3. CASE ~(\E c \in Client : step[c] \in {"count", "reap"} /\ ue[c].mail = m)
             /\ ~(\E u \in User : <<m, u>> \in sending)
    BY <2>3 DEF Crash, Accounted, OInv, OrphanIsExplained
  <2> QED
    BY <2>1, <2>2, <2>3
<1> QED
  BY <1>2, <1>3

LEMMA OrphanInit == Init => OInv
<1> SUFFICES ASSUME Init PROVE OInv
  OBVIOUS
<1> QED
  BY InitInv DEF Init, OInv, Alone, Forced, Numbered, Transactions, Known, Held, Met, Nothing,
                 OrphanIsExplained

LEMMA OrphanNext == OInv /\ [Next]_vars => OInv'
<1> SUFFICES ASSUME OInv, [Next]_vars PROVE OInv'
  OBVIOUS
<1>0. IInv' /\ TypeOK'
  BY NextInv DEF OInv, IInv
<1>1. CASE Next
  <2>0. Alone' /\ Numbered' /\ lastId <= lastId'
    BY <1>1, AloneKept, NumberedKept DEF OInv
  <2>1. ASSUME NEW m \in Mail, Arrive(m) \/ Sent(m) PROVE Transactions' /\ OrphanIsExplained'
    BY <1>0, <2>0, <2>1, ArriveAccounts, SentAccounts
  <2>2. ASSUME NEW c \in Client, Command(c) PROVE Transactions' /\ OrphanIsExplained'
    BY <1>0, <2>0, <2>2, CommandAccounts
  <2>3. ASSUME NEW c \in Client, Work(c) PROVE Transactions' /\ OrphanIsExplained'
    BY <1>0, <2>0, <2>3, CopyAccounts, DropAccounts, ForceDropAccounts, ForceCountAccounts,
       ForceCommitAccounts, ForceRollbackAccounts DEF Work
  <2>4. ASSUME Crash PROVE Transactions' /\ OrphanIsExplained'
    BY <2>4, CrashAccounts
  <2>5. Transactions' /\ OrphanIsExplained'
    BY <1>1, <2>1, <2>2, <2>3, <2>4 DEF Next
  <2> QED
    BY <1>0, <2>0, <2>5 DEF OInv
<1>2. CASE UNCHANGED vars
  BY <1>0, <1>2 DEF vars, storeVars, clientVars, historyVars, OInv, Alone, Forced, Numbered,
     Transactions, Known, Held, Met, Counting, Accounted, OrphanIsExplained
<1> QED
  BY <1>1, <1>2

\* A mail that nobody has is being deleted, on its way to its sender, or was left by an
\* operation that broke off, or by two transactions that did not see each other's
\* deletions (DelByUID, DelEmail, the web's Send).
THEOREM OrphansAreExplained == Spec => []OrphanIsExplained
<1>1. OInv => OrphanIsExplained
  BY DEF OInv
<1> QED
  BY <1>1, OrphanInit, OrphanNext, PTL DEF Spec
=============================================================================
