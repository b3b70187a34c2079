--------------------------- MODULE MailboxProofs ---------------------------
(***************************************************************************)
(* Proofs about Mailbox and Search, for any sessions, mailboxes, rules,    *)
(* mails, criteria and bounds.                                             *)
(*                                                                         *)
(* A command is told of messages, issued, looked up and carried out in     *)
(* steps of their own, while everybody else changes the table.  The        *)
(* inductive invariant says what ties them together: what a session was    *)
(* told is what the table showed (Telling), what it means is what its      *)
(* ranges name in that (Naming), and as long as no reason has been noted   *)
(* everything it means is done, listed or still to be looked up (Covered). *)
(*                                                                         *)
(* What a search finds is a recursive function of its nodes.  The last     *)
(* sections show that it exists, that one node is exact if those below it  *)
(* are (NodeIs), and take a last node that is not.                         *)
(***************************************************************************)
EXTENDS Search, FiniteSetTheorems, SequenceTheorems, WellFoundedInduction, TLAPS

-----------------------------------------------------------------------------
\* Numbers and listings

LEMMA Least ==
    ASSUME NEW T, T \subseteq Nat, T # {}
    PROVE  \E n \in T : \A m \in T : n <= m
<1>1. PICK R : IsWellFoundedOn(R, Nat) /\ R = {ss \in Nat \X Nat : ss[1] < ss[2]}
  BY NatLessThanWellFounded DEF OpToRel
<1>2. PICK n \in T : \A m \in T : <<m, n>> \notin R
  BY <1>1, WFMin
<1>3. \A m \in T : ~(m < n)
  <2>1. TAKE m \in T
  <2>2. <<m, n>> \in Nat \X Nat /\ <<m, n>>[1] = m /\ <<m, n>>[2] = n
    OBVIOUS
  <2> QED
    BY <1>1, <1>2, <2>2
<1>4. n \in Nat /\ \A m \in T : m \in Nat
  OBVIOUS
<1> QED
  BY <1>2, <1>3, <1>4

\* Arithmetic of indices
LEMMA Back ==
    ASSUME NEW n \in Nat, NEW i \in 1..n, i # 1
    PROVE  i - 1 \in 1..(n - 1) /\ (i - 1) + 1 = i
OBVIOUS

LEMMA Ahead ==
    ASSUME NEW n \in Nat, NEW i \in 1..(n - 1)
    PROVE  i + 1 \in 1..n
OBVIOUS

LEMMA Forth ==
    ASSUME NEW m \in Nat, NEW n \in Nat, NEW i \in 1..n
    PROVE  i + m \in 1..(m + n) /\ ~(i + m <= m) /\ (i + m) - m = i
OBVIOUS

LEMMA MinIs ==
    ASSUME NEW T, T \subseteq Nat, T # {}
    PROVE  Min(T) \in T
BY Least DEF Min

LEMMA MaxIs ==
    ASSUME NEW T, NEW n \in Nat, T \subseteq 0..n, T # {}
    PROVE  Max(T) \in T /\ \A m \in T : m <= Max(T)
<1> DEFINE Bounds == {k \in Nat : \A m \in T : m <= k}
<1>1. n \in Bounds /\ Bounds \subseteq Nat
  OBVIOUS
<1>2. PICK b \in Bounds : \A k \in Bounds : b <= k
  BY <1>1, Least
<1>3. b \in T
  <2> SUFFICES ASSUME b \notin T PROVE FALSE
    OBVIOUS
  <2>1. \A m \in T : m <= b /\ m # b /\ m \in Nat
    BY <1>2
  <2>2. b # 0
    <3>1. PICK m \in T : TRUE
      OBVIOUS
    <3> QED
      BY <2>1, <3>1
  <2>3. b - 1 \in Bounds
    BY <1>2, <2>1, <2>2
  <2> QED
    BY <1>2, <2>3
<1>4. \E x \in T : \A y \in T : x >= y
  BY <1>2, <1>3
<1> QED
  BY <1>4 DEF Max

\* The numbers of a mailbox with n rows are in 1..n, as its ids are.
LEMMA RankIs ==
    ASSUME NEW n \in Nat, NEW rows \in SUBSET (1..n), NEW u \in rows
    PROVE  Rank(u, rows) \in 1..n
<1> DEFINE below == {v \in rows : v <= u}
<1>1. IsFiniteSet(1..n) /\ Cardinality(1..n) = n
  BY FS_Interval
<1>2. IsFiniteSet(below) /\ Cardinality(below) <= n
  BY <1>1, FS_Subset
<1>3. u \in below
  OBVIOUS
<1>4. Cardinality(below) \in Nat /\ Cardinality(below) # 0
  BY <1>2, <1>3, FS_EmptySet, FS_CardinalityType
<1> HIDE DEF below
<1>5. Cardinality(below) \in 1..n
  BY <1>2, <1>4
<1> QED
  BY <1>5 DEF Rank, below

\* The list has a record for each of the rows, and no other.
Records(list, rows) ==
    /\ list \in Seq([uid : 1..last, mail : 1..mails, read : BOOLEAN])
    /\ \A i \in DOMAIN list : list[i].uid \in rows
    /\ \A u \in rows : \E i \in DOMAIN list : list[i].uid = u /\ list[i].mail = row[u].mail

\* Rows in an order have a record each: no two have the same place, and every place is
\* taken.
LEMMA InOrderIs ==
    ASSUME TypeOK, NEW rows \in SUBSET Uid, \A u \in rows : row[u] # Absent,
           NEW place, \A u \in rows : place[u] \in Nat,
           \A u, v \in rows : place[u] = place[v] => u = v,
           NEW list, list = InOrder(rows, place)
    PROVE  Records(list, rows)
<1> DEFINE n == Cardinality(rows)
           upTo(u) == {v \in rows : place[v] <= place[u]}
           at(i) == CHOOSE u \in rows : i = Cardinality(upTo(u))
           f == [u \in rows |-> Cardinality(upTo(u))]
<1>0. rows \subseteq Uid /\ rows \subseteq 1..last /\ last \in Nat /\ mails \in Nat
      /\ \A u \in rows : row[u] \in Entry /\ row[u].mail \in 1..mails
  <2>2. \A u \in Uid : row[u] # Absent => row[u] \in Entry /\ row[u].mail \in 1..mails /\ u <= last
    BY MailboxAssumption DEF TypeOK, Entry, Mail, Uid
  <2> QED
    BY <2>2, MailboxAssumption DEF TypeOK, Uid
<1>1. \A u, v \in rows : place[u] = place[v] => u = v
  OBVIOUS
<1>2. IsFiniteSet(rows) /\ n \in Nat
  <2>1. IsFiniteSet(1..last)
    BY <1>0, FS_Interval
  <2> QED
    BY <1>0, <2>1, FS_Subset, FS_CardinalityType
<1>3. ASSUME NEW u \in rows
      PROVE  /\ IsFiniteSet(upTo(u)) /\ Cardinality(upTo(u)) \in 1..n
  <2>1. upTo(u) \subseteq rows /\ u \in upTo(u)
    BY <1>0
  <2>2. IsFiniteSet(upTo(u)) /\ Cardinality(upTo(u)) <= n
    BY <1>2, <2>1, FS_Subset
  <2>3. Cardinality(upTo(u)) \in Nat /\ Cardinality(upTo(u)) # 0
    BY <2>1, <2>2, FS_CardinalityType, FS_EmptySet
  <2> QED
    BY <1>2, <2>2, <2>3
<1>4. ASSUME NEW u \in rows, NEW v \in rows, Cardinality(upTo(u)) = Cardinality(upTo(v))
      PROVE  u = v
  <2>1. ASSUME NEW x \in rows, NEW y \in rows, place[x] <= place[y],
               Cardinality(upTo(x)) = Cardinality(upTo(y))
        PROVE  x = y
    <3>1. upTo(x) \subseteq upTo(y)
      <4>1. ASSUME NEW z \in rows, place[z] <= place[x] PROVE place[z] <= place[y]
        <5>1. place[x] \in Nat /\ place[y] \in Nat /\ place[z] \in Nat
          BY <1>0
        <5> QED
          BY <2>1, <4>1, <5>1
      <4> QED
        BY <4>1
    <3>2. upTo(x) = upTo(y)
      BY <1>3, <2>1, <3>1, FS_Subset
    <3>3. y \in upTo(x)
      <4>1. place[y] \in Nat
        OBVIOUS
      <4>2. place[y] <= place[y]
        BY <4>1
      <4>3. y \in upTo(y)
        BY <4>2
      <4> QED
        BY <3>2, <4>3
    <3> QED
      BY <1>0, <1>1, <2>1, <3>3
  <2>2. place[u] <= place[v] \/ place[v] <= place[u]
    BY <1>0
  <2> HIDE DEF upTo
  <2> QED
    BY <1>4, <2>1, <2>2
<1> HIDE DEF upTo, n
<1>5. f \in Injection(rows, 1..n)
  BY <1>3, <1>4 DEF Injection, IsInjective
<1>6. f \in Surjection(rows, 1..n)
  <2>1. IsFiniteSet(1..n) /\ Cardinality(1..n) = n
    BY <1>2, FS_Interval
  <2> QED
    BY <1>5, <2>1, FS_Injection DEF n
<1>7. \A i \in 1..n : \E u \in rows : i = Cardinality(upTo(u))
  BY <1>6 DEF Surjection
<1>8. \A i \in 1..n : at(i) \in rows /\ i = Cardinality(upTo(at(i)))
  BY <1>7
<1>9. \A u \in rows : at(Cardinality(upTo(u))) = u
  BY <1>3, <1>4, <1>8
<1> HIDE DEF f
<1>10. list = [i \in 1..n |-> [uid |-> at(i), mail |-> row[at(i)].mail, read |-> row[at(i)].read]]
  BY DEF InOrder, n, upTo
<1> HIDE DEF at
<1>11. \A i \in 1..n : [uid |-> at(i), mail |-> row[at(i)].mail, read |-> row[at(i)].read]
                          \in [uid : 1..last, mail : 1..mails, read : BOOLEAN]
  BY <1>0, <1>8 DEF Entry
<1>12. list \in Seq([uid : 1..last, mail : 1..mails, read : BOOLEAN])
  BY <1>2, <1>10, <1>11
<1>13. \A i \in DOMAIN list : list[i].uid \in rows
  BY <1>8, <1>10
<1>14. ASSUME NEW u \in rows
       PROVE  \E i \in DOMAIN list : list[i].uid = u /\ list[i].mail = row[u].mail
  <2> DEFINE i == Cardinality(upTo(u))
  <2>1. i \in 1..n /\ at(i) = u
    BY <1>3, <1>9
  <2> QED
    BY <1>10, <2>1
<1> QED
  BY <1>12, <1>13, <1>14 DEF Records

\* A listing has a record for each row it lists: no two are about one mail.
LEMMA ListingIs ==
    ASSUME TypeOK, NEW box, NEW r, NEW byUid, NEW list,
           list = Listing(box, r, byUid)
    PROVE  /\ list \in Seq([uid : 1..last, mail : 1..mails, read : BOOLEAN])
           /\ \A i \in DOMAIN list : list[i].uid \in Listed(box, r, byUid)
           /\ \A u \in Listed(box, r, byUid) : \E i \in DOMAIN list :
                  list[i].uid = u /\ list[i].mail = row[u].mail
<1> DEFINE rows  == Listed(box, r, byUid)
           place == [u \in Uid |-> row[u].mail]
<1>1. rows \in SUBSET Uid /\ \A u \in rows : row[u] # Absent
  BY DEF Listed, Shown, ByUid, ByNumber, Direct, In, Inside
<1>2. \A u \in rows : row[u].mail \in Nat /\ u \in Nat
  <2>1. \A u \in Uid : row[u] # Absent => row[u] \in Entry
    BY DEF TypeOK
  <2> QED
    BY <1>1, <2>1, MailboxAssumption DEF Entry, Mail, Uid
<1>3. \A u, v \in rows : row[u].mail = row[v].mail => u = v
  BY <1>2 DEF Listed, Shown
<1> HIDE DEF rows
<1>4. \A u \in rows : place[u] = row[u].mail
  BY <1>1
<1>5. list = InOrder(rows, place)
  BY DEF Listing, rows
<1> HIDE DEF place
<1>6. \A u \in rows : place[u] \in Nat
  BY <1>2, <1>4
<1>7. \A u, v \in rows : place[u] = place[v] => u = v
  BY <1>3, <1>4
<1>8. Records(list, rows)
  BY <1>1, <1>5, <1>6, <1>7, InOrderIs
<1> QED
  BY <1>8 DEF rows, Records

-----------------------------------------------------------------------------
\* The inductive invariant

\* The rows of a view that FETCH shows, and those a number can name
Seen(t, rows) == {u \in rows : \A v \in rows : t.view[v][1] = t.view[u][1] => v <= u}
Unfiled(t)    == {u \in DOMAIN t.view : t.box # "folder" /\ t.view[u][2] = 0}
UidsFrom(t, from) == {u \in DOMAIN t.view : from <= u}

\* What a session was told is what the table showed.
Telling(t) ==
    \/ t.by = "fetch" /\ t.of = {<<Rank(u, Unfiled(t)), u>> : u \in Seen(t, Unfiled(t))}
    \/ t.by = "search" /\ t.of = {<<Rank(u, DOMAIN t.view), u>> : u \in DOMAIN t.view}
    \/ /\ t.by = "uid" /\ t.box # "folder"
       /\ \E from \in Uid : t.of = {<<Rank(u, UidsFrom(t, from)), u>> : u \in Seen(t, UidsFrom(t, from))}

KeyOf(k, p) == IF k.byUid THEN p[2] ELSE p[1]

\* The range r of the command k names the row u.
NamedBy(k, t, r, u) == \E p \in t.of : p[2] = u /\ Within(KeyOf(k, p), r)

\* What the ranges that are left name is meant, and they begin with something named,
\* unless with '*', which they then end with.  UID EXPUNGE names ids.
Naming(k, t) ==
    /\ k.act = "expunge" => k.byUid
    /\ \A i \in DOMAIN k.ranges :
          /\ \A p \in t.of : Within(KeyOf(k, p), k.ranges[i]) => p[2] \in k.meant
          /\ k.ranges[i].from # 0 => \E p \in t.of : KeyOf(k, p) = k.ranges[i].from
          /\ k.ranges[i].from = 0 => k.ranges[i].to = 0

\* The command cannot be undone on the row by anybody.
Settled(k, table, u) ==
    \/ table[u] = Absent
    \/ k.act \in {"seen", "body"} /\ table[u].read
    \/ k.act = "copy"

\* As long as no reason was noted, what the command means is done, listed or named by
\* a range that has not been looked up, if only by '*'.
Covered(k, t, table) ==
    k.why = {} => \A u \in k.meant :
        \/ Settled(k, table, u)
        \/ \E i \in DOMAIN k.ranges : k.ranges[i].from = 0
        \/ \E i \in DOMAIN k.ranges : NamedBy(k, t, k.ranges[i], u)
        \/ \E i \in DOMAIN k.rows : k.rows[i].uid = u /\ k.rows[i].mail = table[u].mail

\* MOVE and COPY have no rows before their last range, UID EXPUNGE none before its ids.
OneListing(k) ==
    (LastRange(k) \/ k.act = "expunge") /\ k.why = {} /\ k.ranges # <<>> => k.rows = <<>>

CommandInv(c) ==
    /\ cmd[c].act = "idle" => cmd[c] = Idle
    /\ Telling(told[c])
    /\ Naming(cmd[c], told[c])
    /\ Covered(cmd[c], told[c], row)
    /\ OneListing(cmd[c])

IInv ==
    /\ TypeOK
    /\ \A c \in Client : CommandInv(c)
    /\ WrongHitIsExplained /\ KeptIsExplained /\ InboxIsCommanded

-----------------------------------------------------------------------------
\* Changes of the table

\* No relation that was gone comes back, none changes its mail, none becomes unread.
Evolves ==
    \A u \in 1..last :
        \/ row'[u] = Absent
        \/ row[u] # Absent /\ row'[u].mail = row[u].mail /\ (row[u].read => row'[u].read)

\* What every step does to the table.
RowStep ==
    /\ last' \in 0..MaxUid /\ last <= last' /\ mails' \in 0..MaxMail /\ mails <= mails'
    /\ row' \in [Uid -> Entry \union {Absent}]
    /\ \A u \in Uid : row'[u].mail <= mails' /\ (u > last' => row'[u] = Absent)
    /\ placed' \in [Uid -> (Box \union {"absent"}) \X (0..1)]
    /\ Evolves
    /\ InboxIsCommanded'

LEMMA RowFacts ==
    ASSUME TypeOK
    PROVE  /\ last \in 0..MaxUid /\ mails \in 0..MaxMail /\ last \in Nat /\ mails \in Nat
           /\ MaxUid \in Nat /\ MaxMail \in Nat
           /\ Absent \notin Entry /\ Absent.mail = 0 /\ Absent.read = FALSE
           /\ \A u \in Uid : /\ u \in Nat /\ row[u] \in Entry \union {Absent}
                             /\ row[u].mail \in 0..mails
                             /\ u > last => row[u] = Absent
                             /\ row[u].mail # 0 => row[u] \in Entry
           /\ \A u \in 1..last : u \in Uid
           /\ \A u \in Uid : row[u] # Absent => u \in 1..last /\ row[u].mail \in 1..mails
<1>1. /\ last \in 0..MaxUid /\ mails \in 0..MaxMail /\ MaxUid \in Nat /\ MaxMail \in Nat
  BY MailboxAssumption DEF TypeOK
<1>2. Absent \notin Entry /\ Absent.mail = 0 /\ Absent.read = FALSE
  BY <1>1 DEF Absent, Entry, Mail
<1>3. ASSUME NEW u \in Uid
      PROVE  /\ u \in Nat /\ row[u] \in Entry \union {Absent} /\ row[u].mail \in 0..mails
             /\ u > last => row[u] = Absent
             /\ row[u].mail # 0 => row[u] \in Entry
             /\ row[u] # Absent => u \in 1..last /\ row[u].mail \in 1..mails
  <2>1. row[u] \in Entry \union {Absent} /\ row[u].mail <= mails /\ (u > last => row[u] = Absent)
    BY DEF TypeOK
  <2>2. row[u] \in Entry => row[u].mail \in 1..MaxMail
    BY DEF Entry, Mail
  <2> QED
    BY <1>1, <1>2, <2>1, <2>2 DEF Uid
<1> QED
  BY <1>1, <1>2, <1>3 DEF Uid

\* A step that leaves every relation alone, or deletes it, or changes it and keeps its
\* mail and that it was read.
LEMMA Changing ==
    ASSUME TypeOK, InboxIsCommanded, UNCHANGED <<last, mails>>,
           row' \in [Uid -> Entry \union {Absent}],
           placed' \in [Uid -> (Box \union {"absent"}) \X (0..1)],
           \A u \in Uid : \/ row'[u] = Absent
                          \/ /\ row[u] # Absent /\ row'[u].mail = row[u].mail
                             /\ row[u].read => row'[u].read,
           \A u \in Uid : row'[u] # Absent /\ Place(row'[u]) = <<"inbox", 0>>
                            => \/ placed'[u] = <<"inbox", 0>>
                               \/ Place(row[u]) = <<"inbox", 0>> /\ placed'[u] = placed[u]
    PROVE  RowStep
<1>1. InboxIsCommanded'
  <2>1. \A u \in Uid : row'[u] # Absent => row[u] # Absent
    OBVIOUS
  <2> QED
    BY <2>1 DEF InboxIsCommanded, Present
<1>2. Evolves
  BY RowFacts DEF Evolves
<1>3. \A u \in Uid : row'[u].mail <= mails' /\ (u > last' => row'[u] = Absent)
  BY RowFacts
<1> QED
  BY <1>1, <1>2, <1>3, RowFacts DEF RowStep

LEMMA EntryIs ==
    ASSUME NEW mail \in Mail, NEW status \in Box, NEW folder \in 0..1, NEW read \in BOOLEAN
    PROVE  LET e == [mail |-> mail, status |-> status, folder |-> folder, read |-> read]
           IN  e \in Entry /\ Place(e) = <<status, folder>>
BY DEF Entry, Place

LEMMA PutIs ==
    ASSUME TypeOK, InboxIsCommanded, UNCHANGED <<last, mails>>,
           NEW ms \in SUBSET (1..mails), NEW dest \in Selected,
           row' = Put(ms, dest), placed' = PlacedAs(row', ms)
    PROVE  RowStep
<1>1. \A u \in Uid : row[u].mail \in ms => row[u] \in Entry
  BY RowFacts
<1>2. \A u \in Uid : row[u].mail \notin ms => row'[u] = row[u] /\ placed'[u] = placed[u]
  BY DEF Put, PlacedAs
<1>3. ASSUME NEW u \in Uid, row[u].mail \in ms
      PROVE  /\ row'[u] \in Entry /\ row'[u].mail = row[u].mail /\ row'[u].read = row[u].read
             /\ placed'[u] = Place(row'[u]) /\ Place(row'[u]) \in Box \X (0..1)
  <2>1. row'[u] = IF dest = "folder" THEN [row[u] EXCEPT !.folder = 1]
                  ELSE [row[u] EXCEPT !.status = dest, !.folder = 0]
    BY <1>3 DEF Put
  <2>2. row'[u] \in Entry /\ row'[u].mail = row[u].mail /\ row'[u].read = row[u].read
    <3>1. CASE dest = "folder"
      BY <1>1, <1>3, <2>1, <3>1 DEF Entry
    <3>2. CASE dest # "folder"
      <4>1. dest \in Box /\ row'[u] = [row[u] EXCEPT !.status = dest, !.folder = 0]
        BY <2>1, <3>2 DEF Selected
      <4>2. row'[u] = [mail |-> row[u].mail, status |-> dest, folder |-> 0, read |-> row[u].read]
        BY <1>1, <1>3, <4>1 DEF Entry
      <4>3. row[u].mail \in Mail /\ row[u].read \in BOOLEAN /\ 0 \in 0..1
        BY <1>1, <1>3 DEF Entry
      <4>4. row'[u] \in Entry
        BY <4>1, <4>2, <4>3, EntryIs
      <4> QED
        BY <4>2, <4>4
    <3> QED
      BY <3>1, <3>2
  <2>3. placed'[u] = Place(row'[u])
    BY <1>3, <2>2 DEF PlacedAs
  <2> QED
    BY <2>2, <2>3 DEF Place, Entry
<1>4. row' \in [Uid -> Entry \union {Absent}]
  <2>1. \A u \in Uid : row'[u] \in Entry \union {Absent}
    BY <1>2, <1>3, RowFacts
  <2>2. row' = [u \in Uid |-> row'[u]]
    BY DEF Put
  <2> QED
    BY <2>1, <2>2
<1>5. placed' \in [Uid -> (Box \union {"absent"}) \X (0..1)]
  <2>1. \A u \in Uid : placed'[u] \in (Box \union {"absent"}) \X (0..1)
    BY <1>2, <1>3 DEF TypeOK
  <2>2. placed' = [u \in Uid |-> placed'[u]]
    BY DEF PlacedAs
  <2> QED
    BY <2>1, <2>2
<1>6. \A u \in Uid : \/ row'[u] = Absent
                     \/ /\ row[u] # Absent /\ row'[u].mail = row[u].mail
                        /\ row[u].read => row'[u].read
  BY <1>1, <1>2, <1>3, RowFacts
<1>7. \A u \in Uid : row'[u] # Absent /\ Place(row'[u]) = <<"inbox", 0>>
                       => \/ placed'[u] = <<"inbox", 0>>
                          \/ Place(row[u]) = <<"inbox", 0>> /\ placed'[u] = placed[u]
  BY <1>2, <1>3
<1> QED
  BY <1>4, <1>5, <1>6, <1>7, Changing

LEMMA MarkedIs ==
    ASSUME TypeOK, InboxIsCommanded, UNCHANGED <<last, mails, placed>>,
           NEW m \in 1..mails, row' = Marked(row, m)
    PROVE  /\ RowStep
           /\ \A u \in Uid : row[u].mail = m => row'[u].read
<1>1. \A u \in Uid : row[u].mail = m => row[u] \in Entry
  BY RowFacts
<1>2. \A u \in Uid : row[u].mail # m => row'[u] = row[u]
  BY DEF Marked
<1>3. ASSUME NEW u \in Uid, row[u].mail = m
      PROVE  /\ row'[u] \in Entry /\ row'[u].mail = row[u].mail /\ row'[u].read
             /\ Place(row'[u]) = Place(row[u])
  <2>1. row'[u] = [row[u] EXCEPT !.read = TRUE]
    BY <1>3 DEF Marked
  <2> QED
    BY <1>1, <1>3, <2>1 DEF Entry, Place
<1>4. row' \in [Uid -> Entry \union {Absent}]
  <2>1. \A u \in Uid : row'[u] \in Entry \union {Absent}
    BY <1>2, <1>3, RowFacts
  <2>2. row' = [u \in Uid |-> row'[u]]
    BY DEF Marked
  <2> QED
    BY <2>1, <2>2
<1>5. placed' \in [Uid -> (Box \union {"absent"}) \X (0..1)]
  BY DEF TypeOK
<1>6. \A u \in Uid : \/ row'[u] = Absent
                     \/ /\ row[u] # Absent /\ row'[u].mail = row[u].mail
                        /\ row[u].read => row'[u].read
  BY <1>1, <1>2, <1>3, RowFacts
<1>7. \A u \in Uid : row'[u] # Absent /\ Place(row'[u]) = <<"inbox", 0>>
                       => \/ placed'[u] = <<"inbox", 0>>
                          \/ Place(row[u]) = <<"inbox", 0>> /\ placed'[u] = placed[u]
  BY <1>2, <1>3
<1> QED
  BY <1>3, <1>4, <1>5, <1>6, <1>7, Changing

LEMMA StillIs ==
    ASSUME TypeOK, InboxIsCommanded, UNCHANGED <<row, last, placed>>,
           mails' \in 0..MaxMail, mails <= mails'
    PROVE  RowStep
<1>1. InboxIsCommanded'
  BY DEF InboxIsCommanded, Present
<1>2. Evolves
  BY DEF Evolves
<1>3. \A u \in Uid : row'[u].mail <= mails' /\ (u > last' => row'[u] = Absent)
  BY RowFacts
<1> QED
  BY <1>1, <1>2, <1>3, RowFacts DEF RowStep, TypeOK

LEMMA InsertIs ==
    ASSUME TypeOK, InboxIsCommanded, NEW e \in Entry, Insert(e),
           mails' \in 0..MaxMail, mails <= mails', e.mail <= mails'
    PROVE  RowStep
<1>1. CASE last = MaxUid
  BY <1>1, StillIs DEF Insert
<1>2. CASE last # MaxUid
  <2>1. /\ last' = last + 1 /\ row' = [row EXCEPT ![last'] = e]
        /\ placed' = [placed EXCEPT ![last'] = Place(e)]
    BY <1>2 DEF Insert
  <2>2. last' \in Uid /\ last' \in 0..MaxUid /\ last <= last' /\ last' \notin 1..last
    BY <1>2, <2>1, RowFacts DEF Uid
  <2>3. row'[last'] = e /\ placed'[last'] = Place(e)
        /\ \A u \in Uid : u # last' => row'[u] = row[u] /\ placed'[u] = placed[u]
    BY <2>1, <2>2 DEF TypeOK
  <2>4. row' \in [Uid -> Entry \union {Absent}]
    BY <2>1, <2>2 DEF TypeOK
  <2>5. Place(e) \in (Box \union {"absent"}) \X (0..1)
    BY DEF Place, Entry
  <2>6. placed' \in [Uid -> (Box \union {"absent"}) \X (0..1)]
    BY <2>1, <2>2, <2>5 DEF TypeOK
  <2>7. \A u \in Uid : row'[u].mail <= mails' /\ (u > last' => row'[u] = Absent)
    BY <2>1, <2>2, <2>3, RowFacts
  <2>8. Evolves
    BY <2>2, <2>3, RowFacts DEF Evolves
  <2>9. InboxIsCommanded'
    BY <2>3 DEF InboxIsCommanded, Present
  <2> QED
    BY <2>2, <2>4, <2>6, <2>7, <2>8, <2>9 DEF RowStep
<1> QED
  BY <1>1, <1>2

LEMMA GoneIs ==
    ASSUME TypeOK, InboxIsCommanded, UNCHANGED <<last, mails, placed>>, NEW us,
           row' = [u \in Uid |-> IF u \in us THEN Absent ELSE row[u]]
    PROVE  RowStep
<1>1. \A u \in Uid : row'[u] = Absent \/ row'[u] = row[u]
  OBVIOUS
<1>2. row' \in [Uid -> Entry \union {Absent}]
  BY RowFacts
<1>3. placed' \in [Uid -> (Box \union {"absent"}) \X (0..1)]
  BY DEF TypeOK
<1>4. \A u \in Uid : \/ row'[u] = Absent
                     \/ /\ row[u] # Absent /\ row'[u].mail = row[u].mail
                        /\ row[u].read => row'[u].read
  BY <1>1
<1>5. \A u \in Uid : row'[u] # Absent /\ Place(row'[u]) = <<"inbox", 0>>
                       => Place(row[u]) = <<"inbox", 0>> /\ placed'[u] = placed[u]
  BY <1>1
<1> QED
  BY <1>2, <1>3, <1>4, <1>5, Changing

\* Writing a row back never moves it to the inbox: a column is only written when it is
\* not the inbox's.
LEMMA WriteBackIs ==
    ASSUME TypeOK, InboxIsCommanded, UNCHANGED <<last, mails, placed>>,
           NEW u \in Uid, NEW found \in Entry,
           row' = [row EXCEPT ![u] = WriteBack(@, found)]
    PROVE  RowStep
<1>1. row'[u] = WriteBack(row[u], found) /\ \A v \in Uid : v # u => row'[v] = row[v]
  BY DEF TypeOK
<1>2. CASE row[u] = Absent
  <2>1. row' = row
    BY <1>1, <1>2 DEF WriteBack, TypeOK
  <2> QED
    BY <2>1, StillIs, RowFacts
<1>3. CASE row[u] # Absent
  <2>0. row[u] \in Entry
    BY <1>3, RowFacts
  <2> DEFINE status == IF found.status = "inbox" THEN row[u].status ELSE found.status
             folder == IF found.folder = 0 THEN row[u].folder ELSE found.folder
  <2>a. status \in Box /\ folder \in 0..1 /\ (status = "inbox" => row[u].status = "inbox")
        /\ (folder = 0 => row[u].folder = 0)
    BY <2>0 DEF Entry
  <2>1. row'[u] = [row[u] EXCEPT !.read = TRUE, !.status = status, !.folder = folder]
    BY <1>1, <1>3 DEF WriteBack
  <2> HIDE DEF status, folder
  <2>2. row'[u] \in Entry /\ row'[u].mail = row[u].mail /\ row'[u].read
        /\ Place(row'[u]) = <<status, folder>>
    <3>1. row'[u] = [mail |-> row[u].mail, status |-> status, folder |-> folder, read |-> TRUE]
      BY <2>0, <2>1 DEF Entry
    <3>2. row[u].mail \in Mail
      BY <2>0 DEF Entry
    <3>3. row'[u] \in Entry
      BY <2>a, <3>1, <3>2, EntryIs
    <3> QED
      BY <3>1, <3>3 DEF Place
  <2>3. Place(row'[u]) = <<"inbox", 0>> => Place(row[u]) = <<"inbox", 0>>
    BY <2>a, <2>2 DEF Place
  <2>4. row' \in [Uid -> Entry \union {Absent}]
    BY <1>1, <2>2 DEF TypeOK
  <2>5. placed' \in [Uid -> (Box \union {"absent"}) \X (0..1)]
    BY DEF TypeOK
  <2>6. \A v \in Uid : \/ row'[v] = Absent
                       \/ /\ row[v] # Absent /\ row'[v].mail = row[v].mail
                          /\ row[v].read => row'[v].read
    BY <1>1, <1>3, <2>2
  <2>7. \A v \in Uid : row'[v] # Absent /\ Place(row'[v]) = <<"inbox", 0>>
                         => Place(row[v]) = <<"inbox", 0>> /\ placed'[v] = placed[v]
    BY <1>1, <2>3
  <2> QED
    BY <2>4, <2>5, <2>6, <2>7, Changing
<1> QED
  BY <1>2, <1>3

LEMMA RuledIs ==
    ASSUME TypeOK, InboxIsCommanded, UNCHANGED <<last, mails>>,
           NEW action \in {"read", "delete", "file", "sent"} \union Box, NEW m \in 1..mails,
           row' = Ruled(action, m),
           placed' = IF action = "read" THEN placed ELSE PlacedAs(row', {m})
    PROVE  RowStep
<1>1. \A u \in Uid : row[u].mail = m => row[u] \in Entry
  BY RowFacts
<1>2. \A u \in Uid : row[u].mail # m => row'[u] = row[u]
  BY DEF Ruled
<1>3. ASSUME NEW u \in Uid, row[u].mail = m
      PROVE  /\ row'[u] \in Entry /\ row'[u].mail = row[u].mail
             /\ row[u].read => row'[u].read
             /\ action = "read" => Place(row'[u]) = Place(row[u])
  <2>1. row'[u] = CASE action = "read"   -> [row[u] EXCEPT !.read = TRUE]
                    [] action = "delete" -> [row[u] EXCEPT !.status = "deleted"]
                    [] action = "file"   -> [row[u] EXCEPT !.folder = 1]
                    [] action = "sent"   -> [row[u] EXCEPT !.status = "inbox", !.folder = 0]
                    [] OTHER             -> [row[u] EXCEPT !.status = action, !.folder = 0]
    BY <1>3 DEF Ruled
  <2>2. row[u] \in [mail : Mail, status : Box, folder : 0..1, read : BOOLEAN] /\ "deleted" \in Box
      /\ "inbox" \in Box
    BY <1>1, <1>3, MailboxAssumption DEF Entry
  <2>3. CASE action = "read"
    BY <2>1, <2>2, <2>3 DEF Entry, Place
  <2>4. CASE action = "delete"
    BY <2>1, <2>2, <2>4 DEF Entry
  <2>5. CASE action = "file"
    BY <2>1, <2>2, <2>5 DEF Entry
  <2>6. CASE action \notin {"read", "delete", "file"}
    <3> DEFINE status == IF action = "sent" THEN "inbox" ELSE action
    <3>1. row'[u] = [row[u] EXCEPT !.status = status, !.folder = 0] /\ status \in Box
      BY <2>1, <2>2, <2>6
    <3> HIDE DEF status
    <3>2. row'[u] = [mail |-> row[u].mail, status |-> status, folder |-> 0, read |-> row[u].read]
      BY <1>1, <1>3, <3>1 DEF Entry
    <3>3. row[u].mail \in Mail /\ row[u].read \in BOOLEAN /\ 0 \in 0..1
      BY <1>1, <1>3 DEF Entry
    <3>4. row'[u] \in Entry
      BY <3>1, <3>2, <3>3, EntryIs
    <3> QED
      BY <2>6, <3>2, <3>4
  <2> QED
    BY <2>3, <2>4, <2>5, <2>6
<1>4. row' \in [Uid -> Entry \union {Absent}]
  <2>1. \A u \in Uid : row'[u] \in Entry \union {Absent}
    BY <1>2, <1>3, RowFacts
  <2>2. row' = [u \in Uid |-> row'[u]]
    BY DEF Ruled
  <2> QED
    BY <2>1, <2>2
<1>5. \A u \in Uid : row'[u].mail = m <=> row[u].mail = m
  BY <1>2, <1>3
<1>6. \A u \in Uid : placed'[u] = IF action # "read" /\ row[u].mail = m THEN Place(row'[u]) ELSE placed[u]
  BY <1>5 DEF PlacedAs
<1>7. placed' \in [Uid -> (Box \union {"absent"}) \X (0..1)]
  <2>1. \A u \in Uid : row'[u] \in Entry => Place(row'[u]) \in (Box \union {"absent"}) \X (0..1)
    BY DEF Place, Entry
  <2>2. \A u \in Uid : placed'[u] \in (Box \union {"absent"}) \X (0..1)
    <3>1. TAKE u \in Uid
    <3>2. placed[u] \in (Box \union {"absent"}) \X (0..1)
      BY DEF TypeOK
    <3>3. row[u].mail = m => Place(row'[u]) \in (Box \union {"absent"}) \X (0..1)
      BY <1>3, <2>1
    <3> QED
      BY <1>6, <3>2, <3>3
  <2>3. placed' = [u \in Uid |-> placed'[u]]
    BY DEF PlacedAs, TypeOK
  <2> QED
    BY <2>2, <2>3
<1>8. \A u \in Uid : \/ row'[u] = Absent
                     \/ /\ row[u] # Absent /\ row'[u].mail = row[u].mail
                        /\ row[u].read => row'[u].read
  BY <1>1, <1>2, <1>3, RowFacts
<1>9. \A u \in Uid : row'[u] # Absent /\ Place(row'[u]) = <<"inbox", 0>>
                       => \/ placed'[u] = <<"inbox", 0>>
                          \/ Place(row[u]) = <<"inbox", 0>> /\ placed'[u] = placed[u]
  BY <1>2, <1>3, <1>6
<1> QED
  BY <1>4, <1>7, <1>8, <1>9, Changing

-----------------------------------------------------------------------------
\* Commands while the table changes

LEMMA Grows ==
    ASSUME TypeOK, RowStep
    PROVE  /\ 1..last \subseteq 1..last' /\ 1..mails \subseteq 1..mails'
           /\ Command \subseteq Command' /\ Told \subseteq Told'
<1>1. /\ last \in Nat /\ last' \in Nat /\ last <= last'
      /\ mails \in Nat /\ mails' \in Nat /\ mails <= mails'
  BY RowFacts DEF RowStep
<1>2. 1..last \subseteq 1..last' /\ 1..mails \subseteq 1..mails'
  BY <1>1
<1>3. ASSUME NEW k \in Command PROVE k \in Command'
  <2>1. k.rows \in Seq([uid : 1..last, mail : 1..mails, read : BOOLEAN])
    BY DEF Command
  <2>2. [uid : 1..last, mail : 1..mails, read : BOOLEAN]
          \subseteq [uid : 1..last', mail : 1..mails', read : BOOLEAN]
    BY <1>2
  <2>3. k.rows \in Seq([uid : 1..last', mail : 1..mails', read : BOOLEAN])
    BY <2>1, <2>2, SeqMonotonic
  <2>4. k.meant \in SUBSET (1..last')
    BY <1>2 DEF Command
  <2> QED
    BY <2>3, <2>4 DEF Command
<1>4. ASSUME NEW t \in Told PROVE t \in Told'
  <2>1. t.of \in SUBSET ((1..last') \X (1..last'))
    BY <1>2 DEF Told
  <2>2. t.view \in UNION {[rows -> Mail \X (0..1)] : rows \in SUBSET (1..last')}
    <3>1. PICK rows \in SUBSET (1..last) : t.view \in [rows -> Mail \X (0..1)]
      BY DEF Told
    <3> QED
      BY <1>2, <3>1
  <2> QED
    BY <2>1, <2>2 DEF Told
<1> QED
  BY <1>2, <1>3, <1>4

\* What is settled stays settled, and a row that is there is still about its mail.
LEMMA SettledStays ==
    ASSUME TypeOK, Evolves, NEW k, NEW u \in 1..last
    PROVE  /\ Settled(k, row, u) => Settled(k, row', u)
           /\ Settled(k, row', u) \/ row'[u].mail = row[u].mail
BY DEF Evolves, Settled

LEMMA CoveredStays ==
    ASSUME TypeOK, Evolves, NEW k \in Command, NEW t, Covered(k, t, row)
    PROVE  Covered(k, t, row')
<1>1. SUFFICES ASSUME k.why = {}, NEW u \in k.meant, ~Settled(k, row', u)
               PROVE  \/ \E i \in DOMAIN k.ranges : k.ranges[i].from = 0
                      \/ \E i \in DOMAIN k.ranges : NamedBy(k, t, k.ranges[i], u)
                      \/ \E i \in DOMAIN k.rows : k.rows[i].uid = u /\ k.rows[i].mail = row'[u].mail
  BY DEF Covered
<1>2. u \in 1..last
  BY DEF Command
<1>3. ~Settled(k, row, u) /\ row'[u].mail = row[u].mail
  BY <1>1, <1>2, SettledStays
<1> QED
  BY <1>1, <1>3 DEF Covered

LEMMA OthersKeep ==
    ASSUME TypeOK, NEW c \in Client, CommandInv(c), Evolves, cmd'[c] = cmd[c], told'[c] = told[c]
    PROVE  CommandInv(c)'
<1>1. cmd[c] \in Command
  BY DEF TypeOK
<1>2. Covered(cmd[c], told[c], row')
  BY <1>1, CoveredStays DEF CommandInv
<1> QED
  BY <1>2 DEF CommandInv

LEMMA IdleIs ==
    /\ Idle \in Command /\ NotTold \in Told /\ Telling(NotTold)
    /\ \A t, table : Naming(Idle, t) /\ Covered(Idle, t, table) /\ OneListing(Idle)
<1>1. Idle \in Command
  BY MailboxAssumption DEF Idle, Command, Selected
<1>2. NotTold.view \in [{} -> Mail \X (0..1)]
  BY DEF NotTold
<1>3. NotTold \in Told
  BY <1>2, MailboxAssumption DEF NotTold, Told, Selected
<1>4. Telling(NotTold)
  <2>1. Unfiled(NotTold) = {}
    BY DEF Unfiled, NotTold
  <2>2. Seen(NotTold, {}) = {}
    BY DEF Seen
  <2>3. NotTold.of = {} /\ NotTold.by = "fetch"
    BY DEF NotTold
  <2> QED
    BY <2>1, <2>2, <2>3 DEF Telling
<1>5. \A t, table : Naming(Idle, t) /\ Covered(Idle, t, table) /\ OneListing(Idle)
  BY DEF Naming, Covered, OneListing, Idle
<1> QED
  BY <1>1, <1>3, <1>4, <1>5

\* The command of one session goes on and the invariant of the others is kept.
LEMMA SessionKeeps ==
    ASSUME IInv, RowStep, NEW c \in Client, NEW k \in Command', NEW t \in Told',
           cmd' = [cmd EXCEPT ![c] = k], told' = [told EXCEPT ![c] = t],
           k.act = "idle" => k = Idle,
           Telling(t), Naming(k, t), Covered(k, t, row'), OneListing(k),
           issued' \in 0..MaxCommand, UNCHANGED <<pop, web, pending>>,
           wrong' \union kept' \subseteq SUBSET Why, WrongHitIsExplained', KeptIsExplained'
    PROVE  IInv'
<1>1. cmd'[c] = k /\ told'[c] = t /\ \A d \in Client : d # c => cmd'[d] = cmd[d] /\ told'[d] = told[d]
  BY DEF IInv, TypeOK
<1>2. TypeOK'
  <2>1. cmd' \in [Client -> Command'] /\ told' \in [Client -> Told']
    BY Grows DEF IInv, TypeOK
  <2>2. pop' \in [open : BOOLEAN, marks : SUBSET (1..mails')] /\ (pop'.open \/ pop' = Closed)
    BY Grows DEF IInv, TypeOK
  <2>3. web' \subseteq [uid : 1..last', found : Entry]
    BY Grows DEF IInv, TypeOK
  <2>4. pending' \subseteq [mail : 1..mails', rules : SUBSET (DOMAIN Rule), forward : BOOLEAN]
    BY Grows DEF IInv, TypeOK
  <2> QED
    BY <2>1, <2>2, <2>3, <2>4 DEF TypeOK, RowStep
<1>3. ASSUME NEW d \in Client PROVE CommandInv(d)'
  <2>1. CASE d = c
    BY <1>1, <2>1 DEF CommandInv
  <2>2. CASE d # c
    BY <1>1, <2>2, OthersKeep DEF IInv, RowStep
  <2> QED
    BY <2>1, <2>2
<1> QED
  BY <1>2, <1>3 DEF IInv, RowStep

\* A command that is over with no reason noted has done what it was to do.
LEMMA ContinueKeeps ==
    ASSUME IInv, RowStep, NEW c \in Client, NEW k \in Command', k.act # "idle",
           Continue(c, k, row'),
           \/ Naming(k, told[c]) /\ Covered(k, told[c], row') /\ OneListing(k)
           \/ /\ k.ranges = <<>> /\ k.rows = <<>>
              /\ k.why = {} => \A u \in k.meant : ~Undone(k, row', u),
           UNCHANGED <<pop, web, pending, issued>>,
           wrong' \subseteq SUBSET Why, WrongHitIsExplained'
    PROVE  IInv'
<1> DEFINE over == k.ranges = <<>> /\ k.rows = <<>>
<1>0. /\ cmd' = [cmd EXCEPT ![c] = IF over THEN Idle ELSE k]
      /\ told' = IF over THEN [told EXCEPT ![c] = NotTold] ELSE told
      /\ kept' = IF over /\ \E u \in k.meant : Undone(k, row', u) THEN kept \union {k.why} ELSE kept
  BY DEF Continue
<1>1. k.why \in SUBSET Why /\ kept \subseteq SUBSET Why
  BY DEF Command, IInv, TypeOK
<1>2. kept' \subseteq SUBSET Why
  BY <1>0, <1>1
<1>3. ASSUME over, k.why = {}, NEW u \in k.meant PROVE ~Undone(k, row', u)
  <2>1. CASE Covered(k, told[c], row')
    <3>1. Settled(k, row', u)
      BY <1>3, <2>1 DEF Covered
    <3> QED
      BY <3>1 DEF Settled, Undone
  <2>2. CASE \A v \in k.meant : ~Undone(k, row', v)
    BY <1>3, <2>2
  <2> QED
    BY <1>3, <2>1, <2>2
<1>4. KeptIsExplained'
  BY <1>0, <1>3 DEF KeptIsExplained, IInv
<1>5. issued' \in 0..MaxCommand
  BY DEF IInv, TypeOK
<1>6. CASE over
  <2>1. Idle \in Command' /\ NotTold \in Told'
    BY IdleIs, Grows DEF IInv
  <2>2. /\ Telling(NotTold) /\ Naming(Idle, NotTold) /\ Covered(Idle, NotTold, row')
        /\ OneListing(Idle)
    BY IdleIs
  <2> QED
    BY <1>0, <1>2, <1>4, <1>5, <1>6, <2>1, <2>2, SessionKeeps
<1>7. CASE ~over
  <2>1. told[c] \in Told' /\ told' = [told EXCEPT ![c] = told[c]] /\ Telling(told[c])
    BY <1>0, <1>7, Grows DEF IInv, TypeOK, CommandInv
  <2>2. cmd' = [cmd EXCEPT ![c] = k]
    BY <1>0, <1>7
  <2> HIDE DEF over
  <2> QED
    BY <1>2, <1>4, <1>5, <1>7, <2>1, <2>2, SessionKeeps DEF over
<1> QED
  BY <1>6, <1>7

-----------------------------------------------------------------------------
\* The steps of a session

\* The rows of a mailbox are among the ids given out.
LEMMA InIs ==
    ASSUME TypeOK, NEW box
    PROVE  /\ In(box) \subseteq 1..last /\ In(box) \subseteq Uid /\ Direct(box) \subseteq In(box)
           /\ \A u \in In(box) : row[u] \in Entry
BY RowFacts DEF In, Inside, Direct

\* What a session is told of rows is numbers and ids, and the view is the mailbox's.
LEMMA TellKeeps ==
    ASSUME IInv, NEW c \in Client, NEW box \in Selected, NEW by \in {"fetch", "search", "uid"},
           NEW rows \in SUBSET (1..last), NEW shown \in SUBSET rows,
           Tell(c, box, by, {<<Rank(u, rows), u>> : u \in shown}),
           Telling([box |-> box, by |-> by, of |-> {<<Rank(u, rows), u>> : u \in shown},
                    view |-> View(box)])
    PROVE  IInv'
<1> DEFINE of == {<<Rank(u, rows), u>> : u \in shown}
           t == [box |-> box, by |-> by, of |-> of, view |-> View(box)]
<1>1. of \subseteq (1..last) \X (1..last)
  BY RankIs, RowFacts DEF IInv
<1>2. View(box) \in [In(box) -> Mail \X (0..1)]
  BY InIs DEF View, Entry, IInv
<1>3. View(box) \in UNION {[us -> Mail \X (0..1)] : us \in SUBSET (1..last)}
  BY <1>2, InIs DEF IInv
<1> HIDE DEF of
<1>4. t \in Told
  BY <1>1, <1>3 DEF Told
<1>5. /\ cmd[c].act = "idle" /\ told' = [told EXCEPT ![c] = t]
      /\ UNCHANGED <<row, last, mails, cmd, pop, web, pending, issued, placed, wrong, kept>>
  BY DEF Tell, of
<1>6. Telling(t)
  BY DEF of
<1> HIDE DEF t
<1>7. cmd[c] = Idle /\ cmd' = [cmd EXCEPT ![c] = Idle]
  BY <1>5 DEF IInv, CommandInv, TypeOK
<1>8. RowStep
  BY <1>5, StillIs, RowFacts DEF IInv
<1>9. Idle \in Command' /\ t \in Told'
  BY <1>4, <1>8, IdleIs, Grows DEF IInv
<1>10. Naming(Idle, t) /\ Covered(Idle, t, row') /\ OneListing(Idle)
  BY IdleIs
<1>11. issued' \in 0..MaxCommand /\ wrong' \union kept' \subseteq SUBSET Why
       /\ WrongHitIsExplained' /\ KeptIsExplained'
  BY <1>5 DEF IInv, TypeOK, WrongHitIsExplained, KeptIsExplained
<1> QED
  BY <1>5, <1>6, <1>7, <1>8, <1>9, <1>10, <1>11, SessionKeeps

LEMMA ViewIs ==
    ASSUME NEW box, NEW t, t.box = box, t.view = View(box)
    PROVE  /\ DOMAIN t.view = In(box) /\ Unfiled(t) = Direct(box)
           /\ \A rows \in SUBSET In(box) : Seen(t, rows) = Shown(rows)
<1>1. t.view = [u \in In(box) |-> <<row[u].mail, row[u].folder>>]
  BY DEF View
<1>2. DOMAIN t.view = In(box)
  BY <1>1
<1>3. \A u \in In(box) : t.view[u][1] = row[u].mail /\ t.view[u][2] = row[u].folder
  BY <1>1
<1>4. Unfiled(t) = Direct(box)
  BY <1>2, <1>3 DEF Unfiled, Direct
<1>5. \A rows \in SUBSET In(box) : Seen(t, rows) = Shown(rows)
  BY <1>3 DEF Seen, Shown
<1> QED
  BY <1>2, <1>4, <1>5

LEMMA FetchStep == ASSUME IInv, NEW c \in Client, Fetch(c) PROVE IInv'
<1>1. PICK box \in Selected :
         Tell(c, box, "fetch", {<<Rank(u, Direct(box)), u>> : u \in Shown(Direct(box))})
  BY DEF Fetch
<1>2. Direct(box) \in SUBSET (1..last) /\ Shown(Direct(box)) \in SUBSET Direct(box)
      /\ Direct(box) \in SUBSET In(box)
  BY InIs DEF Shown, IInv
<1> DEFINE t == [box |-> box, by |-> "fetch",
                 of |-> {<<Rank(u, Direct(box)), u>> : u \in Shown(Direct(box))}, view |-> View(box)]
<1>3. Unfiled(t) = Direct(box) /\ Seen(t, Direct(box)) = Shown(Direct(box))
  BY <1>2, ViewIs
<1>4. Telling(t)
  BY <1>3 DEF Telling
<1> QED
  BY <1>1, <1>2, <1>4, TellKeeps

LEMMA SearchAllStep == ASSUME IInv, NEW c \in Client, SearchAll(c) PROVE IInv'
<1>1. PICK box \in Selected :
         Tell(c, box, "search", {<<Rank(u, In(box)), u>> : u \in In(box)})
  BY DEF SearchAll
<1>2. In(box) \in SUBSET (1..last) /\ In(box) \in SUBSET In(box)
  BY InIs DEF IInv
<1> DEFINE t == [box |-> box, by |-> "search",
                 of |-> {<<Rank(u, In(box)), u>> : u \in In(box)}, view |-> View(box)]
<1>3. DOMAIN t.view = In(box)
  BY ViewIs
<1>4. Telling(t)
  BY <1>3 DEF Telling
<1> QED
  BY <1>1, <1>2, <1>4, TellKeeps

LEMMA UidFetchStep == ASSUME IInv, NEW c \in Client, UidFetch(c) PROVE IInv'
<1>0. PICK box \in Box : \E from \in In(box) :
         Tell(c, box, "uid", {<<Rank(u, ByUid(box, [from |-> from, to |-> 0])), u>> :
                                 u \in Shown(ByUid(box, [from |-> from, to |-> 0]))})
  BY DEF UidFetch
<1>1. PICK from \in In(box) :
         Tell(c, box, "uid", {<<Rank(u, ByUid(box, [from |-> from, to |-> 0])), u>> :
                                 u \in Shown(ByUid(box, [from |-> from, to |-> 0]))})
  BY <1>0
<1> DEFINE rows == ByUid(box, [from |-> from, to |-> 0])
           t == [box |-> box, by |-> "uid",
                 of |-> {<<Rank(u, rows), u>> : u \in Shown(rows)}, view |-> View(box)]
<1>2. rows \in SUBSET (1..last) /\ Shown(rows) \in SUBSET rows /\ rows \in SUBSET In(box)
      /\ box \in Selected /\ from \in Uid
  BY InIs DEF Shown, ByUid, Selected, IInv
<1>3. box # "folder"
  <2>1. t.of # {}
    BY <1>1 DEF Tell
  <2> QED
    BY <2>1 DEF Shown, ByUid
<1>4. UidsFrom(t, from) = rows
  <2>1. from # 0
    BY <1>2, MailboxAssumption DEF Uid
  <2>2. DOMAIN t.view = In(box)
    BY <1>2, ViewIs
  <2> QED
    BY <1>3, <2>1, <2>2 DEF UidsFrom, ByUid, Within
<1> HIDE DEF rows
<1>5. Seen(t, rows) = Shown(rows)
  BY <1>2, ViewIs
<1>6. Telling(t)
  <2>1. t.of = {<<Rank(u, UidsFrom(t, from)), u>> : u \in Seen(t, UidsFrom(t, from))}
    BY <1>4, <1>5
  <2> QED
    BY <1>2, <1>3, <2>1 DEF Telling
<1> QED
  BY <1>1, <1>2, <1>6, TellKeeps DEF rows

\* The ranges of a command begin and end with numbers, or ids, the session was told, or
\* with '*'.
LEMMA RequestsAre ==
    ASSUME NEW keys \in SUBSET Nat, NEW ranges \in Requests(keys)
    PROVE  /\ ranges \in Seq([from : Nat, to : Nat])
           /\ \A i \in DOMAIN ranges : ranges[i].from \in keys \union {0}
           /\ \A i \in DOMAIN ranges : ranges[i].from = 0 => ranges[i].to = 0
<1>0. keys \union {0} \subseteq Nat
  OBVIOUS
<1>1. CASE \E p \in (keys \union {0}) \X (keys \union {0}) :
              (p[1] = 0 => p[2] = 0) /\ ranges = <<[from |-> p[1], to |-> p[2]]>>
  <2>1. PICK p \in (keys \union {0}) \X (keys \union {0}) :
              (p[1] = 0 => p[2] = 0) /\ ranges = <<[from |-> p[1], to |-> p[2]]>>
    BY <1>1
  <2>2. p[1] \in keys \union {0} /\ p[2] \in keys \union {0}
    OBVIOUS
  <2>3. p[1] \in Nat /\ p[2] \in Nat
    BY <1>0, <2>2
  <2> QED
    BY <2>1, <2>2, <2>3
<1>2. CASE \E p \in keys \X keys :
              ranges = <<[from |-> p[1], to |-> p[1]], [from |-> p[2], to |-> p[2]]>>
  <2>1. PICK p \in keys \X keys :
              ranges = <<[from |-> p[1], to |-> p[1]], [from |-> p[2], to |-> p[2]]>>
    BY <1>2
  <2>2. p[1] \in keys /\ p[1] \in Nat /\ p[2] \in keys /\ p[2] \in Nat
    OBVIOUS
  <2> QED
    BY <2>1, <2>2
<1> QED
  BY <1>1, <1>2 DEF Requests

LEMMA IssueStep == ASSUME IInv, NEW c \in Client, Issue(c) PROVE IInv'
<1>1. PICK act \in Act, dest \in Selected, byUid \in BOOLEAN :
         /\ act = "expunge" => byUid
         /\ \E ranges \in Requests(Keys(c, byUid)) :
            cmd' = [cmd EXCEPT ![c] = Begin(c, act, dest, byUid, ranges)]
  BY DEF Issue
<1>2. PICK ranges \in Requests(Keys(c, byUid)) :
            cmd' = [cmd EXCEPT ![c] = Begin(c, act, dest, byUid, ranges)]
  BY <1>1
<1> DEFINE k == Begin(c, act, dest, byUid, ranges)
<1>3. cmd' = [cmd EXCEPT ![c] = k]
  BY <1>2
<1>4. told[c] \in Told /\ \A p \in told[c].of : p[1] \in 1..last /\ p[2] \in 1..last
  BY DEF IInv, TypeOK, Told
<1>5. Keys(c, byUid) \in SUBSET Nat
  BY <1>4 DEF Keys
<1>6. /\ ranges \in Seq([from : Nat, to : Nat])
      /\ \A i \in DOMAIN ranges : ranges[i].from \in Keys(c, byUid) \union {0}
      /\ \A i \in DOMAIN ranges : ranges[i].from = 0 => ranges[i].to = 0
  BY <1>2, <1>5, RequestsAre
<1>7. Named(c, byUid, ranges) \in SUBSET (1..last)
  BY <1>4 DEF Named
<1>8. k \in Command
  BY <1>6, <1>7 DEF Command, Begin, Act
<1>9. Naming(k, told[c])
  <2>1. ASSUME NEW i \in DOMAIN ranges, NEW p \in told[c].of, Within(KeyOf(k, p), ranges[i])
        PROVE  p[2] \in k.meant
    BY <2>1 DEF KeyOf, Named, Intends, Within, Begin
  <2>2. ASSUME NEW i \in DOMAIN ranges, ranges[i].from # 0
        PROVE  \E p \in told[c].of : KeyOf(k, p) = ranges[i].from
    <3>1. ranges[i].from \in Keys(c, byUid)
      BY <1>6, <2>2
    <3> QED
      BY <3>1 DEF KeyOf, Keys, Begin
  <2> QED
    BY <1>1, <1>6, <2>1, <2>2 DEF Naming, Begin
<1>10. Covered(k, told[c], row')
  <2>1. ASSUME NEW u \in k.meant, \A i \in DOMAIN k.ranges : k.ranges[i].from # 0
        PROVE  \E i \in DOMAIN k.ranges : NamedBy(k, told[c], k.ranges[i], u)
    BY <2>1 DEF Named, NamedBy, KeyOf, Intends, Begin
  <2> QED
    BY <2>1 DEF Covered
<1>11. OneListing(k) /\ k.act # "idle"
  BY DEF OneListing, Begin, Act
<1> HIDE DEF k
<1>12. RowStep
  BY StillIs, RowFacts DEF Issue, IInv
<1>13. k \in Command' /\ told[c] \in Told' /\ told' = [told EXCEPT ![c] = told[c]]
  BY <1>4, <1>8, <1>12, Grows DEF IInv, TypeOK, Issue
<1>14. issued' \in 0..MaxCommand
  BY MailboxAssumption DEF Issue, IInv, TypeOK
<1>15. /\ UNCHANGED <<pop, web, pending, wrong, kept>> /\ Telling(told[c])
       /\ wrong' \union kept' \subseteq SUBSET Why /\ WrongHitIsExplained' /\ KeptIsExplained'
  BY DEF Issue, IInv, TypeOK, CommandInv, WrongHitIsExplained, KeptIsExplained
<1> QED
  BY <1>3, <1>9, <1>10, <1>11, <1>12, <1>13, <1>14, <1>15, SessionKeeps

\* When nothing sets them apart, a listing and what the session was told name the same
\* rows: the mailbox is as it was, no mail is in it twice, and the two numberings agree.
LEMMA LookupSees ==
    ASSUME IInv, NEW c \in Client, NEW r, Reasons(c) = {},
           \E p \in told[c].of : KeyOf(cmd[c], p) = r.from
    PROVE  \A u : u \in Listed(told[c].box, r, cmd[c].byUid) <=> NamedBy(cmd[c], told[c], r, u)
<1> DEFINE t == told[c]
           box == told[c].box
           byUid == cmd[c].byUid
<1>1. /\ View(box) = t.view
      /\ byUid \/ t.by = "search" => In(box) = Direct(box)
      /\ t.by = "uid" => byUid
      /\ Shown(In(box)) = In(box)
  BY DEF Reasons
<1>2. /\ DOMAIN t.view = In(box) /\ Unfiled(t) = Direct(box)
      /\ \A rows \in SUBSET In(box) : Seen(t, rows) = Shown(rows)
  BY <1>1, ViewIs
<1>3. ASSUME NEW rows \in SUBSET In(box) PROVE Shown(rows) = rows
  BY <1>1 DEF Shown
<1>4. /\ Direct(box) \in SUBSET In(box) /\ ByUid(box, r) \in SUBSET In(box)
      /\ ByNumber(box, r) \in SUBSET In(box)
      /\ \A from : UidsFrom(t, from) \in SUBSET In(box)
  BY <1>2 DEF Direct, ByUid, ByNumber, UidsFrom
<1>5. Listed(box, r, byUid) = IF byUid THEN ByUid(box, r) ELSE ByNumber(box, r)
  BY <1>3, <1>4 DEF Listed
<1>6. Telling(t) /\ byUid \in BOOLEAN
  BY DEF IInv, CommandInv, TypeOK, Command
<1>7. ASSUME NEW rows, t.of = {<<Rank(u, rows), u>> : u \in rows}
      PROVE  \A u : NamedBy(cmd[c], t, r, u)
                      <=> u \in rows /\ Within(IF byUid THEN u ELSE Rank(u, rows), r)
  <2>1. ASSUME NEW p \in t.of PROVE p[2] \in rows /\ p[1] = Rank(p[2], rows)
    BY <1>7, <2>1
  <2>2. ASSUME NEW u \in rows PROVE \E p \in t.of : p[2] = u /\ p[1] = Rank(u, rows)
    <3>1. <<Rank(u, rows), u>> \in t.of
      BY <1>7, <2>2
    <3> QED
      BY <3>1
  <2> QED
    BY <2>1, <2>2 DEF NamedBy, KeyOf
<1> HIDE DEF t, box, byUid
<1>8. \A u : u \in ByNumber(box, r) <=> u \in Direct(box) /\ Within(Rank(u, Direct(box)), r)
  BY DEF ByNumber
<1>9. byUid => \A u : u \in ByUid(box, r) <=> u \in In(box) /\ Within(u, r)
  BY <1>1 DEF ByUid, Direct
<1>10. CASE t.by = "fetch"
  <2>1. t.of = {<<Rank(u, Direct(box)), u>> : u \in Direct(box)}
    BY <1>2, <1>3, <1>4, <1>6, <1>10 DEF Telling
  <2>2. \A u : NamedBy(cmd[c], t, r, u)
                  <=> u \in Direct(box) /\ Within(IF byUid THEN u ELSE Rank(u, Direct(box)), r)
    BY <1>7, <2>1
  <2>3. CASE byUid
    BY <1>1, <1>5, <1>9, <2>2, <2>3 DEF t, box, byUid
  <2>4. CASE ~byUid
    BY <1>5, <1>8, <2>2, <2>4 DEF t, box, byUid
  <2> QED
    BY <2>3, <2>4
<1>11. CASE t.by = "search"
  <2>1. t.of = {<<Rank(u, In(box)), u>> : u \in In(box)}
    BY <1>2, <1>6, <1>11 DEF Telling
  <2>2. \A u : NamedBy(cmd[c], t, r, u)
                  <=> u \in In(box) /\ Within(IF byUid THEN u ELSE Rank(u, In(box)), r)
    BY <1>7, <2>1
  <2>3. CASE byUid
    BY <1>5, <1>9, <2>2, <2>3 DEF t, box, byUid
  <2>4. CASE ~byUid
    BY <1>1, <1>5, <1>8, <1>11, <2>2, <2>4 DEF t, box, byUid
  <2> QED
    BY <2>3, <2>4
<1>12. CASE t.by = "uid"
  <2>1. PICK from \in Uid :
           t.of = {<<Rank(u, UidsFrom(t, from)), u>> : u \in Seen(t, UidsFrom(t, from))}
    BY <1>6, <1>12 DEF Telling
  <2>2. t.of = {<<Rank(u, UidsFrom(t, from)), u>> : u \in UidsFrom(t, from)}
    BY <1>2, <1>3, <1>4, <2>1
  <2>3. PICK p \in t.of : p[2] = r.from
    BY <1>1, <1>12 DEF KeyOf, t, byUid
  <2>4. r.from \in Nat /\ from <= r.from /\ from \in Nat
    <3>1. p[2] \in UidsFrom(t, from)
      BY <2>2
    <3>2. In(box) \subseteq Uid /\ \A u \in Uid : u \in Nat
      BY InIs, RowFacts DEF IInv
    <3> QED
      BY <1>2, <2>3, <3>1, <3>2 DEF UidsFrom
  <2>5. \A u \in In(box) : Within(u, r) => u \in UidsFrom(t, from)
    BY <1>2, <2>4, InIs, RowFacts DEF UidsFrom, Within, IInv
  <2>6. UidsFrom(t, from) \in SUBSET In(box)
    BY <1>4
  <2> QED
    BY <1>1, <1>5, <1>7, <1>9, <1>12, <2>2, <2>5, <2>6 DEF t, box, byUid
<1> QED
  BY <1>6, <1>10, <1>11, <1>12 DEF Telling

\* A command whose first range was looked up still names what it means.
LEMMA RangesLeft ==
    ASSUME NEW k \in Command, NEW t, Naming(k, t), k.ranges # <<>>,
           NEW next, next.act = k.act, next.ranges = Tail(k.ranges), next.byUid = k.byUid,
           next.meant = k.meant
    PROVE  Naming(next, t)
<1>1. k.ranges \in Seq([from : Nat, to : Nat])
  BY DEF Command
<1>2. /\ Len(k.ranges) \in Nat /\ DOMAIN k.ranges = 1..Len(k.ranges)
      /\ DOMAIN Tail(k.ranges) = 1..(Len(k.ranges) - 1)
      /\ \A i \in DOMAIN Tail(k.ranges) : Tail(k.ranges)[i] = k.ranges[i + 1]
  BY <1>1
<1>3. ASSUME NEW i \in DOMAIN next.ranges
      PROVE  i + 1 \in DOMAIN k.ranges /\ next.ranges[i] = k.ranges[i + 1]
  <2>1. i \in 1..(Len(k.ranges) - 1) /\ i \in DOMAIN Tail(k.ranges)
    BY <1>2
  <2>2. i + 1 \in 1..Len(k.ranges)
    BY <1>2, <2>1, Ahead
  <2> QED
    BY <1>2, <2>1, <2>2
<1>4. \A p : KeyOf(next, p) = KeyOf(k, p)
  BY DEF KeyOf
<1> QED
  BY <1>3, <1>4 DEF Naming

LEMMA LookupStep == ASSUME IInv, NEW c \in Client, Lookup(c) PROVE IInv'
<1> DEFINE k     == cmd[c]
           r     == Head(k.ranges)
           found == Listing(told[c].box, r, k.byUid)
           rows  == IF LastRange(k) THEN found ELSE k.rows \o found
           several == LastRange(k) /\ Len(k.ranges) > 1
           why   == k.why \union Reasons(c) \union (IF several THEN {"ranges"} ELSE {})
                       \union (IF r.from = 0 THEN {"star"} ELSE {})
           extra == {found[i].uid : i \in DOMAIN found} \ k.meant
           next  == [k EXCEPT !.ranges = Tail(k.ranges), !.rows = rows, !.why = why]
<1>1. /\ k.ranges # <<>> /\ k.act # "idle" /\ k.act # "expunge" /\ Continue(c, next, row)
      /\ wrong' = IF extra # {} /\ ~several THEN wrong \union {why} ELSE wrong
      /\ UNCHANGED <<row, last, mails, pop, web, pending, issued, placed>>
  BY DEF Lookup, Looking, Act
<1>2. k \in Command /\ CommandInv(c) /\ TypeOK
  BY DEF IInv, TypeOK
<1>3. k.ranges \in Seq([from : Nat, to : Nat])
      /\ k.rows \in Seq([uid : 1..last, mail : 1..mails, read : BOOLEAN])
  BY <1>2 DEF Command
<1>4. /\ Len(k.ranges) \in Nat /\ Len(k.ranges) # 0 /\ r = k.ranges[1] /\ 1 \in DOMAIN k.ranges
      /\ Tail(k.ranges) \in Seq([from : Nat, to : Nat])
      /\ DOMAIN Tail(k.ranges) = 1..(Len(k.ranges) - 1) /\ DOMAIN k.ranges = 1..Len(k.ranges)
      /\ \A i \in DOMAIN Tail(k.ranges) : Tail(k.ranges)[i] = k.ranges[i + 1]
  BY <1>1, <1>3
<1>4a. found = Listing(told[c].box, r, k.byUid)
  OBVIOUS
<1>4b. r.from = 0 => Listed(told[c].box, r, k.byUid) = {}
  BY DEF Listed, Shown, ByUid, ByNumber, Within
<1> HIDE DEF found, r
<1>5. /\ found \in Seq([uid : 1..last, mail : 1..mails, read : BOOLEAN])
      /\ \A i \in DOMAIN found : found[i].uid \in Listed(told[c].box, r, k.byUid)
      /\ \A u \in Listed(told[c].box, r, k.byUid) :
            \E i \in DOMAIN found : found[i].uid = u /\ found[i].mail = row[u].mail
  <2>1. found \in Seq([uid : 1..last, mail : 1..mails, read : BOOLEAN])
    BY <1>2, <1>4a, ListingIs
  <2>2. \A i \in DOMAIN found : found[i].uid \in Listed(told[c].box, r, k.byUid)
    BY <1>2, <1>4a, ListingIs
  <2>3. \A u \in Listed(told[c].box, r, k.byUid) :
            \E i \in DOMAIN found : found[i].uid = u /\ found[i].mail = row[u].mail
    BY <1>2, <1>4a, ListingIs
  <2> QED
    BY <2>1, <2>2, <2>3
<1>6. Reasons(c) \in SUBSET {"changed", "filed", "subset", "twin"} /\ Reasons(c) \subseteq Why
  BY DEF Reasons, Why
<1>7. Reasons(c) = {} /\ r.from # 0 => \A u : u \in Listed(told[c].box, r, k.byUid) <=> NamedBy(k, told[c], r, u)
  <2>1. r.from # 0 => \E p \in told[c].of : KeyOf(k, p) = r.from
    BY <1>2, <1>4 DEF CommandInv, Naming
  <2> QED
    BY <2>1, LookupSees
<1>8. rows \in Seq([uid : 1..last, mail : 1..mails, read : BOOLEAN]) /\ why \in SUBSET Why
  BY <1>2, <1>3, <1>5, <1>6 DEF Why, Command
<1>9. /\ \A i \in DOMAIN found : \E j \in DOMAIN rows : rows[j] = found[i]
      /\ ~LastRange(k) => \A i \in DOMAIN k.rows : \E j \in DOMAIN rows : rows[j] = k.rows[i]
  <2>1. CASE LastRange(k)
    BY <2>1
  <2>2. CASE ~LastRange(k)
    <3>1. /\ rows = k.rows \o found /\ Len(k.rows) \in Nat /\ Len(found) \in Nat
          /\ DOMAIN k.rows = 1..Len(k.rows) /\ DOMAIN found = 1..Len(found)
          /\ DOMAIN rows = 1..(Len(k.rows) + Len(found))
          /\ \A i \in 1..(Len(k.rows) + Len(found)) :
                rows[i] = IF i <= Len(k.rows) THEN k.rows[i] ELSE found[i - Len(k.rows)]
      BY <1>3, <1>5, <2>2, ConcatProperties
    <3> HIDE DEF rows
    <3>2. \A i \in DOMAIN k.rows : i \in DOMAIN rows /\ rows[i] = k.rows[i]
      BY <3>1
    <3>3. ASSUME NEW i \in DOMAIN found
          PROVE  i + Len(k.rows) \in DOMAIN rows /\ rows[i + Len(k.rows)] = found[i]
      <4>1. /\ i + Len(k.rows) \in 1..(Len(k.rows) + Len(found)) /\ ~(i + Len(k.rows) <= Len(k.rows))
            /\ (i + Len(k.rows)) - Len(k.rows) = i
        <5>1. i \in 1..Len(found) /\ Len(k.rows) \in Nat /\ Len(found) \in Nat
          BY <3>1
        <5> QED
          BY <5>1, Forth
      <4> QED
        BY <3>1, <4>1
    <3> QED
      BY <3>2, <3>3
  <2> QED
    BY <2>1, <2>2
<1> HIDE DEF rows, why
<1>10. /\ next \in Command
       /\ next.act = k.act /\ next.byUid = k.byUid /\ next.meant = k.meant
       /\ next.ranges = Tail(k.ranges) /\ next.rows = rows /\ next.why = why
  BY <1>2, <1>4, <1>8 DEF Command
<1> HIDE DEF next
<1>11. RowStep
  BY <1>1, <1>2, StillIs, RowFacts DEF IInv
<1>12. next \in Command' /\ next.act # "idle"
  BY <1>1, <1>10, <1>11, Grows DEF IInv
<1>13. Naming(next, told[c])
  BY <1>1, <1>2, <1>10, RangesLeft DEF CommandInv
<1>14. ASSUME why = {}
       PROVE  k.why = {} /\ Reasons(c) = {} /\ ~several /\ r.from # 0
  BY <1>14 DEF why
<1>15. Covered(next, told[c], row')
  <2>1. SUFFICES ASSUME why = {}, NEW u \in k.meant, ~Settled(k, row, u)
                 PROVE  \/ \E i \in DOMAIN next.ranges : next.ranges[i].from = 0
                        \/ \E i \in DOMAIN next.ranges : NamedBy(next, told[c], next.ranges[i], u)
                        \/ \E i \in DOMAIN rows : rows[i].uid = u /\ rows[i].mail = row[u].mail
    BY <1>1, <1>10 DEF Covered, Settled
  <2>2. k.why = {} /\ Reasons(c) = {} /\ ~several /\ r.from # 0
    BY <1>14, <2>1
  <2>3. \/ \E i \in DOMAIN k.ranges : k.ranges[i].from = 0
        \/ \E i \in DOMAIN k.ranges : NamedBy(k, told[c], k.ranges[i], u)
        \/ \E i \in DOMAIN k.rows : k.rows[i].uid = u /\ k.rows[i].mail = row[u].mail
    BY <1>2, <2>1, <2>2 DEF CommandInv, Covered
  <2>4. CASE NamedBy(k, told[c], r, u)
    <3>1. PICK i \in DOMAIN found : found[i].uid = u /\ found[i].mail = row[u].mail
      BY <1>5, <1>7, <2>2, <2>4
    <3> QED
      BY <1>9, <3>1
  <2>5. ASSUME NEW i \in DOMAIN k.ranges, i # 1,
               k.ranges[i].from = 0 \/ NamedBy(k, told[c], k.ranges[i], u)
        PROVE  \/ \E j \in DOMAIN next.ranges : next.ranges[j].from = 0
               \/ \E j \in DOMAIN next.ranges : NamedBy(next, told[c], next.ranges[j], u)
    <3>1. i - 1 \in DOMAIN next.ranges /\ next.ranges[i - 1] = k.ranges[i]
      <4>1. i \in 1..Len(k.ranges) /\ i - 1 \in 1..(Len(k.ranges) - 1) /\ (i - 1) + 1 = i
        <5>1. i \in 1..Len(k.ranges)
          BY <1>4
        <5> QED
          BY <1>4, <2>5, <5>1, Back
      <4>2. Tail(k.ranges)[i - 1] = k.ranges[(i - 1) + 1]
        BY <1>4, <4>1
      <4> QED
        BY <1>4, <1>10, <4>1, <4>2
    <3>2. next.ranges[i - 1].from = 0 \/ NamedBy(next, told[c], next.ranges[i - 1], u)
      BY <1>10, <2>5, <3>1 DEF NamedBy, KeyOf
    <3> QED
      BY <3>1, <3>2
  <2>6. ASSUME NEW i \in DOMAIN k.rows, k.rows[i].uid = u, k.rows[i].mail = row[u].mail
        PROVE  \E j \in DOMAIN rows : rows[j].uid = u /\ rows[j].mail = row[u].mail
    <3>1. ~LastRange(k)
      <4>1. LastRange(k) => k.rows = <<>>
        BY <1>1, <1>2, <2>2 DEF CommandInv, OneListing
      <4> QED
        BY <2>6, <4>1
    <3> QED
      BY <1>9, <2>6, <3>1
  <2> QED
    BY <1>4, <2>2, <2>3, <2>4, <2>5, <2>6 DEF r
<1>16. OneListing(next)
  <2>1. SUFFICES ASSUME LastRange(k), why = {}, Tail(k.ranges) # <<>> PROVE FALSE
    BY <1>1, <1>10 DEF OneListing, LastRange
  <2>2. Len(k.ranges) > 1
    BY <1>3, <1>4, <2>1
  <2> QED
    BY <1>14, <2>1, <2>2
<1>17. wrong' \subseteq SUBSET Why
  BY <1>1, <1>8 DEF IInv, TypeOK
<1>18. WrongHitIsExplained'
  <2>1. SUFFICES ASSUME extra # {}, why \intersect {"changed", "filed", "subset", "twin", "span"} = {}
                 PROVE  FALSE
    BY <1>1 DEF WrongHitIsExplained, IInv
  <2>2. Reasons(c) = {}
    BY <1>6, <2>1 DEF why
  <2>3. PICK i \in DOMAIN found : found[i].uid \notin k.meant
    BY <2>1
  <2>4. NamedBy(k, told[c], r, found[i].uid)
    BY <1>4b, <1>5, <1>7, <2>2, <2>3
  <2>5. found[i].uid \in k.meant
    BY <1>2, <1>4, <2>4 DEF CommandInv, Naming, NamedBy
  <2> QED
    BY <2>3, <2>5
<1>19. Continue(c, next, row') /\ UNCHANGED <<pop, web, pending, issued>>
  BY <1>1
<1> QED
  BY <1>11, <1>12, <1>13, <1>15, <1>16, <1>17, <1>18, <1>19, ContinueKeeps

\* The first row that a command has listed, and what is left when it was handled.
LEMMA HandlingIs ==
    ASSUME IInv, NEW c \in Client, NEW acts, Handling(c, acts)
    PROVE  /\ cmd[c] \in Command /\ cmd[c].act \in acts /\ cmd[c].rows # <<>> /\ CommandInv(c)
           /\ cmd[c].act # "idle"
           /\ Head(cmd[c].rows) = cmd[c].rows[1] /\ 1 \in DOMAIN cmd[c].rows
           /\ \A i \in DOMAIN cmd[c].rows :
                 /\ cmd[c].rows[i] \in [uid : 1..last, mail : 1..mails, read : BOOLEAN]
                 /\ cmd[c].rows[i].uid \in 1..last /\ cmd[c].rows[i].mail \in 1..mails
           /\ cmd[c].act # "body" => cmd[c].ranges = <<>>
           /\ Next1(c) \in Command
           /\ Next1(c).act = cmd[c].act /\ Next1(c).byUid = cmd[c].byUid
           /\ Next1(c).meant = cmd[c].meant /\ Next1(c).ranges = cmd[c].ranges
           /\ Next1(c).why = cmd[c].why
           /\ \A i \in DOMAIN cmd[c].rows :
                 i # 1 => \E j \in DOMAIN Next1(c).rows : Next1(c).rows[j] = cmd[c].rows[i]
<1> DEFINE k == cmd[c]
<1>1. k \in Command /\ CommandInv(c)
  BY DEF IInv, TypeOK
<1>2. k.act \in acts /\ k.rows # <<>> /\ (k.act # "body" => k.ranges = <<>>)
  BY DEF Handling
<1>3. k.act # "idle"
  BY <1>1, <1>2 DEF CommandInv, Idle
<1>4. k.rows \in Seq([uid : 1..last, mail : 1..mails, read : BOOLEAN])
  BY <1>1 DEF Command
<1>5. /\ Len(k.rows) \in Nat /\ Len(k.rows) # 0 /\ DOMAIN k.rows = 1..Len(k.rows)
      /\ Head(k.rows) = k.rows[1]
      /\ Tail(k.rows) \in Seq([uid : 1..last, mail : 1..mails, read : BOOLEAN])
      /\ DOMAIN Tail(k.rows) = 1..(Len(k.rows) - 1)
      /\ \A i \in 1..(Len(k.rows) - 1) : Tail(k.rows)[i] = k.rows[i + 1]
  BY <1>2, <1>4
<1>6. 1 \in DOMAIN k.rows
  BY <1>5
<1>7. ASSUME NEW i \in DOMAIN k.rows
      PROVE  /\ k.rows[i] \in [uid : 1..last, mail : 1..mails, read : BOOLEAN]
             /\ k.rows[i].uid \in 1..last /\ k.rows[i].mail \in 1..mails
  <2>1. k.rows[i] \in [uid : 1..last, mail : 1..mails, read : BOOLEAN]
    BY <1>4, <1>5, ElementOfSeq
  <2> QED
    BY <2>1
<1>8. /\ Next1(c) \in Command
      /\ Next1(c).act = k.act /\ Next1(c).byUid = k.byUid /\ Next1(c).meant = k.meant
      /\ Next1(c).ranges = k.ranges /\ Next1(c).why = k.why /\ Next1(c).rows = Tail(k.rows)
  <2>1. Absent \in Entry \union {Absent}
    OBVIOUS
  <2> QED
    BY <1>1, <1>5, <2>1 DEF Next1, Command
<1>9. ASSUME NEW i \in DOMAIN k.rows, i # 1
      PROVE  \E j \in DOMAIN Next1(c).rows : Next1(c).rows[j] = k.rows[i]
  <2>1. i - 1 \in 1..(Len(k.rows) - 1) /\ (i - 1) + 1 = i
    BY <1>5, <1>9, Back
  <2>2. Tail(k.rows)[i - 1] = k.rows[(i - 1) + 1]
    BY <1>5, <2>1
  <2> QED
    BY <1>5, <1>8, <2>1, <2>2
<1> QED
  BY <1>1, <1>2, <1>3, <1>5, <1>6, <1>7, <1>8, <1>9

\* A command that goes on with the rows after the first: what it means stays covered if
\* the first is settled.
LEMMA NextKeeps ==
    ASSUME IInv, NEW c \in Client, NEW acts, Handling(c, acts), RowStep,
           Continue(c, Next1(c), row'),
           Settled(cmd[c], row', Head(cmd[c].rows).uid)
             \/ row[Head(cmd[c].rows).uid].mail # Head(cmd[c].rows).mail,
           cmd[c].act # "body" => cmd[c].ranges = <<>>,
           UNCHANGED <<pop, web, pending, issued, wrong>>
    PROVE  IInv'
<1> DEFINE k == cmd[c]
           next == Next1(c)
<1>1. /\ k \in Command /\ CommandInv(c) /\ k.act # "idle" /\ Head(k.rows) = k.rows[1]
      /\ \A i \in DOMAIN k.rows : k.rows[i].uid \in 1..last /\ k.rows[i].mail \in 1..mails
      /\ next \in Command /\ next.act = k.act /\ next.byUid = k.byUid
      /\ next.meant = k.meant /\ next.ranges = k.ranges /\ next.why = k.why
      /\ \A i \in DOMAIN k.rows : i # 1 => \E j \in DOMAIN next.rows : next.rows[j] = k.rows[i]
  BY HandlingIs
<1>2. next \in Command' /\ next.act # "idle"
  BY <1>1, Grows DEF IInv
<1>3. Naming(next, told[c])
  BY <1>1 DEF CommandInv, Naming, KeyOf
<1>4. OneListing(next)
  BY <1>1 DEF OneListing, LastRange
<1>5. Covered(next, told[c], row')
  <2>1. SUFFICES ASSUME k.why = {}, NEW u \in k.meant, ~Settled(k, row', u)
                 PROVE  \/ \E i \in DOMAIN k.ranges : k.ranges[i].from = 0
                        \/ \E i \in DOMAIN k.ranges : NamedBy(k, told[c], k.ranges[i], u)
                        \/ \E j \in DOMAIN next.rows :
                              next.rows[j].uid = u /\ next.rows[j].mail = row'[u].mail
    BY <1>1 DEF Covered, Settled, NamedBy, KeyOf
  <2>2. Covered(k, told[c], row') /\ Covered(k, told[c], row)
    BY <1>1, CoveredStays DEF CommandInv, IInv, RowStep
  <2>3. ASSUME NEW i \in DOMAIN k.rows, k.rows[i].uid = u, k.rows[i].mail = row'[u].mail
        PROVE  i # 1
    <3>1. u \in 1..last /\ row[u].mail = row'[u].mail
      <4>1. u \in 1..last
        BY <1>1, <2>3
      <4>2. ~(row'[u] = Absent)
        BY <2>1 DEF Settled
      <4> QED
        BY <4>1, <4>2 DEF RowStep, Evolves
    <3> QED
      BY <1>1, <2>1, <2>3, <3>1
  <2> QED
    BY <1>1, <2>1, <2>2, <2>3 DEF Covered
<1>6. wrong' \subseteq SUBSET Why /\ WrongHitIsExplained'
  BY DEF IInv, TypeOK, WrongHitIsExplained
<1> HIDE DEF next
<1> QED
  BY <1>2, <1>3, <1>4, <1>5, <1>6, ContinueKeeps DEF next

\* A command that goes on and has a reason to leave something undone.
LEMMA ReasonKeeps ==
    ASSUME IInv, RowStep, NEW c \in Client, NEW w \in Why, NEW g \in Command, g.act # "idle",
           Naming(g, told[c]), Continue(c, [g EXCEPT !.why = @ \union {w}], row'),
           UNCHANGED <<pop, web, pending, issued, wrong>>
    PROVE  IInv'
<1> DEFINE next == [g EXCEPT !.why = @ \union {w}]
<1>1. g.why \union {w} \in SUBSET Why
  BY DEF Command
<1>2. /\ next \in Command /\ next.act = g.act /\ next.byUid = g.byUid
      /\ next.meant = g.meant /\ next.ranges = g.ranges /\ next.why # {}
  BY <1>1 DEF Command
<1> HIDE DEF next
<1>3. next \in Command' /\ next.act # "idle"
  BY <1>2, Grows DEF IInv
<1>4. \A p : KeyOf(next, p) = KeyOf(g, p)
  BY <1>2 DEF KeyOf
<1>5. Naming(next, told[c])
  BY <1>2, <1>4 DEF Naming
<1>6. Covered(next, told[c], row') /\ OneListing(next)
  BY <1>2 DEF Covered, OneListing
<1>7. wrong' \subseteq SUBSET Why /\ WrongHitIsExplained'
  BY DEF IInv, TypeOK, WrongHitIsExplained
<1> QED
  BY <1>3, <1>5, <1>6, <1>7, ContinueKeeps DEF next

LEMMA MakeReadStep ==
    ASSUME IInv, NEW c \in Client, Store(c) \/ Write(c)
    PROVE  IInv'
<1>1. PICK acts \in {{"seen"}, {"body"}} : Handling(c, acts)
  BY DEF Store, Write
<1>2. MakeRead(c)
  BY DEF Store, Write
<1> DEFINE k == cmd[c]
           m == Head(k.rows).mail
           u == Head(k.rows).uid
<1>3. k.act \in {"seen", "body"} /\ m \in 1..mails /\ u \in 1..last
  BY <1>1, HandlingIs
<1>4. /\ row' = Marked(row, m) /\ Continue(c, Next1(c), row')
      /\ UNCHANGED <<last, mails, placed, pop, web, pending, issued, wrong>>
  BY <1>2 DEF MakeRead
<1>5. RowStep /\ \A v \in Uid : row[v].mail = m => row'[v].read
  BY <1>3, <1>4, MarkedIs DEF IInv
<1>6. Settled(k, row', u) \/ row[u].mail # m
  BY <1>3, <1>5, RowFacts DEF Settled, IInv
<1>7. k.act # "body" => k.ranges = <<>>
  BY <1>1 DEF Handling
<1> QED
  BY <1>1, <1>4, <1>5, <1>6, <1>7, NextKeeps

LEMMA DelFindStep == ASSUME IInv, NEW c \in Client, DelFind(c) PROVE IInv'
<1> DEFINE k == cmd[c]
           u == Head(k.rows).uid
           next == IF Present(u) THEN [k EXCEPT !.found = row[u]]
                   ELSE [k EXCEPT !.rows = <<>>, !.why = @ \union {"gap"}]
<1>1. /\ Handling(c, {"delete", "expunge"}) /\ Continue(c, next, row)
      /\ UNCHANGED <<row, last, mails, pop, web, pending, issued, placed, wrong>>
  BY DEF DelFind
<1>2. /\ k \in Command /\ CommandInv(c) /\ k.act \in {"delete", "expunge"} /\ k.ranges = <<>>
      /\ u \in 1..last
  BY <1>1, HandlingIs
<1>3. RowStep
  BY <1>1, StillIs, RowFacts DEF IInv
<1>4. row[u] \in Entry \union {Absent}
  BY <1>2, RowFacts DEF IInv
<1>5. wrong' \subseteq SUBSET Why /\ WrongHitIsExplained'
  BY <1>1 DEF IInv, TypeOK, WrongHitIsExplained
<1>6. CASE Present(u)
  <2>1. /\ next \in Command /\ next.act = k.act /\ next.byUid = k.byUid
        /\ next.meant = k.meant /\ next.ranges = k.ranges /\ next.why = k.why /\ next.rows = k.rows
    BY <1>2, <1>4, <1>6 DEF Command
  <2> HIDE DEF next
  <2>2. next \in Command' /\ next.act # "idle"
    BY <1>2, <1>3, <2>1, Grows DEF IInv
  <2>3. Naming(next, told[c]) /\ OneListing(next)
    BY <1>2, <2>1 DEF Naming, OneListing, CommandInv
  <2>4. Covered(next, told[c], row')
    <3>1. Covered(k, told[c], row')
      BY <1>1, <1>2 DEF CommandInv
    <3> QED
      BY <2>1, <3>1 DEF Covered, Settled, NamedBy, KeyOf
  <2> QED
    BY <1>1, <1>3, <1>5, <2>2, <2>3, <2>4, ContinueKeeps
<1>7. CASE ~Present(u)
  <2>1. /\ next \in Command /\ next.act = k.act /\ next.ranges = <<>> /\ next.rows = <<>>
        /\ next.why # {}
    <3>1. next = [k EXCEPT !.rows = <<>>, !.why = k.why \union {"gap"}]
      BY <1>7
    <3>2. k.why \union {"gap"} \in SUBSET Why
      BY <1>2 DEF Command, Why
    <3>3. <<>> \in Seq([uid : 1..last, mail : 1..mails, read : BOOLEAN])
      OBVIOUS
    <3> QED
      BY <1>2, <3>1, <3>2, <3>3 DEF Command
  <2> HIDE DEF next
  <2>2. next \in Command' /\ next.act # "idle"
    BY <1>2, <1>3, <2>1, Grows DEF IInv
  <2> QED
    BY <1>1, <1>3, <1>5, <2>1, <2>2, ContinueKeeps
<1> QED
  BY <1>6, <1>7

LEMMA DelRowStep == ASSUME IInv, NEW c \in Client, DelRow(c) PROVE IInv'
<1> DEFINE k == cmd[c]
           u == Head(k.rows).uid
           gone == StillMatches(row[u], k.found)
           stale == [Next1(c) EXCEPT !.why = @ \union {"stale"}]
<1>1. /\ Handling(c, {"delete", "expunge"})
      /\ row' = IF gone THEN [row EXCEPT ![u] = Absent] ELSE row
      /\ Continue(c, IF gone THEN Next1(c) ELSE stale, row')
      /\ UNCHANGED <<last, mails, pop, web, pending, issued, wrong>>
  BY DEF DelRow
<1>2. UNCHANGED placed
  BY DEF DelRow
<1>3. /\ k.act \in {"delete", "expunge"} /\ k.ranges = <<>> /\ u \in 1..last /\ CommandInv(c)
      /\ Next1(c) \in Command /\ Next1(c).act = k.act /\ Next1(c).ranges = <<>>
      /\ Next1(c).meant = k.meant
  BY <1>1, HandlingIs
<1>4. u \in Uid
  BY <1>3, RowFacts DEF IInv
<1>5. CASE gone
  <2>1. row' = [v \in Uid |-> IF v \in {u} THEN Absent ELSE row[v]]
    BY <1>1, <1>4, <1>5 DEF IInv, TypeOK
  <2>2. RowStep
    BY <1>1, <1>2, <2>1, GoneIs DEF IInv
  <2>3. Settled(k, row', u)
    BY <1>4, <2>1 DEF Settled
  <2>4. Continue(c, Next1(c), row')
    BY <1>1, <1>5
  <2> QED
    BY <1>1, <1>3, <2>2, <2>3, <2>4, NextKeeps
<1>6. CASE ~gone
  <2>1. RowStep
    BY <1>1, <1>2, <1>6, StillIs, RowFacts DEF IInv
  <2>2. Naming(Next1(c), told[c])
    BY <1>1, <1>3, HandlingIs DEF Naming, CommandInv
  <2>3. "stale" \in Why /\ k.act # "idle"
    BY <1>3 DEF Why
  <2>4. Continue(c, stale, row')
    BY <1>1, <1>6
  <2> QED
    BY <1>1, <1>3, <2>1, <2>2, <2>3, <2>4, ReasonKeeps
<1> QED
  BY <1>5, <1>6

\* MOVE is one statement for all that was listed, so nothing of it is left undone.
LEMMA MoveStep == ASSUME IInv, NEW c \in Client, Move(c) PROVE IInv'
<1> DEFINE k == cmd[c]
           ms == {k.rows[i].mail : i \in DOMAIN k.rows}
           next == [k EXCEPT !.rows = <<>>]
<1>1. /\ Handling(c, {"move"}) /\ row' = Put(ms, k.dest) /\ placed' = PlacedAs(row', ms)
      /\ Continue(c, next, row')
      /\ UNCHANGED <<last, mails, pop, web, pending, issued, wrong>>
  BY DEF Move
<1>2. /\ k \in Command /\ k.act = "move" /\ k.ranges = <<>> /\ CommandInv(c)
      /\ \A i \in DOMAIN k.rows : k.rows[i].mail \in 1..mails
  BY <1>1, HandlingIs
<1>3. ms \in SUBSET (1..mails) /\ k.dest \in Selected
  BY <1>2 DEF Command
<1>4. RowStep
  BY <1>1, <1>3, PutIs DEF IInv
<1>5. <<>> \in Seq([uid : 1..last, mail : 1..mails, read : BOOLEAN])
  OBVIOUS
<1>6. /\ next \in Command /\ next.act = "move" /\ next.ranges = <<>> /\ next.rows = <<>>
      /\ next.meant = k.meant /\ next.why = k.why /\ next.dest = k.dest
  BY <1>2, <1>5 DEF Command
<1>7. ASSUME k.why = {}, NEW u \in k.meant PROVE ~Undone(next, row', u)
  <2>1. u \in Uid
    BY <1>2, <1>7, RowFacts DEF Command, IInv
  <2>2. \/ row[u] = Absent
        \/ \E i \in DOMAIN k.rows : k.rows[i].uid = u /\ k.rows[i].mail = row[u].mail
    BY <1>2, <1>7 DEF CommandInv, Covered, Settled
  <2>3. CASE row[u] = Absent
    <3>1. row[u].mail \notin ms
      BY <1>3, <2>3, RowFacts DEF IInv
    <3>2. row'[u] = Absent
      BY <1>1, <2>1, <2>3, <3>1 DEF Put
    <3> QED
      BY <3>2 DEF Undone
  <2>4. CASE \E i \in DOMAIN k.rows : k.rows[i].uid = u /\ k.rows[i].mail = row[u].mail
    <3>1. row[u].mail \in ms
      BY <2>4
    <3>2. row[u] \in Entry
      <4>1. row[u].mail # 0
        BY <1>3, <3>1
      <4> QED
        BY <2>1, <4>1, RowFacts DEF IInv
    <3>3. row'[u] = IF k.dest = "folder" THEN [row[u] EXCEPT !.folder = 1]
                    ELSE [row[u] EXCEPT !.status = k.dest, !.folder = 0]
      BY <1>1, <2>1, <3>1 DEF Put
    <3>4. CASE k.dest = "folder"
      <4>1. row'[u].folder = 1
        BY <3>2, <3>3, <3>4 DEF Entry
      <4> QED
        BY <1>6, <3>4, <4>1 DEF Undone
    <3>5. CASE k.dest # "folder"
      <4>1. row'[u].status = k.dest /\ row'[u].folder = 0
        BY <3>2, <3>3, <3>5 DEF Entry
      <4> QED
        BY <1>6, <3>5, <4>1 DEF Undone, Place
    <3> QED
      BY <3>4, <3>5
  <2> QED
    BY <2>2, <2>3, <2>4
<1>8. next \in Command' /\ next.act # "idle"
  BY <1>4, <1>6, Grows DEF IInv
<1>9. wrong' \subseteq SUBSET Why /\ WrongHitIsExplained'
  BY <1>1 DEF IInv, TypeOK, WrongHitIsExplained
<1> HIDE DEF next
<1> QED
  BY <1>1, <1>4, <1>6, <1>7, <1>8, <1>9, ContinueKeeps

LEMMA CopyStep == ASSUME IInv, NEW c \in Client, Copy(c) PROVE IInv'
<1> DEFINE k == cmd[c]
           from == Head(k.rows)
           e == IF k.dest = "folder" THEN copy2userbox(from) ELSE copy2defaultbox(from, k.dest)
<1>1. /\ Handling(c, {"copy"}) /\ Insert(e) /\ Continue(c, Next1(c), row')
      /\ UNCHANGED <<mails, pop, web, pending, issued, wrong>>
  BY DEF Copy
<1>2. /\ k \in Command /\ k.act = "copy" /\ k.ranges = <<>>
      /\ from \in [uid : 1..last, mail : 1..mails, read : BOOLEAN]
  BY <1>1, HandlingIs
<1>3. from.mail \in Mail /\ from.mail \in 1..mails /\ from.read \in BOOLEAN
  BY <1>2, RowFacts DEF Mail, IInv
<1>4. Status[from.mail] \in Box /\ (k.dest # "folder" => k.dest \in Box)
  BY <1>2, <1>3, MailboxAssumption DEF Command, Selected
<1>5. e \in Entry /\ e.mail = from.mail
  <2>1. CASE k.dest = "folder"
    BY <1>3, <1>4, <2>1 DEF copy2userbox, Entry
  <2>2. CASE k.dest # "folder"
    BY <1>3, <1>4, <2>2 DEF copy2defaultbox, Entry
  <2> QED
    BY <2>1, <2>2
<1> HIDE DEF e
<1>6. RowStep
  BY <1>1, <1>3, <1>5, InsertIs, RowFacts DEF IInv
<1>7. Settled(k, row', from.uid)
  BY <1>2 DEF Settled
<1> QED
  BY <1>1, <1>2, <1>6, <1>7, NextKeeps

\* STORE notes that it ignored something.
LEMMA IgnoreStep == ASSUME IInv, NEW c \in Client, Ignore(c) PROVE IInv'
<1> DEFINE g == [cmd[c] EXCEPT !.ranges = <<>>]
<1>1. /\ cmd[c].act \in {"set", "unseen"}
      /\ Continue(c, [cmd[c] EXCEPT !.ranges = <<>>, !.why = @ \union {"ignored"}], row)
      /\ UNCHANGED <<row, last, mails, pop, web, pending, issued, placed, wrong>>
  BY DEF Ignore
<1>2. cmd[c] \in Command
  BY DEF IInv, TypeOK
<1>3. RowStep
  BY <1>1, StillIs, RowFacts DEF IInv
<1>4. <<>> \in Seq([from : Nat, to : Nat])
  OBVIOUS
<1>5. g \in Command /\ g.act = cmd[c].act /\ g.ranges = <<>>
  BY <1>2, <1>4 DEF Command
<1>6. [cmd[c] EXCEPT !.ranges = <<>>, !.why = @ \union {"ignored"}]
        = [g EXCEPT !.why = @ \union {"ignored"}]
  BY <1>2 DEF Command
<1> HIDE DEF g
<1>7. Naming(g, told[c])
  BY <1>1, <1>5 DEF Naming
<1>8. Continue(c, [g EXCEPT !.why = @ \union {"ignored"}], row')
  BY <1>1, <1>6
<1> QED
  BY <1>1, <1>3, <1>5, <1>7, <1>8, ReasonKeeps DEF Why

\* UID EXPUNGE: the ids up to the first that is gone have a record each.  Where none was
\* skipped they are all the command named; one that it did not name is of another
\* mailbox, or the numbers were not to be relied on.
LEMMA ExpungeStep == ASSUME IInv, NEW c \in Client, Expunge(c) PROVE IInv'
<1> DEFINE k     == cmd[c]
           box   == told[c].box
           open  == \E i \in DOMAIN k.ranges : k.ranges[i].to = 0
           ids   == {u \in Uid : \E i \in DOMAIN k.ranges :
                                    k.ranges[i].to # 0 /\ Within(u, k.ranges[i])}
           reach == {u \in ids : \A v \in ids : v <= u => Present(v)}
           why   == k.why \union Reasons(c) \union (IF open THEN {"open"} ELSE {})
                                           \union (IF reach # ids THEN {"gap"} ELSE {})
           place == [u \in Uid |-> u]
           list  == InOrder(reach, place)
           next  == [k EXCEPT !.ranges = <<>>, !.why = why, !.rows = list]
<1>1. /\ k.act = "expunge" /\ k.ranges # <<>> /\ Continue(c, next, row)
      /\ wrong' = wrong \union {IF u \in In(box) THEN why ELSE why \union {"span"} :
                                  u \in reach \ k.meant}
      /\ UNCHANGED <<row, last, mails, pop, web, pending, issued, placed>>
  BY DEF Expunge
<1>2. k \in Command /\ CommandInv(c) /\ TypeOK /\ k.byUid
  BY <1>1 DEF IInv, TypeOK, CommandInv, Naming
<1>3. reach \in SUBSET ids /\ ids \in SUBSET Uid /\ \A u \in reach : row[u] # Absent
  <2>1. \A u \in Uid : u <= u
    BY RowFacts DEF IInv
  <2> QED
    BY <2>1 DEF Present
<1>4. \A u \in Uid : place[u] = u /\ u \in Nat
  BY RowFacts DEF IInv
<1>5. Records(list, reach)
  <2> HIDE DEF reach, place
  <2>1. \A u \in reach : place[u] \in Nat
    BY <1>3, <1>4
  <2>2. \A u, v \in reach : place[u] = place[v] => u = v
    BY <1>3, <1>4
  <2> QED
    BY <1>2, <1>3, <2>1, <2>2, InOrderIs
<1>6. Reasons(c) \in SUBSET {"changed", "filed", "subset", "twin"} /\ Reasons(c) \subseteq Why
  BY DEF Reasons, Why
<1>7. why \in SUBSET Why /\ why \union {"span"} \in SUBSET Why
  BY <1>2, <1>6 DEF Command, Why
<1>8. why = {} => k.why = {} /\ Reasons(c) = {} /\ ~open /\ reach = ids
  OBVIOUS
<1>9. /\ next \in Command /\ next.act = k.act /\ next.byUid = k.byUid
      /\ next.meant = k.meant /\ next.ranges = <<>> /\ next.why = why /\ next.rows = list
  <2>1. <<>> \in Seq([from : Nat, to : Nat])
    OBVIOUS
  <2> HIDE DEF list, why
  <2> QED
    BY <1>2, <1>5, <1>7, <2>1 DEF Command, Records
<1> HIDE DEF next, list, why
<1>10. RowStep
  BY <1>1, <1>2, StillIs, RowFacts DEF IInv
<1>11. next \in Command' /\ next.act # "idle"
  BY <1>1, <1>9, <1>10, Grows DEF IInv
<1>12. Naming(next, told[c]) /\ OneListing(next)
  BY <1>2, <1>9 DEF Naming, OneListing
<1>13. Covered(next, told[c], row')
  <2>1. SUFFICES ASSUME why = {}, NEW u \in k.meant, ~Settled(k, row, u)
                 PROVE  \E i \in DOMAIN list : list[i].uid = u /\ list[i].mail = row[u].mail
    BY <1>1, <1>9 DEF Covered, Settled
  <2>2. k.why = {} /\ ~open /\ reach = ids
    BY <1>8, <2>1
  <2>3. k.rows = <<>>
    BY <1>1, <1>2, <2>2 DEF CommandInv, OneListing
  <2>4. u \in Uid
    BY <1>2, RowFacts DEF Command
  <2>5. ASSUME NEW i \in DOMAIN k.ranges, NamedBy(k, told[c], k.ranges[i], u)
        PROVE  u \in ids
    BY <1>2, <2>2, <2>4, <2>5 DEF NamedBy, KeyOf
  <2>6. \A i \in DOMAIN k.ranges : k.ranges[i].from # 0
    BY <1>2, <2>2 DEF CommandInv, Naming
  <2>7. u \in reach
    BY <1>2, <2>1, <2>2, <2>3, <2>5, <2>6 DEF CommandInv, Covered
  <2> QED
    BY <1>5, <2>7 DEF Records
<1>14. ASSUME NEW u \in reach \ k.meant, u \in In(box)
       PROVE  Reasons(c) # {}
  <2>1. SUFFICES ASSUME Reasons(c) = {} PROVE FALSE
    OBVIOUS
  <2>2. PICK i \in DOMAIN k.ranges : Within(u, k.ranges[i])
    BY <1>3
  <2>3. \E p \in told[c].of : KeyOf(k, p) = k.ranges[i].from
    BY <1>2, <2>2 DEF CommandInv, Naming, Within
  <2>4. box # "folder"
    <3>1. In(box) = Direct(box)
      BY <1>2, <2>1 DEF Reasons
    <3> QED
      BY <1>14, <3>1 DEF Direct
  <2>5. u \in ByUid(box, k.ranges[i])
    BY <1>14, <2>2, <2>4 DEF ByUid
  <2>6. Shown(ByUid(box, k.ranges[i])) = ByUid(box, k.ranges[i])
    <3>1. Shown(In(box)) = In(box)
      BY <2>1 DEF Reasons
    <3> QED
      BY <3>1 DEF Shown, ByUid
  <2>7. u \in Listed(box, k.ranges[i], k.byUid)
    BY <1>2, <2>5, <2>6 DEF Listed
  <2>8. NamedBy(k, told[c], k.ranges[i], u)
    BY <2>1, <2>3, <2>7, LookupSees
  <2>9. u \in k.meant
    BY <1>2, <2>8 DEF CommandInv, Naming, NamedBy
  <2> QED
    BY <1>14, <2>9
<1>15. wrong' \subseteq SUBSET Why
  <2>1. wrong \subseteq SUBSET Why
    BY DEF IInv, TypeOK
  <2> HIDE DEF reach
  <2> QED
    BY <1>1, <1>7, <2>1
<1>16. WrongHitIsExplained'
  <2>1. \A w \in wrong : w \intersect {"changed", "filed", "subset", "twin", "span"} # {}
    BY DEF IInv, WrongHitIsExplained
  <2>2. \A u \in reach \ k.meant :
           (IF u \in In(box) THEN why ELSE why \union {"span"})
               \intersect {"changed", "filed", "subset", "twin", "span"} # {}
    BY <1>6, <1>14 DEF why
  <2> HIDE DEF reach
  <2> QED
    BY <1>1, <2>1, <2>2 DEF WrongHitIsExplained
<1> QED
  BY <1>1, <1>10, <1>11, <1>12, <1>13, <1>15, <1>16, ContinueKeeps

\* A statement that fails is a reason, or the command answers NO.
LEMMA FailsStep == ASSUME IInv, NEW c \in Client, Fails(c) PROVE IInv'
<1> DEFINE k == cmd[c]
           on(g) == Continue(c, [g EXCEPT !.why = @ \union {"failed"}], row)
           skip == [k EXCEPT !.ranges = Tail(@), !.rows = IF LastRange(k) THEN <<>> ELSE @]
           stop == [k EXCEPT !.rows = <<>>]
<1>1. /\ \/ Looking(c) /\ on(skip)
         \/ Handling(c, {"seen", "body"}) /\ on(Next1(c))
         \/ Handling(c, {"delete", "expunge", "move"}) /\ on(stop)
         \/ /\ cmd' = [cmd EXCEPT ![c] = Idle] /\ told' = [told EXCEPT ![c] = NotTold]
            /\ UNCHANGED kept
      /\ UNCHANGED <<row, last, mails, pop, web, pending, issued, placed, wrong>>
  BY DEF Fails
<1>2. k \in Command /\ CommandInv(c) /\ "failed" \in Why
  BY DEF IInv, TypeOK, Why
<1>3. RowStep
  BY <1>1, StillIs, RowFacts DEF IInv
<1>4. UNCHANGED <<row, pop, web, pending, issued, wrong>>
  BY <1>1
<1>5. ASSUME NEW g \in Command, g.act # "idle", Naming(g, told[c]), on(g)
      PROVE  IInv'
  <2>1. Continue(c, [g EXCEPT !.why = @ \union {"failed"}], row')
    BY <1>4, <1>5
  <2> QED
    BY <1>2, <1>3, <1>4, <1>5, <2>1, ReasonKeeps
<1>6. CASE Looking(c) /\ on(skip)
  <2>1. k.ranges # <<>> /\ k.act # "idle"
    BY <1>6 DEF Looking, Act
  <2>2. /\ k.ranges \in Seq([from : Nat, to : Nat])
        /\ k.rows \in Seq([uid : 1..last, mail : 1..mails, read : BOOLEAN])
        /\ <<>> \in Seq([uid : 1..last, mail : 1..mails, read : BOOLEAN])
    BY <1>2 DEF Command
  <2>3. Tail(k.ranges) \in Seq([from : Nat, to : Nat])
    BY <2>1, <2>2
  <2>4. /\ skip \in Command /\ skip.act = k.act /\ skip.ranges = Tail(k.ranges)
        /\ skip.byUid = k.byUid /\ skip.meant = k.meant
    BY <1>2, <2>2, <2>3 DEF Command
  <2>5. on(skip)
    BY <1>6
  <2> HIDE DEF skip, on
  <2>6. Naming(skip, told[c])
    BY <1>2, <2>1, <2>4, RangesLeft DEF CommandInv
  <2> QED
    BY <1>5, <2>1, <2>4, <2>5, <2>6
<1>7. CASE Handling(c, {"seen", "body"}) /\ on(Next1(c))
  <2>1. /\ Next1(c) \in Command /\ k.act # "idle" /\ CommandInv(c)
        /\ Next1(c).act = k.act /\ Next1(c).byUid = k.byUid
        /\ Next1(c).meant = k.meant /\ Next1(c).ranges = k.ranges
    BY <1>7, HandlingIs
  <2>2. Naming(Next1(c), told[c])
    BY <2>1 DEF CommandInv, Naming, KeyOf
  <2>3. on(Next1(c))
    BY <1>7
  <2> HIDE DEF on
  <2> QED
    BY <1>5, <2>1, <2>2, <2>3
<1>8. CASE Handling(c, {"delete", "expunge", "move"}) /\ on(stop)
  <2>1. k.act # "idle"
    BY <1>8, HandlingIs
  <2>2. <<>> \in Seq([uid : 1..last, mail : 1..mails, read : BOOLEAN])
    OBVIOUS
  <2>3. /\ stop \in Command /\ stop.act = k.act /\ stop.ranges = k.ranges
        /\ stop.byUid = k.byUid /\ stop.meant = k.meant
    BY <1>2, <2>2 DEF Command
  <2>4. on(stop)
    BY <1>8
  <2> HIDE DEF stop, on
  <2>5. Naming(stop, told[c])
    BY <1>2, <2>3 DEF CommandInv, Naming, KeyOf
  <2> QED
    BY <1>5, <2>1, <2>3, <2>4, <2>5
<1>9. CASE /\ cmd' = [cmd EXCEPT ![c] = Idle] /\ told' = [told EXCEPT ![c] = NotTold]
           /\ UNCHANGED kept
  <2>1. Idle \in Command' /\ NotTold \in Told'
    BY <1>3, IdleIs, Grows DEF IInv
  <2>2. /\ Telling(NotTold) /\ Naming(Idle, NotTold) /\ Covered(Idle, NotTold, row')
        /\ OneListing(Idle)
    BY IdleIs
  <2>3. /\ issued' \in 0..MaxCommand /\ wrong' \union kept' \subseteq SUBSET Why
        /\ WrongHitIsExplained' /\ KeptIsExplained'
    BY <1>4, <1>9 DEF IInv, TypeOK, WrongHitIsExplained, KeptIsExplained
  <2> QED
    BY <1>3, <1>4, <1>9, <2>1, <2>2, <2>3, SessionKeeps
<1> QED
  BY <1>1, <1>6, <1>7, <1>8, <1>9

-----------------------------------------------------------------------------
\* The web, POP3, arrivals and the rules

\* They change the table, and no command.
LEMMA OthersKeepAll ==
    ASSUME IInv, RowStep, UNCHANGED <<cmd, told, wrong, kept>>,
           issued' \in 0..MaxCommand,
           pop' \in [open : BOOLEAN, marks : SUBSET (1..mails')], pop'.open \/ pop' = Closed,
           web' \subseteq [uid : 1..last', found : Entry],
           pending' \subseteq [mail : 1..mails', rules : SUBSET (DOMAIN Rule), forward : BOOLEAN]
    PROVE  IInv'
<1>1. cmd' \in [Client -> Command'] /\ told' \in [Client -> Told']
  BY Grows DEF IInv, TypeOK
<1>2. TypeOK'
  BY <1>1 DEF IInv, TypeOK, RowStep
<1>3. ASSUME NEW c \in Client PROVE CommandInv(c)'
  BY OthersKeep DEF IInv, RowStep
<1> QED
  BY <1>2, <1>3 DEF IInv, RowStep, WrongHitIsExplained, KeptIsExplained

LEMMA Unchanged ==
    ASSUME IInv, RowStep
    PROVE  /\ pop \in [open : BOOLEAN, marks : SUBSET (1..mails')] /\ (pop.open \/ pop = Closed)
           /\ web \subseteq [uid : 1..last', found : Entry]
           /\ pending \subseteq [mail : 1..mails', rules : SUBSET (DOMAIN Rule), forward : BOOLEAN]
           /\ issued \in 0..MaxCommand
           /\ Request => issued' \in 0..MaxCommand
BY Grows, MailboxAssumption DEF IInv, TypeOK, Request

LEMMA WebStep ==
    ASSUME IInv, \/ \E m \in 1..mails : WebFind(m) \/ WebMove(m) \/ WebDelete(m)
                 \/ WebRead
    PROVE  IInv'
<1>1. ASSUME NEW m \in 1..mails, WebFind(m) PROVE IInv'
  <2>1. PICK u \in Uid : /\ row[u].mail = m
                         /\ web' = IF row[u].read THEN web
                                   ELSE web \union {[uid |-> u, found |-> row[u]]}
    BY <1>1 DEF WebFind
  <2>2. u \in 1..last /\ row[u] \in Entry
    <3>1. row[u] \in Entry
      BY <2>1, RowFacts DEF IInv
    <3> QED
      BY <3>1, RowFacts DEF IInv
  <2>3. RowStep /\ UNCHANGED <<last, cmd, told, pop, pending, wrong, kept>> /\ Request
    BY <1>1, StillIs, RowFacts DEF WebFind, IInv
  <2>4. web' \subseteq [uid : 1..last', found : Entry]
    BY <2>1, <2>2, <2>3, Unchanged
  <2> QED
    BY <2>3, <2>4, Unchanged, OthersKeepAll
<1>2. ASSUME NEW m \in 1..mails, WebMove(m) PROVE IInv'
  <2>1. PICK dest \in Selected : row' = Put({m}, dest)
    BY <1>2 DEF WebMove
  <2>2. RowStep
    BY <1>2, <2>1, PutIs DEF WebMove, IInv
  <2> QED
    BY <1>2, <2>2, Unchanged, OthersKeepAll DEF WebMove
<1>3. ASSUME NEW m \in 1..mails, WebDelete(m) PROVE IInv'
  <2>1. row' = [u \in Uid |-> IF u \in {v \in Uid : row[v].mail = m} THEN Absent ELSE row[u]]
    BY <1>3 DEF WebDelete
  <2>2. RowStep
    BY <1>3, <2>1, GoneIs DEF WebDelete, IInv
  <2> QED
    BY <1>3, <2>2, Unchanged, OthersKeepAll DEF WebDelete
<1>4. ASSUME WebRead PROVE IInv'
  <2>1. PICK w \in web : /\ web' = web \ {w}
                         /\ row' = [row EXCEPT ![w.uid] = WriteBack(@, w.found)]
    BY <1>4 DEF WebRead
  <2>2. w.uid \in Uid /\ w.found \in Entry
    BY RowFacts DEF IInv, TypeOK
  <2>3. RowStep
    BY <1>4, <2>1, <2>2, WriteBackIs DEF WebRead, IInv
  <2>4. web' \subseteq [uid : 1..last', found : Entry]
    BY <2>1, <2>3, Unchanged
  <2> QED
    BY <1>4, <2>3, <2>4, Unchanged, OthersKeepAll DEF WebRead
<1> QED
  BY <1>1, <1>2, <1>3, <1>4

LEMMA PopsStep ==
    ASSUME IInv, PopLogin \/ Rest \/ Quit \/ \E m \in 1..mails : Dele(m)
    PROVE  IInv'
<1>1. ASSUME PopLogin PROVE IInv'
  <2>1. RowStep
    BY <1>1, StillIs, RowFacts DEF PopLogin, PopStep, Look, IInv
  <2>2. pop' = [open |-> TRUE, marks |-> {}]
    BY <1>1 DEF PopLogin, Closed
  <2> QED
    BY <1>1, <2>1, <2>2, Unchanged, OthersKeepAll DEF PopLogin, PopStep
<1>2. ASSUME NEW m \in 1..mails, Dele(m) PROVE IInv'
  <2>1. RowStep
    BY <1>2, StillIs, RowFacts DEF Dele, PopStep, Look, IInv
  <2>2. pop' \in [open : BOOLEAN, marks : SUBSET (1..mails')] /\ pop'.open
    BY <1>2 DEF Dele, PopStep, IInv, TypeOK
  <2> QED
    BY <1>2, <2>1, <2>2, Unchanged, OthersKeepAll DEF Dele, PopStep
<1>3. ASSUME Rest PROVE IInv'
  <2>1. RowStep
    BY <1>3, StillIs, RowFacts DEF Rest, PopStep, Look, IInv
  <2>2. pop' \in [open : BOOLEAN, marks : SUBSET (1..mails')] /\ pop'.open
    BY <1>3 DEF Rest, PopStep, IInv, TypeOK
  <2> QED
    BY <1>3, <2>1, <2>2, Unchanged, OthersKeepAll DEF Rest, PopStep
<1>4. ASSUME Quit PROVE IInv'
  <2>1. RowStep
    <3>1. "deleted" \in Selected /\ pop.marks \in SUBSET (1..mails)
      BY MailboxAssumption DEF Selected, IInv, TypeOK
    <3>2. CASE row' = Put(pop.marks, "deleted") /\ placed' = PlacedAs(row', pop.marks)
      BY <1>4, <3>1, <3>2, PutIs DEF Quit, PopStep, IInv
    <3>3. CASE Look
      BY <1>4, <3>3, StillIs, RowFacts DEF Quit, PopStep, Look, IInv
    <3> QED
      BY <1>4, <3>2, <3>3 DEF Quit
  <2>2. pop' \in [open : BOOLEAN, marks : SUBSET (1..mails')] /\ pop' = Closed
    BY <1>4 DEF Quit, Closed
  <2> QED
    BY <1>4, <2>1, <2>2, Unchanged, OthersKeepAll DEF Quit, PopStep
<1> QED
  BY <1>1, <1>2, <1>3, <1>4

LEMMA NewIs ==
    ASSUME NEW m \in Mail
    PROVE  New(m) \in Entry /\ New(m).mail = m
BY MailboxAssumption DEF New, Entry

LEMMA ArriveStep == ASSUME IInv, Arrive PROVE IInv'
<1>1. PICK here \in BOOLEAN, forward \in BOOLEAN, holds \in MatchRule :
          /\ IF here THEN Insert(New(mails')) ELSE UNCHANGED <<row, last, placed>>
          /\ LET p == [mail |-> mails', rules |-> holds, forward |-> forward]
             IN  pending' = After(p, p)
  BY DEF Arrive
<1>2. mails' = mails + 1 /\ mails' \in 0..MaxMail /\ mails <= mails' /\ mails' \in Mail /\ mails' \in 1..mails'
  BY RowFacts DEF Arrive, Mail, IInv
<1>3. RowStep
  <2>1. CASE here
    BY <1>1, <1>2, <2>1, NewIs, InsertIs DEF IInv
  <2>2. CASE ~here
    BY <1>1, <1>2, <2>2, StillIs DEF IInv
  <2> QED
    BY <2>1, <2>2
<1>4. pending' \subseteq [mail : 1..mails', rules : SUBSET (DOMAIN Rule), forward : BOOLEAN]
  BY <1>1, <1>2, <1>3, Unchanged DEF After, MatchRule
<1> QED
  BY <1>3, <1>4, Unchanged, OthersKeepAll DEF Arrive

LEMMA DoRuleStep == ASSUME IInv, DoRule PROVE IInv'
<1>1. PICK p \in pending :
         /\ p.rules # {} /\ row' = Ruled(Rule[GetAllRules(p)], p.mail)
         /\ placed' = IF Rule[GetAllRules(p)] = "read" THEN placed ELSE PlacedAs(row', {p.mail})
         /\ pending' = After(p, [p EXCEPT !.rules = @ \ {GetAllRules(p)}])
  BY DEF DoRule
<1>2. p \in [mail : 1..mails, rules : SUBSET (DOMAIN Rule), forward : BOOLEAN]
  BY DEF IInv, TypeOK
<1>3. Rule \in Seq({"read", "delete", "file", "sent"} \union Box) /\ DOMAIN Rule \subseteq Nat
  BY MailboxAssumption
<1>4. GetAllRules(p) \in DOMAIN Rule
  BY <1>1, <1>2, <1>3, MinIs DEF GetAllRules
<1>5. Rule[GetAllRules(p)] \in {"read", "delete", "file", "sent"} \union Box
  BY <1>3, <1>4
<1>6. RowStep
  BY <1>1, <1>2, <1>5, RuledIs DEF DoRule, IInv
<1>7. pending' \subseteq [mail : 1..mails', rules : SUBSET (DOMAIN Rule), forward : BOOLEAN]
  <2>1. [p EXCEPT !.rules = @ \ {GetAllRules(p)}]
           \in [mail : 1..mails, rules : SUBSET (DOMAIN Rule), forward : BOOLEAN]
    BY <1>2
  <2> QED
    BY <1>1, <2>1 DEF After, IInv, TypeOK, DoRule
<1> QED
  BY <1>6, <1>7, Unchanged, OthersKeepAll DEF DoRule

LEMMA ForwardStep == ASSUME IInv, forwardToLocalUser PROVE IInv'
<1>1. PICK p \in pending :
         /\ IF \E u \in Uid : row[u].mail = p.mail THEN UNCHANGED <<row, last, placed>>
            ELSE Insert(New(p.mail))
         /\ pending' = After(p, [p EXCEPT !.forward = FALSE])
  BY DEF forwardToLocalUser
<1>2. p \in [mail : 1..mails, rules : SUBSET (DOMAIN Rule), forward : BOOLEAN]
  BY DEF IInv, TypeOK
<1>3. p.mail \in Mail /\ p.mail <= mails /\ mails' = mails
  BY <1>2, RowFacts DEF Mail, forwardToLocalUser, IInv
<1>4. RowStep
  <2>1. CASE \E u \in Uid : row[u].mail = p.mail
    BY <1>1, <1>3, <2>1, StillIs, RowFacts DEF IInv
  <2>2. CASE ~\E u \in Uid : row[u].mail = p.mail
    BY <1>1, <1>3, <2>2, NewIs, InsertIs, RowFacts DEF IInv
  <2> QED
    BY <2>1, <2>2
<1>5. pending' \subseteq [mail : 1..mails', rules : SUBSET (DOMAIN Rule), forward : BOOLEAN]
  <2>1. [p EXCEPT !.forward = FALSE]
           \in [mail : 1..mails, rules : SUBSET (DOMAIN Rule), forward : BOOLEAN]
    BY <1>2
  <2> QED
    BY <1>1, <1>3, <2>1 DEF After, IInv, TypeOK
<1> QED
  BY <1>4, <1>5, Unchanged, OthersKeepAll DEF forwardToLocalUser

-----------------------------------------------------------------------------
\* The invariant holds at the start and after every step

LEMMA InitInv == ASSUME Init PROVE IInv
<1>1. PICK start \in Start :
         /\ row = [u \in Uid |-> IF u \in DOMAIN start THEN start[u] ELSE Absent]
         /\ last = Len(start)
         /\ mails = Max({start[u].mail : u \in DOMAIN start} \union {0})
         /\ placed = [u \in Uid |-> Place(row[u])]
         /\ cmd = [c \in Client |-> Idle]
         /\ told = [c \in Client |-> NotTold]
         /\ pop = Closed /\ web = {} /\ pending = {} /\ issued = 0
         /\ wrong = {} /\ kept = {}
  BY DEF Init
<1>2. /\ start \in Seq(Entry) /\ Len(start) <= MaxUid /\ Len(start) \in Nat
      /\ DOMAIN start = 1..Len(start) /\ MaxMail \in Nat /\ MaxUid \in Nat /\ MaxCommand \in Nat
  BY MailboxAssumption
<1>3. \A u \in DOMAIN start : start[u] \in Entry /\ start[u].mail \in 1..MaxMail
  <2>1. \A u \in DOMAIN start : start[u] \in Entry
    BY <1>2, ElementOfSeq
  <2> QED
    BY <2>1 DEF Entry, Mail
<1> DEFINE T == {start[u].mail : u \in DOMAIN start} \union {0}
<1>4. T \subseteq 0..MaxMail /\ T # {}
  BY <1>2, <1>3
<1>5. mails \in T /\ \A m \in T : m <= mails
  BY <1>1, <1>2, <1>4, MaxIs
<1>6. mails \in 0..MaxMail /\ last \in 0..MaxUid /\ last \in Nat
  BY <1>1, <1>2, <1>4, <1>5
<1>7. \A u \in Uid : /\ row[u] \in Entry \union {Absent} /\ row[u].mail <= mails
                     /\ u > last => row[u] = Absent
  <2>1. TAKE u \in Uid
  <2>2. row[u] = IF u \in DOMAIN start THEN start[u] ELSE Absent
    BY <1>1
  <2>3. u \in DOMAIN start => start[u].mail \in T
    OBVIOUS
  <2>4. u > last => u \notin DOMAIN start
    BY <1>1, <1>2, <1>6
  <2>5. 0 <= mails /\ Absent.mail = 0
    BY <1>6 DEF Absent
  <2> QED
    BY <1>3, <1>5, <2>2, <2>3, <2>4, <2>5
<1>8. row \in [Uid -> Entry \union {Absent}]
  <2>1. row = [u \in Uid |-> row[u]]
    BY <1>1
  <2> QED
    BY <1>7, <2>1
<1>9. placed \in [Uid -> (Box \union {"absent"}) \X (0..1)]
  <2>1. \A e \in Entry \union {Absent} : Place(e) \in (Box \union {"absent"}) \X (0..1)
    BY DEF Place, Entry, Absent
  <2> QED
    BY <1>1, <1>7, <2>1
<1>10. TypeOK
  <2>1. Idle \in Command /\ NotTold \in Told
    BY IdleIs
  <2>2. cmd \in [Client -> Command] /\ told \in [Client -> Told]
    BY <1>1, <2>1
  <2>3. pop \in [open : BOOLEAN, marks : SUBSET (1..mails)] /\ (pop.open \/ pop = Closed)
    BY <1>1 DEF Closed
  <2>4. /\ issued \in 0..MaxCommand /\ wrong \union kept \subseteq SUBSET Why
        /\ web \subseteq [uid : 1..last, found : Entry]
        /\ pending \subseteq [mail : 1..mails, rules : SUBSET (DOMAIN Rule), forward : BOOLEAN]
    BY <1>1, <1>2
  <2> QED
    BY <1>6, <1>7, <1>8, <1>9, <2>2, <2>3, <2>4 DEF TypeOK
<1>11. ASSUME NEW c \in Client PROVE CommandInv(c)
  <2>1. cmd[c] = Idle /\ told[c] = NotTold
    BY <1>1
  <2> QED
    BY <1>10, <2>1, IdleIs DEF CommandInv
<1>12. WrongHitIsExplained /\ KeptIsExplained /\ InboxIsCommanded
  BY <1>1 DEF WrongHitIsExplained, KeptIsExplained, InboxIsCommanded
<1> QED
  BY <1>10, <1>11, <1>12 DEF IInv

LEMMA NextInv == ASSUME IInv, [Next]_vars PROVE IInv'
<1>1. ASSUME NEW c \in Client, Session(c) PROVE IInv'
  BY <1>1, FetchStep, SearchAllStep, UidFetchStep, IssueStep, LookupStep, MakeReadStep,
     IgnoreStep, DelFindStep, DelRowStep, ExpungeStep, MoveStep, CopyStep, FailsStep DEF Session
<1>2. ASSUME Others PROVE IInv'
  BY <1>2, WebStep, PopsStep, ArriveStep, DoRuleStep, ForwardStep DEF Others
<1>3. CASE UNCHANGED vars
  <2>1. RowStep
    BY <1>3, StillIs, RowFacts DEF IInv, vars
  <2> QED
    BY <1>3, <2>1, Unchanged, OthersKeepAll DEF vars
<1> QED
  BY <1>1, <1>2, <1>3 DEF Next

\* Every step of a session, of the web, of POP3 or of an arrival keeps the invariant.
THEOREM Invariance == Spec => []IInv
<1>1. Init => IInv
  BY InitInv
<1>2. IInv /\ [Next]_vars => IInv'
  BY NextInv
<1> QED
  BY <1>1, <1>2, PTL DEF Spec

-----------------------------------------------------------------------------
\* Every reachable state is well typed: no session names a relation or a mail that
\* does not exist yet, and the rows that are listed are about mails that arrived.
THEOREM TypeCorrect == Spec => []TypeOK
<1>1. IInv => TypeOK
  BY DEF IInv
<1> QED
  BY <1>1, Invariance, PTL

\* A command takes a message its session did not name only for one of the reasons that
\* concern what its numbers mean, or because UID EXPUNGE looks at no mailbox.
THEOREM HitsAreExplained == Spec => []WrongHitIsExplained
<1>1. IInv => WrongHitIsExplained
  BY DEF IInv
<1> QED
  BY <1>1, Invariance, PTL

\* A command that answers OK has done its work on every message its session named,
\* unless a reason was met: its numbers could not be relied on, its ranges or flags are
\* passed over, a row was gone or had changed, or a statement failed unnoticed.
THEOREM KeptAreExplained == Spec => []KeptIsExplained
<1>1. IInv => KeptIsExplained
  BY DEF IInv
<1> QED
  BY <1>1, Invariance, PTL

\* What a command, a request or a rule took out of the inbox is never brought back
\* by a reader that writes back the row it looked up before.
THEOREM InboxIsLeftForGood == Spec => []InboxIsCommanded
<1>1. IInv => InboxIsCommanded
  BY DEF IInv
<1> QED
  BY <1>1, Invariance, PTL
-----------------------------------------------------------------------------
\* What SEARCH computes, from the last node to the first

\* A node looks at what was found by those below it, and at nothing else.
LEMMA FilteredLocal ==
    ASSUME NEW box, NEW nodes, NEW rows, NEW emails, NEW f, NEW g, NEW i,
           \A j \in Denied(nodes[i]) \union Sides(nodes[i]) : f[j] = g[j]
    PROVE  Filtered(box, nodes, rows, emails, f, i) = Filtered(box, nodes, rows, emails, g, i)
<1>1. {f[j] : j \in Denied(nodes[i])} = {g[j] : j \in Denied(nodes[i])}
  OBVIOUS
<1>2. {f[j] : j \in Sides(nodes[i])} = {g[j] : j \in Sides(nodes[i])}
  OBVIOUS
<1> QED
  BY <1>1, <1>2, Zenon DEF Filtered

LEMMA MeetsLocal ==
    ASSUME NEW table, NEW box, NEW nodes, NEW u, NEW f, NEW g, NEW i,
           \A j \in Denied(nodes[i]) \union Sides(nodes[i]) : f[j] = g[j]
    PROVE  Meets(table, box, nodes, f, u, i) = Meets(table, box, nodes, g, u, i)
<1>1. \A n \in DOMAIN nodes[i].not : f[nodes[i].not[n]] = g[nodes[i].not[n]]
  BY DEF Denied
<1>2. \A n \in DOMAIN nodes[i].or : /\ f[nodes[i].or[n][1]] = g[nodes[i].or[n][1]]
                                    /\ f[nodes[i].or[n][2]] = g[nodes[i].or[n][2]]
  BY DEF Sides
<1>5. (\A n \in DOMAIN nodes[i].not : ~f[nodes[i].not[n]])
         <=> (\A n \in DOMAIN nodes[i].not : ~g[nodes[i].not[n]])
  BY <1>1
<1>6. (\A n \in DOMAIN nodes[i].or : f[nodes[i].or[n][1]] \/ f[nodes[i].or[n][2]])
         <=> (\A n \in DOMAIN nodes[i].or : g[nodes[i].or[n][1]] \/ g[nodes[i].or[n][2]])
  BY <1>2
<1>3. Meets(table, box, nodes, f, u, i) <=> Meets(table, box, nodes, g, u, i)
  BY <1>5, <1>6, Zenon DEF Meets
<1>4. /\ Meets(table, box, nodes, f, u, i) \in BOOLEAN
      /\ Meets(table, box, nodes, g, u, i) \in BOOLEAN
  BY DEF Meets
<1> QED
  BY <1>3, <1>4

\* What is below a node comes after it, so both recursions come to an end.
Ordered(nodes) ==
    \A i \in DOMAIN nodes : Denied(nodes[i]) \union Sides(nodes[i]) \subseteq (i + 1)..Len(nodes)

AllFound(box, nodes, rows, emails, f) ==
    f = [i \in DOMAIN nodes |-> Filtered(box, nodes, rows, emails, f, i)]

LEMMA FoundExists ==
    ASSUME NEW box, NEW nodes \in Seq(Node), NEW rows, NEW emails, Ordered(nodes)
    PROVE  \E f : AllFound(box, nodes, rows, emails, f)
<1> DEFINE n == Len(nodes)
           Value(f, i) == Filtered(box, nodes, rows, emails, f, i)
           T == {m \in 0..n : ~ \E f : f = [i \in (n + 1 - m)..n |-> Value(f, i)]}
<1>0. n \in Nat /\ n \in 0..n /\ DOMAIN nodes = (n + 1 - n)..n
  OBVIOUS
<1>1. SUFFICES ASSUME T # {} PROVE FALSE
  BY <1>0, Zenon DEF AllFound
<1>. T \subseteq Nat
  OBVIOUS
<1>2. PICK m \in T : \A l \in T : m <= l
  BY <1>1, Least, Zenon
<1>3. CASE m = 0
  <2>1. (n + 1 - m)..n = {}
    BY <1>0, <1>3
  <2> HIDE DEF Value
  <2>2. \A f : [i \in (n + 1 - m)..n |-> Value(f, i)] = [i \in {} |-> {}]
    BY <2>1
  <2> QED
    BY <1>2, <2>2
<1>4. CASE m # 0
  <2> DEFINE first == n + 1 - m
  <2>1. m - 1 \in 0..n /\ m - 1 \notin T /\ first \in Nat /\ first <= n /\ first >= 1
    <3>1. m \in 0..n
      BY <1>2
    <3> HIDE DEF T, n
    <3> QED
      BY <1>0, <1>2, <1>4, <3>1
  <2>2. n + 1 - (m - 1) = first + 1
    BY <1>0, <2>1
  <2>3. PICK f : f = [i \in (first + 1)..n |-> Value(f, i)]
    BY <2>1, <2>2
  <2> DEFINE h == [i \in first..n |-> IF i > first THEN f[i] ELSE Value(f, first)]
  <2>4. \A i \in first..n : h[i] = Value(f, i)
    <3> HIDE DEF Value
    <3>1. \A i \in (first + 1)..n : f[i] = Value(f, i)
      BY <2>3, Zenon
    <3>2. /\ \A i \in first..n : i > first => i \in (first + 1)..n
          /\ \A i \in first..n : ~(i > first) => i = first
      <4> HIDE DEF first, n
      <4> QED
        BY <1>0, <2>1
    <3>4. \A i \in first..n : h[i] = IF i > first THEN f[i] ELSE Value(f, first)
      OBVIOUS
    <3> HIDE DEF h, first, n
    <3> QED
      BY <3>1, <3>2, <3>4
  <2>5. \A i \in first..n : Value(h, i) = Value(f, i)
    <3>1. TAKE i \in first..n
    <3>2. i \in DOMAIN nodes /\ i \in Nat
      BY <1>0, <2>1
    <3>3. \A j \in Denied(nodes[i]) \union Sides(nodes[i]) : j \in first..n /\ j > first
      BY <1>0, <2>1, <3>2 DEF Ordered
    <3> HIDE DEF Value
    <3>4. \A j \in Denied(nodes[i]) \union Sides(nodes[i]) : h[j] = f[j]
      BY <3>3
    <3> USE DEF Value
    <3> HIDE DEF h
    <3> QED
      BY <3>4, FilteredLocal
  <2> HIDE DEF Value
  <2>6. h = [i \in first..n |-> Value(h, i)]
    BY <2>4, <2>5
  <2> QED
    BY <1>2, <2>6
<1> QED
  BY <1>3, <1>4

LEMMA FoundIs ==
    ASSUME NEW box, NEW nodes \in Seq(Node), NEW rows, NEW emails, Ordered(nodes),
           NEW i \in DOMAIN nodes
    PROVE  SearchEmails(box, nodes, rows, emails)[i]
             = Filtered(box, nodes, rows, emails, SearchEmails(box, nodes, rows, emails), i)
<1> DEFINE found == SearchEmails(box, nodes, rows, emails)
<1>1. found = CHOOSE f : AllFound(box, nodes, rows, emails, f)
  BY Zenon DEF SearchEmails, AllFound
<1> HIDE DEF found
<1>2. AllFound(box, nodes, rows, emails, found)
  BY <1>1, FoundExists, Zenon
<1> QED
  BY <1>2 DEF found, AllFound

AllMatched(table, box, nodes, u, f) ==
    f = [i \in DOMAIN nodes |-> Meets(table, box, nodes, f, u, i)]

LEMMA MatchesExists ==
    ASSUME NEW table, NEW box, NEW nodes \in Seq(Node), NEW u, Ordered(nodes)
    PROVE  \E f : AllMatched(table, box, nodes, u, f)
<1> DEFINE n == Len(nodes)
           Value(f, i) == Meets(table, box, nodes, f, u, i)
           T == {m \in 0..n : ~ \E f : f = [i \in (n + 1 - m)..n |-> Value(f, i)]}
<1>0. n \in Nat /\ n \in 0..n /\ DOMAIN nodes = (n + 1 - n)..n
  OBVIOUS
<1>1. SUFFICES ASSUME T # {} PROVE FALSE
  BY <1>0, Zenon DEF AllMatched
<1>. T \subseteq Nat
  OBVIOUS
<1>2. PICK m \in T : \A l \in T : m <= l
  BY <1>1, Least, Zenon
<1>3. CASE m = 0
  <2>1. (n + 1 - m)..n = {}
    BY <1>0, <1>3
  <2> HIDE DEF Value
  <2>2. \A f : [i \in (n + 1 - m)..n |-> Value(f, i)] = [i \in {} |-> {}]
    BY <2>1
  <2> QED
    BY <1>2, <2>2
<1>4. CASE m # 0
  <2> DEFINE first == n + 1 - m
  <2>1. m - 1 \in 0..n /\ m - 1 \notin T /\ first \in Nat /\ first <= n /\ first >= 1
    <3>1. m \in 0..n
      BY <1>2
    <3> HIDE DEF T, n
    <3> QED
      BY <1>0, <1>2, <1>4, <3>1
  <2>2. n + 1 - (m - 1) = first + 1
    BY <1>0, <2>1
  <2>3. PICK f : f = [i \in (first + 1)..n |-> Value(f, i)]
    BY <2>1, <2>2
  <2> DEFINE h == [i \in first..n |-> IF i > first THEN f[i] ELSE Value(f, first)]
  <2>4. \A i \in first..n : h[i] = Value(f, i)
    <3> HIDE DEF Value
    <3>1. \A i \in (first + 1)..n : f[i] = Value(f, i)
      BY <2>3, Zenon
    <3>2. /\ \A i \in first..n : i > first => i \in (first + 1)..n
          /\ \A i \in first..n : ~(i > first) => i = first
      <4> HIDE DEF first, n
      <4> QED
        BY <1>0, <2>1
    <3>4. \A i \in first..n : h[i] = IF i > first THEN f[i] ELSE Value(f, first)
      OBVIOUS
    <3> HIDE DEF h, first, n
    <3> QED
      BY <3>1, <3>2, <3>4
  <2>5. \A i \in first..n : Value(h, i) = Value(f, i)
    <3>1. TAKE i \in first..n
    <3>2. i \in DOMAIN nodes /\ i \in Nat
      BY <1>0, <2>1
    <3>3. \A j \in Denied(nodes[i]) \union Sides(nodes[i]) : j \in first..n /\ j > first
      BY <1>0, <2>1, <3>2 DEF Ordered
    <3> HIDE DEF Value
    <3>4. \A j \in Denied(nodes[i]) \union Sides(nodes[i]) : h[j] = f[j]
      BY <3>3
    <3> USE DEF Value
    <3> HIDE DEF h
    <3> QED
      BY <3>4, MeetsLocal
  <2> HIDE DEF Value
  <2>6. h = [i \in first..n |-> Value(h, i)]
    BY <2>4, <2>5
  <2> QED
    BY <1>2, <2>6
<1> QED
  BY <1>3, <1>4

LEMMA MatchesIs ==
    ASSUME NEW table, NEW box, NEW nodes \in Seq(Node), NEW u, Ordered(nodes),
           NEW i \in DOMAIN nodes
    PROVE  Matches(table, box, nodes, u)[i]
             = Meets(table, box, nodes, Matches(table, box, nodes, u), u, i)
<1> DEFINE matches == Matches(table, box, nodes, u)
<1>1. matches = CHOOSE f : AllMatched(table, box, nodes, u, f)
  BY Zenon DEF Matches, AllMatched
<1> HIDE DEF matches
<1>2. AllMatched(table, box, nodes, u, matches)
  BY <1>1, MatchesExists, Zenon
<1> QED
  BY <1>2 DEF matches, AllMatched

-----------------------------------------------------------------------------
\* One node of a search: if those below it found the row exactly if they mean it, so
\* does the node itself

\* Criteria that the code gives their meaning, for one node.
PlainNode(k) ==
    /\ \A s1, s2 \in k.uids : s1 = s2
    /\ \A s1, s2 \in k.seqs : s1 = s2
    /\ k.flags \union k.notFlags \subseteq {"seen"}
    /\ \A h \in k.header : h[1] \in Field
    /\ \A w \in k.text, m \in Mail, f \in {"reply-to", "sender"} : w \notin Content[m].header[f]
    /\ Len(k.or) <= 1

\* A date key is compared as the days are, if both zones have the time on the same side.
LEMMA DayIs ==
    ASSUME NEW x \in Nat, NEW y \in Nat,
           y = 0 \/ (Day(x) >= Day(y) <=> Day(x + Local) >= Day(y))
    PROVE  /\ (y # 0 => x >= truncateToDate(y)) <=> y = 0 \/ Day(x + Local) >= Day(y)
           /\ (y # 0 => x < truncateToDate(y))
                <=> y = 0 \/ ~(y = 0 \/ Day(x + Local) >= Day(y))
<1>1. /\ x >= truncateToDate(y) <=> Day(x) >= Day(y)
      /\ x < truncateToDate(y) <=> ~(Day(x) >= Day(y))
  BY DEF truncateToDate, Day
<1> QED
  BY <1>1

\* One set at most has all numbers the key means, if '*' does not stand for the last one.
LEMMA SetsAre ==
    ASSUME NEW sets, \A s1, s2 \in sets : s1 = s2, NEW n, NEW isLast,
           isLast => \A s \in sets : \A r \in s : r.to = 0 => Within(n, r)
    PROVE  (sets # {} => \E s \in sets : Contains(s, n)) <=> \A s \in sets : Has(s, n, isLast)
<1>1. \A s \in sets : Contains(s, n) <=> Has(s, n, isLast)
  BY Zenon DEF Contains, Has
<1> QED
  BY <1>1

LEMMA ContentIs ==
    ASSUME NEW m \in Mail
    PROVE  /\ Content[m].stored \in Nat /\ Content[m].sent \in Nat /\ Content[m].size \in Nat
           /\ Content[m].header \in [Field -> SUBSET Word] /\ Content[m].body \in SUBSET Word
<1>1. Content[m] \in [stored : Nat, sent : Nat, size : Nat,
                      header : [Field -> SUBSET Word], body : SUBSET Word]
  BY SearchAssumption
<1> QED
  BY <1>1

\* The dates, sizes, headers and texts that are asked for mean what the code looks at.
LEMMA TextIs ==
    ASSUME NEW m \in Mail, NEW k \in Node, PlainNode(k), SameDays(m, k)
    PROVE  matchesEmailCriteria(m, k) <=> Means(m, k)
<1> DEFINE c == Content[m]
<1>0. /\ k.since \in Nat /\ k.before \in Nat /\ k.sentSince \in Nat /\ k.sentBefore \in Nat
      /\ k.larger \in Nat /\ k.smaller \in Nat
  BY DEF Node
<1>1. /\ c.stored \in Nat /\ c.sent \in Nat /\ c.size \in Nat
      /\ c.header \in [Field -> SUBSET Word] /\ c.body \in SUBSET Word
  BY ContentIs
<1> HIDE DEF c
<1> DEFINE agree(tick, d) == d = 0 \/ (Day(tick) >= Day(d) <=> Day(tick + Local) >= Day(d))
<1>1a. /\ agree(c.stored, k.since) /\ agree(c.stored, k.before)
      /\ agree(c.sent, k.sentSince) /\ agree(c.sent, k.sentBefore)
  BY Zenon DEF SameDays, c
<1>2. /\ (k.since # 0 => c.stored >= truncateToDate(k.since))
           <=> (k.since = 0 \/ Day(c.stored + Local) >= Day(k.since))
      /\ (k.sentSince # 0 => c.sent >= truncateToDate(k.sentSince))
           <=> (k.sentSince = 0 \/ Day(c.sent + Local) >= Day(k.sentSince))
  BY <1>0, <1>1, <1>1a, DayIs
<1>3. /\ (k.before # 0 => c.stored < truncateToDate(k.before))
           <=> (k.before = 0 \/ ~(k.before = 0 \/ Day(c.stored + Local) >= Day(k.before)))
      /\ (k.sentBefore # 0 => c.sent < truncateToDate(k.sentBefore))
           <=> (k.sentBefore = 0 \/ ~(k.sentBefore = 0 \/ Day(c.sent + Local) >= Day(k.sentBefore)))
  BY <1>0, <1>1, <1>1a, DayIs
<1>4. (\A h \in k.header : matchesHeader(m, h[1], h[2])) <=> \A h \in k.header : h[2] \in c.header[h[1]]
  BY DEF matchesHeader, PlainNode, c
<1>5. (\A w \in k.body : matchesBody(m, w)) <=> k.body \subseteq c.body
  BY DEF matchesBody, c
<1>6. (\A w \in k.text : matchesText(m, w))
         <=> k.text \subseteq c.body \union UNION {c.header[f] : f \in Field}
  <2>1. \A w \in k.text : w \notin c.header["reply-to"] /\ w \notin c.header["sender"]
    BY DEF PlainNode, c
  <2>2. ASSUME NEW w \in k.text
        PROVE  matchesText(m, w) <=> w \in c.body \/ \E f \in Field : w \in c.header[f]
    BY <2>1 DEF matchesText, matchesBody, c
  <2> QED
    BY <2>2
<1> QED
  BY <1>2, <1>3, <1>4, <1>5, <1>6, Zenon DEF matchesEmailCriteria, Means, c

\* If nothing of the kind is asked for, every mail matches.
LEMMA TextUnasked ==
    ASSUME NEW m \in Mail, NEW k \in Node, ~needsEmailData(k)
    PROVE  Means(m, k)
<1>1. /\ k.since = 0 /\ k.before = 0 /\ k.sentSince = 0 /\ k.sentBefore = 0
      /\ k.larger = 0 /\ k.smaller = 0
      /\ k.header = {} /\ k.body = {} /\ k.text = {}
  BY DEF needsEmailData
<1> QED
  BY <1>1 DEF Means

\* No set of the node names the row by '*' alone.
NamesIt(k, u, base) ==
    IsLast(u, base) => /\ \A s \in k.uids : \A r \in s : r.to = 0 => Within(u, r)
                       /\ \A s \in k.seqs : \A r \in s : r.to = 0 => Within(Rank(u, base), r)

LEMMA NodeIs ==
    ASSUME NEW nodes \in Seq(Node), NEW box, NEW rows, NEW emails, NEW t, NEW i \in DOMAIN nodes,
           NEW u \in Uid, NEW found, NEW matches, PlainNode(nodes[i]),
           rows[i] \in [Uid -> Entry \union {Absent}],
           rows[i][u] = t[u], Rank(u, Inside(rows[i], box)) = Rank(u, Inside(t, box)),
           needsEmailData(nodes[i]) => emails[i].ok /\ emails[i].row[u] = t[u],
           t[u] # Absent => SameDays(t[u].mail, nodes[i]),
           NamesIt(nodes[i], u, Inside(t, box)),
           \A j \in Denied(nodes[i]) \union Sides(nodes[i]) : u \in found[j] <=> matches[j]
    PROVE  u \in Filtered(box, nodes, rows, emails, found, i)
             <=> Meets(t, box, nodes, matches, u, i)
<1> DEFINE k      == nodes[i]
           here   == u \in Inside(t, box)
           base   == Inside(rows[i], box)
           keyed  == filterBySeqNumSets(base, filterByUIDSets(base, k), k)
           texted == IF needsEmailData(k) THEN filterWithEmailData(emails[i], rows[i], keyed, k)
                     ELSE keyed
           noted  == applyNotCriteria(filterByFlags(rows[i], texted, k), {found[j] : j \in Denied(k)})
           ored   == applyOrCriteria(noted, {found[j] : j \in Sides(k)})
           is(f)  == IF f = "seen" THEN t[u].read ELSE t[u].status = "deleted"
<1>0. k \in Node /\ PlainNode(k)
  OBVIOUS
<1>1. u \in base <=> here
  BY DEF Inside
<1>2. here => t[u] \in Entry /\ t[u].mail \in Mail
  <2>1. here => t[u] # Absent
    BY DEF Inside
  <2> QED
    BY <2>1 DEF Entry
<1>2a. here => SameDays(t[u].mail, k)
  BY DEF Inside
<1>3. u \in keyed <=> /\ here
                      /\ \A s \in k.uids : Has(s, u, IsLast(u, Inside(t, box)))
                      /\ \A s \in k.seqs : Has(s, Rank(u, Inside(t, box)), IsLast(u, Inside(t, box)))
  <2> DEFINE isLast == IsLast(u, Inside(t, box))
             n      == Rank(u, Inside(t, box))
  <2>1. /\ \A s1, s2 \in k.uids : s1 = s2
        /\ \A s1, s2 \in k.seqs : s1 = s2
    BY <1>0 DEF PlainNode
  <2>2. isLast => /\ \A s \in k.uids : \A r \in s : r.to = 0 => Within(u, r)
                  /\ \A s \in k.seqs : \A r \in s : r.to = 0 => Within(n, r)
    BY Zenon DEF NamesIt
  <2>3. Rank(u, base) = n
    OBVIOUS
  <2> HIDE DEF base, here, isLast, n, k
  <2>4. (k.uids # {} => \E s \in k.uids : Contains(s, u)) <=> \A s \in k.uids : Has(s, u, isLast)
    BY <2>1, <2>2, SetsAre, Zenon
  <2>5. (k.seqs # {} => \E s \in k.seqs : Contains(s, n)) <=> \A s \in k.seqs : Has(s, n, isLast)
    BY <2>1, <2>2, SetsAre, Zenon
  <2>6. u \in keyed <=> /\ here
                        /\ k.uids # {} => \E s \in k.uids : Contains(s, u)
                        /\ k.seqs # {} => \E s \in k.seqs : Contains(s, n)
    BY <1>1, <2>3, Zenon DEF filterBySeqNumSets, filterByUIDSets
  <2> QED
    BY <2>4, <2>5, <2>6, Zenon DEF isLast, n
<1>4. u \in texted <=> u \in keyed /\ Means(t[u].mail, k)
  <2>0. u \in keyed => here
    BY <1>3
  <2> HIDE DEF keyed, here
  <2>1. CASE needsEmailData(k)
    <3>1. emails[i].ok /\ emails[i].row[u] = t[u] /\ rows[i][u] = t[u]
      BY <2>1
    <3>2. u \in filterWithEmailData(emails[i], rows[i], keyed, k)
             <=> u \in keyed /\ matchesEmailCriteria(t[u].mail, k)
      BY <3>1 DEF filterWithEmailData
    <3>3. u \in keyed => (matchesEmailCriteria(t[u].mail, k) <=> Means(t[u].mail, k))
      <4>1. u \in keyed => SameDays(t[u].mail, k)
        BY <1>2a, <2>0
      <4> QED
        BY <1>0, <1>2, <2>0, <4>1, TextIs
    <3> QED
      BY <2>1, <3>2, <3>3
  <2>2. CASE ~needsEmailData(k)
    BY <1>0, <1>2, <2>0, <2>2, TextUnasked
  <2> QED
    BY <2>1, <2>2
<1>5. u \in filterByFlags(rows[i], texted, k)
         <=> u \in texted /\ (\A f \in k.flags : is(f)) /\ (\A f \in k.notFlags : ~is(f))
  <2>1. \A f \in k.flags \union k.notFlags : hasFlag(rows[i][u], f) <=> is(f)
    BY DEF PlainNode, hasFlag
  <2> HIDE DEF texted, is
  <2> QED
    BY <2>1 DEF filterByFlags
<1>6. (\A n \in DOMAIN k.not : ~matches[k.not[n]]) <=> u \notin UNION {found[j] : j \in Denied(k)}
  BY DEF Denied
<1>7. u \in noted <=> /\ u \in filterByFlags(rows[i], texted, k)
                      /\ \A n \in DOMAIN k.not : ~matches[k.not[n]]
  <2> HIDE DEF texted
  <2> QED
    BY <1>6 DEF applyNotCriteria
<1>8. u \in ored <=> u \in noted /\ \A n \in DOMAIN k.or : matches[k.or[n][1]] \/ matches[k.or[n][2]]
  <2>1. k.or \in Seq(Nat \X Nat) /\ Len(k.or) <= 1
    BY <1>0 DEF Node, PlainNode
  <2> HIDE DEF noted
  <2>2. CASE Len(k.or) = 0
    <3>1. DOMAIN k.or = {}
      BY <2>1, <2>2
    <3>2. {found[j] : j \in Sides(k)} = {}
      BY <3>1 DEF Sides
    <3> QED
      BY <3>1, <3>2 DEF applyOrCriteria
  <2>3. CASE Len(k.or) = 1
    <3>1. DOMAIN k.or = {1}
      BY <2>1, <2>3
    <3>2. Sides(k) = {k.or[1][1], k.or[1][2]}
      BY <3>1 DEF Sides
    <3>3. {found[j] : j \in Sides(k)} = {found[k.or[1][1]], found[k.or[1][2]]}
      BY <3>2
    <3>4. /\ u \in found[k.or[1][1]] <=> matches[k.or[1][1]]
          /\ u \in found[k.or[1][2]] <=> matches[k.or[1][2]]
      BY <3>2
    <3>5. u \in UNION {found[j] : j \in Sides(k)} <=> matches[k.or[1][1]] \/ matches[k.or[1][2]]
      BY <3>3, <3>4
    <3>6. {found[j] : j \in Sides(k)} # {}
      BY <3>3
    <3> QED
      BY <3>1, <3>5, <3>6 DEF applyOrCriteria
  <2> HIDE DEF ored, k
  <2>4. Len(k.or) \in Nat
    BY <2>1, LenProperties
  <2>5. \A n \in Nat : n <= 1 => n = 0 \/ n = 1
    OBVIOUS
  <2>6. Len(k.or) = 0 \/ Len(k.or) = 1
    BY <2>1, <2>4, <2>5, Zenon
  <2> QED
    BY <2>2, <2>3, <2>6, Zenon
<1>9. u \in ored <=> Meets(t, box, nodes, matches, u, i)
  <2> HIDE DEF ored, noted, texted, keyed
  <2> QED
    BY <1>3, <1>4, <1>5, <1>7, <1>8, Zenon DEF Meets
<1>10. isEmptyCriteria(k) => (u \in base <=> Meets(t, box, nodes, matches, u, i))
  <2> SUFFICES ASSUME k = Key PROVE here <=> Meets(t, box, nodes, matches, u, i)
    BY <1>1 DEF isEmptyCriteria
  <2>1. /\ k.uids = {} /\ k.seqs = {} /\ k.flags = {} /\ k.notFlags = {}
        /\ k.not = <<>> /\ k.or = <<>> /\ ~needsEmailData(k)
    BY DEF Key, needsEmailData
  <2>2. here => Means(t[u].mail, k)
    BY <1>0, <1>2, <2>1, TextUnasked
  <2>3. DOMAIN k.not = {} /\ DOMAIN k.or = {}
    BY <2>1
  <2> QED
    BY <2>1, <2>2, <2>3, Zenon DEF Meets
<1> HIDE DEF ored
<1>11. Filtered(box, nodes, rows, emails, found, i) = IF isEmptyCriteria(k) THEN base ELSE ored
  BY Zenon DEF Filtered, ored
<1> HIDE DEF base, k
<1> QED
  BY <1>9, <1>10, <1>11

-----------------------------------------------------------------------------
\* The invariant of the searches

Table == [Uid -> Entry \union {Absent}]

\* The nodes have been read from the first on, each with its mails if it needs them
\* before the next.
Reading(q) ==
    /\ q.nodes \in Seq(Node) /\ Ordered(q.nodes)
    /\ q.rows \in Seq(Table) /\ Len(q.rows) <= Len(q.nodes)
    /\ DOMAIN q.emails \subseteq 1..Len(q.rows)
    /\ \A i \in DOMAIN q.emails : q.emails[i] \in [row : Table, ok : BOOLEAN]
    /\ \A i \in DOMAIN q.rows :
          i # Len(q.rows) /\ needsEmailData(q.nodes[i]) => i \in DOMAIN q.emails
    /\ q # None => q.rows # <<>>

ReadsInv ==
    /\ search \in [Client -> [box : Selected, nodes : Seq(Node), rows : Seq(Table),
                              emails : UNION {[ns -> [row : Table, ok : BOOLEAN]] : ns \in SUBSET Nat}]]
    /\ \A c \in Client : Reading(search[c])

LEMMA ReadsAreExact == ASSUME ReadsInv PROVE SearchIsExact
<1>1. SUFFICES ASSUME NEW c \in Client, NEW u \in Uid, Fair(c, u),
                      ZonesAgree(search[c].rows[1], search[c].nodes, u)
               PROVE  u \in Answer(c)
                        <=> Matches(search[c].rows[1], search[c].box, search[c].nodes, u)[1]
  BY Zenon DEF SearchIsExact, ExactFor
<1>1a. /\ Searching(c) /\ Complete(c) /\ Plain(search[c].nodes) /\ Steady(c, u)
       /\ \A i \in DOMAIN search[c].emails : search[c].emails[i].ok
       /\ Numbered(search[c].rows[1], search[c].box, search[c].nodes, u)
  BY <1>1, Zenon DEF Fair
<1> DEFINE q       == search[c]
           n       == Len(q.nodes)
           t       == q.rows[1]
           found   == SearchEmails(q.box, q.nodes, q.rows, q.emails)
           matches == Matches(t, q.box, q.nodes, u)
           T       == {m \in 0..(n - 1) : ~(u \in found[n - m] <=> matches[n - m])}
<1>2. /\ Reading(q) /\ n \in Nat /\ n # 0 /\ Len(q.rows) = n
      /\ DOMAIN q.nodes = 1..n /\ DOMAIN q.rows = 1..n
  <2>1. Reading(q) /\ q.rows # <<>> /\ Len(q.rows) = n
    BY <1>1a DEF ReadsInv, Reading, Searching, Complete
  <2> HIDE DEF q
  <2> QED
    BY <2>1, LenProperties, EmptySeq DEF Reading
<1>3. ASSUME NEW i \in 1..n
      PROVE  /\ PlainNode(q.nodes[i])
             /\ q.rows[i] \in Table /\ q.rows[i][u] = t[u]
             /\ Rank(u, Inside(q.rows[i], q.box)) = Rank(u, Inside(t, q.box))
             /\ needsEmailData(q.nodes[i]) => q.emails[i].ok /\ q.emails[i].row[u] = t[u]
             /\ t[u] # Absent => SameDays(t[u].mail, q.nodes[i])
             /\ NamesIt(q.nodes[i], u, Inside(t, q.box))
  <2>1. PlainNode(q.nodes[i])
    <3> HIDE DEF q
    <3> QED
      BY <1>1a, <1>2, Zenon DEF Plain, PlainNode, q
  <2>2. needsEmailData(q.nodes[i]) => i \in DOMAIN q.emails
    BY <1>1a, <1>2 DEF Complete, Awaiting, Reading
  <2>3. 1 \in DOMAIN q.rows /\ i \in DOMAIN q.rows
    BY <1>2
  <2>4. q.rows[i][u] = t[u] /\ Rank(u, Inside(q.rows[i], q.box)) = Rank(u, Inside(t, q.box))
    BY <1>1a, <2>3, Zenon DEF Steady
  <2>5. ASSUME i \in DOMAIN q.emails PROVE q.emails[i].ok /\ q.emails[i].row[u] = t[u]
    BY <1>1a, <2>3, <2>5, Zenon DEF Steady
  <2>6. /\ t[u] # Absent => SameDays(t[u].mail, q.nodes[i])
        /\ NamesIt(q.nodes[i], u, Inside(t, q.box))
    BY <1>1, <1>1a, <1>2, Zenon DEF ZonesAgree, Numbered, NamesIt
  <2> QED
    BY <1>2, <2>1, <2>2, <2>3, <2>4, <2>5, <2>6 DEF Reading
<1>4. ASSUME NEW i \in 1..n, \A j \in (i + 1)..n : u \in found[j] <=> matches[j]
      PROVE  u \in found[i] <=> matches[i]
  <2>1. q.nodes \in Seq(Node) /\ Ordered(q.nodes) /\ i \in DOMAIN q.nodes
    BY <1>2 DEF Reading
  <2>2. \A j \in Denied(q.nodes[i]) \union Sides(q.nodes[i]) : u \in found[j] <=> matches[j]
    BY <1>4, <2>1 DEF Ordered
  <2> HIDE DEF q, t
  <2>3. found[i] = Filtered(q.box, q.nodes, q.rows, q.emails, found, i)
    BY <2>1, FoundIs
  <2>4. matches[i] = Meets(t, q.box, q.nodes, matches, u, i)
    BY <2>1, MatchesIs
  <2> HIDE DEF found, matches
  <2>5. u \in Filtered(q.box, q.nodes, q.rows, q.emails, found, i)
           <=> Meets(t, q.box, q.nodes, matches, u, i)
    BY <1>3, <2>1, <2>2, NodeIs, Zenon DEF Table
  <2> QED
    BY <2>3, <2>4, <2>5, Zenon
<1> HIDE DEF q, t, found, matches
<1>5. SUFFICES ASSUME T # {} PROVE FALSE
  <2>1. T = {} => (u \in found[1] <=> matches[1])
    <3>1. n - 1 \in 0..(n - 1) /\ n - (n - 1) = 1
      BY <1>2
    <3> QED
      BY <3>1
  <2> HIDE DEF T
  <2> QED
    BY <2>1, Zenon DEF Answer, found, matches, t, q
<1>6. PICK m \in T : \A l \in T : m <= l
  <2>1. T \subseteq Nat
    BY <1>2
  <2> QED
    BY <1>5, <2>1, Least, Zenon
<1>7. \A j \in ((n - m) + 1)..n : u \in found[j] <=> matches[j]
  <2>1. TAKE j \in ((n - m) + 1)..n
  <2>2. n - j \in 0..(n - 1) /\ n - (n - j) = j /\ ~(m <= n - j)
    BY <1>2, <1>6
  <2> QED
    BY <1>6, <2>2
<1>8. n - m \in 1..n
  BY <1>2, <1>6
<1> QED
  BY <1>4, <1>6, <1>7, <1>8

\* One session's search changes.
LEMMA SearchChanges ==
    ASSUME ReadsInv, NEW c \in Client, NEW q, Reading(q), q.box \in Selected,
           q = [box |-> q.box, nodes |-> q.nodes, rows |-> q.rows, emails |-> q.emails],
           q.emails \in [DOMAIN q.emails -> [row : Table, ok : BOOLEAN]],
           search' = [search EXCEPT ![c] = q]
    PROVE  ReadsInv'
<1>1. q.nodes \in Seq(Node) /\ q.rows \in Seq(Table)
  BY DEF Reading
<1>2. DOMAIN q.emails \in SUBSET Nat
  BY <1>1, LenProperties DEF Reading
<1>3. q.emails \in UNION {[ns -> [row : Table, ok : BOOLEAN]] : ns \in SUBSET Nat}
  <2> DEFINE e == q.emails
  <2>1. e \in [DOMAIN e -> [row : Table, ok : BOOLEAN]] /\ DOMAIN e \in SUBSET Nat
    BY <1>2
  <2> HIDE DEF e
  <2>2. e \in UNION {[ns -> [row : Table, ok : BOOLEAN]] : ns \in SUBSET Nat}
    BY <2>1
  <2> QED
    BY <2>2 DEF e
<1>4. q \in [box : Selected, nodes : Seq(Node), rows : Seq(Table),
             emails : UNION {[ns -> [row : Table, ok : BOOLEAN]] : ns \in SUBSET Nat}]
  BY <1>1, <1>3
<1>5. search'[c] = q /\ \A d \in Client : d # c => search'[d] = search[d]
  BY DEF ReadsInv
<1>6. \A d \in Client : Reading(search'[d])
  BY <1>5 DEF ReadsInv
<1> QED
  BY <1>4, <1>6 DEF ReadsInv

LEMMA NoneIs ==
    /\ Reading(None)
    /\ None \in [box : Selected, nodes : Seq(Node), rows : Seq(Table),
                 emails : UNION {[ns -> [row : Table, ok : BOOLEAN]] : ns \in SUBSET Nat}]
<1>1. NoEmails \in [{} -> [row : Table, ok : BOOLEAN]] /\ DOMAIN NoEmails = {}
  BY DEF NoEmails
<1>2. NoEmails \in UNION {[ns -> [row : Table, ok : BOOLEAN]] : ns \in SUBSET Nat}
  BY <1>1
<1>3. Ordered(<<>>)
  BY DEF Ordered
<1> QED
  BY <1>1, <1>2, <1>3, MailboxAssumption DEF None, Reading, Selected

\* A search in progress has begun to read.
LEMMA SearchingIs ==
    ASSUME ReadsInv, NEW c \in Client, Searching(c)
    PROVE  LET q == search[c] IN
           /\ Reading(q) /\ q.box \in Selected
           /\ q.nodes \in Seq(Node) /\ q.rows \in Seq(Table)
           /\ q = [box |-> q.box, nodes |-> q.nodes, rows |-> q.rows, emails |-> q.emails]
           /\ q.emails \in [DOMAIN q.emails -> [row : Table, ok : BOOLEAN]]
           /\ Len(q.rows) \in 1..Len(q.nodes) /\ Len(q.nodes) \in Nat
<1> DEFINE q == search[c]
<1>1. q \in [box : Selected, nodes : Seq(Node), rows : Seq(Table),
             emails : UNION {[ns -> [row : Table, ok : BOOLEAN]] : ns \in SUBSET Nat}]
  BY DEF ReadsInv
<1>2. Reading(q) /\ q.rows # <<>>
  BY DEF ReadsInv, Reading, Searching
<1> HIDE DEF q
<1>3. /\ q = [box |-> q.box, nodes |-> q.nodes, rows |-> q.rows, emails |-> q.emails]
      /\ q.box \in Selected /\ q.nodes \in Seq(Node) /\ q.rows \in Seq(Table)
  BY <1>1
<1>4. q.emails \in [DOMAIN q.emails -> [row : Table, ok : BOOLEAN]]
  BY <1>1
<1>5. Len(q.rows) \in Nat /\ Len(q.nodes) \in Nat /\ Len(q.rows) # 0 /\ Len(q.rows) <= Len(q.nodes)
  BY <1>2, <1>3, LenProperties, EmptySeq DEF Reading
<1>6. Len(q.rows) \in 1..Len(q.nodes)
  BY <1>5
<1> QED
  BY <1>2, <1>3, <1>4, <1>5, <1>6 DEF q

LEMMA SearchStartStep ==
    ASSUME IInv, ReadsInv, NEW c \in Client, SearchStart(c)
    PROVE  IInv' /\ ReadsInv'
<1>1. IInv'
  <2>1. RowStep
    BY StillIs, RowFacts DEF IInv, SearchStart
  <2> QED
    BY <2>1, Unchanged, OthersKeepAll DEF SearchStart
<1>2. PICK box \in Selected, s \in Criteria :
          search' = [search EXCEPT ![c] = [box |-> box, nodes |-> s, rows |-> <<row>>,
                                           emails |-> NoEmails]]
  BY DEF SearchStart
<1> DEFINE q == [box |-> box, nodes |-> s, rows |-> <<row>>, emails |-> NoEmails]
<1>3. s \in Seq(Node) /\ s # <<>> /\ Ordered(s)
  BY SearchAssumption DEF Ordered
<1>4. row \in Table
  BY DEF IInv, TypeOK, Table
<1>5. <<row>> \in Seq(Table) /\ Len(<<row>>) = 1 /\ DOMAIN <<row>> = {1} /\ <<row>> # <<>>
  BY <1>4
<1>6. Len(s) \in Nat /\ Len(s) >= 1
  <2>1. Len(s) \in Nat /\ Len(s) # 0
    BY <1>3, LenProperties, EmptySeq
  <2> QED
    BY <2>1
<1>7. NoEmails \in [{} -> [row : Table, ok : BOOLEAN]] /\ DOMAIN NoEmails = {}
  BY DEF NoEmails
<1>8. Reading(q)
  BY <1>3, <1>5, <1>6, <1>7 DEF Reading
<1>9. q.emails \in [DOMAIN q.emails -> [row : Table, ok : BOOLEAN]]
  BY <1>7
<1>10. ReadsInv'
  BY <1>2, <1>8, <1>9, SearchChanges
<1> QED
  BY <1>1, <1>10

LEMMA SearchMailsStep ==
    ASSUME IInv, ReadsInv, NEW c \in Client, SearchMails(c)
    PROVE  ReadsInv'
<1> DEFINE q == search[c]
           n == Len(q.rows)
<1>1. PICK ok \in BOOLEAN : search' = [search EXCEPT ![c].emails =
              [i \in DOMAIN @ \union {n} |-> IF i \in DOMAIN @ THEN @[i] ELSE [row |-> row, ok |-> ok]]]
  BY DEF SearchMails
<1> DEFINE more == [i \in DOMAIN q.emails \union {n} |->
                       IF i \in DOMAIN q.emails THEN q.emails[i] ELSE [row |-> row, ok |-> ok]]
           next == [box |-> q.box, nodes |-> q.nodes, rows |-> q.rows, emails |-> more]
<1>2. /\ Reading(q) /\ q.box \in Selected /\ q.nodes \in Seq(Node) /\ q.rows \in Seq(Table)
      /\ q = [box |-> q.box, nodes |-> q.nodes, rows |-> q.rows, emails |-> q.emails]
      /\ n \in 1..Len(q.nodes) /\ Len(q.nodes) \in Nat
  BY SearchingIs DEF SearchMails
<1>3. search' = [search EXCEPT ![c] = next]
  <2>1. search' = [search EXCEPT ![c] = [q EXCEPT !.emails = more]]
    BY <1>1
  <2> HIDE DEF q, more
  <2>2. [q EXCEPT !.emails = more] = next
    BY <1>2
  <2> QED
    BY <2>1, <2>2
<1>4. row \in Table
  BY DEF IInv, TypeOK, Table
<1> HIDE DEF q
<1>5. /\ DOMAIN more = DOMAIN q.emails \union {n}
      /\ \A i \in DOMAIN more : more[i] \in [row : Table, ok : BOOLEAN]
  BY <1>2, <1>4 DEF Reading
<1>6. more \in [DOMAIN more -> [row : Table, ok : BOOLEAN]]
  <2>1. more = [i \in DOMAIN more |-> more[i]]
    OBVIOUS
  <2> HIDE DEF more
  <2> QED
    BY <1>5, <2>1
<1> HIDE DEF more
<1>7. n \in 1..n
  BY <1>2
<1>8. q.rows # <<>>
  BY <1>2, EmptySeq
<1>9. Reading(next)
  BY <1>2, <1>5, <1>7, <1>8 DEF Reading
<1> QED
  BY <1>2, <1>3, <1>6, <1>9, SearchChanges

LEMMA SearchRowsStep ==
    ASSUME IInv, ReadsInv, NEW c \in Client, SearchRows(c)
    PROVE  ReadsInv'
<1> DEFINE q    == search[c]
           n    == Len(q.rows)
           more == Append(q.rows, row)
           next == [box |-> q.box, nodes |-> q.nodes, rows |-> more, emails |-> q.emails]
<1>1. /\ Reading(q) /\ q.box \in Selected /\ q.nodes \in Seq(Node) /\ q.rows \in Seq(Table)
      /\ q = [box |-> q.box, nodes |-> q.nodes, rows |-> q.rows, emails |-> q.emails]
      /\ q.emails \in [DOMAIN q.emails -> [row : Table, ok : BOOLEAN]]
      /\ n \in 1..Len(q.nodes) /\ Len(q.nodes) \in Nat
  BY SearchingIs DEF SearchRows
<1>2. search' = [search EXCEPT ![c] = next]
  <2>1. search' = [search EXCEPT ![c] = [q EXCEPT !.rows = more]]
    BY DEF SearchRows
  <2> HIDE DEF q, more
  <2>2. [q EXCEPT !.rows = more] = next
    BY <1>1
  <2> QED
    BY <2>1, <2>2
<1>3. row \in Table
  BY DEF IInv, TypeOK, Table
<1>4. n < Len(q.nodes) /\ (needsEmailData(q.nodes[n]) => n \in DOMAIN q.emails)
  BY DEF SearchRows, Awaiting
<1> HIDE DEF q
<1>5. more \in Seq(Table) /\ Len(more) = n + 1 /\ more # <<>>
  BY <1>1, <1>3
<1>6. DOMAIN more = 1..(n + 1) /\ DOMAIN q.rows = 1..n /\ n \in Nat
  BY <1>1, <1>5, LenProperties
<1> HIDE DEF more
<1>7. \A i \in DOMAIN more : i # Len(more) => i \in DOMAIN q.rows /\ (i # n \/ i = n)
  BY <1>5, <1>6
<1>8. \A i \in DOMAIN more :
          i # Len(more) /\ needsEmailData(q.nodes[i]) => i \in DOMAIN q.emails
  BY <1>1, <1>4, <1>7 DEF Reading
<1>9. 1..n \subseteq 1..(n + 1) /\ n + 1 <= Len(q.nodes)
  BY <1>1, <1>4, <1>6
<1>10. Reading(next)
  BY <1>1, <1>5, <1>8, <1>9 DEF Reading
<1> QED
  BY <1>1, <1>2, <1>10, SearchChanges

LEMMA SearchAnswerStep ==
    ASSUME ReadsInv, NEW c \in Client, SearchAnswer(c)
    PROVE  ReadsInv'
<1>1. search' = [search EXCEPT ![c] = None]
  BY DEF SearchAnswer
<1>2. \A d \in Client : Reading(search'[d])
  BY <1>1, NoneIs DEF ReadsInv
<1> QED
  BY <1>1, <1>2, NoneIs DEF ReadsInv

LEMMA SearchInvStep == ASSUME IInv, ReadsInv, [SearchNext]_searchVars PROVE IInv' /\ ReadsInv'
<1>1. ASSUME UNCHANGED search PROVE ReadsInv'
  BY <1>1 DEF ReadsInv
<1>2. ASSUME UNCHANGED vars PROVE IInv'
  BY <1>2, NextInv
<1>3. ASSUME NEW c \in Client, SearchStart(c) PROVE IInv' /\ ReadsInv'
  BY <1>3, SearchStartStep
<1>4. ASSUME NEW c \in Client, SearchMails(c) \/ SearchRows(c) \/ SearchAnswer(c)
      PROVE  IInv' /\ ReadsInv'
  BY <1>2, <1>4, SearchMailsStep, SearchRowsStep, SearchAnswerStep
     DEF SearchMails, SearchRows, SearchAnswer
<1>5. ASSUME NEW c \in Client, Session(c), UNCHANGED search PROVE IInv' /\ ReadsInv'
  BY <1>1, <1>5, NextInv DEF Next
<1>6. ASSUME Others, UNCHANGED search PROVE IInv' /\ ReadsInv'
  BY <1>1, <1>6, NextInv DEF Next
<1> QED
  BY <1>1, <1>2, <1>3, <1>4, <1>5, <1>6 DEF SearchNext, searchVars

LEMMA SearchInitInv == ASSUME SearchInit PROVE IInv /\ ReadsInv
<1>1. IInv
  BY InitInv DEF SearchInit
<1>2. ReadsInv
  BY NoneIs DEF SearchInit, ReadsInv
<1> QED
  BY <1>1, <1>2

-----------------------------------------------------------------------------
\* Searches keep it too, and every node has read the table before the next one does.
THEOREM SearchInvariance == SearchSpec => [](IInv /\ ReadsInv)
<1>1. SearchInit => IInv /\ ReadsInv
  BY SearchInitInv
<1>2. IInv /\ ReadsInv /\ [SearchNext]_searchVars => (IInv /\ ReadsInv)'
  BY SearchInvStep
<1> QED
  BY <1>1, <1>2, PTL DEF SearchSpec

\* With searches among the commands, everything that is said of the others still holds.
THEOREM SearchesDisturbNothing ==
    SearchSpec => [](TypeOK /\ WrongHitIsExplained /\ KeptIsExplained /\ InboxIsCommanded)
<1>1. IInv => TypeOK /\ WrongHitIsExplained /\ KeptIsExplained /\ InboxIsCommanded
  BY DEF IInv
<1> QED
  BY <1>1, SearchInvariance, PTL

\* However deep its criteria and however the table changes while the nodes read it one
\* after the other, a search that lost no statement finds a message that stood still
\* exactly if its criteria mean it; UTC and the server's zone agree about its days, and
\* no set names it by '*' alone.
THEOREM SearchesAreExact == SearchSpec => []SearchIsExact
<1>1. ReadsInv => SearchIsExact
  BY ReadsAreExact
<1> QED
  BY <1>1, SearchInvariance, PTL
=============================================================================
