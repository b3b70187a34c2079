------------------------------- MODULE Search -------------------------------
(***************************************************************************)
(* IMAP SEARCH on top of Mailbox.  The criteria are a tree; every node of  *)
(* the tree reads the table again, so that one search is a sequence of     *)
(* statements between which the other users of the table go on.            *)
(*                                                                         *)
(* A search is the sequence of its nodes, in the order in which the code   *)
(* comes to them: a node before those below it, which it names by their    *)
(* positions.                                                              *)
(***************************************************************************)
EXTENDS Mailbox

CONSTANTS Criteria,  \* the searches of the instance
          Word,      \* texts a search may ask for, whatever their case
          Content    \* of each mail: when it was stored and marked as sent, its size,
                     \* and the words of its header fields and of its text and HTML

Field == {"subject", "from", "to", "cc", "bcc", "reply-to", "sender"}

\* A set that is empty, or the time or size 0, stands for a key that is not given; the
\* same key may be given several sets of ranges.  Times count ticks of eight hours, and
\* the days of the keys begin at midnight UTC
Key == [uids |-> {}, seqs |-> {}, since |-> 0, before |-> 0, sentSince |-> 0, sentBefore |-> 0,
        larger |-> 0, smaller |-> 0, header |-> {}, body |-> {}, text |-> {},
        flags |-> {}, notFlags |-> {}, not |-> <<>>, or |-> <<>>]

NumRange == {r \in [from : Nat, to : Nat] : r.to = 0 \/ (0 < r.from /\ r.from <= r.to)}

Node == [uids : SUBSET SUBSET NumRange, seqs : SUBSET SUBSET NumRange, since : Nat, before : Nat, sentSince : Nat,
         sentBefore : Nat, larger : Nat, smaller : Nat, header : SUBSET (STRING \X Word),
         body : SUBSET Word, text : SUBSET Word, flags : SUBSET STRING,
         notFlags : SUBSET STRING, not : Seq(Nat), or : Seq(Nat \X Nat)]

\* The criteria that are searched for the NOTs and ORs of a node
Denied(k) == {k.not[i] : i \in DOMAIN k.not}
Sides(k)  == {k.or[i][1] : i \in DOMAIN k.or} \union {k.or[i][2] : i \in DOMAIN k.or}

ASSUME SearchAssumption ==
    /\ Content \in [Mail -> [stored : Nat, sent : Nat, size : Nat,
                            header : [Field -> SUBSET Word], body : SUBSET Word]]
    /\ \A s \in Criteria :
          /\ s \in Seq(Node) /\ s # <<>>
          /\ \A i \in DOMAIN s : Denied(s[i]) \union Sides(s[i]) \subseteq (i + 1)..Len(s)

VARIABLE search      \* the search of each session: its nodes, the rows that each has
                     \* read, and the mails that those which need them have

searchVars == <<vars, search>>

NoEmails == [i \in {} |-> {}]
None    == [box |-> "inbox", nodes |-> <<>>, rows |-> <<>>, emails |-> NoEmails]

isEmptyCriteria(k) == k = Key

\* A date, a size, a header or a text is asked for
needsEmailData(k) ==
    \/ k.since # 0 \/ k.before # 0 \/ k.sentSince # 0 \/ k.sentBefore # 0
    \/ k.larger # 0 \/ k.smaller # 0
    \/ k.header # {} \/ k.body # {} \/ k.text # {}

\* The library: '*' is in no set, and n:* has every number from n on
Contains(s, n) == \E r \in s : Within(n, r)

\* Of several sets one is enough
filterByUIDSets(rows, k) ==
    {u \in rows : k.uids # {} => \E s \in k.uids : Contains(s, u)}

\* Numbers are those of the whole mailbox
filterBySeqNumSets(base, rows, k) ==
    {u \in rows : k.seqs # {} => \E s \in k.seqs : Contains(s, Rank(u, base))}

\* The status is not selected: of the flags only Seen is ever found
hasFlag(e, flag) == flag = "seen" /\ e.read

filterByFlags(table, rows, k) ==
    {u \in rows : /\ \A f \in k.flags : hasFlag(table[u], f)
                  /\ \A f \in k.notFlags : ~hasFlag(table[u], f)}

\* Midnight in the zone of the key
truncateToDate(tick) == tick - (tick % 3)

\* Any other header is not stored and never matches
matchesHeader(m, field, word) == field \in Field /\ word \in Content[m].header[field]

matchesBody(m, word) == word \in Content[m].body

\* Reply-To and Sender are not looked at
matchesText(m, word) ==
    \/ \E f \in Field \ {"reply-to", "sender"} : word \in Content[m].header[f]
    \/ matchesBody(m, word)

\* Times are compared as instants
matchesEmailCriteria(m, k) ==
    /\ k.since # 0 => Content[m].stored >= truncateToDate(k.since)
    /\ k.before # 0 => Content[m].stored < truncateToDate(k.before)
    /\ k.sentSince # 0 => Content[m].sent >= truncateToDate(k.sentSince)
    /\ k.sentBefore # 0 => Content[m].sent < truncateToDate(k.sentBefore)
    /\ k.larger # 0 => Content[m].size > k.larger
    /\ k.smaller # 0 => Content[m].size < k.smaller
    /\ \A h \in k.header : matchesHeader(m, h[1], h[2])
    /\ \A w \in k.body : matchesBody(m, w)
    /\ \A w \in k.text : matchesText(m, w)

\* The mails of the rows are read in a statement of their own; if it fails the
\* rows stay as they are
filterWithEmailData(read, table, rows, k) ==
    IF ~read.ok THEN rows
    ELSE {u \in rows : /\ matchesEmailCriteria(table[u].mail, k)
                       /\ \E v \in Uid : read.row[v].mail = table[u].mail}

applyNotCriteria(rows, found) == rows \ UNION found

\* mutant: what the other keys excluded comes back
applyOrCriteria_Loose(rows, found) == IF found = {} THEN rows ELSE UNION found

\* What any side of any OR finds stays
applyOrCriteria(rows, found) == IF found = {} THEN rows ELSE rows \intersect UNION found

\* SearchEmails for the i-th node, given what the nodes below it found
Filtered(box, nodes, rows, emails, found, i) ==
    LET k      == nodes[i]
        base   == Inside(rows[i], box)
        keyed  == filterBySeqNumSets(base, filterByUIDSets(base, k), k)
        texted == IF needsEmailData(k) THEN filterWithEmailData(emails[i], rows[i], keyed, k)
                  ELSE keyed
        noted  == applyNotCriteria(filterByFlags(rows[i], texted, k), {found[j] : j \in Denied(k)})
    IN  IF isEmptyCriteria(k) THEN base ELSE applyOrCriteria(noted, {found[j] : j \in Sides(k)})

\* What each node finds
SearchEmails(box, nodes, rows, emails) ==
    LET found[i \in DOMAIN nodes] == Filtered(box, nodes, rows, emails, found, i) IN found

-----------------------------------------------------------------------------
SearchInit == Init /\ search = [c \in Client |-> None]

Searching(c) == search[c] # None

SearchStart(c) ==
    /\ cmd[c].act = "idle" /\ ~Searching(c) /\ told[c] = NotTold
    /\ Request
    /\ \E box \in Selected, s \in Criteria :
          search' = [search EXCEPT ![c] = [box |-> box, nodes |-> s, rows |-> <<row>>,
                                           emails |-> NoEmails]]
    /\ UNCHANGED <<row, last, mails, cmd, told, pop, web, pending, placed, wrong, kept>>

\* The node that is searched needs its mails
Awaiting(c) ==
    LET n == Len(search[c].rows)
    IN  needsEmailData(search[c].nodes[n]) /\ n \notin DOMAIN search[c].emails

\* The statement that reads them may fail, and nobody is told
SearchMails(c) ==
    /\ Searching(c) /\ Awaiting(c)
    /\ \E ok \in BOOLEAN :
          search' = [search EXCEPT ![c].emails =
              [i \in DOMAIN @ \union {Len(search[c].rows)} |->
                  IF i \in DOMAIN @ THEN @[i] ELSE [row |-> row, ok |-> ok]]]
    /\ UNCHANGED vars

\* The next node reads the mailbox.  (Below a node whose own listing was empty the code
\* reads nothing, and nothing comes of it here.)
SearchRows(c) ==
    /\ Searching(c) /\ ~Awaiting(c) /\ Len(search[c].rows) < Len(search[c].nodes)
    /\ search' = [search EXCEPT ![c].rows = Append(@, row)]
    /\ UNCHANGED vars

Complete(c) == Len(search[c].rows) = Len(search[c].nodes) /\ ~Awaiting(c)

SearchAnswer(c) ==
    /\ Searching(c) /\ Complete(c)
    /\ search' = [search EXCEPT ![c] = None]
    /\ UNCHANGED vars

SearchNext ==
    \/ \E c \in Client : SearchStart(c) \/ SearchMails(c) \/ SearchRows(c) \/ SearchAnswer(c)
    \/ \E c \in Client : ~Searching(c) /\ Session(c) /\ UNCHANGED search
    \/ Others /\ UNCHANGED search

SearchSpec == SearchInit /\ [][SearchNext]_searchVars

-----------------------------------------------------------------------------
\* What the keys of a mail mean: dates are days, whatever the time and the zone; a text
\* is anywhere in the mail
Day(tick) == tick \div 3

\* The server's own zone is UTC+8
Local == 1

Means(m, k) ==
    LET c == Content[m]
        day(key, tick) == k[key] = 0 \/ Day(tick + Local) >= Day(k[key])
    IN  /\ day("since", c.stored) /\ day("sentSince", c.sent)
        /\ k.before = 0 \/ ~day("before", c.stored)
        /\ k.sentBefore = 0 \/ ~day("sentBefore", c.sent)
        /\ k.larger = 0 \/ c.size > k.larger
        /\ k.smaller = 0 \/ c.size < k.smaller
        /\ \A h \in k.header : h[2] \in c.header[h[1]]
        /\ k.body \subseteq c.body
        /\ k.text \subseteq c.body \union UNION {c.header[f] : f \in Field}

\* What a set of ranges means: '*' is the last message, and so n:* always has it
Has(s, n, isLast) == \E r \in s : Within(n, r) \/ (r.to = 0 /\ isLast)

IsLast(u, base) == \A v \in base : v <= u

\* What the i-th node means for one row of a table that stands still
Meets(table, box, nodes, matches, u, i) ==
    LET k     == nodes[i]
        base  == Inside(table, box)
        is(f) == IF f = "seen" THEN table[u].read ELSE table[u].status = "deleted"
    IN  /\ u \in base
        /\ \A s \in k.uids : Has(s, u, IsLast(u, base))
        /\ \A s \in k.seqs : Has(s, Rank(u, base), IsLast(u, base))
        /\ Means(table[u].mail, k)
        /\ \A f \in k.flags : is(f)
        /\ \A f \in k.notFlags : ~is(f)
        /\ \A n \in DOMAIN k.not : ~matches[k.not[n]]
        /\ \A n \in DOMAIN k.or : matches[k.or[n][1]] \/ matches[k.or[n][2]]

Matches(table, box, nodes, u) ==
    LET matches[i \in DOMAIN nodes] == Meets(table, box, nodes, matches, u, i) IN matches

\* Criteria the code gives their meaning: one set of UIDs and one of numbers, no flag
\* but Seen, no header it does not store, no text that is in a Reply-To or Sender, at
\* most one OR per node
Plain(nodes) ==
    \A i \in DOMAIN nodes : LET k == nodes[i] IN
        /\ \A s, t \in k.uids : s = t
        /\ \A s, t \in k.seqs : s = t
        /\ k.flags \union k.notFlags \subseteq {"seen"}
        /\ \A h \in k.header : h[1] \in Field
        /\ \A w \in k.text, m \in Mail, f \in {"reply-to", "sender"} : w \notin Content[m].header[f]
        /\ Len(k.or) <= 1

\* UTC and the server's zone agree whether a mail lies before the days that are asked for
SameDays(m, k) ==
    LET c == Content[m]
        agree(tick, d) == d = 0 \/ (Day(tick) >= Day(d) <=> Day(tick + Local) >= Day(d))
    IN  /\ agree(c.stored, k.since) /\ agree(c.stored, k.before)
        /\ agree(c.sent, k.sentSince) /\ agree(c.sent, k.sentBefore)

ZonesAgree(table, nodes, u) ==
    table[u] # Absent => \A i \in DOMAIN nodes : SameDays(table[u].mail, nodes[i])

\* No set names the row by '*' alone
Numbered(table, box, nodes, u) ==
    LET base == Inside(table, box)
    IN  IsLast(u, base) => \A i \in DOMAIN nodes :
            /\ \A s \in nodes[i].uids : \A r \in s : r.to = 0 => Within(u, r)
            /\ \A s \in nodes[i].seqs : \A r \in s : r.to = 0 => Within(Rank(u, base), r)

\* The search of c saw the same row under the same number in every statement
Steady(c, u) ==
    LET q    == search[c]
        sees == {q.rows[i] : i \in DOMAIN q.rows} \union {q.emails[i].row : i \in DOMAIN q.emails}
    IN  \A t1, t2 \in sees : /\ t1[u] = t2[u]
                             /\ Rank(u, Inside(t1, q.box)) = Rank(u, Inside(t2, q.box))

\* The first node is that of the search itself
Answer(c) == LET q == search[c] IN SearchEmails(q.box, q.nodes, q.rows, q.emails)[1]

\* The row u is found exactly if it matches
ExactFor(c, u) ==
    LET q == search[c]
    IN  u \in Answer(c) <=> Matches(q.rows[1], q.box, q.nodes, u)[1]

\* The search of c has all it asked for, its criteria have their meaning, and the row u
\* stood still under a number that the criteria name
Fair(c, u) ==
    LET q == search[c]
    IN  /\ Searching(c) /\ Complete(c) /\ Plain(q.nodes)
        /\ \A i \in DOMAIN q.emails : q.emails[i].ok
        /\ Steady(c, u) /\ Numbered(q.rows[1], q.box, q.nodes, u)

\* However the table changes while a search reads it again and again, a message that
\* did not change is found exactly if it matches, and if no statement failed; for
\* several sets of one key, for the last message named by '*', for flags that are not
\* loaded, for several ORs, and for a day that is another one in UTC than in the
\* server's zone the code finds something else
SearchIsExact ==
    \A c \in Client, u \in Uid :
        Fair(c, u) /\ ZonesAgree(search[c].rows[1], search[c].nodes, u) => ExactFor(c, u)
=============================================================================
