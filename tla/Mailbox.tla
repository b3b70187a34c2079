------------------------------ MODULE Mailbox ------------------------------
(***************************************************************************)
(* The relations of one user as the protocols show them: IMAP sessions     *)
(* that name messages by sequence number or UID, a POP3 session that names *)
(* them by mail, web requests that read them, and the rules that place a   *)
(* mail after it has arrived.  All of them work on the table user_email    *)
(* statement by statement; no session keeps a view of its own, so what a   *)
(* number or a UID range means is decided again by every statement.        *)
(*                                                                         *)
(* A row is identified by its id, which IMAP calls the UID.  The one       *)
(* folder of the instance is group_id 1; 0 is no folder.                   *)
(***************************************************************************)
EXTENDS Naturals, Sequences, FiniteSets, FiniteSetsExt

CONSTANTS Client,      \* IMAP sessions of the user
          Box,         \* the default mailboxes, named by their status
          Rule,        \* the actions of the user's rules, in the order of the table
          Status,      \* the status a mail came with: plugins and forged senders choose it
          MaxMail,     \* bound: mails in all
          MaxUid,      \* bound: relations in all
          MaxCommand,  \* bound: changing commands and requests in all
          Start        \* the relations at the start, one sequence per initial state

Mail     == 1..MaxMail
Uid      == 1..MaxUid
Entry    == [mail : Mail, status : Box, folder : 0..1, read : BOOLEAN]
Absent   == [mail |-> 0, status |-> "absent", folder |-> 0, read |-> FALSE]
Selected == Box \union {"folder"}

ASSUME MailboxAssumption ==
    /\ {"inbox", "deleted"} \subseteq Box
    /\ Rule \in Seq({"read", "delete", "file", "sent"} \union Box)
    /\ Status \in [Mail -> Box]
    /\ MaxMail \in Nat /\ MaxUid \in Nat /\ MaxCommand \in Nat
    /\ Start \subseteq Seq(Entry) /\ \A s \in Start : Len(s) <= MaxUid

VARIABLES
    row,      \* the table: each id given out or to come
    last,     \* the last id given out
    mails,    \* the last mail that arrived
    cmd,      \* the command each IMAP session is executing
    told,     \* what an IMAP session was told last: which number is which UID
    pop,      \* the POP3 session
    web,      \* the rows that web requests have looked up and will write
    pending,  \* mails that have arrived and the rules still to run on them
    issued,   \* commands and requests so far
    placed,   \* history: where the last command put each relation
    wrong,    \* history: why commands took messages they did not name
    kept      \* history: why commands left messages they did name

vars == <<row, last, mails, cmd, told, pop, web, pending, issued, placed, wrong, kept>>

Present(u) == row[u] # Absent
Place(e)   == <<e.status, e.folder>>

-----------------------------------------------------------------------------
\* The listings

\* Rows of a mailbox in the searches, the counts and the listings by UID: those
\* with its status, wherever they are filed
Inside(table, box) ==
    {u \in Uid : /\ table[u] # Absent
                 /\ IF box = "folder" THEN table[u].folder = 1 ELSE table[u].status = box}

In(box) == Inside(row, box)

\* Rows that a sequence number can name: not filed in a folder; none of a folder's
Direct(box) == {u \in In(box) : box # "folder" /\ row[u].folder = 0}

\* ROW_NUMBER() OVER (ORDER BY id)
Rank(u, rows) == Cardinality({v \in rows : v <= u})

\* Of a range from:to; 0 is '*', and the listing of '*' alone is empty
Within(n, r) == r.from # 0 /\ r.from <= n /\ (r.to = 0 \/ n <= r.to)

\* mutant: the end of the range is ignored
ByNumber_Open(box, r) == {u \in Direct(box) : r.from <= Rank(u, Direct(box))}

ByNumber(box, r) == {u \in Direct(box) : Within(Rank(u, Direct(box)), r)}

\* A listing by UID of a folder fails in SQL and is empty
ByUid(box, r) == {u \in In(box) : box # "folder" /\ Within(u, r)}

\* The result is keyed by mail: of two relations to one mail the last one stays
Shown(rows) == {u \in rows : \A v \in rows : row[v].mail = row[u].mail => v <= u}

InOrder(rows, place) ==
    LET at(i) == CHOOSE u \in rows : i = Cardinality({v \in rows : place[v] <= place[u]})
    IN  [i \in 1..Cardinality(rows) |->
            [uid |-> at(i), mail |-> row[at(i)].mail, read |-> row[at(i)].read]]

\* GetEmailListByGroup: the rows in the order of their mails
Listed(box, r, byUid) == Shown(IF byUid THEN ByUid(box, r) ELSE ByNumber(box, r))

Listing(box, r, byUid) == InOrder(Listed(box, r, byUid), [u \in Uid |-> row[u].mail])

View(box) == [u \in In(box) |-> <<row[u].mail, row[u].folder>>]

-----------------------------------------------------------------------------
Idle == [act |-> "idle", byUid |-> FALSE, ranges |-> <<>>, dest |-> "inbox",
         meant |-> {}, rows |-> <<>>, found |-> Absent, why |-> {}]

NotTold == [box |-> "inbox", by |-> "fetch", of |-> {}, view |-> <<>>]
Closed  == [open |-> FALSE, marks |-> {}]

Why == {"changed",  \* the mailbox is not what it was when the session was told
        "filed",    \* mails filed in a folder count in one numbering and not in the other
        "subset",   \* UID FETCH numbers the messages it lists from 1
        "twin",     \* two relations to one mail
        "ranges",   \* only the last range of the command was kept
        "span",     \* UID EXPUNGE takes every id of a range, whatever mailbox it is in
        "open",     \* UID EXPUNGE skips a range with '*'
        "star",     \* a listing of '*' alone is empty
        "ignored",  \* STORE sets flags, or takes them away, by doing nothing
        "gap",      \* the deletion stopped at a row that was gone
        "stale",    \* the deletion did not match a row that had changed
        "failed"}   \* a statement failed and its error was dropped

Act == {"seen", "set", "unseen", "body", "delete", "expunge", "move", "copy"}

Command == [act : Act \union {"idle"}, byUid : BOOLEAN,
            ranges : Seq([from : Nat, to : Nat]), dest : Selected, meant : SUBSET (1..last),
            rows : Seq([uid : 1..last, mail : 1..mails, read : BOOLEAN]),
            found : Entry \union {Absent}, why : SUBSET Why]

\* What a session is told: numbers and UIDs, and the mailbox as it was
Told == [box : Selected, by : {"fetch", "search", "uid"}, of : SUBSET ((1..last) \X (1..last)),
           view : UNION {[rows -> Mail \X (0..1)] : rows \in SUBSET (1..last)}]

TypeOK ==
    /\ last \in 0..MaxUid /\ mails \in 0..MaxMail /\ issued \in 0..MaxCommand
    /\ row \in [Uid -> Entry \union {Absent}]
    /\ \A u \in Uid : row[u].mail <= mails /\ (u > last => row[u] = Absent)
    /\ cmd \in [Client -> Command]
    /\ told \in [Client -> Told]
    /\ pop \in [open : BOOLEAN, marks : SUBSET (1..mails)] /\ (pop.open \/ pop = Closed)
    /\ web \subseteq [uid : 1..last, found : Entry]
    /\ pending \subseteq [mail : 1..mails, rules : SUBSET (DOMAIN Rule), forward : BOOLEAN]
    /\ placed \in [Uid -> (Box \union {"absent"}) \X (0..1)]
    /\ wrong \union kept \subseteq SUBSET Why

Init ==
    \E start \in Start :
        /\ row = [u \in Uid |-> IF u \in DOMAIN start THEN start[u] ELSE Absent]
        /\ last = Len(start)
        /\ mails = Max({start[u].mail : u \in DOMAIN start} \union {0})
        /\ placed = [u \in Uid |-> Place(row[u])]
        /\ cmd = [c \in Client |-> Idle]
        /\ told = [c \in Client |-> NotTold]
        /\ pop = Closed /\ web = {} /\ pending = {} /\ issued = 0
        /\ wrong = {} /\ kept = {}

-----------------------------------------------------------------------------
\* An IMAP session is told which number is which UID.  (Not any more when the bound
\* on commands is reached: nothing would come of it.)

Tell(c, box, by, of) ==
    /\ cmd[c].act = "idle" /\ issued < MaxCommand
    /\ of # {}
    /\ told' = [told EXCEPT ![c] = [box |-> box, by |-> by, of |-> of, view |-> View(box)]]
    /\ UNCHANGED <<row, last, mails, cmd, pop, web, pending, issued, placed, wrong, kept>>

\* FETCH 1:* (UID)
Fetch(c) == \E box \in Selected :
    Tell(c, box, "fetch", {<<Rank(u, Direct(box)), u>> : u \in Shown(Direct(box))})

\* SEARCH ALL, and UID SEARCH for the same mailbox
SearchAll(c) == \E box \in Selected :
    Tell(c, box, "search", {<<Rank(u, In(box)), u>> : u \in In(box)})

\* UID FETCH from:*; the number is the rank in what this statement lists
UidFetch(c) == \E box \in Box : \E from \in In(box) :
    LET rows == ByUid(box, [from |-> from, to |-> 0])
    IN  Tell(c, box, "uid", {<<Rank(u, rows), u>> : u \in Shown(rows)})

-----------------------------------------------------------------------------
\* Commands on the messages a session was told of

Keys(c, byUid) == {IF byUid THEN p[2] ELSE p[1] : p \in told[c].of}

Requests(keys) ==
    {<<[from |-> p[1], to |-> p[2]]>> :
            p \in {q \in (keys \union {0}) \X (keys \union {0}) : q[2] = 0 \/ (0 < q[1] /\ q[1] <= q[2])}}
        \union {<<[from |-> p[1], to |-> p[1]], [from |-> p[2], to |-> p[2]]>> :
                    p \in {q \in keys \X keys : q[1] < q[2]}}

\* '*' is the last message
Intends(n, r, keys) == IF r.from = 0 THEN \A m \in keys : m <= n ELSE Within(n, r)

Named(c, byUid, ranges) ==
    {p[2] : p \in {q \in told[c].of :
        \E i \in DOMAIN ranges : Intends(IF byUid THEN q[2] ELSE q[1], ranges[i], Keys(c, byUid))}}

Begin(c, act, dest, byUid, ranges) ==
    [act |-> act, byUid |-> byUid, ranges |-> ranges, dest |-> dest,
     meant |-> Named(c, byUid, ranges), rows |-> <<>>, found |-> Absent, why |-> {}]

Issue(c) ==
    /\ cmd[c].act = "idle" /\ issued < MaxCommand
    /\ issued' = issued + 1
    /\ \E act \in Act, dest \in Selected, byUid \in BOOLEAN :
          /\ act \notin {"move", "copy"} => dest = "inbox"
          /\ act = "expunge" => byUid
          /\ \E ranges \in Requests(Keys(c, byUid)) :
                cmd' = [cmd EXCEPT ![c] = Begin(c, act, dest, byUid, ranges)]
    /\ UNCHANGED <<row, last, mails, told, pop, web, pending, placed, wrong, kept>>

\* What may set the rows of a listing apart from the messages the session means
Reasons(c) ==
    LET box == told[c].box
    IN  {w \in {"changed", "filed", "subset", "twin"} :
            CASE w = "changed" -> View(box) # told[c].view
              [] w = "filed"   -> (cmd[c].byUid \/ told[c].by = "search") /\ In(box) # Direct(box)
              [] w = "subset"  -> told[c].by = "uid" /\ ~cmd[c].byUid
              [] w = "twin"    -> Shown(In(box)) # In(box)}

\* What a finished command was to do and did not
Undone(k, table, u) ==
    /\ table[u] # Absent
    /\ CASE k.act \in {"seen", "set", "body"} -> ~table[u].read
         [] k.act = "unseen"                  -> table[u].read
         [] k.act \in {"delete", "expunge"}   -> TRUE
         [] k.act = "move" /\ k.dest = "folder" -> table[u].folder = 0
         [] k.act = "move" /\ k.dest # "folder" -> Place(table[u]) # <<k.dest, 0>>
         [] OTHER                             -> FALSE

\* The command of c goes on as k; it answers OK when nothing is left to do.  A
\* session uses what it was told for one command
Continue(c, k, table) ==
    LET over == k.ranges = <<>> /\ k.rows = <<>>
    IN  /\ cmd' = [cmd EXCEPT ![c] = IF over THEN Idle ELSE k]
        /\ told' = IF over THEN [told EXCEPT ![c] = NotTold] ELSE told
        /\ kept' = IF over /\ \E u \in k.meant : Undone(k, table, u)
                   THEN kept \union {k.why} ELSE kept

\* MOVE and COPY overwrite what an earlier range listed
LastRange(k) == k.act \in {"move", "copy"}

\* A command that lists its messages first
Looking(c) ==
    /\ cmd[c].act \in Act \ {"set", "unseen", "expunge"}
    /\ cmd[c].ranges # <<>> /\ (cmd[c].act = "body" => cmd[c].rows = <<>>)

\* Every statement sees the table as it is now.  STORE collects the rows of all
\* ranges, FETCH of a body works range by range
Lookup(c) ==
    /\ Looking(c)
    /\ LET k     == cmd[c]
           found == Listing(told[c].box, Head(k.ranges), k.byUid)
           rows  == IF LastRange(k) THEN found ELSE k.rows \o found
           why   == k.why \union Reasons(c)
                       \union (IF LastRange(k) /\ Len(k.ranges) > 1 THEN {"ranges"} ELSE {})
                       \union (IF Head(k.ranges).from = 0 THEN {"star"} ELSE {})
           extra == {found[i].uid : i \in DOMAIN found} \ k.meant
       IN  /\ Continue(c, [k EXCEPT !.ranges = Tail(@), !.rows = rows, !.why = why], row)
           /\ wrong' = IF extra # {} /\ ~(LastRange(k) /\ Len(k.ranges) > 1)
                       THEN wrong \union {why} ELSE wrong
    /\ UNCHANGED <<row, last, mails, pop, web, pending, issued, placed>>

\* STORE answers OK before it looks at anything when flags are set, and does nothing
\* with what it lists when they are taken away
Ignore(c) ==
    /\ cmd[c].act \in {"set", "unseen"}
    /\ Continue(c, [cmd[c] EXCEPT !.ranges = <<>>, !.why = @ \union {"ignored"}], row)
    /\ UNCHANGED <<row, last, mails, pop, web, pending, issued, placed, wrong>>

\* UID EXPUNGE hands all ids of its ranges to DelByUID, which goes as far as the first
\* that is gone: ids never come back
Expunge(c) ==
    /\ cmd[c].act = "expunge" /\ cmd[c].ranges # <<>>
    /\ LET k     == cmd[c]
           open  == \E i \in DOMAIN k.ranges : k.ranges[i].to = 0
           ids   == {u \in Uid : \E i \in DOMAIN k.ranges :
                                    k.ranges[i].to # 0 /\ Within(u, k.ranges[i])}
           reach == {u \in ids : \A v \in ids : v <= u => Present(v)}
           why   == k.why \union Reasons(c) \union (IF open THEN {"open"} ELSE {})
                                           \union (IF reach # ids THEN {"gap"} ELSE {})
       IN  /\ Continue(c, [k EXCEPT !.ranges = <<>>, !.why = why,
                                    !.rows = InOrder(reach, [u \in Uid |-> u])], row)
           /\ wrong' = wrong \union {IF u \in In(told[c].box) THEN why ELSE why \union {"span"} :
                                       u \in reach \ k.meant}
    /\ UNCHANGED <<row, last, mails, pop, web, pending, issued, placed>>

\* The lookups of c are over and its next row is handled
Handling(c, acts) ==
    /\ cmd[c].act \in acts /\ cmd[c].rows # <<>>
    /\ cmd[c].act # "body" => cmd[c].ranges = <<>>

Next1(c) == [cmd[c] EXCEPT !.rows = Tail(@), !.found = Absent]

\* mutant: only the relation that was looked up is marked
Marked_One(table, m) ==
    [u \in Uid |-> IF table[u].mail = m /\ \A v \in Uid : table[v].mail = m => u <= v
                   THEN [table[u] EXCEPT !.read = TRUE] ELSE table[u]]

\* MakeRead: every relation of the user to the mail
Marked(table, m) ==
    [u \in Uid |-> IF table[u].mail = m THEN [table[u] EXCEPT !.read = TRUE] ELSE table[u]]

MakeRead(c) ==
    /\ row' = Marked(row, Head(cmd[c].rows).mail)
    /\ Continue(c, Next1(c), row')
    /\ UNCHANGED <<last, mails, pop, web, pending, issued, placed, wrong>>

\* STORE +FLAGS \Seen marks row by row; FETCH marks a mail before it builds a body
\* that was not asked for with PEEK
Store(c) == Handling(c, {"seen"}) /\ MakeRead(c)
Write(c) == Handling(c, {"body"}) /\ MakeRead(c)

\* DelByUID: the row is looked up ...
DelFind(c) ==
    /\ Handling(c, {"delete", "expunge"}) /\ cmd[c].found = Absent
    /\ LET u == Head(cmd[c].rows).uid
       IN  Continue(c, IF Present(u) THEN [cmd[c] EXCEPT !.found = row[u]]
                       ELSE [cmd[c] EXCEPT !.rows = <<>>, !.why = @ \union {"gap"}], row)
    /\ UNCHANGED <<row, last, mails, pop, web, pending, issued, placed, wrong>>

\* xorm compares the columns of the bean that are not zero
StillMatches(e, found) ==
    /\ e # Absent
    /\ found.status # "inbox" => e.status = found.status
    /\ found.folder # 0 => e.folder = found.folder
    /\ found.read => e.read

\* ... and deleted if it still matches; whether it was is not looked at
DelRow(c) ==
    /\ Handling(c, {"delete", "expunge"}) /\ cmd[c].found # Absent
    /\ LET u    == Head(cmd[c].rows).uid
           gone == StillMatches(row[u], cmd[c].found)
       IN  /\ row' = IF gone THEN [row EXCEPT ![u] = Absent] ELSE row
           /\ Continue(c, IF gone THEN Next1(c)
                          ELSE [Next1(c) EXCEPT !.why = @ \union {"stale"}], row')
    /\ UNCHANGED <<last, mails, pop, web, pending, issued, placed, wrong>>

\* The table when the mails of ms are put in a mailbox: MoveMailToGroup sets the
\* folder alone, Move2DefaultBox and DelEmail the status and no folder
Put(ms, dest) ==
    [u \in Uid |-> IF row[u].mail \notin ms THEN row[u]
                   ELSE IF dest = "folder" THEN [row[u] EXCEPT !.folder = 1]
                   ELSE [row[u] EXCEPT !.status = dest, !.folder = 0]]

PlacedAs(table, ms) ==
    [u \in Uid |-> IF table[u].mail \in ms THEN Place(table[u]) ELSE placed[u]]

Move(c) ==
    /\ Handling(c, {"move"})
    /\ LET ms == {cmd[c].rows[i].mail : i \in DOMAIN cmd[c].rows}
       IN  /\ row' = Put(ms, cmd[c].dest)
           /\ placed' = PlacedAs(row', ms)
    /\ Continue(c, [cmd[c] EXCEPT !.rows = <<>>], row')
    /\ UNCHANGED <<last, mails, pop, web, pending, issued, wrong>>

\* A new relation; an insertion that fails is not noticed (at the bound, all do)
Insert(e) ==
    IF last = MaxUid THEN UNCHANGED <<row, last, placed>>
    ELSE /\ last' = last + 1
         /\ row' = [row EXCEPT ![last'] = e]
         /\ placed' = [placed EXCEPT ![last'] = Place(e)]

copy2defaultbox(from, dest) ==
    [mail |-> from.mail, read |-> from.read, status |-> dest, folder |-> 0]
copy2userbox(from) ==
    [mail |-> from.mail, read |-> from.read, status |-> Status[from.mail], folder |-> 1]

Copy(c) ==
    /\ Handling(c, {"copy"})
    /\ LET from == Head(cmd[c].rows)
           dest == cmd[c].dest
       IN  Insert(IF dest = "folder" THEN copy2userbox(from) ELSE copy2defaultbox(from, dest))
    /\ Continue(c, Next1(c), row')
    /\ UNCHANGED <<mails, pop, web, pending, issued, wrong>>

\* A statement fails.  The errors of the listings, of MakeRead, of the lookup of
\* DelByUID and of MoveMailToGroup are dropped and the command answers OK; those of
\* the deletion and of the other moves end it with NO
Fails(c) ==
    /\ LET k    == cmd[c]
           on(g) == Continue(c, [g EXCEPT !.why = @ \union {"failed"}], row)
       IN  \/ /\ Looking(c)
              /\ on([k EXCEPT !.ranges = Tail(@), !.rows = IF LastRange(k) THEN <<>> ELSE @])
           \/ Handling(c, {"seen", "body"}) /\ on(Next1(c))
           \/ /\ Handling(c, {"delete", "expunge", "move"})
              /\ k.act = "move" => k.dest = "folder"
              /\ k.act # "move" => k.found = Absent
              /\ on([k EXCEPT !.rows = <<>>])
           \/ /\ Handling(c, {"delete", "expunge", "move"})
              /\ k.act = "move" => k.dest # "folder"
              /\ k.act # "move" => k.found # Absent
              /\ cmd' = [cmd EXCEPT ![c] = Idle] /\ told' = [told EXCEPT ![c] = NotTold]
              /\ UNCHANGED kept
    /\ UNCHANGED <<row, last, mails, pop, web, pending, issued, placed, wrong>>

-----------------------------------------------------------------------------
\* The web.  GetEmailDetail with markRead looks a relation up and writes it back

Request == issued < MaxCommand /\ issued' = issued + 1

WebFind(m) ==
    /\ Request
    /\ \E u \in Uid :
          /\ row[u].mail = m /\ \A v \in Uid : row[v].mail = m => u <= v
          /\ web' = IF row[u].read THEN web ELSE web \union {[uid |-> u, found |-> row[u]]}
    /\ UNCHANGED <<row, last, mails, cmd, told, pop, pending, placed, wrong, kept>>

\* mutant: all columns are written
WriteBack_All(e, found) == IF e = Absent THEN e ELSE [found EXCEPT !.read = TRUE]

\* mutant: a row that is gone is written
WriteBack_Gone(e, found) == [e EXCEPT !.read = TRUE]

\* xorm writes the columns of the bean that are not zero
WriteBack(e, found) ==
    IF e = Absent THEN e
    ELSE [e EXCEPT !.read   = TRUE,
                   !.status = IF found.status = "inbox" THEN @ ELSE found.status,
                   !.folder = IF found.folder = 0 THEN @ ELSE found.folder]

\* The web's move: one statement; its deletion in Deleted Messages is for good
WebMove(m) ==
    /\ Request
    /\ \E dest \in Selected : row' = Put({m}, dest)
    /\ placed' = PlacedAs(row', {m})
    /\ UNCHANGED <<last, mails, cmd, told, pop, web, pending, wrong, kept>>

WebDelete(m) ==
    /\ Request
    /\ row' = [u \in Uid |-> IF row[u].mail = m THEN Absent ELSE row[u]]
    /\ UNCHANGED <<last, mails, cmd, told, pop, web, pending, placed, wrong, kept>>

WebRead == \E w \in web :
    /\ web' = web \ {w}
    /\ row' = [row EXCEPT ![w.uid] = WriteBack(@, w.found)]
    /\ UNCHANGED <<last, mails, cmd, told, pop, pending, issued, placed, wrong, kept>>

-----------------------------------------------------------------------------
\* POP3: numbers are the ids of the mails in the inbox

PopStep == UNCHANGED <<last, mails, cmd, told, web, pending, wrong, kept>>
Look    == UNCHANGED <<row, placed>>

PopLogin == ~pop.open /\ Request /\ pop' = [Closed EXCEPT !.open = TRUE] /\ PopStep /\ Look

\* Any id is accepted, whatever LIST and UIDL show by now
Dele(m) == /\ pop.open /\ Request
           /\ pop' = [pop EXCEPT !.marks = @ \union {m}] /\ PopStep /\ Look

Rest == pop.open /\ pop' = [pop EXCEPT !.marks = {}] /\ PopStep /\ Look /\ UNCHANGED issued

\* The deletion is one transaction; that it failed is not told.  A connection
\* that closes without QUIT deletes nothing
Quit == /\ pop.open /\ pop' = Closed
        /\ \/ row' = Put(pop.marks, "deleted") /\ placed' = PlacedAs(row', pop.marks)
           \/ Look
        /\ PopStep /\ UNCHANGED issued

-----------------------------------------------------------------------------
\* A mail arrives for the user, for another one whose rule forwards it here, or for
\* both.  The rules run after it was stored, whoever has seen or moved it by then

New(m) == [mail |-> m, status |-> Status[m], folder |-> 0, read |-> FALSE]

\* The rules whose conditions a mail may meet
MatchRule == SUBSET (DOMAIN Rule)

After(p, next) ==
    (pending \ {p}) \union {q \in {next} : q.rules # {} \/ q.forward}

Arrive ==
    /\ mails < MaxMail /\ last < MaxUid
    /\ mails' = mails + 1
    /\ \E here, forward \in BOOLEAN, holds \in MatchRule :
          LET p == [mail |-> mails', rules |-> holds, forward |-> forward]
          IN  /\ IF here THEN Insert(New(mails')) ELSE UNCHANGED <<row, last, placed>>
              /\ here \/ (holds = {} /\ forward)
              /\ pending' = After(p, p)
    /\ UNCHANGED <<cmd, told, pop, web, issued, wrong, kept>>

\* GetAllRules: Decr("sort") does not sort, the rules come in the order of the table
GetAllRules(p) == Min(p.rules)

\* What the action of a rule makes of the relations to a mail; to move it to Sent
\* Messages puts it in the inbox
Ruled(action, m) ==
    [u \in Uid |-> IF row[u].mail # m THEN row[u]
                   ELSE CASE action = "read"   -> [row[u] EXCEPT !.read = TRUE]
                          [] action = "delete" -> [row[u] EXCEPT !.status = "deleted"]
                          [] action = "file"   -> [row[u] EXCEPT !.folder = 1]
                          [] action = "sent"   -> [row[u] EXCEPT !.status = "inbox", !.folder = 0]
                          [] OTHER             -> [row[u] EXCEPT !.status = action, !.folder = 0]]

DoRule == \E p \in pending :
    /\ p.rules # {}
    /\ LET next == GetAllRules(p)
       IN  /\ row' = Ruled(Rule[next], p.mail)
           /\ placed' = IF Rule[next] = "read" THEN placed ELSE PlacedAs(row', {p.mail})
           /\ pending' = After(p, [p EXCEPT !.rules = @ \ {next}])
    /\ UNCHANGED <<last, mails, cmd, told, pop, web, issued, wrong, kept>>

\* Another user's rule gives the user a relation, unless there is one; the user's own
\* rules do not run on it
forwardToLocalUser == \E p \in pending :
    /\ p.forward
    /\ IF \E u \in Uid : row[u].mail = p.mail THEN UNCHANGED <<row, last, placed>>
       ELSE Insert(New(p.mail))
    /\ pending' = After(p, [p EXCEPT !.forward = FALSE])
    /\ UNCHANGED <<mails, cmd, told, pop, web, issued, wrong, kept>>

-----------------------------------------------------------------------------
Session(c) ==
    \/ Fetch(c) \/ SearchAll(c) \/ UidFetch(c) \/ Issue(c) \/ Lookup(c)
    \/ Store(c) \/ Ignore(c) \/ Write(c) \/ DelFind(c) \/ DelRow(c) \/ Expunge(c)
    \/ Move(c) \/ Copy(c) \/ Fails(c)

Others ==
    \/ \E m \in 1..mails : WebFind(m) \/ WebMove(m) \/ WebDelete(m) \/ Dele(m)
    \/ WebRead \/ PopLogin \/ Rest \/ Quit \/ Arrive
    \/ DoRule \/ forwardToLocalUser

Next == Others \/ \E c \in Client : Session(c)

Spec == Init /\ [][Next]_vars

-----------------------------------------------------------------------------
\* A command never takes a message its session did not name, unless the mailbox
\* changed since the numbers were told, a folder's mails count in one numbering and
\* not in the other, UID FETCH told the numbers, a mail has two relations (the one
\* that was not shown can be within the range when the other is not), or UID EXPUNGE
\* met an id of another mailbox within its range
WrongHitIsExplained ==
    \A why \in wrong : why \intersect {"changed", "filed", "subset", "twin", "span"} # {}

\* A command that answers OK leaves no message it named as it was, unless for the first
\* four of these reasons, or it named several ranges to MOVE, or '*' where it stands for
\* nothing, or asked STORE for what it ignores, or the deletion met a row that was gone
\* or had changed since it was looked up, or a failed statement was passed over
KeptIsExplained == {} \notin kept

\* A mail that a move, a deletion or a rule took out of the inbox never comes back
\* because somebody reads it, although reading writes back columns read earlier
InboxIsCommanded ==
    \A u \in Uid : Present(u) /\ Place(row[u]) = <<"inbox", 0>> => placed[u] = <<"inbox", 0>>
=============================================================================
