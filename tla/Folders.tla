------------------------------ MODULE Folders ------------------------------
(***************************************************************************)
(* The folders of one user and the mails filed in them: the table `group`, *)
(* the columns group_id and status of user_email, and the commands that    *)
(* work on both statement by statement from IMAP sessions, the web and     *)
(* delivery: create, rename, delete, move, copy, and the rule that files a *)
(* mail on arrival.  No two statements of a command are in a transaction,  *)
(* and any of them may fail: most lookups drop the error and go on as if   *)
(* nothing had been found.                                                 *)
(*                                                                         *)
(* Ids are never used twice and a folder never changes its parent.  Names  *)
(* stand for path segments; a path is a sequence of names.                 *)
(***************************************************************************)
EXTENDS Naturals, Sequences, FiniteSets

CONSTANTS Client,       \* sessions and requests that run at the same time
          Name,         \* folder names
          Path,         \* paths that IMAP CREATE is called with
          Row,          \* slots for relations, rows of user_email
          InitialTree,  \* the folders at the start: <<name, parent>> by id
          MaxGroup,     \* bound: folders made in all
          MaxCommand    \* bound: commands issued in all

ASSUME FoldersAssumption ==
    /\ MaxGroup \in Nat /\ MaxCommand \in Nat
    /\ Path \subseteq Seq(Name) \ {<<>>}
    /\ InitialTree \in Seq(Name \X Nat) /\ Len(InitialTree) <= MaxGroup
    /\ \A i \in DOMAIN InitialTree : InitialTree[i][2] < i

VARIABLES
    group,      \* the table: id -> name, parent id, cached full path
    made,       \* the last id given out
    row,        \* each relation: absent, or its status and group_id
    rule,       \* group_id in the user's MOVE rule, 0 if there is no rule
    cmd,        \* the command each client is executing
    issued,     \* commands issued so far
    renamed,    \* history: folders that were renamed or deleted
    rival,      \* history: folders made after a lookup that failed, or that another
                \* client overtook
    garbled,    \* history: folders whose path was computed with a query that failed
    stray,      \* history: folders that the deletion of their parent did not take
    lateFiled,  \* history: relations filed in a folder that was gone
    torn        \* history: folders whose deletion stopped half way

history == <<renamed, rival, garbled, stray, lateFiled, torn>>
vars == <<group, made, row, rule, cmd, issued, history>>

Id     == 1..MaxGroup
Status == {"inbox", "sent", "deleted", "drafts", "junk"}
Absent == [status |-> "absent", folder |-> 0]
Folder == [name : Name, parent : 0..MaxGroup, path : Seq(Name)]

Idle == [op |-> "idle", rest |-> <<>>, id |-> 0, parent |-> 0, path |-> <<>>,
         whole |-> TRUE, todo |-> {}, found |-> {}, missed |-> {}, rows |-> {}, alone |-> TRUE]

Command == [op : {"idle", "create", "insert", "rename", "update", "delete", "scan", "unfile",
                  "file", "copy", "rule"},
            rest : Seq(Name), id : 0..made, parent : 0..made, path : Seq(Name),
            whole : BOOLEAN, todo : SUBSET (0..made), found : SUBSET (0..made),
            missed : SUBSET (1..made), rows : SUBSET Row, alone : BOOLEAN]

TypeOK ==
    /\ made \in 0..MaxGroup
    /\ DOMAIN group \subseteq 1..made
    /\ \A g \in DOMAIN group : group[g] \in Folder /\ group[g].parent < g
    /\ row \in [Row -> [status : Status, folder : 0..made] \union {Absent}]
    /\ rule \in 0..made
    /\ cmd \in [Client -> Command]
    /\ issued \in 0..MaxCommand
    /\ renamed \union rival \union garbled \union stray \union torn \subseteq 1..made
    /\ lateFiled \subseteq Row

-----------------------------------------------------------------------------
\* Operators on the table

\* getLayerName: the names from the root down; a parent that is gone reads as a
\* folder without a name, written here as the empty path
Layers(table) ==
    LET layer[g \in 0..MaxGroup] ==
            IF g \in DOMAIN table THEN Append(layer[table[g].parent], table[g].name) ELSE <<>>
    IN  layer

LayerName(table, parent, name) == Append(Layers(table)[parent], name)

\* What getLayerName may return for a path: it drops the error of its query, so that a
\* query that fails reads as a parent that is gone
Answers(path) == {SubSeq(path, k, Len(path)) : k \in 1..Len(path)}

\* The folders between a folder and the root, the one that is gone included
Lines(table) ==
    LET line[g \in 0..MaxGroup] ==
            IF g \in DOMAIN table THEN {table[g].parent} \union line[table[g].parent] ELSE {}
    IN  line

Above(g) == Lines(group)[g]

\* The folders buildChildren reaches from the root: what the web shows
Shown == {g \in DOMAIN group : 0 \in Above(g)}

\* The name LIST shows for a folder
ListName(g) == LayerName(group, group[g].parent, group[g].name)

Children(g) == {k \in DOMAIN group : group[k].parent = g}
Named(name) == {g \in DOMAIN group : group[g].name = name}

Tree ==
    LET bare == [g \in DOMAIN InitialTree |-> [name |-> InitialTree[g][1],
                                               parent |-> InitialTree[g][2], path |-> <<>>]]
    IN  [g \in DOMAIN bare |->
            [bare[g] EXCEPT !.path = LayerName(bare, bare[g].parent, bare[g].name)]]

Init ==
    /\ group = Tree
    /\ made = Len(InitialTree)
    /\ row = [r \in Row |-> Absent]
    /\ rule = 0
    /\ cmd = [c \in Client |-> Idle]
    /\ issued = 0
    /\ renamed = {} /\ rival = {} /\ garbled = {} /\ stray = {} /\ lateFiled = {} /\ torn = {}

-----------------------------------------------------------------------------
\* Starting a command

Issue(c, command) ==
    /\ cmd[c].op = "idle" /\ issued < MaxCommand
    /\ issued' = issued + 1
    /\ cmd' = [cmd EXCEPT ![c] = command]
    /\ UNCHANGED <<group, made, row, rule, history>>

\* Every other client's pending insertion now has a rival
Disturbed(c, next) == [j \in Client |-> IF j = c THEN next ELSE [cmd[j] EXCEPT !.alone = FALSE]]

Done(c) == cmd' = [cmd EXCEPT ![c] = Idle]

\* IMAP CREATE of a path; the web's AddGroup below a folder its page shows
Create(c)   == \E p \in Path : Issue(c, [Idle EXCEPT !.op = "create", !.rest = p])
AddGroup(c) == \E n \in Name, g \in DOMAIN group :
                  Issue(c, [Idle EXCEPT !.op = "create", !.rest = <<n>>, !.parent = g])

\* IMAP RENAME takes the last segment of both names
Rename(c) == \E old \in Name, new \in Name :
                old # new /\ Issue(c, [Idle EXCEPT !.op = "rename", !.rest = <<old, new>>])

\* IMAP DELETE by name; the web deletes by the id its page shows
Delete(c)    == \E n \in Name : Issue(c, [Idle EXCEPT !.op = "delete", !.rest = <<n>>])
DelGroup(c)  == \E g \in DOMAIN group :
                   Issue(c, [Idle EXCEPT !.op = "scan", !.id = g, !.todo = {g}])

\* The folder that MOVE and COPY reach by its full path, or the web by its id
Present == {r \in Row : row[r] # Absent}
Move(c) == \E g \in DOMAIN group, rows \in (SUBSET Present) \ {{}} :
              Issue(c, [Idle EXCEPT !.op = "file", !.id = g, !.rows = rows])
Copy(c) == \E g \in DOMAIN group, r \in Present :
              Issue(c, [Idle EXCEPT !.op = "copy", !.id = g, !.rows = {r}])

-----------------------------------------------------------------------------
\* CREATE

\* The folder a segment found or made is the parent of the next segment
NextSegment(c, g) ==
    IF Len(cmd[c].rest) = 1 THEN Idle
    ELSE [Idle EXCEPT !.op = "create", !.rest = Tail(cmd[c].rest), !.parent = g]

\* mutant: only the top level is searched
Lookup_TopLevel(name, g) == g \in Named(name) /\ group[g].parent = 0

\* The lookup of a name: GetGroupByName and the first statement of CreateGroup
\* take any folder of that name, wherever it is
Lookup(name, g) == g \in Named(name)

\* CreateGroup: the lookup, then getLayerName.  The error of the lookup is dropped: if
\* it fails, there is no such folder.  The insertion is a step of its own.
CreateFind(c) ==
    /\ cmd[c].op = "create"
    /\ LET name == Head(cmd[c].rest)
           true == LayerName(group, cmd[c].parent, name)
       IN  \/ \E g \in DOMAIN group : /\ Lookup(name, g)
                                      /\ cmd' = [cmd EXCEPT ![c] = NextSegment(c, g)]
           \/ \E path \in Answers(true) :
                 cmd' = [cmd EXCEPT ![c].op = "insert", ![c].path = path, ![c].whole = path = true,
                                    ![c].alone = \A g \in DOMAIN group : ~Lookup(name, g)]
    /\ UNCHANGED <<group, made, row, rule, issued, history>>

\* Folders whose children a deletion under way has read; a child added now escapes
Doomed == UNION {cmd[c].found : c \in Client}

CreateInsert(c) ==
    /\ cmd[c].op = "insert" /\ made < MaxGroup
    /\ LET g == made + 1
           p == cmd[c].parent
           new == [name |-> Head(cmd[c].rest), parent |-> p, path |-> cmd[c].path]
       IN  /\ group' = [k \in DOMAIN group \union {g} |-> IF k = g THEN new ELSE group[k]]
           /\ made' = g
           /\ rival' = IF cmd[c].alone THEN rival ELSE rival \union {g}
           /\ garbled' = IF cmd[c].whole THEN garbled ELSE garbled \union {g}
           /\ stray' = IF p # 0 /\ (p \in Doomed \/ p \notin DOMAIN group)
                       THEN stray \union {g} ELSE stray
           /\ cmd' = Disturbed(c, NextSegment(c, g))
    /\ UNCHANGED <<row, rule, issued, renamed, lateFiled, torn>>

-----------------------------------------------------------------------------
\* RENAME: the new name is not looked up, the paths below are not touched

RenameFind(c) ==
    /\ cmd[c].op = "rename"
    /\ \/ \E g \in Named(cmd[c].rest[1]) :
             LET true == LayerName(group, group[g].parent, cmd[c].rest[2])
             IN  \E path \in Answers(true) :
                    cmd' = [cmd EXCEPT ![c].op = "update", ![c].id = g,
                                       ![c].path = path, ![c].whole = path = true]
       \/ Named(cmd[c].rest[1]) = {} /\ Done(c)
    /\ UNCHANGED <<group, made, row, rule, issued, history>>

\* mutant: full_path is left as it is
Renamed_NameOnly(c) == [group[cmd[c].id] EXCEPT !.name = cmd[c].rest[2]]

\* mutant: the id is written to the wrong column
Renamed_Parent(c) == [group[cmd[c].id] EXCEPT !.name = cmd[c].rest[2], !.parent = cmd[c].id]

Renamed(c) == [group[cmd[c].id] EXCEPT !.name = cmd[c].rest[2], !.path = cmd[c].path]

RenameUpdate(c) ==
    /\ cmd[c].op = "update"
    /\ IF cmd[c].id \in DOMAIN group
       THEN /\ group' = [group EXCEPT ![cmd[c].id] = Renamed(c)]
            /\ renamed' = renamed \union {cmd[c].id}
            /\ garbled' = IF cmd[c].whole THEN garbled \ {cmd[c].id} ELSE garbled \union {cmd[c].id}
            /\ cmd' = Disturbed(c, Idle)
       ELSE Done(c) /\ UNCHANGED <<group, renamed, garbled>>
    /\ UNCHANGED <<made, row, rule, issued, rival, stray, lateFiled, torn>>

-----------------------------------------------------------------------------
\* DELETE

\* A name that leads nowhere, or a lookup that fails, gives the id 0, the parent of all
\* top-level folders
DeleteFind(c) ==
    /\ cmd[c].op = "delete"
    /\ \E g \in {0} \union Named(cmd[c].rest[1]) :
          cmd' = [cmd EXCEPT ![c].op = "scan", ![c].id = g, ![c].todo = {g}]
    /\ UNCHANGED <<group, made, row, rule, issued, history>>

\* getAllChildId, one query per folder; one that fails is logged and has no children.
\* (The code goes depth first; the order makes no difference to what is collected but
\* for insertions meanwhile.)
Scan(c) ==
    /\ cmd[c].op = "scan"
    /\ \E g \in cmd[c].todo, answered \in BOOLEAN :
          cmd' = [cmd EXCEPT
                     ![c].todo   = (@ \ {g}) \union (IF answered THEN Children(g) ELSE {}),
                     ![c].found  = @ \union {g},
                     ![c].missed = IF answered THEN @ ELSE @ \union Children(g)]
    /\ UNCHANGED <<group, made, row, rule, issued, history>>

\* mutant: the folder itself is deleted, its children are not
Collected_Root(c) == {cmd[c].id}

\* mutant: only the user is in the condition
Collected_All(c) == DOMAIN group

\* allGroupIds
Collected(c) == cmd[c].found

\* delete from `group`: committed at once, since the session never begins
Drop(c) ==
    /\ cmd[c].op = "scan" /\ cmd[c].todo = {}
    /\ \/ /\ group' = [g \in DOMAIN group \ Collected(c) |-> group[g]]
          /\ renamed' = renamed \union (Collected(c) \ {0})
          /\ stray' = stray \union cmd[c].missed
          /\ cmd' = Disturbed(c, [cmd[c] EXCEPT !.op = "unfile"])
       \/ Done(c) /\ UNCHANGED <<group, renamed, stray>>
    /\ UNCHANGED <<made, row, rule, issued, rival, garbled, lateFiled, torn>>

\* mutant: the mails of the folder are released, those of its children are not
Released_Root(c) == {cmd[c].id}

Released(c) == cmd[c].found

\* update user_email set group_id=0; when it fails, Rollback has nothing to undo
Unfile(c) ==
    /\ cmd[c].op = "unfile"
    /\ \/ /\ row' = [r \in Row |-> IF row[r].folder \in Released(c)
                                   THEN [row[r] EXCEPT !.folder = 0] ELSE row[r]]
          /\ UNCHANGED torn
       \/ torn' = torn \union (cmd[c].found \ {0}) /\ UNCHANGED row
    /\ Done(c)
    /\ UNCHANGED <<group, made, rule, issued, renamed, rival, garbled, stray, lateFiled>>

-----------------------------------------------------------------------------
\* Mails

Late(g, rows) == IF g = 0 \/ g \in DOMAIN group THEN lateFiled \ rows ELSE lateFiled \union rows

\* MoveMailToGroup
MoveMailToGroup(c) ==
    /\ cmd[c].op = "file"
    /\ row' = [r \in Row |-> IF r \in cmd[c].rows THEN [row[r] EXCEPT !.folder = cmd[c].id]
                             ELSE row[r]]
    /\ lateFiled' = Late(cmd[c].id, cmd[c].rows)
    /\ Done(c)
    /\ UNCHANGED <<group, made, rule, issued, renamed, rival, garbled, stray, torn>>

\* copy2userbox inserts a relation with the folder it looked up
CopyInsert(c) ==
    /\ cmd[c].op = "copy"
    /\ \E r \in Row \ Present, s \in cmd[c].rows :
          /\ row' = [row EXCEPT ![r] = [status |-> row[s].status, folder |-> cmd[c].id]]
          /\ lateFiled' = Late(cmd[c].id, {r})
    /\ Done(c)
    /\ UNCHANGED <<group, made, rule, issued, renamed, rival, garbled, stray, torn>>

\* Move2DefaultBox and DelEmail: one statement sets both columns
Move2DefaultBox ==
    \E rows \in (SUBSET Present) \ {{}}, status \in {"inbox", "deleted"} :
        /\ row' = [r \in Row |-> IF r \in rows THEN [status |-> status, folder |-> 0] ELSE row[r]]
        /\ lateFiled' = lateFiled \ rows
        /\ UNCHANGED <<group, made, rule, cmd, issued, renamed, rival, garbled, stray, torn>>

\* UpsertRule: a MOVE rule names a folder by its id; deletion does not look at rules
UpsertRule ==
    /\ \E g \in DOMAIN group : rule' = g
    /\ UNCHANGED <<group, made, row, cmd, issued, history>>

DelRule ==
    /\ rule # 0 /\ rule' = 0
    /\ UNCHANGED <<group, made, row, cmd, issued, history>>

\* saveEmail inserts the relation, then the rules are read
Arrive(c) ==
    /\ cmd[c].op = "idle" /\ issued < MaxCommand
    /\ \E r \in Row \ Present :
          /\ row' = [row EXCEPT ![r] = [status |-> "inbox", folder |-> 0]]
          /\ cmd' = [cmd EXCEPT ![c] = IF rule = 0 THEN Idle
                                       ELSE [Idle EXCEPT !.op = "rule", !.id = rule, !.rows = {r}]]
    /\ issued' = issued + 1
    /\ UNCHANGED <<group, made, rule, history>>

\* doMove, default case: the id of the rule is written as it is
RuleMove(c) ==
    /\ cmd[c].op = "rule"
    /\ row' = [r \in Row |-> IF r \in cmd[c].rows THEN [row[r] EXCEPT !.folder = cmd[c].id]
                             ELSE row[r]]
    /\ lateFiled' = Late(cmd[c].id, cmd[c].rows)
    /\ Done(c)
    /\ UNCHANGED <<group, made, rule, issued, renamed, rival, garbled, stray, torn>>

\* The statement a command is at fails: RENAME finds no folder, the others answer NO,
\* or log the error, and write nothing
Fails(c) ==
    /\ cmd[c].op \in {"insert", "rename", "update", "file", "copy", "rule"}
    /\ Done(c)
    /\ UNCHANGED <<group, made, row, rule, issued, history>>

\* The process dies: every command stops where it is
Crash ==
    /\ \E c \in Client : cmd[c].op # "idle"
    /\ torn' = torn \union ((UNION {cmd[c].found : c \in {k \in Client : cmd[k].op = "unfile"}}) \ {0})
    /\ cmd' = [c \in Client |-> Idle]
    /\ UNCHANGED <<group, made, row, rule, issued, renamed, rival, garbled, stray, lateFiled>>

Next ==
    \/ \E c \in Client :
          \/ Create(c) \/ AddGroup(c) \/ Rename(c) \/ Delete(c) \/ DelGroup(c) \/ Move(c) \/ Copy(c)
          \/ CreateFind(c) \/ CreateInsert(c) \/ RenameFind(c) \/ RenameUpdate(c)
          \/ DeleteFind(c) \/ Scan(c) \/ Drop(c) \/ Unfile(c)
          \/ MoveMailToGroup(c) \/ CopyInsert(c) \/ Arrive(c) \/ RuleMove(c) \/ Fails(c)
    \/ Move2DefaultBox \/ UpsertRule \/ DelRule \/ Crash

Spec == Init /\ [][Next]_vars

-----------------------------------------------------------------------------
\* Properties

Gone(g) == g # 0 /\ g \notin DOMAIN group

\* A mail is filed in a folder that exists, or the deletion of the folder is about
\* to release it or stopped half way, or the mail was filed by an id that was
\* already stale.  Anything else would be a mail no mailbox shows.
FiledIsExplained ==
    \A r \in Row : Gone(row[r].folder) =>
        \/ r \in lateFiled
        \/ row[r].folder \in torn
        \/ \E c \in Client : cmd[c].op = "unfile" /\ row[r].folder \in cmd[c].found

\* The web's tree shows every folder but those that the deletion of their parent did
\* not take, since they came while it went on or the query for them failed, and what
\* hangs below these.
HiddenIsExplained ==
    \A g \in DOMAIN group \ Shown :
        g \in stray \/ group[g].parent \in DOMAIN group

\* The cached path of a folder is the path LIST gives it, unless a folder above it
\* was renamed or deleted, or a query failed when the path was computed; MOVE and COPY
\* find folders by the cached one.
PathIsTrue ==
    \A g \in DOMAIN group :
        group[g].path # ListName(g) =>
            Above(g) \intersect renamed # {} \/ g \in garbled

\* A deletion takes the folder it was called with and those below it, whatever the
\* others do meanwhile; if IMAP's lookup of the name gave nothing, it takes all.  (A
\* folder that an earlier deletion left behind may have lost its way to the top.)
DeleteIsContained ==
    [][\A g \in DOMAIN group \ DOMAIN group' :
          \E c \in Client : /\ cmd[c].op = "scan" /\ cmd'[c].op = "unfile"
                            /\ cmd[c].id \in {0, g} \union Above(g)
                               \/ Above(g) \intersect stray # {} \/ g \in stray]_vars

\* Two folders of one name come from RENAME, from two clients creating at once, or from
\* a lookup that failed; every lookup by name takes one of the two.
NamesAreUnique ==
    \A g, k \in DOMAIN group :
        g # k /\ group[g].name = group[k].name =>
            {g, k} \intersect (renamed \union rival) # {}
=============================================================================
