# PMail: specifications, model checking and proofs

TLA+ modules of the parts of PMail (`server/`) in which several actors share state: SMTP submissions and their delivery,
the tables of mails, relations and folders under IMAP, POP3, the web and rules, IMAP connections in IDLE, plugin
processes, and the life of the process with its certificate. Each module is translated from the Go source;
`PROJECT.json` gives the lines each definition stands for, lists the hazards of the code with the properties that cover
them, and the runs.

```
tlc -workers 4 -config OutgoingAuditSqlite.cfg MCOutgoingAudit   # a run: see "Runs"
tlapm OutgoingAuditProofs.tla                                    # the proofs of a module
```

## 1. Inventory

| Component | State | Operations | Talks to |
|---|---|---|---|
| SMTP reception, `listen/smtp_server` | `Session` (user, from, to) | `Data`, `Rcpt`, `Auth` | database, hooks, rules, IDLE notices, senders |
| Outgoing audit, `audit_persistence.go` | rows of `email`, `user_email` | `deliverOutgoingEmail`, `persistInitialAudit`, `persistDeliveryResult` | `db.Transaction`, `send.Send`, hooks |
| Transactions, `db/retry.go` | the attempt | `Transaction` (3 attempts, back-off, only SQLite BUSY/LOCKED) | database |
| Downstream delivery, `utils/send`, `utils/smtp` | per-domain goroutines, `errMap` | `doSend`, `tryDeliverToMX`, `tryRelay`, Tencent SES | remote MX hosts, smarthost |
| Deletion and copying, `services/del_email`, IMAP `EXPUNGE`/`STORE`/`COPY` | `email`, `user_email`; `deleteUidList` of a session | `DelByUID`, `DelEmail`, `Copy` | database |
| Web API, `controllers` | HTTP session | `Send` (delivers in the background), deletion, folders, rules, users | all services |
| Folders, `services/group` | `group` (tree by `parent_id`, `full_path`), `user_email.group_id` | create, rename, delete, move, status | IMAP, web |
| Listing and numbering, `services/list`, IMAP `FETCH`/`SEARCH`/`STATUS`/`Poll` | none beyond the tables | sequence number and UID ranges, counts | IMAP, POP3, web |
| IMAP IDLE, `session_idle.go` | `userConnects`: per user the writers of idling connections | `Idle`, its cleanup goroutine, `IdleNotice` | SMTP reception |
| POP3 server | `DeleteIds` of a session | `DELE`, `REST`, `QUIT` (soft deletion) | `DelEmail` |
| Rules, `services/rule` | `rule` | read, delete, forward, move on arrival | `send`, tables |
| Plugin host, `hooks` | `HookList`, `processList`, socket files, one cleanup goroutine per process | `Init`, `RegisterHook`, `RemoveHook`, `Stop` | plugin processes, `res_init` |
| Lifecycle, `res_init`, `signal`, `cron_server`, `services/setup` | `InitChan`, `RestartChan`, the global variables of the servers, ports, `private.key` and `public.crt` | first setup, start and stop of the servers, renewal and check of the certificate | everything |
| Outbound configuration | `config/outbound.json` | `Get`, `Save` (rename under a mutex) | `tryRelay` |
| Parsing, DKIM/SPF, UTF-7, i18n, front end | none | conversions, presentation | — |

What is hard, and what correct means for it:

- **Submission** runs inside the client's `DATA`: two transactions with a remote delivery between them, a client that
  may give up, a process that may die, an owner who may move, copy or delete the mail meanwhile, and a database that may
  fail or not say whether it committed. Correct: nothing leaves before it is recorded, both tables tell the same true
  story, the reply makes the client stop or retry for the right reason, and the database never causes a duplicate.
- **The mail store** counts references across statements, on one SQLite connection or on many networked ones.
  Correct: a mail goes when, and only when, nobody has it.
- **IDLE** has a registry that is written by connections, goroutines that outlive the command, and notices that use a
  copy of it. Correct: who idles is told, who left is forgotten, what is told is true.
- **Plugins** die whenever they like, also while they are loaded or after a restart reused their name and socket.
  Correct: a live plugin keeps its hook, a dead one loses it, the server starts in any case.
- **Delivery** talks to several domains at once, to each over several hosts and ports, with errors collected in a map
  that names forget. Correct: nobody is left out of a success, an accepted mail is not sent again, a bounce is deserved.
- **Folders** are a tree kept by separate statements, with a cached path, and deletion is two statements without a
  transaction. Correct: every mail is in a mailbox somebody can open, every folder can be seen, a path is true.
- **Mailboxes** have no state in the server: what a number or a range means is decided by each statement anew, while
  other protocols work on the same rows. Correct: a command changes the messages the client meant, all of them and no
  others; a search finds what its criteria say.
- **Lifecycle**: unbuffered channels with several writers, servers known by a global variable that a goroutine sets
  later, two files replaced one after the other by tasks that do not know of each other. Correct: a restart that was
  asked for happens, does not kill the process, and the servers end up with the certificate on disk.

## 2. Plan

Built, in this order: `OutgoingAudit` (with `AuditLedger`), `ImapIdle`, `PluginRegistry`, `MailStore`, `Delivery`,
`Folders`, `Mailbox` and on top of it `Search`, `Lifecycle`; the proofs of every safety invariant and action property
the runs check; and `Sender`, the delivery that `OutgoingAudit` takes for granted, implemented by `Delivery`. To come:

1. The counts of `STATUS` and `SELECT`, and `Poll`, as operators beside the listings of `Mailbox`.
2. Facts on the way to the liveness properties, as theorems: what must eventually happen stays due until it does (the
   goroutine of an IDLE until it has cleaned up, a restart that was asked for until the loop takes it).

## 3. The modules

### OutgoingAudit, AuditLedger

`OutgoingAudit` is the path of a submission. A `Call` is one run of `deliverOutgoingEmail`. `pc[c]` is where it is:
`audit` (inside `persistInitialAudit`), `deliver` (`sender` and the hooks), `persist` (`persistDeliveryResult`),
`reply`. `email[c]` is the status column of the row the call inserted, `rel[c]` those of the `user_email` rows that
point at it (several, once the owner copied the mail), `took[c]` the domains that really hold a copy, `observed[c]` what
the sender saw. `observed` and `took` differ when an answer after `DATA` is lost. A transaction is one atomic action
when it commits (`AuditCommits`, `PersistCommits`); its attempts that fail are actions of their own, with the three
outcomes `runTransactionAttempt` tells apart, and a commit in doubt another (`AuditCommitUnknown`; not on SQLite,
`retry.go:68`). The client (`Submit`, `ClientTimeout`, `Reply`), the owner (`UserMoves` ... `UserReapsEmail`) and
`Crash` interleave freely. `touched`, `dbFault` and `abandoned` are history variables.

`AuditLedger` is what the audit promises, without any of that: five states of an entry and five operations. The ledger
is seen through `EntryOf`, `RefusedOf` and `AnswerOf`; `ImplementsLedger` says that every behaviour of `OutgoingAudit`
is one of the ledger.

### ImapIdle

One user (users do not share entries) with several connections. `live` is the `idleConnections` object in
`userConnects`, `writers` the entries of all objects that were ever made, `cleanup` the goroutines that have not
finished. The two mutexes make registration and cleanup atomic; `IdleNotice` is four steps, because it releases the
locks after the copy: `Snapshot`, and for each connection `CountMessages` and `Write`. Between the saving of a mail
(`Store`) and its notice the same goroutine runs the rules (`RunRules`); a FORWARD is delivered there, and the host may
hold it (`held`) until it lets go (`HostLetsGo`), or for ever. `heard` and `told` record what a client learnt in its
current IDLE.

### PluginRegistry

`hooks.Init`, which walks the files in order, as the steps between which plugins can die: start, wait for the socket,
ask for the name, register, record the name. Each process has its cleanup goroutine, in three steps (`ReadName`,
`RemoveHook`, `RemoveSocket`), as in the code, where the lock of the name and the lock of the list are different ones.
`Stop` and `Restart` give the next generation of processes the same names and socket paths. A process is identified by
its executable and its `Init`, a hook by the name it announced (`Announced`), which may be that of another plugin, or by
the name of its file when it gave no answer. The five seconds `res_init` waits before it loads the plugins again need
not suffice for the cleanup goroutines of killed processes: `outlived` notes those they did not suffice for.

### MailStore

The presence of rows in `email` and `user_email`. `DelByUID` opens a session and never calls `Begin`, so each of its
statements is an action (`Lookup`, `Drop`, `Count`, `Reap`); each may fail, and what the code does then (return an
error, return success, or go on) is in the same action. `DelEmail` is a transaction: what it has deleted is in
`undone`, invisible to the others and locked until `ForceCommit` or `ForceRollback`. `Connection` is the difference
between the databases: SQLite has one connection, so that nothing runs beside a transaction; the others have many.
COPY and the end of the web's Send insert relations on their own (`late`); delivery inserts mail and relations at once.

### Delivery

One message in `doSend`. The grouping loop (`Lookup`, a turn per recipient, with an MX lookup of its own each) fills
`tos`, `lookupError` and `failover` as the code fills `toByDomain`, `mxLookupErrors` and `mxFailoverMap`; a key of
`tos` is an `mxDomain`, that is a domain with the first MX its lookup gave. `Start` is `WaitProcess`, `session[k]` the
goroutine of group `k`: which host, which of the ways to it (`tryDeliverToMX`: STARTTLS, STARTTLS under a name of the
certificate, TLS on 587 and 465, plain 25) and which command of that way's script. `Answer`, `Refuse`, `HostStores`,
`Accepted` and `AnswerLost` are the remote host, `Retry` and `RecordFailure` the failover loop, `Return` the verdict of
`delivery_error.go`. `errMap` is keyed by `Label`, since the code forgets the MX host there. Relay and SES are one group
with a script of their own. `copies`, `lost` and `refused` are what the hosts really did.

### Sender

What `deliverOutgoingEmail` expects of the `outgoingSender` it is given, and what `doSend` is to it: a set of targets
(the keys of `errMap`), each of which gets one final result, then one answer. A target that is not reported as failed
holds a copy; one that is may hold one as well (a lost answer), except for a relay that refused for good; the answer is
the verdict on all results. It is the seam between two modules that were each too large to be checked as one. From
below, `ImplementsSender` is a property of `Delivery`: a label has its result once all groups under it have ended, and
hosts, ports, retries and answers are stutters. From above, `DomainResult` and `RelayResult` of `OutgoingAudit` are the
results of a `Sender` (proved; there the domains are given and the relay answers for all of them in one step). A copy
counts in both from the moment the result of its target is known.

### Folders

The table `group`, the columns `status` and `group_id` of the user's relations, and the folder named by a MOVE rule.
`cmd[c]` is the command of a session between two of its statements: CREATE looks a segment up (`CreateFind`) and inserts
it (`CreateInsert`), RENAME is `RenameFind` and `RenameUpdate`, DELETE finds the folder, collects the subtree query by
query (`Scan`), deletes the rows (`Drop`) and releases the mails (`Unfile`); `Crash` stops all commands where they are.
A name that leads nowhere is the id 0, as in the code. `LayerName` is the path `getLayerName` computes, `path` the one
that is cached in `full_path`, `Shown` the tree the web builds. Any query may fail: where the code drops the error it
goes on with what it has (`Lookup` finds nothing, `Answers` are the paths cut short, `Scan` finds no children),
elsewhere the command ends (`Fails`). The history variables name the excuses of the properties: `renamed`, `rival`
(created while somebody else changed the table, or after a lookup that failed), `garbled` (a path computed with a query
that failed), `stray` (not taken by the deletion of the parent), `lateFiled`, `torn`.

### Mailbox, Search

All relations of one user, with the columns `email_id`, `status`, `group_id` and `is_read`; the id of a row is its UID.
`Inside`, `Direct`, `ByNumber`, `ByUid`, `Shown` and `Listing` are the SQL of `services/list` and the map by mail id it
is put in. An IMAP session is told numbers (`told`: by FETCH, UID FETCH or SEARCH), later issues a command for ranges of
them (`meant` is what the client means), and the command looks its ranges up (`Lookup`) and handles row after row
(`Store`, `Write`, `DelFind`/`DelRow`, `Move`, `Copy`). Two commands do not look anything up: UID EXPUNGE hands every id
of its ranges to `DelByUID` (`Expunge`), and STORE FLAGS and -FLAGS answer OK for nothing (`Ignore`; STORE -FLAGS lists
its messages and drops the list). `Fails` is a statement of a command that fails, with or without notice. POP3
(`PopLogin` ... `Quit`), the web (`WebFind`/`WebRead`, `WebMove`, `WebDelete`), arriving mail and its rules (`Arrive`,
`DoRule`, `forwardToLocalUser`) go on meanwhile. When a lookup gives a row that was not meant, or a command ends with a
row undone, the *reasons* that held at its statements are noted in `wrong` and `kept`; the properties say that every
deviation has one of the named reasons: for a row that was not meant `changed`, `filed`, `subset`, `twin` or, of UID
EXPUNGE alone, `span`; for a row left undone one of the first four, `ranges`, `open`, `star`, `ignored`, `gap`, `stale`
or `failed` (`Why` says what each is). xorm's treatment of beans (zero columns are neither compared nor written) is in
`StillMatches` and `WriteBack`.

`Search` adds SEARCH. The criteria are a tree, and evaluating a NOT or an OR is a search that reads the mailbox again. A
search is therefore the sequence of its nodes in the order in which the code comes to them, a node before those it
needs, which it names by their positions. `SearchRows` is the statement of one node; `SearchMails` reads the mails for
a node that asks for dates, sizes or texts (a mail that has gone meanwhile is not found; if the statement
fails, the rows stay as they are); `SearchEmails` is the answer of a
node, filter by filter as `imap_search.go`, from what the nodes after it found. The instance writes its searches with
`Key EXCEPT`. `Matches` is the reference: what the criteria mean for one row of a table that stands still.
`SearchIsExact` compares the two for every row that stood still while the nodes read one after the other. Times are
ticks of eight hours of UTC, so that the zone of the server, UTC+8, is one tick ahead (`Local`): `truncateToDate` gives
the midnight of the key's zone, as the code, `Means` compares days where the mail is stored. Ranges of sets are kept as
the client wrote them, `*` included (`NumRange`), and `Contains` is what the library makes of them.

### Lifecycle

`res_init.Init` is `phase`; `server[<<s, t>>]` the goroutine of server `s` in turn `t` of the loop: it reads
`public.crt` (`Read`), then `private.key` (`Make`), and binds the port (`Listen`). Its global variable is set before
both reads by SMTP (`Early`) and after both by POP3 and IMAP (`Late`); the HTTPS server binds its port before it reads,
and is taken to read first, since either failure ends the process. `Restart` receives from `RestartChan` and closes what
the global variables name (`Closed`), which need not be what runs. A certificate is a number with an expiry (`Expiry`),
which is all that the daily check compares (`Updated`); `key` and `crt` are the two files, each truncated and then
written, one after the other (`OpenKey`, `WriteKey`, `OpenCrt`, `WriteCrt`; 0 is an empty or missing file) by the start
(`ssl.Update(false)`), the daily task (`ssl.Update(true)`), the setup page, or an administrator. `caught` notes the
servers that read while somebody was writing. `down` is why the process died: its port taken, files that do not fit, a
refused renewal, an invalid certificate at the start of the daily check. Left out: the plain HTTP server (no
certificate), `StopChan` (nothing sends to it), the database and the plugins (`PluginRegistry`), a reboot after death.
`CheckSSLCrtInfo` reads both files too, but whatever it finds is what an instant between its reads shows. `Settled` says
that in the five seconds of the pause every goroutine that was started has got where it gets.

## 4. Runs

| Run | Instance | States | Shows |
|---|---|---|---|
| `audit_sqlite` | 1 message, 2 calls, 2 domains, 1 relation, 2 attempts | 2.3 M | the safety properties of a submission and its retry |
| `audit_networked` | 1 call, 2 relations, commit in doubt | 8 449 | the inductive invariant of the proofs, types included |
| `audit_ledger` | 1 call, 3 attempts, fairness | 20 893 | refinement of the ledger; the local work ends |
| `idle` | 2 connections, 2 IDLEs each, 2 mailboxes, 1 mail, fairness | 259 248 | the registry drains, a first IDLE is registered and hears |
| `idle_reordered` | 2 mails, 1 IDLE | stops | the sizes told can be out of order |
| `plugins` | 2 plugins of one name, 1 restart with 1 late cleanup, fairness | 532 263 | live plugins stay, dead ones leave, loading ends |
| `mailstore` | 3 connections of 2 users, 1 mail, 3 relations, 2 ids per command | 3.0 M | every missing and every left-over mail has a cause |
| `mailstore_reaped` | 2 connections of one user, SQLite | stops | a mail deleted although somebody has it |
| `delivery` | 2 recipients, 3 domains with 0 to 2 MX, relay, SES, 1 lost answer, fairness | 167 975 | nobody forgotten, no needless copy, bounces deserved, refinement of `Sender`, only silence delays |
| `folders` | 2 sessions, 3 commands, a tree of 2, 2 new folders, 2 relations | 2.5 M | lost mails, hidden folders, false paths and doubled names have causes; deletion is contained |
| `mailbox` | 1 IMAP and 1 POP3 session, the web, 1 rule, 3 mails, 4 relations, 2 commands, 13 searches | 3.0 M | deviations have causes, the inbox is left for good, searches are exact |
| `lifecycle` | 1 early and 1 late server, 2 setup requests, 3 certificates (2 of one expiry), 1 restart, fairness | 2.6 M | deaths and stale certificates have causes, a restart is served |

A property named `...IsExplained` has a list of excuses; each excuse is there because TLC finds a behaviour without it,
and that behaviour is described below.

`CHECK_DEADLOCK FALSE` everywhere: with all calls, commands, relations or restarts used up the modelled system has
nothing left to do; that something that must go on does go on is what the liveness properties say.

**Bounds.** `Call`, `MaxIdle`, `MaxInit`, `MaxLate`, `MaxRelation`, `MaxCommand`, `MaxLost`, `MaxCert`, `MaxLoad` and
the set `Mail` bound what happens in one behaviour, never what may overlap. Two calls are what a duplicate takes, and
two domains what a partial delivery takes; two relations are what makes `requireOneAffected` refuse; two attempts give
one retry, three all that the code has. Two IDLEs are what the late goroutine of the first needs, and two mailboxes what
a notice of another mailbox needs. One restart gives two generations of each plugin and two turns of the loop; two
plugins of one name and one late cleanup are one namesake each way. Three relations allow a mail of two users with a
copy beside; three connections allow two of one user (web and IMAP) and one of another, which is what it takes for a
deletion to race with a copy while somebody else holds the mail. Two recipients share a group, split it when the MX
changes between their lookups, or have one of the special domains; one lost answer is what a second copy takes. Three
folder commands are a race of two with a command before or after it, and the tree has a folder below another. In
`mailbox` two commands are one that is in progress and one that disturbs it, beside arrivals, rules and the POP3 QUIT,
which are not counted; the three initial tables have a filed mail among three, a mail with a copy in another mailbox
beside which another arrives, and a mail with two relations in the inbox and another between them. Three certificates
are one at the start and two renewals, enough for two that are concurrent, and for a reissue with the expiry of the one
before. `MaxLate` bounds how many cleanups one restart does not wait for. The proofs remove the bounds for the
properties they cover.

**Fairness.** `OutgoingAudit`: weak fairness of the steps a call takes by itself; database calls, plugin calls (10 s)
and lock waits (1 s) have timeouts. Nothing is assumed of remote hosts (`utils/smtp` bounds the dial only), clients or
owners. `ImapIdle`: goroutines are scheduled, cleanups and the rules and notices of a mail (plugins have timeouts);
clients, senders of mail and the hosts rules forward to owe nothing, so that `FirstIdleHears` excuses a mail that such a
host holds. `PluginRegistry`: `hooks.Init` goes on (it polls five times a second apart, and the HTTP client has a
timeout) and so does each cleanup goroutine once its process is gone; plugins need not exit and the server need not be
restarted. `Delivery`: weak fairness of `Timely`, the code's own steps, the lookups (the resolver times out) and the
connection to the relay and to SES, which have deadlines; a host that is talked to directly owes nothing once the dial
has succeeded. `Lifecycle`: the loop and the goroutines of the servers are scheduled and wait for nothing without a
bound (`waitHTTPReady` gives up, the ACME client has deadlines); nobody need ask for a restart, install or obtain a
certificate. `MailStore`, `Folders` and `Mailbox` state no liveness: every command is a finite sequence of statements.

**Where the code does not do what it, or its tests, say.** Two runs end in a counterexample (`findings` in
`PROJECT.json` has the quotes):

- `idle_reordered`: notices count and write outside the locks; the older count can be written last.
- `mailstore_reaped`: `DelByUID` counts and deletes without a transaction, so that even on SQLite COPY can insert a
  relation in between, which loses its mail. `DanglingIsExplained` is what still holds: only late relations are exposed.

The others are excuses of the `...IsExplained` properties, or were met in translating. Without the excuse, or with the
guard that the text expects, TLC finds the behaviour.

*IDLE and plugins.* The goroutine of an IDLE deletes by a key that the next IDLE of the connection shares; if it runs
late, that one idles unregistered (`session_idle.go:47`; hence "first IDLE" in the properties). The name of a plugin is
recorded after its registration, so one that dies between the two stays in `HookList` (`hooks/base.go:325`, against the
comment at 288-290). Two plugins that announce one name share an entry, and the first of them to die takes it; a cleanup
that outlasts the pause before a restart takes the entry or the socket of the next generation. A rule that forwards to a
host that falls silent keeps the notices of the mail, and the `DATA` of its sender, for ever (`smtp.go:64`).

*Delivery.* A 4xx from one MX followed by a 5xx or an unknown name from the next is answered 550, although
`delivery_error.go:16-18` wants 451 unless every failure is permanent; groups of one domain overwrite each other's entry
in `errMap`. The relay's or the SES host's own name not being found is reported as 550. An address without exactly one
`@` is skipped and counted as delivered (`send.go:114`). SES in raw mode sends to the header's To and Cc
(`relay.go:73`). A panic in the goroutine of a domain is logged and counts as success (`async.go:44`). `RCPT` compares
domains without regard to case, `incomingAccounts` with (`audit_persistence.go:179`). A rule's raw forward that failed,
even for good, is tried again as a new mail (`rule.go:111`).

*Folders.* `DelGroup` has the comment "开启一个事务" (open a transaction) and no `Begin` (`group.go:74`): if the process or
the second statement fails the mails of the deleted folder are in no mailbox. DELETE of a name that is not there deletes
every folder. CREATE of a path whose last name exists anywhere answers OK and creates nothing. RENAME leaves the cached
paths below it as they were, and does not look whether the new name is taken. A rule keeps filing into a deleted folder.
Errors of queries are dropped: of the lookup in `CreateGroup` (a second folder of the name), in `getLayerName` (a path
without its first names is stored), in `getAllChildId` (the folder goes and its children are not seen any more).

*Numbers and listings.* Counts and SEARCH numbers include mails filed in folders, FETCH and STORE numbers do not; UID
ranges in INBOX reach filed mails; UID FETCH numbers its own result from 1; listings of a folder by UID or number are
always empty, because the SQL lacks a parameter. MOVE and COPY keep only the last of several ranges. Of two relations to
one mail a listing shows one. `DelByUID` ends with success at the first id that is not the user's (`del_email.go:71`),
so UID EXPUNGE of a range with a gap keeps the rest, and skips a row another session changed after the lookup. STAT of
POP3 counts mails LIST does not show; QUIT answers OK when the deletion failed. UIDNEXT leaves out filed mails, and a
moved mail keeps a UID below it. UID EXPUNGE deletes every id of its ranges, also those of other mailboxes, and skips a
range that ends in `*`; a listing of `*` alone is empty; STORE FLAGS and -FLAGS answer OK and change nothing
(`session_store.go:16`, `44`). `Poll` writes the relations made since the connection began as EXISTS (not modelled).
Reading on the web writes back the status and folder that were found, unless they are zero: a mail moved meanwhile from
one folder to another goes back, but never into the inbox, which is `InboxIsCommanded`.

*Rules and search.* `GetAllRules` asks for `Decr("sort")`, which adds no `ORDER BY`: rules run in the order of the
table. A rule that moves to a default mailbox also sets the type of the mail for all its users; one that moves to Sent
sets the status of the inbox. Only `\Seen` is ever found by SEARCH, the sides of several ORs are united, SEARCH of `*`
finds nothing, and TEXT leaves out Reply-To and Sender, against "full criteria support" (`session_search.go:11`).
Stored times are in UTC+8 (`config.go:170`) and the dates of a search in UTC, and they are compared as instants: a mail of
2 January 05:00 is not found by SINCE 2-Jan, against "only date is used, time and timezone are ignored"
(`imap_search.go:21`). `SearchIsExact` holds where the zones agree about the day (`ZonesAgree`), and only there.

*Lifecycle.* A signal that waits on `RestartChan` while the servers start is served the moment the loop gets there;
`Stop` then closes the instance of the turn before, or none, the port stays taken, and the next turn dies of it. The
start and the daily task renew at the same time and mix the two files; the next server that loads them ends the process.
A server that reads them while a single task writes them ends it too.
What the start renews restarts nothing, so SMTP and HTTPS keep the old certificate until another restart.
`renewCertificate` panics when the ACME server refuses. The daily check of a certificate of one's own panics if it has
expired at the start, and restarts the server every day if it expires later. It compares expiries
(`ssl_update.go:50`): a certificate replaced by another of the same expiry restarts nothing and the servers stay stale,
against the comment at line 36, "check every day whether the certificate has been updated, and restart if so"; it is the
excuse `Mistaken` of `StaleIsExplained`. In ACME mode the setup page reports success
when certificate files exist already, but nobody calls `Finish` and the setup never ends; a second `Finish` waits for
ever.

## 5. Proofs

Assumptions: the named `ASSUME`s of the modules, no bound on any constant except where the module names one. One
theorem has a hypothesis of its own, `Distinct`, which is said where it is described. Every safety
invariant, action property and refinement of a passing run is a theorem.

None of the properties is inductive. In every module `IInv` (or what is named below) is the strengthening, and the
proof has one lemma per action, frame lemmas for what an action leaves alone, and a last step for the behaviours.

**OutgoingAudit** (`OutgoingAuditProofs`, for any sets of messages, calls, domains and relation slots, any number of
attempts, both kinds of database). `TypeCorrect` first, by groups of actions (`TypeOK` is part of `IInv`). `IInv` adds
two parts: `CallInv(c)` says which rows and replies go with each phase of a call — a row that was not touched is
`pending` as long as the call delivers, a final status fits what was observed, an answer fits both — and `ClientInv`
says that of all calls for one message at most one still decides what the client does next (`Holds`). `Audited`,
`Agreement`, `StatusTruth`, `StopIsSafe`, `DuplicatesExplained` and `PendingExplained` follow from `IInv` without
looking at a step; `SettledForGood` is a property of steps proved under `IInv`. `IInv` is also checked by TLC in
`audit_networked`.

**Refinement** (in the same module). `KeepsLedger`: initial states map to initial states, and under `IInv` every action
is a step of the ledger or a stutter. Commits in doubt are the interesting case: `AuditCommitUnknown` is `Record` with
the answer *unrecorded*, `PersistCommitUnknown` settles the entry and `PersistGivesUp` concludes without settling it.

**Composition.** `HearsTheSender` and `PassesTheVerdict` (in the same module) say that while a call delivers, what may
reach it is exactly what a `Sender` may do, in both directions, and that what it answers for the remote hosts is the
`Sender`'s verdict. With `SendsAsExpected` below, what is proved of submissions holds of them with the deliveries that
`doSend` really makes; the one difference that is not followed is that `RelayResult` gives the relay's one result to
every domain, which is how the audit sees it.

**MailStore** (`MailStoreProofs`, for any users, connections and mails). `DeliveredKeepsMail` is
`DanglingIsExplained`. The decision to delete a mail is taken by a count and carried out later, so the invariant must
say what stays true in between: for a `DelByUID` in `reap` every relation to its mail is late (`Reaping`), and for a
transaction every relation it will leave to a mail it deleted is late (`Committing`). Both survive the steps of others
because relations that are not late come with a mail that was never saved before, and those who work on a mail work on
a saved one (`Stored`, `Working`, `Forcing`, `Copying`). `OrphansAreExplained` is the opposite, a mail that nobody has.
What a transaction takes away is undecided: the others still count it, and it does not see what they have not
committed. `OInv` therefore says what a transaction that has counted leaves behind whichever way it ends (`Held`), and
that of two transactions on one mail the second to count has met the locks of the first (`Met`), which is when the mail
is noted in `overlapped`. `TypeOK` of this module is proved (`TypeCorrect`) and part of
the invariants, and no run needs to check it.

**ImapIdle** (`ImapIdleProofs`, any connections, mailboxes, mails and number of IDLEs). `Invariance` is
`RegistryInv`. That a connection in its first IDLE is registered needs to know that no goroutine removes an entry which
is not its own. Entries are removed by a key that only a second IDLE of the same connection shares; until there is one,
the goroutines and the entries are the same set, all of it in the one object that `userConnects` holds.
`SnapshotIsComplete` is an action property that follows: a notice that copies the connections of the user while
each is in its first IDLE misses none that idles.

**PluginRegistry** (`PluginRegistryProofs`, any number of plugins and restarts). `HooksAreExplained` is `HooksInv`:
within one `Init` no two processes share a file or a socket number (`Walking`, `Numbering`), and a hook is one its
process is recorded under or about to be (`Hooked`), which the process is until it died before the record.
`LivePluginsStay` has no hypothesis. Names need not be different, and processes of an earlier `Init` share names and
sockets with those of this one; what a cleanup removes was its own, or that of a process recorded under the same name,
or its `Init` is an earlier one and it was not done when the next began. `GInv` is the invariant: a live, recorded
process holds its entry and its socket as long as no such other process exists, and of the cleanups of an earlier `Init`
only the ones noted in `outlived` have something left to do.

**Delivery** (`DeliveryProofs`, any recipients, domains, MX hosts and answers of the DNS). `Progress(k)` says of each
group, at each point of its connection, how many copies its hosts hold beyond those whose answer was lost, what it has
heard, and once it has ended that its recipients are named in the error or their message is at a host; `Grouped` that
the loop has put every recipient it has handled into a group or skipped it as malformed; `Recorded` that a cause in
`errMap` is that of a group that ended. `Forgotten`, `NoDuplicates`, `BouncesAreExplained` follow; `RefusalIsFinal` is
the action property `PermanentIsFinal`, that nobody talks to a domain again which has refused for good.
`SendsAsExpected` is the refinement of `Sender`. It needs two facts more (`RefinementInvariance`): every group that
failed has a cause under its label, and recipients are in the error exactly if there are causes (`Causes`; both are kept
by different statements of the goroutines); and the one connection to the relay is not repeated once its answer is lost
(`AskedOnce`), so that a relay that refused for good has no copy. A step of one group leaves the other labels as they
are (`OtherLabels`); the last group of a label to end gives it its result (`EndStep`), of which `Truthful` says that it
is allowed.

**Folders** (`FoldersProofs`, any sessions, names, paths, relations, initial tree and number of commands). What the
model computes up the tree (`LayerName`, the folders above, the depth) is recursive; a parent is older than its
children, so facts about it follow from the least folder that would contradict them (`WFMin` of the library, no
induction over a predicate). Then `Paths`: a cached path is the computed one unless a query failed when it was computed
or something above was renamed or deleted, also while it is computed and not yet written (`Computing`); `Deleting`: a
deletion under way has read or will read all that hangs below what it has read, unless it came while it ran or the query
for it failed; `Removals`: what is gone was deleted, and what its deletion did not take is noted (`stray`).
`FiledMailsAreExplained`, `HiddenFoldersAreExplained`, `CachedPathsAreTrue` and the action property
`DeletionsAreContained` follow. `NamesStayUnique` assumes `Distinct`, that the folders of the initial tree have
different names: the code does not keep the table so, it only does not make it worse without a race, a rename or a
lookup that failed (which leaves the command not `Alone`).

**Mailbox** (`MailboxProofs`, any sessions, mailboxes, rules, mails and bounds). A command is told of messages, issued,
looked up and carried out in steps of their own while everybody else changes the table. `CommandInv` ties them together:
what a session was told is what the table showed (`Telling`), what it means is what its ranges name in that (`Naming`),
and as long as no reason has been noted all that it means is done, listed or named by a range that is still to be looked
up (`Covered`). `LookupSees` is the heart: if no reason holds, a range looked up in the table gives the rows it gave
when it was told. UID EXPUNGE has no lookup: what it takes beyond what was meant is outside the mailbox, or a reason
holds. `HitsAreExplained`, `KeptAreExplained` and `InboxIsLeftForGood` follow. The attempt to prove the first showed
that it was false: the row of a doubled mail that the listing had hidden can be in a range that the one it showed is not
in, which takes a table larger than those the run had. `twin` is the reason that was missing, and the third initial
table has the case.

**Search** (in the same module, any criteria, however deep, and any contents). `SearchInvariance` carries the invariants
of `Mailbox` through searches (`SearchesDisturbNothing`) and adds `ReadsInv`, that the statements of a search keep the
order of its nodes. `SearchesAreExact` is then a fact about the operators. What the answer of a node is depends on those
of the nodes it names, which come later: the answers (`FoundIs`), the meanings (`MatchesIs`) and their agreement
(`NodeIs`) follow from the last position that would contradict them (`WFMin` of the library, no induction over a
predicate). Node by node, the filters are each local to a row (`FilteredLocal`, `MeetsLocal`), so that a row that stood
still passes them in every table that was read, if it passes them in the first. That the zones agree about its days
(`ZonesAgree`) is what makes the comparison of instants one of days.

**Lifecycle** (`LifecycleProofs`, any servers, setup requests, number of certificates and restarts).
`DeathsAreExplained` and `StaleCertificatesAreExplained` rest on three chains of facts: as long as `Stop` missed no
server, whatever runs belongs to the turn of the loop, is what the global variables name, and holds no port after a
restart (`Ports`, `Unmissed`); files that nobody is writing and nobody left half written (`Rest`) are of one
certificate, and a server between its two reads has read what is there unless it was `caught` by a writer (`Unmet`); and
a certificate is written once, so that one which the daily check has seen, or which restarted the servers, has been
there ever since and what was started after it has loaded it (`Fresh`, `Whole`, `Reloaded`).

Only model-checked: liveness (`LocalWorkEnds`, `RegistryDrains`, `FirstIdleHears`, `DeadPluginLeaves`, `LoadingEnds`,
`OnlySilenceDelays`, `RestartIsServed`), because the proof system handles neither `ENABLED` nor, therefore, weak
fairness. The two properties that runs refute (`ToldIsSize`, `ReapedIsUnowned`) are false.

## 6. Not modelled

- Conversions (parsing and building of mails, DKIM and SPF, UTF-7, the text of answers), the classifier and push
  plugins, login, sessions and settings, and the front end: no state shared beyond single statements, and the models are
  about what happens to a mail, not about what is in it. Whether a mail meets a rule or a recipient exists is a choice
  of the environment.
- Hooks are taken to return (the HTTP client has a timeout); what they change in a message is not followed.
- A panic inside the goroutine of a domain (`utils/async` recovers it): no input is known that causes one.
- `Poll`, `STATUS`, `SELECT` and the POP3 listings only write numbers; what is wrong with them is said above.
- In `Mailbox` there is one folder and the tree does not change (that is `Folders`), one user, the flags \Seen and
  \Deleted only, and no failing statement but those of IMAP commands (`Fails`) and searches. The Date header is not
  stored; the SENT keys are about the time the server noted, as in the code. The instances of `Search` have no criteria
  with two ORs at one node, which the code does not evaluate as the protocol means them.
- A reboot after the process died, the steps of the setup page before the certificate, and table migration, which runs
  before any server starts.
