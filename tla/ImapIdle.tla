------------------------------ MODULE ImapIdle ------------------------------
(***************************************************************************)
(* The registry of IMAP connections in IDLE and the notices of new mail:   *)
(* serverSession.Idle, its cleanup goroutine and IdleNotice.               *)
(*                                                                         *)
(* The registry is keyed by user and every user has an entry of their own, *)
(* so the model follows one user.  The commands of a connection run one    *)
(* after the other; connections, cleanup goroutines and the SMTP sessions  *)
(* that call IdleNotice run concurrently.                                  *)
(***************************************************************************)
EXTENDS Naturals, FiniteSets

CONSTANTS Session,    \* connections of the user (their log ids are distinct)
          Box,        \* mailboxes
          Mail,       \* mails that arrive
          MaxIdle     \* bound: IDLE commands of one connection

ASSUME IdleAssumption == MaxIdle \in Nat \ {0} /\ IsFiniteSet(Mail)

VARIABLES
    mailbox,    \* currentMailbox of each session
    idle,       \* sessions in IDLE
    nth,        \* IDLE commands run by each session so far
    live,       \* the idleConnections userConnects holds for the user, 0 if none
    made,       \* idleConnections made so far
    writers,    \* the entries of every idleConnections
    cleanup,    \* cleanup goroutines that are not done
    size,       \* messages in each mailbox
    phase,      \* progress of each mail: its rules, then its IdleNotice
    todo,       \* connections a notice copied and has not served yet
    counted,    \* what a notice is about to write
    told,       \* last EXISTS a notice wrote to each session in its current IDLE
    heard       \* mails whose notice reached each session in its current IDLE

sessionVars  == <<mailbox, idle, nth>>
registryVars == <<live, made, writers, cleanup>>
noticeVars   == <<size, phase, todo, counted>>
clientVars   == <<told, heard>>
vars == <<sessionVars, registryVars, noticeVars, clientVars>>

Writer == [object : Nat \ {0}, session : Session, nth : 1..MaxIdle, box : Box]
Entry  == [session : Session, box : Box]
Count  == 0 .. Cardinality(Mail)

TypeOK ==
    /\ mailbox \in [Session -> Box]
    /\ idle \subseteq Session
    /\ nth \in [Session -> 0..MaxIdle]
    /\ made \in Nat
    /\ live \in 0..made
    /\ live # 0 => \E w \in writers : w.object = live
    /\ writers \subseteq Writer
    /\ cleanup \subseteq Writer
    /\ size \in [Box -> Count]
    /\ phase \in [Mail -> {"none", "stored", "held", "ruled", "sending", "done"}]
    /\ todo \in [Mail -> SUBSET Entry]
    /\ counted \in [Mail -> SUBSET [session : Session, box : Box, n : Count]]
    /\ told \in [Session -> Count]
    /\ heard \in [Session -> SUBSET Mail]

Init ==
    /\ mailbox \in [Session -> Box]
    /\ idle = {}
    /\ nth = [s \in Session |-> 0]
    /\ live = 0
    /\ made = 0
    /\ writers = {}
    /\ cleanup = {}
    /\ size = [b \in Box |-> 0]
    /\ phase = [m \in Mail |-> "none"]
    /\ todo = [m \in Mail |-> {}]
    /\ counted = [m \in Mail |-> {}]
    /\ told = [s \in Session |-> 0]
    /\ heard = [s \in Session |-> {}]

\* writers[logId] of one idleConnections
SameKey(w, v) == w.object = v.object /\ w.session = v.session

-----------------------------------------------------------------------------
\* A connection

Select(s, b) ==
    /\ s \notin idle
    /\ mailbox' = [mailbox EXCEPT ![s] = b]
    /\ UNCHANGED <<idle, nth, registryVars, noticeVars, clientVars>>

\* The idleConnections a new IDLE joins: the one of the user or a fresh one.
Register(s) == IF live = 0 THEN made + 1 ELSE live

\* Idle: joins the registry under userConnectsMu and starts the goroutine that
\* waits for stop.
Idle(s) ==
    /\ s \notin idle
    /\ nth[s] < MaxIdle
    /\ LET o == Register(s)
           w == [object |-> o, session |-> s, nth |-> nth[s] + 1, box |-> mailbox[s]]
       IN /\ live' = o
          /\ made' = IF o > made THEN o ELSE made
          /\ writers' = {v \in writers : ~SameKey(v, w)} \cup {w}
          /\ cleanup' = cleanup \cup {w}
    /\ idle' = idle \cup {s}
    /\ nth' = [nth EXCEPT ![s] = @ + 1]
    /\ told' = [told EXCEPT ![s] = 0]
    /\ heard' = [heard EXCEPT ![s] = {}]
    /\ UNCHANGED <<mailbox, noticeVars>>

\* DONE, or the connection breaks: stop is closed, the goroutine may run later.
Done(s) ==
    /\ s \in idle
    /\ idle' = idle \ {s}
    /\ UNCHANGED <<mailbox, nth, registryVars, noticeVars, clientVars>>

Stopped(c) == c.session \notin idle \/ nth[c.session] # c.nth

\* mutant: the entry of the user is dropped with the first connection that leaves
EntryAfter_Dropped(c, left) == 0

\* mutant: an empty idleConnections stays in userConnects
EntryAfter_Kept(c, left) == live

\* userConnects loses the entry of the user when c's idleConnections is empty,
\* whichever idleConnections the entry is.
EntryAfter(c, left) == IF \E w \in left : w.object = c.object THEN live ELSE 0

\* delete(connects.writers, logId): by key, whichever IDLE owns the entry now.
WritersAfter(c) == {w \in writers : ~SameKey(w, c)}

Cleanup(c) ==
    /\ c \in cleanup
    /\ Stopped(c)
    /\ writers' = WritersAfter(c)
    /\ live' = EntryAfter(c, WritersAfter(c))
    /\ cleanup' = cleanup \ {c}
    /\ UNCHANGED <<sessionVars, made, noticeVars, clientVars>>

-----------------------------------------------------------------------------
\* A mail arrives: it is saved, its rules run, then the SMTP session calls IdleNotice

Store(m) ==
    /\ phase[m] = "none"
    /\ phase' = [phase EXCEPT ![m] = "stored"]
    /\ \E b \in Box : size' = [size EXCEPT ![b] = @ + 1]
    /\ UNCHANGED <<sessionVars, registryVars, todo, counted, clientVars>>

\* The rules of its recipients: a FORWARD to another host is delivered here, by the
\* goroutine of the SMTP session; with the other actions and the plugins (which have
\* timeouts) it just goes on.
RunRules(m) ==
    /\ phase[m] = "stored"
    /\ \E p \in {"held", "ruled"} : phase' = [phase EXCEPT ![m] = p]
    /\ UNCHANGED <<sessionVars, registryVars, size, todo, counted, clientVars>>

\* The remote host of a FORWARD has answered, or closed the connection.
HostLetsGo(m) ==
    /\ phase[m] = "held"
    /\ phase' = [phase EXCEPT ![m] = "ruled"]
    /\ UNCHANGED <<sessionVars, registryVars, size, todo, counted, clientVars>>

\* mutant: the idleConnections that was made first is read, dropped or not
Connected_First == {[session |-> w.session, box |-> w.box] : w \in {v \in writers : v.object = 1}}

\* The connections registered for the user.
Connected ==
    {[session |-> w.session, box |-> w.box] : w \in {v \in writers : v.object = live}}

\* The connections are copied under the locks, which are then released.
Snapshot(m) ==
    /\ phase[m] = "ruled"
    /\ phase' = [phase EXCEPT ![m] = "sending"]
    /\ todo' = [todo EXCEPT ![m] = Connected]
    /\ UNCHANGED <<sessionVars, registryVars, size, counted, clientVars>>

\* idleNumMessages: the mailbox the connection had when it entered IDLE.
CountMessages(m) ==
    /\ phase[m] = "sending"
    /\ counted[m] = {}
    /\ \E e \in todo[m] :
         /\ counted' = [counted EXCEPT
              ![m] = {[session |-> e.session, box |-> e.box, n |-> size[e.box]]}]
         /\ todo' = [todo EXCEPT ![m] = @ \ {e}]
    /\ UNCHANGED <<sessionVars, registryVars, size, phase, clientVars>>

\* WriteNumMessages: an EXISTS on the connection, whatever it does by now.
Write(m) ==
    /\ \E e \in counted[m] :
         /\ told' = [told EXCEPT ![e.session] = e.n]
         /\ heard' = [heard EXCEPT ![e.session] = @ \cup {m}]
    /\ counted' = [counted EXCEPT ![m] = {}]
    /\ UNCHANGED <<sessionVars, registryVars, size, phase, todo>>

Return(m) ==
    /\ phase[m] = "sending"
    /\ todo[m] = {}
    /\ counted[m] = {}
    /\ phase' = [phase EXCEPT ![m] = "done"]
    /\ UNCHANGED <<sessionVars, registryVars, size, todo, counted, clientVars>>

Notice(m) == Snapshot(m) \/ CountMessages(m) \/ Write(m) \/ Return(m)

Next ==
    \/ \E s \in Session : Idle(s) \/ Done(s) \/ \E b \in Box : Select(s, b)
    \/ \E c \in cleanup : Cleanup(c)
    \/ \E m \in Mail : Store(m) \/ RunRules(m) \/ HostLetsGo(m) \/ Notice(m)

Spec == Init /\ [][Next]_vars

\* The scheduler runs every goroutine; clients, senders and the hosts that mail is
\* forwarded to owe nothing (smtp.Dial bounds the dial only).
FairSpec ==
    /\ Spec
    /\ \A s \in Session, n \in 1..MaxIdle :
          WF_vars(\E c \in cleanup : c.session = s /\ c.nth = n /\ Cleanup(c))
    /\ \A m \in Mail : WF_vars(RunRules(m) \/ Notice(m))

-----------------------------------------------------------------------------
\* Properties

Registered(s) ==
    \E w \in writers : w.object = live /\ w.session = s /\ w.nth = nth[s]

\* A connection in IDLE is known to IdleNotice, unless a connection of the same
\* user has gone into IDLE more than once: the goroutine of an earlier IDLE
\* deletes by log id, and drops the user's entry, without looking whose it is.
IdlingIsRegistered ==
    (\A s \in Session : nth[s] <= 1) => \A s \in idle : Registered(s)

\* Every entry belongs to a goroutine that will remove it, no two have the same key,
\* and every connection in IDLE has a goroutine that waits for it.
Goroutines ==
    /\ writers \subseteq cleanup
    /\ \A c \in cleanup : c.nth <= nth[c.session]
    /\ \A v, w \in writers : SameKey(v, w) => v = w
    /\ \A s \in idle : \E c \in cleanup : c.session = s /\ c.nth = nth[s]

\* As long as every connection is in its first IDLE, each goroutine has its entry,
\* in the one idleConnections that userConnects holds.
OneEntry ==
    (\A s \in Session : nth[s] <= 1) =>
        writers = cleanup /\ \A w \in writers : w.object = live

Stored == {m \in Mail : phase[m] # "none"}

\* A mailbox holds no more than what has arrived.
Sizes == \A b \in Box : size[b] <= Cardinality(Stored)

\* The registry as IdleNotice finds it: an entry that is not empty and whose
\* connections are there, each with the goroutine that will remove it.
RegistryInv == TypeOK /\ Goroutines /\ OneEntry /\ Sizes /\ IdlingIsRegistered

\* Once nobody idles the registry forgets the user (imap_server_test.go:
\* "idle connections were not cleaned up").
RegistryDrains == idle = {} ~> (live = 0 \/ idle # {})

\* The notice of a mail reaches every connection that idles after the mail was saved
\* and before the notice (imap_server_test.go: "timeout waiting for IDLE update"), as
\* long as every connection of the user is in its first IDLE.  Only a host that a
\* rule forwards the mail to can keep the notice back; when it lets go, the mail is
\* due again.
FirstIdleHears ==
    LET first == \A s \in Session : nth[s] <= 1
        due(m) == phase[m] \in {"stored", "ruled"}
    IN \A m \in Mail, s \in Session :
          (due(m) /\ s \in idle /\ first)
              ~> (m \in heard[s] \/ phase[m] = "held" \/ s \notin idle \/ ~first)

\* When every notice has returned, a connection that heard some knows the size
\* of the mailbox it has selected (imap_server_test.go: "unexpected IDLE EXISTS
\* update: got %d, want %d").
ToldIsSize ==
    (\A m \in Mail : phase[m] \in {"none", "done"}) =>
        \A s \in idle : heard[s] # {} => told[s] = size[mailbox[s]]
=============================================================================
