--------------------------- MODULE ImapIdleProofs ---------------------------
(***************************************************************************)
(* Proofs about ImapIdle, for any connections, mailboxes, mails and number *)
(* of IDLE commands.                                                       *)
(*                                                                         *)
(* That a connection in its first IDLE is registered needs to know that no *)
(* goroutine removes an entry that is not its own: keys are reused only by *)
(* a second IDLE of the same connection, so as long as there was none the  *)
(* goroutines and the entries are the same set, all of it in the one       *)
(* idleConnections that userConnects holds.                                *)
(***************************************************************************)
EXTENDS ImapIdle, FiniteSetTheorems, TLAPS

Entered(s) ==
    [object |-> Register(s), session |-> s, nth |-> nth[s] + 1, box |-> mailbox[s]]

-----------------------------------------------------------------------------
\* Types

LEMMA CountType == Cardinality(Mail) \in Nat
  BY IdleAssumption, FS_CardinalityType

LEMMA InitType == Init => TypeOK
  BY CountType, IdleAssumption DEF Init, TypeOK, Count

LEMMA EnteredType ==
    ASSUME TypeOK, NEW s \in Session, nth[s] < MaxIdle
    PROVE  Entered(s) \in Writer /\ Register(s) \in Nat \ {0}
<1>1. Register(s) \in Nat \ {0}
  BY DEF TypeOK, Register
<1>2. nth[s] + 1 \in 1..MaxIdle
  BY IdleAssumption DEF TypeOK
<1> QED
  BY <1>1, <1>2 DEF TypeOK, Entered, Writer

LEMMA IdleType ==
    ASSUME TypeOK, NEW s \in Session, Idle(s)
    PROVE  TypeOK'
<1>1. Entered(s) \in Writer /\ Register(s) \in Nat \ {0}
  BY EnteredType DEF Idle
<1>2. /\ writers' = {v \in writers : ~SameKey(v, Entered(s))} \cup {Entered(s)}
      /\ cleanup' = cleanup \cup {Entered(s)}
      /\ live' = Register(s)
      /\ made' = IF Register(s) > made THEN Register(s) ELSE made
  BY DEF Idle, Entered
<1>3. Entered(s).object = live'
  BY <1>2 DEF Entered
<1>4. live' \in 0..made' /\ made' \in Nat
  BY <1>1, <1>2 DEF TypeOK
<1>5. nth' \in [Session -> 0..MaxIdle]
  BY IdleAssumption DEF TypeOK, Idle
<1>6. writers' \subseteq Writer /\ cleanup' \subseteq Writer
  BY <1>1, <1>2 DEF TypeOK
<1>7. \E w \in writers' : w.object = live'
  BY <1>2, <1>3
<1>8. /\ idle' \subseteq Session
      /\ told' \in [Session -> Count]
      /\ heard' \in [Session -> SUBSET Mail]
  BY CountType DEF TypeOK, Idle, Count
<1> QED
  BY <1>4, <1>5, <1>6, <1>7, <1>8 DEF TypeOK, Idle, noticeVars

\* The user's entry is dropped with the last connection of an idleConnections;
\* a goroutine empties no other one than its own.
LEMMA CleanupType ==
    ASSUME TypeOK, NEW c \in cleanup, Cleanup(c)
    PROVE  TypeOK'
<1>1. writers' \subseteq writers /\ cleanup' \subseteq cleanup
  BY DEF Cleanup, WritersAfter
<1>2. live' \in {0, live}
  BY DEF Cleanup, EntryAfter
<1>3. ASSUME live' # 0 PROVE \E w \in writers' : w.object = live'
  <2>1. live' = live /\ \E w \in writers' : w.object = c.object
    BY <1>3 DEF Cleanup, EntryAfter
  <2>2. PICK w \in writers : w.object = live
    BY <1>3, <2>1 DEF TypeOK
  <2>3. CASE c.object = live
    BY <2>1, <2>3
  <2>4. CASE c.object # live
    BY <2>1, <2>2, <2>4 DEF Cleanup, WritersAfter, SameKey
  <2> QED
    BY <2>3, <2>4
<1> QED
  BY <1>1, <1>2, <1>3 DEF TypeOK, Cleanup, sessionVars, noticeVars, clientVars

\* A mail that arrives makes one mailbox one larger.
LEMMA StoreSizes ==
    ASSUME TypeOK, Sizes, NEW m \in Mail, Store(m)
    PROVE  /\ size' \in [Box -> Count]
           /\ Sizes'
<1>1. IsFiniteSet(Stored)
  BY IdleAssumption, FS_Subset DEF Stored
<1>2. m \notin Stored /\ Stored' = Stored \cup {m}
  BY DEF TypeOK, Store, Stored
<1>3. Cardinality(Stored') = Cardinality(Stored) + 1
  BY <1>1, <1>2, FS_AddElement
<1>4. Cardinality(Stored') <= Cardinality(Mail)
  <2>1. Stored' \subseteq Mail
    BY DEF Stored
  <2> QED
    BY <2>1, IdleAssumption, FS_Subset
<1>5. Cardinality(Stored) \in Nat
  BY <1>1, FS_CardinalityType
<1>6. PICK b \in Box : size' = [size EXCEPT ![b] = @ + 1]
  BY DEF Store
<1>7. \A a \in Box : size[a] \in Nat /\ size[a] <= Cardinality(Stored)
  BY CountType DEF TypeOK, Count, Sizes
<1>8. \A a \in Box : size'[a] \in Nat /\ size'[a] <= Cardinality(Stored')
  BY <1>3, <1>5, <1>6, <1>7 DEF TypeOK
<1>9. \A a \in Box : size'[a] \in Count
  BY <1>3, <1>4, <1>5, <1>8, CountType DEF Count
<1> QED
  BY <1>6, <1>8, <1>9 DEF TypeOK, Sizes

LEMMA NoticeType ==
    ASSUME TypeOK, NEW m \in Mail, Notice(m)
    PROVE  TypeOK'
<1>1. CASE Snapshot(m)
  <2>1. Connected \subseteq Entry
    BY DEF TypeOK, Connected, Entry, Writer
  <2> QED
    BY <1>1, <2>1 DEF TypeOK, Snapshot, sessionVars, registryVars, clientVars
<1>2. CASE CountMessages(m)
  <2>1. PICK e \in todo[m] :
            /\ counted' = [counted EXCEPT
                 ![m] = {[session |-> e.session, box |-> e.box, n |-> size[e.box]]}]
            /\ todo' = [todo EXCEPT ![m] = @ \ {e}]
    BY <1>2 DEF CountMessages
  <2>2. e.session \in Session /\ e.box \in Box
    BY DEF TypeOK, Entry
  <2>3. size[e.box] \in Count
    BY <2>2 DEF TypeOK
  <2> QED
    BY <1>2, <2>1, <2>2, <2>3
       DEF TypeOK, CountMessages, sessionVars, registryVars, clientVars
<1>3. CASE Write(m)
  <2>1. PICK e \in counted[m] :
            /\ told' = [told EXCEPT ![e.session] = e.n]
            /\ heard' = [heard EXCEPT ![e.session] = @ \cup {m}]
    BY <1>3 DEF Write
  <2>2. e.session \in Session /\ e.n \in Count
    BY DEF TypeOK
  <2> QED
    BY <1>3, <2>1, <2>2 DEF TypeOK, Write, sessionVars, registryVars
<1>4. CASE Return(m)
  BY <1>4 DEF TypeOK, Return, sessionVars, registryVars, clientVars
<1> QED
  BY <1>1, <1>2, <1>3, <1>4 DEF Notice

LEMMA RulesType ==
    ASSUME TypeOK, NEW m \in Mail, RunRules(m) \/ HostLetsGo(m)
    PROVE  TypeOK'
  BY DEF TypeOK, RunRules, HostLetsGo, sessionVars, registryVars, clientVars

-----------------------------------------------------------------------------
\* Goroutines and entries

LEMMA IdleGoroutines ==
    ASSUME TypeOK, Goroutines, NEW s \in Session, Idle(s)
    PROVE  Goroutines'
<1> DEFINE w == Entered(s)
<1>0. w.session = s /\ w.nth = nth[s] + 1
  BY DEF Entered
<1>1. /\ writers' = {v \in writers : ~SameKey(v, w)} \cup {w}
      /\ cleanup' = cleanup \cup {w}
      /\ nth' = [nth EXCEPT ![s] = @ + 1]
      /\ idle' = idle \cup {s}
      /\ s \notin idle
  BY DEF Idle, Entered
<1> HIDE DEF w
<1>2. writers' \subseteq cleanup'
  BY <1>1 DEF Goroutines
<1>3. \A c \in cleanup' : c.nth <= nth'[c.session]
  <2>1. \A c \in cleanup : c.session \in Session /\ c.nth \in Nat
    BY DEF TypeOK, Writer
  <2>2. \A t \in Session : nth[t] \in Nat /\ nth'[t] = IF t = s THEN nth[s] + 1 ELSE nth[t]
    BY <1>1 DEF TypeOK
  <2> QED
    BY <1>0, <1>1, <2>1, <2>2 DEF Goroutines
<1>4. \A v, x \in writers' : SameKey(v, x) => v = x
  BY <1>1 DEF Goroutines, SameKey
<1>5. \A t \in idle' : \E c \in cleanup' : c.session = t /\ c.nth = nth'[t]
  BY <1>0, <1>1 DEF Goroutines, TypeOK
<1> QED
  BY <1>2, <1>3, <1>4, <1>5 DEF Goroutines

LEMMA CleanupGoroutines ==
    ASSUME TypeOK, Goroutines, NEW c \in cleanup, Cleanup(c)
    PROVE  Goroutines'
<1>1. writers' \subseteq writers \ {c} /\ cleanup' = cleanup \ {c}
  BY DEF Cleanup, WritersAfter, SameKey
<1>2. UNCHANGED <<idle, nth>>
  BY DEF Cleanup, sessionVars
<1>3. \A s \in idle : \A d \in cleanup :
          d.session = s /\ d.nth = nth[s] => d \in cleanup'
  BY <1>1 DEF Cleanup, Stopped
<1> QED
  BY <1>1, <1>2, <1>3 DEF Goroutines

\* A connection that has not idled before joins the idleConnections the others are
\* in, and displaces nobody's entry.
LEMMA IdleOneEntry ==
    ASSUME TypeOK, Goroutines, OneEntry, NEW s \in Session, Idle(s)
    PROVE  OneEntry'
<1> SUFFICES ASSUME \A t \in Session : nth'[t] <= 1
             PROVE  writers' = cleanup' /\ \A v \in writers' : v.object = live'
  BY DEF OneEntry
<1> DEFINE w == Entered(s)
<1>1. /\ writers' = {v \in writers : ~SameKey(v, w)} \cup {w}
      /\ cleanup' = cleanup \cup {w}
      /\ live' = Register(s)
      /\ nth' = [nth EXCEPT ![s] = @ + 1]
      /\ w.object = Register(s)
      /\ w.session = s
  BY DEF Idle, Entered
<1> HIDE DEF w
<1>2. nth[s] = 0 /\ \A t \in Session : nth[t] <= 1
  <2>1. \A t \in Session : nth[t] \in Nat
    BY DEF TypeOK
  <2> QED
    BY <1>1, <2>1 DEF TypeOK
<1>3. writers = cleanup /\ \A v \in writers : v.object = live
  BY <1>2 DEF OneEntry
<1>4. \A v \in writers : v.session # s
  <2>1. \A v \in writers : v.nth \in Nat \ {0} /\ v.nth <= nth[v.session]
    BY DEF TypeOK, Goroutines, Writer
  <2> QED
    BY <1>2, <2>1
<1>5. writers' = writers \cup {w}
  BY <1>1, <1>4 DEF SameKey
<1>6. live # 0 \/ writers = {}
  BY <1>3 DEF TypeOK, Writer
<1> QED
  BY <1>1, <1>3, <1>5, <1>6 DEF Register

\* A goroutine whose connection never idled again removes its own entry, and the
\* user's entry only with the last one.
LEMMA CleanupOneEntry ==
    ASSUME TypeOK, Goroutines, OneEntry, NEW c \in cleanup, Cleanup(c)
    PROVE  OneEntry'
<1> SUFFICES ASSUME \A t \in Session : nth[t] <= 1
             PROVE  writers' = cleanup' /\ \A v \in writers' : v.object = live'
  BY DEF OneEntry, Cleanup, sessionVars
<1>1. writers = cleanup /\ \A v \in writers : v.object = live
  BY DEF OneEntry
<1>2. writers' = writers \ {c}
  BY <1>1 DEF Cleanup, WritersAfter, Goroutines, SameKey
<1>3. writers' = {} \/ live' = live
  BY <1>1, <1>2 DEF Cleanup, EntryAfter
<1> QED
  BY <1>1, <1>2, <1>3 DEF Cleanup

\* Whoever idles has a goroutine, and in a first IDLE that goroutine has its entry.
LEMMA IdlingHasEntry ==
    ASSUME Goroutines, OneEntry
    PROVE  IdlingIsRegistered
  BY DEF Goroutines, OneEntry, IdlingIsRegistered, Registered

-----------------------------------------------------------------------------
\* The invariant

LEMMA InitInv == Init => RegistryInv
<1> SUFFICES ASSUME Init PROVE RegistryInv
  OBVIOUS
<1>1. TypeOK
  BY InitType
<1>2. Goroutines /\ OneEntry
  BY DEF Init, Goroutines, OneEntry
<1>3. Sizes
  <2>1. Stored = {}
    BY DEF Init, Stored
  <2>2. Cardinality(Stored) = 0
    BY <2>1, FS_EmptySet
  <2> QED
    BY <2>2 DEF Init, Sizes
<1> QED
  BY <1>1, <1>2, <1>3, IdlingHasEntry DEF RegistryInv

LEMMA NextInv == RegistryInv /\ [Next]_vars => RegistryInv'
<1> SUFFICES ASSUME RegistryInv, [Next]_vars PROVE RegistryInv'
  OBVIOUS
<1> USE DEF RegistryInv
<1>1. ASSUME NEW s \in Session, Idle(s)
      PROVE  TypeOK' /\ Goroutines' /\ OneEntry' /\ Sizes'
  <2>1. Sizes'
    BY <1>1 DEF Idle, noticeVars, Sizes, Stored
  <2> QED
    BY <1>1, <2>1, IdleType, IdleGoroutines, IdleOneEntry
<1>2. ASSUME NEW s \in Session, Done(s) \/ \E b \in Box : Select(s, b)
      PROVE  TypeOK' /\ Goroutines' /\ OneEntry' /\ Sizes'
  <2>1. UNCHANGED <<nth, registryVars, noticeVars, clientVars>> /\ idle' \subseteq idle
    BY <1>2 DEF Done, Select
  <2>2. mailbox' \in [Session -> Box]
    BY <1>2 DEF Done, Select, TypeOK
  <2>3. TypeOK'
    BY <2>1, <2>2 DEF TypeOK, registryVars, noticeVars, clientVars
  <2>4. Goroutines' /\ OneEntry' /\ Sizes'
    BY <2>1 DEF Goroutines, OneEntry, Sizes, Stored, registryVars, noticeVars
  <2> QED
    BY <2>3, <2>4
<1>3. ASSUME NEW c \in cleanup, Cleanup(c)
      PROVE  TypeOK' /\ Goroutines' /\ OneEntry' /\ Sizes'
  <2>1. Sizes'
    BY <1>3 DEF Cleanup, noticeVars, Sizes, Stored
  <2> QED
    BY <1>3, <2>1, CleanupType, CleanupGoroutines, CleanupOneEntry
<1>4. ASSUME NEW m \in Mail, Store(m)
      PROVE  TypeOK' /\ Goroutines' /\ OneEntry' /\ Sizes'
  <2>1. size' \in [Box -> Count] /\ Sizes'
    BY <1>4, StoreSizes
  <2>2. TypeOK'
    BY <1>4, <2>1 DEF TypeOK, Store, sessionVars, registryVars, clientVars
  <2>3. Goroutines' /\ OneEntry'
    BY <1>4 DEF Store, sessionVars, registryVars, Goroutines, OneEntry
  <2> QED
    BY <2>1, <2>2, <2>3
<1>5. ASSUME NEW m \in Mail, Notice(m)
      PROVE  TypeOK' /\ Goroutines' /\ OneEntry' /\ Sizes'
  <2>1. UNCHANGED <<sessionVars, registryVars, size>>
    BY <1>5 DEF Notice, Snapshot, CountMessages, Write, Return
  <2>2. Stored' = Stored
    BY <1>5 DEF Notice, Snapshot, CountMessages, Write, Return, Stored, TypeOK
  <2>3. Goroutines' /\ OneEntry' /\ Sizes'
    BY <2>1, <2>2 DEF sessionVars, registryVars, Goroutines, OneEntry, Sizes
  <2> QED
    BY <1>5, <2>3, NoticeType
<1>6. ASSUME NEW m \in Mail, RunRules(m) \/ HostLetsGo(m)
      PROVE  TypeOK' /\ Goroutines' /\ OneEntry' /\ Sizes'
  <2>1. UNCHANGED <<sessionVars, registryVars, size>>
    BY <1>6 DEF RunRules, HostLetsGo
  <2>2. Stored' = Stored
    BY <1>6 DEF RunRules, HostLetsGo, Stored, TypeOK
  <2>3. Goroutines' /\ OneEntry' /\ Sizes'
    BY <2>1, <2>2 DEF sessionVars, registryVars, Goroutines, OneEntry, Sizes
  <2> QED
    BY <1>6, <2>3, RulesType
<1>7. CASE UNCHANGED vars
  <2>1. TypeOK'
    BY <1>7 DEF vars, sessionVars, registryVars, noticeVars, clientVars, TypeOK
  <2>2. Goroutines' /\ OneEntry' /\ Sizes'
    BY <1>7 DEF vars, sessionVars, registryVars, noticeVars, Goroutines, OneEntry,
                Sizes, Stored
  <2> QED
    BY <2>1, <2>2, <1>7
       DEF vars, sessionVars, registryVars, IdlingIsRegistered, Registered
<1>8. CASE Next
  <2>1. TypeOK' /\ Goroutines' /\ OneEntry' /\ Sizes'
    BY <1>1, <1>2, <1>3, <1>4, <1>5, <1>6, <1>8 DEF Next
  <2>2. IdlingIsRegistered'
    BY <2>1 DEF Goroutines, OneEntry, IdlingIsRegistered, Registered
  <2> QED
    BY <2>1, <2>2
<1> QED
  BY <1>7, <1>8

\* The registry stays sound under any interleaving of IDLE, DONE, the cleanup
\* goroutines and the notices (serverSession.Idle, IdleNotice): userConnects never
\* holds an empty idleConnections, every entry has the goroutine that will remove it,
\* and a connection in its first IDLE is registered where IdleNotice looks.
THEOREM Invariance == Spec => []RegistryInv
  BY InitInv, NextInv, PTL DEF Spec

\* A notice that copies the connections of the user while every connection is in its
\* first IDLE copies all that idle.
THEOREM SnapshotIsComplete ==
    Spec => [][\A m \in Mail :
                  Snapshot(m) /\ (\A s \in Session : nth[s] <= 1) =>
                      \A s \in idle : \E e \in todo'[m] : e.session = s]_vars
<1> DEFINE A == \A m \in Mail :
                  Snapshot(m) /\ (\A s \in Session : nth[s] <= 1) =>
                      \A s \in idle : \E e \in todo'[m] : e.session = s
<1>1. RegistryInv /\ [Next]_vars => [A]_vars
  <2> SUFFICES ASSUME RegistryInv, NEW m \in Mail, Snapshot(m),
                      \A s \in Session : nth[s] <= 1,
                      NEW s \in idle
               PROVE  \E e \in todo'[m] : e.session = s
    OBVIOUS
  <2>1. PICK w \in writers : w.object = live /\ w.session = s
    BY DEF RegistryInv, IdlingIsRegistered, Registered
  <2>2. [session |-> w.session, box |-> w.box] \in Connected
    BY <2>1 DEF Connected
  <2> QED
    BY <2>1, <2>2 DEF Snapshot, RegistryInv, TypeOK
<1> QED
  BY <1>1, Invariance, PTL DEF Spec
=============================================================================
