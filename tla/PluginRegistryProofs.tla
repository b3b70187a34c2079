------------------------ MODULE PluginRegistryProofs ------------------------
(***************************************************************************)
(* Proofs about PluginRegistry, for any number of plugins and restarts.    *)
(*                                                                         *)
(* HookList is keyed by name and the sockets by number, and cleanup        *)
(* removes both by key: what a cleanup takes from a live plugin needs to   *)
(* know which processes share a name or a number.  Within one Init none    *)
(* share a number, because the walk visits each file once and numbers      *)
(* processes in the order they start (IInv); those of an earlier Init are  *)
(* gone before the next one or have outlived the pause (GInv).             *)
(***************************************************************************)
EXTENDS PluginRegistry, FiniteSetTheorems, TLAPS

Busy == {"poll", "ask", "register", "record"}

\* The processes the current Init has started
Started == {p \in Proc : p[2] = inits /\ slot[p] # 0}

\* The walk goes through the files in order, one plugin at a time.
Walking ==
    /\ tried = 1..Cardinality(tried)
    /\ loader \in {"walk", "stopped"} => current = None
    /\ loader \in Busy =>
          /\ current \in Proc /\ current = <<Cardinality(tried) + 1, inits>>
          /\ slot[current] # 0 /\ registeredName[current] = None
    /\ loader \in {"register", "record"} => hkName \in Names
    /\ loader = "stopped" => alive = {}

\* Numbers are given in the order in which processes start.
Numbering ==
    /\ Cardinality(Started) <= Cardinality(tried) + (IF loader \in Busy THEN 1 ELSE 0)
    /\ \A p \in Started : p[1] \in tried \/ p = current
    /\ \A p \in Started : slot[p] <= Cardinality(Started)
    /\ \A p, q \in Started : slot[p] = slot[q] => p = q

\* A process and the goroutine that waits for it
Process(p) ==
    /\ slot[p] = 0 <=> cleanup[p] = "none"
    /\ slot[p] # 0 => p[2] <= inits
    /\ p \in alive => cleanup[p] = "wait" /\ p[2] = inits
    /\ registeredName[p] # None => slot[p] # 0
    /\ slot[p] # 0 /\ p \notin alive /\ p \notin early => registeredName[p] # None
    /\ name[p] \in {None, registeredName[p]}
    /\ cleanup[p] = "read" /\ p \notin early => name[p] = registeredName[p]

\* Every hook is one its process is recorded under, or about to be.
Hooked ==
    \A k \in Names : HookList[k] # None =>
        \/ registeredName[HookList[k]] = k
        \/ HookList[k] = current /\ loader = "record" /\ hkName = k

IInv ==
    /\ TypeOK
    /\ Walking
    /\ Numbering
    /\ \A p \in Proc : Process(p)
    /\ Hooked
    /\ DeadHookIsExplained

\* The socket of a process, from the first look at it on
SocketStays ==
    /\ \A p \in alive : socket[slot[p]] \in {None, p}
    /\ loader \in {"ask", "register", "record"} /\ current \in alive =>
          socket[slot[current]] = current \/ SharesSocket(current)

\* The hook of the plugin that is about to be recorded
HookStays ==
    loader = "record" /\ current \in alive =>
        \/ HookList[hkName] = current
        \/ \E q \in Proc : Namesake(q, current, hkName)

\* A cleanup goroutine belongs to the current Init, or has outlived the pause.
Gone ==
    /\ \A p \in Proc :
          cleanup[p] \in {"wait", "read", "removed"} => p[2] = inits \/ p \in outlived
    /\ \A p \in outlived : slot[p] # 0

GInv == IInv /\ Gone /\ SocketStays /\ HookStays /\ LivePluginStays

-----------------------------------------------------------------------------
\* Counting

LEMMA Finite ==
    ASSUME TypeOK
    PROVE  /\ IsFiniteSet(tried) /\ Cardinality(tried) \in Nat
           /\ IsFiniteSet(Started) /\ Cardinality(Started) \in Nat
           /\ Cardinality(tried) <= Plugins
<1>1. IsFiniteSet(File) /\ Cardinality(File) = Plugins /\ IsFiniteSet(1..MaxInit)
  BY PluginAssumption, FS_Interval DEF File
<1>2. IsFiniteSet(Proc)
  BY <1>1, FS_Product DEF Proc
<1>3. tried \subseteq File /\ Started \subseteq Proc
  BY DEF TypeOK, Started
<1> QED
  BY <1>1, <1>2, <1>3, FS_Subset, FS_CardinalityType

\* The next file is one the walk has not tried.
LEMMA Tried ==
    ASSUME TypeOK, tried = 1..Cardinality(tried), NEW f \in File, Walked(f)
    PROVE  /\ f \notin tried
           /\ Cardinality(tried \cup {f}) = Cardinality(tried) + 1
           /\ tried \cup {f} = 1..(Cardinality(tried) + 1)
<1>1. Cardinality(tried) \in Nat /\ IsFiniteSet(tried) /\ f = Cardinality(tried) + 1
  BY Finite DEF Walked
<1>2. f \notin tried
  BY <1>1
<1>3. Cardinality(tried \cup {f}) = Cardinality(tried) + 1
  BY <1>1, <1>2, FS_AddElement
<1> QED
  BY <1>1, <1>2, <1>3

LEMMA PluginNoType ==
    ASSUME IInv
    PROVE  PluginNo = Cardinality(Started) + 1 /\ PluginNo \in Nat
<1>1. PluginNo = 1 + Cardinality(Started)
  BY DEF PluginNo, Started
<1> QED
  BY <1>1, Finite DEF IInv

\* The steps that leave processes and numbers alone
LEMMA SameStarted ==
    ASSUME UNCHANGED <<inits, slot>>
    PROVE  Started' = Started
  BY DEF Started

-----------------------------------------------------------------------------
\* The invariant of the loader

LEMMA InitInv == Init => IInv
<1> SUFFICES ASSUME Init PROVE IInv
  OBVIOUS
<1>1. TypeOK
  BY PluginAssumption DEF Init, TypeOK, NoHooks
<1>2. Cardinality(tried) = 0
  BY FS_EmptySet DEF Init
<1>3. Started = {}
  BY DEF Init, Started
<1>4. Cardinality(Started) = 0
  BY <1>3, FS_EmptySet
<1>5. Walking
  BY <1>2 DEF Init, Walking, Busy
<1>6. Numbering
  BY <1>2, <1>3, <1>4 DEF Init, Numbering, Busy
<1>7. \A p \in Proc : Process(p)
  BY DEF Init, Process
<1>8. Hooked /\ DeadHookIsExplained
  BY DEF Init, Hooked, DeadHookIsExplained, NoHooks
<1> QED
  BY <1>1, <1>5, <1>6, <1>7, <1>8 DEF IInv

LEMMA StartProcessInv ==
    ASSUME IInv, NEW f \in File, StartProcess(f)
    PROVE  IInv'
<1> DEFINE p == <<f, inits>>
<1>1. /\ loader = "walk" /\ loader' = "poll"
      /\ alive' = alive \cup {p}
      /\ slot' = [slot EXCEPT ![p] = PluginNo]
      /\ cleanup' = [cleanup EXCEPT ![p] = "wait"]
      /\ current' = p
      /\ socket' = [socket EXCEPT ![PluginNo] = None]
      /\ UNCHANGED <<inits, tried, hkName, early, outlived, HookList, registeredName, name>>
  BY DEF StartProcess
<1>2. TypeOK /\ inits \in 1..MaxInit /\ p \in Proc
  BY DEF IInv, TypeOK, Proc
<1>3. f \notin tried /\ f = Cardinality(tried) + 1 /\ Cardinality(tried) \in Nat
  BY <1>2, Tried, Finite DEF IInv, Walking, StartProcess, Walked
<1>4. slot[p] = 0
  BY <1>1, <1>2, <1>3, NameAssumption DEF IInv, Walking, Numbering, Started
<1>5. PluginNo = Cardinality(Started) + 1 /\ PluginNo \in Nat \ {0} /\ Cardinality(Started) \in Nat
  BY <1>2, PluginNoType, Finite DEF IInv
<1>6. PluginNo \in Slot
  <2>1. Cardinality(Started) <= Cardinality(tried)
    BY <1>1, <1>3, <1>5 DEF IInv, Numbering, Busy
  <2> QED
    BY <2>1, <1>3, <1>5, PluginAssumption DEF File, Slot
<1>7. Started' = Started \cup {p} /\ p \notin Started
  <2>1. p[2] = inits
    OBVIOUS
  <2> HIDE DEF p
  <2>2. \A q \in Proc : slot'[q] = IF q = p THEN PluginNo ELSE slot[q]
    BY <1>1, <1>2 DEF TypeOK
  <2> QED
    BY <1>1, <1>2, <1>4, <1>5, <2>1, <2>2 DEF Started
<1>8. Cardinality(Started') = Cardinality(Started) + 1
  BY <1>2, <1>7, Finite, FS_AddElement
<1> HIDE DEF p
<1>9. TypeOK'
  BY <1>1, <1>2, <1>6 DEF TypeOK
<1>10. Process(p)
  BY <1>2 DEF IInv
<1>11. registeredName[p] = None /\ p[2] = inits /\ p[1] = f
  BY <1>4, <1>10 DEF Process, p
<1>12. Walking'
  BY <1>1, <1>2, <1>3, <1>5, <1>11 DEF IInv, TypeOK, Walking, Busy, p
<1>13. Numbering'
  <2>1. \A q \in Started : q # p /\ slot'[q] = slot[q] /\ slot[q] <= Cardinality(Started)
                           /\ slot[q] \in Nat
    BY <1>1, <1>7 DEF IInv, TypeOK, Numbering, Started, Slot
  <2>2. slot'[p] = Cardinality(Started) + 1
    BY <1>1, <1>2, <1>5 DEF TypeOK
  <2>3. \A q \in Started : q[1] \in tried
    BY <1>1, <1>2, NameAssumption DEF IInv, Walking, Numbering, Started
  <2>4. \A q \in Started' : slot'[q] <= Cardinality(Started')
    BY <1>5, <1>7, <1>8, <2>1, <2>2
  <2>5. \A q, r \in Started' : slot'[q] = slot'[r] => q = r
    BY <1>5, <1>7, <2>1, <2>2 DEF IInv, Numbering
  <2>6. Cardinality(Started') <= Cardinality(tried') + 1
    BY <1>1, <1>3, <1>5, <1>8 DEF IInv, Numbering, Busy
  <2> QED
    BY <1>1, <1>7, <2>3, <2>4, <2>5, <2>6 DEF Numbering, Busy
<1>14. ASSUME NEW q \in Proc PROVE Process(q)'
  <2>1. CASE q = p
    BY <2>1, <1>1, <1>2, <1>5, <1>10, <1>11 DEF TypeOK, Process
  <2>2. CASE q # p
    <3>1. Process(q) /\ slot'[q] = slot[q] /\ cleanup'[q] = cleanup[q]
      BY <1>1, <1>2, <2>2 DEF IInv, TypeOK
    <3> QED
      BY <1>1, <2>2, <3>1 DEF Process
  <2> QED
    BY <2>1, <2>2
<1>15. Hooked' /\ DeadHookIsExplained'
  BY <1>1, <1>2 DEF IInv, TypeOK, Hooked, DeadHookIsExplained
<1> QED
  BY <1>9, <1>12, <1>13, <1>14, <1>15 DEF IInv

LEMMA StartProcessFailsInv ==
    ASSUME IInv, NEW f \in File, StartProcessFails(f)
    PROVE  IInv'
<1>1. /\ loader = "walk" /\ tried' = tried \cup {f}
      /\ socket' = [socket EXCEPT ![PluginNo] = None]
      /\ UNCHANGED <<inits, loader, current, hkName, alive, slot, early, outlived, HookList,
                     registeredName, cleanup, name>>
  BY DEF StartProcessFails, processVars, cleanupVars
<1>2. TypeOK
  BY DEF IInv
<1>3. tried' = 1..Cardinality(tried') /\ Cardinality(tried') = Cardinality(tried) + 1
  BY <1>1, <1>2, Tried DEF IInv, Walking, StartProcessFails
<1>4. TypeOK'
  BY <1>1, <1>2 DEF TypeOK
<1>5. Walking'
  BY <1>1, <1>3 DEF IInv, Walking, Busy
<1>6. Numbering'
  BY <1>1, <1>2, <1>3, Finite, SameStarted DEF IInv, Numbering
<1>7. \A p \in Proc : Process(p)'
  BY <1>1 DEF IInv, Process
<1>8. Hooked' /\ DeadHookIsExplained'
  BY <1>1 DEF IInv, Hooked, DeadHookIsExplained
<1> QED
  BY <1>4, <1>5, <1>6, <1>7, <1>8 DEF IInv

\* The walk goes on to the next file.
LEMMA NextPluginInv ==
    ASSUME IInv, loader \in Busy, NextPlugin, UNCHANGED <<inits, slot>>
    PROVE  /\ tried' \subseteq File
           /\ tried' = 1..Cardinality(tried')
           /\ Numbering'
<1>1. TypeOK /\ current[1] \in File /\ Walked(current[1]) /\ tried' = tried \cup {current[1]}
  BY DEF IInv, Walking, NextPlugin, Proc, Walked
<1>2. tried' = 1..Cardinality(tried') /\ Cardinality(tried') = Cardinality(tried) + 1
  BY <1>1, Tried DEF IInv, Walking
<1>3. Started' = Started
  BY SameStarted
<1>4. \A p \in Started : p[1] \in tried'
  BY <1>1 DEF IInv, Numbering
<1>5. Numbering'
  BY <1>1, <1>2, <1>3, <1>4, Finite DEF IInv, Numbering, NextPlugin, Busy
<1> QED
  BY <1>1, <1>2, <1>5 DEF TypeOK

LEMMA StartFailInv == ASSUME IInv, StartFail PROVE IInv'
<1>1. /\ loader = "poll" /\ loader' = "walk" /\ current' = None /\ hkName' = None
      /\ UNCHANGED <<inits, alive, slot, early, outlived, socket, HookList, registeredName, cleanup, name>>
  BY DEF StartFail, NextPlugin, processVars, cleanupVars
<1>2. tried' \subseteq File /\ tried' = 1..Cardinality(tried') /\ Numbering'
  BY <1>1, NextPluginInv DEF StartFail, Busy
<1>3. TypeOK'
  BY <1>1, <1>2 DEF IInv, TypeOK
<1>4. Walking'
  BY <1>1, <1>2 DEF IInv, Walking, Busy
<1>5. \A p \in Proc : Process(p)'
  BY <1>1 DEF IInv, Process
<1>6. Hooked' /\ DeadHookIsExplained'
  BY <1>1 DEF IInv, Hooked, DeadHookIsExplained
<1> QED
  BY <1>2, <1>3, <1>4, <1>5, <1>6 DEF IInv

LEMMA RecordNameInv == ASSUME IInv, RecordName PROVE IInv'
<1>1. /\ loader = "record" /\ loader' = "walk" /\ current' = None /\ hkName' = None
      /\ registeredName' = [registeredName EXCEPT ![current] = hkName]
      /\ UNCHANGED <<inits, alive, slot, early, outlived, socket, HookList, cleanup, name>>
  BY DEF RecordName, NextPlugin, NameForCleanup, processVars, cleanupVars
<1>2. tried' \subseteq File /\ tried' = 1..Cardinality(tried') /\ Numbering'
  BY <1>1, NextPluginInv DEF RecordName, Busy
<1>3. /\ current \in Proc /\ hkName \in Names
      /\ slot[current] # 0 /\ registeredName[current] = None
  BY <1>1 DEF IInv, Walking, Busy
<1>4. TypeOK'
  BY <1>1, <1>2, <1>3 DEF IInv, TypeOK
<1>5. Walking'
  BY <1>1, <1>2 DEF IInv, Walking, Busy
<1>6. ASSUME NEW p \in Proc PROVE Process(p)'
  <2>1. Process(p)
    BY DEF IInv
  <2>2. CASE p = current
    <3>1. registeredName'[p] = hkName
      BY <1>1, <1>3, <2>2 DEF IInv, TypeOK
    <3>2. ~(cleanup[p] = "read" /\ p \notin early)
      BY <2>1, <2>2, <1>3 DEF Process, IInv, TypeOK
    <3> QED
      BY <1>1, <1>3, <2>1, <2>2, <3>1, <3>2, NameAssumption DEF Process
  <2>3. CASE p # current
    <3>1. registeredName'[p] = registeredName[p]
      BY <1>1, <2>3 DEF IInv, TypeOK
    <3> QED
      BY <1>1, <2>1, <3>1 DEF Process
  <2> QED
    BY <2>2, <2>3
<1>7. Hooked'
  <2> SUFFICES ASSUME NEW k \in Names, HookList[k] # None
               PROVE  registeredName'[HookList[k]] = k
    BY <1>1 DEF Hooked
  <2>1. HookList[k] \in Proc
    BY DEF IInv, TypeOK
  <2>2. CASE HookList[k] = current /\ hkName = k
    BY <1>1, <1>3, <2>2 DEF IInv, TypeOK
  <2>3. CASE registeredName[HookList[k]] = k
    <3>1. HookList[k] # current
      BY <1>3, <2>3, NameAssumption
    <3> QED
      BY <1>1, <2>1, <2>3, <3>1 DEF IInv, TypeOK
  <2> QED
    BY <2>2, <2>3 DEF IInv, Hooked
<1>8. DeadHookIsExplained'
  BY <1>1 DEF IInv, DeadHookIsExplained
<1> QED
  BY <1>2, <1>4, <1>5, <1>6, <1>7, <1>8 DEF IInv

\* The steps of the loader that only ask and register
LEMMA AskInv ==
    ASSUME IInv, SocketFound \/ GetName \/ RegisterHook
    PROVE  IInv'
<1>1. /\ loader \in Busy /\ loader' \in {"ask", "register", "record"}
      /\ UNCHANGED <<inits, tried, current, alive, slot, early, outlived, socket, registeredName,
                     cleanup, name>>
  BY DEF SocketFound, GetName, RegisterHook, processVars, cleanupVars, Busy
<1>2. /\ current \in Proc /\ slot[current] # 0 /\ registeredName[current] = None
      /\ TypeOK /\ Walking
  BY <1>1 DEF IInv, Walking
<1>3. loader' \in {"register", "record"} => hkName' \in Names
  <2>1. CASE GetName
    <3>1. current[1] \in File
      BY <1>2 DEF Proc
    <3> QED
      BY <2>1, <3>1, NameAssumption DEF GetName
  <2>2. CASE SocketFound
    BY <2>2 DEF SocketFound
  <2>3. CASE RegisterHook
    BY <2>3, <1>2 DEF RegisterHook, Walking
  <2> QED
    BY <2>1, <2>2, <2>3
<1>4. hkName' \in Names \cup {None}
  <2>1. current[1] \in File
    BY <1>2 DEF Proc
  <2> QED
    BY <1>2, <2>1, NameAssumption DEF SocketFound, GetName, RegisterHook, TypeOK
<1>5. HookList' \in [Names -> Proc \cup {None}]
  BY <1>2 DEF SocketFound, GetName, RegisterHook, TypeOK
<1>6. TypeOK'
  BY <1>1, <1>2, <1>4, <1>5 DEF TypeOK
<1>7. Walking'
  BY <1>1, <1>2, <1>3 DEF Walking, Busy
<1>8. Numbering'
  BY <1>1, SameStarted DEF IInv, Numbering, Busy
<1>9. \A p \in Proc : Process(p)'
  BY <1>1 DEF IInv, Process
<1>10. Hooked' /\ DeadHookIsExplained'
  <2>1. CASE UNCHANGED HookList /\ loader # "record"
    BY <1>1, <2>1 DEF IInv, Hooked, DeadHookIsExplained
  <2>2. CASE RegisterHook
    <3>1. /\ HookList' = [HookList EXCEPT ![hkName] = current]
          /\ loader = "register" /\ loader' = "record" /\ hkName' = hkName /\ hkName \in Names
      BY <1>2, <2>2 DEF RegisterHook, Walking
    <3>2. \A k \in Names : HookList'[k] = IF k = hkName THEN current ELSE HookList[k]
      BY <1>2, <3>1 DEF TypeOK
    <3>3. Hooked'
      BY <1>1, <3>1, <3>2 DEF IInv, Hooked
    <3>4. cleanup[current] \in {"removed", "done"} => current \in early
      BY <1>2 DEF IInv, Process
    <3> QED
      BY <1>1, <3>2, <3>3, <3>4 DEF IInv, DeadHookIsExplained
  <2> QED
    BY <2>1, <2>2 DEF SocketFound, GetName
<1> QED
  BY <1>6, <1>7, <1>8, <1>9, <1>10 DEF IInv

\* A process that starts to listen, or ends
LEMMA ListenInv == ASSUME IInv, NEW p \in Proc, Listen(p) PROVE IInv'
<1>1. /\ p \in alive /\ socket' = [socket EXCEPT ![slot[p]] = p]
      /\ UNCHANGED <<inits, tried, loader, current, hkName, alive, slot, early, outlived, HookList,
                     registeredName, cleanup, name>>
  BY DEF Listen, loaderVars, processVars, cleanupVars
<1>2. TypeOK'
  BY <1>1 DEF IInv, TypeOK
<1>3. Walking' /\ Hooked' /\ DeadHookIsExplained' /\ \A q \in Proc : Process(q)'
  BY <1>1 DEF IInv, Walking, Hooked, DeadHookIsExplained, Process
<1>4. Numbering'
  BY <1>1, SameStarted DEF IInv, Numbering
<1> QED
  BY <1>2, <1>3, <1>4 DEF IInv

\* Processes die, one or all: those Init has not named are early.
LEMMA DeathInv ==
    ASSUME IInv, alive' \subseteq alive, loader' = loader \/ (loader = "walk" /\ alive' = {}
                                                              /\ loader' = "stopped"),
           early' = early \cup {p \in alive \ alive' : registeredName[p] = None},
           UNCHANGED <<inits, tried, current, hkName, slot, outlived, socket, HookList,
                       registeredName, cleanup, name>>
    PROVE  IInv'
<1>1. TypeOK'
  BY DEF IInv, TypeOK
<1>2. Walking' /\ Hooked' /\ DeadHookIsExplained'
  BY DEF IInv, Walking, Hooked, DeadHookIsExplained, Busy
<1>3. ASSUME NEW p \in Proc PROVE Process(p)'
  <2>1. Process(p)
    BY DEF IInv
  <2> QED
    BY <2>1 DEF Process
<1>4. Numbering'
  BY SameStarted DEF IInv, Numbering, Busy
<1> QED
  BY <1>1, <1>2, <1>3, <1>4 DEF IInv

LEMMA ReadNameInv == ASSUME IInv, NEW p \in Proc, ReadName(p) PROVE IInv'
<1>1. /\ cleanup[p] = "wait" /\ p \notin alive
      /\ name' = [name EXCEPT ![p] = registeredName[p]]
      /\ cleanup' = [cleanup EXCEPT ![p] = "read"]
      /\ UNCHANGED <<inits, tried, loader, current, hkName, alive, slot, early, outlived, socket,
                     HookList, registeredName>>
  BY DEF ReadName, loaderVars, processVars
<1>2. TypeOK
  BY DEF IInv
<1>3. TypeOK'
  BY <1>1, <1>2 DEF TypeOK
<1>4. \A q \in Proc : /\ cleanup'[q] = IF q = p THEN "read" ELSE cleanup[q]
                      /\ name'[q] = IF q = p THEN registeredName[q] ELSE name[q]
  BY <1>1, <1>2 DEF TypeOK
<1>5. \A q \in Proc : Process(q)'
  BY <1>1, <1>4 DEF IInv, Process
<1>6. Walking' /\ Hooked'
  BY <1>1 DEF IInv, Walking, Hooked
<1>7. DeadHookIsExplained'
  BY <1>1, <1>2, <1>4, NameAssumption DEF IInv, TypeOK, DeadHookIsExplained
<1>8. Numbering'
  BY <1>1, SameStarted DEF IInv, Numbering
<1> QED
  BY <1>3, <1>5, <1>6, <1>7, <1>8 DEF IInv

\* A cleanup that knows the name of its process leaves none of its hooks behind.
LEMMA RemoveHookInv == ASSUME IInv, NEW p \in Proc, RemoveHook(p) PROVE IInv'
<1>1. /\ cleanup[p] = "read"
      /\ HookList' = HookListWithout(name[p])
      /\ cleanup' = [cleanup EXCEPT ![p] = "removed"]
      /\ UNCHANGED <<inits, tried, loader, current, hkName, alive, slot, early, outlived, socket,
                     registeredName, name>>
  BY DEF RemoveHook, loaderVars, processVars
<1>2. TypeOK /\ Process(p) /\ name[p] \in Names \cup {None}
  BY DEF IInv, TypeOK
<1>3. \A k \in Names : HookList'[k] = IF k = name[p] THEN None ELSE HookList[k]
  BY <1>1, <1>2, NameAssumption DEF HookListWithout, TypeOK
<1>4. HookList' \in [Names -> Proc \cup {None}]
  BY <1>1, <1>2 DEF HookListWithout, TypeOK
<1>5. TypeOK'
  BY <1>1, <1>2, <1>4 DEF TypeOK
<1>6. \A q \in Proc : cleanup'[q] = IF q = p THEN "removed" ELSE cleanup[q]
  BY <1>1, <1>2 DEF TypeOK
<1>7. \A q \in Proc : Process(q)'
  BY <1>1, <1>6 DEF IInv, Process
<1>8. Walking'
  BY <1>1 DEF IInv, Walking
<1>9. Hooked'
  BY <1>1, <1>3 DEF IInv, Hooked
<1>10. DeadHookIsExplained'
  <2> SUFFICES ASSUME NEW k \in Names, HookList'[k] = p, p \notin early
               PROVE  FALSE
    BY <1>1, <1>2, <1>3, <1>6 DEF IInv, TypeOK, DeadHookIsExplained
  <2>1. HookList[k] = p /\ k # name[p] /\ p # None
    BY <1>3, NameAssumption
  <2>2. slot[p] # 0 /\ p \notin alive
    BY <1>1, <1>2 DEF Process
  <2>3. registeredName[p] # None /\ name[p] = registeredName[p]
    BY <1>1, <1>2, <2>2 DEF Process
  <2>4. registeredName[p] = k
    BY <2>1, <2>3 DEF IInv, Hooked, Walking, Busy
  <2> QED
    BY <2>1, <2>3, <2>4
<1>11. Numbering'
  BY <1>1, SameStarted DEF IInv, Numbering
<1> QED
  BY <1>5, <1>7, <1>8, <1>9, <1>10, <1>11 DEF IInv

LEMMA RemoveSocketInv == ASSUME IInv, NEW p \in Proc, RemoveSocket(p) PROVE IInv'
<1>1. /\ cleanup[p] = "removed"
      /\ socket' = [socket EXCEPT ![slot[p]] = None]
      /\ cleanup' = [cleanup EXCEPT ![p] = "done"]
      /\ name' = [name EXCEPT ![p] = None]
      /\ UNCHANGED <<inits, tried, loader, current, hkName, alive, slot, early, outlived, HookList,
                     registeredName>>
  BY DEF RemoveSocket, SocketOf, loaderVars, processVars
<1>2. TypeOK
  BY DEF IInv
<1>3. TypeOK'
  BY <1>1, <1>2 DEF TypeOK
<1>4. \A q \in Proc : /\ cleanup'[q] = IF q = p THEN "done" ELSE cleanup[q]
                      /\ name'[q] = IF q = p THEN None ELSE name[q]
  BY <1>1, <1>2 DEF TypeOK
<1>5. \A q \in Proc : Process(q)'
  BY <1>1, <1>4 DEF IInv, Process
<1>6. Walking' /\ Hooked'
  BY <1>1 DEF IInv, Walking, Hooked
<1>7. DeadHookIsExplained'
  BY <1>1, <1>2, <1>4 DEF IInv, TypeOK, DeadHookIsExplained
<1>8. Numbering'
  BY <1>1, SameStarted DEF IInv, Numbering
<1> QED
  BY <1>3, <1>5, <1>6, <1>7, <1>8 DEF IInv

LEMMA RestartInv == ASSUME IInv, Restart PROVE IInv'
<1>1. /\ loader = "stopped" /\ inits < MaxInit
      /\ inits' = inits + 1 /\ tried' = {} /\ loader' = "walk" /\ HookList' = NoHooks
      /\ outlived' = outlived \cup {p \in Proc : cleanup[p] \notin {"none", "done"}}
      /\ UNCHANGED <<current, hkName, alive, slot, early, socket, registeredName, cleanup, name>>
  BY DEF Restart, processVars, cleanupVars
<1>2. TypeOK /\ current = None /\ alive = {} /\ inits \in Nat
  BY <1>1 DEF IInv, TypeOK, Walking
<1>3. TypeOK'
  BY <1>1, <1>2, PluginAssumption DEF TypeOK, NoHooks
<1>4. Cardinality(tried') = 0
  BY <1>1, FS_EmptySet
<1>5. \A p \in Proc : p[2] \in Nat
  BY PluginAssumption DEF Proc
<1>6. ASSUME NEW p \in Proc PROVE Process(p)'
  BY <1>1, <1>2, <1>5 DEF IInv, Process
<1>7. Started' = {}
  BY <1>1, <1>2, <1>5 DEF IInv, Process, Started
<1>8. Cardinality(Started') = 0
  BY <1>7, FS_EmptySet
<1>9. Walking'
  BY <1>1, <1>2, <1>4 DEF Walking, Busy
<1>10. Numbering'
  BY <1>1, <1>4, <1>7, <1>8 DEF Numbering, Busy
<1>11. Hooked' /\ DeadHookIsExplained'
  BY <1>1 DEF Hooked, DeadHookIsExplained, NoHooks
<1> QED
  BY <1>3, <1>6, <1>9, <1>10, <1>11 DEF IInv

LEMMA StutterInv == ASSUME IInv, UNCHANGED vars PROVE IInv'
<1>1. UNCHANGED <<inits, tried, loader, current, hkName, alive, slot, early, outlived, socket, HookList,
                  registeredName, cleanup, name>>
  BY DEF vars, loaderVars, processVars, cleanupVars
<1> QED
  BY <1>1, DeathInv

LEMMA NextInv == IInv /\ [Next]_vars => IInv'
<1> SUFFICES ASSUME IInv, [Next]_vars PROVE IInv'
  OBVIOUS
<1>1. CASE Load
  BY <1>1, StartProcessInv, StartProcessFailsInv, AskInv, StartFailInv, RecordNameInv DEF Load
<1>2. CASE Stop
  <2>1. /\ loader = "walk" /\ loader' = "stopped" /\ alive' = {}
        /\ early' = early \cup {q \in alive \ alive' : registeredName[q] = None}
        /\ UNCHANGED <<inits, tried, current, hkName, slot, outlived, socket, HookList,
                       registeredName, cleanup, name>>
    BY <1>2 DEF Stop, cleanupVars
  <2> QED
    BY <2>1, DeathInv
<1>3. CASE Restart
  BY <1>3, RestartInv
<1>4. ASSUME NEW p \in Proc, Exit(p) PROVE IInv'
  <2>1. early' = early \cup {q \in alive \ alive' : registeredName[q] = None}
    BY <1>4 DEF Exit
  <2> QED
    BY <1>4, <2>1, DeathInv DEF Exit, loaderVars, cleanupVars
<1>5. ASSUME NEW p \in Proc, Listen(p) \/ Clean(p) PROVE IInv'
  BY <1>5, ListenInv, ReadNameInv, RemoveHookInv, RemoveSocketInv DEF Clean
<1>6. CASE UNCHANGED vars
  BY <1>6, StutterInv
<1> QED
  BY <1>1, <1>2, <1>3, <1>4, <1>5, <1>6 DEF Next

\* The inductive invariant holds at every step of the server, whichever cleanups the pause
\* before a restart did not outlast.
THEOREM Invariance == Spec => []IInv
  BY InitInv, NextInv, PTL DEF Spec

\* Every entry of HookList is a process that was started, and one that was cleaned up is
\* left there only if it exited before Init told its goroutine the name.
THEOREM HooksAreExplained == Spec => []HooksInv
<1>1. IInv => HooksInv
  BY DEF IInv, HooksInv
<1> QED
  BY <1>1, Invariance, PTL

-----------------------------------------------------------------------------
\* Live plugins

\* Of two processes one of which runs, either they have numbers of their own, or the other
\* is of an earlier Init and has outlived it.
LEMMA OwnNumber ==
    ASSUME IInv, Gone, NEW p \in alive, NEW q \in Proc, q # p,
           cleanup[q] \in {"wait", "read", "removed"}, q \notin outlived
    PROVE  p[2] = q[2] /\ slot[p] # slot[q]
<1>1. p \in Proc /\ Process(p) /\ Process(q) /\ TypeOK
  BY DEF IInv, TypeOK
<1>2. p[2] = inits /\ q[2] = inits /\ slot[p] # 0 /\ slot[q] # 0
  BY <1>1 DEF Process, Gone
<1>3. p \in Started /\ q \in Started
  BY <1>1, <1>2 DEF Started
<1> QED
  BY <1>2, <1>3 DEF IInv, Numbering

\* A running process is in the current Init.
LEMMA Running ==
    ASSUME IInv, NEW p \in alive
    PROVE  p \in Proc /\ p[2] = inits /\ cleanup[p] = "wait" /\ slot[p] \in Slot
  BY DEF IInv, TypeOK, Process

\* The number of a new process is no running one's.
LEMMA FreshNumber ==
    ASSUME IInv, NEW p \in alive
    PROVE  p \in Proc /\ slot[p] \in Slot /\ slot[p] # PluginNo
<1>1. p \in Proc /\ Process(p) /\ TypeOK
  BY DEF IInv, TypeOK
<1>2. p \in Started /\ slot[p] \in Slot
  BY <1>1 DEF Process, Started, TypeOK
<1>3. slot[p] <= Cardinality(Started) /\ slot[p] \in Nat
  BY <1>2 DEF IInv, Numbering, Slot
<1>4. PluginNo = Cardinality(Started) + 1 /\ Cardinality(Started) \in Nat
  BY <1>1, PluginNoType, Finite
<1>5. slot[p] < PluginNo
  BY <1>3, <1>4
<1>6. slot[p] # PluginNo
  BY <1>3, <1>4, <1>5
<1> QED
  BY <1>1, <1>2, <1>6

\* Once two processes share a name they go on sharing it.
LEMMA NamesakeStays ==
    ASSUME NEW q \in Proc, NEW p \in Proc, NEW k \in Names, Namesake(q, p, k),
           outlived \subseteq outlived',
           \A r \in Proc : registeredName[r] # None => registeredName'[r] = registeredName[r],
           loader = "record" => \/ UNCHANGED <<loader, current, hkName>>
                                \/ registeredName'[current] = hkName
    PROVE  Namesake(q, p, k)'
  BY NameAssumption DEF Namesake

LEMMA InitGone == Init => GInv
<1> SUFFICES ASSUME Init PROVE GInv
  OBVIOUS
<1>1. Gone /\ SocketStays /\ HookStays /\ LivePluginStays
  BY DEF Init, Gone, SocketStays, HookStays, LivePluginStays
<1> QED
  BY <1>1, InitInv DEF GInv

LEMMA StartGone ==
    ASSUME GInv, IInv', NEW f \in File, StartProcess(f) \/ StartProcessFails(f)
    PROVE  Gone' /\ SocketStays' /\ HookStays' /\ LivePluginStays'
<1> DEFINE p == <<f, inits>>
<1>1. /\ loader = "walk" /\ loader' \in {"poll", "walk"}
      /\ socket' = [socket EXCEPT ![PluginNo] = None]
      /\ UNCHANGED <<inits, hkName, HookList, registeredName, outlived>>
  BY DEF StartProcess, StartProcessFails, processVars
<1>2. \/ UNCHANGED <<alive, slot, cleanup>>
      \/ /\ alive' = alive \cup {p}
         /\ slot' = [slot EXCEPT ![p] = PluginNo]
         /\ cleanup' = [cleanup EXCEPT ![p] = "wait"]
         /\ current' = p /\ loader' = "poll"
  BY DEF StartProcess, StartProcessFails, processVars, cleanupVars
<1>3. IInv /\ TypeOK /\ p \in Proc /\ p[2] = inits
  BY DEF GInv, IInv, TypeOK, Proc
<1> HIDE DEF p
<1>4. ASSUME NEW q \in alive
      PROVE  q \in Proc /\ (q = p \/ slot'[q] = slot[q]) /\ socket'[slot[q]] = socket[slot[q]]
  <2>1. q \in Proc /\ slot[q] \in Slot /\ slot[q] # PluginNo
    BY <1>3, <1>4, FreshNumber
  <2>2. q = p \/ slot'[q] = slot[q]
    BY <1>2, <1>3, <2>1 DEF TypeOK
  <2> QED
    BY <1>1, <1>3, <2>1, <2>2 DEF TypeOK
<1>5. UNCHANGED <<alive, slot, cleanup>> \/
         (/\ slot[p] = 0
          /\ registeredName[p] = None
          /\ socket'[slot'[p]] = None
          /\ slot'[p] = PluginNo)
  <2> SUFFICES ASSUME alive' = alive \cup {p}, slot' = [slot EXCEPT ![p] = PluginNo],
                      current' = p, loader' = "poll", StartProcess(f)
               PROVE  /\ slot[p] = 0 /\ registeredName[p] = None
                      /\ socket'[slot'[p]] = None /\ slot'[p] = PluginNo
    BY <1>2 DEF StartProcessFails, StartProcess, processVars, cleanupVars, p
  <2>1. registeredName'[p] = None
    BY DEF IInv, Walking, Busy
  <2>2. slot'[p] = PluginNo /\ slot'[p] \in Slot
    <3>1. slot'[p] = PluginNo /\ slot'[p] \in Slot \cup {0}
      BY <1>3 DEF IInv, TypeOK
    <3>2. PluginNo # 0
      BY <1>3, PluginNoType, Finite
    <3> QED
      BY <3>1, <3>2
  <2>3. slot[p] = 0
    <3>1. f \notin tried
      BY <1>3, Tried DEF IInv, Walking, StartProcess
    <3>2. current = None
      BY <1>1, <1>3 DEF IInv, Walking
    <3> QED
      BY <1>3, <3>1, <3>2, NameAssumption DEF IInv, Numbering, Started, p
  <2> QED
    BY <1>1, <1>3, <2>1, <2>2, <2>3 DEF TypeOK
<1>6. Gone'
  <2>1. \A q \in Proc : cleanup'[q] = cleanup[q] \/ q = p
    BY <1>2, <1>3 DEF TypeOK
  <2>2. \A q \in outlived : slot[q] # 0 /\ slot'[q] # 0
    <3>1. ASSUME NEW q \in outlived PROVE slot[q] # 0 /\ slot'[q] # 0
      <4>1. q \in Proc /\ slot[q] # 0
        BY <1>3 DEF GInv, Gone, TypeOK
      <4>2. UNCHANGED slot \/ q # p
        BY <1>5, <4>1
      <4> QED
        BY <1>2, <1>3, <4>1, <4>2 DEF TypeOK
    <3> QED
      BY <3>1
  <2> QED
    BY <1>1, <1>3, <2>1, <2>2 DEF GInv, Gone
<1>7. SocketStays' /\ HookStays'
  BY <1>1, <1>2, <1>4, <1>5 DEF GInv, SocketStays, HookStays
<1>8. ASSUME NEW q \in alive', registeredName'[q] # None
      PROVE  q \in alive /\ slot'[q] = slot[q] /\ socket'[slot'[q]] = socket[slot[q]]
             /\ (SharesSocket(q) => SharesSocket(q)')
  <2>1. q \in alive /\ slot'[q] = slot[q]
    BY <1>1, <1>2, <1>3, <1>4, <1>5, <1>8 DEF TypeOK
  <2>2. \A r \in outlived : slot'[r] = slot[r]
    BY <1>2, <1>3, <1>5 DEF GInv, Gone, TypeOK
  <2> QED
    BY <1>1, <1>4, <2>1, <2>2 DEF SharesSocket
<1>9. ASSUME NEW q \in Proc, NEW r \in Proc, NEW k \in Names, Namesake(r, q, k)
      PROVE  Namesake(r, q, k)'
  BY <1>1, <1>9, NamesakeStays
<1>10. LivePluginStays'
  <2>1. \A q \in alive : registeredName[q] # None => registeredName[q] \in Names
    BY <1>3 DEF TypeOK
  <2> QED
    BY <1>1, <1>4, <1>8, <1>9, <2>1 DEF GInv, LivePluginStays
<1> QED
  BY <1>6, <1>7, <1>10

\* The loader's other steps
LEMMA LoadGone ==
    ASSUME GInv, SocketFound \/ StartFail \/ GetName \/ RegisterHook \/ RecordName
    PROVE  Gone' /\ SocketStays' /\ HookStays' /\ LivePluginStays'
<1>1. UNCHANGED <<inits, alive, slot, outlived, socket, cleanup>> /\ IInv /\ TypeOK
  BY DEF SocketFound, StartFail, GetName, RegisterHook, RecordName, processVars, cleanupVars,
         GInv, IInv
<1>2. Gone' /\ \A p \in Proc : SharesSocket(p)' = SharesSocket(p)
  BY <1>1 DEF GInv, Gone, SharesSocket
<1>3. ASSUME UNCHANGED <<HookList, registeredName>>, loader # "record"
      PROVE  LivePluginStays'
  <2>1. ASSUME NEW p \in alive, registeredName[p] # None, NEW q \in Proc,
               Namesake(q, p, registeredName[p])
        PROVE  Namesake(q, p, registeredName[p])'
    BY <1>3, <2>1, <1>1 DEF Namesake
  <2> QED
    BY <1>1, <1>2, <1>3, <2>1 DEF GInv, LivePluginStays, SharesSocket
<1>4. CASE SocketFound
  <2>1. /\ loader = "poll" /\ loader' = "ask" /\ socket[slot[current]] # None
        /\ UNCHANGED <<current, HookList, registeredName>>
    BY <1>4 DEF SocketFound
  <2> QED
    BY <1>1, <1>2, <1>3, <2>1 DEF GInv, SocketStays, HookStays
<1>5. CASE StartFail
  <2>1. loader = "poll" /\ loader' = "walk" /\ UNCHANGED <<HookList, registeredName>>
    BY <1>5 DEF StartFail, NextPlugin
  <2> QED
    BY <1>1, <1>2, <1>3, <2>1 DEF GInv, SocketStays, HookStays
<1>6. CASE GetName
  <2>1. loader = "ask" /\ loader' = "register" /\ UNCHANGED <<current, HookList, registeredName>>
    BY <1>6 DEF GetName
  <2> QED
    BY <1>1, <1>2, <1>3, <2>1 DEF GInv, SocketStays, HookStays, SharesSocket
<1>7. CASE RegisterHook
  <2>1. /\ loader = "register" /\ loader' = "record"
        /\ HookList' = [HookList EXCEPT ![hkName] = current]
        /\ UNCHANGED <<current, hkName, registeredName>>
    BY <1>7 DEF RegisterHook
  <2>2. hkName \in Names /\ current \in Proc /\ current[2] = inits
        /\ registeredName[current] = None
    BY <1>1, <2>1 DEF IInv, Walking, Busy
  <2>3. HookList'[hkName] = current
    BY <1>1, <2>1, <2>2 DEF TypeOK
  <2>4. SocketStays' /\ HookStays'
    BY <1>1, <1>2, <2>1, <2>3 DEF GInv, SocketStays, HookStays, SharesSocket
  <2>5. ASSUME NEW p \in alive, registeredName[p] # None
        PROVE  \/ HookList'[registeredName[p]] = p
               \/ \E q \in Proc : Namesake(q, p, registeredName[p])'
    <3>1. p \in Proc /\ p[2] = inits /\ registeredName[p] \in Names
      BY <1>1, <2>5, Running DEF TypeOK
    <3>2. CASE registeredName[p] = hkName
      BY <1>1, <2>1, <2>2, <2>5, <3>1, <3>2 DEF Namesake
    <3>3. CASE registeredName[p] # hkName
      <4>1. HookList'[registeredName[p]] = HookList[registeredName[p]]
        BY <1>1, <2>1, <2>2, <3>1, <3>3 DEF TypeOK
      <4>2. ASSUME NEW q \in Proc, Namesake(q, p, registeredName[p])
            PROVE  Namesake(q, p, registeredName[p])'
        BY <1>1, <2>1, <4>2 DEF Namesake
      <4> QED
        BY <2>5, <4>1, <4>2 DEF GInv, LivePluginStays
    <3> QED
      BY <3>2, <3>3
  <2>6. LivePluginStays'
    BY <1>1, <1>2, <2>1, <2>5 DEF GInv, LivePluginStays, SharesSocket
  <2> QED
    BY <1>2, <2>4, <2>6
<1>8. CASE RecordName
  <2>1. /\ loader = "record" /\ loader' = "walk" /\ UNCHANGED HookList
        /\ registeredName' = [registeredName EXCEPT ![current] = hkName]
    BY <1>8 DEF RecordName, NameForCleanup, NextPlugin
  <2>2. current \in Proc /\ hkName \in Names /\ registeredName[current] = None
    BY <1>1, <2>1 DEF IInv, Walking, Busy
  <2>3. SocketStays' /\ HookStays'
    BY <1>1, <2>1 DEF GInv, SocketStays, HookStays
  <2>4. \A p \in Proc : registeredName'[p] = IF p = current THEN hkName ELSE registeredName[p]
    BY <1>1, <2>1, <2>2 DEF TypeOK
  <2>5. ASSUME NEW p \in alive, registeredName'[p] # None
        PROVE  /\ \/ HookList'[registeredName'[p]] = p
                  \/ \E q \in Proc : Namesake(q, p, registeredName[p])'
               /\ socket[slot[p]] = p \/ SharesSocket(p)
    <3>0. p \in Proc
      BY <1>1, Running
    <3>1. CASE p = current
      <4>1. registeredName'[p] = hkName
        BY <2>2, <2>4, <3>1
      <4>2. HookList[hkName] = current \/ \E q \in Proc : Namesake(q, current, hkName)
        BY <2>1, <2>5, <3>1 DEF GInv, HookStays
      <4>3. socket[slot[p]] = p \/ SharesSocket(p)
        BY <2>1, <2>5, <3>1 DEF GInv, SocketStays
      <4>4. ASSUME NEW q \in Proc, Namesake(q, current, hkName)
            PROVE  Namesake(q, p, registeredName[p])'
        <5>1. registeredName'[q] = hkName
          BY <2>1, <2>4, <4>4 DEF Namesake
        <5>2. q # p /\ (q[2] = p[2] \/ q \in outlived)
          BY <3>1, <4>4 DEF Namesake
        <5> QED
          BY <1>1, <4>1, <5>1, <5>2 DEF Namesake
      <4> QED
        BY <2>1, <3>1, <4>1, <4>2, <4>3, <4>4
    <3>2. CASE p # current
      <4>1. registeredName'[p] = registeredName[p] /\ registeredName[p] \in Names
        BY <1>1, <2>4, <2>5, <3>0, <3>2 DEF TypeOK
      <4>2. ASSUME NEW q \in Proc, Namesake(q, p, registeredName[p])
            PROVE  Namesake(q, p, registeredName[p])'
        <5>1. registeredName'[q] = registeredName[p]
          BY <2>1, <2>2, <2>4, <4>1, <4>2, NameAssumption DEF Namesake
        <5>2. q # p /\ (q[2] = p[2] \/ q \in outlived)
          BY <4>2 DEF Namesake
        <5> QED
          BY <1>1, <4>1, <5>1, <5>2 DEF Namesake
      <4>3. /\ HookList[registeredName[p]] = p \/ \E q \in Proc : Namesake(q, p, registeredName[p])
            /\ socket[slot[p]] = p \/ SharesSocket(p)
        BY <2>5, <4>1, NameAssumption DEF GInv, LivePluginStays
      <4> QED
        BY <2>1, <4>1, <4>2, <4>3
    <3> QED
      BY <3>1, <3>2
  <2>6. LivePluginStays'
    BY <1>1, <1>2, <2>1, <2>5 DEF LivePluginStays, SharesSocket
  <2> QED
    BY <1>2, <2>3, <2>6
<1> QED
  BY <1>4, <1>5, <1>6, <1>7, <1>8

\* A cleanup takes a name or a socket only from those that share it with its process.
LEMMA CleanGone ==
    ASSUME GInv, NEW p \in Proc, Clean(p)
    PROVE  Gone' /\ SocketStays' /\ HookStays' /\ LivePluginStays'
<1>1. /\ cleanup[p] \in {"wait", "read", "removed"}
      /\ cleanup' = [cleanup EXCEPT ![p] = cleanup'[p]]
      /\ UNCHANGED <<inits, alive, slot, outlived, loader, current, hkName, registeredName>>
      /\ IInv /\ TypeOK /\ Process(p)
  BY DEF Clean, ReadName, RemoveHook, RemoveSocket, loaderVars, processVars, GInv, IInv, TypeOK
<1>2. p \notin alive
  BY <1>1 DEF Clean, ReadName, RemoveHook, RemoveSocket, Process
<1>3. Gone'
  BY <1>1 DEF GInv, Gone, TypeOK
<1>4. \A q \in alive : q \in Proc /\ slot[q] \in Slot
  BY <1>1, Running
<1>5. ASSUME NEW q \in alive
      PROVE  /\ socket'[slot[q]] = socket[slot[q]]
                \/ (socket'[slot[q]] = None /\ SharesSocket(q))
             /\ SharesSocket(q)' = SharesSocket(q)
  <2>1. SharesSocket(q)' = SharesSocket(q)
    BY <1>1 DEF SharesSocket
  <2>2. CASE UNCHANGED socket
    BY <2>1, <2>2
  <2>3. CASE RemoveSocket(p)
    <3>1. socket' = [socket EXCEPT ![slot[p]] = None]
      BY <2>3 DEF RemoveSocket, SocketOf
    <3>2. CASE slot[p] # slot[q]
      BY <1>1, <1>4, <2>1, <3>1, <3>2 DEF TypeOK
    <3>3. CASE slot[p] = slot[q]
      <4>1. p \in outlived
        BY <1>1, <1>2, <3>3, OwnNumber DEF GInv
      <4> QED
        BY <1>1, <1>2, <1>4, <2>1, <3>1, <3>3, <4>1 DEF SharesSocket, TypeOK
    <3> QED
      BY <3>2, <3>3
  <2> QED
    BY <2>2, <2>3 DEF Clean, ReadName, RemoveHook
<1>6. ASSUME NEW q \in alive, NEW k \in Names
      PROVE  HookList'[k] = HookList[k] \/ Namesake(p, q, k)
  <2>1. CASE UNCHANGED HookList
    BY <2>1
  <2>2. CASE RemoveHook(p) /\ name[p] = k
    <3>1. registeredName[p] = k
      BY <1>1, <2>2, NameAssumption DEF Process
    <3>2. p # q /\ (p[2] = q[2] \/ p \in outlived)
      BY <1>1, <1>2, OwnNumber DEF GInv
    <3> QED
      BY <3>1, <3>2 DEF Namesake
  <2>3. CASE RemoveHook(p) /\ name[p] # k
    BY <1>1, <2>3 DEF RemoveHook, HookListWithout, TypeOK
  <2> QED
    BY <2>1, <2>2, <2>3 DEF Clean, ReadName, RemoveSocket
<1>7. \A q, r \in Proc, k \in Names : Namesake(r, q, k)' = Namesake(r, q, k)
  BY <1>1 DEF Namesake
<1>8. SocketStays'
  BY <1>1, <1>5 DEF GInv, SocketStays
<1>9. HookStays'
  <2>1. loader = "record" => hkName \in Names /\ current \in Proc
    BY <1>1 DEF IInv, Walking, Busy
  <2>2. \A q \in Proc : loader = "record" =>
            (Namesake(q, current, hkName)' = Namesake(q, current, hkName))
    BY <1>1 DEF Namesake
  <2> QED
    BY <1>1, <1>6, <2>1, <2>2 DEF GInv, HookStays
<1>10. LivePluginStays'
  <2> SUFFICES ASSUME NEW q \in alive, registeredName[q] # None
               PROVE  /\ \/ HookList'[registeredName[q]] = q
                         \/ \E r \in Proc : Namesake(r, q, registeredName[q])'
                      /\ socket'[slot[q]] = q \/ SharesSocket(q)'
    BY <1>1 DEF LivePluginStays, SharesSocket
  <2>1. registeredName[q] \in Names
    BY <1>1, <1>4 DEF TypeOK
  <2>2. \A r \in Proc : Namesake(r, q, registeredName[q])' = Namesake(r, q, registeredName[q])
    BY <1>1 DEF Namesake
  <2>3. /\ HookList[registeredName[q]] = q \/ \E r \in Proc : Namesake(r, q, registeredName[q])
        /\ socket[slot[q]] = q \/ SharesSocket(q)
    BY DEF GInv, LivePluginStays
  <2> QED
    BY <1>5, <1>6, <2>1, <2>2, <2>3
<1> QED
  BY <1>3, <1>8, <1>9, <1>10

LEMMA ListenGone ==
    ASSUME GInv, NEW p \in Proc, Listen(p)
    PROVE  Gone' /\ SocketStays' /\ HookStays' /\ LivePluginStays'
<1>1. /\ p \in alive /\ socket' = [socket EXCEPT ![slot[p]] = p]
      /\ UNCHANGED <<inits, loader, current, hkName, alive, slot, outlived, HookList,
                     registeredName, cleanup>>
      /\ IInv /\ TypeOK
  BY DEF Listen, loaderVars, processVars, cleanupVars, GInv, IInv
<1>2. ASSUME NEW q \in alive PROVE q \in Proc /\ q[2] = inits /\ slot[q] \in Slot
  BY <1>1, <1>2, Running
<1>3. ASSUME NEW q \in alive, q # p PROVE slot[q] # slot[p]
  <2>1. p \in Started /\ q \in Started
    BY <1>1, <1>2 DEF Started, Slot
  <2> QED
    BY <1>1, <1>3, <2>1 DEF IInv, Numbering
<1>4. \A q \in alive : socket'[slot[q]] = IF q = p THEN p ELSE socket[slot[q]]
  BY <1>1, <1>2, <1>3 DEF TypeOK
<1>5. UNCHANGED <<loaderVars, registeredName, HookList, outlived>> =>
         (Gone' /\ SocketStays' /\ HookStays')
  BY <1>1, <1>4 DEF GInv, Gone, SocketStays, HookStays, SharesSocket, Namesake
<1>6. LivePluginStays'
  BY <1>1, <1>4 DEF GInv, LivePluginStays, SharesSocket, Namesake
<1> QED
  BY <1>1, <1>5, <1>6 DEF Listen

LEMMA ShrinkGone ==
    ASSUME GInv, alive' \subseteq alive,
           UNCHANGED <<inits, loader, current, hkName, slot, outlived, socket, HookList,
                       registeredName, cleanup>>
    PROVE  Gone' /\ SocketStays' /\ HookStays' /\ LivePluginStays'
<1>1. Gone' /\ SocketStays' /\ HookStays'
  BY DEF GInv, Gone, SocketStays, HookStays, SharesSocket, Namesake
<1>2. LivePluginStays'
  BY DEF GInv, LivePluginStays, SharesSocket, Namesake
<1> QED
  BY <1>1, <1>2

LEMMA NextGone == GInv /\ [Next]_vars => GInv'
<1> SUFFICES ASSUME GInv, [Next]_vars PROVE GInv'
  OBVIOUS
<1>0. IInv /\ IInv'
  BY NextInv DEF GInv
<1>1. CASE Load
  BY <1>0, <1>1, StartGone, LoadGone DEF Load, GInv
<1>2. CASE Stop
  <2>1. alive' = {} /\ loader' = "stopped" /\ UNCHANGED <<inits, slot, outlived, cleanup>>
    BY <1>2 DEF Stop, cleanupVars
  <2> QED
    BY <1>0, <2>1 DEF GInv, Gone, SocketStays, HookStays, LivePluginStays
<1>3. CASE Restart
  <2>1. /\ alive' = {} /\ loader' = "walk" /\ UNCHANGED <<slot, cleanup>>
        /\ outlived' = outlived \cup {p \in Proc : cleanup[p] \notin {"none", "done"}}
    BY <1>0, <1>3 DEF Restart, IInv, Walking, cleanupVars
  <2>2. \A p \in Proc : cleanup[p] # "none" => slot[p] # 0
    BY <1>0 DEF IInv, Process
  <2>3. Gone'
    BY <2>1, <2>2 DEF GInv, Gone
  <2> QED
    BY <1>0, <2>1, <2>3 DEF GInv, SocketStays, HookStays, LivePluginStays
<1>4. ASSUME NEW p \in Proc, Exit(p) PROVE GInv'
  <2>1. alive' \subseteq alive
        /\ UNCHANGED <<inits, loader, current, hkName, slot, outlived, socket, HookList,
                       registeredName, cleanup>>
    BY <1>4 DEF Exit, loaderVars, cleanupVars
  <2> QED
    BY <1>0, <2>1, ShrinkGone DEF GInv
<1>5. ASSUME NEW p \in Proc, Listen(p) \/ Clean(p) PROVE GInv'
  BY <1>0, <1>5, ListenGone, CleanGone DEF GInv
<1>6. CASE UNCHANGED vars
  BY <1>0, <1>6, ShrinkGone DEF vars, loaderVars, processVars, cleanupVars, GInv
<1> QED
  BY <1>1, <1>2, <1>3, <1>4, <1>5, <1>6 DEF Next

\* A plugin that was recorded and runs keeps its entry in HookList unless another plugin
\* was recorded under its name, and its socket file; processes of an earlier Init take
\* them only if their cleanup was not done when hooks.Init was called again.
THEOREM LivePluginsStay == Spec => []LivePluginStays
<1>1. Init => GInv
  BY InitGone
<1>2. GInv /\ [Next]_vars => GInv'
  BY NextGone
<1>3. GInv => LivePluginStays
  BY DEF GInv
<1> QED
  BY <1>1, <1>2, <1>3, PTL DEF Spec
=============================================================================
