--------------------------- MODULE PluginRegistry ---------------------------
(***************************************************************************)
(* The plugin processes of the server and HookList, the map of hooks every *)
(* mail is run through: hooks.Init loads the plugins one after the other,  *)
(* a goroutine per process cleans up when it exits, hooks.Stop kills them  *)
(* all before res_init calls hooks.Init again.                             *)
(***************************************************************************)
EXTENDS Naturals, FiniteSets

CONSTANTS Plugins,   \* number of executables in ./plugins
          MaxInit,   \* bound: calls of hooks.Init (1 + restarts)
          MaxLate,   \* bound: cleanups a restart does not wait for
          Names,     \* names of plugins
          FileName,  \* the base name of each executable
          Announced, \* the name each plugin answers with, which may be another's
          None

ASSUME PluginAssumption == Plugins \in Nat /\ MaxInit \in Nat \ {0} /\ MaxLate \in Nat

File == 1..Plugins    \* in the order of filepath.Walk
Proc == File \X (1..MaxInit)
Slot == 1..Plugins

ASSUME NameAssumption ==
    /\ FileName \in [File -> Names]
    /\ Announced \in [File -> Names]
    /\ None \notin Proc \cup Names

VARIABLES
    inits,           \* calls of hooks.Init so far
    tried,           \* files the current Init is done with
    loader,          \* what Init does with the current plugin
    current,         \* that plugin's process
    hkName,          \* the key it will be registered under
    alive,           \* processes that run
    slot,            \* pluginNo of each process, 0 before it starts
    socket,          \* the process that made N.socket, or None
    HookList,
    registeredName,  \* what Init tells each process's cleanup goroutine
    cleanup,         \* progress of that goroutine
    name,            \* what it read
    early,           \* history: processes that exited before Init named them
    outlived         \* history: processes whose cleanup was not done at a restart

loaderVars  == <<inits, tried, loader, current, hkName>>
processVars == <<alive, slot, early, outlived>>
cleanupVars == <<cleanup, name>>
vars == <<loaderVars, processVars, socket, HookList, registeredName, cleanupVars>>

TypeOK ==
    /\ inits \in 1..MaxInit
    /\ tried \subseteq File
    /\ loader \in {"walk", "poll", "ask", "register", "record", "stopped"}
    /\ current \in Proc \cup {None}
    /\ hkName \in Names \cup {None}
    /\ alive \subseteq Proc
    /\ slot \in [Proc -> Slot \cup {0}]
    /\ socket \in [Slot -> Proc \cup {None}]
    /\ HookList \in [Names -> Proc \cup {None}]
    /\ registeredName \in [Proc -> Names \cup {None}]
    /\ cleanup \in [Proc -> {"none", "wait", "read", "removed", "done"}]
    /\ name \in [Proc -> Names \cup {None}]
    /\ early \subseteq Proc
    /\ outlived \subseteq Proc

NoHooks == [k \in Names |-> None]

Init ==
    /\ inits = 1
    /\ tried = {}
    /\ loader = "walk"
    /\ current = None
    /\ hkName = None
    /\ alive = {}
    /\ slot = [p \in Proc |-> 0]
    /\ socket = [n \in Slot |-> None]
    /\ HookList = NoHooks
    /\ registeredName = [p \in Proc |-> None]
    /\ cleanup = [p \in Proc |-> "none"]
    /\ name = [p \in Proc |-> None]
    /\ early = {}
    /\ outlived = {}

-----------------------------------------------------------------------------
\* hooks.Init: the walk over ./plugins

\* pluginNo: 1 plus the processes that this Init has started.
PluginNo == 1 + Cardinality({p \in Proc : p[2] = inits /\ slot[p] # 0})

\* The file that the walk has reached.
Walked(f) == f = Cardinality(tried) + 1

StartProcess(f) ==
    /\ loader = "walk"
    /\ Walked(f)
    /\ LET p == <<f, inits>>
       IN /\ alive' = alive \cup {p}
          /\ slot' = [slot EXCEPT ![p] = PluginNo]
          /\ cleanup' = [cleanup EXCEPT ![p] = "wait"]
          /\ current' = p
    /\ socket' = [socket EXCEPT ![PluginNo] = None]
    /\ loader' = "poll"
    /\ UNCHANGED <<inits, tried, hkName, early, outlived, HookList, registeredName, name>>

StartProcessFails(f) ==
    /\ loader = "walk"
    /\ Walked(f)
    /\ socket' = [socket EXCEPT ![PluginNo] = None]
    /\ tried' = tried \cup {f}
    /\ UNCHANGED <<inits, loader, current, hkName, processVars, HookList,
                   registeredName, cleanupVars>>

NextPlugin ==
    /\ loader' = "walk"
    /\ tried' = tried \cup {current[1]}
    /\ current' = None
    /\ hkName' = None

\* os.Stat finds the socket file; whether its maker still runs is not asked.
SocketFound ==
    /\ loader = "poll"
    /\ socket[slot[current]] # None
    /\ loader' = "ask"
    /\ UNCHANGED <<inits, tried, current, hkName, processVars, socket, HookList,
                   registeredName, cleanupVars>>

\* mutant: Init waits for the socket as long as the plugin runs
StartFail_OnlyDead ==
    /\ loader = "poll"
    /\ current \notin alive
    /\ NextPlugin
    /\ UNCHANGED <<inits, processVars, socket, HookList, registeredName, cleanupVars>>

\* Five looks in five seconds, and no socket.
StartFail ==
    /\ loader = "poll"
    /\ NextPlugin
    /\ UNCHANGED <<inits, processVars, socket, HookList, registeredName, cleanupVars>>

\* HookSender.GetName: a plugin that does not answer is registered under its
\* file name.
GetName ==
    /\ loader = "ask"
    /\ \/ /\ current \in alive
          /\ socket[slot[current]] = current
          /\ hkName' = Announced[current[1]]
       \/ hkName' = FileName[current[1]]
    /\ loader' = "register"
    /\ UNCHANGED <<inits, tried, current, processVars, socket, HookList,
                   registeredName, cleanupVars>>

RegisterHook ==
    /\ loader = "register"
    /\ HookList' = [HookList EXCEPT ![hkName] = current]
    /\ loader' = "record"
    /\ UNCHANGED <<inits, tried, current, hkName, processVars, socket,
                   registeredName, cleanupVars>>

\* mutant: the file name is recorded, whatever the plugin was registered under
NameForCleanup_File == FileName[current[1]]

NameForCleanup == hkName

\* registeredName is set after the registration, under another lock.
RecordName ==
    /\ loader = "record"
    /\ registeredName' = [registeredName EXCEPT ![current] = NameForCleanup]
    /\ NextPlugin
    /\ UNCHANGED <<inits, processVars, socket, HookList, cleanupVars>>

-----------------------------------------------------------------------------
\* The plugin processes, and the goroutine that waits for each

Listen(p) ==
    /\ p \in alive
    /\ socket' = [socket EXCEPT ![slot[p]] = p]
    /\ UNCHANGED <<loaderVars, processVars, HookList, registeredName, cleanupVars>>

Exit(p) ==
    /\ p \in alive
    /\ alive' = alive \ {p}
    /\ early' = IF registeredName[p] = None THEN early \cup {p} ELSE early
    /\ UNCHANGED <<loaderVars, slot, outlived, socket, HookList, registeredName, cleanupVars>>

\* p.Wait returned: registeredName is read under its lock ...
ReadName(p) ==
    /\ cleanup[p] = "wait"
    /\ p \notin alive
    /\ name' = [name EXCEPT ![p] = registeredName[p]]
    /\ cleanup' = [cleanup EXCEPT ![p] = "read"]
    /\ UNCHANGED <<loaderVars, processVars, socket, HookList, registeredName>>

\* mutant: the hook is not removed
HookListWithout_Kept(k) == HookList

HookListWithout(k) == IF k = None THEN HookList ELSE [HookList EXCEPT ![k] = None]

\* ... RemoveHook deletes by key, if there is one ...
RemoveHook(p) ==
    /\ cleanup[p] = "read"
    /\ HookList' = HookListWithout(name[p])
    /\ cleanup' = [cleanup EXCEPT ![p] = "removed"]
    /\ UNCHANGED <<loaderVars, processVars, socket, registeredName, name>>

\* mutant: the number of another plugin
SocketOf_Next(p) == IF slot[p] + 1 \in Slot THEN slot[p] + 1 ELSE 1

SocketOf(p) == slot[p]

\* ... and the socket file goes by path; the goroutine is done.
RemoveSocket(p) ==
    /\ cleanup[p] = "removed"
    /\ socket' = [socket EXCEPT ![SocketOf(p)] = None]
    /\ cleanup' = [cleanup EXCEPT ![p] = "done"]
    /\ name' = [name EXCEPT ![p] = None]
    /\ UNCHANGED <<loaderVars, processVars, HookList, registeredName>>

-----------------------------------------------------------------------------
\* res_init: hooks.Stop once every plugin was tried, a pause of 5 s, hooks.Init again
\* whether or not the goroutines of the killed plugins are done

Stop ==
    /\ loader = "walk"
    /\ tried = File
    /\ loader' = "stopped"
    /\ alive' = {}
    /\ early' = early \cup {p \in alive : registeredName[p] = None}
    /\ UNCHANGED <<inits, tried, current, hkName, slot, outlived, socket, HookList,
                   registeredName, cleanupVars>>

Restart ==
    /\ loader = "stopped"
    /\ inits < MaxInit
    /\ inits' = inits + 1
    /\ tried' = {}
    /\ loader' = "walk"
    /\ HookList' = NoHooks
    /\ LET late == {p \in Proc : cleanup[p] \notin {"none", "done"}}
       IN /\ Cardinality(late) <= MaxLate
          /\ outlived' = outlived \cup late
    /\ UNCHANGED <<current, hkName, alive, slot, early, socket, registeredName, cleanupVars>>

Load ==
    \/ \E f \in File : StartProcess(f) \/ StartProcessFails(f)
    \/ SocketFound \/ StartFail \/ GetName \/ RegisterHook \/ RecordName

Clean(p) == ReadName(p) \/ RemoveHook(p) \/ RemoveSocket(p)

Next ==
    \/ Load \/ Stop \/ Restart
    \/ \E p \in Proc : Listen(p) \/ Exit(p) \/ Clean(p)

Spec == Init /\ [][Next]_vars

\* Init gives each plugin a bounded time, p.Wait returns when the process is
\* gone.  A plugin need not exit, nor the server be restarted.
FairSpec == Spec /\ WF_vars(Load) /\ \A p \in Proc : WF_vars(Clean(p))

-----------------------------------------------------------------------------
\* Properties

\* q is, or is about to be, recorded under the name k as well as p: it belongs to the
\* same Init, or to an earlier one whose cleanup outlived the pause.
Namesake(q, p, k) ==
    /\ q # p
    /\ q[2] = p[2] \/ q \in outlived
    /\ registeredName[q] = k \/ (q = current /\ loader = "record" /\ hkName = k)

\* A process of an earlier Init had the number of p, and its cleanup was late.
SharesSocket(p) == \E q \in outlived \ {p} : slot[q] = slot[p]

\* A plugin that was recorded and runs is in HookList under the key its cleanup
\* will use, unless another one was recorded under the same name; and its socket
\* file is where mail will dial it.  An earlier generation takes neither away,
\* except by a cleanup that the pause before the restart did not outlast.
LivePluginStays ==
    \A p \in alive :
        registeredName[p] # None =>
            /\ \/ HookList[registeredName[p]] = p
               \/ \E q \in Proc : Namesake(q, p, registeredName[p])
            /\ socket[slot[p]] = p \/ SharesSocket(p)

\* A hook whose process was cleaned up is left in HookList only if the process
\* exited before Init told the cleanup goroutine its name.
DeadHookIsExplained ==
    \A k \in Names :
        LET p == HookList[k]
        IN (p # None /\ cleanup[p] \in {"removed", "done"}) => p \in early

\* HookList as mail finds it: every entry is a process that was started,
\* and none is a leftover that is not explained.
HooksInv == TypeOK /\ DeadHookIsExplained

\* A plugin that dies after it was loaded leaves HookList, so that mail stops
\* waiting for it.
DeadPluginLeaves ==
    \A p \in Proc :
        (p \notin alive /\ p \notin early /\ \E k \in Names : HookList[k] = p)
            ~> \A k \in Names : HookList[k] # p

\* hooks.Init comes to an end whatever the plugins do: the server is not kept
\* from starting.
LoadingEnds == inits = 1 ~> (tried = File \/ inits > 1)
=============================================================================
