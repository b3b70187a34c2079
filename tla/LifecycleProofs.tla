--------------------------- MODULE LifecycleProofs ---------------------------
(***************************************************************************)
(* Proofs about Lifecycle, for any servers, setup requests, number of      *)
(* certificates and number of restarts.                                    *)
(*                                                                         *)
(* Two chains of facts carry them.  The first: as long as Stop missed no   *)
(* server, whatever runs belongs to the turn of the loop, is what the      *)
(* global variables name, and holds no port after a restart.  The second:  *)
(* every certificate is written once, so a certificate on disk that the    *)
(* daily check has seen, or that a renewal restarted the servers for, has  *)
(* been there ever since, and what was started after it has loaded it.     *)
(***************************************************************************)
EXTENDS Lifecycle, TLAPS

Writing(w) == step[w] = "key" \/ AtFiles(w)
Running    == {"started", "reading", "made", "listening", "failed"}
Reading    == {"reading", "halted"}
Loaded     == {"made", "listening"}
Pending    == phase \in {"setup", "pause", "load"}

\* Every turn that is still to begin is within the bound, no goroutine is older than
\* its turn, the loop writes the certificate in its own place only, and a server that
\* found files that do not fit has ended the process
Turns ==
    /\ Pending => turn < MaxLoad
    /\ step["cron"] \in {"obtain", "key", "openkey", "crt", "opencrt", "send"} => Another
    /\ phase \in {"ready", "update", "late", "serve", "pause"} => turn # 0
    /\ phase # "update" => step["main"] = "idle"
    /\ \A s \in Slot : server[s] # "none" => s[2] <= turn
    /\ Up => \A s \in Slot : server[s] # "failed"

\* Nobody is writing and nobody has left the files half written
Rest == ~torn /\ \A w \in Writer : ~AtFiles(w)

\* Before the first server starts there is a certificate
Installed ==
    /\ Rest /\ phase # "setup" => crt # 0
    /\ Rest => \A w \in Wizard : step[w] = "send" => crt # 0
    /\ \A s \in Slot : server[s] # "none" => phase # "setup"

\* A certificate is written by the one that obtained it, once
Fresh ==
    /\ \A w \in Writer : Writing(w) => mine[w] \notin {0, crt, seen, baseline}
    /\ \A v, w \in Writer : Writing(v) /\ Writing(w) /\ mine[v] = mine[w] => v = w
    /\ auto => step["admin"] = "idle"

\* If no two writers met, the files fit but for the one that is half way
Whole ==
    /\ ~torn =>
          /\ \A w \in Writer : step[w] \in {"crt", "opencrt"} => key = mine[w]
          /\ \A v, w \in Writer : AtFiles(v) /\ AtFiles(w) => v = w
    /\ Rest => key = crt

\* A server that is reading the files and met no writer has read what is there
Unmet ==
    ~torn => \A s \in Slot \ caught :
                server[s] \in Reading => Rest /\ loaded[s] = crt

\* A port has one listener; a server of the turn is left alone until the restart
Ports ==
    /\ \A s \in Slot : server[s] \in {"halted", "closed"} => phase = "pause"
    /\ \A s, t \in Slot :
          server[s] = "listening" /\ server[t] = "listening" /\ s[1] = t[1] => s = t
    /\ phase \in {"ready", "update", "late", "serve"} =>
          \A k \in Early : server[<<k, turn>>] \in Running
    /\ phase = "serve" => \A k \in Late : server[<<k, turn>>] \in Running

\* A server that has set its global variable
Named(s) == server[s] \in Loaded \/ (server[s] = "reading" /\ s[1] \in Early)

\* If Stop missed nobody, only servers of the turn run, and the variables name them
Unmissed ==
    missed = {} =>
        /\ \A s \in Slot : server[s] \in Running => s[2] = turn /\ ~Pending
        /\ \A s \in Slot : server[s] \notin {"halted", "closed"}
        /\ \A s \in Slot : Named(s) => instance[s[1]] = s[2]

\* The certificate on disk is one that the servers are to have
Announced == crt \notin silent \union {baseline, 0} /\ (auto \/ crt = seen)

\* What runs in a turn has loaded it, unless a restart is due
Reloaded ==
    Announced /\ step["cron"] # "send" /\ phase \notin {"pause", "load"} =>
        \A s \in Slot : server[s] \in Loaded \union {"reading"} /\ s[2] = turn => loaded[s] = crt

IInv == /\ TypeOK /\ DeathIsExplained
        /\ Turns /\ Installed /\ Fresh /\ Whole /\ Unmet /\ Ports /\ Unmissed /\ Reloaded
-----------------------------------------------------------------------------
LEMMA FinishStep ==
    ASSUME IInv, NEW w \in Wizard, Finish(w)
    PROVE  IInv'
<1>1. TypeOK'
  BY DEF IInv, TypeOK, Finish, servers, files, history, Writer
<1>2. DeathIsExplained'
  BY DEF IInv, DeathIsExplained, Finish, history, Up
<1>3. Turns'
  BY DEF IInv, Turns, Finish, servers, Pending, Another, Up
<1>4. Installed'
  BY DEF IInv, Installed, Finish, files, Rest, AtFiles, history, TypeOK, process,
     servers, Writer
<1>5. Fresh'
  BY DEF IInv, Fresh, Finish, files, history, Writing, AtFiles
<1>6. Whole'
  BY DEF IInv, Whole, Finish, files, history, Rest, AtFiles
<1>7. Unmet'
  BY DEF IInv, Unmet, Finish, process, servers, files, history, Reading, Rest, AtFiles,
     TypeOK
<1>8. Ports'
  BY DEF IInv, Ports, Finish, servers
<1>9. Unmissed'
  BY DEF IInv, Unmissed, Finish, servers, history, Pending, Named, Loaded
<1>10. Reloaded'
  BY LifecycleAssumption DEF IInv, Reloaded, Finish, Up, process, servers, files,
     history, Announced, Loaded, TypeOK, Fresh, Writing, Turns, Ports, Server, Turn,
     Writer, Slot
<1> QED
  BY <1>1, <1>2, <1>3, <1>4, <1>5, <1>6, <1>7, <1>8, <1>9, <1>10 DEF IInv

LEMMA LoadStep ==
    ASSUME IInv, Load
    PROVE  IInv'
<1>1. TypeOK'
  BY LifecycleAssumption DEF IInv, TypeOK, Load, files, history, Starting, Turns,
     Pending
<1>2. DeathIsExplained'
  BY DEF IInv, DeathIsExplained, Load, history, Up
<1>3. Turns'
  BY DEF IInv, Turns, Load, Starting, Pending, Another, TypeOK, Turn, Slot, Up
<1>4. Installed'
  BY DEF IInv, Installed, Load, files, Rest, AtFiles, history, TypeOK, process, servers,
     Writer
<1>5. Fresh'
  BY DEF IInv, Fresh, Load, files, history, Writing, AtFiles
<1>6. Whole'
  BY DEF IInv, Whole, Load, files, history, Rest, AtFiles
<1>7. Unmet'
  BY DEF IInv, Unmet, Load, process, servers, files, history, Reading, Rest, AtFiles,
     TypeOK, Starting, After, Up
<1>8. Ports'
  <2>1. /\ turn' = turn + 1 /\ turn' \in 1..MaxLoad /\ phase' = "ready"
        /\ server' = [s \in Slot |-> IF s[1] \in Early /\ s[2] = turn' THEN "started"
                                     ELSE server[s]]
    BY LifecycleAssumption DEF IInv, TypeOK, Turns, Pending, Load, Starting
  <2>2. \A s \in Slot : server'[s] \in {"started", server[s]}
    BY <2>1
  <2>3. \A s \in Slot : server'[s] \notin {"halted", "closed"}
    BY <2>2 DEF IInv, Ports, Load
  <2>4. \A k \in Early : <<k, turn'>> \in Slot
    BY <2>1 DEF Slot, Server, Turn
  <2>5. \A k \in Early : server'[<<k, turn'>>] \in Running
    BY <2>1, <2>4 DEF Running
  <2> QED
    BY <2>1, <2>2, <2>3, <2>5 DEF IInv, Ports
<1>9. Unmissed'
  BY DEF IInv, Unmissed, Load, history, Starting, Loaded, Pending, Named
<1>10. Reloaded'
  BY DEF IInv, Reloaded, Load, Starting, Loaded, TypeOK, Turns
<1> QED
  BY <1>1, <1>2, <1>3, <1>4, <1>5, <1>6, <1>7, <1>8, <1>9, <1>10 DEF IInv

LEMMA UpdateStep ==
    ASSUME IInv, Update
    PROVE  IInv'
<1>1. TypeOK'
  BY LifecycleAssumption DEF IInv, TypeOK, Update, Up, process, servers, files, history,
     CheckSSLCrtInfo, Turns, Pending, Another, Installed, Fresh, Writing, Server, Turn
<1>2. DeathIsExplained'
  BY DEF IInv, DeathIsExplained, Update, Up
<1>3. Turns'
  BY DEF IInv, Turns, Update, servers, Pending, Another, TypeOK, Writer
<1>4. Installed'
  <2>1. phase # "setup" /\ crt' = crt /\ server' = server /\ torn' = torn
    BY DEF Update, servers, files, history
  <2>2. "main" \in Writer \ Wizard /\ \A w \in Writer : AtFiles(w)' <=> AtFiles(w)
    BY LifecycleAssumption DEF Update, AtFiles, IInv, TypeOK, Turns, Writer
  <2>3. \A w \in Wizard : w \in Writer /\ step'[w] = step[w]
    BY <2>2 DEF Update, IInv, TypeOK, Writer
  <2> QED
    BY <2>1, <2>2, <2>3 DEF IInv, Installed, Rest, Update
<1>5. Fresh'
  BY DEF IInv, Fresh, Update, files, history, Writing, TypeOK, Writer, AtFiles
<1>6. Whole'
  BY DEF IInv, Whole, Update, files, history, TypeOK, Turns, Rest, AtFiles
<1>7. Unmet'
  BY DEF IInv, Unmet, Update, process, servers, files, history, Reading, Rest, AtFiles,
     TypeOK
<1>8. Ports'
  BY DEF IInv, Ports, Update, servers
<1>9. Unmissed'
  BY DEF IInv, Unmissed, Update, servers, history, Pending, Named, Loaded
<1>10. Reloaded'
  BY DEF IInv, Reloaded, Update, servers, files, history, Announced, TypeOK, Writer
<1> QED
  BY <1>1, <1>2, <1>3, <1>4, <1>5, <1>6, <1>7, <1>8, <1>9, <1>10 DEF IInv

LEMMA StartLateStep ==
    ASSUME IInv, StartLate
    PROVE  IInv'
<1>1. TypeOK'
  BY DEF IInv, TypeOK, StartLate, files, history, Starting
<1>2. DeathIsExplained'
  BY DEF IInv, DeathIsExplained, StartLate, history, Up
<1>3. Turns'
  BY DEF IInv, Turns, StartLate, Starting, Pending, Another, Turn, Slot, Up
<1>4. Installed'
  BY DEF IInv, Installed, StartLate, files, Rest, AtFiles, history, TypeOK, process,
     servers, Writer
<1>5. Fresh'
  BY DEF IInv, Fresh, StartLate, files, history, Writing, AtFiles
<1>6. Whole'
  BY DEF IInv, Whole, StartLate, files, history, Rest, AtFiles
<1>7. Unmet'
  BY DEF IInv, Unmet, StartLate, process, servers, files, history, Reading, Rest,
     AtFiles, TypeOK, Starting, After, Up
<1>8. Ports'
  BY DEF IInv, Ports, StartLate, Starting, Running, TypeOK, Turns, Server, Turn, Slot
<1>9. Unmissed'
  BY DEF IInv, Unmissed, StartLate, history, Starting, Loaded, Pending, Named
<1>10. Reloaded'
  BY DEF IInv, Reloaded, StartLate, files, history, Starting, Announced, Loaded
<1> QED
  BY <1>1, <1>2, <1>3, <1>4, <1>5, <1>6, <1>7, <1>8, <1>9, <1>10 DEF IInv

LEMMA RestartStep ==
    ASSUME IInv, Restart
    PROVE  IInv'
<1>1. TypeOK'
  BY DEF IInv, TypeOK, Restart, files, Writer
<1>2. DeathIsExplained'
  BY LifecycleAssumption DEF IInv, DeathIsExplained, Restart, Up, process, servers,
     files, history, Closed, Whole, Installed, Unmissed, Pending, Running, Loaded,
     Server, Turn, Writer, Slot
<1>3. Turns'
  BY DEF IInv, Turns, Restart, Another, TypeOK, Writer, Up
<1>4. Installed'
  BY DEF IInv, Installed, Restart, files, Rest, AtFiles
<1>5. Fresh'
  BY DEF IInv, Fresh, Restart, files, Writing, AtFiles
<1>6. Whole'
  BY DEF IInv, Whole, Restart, files, Rest, AtFiles
<1>7. Unmet'
  BY DEF IInv, Unmet, Restart, process, servers, files, history, Reading, Rest, AtFiles,
     TypeOK
<1>8. Ports'
  BY LifecycleAssumption DEF IInv, Ports, Restart, Up, process, servers, files, history,
     Closed, Running, TypeOK, Turns, Server, Turn, Writer, Slot
<1>9. Unmissed'
  <2> SUFFICES ASSUME missed' = {}
               PROVE  \A s \in Slot : server'[s] \notin Running \union {"halted", "closed"}
    BY DEF Unmissed, Running, Loaded, Named
  <2>1. missed = {} /\ \A s \in Slot : server[s] \notin {"started", "reading", "made"}
    BY DEF Restart
  <2>2. \A s \in Slot : server[s] \in {"none", "listening", "ended", "failed"}
    BY <2>1 DEF IInv, TypeOK, Unmissed
  <2>3. \A s \in Slot : server[s] # "failed"
    BY DEF IInv, Turns, Restart
  <2>4. \A s \in Slot : server[s] = "listening" => Closed(s)
    BY <2>1 DEF IInv, Unmissed, Named, Loaded, Closed
  <2>5. server' = [s \in Slot |-> IF Closed(s) /\ server[s] = "listening" THEN "ended"
                                  ELSE IF Closed(s) /\ server[s] = "reading" THEN "halted"
                                  ELSE IF Closed(s) /\ server[s] = "made" THEN "closed"
                                  ELSE server[s]]
    BY DEF Restart
  <2> QED
    BY <2>2, <2>3, <2>4, <2>5 DEF Running
<1>10. Reloaded'
  BY LifecycleAssumption DEF IInv, Reloaded, Restart, Up, process, servers, files,
     history, Closed, Announced, Loaded, TypeOK, Fresh, Writing, Turns, Ports, Server,
     Turn, Writer, Slot
<1> QED
  BY <1>1, <1>2, <1>3, <1>4, <1>5, <1>6, <1>7, <1>8, <1>9, <1>10 DEF IInv

LEMMA AgainStep ==
    ASSUME IInv, Again
    PROVE  IInv'
<1>1. TypeOK'
  BY DEF IInv, TypeOK, Again, servers, files, history
<1>2. DeathIsExplained'
  BY DEF IInv, DeathIsExplained, Again, history, Up
<1>3. Turns'
  BY DEF IInv, Turns, Again, servers, Pending, Another, Up
<1>4. Installed'
  BY DEF IInv, Installed, Again, files, Rest, AtFiles, history, TypeOK, process,
     servers, Writer
<1>5. Fresh'
  BY DEF IInv, Fresh, Again, files, history, Writing, AtFiles
<1>6. Whole'
  BY DEF IInv, Whole, Again, files, history, Rest, AtFiles
<1>7. Unmet'
  BY DEF IInv, Unmet, Again, process, servers, files, history, Reading, Rest, AtFiles,
     TypeOK
<1>8. Ports'
  BY DEF IInv, Ports, Again, servers, Settled
<1>9. Unmissed'
  BY DEF IInv, Unmissed, Again, servers, history, Pending, Named, Loaded
<1>10. Reloaded'
  BY LifecycleAssumption DEF IInv, Reloaded, Again, Up, process, servers, files,
     history, Settled, Announced, Loaded, TypeOK, Fresh, Writing, Turns, Ports, Server,
     Turn, Writer, Slot
<1> QED
  BY <1>1, <1>2, <1>3, <1>4, <1>5, <1>6, <1>7, <1>8, <1>9, <1>10 DEF IInv

LEMMA ReadStep ==
    ASSUME IInv, NEW s \in Slot, Read(s)
    PROVE  IInv'
<1>1. TypeOK'
  BY DEF IInv, TypeOK, Read, process, servers, files, history, Turns, Turn, Slot
<1>2. DeathIsExplained'
  BY DEF IInv, DeathIsExplained, Read, process, servers, files, history
<1>3. Turns'
  BY DEF IInv, Turns, Read, process, servers, files, history, Pending, Another, Up
<1>4. Installed'
  BY DEF IInv, Installed, Read, process, servers, files, history, Rest, AtFiles
<1>5. Fresh'
  BY DEF IInv, Fresh, Read, process, servers, files, history, Writing, AtFiles
<1>6. Whole'
  BY DEF IInv, Whole, Read, process, servers, files, history, Rest, AtFiles
<1>7. Unmet'
  BY DEF IInv, Unmet, Read, process, servers, files, history, Reading, Rest, AtFiles, TypeOK
<1>8. Ports'
  BY DEF IInv, Ports, Read, process, servers, files, history, Running, TypeOK, Turns, Server, Turn, Slot
<1>9. Unmissed'
  BY DEF IInv, Unmissed, Read, process, servers, files, history, Running, Loaded, Named, Pending, TypeOK, Slot
<1>10. Reloaded'
  BY DEF IInv, Reloaded, Read, process, servers, files, history, Announced, Loaded, TypeOK
<1> QED
  BY <1>1, <1>2, <1>3, <1>4, <1>5, <1>6, <1>7, <1>8, <1>9, <1>10 DEF IInv

LEMMA MakeStep ==
    ASSUME IInv, NEW s \in Slot, Make(s)
    PROVE  IInv'
<1>1. TypeOK'
  BY DEF IInv, TypeOK, Make, process, servers, files, history, Dies, Turns, Turn, Slot
<1>2. DeathIsExplained'
  BY DEF IInv, DeathIsExplained, Make, Dies, Whole, Installed, Unmet, Reading, TypeOK, Up
<1>3. Turns'
  <2>1. phase' = phase /\ turn' = turn /\ step' = step /\ Up
    BY DEF Make, process
  <2>2. \A t \in Slot : server'[t] # "none" => server[t] # "none"
    BY DEF Make, IInv, TypeOK
  <2>3. Up' => \A t \in Slot : server'[t] # "failed"
    BY <2>1 DEF Make, Dies, Up, IInv, Turns, TypeOK
  <2> QED
    BY <2>1, <2>2, <2>3 DEF IInv, Turns, Pending, Another
<1>4. Installed'
  BY DEF IInv, Installed, Make, process, files, Rest, AtFiles
<1>5. Fresh'
  BY DEF IInv, Fresh, Make, process, files, history, Writing, AtFiles
<1>6. Whole'
  BY DEF IInv, Whole, Make, files, history, Rest, AtFiles
<1>7. Unmet'
  BY DEF IInv, Unmet, Make, process, servers, files, history, Reading, Rest, AtFiles,
     TypeOK
<1>8. Ports'
  BY DEF IInv, Ports, Make, process, servers, Running, TypeOK, Turns, Server, Turn, Slot
<1>9. Unmissed'
  <2> SUFFICES ASSUME missed' = {}
               PROVE  Unmissed'
    BY DEF Unmissed
  <2>1. /\ missed = {} /\ server[s] = "reading" /\ s[2] = turn /\ ~Pending
        /\ turn' = turn /\ phase' = phase /\ s[1] \in Server
    BY DEF Make, process, IInv, Unmissed, Running, Slot
  <2>2. \A t \in Slot : server'[t] = IF t # s THEN server[t]
                                      ELSE IF down' = down THEN "made" ELSE "failed"
    BY <2>1 DEF Make, Dies, Up, IInv, TypeOK
  <2>3. \A t \in Slot : server[t] \in Running => t[2] = turn
    BY <2>1 DEF IInv, Unmissed
  <2>4. \A t \in Slot : t # s /\ Named(t) => t[1] # s[1]
    BY <2>1, <2>3 DEF Slot, Named, Loaded, Running
  <2>5. \A t \in Slot : t # s /\ Named(t) => instance'[t[1]] = t[2]
    BY <2>1, <2>4 DEF Make, IInv, Unmissed, TypeOK, Slot
  <2>6. down' = down => instance'[s[1]] = s[2]
    BY <2>1 DEF Make, Dies, Up, IInv, Unmissed, Named, TypeOK, Server
  <2>7. \A t \in Slot : Named(t)' => (t # s /\ Named(t)) \/ (t = s /\ down' = down)
    BY <2>2 DEF Named, Loaded
  <2>8. \A t \in Slot : /\ server'[t] \in Running => t[2] = turn'
                        /\ server'[t] \notin {"halted", "closed"}
    BY <2>1, <2>2, <2>3 DEF Running, IInv, Unmissed
  <2>9. ~Pending'
    BY <2>1 DEF Pending
  <2> QED
    BY <2>5, <2>6, <2>7, <2>8, <2>9 DEF Unmissed
<1>10. Reloaded'
  <2>1. \A t \in Slot : server'[t] \in Loaded \union {"reading"} =>
                        server[t] \in Loaded \union {"reading"}
    BY DEF Make, Loaded, IInv, TypeOK
  <2> QED
    BY <2>1 DEF IInv, Reloaded, Make, process, files, Announced
<1> QED
  BY <1>1, <1>2, <1>3, <1>4, <1>5, <1>6, <1>7, <1>8, <1>9, <1>10 DEF IInv

LEMMA ListenStep ==
    ASSUME IInv, NEW s \in Slot, Listen(s)
    PROVE  IInv'
<1>1. TypeOK'
  BY DEF IInv, TypeOK, Listen, process, files, history, Dies, Fresh, Server, Writer
<1>2. DeathIsExplained'
  <2>1. missed' = missed /\ torn' = torn /\ step' = step
    BY DEF Listen, history
  <2>2. CASE down' = down
    BY <2>2 DEF DeathIsExplained, Listen, Up
  <2>3. CASE down' = "port" /\ missed = {}
    <3>1. PICK t \in Turn : server[<<s[1], t>>] = "listening"
      BY <2>3 DEF Listen, Up
    <3>2. <<s[1], t>> \in Slot /\ s = <<s[1], s[2]>>
      BY DEF Slot
    <3>3. server[s] = "made"
      BY <2>3 DEF Listen, IInv, Unmissed
    <3>4. s[2] = turn /\ t = turn
      BY <2>3, <3>1, <3>2, <3>3 DEF IInv, Unmissed, Running
    <3> QED
      BY <3>1, <3>2, <3>3, <3>4
  <2>4. CASE down' = "port" /\ missed # {}
    BY <2>1, <2>4 DEF DeathIsExplained
  <2> QED
    BY <2>2, <2>3, <2>4 DEF Listen, Dies
<1>3. Turns'
  BY DEF IInv, Turns, Listen, process, history, Pending, Another, TypeOK, Writer, Up
<1>4. Installed'
  BY DEF IInv, Installed, Listen, process, files, Rest, AtFiles, history, TypeOK,
     servers, Writer
<1>5. Fresh'
  BY DEF IInv, Fresh, Listen, process, files, history, Writing, AtFiles
<1>6. Whole'
  BY DEF IInv, Whole, Listen, files, history, Rest, AtFiles
<1>7. Unmet'
  BY DEF IInv, Unmet, Listen, process, servers, files, history, Reading, Rest, AtFiles,
     TypeOK
<1>8. Ports'
  <2>1. phase' = phase /\ turn' = turn
    BY DEF Listen, process
  <2>2. CASE server' = server
    BY <2>1, <2>2 DEF IInv, Ports
  <2>3. CASE server[s] = "closed" /\ server' = [server EXCEPT ![s] = "ended"]
    <3>1. phase = "pause"
      BY <2>3 DEF IInv, Ports
    <3>2. \A t \in Slot : server'[t] \in {server[t], "ended"}
      BY <2>3 DEF IInv, TypeOK
    <3> QED
      BY <2>1, <3>1, <3>2 DEF IInv, Ports
  <2>4. CASE /\ server' = [server EXCEPT ![s] = "listening"]
             /\ ~ \E t \in Turn : server[<<s[1], t>>] = "listening"
    <3>1. \A t \in Slot : server'[t] = IF t = s THEN "listening" ELSE server[t]
      BY <2>4 DEF IInv, TypeOK
    <3>2. \A t \in Slot : t = <<t[1], t[2]>> /\ t[2] \in Turn
      BY DEF Slot
    <3>3. \A t \in Slot : t[1] = s[1] => server[t] # "listening"
      BY <2>4, <3>2
    <3>4. \A t, u \in Slot :
             server'[t] = "listening" /\ server'[u] = "listening" /\ t[1] = u[1] => t = u
      BY <3>1, <3>3 DEF IInv, Ports
    <3>5. \A t \in Slot : server[t] \in Running => server'[t] \in Running
      BY <3>1 DEF Running
    <3>6. turn # 0 /\ phase \in {"ready", "update", "late", "serve"} =>
             \A k \in Server : <<k, turn>> \in Slot
      BY LifecycleAssumption DEF Slot, Turn, IInv, TypeOK
    <3>7. \A t \in Slot : server'[t] \in {"halted", "closed"} => server[t] = server'[t]
      BY <3>1
    <3> QED
      BY <2>1, <3>4, <3>5, <3>6, <3>7 DEF IInv, Ports, Turns, Server
  <2> QED
    BY <2>2, <2>3, <2>4 DEF Listen, Dies
<1>9. Unmissed'
  BY DEF IInv, Unmissed, Listen, process, history, Running, Loaded, Pending, TypeOK,
     Turn, Named
<1>10. Reloaded'
  BY DEF IInv, Reloaded, Listen, process, files, history, Announced, Loaded, TypeOK,
     Ports, Writer
<1> QED
  BY <1>1, <1>2, <1>3, <1>4, <1>5, <1>6, <1>7, <1>8, <1>9, <1>10 DEF IInv

LEMMA GenSSLStep ==
    ASSUME IInv, NEW w \in Writer, GenSSL(w)
    PROVE  IInv'
<1>1. TypeOK'
  BY DEF IInv, TypeOK, GenSSL, process, servers, files, history, After
<1>2. DeathIsExplained'
  BY DEF IInv, DeathIsExplained, GenSSL, history, Up
<1>3. Turns'
  BY DEF IInv, Turns, GenSSL, process, servers, Pending, Another, Up
<1>4. Installed'
  BY DEF IInv, Installed, GenSSL, process, servers, files, Rest, AtFiles, history,
     TypeOK, Writer
<1>5. Fresh'
  BY DEF IInv, Fresh, GenSSL, process, files, history, After, Writing, AtFiles
<1>6. Whole'
  BY DEF IInv, Whole, GenSSL, files, history, After, Rest, AtFiles
<1>7. Unmet'
  BY DEF IInv, Unmet, GenSSL, process, servers, files, history, Reading, Rest, AtFiles,
     TypeOK, Starting, After, Up
<1>8. Ports'
  BY DEF IInv, Ports, GenSSL, process, servers
<1>9. Unmissed'
  BY DEF IInv, Unmissed, GenSSL, process, servers, history, Pending, Named, Loaded
<1>10. Reloaded'
  BY DEF IInv, Reloaded, GenSSL, process, servers, files, history, Announced
<1> QED
  BY <1>1, <1>2, <1>3, <1>4, <1>5, <1>6, <1>7, <1>8, <1>9, <1>10 DEF IInv

LEMMA PanicStep ==
    ASSUME IInv, NEW w \in Writer, Panic(w)
    PROVE  IInv'
<1>1. TypeOK'
  BY LifecycleAssumption DEF IInv, TypeOK, Panic, Up, process, servers, files, history,
     Dies, Turns, Pending, Another, Installed, Fresh, Writing, Server, Turn
<1>2. DeathIsExplained'
  BY DEF IInv, DeathIsExplained, Panic, Up, Dies
<1>. /\ phase' = phase /\ turn' = turn /\ seen' = seen /\ auto' = auto
     /\ key' = key /\ crt' = crt /\ mine' = mine /\ torn' = (torn \/ AtFiles(w))
     /\ server' = server /\ loaded' = loaded /\ instance' = instance
     /\ missed' = missed /\ caught' = caught /\ silent' = silent /\ baseline' = baseline
  BY DEF Panic, process, servers, files
<1>a. \A v \in Writer : step'[v] = step[v] \/ (step'[v] = "done" /\ v \in Wizard /\ v = w)
  BY DEF Panic, IInv, TypeOK
<1>b. Rest' => Rest
  BY <1>a DEF Rest, AtFiles
<1>3. Turns'
  BY <1>a, LifecycleAssumption DEF Panic, IInv, Turns, Pending, Another, Writer, Up
<1>4. Installed'
  BY <1>a, <1>b DEF IInv, Installed, Writer
<1>5. Fresh'
  BY <1>a, LifecycleAssumption DEF IInv, Fresh, Writing, AtFiles, Writer
<1>6. Whole'
  BY <1>a, <1>b DEF IInv, Whole, AtFiles
<1>7. Unmet'
  BY <1>a DEF IInv, Unmet, Rest, AtFiles
<1>8. Ports'
  BY DEF IInv, Ports
<1>9. Unmissed'
  BY DEF IInv, Unmissed, Pending, Named
<1>10. Reloaded'
  BY <1>a, LifecycleAssumption DEF IInv, Reloaded, Announced, Writer
<1> QED
  BY <1>1, <1>2, <1>3, <1>4, <1>5, <1>6, <1>7, <1>8, <1>9, <1>10 DEF IInv

LEMMA ObtainStep ==
    ASSUME IInv, NEW w \in Writer, Obtain(w)
    PROVE  IInv'
<1>1. TypeOK'
  <2>1. last' = last + 1 /\ last' \in 0..MaxCert /\ 0..last \subseteq 0..last'
    BY LifecycleAssumption DEF IInv, TypeOK, Obtain
  <2>2. mine' \in [Writer -> 0..last']
    BY <2>1 DEF IInv, TypeOK, Obtain
  <2>3. loaded' \in [Slot -> 0..last'] /\ instance' \in [Server -> 0..turn']
    BY <2>1 DEF IInv, TypeOK, Obtain, process, servers
  <2>4. {key', crt', seen', baseline'} \union silent' \subseteq 0..last'
    BY <2>1 DEF IInv, TypeOK, Obtain, process, history
  <2> QED
    BY <2>1, <2>2, <2>3, <2>4 DEF IInv, TypeOK, Obtain, process, servers, history
<1>2. DeathIsExplained'
  BY DEF IInv, DeathIsExplained, Obtain, history, Up
<1>3. Turns'
  BY DEF IInv, Turns, Obtain, process, servers, Pending, Another, Up
<1>4. Installed'
  BY DEF IInv, Installed, Obtain, process, servers, Rest, AtFiles, history, TypeOK,
     files, Writer
<1>5. Fresh'
  BY DEF IInv, Fresh, Obtain, process, history, Writing, TypeOK, Installed, Server,
     Writer, AtFiles
<1>6. Whole'
  BY DEF IInv, Whole, Obtain, history, Rest, AtFiles
<1>7. Unmet'
  BY DEF IInv, Unmet, Obtain, process, servers, files, history, Reading, Rest, AtFiles,
     TypeOK
<1>8. Ports'
  BY DEF IInv, Ports, Obtain, process, servers
<1>9. Unmissed'
  BY DEF IInv, Unmissed, Obtain, process, servers, history, Pending, Named, Loaded
<1>10. Reloaded'
  BY DEF IInv, Reloaded, Obtain, process, servers, history, Announced
<1> QED
  BY <1>1, <1>2, <1>3, <1>4, <1>5, <1>6, <1>7, <1>8, <1>9, <1>10 DEF IInv

LEMMA OpenKeyStep ==
    ASSUME IInv, NEW w \in Writer, OpenKey(w)
    PROVE  IInv'
<1>1. TypeOK'
  BY DEF IInv, TypeOK, OpenKey, process, servers, files, history
<1>2. DeathIsExplained'
  BY DEF IInv, DeathIsExplained, OpenKey, process, servers, files, history
<1>3. Turns'
  BY DEF IInv, Turns, OpenKey, process, servers, files, history, Pending, Another, Up
<1>4. Installed'
  BY DEF IInv, Installed, OpenKey, process, servers, files, history, Rest, AtFiles,
     TypeOK, Writer
<1>5. Fresh'
  BY DEF IInv, Fresh, OpenKey, process, servers, files, history, Writing, AtFiles
<1>6. Whole'
  <2>1. ~torn' => \A v \in Writer : ~AtFiles(v) /\ (AtFiles(v)' => v = w)
    BY DEF OpenKey, AtFiles, IInv, TypeOK
  <2>2. AtFiles(w)' /\ step'[w] = "openkey"
    BY DEF OpenKey, AtFiles, IInv, TypeOK
  <2> QED
    BY <2>1, <2>2 DEF Whole, Rest, AtFiles
<1>7. Unmet'
  BY DEF IInv, Unmet, OpenKey, process, servers, files, history, Reading, Rest, AtFiles, TypeOK
<1>8. Ports'
  BY DEF IInv, Ports, OpenKey, process, servers, files, history, Running
<1>9. Unmissed'
  BY DEF IInv, Unmissed, OpenKey, process, servers, files, history, Running, Loaded, Named, Pending
<1>10. Reloaded'
  BY DEF IInv, Reloaded, OpenKey, process, servers, files, history, Announced, Loaded, TypeOK
<1> QED
  BY <1>1, <1>2, <1>3, <1>4, <1>5, <1>6, <1>7, <1>8, <1>9, <1>10 DEF IInv

LEMMA WriteKeyStep ==
    ASSUME IInv, NEW w \in Writer, WriteKey(w)
    PROVE  IInv'
<1>1. TypeOK'
  BY DEF IInv, TypeOK, WriteKey, process, servers, history
<1>2. DeathIsExplained'
  BY DEF IInv, DeathIsExplained, WriteKey, Up
<1>3. Turns'
  BY DEF IInv, Turns, WriteKey, process, servers, Pending, Another, Up
<1>4. Installed'
  BY DEF IInv, Installed, WriteKey, process, servers, Rest, AtFiles
<1>5. Fresh'
  BY DEF IInv, Fresh, WriteKey, process, history, Writing, AtFiles
<1>6. Whole'
  BY LifecycleAssumption DEF IInv, Whole, WriteKey, Up, process, servers, files,
     history, TypeOK, Turns, Fresh, Writing, Server, Turn, Writer, Slot, Rest, AtFiles
<1>7. Unmet'
  BY DEF IInv, Unmet, WriteKey, process, servers, files, history, Reading, Rest,
     AtFiles, TypeOK
<1>8. Ports'
  BY DEF IInv, Ports, WriteKey, process, servers
<1>9. Unmissed'
  BY DEF IInv, Unmissed, WriteKey, process, servers, history, Pending, Named, Loaded
<1>10. Reloaded'
  BY DEF IInv, Reloaded, WriteKey, process, servers, history, Announced
<1> QED
  BY <1>1, <1>2, <1>3, <1>4, <1>5, <1>6, <1>7, <1>8, <1>9, <1>10 DEF IInv

LEMMA OpenCrtStep ==
    ASSUME IInv, NEW w \in Writer, OpenCrt(w)
    PROVE  IInv'
<1>1. TypeOK'
  BY DEF IInv, TypeOK, OpenCrt, process, servers, files, history
<1>2. DeathIsExplained'
  BY DEF IInv, DeathIsExplained, OpenCrt, process, servers, files, history
<1>3. Turns'
  BY DEF IInv, Turns, OpenCrt, process, servers, files, history, Pending, Another, Up
<1>4. Installed'
  BY DEF IInv, Installed, OpenCrt, process, servers, files, history, Rest, AtFiles
<1>5. Fresh'
  BY DEF IInv, Fresh, OpenCrt, process, servers, files, history, Writing, AtFiles
<1>6. Whole'
  BY DEF IInv, Whole, OpenCrt, process, servers, files, history, Rest, AtFiles
<1>7. Unmet'
  BY DEF IInv, Unmet, OpenCrt, process, servers, files, history, Reading, Rest, AtFiles, TypeOK
<1>8. Ports'
  BY DEF IInv, Ports, OpenCrt, process, servers, files, history, Running
<1>9. Unmissed'
  BY DEF IInv, Unmissed, OpenCrt, process, servers, files, history, Running, Loaded, Named, Pending
<1>10. Reloaded'
  BY DEF IInv, Reloaded, OpenCrt, process, servers, files, history, Announced, Loaded, TypeOK
<1> QED
  BY <1>1, <1>2, <1>3, <1>4, <1>5, <1>6, <1>7, <1>8, <1>9, <1>10 DEF IInv

LEMMA WriteCrtStep ==
    ASSUME IInv, NEW w \in Writer, WriteCrt(w)
    PROVE  IInv'
<1>1. TypeOK'
  <2>1. crt' \in 0..last /\ silent' \subseteq 0..last /\ due' = FALSE
    BY DEF IInv, TypeOK, WriteCrt
  <2>2. step' \in [Writer -> {"wait", "idle", "obtain", "key", "openkey", "crt", "opencrt",
                           "send", "done"}]
    BY DEF IInv, TypeOK, WriteCrt, After
  <2> QED
    BY <2>1, <2>2 DEF IInv, TypeOK, WriteCrt, process, servers
<1>2. DeathIsExplained'
  BY DEF IInv, DeathIsExplained, WriteCrt, Up
<1>3. Turns'
  BY DEF IInv, Turns, WriteCrt, process, servers, Pending, Another, Up
<1>4. Installed'
  BY DEF IInv, Installed, WriteCrt, process, servers, Fresh, Writing, Rest, AtFiles
<1>5. Fresh'
  BY DEF IInv, Fresh, WriteCrt, process, After, Writing, TypeOK, AtFiles
<1>6. Whole'
  BY LifecycleAssumption DEF IInv, Whole, WriteCrt, Up, process, servers, files,
     history, After, Restarts, TypeOK, Turns, Fresh, Writing, Server, Turn, Writer,
     Slot, Rest, AtFiles
<1>7. Unmet'
  BY DEF IInv, Unmet, WriteCrt, process, servers, files, history, Reading, Rest,
     AtFiles, TypeOK
<1>8. Ports'
  BY DEF IInv, Ports, WriteCrt, process, servers
<1>9. Unmissed'
  BY DEF IInv, Unmissed, WriteCrt, process, servers, Pending, Named, Loaded
<1>10. Reloaded'
  <2>1. CASE w \notin {"cron", "admin"}
    BY <2>1 DEF Announced, Reloaded, WriteCrt
  <2>2. CASE w = "cron"
    BY <2>2 DEF WriteCrt, After, Restarts, Reloaded, IInv, TypeOK
  <2>3. CASE w = "admin"
    BY <2>3 DEF WriteCrt, process, IInv, Fresh, Writing, AtFiles, Announced, Reloaded
  <2> QED
    BY <2>1, <2>2, <2>3
<1> QED
  BY <1>1, <1>2, <1>3, <1>4, <1>5, <1>6, <1>7, <1>8, <1>9, <1>10 DEF IInv

LEMMA SetSSLStep ==
    ASSUME IInv, NEW w \in Wizard, SetSSL(w)
    PROVE  IInv'
<1>1. TypeOK'
  BY LifecycleAssumption DEF IInv, TypeOK, SetSSL, Up, process, servers, files, history,
     Turns, Pending, Another, Installed, Fresh, Writing, Server, Turn
<1>2. DeathIsExplained'
  BY DEF IInv, DeathIsExplained, SetSSL, Up
<1>3. Turns'
  BY LifecycleAssumption DEF IInv, Turns, SetSSL, process, servers, Pending, Another,
     TypeOK, Writer, Up
<1>4. Installed'
  <2>1. /\ w \in Writer /\ phase' = phase /\ crt' = crt /\ server' = server /\ torn' = torn
        /\ step[w] = "idle" /\ phase = "setup" /\ step'[w] \in {"done", "obtain", "send"}
        /\ \A v \in Writer : v # w => step'[v] = step[v]
    BY DEF SetSSL, process, servers, files, history, IInv, TypeOK, Writer
  <2>2. \A v \in Writer : AtFiles(v)' <=> AtFiles(v)
    BY <2>1 DEF AtFiles
  <2>3. Rest' <=> Rest
    BY <2>1, <2>2 DEF Rest
  <2>4. Rest /\ step'[w] = "send" => crt # 0
    BY <2>1 DEF SetSSL, Rest, AtFiles, IInv, TypeOK
  <2>5. \A v \in Wizard : v \in Writer
    BY DEF Writer
  <2> QED
    BY <2>1, <2>3, <2>4, <2>5 DEF IInv, Installed
<1>5. Fresh'
  <2>1. /\ \A v \in Writer : Writing(v)' => Writing(v)
        /\ step'["admin"] = step["admin"]
    BY LifecycleAssumption DEF SetSSL, Writing, AtFiles, IInv, TypeOK, Writer
  <2> QED
    BY <2>1 DEF SetSSL, process, files, history, IInv, Fresh
<1>6. Whole'
  BY DEF IInv, Whole, SetSSL, files, history, TypeOK, Rest, AtFiles
<1>7. Unmet'
  BY DEF IInv, Unmet, SetSSL, process, servers, files, history, Reading, Rest, AtFiles,
     TypeOK
<1>8. Ports'
  BY DEF IInv, Ports, SetSSL, process, servers
<1>9. Unmissed'
  BY DEF IInv, Unmissed, SetSSL, servers, history, Pending, Named, Loaded
<1>10. Reloaded'
  BY DEF IInv, Reloaded, SetSSL, process, servers, files, history, Announced, TypeOK,
     Writer
<1> QED
  BY <1>1, <1>2, <1>3, <1>4, <1>5, <1>6, <1>7, <1>8, <1>9, <1>10 DEF IInv

LEMMA InstallStep ==
    ASSUME IInv, Install
    PROVE  IInv'
<1>1. TypeOK'
  <2>1. last' = last + 1 /\ last' \in 0..MaxCert /\ 0..last \subseteq 0..last'
    BY LifecycleAssumption DEF IInv, TypeOK, Install
  <2> "admin" \in Writer
    BY DEF Writer
  <2>2. mine' \in [Writer -> 0..last']
    BY <2>1 DEF IInv, TypeOK, Install
  <2>3. loaded' \in [Slot -> 0..last'] /\ instance' \in [Server -> 0..turn']
    BY <2>1 DEF IInv, TypeOK, Install, process, servers
  <2>4. {key', crt', seen', baseline'} \union silent' \subseteq 0..last'
    BY <2>1 DEF IInv, TypeOK, Install, process, history
  <2> QED
    BY <2>1, <2>2, <2>3, <2>4 DEF IInv, TypeOK, Install, process, servers, history
<1>2. DeathIsExplained'
  BY DEF IInv, DeathIsExplained, Install, history, Up
<1>3. Turns'
  BY DEF IInv, Turns, Install, process, servers, Pending, Another, Up
<1>4. Installed'
  BY DEF IInv, Installed, Install, process, servers, Rest, AtFiles, history, TypeOK,
     files, Writer
<1>5. Fresh'
  <2>1. /\ "admin" \in Writer /\ ~auto /\ auto' = auto
        /\ crt' = crt /\ seen' = seen /\ baseline' = baseline
        /\ \A w \in Writer : Writing(w)' => w = "admin" \/ Writing(w)
        /\ \A w \in Writer : mine'[w] = IF w = "admin" THEN last + 1 ELSE mine[w]
    BY DEF IInv, TypeOK, Install, Writer, Writing, AtFiles, process, history
  <2>2. last + 1 \notin {0, crt, seen, baseline} /\ \A w \in Writer : mine[w] # last + 1
    BY DEF IInv, TypeOK
  <2> QED
    BY <2>1, <2>2 DEF IInv, Fresh
<1>6. Whole'
  BY DEF IInv, Whole, Install, history, Rest, AtFiles
<1>7. Unmet'
  BY DEF IInv, Unmet, Install, process, servers, files, history, Reading, Rest, AtFiles,
     TypeOK
<1>8. Ports'
  BY DEF IInv, Ports, Install, process, servers
<1>9. Unmissed'
  BY DEF IInv, Unmissed, Install, process, servers, history, Pending, Named, Loaded
<1>10. Reloaded'
  BY DEF IInv, Reloaded, Install, process, servers, history, Announced
<1> QED
  BY <1>1, <1>2, <1>3, <1>4, <1>5, <1>6, <1>7, <1>8, <1>9, <1>10 DEF IInv

LEMMA AgeStep ==
    ASSUME IInv, Age
    PROVE  IInv'
<1>1. TypeOK'
  BY DEF IInv, TypeOK, Age, process, servers, history
<1>2. DeathIsExplained'
  BY DEF IInv, DeathIsExplained, Age, history, Up
<1>3. Turns'
  BY DEF IInv, Turns, Age, process, servers, Pending, Another, Up
<1>4. Installed'
  BY DEF IInv, Installed, Age, process, servers, Rest, AtFiles
<1>5. Fresh'
  BY DEF IInv, Fresh, Age, process, history, Writing, AtFiles
<1>6. Whole'
  BY DEF IInv, Whole, Age, history, TypeOK, Rest, AtFiles
<1>7. Unmet'
  BY DEF IInv, Unmet, Age, process, servers, files, history, Reading, Rest, AtFiles,
     TypeOK
<1>8. Ports'
  BY DEF IInv, Ports, Age, process, servers
<1>9. Unmissed'
  BY DEF IInv, Unmissed, Age, process, servers, history, Pending, Named, Loaded
<1>10. Reloaded'
  BY DEF IInv, Reloaded, Age, process, servers, history, Announced
<1> QED
  BY <1>1, <1>2, <1>3, <1>4, <1>5, <1>6, <1>7, <1>8, <1>9, <1>10 DEF IInv

LEMMA CronStartStep ==
    ASSUME IInv, CronStart
    PROVE  IInv'
<1>1. TypeOK'
  BY LifecycleAssumption DEF IInv, TypeOK, CronStart, Up, process, servers, files,
     history, Dies, CheckSSLCrtInfo, Turns, Pending, Another, Installed, Fresh, Writing,
     Server, Turn
<1>2. DeathIsExplained'
  BY DEF IInv, DeathIsExplained, CronStart, Up, Dies
<1>3. Turns'
  BY DEF IInv, Turns, CronStart, servers, Pending, TypeOK, Writer, Up
<1>4. Installed'
  BY LifecycleAssumption DEF IInv, Installed, CronStart, Up, process, servers, files,
     history, Dies, CheckSSLCrtInfo, TypeOK, Fresh, Writing, Server, Turn, Writer, Rest,
     AtFiles
<1>5. Fresh'
  BY DEF IInv, Fresh, CronStart, files, Writing, TypeOK, Writer, AtFiles
<1>6. Whole'
  BY DEF IInv, Whole, CronStart, files, TypeOK, Server, Rest, AtFiles
<1>7. Unmet'
  BY DEF IInv, Unmet, CronStart, process, servers, files, history, Reading, Rest,
     AtFiles, TypeOK
<1>8. Ports'
  BY DEF IInv, Ports, CronStart, servers
<1>9. Unmissed'
  BY DEF IInv, Unmissed, CronStart, servers, Pending, Named, Loaded
<1>10. Reloaded'
  BY DEF IInv, Reloaded, CronStart, servers, files, Announced
<1> QED
  BY <1>1, <1>2, <1>3, <1>4, <1>5, <1>6, <1>7, <1>8, <1>9, <1>10 DEF IInv

LEMMA sslUpdateLoopStep ==
    ASSUME IInv, sslUpdateLoop
    PROVE  IInv'
<1>1. TypeOK'
  BY DEF IInv, TypeOK, sslUpdateLoop, process, servers, files, history, Writer
<1>2. DeathIsExplained'
  BY DEF IInv, DeathIsExplained, sslUpdateLoop, history, Up
<1>3. Turns'
  BY DEF IInv, Turns, sslUpdateLoop, process, servers, Pending, Another, Up
<1>4. Installed'
  BY DEF IInv, Installed, sslUpdateLoop, process, servers, files, Rest, AtFiles,
     history, TypeOK, Writer
<1>5. Fresh'
  BY DEF IInv, Fresh, sslUpdateLoop, process, files, history, Writing, AtFiles
<1>6. Whole'
  BY DEF IInv, Whole, sslUpdateLoop, files, history, TypeOK, Rest, AtFiles
<1>7. Unmet'
  BY DEF IInv, Unmet, sslUpdateLoop, process, servers, files, history, Reading, Rest,
     AtFiles, TypeOK
<1>8. Ports'
  BY DEF IInv, Ports, sslUpdateLoop, process, servers
<1>9. Unmissed'
  BY DEF IInv, Unmissed, sslUpdateLoop, process, servers, history, Pending, Named,
     Loaded
<1>10. Reloaded'
  BY DEF IInv, Reloaded, sslUpdateLoop, process, servers, files, history, Announced
<1> QED
  BY <1>1, <1>2, <1>3, <1>4, <1>5, <1>6, <1>7, <1>8, <1>9, <1>10 DEF IInv

LEMMA sslCheckStep ==
    ASSUME IInv, sslCheck
    PROVE  IInv'
<1>1. TypeOK'
  BY DEF IInv, TypeOK, sslCheck, servers, files, history, Writer
<1>2. DeathIsExplained'
  BY DEF IInv, DeathIsExplained, sslCheck, history, Up
<1>3. Turns'
  BY DEF IInv, Turns, sslCheck, servers, Pending, Another, Up
<1>4. Installed'
  BY LifecycleAssumption DEF IInv, Installed, sslCheck, servers, files, Rest, AtFiles,
     history, TypeOK, process, Writer
<1>5. Fresh'
  BY DEF IInv, Fresh, sslCheck, files, history, Writing, TypeOK, AtFiles
<1>6. Whole'
  BY DEF IInv, Whole, sslCheck, files, history, TypeOK, Rest, AtFiles
<1>7. Unmet'
  BY DEF IInv, Unmet, sslCheck, process, servers, files, history, Reading, Rest,
     AtFiles, TypeOK
<1>8. Ports'
  BY DEF IInv, Ports, sslCheck, servers
<1>9. Unmissed'
  BY DEF IInv, Unmissed, sslCheck, servers, history, Pending, Named, Loaded
<1>10. Reloaded'
  BY DEF IInv, Reloaded, sslCheck, TypeOK, Writer
<1> QED
  BY <1>1, <1>2, <1>3, <1>4, <1>5, <1>6, <1>7, <1>8, <1>9, <1>10 DEF IInv

-----------------------------------------------------------------------------
\* The invariant

LEMMA InitInv == Init => IInv
<1> SUFFICES ASSUME Init PROVE IInv
  OBVIOUS
<1> USE LifecycleAssumption DEF Init
<1>1. TypeOK
  <2>1. /\ last \in 0..MaxCert /\ {key, crt, seen, baseline} \union silent \subseteq 0..last
        /\ due \in BOOLEAN /\ auto \in BOOLEAN /\ turn \in 0..MaxLoad
    OBVIOUS
  <2>2. /\ loaded \in [Slot -> 0..last] /\ mine \in [Writer -> 0..last]
        /\ instance \in [Server -> 0..turn]
    BY <2>1
  <2> QED
    BY <2>1, <2>2 DEF TypeOK
<1>2. Turns /\ Installed /\ Fresh
  BY DEF Turns, Installed, Fresh, Writing, AtFiles, Rest, Pending, Writer
<1>3. DeathIsExplained /\ Whole /\ Unmet /\ Ports /\ Unmissed /\ Reloaded
  BY DEF DeathIsExplained, Whole, Rest, AtFiles, Unmet, Reading, Ports, Unmissed, Named,
     Reloaded, Running, Loaded, Slot
<1> QED
  BY <1>1, <1>2, <1>3 DEF IInv

LEMMA NextInv == IInv /\ [Next]_vars => IInv'
<1> SUFFICES ASSUME IInv, [Next]_vars PROVE IInv'
  OBVIOUS
<1>1. CASE Main
  <2>1. "main" \in Writer
    BY DEF Writer
  <2> QED
    BY <1>1, <2>1, LoadStep, UpdateStep, StartLateStep, RestartStep, AgainStep, GenSSLStep,
       PanicStep, ObtainStep, OpenKeyStep, WriteKeyStep, OpenCrtStep, WriteCrtStep
       DEF Main, Write
<1>2. CASE Serve
  BY <1>2, ReadStep, MakeStep, ListenStep DEF Serve
<1>3. CASE CronStart \/ sslUpdateLoop \/ sslCheck \/ Install \/ Age
  BY <1>3, CronStartStep, sslUpdateLoopStep, sslCheckStep, InstallStep, AgeStep
<1>4. ASSUME NEW w \in Wizard, Finish(w) \/ SetSSL(w) PROVE IInv'
  BY <1>4, FinishStep, SetSSLStep
<1>5. ASSUME NEW w \in Writer, Write(w) PROVE IInv'
  BY <1>5, GenSSLStep, PanicStep, ObtainStep, OpenKeyStep, WriteKeyStep, OpenCrtStep,
     WriteCrtStep DEF Write
<1>6. CASE UNCHANGED vars
  BY <1>6 DEF vars, process, servers, files, history, IInv, TypeOK, DeathIsExplained, Turns,
     Pending, Another, Installed, Fresh, Writing, AtFiles, Whole, Rest, Unmet, Ports,
     Unmissed, Named, Reloaded, Announced, Up
<1> QED
  BY <1>1, <1>2, <1>3, <1>4, <1>5, <1>6 DEF Next

\* The files, the servers and the writers of the certificate agree at every moment, with
\* or without the fairness of FairSpec.
THEOREM Invariance == Spec => []IInv
  BY InitInv, NextInv, PTL DEF Spec

\* The process does not die of a port it holds itself unless Stop missed a server, nor of
\* two files that do not fit unless two writers met or one stopped half way, or the server
\* read the files while somebody was writing them (Init, Start and Stop of every server,
\* ssl.GenSSL, renewCertificate).
THEOREM DeathsAreExplained == Spec => []LifecycleInv
<1>1. IInv => LifecycleInv
  BY DEF IInv, LifecycleInv
<1> QED
  BY <1>1, Invariance, PTL

\* What listens when all is quiet has loaded the certificate that is on disk, if there is
\* one, unless a task that restarts nothing wrote it, or the daily check began with it,
\* takes it for another that expires at the same moment, or has yet to see it (sslCheck).
THEOREM StaleCertificatesAreExplained == Spec => []StaleIsExplained
<1>1. IInv => StaleIsExplained
  <2> SUFFICES ASSUME IInv, Quiet, NEW s \in Slot, server[s] = "listening", Announced
               PROVE  loaded[s] = crt
    BY DEF StaleIsExplained, Announced, Mistaken, Updated
  <2>1. /\ s[1] \in Server /\ s = <<s[1], s[2]>> /\ step["cron"] # "send" /\ phase = "serve"
        /\ <<s[1], turn>> \in Slot
    BY DEF Slot, Server, Turn, Quiet, Writer, IInv, TypeOK, Turns
  <2>2. server[<<s[1], turn>>] = "listening"
    BY <2>1 DEF IInv, Ports, Running, Quiet, Settled, Server
  <2>3. s = <<s[1], turn>>
    BY <2>1, <2>2 DEF IInv, Ports
  <2>4. s[2] = turn
    BY <2>3
  <2> QED
    BY <2>1, <2>4 DEF IInv, Reloaded, Loaded
<1> QED
  BY <1>1, Invariance, PTL

=============================================================================
