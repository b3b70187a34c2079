------------------------------ MODULE Lifecycle ------------------------------
(***************************************************************************)
(* The life of the process: the setup wizard, the loop of res_init.Init    *)
(* that starts and stops the servers, the daily certificate task, and the  *)
(* certificate on disk that all of them read and replace.  They meet in    *)
(* two unbuffered channels, in the global variables that name the running  *)
(* servers, in the TCP ports, and in the files private.key and public.crt. *)
(*                                                                         *)
(* A certificate is a number: 0 is no file or an empty one, every pair     *)
(* that is issued or installed has a new number.  Hooks and the database   *)
(* start within Load.                                                      *)
(***************************************************************************)
EXTENDS Naturals, FiniteSets

CONSTANTS Early,    \* servers started before the certificate is checked (SMTP, HTTPS)
          Late,     \* servers started after it (POP3, IMAP)
          Wizard,   \* requests of the setup page that set the certificate
          Expiry,   \* when a certificate expires
          MaxCert,  \* bound: certificates in all
          MaxLoad   \* bound: turns of the loop (1 + restarts)

ASSUME LifecycleAssumption ==
    /\ Early \intersect Late = {} /\ Wizard \intersect {"main", "cron", "admin"} = {}
    /\ MaxCert \in Nat \ {0} /\ MaxLoad \in Nat \ {0}
    /\ Expiry \in [1..MaxCert -> Nat \ {0}]

Server == Early \union Late
Turn   == 1..MaxLoad
Writer == {"main", "cron", "admin"} \union Wizard

VARIABLES
    auto,      \* the certificate is issued by ACME, or else the administrator's
    phase,     \* where res_init.Init is
    turn,      \* turns of the loop so far
    server,    \* the goroutine of each server and turn
    loaded,    \* the certificate it has read or loaded
    instance,  \* the turn whose server the global variable names
    key, crt,  \* private.key and public.crt
    due,       \* public.crt has expired or is about to
    last,      \* certificates so far
    step,      \* what each writer of the files is doing
    mine,      \* the certificate it writes
    seen,      \* the certificate whose expiry the daily check keeps in expiredTime, 0 for
               \* the time of a failed check
    down,      \* why the process died, or "no"
    missed,    \* history: servers that Stop came too early for
    torn,      \* history: two writers wrote at the same time, or one stopped half way
    caught,    \* history: servers that are reading the files, and somebody wrote them meanwhile
    silent,    \* history: certificates written by a task that restarts nothing
    baseline   \* history: the certificate the daily check began with

process == <<auto, phase, turn, seen>>
servers == <<server, loaded, instance>>
files   == <<key, crt, due, last>>
history == <<missed, torn, caught, silent, baseline>>
vars    == <<process, servers, files, step, mine, down, history>>

Slot == Server \X Turn

TypeOK ==
    /\ auto \in BOOLEAN /\ due \in BOOLEAN /\ torn \in BOOLEAN
    /\ phase \in {"setup", "load", "ready", "update", "late", "serve", "pause"}
    /\ turn \in 0..MaxLoad
    /\ server \in [Slot -> {"none", "started", "reading", "halted", "made", "listening",
                            "closed", "ended", "failed"}]
    /\ loaded \in [Slot -> 0..last] /\ instance \in [Server -> 0..turn]
    /\ {key, crt, seen, baseline} \union silent \subseteq 0..last /\ last \in 0..MaxCert
    /\ step \in [Writer -> {"wait", "idle", "obtain", "key", "openkey", "crt", "opencrt",
                           "send", "done"}]
    /\ mine \in [Writer -> 0..last]
    /\ down \in {"no", "port", "mismatch", "certificate", "renewal"}
    /\ missed \subseteq Slot /\ caught \subseteq Slot

\* config.IsInit is set or not; without it there may be files from an earlier attempt
Init ==
    /\ auto \in BOOLEAN /\ phase \in {"setup", "load"}
    /\ key \in {0, 1} /\ crt = key /\ last = key
    /\ phase = "load" => key = 1
    /\ due \in BOOLEAN /\ (crt = 0 => ~due)
    /\ turn = 0
    /\ server = [s \in Slot |-> "none"] /\ loaded = [s \in Slot |-> 0]
    /\ instance = [s \in Server |-> 0]
    /\ step = [w \in Writer |-> IF w = "cron" THEN "wait" ELSE "idle"]
    /\ mine = [w \in Writer |-> 0]
    /\ seen = 0 /\ down = "no"
    /\ missed = {} /\ torn = FALSE /\ caught = {} /\ silent = {} /\ baseline = 0

Up == down = "no"
Dies(cause) == down' = cause

-----------------------------------------------------------------------------
\* res_init.Init

\* setup.Finish meets <-InitChan; a second Finish waits for ever
Finish(w) ==
    /\ Up /\ phase = "setup" /\ step[w] = "send"
    /\ phase' = "load" /\ step' = [step EXCEPT ![w] = "done"]
    /\ UNCHANGED <<auto, turn, seen, servers, files, mine, down, history>>

Starting(kind) == [s \in Slot |-> IF s[1] \in kind /\ s[2] = turn' THEN "started" ELSE server[s]]

\* config, database, plugins, and the first servers
Load ==
    /\ Up /\ phase = "load" /\ phase' = "ready"
    /\ turn' = turn + 1
    /\ server' = Starting(Early)
    /\ UNCHANGED <<auto, seen, loaded, instance, files, step, mine, down, history>>

\* CheckSSLCrtInfo: expired or about to, or the two files do not fit.  (It reads one file
\* after the other; whatever it finds, an instant between the two shows the same.)
CheckSSLCrtInfo == due \/ key # crt \/ crt = 0

\* waitHTTPReady has come to an end, whatever it found; ssl.Update(false)
Update ==
    /\ Up /\ phase = "ready"
    /\ IF auto /\ CheckSSLCrtInfo
       THEN phase' = "update" /\ step' = [step EXCEPT !["main"] = "obtain"]
       ELSE phase' = "late" /\ UNCHANGED step
    /\ UNCHANGED <<auto, turn, seen, servers, files, mine, down, history>>

StartLate ==
    /\ Up /\ (phase = "late" \/ (phase = "update" /\ step["main"] = "idle"))
    /\ phase' = "serve"
    /\ UNCHANGED turn /\ server' = Starting(Late)
    /\ UNCHANGED <<auto, seen, loaded, instance, files, step, mine, down, history>>

\* mutant: the servers started last are forgotten
Closed_Early(s) == s[1] \in Early /\ s[2] = instance[s[1]]

\* Stop closes what the global variables name
Closed(s) == s[2] = instance[s[1]]

\* <-RestartChan and the Stop of every server
Restart ==
    /\ Up /\ phase = "serve" /\ step["cron"] = "send"
    /\ phase' = "pause" /\ step' = [step EXCEPT !["cron"] = "idle"]
    /\ server' = [s \in Slot |-> IF Closed(s) /\ server[s] = "listening" THEN "ended"
                                 ELSE IF Closed(s) /\ server[s] = "reading" THEN "halted"
                                 ELSE IF Closed(s) /\ server[s] = "made" THEN "closed"
                                 ELSE server[s]]
    /\ missed' = missed \union {s \in Slot : server[s] \in {"started", "reading", "made"}}
    /\ UNCHANGED <<auto, turn, seen, loaded, instance, files, mine, down, torn, caught, silent,
                   baseline>>

Settled == \A s \in Slot : server[s] \in {"none", "listening", "ended"}

\* mutant: the loop begins before the setup
Again_Setup ==
    /\ Up /\ phase = "pause" /\ Settled /\ phase' = "setup"
    /\ UNCHANGED <<auto, turn, seen, servers, files, step, mine, down, history>>

\* After 5 s every goroutine that was started has got where it gets
Again ==
    /\ Up /\ phase = "pause" /\ Settled /\ phase' = "load"
    /\ UNCHANGED <<auto, turn, seen, servers, files, step, mine, down, history>>

-----------------------------------------------------------------------------
\* Between the two writes, or with a file truncated and not yet written
AtFiles(w) == step[w] \in {"openkey", "crt", "opencrt"}

\* The goroutine of a server.  LoadX509KeyPair reads public.crt; the SMTP server has set
\* its global variable before ...
Read(s) ==
    /\ Up /\ server[s] = "started" /\ server' = [server EXCEPT ![s] = "reading"]
    /\ loaded' = [loaded EXCEPT ![s] = crt]
    /\ instance' = IF s[1] \in Early THEN [instance EXCEPT ![s[1]] = s[2]] ELSE instance
    /\ caught' = IF \E w \in Writer : AtFiles(w) THEN caught \union {s} ELSE caught
    /\ UNCHANGED <<process, files, step, mine, down, missed, torn, silent, baseline>>

\* ... then it reads private.key; the POP3 and IMAP servers set theirs after it ...
Make(s) ==
    /\ Up /\ server[s] \in {"reading", "halted"}
    /\ IF key # loaded[s] \/ key = 0
       THEN /\ Dies("mismatch") /\ server' = [server EXCEPT ![s] = "failed"]
            /\ UNCHANGED <<instance, caught>>
       ELSE /\ server' = [server EXCEPT ![s] = IF server[s] = "reading" THEN "made" ELSE "closed"]
            /\ instance' = IF s[1] \in Late THEN [instance EXCEPT ![s[1]] = s[2]] ELSE instance
            /\ caught' = caught \ {s} /\ UNCHANGED down
    /\ UNCHANGED <<process, loaded, files, step, mine, missed, torn, silent, baseline>>

\* ... and the port is bound.  A server that was closed before it listens may or may
\* not notice (external)
Listen(s) ==
    /\ Up /\ server[s] \in {"made", "closed"}
    /\ \/ server[s] = "closed" /\ server' = [server EXCEPT ![s] = "ended"] /\ UNCHANGED down
       \/ IF \E t \in Turn : server[<<s[1], t>>] = "listening"
          THEN Dies("port") /\ UNCHANGED server
          ELSE server' = [server EXCEPT ![s] = "listening"] /\ UNCHANGED down
    /\ UNCHANGED <<process, loaded, instance, files, step, mine, history>>

-----------------------------------------------------------------------------
\* Writers of the certificate

\* mutant: needRestart is not looked at
Restarts_Nobody(w) == FALSE

\* Who is to send on a channel when the files are written: ssl.Update(true) restarts
\* the server, the wizard ends the setup
Restarts(w) == w = "cron"

After(w) == IF Restarts(w) \/ w \in Wizard THEN "send" ELSE "idle"

\* GenSSL returns an error: Update goes on as if the files had been written, the wizard
\* answers the request with it
GenSSL(w) ==
    /\ Up /\ step[w] = "obtain"
    /\ step' = [step EXCEPT ![w] = IF w \in Wizard THEN "done" ELSE After(w)]
    /\ UNCHANGED <<process, servers, files, mine, down, history>>

\* The certificate is refused or a file cannot be written: renewCertificate panics, the
\* goroutine of generateCertificate panics and recovers
Panic(w) ==
    /\ Up /\ w # "admin" /\ (step[w] \in {"obtain", "key"} \/ AtFiles(w))
    /\ IF w \in Wizard
       THEN step' = [step EXCEPT ![w] = "done"] /\ UNCHANGED down
       ELSE Dies("renewal") /\ UNCHANGED step
    /\ torn' = (torn \/ AtFiles(w))
    /\ UNCHANGED <<process, servers, files, mine, missed, caught, silent, baseline>>

Obtain(w) ==
    /\ Up /\ step[w] = "obtain" /\ last < MaxCert
    /\ last' = last + 1
    /\ mine' = [mine EXCEPT ![w] = last'] /\ step' = [step EXCEPT ![w] = "key"]
    /\ UNCHANGED <<process, servers, key, crt, due, down, history>>

\* os.WriteFile empties the file and then writes it
OpenKey(w) ==
    /\ Up /\ step[w] = "key"
    /\ key' = 0 /\ step' = [step EXCEPT ![w] = "openkey"]
    /\ torn' = (torn \/ \E v \in Writer : AtFiles(v))
    /\ caught' = caught \union {s \in Slot : server[s] \in {"reading", "halted"}}
    /\ UNCHANGED <<process, servers, crt, due, last, mine, down, missed, silent, baseline>>

WriteKey(w) ==
    /\ Up /\ step[w] = "openkey"
    /\ key' = mine[w] /\ step' = [step EXCEPT ![w] = "crt"]
    /\ UNCHANGED <<process, servers, crt, due, last, mine, down, history>>

OpenCrt(w) ==
    /\ Up /\ step[w] = "crt"
    /\ crt' = 0 /\ step' = [step EXCEPT ![w] = "opencrt"]
    /\ UNCHANGED <<process, servers, key, due, last, mine, down, history>>

WriteCrt(w) ==
    /\ Up /\ step[w] = "opencrt"
    /\ crt' = mine[w] /\ due' = FALSE /\ step' = [step EXCEPT ![w] = After(w)]
    /\ silent' = IF w \in {"cron", "admin"} THEN silent ELSE silent \union {mine[w]}
    /\ UNCHANGED <<process, servers, key, last, mine, down, missed, torn, caught, baseline>>

\* The setup page.  Issued certificates that exist already are not issued again, and
\* nobody calls Finish; of one's own the files have to exist
SetSSL(w) ==
    /\ Up /\ phase = "setup" /\ w \in Wizard /\ step[w] = "idle"
    /\ IF auto THEN step' = [step EXCEPT ![w] = IF key # 0 /\ crt # 0 THEN "done" ELSE "obtain"]
       ELSE (crt # 0 \/ \E v \in Writer : step[v] = "opencrt") /\ step' = [step EXCEPT ![w] = "send"]
    /\ UNCHANGED <<process, servers, files, mine, down, history>>

\* Somebody installs a certificate of his own
Install ==
    /\ Up /\ ~auto /\ step["admin"] = "idle" /\ last < MaxCert
    /\ last' = last + 1
    /\ mine' = [mine EXCEPT !["admin"] = last'] /\ step' = [step EXCEPT !["admin"] = "key"]
    /\ UNCHANGED <<process, servers, key, crt, due, down, history>>

Age ==
    /\ Up /\ crt # 0 /\ ~due /\ due' = TRUE
    /\ UNCHANGED <<process, servers, key, crt, last, step, mine, down, history>>

-----------------------------------------------------------------------------
\* cron_server

\* Start waits for config.IsInit; sslCheck wants a valid certificate to begin with
CronStart ==
    /\ Up /\ step["cron"] = "wait" /\ (turn > 0 \/ phase = "load")
    /\ IF auto THEN step' = [step EXCEPT !["cron"] = "idle"] /\ UNCHANGED <<down, seen, baseline>>
       ELSE IF CheckSSLCrtInfo THEN Dies("certificate") /\ UNCHANGED <<step, seen, baseline>>
       ELSE /\ step' = [step EXCEPT !["cron"] = "idle"]
            /\ seen' = crt /\ baseline' = crt /\ UNCHANGED down
    /\ UNCHANGED <<auto, phase, turn, servers, files, mine, missed, torn, caught, silent>>

\* The bound on restarts
Another == turn + (IF phase \in {"setup", "pause", "load"} THEN 1 ELSE 0) < MaxLoad

\* sslUpdateLoop, every day and at the start
sslUpdateLoop ==
    /\ Up /\ auto /\ step["cron"] = "idle" /\ CheckSSLCrtInfo /\ Another
    /\ step' = [step EXCEPT !["cron"] = "obtain"]
    /\ UNCHANGED <<process, servers, files, mine, down, history>>

\* NotAfter of a certificate; what the check notes of a failure is the time of none
NotAfter(c) == IF c = 0 THEN 0 ELSE Expiry[c]

\* What the check takes for an update: it failed, or the expiry is another one
Updated == CheckSSLCrtInfo \/ NotAfter(crt) # NotAfter(seen)

\* sslCheck, every day; a check that fails leaves the time of the check
sslCheck ==
    /\ Up /\ ~auto /\ step["cron"] = "idle" /\ Updated /\ Another
    /\ seen' = IF CheckSSLCrtInfo THEN 0 ELSE crt
    /\ step' = [step EXCEPT !["cron"] = "send"]
    /\ UNCHANGED <<auto, phase, turn, servers, files, mine, down, history>>

-----------------------------------------------------------------------------
Write(w) == \/ GenSSL(w) \/ Panic(w) \/ Obtain(w)
            \/ OpenKey(w) \/ WriteKey(w) \/ OpenCrt(w) \/ WriteCrt(w)
Main     == Load \/ Update \/ StartLate \/ Restart \/ Again \/ Write("main")
Serve    == \E s \in Slot : Read(s) \/ Make(s) \/ Listen(s)

Next ==
    \/ Main \/ Serve \/ CronStart \/ sslUpdateLoop \/ sslCheck \/ Install \/ Age
    \/ \E w \in Wizard : Finish(w) \/ SetSSL(w)
    \/ \E w \in Writer \ {"main"} : Write(w)

Spec == Init /\ [][Next]_vars

\* The loop and the goroutines it started run; each wait of theirs is bounded, the one
\* for a certificate by the deadlines of the ACME client
FairSpec == Spec /\ WF_vars(Main) /\ WF_vars(Serve)

-----------------------------------------------------------------------------
\* Properties

\* The process does not die of its own restarts, of a port it holds itself or of two
\* files that do not fit, unless Stop came before a server it was to stop had started, or
\* the server that found the files so had read them while somebody was writing, or they
\* had been left so: by two who wrote at the same time or one who stopped half way
DeathIsExplained ==
    /\ down = "port"     => missed # {}
    /\ down = "mismatch" => torn \/ \E s \in caught : server[s] = "failed"

\* The state of the process, and no death of it that is not explained
LifecycleInv == TypeOK /\ DeathIsExplained

Quiet == phase = "serve" /\ Settled /\ \A w \in Writer : step[w] \in {"idle", "done"}

\* The daily check takes the certificate for another one that expires at the same moment
Mistaken == crt # seen /\ NotAfter(crt) = NotAfter(seen)

\* When all is quiet the servers use the certificate that is on disk, if there is one,
\* unless a task that restarts nothing wrote it (ssl.Update(false), a second setup
\* request), or the daily check took it for the one it began with, takes it for another
\* of the same expiry, or has yet to see it
StaleIsExplained ==
    Up /\ Quiet =>
        \A s \in Slot : server[s] = "listening" /\ loaded[s] # crt =>
            crt \in silent \union {baseline, 0} \/ (~auto /\ (Mistaken \/ Updated))

Serving == phase = "serve" /\ step["cron"] # "send"
           /\ \A s \in Server : server[<<s, turn>>] = "listening"

\* Whoever writes to RestartChan, at whatever point of the loop, is heard, and every
\* server listens again, unless the process dies
RestartIsServed == step["cron"] = "send" ~> (Serving \/ ~Up)
=============================================================================
