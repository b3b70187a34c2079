---------------------------- MODULE AuditLedger ----------------------------
(***************************************************************************)
(* What the audit of outgoing mail promises, without transactions,         *)
(* retries, clients or crashes: an entry is written before anything leaves *)
(* the host, it is settled once and truthfully, and the answer given for   *)
(* it never hides a failure nor invents one before anything was written.   *)
(***************************************************************************)
CONSTANTS Call, Domain

VARIABLES ledger,    \* the entry of each call
          sentOut,   \* domains that hold a copy of its mail
          refused,   \* domains that turned it down
          answer     \* what its submitter was told

vars == <<ledger, sentOut, refused, answer>>

Entry == {"absent", "pending", "sent", "fail", "erased"}

TypeOK ==
    /\ ledger \in [Call -> Entry]
    /\ sentOut \in [Call -> SUBSET Domain]
    /\ refused \in [Call -> SUBSET Domain]
    /\ answer \in [Call -> {"none", "ok", "failed", "unrecorded"}]

Init ==
    /\ ledger = [c \in Call |-> "absent"]
    /\ sentOut = [c \in Call |-> {}]
    /\ refused = [c \in Call |-> {}]
    /\ answer = [c \in Call |-> "none"]

\* The entry is written; the submitter may at once be told that it was not.
Record(c) ==
    /\ ledger[c] = "absent"
    /\ answer[c] = "none"
    /\ ledger' = [ledger EXCEPT ![c] = "pending"]
    /\ answer' \in {answer, [answer EXCEPT ![c] = "unrecorded"]}
    /\ UNCHANGED <<sentOut, refused>>

Refuse(c) ==
    /\ ledger[c] = "absent"
    /\ answer[c] = "none"
    /\ answer' = [answer EXCEPT ![c] = "unrecorded"]
    /\ UNCHANGED <<ledger, sentOut, refused>>

\* Mail leaves only for an entry that was written, and is not answered yet;
\* domains may take it, or be seen to refuse it, or (a lost answer) both.
Emit(c, taken, turned) ==
    /\ ledger[c] # "absent"
    /\ answer[c] = "none"
    /\ sentOut' = [sentOut EXCEPT ![c] = @ \cup taken]
    /\ refused' = [refused EXCEPT ![c] = @ \cup turned]
    /\ UNCHANGED <<ledger, answer>>

\* The answer, with or without the entry being settled.
Conclude(c) ==
    /\ ledger[c] # "absent"
    /\ answer[c] = "none"
    /\ \/ /\ refused[c] = {}
          /\ sentOut[c] = Domain
          /\ answer' = [answer EXCEPT ![c] = "ok"]
          /\ ledger' \in {ledger, [ledger EXCEPT ![c] = "sent"]}
       \/ /\ refused[c] # {}
          /\ answer' = [answer EXCEPT ![c] = "failed"]
          /\ ledger' \in {ledger, [ledger EXCEPT ![c] = "fail"]}
    /\ ledger[c] = "pending" \/ UNCHANGED ledger
    /\ UNCHANGED <<sentOut, refused>>

Erase(c) ==
    /\ ledger[c] # "absent"
    /\ ledger' = [ledger EXCEPT ![c] = "erased"]
    /\ UNCHANGED <<sentOut, refused, answer>>

Next == \E c \in Call :
    \/ Record(c) \/ Refuse(c) \/ Conclude(c) \/ Erase(c)
    \/ \E taken, turned \in SUBSET Domain : Emit(c, taken, turned)

Spec == Init /\ [][Next]_vars
=============================================================================
