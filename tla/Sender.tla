------------------------------- MODULE Sender -------------------------------
(***************************************************************************)
(* The outgoingSender that deliverOutgoingEmail is given: what the audit   *)
(* of outgoing mail takes for granted of a synchronous delivery, whatever  *)
(* hosts, ports, failover and lost answers it consists of.                 *)
(*                                                                         *)
(* It sends to targets: the domains of the recipients, as the map of       *)
(* errors names them, or the relay.  Each has one result, which is final.  *)
(***************************************************************************)
CONSTANTS Target,   \* what a message may be sent to
          Relay     \* the target that answers for all recipients at once

VARIABLES targets,  \* what the message at hand is sent to
          outcome,  \* the result of each target
          held,     \* targets that were found to hold a copy
          answer    \* the SMTP code made of the results

vars == <<targets, outcome, held, answer>>

Outcome == {"accepted", "temp", "perm"}

Init ==
    /\ targets = {} /\ held = {}
    /\ outcome = [t \in Target |-> "none"]
    /\ answer = "none"

Untried == answer = "none" /\ \A t \in Target : outcome[t] = "none"

\* The targets are known before any of them has a result.
Address(t) ==
    /\ Untried
    /\ targets' = targets \union {t}
    /\ UNCHANGED <<outcome, held, answer>>

\* What may be said of a target that holds a copy, or does not.  A domain that lost
\* its answer holds one and is reported to have failed; the relay is asked once, so
\* one that refuses for good has none.
Allowed(t, o, copy) ==
    /\ o = "accepted" => copy
    /\ t = Relay /\ o = "perm" => ~copy

Result(t, o, copy) ==
    /\ answer = "none" /\ t \in targets /\ outcome[t] = "none"
    /\ Allowed(t, o, copy)
    /\ outcome' = [outcome EXCEPT ![t] = o]
    /\ held' = IF copy THEN held \union {t} ELSE held
    /\ UNCHANGED <<targets, answer>>

Verdict ==
    IF \A t \in targets : outcome[t] = "accepted" THEN "250"
    ELSE IF \A t \in targets : outcome[t] \in {"accepted", "perm"} THEN "550"
    ELSE "451"

\* It returns when every target has its result.
Return ==
    /\ answer = "none"
    /\ \A t \in targets : outcome[t] # "none"
    /\ answer' = Verdict
    /\ UNCHANGED <<targets, outcome, held>>

\* It cannot send at all; nothing was tried.
Unable ==
    /\ Untried /\ targets = {}
    /\ answer' = "451"
    /\ UNCHANGED <<targets, outcome, held>>

Next ==
    \/ \E t \in Target : Address(t)
    \/ \E t \in Target, o \in Outcome, copy \in BOOLEAN : Result(t, o, copy)
    \/ Return \/ Unable

Spec == Init /\ [][Next]_vars
=============================================================================
