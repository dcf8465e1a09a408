---------------------------- MODULE AccessPolicy ----------------------------
(***************************************************************************)
(* What the middlewares and handlers behind a route promise of a request:  *)
(* it is decided once, as if a single document that was stored under its   *)
(* credential had been compared with the whole request when it arrived.    *)
(* Who stores documents, how one is found and in which order it is compared*)
(* is left to the implementation (module Access).                          *)
(***************************************************************************)
EXTENDS Naturals

CONSTANTS
    Requests,
    None,
    Bears(_, _),        \* Bears(d, c): d is a document of the credential of c
    Allows(_, _, _)     \* Allows(d, c, t): d allows c at time t

VARIABLES
    known,      \* every document that was ever stored
    now,
    call,       \* the request and its time of arrival, [ask, since]
    verdict

vars == <<known, now, call, verdict>>

Init ==
    /\ call = [r \in Requests |-> None]
    /\ verdict = [r \in Requests |-> "none"]

\* Documents are stored and time passes, whatever is being decided.
Learn ==
    /\ known \subseteq known'
    /\ now' >= now
    /\ UNCHANGED <<call, verdict>>

Decide(r, v) ==
    /\ verdict' = [verdict EXCEPT ![r] = v]
    /\ UNCHANGED <<known, now, call>>

Grant(r) ==
    /\ verdict[r] = "pending"
    /\ \E d \in known : Bears(d, call[r].ask) /\ Allows(d, call[r].ask, call[r].since)
    /\ Decide(r, "granted")

Deny(r) ==
    /\ verdict[r] = "pending"
    /\ \E d \in known : Bears(d, call[r].ask) /\ ~ Allows(d, call[r].ask, now)
    /\ Decide(r, "denied")

\* No document, or more than one, or a token that is not valid.
Ignore(r) == verdict[r] = "pending" /\ Decide(r, "unknown")

\* A request arrives.  One that was granted may be sent on to another route,
\* where it is decided anew.
Ask(r) ==
    /\ verdict[r] \in {"none", "granted"}
    /\ verdict' = [verdict EXCEPT ![r] = "pending"]
    /\ call'[r].since = now
    /\ call' = [call EXCEPT ![r] = call'[r]]
    /\ UNCHANGED <<known, now>>

Next == Learn \/ \E r \in Requests : Ask(r) \/ Grant(r) \/ Deny(r) \/ Ignore(r)

Spec == Init /\ [][Next]_vars
=============================================================================
