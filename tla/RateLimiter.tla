----------------------------- MODULE RateLimiter -----------------------------
(***************************************************************************)
(* middleware/ratelimiter: a request of a permission passes two limits, of *)
(* its category per second and of its IP per hour.  For each key           *)
(* ("username:category", "username:ip") there is a limiter with a counter  *)
(* of its window; the middleware first peeks at what remains and then takes*)
(* one, in two calls, and both calls set the limiter's limit to the one of *)
(* the permission the request came with.                                   *)
(***************************************************************************)
EXTENDS Naturals, FiniteSets

CONSTANTS
    Workers,        \* goroutines that serve requests, one at a time each
    Categories,     \* keys of the category limits
    Addresses,      \* keys of the IP limits
    Menu,           \* the requests clients may send
    Cap             \* for every key the highest limit any request carries

Keys == Categories \cup Addresses

Request == [category: Categories, address: Addresses,
            categoryLimit: Nat, ipLimit: Nat]

ASSUME RateAssumption ==
    /\ IsFiniteSet(Workers)
    /\ Categories \cap Addresses = {}
    /\ Menu \subseteq Request
    /\ Cap \in [Keys -> Nat \ {0}]
    /\ \A q \in Menu : q.categoryLimit <= Cap[q.category] /\ q.ipLimit <= Cap[q.address]

VARIABLES
    rate,       \* Rate.Limit of the limiter of each key
    count,      \* what its store counts in the present window
    pc, ask,
    gate        \* which of the two limits the worker is at

vars == <<rate, count, pc, ask, gate>>

Gates == {"category", "ip"}

Init ==
    /\ rate = [k \in Keys |-> 0]
    /\ count = [k \in Keys |-> 0]
    /\ pc = [w \in Workers |-> "idle"]
    /\ ask \in [Workers -> Menu]
    /\ gate = [w \in Workers |-> "category"]

Key(w) == IF gate[w] = "category" THEN ask[w].category ELSE ask[w].address
Limit(w) == IF gate[w] = "category" THEN ask[w].categoryLimit ELSE ask[w].ipLimit

Goto(w, l) == pc' = [pc EXCEPT ![w] = l]

\* A request of a permission arrives; those of users are not limited.
Arrive(w, q) ==
    /\ pc[w] \in {"idle", "passed", "limited"}
    /\ ask' = [ask EXCEPT ![w] = q]
    /\ gate' = [gate EXCEPT ![w] = "category"]
    /\ Goto(w, "peek_limiter")
    /\ UNCHANGED <<rate, count>>

\* Seeded fault: the limiter gets what is left of the limit.
SetLimiterToRest(w) == rate' = [rate EXCEPT ![Key(w)] = Limit(w) - count[Key(w)]]

\* getLimiter: under its mutex, makes the limiter if there is none and sets its
\* limit to that of the request.
SetLimiter(w) == rate' = [rate EXCEPT ![Key(w)] = Limit(w)]

GetLimiter(w) ==
    /\ \/ pc[w] = "peek_limiter" /\ Goto(w, "peek")
       \/ pc[w] = "take_limiter" /\ Goto(w, "take")
    /\ SetLimiter(w)
    /\ UNCHANGED <<count, ask, gate>>

\* Seeded fault: one more remains.
RemainingOrOne(k) == IF count[k] <= rate[k] THEN rate[k] + 1 - count[k] ELSE 0

\* The number that remains, by the limiter's limit as it is by then.
Remaining(k) == IF count[k] <= rate[k] THEN rate[k] - count[k] ELSE 0

Peek(w) ==
    /\ pc[w] = "peek"
    /\ Goto(w, IF Remaining(Key(w)) <= 0 THEN "limited" ELSE "take_limiter")
    /\ UNCHANGED <<rate, count, ask, gate>>

\* Get counts the request; what it answers is not looked at.
Take(w) ==
    /\ pc[w] = "take"
    /\ count' = [count EXCEPT ![Key(w)] = @ + 1]
    /\ IF gate[w] = "category"
       THEN gate' = [gate EXCEPT ![w] = "ip"] /\ Goto(w, "peek_limiter")
       ELSE Goto(w, "passed") /\ UNCHANGED gate
    /\ UNCHANGED <<rate, ask>>

\* The window of a key ends: the store forgets its count.
Expire(k) ==
    /\ count[k] > 0
    /\ count' = [count EXCEPT ![k] = 0]
    /\ UNCHANGED <<rate, pc, ask, gate>>

Serve(w) == GetLimiter(w) \/ Peek(w) \/ Take(w)

Next ==
    \/ \E w \in Workers : \E q \in Menu : Arrive(w, q)
    \/ \E w \in Workers : Serve(w)
    \/ \E k \in Keys : Expire(k)

Spec == Init /\ [][Next]_vars

-----------------------------------------------------------------------------
TypeOK ==
    /\ rate \in [Keys -> Nat]
    /\ count \in [Keys -> Nat]
    /\ pc \in [Workers -> {"idle", "peek_limiter", "peek", "take_limiter", "take",
                           "passed", "limited"}]
    /\ ask \in [Workers -> Menu]
    /\ gate \in [Workers -> Gates]

\* The workers that have seen room at key k and have not counted themselves.
Pending(k) == {w \in Workers : pc[w] \in {"take_limiter", "take"} /\ Key(w) = k}

\* Peeking and counting are two calls, so requests that overlap may exceed a
\* limit; but never by more than the other workers, in any window, even one
\* that begins while workers have peeked in the window before.
OvershootBounded ==
    \A k \in Keys : count[k] < Cap[k] + Cardinality(Workers)
=============================================================================
