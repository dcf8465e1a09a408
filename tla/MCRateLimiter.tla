---------------------------- MODULE MCRateLimiter ----------------------------
(* Small instances of RateLimiter: two categories of one permission and one *)
(* client address.                                                          *)
EXTENDS RateLimiter, TLC

CONSTANTS docs, search, ip

Ask(c, l, m) == [category |-> c, address |-> ip, categoryLimit |-> l, ipLimit |-> m]

\* The limits of one category are patched between 1 and 2 while requests of
\* either version of the permission are on their way.
MenuPatched == {Ask(docs, 1, 2), Ask(docs, 2, 2), Ask(search, 2, 1)}
CapPatched == [k \in Keys |-> 2]

WorkersAlike == Permutations(Workers)
=============================================================================
