-------------------------- MODULE RateLimiterProofs --------------------------
(***************************************************************************)
(* The overshoot of a limit is bounded for any number of workers, any keys *)
(* and any limits.  Peek and Take are two steps, so count[k] < Cap[k] is   *)
(* not an invariant; what is inductive counts the workers that have seen   *)
(* room and not yet taken it (Pending) together with the taken ones.       *)
(***************************************************************************)
EXTENDS RateLimiter, FiniteSetTheorems, TLAPS

\* No limiter ever has a limit above the highest one requests carry.
RateCapped == \A k \in Keys : rate[k] <= Cap[k]

\* Taken and promised places together stay below the cap plus the workers.
PlacesBounded ==
    \A k \in Keys : count[k] + Cardinality(Pending(k)) < Cap[k] + Cardinality(Workers)

\* The inductive invariant.
IInv == TypeOK /\ RateCapped /\ PlacesBounded

\* The key and the limit a worker is at belong together.
LEMMA KeyLimit ==
    ASSUME TypeOK, NEW w \in Workers
    PROVE  /\ Key(w) \in Keys
           /\ Limit(w) \in Nat
           /\ Limit(w) <= Cap[Key(w)]
  BY RateAssumption DEF TypeOK, Key, Limit, Keys, Request, Gates

\* Finitely many workers are pending.
LEMMA PendingFinite ==
    ASSUME NEW k
    PROVE  /\ IsFiniteSet(Pending(k))
           /\ Cardinality(Pending(k)) \in Nat
           /\ Cardinality(Workers) \in Nat
           /\ Cardinality(Pending(k)) <= Cardinality(Workers)
  <1>1. Pending(k) \subseteq Workers
    BY DEF Pending
  <1> QED BY <1>1, RateAssumption, FS_Subset, FS_CardinalityType

\* A step after which no more workers are pending at k, and k counts no more.
LEMMA FewerPlaces ==
    ASSUME TypeOK, PlacesBounded, NEW k \in Keys,
           count'[k] \in Nat, count'[k] <= count[k],
           Pending(k)' \subseteq Pending(k)
    PROVE  count'[k] + Cardinality(Pending(k)') < Cap[k] + Cardinality(Workers)
  <1>1. /\ IsFiniteSet(Pending(k)) /\ Cardinality(Pending(k)) \in Nat
        /\ Cardinality(Workers) \in Nat
    BY PendingFinite
  <1>2. /\ Cardinality(Pending(k)') <= Cardinality(Pending(k))
        /\ Cardinality(Pending(k)') \in Nat
    BY <1>1, FS_Subset, FS_CardinalityType
  <1>3. count[k] + Cardinality(Pending(k)) < Cap[k] + Cardinality(Workers)
    BY DEF PlacesBounded
  <1>4. count[k] \in Nat /\ Cap[k] \in Nat
    BY RateAssumption DEF TypeOK
  <1> QED BY <1>1, <1>2, <1>3, <1>4

\* Nobody has taken or been promised a place at the start.
LEMMA InitIInv == Init => IInv
  <1> SUFFICES ASSUME Init PROVE IInv
    OBVIOUS
  <1>1. TypeOK
    BY DEF Init, TypeOK, Gates
  <1>2. RateCapped
    BY RateAssumption DEF Init, RateCapped
  <1>3. PlacesBounded
    <2> SUFFICES ASSUME NEW k \in Keys
                 PROVE  count[k] + Cardinality(Pending(k)) < Cap[k] + Cardinality(Workers)
      BY DEF PlacesBounded
    <2>1. Pending(k) = {}
      BY DEF Init, Pending
    <2>2. Cardinality(Pending(k)) = 0
      BY <2>1, FS_EmptySet
    <2> QED BY <2>2, PendingFinite, RateAssumption DEF Init
  <1> QED BY <1>1, <1>2, <1>3 DEF IInv

\* A new request is not pending.
LEMMA ArriveStep ==
    ASSUME IInv, NEW w \in Workers, NEW q \in Menu, Arrive(w, q)
    PROVE  IInv'
  <1>1. TypeOK'
    BY DEF IInv, TypeOK, Arrive, Goto, Gates
  <1>2. RateCapped'
    BY DEF IInv, RateCapped, Arrive
  <1>3. PlacesBounded'
    <2> SUFFICES ASSUME NEW k \in Keys
                 PROVE  count'[k] + Cardinality(Pending(k)') < Cap[k] + Cardinality(Workers)
      BY DEF PlacesBounded
    <2>1. Pending(k)' \subseteq Pending(k)
      BY DEF IInv, TypeOK, Arrive, Goto, Pending, Key
    <2>2. count'[k] \in Nat /\ count'[k] <= count[k]
      BY DEF IInv, TypeOK, Arrive
    <2> QED BY <2>1, <2>2, FewerPlaces DEF IInv
  <1> QED BY <1>1, <1>2, <1>3 DEF IInv

\* The limit that is set is one a request carries; no place changes.
LEMMA GetLimiterStep ==
    ASSUME IInv, NEW w \in Workers, GetLimiter(w)
    PROVE  IInv'
  <1>1. Key(w) \in Keys /\ Limit(w) \in Nat /\ Limit(w) <= Cap[Key(w)]
    BY KeyLimit DEF IInv
  <1>2. TypeOK'
    BY <1>1 DEF IInv, TypeOK, GetLimiter, SetLimiter, Goto
  <1>3. RateCapped'
    BY <1>1 DEF IInv, TypeOK, RateCapped, GetLimiter, SetLimiter
  <1>4. PlacesBounded'
    <2> SUFFICES ASSUME NEW k \in Keys
                 PROVE  count'[k] + Cardinality(Pending(k)') < Cap[k] + Cardinality(Workers)
      BY DEF PlacesBounded
    <2>1. Pending(k)' \subseteq Pending(k)
      BY DEF IInv, TypeOK, GetLimiter, Goto, Pending, Key
    <2>2. count'[k] \in Nat /\ count'[k] <= count[k]
      BY DEF IInv, TypeOK, GetLimiter
    <2> QED BY <2>1, <2>2, FewerPlaces DEF IInv
  <1> QED BY <1>2, <1>3, <1>4 DEF IInv

\* The one step that adds a pending worker: it saw count[k] below the cap, and
\* at worst every worker is pending.
LEMMA PeekStep ==
    ASSUME IInv, NEW w \in Workers, Peek(w)
    PROVE  IInv'
  <1>1. Key(w) \in Keys
    BY KeyLimit DEF IInv
  <1>2. TypeOK'
    BY DEF IInv, TypeOK, Peek, Goto
  <1>3. RateCapped'
    BY DEF IInv, RateCapped, Peek
  <1>4. PlacesBounded'
    <2> SUFFICES ASSUME NEW k \in Keys
                 PROVE  count'[k] + Cardinality(Pending(k)') < Cap[k] + Cardinality(Workers)
      BY DEF PlacesBounded
    <2>1. count'[k] = count[k] /\ count[k] \in Nat /\ Cap[k] \in Nat /\ rate[k] \in Nat
      BY RateAssumption DEF IInv, TypeOK, Peek
    <2>2. CASE k = Key(w) /\ Remaining(Key(w)) > 0
      <3>1. count[k] < rate[k]
        BY <2>1, <2>2 DEF Remaining
      <3>2. count[k] < Cap[k]
        BY <3>1, <2>1 DEF IInv, RateCapped
      <3>3. Pending(k)' \subseteq Workers
        BY DEF Pending
      <3>4. /\ Cardinality(Pending(k)') <= Cardinality(Workers)
            /\ Cardinality(Pending(k)') \in Nat
            /\ Cardinality(Workers) \in Nat
        BY <3>3, RateAssumption, FS_Subset, FS_CardinalityType
      <3> QED BY <3>2, <3>4, <2>1
    <2>3. CASE ~(k = Key(w) /\ Remaining(Key(w)) > 0)
      <3>1. k = Key(w) => Remaining(Key(w)) <= 0
        BY <2>1, <2>3 DEF Remaining
      <3>2. Pending(k)' \subseteq Pending(k)
        BY <3>1 DEF IInv, TypeOK, Peek, Goto, Pending, Key
      <3> QED BY <3>2, <2>1, FewerPlaces DEF IInv
    <2> QED BY <2>2, <2>3
  <1> QED BY <1>2, <1>3, <1>4 DEF IInv

\* A pending worker turns its promised place into a taken one.
LEMMA TakeStep ==
    ASSUME IInv, NEW w \in Workers, Take(w)
    PROVE  IInv'
  <1>1. Key(w) \in Keys
    BY KeyLimit DEF IInv
  <1>2. TypeOK'
    BY <1>1 DEF IInv, TypeOK, Take, Goto, Gates
  <1>3. RateCapped'
    BY DEF IInv, RateCapped, Take
  <1>4. PlacesBounded'
    <2> SUFFICES ASSUME NEW k \in Keys
                 PROVE  count'[k] + Cardinality(Pending(k)') < Cap[k] + Cardinality(Workers)
      BY DEF PlacesBounded
    <2>1. pc'[w] \in {"peek_limiter", "passed"} /\ \A v \in Workers \ {w} : pc'[v] = pc[v]
      BY DEF IInv, TypeOK, Take, Goto
    <2>2. ask' = ask /\ \A v \in Workers \ {w} : gate'[v] = gate[v]
      BY DEF IInv, TypeOK, Take
    <2>3. Pending(k)' \subseteq Pending(k) \ {w}
      BY <2>1, <2>2 DEF Pending, Key
    <2>4. CASE k = Key(w)
      <3>1. w \in Pending(k)
        BY <2>4 DEF Take, Pending
      <3>2. /\ IsFiniteSet(Pending(k) \ {w})
            /\ Cardinality(Pending(k) \ {w}) = Cardinality(Pending(k)) - 1
        BY <3>1, PendingFinite, FS_RemoveElement
      <3>3. /\ Cardinality(Pending(k)') <= Cardinality(Pending(k)) - 1
            /\ Cardinality(Pending(k)') \in Nat
        BY <2>3, <3>2, FS_Subset, FS_CardinalityType
      <3>4. count'[k] = count[k] + 1 /\ count[k] \in Nat /\ Cap[k] \in Nat
        BY <2>4, <1>1, RateAssumption DEF IInv, TypeOK, Take
      <3>5. count[k] + Cardinality(Pending(k)) < Cap[k] + Cardinality(Workers)
        BY DEF IInv, PlacesBounded
      <3> QED BY <3>3, <3>4, <3>5, PendingFinite
    <2>5. CASE k # Key(w)
      <3>1. count'[k] = count[k] /\ count[k] \in Nat
        BY <2>5, <1>1 DEF IInv, TypeOK, Take
      <3>2. Pending(k)' \subseteq Pending(k)
        BY <2>3
      <3> QED BY <3>1, <3>2, FewerPlaces DEF IInv
    <2> QED BY <2>4, <2>5
  <1> QED BY <1>2, <1>3, <1>4 DEF IInv

\* The window ends while workers that peeked in it are still pending.
LEMMA ExpireStep ==
    ASSUME IInv, NEW key \in Keys, Expire(key)
    PROVE  IInv'
  <1>1. TypeOK'
    BY DEF IInv, TypeOK, Expire
  <1>2. RateCapped'
    BY DEF IInv, RateCapped, Expire
  <1>3. PlacesBounded'
    <2> SUFFICES ASSUME NEW k \in Keys
                 PROVE  count'[k] + Cardinality(Pending(k)') < Cap[k] + Cardinality(Workers)
      BY DEF PlacesBounded
    <2>1. Pending(k)' \subseteq Pending(k)
      BY DEF Expire, Pending, Key
    <2>2. count'[k] \in Nat /\ count'[k] <= count[k]
      BY DEF IInv, TypeOK, Expire
    <2> QED BY <2>1, <2>2, FewerPlaces DEF IInv
  <1> QED BY <1>1, <1>2, <1>3 DEF IInv

\* Nothing changes.
LEMMA StutterStep ==
    ASSUME IInv, UNCHANGED vars
    PROVE  IInv'
  <1>1. TypeOK' /\ RateCapped'
    BY DEF IInv, TypeOK, RateCapped, vars
  <1>2. \A k \in Keys : Pending(k)' = Pending(k)
    BY DEF Pending, Key, vars
  <1>3. PlacesBounded'
    BY <1>2 DEF IInv, PlacesBounded, vars
  <1> QED BY <1>1, <1>3 DEF IInv

\* Every action preserves the invariant.
LEMMA NextIInv == IInv /\ [Next]_vars => IInv'
  <1> SUFFICES ASSUME IInv, [Next]_vars PROVE IInv'
    OBVIOUS
  <1>1. ASSUME NEW w \in Workers, NEW q \in Menu, Arrive(w, q) PROVE IInv'
    BY <1>1, ArriveStep
  <1>2. ASSUME NEW w \in Workers, Serve(w) PROVE IInv'
    BY <1>2, GetLimiterStep, PeekStep, TakeStep DEF Serve
  <1>3. ASSUME NEW k \in Keys, Expire(k) PROVE IInv'
    BY <1>3, ExpireStep
  <1>4. CASE UNCHANGED vars
    BY <1>4, StutterStep
  <1> QED BY <1>1, <1>2, <1>3, <1>4 DEF Next

\* Every reachable state satisfies the strengthening of OvershootBounded.
THEOREM Inductive == Spec => []IInv
  <1> QED BY InitIInv, NextIInv, PTL DEF Spec

\* The limiters, counters and workers keep their types.
THEOREM TypeCorrect == Spec => []TypeOK
  <1>1. IInv => TypeOK
    BY DEF IInv
  <1> QED BY <1>1, Inductive, PTL

\* limitExceededByACL and limitExceededByIP let a window exceed its limit by
\* fewer requests than there are concurrent ones, whatever the limits.
THEOREM OvershootIsBounded == Spec => []OvershootBounded
  <1>1. IInv => OvershootBounded
    <2> SUFFICES ASSUME IInv, NEW k \in Keys
                 PROVE  count[k] < Cap[k] + Cardinality(Workers)
      BY DEF OvershootBounded
    <2>1. count[k] + Cardinality(Pending(k)) < Cap[k] + Cardinality(Workers)
      BY DEF IInv, PlacesBounded
    <2>2. count[k] \in Nat /\ Cap[k] \in Nat
      BY RateAssumption DEF IInv, TypeOK
    <2> QED BY <2>1, <2>2, PendingFinite
  <1> QED BY <1>1, Inductive, PTL
=============================================================================
