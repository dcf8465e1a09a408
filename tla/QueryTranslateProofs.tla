------------------------ MODULE QueryTranslateProofs ------------------------
(***************************************************************************)
(* For any menu of requests and any ids, the answers of a multi search     *)
(* are filed under the queries they belong to, no search exceeds the       *)
(* permission's size, and the validate handler lists what is sent.         *)
(*                                                                         *)
(* The invariant says what the loops have built so far: the searches are   *)
(* those of the queries executed among the first Covered ones, each at the *)
(* place given by the number of executed queries up to it, and the calls   *)
(* are the independent requests of the first CallsCovered ones.            *)
(***************************************************************************)
EXTENDS QueryTranslate, FiniteSetTheorems, SequenceTheorems, TLAPS

\* Requests, types and options; react is evaluated for executed queries, and hands
\* no size on.
Typed ==
    /\ request \in Menu
    /\ pc \in {"limit", "translate", "query", "react", "independent", "validate", "search",
               "file", "endpoints", "answered", "listed", "rejected", "failed"}
    /\ at \in 1..Len(Queries) + 1
    /\ pc \in {"limit", "translate"} => at = 1
    /\ pc = "react" => at \in DOMAIN Queries /\ IsExecuted(Queries[at])
    /\ reacted = [clauses |-> reacted.clauses, options |-> reacted.options]
    /\ reacted.options \in Options
    /\ reacted.options.size = None

\* The limit is checked before anything is translated.
Checked ==
    pc \notin {"limit", "rejected"} => \A k \in DOMAIN Queries : ~ ExceedsLimit(Queries[k])

IsSearch(s) ==
    /\ s = [id |-> s.id, clause |-> s.clause, options |-> s.options]
    /\ s.id \in Ids
    /\ s.options \in Options

\* The number of executed queries up to that of index k.
Rank(k) == Cardinality({j \in 1..k : IsExecuted(Queries[j])})

\* The queries that translateQuery has come past.
Covered == IF pc \in {"limit", "translate", "query", "react"} THEN at - 1 ELSE Len(Queries)

\* The executed queries up to that of index n have their searches at their ranks.
Ranked(n) ==
    /\ Len(msearch) = Rank(n)
    /\ \A k \in 1..n : IsExecuted(Queries[k]) =>
          Rank(k) \in DOMAIN msearch /\ msearch[Rank(k)].id = Queries[k].id
    /\ \A p \in DOMAIN msearch :
          \E k \in 1..n : IsExecuted(Queries[k]) /\ Rank(k) = p /\ msearch[p].id = Queries[k].id

SearchesBuilt ==
    /\ msearch \in Seq(Range(msearch))
    /\ \A p \in DOMAIN msearch : IsSearch(msearch[p])
    /\ pc # "rejected" => Ranked(Covered)

\* The queries that buildIndependentRequests has come past.
CallsCovered ==
    IF pc \in {"limit", "translate", "query", "react"} THEN 0
    ELSE IF pc = "independent" THEN at - 1 ELSE Len(Queries)

CallsBuilt ==
    /\ calls \in Seq(Ids)
    /\ \A p \in DOMAIN calls :
          \E k \in 1..CallsCovered : IsIndependent(Queries[k]) /\ calls[p] = Queries[k].id
    /\ \A p, r \in DOMAIN calls : calls[p] = calls[r] => p = r
    /\ pc \notin {"rejected", "failed", "endpoints", "answered"} =>
          \A k \in 1..CallsCovered : IsIndependent(Queries[k]) =>
              \E p \in DOMAIN calls : calls[p] = Queries[k].id

\* One response for each search, once they are sent.
Responded ==
    /\ responses \in Seq(Range(responses))
    /\ pc \notin {"file", "endpoints", "answered", "failed"} => responses = <<>>
    /\ Len(responses) \in {0, Len(msearch)}
    /\ pc \in {"file", "endpoints", "answered"} => Len(responses) = Len(msearch)
    /\ \A p \in DOMAIN responses : responses[p] = Refused \/ responses[p].kind = "hits"

\* What is filed under each id; a call that is made replaces an independent query's.
Filing ==
    /\ answers \in [Ids -> {None, Empty, FromEndpoint}
                               \cup {Filed(Queries[k], responses[n]) :
                                        k \in DOMAIN Queries, n \in DOMAIN responses}]
    /\ pc \in {"endpoints", "answered"} =>
          \A x \in Ids :
              IF ~ IsId(x) THEN answers[x] = None
              ELSE IF IsIndependent(Queries[IndexOf(x)])
              THEN answers[x] = FromEndpoint \/ \E p \in DOMAIN calls : calls[p] = x
              ELSE answers[x] = FiledFor(IndexOf(x))
    /\ pc = "answered" => calls = <<>>

\* What the validate handler lists: the searches, then the calls.
Listing ==
    /\ pc # "listed" => listed = <<>>
    /\ pc = "listed" =>
          /\ DOMAIN listed = 1..Len(msearch) + Len(calls)
          /\ \A n \in 1..Len(msearch) :
                listed[n] = [msearch[n] EXCEPT !.id = extractIDFromPreference(msearch[n])]
          /\ \A n \in 1..Len(calls) : listed[Len(msearch) + n] = Independent(calls[n])

\* The inductive invariant.
IInv ==
    Typed /\ Checked /\ SearchesBuilt /\ SizesWithinLimit /\ CallsBuilt
    /\ Responded /\ Filing /\ Listing

-----------------------------------------------------------------------------
(* Sequences, requests and ranks.                                          *)

\* A sequence and an element behind it.
LEMMA AppendFacts ==
  ASSUME NEW s, s \in Seq(Range(s)), NEW e
  PROVE  /\ Append(s, e) \in Seq(Range(Append(s, e)))
         /\ Len(s) \in Nat /\ DOMAIN s = 1..Len(s)
         /\ Len(Append(s, e)) = Len(s) + 1
         /\ DOMAIN Append(s, e) = 1..Len(s) + 1
         /\ \A p \in 1..Len(s) : Append(s, e)[p] = s[p]
         /\ Append(s, e)[Len(s) + 1] = e
         /\ \A p \in DOMAIN Append(s, e) :
               Append(s, e)[p] = e \/ (p \in DOMAIN s /\ Append(s, e)[p] = s[p])
<1>. DEFINE S == Range(s) \cup {e}
<1>1. s \in Seq(S) /\ e \in S
  BY SeqMonotonic
<1>2. /\ Append(s, e) \in Seq(S)
      /\ Len(Append(s, e)) = Len(s) + 1
      /\ \A p \in 1..Len(s) : Append(s, e)[p] = s[p]
      /\ Append(s, e)[Len(s) + 1] = e
  BY <1>1, AppendProperties
<1>3. Len(s) \in Nat /\ DOMAIN s = 1..Len(s)
  BY <1>1, LenProperties
<1>4. DOMAIN Append(s, e) = 1..Len(s) + 1
  BY <1>2, LenProperties
<1>5. Append(s, e) \in Seq(Range(Append(s, e)))
  BY <1>2, SeqOfRange
<1>6. \A p \in 1..Len(s) + 1 : p = Len(s) + 1 \/ p \in 1..Len(s)
  BY <1>3
<1>. QED
  BY <1>2, <1>3, <1>4, <1>5, <1>6

\* A request has its queries at the positions from 1, each under its own id.
LEMMA RequestFacts ==
  ASSUME request \in Menu
  PROVE  /\ Len(Queries) \in Nat
         /\ DOMAIN Queries = 1..Len(Queries)
         /\ \A k \in DOMAIN Queries : IsQuery(Queries[k])
         /\ \A j, k \in DOMAIN Queries : Queries[j].id = Queries[k].id => j = k
         /\ \A k \in DOMAIN Queries : IsId(Queries[k].id) /\ IndexOf(Queries[k].id) = k
         /\ \A x : IsId(x) => IndexOf(x) \in DOMAIN Queries /\ Queries[IndexOf(x)].id = x
<1>1. IsRequest(request)
  BY QueryAssumption
<1>2. /\ Len(Queries) \in Nat
      /\ DOMAIN Queries = 1..Len(Queries)
      /\ \A k \in DOMAIN Queries : IsQuery(Queries[k])
  BY <1>1 DEF IsRequest, Queries
<1>3. ASSUME NEW j \in DOMAIN Queries, NEW k \in DOMAIN Queries, Queries[j].id = Queries[k].id
      PROVE  j = k
  <2>1. IsInjective(IdsOf(Queries))
    BY <1>1 DEF IsRequest, Queries
  <2>2. IdsOf(Queries)[j] = IdsOf(Queries)[k] /\ DOMAIN IdsOf(Queries) = DOMAIN Queries
    BY <1>3 DEF IdsOf
  <2>. QED
    BY <2>1, <2>2, <1>3 DEF IsInjective
<1>4. \A x : IsId(x) => IndexOf(x) \in DOMAIN Queries /\ Queries[IndexOf(x)].id = x
  BY DEF IsId, IndexOf
<1>5. \A k \in DOMAIN Queries : IsId(Queries[k].id) /\ IndexOf(Queries[k].id) = k
  <2>1. \A k \in DOMAIN Queries : IsId(Queries[k].id)
    BY DEF IsId
  <2>. QED
    BY <2>1, <1>3, <1>4
<1>. QED
  BY <1>2, <1>3, <1>4, <1>5

\* The ranks of the first query and of the next one.
LEMMA RankFacts ==
  /\ Rank(0) = 0
  /\ \A n \in Nat : Rank(n) \in Nat
  /\ \A n \in Nat : Rank(n + 1) = IF IsExecuted(Queries[n + 1]) THEN Rank(n) + 1 ELSE Rank(n)
<1>. DEFINE E(n) == {j \in 1..n : IsExecuted(Queries[j])}
<1>1. ASSUME NEW n \in Nat PROVE IsFiniteSet(E(n)) /\ Cardinality(E(n)) \in Nat
  <2>1. IsFiniteSet(1..n) /\ E(n) \in SUBSET (1..n)
    BY FS_Interval
  <2>2. IsFiniteSet(E(n))
    BY <2>1, FS_Subset
  <2>. QED
    BY <2>2, FS_CardinalityType
<1>2. Rank(0) = 0
  <2>1. E(0) = {}
    OBVIOUS
  <2>. QED
    BY <2>1, FS_EmptySet DEF Rank
<1>3. ASSUME NEW n \in Nat
      PROVE  Rank(n + 1) = IF IsExecuted(Queries[n + 1]) THEN Rank(n) + 1 ELSE Rank(n)
  <2>1. CASE IsExecuted(Queries[n + 1])
    <3>1. E(n + 1) = E(n) \cup {n + 1} /\ n + 1 \notin E(n)
      BY <2>1
    <3>. QED
      BY <3>1, <2>1, <1>1, FS_AddElement DEF Rank
  <2>2. CASE ~ IsExecuted(Queries[n + 1])
    <3>1. E(n + 1) = E(n)
      BY <2>2
    <3>. QED
      BY <3>1, <2>2 DEF Rank
  <2>. QED
    BY <2>1, <2>2
<1>. QED
  BY <1>1, <1>2, <1>3 DEF Rank

-----------------------------------------------------------------------------
(* Options and types.                                                      *)

\* Options are merged and filtered to options.
LEMMA OptionFacts ==
  /\ \A o, p \in Options : mergeMaps(o, p) \in Options
  /\ \A o \in Options : getFilteredOptions(o) \in Options /\ getFilteredOptions(o).size = None
  /\ \A q : IsQuery(q) => /\ buildQueryOptions(q) \in Options
                          /\ OptionsOf(q.default) \in Options
                          /\ OptionsOf(q.custom) \in Options
<1>1. \A o, p \in Options : mergeMaps(o, p) \in Options
  BY DEF mergeMaps, Options
<1>2. \A o \in Options : getFilteredOptions(o) \in Options /\ getFilteredOptions(o).size = None
  BY DEF getFilteredOptions, Options
<1>3. ASSUME NEW q, IsQuery(q) PROVE buildQueryOptions(q) \in Options
  BY <1>3 DEF buildQueryOptions, IsQuery, Options
<1>4. ASSUME NEW m, IsQueryMap(m) PROVE OptionsOf(m) \in Options
  BY <1>4 DEF OptionsOf, IsQueryMap, NoOptions, Options
<1>5. ASSUME NEW q, IsQuery(q) PROVE OptionsOf(q.default) \in Options /\ OptionsOf(q.custom) \in Options
  BY <1>4, <1>5 DEF IsQuery
<1>. QED
  BY <1>1, <1>2, <1>3, <1>5

\* Nobody changes the request.
LEMMA RequestStays ==
  ASSUME [Next]_vars
  PROVE  request' = request
BY DEF Next, vars, Limit, Check, NextQuery, EvalMap, EvalId, EvalUnknown, EvalNested, EvalEnd,
       AddSearch, Translated, BuildIndependent, Built, Validate, SendSearch,
       TransformESResponse, CallEndpoint, Answer

\* What react hands on, and how far the loops are.
LEMMA TypedStep ==
  ASSUME Typed, Next
  PROVE  Typed'
<1>1. request' = request /\ Queries' = Queries
  BY RequestStays DEF Queries
<1>. DEFINE N == Len(Queries)
<1>2. N \in Nat /\ DOMAIN Queries = 1..N /\ \A k \in DOMAIN Queries : IsQuery(Queries[k])
  BY RequestFacts DEF Typed
<1>. HIDE DEF N
<1>3. CASE Limit \/ Check \/ Built \/ Validate \/ SendSearch \/ TransformESResponse
           \/ CallEndpoint \/ Answer
  <2>1. UNCHANGED <<request, at, reacted>>
    BY <1>3 DEF Limit, Check, Built, Validate, SendSearch, TransformESResponse, CallEndpoint,
                Answer, react
  <2>2. /\ pc' \in {"limit", "translate", "query", "react", "independent", "validate", "search",
                    "file", "endpoints", "answered", "listed", "rejected", "failed"}
        /\ pc' \in {"limit", "translate"} => pc = "limit"
        /\ pc' # "react"
    BY <1>3 DEF Typed, Limit, Check, Built, Validate, SendSearch, TransformESResponse,
                CallEndpoint, Answer
  <2>. QED
    BY <2>1, <2>2, <1>1 DEF Typed
<1>4. CASE EvalMap \/ EvalUnknown \/ EvalNested
  BY <1>4, <1>1 DEF Typed, EvalMap, EvalUnknown, EvalNested
<1>5. CASE NextQuery
  <2>1. at \in 1..N /\ at + 1 \in 1..N + 1
    <3>1. at <= N /\ at \in 1..N + 1
      BY <1>5 DEF NextQuery, Typed, N
    <3>. QED
      BY <3>1, <1>2
  <2>4. /\ at' \in {at, at + 1} /\ pc' \in {"query", "react"}
        /\ pc' = "react" => at' = at /\ IsExecuted(Queries[at])
    BY <1>5 DEF NextQuery
  <2>2. reacted' \in {reacted, NothingReacted}
    BY <1>5 DEF NextQuery
  <2>3. NothingReacted.options \in Options
    BY DEF NothingReacted, Options
  <2>. QED
    BY <2>1, <2>2, <2>3, <2>4, <1>1, <1>2 DEF Typed, NothingReacted, N
<1>6. CASE EvalEnd
  <2>1. reacted'.options = reacted.options
        /\ reacted' = [clauses |-> reacted'.clauses, options |-> reacted'.options]
    BY <1>6 DEF EvalEnd, Typed
  <2>. QED
    BY <2>1, <1>6, <1>1 DEF Typed, EvalEnd
<1>7. ASSUME NEW k \in DOMAIN Queries, EvalId(k) PROVE Typed'
  <2>1. CASE UNCHANGED reacted
    BY <2>1, <1>1, <1>7 DEF Typed, EvalId, AtItem, Evaluating, react
  <2>2. CASE ~ UNCHANGED reacted
    <3>1. PICK o \in Options : reacted' = [reacted EXCEPT
                  !.options = getFilteredOptions(mergeMaps(reacted.options, o))]
      <4>. DEFINE o == mergeMaps(getFilteredOptions(buildQueryOptions(Queries[k])),
                                 getFilteredOptions(OptionsOf(Queries[k].custom)))
      <4>1. o \in Options
        BY <1>2, OptionFacts
      <4>2. reacted' = [reacted EXCEPT
                  !.options = getFilteredOptions(mergeMaps(reacted.options, o))]
        BY <1>7, <2>2 DEF EvalId, react
      <4>. QED
        BY <4>1, <4>2
    <3>2. /\ reacted'.options = getFilteredOptions(mergeMaps(reacted.options, o))
          /\ reacted' = [clauses |-> reacted'.clauses, options |-> reacted'.options]
      BY <3>1 DEF Typed
    <3>3. reacted'.options \in Options /\ reacted'.options.size = None
      BY <3>1, <3>2, OptionFacts DEF Typed
    <3>4. pc' = pc /\ at' = at
      BY <1>7, <2>2 DEF EvalId, react
    <3>. QED
      BY <3>2, <3>3, <3>4, <1>1 DEF Typed
  <2>. QED
    BY <2>1, <2>2
<1>8. CASE AddSearch
  <2>1. at' \in {at, at + 1} /\ pc' \in {"query", "rejected"} /\ UNCHANGED <<request, reacted>>
    BY <1>8 DEF AddSearch, react
  <2>2. at \in 1..N /\ at + 1 \in 1..N + 1
    BY <1>8, <1>2 DEF AddSearch, Typed
  <2>. QED
    BY <2>1, <2>2, <1>1 DEF Typed, N
<1>9. CASE Translated \/ BuildIndependent
  <2>1. pc' = "independent" /\ at' \in 1..N + 1 /\ UNCHANGED <<request, reacted>>
    BY <1>9, <1>2 DEF Translated, BuildIndependent, react, Typed, N
  <2>. QED
    BY <2>1, <1>1 DEF Typed, N
<1>. QED
  BY <1>3, <1>4, <1>5, <1>6, <1>7, <1>8, <1>9 DEF Next

\* What the limit lets pass stays as it is.
LEMMA CheckedStep ==
  ASSUME Typed, Checked, Next
  PROVE  Checked'
<1>1. request' = request /\ Queries' = Queries
  BY RequestStays DEF Queries
<1>2. CASE Limit
  BY <1>1, <1>2 DEF Checked, Limit, ExceedsLimit
<1>3. CASE ~ Limit
  <2>1. pc # "limit" /\ (pc = "rejected" => pc' = "rejected")
    BY <1>3 DEF Next, Limit, Check, NextQuery, EvalMap, EvalId, EvalUnknown, EvalNested, EvalEnd,
         AddSearch, Translated, BuildIndependent, Built, Validate, SendSearch,
         TransformESResponse, CallEndpoint, Answer, AtItem, Evaluating
  <2>. QED
    BY <2>1, <1>1 DEF Checked, ExceedsLimit
<1>. QED
  BY <1>2, <1>3

-----------------------------------------------------------------------------
(* The searches.                                                           *)

\* The search that is made for a query, and its size.
LEMMA SearchFacts ==
  ASSUME Typed, NEW q, IsQuery(q)
  PROVE  /\ IsSearch(Search(q))
         /\ Search(q).id = q.id
         /\ ~ ExceedsLimit(q) /\ IsSizeSeen(q) => WithinLimit(Search(q))
<1>. DEFINE built == buildQueryOptions(q)
            default == OptionsOf(q.default)
            given == mergeMaps(mergeMaps(reacted.options, built), default)
<1>1. built \in Options /\ default \in Options /\ reacted.options \in Options
  BY OptionFacts DEF Typed
<1>8. given \in Options
  BY <1>1, OptionFacts
<1>9. /\ q.size \in Nat \cup {None} /\ q.candidates \in Nat \cup {None} /\ None \notin Nat
      /\ knnSize(q) \in Nat
      /\ q.size # None => knnSize(q) <= q.size
  <2>1. q.size \in Nat \cup {None} /\ q.candidates \in Nat \cup {None} /\ None \notin Nat
    BY QueryAssumption DEF IsQuery, Options
  <2>. QED
    BY <2>1 DEF knnSize
<1>7. FinalOptions(q) = IF q.vector THEN [given EXCEPT !.size = knnSize(q)] ELSE given
  BY DEF FinalOptions
<1>2. FinalOptions(q) \in Options
  BY <1>7, <1>8, <1>9 DEF Options
<1>3. Search(q).id = q.id /\ Search(q).options = FinalOptions(q)
  BY DEF Search
<1>4. IsSearch(Search(q))
  BY <1>2, <1>3 DEF IsSearch, Search, IsQuery
<1>5. given.size = IF default.size # None THEN default.size ELSE built.size
  BY <1>1 DEF mergeMaps, Typed
<1>10. ASSUME ~ ExceedsLimit(q), q.vector, q.size # None, MaxSize # None
       PROVE  FinalOptions(q).size <= MaxSize
  <2>1. MaxSize \in Nat
    BY <1>10, QueryAssumption
  <2>2. FinalOptions(q).size = knnSize(q)
    BY <1>7, <1>8, <1>10 DEF Options
  <2>3. ~ (q.size > MaxSize)
    BY <1>10 DEF ExceedsLimit
  <2>. QED
    BY <2>1, <2>2, <2>3, <1>9, <1>10
<1>6. ASSUME ~ ExceedsLimit(q), ~ q.vector, IsSizeSeen(q), MaxSize # None, given.size # None
      PROVE  given.size <= MaxSize
  <2>1. MaxSize \in Nat
    BY <1>6, QueryAssumption
  <2>2. default.size # None => default.size <= MaxSize
    <3>1. default.size \in Nat \cup {None}
      BY <1>1 DEF Options
    <3>2. ~ (default.size # None /\ default.size > MaxSize)
      BY <1>6 DEF ExceedsLimit, IsSizeSeen, OptionsOf, NoOptions
    <3>. QED
      BY <2>1, <3>1, <3>2
  <2>3. built.size # None => built.size \in {0, q.size} /\ (built.size = q.size => q.size <= MaxSize)
    <3>1. built.size \in {0, q.size} /\ q.size \in Nat \cup {None}
      BY DEF buildQueryOptions, IsQuery, Options
    <3>2. ~ (q.size # None /\ q.size > MaxSize)
      BY <1>6 DEF ExceedsLimit
    <3>. QED
      BY <2>1, <3>1, <3>2
  <2>. QED
    BY <2>1, <2>2, <2>3, <1>5, <1>6
<1>. QED
  BY <1>3, <1>4, <1>6, <1>7, <1>10 DEF WithinLimit, IsSizeSeen

\* The ranks depend on the request alone.
LEMMA RanksStay ==
  ASSUME request' = request
  PROVE  \A k : Rank(k)' = Rank(k)
BY DEF Rank, Queries, IsExecuted, IsIndependent, shouldExecuteQuery

\* One query further that is not executed.
LEMMA RankedSkip ==
  ASSUME request \in Menu, NEW n \in Nat, n + 1 \in DOMAIN Queries, Ranked(n),
         ~ IsExecuted(Queries[n + 1])
  PROVE  Ranked(n + 1)
<1>1. Rank(n + 1) = Rank(n)
  BY RankFacts
<1>2. \A k \in 1..n + 1 : IsExecuted(Queries[k]) => k \in 1..n
  OBVIOUS
<1>3. 1..n \subseteq 1..n + 1
  OBVIOUS
<1>. QED
  BY <1>1, <1>2, <1>3 DEF Ranked

\* One query further that is, with its search.
LEMMA RankedAppend ==
  ASSUME request \in Menu, request' = request, NEW n \in Nat, n + 1 \in DOMAIN Queries, Ranked(n),
         IsExecuted(Queries[n + 1]), msearch \in Seq(Range(msearch)),
         NEW s, msearch' = Append(msearch, s), s.id = Queries[n + 1].id
  PROVE  /\ Len(msearch)' = Rank(n + 1)
         /\ \A k \in 1..n + 1 : IsExecuted(Queries[k]) =>
               Rank(k) \in DOMAIN msearch' /\ msearch'[Rank(k)].id = Queries[k].id
         /\ \A p \in DOMAIN msearch' :
               \E k \in 1..n + 1 : IsExecuted(Queries[k]) /\ Rank(k) = p
                                   /\ msearch'[p].id = Queries[k].id
<1>1. Rank(n + 1) = Rank(n) + 1 /\ Rank(n) \in Nat /\ Len(msearch) = Rank(n)
  BY RankFacts DEF Ranked
<1>2. /\ DOMAIN msearch = 1..Rank(n) /\ Len(msearch') = Rank(n) + 1
      /\ DOMAIN msearch' = 1..Rank(n) + 1
      /\ \A p \in 1..Rank(n) : msearch'[p] = msearch[p]
      /\ msearch'[Rank(n) + 1] = s
  BY <1>1, AppendFacts
<1>3. ASSUME NEW k \in 1..n + 1, IsExecuted(Queries[k])
      PROVE  Rank(k) \in DOMAIN msearch' /\ msearch'[Rank(k)].id = Queries[k].id
  <2>1. CASE k = n + 1
    BY <2>1, <1>1, <1>2
  <2>2. CASE k # n + 1
    <3>1. k \in 1..n
      BY <2>2
    <3>2. Rank(k) \in 1..Rank(n) /\ msearch[Rank(k)].id = Queries[k].id
      BY <3>1, <1>2, <1>3 DEF Ranked
    <3>. QED
      BY <3>2, <1>1, <1>2
  <2>. QED
    BY <2>1, <2>2
<1>4. ASSUME NEW p \in DOMAIN msearch'
      PROVE  \E k \in 1..n + 1 : IsExecuted(Queries[k]) /\ Rank(k) = p
                                 /\ msearch'[p].id = Queries[k].id
  <2>1. CASE p = Rank(n) + 1
    <3>1. n + 1 \in 1..n + 1
      OBVIOUS
    <3>. QED
      BY <3>1, <2>1, <1>1, <1>2
  <2>2. CASE p # Rank(n) + 1
    <3>1. p \in DOMAIN msearch
      BY <2>2, <1>1, <1>2
    <3>2. PICK k \in 1..n : IsExecuted(Queries[k]) /\ Rank(k) = p /\ msearch[p].id = Queries[k].id
      BY <3>1 DEF Ranked
    <3>3. k \in 1..n + 1
      OBVIOUS
    <3>. QED
      BY <3>1, <3>2, <3>3, <1>2
  <2>. QED
    BY <2>1, <2>2
<1>. QED
  BY <1>1, <1>2, <1>3, <1>4

\* Nothing but the loop over the queries comes past one of them.
LEMMA CoveredStays ==
  ASSUME Typed, Typed', Next, ~ AddSearch, ~ NextQuery, pc' # "rejected"
  PROVE  pc # "rejected" /\ Covered' = Covered /\ msearch' = msearch
<1>1. request' = request /\ Queries' = Queries /\ Len(Queries) \in Nat
  BY RequestStays, RequestFacts DEF Queries, Typed
<1>2. msearch' = msearch /\ pc # "rejected"
  BY DEF Next, Limit, Check, EvalMap, EvalId, EvalUnknown, EvalNested, EvalEnd, AtItem, Evaluating,
         Translated, BuildIndependent, Built, Validate, SendSearch,
         TransformESResponse, CallEndpoint, Answer, sent
<1>3. CASE Translated
  <2>1. at > Len(Queries) /\ at \in 1..Len(Queries) + 1 /\ pc = "query" /\ pc' = "independent"
    BY <1>3 DEF Translated, Typed
  <2>2. at - 1 = Len(Queries)
    BY <2>1, <1>1
  <2>. QED
    BY <2>1, <2>2, <1>1, <1>2 DEF Covered
<1>4. CASE BuildIndependent
  BY <1>1, <1>4 DEF BuildIndependent, Covered
<1>5. CASE ~ Translated /\ ~ BuildIndependent
  <2>1. at' = at
    BY <1>5 DEF Next, Limit, Check, EvalMap, EvalId, EvalUnknown, EvalNested, EvalEnd,
         Built, Validate, SendSearch, TransformESResponse, CallEndpoint, Answer
  <2>2. pc \in {"limit", "translate", "query", "react"}
           <=> pc' \in {"limit", "translate", "query", "react"}
    BY <1>5 DEF Next, Limit, Check, EvalMap, EvalId, EvalUnknown, EvalNested, EvalEnd, AtItem,
         Evaluating, Built, Validate, SendSearch, TransformESResponse, CallEndpoint, Answer
  <2>. QED
    BY <2>1, <2>2, <1>1, <1>2 DEF Covered
<1>. QED
  BY <1>2, <1>3, <1>4, <1>5

\* What the loop over the queries adds to the body.
LEMMA SearchesStep ==
  ASSUME Typed, Typed', SearchesBuilt, Next
  PROVE  SearchesBuilt'
<1>1. /\ request' = request /\ Queries' = Queries /\ request \in Menu
      /\ Len(Queries) \in Nat /\ DOMAIN Queries = 1..Len(Queries)
      /\ \A k \in DOMAIN Queries : IsQuery(Queries[k])
  BY RequestStays, RequestFacts DEF Queries, Typed
<1>2. \A k : Rank(k)' = Rank(k)
  BY <1>1, RanksStay
<1>3. ASSUME NEW n, Covered' = n, UNCHANGED msearch, Ranked(n) PROVE Ranked(Covered)'
  BY <1>1, <1>2, <1>3 DEF Ranked, IsExecuted, IsIndependent, shouldExecuteQuery
<1>4. CASE msearch' = msearch
  <2>1. ASSUME pc' # "rejected" PROVE Ranked(Covered)'
    <3>1. CASE NextQuery
      <4>1. /\ pc = "query" /\ at \in 1..Len(Queries)
            /\ pc' \in {"query", "react"}
            /\ IF IsExecuted(Queries[at]) THEN at' = at ELSE at' = at + 1
        <5>1. at <= Len(Queries) /\ at \in 1..Len(Queries) + 1
          BY <3>1 DEF NextQuery, Typed
        <5>2. at \in 1..Len(Queries)
          BY <5>1, <1>1
        <5>. QED
          BY <5>2, <3>1 DEF NextQuery
      <4>2. Covered = at - 1 /\ Covered' = at' - 1 /\ Ranked(at - 1)
        BY <4>1 DEF Covered, SearchesBuilt
      <4>3. CASE IsExecuted(Queries[at])
        BY <4>1, <4>2, <4>3, <1>3, <1>4
      <4>4. CASE ~ IsExecuted(Queries[at])
        <5>1. at - 1 \in Nat /\ (at - 1) + 1 = at /\ (at + 1) - 1 = at /\ at \in DOMAIN Queries
          BY <4>1, <1>1
        <5>2. Ranked(at)
          BY <5>1, <4>2, <4>4, <1>1, RankedSkip
        <5>3. Covered' = at
          BY <5>1, <4>1, <4>2, <4>4
        <5>. QED
          BY <5>2, <5>3, <1>3, <1>4
      <4>. QED
        BY <4>3, <4>4
    <3>2. CASE AddSearch
      <4>1. Append(msearch, Search(Queries[at])) = msearch
        BY <3>2, <2>1, <1>4 DEF AddSearch
      <4>. QED
        BY <4>1, AppendFacts DEF SearchesBuilt
    <3>3. CASE ~ NextQuery /\ ~ AddSearch
      BY <2>1, <3>3, <1>3, CoveredStays DEF SearchesBuilt
    <3>. QED
      BY <3>1, <3>2, <3>3
  <2>. QED
    BY <1>4, <2>1 DEF SearchesBuilt, IsSearch
<1>5. CASE msearch' # msearch
  <2>1. AddSearch /\ pc = "react" /\ pc' = "query" /\ at' = at + 1
        /\ msearch' = Append(msearch, Search(Queries[at]))
    BY <1>5 DEF Next, Limit, Check, NextQuery, EvalMap, EvalId, EvalUnknown, EvalNested, EvalEnd,
         AddSearch, Translated, BuildIndependent, Built, Validate, SendSearch,
         TransformESResponse, CallEndpoint, Answer, sent
  <2>2. at \in DOMAIN Queries /\ IsExecuted(Queries[at])
    BY <2>1 DEF Typed
  <2>3. at - 1 \in Nat /\ (at - 1) + 1 = at
    BY <2>2, <1>1
  <2>4. Ranked(at - 1) /\ Covered' = at
    BY <2>1, <2>3 DEF SearchesBuilt, Covered
  <2>5. IsSearch(Search(Queries[at])) /\ Search(Queries[at]).id = Queries[at].id
    BY <2>2, <1>1, SearchFacts
  <2>6. /\ Len(msearch)' = Rank(at)
        /\ \A k \in 1..at : IsExecuted(Queries[k]) =>
              Rank(k) \in DOMAIN msearch' /\ msearch'[Rank(k)].id = Queries[k].id
        /\ \A p \in DOMAIN msearch' :
              \E k \in 1..at : IsExecuted(Queries[k]) /\ Rank(k) = p
                               /\ msearch'[p].id = Queries[k].id
    <3>. DEFINE n == at - 1
    <3>1. n \in Nat /\ n + 1 = at
      BY <2>3
    <3>2. Ranked(n)
      BY <2>4
    <3>. HIDE DEF n
    <3>. QED
      BY <3>1, <3>2, <2>1, <2>2, <2>5, <1>1, RankedAppend DEF SearchesBuilt
  <2>7. Ranked(Covered)'
    BY <2>4, <2>6, <1>1, <1>2 DEF Ranked, IsExecuted, IsIndependent, shouldExecuteQuery
  <2>8. /\ msearch' \in Seq(Range(msearch'))
        /\ \A p \in DOMAIN msearch' : msearch'[p] = Search(Queries[at])
                                      \/ (p \in DOMAIN msearch /\ msearch'[p] = msearch[p])
    BY <2>1, AppendFacts DEF SearchesBuilt
  <2>9. \A p \in DOMAIN msearch' : IsSearch(msearch'[p])
    BY <2>5, <2>8 DEF SearchesBuilt
  <2>10. (msearch \in Seq(Range(msearch)))' /\ (\A p \in DOMAIN msearch : IsSearch(msearch[p]))'
    BY <2>8, <2>9 DEF Range, IsSearch
  <2>. QED
    BY <2>7, <2>10 DEF SearchesBuilt
<1>. QED
  BY <1>4, <1>5

\* No search is added with a size above the limit.
LEMMA SizesStep ==
  ASSUME Typed, Checked, SearchesBuilt, SizesWithinLimit, Next
  PROVE  SizesWithinLimit'
<1>0. request' = request /\ Queries' = Queries /\ (\A x : IndexOf(x)' = IndexOf(x))
  BY RequestStays DEF Queries, IndexOf
<1>1. CASE msearch' = msearch
  BY <1>0, <1>1 DEF SizesWithinLimit, WithinLimit, IsSizeSeen
<1>2. CASE msearch' # msearch
  <2>1. pc = "react" /\ msearch' = Append(msearch, Search(Queries[at]))
    BY <1>2 DEF Next, Limit, Check, NextQuery, EvalMap, EvalId, EvalUnknown, EvalNested, EvalEnd,
         AddSearch, Translated, BuildIndependent, Built, Validate, SendSearch,
         TransformESResponse, CallEndpoint, Answer, sent
  <2>2. at \in DOMAIN Queries /\ ~ ExceedsLimit(Queries[at]) /\ IsQuery(Queries[at])
    BY <2>1, RequestFacts DEF Typed, Checked
  <2>3. /\ Search(Queries[at]).id = Queries[at].id
        /\ IsSizeSeen(Queries[at]) => WithinLimit(Search(Queries[at]))
    BY <2>2, SearchFacts
  <2>5. IndexOf(Queries[at].id) = at
    BY <2>2, RequestFacts DEF Typed
  <2>4. \A p \in DOMAIN msearch' : msearch'[p] = Search(Queries[at])
                                   \/ (p \in DOMAIN msearch /\ msearch'[p] = msearch[p])
    BY <2>1, AppendFacts DEF SearchesBuilt
  <2>. QED
    BY <1>0, <2>3, <2>4, <2>5 DEF SizesWithinLimit, WithinLimit, IsSizeSeen
<1>. QED
  BY <1>1, <1>2

-----------------------------------------------------------------------------
(* The calls.                                                              *)

\* A step that leaves the calls alone never goes back over the queries, and comes
\* past none unless a request has ended.
LEMMA CallsCoveredStays ==
  ASSUME Typed, Typed', Next, ~ BuildIndependent
  PROVE  /\ 1..CallsCovered \subseteq (1..CallsCovered)'
         /\ pc' \notin {"rejected", "failed", "endpoints", "answered"} =>
               /\ pc \notin {"rejected", "failed", "endpoints", "answered"}
               /\ CallsCovered' = CallsCovered
<1>. DEFINE N == Len(Queries)
<1>1. request' = request /\ Queries' = Queries /\ N \in Nat
  BY RequestStays, RequestFacts DEF Queries, Typed
<1>2. CASE Translated
  <2>1. CallsCovered = 0 /\ CallsCovered' = 0 /\ pc = "query"
    BY <1>2 DEF Translated, CallsCovered
  <2>. QED
    BY <2>1
<1>3. CASE Built
  <2>1. at > N /\ at \in 1..N + 1 /\ pc = "independent" /\ pc' \in {"validate", "search"}
    BY <1>3 DEF Built, Typed
  <2>2. at - 1 = N
    BY <2>1, <1>1
  <2>3. CallsCovered = N /\ CallsCovered' = N
    BY <2>1, <2>2, <1>1 DEF CallsCovered
  <2>. QED
    BY <2>1, <2>3
<1>4. CASE ~ Translated /\ ~ Built
  <2>1. \/ pc \in {"limit", "translate", "query", "react"}
           /\ pc' \in {"limit", "translate", "query", "react"}
        \/ pc \in {"limit", "translate", "react"} /\ pc' = "rejected"
        \/ pc \in {"validate", "search", "file", "endpoints"}
           /\ pc' \in {"listed", "file", "endpoints", "answered", "failed"}
           /\ (pc' \in {"listed", "file"} => pc # "endpoints")
    BY <1>4 DEF Next, Limit, Check, NextQuery, EvalMap, EvalId, EvalUnknown, EvalNested, EvalEnd,
         AddSearch, Validate, SendSearch, TransformESResponse, CallEndpoint, Answer, AtItem,
         Evaluating
  <2>. QED
    BY <2>1, <1>1 DEF CallsCovered
<1>. QED
  BY <1>2, <1>3, <1>4

\* What buildIndependentRequests adds and ExecuteIndependentQuery takes away.
LEMMA CallsStep ==
  ASSUME Typed, Typed', CallsBuilt, Next
  PROVE  CallsBuilt'
<1>1. /\ request' = request /\ Queries' = Queries
      /\ Len(Queries) \in Nat /\ DOMAIN Queries = 1..Len(Queries)
      /\ \A k \in DOMAIN Queries : IsQuery(Queries[k])
      /\ \A j, k \in DOMAIN Queries : Queries[j].id = Queries[k].id => j = k
  BY RequestStays, RequestFacts DEF Queries, Typed
<1>2. Len(calls) \in Nat /\ DOMAIN calls = 1..Len(calls) /\ \A p \in DOMAIN calls : calls[p] \in Ids
  BY LenProperties, ElementOfSeq DEF CallsBuilt
<1>3. CASE ~ BuildIndependent /\ calls' = calls
  BY <1>1, <1>3, CallsCoveredStays DEF CallsBuilt, IsIndependent
<1>4. CASE BuildIndependent
  <2>. DEFINE q == Queries[at]
  <2>1. pc = "independent" /\ pc' = "independent" /\ at <= Len(Queries)
        /\ at \in 1..Len(Queries) + 1 /\ at' = at + 1
    BY <1>4 DEF BuildIndependent, Typed
  <2>2. /\ at \in DOMAIN Queries /\ CallsCovered = at - 1 /\ CallsCovered' = at
        /\ \A k \in 1..at : k = at \/ k \in 1..CallsCovered
        /\ 1..CallsCovered \subseteq 1..at /\ at \in 1..at
    BY <2>1, <1>1 DEF CallsCovered
  <2>3. q.id \in Ids
    BY <2>2, <1>1 DEF IsQuery
  <2>4. CASE ~ IsIndependent(q)
    <3>1. calls' = calls
      BY <1>4, <2>4 DEF BuildIndependent
    <3>2. \A p \in DOMAIN calls :
             \E k \in 1..at : IsIndependent(Queries[k]) /\ calls[p] = Queries[k].id
      BY <2>2 DEF CallsBuilt
    <3>3. \A k \in 1..at : IsIndependent(Queries[k]) => \E p \in DOMAIN calls : calls[p] = Queries[k].id
      BY <2>1, <2>2, <2>4 DEF CallsBuilt
    <3>4. \A k : IsIndependent(Queries[k])' <=> IsIndependent(Queries[k])
      BY <1>1 DEF IsIndependent
    <3>. QED
      BY <3>1, <3>2, <3>3, <3>4, <2>2, <1>1 DEF CallsBuilt
  <2>5. CASE IsIndependent(q)
    <3>1. calls' = Append(calls, q.id)
      BY <1>4, <2>5 DEF BuildIndependent
    <3>2. /\ calls' \in Seq(Ids)
          /\ DOMAIN calls' = 1..Len(calls) + 1
          /\ \A p \in 1..Len(calls) : calls'[p] = calls[p]
          /\ calls'[Len(calls) + 1] = q.id
      <4>1. /\ calls' \in Seq(Ids) /\ Len(calls') = Len(calls) + 1
            /\ \A p \in 1..Len(calls) : calls'[p] = calls[p]
            /\ calls'[Len(calls) + 1] = q.id
        BY <3>1, <2>3, AppendProperties DEF CallsBuilt
      <4>. QED
        BY <4>1, LenProperties
    <3>3. \A p \in DOMAIN calls' :
             (p = Len(calls) + 1 /\ calls'[p] = q.id) \/ (p \in DOMAIN calls /\ calls'[p] = calls[p])
      BY <3>2, <1>2
    <3>4. \A p \in DOMAIN calls : calls[p] # q.id
      <4>. SUFFICES ASSUME NEW p \in DOMAIN calls, calls[p] = q.id PROVE FALSE
        OBVIOUS
      <4>1. PICK k \in 1..CallsCovered : calls[p] = Queries[k].id
        BY DEF CallsBuilt
      <4>2. k \in DOMAIN Queries /\ k # at
        BY <4>1, <2>1, <2>2, <1>1
      <4>. QED
        BY <4>1, <4>2, <2>2, <1>1
    <3>5. \A p \in DOMAIN calls' :
             \E k \in 1..at : IsIndependent(Queries[k]) /\ calls'[p] = Queries[k].id
      BY <3>3, <2>2, <2>5 DEF CallsBuilt
    <3>6. \A p, r \in DOMAIN calls' : calls'[p] = calls'[r] => p = r
      BY <3>3, <3>4 DEF CallsBuilt
    <3>7. \A k \in 1..at : IsIndependent(Queries[k]) => \E p \in DOMAIN calls' : calls'[p] = Queries[k].id
      <4>. SUFFICES ASSUME NEW k \in 1..at, IsIndependent(Queries[k])
                    PROVE  \E p \in DOMAIN calls' : calls'[p] = Queries[k].id
        OBVIOUS
      <4>1. CASE k = at
        BY <4>1, <3>2, <1>2
      <4>2. CASE k \in 1..CallsCovered
        <5>1. PICK p \in DOMAIN calls : calls[p] = Queries[k].id
          BY <4>2, <2>1 DEF CallsBuilt
        <5>2. p \in DOMAIN calls' /\ calls'[p] = calls[p]
          BY <3>2, <1>2
        <5>. QED
          BY <5>1, <5>2
      <4>. QED
        BY <4>1, <4>2, <2>2
    <3>8. \A k : IsIndependent(Queries[k])' <=> IsIndependent(Queries[k])
      BY <1>1 DEF IsIndependent
    <3>. QED
      BY <3>2, <3>5, <3>6, <3>7, <3>8, <2>2, <1>1 DEF CallsBuilt
  <2>. QED
    BY <2>4, <2>5
<1>5. CASE CallEndpoint /\ calls' # calls
  <2>1. calls # <<>> /\ calls' = Tail(calls) /\ pc = "endpoints" /\ pc' = "endpoints"
    BY <1>5 DEF CallEndpoint
  <2>2. /\ calls' \in Seq(Ids)
        /\ DOMAIN calls' = 1..Len(calls) - 1
        /\ \A p \in DOMAIN calls' : p + 1 \in DOMAIN calls /\ calls'[p] = calls[p + 1]
    <3>1. /\ calls' \in Seq(Ids) /\ Len(calls') = Len(calls) - 1
          /\ \A p \in 1..Len(calls') : calls'[p] = calls[p + 1]
      BY <2>1, HeadTailProperties DEF CallsBuilt
    <3>2. DOMAIN calls' = 1..Len(calls) - 1
      BY <3>1, LenProperties
    <3>. QED
      BY <3>1, <3>2, <1>2
  <2>3. CallsCovered' = CallsCovered
    BY <2>1, <1>1 DEF CallsCovered
  <2>4. \A p \in DOMAIN calls' :
           \E k \in 1..CallsCovered : IsIndependent(Queries[k]) /\ calls'[p] = Queries[k].id
    BY <2>2 DEF CallsBuilt
  <2>5. \A p, r \in DOMAIN calls' : calls'[p] = calls'[r] => p = r
    <3>. SUFFICES ASSUME NEW p \in DOMAIN calls', NEW r \in DOMAIN calls', calls'[p] = calls'[r]
                  PROVE  p = r
      OBVIOUS
    <3>1. p + 1 = r + 1
      BY <2>2 DEF CallsBuilt
    <3>. QED
      BY <3>1, <2>2, <1>2
  <2>. QED
    BY <2>1, <2>2, <2>3, <2>4, <2>5, <1>1 DEF CallsBuilt, IsIndependent
<1>6. calls' = calls \/ BuildIndependent \/ CallEndpoint
  BY DEF Next, Limit, Check, NextQuery, EvalMap, EvalId, EvalUnknown, EvalNested, EvalEnd,
         AddSearch, Translated, Built, Validate, SendSearch, TransformESResponse, Answer, sent
<1>. QED
  BY <1>3, <1>4, <1>5, <1>6

-----------------------------------------------------------------------------
(* The responses, the answers and what is listed.                          *)

\* A function on the numbers from 1 to n is a sequence of length n.
LEMMA FunctionIsSeq ==
  ASSUME NEW n \in Nat, NEW f, f = [i \in 1..n |-> f[i]]
  PROVE  f \in Seq(Range(f)) /\ Len(f) = n
<1>1. f \in [1..n -> Range(f)]
  BY DEF Range
<1>2. f \in Seq(Range(f))
  BY <1>1, SeqDef
<1>3. DOMAIN f = 1..n /\ DOMAIN f = 1..Len(f) /\ Len(f) \in Nat
  BY <1>1, <1>2, LenProperties
<1>4. 1..n = 1..Len(f) => n = Len(f)
  <2>. SUFFICES ASSUME 1..n = 1..Len(f) PROVE n = Len(f)
    OBVIOUS
  <2>1. n \in 1..n \/ n = 0
    OBVIOUS
  <2>2. Len(f) \in 1..Len(f) \/ Len(f) = 0
    BY <1>3
  <2>. QED
    BY <2>1, <2>2, <1>3
<1>. QED
  BY <1>2, <1>3, <1>4

\* SendSearch: as many responses as searches.
LEMMA RespondedStep ==
  ASSUME Typed, Typed', SearchesBuilt, Responded, Next
  PROVE  Responded'
<1>1. CASE SendSearch /\ responses' # responses
  <2>1. PICK bad \in SUBSET DOMAIN msearch :
           responses' = [k \in DOMAIN msearch |-> IF k \in bad THEN Refused ELSE Found(msearch[k])]
    BY <1>1 DEF SendSearch
  <2>2. pc' = "file" /\ msearch' = msearch
    BY <1>1 DEF SendSearch, sent
  <2>3. Len(msearch) \in Nat /\ DOMAIN msearch = 1..Len(msearch)
    BY LenProperties DEF SearchesBuilt
  <2>4. responses' \in Seq(Range(responses')) /\ Len(responses') = Len(msearch)
    <3>. DEFINE f == responses'
    <3>1. f = [i \in 1..Len(msearch) |-> f[i]]
      BY <2>1, <2>3
    <3>. HIDE DEF f
    <3>2. f \in Seq(Range(f)) /\ Len(f) = Len(msearch)
      BY <3>1, <2>3, FunctionIsSeq
    <3>. QED
      BY <3>2 DEF f
  <2>5. \A p \in DOMAIN responses' : responses'[p] = Refused \/ responses'[p].kind = "hits"
    BY <2>1 DEF Found, Hits
  <2>6. (responses \in Seq(Range(responses)))'
    BY <2>4 DEF Range
  <2>. QED
    BY <2>2, <2>4, <2>5, <2>6 DEF Responded, Refused
<1>2. CASE responses' = responses /\ msearch' = msearch
  <2>1. /\ pc' \in {"file", "endpoints", "answered"} /\ pc \notin {"file", "endpoints", "answered"} =>
              SendSearch /\ pc = "search" /\ pc' = "file"
        /\ pc \in {"file", "endpoints", "answered", "failed"} =>
              pc' \in {"file", "endpoints", "answered", "failed"}
    BY DEF Next, Limit, Check, NextQuery, EvalMap, EvalId, EvalUnknown, EvalNested, EvalEnd,
           AddSearch, Translated, BuildIndependent, Built, Validate, SendSearch,
           TransformESResponse, CallEndpoint, Answer, AtItem, Evaluating
  <2>2. pc = "search" /\ pc' = "file" /\ SendSearch => Len(responses) = Len(msearch)
    <3>. SUFFICES ASSUME pc' = "file", SendSearch PROVE Len(responses) = Len(msearch)
      OBVIOUS
    <3>1. PICK bad \in SUBSET DOMAIN msearch :
             responses = [k \in DOMAIN msearch |-> IF k \in bad THEN Refused ELSE Found(msearch[k])]
      BY <1>2 DEF SendSearch
    <3>2. Len(msearch) \in Nat /\ DOMAIN msearch = 1..Len(msearch)
      BY LenProperties DEF SearchesBuilt
    <3>3. responses = [i \in 1..Len(msearch) |-> responses[i]]
      BY <3>1, <3>2
    <3>. QED
      BY <3>2, <3>3, FunctionIsSeq
  <2>. QED
    BY <2>1, <2>2, <1>2 DEF Responded, Range, Refused
<1>3. CASE AddSearch
  <2>1. responses' = <<>> /\ pc' \in {"query", "rejected"}
    BY <1>3 DEF AddSearch, Responded, returned
  <2>2. <<>> \in Seq(Range(<<>>)) /\ Len(<<>>) = 0 /\ DOMAIN <<>> = {}
    <3>1. <<>> \in Seq(Range(<<>>)) /\ Len(<<>>) = 0
      BY EmptySeq
    <3>2. DOMAIN <<>> = 1..Len(<<>>)
      BY <3>1, LenProperties
    <3>. QED
      BY <3>1, <3>2
  <2>3. (responses \in Seq(Range(responses)))'
    BY <2>1, <2>2 DEF Range
  <2>. QED
    BY <2>1, <2>2, <2>3 DEF Responded
<1>4. (responses' = responses /\ msearch' = msearch) \/ SendSearch \/ AddSearch
  BY DEF Next, Limit, Check, NextQuery, EvalMap, EvalId, EvalUnknown, EvalNested, EvalEnd,
         Translated, BuildIndependent, Built, Validate,
         TransformESResponse, CallEndpoint, Answer, sent, returned
<1>5. SendSearch => msearch' = msearch
  BY DEF SendSearch, sent
<1>. QED
  BY <1>1, <1>2, <1>3, <1>4, <1>5

\* What is filed depends on the request and the responses alone.
LEMMA FiledForStays ==
  ASSUME request' = request, responses' = responses
  PROVE  \A k : FiledFor(k)' = FiledFor(k)
BY DEF FiledFor, Filed, IsCounted, Place, Queries, shouldExecuteQuery, IsSuggestionDisabled,
       Empty, Hits, Refused

\* TransformESResponse files the answers, and ExecuteIndependentQuery those of
\* independent queries.
LEMMA FilingStep ==
  ASSUME Typed, Typed', CallsBuilt, Responded, Filing, Next
  PROVE  Filing'
<1>. DEFINE Kinds == {None, Empty, FromEndpoint}
                     \cup {Filed(Queries[k], responses[n]) :
                              k \in DOMAIN Queries, n \in DOMAIN responses}
<1>1. /\ request' = request /\ Queries' = Queries /\ request \in Menu
      /\ \A k \in DOMAIN Queries : IsQuery(Queries[k])
      /\ \A k \in DOMAIN Queries : IsId(Queries[k].id) /\ IndexOf(Queries[k].id) = k
      /\ \A x : IsId(x) => IndexOf(x) \in DOMAIN Queries /\ Queries[IndexOf(x)].id = x
  BY RequestStays, RequestFacts DEF Queries, Typed
<1>2. /\ \A x : IsId(x)' <=> IsId(x)
      /\ \A x : IndexOf(x)' = IndexOf(x)
      /\ \A k : IsIndependent(Queries[k])' <=> IsIndependent(Queries[k])
  BY <1>1 DEF IsId, IndexOf, IsIndependent
<1>3. ASSUME responses' = responses PROVE Kinds' = Kinds
  BY <1>1, <1>3 DEF Filed, Empty, FromEndpoint, Refused, Hits
<1>4. CASE TransformESResponse
  <2>1. /\ answers' = [x \in Ids |-> IF IsId(x) THEN FiledFor(IndexOf(x)) ELSE None]
        /\ pc' = "endpoints" /\ responses' = responses /\ calls' = calls /\ pc = "file"
    BY <1>4 DEF TransformESResponse, sent
  <2>2. \A k \in DOMAIN Queries : FiledFor(k) \in Kinds
    BY DEF FiledFor
  <2>3. answers' \in [Ids -> Kinds]
    BY <2>1, <2>2, <1>1
  <2>4. ASSUME NEW x \in Ids, IsId(x), IsIndependent(Queries[IndexOf(x)])
        PROVE  \E p \in DOMAIN calls : calls[p] = x
    <3>1. CallsCovered = Len(Queries) /\ DOMAIN Queries = 1..Len(Queries)
      BY <2>1, RequestFacts DEF CallsCovered, Typed
    <3>. QED
      BY <3>1, <2>1, <2>4, <1>1 DEF CallsBuilt
  <2>. QED
    BY <2>1, <2>3, <2>4, <1>1, <1>2, <1>3, FiledForStays DEF Filing
<1>5. CASE CallEndpoint /\ pc' # "failed"
  <2>1. /\ calls # <<>> /\ calls' = Tail(calls) /\ pc = "endpoints" /\ pc' = "endpoints"
        /\ answers' = [answers EXCEPT ![Head(calls)] = FromEndpoint] /\ responses' = responses
    BY <1>5 DEF CallEndpoint
  <2>2. /\ 1 \in DOMAIN calls /\ Head(calls) = calls[1]
        /\ \A p \in DOMAIN calls : p = 1 \/ (p - 1 \in DOMAIN calls' /\ calls'[p - 1] = calls[p])
    <3>1. /\ Tail(calls) \in Seq(Ids) /\ Len(Tail(calls)) = Len(calls) - 1
          /\ \A p \in 1..Len(Tail(calls)) : Tail(calls)[p] = calls[p + 1]
      BY <2>1, HeadTailProperties DEF CallsBuilt
    <3>2. DOMAIN Tail(calls) = 1..Len(calls) - 1 /\ DOMAIN calls = 1..Len(calls) /\ Len(calls) \in Nat \ {0}
      BY <3>1, <2>1, LenProperties, EmptySeq DEF CallsBuilt
    <3>3. Head(calls) = calls[1]
      BY <2>1 DEF CallsBuilt
    <3>4. ASSUME NEW p \in DOMAIN calls, p # 1
          PROVE  p - 1 \in DOMAIN Tail(calls) /\ Tail(calls)[p - 1] = calls[p]
      <4>1. p - 1 \in 1..Len(Tail(calls)) /\ (p - 1) + 1 = p
        BY <3>1, <3>2, <3>4
      <4>. QED
        BY <4>1, <3>1, <3>2
    <3>. QED
      BY <3>2, <3>3, <3>4, <2>1
  <2>3. PICK k \in 1..CallsCovered : IsIndependent(Queries[k]) /\ calls[1] = Queries[k].id
    BY <2>2 DEF CallsBuilt
  <2>4. k \in DOMAIN Queries
    BY <2>1, RequestFacts DEF CallsCovered, Typed
  <2>5. calls[1] \in Ids /\ IsId(calls[1]) /\ IndexOf(calls[1]) = k
    BY <2>3, <2>4, <1>1 DEF IsQuery
  <2>6. answers' \in [Ids -> Kinds]
    <3>1. answers \in [Ids -> Kinds] /\ FromEndpoint \in Kinds
      BY DEF Filing
    <3>. HIDE DEF Kinds
    <3>. QED
      BY <2>1, <3>1
  <2>7. \A x \in Ids : answers'[x] = IF x = calls[1] THEN FromEndpoint ELSE answers[x]
    BY <2>1, <2>2, <2>5 DEF Filing
  <2>8. ASSUME NEW x \in Ids
        PROVE  IF ~ IsId(x) THEN answers'[x] = None
               ELSE IF IsIndependent(Queries[IndexOf(x)])
               THEN answers'[x] = FromEndpoint \/ \E p \in DOMAIN calls' : calls'[p] = x
               ELSE answers'[x] = FiledFor(IndexOf(x))
    <3>1. CASE x = calls[1]
      BY <3>1, <2>3, <2>5, <2>7
    <3>2. CASE x # calls[1]
      <4>1. answers'[x] = answers[x]
        BY <3>2, <2>7
      <4>2. IF ~ IsId(x) THEN answers[x] = None
            ELSE IF IsIndependent(Queries[IndexOf(x)])
            THEN answers[x] = FromEndpoint \/ \E p \in DOMAIN calls : calls[p] = x
            ELSE answers[x] = FiledFor(IndexOf(x))
        BY <2>1 DEF Filing
      <4>3. (\E p \in DOMAIN calls : calls[p] = x) => \E p \in DOMAIN calls' : calls'[p] = x
        BY <3>2, <2>2
      <4>. QED
        BY <4>1, <4>2, <4>3
    <3>. QED
      BY <3>1, <3>2
  <2>. QED
    BY <2>1, <2>6, <2>8, <1>1, <1>2, <1>3, FiledForStays DEF Filing
<1>6. CASE answers' = answers /\ ~ TransformESResponse /\ ~ (CallEndpoint /\ pc' # "failed")
  <2>1. CASE SendSearch
    <3>1. responses = <<>> /\ pc' \in {"file", "failed"}
      BY <2>1 DEF SendSearch, Responded
    <3>2. DOMAIN responses = {}
      <4>1. Len(responses) = 0 /\ DOMAIN responses = 1..Len(responses)
        BY <3>1, EmptySeq, LenProperties
      <4>. QED
        BY <4>1
    <3>3. answers \in [Ids -> {None, Empty, FromEndpoint}]
      BY <3>2 DEF Filing
    <3>4. (answers \in [Ids -> Kinds])'
      BY <3>3, <1>6 DEF Empty, FromEndpoint, Hits
    <3>. QED
      BY <3>1, <3>4 DEF Filing
  <2>2. CASE Answer
    <3>1. /\ UNCHANGED <<responses, calls, answers>> /\ calls = <<>> /\ pc = "endpoints"
          /\ pc' = "answered"
      BY <2>2 DEF Answer, sent, returned
    <3>. QED
      BY <3>1, <1>1, <1>2, <1>3, FiledForStays DEF Filing
  <2>3. CASE ~ SendSearch /\ ~ Answer
    <3>1. responses' = responses /\ pc' \notin {"endpoints", "answered"}
      BY <1>6, <2>3 DEF Next, Limit, Check, NextQuery, EvalMap, EvalId, EvalUnknown, EvalNested,
             EvalEnd, AddSearch, Translated, BuildIndependent, Built, Validate, CallEndpoint,
             AtItem, Evaluating, returned
    <3>2. answers' \in [Ids -> Kinds']
      <4>1. answers \in [Ids -> Kinds]
        BY DEF Filing
      <4>2. Kinds' = Kinds
        BY <3>1, <1>3
      <4>. HIDE DEF Kinds
      <4>. QED
        BY <4>1, <4>2, <1>6
    <3>. QED
      BY <3>1, <3>2 DEF Filing
  <2>. QED
    BY <2>1, <2>2, <2>3
<1>7. answers' = answers \/ TransformESResponse \/ CallEndpoint
  BY DEF Next, Limit, Check, NextQuery, EvalMap, EvalId, EvalUnknown, EvalNested, EvalEnd,
         AddSearch, Translated, BuildIndependent, Built, Validate, SendSearch, Answer, returned
<1>8. CallEndpoint => pc' # "failed" \/ answers' = answers
  BY DEF CallEndpoint
<1>. QED
  BY <1>4, <1>5, <1>6, <1>7, <1>8

\* Validate lists the searches and then the calls.
LEMMA ListingStep ==
  ASSUME Typed, SearchesBuilt, CallsBuilt, Listing, Next
  PROVE  Listing'
<1>1. CASE Validate
  <2>. DEFINE f == [k \in DOMAIN msearch |->
                       [msearch[k] EXCEPT !.id = extractIDFromPreference(msearch[k])]]
              g == [k \in DOMAIN calls |-> Independent(calls[k])]
              S == Range(f) \cup Range(g)
              m == Len(msearch)
              n == Len(calls)
  <2>1. listed' = f \o g /\ pc' = "listed" /\ UNCHANGED <<request, msearch, calls>>
    BY <1>1 DEF Validate, sent
  <2>2. m \in Nat /\ DOMAIN msearch = 1..m /\ n \in Nat /\ DOMAIN calls = 1..n
    BY LenProperties DEF SearchesBuilt, CallsBuilt
  <2>3. f = [k \in 1..m |-> f[k]] /\ g = [k \in 1..n |-> g[k]]
    BY <2>2
  <2>4. f \in Seq(S) /\ Len(f) = m /\ g \in Seq(S) /\ Len(g) = n
    <3>. HIDE DEF f, g, m, n
    <3>1. f \in Seq(Range(f)) /\ Len(f) = m /\ g \in Seq(Range(g)) /\ Len(g) = n
      BY <2>2, <2>3, FunctionIsSeq
    <3>. QED
      BY <3>1, SeqMonotonic
  <2>5. /\ DOMAIN (f \o g) = 1..m + n
        /\ \A i \in 1..m : (f \o g)[i] = f[i]
        /\ \A i \in 1..n : (f \o g)[m + i] = g[i]
    <3>. HIDE DEF f, g, m, n, S
    <3>1. /\ f \o g \in Seq(S) /\ Len(f \o g) = m + n
          /\ \A i \in 1..m + n : (f \o g)[i] = IF i <= m THEN f[i] ELSE g[i - m]
      BY <2>4, ConcatProperties
    <3>2. DOMAIN (f \o g) = 1..m + n
      BY <3>1, LenProperties
    <3>3. \A i \in 1..n : m + i \in 1..m + n /\ ~ (m + i <= m) /\ (m + i) - m = i
      BY <2>2
    <3>4. \A i \in 1..m : i \in 1..m + n /\ i <= m
      BY <2>2
    <3>. QED
      BY <3>1, <3>2, <3>3, <3>4
  <2>6. /\ \A i \in 1..m : f[i] = [msearch[i] EXCEPT !.id = extractIDFromPreference(msearch[i])]
        /\ \A i \in 1..n : g[i] = Independent(calls[i])
    BY <2>2
  <2>. HIDE DEF f, g
  <2>. QED
    BY <2>1, <2>5, <2>6 DEF Listing, extractIDFromPreference, Independent, NoOptions
<1>2. CASE ~ Validate
  <2>1. listed' = listed /\ pc' # "listed" /\ pc # "listed"
    BY <1>2 DEF Next, Limit, Check, NextQuery, EvalMap, EvalId, EvalUnknown, EvalNested, EvalEnd,
         AddSearch, Translated, BuildIndependent, Built, SendSearch, TransformESResponse,
         CallEndpoint, Answer, AtItem, Evaluating, returned
  <2>. QED
    BY <2>1 DEF Listing
<1>. QED
  BY <1>1, <1>2

-----------------------------------------------------------------------------
(* The invariant.                                                          *)

\* No request has come anywhere at the start.
LEMMA InitIInv == Init => IInv
<1>. SUFFICES ASSUME Init PROVE IInv
  OBVIOUS
<1>1. Typed
  <2>1. Len(Queries) \in Nat
    BY RequestFacts DEF Init
  <2>2. at \in 1..Len(Queries) + 1
    BY <2>1 DEF Init
  <2>. QED
    BY <2>2 DEF Init, Typed, NothingReacted, Options
<1>2. /\ \A S : <<>> \in Seq(S)
      /\ Len(<<>>) = 0
      /\ DOMAIN <<>> = {}
  <2>1. \A S : <<>> \in Seq(S) /\ Len(<<>>) = 0
    BY EmptySeq
  <2>2. DOMAIN <<>> = 1..Len(<<>>)
    BY <2>1, LenProperties
  <2>. QED
    BY <2>1, <2>2
<1>3. Ranked(0)
  BY <1>2, RankFacts DEF Init, Ranked
<1>4. Covered = 0
  BY DEF Init, Covered
<1>5. SearchesBuilt
  BY <1>2, <1>3, <1>4 DEF Init, SearchesBuilt
<1>6. CallsBuilt
  BY <1>2 DEF Init, CallsBuilt, CallsCovered
<1>7. Responded
  BY <1>2 DEF Init, Responded
<1>8. Checked /\ SizesWithinLimit /\ Listing
  BY <1>2 DEF Init, Checked, SizesWithinLimit, Listing
<1>9. Filing
  BY DEF Init, Filing
<1>. QED
  BY <1>1, <1>5, <1>6, <1>7, <1>8, <1>9 DEF IInv

\* Every step preserves it.
LEMMA NextIInv == IInv /\ [Next]_vars => IInv'
<1>. SUFFICES ASSUME IInv, [Next]_vars PROVE IInv'
  OBVIOUS
<1>1. CASE Next
  <2>1. Typed'
    BY <1>1, TypedStep DEF IInv
  <2>2. Checked' /\ SearchesBuilt' /\ SizesWithinLimit'
    BY <1>1, <2>1, CheckedStep, SearchesStep, SizesStep DEF IInv
  <2>3. CallsBuilt' /\ Responded' /\ Filing' /\ Listing'
    BY <1>1, <2>1, CallsStep, RespondedStep, FilingStep, ListingStep DEF IInv
  <2>. QED
    BY <2>1, <2>2, <2>3 DEF IInv
<1>2. CASE UNCHANGED vars
  <2>1. request' = request /\ Queries' = Queries /\ UNCHANGED <<pc, at, msearch, calls, responses, answers, listed, reacted>>
    BY <1>2 DEF vars, Queries, react, sent, returned
  <2>2. /\ \A k : Rank(k)' = Rank(k)
        /\ \A k : FiledFor(k)' = FiledFor(k)
    BY <2>1, RanksStay, FiledForStays
  <2>3. Typed' /\ Checked' /\ SizesWithinLimit'
    BY <2>1 DEF IInv, Typed, Checked, SizesWithinLimit, WithinLimit, IsSizeSeen, ExceedsLimit,
         IndexOf, IsExecuted, IsIndependent,
                shouldExecuteQuery
  <2>4. SearchesBuilt'
    <3>1. Covered' = Covered
      BY <2>1 DEF Covered
    <3>2. pc' # "rejected" => Ranked(Covered)'
      BY <2>1, <2>2, <3>1 DEF IInv, SearchesBuilt, Ranked, IsExecuted, IsIndependent, shouldExecuteQuery
    <3>3. (msearch \in Seq(Range(msearch)))' /\ (\A p \in DOMAIN msearch : IsSearch(msearch[p]))'
      BY <2>1 DEF IInv, SearchesBuilt, IsSearch, Range
    <3>. QED
      BY <3>2, <3>3 DEF SearchesBuilt
  <2>5. CallsBuilt' /\ Responded'
    <3>1. CallsCovered' = CallsCovered
      BY <2>1 DEF CallsCovered
    <3>2. CallsBuilt'
      BY <2>1, <3>1 DEF IInv, CallsBuilt, IsIndependent
    <3>3. Responded'
      BY <2>1 DEF IInv, Responded, Refused, Range
    <3>. QED
      BY <3>2, <3>3
  <2>6. Filing'
    <3>1. /\ \A x : IsId(x)' <=> IsId(x)
          /\ \A x : IndexOf(x)' = IndexOf(x)
          /\ \A k : IsIndependent(Queries[k])' <=> IsIndependent(Queries[k])
      BY <2>1 DEF IsId, IndexOf, IsIndependent
    <3>. QED
      BY <2>1, <2>2, <3>1 DEF IInv, Filing, Filed, Empty, FromEndpoint, Refused, Hits
  <2>7. Listing'
    BY <2>1 DEF IInv, Listing, extractIDFromPreference, Independent, NoOptions
  <2>. QED
    BY <2>3, <2>4, <2>5, <2>6, <2>7 DEF IInv
<1>. QED
  BY <1>1, <1>2

\* It holds in every state.
LEMMA InductiveInvariant == Spec => []IInv
BY InitIInv, NextIInv, PTL DEF Spec

-----------------------------------------------------------------------------
(* The theorems.                                                           *)

\* Types are kept (TypeOK), for any menu, ids, atoms, sorts and limit.
THEOREM TypeCorrect == Spec => []TypeOK
<1>1. IInv => TypeOK
  <2>. SUFFICES ASSUME IInv PROVE TypeOK
    OBVIOUS
  <2>1. \A k \in DOMAIN msearch : msearch[k].id \in Ids /\ msearch[k].options \in Options
    BY DEF IInv, SearchesBuilt, IsSearch
  <2>2. \A k \in DOMAIN calls : calls[k] \in Ids
    BY LenProperties, ElementOfSeq DEF IInv, CallsBuilt
  <2>3. \A k \in DOMAIN listed : listed[k].id \in Ids \cup {None}
    <3>. DEFINE m == Len(msearch)
                n == Len(calls)
    <3>1. m \in Nat /\ DOMAIN msearch = 1..m /\ n \in Nat /\ DOMAIN calls = 1..n
      BY LenProperties DEF IInv, SearchesBuilt, CallsBuilt
    <3>2. CASE pc = "listed"
      <4>1. \A i \in 1..m : listed[i].id \in Ids \cup {None}
        <5>. SUFFICES ASSUME NEW i \in 1..m PROVE listed[i].id \in Ids \cup {None}
          OBVIOUS
        <5>1. listed[i] = [msearch[i] EXCEPT !.id = extractIDFromPreference(msearch[i])]
          BY <3>2 DEF IInv, Listing
        <5>2. msearch[i] = [id |-> msearch[i].id, clause |-> msearch[i].clause,
                            options |-> msearch[i].options]
          BY <3>1 DEF IInv, SearchesBuilt, IsSearch
        <5>3. listed[i].id = extractIDFromPreference(msearch[i])
          BY <5>1, <5>2
        <5>. QED
          BY <5>3, <2>1, <3>1 DEF extractIDFromPreference
      <4>2. \A i \in 1..n : listed[m + i].id \in Ids
        <5>1. \A i \in 1..n : listed[m + i] = Independent(calls[i])
          BY <3>2 DEF IInv, Listing
        <5>2. \A i \in 1..n : Independent(calls[i]).id \in Ids
          BY <3>1, <2>2 DEF Independent
        <5>. HIDE DEF m, n
        <5>. QED
          BY <5>1, <5>2
      <4>3. DOMAIN listed = 1..m + n
        BY <3>2 DEF IInv, Listing
      <4>4. ASSUME NEW k \in 1..m + n PROVE k \in 1..m \/ (k - m \in 1..n /\ k = m + (k - m))
        BY <3>1
      <4>. QED
        BY <4>1, <4>2, <4>3, <4>4
    <3>3. CASE pc # "listed"
      <4>1. listed = <<>>
        BY <3>3 DEF IInv, Listing
      <4>2. DOMAIN listed = {}
        BY <4>1, EmptySeq, LenProperties
      <4>. QED
        BY <4>2
    <3>. QED
      BY <3>2, <3>3
  <2>4. /\ Len(responses) \in {0, Len(msearch)}
        /\ \A k \in DOMAIN responses : responses[k] = Refused \/ responses[k].kind = "hits"
    BY DEF IInv, Responded
  <2>. QED
    BY <2>1, <2>2, <2>3, <2>4 DEF IInv, Typed, Filing, TypeOK
<1>. QED
  BY <1>1, InductiveInvariant, PTL

\* No search is sent with a size above the permission's if the middleware can see
\* the size (SizesWithinLimit): the sizes that react could hand on are filtered, and
\* that of a default query replaces the query's own only if it was compared as well.
THEOREM SizesAreLimited == Spec => []SizesWithinLimit
<1>1. IInv => SizesWithinLimit
  BY DEF IInv
<1>. QED
  BY <1>1, InductiveInvariant, PTL

\* Two searches have the ids of two queries.
LEMMA SearchesApart ==
  ASSUME IInv, Ranked(Len(Queries))
  PROVE  \A p, r \in DOMAIN msearch : msearch[p].id = msearch[r].id => p = r
<1>. SUFFICES ASSUME NEW p \in DOMAIN msearch, NEW r \in DOMAIN msearch,
                     msearch[p].id = msearch[r].id
              PROVE  p = r
  OBVIOUS
<1>1. PICK j \in 1..Len(Queries) : Rank(j) = p /\ msearch[p].id = Queries[j].id
  BY DEF Ranked
<1>2. PICK k \in 1..Len(Queries) : Rank(k) = r /\ msearch[r].id = Queries[k].id
  BY DEF Ranked
<1>3. j = k
  <2>1. \A a, b \in 1..Len(Queries) : Queries[a].id = Queries[b].id => a = b
    BY RequestFacts DEF IInv, Typed
  <2>2. Queries[j].id = Queries[k].id
    BY <1>1, <1>2
  <2>. QED
    BY <2>1, <2>2
<1>. QED
  BY <1>1, <1>2, <1>3

\* The answers of an answered request are filed under their own queries
\* (AnswersMatch), for any requests and however Elasticsearch refuses.
THEOREM AnswersAreTheirOwn == Spec => []AnswersMatch
<1>1. IInv => AnswersMatch
  <2>. SUFFICES ASSUME IInv, pc = "answered",
                       \A k \in DOMAIN Queries : ~ (Queries[k].endpoint /\ IsExecuted(Queries[k]))
                PROVE  /\ \A x \in Ids :
                             LET q == Queries[IndexOf(x)]
                             IN  IF ~ IsId(x) THEN answers[x] = None
                                 ELSE IF IsIndependent(q) THEN answers[x] = FromEndpoint
                                 ELSE IF IsSuggestionDisabled(q) THEN answers[x] = Empty
                                 ELSE IF q.execute = FALSE THEN answers[x] = None
                                 ELSE \E k \in DOMAIN msearch : msearch[k].id = x
                       /\ \A k \in DOMAIN msearch :
                             LET x == msearch[k].id
                             IN  answers[x] = Filed(Queries[IndexOf(x)], responses[k])
                       /\ IsInjective(IdsOf(msearch))
    BY DEF AnswersMatch
  <2>1. /\ Len(Queries) \in Nat /\ DOMAIN Queries = 1..Len(Queries)
        /\ \A k \in DOMAIN Queries : IsQuery(Queries[k])
        /\ \A k \in DOMAIN Queries : IsId(Queries[k].id) /\ IndexOf(Queries[k].id) = k
        /\ \A x : IsId(x) => IndexOf(x) \in DOMAIN Queries /\ Queries[IndexOf(x)].id = x
    BY RequestFacts DEF IInv, Typed
  <2>2. Ranked(Len(Queries))
    BY DEF IInv, SearchesBuilt, Covered
  <2>3. \A x \in Ids :
           IF ~ IsId(x) THEN answers[x] = None
           ELSE IF IsIndependent(Queries[IndexOf(x)]) THEN answers[x] = FromEndpoint
           ELSE answers[x] = FiledFor(IndexOf(x))
    <3>1. DOMAIN calls = {}
      <4>1. calls = <<>>
        BY DEF IInv, Filing
      <4>. QED
        BY <4>1, EmptySeq, LenProperties
    <3>. QED
      BY <3>1 DEF IInv, Filing
  <2>4. \A k \in DOMAIN Queries : IsCounted(Queries[k]) <=> IsExecuted(Queries[k])
    BY DEF IsCounted, IsExecuted, IsIndependent
  <2>5. ASSUME NEW k \in DOMAIN Queries PROVE Place(k) = Rank(k)
    <3>1. \A j \in 1..k : j \in DOMAIN Queries
      BY <2>1
    <3>2. {j \in 1..k : IsCounted(Queries[j])} = {j \in 1..k : IsExecuted(Queries[j])}
      BY <2>4, <3>1
    <3>. QED
      BY <3>2 DEF Place, Rank
  <2>6. DOMAIN responses = DOMAIN msearch
    BY LenProperties DEF IInv, Responded, SearchesBuilt
  <2>7. ASSUME NEW x \in Ids
        PROVE  LET q == Queries[IndexOf(x)]
               IN  IF ~ IsId(x) THEN answers[x] = None
                   ELSE IF IsIndependent(q) THEN answers[x] = FromEndpoint
                   ELSE IF IsSuggestionDisabled(q) THEN answers[x] = Empty
                   ELSE IF q.execute = FALSE THEN answers[x] = None
                   ELSE \E k \in DOMAIN msearch : msearch[k].id = x
    <3>. DEFINE k == IndexOf(x)
                q == Queries[k]
    <3>1. CASE ~ IsId(x) \/ IsIndependent(q)
      BY <3>1, <2>3
    <3>2. CASE IsId(x) /\ ~ IsIndependent(q)
      <4>1. k \in DOMAIN Queries /\ q.id = x /\ answers[x] = FiledFor(k)
        BY <3>2, <2>1, <2>3
      <4>2. CASE IsSuggestionDisabled(q) \/ q.execute = FALSE
        <5>1. ~ IsCounted(q)
          BY <4>2 DEF IsCounted, shouldExecuteQuery, IsSuggestionDisabled
        <5>. QED
          BY <3>2, <4>1, <4>2, <5>1 DEF FiledFor
      <4>3. CASE ~ IsSuggestionDisabled(q) /\ q.execute # FALSE
        <5>1. IsExecuted(q)
          BY <3>2, <4>3 DEF IsExecuted, shouldExecuteQuery, IsSuggestionDisabled
        <5>2. Rank(k) \in DOMAIN msearch /\ msearch[Rank(k)].id = x
          BY <2>1, <2>2, <4>1, <5>1 DEF Ranked
        <5>. QED
          BY <3>2, <4>3, <5>2
      <4>. QED
        BY <4>2, <4>3
    <3>. QED
      BY <3>1, <3>2
  <2>8. ASSUME NEW p \in DOMAIN msearch
        PROVE  answers[msearch[p].id] = Filed(Queries[IndexOf(msearch[p].id)], responses[p])
    <3>1. PICK k \in 1..Len(Queries) :
             IsExecuted(Queries[k]) /\ Rank(k) = p /\ msearch[p].id = Queries[k].id
      BY <2>2 DEF Ranked
    <3>2. k \in DOMAIN Queries /\ IndexOf(msearch[p].id) = k /\ IsId(msearch[p].id)
          /\ msearch[p].id \in Ids
      BY <3>1, <2>1 DEF IsQuery
    <3>3. ~ IsIndependent(Queries[k]) /\ IsCounted(Queries[k]) /\ Place(k) = p
      BY <3>1, <3>2, <2>4, <2>5 DEF IsExecuted
    <3>4. answers[msearch[p].id] = FiledFor(k)
      BY <3>2, <3>3, <2>3
    <3>. QED
      BY <3>2, <3>3, <3>4, <2>6 DEF FiledFor
  <2>9. IsInjective(IdsOf(msearch))
    BY <2>2, SearchesApart DEF IsInjective, IdsOf
  <2>. QED
    BY <2>7, <2>8, <2>9
<1>. QED
  BY <1>1, InductiveInvariant, PTL

\* What the validate handler lists is what would be done (ListedMatch).
THEOREM ListsAll == Spec => []ListedMatch
<1>1. IInv => ListedMatch
  <2>. SUFFICES ASSUME IInv, pc = "listed", request.named
                PROVE  /\ IsInjective(IdsOf(listed))
                       /\ \A k \in DOMAIN Queries :
                             LET q == Queries[k]
                                 At(n) == listed[n].id = q.id
                             IN  IF IsIndependent(q)
                                 THEN \E n \in DOMAIN listed : At(n) /\ listed[n].clause = None
                                 ELSE IF q.execute = FALSE \/ IsSuggestionDisabled(q)
                                 THEN \A n \in DOMAIN listed : ~ At(n)
                                 ELSE \E n \in DOMAIN listed : At(n) /\ listed[n] \in Range(msearch)
    BY DEF ListedMatch
  <2>. DEFINE m == Len(msearch)
              c == Len(calls)
  <2>1. /\ DOMAIN Queries = 1..Len(Queries)
        /\ \A j, k \in DOMAIN Queries : Queries[j].id = Queries[k].id => j = k
    BY RequestFacts DEF IInv, Typed
  <2>2. Ranked(Len(Queries))
    BY DEF IInv, SearchesBuilt, Covered
  <2>3. m \in Nat /\ DOMAIN msearch = 1..m /\ c \in Nat /\ DOMAIN calls = 1..c
    BY LenProperties DEF IInv, SearchesBuilt, CallsBuilt
  <2>4. DOMAIN listed = 1..m + c
    BY DEF IInv, Listing
  <2>5. \A i \in 1..m : listed[i] = msearch[i]
    <3>. SUFFICES ASSUME NEW i \in 1..m PROVE listed[i] = msearch[i]
      OBVIOUS
    <3>1. listed[i] = [msearch[i] EXCEPT !.id = msearch[i].id]
      BY DEF IInv, Listing, extractIDFromPreference
    <3>2. msearch[i] = [id |-> msearch[i].id, clause |-> msearch[i].clause,
                        options |-> msearch[i].options]
      BY <2>3 DEF IInv, SearchesBuilt, IsSearch
    <3>. QED
      BY <3>1, <3>2
  <2>6. \A i \in 1..c : listed[m + i].id = calls[i] /\ listed[m + i].clause = None
    <3>1. \A i \in 1..c : listed[m + i] = Independent(calls[i])
      BY DEF IInv, Listing
    <3>2. \A i \in 1..c : Independent(calls[i]).id = calls[i] /\ Independent(calls[i]).clause = None
      BY DEF Independent
    <3>. HIDE DEF m, c
    <3>. QED
      BY <3>1, <3>2
  <2>7. /\ \A i \in 1..c : \E k \in DOMAIN Queries : IsIndependent(Queries[k]) /\ calls[i] = Queries[k].id
        /\ \A i, j \in 1..c : calls[i] = calls[j] => i = j
        /\ \A k \in DOMAIN Queries : IsIndependent(Queries[k]) => \E i \in 1..c : calls[i] = Queries[k].id
    <3>1. CallsCovered = Len(Queries)
      BY DEF CallsCovered
    <3>. QED
      BY <3>1, <2>1, <2>3 DEF IInv, CallsBuilt
  <2>8. /\ \A i \in 1..m : \E k \in DOMAIN Queries : IsExecuted(Queries[k]) /\ msearch[i].id = Queries[k].id
        /\ \A i, j \in 1..m : msearch[i].id = msearch[j].id => i = j
        /\ \A k \in DOMAIN Queries : IsExecuted(Queries[k]) => \E i \in 1..m : msearch[i].id = Queries[k].id
    <3>1. \A i, j \in 1..m : msearch[i].id = msearch[j].id => i = j
      BY <2>2, <2>3, SearchesApart
    <3>. QED
      BY <3>1, <2>1, <2>2, <2>3 DEF Ranked
  <2>. HIDE DEF m, c
  <2>9. \A n \in DOMAIN listed : n \in 1..m \/ \E i \in 1..c : n = m + i
    <3>. SUFFICES ASSUME NEW n \in 1..m + c PROVE n \in 1..m \/ \E i \in 1..c : n = m + i
      BY <2>4
    <3>1. CASE n <= m
      BY <3>1, <2>3
    <3>2. CASE n > m
      <4>1. n - m \in 1..c /\ n = m + (n - m)
        BY <3>2, <2>3
      <4>. QED
        BY <4>1
    <3>. QED
      BY <3>1, <3>2, <2>3
  <2>10. /\ \A i \in 1..m : i \in DOMAIN listed
         /\ \A i \in 1..c : m + i \in DOMAIN listed
    BY <2>3, <2>4
  <2>11. \A i \in 1..m, j \in 1..c : msearch[i].id # calls[j]
    <3>. SUFFICES ASSUME NEW i \in 1..m, NEW j \in 1..c, msearch[i].id = calls[j] PROVE FALSE
      OBVIOUS
    <3>1. PICK k \in DOMAIN Queries : IsExecuted(Queries[k]) /\ msearch[i].id = Queries[k].id
      BY <2>8
    <3>2. PICK l \in DOMAIN Queries : IsIndependent(Queries[l]) /\ calls[j] = Queries[l].id
      BY <2>7
    <3>3. k = l
      BY <3>1, <3>2, <2>1
    <3>. QED
      BY <3>1, <3>2, <3>3 DEF IsExecuted
  <2>12. IsInjective(IdsOf(listed))
    <3>. SUFFICES ASSUME NEW p \in DOMAIN listed, NEW r \in DOMAIN listed, listed[p].id = listed[r].id
                  PROVE  p = r
      BY DEF IsInjective, IdsOf
    <3>1. CASE p \in 1..m /\ r \in 1..m
      BY <3>1, <2>5, <2>8
    <3>2. CASE p \in 1..m /\ r \notin 1..m
      BY <3>2, <2>5, <2>6, <2>9, <2>11
    <3>3. CASE p \notin 1..m /\ r \in 1..m
      BY <3>3, <2>5, <2>6, <2>9, <2>11
    <3>4. CASE p \notin 1..m /\ r \notin 1..m
      BY <3>4, <2>6, <2>7, <2>9
    <3>. QED
      BY <3>1, <3>2, <3>3, <3>4
  <2>13. ASSUME NEW k \in DOMAIN Queries
         PROVE  LET q == Queries[k]
                    At(n) == listed[n].id = q.id
                IN  IF IsIndependent(q)
                    THEN \E n \in DOMAIN listed : At(n) /\ listed[n].clause = None
                    ELSE IF q.execute = FALSE \/ IsSuggestionDisabled(q)
                    THEN \A n \in DOMAIN listed : ~ At(n)
                    ELSE \E n \in DOMAIN listed : At(n) /\ listed[n] \in Range(msearch)
    <3>. DEFINE q == Queries[k]
    <3>1. CASE IsIndependent(q)
      <4>1. PICK i \in 1..c : calls[i] = q.id
        BY <3>1, <2>7
      <4>. QED
        BY <3>1, <4>1, <2>6, <2>10
    <3>2. CASE ~ IsIndependent(q) /\ (q.execute = FALSE \/ IsSuggestionDisabled(q))
      <4>1. ~ IsExecuted(q)
        BY <3>2 DEF IsExecuted, shouldExecuteQuery, IsSuggestionDisabled
      <4>2. \A i \in 1..m : msearch[i].id # q.id
        BY <4>1, <2>1, <2>8
      <4>3. \A i \in 1..c : calls[i] # q.id
        BY <3>2, <2>1, <2>7
      <4>4. \A n \in DOMAIN listed : listed[n].id # q.id
        BY <4>2, <4>3, <2>5, <2>6, <2>9
      <4>. QED
        BY <3>2, <4>4
    <3>3. CASE ~ IsIndependent(q) /\ q.execute # FALSE /\ ~ IsSuggestionDisabled(q)
      <4>1. IsExecuted(q)
        BY <3>3 DEF IsExecuted, shouldExecuteQuery, IsSuggestionDisabled
      <4>2. PICK i \in 1..m : msearch[i].id = q.id
        BY <4>1, <2>8
      <4>3. listed[i].id = q.id /\ listed[i] \in Range(msearch) /\ i \in DOMAIN listed
        BY <4>2, <2>3, <2>5, <2>10 DEF Range
      <4>. QED
        BY <3>3, <4>3
    <3>. QED
      BY <3>1, <3>2, <3>3
  <2>. QED
    BY <2>12, <2>13
<1>. QED
  BY <1>1, InductiveInvariant, PTL

=============================================================================
