--------------------------- MODULE QueryTranslate ---------------------------
(***************************************************************************)
(* Query translation (plugins/querytranslate).                             *)
(*                                                                         *)
(* A request carries several queries.  The middleware translates those to  *)
(* be executed, with the clauses of the queries they react to, into one    *)
(* multi search.  The handler sends it, files the answers, which come      *)
(* without names, under the ids of the queries by their order, adds empty  *)
(* answers for disabled suggestions, and asks the endpoints of the queries *)
(* that have one.  The validate handler lists the searches instead.        *)
(*                                                                         *)
(* What a value, a default query or a custom query asks for is a model     *)
(* value, an atom.  The recursion of evalReactProp over what the client    *)
(* wrote only ever continues with the rest of what it was given, so it is  *)
(* a loop over the parts still to be evaluated (todo).                     *)
(***************************************************************************)
EXTENDS Naturals, FiniteSets, Sequences, Functions

CONSTANTS
    Ids,        \* none of them names an index of the request: Answer would rename it
    Atoms,
    Sorts,      \* stands for the options that react carries: sort, highlight, collapse
    MaxSize,    \* of the permission (ReactiveSearchConfig), or None
    Menu,       \* the requests clients may send
    None,       \* a nil pointer
    Blank       \* a value without content: an empty string, a range without bounds

Flag == BOOLEAN \cup {None}
Options == [size: Nat \cup {None}, sort: Sorts \cup {None}]

\* defaultQuery and customQuery: a map with or without the key "query".  quoted:
\* its size is a string, which Elasticsearch reads as the number in it.
IsQueryMap(m) ==
    \/ m = None
    \/ /\ m.query \in Atoms \cup {None}
       /\ [size |-> m.size, sort |-> m.sort] \in Options
       /\ m.quoted \in BOOLEAN

\* valid: what the first loop of translateQuery checks.  fields: dataField is
\* present.  named: the id may be read back from the preference, which is
\* neither given by the client nor ends with a user id that has an underscore.
\* vector: queryVector and vectorDataField are given, for Elasticsearch or OpenSearch.
IsQuery(q) ==
    /\ q.id \in Ids
    /\ q.type \in {"search", "suggestion", "term", "range", "geo"}
    /\ q.value \in Atoms \cup {None, Blank} /\ q.range \in Atoms \cup {None}
    /\ q.valid \in BOOLEAN /\ q.fields \in BOOLEAN /\ q.endpoint \in BOOLEAN
    /\ [size |-> q.size, sort |-> q.sort] \in Options
    /\ q.vector \in BOOLEAN /\ q.candidates \in Nat \cup {None}
    /\ IsQueryMap(q.default) /\ IsQueryMap(q.custom)
    /\ q.execute \in Flag /\ q.onIndex \in Flag /\ q.onEndpoint \in Flag
    /\ q.react = None \/ q.react.kind = "map"

IdsOf(qs) == [k \in DOMAIN qs |-> qs[k].id]

IsRequest(m) ==
    /\ Len(m.queries) \in Nat /\ DOMAIN m.queries = 1..Len(m.queries)
    /\ \A k \in DOMAIN m.queries : IsQuery(m.queries[k])
    /\ IsInjective(IdsOf(m.queries))
    /\ m.validate \in BOOLEAN /\ m.named \in BOOLEAN

ASSUME QueryAssumption ==
    /\ None \notin Nat \cup Ids \cup Atoms \cup Sorts /\ Blank \notin Atoms
    /\ MaxSize \in Nat \cup {None}
    /\ \A m \in Menu : IsRequest(m)

VARIABLES
    pc,
    request,
    at,         \* the query that a loop over them has come to
    todo,       \* evalReactProp: the parts of its react prop still to be evaluated
    gathered,   \* ... queryArr, the clauses of the list it is in
    reacted,    \* ... what it returns: clauses and options
    msearch,    \* the body sent to _msearch
    calls,      \* the ids of the independent requests still to be made
    responses,  \* Elasticsearch's, one for each search
    answers,    \* rsResponse
    listed      \* what the validate handler lists

react == <<todo, gathered, reacted>>
sent == <<msearch, calls>>
returned == <<responses, answers, listed>>
vars == <<pc, request, at, react, sent, returned>>

Queries == request.queries
IsId(x) == \E k \in DOMAIN Queries : Queries[k].id = x
IndexOf(x) == CHOOSE k \in DOMAIN Queries : Queries[k].id = x
NothingReacted == [clauses |-> <<>>, options |-> [size |-> None, sort |-> None]]

Init ==
    /\ pc = "limit"
    /\ request \in Menu
    /\ at = 1
    /\ todo = <<>> /\ gathered = <<>> /\ reacted = NothingReacted
    /\ msearch = <<>> /\ calls = <<>> /\ responses = <<>> /\ listed = <<>>
    /\ answers = [x \in Ids |-> None]

-----------------------------------------------------------------------------
(* The clause of a query by its own value.                                 *)

Leaf(a) == [op |-> "match", of |-> a]
MatchAll == [op |-> "match_all", of |-> <<>>]
createBoolQuery(op, cs) == [op |-> op, of |-> cs]

Clause(c) == [ok |-> TRUE, clause |-> c]
Failure == [ok |-> FALSE, clause |-> None]

\* A value wants the fields it is to be searched in, even a blank one.
generateSearchQuery(q) ==
    IF q.value = None THEN Clause(None)
    ELSE IF ~ q.fields THEN Failure
    ELSE Clause(IF q.value = Blank THEN None ELSE Leaf(q.value))

generateSuggestionQuery(q) == generateSearchQuery(q)

generateTermQuery(q) ==
    IF q.value \in {None, Blank} THEN Clause(None)
    ELSE IF q.fields THEN Clause(Leaf(q.value)) ELSE Failure

getRangeQuery(q, value) ==
    IF value = Blank THEN Clause(None)
    ELSE IF q.fields THEN Clause(Leaf(value)) ELSE Failure

generateRangeQuery(q) ==
    IF q.value = None THEN Clause(None) ELSE getRangeQuery(q, q.value)

\* A blank value lacks its distance, unit and location.
generateGeoQuery(q) ==
    IF q.value = None THEN Clause(None)
    ELSE IF q.value # Blank /\ q.fields THEN Clause(Leaf(q.value)) ELSE Failure

generateQueryByType(q) ==
    CASE q.type = "term" -> generateTermQuery(q)
      [] q.type = "range" -> generateRangeQuery(q)
      [] q.type = "geo" -> generateGeoQuery(q)
      [] q.type = "suggestion" -> generateSuggestionQuery(q)
      [] q.type = "search" -> generateSearchQuery(q)

-----------------------------------------------------------------------------
(* Options.                                                                *)

NoOptions == [size |-> None, sort |-> None]

mergeMaps(x, y) == [size |-> IF y.size = None THEN x.size ELSE y.size,
                    sort |-> IF y.sort = None THEN x.sort ELSE y.sort]

\* Seeded fault: "size" is missing from EXCEPTION_KEYS_IN_QUERY.
getAllOptions(o) == o

getFilteredOptions(o) == [o EXCEPT !.size = None]

OptionsOf(m) == IF m = None THEN NoOptions ELSE [size |-> m.size, sort |-> m.sort]

buildQueryOptions(q) ==
    [size |-> IF q.size = None /\ q.type \in {"term", "range"} THEN 0 ELSE q.size,
     sort |-> IF q.type = "search" THEN q.sort ELSE None]

\* sortBy without sortField sorts by the first data field.
CanBuildOptions(q) == q.type = "search" /\ q.sort # None => q.fields

-----------------------------------------------------------------------------
(* The query of position at, with what it reacts to.                       *)

shouldExecuteQuery(q) ==
    /\ q.type = "suggestion" /\ ~ q.endpoint => q.onIndex # FALSE
    /\ q.type = "suggestion" => q.onEndpoint # FALSE
    /\ q.execute # FALSE

\* Whether the query has an independent request, which sets execute to false
\* on translateQuery's copy of the query.
IsIndependent(q) == q.endpoint /\ q.onEndpoint # FALSE

\* Seeded fault: execute is not set to false.
IsExecutedAsWell(q) == shouldExecuteQuery(q)

IsExecuted(q) == shouldExecuteQuery(q) /\ ~ IsIndependent(q)

\* A react prop is a map of "and", "or" and "not", which are None, maps, ids,
\* or lists of ids and maps; a part of it has the conjunction it stands under.
Part(conjunction, prop) ==
    [op |-> conjunction,
     of |-> IF prop.kind = "id" THEN [kind |-> "list", of |-> <<prop>>] ELSE prop]

\* translateQuery: the next query, whose clause getQuery begins to build.
NextQuery ==
    LET q == Queries[at]
    IN  /\ pc = "query" /\ at <= Len(Queries)
        /\ IF IsExecuted(q)
           THEN /\ pc' = "react"
                /\ todo' = IF q.react = None THEN <<>> ELSE <<Part("", q.react)>>
                /\ reacted' = NothingReacted
                /\ UNCHANGED at
           ELSE /\ at' = at + 1
                /\ UNCHANGED <<pc, todo, reacted>>
        /\ UNCHANGED <<request, gathered, sent, returned>>

Evaluating(kind) == pc = "react" /\ todo # <<>> /\ Head(todo).of.kind = kind

\* Its parts, in this order, before what is left.
EvalMap ==
    LET map == Head(todo).of
        parts == SelectSeq(<<"and", "or", "not">>, LAMBDA c : map[c] # None)
    IN  /\ Evaluating("map")
        /\ todo' = [k \in DOMAIN parts |-> Part(parts[k], map[parts[k]])] \o Tail(todo)
        /\ UNCHANGED <<pc, request, at, gathered, reacted, sent, returned>>

AtItem(item) ==
    LET items == Head(todo).of.of
    IN  Evaluating("list") /\ items # <<>> /\ item = Head(items)

Advance == todo' = [todo EXCEPT ![1].of.of = Tail(@)]

\* applyCustomQuery.
applyCustomQuery(q) ==
    IF q.custom # None /\ q.custom.query # None THEN Clause(Leaf(q.custom.query))
                                                ELSE generateQueryByType(q)

\* An id in the list: what this query says joins the list's clauses, and some
\* of its options those of the reaction.
EvalId(k) ==
    LET q == Queries[k]
        own == applyCustomQuery(q)
        options == mergeMaps(getFilteredOptions(buildQueryOptions(q)),
                             getFilteredOptions(OptionsOf(q.custom)))
    IN  /\ AtItem([kind |-> "id", id |-> q.id])
        /\ IF own.ok /\ CanBuildOptions(q)
           THEN /\ Advance
                /\ reacted' = [reacted EXCEPT
                                  !.options = getFilteredOptions(mergeMaps(@, options))]
                /\ gathered' = IF own.clause = None THEN gathered
                                                    ELSE Append(gathered, own.clause)
                /\ UNCHANGED pc
           ELSE /\ pc' = "rejected"
                /\ UNCHANGED react
        /\ UNCHANGED <<request, at, sent, returned>>

\* "ignore if query is not present for a component id"
EvalUnknown ==
    LET item == Head(Head(todo).of.of)
    IN  /\ AtItem(item) /\ item.kind = "id" /\ ~ IsId(item.id)
        /\ Advance
        /\ UNCHANGED <<pc, request, at, gathered, reacted, sent, returned>>

\* At the first map of a list the function returns what that map yields: the
\* clauses of the items before it are dropped, and those behind it not read.
EvalNested ==
    LET item == Head(Head(todo).of.of)
    IN  /\ AtItem(item) /\ item.kind # "id"
        /\ todo' = <<Part("", item)>> \o Tail(todo)
        /\ gathered' = <<>>
        /\ UNCHANGED <<pc, request, at, reacted, sent, returned>>

\* Seeded fault: "not" is treated as "and".
getOperationPositive(conjunction) == IF conjunction = "or" THEN "should" ELSE "must"

getOperation(conjunction) ==
    CASE conjunction = "and" -> "must"
      [] conjunction = "or" -> "should"
      [] OTHER -> "must_not"

EvalEnd ==
    LET bool == createBoolQuery(getOperation(Head(todo).op), gathered)
    IN  /\ Evaluating("list") /\ Head(todo).of.of = <<>>
        /\ todo' = Tail(todo)
        /\ reacted' = [reacted EXCEPT
                          !.clauses = IF gathered = <<>> THEN @ ELSE Append(@, bool)]
        /\ gathered' = <<>>
        /\ UNCHANGED <<pc, request, at, sent, returned>>

\* getQuery: with react, a default query takes the place of the value even if
\* it has no key "query".
getQuery(q) ==
    LET value == generateQueryByType(q)
        own == IF q.default # None
               THEN Clause(IF q.default.query = None THEN None ELSE Leaf(q.default.query))
               ELSE IF q.type \in {"search", "suggestion"} THEN value ELSE Clause(None)
        with == IF own.clause = None THEN <<>> ELSE <<own.clause>>
        bool == createBoolQuery("must", reacted.clauses \o with)
        Result(c, byValue) == [ok |-> c.ok, clause |-> c.clause, byValue |-> byValue]
    IN  IF reacted.clauses # <<>> THEN Result([ok |-> own.ok, clause |-> bool], FALSE)
        ELSE IF q.default # None /\ q.default.query # None
        THEN Result(Clause(Leaf(q.default.query)), FALSE)
        ELSE Result(value, TRUE)

\* The clause a query is sent with.
TranslatedQuery(q) ==
    LET c == getQuery(q)
    IN  IF c.clause = None \/ (c.byValue /\ q.type \in {"term", "range"})
        THEN IF q.type = "range" /\ q.range # None THEN getRangeQuery(q, q.range)
             ELSE IF q.type = "term" \/ c.clause = None THEN Clause(MatchAll)
             ELSE Clause(c.clause)
        ELSE Clause(c.clause)

\* What shouldApplyKnn adds: the same documents, in the order of their vectors
\* unless there is a sort, and as many as this whatever was merged before.
knnSize(q) ==
    LET candidates == IF q.candidates = None THEN 10 ELSE q.candidates
        size == IF q.size = None THEN 10 ELSE q.size
    IN  IF candidates > size THEN size ELSE candidates

FinalOptions(q) ==
    LET given == mergeMaps(mergeMaps(reacted.options, buildQueryOptions(q)), OptionsOf(q.default))
    IN  IF q.vector THEN [given EXCEPT !.size = knnSize(q)] ELSE given

\* Seeded fault: no id for a search whose preference the client gives.
SearchUnnamed(q) ==
    [id |-> IF request.named THEN q.id ELSE None,
     clause |-> TranslatedQuery(q).clause, options |-> FinalOptions(q)]

\* One search of the multi search.  Its id is not sent, but begins its preference
\* unless the client gives one.
Search(q) ==
    [id |-> q.id, clause |-> TranslatedQuery(q).clause, options |-> FinalOptions(q)]

CanTranslate(q) == getQuery(q).ok /\ CanBuildOptions(q) /\ TranslatedQuery(q).ok

\* translateQuery: the search is added to the body.
AddSearch ==
    LET q == Queries[at]
    IN  /\ pc = "react" /\ todo = <<>>
        /\ IF CanTranslate(q)
           THEN /\ msearch' = Append(msearch, Search(q))
                /\ at' = at + 1
                /\ pc' = "query"
           ELSE /\ pc' = "rejected"
                /\ UNCHANGED <<msearch, at>>
        /\ UNCHANGED <<request, react, calls, returned>>

-----------------------------------------------------------------------------
(* The middleware.                                                         *)

\* A default query's size is compared if it is a number.
ExceedsLimit(q) ==
    /\ MaxSize # None
    /\ \/ /\ q.default # None /\ q.default.size # None /\ ~ q.default.quoted
          /\ q.default.size > MaxSize
       \/ q.size # None /\ q.size > MaxSize

\* queryTranslate: validate request by permission.
Limit ==
    /\ pc = "limit"
    /\ pc' = IF \E k \in DOMAIN Queries : ExceedsLimit(Queries[k]) THEN "rejected" ELSE "translate"
    /\ UNCHANGED <<request, at, react, sent, returned>>

\* translateQuery: its first loop.
Check ==
    /\ pc = "translate"
    /\ pc' = IF \A k \in DOMAIN Queries : Queries[k].valid THEN "query" ELSE "rejected"
    /\ UNCHANGED <<request, at, react, sent, returned>>

\* All queries are translated: the independent requests are built in turn.
Translated ==
    /\ pc = "query" /\ at > Len(Queries)
    /\ pc' = "independent"
    /\ at' = 1
    /\ UNCHANGED <<request, react, sent, returned>>

\* buildIndependentRequests.
BuildIndependent ==
    LET q == Queries[at]
    IN  /\ pc = "independent" /\ at <= Len(Queries)
        /\ calls' = IF IsIndependent(q) THEN Append(calls, q.id) ELSE calls
        /\ at' = at + 1
        /\ UNCHANGED <<pc, request, react, msearch, returned>>

Built ==
    /\ pc = "independent" /\ at > Len(Queries)
    /\ pc' = IF request.validate THEN "validate" ELSE "search"
    /\ UNCHANGED <<request, at, react, sent, returned>>

-----------------------------------------------------------------------------
(* The handlers.                                                           *)

\* extractIDFromPreference.
extractIDFromPreference(s) == IF request.named THEN s.id ELSE None

\* A request to an endpoint has no clause.
Independent(x) == [id |-> x, clause |-> None, options |-> NoOptions]

Validate ==
    /\ pc = "validate"
    /\ listed' = [k \in DOMAIN msearch |->
                     [msearch[k] EXCEPT !.id = extractIDFromPreference(msearch[k])]]
                 \o [k \in DOMAIN calls |-> Independent(calls[k])]
    /\ pc' = "listed"
    /\ UNCHANGED <<request, at, react, sent, responses, answers>>

\* Elasticsearch (external): the documents a clause finds, in some order.
Hits(clause, sort) == [kind |-> "hits", clause |-> clause, sort |-> sort]
Found(s) == Hits(s.clause, s.options.sort)
Empty == Hits(None, None)
Refused == [kind |-> "refused", clause |-> None, sort |-> None]
FromEndpoint == [kind |-> "endpoint", clause |-> None, sort |-> None]

\* makeESRequest, unless the body is empty.  Any of the searches may be refused.
SendSearch ==
    /\ pc = "search"
    /\ \/ /\ \E bad \in SUBSET DOMAIN msearch :
                responses' = [k \in DOMAIN msearch |-> IF k \in bad THEN Refused ELSE Found(msearch[k])]
          /\ pc' = "file"
       \/ /\ msearch # <<>>
          /\ pc' = "failed"
          /\ UNCHANGED responses
    /\ UNCHANGED <<request, at, react, sent, answers, listed>>

\* Seeded fault: queries that are not executed count as well.
IsCountedAlways(q) == ~ q.endpoint

\* Whether GetQueryIds lists the query, and at which position that of index k.
IsCounted(q) == shouldExecuteQuery(q) /\ ~ q.endpoint
Place(k) == Cardinality({j \in 1..k : IsCounted(Queries[j])})

IsSuggestionDisabled(q) ==
    /\ q.type = "suggestion"
    /\ (q.onIndex = FALSE /\ ~ q.endpoint) \/ q.onEndpoint = FALSE

\* The hits of a suggestion query become suggestions, and there are none for a
\* query without a value; a refusal stays one.
Filed(q, response) ==
    IF q.type = "suggestion" /\ q.value = None /\ response # Refused
    THEN [response EXCEPT !.clause = None] ELSE response

\* TransformESResponse: what is filed under the id of the query of index k.
FiledFor(k) ==
    LET q == Queries[k]
    IN  IF IsCounted(q) /\ Place(k) \in DOMAIN responses THEN Filed(q, responses[Place(k)])
        ELSE IF IsSuggestionDisabled(q) THEN Empty ELSE None

TransformESResponse ==
    /\ pc = "file"
    /\ answers' = [x \in Ids |-> IF IsId(x) THEN FiledFor(IndexOf(x)) ELSE None]
    /\ pc' = "endpoints"
    /\ UNCHANGED <<request, at, react, sent, responses, listed>>

\* ExecuteIndependentQuery: one after another, and the first that fails, or
\* answers with anything but an object, fails the request.
CallEndpoint ==
    /\ pc = "endpoints"
    /\ calls # <<>>
    /\ \/ /\ answers' = [answers EXCEPT ![Head(calls)] = FromEndpoint]
          /\ calls' = Tail(calls)
          /\ UNCHANGED pc
       \/ /\ pc' = "failed"
          /\ UNCHANGED <<answers, calls>>
    /\ UNCHANGED <<request, at, react, msearch, responses, listed>>

Answer ==
    /\ pc = "endpoints"
    /\ calls = <<>>
    /\ pc' = "answered"
    /\ UNCHANGED <<request, at, react, sent, returned>>

Next ==
    \/ Limit \/ Check
    \/ NextQuery \/ EvalMap \/ EvalUnknown \/ EvalNested \/ EvalEnd \/ AddSearch
    \/ \E k \in DOMAIN Queries : EvalId(k)
    \/ Translated \/ BuildIndependent \/ Built
    \/ Validate
    \/ SendSearch \/ TransformESResponse \/ CallEndpoint \/ Answer

Spec == Init /\ [][Next]_vars

-----------------------------------------------------------------------------
(* Properties.                                                             *)

\* Types of the request's pipeline (handlers.go, middleware.go).
TypeOK ==
    /\ pc \in {"limit", "translate", "query", "react", "independent", "validate", "search",
               "file", "endpoints", "answered", "listed", "rejected", "failed"}
    /\ at \in 1..Len(Queries) + 1
    /\ reacted.options \in Options
    /\ \A k \in DOMAIN msearch : msearch[k].id \in Ids /\ msearch[k].options \in Options
    /\ \A k \in DOMAIN calls : calls[k] \in Ids
    /\ Len(responses) \in {0, Len(msearch)}
    /\ \A k \in DOMAIN responses : responses[k] = Refused \/ responses[k].kind = "hits"
    /\ answers \in [Ids -> {None, Empty, FromEndpoint}
                            \cup {Filed(Queries[k], responses[n]) :
                                     k \in DOMAIN Queries, n \in DOMAIN responses}]
    /\ \A k \in DOMAIN listed : listed[k].id \in Ids \cup {None}

\* "Set `responses` by query ID" (handlers.go): in an answered request the
\* result under every id is that of this very query, of the one search that was
\* made for it, or its endpoint's, or an empty one; and no refusal of
\* Elasticsearch is lost.  Requests with a query that is executed although it
\* has an endpoint are not answered so.
AnswersMatch ==
    pc = "answered" /\ (\A k \in DOMAIN Queries : ~ (Queries[k].endpoint /\ IsExecuted(Queries[k]))) =>
        /\ \A x \in Ids :
              LET q == Queries[IndexOf(x)]
              IN  IF ~ IsId(x) THEN answers[x] = None
                  ELSE IF IsIndependent(q) THEN answers[x] = FromEndpoint
                  ELSE IF IsSuggestionDisabled(q) THEN answers[x] = Empty
                  ELSE IF q.execute = FALSE THEN answers[x] = None
                  ELSE \E k \in DOMAIN msearch : msearch[k].id = x
        /\ \A k \in DOMAIN msearch :
              LET x == msearch[k].id
              IN  answers[x] = Filed(Queries[IndexOf(x)], responses[k])
        /\ IsInjective(IdsOf(msearch))

WithinLimit(s) == MaxSize # None /\ s.options.size # None => s.options.size <= MaxSize

\* Whether the size the search of a query is sent with is one the middleware can
\* see: a kNN query's own, otherwise any but a string of its default query.
IsSizeSeen(q) ==
    IF q.vector THEN q.size # None
    ELSE q.default # None /\ q.default.size # None => ~ q.default.quoted

\* "maximum allowed size is" (middleware.go): no search is sent with a size
\* above the permission's, be it the query's own, that of its default query, or
\* one of a query it reacts to, as far as the middleware can see the size.
SizesWithinLimit ==
    \A k \in DOMAIN msearch :
        IsSizeSeen(Queries[IndexOf(msearch[k].id)]) => WithinLimit(msearch[k])

\* "maximum allowed size is" (middleware.go): no search at all is sent with a
\* size above the permission's.
EverySizeWithinLimit == \A k \in DOMAIN msearch : WithinLimit(msearch[k])

\* The validate handler lists every query that is executed or asks its endpoint
\* once, under its id, and those executed with the search that is sent for them.
ListedMatch ==
    pc = "listed" /\ request.named =>
        /\ IsInjective(IdsOf(listed))
        /\ \A k \in DOMAIN Queries :
              LET q == Queries[k]
                  At(n) == listed[n].id = q.id
              IN  IF IsIndependent(q) THEN \E n \in DOMAIN listed : At(n) /\ listed[n].clause = None
                  ELSE IF q.execute = FALSE \/ IsSuggestionDisabled(q)
                  THEN \A n \in DOMAIN listed : ~ At(n)
                  ELSE \E n \in DOMAIN listed : At(n) /\ listed[n] \in Range(msearch)
=============================================================================
