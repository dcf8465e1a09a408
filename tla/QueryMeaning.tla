---------------------------- MODULE QueryMeaning ----------------------------
(***************************************************************************)
(* What the queries of a request ask for, told without clauses, and        *)
(* compared with what Elasticsearch makes of the clauses that              *)
(* QueryTranslate builds.  A document is the set of the atoms that match   *)
(* it.                                                                     *)
(***************************************************************************)
EXTENDS QueryTranslate, SequencesExt

\* Elasticsearch (external): the documents that a clause matches.
RECURSIVE Matches(_, _)
Matches(c, d) ==
    CASE c.op = "match" -> c.of \in d
      [] c.op = "match_all" -> TRUE
      [] c.op = "must" -> \A k \in DOMAIN c.of : Matches(c.of[k], d)
      [] c.op = "should" -> \E k \in DOMAIN c.of : Matches(c.of[k], d)
      [] c.op = "must_not" -> ~ \E k \in DOMAIN c.of : Matches(c.of[k], d)

Query(x) == Queries[IndexOf(x)]

Filled(v) == v \notin {None, Blank}

\* What a query says to those that react to it.
Says(q) ==
    IF q.custom # None /\ q.custom.query # None THEN q.custom.query ELSE q.value

\* Whether anything the prop names has something to say.
RECURSIVE Speaks(_)
Speaks(prop) ==
    IF prop = None THEN FALSE
    ELSE CASE prop.kind = "id" -> IsId(prop.id) /\ Filled(Says(Query(prop.id)))
           [] prop.kind = "list" -> \E k \in DOMAIN prop.of : Speaks(prop.of[k])
           [] prop.kind = "map" -> \E c \in {"and", "or", "not"} : Speaks(prop[c])

\* Whether a document meets the prop: everything under "and" that has
\* something to say, something under "or", and nothing under "not".
RECURSIVE Meets(_, _)
Meets(d, prop) ==
    LET Items(c) == IF prop[c].kind = "list" THEN ToSet(prop[c].of) ELSE {prop[c]}
        Telling(c) == IF prop[c] = None THEN {} ELSE {x \in Items(c) : Speaks(x)}
    IN  IF prop.kind = "id" THEN Says(Query(prop.id)) \in d
        ELSE /\ \A x \in Telling("and") : Meets(d, x)
             /\ Telling("or") # {} => \E x \in Telling("or") : Meets(d, x)
             /\ \A x \in Telling("not") : ~ Meets(d, x)

\* The query's own part: its default query, else its value.  The value of a
\* term query is for others, and those of range and geo queries count only if
\* there is nothing else; the range of a range query goes before its value.
Own(d, q, alone) ==
    LET value == IF q.type = "term" THEN None
                 ELSE IF q.type = "range" /\ q.range # None THEN q.range
                 ELSE q.value
    IN  IF q.default # None /\ q.default.query # None THEN q.default.query \in d
        ELSE Filled(value) /\ (alone \/ q.type \in {"search", "suggestion"}) => value \in d

\* The sort a query is sent with if it says so itself.
OwnSort(q) ==
    IF q.default # None /\ q.default.sort # None THEN q.default.sort
    ELSE IF q.type = "search" THEN q.sort ELSE None

\* No maps below "or" and "not", nor in a list with other items.
RECURSIVE IsFlat(_, _)
IsFlat(prop, c) ==
    IF prop = None \/ prop.kind = "id" THEN TRUE
    ELSE IF prop.kind = "map"
    THEN c = "and" /\ \A x \in {"and", "or", "not"} : IsFlat(prop[x], x)
    ELSE \A k \in DOMAIN prop.of :
            prop.of[k].kind = "map" => Len(prop.of) = 1 /\ IsFlat(prop.of[k], c)

\* Queries this code does not send as told here: nested reacts other than maps
\* below "and", and a default query without "query" beside react.
IsPlain(q) ==
    /\ IsFlat(q.react, "and")
    /\ ~ (/\ q.default # None /\ q.default.query = None
          /\ q.type \in {"search", "suggestion"} /\ Filled(q.value)
          /\ Speaks(q.react))

\* "Evaluate the react prop and adds the dependencies in query" (util.go): a
\* search finds exactly the documents that meet its query's own part and what it
\* reacts to, in the order the query asks for if it asks for one.
SearchesMean ==
    pc \in {"search", "validate"} =>
        \A k \in DOMAIN msearch :
            LET q == Query(msearch[k].id)
            IN  IsPlain(q) =>
                  /\ \A d \in SUBSET Atoms :
                        Matches(msearch[k].clause, d)
                           <=> /\ Own(d, q, ~ Speaks(q.react))
                               /\ q.react # None => Meets(d, q.react)
                  /\ OwnSort(q) # None => msearch[k].options.sort = OwnSort(q)
=============================================================================
