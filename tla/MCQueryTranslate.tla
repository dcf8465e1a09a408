-------------------------- MODULE MCQueryTranslate --------------------------
(* Requests of three queries: a reacts to b and c.                         *)
EXTENDS QueryMeaning

CONSTANTS v1, v2, v3, v4, v5, up, down

Q(id, type, value) ==
    [id |-> id, type |-> type, value |-> value, range |-> None, valid |-> TRUE, fields |-> TRUE,
     size |-> None, sort |-> None, default |-> None, custom |-> None, execute |-> None,
     endpoint |-> FALSE, onEndpoint |-> None, onIndex |-> None, react |-> None,
     vector |-> FALSE, candidates |-> None]

Map(query, size, sort) == [query |-> query, size |-> size, sort |-> sort, quoted |-> FALSE]

B == [kind |-> "id", id |-> "b"]
C == [kind |-> "id", id |-> "c"]
Nobody == [kind |-> "id", id |-> "nobody"]
List(s) == [kind |-> "list", of |-> s]
React(and, or, not) == [kind |-> "map", and |-> and, or |-> or, not |-> not]

FlatReacts ==
    {React(B, None, None), React(List(<<B, C>>), None, None), React(None, List(<<B, C>>), None),
     React(None, None, List(<<B, C>>)), React(B, C, None), React(List(<<C, Nobody>>), None, B),
     React(None, List(<<B>>), C)}
NestedReacts ==
    {React(React(None, List(<<B, C>>), None), None, None),
     React(List(<<React(B, None, C)>>), None, None),
     React(None, React(List(<<B, C>>), None, None), None),
     React(List(<<B, React(C, None, None)>>), None, None)}

Request(qs, validate, named) == [queries |-> qs, validate |-> validate, named |-> named]

\* What a is, and what it reacts to.
As ==
    {[Q("a", t, w) EXCEPT !.react = r, !.default = m] :
        t \in {"search", "suggestion", "term", "range", "geo"}, w \in {None, v1},
        r \in {None} \cup FlatReacts \cup NestedReacts,
        m \in {None, Map(v5, None, down), Map(None, 1, None)}}
Bs ==
    {Q("b", "term", v2), Q("b", "term", Blank),
     [Q("b", "search", v2) EXCEPT !.custom = Map(v3, 3, None), !.sort = up]}

MenuReact == {Request(<<a, b, Q("c", "range", v4)>>, w, TRUE) : a \in As, b \in Bs, w \in BOOLEAN}

\* Which queries are executed, and by whom.
Flagged(id, value) ==
    {[Q(id, t, value) EXCEPT !.execute = e, !.endpoint = p, !.onIndex = i, !.onEndpoint = o] :
        t \in {"search", "suggestion"}, e \in {None, FALSE}, p \in BOOLEAN,
        i \in {None, FALSE}, o \in {None, FALSE}}

MenuFlags == {Request(<<a, b, Q("c", "range", v4)>>, w, w) :
                 a \in Flagged("a", v1), b \in Flagged("b", v2), w \in BOOLEAN}

\* Errors, sizes and values that are not there.
Odd ==
    {[Q("a", t, w) EXCEPT !.fields = f, !.size = s, !.sort = up, !.range = g] :
        t \in {"search", "suggestion", "term", "range", "geo"}, w \in {None, Blank, v1},
        f \in BOOLEAN, s \in {None, 1, 3}, g \in {None, v3}}
MenuOdd ==
    {Request(<<Q("b", "term", v2), a, Q("c", "suggestion", None)>>, w, FALSE) :
        a \in Odd, w \in BOOLEAN} \cup
    {Request(<<[Q("a", "search", v1) EXCEPT !.react = React(B, None, None)],
               [Q("b", "search", v2) EXCEPT !.fields = FALSE]>>, FALSE, TRUE),
     Request(<<[Q("a", "search", v1) EXCEPT !.valid = FALSE]>>, FALSE, TRUE),
     Request(<<>>, FALSE, TRUE)}

\* Sizes in every place, a quoted one and kNN ones among them; a reacts to b.
Sized ==
    {[Q("a", "search", v1) EXCEPT !.size = s, !.default = m, !.vector = w, !.candidates = c,
                                  !.react = React(B, None, None)] :
        s \in {None, 1, 3}, w \in BOOLEAN, c \in {None, 1, 3},
        m \in {None, Map(None, 2, None), Map(v5, 3, None),
               [Map(None, 3, None) EXCEPT !.quoted = TRUE]}}
MenuSizes == {Request(<<a, [Q("b", "search", v2) EXCEPT !.custom = Map(v3, 3, None)]>>, w, TRUE) :
                 a \in Sized, w \in BOOLEAN}

\* Those with a quoted size, and those that leave the size of a kNN query open.
MenuQuoted == {m \in MenuSizes : /\ ~ m.queries[1].vector
                                /\ m.queries[1].default # None /\ m.queries[1].default.quoted}
MenuKnn == {m \in MenuSizes : m.queries[1].vector /\ m.queries[1].size = None}

MenuAll == MenuReact \cup MenuFlags \cup MenuOdd \cup MenuSizes
=============================================================================
