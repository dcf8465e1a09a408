------------------------------ MODULE MCAccess ------------------------------
(* Instances of Access: an administrator, a user with few actions, and a   *)
(* permission with a role that expires.                                    *)
EXTENDS Access

Absent == [k \in Kinds |-> [n \in Names |-> None]]

Admin ==
    [kind |-> "user", name |-> "root", role |-> "", admin |-> TRUE, actions |-> Actions,
     categories |-> GetCategories(Actions), acls |-> ACLsFor(GetCategories(Actions)),
     ops |-> {}, indices |-> Places, sources |-> IPs, referers |-> {}, ttl |-> -1, born |-> 0]

Keeper ==
    [Admin EXCEPT !.name = "keeper", !.admin = FALSE, !.actions = {"accessControl"},
        !.categories = {"auth", "permission"}, !.acls = {}, !.indices = {}]

Reader ==
    [kind |-> "permission", name |-> "reader", role |-> "guest", admin |-> FALSE, actions |-> {},
     categories |-> DefaultCategories, acls |-> ACLsFor(DefaultCategories), ops |-> {"read"},
     indices |-> {"logs", "logs_1"}, sources |-> IPs, referers |-> {"shop"}, ttl |-> 1, born |-> 0]

MCInitial == [Absent EXCEPT !["user"]["root"] = Admin, !["user"]["keeper"] = Keeper,
                            !["permission"]["reader"] = Reader]

MCKey == [key |-> "k1", roleKey |-> "role"]
MCAliasOf == [p \in Places |-> IF p = "logs_1" THEN "logs" ELSE None]

-----------------------------------------------------------------------------
Basic(n) == [name |-> n, key |-> None, claims |-> [c \in RoleKeys |-> None]]
Token(k, c, role) == [name |-> None, key |-> k, claims |-> [x \in RoleKeys |-> IF x = c THEN role ELSE None]]

Ask(c, m, p) ==
    [name |-> c.name, key |-> c.key, claims |-> c.claims, method |-> m, path |-> p,
     uri |-> CASE p = "/" -> "/" [] p = "/_user" -> "_user" [] OTHER -> "",
     tag |-> "docs", acl |-> "get", methods |-> <<"GET">>, streams |-> FALSE,
     indices |-> <<>>, ip |-> "home", site |-> "shop", local |-> FALSE,
     target |-> None, body |-> Blank]

To(a, n) == [a EXCEPT !.target = n]
With(a, b) == [a EXCEPT !.body = b]

Search(c) == [Ask(c, "POST", "/{index}/_search") EXCEPT
                 !.tag = "search", !.acl = "search", !.methods = <<"POST", "GET">>, !.indices = <<"logs">>]

\* Requests to Elasticsearch: by index and alias, to the cluster, by token.
Searches ==
    {[Search(Basic("reader")) EXCEPT !.indices = <<"logs_1">>],
     Search(Token("k1", "role", "guest")), Search(Token("k2", "claim", "staff")),
     [Search(Basic("root")) EXCEPT !.indices = <<"*">>, !.streams = TRUE],
     [Search(Basic("keeper")) EXCEPT !.tag = "tasks", !.acl = "nodes", !.indices = <<>>],
     [Search(Basic("r1")) EXCEPT !.methods = <<"POST">>],
     Search(Token("k1", "role", "")),
     Ask(Basic("keeper"), "HEAD", "/"), [Ask(Basic("keeper"), "GET", "/") EXCEPT !.uri = ""]}

Grants ==
    {With(Ask(Basic("root"), "POST", "/_permission"), [Blank EXCEPT !.role = "staff", !.ttl = 1]),
     To(With(Ask(Basic("keeper"), "POST", "/_role/{name}"),
             [Blank EXCEPT !.acls = {"get", "cat"}, !.categories = {"misc", "cat"}]), "staff"),
     To(With(Ask(Basic("keeper"), "PATCH", "/_permission/{username}"),
             [Blank EXCEPT !.role = "staff", !.sources = {}]), "reader"),
     To(With(Ask(Basic("root"), "PATCH", "/_role/{name}"),
             [Blank EXCEPT !.categories = {"search", "suggestions"}, !.indices = {}]), "guest"),
     To(Ask(Basic("keeper"), "DELETE", "/_role/{name}"), "guest"),
     Ask(Basic("keeper"), "GET", "/_permissions"),
     [To(Ask(Basic("new"), "GET", "/_permission/{username}"), "reader") EXCEPT !.uri = "_user"]}

Staff ==
    {With(Ask(Basic("root"), "POST", "/_user"),
          [Blank EXCEPT !.name = "keeper", !.actions = {"develop"}, !.acls = {"get"}]),
     To(With(Ask(Basic("root"), "PATCH", "/_user/{username}"),
             [Blank EXCEPT !.name = "new", !.admin = TRUE, !.actions = {"userManagement"}]), "keeper"),
     Ask(Basic("root"), "DELETE", "/_user")}

SetKey(c, k, rk) == With(Ask(c, "PUT", "/_public_key"), [Blank EXCEPT !.key = k, !.roleKey = rk])
KeySetters == {SetKey(Basic("root"), "k2", "claim"),
               [SetKey(Basic("keeper"), "k1", "") EXCEPT !.local = TRUE]}

MenuAll == Searches \cup Grants \cup Staff \cup KeySetters
=============================================================================
