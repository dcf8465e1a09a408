------------------------------- MODULE Access -------------------------------
(***************************************************************************)
(* Who may do what: users, permissions and the public key of JWTs          *)
(* (model/user, model/permission, model/category, middleware/validate, and *)
(* the middlewares and handlers of plugins/auth, users, permissions and    *)
(* elasticsearch).                                                         *)
(*                                                                         *)
(* A request is authenticated, classified and compared with its credential *)
(* by one middleware after the other, and the handlers of the users' and   *)
(* permissions' routes change the documents that other requests are        *)
(* compared with meanwhile.  A credential is found by the term search, or  *)
(* in the cache, which holds some version that was stored (CachedWereStored*)
(* of CredentialCache, which also has the passwords: here they match).     *)
(* Index names, addresses and referers are members of sets instead of      *)
(* patterns: a document has the ones its patterns match.                   *)
(***************************************************************************)
EXTENDS Integers, Sequences, FiniteSets

CONSTANTS
    Requests,       \* a request r that creates a permission gives it the name r
    Menu,           \* the requests clients may send
    Names,          \* users' and permissions' usernames
    Roles,
    PlainRoles,     \* those that are one lower case word (see RoleIs)
    RoleKeys,       \* names of claims
    Keys,           \* public keys
    Places,         \* indices; "*" stands for the cluster
    AliasOf,        \* classify.IndexAliasCache
    IPs, Sites,
    Initial,        \* the documents at the start
    InitialKey,     \* the public key record at the start
    Start, MaxTime, \* first and last value of the clock
    None

ES == {"docs", "search", "indices", "cat", "clusters", "misc"}
Categories == ES \cup {"user", "permission", "auth", "streams", "suggestions", "reactivesearch"}
Ops == {"read", "write", "delete"}
Kinds == {"user", "permission"}
SuggestionsIndex == ".suggestions"

\* Each category with an acl of its own and those it shares.
ACLs(c) ==
    CASE c = "docs" -> {"bulk", "get"}
      [] c = "search" -> {"search"}
      [] c = "indices" -> {"settings"}
      [] c = "cat" -> {"cat"}
      [] c = "clusters" -> {"nodes", "cat"}
      [] c = "misc" -> {"scripts", "get"}
      [] OTHER -> {}

ACLsFor(cs) == UNION {ACLs(c) : c \in cs}
Acls == ACLsFor(Categories)

\* Actions of users, and their categories.
ActionToCategories ==
    [develop |-> ES \cup {"streams"},
     searchRelevancy |-> ES \cup {"streams", "suggestions", "reactivesearch"},
     accessControl |-> {"auth", "permission"},
     userManagement |-> {"user"},
     billing |-> {}]
Actions == DOMAIN ActionToCategories
GetCategories(actions) == UNION {ActionToCategories[a] : a \in actions}

DefaultCategories == {"docs", "search", "indices"}

Optional(S) == {None} \cup S

\* A user has no role, ops, referers or ttl, a permission no actions; name is
\* the field username, which a patch of a user may change, unlike the id.
Documents ==
    [kind : Kinds, name : Names, role : Roles \cup {""}, admin : BOOLEAN,
     actions : SUBSET Actions, categories : SUBSET Categories, acls : SUBSET Acls,
     ops : SUBSET Ops, indices : SUBSET Places, sources : SUBSET IPs,
     referers : SUBSET Sites, ttl : -1..MaxTime, born : 0..MaxTime]

\* The body of a request; None where it has no such field.
Bodies ==
    [name : Optional(Names), role : Optional(Roles \cup {""}), admin : Optional(BOOLEAN),
     actions : Optional(SUBSET Actions), categories : Optional(SUBSET Categories),
     acls : Optional(SUBSET Acls), ops : Optional(SUBSET Ops),
     indices : Optional(SUBSET Places), sources : Optional(SUBSET IPs),
     referers : Optional(SUBSET Sites), ttl : Optional(-1..MaxTime),
     key : Optional(Keys), roleKey : RoleKeys \cup {""}]

Blank ==
    [name |-> None, role |-> None, admin |-> None, actions |-> None, categories |-> None,
     acls |-> None, ops |-> None, indices |-> None, sources |-> None, referers |-> None,
     ttl |-> None, key |-> None, roleKey |-> ""]

\* Routes; the last stands for all of Elasticsearch's.
UserPaths == {"/_user", "/_user/{username}", "/_users"}
PermissionPaths == {"/_permission", "/_permission/{username}", "/_permissions", "/_role/{name}"}
ESPaths == {"/{index}/_search"}
Paths == {"/", "/_public_key"} \cup UserPaths \cup PermissionPaths \cup ESPaths

\* A request: its credential (a name, or a token signed by a key with claims),
\* its route and how the RequestURI ends as far as middlewares look at it (it
\* is "/", or ends in "_user", be it by a path, a name or a query string),
\* what the route's specification says of it, where it comes from.
Asks ==
    [name : Optional(Names), key : Optional(Keys),
     claims : [RoleKeys -> Optional(Roles \cup {""})],
     method : STRING, path : Paths, uri : {"/", "_user", ""}, target : Optional(Names \cup Roles),
     tag : STRING, acl : Acls, methods : Seq(STRING), streams : BOOLEAN,
     indices : Seq(Places), ip : IPs, site : Sites, local : BOOLEAN, body : Bodies]

KeyRecords == [key : Optional(Keys), roleKey : RoleKeys \cup {""}]

ASSUME AccessAssumption ==
    /\ Requests \subseteq Names
    /\ None \notin Names /\ None \notin Bodies
    /\ \A S \in SUBSET Categories : S # None
    /\ \A S \in SUBSET Acls : S # None
    /\ PlainRoles \subseteq Roles /\ "" \notin Roles /\ None \notin Roles
    /\ "role" \in RoleKeys
    /\ "*" \in Places /\ AliasOf \in [Places -> Optional(Places)]
    /\ MaxTime \in Nat /\ Start \in 0..MaxTime
    /\ Initial \in [Kinds -> [Names -> Optional(Documents)]]
    /\ \A k \in Kinds : \A n \in Names : Initial[k][n] # None =>
          /\ Initial[k][n].kind = k
          /\ Initial[k][n].acls \subseteq ACLsFor(Initial[k][n].categories)
          /\ k = "user" => Initial[k][n].categories = GetCategories(Initial[k][n].actions)
    /\ InitialKey \in KeyRecords
    /\ Menu \subseteq Asks
    /\ \A a \in Menu : a.path = "/_role/{name}" => a.target \in Roles
    /\ \A a \in Menu : a.uri = "/" => a.path = "/"

VARIABLES
    docs,       \* the indices of users and permissions, [kind -> [id -> document]]
    past,       \* history: every document that was ever stored
    now,
    stored,     \* the public key's record in its index
    node,       \* ... and in this process: jwtRsaPublicKey and jwtRoleKey
    sync,       \* a run of the sync with the record it has read, or None
    req,        \* the requests
    raced       \* history: roles that were checked by two overlapping requests

vars == <<docs, past, now, stored, node, sync, req, raced>>

Idle == [stage |-> "idle", ask |-> None, since |-> 0, role |-> "", obj |-> None,
         at |-> 1, draft |-> None]

\* InitFunc has loaded the public key.
Init ==
    /\ docs = Initial
    /\ past = (UNION {{Initial[k][n] : n \in Names} : k \in Kinds}) \ {None}
    /\ now = Start
    /\ stored = InitialKey /\ node = InitialKey
    /\ sync = None
    /\ req = [r \in Requests |-> Idle]
    /\ raced = {}

At(r, stage) == req[r].stage = stage
Goto(r, stage) == req' = [req EXCEPT ![r].stage = stage]

Stored(kind) == {docs[kind][n] : n \in Names} \ {None}

-----------------------------------------------------------------------------
(* Classification of a request.                                            *)

\* By path, as the plugins' routes and chains are listed.
Chain(a) ==
    CASE a.path = "/" -> "ping"
      [] a.path \in UserPaths -> "users"
      [] a.path \in PermissionPaths -> "permissions"
      [] a.path = "/_public_key" -> "auth"
      [] a.path \in ESPaths -> "elasticsearch"

\* Of a route of Elasticsearch's specification: its documentation's tag ...
FromString(tag) ==
    CASE tag \in {"docs", "search", "indices", "cat"} -> tag
      [] tag \in {"tasks", "cluster"} -> "clusters"
      [] OTHER -> "misc"

OpOf(method) ==
    CASE method = "DELETE" -> "delete"
      [] method \in {"POST", "PUT", "PATCH", "TRACE"} -> "write"
      [] OTHER -> "read"

\* ... and the first of its methods that is not POST, for all its methods.
decodeOp(methods) ==
    LET telling == {i \in DOMAIN methods : methods[i] # "POST"}
    IN  IF methods = <<>> THEN "read"
        ELSE IF telling = {} THEN "write"
        ELSE OpOf(methods[CHOOSE i \in telling : \A j \in telling : i <= j])

\* "/" has no entry in routeSpecs, and gets the zero values docs and read.
Category(a) ==
    CASE Chain(a) = "users" -> "user"
      [] Chain(a) = "permissions" -> "permission"
      [] Chain(a) = "auth" -> "auth"
      [] a.streams -> "streams"
      [] Chain(a) = "ping" -> "docs"
      [] OTHER -> FromString(a.tag)

Op(a) ==
    CASE Chain(a) = "ping" -> "read"
      [] Chain(a) = "elasticsearch" -> decodeOp(a.methods)
      [] OTHER -> OpOf(a.method)

\* The indices of the path, and their aliases: of all for "*", otherwise of
\* the first name only.
IndicesOf(a) ==
    LET named == {a.indices[i] : i \in DOMAIN a.indices}
    IN  IF a.indices = <<>> THEN {}
        ELSE IF a.indices[1] = "*"
             THEN named \cup ({AliasOf[p] : p \in Places} \ {None})
             ELSE named \cup ({AliasOf[a.indices[1]]} \ {None})

-----------------------------------------------------------------------------
(* The comparisons of a document d with a request a, by middleware.        *)

\* basicAuth's verdict, the password aside.
Authenticated(d, a) ==
    IF d.kind = "user"
    THEN \/ a.method \in {"GET", "HEAD"} /\ a.uri = "/"
         \/ d.admin
         \/ /\ Category(a) \in ES => Category(a) \in d.categories
            /\ Category(a) = "reactivesearch" => "reactivesearch" \in d.categories
    ELSE (a.method = "GET" /\ a.uri = "/") \/ Category(a) \in d.categories

HasSource(d, a) == a.ip \in d.sources
HasReferer(d, a) == d.kind = "permission" => a.site \in d.referers
CanAccessCluster(d) == "*" \in d.indices

CanAccessIndices(d, indices) ==
    indices \subseteq d.indices \cup
        (IF d.kind = "permission" /\ "suggestions" \in d.categories THEN {SuggestionsIndex} ELSE {})

HasIndices(d, a) ==
    IF IndicesOf(a) = {} THEN CanAccessCluster(d) ELSE CanAccessIndices(d, IndicesOf(a))

\* Not compared for GET /, GET /_user, and whatever else ends like the latter.
HasCategory(d, a) ==
    \/ a.method = "GET" /\ a.uri \in {"/", "_user"}
    \/ Category(a) \in d.categories

HasACL(d, a) == (a.method = "GET" /\ a.uri = "/") \/ a.acl \in d.acls
CanDo(d, a) == d.kind = "permission" => Op(a) \in d.ops
IsExpired(d, t) == d.ttl >= 0 /\ t - d.born > d.ttl

\* hasUserAccess, and what getPermissions and postPermission ask first.
HasAccess(d, a) ==
    CASE a.path \in {"/_user/{username}", "/_users"} \/ (a.path = "/_user" /\ a.method = "POST") ->
            d.kind = "user" /\ (d.admin \/ "userManagement" \in d.actions)
      [] a.path = "/_permissions" ->
            d.kind = "user" /\ (d.admin \/ "accessControl" \in d.actions)
      [] a.path \in {"/_permission", "/_role/{name}"} /\ a.method = "POST" -> d.kind = "user"
      [] OTHER -> TRUE

Passes(v, d, a, t) ==
    CASE v = "auth" -> Authenticated(d, a)
      [] v = "sources" -> HasSource(d, a)
      [] v = "referers" -> HasReferer(d, a)
      [] v = "indices" -> HasIndices(d, a)
      [] v = "category" -> HasCategory(d, a)
      [] v = "acl" -> HasACL(d, a)
      [] v = "op" -> CanDo(d, a)
      [] v = "expiry" -> ~ (d.kind = "permission" /\ IsExpired(d, t))
      [] v = "access" -> HasAccess(d, a)

\* The order of the plugins' chains.
Validators(a) ==
    CASE Chain(a) = "elasticsearch" ->
            <<"auth", "sources", "referers", "indices", "category", "acl", "op", "expiry">>
      [] Chain(a) \in {"users", "permissions"} -> <<"auth", "sources", "op", "category", "access">>
      [] Chain(a) = "auth" -> <<"auth", "op", "category">>
      [] Chain(a) = "ping" -> <<"auth">>

-----------------------------------------------------------------------------
(* basicAuth and the chain.                                                *)

Submit(r, a) ==
    [req[r] EXCEPT !.stage = IF a.name = None THEN "token" ELSE "lookup",
                   !.ask = a, !.since = now, !.role = "", !.obj = None, !.at = 1, !.draft = None]

Arrive(r, a) ==
    /\ At(r, "idle")
    /\ req' = [req EXCEPT ![r] = Submit(r, a)]
    /\ UNCHANGED <<docs, past, now, stored, node, sync, raced>>

\* The token is verified with jwtRsaPublicKey ...
Verify(r) ==
    /\ At(r, "token")
    /\ Goto(r, IF node.key # None /\ req[r].ask.key = node.key THEN "claim" ELSE "unknown")
    /\ UNCHANGED <<docs, past, now, stored, node, sync, raced>>

\* ... and the role read under jwtRoleKey, else under "role"; it may be empty.
ReadRole(r) ==
    LET c == req[r].ask.claims
        role == IF node.roleKey # "" /\ c[node.roleKey] # None THEN c[node.roleKey] ELSE c["role"]
    IN  /\ At(r, "claim")
        /\ IF role = None
           THEN Goto(r, "unknown")
           ELSE req' = [req EXCEPT ![r].stage = "lookup", ![r].role = role]
        /\ UNCHANGED <<docs, past, now, stored, node, sync, raced>>

Found(r, d) == req' = [req EXCEPT ![r].stage = "check", ![r].obj = d]

\* By role: a search of size 1, whatever it finds first.
FindByRole(r) ==
    /\ At(r, "lookup") /\ req[r].ask.name = None /\ req[r].role # ""
    /\ \/ \E d \in Stored("permission") : d.role = req[r].role /\ Found(r, d)
       \/ Goto(r, "unknown")
    /\ UNCHANGED <<docs, past, now, stored, node, sync, raced>>

\* An empty role is looked up like a username, the token's, which is empty:
\* in the cache, where each token's permission was saved under that name (in
\* CredentialCache: the entry NoName; here: that of any token there may have
\* been).  No document has that name.
FindNameless(r) ==
    /\ At(r, "lookup") /\ req[r].ask.name = None /\ req[r].role = ""
    /\ \/ \E d \in past : d.kind = "permission" /\ d.role # "" /\ Found(r, d)
       \/ Goto(r, "unknown")
    /\ UNCHANGED <<docs, past, now, stored, node, sync, raced>>

\* By name: in the cache, or by a search that finds one document.
FindByName(r) ==
    /\ At(r, "lookup") /\ req[r].ask.name # None
    /\ \/ \E d \in past : d.name = req[r].ask.name /\ Found(r, d)
       \/ Goto(r, "unknown")
    /\ UNCHANGED <<docs, past, now, stored, node, sync, raced>>

\* Seeded fault: the document is read again for each middleware.
ValidateAgain(r) ==
    LET q == req[r]
        chain == Validators(q.ask)
    IN  /\ At(r, "check")
        /\ \E d \in {e \in past : e.name = q.obj.name} :
              IF ~ Passes(chain[q.at], d, q.ask, now)
              THEN Goto(r, "denied")
              ELSE req' = [req EXCEPT ![r].at = @ + 1,
                                      ![r].stage = IF q.at = Len(chain) THEN "handle" ELSE "check"]
        /\ UNCHANGED <<docs, past, now, stored, node, sync, raced>>

Validate(r) ==
    LET q == req[r]
        chain == Validators(q.ask)
    IN  /\ At(r, "check")
        /\ IF ~ Passes(chain[q.at], q.obj, q.ask, now)
           THEN Goto(r, "denied")
           ELSE req' = [req EXCEPT ![r].at = @ + 1,
                                   ![r].stage = IF q.at = Len(chain) THEN "handle" ELSE "check"]
        /\ UNCHANGED <<docs, past, now, stored, node, sync, raced>>

-----------------------------------------------------------------------------
(* What the bodies make.                                                   *)

Given(new, old) == IF new = None THEN old ELSE new

\* New or NewAdmin with the options of postPermission, in their order.
NewPermission(r, admin, b) ==
    LET categories == Given(b.categories, IF admin THEN Categories ELSE DefaultCategories)
        routed == IF req[r].ask.path = "/_role/{name}" THEN req[r].ask.target ELSE ""
    IN  [kind |-> "permission", name |-> r,
         role |-> IF b.role \in {None, ""} THEN routed ELSE b.role,
         admin |-> FALSE, actions |-> {}, categories |-> categories,
         acls |-> Given(b.acls, ACLsFor(categories)),
         ops |-> Given(b.ops, IF admin THEN Ops ELSE {"read"}),
         indices |-> Given(b.indices, IF admin THEN Places ELSE {}),
         sources |-> Given(b.sources, IPs), referers |-> Given(b.referers, Sites),
         ttl |-> IF b.ttl \in {None, 0} THEN -1 ELSE b.ttl, born |-> now]

\* New or NewAdmin with SetIsAdmin and SetAllowedActions.
NewUser(b) ==
    LET admin == b.admin = TRUE
        actions == IF admin THEN Actions ELSE b.actions
    IN  [kind |-> "user", name |-> b.name, role |-> "", admin |-> admin, actions |-> actions,
         categories |-> GetCategories(actions),
         acls |-> Given(b.acls, ACLsFor(GetCategories(actions))), ops |-> {},
         indices |-> Given(b.indices, IF admin THEN Places ELSE {}),
         sources |-> Given(b.sources, IPs), referers |-> {}, ttl |-> -1, born |-> now]

\* Acls are refused unless some category has them (SetACLs, ValidateACLs).
AclsFit(acls, categories) == acls = None \/ acls \subseteq ACLsFor(categories)

UserFits(b) ==
    /\ b.name # None
    /\ b.admin = TRUE \/ b.actions \notin {None, {}}
    /\ AclsFit(b.acls, GetCategories(IF b.admin = TRUE THEN Actions ELSE b.actions))

\* Seeded fault: categories are patched without their acls.
PermissionPatchBare(b) ==
    [Blank EXCEPT !.role = b.role, !.categories = b.categories, !.acls = b.acls,
        !.ops = b.ops, !.indices = b.indices, !.sources = b.sources, !.referers = b.referers,
        !.ttl = b.ttl]

\* GetPatch of a permission: acls only with categories, and then always.
PermissionPatch(b) ==
    [name |-> None, role |-> b.role, admin |-> None, actions |-> None,
     categories |-> b.categories,
     acls |-> IF b.categories = None THEN None ELSE Given(b.acls, ACLsFor(b.categories)),
     ops |-> b.ops, indices |-> b.indices, sources |-> b.sources, referers |-> b.referers,
     ttl |-> IF b.ttl = 0 THEN None ELSE b.ttl, key |-> None, roleKey |-> ""]

PatchFits(b) == b.name = None /\ (b.categories = None \/ AclsFit(b.acls, b.categories))

\* Seeded fault: actions are patched without categories and acls.
UserPatchBare(b) ==
    [Blank EXCEPT !.name = b.name, !.admin = b.admin, !.actions = b.actions,
        !.indices = b.indices, !.sources = b.sources]

\* GetPatch of a user: the actions of an admin, unless some are given.
UserPatch(b) ==
    LET actions == Given(b.actions, IF b.admin = TRUE THEN Actions ELSE None)
        categories == IF actions = None THEN None ELSE GetCategories(actions)
    IN  [name |-> b.name, role |-> None, admin |-> b.admin, actions |-> actions,
         categories |-> categories, acls |-> IF actions = None THEN None ELSE ACLsFor(categories),
         ops |-> None, indices |-> b.indices, sources |-> b.sources, referers |-> None,
         ttl |-> None, key |-> None, roleKey |-> ""]

\* Seeded fault: fields that are not in the patch are written as null.
MergedNull(d, p) == [d EXCEPT !.role = p.role, !.categories = p.categories, !.acls = p.acls]

\* Elasticsearch merges a partial document into the one it has.
Merged(d, p) ==
    [kind |-> d.kind, name |-> Given(p.name, d.name), role |-> Given(p.role, d.role),
     admin |-> Given(p.admin, d.admin), actions |-> Given(p.actions, d.actions),
     categories |-> Given(p.categories, d.categories), acls |-> Given(p.acls, d.acls),
     ops |-> Given(p.ops, d.ops), indices |-> Given(p.indices, d.indices),
     sources |-> Given(p.sources, d.sources), referers |-> Given(p.referers, d.referers),
     ttl |-> Given(p.ttl, d.ttl), born |-> d.born]

-----------------------------------------------------------------------------
(* The handlers.                                                           *)

Handles(r, method, paths) ==
    At(r, "handle") /\ req[r].ask.method = method /\ req[r].ask.path \in paths

Prepare(r, fits, d, next) ==
    /\ IF fits THEN req' = [req EXCEPT ![r].stage = next, ![r].draft = d] ELSE Goto(r, "done")
    /\ UNCHANGED <<docs, past, now, stored, node, sync, raced>>

\* Whatever is forwarded to Elasticsearch.
Forward(r) ==
    /\ At(r, "handle") /\ Chain(req[r].ask) \in {"elasticsearch", "ping"}
    /\ Goto(r, "done")
    /\ UNCHANGED <<docs, past, now, stored, node, sync, raced>>

\* getUser, getPermissions and their like.
Read(r) ==
    /\ At(r, "handle") /\ Chain(req[r].ask) \in {"users", "permissions", "auth"}
    /\ req[r].ask.method = "GET"
    /\ Goto(r, "done")
    /\ UNCHANGED <<docs, past, now, stored, node, sync, raced>>

PostPermission(r) ==
    LET b == req[r].ask.body
        d == NewPermission(r, req[r].obj.admin, b)
    IN  /\ Handles(r, "POST", {"/_permission", "/_role/{name}"})
        /\ Prepare(r, AclsFit(b.acls, d.categories), d, IF d.role # "" THEN "role" ELSE "store")

PatchPermission(r) ==
    LET b == req[r].ask.body
    IN  /\ Handles(r, "PATCH", {"/_permission/{username}"})
        /\ Prepare(r, PatchFits(b) /\ ~ req[r].ask.local, PermissionPatch(b),
                   IF b.role \notin {None, ""} THEN "role" ELSE "store")

DeletePermission(r) ==
    /\ Handles(r, "DELETE", {"/_permission/{username}"})
    /\ Prepare(r, ~ req[r].ask.local, None, "store")

PostUser(r) ==
    LET b == req[r].ask.body
    IN  /\ Handles(r, "POST", {"/_user"})
        /\ Prepare(r, UserFits(b), NewUser(b), "store")

PatchUser(r) ==
    /\ Handles(r, "PATCH", {"/_user", "/_user/{username}"})
    /\ Prepare(r, ~ req[r].ask.local, UserPatch(req[r].ask.body), "store")

DeleteUser(r) ==
    /\ Handles(r, "DELETE", {"/_user", "/_user/{username}"})
    /\ Prepare(r, ~ req[r].ask.local, None, "store")

\* The term search on the field role, which is analysed: a role of several
\* words or with capitals is not found.
RoleIs(d, role) == d.role = role /\ role \in PlainRoles

\* PATCH and DELETE of a role send the client on to the permission's route.
Redirect(r) ==
    LET a == req[r].ask
    IN  /\ At(r, "handle")
        /\ a.path = "/_role/{name}" /\ a.method \in {"PATCH", "DELETE"}
        /\ \/ \E d \in Stored("permission") :
                 /\ RoleIs(d, a.target)
                 /\ req' = [req EXCEPT ![r] = Submit(r,
                       [a EXCEPT !.path = "/_permission/{username}", !.target = d.name, !.uri = ""])]
           \/ Goto(r, "done")
        /\ UNCHANGED <<docs, past, now, stored, node, sync, raced>>

\* Seeded fault: the role is not looked for.
CheckNoRole(r) ==
    /\ At(r, "role")
    /\ Goto(r, "store")
    /\ UNCHANGED <<docs, past, now, stored, node, sync, raced>>

\* checkRoleExists; the permission is stored later, in a call of its own.
CheckRole(r) ==
    LET role == req[r].draft.role
    IN  /\ At(r, "role")
        /\ \/ Goto(r, IF \E d \in Stored("permission") : RoleIs(d, role) THEN "done" ELSE "store")
           \/ Goto(r, "done")
        /\ raced' = IF \E o \in Requests \ {r} : At(o, "store") /\ req[o].draft # None
                                                  /\ req[o].draft.role = role
                    THEN raced \cup {role} ELSE raced
        /\ UNCHANGED <<docs, past, now, stored, node, sync>>

Kind(a) == IF Chain(a) = "users" THEN "user" ELSE "permission"

\* Whose document: the one of the route, or of the credential's own name.
Target(a) == IF a.path = "/_user" THEN a.name ELSE a.target

Saved(r, kind, id, d) ==
    /\ At(r, "store")
    /\ docs' = [docs EXCEPT ![kind][id] = d]
    /\ past' = past \cup ({d} \ {None})
    /\ Goto(r, "done")
    /\ UNCHANGED <<now, stored, node, sync, raced>>

Create(r) ==
    /\ req[r].ask # None /\ req[r].ask.method = "POST"
    /\ Saved(r, Kind(req[r].ask), req[r].draft.name, req[r].draft)

Patch(r) ==
    LET a == req[r].ask
    IN  /\ a # None /\ a.method = "PATCH"
        /\ Target(a) \in Names /\ docs[Kind(a)][Target(a)] # None
        /\ Saved(r, Kind(a), Target(a), Merged(docs[Kind(a)][Target(a)], req[r].draft))

Delete(r) ==
    LET a == req[r].ask
    IN  /\ a # None /\ a.method = "DELETE"
        /\ Target(a) \in Names /\ docs[Kind(a)][Target(a)] # None
        /\ Saved(r, Kind(a), Target(a), None)

\* There is no such document, or the call fails without effect.
StoreFails(r) ==
    /\ At(r, "store")
    /\ Goto(r, "done")
    /\ UNCHANGED <<docs, past, now, stored, node, sync, raced>>

-----------------------------------------------------------------------------
(* The public key.                                                         *)

RoleKey(a) == IF a.body.roleKey = "" THEN "role" ELSE a.body.roleKey

\* A key is required; ?local=true, ACCAPI's call, does not save it.
SetPublicKey(r) ==
    /\ Handles(r, "PUT", {"/_public_key"})
    /\ Prepare(r, req[r].ask.body.key # None, None,
               IF req[r].ask.local THEN "localKey" ELSE "saveKey")

\* The record's save may fail, and so may what follows it: then this node
\* keeps its key.
SaveKey(r) ==
    /\ At(r, "saveKey")
    /\ \E saved \in BOOLEAN, follows \in BOOLEAN :
          /\ stored' = IF saved THEN [key |-> req[r].ask.body.key, roleKey |-> RoleKey(req[r].ask)]
                       ELSE stored
          /\ Goto(r, IF saved /\ follows THEN "localKey" ELSE "done")
    /\ UNCHANGED <<docs, past, now, node, sync, raced>>

SetLocalKey(r) ==
    /\ At(r, "localKey")
    /\ node' = [node EXCEPT !.key = req[r].ask.body.key]
    /\ Goto(r, "localRoleKey")
    /\ UNCHANGED <<docs, past, now, stored, sync, raced>>

SetLocalRoleKey(r) ==
    /\ At(r, "localRoleKey")
    /\ node' = [node EXCEPT !.roleKey = RoleKey(req[r].ask)]
    /\ Goto(r, "done")
    /\ UNCHANGED <<docs, past, now, stored, sync, raced>>

\* The sync reads the record and sets one field after the other.  Runs that
\* begin and end while the node agrees and nobody sets a key change nothing
\* and are left out.
SyncFetch ==
    /\ sync = None
    /\ stored.key # None
    /\ node # stored \/ \E r \in Requests : req[r].stage \in {"saveKey", "localKey", "localRoleKey"}
    /\ sync' = [key |-> stored.key, roleKey |-> stored.roleKey, half |-> FALSE]
    /\ UNCHANGED <<docs, past, now, stored, node, req, raced>>

\* Seeded fault: the sync sets the key only.
SyncKeyOnly ==
    /\ sync # None /\ ~ sync.half
    /\ node' = [node EXCEPT !.key = sync.key]
    /\ sync' = None
    /\ UNCHANGED <<docs, past, now, stored, req, raced>>

SyncKey ==
    /\ sync # None /\ ~ sync.half
    /\ node' = [node EXCEPT !.key = sync.key]
    /\ sync' = [sync EXCEPT !.half = TRUE]
    /\ UNCHANGED <<docs, past, now, stored, req, raced>>

SyncRoleKey ==
    /\ sync # None /\ sync.half
    /\ node' = [node EXCEPT !.roleKey = sync.roleKey]
    /\ sync' = None
    /\ UNCHANGED <<docs, past, now, stored, req, raced>>

-----------------------------------------------------------------------------
Tick ==
    /\ now < MaxTime
    /\ now' = now + 1
    /\ UNCHANGED <<docs, past, stored, node, sync, req, raced>>

Handle(r) ==
    \/ Verify(r) \/ ReadRole(r) \/ FindByRole(r) \/ FindNameless(r) \/ FindByName(r) \/ Validate(r)
    \/ Forward(r) \/ Read(r) \/ PostPermission(r) \/ PatchPermission(r) \/ DeletePermission(r)
    \/ PostUser(r) \/ PatchUser(r) \/ DeleteUser(r) \/ Redirect(r) \/ CheckRole(r)
    \/ Create(r) \/ Patch(r) \/ Delete(r) \/ StoreFails(r)
    \/ SetPublicKey(r) \/ SaveKey(r) \/ SetLocalKey(r) \/ SetLocalRoleKey(r)

Sync == SyncFetch \/ SyncKey \/ SyncRoleKey

Next ==
    \/ \E r \in Requests : \E a \in Menu : Arrive(r, a)
    \/ \E r \in Requests : Handle(r)
    \/ Sync
    \/ Tick

Spec == Init /\ [][Next]_vars

\* Handlers are scheduled and their calls return; the sync is a cron job.
FairSpec == Spec /\ WF_vars(Sync) /\ \A r \in Requests : WF_vars(Handle(r))

-----------------------------------------------------------------------------
Stages == {"idle", "token", "claim", "lookup", "check", "handle", "role", "store", "saveKey",
           "localKey", "localRoleKey", "done", "denied", "unknown"}

RequestStates ==
    [stage : Stages, ask : Optional(Asks), since : 0..MaxTime, role : Roles \cup {""},
     obj : Optional(Documents), at : Nat, draft : Optional(Documents \cup Bodies)]

TypeOK ==
    /\ docs \in [Kinds -> [Names -> Optional(Documents)]]
    /\ past \subseteq Documents
    /\ now \in 0..MaxTime
    /\ stored \in KeyRecords /\ node \in KeyRecords
    /\ sync \in Optional([key : Optional(Keys), roleKey : RoleKeys \cup {""}, half : BOOLEAN])
    /\ req \in [Requests -> RequestStates]
    /\ raced \subseteq Roles

\* The rights of a document agree, whichever options and patches of them came
\* in whichever order: its acls are acls of its categories (validate.ACL
\* compares with the acls alone), and a user's categories are those of its
\* actions (some routes ask for the one, some for the other).
RightsAgree ==
    \A d \in past :
        /\ d.acls \subseteq ACLsFor(d.categories)
        /\ d.kind = "user" => d.categories = GetCategories(d.actions)

\* "permission with role=%s already exists": two permissions have the same
\* role only if two requests checked it at the same time.
RolesUnique ==
    \A n, m \in Names :
        LET d == docs["permission"][n]
            e == docs["permission"][m]
        IN  n # m /\ d # None /\ e # None /\ d.role = e.role /\ d.role \in PlainRoles =>
                d.role \in raced

\* Whatever setters overlap or fail half way, the sync makes the process use
\* the record in the index, both fields of it.
KeySettles == <>[](stored.key # None => node = stored)

-----------------------------------------------------------------------------
(* What a request may do, as categories, acls, ops and limits are described*)
(* to the users: the policy that the chains implement.                     *)

\* d is a document of the credential: a basic auth's username, a token's role.
\* An empty role stands for that of whatever token came before: not what
\* anybody means by it (see EventuallyFreshEverywhere of CredentialCache), but
\* what the cache makes of it.
Bears(d, a) ==
    IF a.name # None
    THEN d.name = a.name
    ELSE /\ d.kind = "permission" /\ d.role # ""
         /\ \E c \in RoleKeys : a.claims[c] \in {d.role, ""}

Allows(d, a, t) ==
    /\ Authenticated(d, a)
    /\ Chain(a) \in {"elasticsearch", "users", "permissions"} => HasSource(d, a)
    /\ Chain(a) # "ping" => HasCategory(d, a) /\ CanDo(d, a)
    /\ Chain(a) = "elasticsearch" =>
          /\ HasReferer(d, a) /\ HasIndices(d, a) /\ HasACL(d, a)
          /\ d.kind = "permission" => ~ IsExpired(d, t)
    /\ Chain(a) \in {"users", "permissions"} => HasAccess(d, a)

Pending == {"token", "claim", "lookup", "check"}
Granted == Stages \ (Pending \cup {"idle", "denied", "unknown"})

Verdict(r) ==
    CASE req[r].stage = "idle" -> "none"
      [] req[r].stage \in Pending -> "pending"
      [] req[r].stage \in {"denied", "unknown"} -> req[r].stage
      [] req[r].stage \in Granted -> "granted"

Call(r) == IF req[r].stage = "idle" THEN None ELSE [ask |-> req[r].ask, since |-> req[r].since]

Policy == INSTANCE AccessPolicy WITH
    known <- past,
    call <- [r \in Requests |-> Call(r)],
    verdict <- [r \in Requests |-> Verdict(r)]

\* Every request is decided as if one stored document of its credential had
\* been compared with it at once when it arrived: middlewares that run one
\* after the other, while documents are changed and permissions expire, never
\* let through what no version allowed, nor refuse what all versions allow.
ImplementsPolicy == Policy!Spec
=============================================================================
