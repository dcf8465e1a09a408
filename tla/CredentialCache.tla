--------------------------- MODULE CredentialCache ---------------------------
(***************************************************************************)
(* Credentials and the two caches every node keeps of them.                *)
(*                                                                         *)
(* Elasticsearch holds the users and the permissions.  A node authenticates*)
(* a request by the credential cache or else by a search, compares the     *)
(* password (a user's against the password cache first, because bcrypt is  *)
(* slow), and fills both caches.  The handlers of the users and            *)
(* permissions plugins write Elasticsearch and then clear the caches, of   *)
(* this node or, through ACCAPI, of every node; a cron job refreshes what  *)
(* is cached from one snapshot of the indices.  Every critical section of  *)
(* the code (one mutex for each cache, never both) and every round trip is *)
(* one step here.                                                          *)
(***************************************************************************)
EXTENDS Naturals, FiniteSets

CONSTANTS
    Nodes,          \* the processes of the cluster
    Users,          \* usernames of the users index
    Permissions,    \* usernames of the permissions index
    Passwords,
    NoName,         \* the empty string, as a username or a route variable
    None,           \* "absent": a nil pointer, a missing key or document
    Requests,       \* identifiers: each serves one HTTP request
    Menu,           \* the requests clients may send
    Installed,      \* the documents the indices hold when the nodes start
    Accapi,         \* the username with which ACCAPI calls the nodes (external)
    Proxied,        \* ShouldProxyToACCAPI(): several machines, not self hosted
    Syncing,        \* whether the cron job runs (its period may be a day)
    MaxInFlight     \* bound: requests served at the same time

Names == Users \cup Permissions
Keys == Names \cup {NoName}

\* user.User and permission.Permission as far as the caches tell them apart.
\* "grant" says that the categories (or is_admin) admit the requests of Menu.
Credential == [name: Names, pass: Passwords, grant: BOOLEAN]

Ops == {"read", "root", "create", "patch", "remove", "local"}

\* name: the username of the basic auth header, or the role of the JWT; both
\* may be empty.  own: the /_user routes, whose username is that of the header.
Request == [node: Nodes, scheme: {"basic", "jwt"}, name: Keys, pass: Passwords,
            op: Ops, own: BOOLEAN, target: Names,
            setPass: Passwords \cup {None}, setGrant: BOOLEAN \cup {None}]

ASSUME CredentialAssumption ==
    /\ Users \cap Permissions = {}
    /\ NoName \notin Names
    /\ None \notin Credential \cup Passwords \cup BOOLEAN
    /\ Menu \subseteq Request
    /\ \A q \in Menu : q.scheme = "jwt" => q.name \in Permissions \cup {NoName}
    /\ \A q \in Menu : q.own => q.name = q.target /\ q.target \in Users
    /\ \A q \in Menu : q.op = "create" => q.setPass # None /\ q.setGrant # None
    /\ Accapi \in Names
    /\ Installed \in [Names -> Credential \cup {None}]
    /\ \A x \in Names : Installed[x] # None => Installed[x].name = x
    /\ MaxInFlight \in Nat
    /\ Proxied \in BOOLEAN /\ Syncing \in BOOLEAN

VARIABLES
    store,      \* the documents of the two indices
    past,       \* history: every credential the indices ever held, by name
    cred,       \* CredentialCache.cache of each node
    pwd,        \* UserToPasswordCache of each node
    pc,         \* where the goroutine of each request is
    ask,        \* the request it serves
    obj,        \* the credential it authenticates with
    untold,     \* ACCAPI: nodes still to be called with ?local=true
    half,       \* ACCAPI: nodes between the two halves of ClearLocalUser
    phase,      \* syncPluginCache of each node: which script runs
    snap,       \* ... the response of its search
    todo,       \* ... the cached credentials it listed and has not handled
    part        \* ... the one it is in the middle of

stores == <<store, past>>
caches == <<cred, pwd>>
proxy == <<untold, half>>
syncs == <<phase, snap, todo, part>>
vars == <<store, past, cred, pwd, pc, ask, obj, untold, half, phase, snap, todo, part>>

Waiting == {"lookup", "fetch", "check", "save_password", "peek", "cache", "admit",
            "write", "notify", "clear_password", "clear_credential"}
Answered == {"ok", "refused", "failed"}

InFlight == {r \in Requests : pc[r] \in Waiting}
Cached(n) == {cred[n][k] : k \in Keys} \ {None}

Init ==
    /\ store = Installed
    /\ past = [x \in Names |-> {Installed[x]} \ {None}]
    /\ cred = [n \in Nodes |-> [k \in Keys |-> None]]
    /\ pwd = [n \in Nodes |-> [u \in Users |-> None]]
    /\ pc = [r \in Requests |-> "idle"]
    /\ ask = [r \in Requests |-> None]
    /\ obj = [r \in Requests |-> None]
    /\ untold = [r \in Requests |-> {}]
    /\ half = [r \in Requests |-> {}]
    /\ phase = [n \in Nodes |-> "idle"]
    /\ snap = [n \in Nodes |-> [x \in Names |-> None]]
    /\ todo = [n \in Nodes |-> {}]
    /\ part = [n \in Nodes |-> {}]

SetCred(n, k, c) == cred' = [cred EXCEPT ![n][k] = c]
SetPwd(n, u, p) == pwd' = [pwd EXCEPT ![n][u] = p]
Goto(r, l) == pc' = [pc EXCEPT ![r] = l]

-----------------------------------------------------------------------------
(* The basicAuth middleware.                                               *)

\* The key of the credential cache is the username of the basic auth header:
\* a request with a JWT has none.
CacheKey(q) == IF q.scheme = "jwt" THEN NoName ELSE q.name

\* mux.Vars(req)["username"] exists on the /{username} routes only.
RouteVar(q) == IF q.own \/ q.op = "create" THEN NoName ELSE q.target

\* Only a JWT with a role is authenticated without the cache: one whose role is
\* empty is looked up like basic auth, under the empty username.
Arrive(r, q) ==
    /\ pc[r] = "idle"
    /\ Cardinality(InFlight) < MaxInFlight
    /\ ask' = [ask EXCEPT ![r] = q]
    /\ Goto(r, IF q.scheme = "jwt" /\ q.name # NoName THEN "fetch" ELSE "lookup")
    /\ UNCHANGED <<stores, caches, obj, proxy, syncs>>

Lookup(r) ==
    LET hit == cred[ask[r].node][CacheKey(ask[r])]
    IN  /\ pc[r] = "lookup"
        /\ obj' = [obj EXCEPT ![r] = hit]
        /\ Goto(r, IF hit = None THEN "fetch" ELSE "check")
        /\ UNCHANGED <<stores, caches, ask, proxy, syncs>>

\* getCredential of the dao, or getRolePermission for a JWT; the search finds
\* nothing (no document has the empty username), or fails, and then the request
\* is refused.
Fetch(r) ==
    /\ pc[r] = "fetch"
    /\ \/ /\ ask[r].name # NoName
          /\ store[ask[r].name] # None
          /\ obj' = [obj EXCEPT ![r] = store[ask[r].name]]
          /\ Goto(r, "check")
       \/ /\ Goto(r, "refused")
          /\ UNCHANGED obj
    /\ UNCHANGED <<stores, caches, ask, proxy, syncs>>

\* Seeded fault: the password of a user is not compared at all.
PasswordUnchecked(r) == obj[r].name \in Users \/ obj[r].pass = ask[r].pass

\* A JWT has been verified by its signature.  A password of a user is compared
\* with the password cache and then with the hash; that of a permission is
\* compared with the credential.
PasswordAccepted(r) ==
    \/ ask[r].scheme = "jwt"
    \/ obj[r].pass = ask[r].pass
    \/ obj[r].name \in Users /\ pwd[ask[r].node][obj[r].name] = ask[r].pass

CheckPassword(r) ==
    /\ pc[r] = "check"
    /\ Goto(r, IF ~ PasswordAccepted(r) THEN "refused"
               ELSE IF obj[r].name \in Users THEN "save_password" ELSE "peek")
    /\ UNCHANGED <<stores, caches, ask, obj, proxy, syncs>>

SavePassword(r) ==
    /\ pc[r] = "save_password"
    /\ SetPwd(ask[r].node, obj[r].name, ask[r].pass)
    /\ Goto(r, "peek")
    /\ UNCHANGED <<stores, cred, ask, obj, proxy, syncs>>

\* "cache the user" / "cache the permission": the test and the insertion are
\* two critical sections.
PeekCache(r) ==
    /\ pc[r] = "peek"
    /\ Goto(r, IF cred[ask[r].node][CacheKey(ask[r])] = None THEN "cache" ELSE "admit")
    /\ UNCHANGED <<stores, caches, ask, obj, proxy, syncs>>

SaveCredentialToCache(r) ==
    /\ pc[r] = "cache"
    /\ SetCred(ask[r].node, CacheKey(ask[r]), obj[r])
    /\ Goto(r, "admit")
    /\ UNCHANGED <<stores, pwd, ask, obj, proxy, syncs>>

\* The verdict, and, before the handler of a write runs, "remove
\* user/permission from cache on write operation".
Admit(r) ==
    /\ pc[r] = "admit"
    /\ \/ /\ ask[r].op = "root" \/ (ask[r].op = "read" /\ obj[r].grant)
          /\ Goto(r, "ok")
          /\ UNCHANGED cred
       \/ /\ ask[r].op \notin {"root", "read"} /\ obj[r].grant
          /\ SetCred(ask[r].node, RouteVar(ask[r]), None)
          /\ Goto(r, IF ask[r].op = "local" THEN "clear_password" ELSE "write")
       \/ /\ ask[r].op # "root" /\ ~ obj[r].grant
          /\ Goto(r, "refused")
          /\ UNCHANGED cred
    /\ UNCHANGED <<stores, pwd, ask, obj, proxy, syncs>>

-----------------------------------------------------------------------------
(* The handlers that write the users and permissions indices.              *)

\* Seeded fault: a patch overwrites the fields it does not give.
DocumentBare(q) == [name |-> q.target, pass |-> q.setPass, grant |-> q.setGrant]

\* The document a patch or a creation leaves in the index.
Document(q) ==
    [name |-> q.target,
     pass |-> IF q.setPass = None THEN store[q.target].pass ELSE q.setPass,
     grant |-> IF q.setGrant = None THEN store[q.target].grant ELSE q.setGrant]

\* POST /_permission makes up a random username and password.
FreshName(q) == q.target \in Permissions => past[q.target] = {}

\* POST /_user indexes over whatever document has that name; PATCH and DELETE
\* need the document, and a patch cannot change the password of a permission.
Applicable(q) ==
    \/ q.op = "create" /\ FreshName(q)
    \/ q.op = "remove" /\ store[q.target] # None
    \/ /\ q.op = "patch" /\ store[q.target] # None
       /\ q.setPass = None \/ q.target \in Users

\* A creation clears nothing; the others clear every node or this one.
AfterWrite(q) ==
    IF q.op = "create" THEN "ok" ELSE IF Proxied THEN "notify" ELSE "clear_password"

NewDocument(q) == IF q.op = "remove" THEN None ELSE Document(q)

Stored(q) ==
    /\ store' = [store EXCEPT ![q.target] = NewDocument(q)]
    /\ past' = [past EXCEPT ![q.target] = @ \cup ({NewDocument(q)} \ {None})]

\* One request to Elasticsearch with refresh=wait_for.  It succeeds; it fails
\* without effect; or its answer is lost after it took effect.
Write(r) ==
    LET q == ask[r]
        next == AfterWrite(q)
    IN  /\ pc[r] = "write"
        /\ \/ /\ Applicable(q)
              /\ Stored(q)
              /\ Goto(r, next)
              /\ untold' = [untold EXCEPT ![r] = IF next = "notify" THEN Nodes ELSE {}]
           \/ /\ Applicable(q)
              /\ Stored(q)
              /\ Goto(r, "failed")
              /\ UNCHANGED untold
           \/ /\ Goto(r, "failed")
              /\ UNCHANGED <<stores, untold>>
        /\ UNCHANGED <<caches, ask, obj, half, syncs>>

\* ClearLocalUser: two critical sections, the password first.
ClearPassword(r) ==
    /\ pc[r] = "clear_password"
    /\ pwd' = IF ask[r].target \in Users
              THEN [pwd EXCEPT ![ask[r].node][ask[r].target] = None] ELSE pwd
    /\ Goto(r, "clear_credential")
    /\ UNCHANGED <<stores, cred, ask, obj, proxy, syncs>>

ClearCredential(r) ==
    /\ pc[r] = "clear_credential"
    /\ SetCred(ask[r].node, ask[r].target, None)
    /\ Goto(r, "ok")
    /\ UNCHANGED <<stores, pwd, ask, obj, proxy, syncs>>

\* Seeded fault: a node clears the name of ACCAPI whatever route is called.
ToldNameCaller(q) == Accapi

\* The username that a node clears when ACCAPI calls it.  The proxied URL names
\* the credential, except on the /_user routes: they send ACCAPI a method and a
\* path, so that the node takes the username of ACCAPI's own basic auth header.
ToldName(q) == IF q.own THEN Accapi ELSE q.target

\* ProxyACCAPI (external): ACCAPI calls every node with ?local=true, each call
\* being ClearLocalUser there, and answers 200 once all have answered; or it
\* answers an error, and then some of the nodes may not have been called.
TellPassword(r, m) ==
    /\ m \in untold[r]
    /\ pwd' = IF ToldName(ask[r]) \in Users
              THEN [pwd EXCEPT ![m][ToldName(ask[r])] = None] ELSE pwd
    /\ untold' = [untold EXCEPT ![r] = @ \ {m}]
    /\ half' = [half EXCEPT ![r] = @ \cup {m}]
    /\ UNCHANGED <<stores, cred, pc, ask, obj, syncs>>

TellCredential(r, m) ==
    /\ m \in half[r]
    /\ SetCred(m, ToldName(ask[r]), None)
    /\ half' = [half EXCEPT ![r] = @ \ {m}]
    /\ UNCHANGED <<stores, pwd, pc, ask, obj, untold, syncs>>

NotifyDone(r) ==
    /\ pc[r] = "notify"
    /\ untold[r] = {} /\ half[r] = {}
    /\ Goto(r, "ok")
    /\ UNCHANGED <<stores, caches, ask, obj, proxy, syncs>>

NotifyFails(r) ==
    /\ pc[r] = "notify"
    /\ untold' = [untold EXCEPT ![r] = {}]
    /\ Goto(r, "failed")
    /\ UNCHANGED <<stores, caches, ask, obj, half, syncs>>

-----------------------------------------------------------------------------
(* syncPluginCache and the SetCache scripts of the two plugins.            *)

\* One search over the indices of all the scripts; if it fails nothing happens.
SyncFetch(n) ==
    /\ Syncing
    /\ phase[n] = "idle"
    /\ snap' = [snap EXCEPT ![n] = store]
    /\ phase' = [phase EXCEPT ![n] = "fetched"]
    /\ UNCHANGED <<stores, caches, pc, ask, obj, proxy, todo, part>>

SyncList(n, kind, from, to) ==
    /\ phase[n] = from
    /\ todo[n] = {}
    /\ todo' = [todo EXCEPT ![n] = {c \in Cached(n) : c.name \in kind}]
    /\ phase' = [phase EXCEPT ![n] = to]
    /\ UNCHANGED <<stores, caches, pc, ask, obj, proxy, snap, part>>

SyncListUsers(n) == SyncList(n, Users, "fetched", "users")
SyncListPermissions(n) == SyncList(n, Permissions, "users", "permissions")

SyncEnd(n) ==
    /\ phase[n] = "permissions"
    /\ todo[n] = {}
    /\ phase' = [phase EXCEPT ![n] = "idle"]
    /\ UNCHANGED <<stores, caches, pc, ask, obj, proxy, snap, todo, part>>

\* The snapshot has another password for the user than the listed credential.
PasswordChanged(n, c) ==
    /\ c.name \in Users
    /\ snap[n][c.name] # None
    /\ snap[n][c.name].pass # c.pass

SyncClearPassword(n, c) ==
    /\ c \in todo[n] /\ part[n] = {}
    /\ PasswordChanged(n, c)
    /\ SetPwd(n, c.name, None)
    /\ part' = [part EXCEPT ![n] = {c}]
    /\ UNCHANGED <<stores, cred, pc, ask, obj, proxy, phase, snap, todo>>

\* Seeded fault: takes any hit of the response for the credential's own.
SyncSaveOther(n, c) ==
    /\ c \in todo[n] /\ part[n] = IF PasswordChanged(n, c) THEN {c} ELSE {}
    /\ \E x \in Names :
          /\ snap[n][x] # None
          /\ SetCred(n, c.name, snap[n][x])
    /\ todo' = [todo EXCEPT ![n] = @ \ {c}]
    /\ part' = [part EXCEPT ![n] = {}]
    /\ UNCHANGED <<stores, pwd, pc, ask, obj, proxy, phase, snap>>

SyncSave(n, c) ==
    /\ c \in todo[n] /\ part[n] = IF PasswordChanged(n, c) THEN {c} ELSE {}
    /\ snap[n][c.name] # None
    /\ SetCred(n, c.name, snap[n][c.name])
    /\ todo' = [todo EXCEPT ![n] = @ \ {c}]
    /\ part' = [part EXCEPT ![n] = {}]
    /\ UNCHANGED <<stores, pwd, pc, ask, obj, proxy, phase, snap>>

\* Seeded fault: a credential gone from the snapshot stays cached.
SyncKeep(n, c) ==
    /\ c \in todo[n] /\ part[n] = {}
    /\ snap[n][c.name] = None
    /\ todo' = [todo EXCEPT ![n] = @ \ {c}]
    /\ UNCHANGED <<stores, caches, pc, ask, obj, proxy, phase, snap, part>>

\* The credential is gone from the snapshot: it is removed and then, for a
\* user, its password is cleared.
SyncRemove(n, c) ==
    /\ c \in todo[n] /\ part[n] = {}
    /\ snap[n][c.name] = None
    /\ SetCred(n, c.name, None)
    /\ \/ c.name \in Users /\ part' = [part EXCEPT ![n] = {c}] /\ UNCHANGED todo
       \/ c.name \in Permissions /\ todo' = [todo EXCEPT ![n] = @ \ {c}] /\ UNCHANGED part
    /\ UNCHANGED <<stores, pwd, pc, ask, obj, proxy, phase, snap>>

SyncRemovePassword(n, c) ==
    /\ c \in todo[n] /\ c \in part[n]
    /\ c.name \in Users /\ snap[n][c.name] = None
    /\ SetPwd(n, c.name, None)
    /\ todo' = [todo EXCEPT ![n] = @ \ {c}]
    /\ part' = [part EXCEPT ![n] = {}]
    /\ UNCHANGED <<stores, cred, pc, ask, obj, proxy, phase, snap>>

-----------------------------------------------------------------------------
Serve(r) ==
    \/ Lookup(r) \/ Fetch(r) \/ CheckPassword(r) \/ SavePassword(r)
    \/ PeekCache(r) \/ SaveCredentialToCache(r) \/ Admit(r)
    \/ Write(r) \/ ClearPassword(r) \/ ClearCredential(r)
    \/ NotifyDone(r) \/ NotifyFails(r)

Tell(r, m) == TellPassword(r, m) \/ TellCredential(r, m)

SyncOne(n, c) ==
    \/ SyncClearPassword(n, c) \/ SyncSave(n, c)
    \/ SyncRemove(n, c) \/ SyncRemovePassword(n, c)

Sync(n) ==
    \/ SyncFetch(n) \/ SyncListUsers(n) \/ SyncListPermissions(n) \/ SyncEnd(n)
    \/ \E c \in todo[n] : SyncOne(n, c)

Next ==
    \/ \E r \in Requests : \E q \in Menu : Arrive(r, q)
    \/ \E r \in Requests : Serve(r)
    \/ \E r \in Requests, m \in Nodes : Tell(r, m)
    \/ \E n \in Nodes : Sync(n)

Spec == Init /\ [][Next]_vars

\* A goroutine that serves a request or a sync is scheduled and its calls
\* return (the HTTP clients have timeouts); nobody has to send a request.
Fairness ==
    /\ \A r \in Requests : WF_vars(Serve(r))
    /\ \A r \in Requests, m \in Nodes : WF_vars(Tell(r, m))
    /\ \A n \in Nodes : WF_vars(Sync(n))

FairSpec == Spec /\ Fairness

-----------------------------------------------------------------------------
MaybeCredential == Credential \cup {None}

TypeOK ==
    /\ store \in [Names -> MaybeCredential]
    /\ past \in [Names -> SUBSET Credential]
    /\ cred \in [Nodes -> [Keys -> MaybeCredential]]
    /\ pwd \in [Nodes -> [Users -> Passwords \cup {None}]]
    /\ pc \in [Requests -> {"idle"} \cup Waiting \cup Answered]
    /\ ask \in [Requests -> Menu \cup {None}]
    /\ obj \in [Requests -> MaybeCredential]
    /\ untold \in [Requests -> SUBSET Nodes]
    /\ half \in [Requests -> SUBSET Nodes]
    /\ phase \in [Nodes -> {"idle", "fetched", "users", "permissions"}]
    /\ snap \in [Nodes -> [Names -> MaybeCredential]]
    /\ todo \in [Nodes -> SUBSET Credential]
    /\ part \in [Nodes -> SUBSET Credential]

\* What a node caches for a name was once the document of that very name,
\* however lookups, fills, clears and syncs interleave: a cached credential
\* never belongs to another name and is never one Elasticsearch did not hold.
\* The entry of the empty name, filled by requests with a JWT, is the permission
\* of some role and never a user.
CachedWereStored ==
    \A n \in Nodes, k \in Keys :
        cred[n][k] # None =>
            /\ cred[n][k] \in past[cred[n][k].name]
            /\ IF k = NoName THEN cred[n][k].name \in Permissions ELSE cred[n][k].name = k

\* A password the cache accepts without bcrypt was once that user's password.
PasswordsWereStored ==
    \A n \in Nodes, u \in Users :
        pwd[n][u] # None => \E c \in past[u] : c.pass = pwd[n][u]

\* The states of a request past its password check.
Accepted == {"save_password", "peek", "cache", "admit", "write", "notify",
             "clear_password", "clear_credential", "ok", "failed"}

\* A basic auth request that gets past the check was sent with a password the
\* named credential has, or had at some earlier time, whichever cache or
\* search the comparison used; one without a username, which is authenticated
\* by what JWT requests left in the cache, with a password of some permission.
AcceptedKnewPassword ==
    \A r \in Requests :
        pc[r] \in Accepted /\ ask[r].scheme = "basic" =>
            \E x \in IF ask[r].name = NoName THEN Permissions ELSE {ask[r].name} :
               \E c \in past[x] : c.pass = ask[r].pass

\* Nothing runs, and no call of a handler ever failed.
Quiet == /\ InFlight = {}
         /\ \A r \in Requests : half[r] = {} /\ pc[r] # "failed"
         /\ \A n \in Nodes : phase[n] = "idle"

CredentialsFresh ==
    \A n \in Nodes, x \in Names : cred[n][x] \in {None, store[x]}

PasswordsFresh ==
    \A n \in Nodes, u \in Users :
        pwd[n][u] # None => store[u] # None /\ store[u].pass = pwd[n][u]

\* Requests one at a time and no sync; ACCAPI, or a single node; what ACCAPI has
\* the nodes clear is what was written, so that on /_user routes it calls with
\* the username of the client; and nobody creates a user over another, which
\* clears nothing.
Sequential ==
    /\ MaxInFlight <= 1 /\ ~ Syncing
    /\ Proxied \/ \A m, n \in Nodes : m = n
    /\ Proxied => \A q \in Menu : q.op \in {"patch", "remove"} => ToldName(q) = q.target
    /\ \A q \in Menu : q.op = "create" => q.target \in Permissions

\* "If proxy API would get called then it would automatically update the state
\* for all machines" (plugins/users/handlers.go): between requests that do not
\* overlap, and while no call fails, the caches of every node agree with the
\* indices, so the clears of the handlers leave no stale credential and no stale
\* password under any username.  It takes that ACCAPI calls with the username of
\* the client (Sequential): with another one, a write of /_user leaves both
\* caches of every node as they were, the client's own node included.
SequentialCoherence == Quiet => CredentialsFresh /\ PasswordsFresh

\* Whatever the requests did to each other and whichever calls failed, once
\* they are over the sync leaves no stale credential under any username on any
\* node.  What is cached without a username is EventuallyFreshEverywhere's.
EventuallyFresh == <>[]CredentialsFresh

\* "Update cached credentials" (plugins/permissions/sync_cache.go): the same of
\* every entry, also that of the empty username, by which a JWT with an empty
\* role and a basic auth header without a username are served.  The sync lists
\* the credential of that entry but writes it under its own username.
EventuallyFreshEverywhere ==
    <>[](\A n \in Nodes, k \in Keys : cred[n][k] # None => cred[n][k] = store[cred[n][k].name])

\* "detect change in password and delete the cached password"
\* (plugins/users/sync_cache.go): with the requests over, syncs also get rid of
\* a cached password that is no longer the user's.
EventuallyFreshPasswords == <>[]PasswordsFresh
=============================================================================
