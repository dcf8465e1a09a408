---------------------------- MODULE AccessProofs ----------------------------
(***************************************************************************)
(* Proofs about Access: its types, that the rights of documents agree, and *)
(* that it implements AccessPolicy.                                        *)
(***************************************************************************)
EXTENDS Access, TLAPS

\* The rights of one document agree (see RightsAgree).
Agrees(d) ==
    /\ d.acls \subseteq ACLsFor(d.categories)
    /\ d.kind = "user" => d.categories = GetCategories(d.actions)

\* A patch that keeps them so: acls come with categories, and for a user both
\* with actions.
KeepsAgreement(b, kind) ==
    /\ b.categories = None => b.acls = None /\ b.actions = None
    /\ b.categories # None => b.acls # None /\ b.acls \subseteq ACLsFor(b.categories)
    /\ kind = "user" /\ b.actions = None => b.categories = None
    /\ kind = "user" /\ b.actions # None => b.categories = GetCategories(b.actions)

DocsOK ==
    \A k \in Kinds : \A n \in Names : docs[k][n] # None =>
        docs[k][n] \in past /\ docs[k][n].kind = k

\* What a handler is about to store.
DraftOK(a, stage, d) ==
    /\ stage = "role" => d.role \in Roles
    /\ a.method = "POST" => d \in Documents /\ Agrees(d) /\ d.kind = Kind(a)
    /\ a.method = "PATCH" => d \in Bodies /\ KeepsAgreement(d, Kind(a))

\* What is known of a request by its place in the chain and the handler.
RequestOK(r) ==
    LET q == req[r]
    IN  /\ q.stage # "idle" =>
              q.ask \in Asks /\ (q.ask.path = "/_role/{name}" => q.ask.target \in Roles)
        /\ q.stage \in {"check", "handle"} => q.obj \in past
        /\ q.stage \in {"role", "store"} => DraftOK(q.ask, q.stage, q.draft)

\* How far a request has come in being decided.
DecidedSoFar(r) ==
    LET q == req[r]
    IN  /\ q.since <= now
        /\ q.stage \in {"token", "claim", "lookup"} => q.at = 1
        /\ q.stage = "lookup" /\ q.ask.name = None =>
              \E c \in RoleKeys : q.ask.claims[c] = q.role
        /\ q.stage = "check" =>
              /\ Bears(q.obj, q.ask)
              /\ q.at \in 1..Len(Validators(q.ask))
              /\ \A i \in 1..(q.at - 1) : Passes(Validators(q.ask)[i], q.obj, q.ask, q.since)

IInv ==
    /\ TypeOK
    /\ RightsAgree
    /\ DocsOK
    /\ \A r \in Requests : RequestOK(r) /\ DecidedSoFar(r)


LEMMA TimesAreNumbers ==
  MaxTime \in Nat /\ -1 \in -1..MaxTime /\ \A t \in 0..MaxTime : t \in Nat
<1>1. MaxTime \in Nat
  BY AccessAssumption
<1> QED
  BY <1>1

LEMMA NowIsNumber ==
  ASSUME IInv
  PROVE  now \in Nat /\ now <= now
<1>1. now \in Nat
  BY TimesAreNumbers DEF IInv, TypeOK
<1> QED
  BY <1>1

-----------------------------------------------------------------------------
(* Steps of one request.                                                   *)

\* What a step changes of the requests.
Only(r) ==
    /\ req' \in [Requests -> RequestStates]
    /\ \A o \in Requests \ {r} : req'[o] = req[o]

LEMMA StageTyped ==
  ASSUME NEW q \in RequestStates, NEW s \in Stages
  PROVE  [q EXCEPT !.stage = s] \in RequestStates
  BY DEF RequestStates

LEMMA DraftTyped ==
  ASSUME NEW q \in RequestStates, NEW s \in Stages, NEW d \in Optional(Documents \cup Bodies)
  PROVE  [q EXCEPT !.stage = s, !.draft = d] \in RequestStates
  BY DEF RequestStates

LEMMA FoundTyped ==
  ASSUME NEW q \in RequestStates, NEW d \in Documents
  PROVE  [q EXCEPT !.stage = "check", !.obj = d] \in RequestStates
  BY DEF RequestStates, Stages, Optional

LEMMA SubmitTyped ==
  ASSUME TypeOK, NEW r \in Requests, NEW a \in Asks
  PROVE  Submit(r, a) \in RequestStates
<1>1. req[r] \in RequestStates
  BY DEF TypeOK
<1>2. now \in 0..MaxTime
  BY DEF TypeOK
<1>3. (IF a.name = None THEN "token" ELSE "lookup") \in Stages
  BY DEF Stages
<1> QED
  BY <1>1, <1>2, <1>3 DEF Submit, RequestStates, Optional

\* A step of one request that changes nothing else keeps the invariant if it
\* does so for this request.
LEMMA OneRequest ==
  ASSUME IInv, NEW r \in Requests, Only(r),
         UNCHANGED <<docs, past, now, stored, node, sync, raced>>,
         RequestOK(r)', DecidedSoFar(r)'
  PROVE  IInv'
<1>1. TypeOK'
  BY DEF IInv, TypeOK, Only
<1>2. RightsAgree' /\ DocsOK'
  BY DEF IInv, RightsAgree, DocsOK
<1>3. ASSUME NEW o \in Requests \ {r} PROVE RequestOK(o)' /\ DecidedSoFar(o)'
  BY <1>3 DEF IInv, Only, RequestOK, DecidedSoFar
<1> QED
  BY <1>1, <1>2, <1>3 DEF IInv

\* A request's stage is the only change, to one about which nothing is claimed.
Plain == Stages \ {"idle", "token", "claim", "lookup", "check", "handle", "role", "store"}

LEMMA MovesOn ==
  ASSUME IInv, NEW r \in Requests, NEW s \in Plain, req[r].stage # "idle", Goto(r, s),
         UNCHANGED <<docs, past, now, stored, node, sync, raced>>
  PROVE  IInv'
<1>1. req[r] \in RequestStates /\ req \in [Requests -> RequestStates]
  BY DEF IInv, TypeOK
<1>2. Only(r)
  BY <1>1, StageTyped DEF Only, Goto, Plain
<1>3. req'[r] = [req[r] EXCEPT !.stage = s]
  BY <1>1 DEF Goto
<1>4. RequestOK(r)'
  BY <1>1, <1>3 DEF IInv, RequestOK, Plain, RequestStates
<1>5. DecidedSoFar(r)'
  BY <1>1, <1>3 DEF IInv, DecidedSoFar, Plain, RequestStates
<1> QED
  BY <1>2, <1>4, <1>5, OneRequest

-----------------------------------------------------------------------------
(* Authentication and the chain.                                           *)

LEMMA ChainOf ==
  ASSUME NEW a \in Asks
  PROVE  Chain(a) \in {"ping", "users", "permissions", "auth", "elasticsearch"}
<1>1. CASE a.path = "/"
  BY <1>1 DEF Chain, UserPaths, PermissionPaths, ESPaths
<1>2. CASE a.path \in UserPaths
  BY <1>2 DEF Chain, UserPaths, PermissionPaths, ESPaths
<1>3. CASE a.path \in PermissionPaths
  BY <1>3 DEF Chain, UserPaths, PermissionPaths, ESPaths
<1>4. CASE a.path = "/_public_key"
  BY <1>4 DEF Chain, UserPaths, PermissionPaths, ESPaths
<1>5. CASE a.path \in ESPaths
  BY <1>5 DEF Chain, UserPaths, PermissionPaths, ESPaths
<1>6. a.path \in Paths
  BY DEF Asks
<1> QED
  BY <1>1, <1>2, <1>3, <1>4, <1>5, <1>6 DEF Paths

LEMMA ValidatorsSome ==
  ASSUME NEW a \in Asks
  PROVE  Len(Validators(a)) \in Nat \ {0}
<1>1. CASE Chain(a) = "elasticsearch"
  BY <1>1 DEF Validators
<1>2. CASE Chain(a) \in {"users", "permissions"}
  BY <1>2 DEF Validators
<1>3. CASE Chain(a) = "auth"
  BY <1>3 DEF Validators
<1>4. CASE Chain(a) = "ping"
  BY <1>4 DEF Validators
<1> QED
  BY <1>1, <1>2, <1>3, <1>4, ChainOf

\* What a validator passes now it would have passed before: nothing but the
\* expiry looks at the clock.
LEMMA PassesEarlier ==
  ASSUME NEW v, NEW d \in Documents, NEW a, NEW t \in Nat, NEW u \in Nat, u <= t,
         Passes(v, d, a, t),
         v \in {"auth", "sources", "referers", "indices", "category", "acl", "op", "expiry", "access"}
  PROVE  Passes(v, d, a, u)
<1>1. d.born \in 0..MaxTime /\ d.ttl \in -1..MaxTime
  BY DEF Documents
<1>2. d.born \in Int /\ d.ttl \in Int
  BY <1>1, TimesAreNumbers
<1>3. IsExpired(d, u) => IsExpired(d, t)
  BY <1>2 DEF IsExpired
<1> QED
  BY <1>3 DEF Passes

LEMMA SubmitKeeps ==
  ASSUME IInv, NEW r \in Requests, NEW a \in Asks, a.path = "/_role/{name}" => a.target \in Roles,
         req' = [req EXCEPT ![r] = Submit(r, a)],
         UNCHANGED <<docs, past, now, stored, node, sync, raced>>
  PROVE  IInv'
<1>1. Submit(r, a) \in RequestStates /\ req \in [Requests -> RequestStates]
  BY SubmitTyped DEF IInv, TypeOK
<1>2. Only(r) /\ req'[r] = Submit(r, a)
  BY <1>1 DEF Only
<1>3. /\ Submit(r, a).stage = IF a.name = None THEN "token" ELSE "lookup"
      /\ Submit(r, a).ask = a /\ Submit(r, a).since = now /\ Submit(r, a).at = 1
  BY DEF Submit, IInv, TypeOK, RequestStates
<1>4. RequestOK(r)'
  BY <1>2, <1>3 DEF RequestOK
<1>5. now <= now
  BY NowIsNumber
<1>6. req'[r].stage \in {"token", "lookup"} /\ (req'[r].stage = "lookup" => req'[r].ask.name # None)
  BY <1>2, <1>3
<1>7. DecidedSoFar(r)'
  <2>1. req'[r].since = now /\ req'[r].at = 1
    BY <1>2, <1>3
  <2>2. now' = now
    OBVIOUS
  <2> QED
    BY <2>1, <2>2, <1>5, <1>6 DEF DecidedSoFar
<1> QED
  BY <1>2, <1>4, <1>7, OneRequest

LEMMA ArriveKeeps ==
  ASSUME IInv, NEW r \in Requests, NEW a \in Menu, Arrive(r, a)
  PROVE  IInv'
<1>1. a \in Asks /\ (a.path = "/_role/{name}" => a.target \in Roles)
  BY AccessAssumption
<1> QED
  BY <1>1, SubmitKeeps DEF Arrive

LEMMA VerifyKeeps ==
  ASSUME IInv, NEW r \in Requests, Verify(r)
  PROVE  IInv'
<1>1. req[r] \in RequestStates /\ req \in [Requests -> RequestStates]
  BY DEF IInv, TypeOK
<1>2. PICK s \in {"claim", "unknown"} : Goto(r, s)
  BY DEF Verify
<1>3. CASE s = "unknown"
  BY <1>2, <1>3, MovesOn DEF Verify, At, Plain, Stages
<1>4. CASE s = "claim"
  <2>1. req'[r] = [req[r] EXCEPT !.stage = "claim"] /\ Only(r)
    BY <1>1, <1>2, <1>4, StageTyped DEF Goto, Only, Stages
  <2>2. RequestOK(r)'
    BY <1>1, <2>1 DEF IInv, RequestOK, RequestStates, Verify, At
  <2>3. DecidedSoFar(r)'
    BY <1>1, <2>1 DEF IInv, DecidedSoFar, RequestStates, Verify, At
  <2> QED
    BY <2>1, <2>2, <2>3, OneRequest DEF Verify
<1> QED
  BY <1>2, <1>3, <1>4

LEMMA ReadRoleKeeps ==
  ASSUME IInv, NEW r \in Requests, ReadRole(r)
  PROVE  IInv'
<1> DEFINE c == req[r].ask.claims
           role == IF node.roleKey # "" /\ c[node.roleKey] # None THEN c[node.roleKey] ELSE c["role"]
<1>1. req[r] \in RequestStates /\ req \in [Requests -> RequestStates] /\ req[r].stage = "claim"
  BY DEF IInv, TypeOK, ReadRole, At
<1>2. req[r].ask \in Asks /\ c \in [RoleKeys -> Optional(Roles \cup {""})]
  BY <1>1 DEF IInv, RequestOK, Asks
<1>3. \E k \in RoleKeys : c[k] = role
  BY AccessAssumption DEF IInv, TypeOK, KeyRecords
<1>4. CASE role = None
  BY <1>1, <1>4, MovesOn DEF ReadRole, Plain, Stages
<1>5. CASE role # None
  <2>1. role \in Roles \cup {""}
    BY <1>2, <1>3, <1>5 DEF Optional
  <2>2. [req[r] EXCEPT !.stage = "lookup", !.role = role] \in RequestStates
    BY <1>1, <2>1 DEF RequestStates, Stages
  <2>3. req' = [req EXCEPT ![r] = [req[r] EXCEPT !.stage = "lookup", !.role = role]]
    BY <1>1, <1>5 DEF ReadRole
  <2>4. Only(r) /\ req'[r] = [req[r] EXCEPT !.stage = "lookup", !.role = role]
    BY <1>1, <2>2, <2>3 DEF Only
  <2>5. RequestOK(r)'
    BY <1>1, <1>2, <2>4 DEF IInv, RequestOK, RequestStates
  <2>6. req'[r].stage = "lookup" /\ req'[r].role = role /\ req'[r].ask = req[r].ask
        /\ req'[r].at = req[r].at /\ req'[r].since = req[r].since
    BY <1>1, <2>4 DEF RequestStates
  <2>7. \E k \in RoleKeys : req'[r].ask.claims[k] = req'[r].role
    BY <1>3, <2>6
  <2>8. req[r].since <= now /\ req[r].at = 1
    BY <1>1 DEF IInv, DecidedSoFar
  <2>9. DecidedSoFar(r)'
    BY <2>6, <2>7, <2>8 DEF DecidedSoFar, ReadRole
  <2> QED
    BY <2>4, <2>5, <2>9, OneRequest DEF ReadRole
<1> QED
  BY <1>4, <1>5

LEMMA FoundKeeps ==
  ASSUME IInv, NEW r \in Requests, NEW d \in past, At(r, "lookup"), Found(r, d),
         Bears(d, req[r].ask),
         UNCHANGED <<docs, past, now, stored, node, sync, raced>>
  PROVE  IInv'
<1>1. req[r] \in RequestStates /\ req \in [Requests -> RequestStates] /\ d \in Documents
  BY DEF IInv, TypeOK
<1>2. req[r].stage = "lookup" /\ req[r].ask \in Asks /\ req[r].at = 1 /\ req[r].since <= now
  BY DEF IInv, RequestOK, DecidedSoFar, At
<1>3. Only(r) /\ req'[r] = [req[r] EXCEPT !.stage = "check", !.obj = d]
  BY <1>1, FoundTyped DEF Only, Found
<1>4. RequestOK(r)'
  BY <1>1, <1>2, <1>3 DEF IInv, RequestOK, RequestStates
<1>5. /\ req'[r].stage = "check" /\ req'[r].obj = d /\ req'[r].ask = req[r].ask
      /\ req'[r].at = 1 /\ req'[r].since = req[r].since
  BY <1>1, <1>2, <1>3 DEF RequestStates
<1>6. 1 \in 1..Len(Validators(req[r].ask)) /\ 1..(1 - 1) = {}
  BY <1>2, ValidatorsSome
<1>7. DecidedSoFar(r)'
  BY <1>2, <1>5, <1>6 DEF DecidedSoFar
<1> QED
  BY <1>3, <1>4, <1>7, OneRequest

LEMMA FoundOrUnknown ==
  ASSUME IInv, NEW r \in Requests, At(r, "lookup"), Goto(r, "unknown"),
         UNCHANGED <<docs, past, now, stored, node, sync, raced>>
  PROVE  IInv'
  BY MovesOn DEF At, Plain, Stages

\* What a search by role finds bears the role of the token.
LEMMA RoleBears ==
  ASSUME IInv, NEW r \in Requests, At(r, "lookup"), req[r].ask.name = None, req[r].role # "",
         NEW d \in Stored("permission"), d.role = req[r].role
  PROVE  d \in past /\ Bears(d, req[r].ask)
<1>1. PICK n \in Names : d = docs["permission"][n] /\ d # None
  BY DEF Stored
<1>2. d \in past /\ d.kind = "permission"
  BY <1>1 DEF IInv, DocsOK, Kinds
<1>3. \E c \in RoleKeys : req[r].ask.claims[c] = d.role
  BY DEF IInv, DecidedSoFar, At
<1> QED
  BY <1>2, <1>3 DEF Bears

\* What the cache has for no name bears an empty role.
LEMMA NamelessBears ==
  ASSUME IInv, NEW r \in Requests, At(r, "lookup"), req[r].ask.name = None, req[r].role = "",
         NEW d \in past, d.kind = "permission", d.role # ""
  PROVE  Bears(d, req[r].ask)
<1>1. \E c \in RoleKeys : req[r].ask.claims[c] = ""
  BY DEF IInv, DecidedSoFar, At
<1> QED
  BY <1>1 DEF Bears

LEMMA FindKeeps ==
  ASSUME IInv, NEW r \in Requests, FindByRole(r) \/ FindNameless(r) \/ FindByName(r)
  PROVE  IInv'
<1>1. CASE FindByRole(r)
  BY <1>1, RoleBears, FoundKeeps, FoundOrUnknown DEF FindByRole
<1>2. CASE FindByName(r)
  <2>1. ASSUME NEW d \in past, d.name = req[r].ask.name, Found(r, d) PROVE IInv'
    BY <1>2, <2>1, FoundKeeps DEF FindByName, Bears
  <2> QED
    BY <1>2, <2>1, FoundOrUnknown DEF FindByName
<1>3. CASE FindNameless(r)
  BY <1>3, NamelessBears, FoundKeeps, FoundOrUnknown DEF FindNameless
<1> QED
  BY <1>1, <1>2, <1>3

\* The names of the validators.
LEMMA ValidatorsNamed ==
  ASSUME NEW a \in Asks, NEW i \in 1..Len(Validators(a))
  PROVE  Validators(a)[i] \in
            {"auth", "sources", "referers", "indices", "category", "acl", "op", "expiry", "access"}
<1>1. CASE Chain(a) = "elasticsearch"
  BY <1>1 DEF Validators
<1>2. CASE Chain(a) \in {"users", "permissions"}
  BY <1>2 DEF Validators
<1>3. CASE Chain(a) = "auth"
  BY <1>3 DEF Validators
<1>4. CASE Chain(a) = "ping"
  BY <1>4 DEF Validators
<1> QED
  BY <1>1, <1>2, <1>3, <1>4, ChainOf

\* A validator that passes would have passed when the request arrived.
LEMMA PassedAtArrival ==
  ASSUME IInv, NEW r \in Requests, At(r, "check"),
         Passes(Validators(req[r].ask)[req[r].at], req[r].obj, req[r].ask, now)
  PROVE  \A i \in 1..req[r].at :
            Passes(Validators(req[r].ask)[i], req[r].obj, req[r].ask, req[r].since)
<1> DEFINE q == req[r]
<1>1. q \in RequestStates /\ q.ask \in Asks /\ q.obj \in Documents
  BY DEF IInv, TypeOK, RequestOK, At
<1>2. q.at \in 1..Len(Validators(q.ask)) /\ q.since <= now
      /\ \A i \in 1..(q.at - 1) : Passes(Validators(q.ask)[i], q.obj, q.ask, q.since)
  BY DEF IInv, DecidedSoFar, At
<1>3. q.since \in Nat /\ now \in Nat /\ q.at \in Nat
  BY <1>1, NowIsNumber, TimesAreNumbers DEF RequestStates
<1>4. Passes(Validators(q.ask)[q.at], q.obj, q.ask, q.since)
  BY <1>1, <1>2, <1>3, ValidatorsNamed, PassesEarlier
<1>5. \A i \in 1..q.at : i = q.at \/ i \in 1..(q.at - 1)
  BY <1>3
<1> QED
  BY <1>2, <1>4, <1>5

LEMMA ValidateKeeps ==
  ASSUME IInv, NEW r \in Requests, Validate(r)
  PROVE  IInv'
<1> DEFINE q == req[r]
           passes == Passes(Validators(q.ask)[q.at], q.obj, q.ask, now)
           next == IF q.at = Len(Validators(q.ask)) THEN "handle" ELSE "check"
<1>1. /\ q \in RequestStates /\ req \in [Requests -> RequestStates]
      /\ q.ask \in Asks /\ q.stage = "check" /\ q.obj \in past
  BY DEF IInv, TypeOK, RequestOK, Validate, At
<1>2. CASE ~ passes
  BY <1>1, <1>2, MovesOn DEF Validate, Plain, Stages
<1>3. CASE passes
  <2>1. req' = [req EXCEPT ![r] = [q EXCEPT !.at = @ + 1, !.stage = next]]
    BY <1>1, <1>3 DEF Validate
  <2>2. q.at \in Nat /\ q.at + 1 \in Nat /\ next \in {"handle", "check"}
    <3>1. q.at \in Nat
      BY <1>1 DEF RequestStates
    <3> QED
      BY <3>1
  <2>3. [q EXCEPT !.at = @ + 1, !.stage = next] \in RequestStates
    BY <1>1, <2>2 DEF RequestStates, Stages
  <2>4. Only(r) /\ req'[r] = [q EXCEPT !.at = @ + 1, !.stage = next]
    BY <1>1, <2>1, <2>3 DEF Only
  <2>5. /\ req'[r].stage = next /\ req'[r].at = q.at + 1 /\ req'[r].ask = q.ask
        /\ req'[r].obj = q.obj /\ req'[r].since = q.since
    BY <1>1, <2>4 DEF RequestStates
  <2>6. RequestOK(r)'
    BY <1>1, <2>2, <2>5 DEF IInv, RequestOK, Validate
  <2>7. \A i \in 1..q.at : Passes(Validators(q.ask)[i], q.obj, q.ask, q.since)
    BY <1>1, <1>3, PassedAtArrival DEF At
  <2>8. q.since <= now /\ Bears(q.obj, q.ask) /\ q.at \in 1..Len(Validators(q.ask))
    BY <1>1 DEF IInv, DecidedSoFar
  <2>9. next = "check" => q.at + 1 \in 1..Len(Validators(q.ask))
    BY <1>1, <2>2, <2>8, ValidatorsSome
  <2>10. (q.at + 1) - 1 = q.at
    BY <2>2
  <2>11. DecidedSoFar(r)'
    BY <2>2, <2>5, <2>7, <2>8, <2>9, <2>10 DEF DecidedSoFar, Validate
  <2> QED
    BY <2>4, <2>6, <2>11, OneRequest DEF Validate
<1> QED
  BY <1>2, <1>3

-----------------------------------------------------------------------------
(* What handlers make of bodies.                                           *)

LEMMA GivenTyped ==
  ASSUME NEW S, NEW new \in Optional(S), NEW old \in S
  PROVE  Given(new, old) \in S
  BY DEF Given, Optional

LEMMA NoneIsOptional == \A S : None \in Optional(S)
  BY DEF Optional

LEMMA AclsOfCategories ==
  ASSUME NEW cs \in SUBSET Categories
  PROVE  ACLsFor(cs) \in SUBSET Acls
  BY DEF ACLsFor, Acls

LEMMA CategoriesOfActions ==
  ASSUME NEW actions \in SUBSET Actions
  PROVE  GetCategories(actions) \in SUBSET Categories
<1>1. ASSUME NEW a \in Actions PROVE ActionToCategories[a] \subseteq Categories
  BY <1>1 DEF Actions, ActionToCategories, Categories, ES
<1> QED
  BY <1>1 DEF GetCategories

LEMMA NewPermissionGood ==
  ASSUME IInv, NEW r \in Requests, NEW admin \in BOOLEAN, At(r, "handle"),
         AclsFit(req[r].ask.body.acls, NewPermission(r, admin, req[r].ask.body).categories)
  PROVE  LET d == NewPermission(r, admin, req[r].ask.body)
         IN  d \in Documents /\ Agrees(d) /\ d.kind = "permission"
<1> DEFINE b == req[r].ask.body
           d == NewPermission(r, admin, b)
           cs == Given(b.categories, IF admin THEN Categories ELSE DefaultCategories)
           routed == IF req[r].ask.path = "/_role/{name}" THEN req[r].ask.target ELSE ""
<1>1. req[r].ask \in Asks /\ b \in Bodies /\ routed \in Roles \cup {""}
  BY DEF IInv, RequestOK, At, Asks
<1>2. /\ b.role \in Optional(Roles \cup {""}) /\ b.categories \in Optional(SUBSET Categories)
      /\ b.acls \in Optional(SUBSET Acls) /\ b.ops \in Optional(SUBSET Ops)
      /\ b.indices \in Optional(SUBSET Places) /\ b.sources \in Optional(SUBSET IPs)
      /\ b.referers \in Optional(SUBSET Sites) /\ b.ttl \in Optional(-1..MaxTime)
  BY <1>1 DEF Bodies
<1>3. cs \in SUBSET Categories
  <2>1. (IF admin THEN Categories ELSE DefaultCategories) \in SUBSET Categories
    BY DEF DefaultCategories, Categories, ES
  <2> QED
    BY <1>2, <2>1, GivenTyped
<1>4. Given(b.acls, ACLsFor(cs)) \in SUBSET Acls
  BY <1>2, <1>3, AclsOfCategories, GivenTyped
<1>5. Given(b.ops, IF admin THEN Ops ELSE {"read"}) \in SUBSET Ops
  <2>1. (IF admin THEN Ops ELSE {"read"}) \in SUBSET Ops
    BY DEF Ops
  <2> QED
    BY <1>2, <2>1, GivenTyped
<1>6. /\ Given(b.indices, IF admin THEN Places ELSE {}) \in SUBSET Places
      /\ Given(b.sources, IPs) \in SUBSET IPs /\ Given(b.referers, Sites) \in SUBSET Sites
  <2>1. (IF admin THEN Places ELSE {}) \in SUBSET Places /\ IPs \in SUBSET IPs /\ Sites \in SUBSET Sites
    OBVIOUS
  <2> QED
    BY <1>2, <2>1, GivenTyped
<1>7. (IF b.ttl \in {None, 0} THEN -1 ELSE b.ttl) \in -1..MaxTime
  <2>1. -1 \in -1..MaxTime
    BY TimesAreNumbers
  <2> QED
    BY <1>2, <2>1 DEF Optional
<1>8. (IF b.role \in {None, ""} THEN routed ELSE b.role) \in Roles \cup {""}
  BY <1>1, <1>2 DEF Optional
<1>9. r \in Names /\ now \in 0..MaxTime
  BY AccessAssumption DEF IInv, TypeOK
<1>10. d \in Documents
  BY <1>3, <1>4, <1>5, <1>6, <1>7, <1>8, <1>9 DEF NewPermission, Documents, Kinds
<1>11. d.categories = cs /\ d.acls = Given(b.acls, ACLsFor(cs)) /\ d.kind = "permission"
  BY DEF NewPermission
<1>12. Agrees(d)
  BY <1>11 DEF Agrees, AclsFit, Given
<1> QED
  BY <1>10, <1>11, <1>12

LEMMA NewUserGood ==
  ASSUME IInv, NEW b \in Bodies, UserFits(b)
  PROVE  NewUser(b) \in Documents /\ Agrees(NewUser(b)) /\ NewUser(b).kind = "user"
<1> DEFINE d == NewUser(b)
           admin == b.admin = TRUE
           actions == IF admin THEN Actions ELSE b.actions
           cs == GetCategories(actions)
<1>1. /\ b.name \in Names /\ b.actions \in Optional(SUBSET Actions)
      /\ b.acls \in Optional(SUBSET Acls)
      /\ b.indices \in Optional(SUBSET Places) /\ b.sources \in Optional(SUBSET IPs)
  BY DEF Bodies, UserFits, Optional
<1>2. actions \in SUBSET Actions
  BY <1>1 DEF UserFits, Optional
<1>3. cs \in SUBSET Categories
  BY <1>2, CategoriesOfActions
<1>4. Given(b.acls, ACLsFor(cs)) \in SUBSET Acls
  BY <1>1, <1>3, AclsOfCategories, GivenTyped
<1>5. /\ Given(b.indices, IF admin THEN Places ELSE {}) \in SUBSET Places
      /\ Given(b.sources, IPs) \in SUBSET IPs
  <2>1. (IF admin THEN Places ELSE {}) \in SUBSET Places /\ IPs \in SUBSET IPs
    OBVIOUS
  <2> QED
    BY <1>1, <2>1, GivenTyped
<1>6. now \in 0..MaxTime
  BY DEF IInv, TypeOK
<1>7. d \in Documents
  BY <1>1, <1>2, <1>3, <1>4, <1>5, <1>6, TimesAreNumbers DEF NewUser, Documents, Kinds
<1>8. /\ d.categories = cs /\ d.actions = actions /\ d.acls = Given(b.acls, ACLsFor(cs))
      /\ d.kind = "user"
  BY DEF NewUser
<1>9. Agrees(d)
  BY <1>8 DEF Agrees, AclsFit, Given, UserFits
<1> QED
  BY <1>7, <1>8, <1>9


LEMMA RightsAreSets ==
  /\ \A S \in SUBSET Categories : S # None
  /\ \A S \in SUBSET Acls : S # None
  BY AccessAssumption

LEMMA PermissionPatchGood ==
  ASSUME NEW b \in Bodies, PatchFits(b)
  PROVE  PermissionPatch(b) \in Bodies /\ KeepsAgreement(PermissionPatch(b), "permission")
<1> DEFINE p == PermissionPatch(b)
           acls == IF b.categories = None THEN None ELSE Given(b.acls, ACLsFor(b.categories))
           ttl == IF b.ttl = 0 THEN None ELSE b.ttl
<1>1. /\ b.role \in Optional(Roles \cup {""}) /\ b.categories \in Optional(SUBSET Categories)
      /\ b.acls \in Optional(SUBSET Acls) /\ b.ops \in Optional(SUBSET Ops)
      /\ b.indices \in Optional(SUBSET Places) /\ b.sources \in Optional(SUBSET IPs)
      /\ b.referers \in Optional(SUBSET Sites) /\ b.ttl \in Optional(-1..MaxTime)
  BY DEF Bodies
<1>2. ASSUME b.categories # None PROVE acls \in SUBSET Acls /\ acls \subseteq ACLsFor(b.categories)
  <2>1. b.categories \in SUBSET Categories
    BY <1>1, <1>2 DEF Optional
  <2>2. acls \in SUBSET Acls
    BY <1>1, <1>2, <2>1, AclsOfCategories, GivenTyped
  <2> QED
    BY <1>2, <2>2 DEF PatchFits, AclsFit, Given
<1>3. acls \in Optional(SUBSET Acls)
  BY <1>2 DEF Optional
<1>4. ttl \in Optional(-1..MaxTime)
  BY <1>1 DEF Optional
<1>5. p \in Bodies
  BY <1>1, <1>3, <1>4, NoneIsOptional DEF PermissionPatch, Bodies
<1>6. p.categories = b.categories /\ p.acls = acls /\ p.actions = None
  BY DEF PermissionPatch
<1>7. KeepsAgreement(p, "permission")
  BY <1>2, <1>6, RightsAreSets DEF KeepsAgreement
<1> QED
  BY <1>5, <1>7

LEMMA UserPatchGood ==
  ASSUME NEW b \in Bodies
  PROVE  UserPatch(b) \in Bodies /\ KeepsAgreement(UserPatch(b), "user")
<1> DEFINE p == UserPatch(b)
           actions == Given(b.actions, IF b.admin = TRUE THEN Actions ELSE None)
           categories == IF actions = None THEN None ELSE GetCategories(actions)
           acls == IF actions = None THEN None ELSE ACLsFor(categories)
<1>1. /\ b.name \in Optional(Names) /\ b.admin \in Optional(BOOLEAN)
      /\ b.actions \in Optional(SUBSET Actions)
      /\ b.indices \in Optional(SUBSET Places) /\ b.sources \in Optional(SUBSET IPs)
  BY DEF Bodies
<1>2. actions \in Optional(SUBSET Actions)
  BY <1>1 DEF Given, Optional
<1>3. ASSUME actions # None
      PROVE  categories \in SUBSET Categories /\ acls \in SUBSET Acls /\ acls = ACLsFor(categories)
  BY <1>2, <1>3, CategoriesOfActions, AclsOfCategories DEF Optional
<1>4. categories \in Optional(SUBSET Categories) /\ acls \in Optional(SUBSET Acls)
  BY <1>3 DEF Optional
<1>5. p \in Bodies
  BY <1>1, <1>2, <1>4, NoneIsOptional DEF UserPatch, Bodies
<1>6. p.actions = actions /\ p.categories = categories /\ p.acls = acls
  BY DEF UserPatch
<1>7. KeepsAgreement(p, "user")
  BY <1>3, <1>6, RightsAreSets DEF KeepsAgreement
<1> QED
  BY <1>5, <1>7

LEMMA MergedGood ==
  ASSUME NEW d \in Documents, NEW p \in Bodies, Agrees(d), KeepsAgreement(p, d.kind)
  PROVE  Merged(d, p) \in Documents /\ Agrees(Merged(d, p)) /\ Merged(d, p).kind = d.kind
<1> DEFINE e == Merged(d, p)
<1>1. /\ d.name \in Names /\ d.role \in Roles \cup {""} /\ d.admin \in BOOLEAN
      /\ d.actions \in SUBSET Actions /\ d.categories \in SUBSET Categories
      /\ d.acls \in SUBSET Acls /\ d.ops \in SUBSET Ops /\ d.indices \in SUBSET Places
      /\ d.sources \in SUBSET IPs /\ d.referers \in SUBSET Sites /\ d.ttl \in -1..MaxTime
      /\ d.kind \in {"user", "permission"} /\ d.born \in 0..MaxTime
  BY DEF Documents, Kinds
<1>2. /\ p.name \in Optional(Names) /\ p.role \in Optional(Roles \cup {""})
      /\ p.admin \in Optional(BOOLEAN) /\ p.actions \in Optional(SUBSET Actions)
      /\ p.categories \in Optional(SUBSET Categories) /\ p.acls \in Optional(SUBSET Acls)
      /\ p.ops \in Optional(SUBSET Ops) /\ p.indices \in Optional(SUBSET Places)
      /\ p.sources \in Optional(SUBSET IPs) /\ p.referers \in Optional(SUBSET Sites)
      /\ p.ttl \in Optional(-1..MaxTime)
  BY DEF Bodies
<1>3. /\ Given(p.name, d.name) \in Names /\ Given(p.role, d.role) \in Roles \cup {""}
      /\ Given(p.admin, d.admin) \in BOOLEAN /\ Given(p.actions, d.actions) \in SUBSET Actions
      /\ Given(p.categories, d.categories) \in SUBSET Categories
      /\ Given(p.acls, d.acls) \in SUBSET Acls /\ Given(p.ops, d.ops) \in SUBSET Ops
      /\ Given(p.indices, d.indices) \in SUBSET Places
      /\ Given(p.sources, d.sources) \in SUBSET IPs
      /\ Given(p.referers, d.referers) \in SUBSET Sites
      /\ Given(p.ttl, d.ttl) \in -1..MaxTime
  BY <1>1, <1>2, GivenTyped
<1>4. /\ e.kind = d.kind /\ e.actions = Given(p.actions, d.actions)
      /\ e.categories = Given(p.categories, d.categories) /\ e.acls = Given(p.acls, d.acls)
  BY DEF Merged
<1>5. e \in Documents
  BY <1>1, <1>3 DEF Merged, Documents, Kinds
<1>6. Agrees(e)
  <2>1. CASE p.categories = None
    BY <1>4, <2>1 DEF Agrees, KeepsAgreement, Given
  <2>2. CASE p.categories # None
    BY <1>1, <1>4, <2>2 DEF Agrees, KeepsAgreement, Given
  <2> QED
    BY <2>1, <2>2
<1> QED
  BY <1>4, <1>5, <1>6

-----------------------------------------------------------------------------
(* The handlers.                                                           *)

LEMMA PrepareKeeps ==
  ASSUME IInv, NEW r \in Requests, NEW fits \in BOOLEAN, NEW d, At(r, "handle"),
         NEW next \in {"role", "store", "saveKey", "localKey"}, Prepare(r, fits, d, next),
         fits => d \in Optional(Documents \cup Bodies),
         fits /\ next \in {"role", "store"} => DraftOK(req[r].ask, next, d)
  PROVE  IInv'
<1>1. req[r] \in RequestStates /\ req \in [Requests -> RequestStates] /\ req[r].stage = "handle"
  BY DEF IInv, TypeOK, At
<1>2. CASE ~ fits
  BY <1>1, <1>2, MovesOn DEF Prepare, Plain, Stages
<1>3. CASE fits
  <2>1. req' = [req EXCEPT ![r] = [req[r] EXCEPT !.stage = next, !.draft = d]]
    BY <1>1, <1>3 DEF Prepare
  <2>2. next \in Stages
    BY DEF Stages
  <2>3. Only(r) /\ req'[r] = [req[r] EXCEPT !.stage = next, !.draft = d]
    BY <1>1, <1>3, <2>1, <2>2, DraftTyped DEF Only
  <2>4. /\ req'[r].stage = next /\ req'[r].draft = d /\ req'[r].ask = req[r].ask
        /\ req'[r].since = req[r].since
    BY <1>1, <2>3 DEF RequestStates
  <2>5. RequestOK(r)'
    BY <1>1, <1>3, <2>4 DEF IInv, RequestOK, DraftOK
  <2>6. DecidedSoFar(r)'
    BY <1>1, <2>4 DEF IInv, DecidedSoFar, Prepare
  <2> QED
    BY <2>3, <2>5, <2>6, OneRequest DEF Prepare
<1> QED
  BY <1>2, <1>3

LEMMA ServeKeeps ==
  ASSUME IInv, NEW r \in Requests, Forward(r) \/ Read(r)
  PROVE  IInv'
<1>1. req[r].stage = "handle" /\ Goto(r, "done")
      /\ UNCHANGED <<docs, past, now, stored, node, sync, raced>>
  BY DEF Forward, Read, At
<1> QED
  BY <1>1, MovesOn DEF Plain, Stages

\* The handlers' routes.
LEMMA KindOf ==
  ASSUME NEW a
  PROVE  /\ a.path \in PermissionPaths => Kind(a) = "permission"
         /\ a.path \in UserPaths => Kind(a) = "user"
  BY DEF Kind, Chain, UserPaths, PermissionPaths, ESPaths

LEMMA PostPermissionKeeps ==
  ASSUME IInv, NEW r \in Requests, PostPermission(r)
  PROVE  IInv'
<1> DEFINE a == req[r].ask
           b == a.body
           d == NewPermission(r, req[r].obj.admin, b)
           fits == AclsFit(b.acls, d.categories)
           next == IF d.role # "" THEN "role" ELSE "store"
<1>1. /\ At(r, "handle") /\ a.method = "POST" /\ Kind(a) = "permission"
      /\ Prepare(r, fits, d, next)
  BY KindOf DEF PostPermission, Handles, PermissionPaths
<1>2. req[r].obj.admin \in BOOLEAN
  BY <1>1 DEF IInv, TypeOK, RequestOK, At, Documents
<1>3. fits => d \in Documents /\ Agrees(d) /\ d.kind = "permission"
  BY <1>1, <1>2, NewPermissionGood
<1>4. fits => d.role \in Roles \cup {""}
  BY <1>3 DEF Documents
<1>5. fits => DraftOK(a, next, d)
  BY <1>1, <1>3, <1>4 DEF DraftOK
<1>6. fits \in BOOLEAN /\ next \in {"role", "store"}
  BY DEF AclsFit
<1>7. fits => d \in Optional(Documents \cup Bodies)
  BY <1>3 DEF Optional
<1> QED
  BY <1>1, <1>5, <1>6, <1>7, PrepareKeeps

LEMMA PatchPermissionKeeps ==
  ASSUME IInv, NEW r \in Requests, PatchPermission(r)
  PROVE  IInv'
<1> DEFINE a == req[r].ask
           b == a.body
           d == PermissionPatch(b)
           fits == PatchFits(b) /\ ~ a.local
           next == IF b.role \notin {None, ""} THEN "role" ELSE "store"
<1>1. /\ At(r, "handle") /\ a.method = "PATCH" /\ Kind(a) = "permission"
      /\ Prepare(r, fits, d, next)
  BY KindOf DEF PatchPermission, Handles, PermissionPaths
<1>2. b \in Bodies
  BY <1>1 DEF IInv, RequestOK, At, Asks
<1>3. fits => d \in Bodies /\ KeepsAgreement(d, "permission")
  BY <1>2, PermissionPatchGood
<1>4. d.role = b.role /\ (b.role \notin {None, ""} => b.role \in Roles)
  BY <1>2 DEF PermissionPatch, Bodies, Optional
<1>5. fits => DraftOK(a, next, d)
  BY <1>1, <1>3, <1>4 DEF DraftOK
<1>6. fits \in BOOLEAN /\ next \in {"role", "store"}
  BY DEF PatchFits
<1>7. fits => d \in Optional(Documents \cup Bodies)
  BY <1>3 DEF Optional
<1> QED
  BY <1>1, <1>5, <1>6, <1>7, PrepareKeeps

LEMMA PostUserKeeps ==
  ASSUME IInv, NEW r \in Requests, PostUser(r)
  PROVE  IInv'
<1> DEFINE a == req[r].ask
           b == a.body
           d == NewUser(b)
<1>1. At(r, "handle") /\ a.method = "POST" /\ Kind(a) = "user" /\ Prepare(r, UserFits(b), d, "store")
  BY KindOf DEF PostUser, Handles, UserPaths
<1>2. b \in Bodies
  BY <1>1 DEF IInv, RequestOK, At, Asks
<1>3. UserFits(b) => d \in Documents /\ Agrees(d) /\ d.kind = "user"
  BY <1>2, NewUserGood
<1>4. UserFits(b) => DraftOK(a, "store", d)
  BY <1>1, <1>3 DEF DraftOK
<1>5. UserFits(b) \in BOOLEAN
  BY DEF UserFits
<1>6. UserFits(b) => d \in Optional(Documents \cup Bodies)
  BY <1>3 DEF Optional
<1> QED
  BY <1>1, <1>4, <1>5, <1>6, PrepareKeeps

LEMMA PatchUserKeeps ==
  ASSUME IInv, NEW r \in Requests, PatchUser(r)
  PROVE  IInv'
<1> DEFINE a == req[r].ask
           b == a.body
           d == UserPatch(b)
           fits == ~ a.local
<1>1. At(r, "handle") /\ a.method = "PATCH" /\ Kind(a) = "user" /\ Prepare(r, fits, d, "store")
  BY KindOf DEF PatchUser, Handles, UserPaths
<1>2. b \in Bodies
  BY <1>1 DEF IInv, RequestOK, At, Asks
<1>3. d \in Bodies /\ KeepsAgreement(d, "user")
  BY <1>2, UserPatchGood
<1>4. DraftOK(a, "store", d)
  BY <1>1, <1>3 DEF DraftOK
<1>5. d \in Optional(Documents \cup Bodies)
  BY <1>3 DEF Optional
<1> QED
  BY <1>1, <1>4, <1>5, PrepareKeeps

\* Nothing is drafted by a deletion, or for the public key.
LEMMA OtherHandlersKeep ==
  ASSUME IInv, NEW r \in Requests, DeletePermission(r) \/ DeleteUser(r) \/ SetPublicKey(r)
  PROVE  IInv'
<1> DEFINE a == req[r].ask
<1>1. None \in Optional(Documents \cup Bodies)
  BY NoneIsOptional
<1>2. CASE DeletePermission(r) \/ DeleteUser(r)
  <2>1. At(r, "handle") /\ a.method = "DELETE" /\ Prepare(r, ~ a.local, None, "store")
    BY <1>2 DEF DeletePermission, DeleteUser, Handles
  <2>2. DraftOK(a, "store", None)
    BY <2>1 DEF DraftOK
  <2> QED
    BY <1>1, <2>1, <2>2, PrepareKeeps
<1>3. CASE SetPublicKey(r)
  <2>1. /\ At(r, "handle")
        /\ Prepare(r, a.body.key # None, None, IF a.local THEN "localKey" ELSE "saveKey")
    BY <1>3 DEF SetPublicKey, Handles
  <2> QED
    BY <1>1, <2>1, PrepareKeeps
<1> QED
  BY <1>2, <1>3

LEMMA SentOnTyped ==
  ASSUME NEW a \in Asks, NEW t \in Optional(Names \cup Roles)
  PROVE  LET c == [a EXCEPT !.path = "/_permission/{username}", !.target = t, !.uri = ""]
         IN  c \in Asks /\ c.path = "/_permission/{username}"
<1> DEFINE c == [a EXCEPT !.path = "/_permission/{username}", !.target = t, !.uri = ""]
<1>1. c.path = "/_permission/{username}"
  BY DEF Asks
<1>2. ASSUME NEW x \in Asks, NEW p \in Paths PROVE [x EXCEPT !.path = p] \in Asks
  BY DEF Asks
<1>3. ASSUME NEW x \in Asks PROVE [x EXCEPT !.target = t] \in Asks
  BY DEF Asks
<1>4. ASSUME NEW x \in Asks PROVE [x EXCEPT !.uri = ""] \in Asks
  BY DEF Asks
<1>5. "/_permission/{username}" \in Paths
  BY DEF Paths, PermissionPaths
<1>6. [a EXCEPT !.path = "/_permission/{username}"] \in Asks
  BY <1>2, <1>5
<1>7. c = [[[a EXCEPT !.path = "/_permission/{username}"] EXCEPT !.target = t] EXCEPT !.uri = ""]
  OBVIOUS
<1>8. c \in Asks
  BY <1>3, <1>6, <1>7, <1>4
<1> QED
  BY <1>1, <1>8

LEMMA RedirectKeeps ==
  ASSUME IInv, NEW r \in Requests, Redirect(r)
  PROVE  IInv'
<1> DEFINE a == req[r].ask
<1>1. a \in Asks /\ req[r].stage = "handle"
  BY DEF IInv, RequestOK, Redirect, At
<1>2. CASE Goto(r, "done")
  BY <1>1, <1>2, MovesOn DEF Redirect, Plain, Stages
<1>3. ASSUME NEW d \in Stored("permission"),
             req' = [req EXCEPT ![r] = Submit(r,
                       [a EXCEPT !.path = "/_permission/{username}", !.target = d.name, !.uri = ""])]
      PROVE  IInv'
  <2> DEFINE c == [a EXCEPT !.path = "/_permission/{username}", !.target = d.name, !.uri = ""]
  <2>1. PICK n \in Names : d = docs["permission"][n] /\ d # None
    BY DEF Stored
  <2>2. d.name \in Names
    BY <2>1 DEF IInv, TypeOK, DocsOK, Kinds, Documents
  <2>3. d.name \in Optional(Names \cup Roles)
    BY <2>2 DEF Optional
  <2>4. c \in Asks /\ c.path = "/_permission/{username}"
    BY <1>1, <2>3, SentOnTyped
  <2> QED
    BY <1>3, <2>4, SubmitKeeps DEF Redirect
<1> QED
  BY <1>2, <1>3 DEF Redirect


-----------------------------------------------------------------------------
(* What is stored, and the public key.                                     *)

LEMMA CheckRoleKeeps ==
  ASSUME IInv, NEW r \in Requests, CheckRole(r)
  PROVE  IInv'
<1>1. req[r] \in RequestStates /\ req \in [Requests -> RequestStates] /\ req[r].stage = "role"
  BY DEF IInv, TypeOK, CheckRole, At
<1>2. PICK s \in {"done", "store"} : Goto(r, s)
  BY DEF CheckRole
<1>3. req'[r] = [req[r] EXCEPT !.stage = s] /\ Only(r)
  BY <1>1, <1>2, StageTyped DEF Goto, Only, Stages
<1>4. raced' \subseteq Roles
  <2>1. req[r].draft.role \in Roles
    BY <1>1 DEF IInv, RequestOK, DraftOK
  <2> QED
    BY <2>1 DEF CheckRole, IInv, TypeOK
<1>5. UNCHANGED <<docs, past, now, stored, node, sync>>
  BY DEF CheckRole
<1>6. TypeOK'
  BY <1>3, <1>4, <1>5 DEF IInv, TypeOK, Only
<1>7. RightsAgree' /\ DocsOK'
  BY <1>5 DEF IInv, RightsAgree, DocsOK
<1>8. /\ req'[r].stage = s /\ req'[r].ask = req[r].ask /\ req'[r].draft = req[r].draft
      /\ req'[r].since = req[r].since
  BY <1>1, <1>3 DEF RequestStates
<1>9. RequestOK(r)' /\ DecidedSoFar(r)'
  BY <1>1, <1>2, <1>5, <1>8 DEF IInv, RequestOK, DecidedSoFar, DraftOK
<1>10. ASSUME NEW o \in Requests \ {r} PROVE RequestOK(o)' /\ DecidedSoFar(o)'
  BY <1>3, <1>5, <1>10 DEF IInv, Only, RequestOK, DecidedSoFar
<1> QED
  BY <1>6, <1>7, <1>9, <1>10 DEF IInv

\* A document that is stored, or None for one that is deleted.
LEMMA SavedKeeps ==
  ASSUME IInv, NEW r \in Requests, NEW kind \in Kinds, NEW id \in Names,
         NEW d \in Optional(Documents), d # None => Agrees(d) /\ d.kind = kind,
         Saved(r, kind, id, d)
  PROVE  IInv'
<1>1. req[r] \in RequestStates /\ req \in [Requests -> RequestStates] /\ req[r].stage = "store"
  BY DEF IInv, TypeOK, Saved, At
<1>2. req'[r] = [req[r] EXCEPT !.stage = "done"] /\ Only(r)
  BY <1>1, StageTyped DEF Saved, Goto, Only, Stages
<1>3. docs' = [docs EXCEPT ![kind][id] = d] /\ past' = past \cup ({d} \ {None})
      /\ UNCHANGED <<now, stored, node, sync, raced>>
  BY DEF Saved
<1>4. docs \in [Kinds -> [Names -> Optional(Documents)]] /\ past \subseteq Documents
  BY DEF IInv, TypeOK
<1>5. docs' \in [Kinds -> [Names -> Optional(Documents)]]
  BY <1>3, <1>4
<1>6. past' \subseteq Documents /\ past \subseteq past'
  BY <1>3, <1>4 DEF Optional
<1>7. TypeOK'
  BY <1>2, <1>3, <1>5, <1>6 DEF IInv, TypeOK, Only
<1>8. RightsAgree'
  BY <1>3 DEF IInv, RightsAgree, Agrees
<1>9. DocsOK'
  <2>1. ASSUME NEW k \in Kinds, NEW n \in Names, docs'[k][n] # None
        PROVE  docs'[k][n] \in past' /\ docs'[k][n].kind = k
    <3>1. docs'[k][n] = IF k = kind /\ n = id THEN d ELSE docs[k][n]
      BY <1>3, <1>4
    <3> QED
      BY <1>3, <2>1, <3>1 DEF IInv, DocsOK
  <2> QED
    BY <2>1 DEF DocsOK
<1>10. /\ req'[r].stage = "done" /\ req'[r].ask = req[r].ask
       /\ req'[r].since = req[r].since
  BY <1>1, <1>2 DEF RequestStates
<1>11. RequestOK(r)' /\ DecidedSoFar(r)'
  BY <1>1, <1>3, <1>10 DEF IInv, RequestOK, DecidedSoFar
<1>12. ASSUME NEW o \in Requests \ {r} PROVE RequestOK(o)' /\ DecidedSoFar(o)'
  <2>1. req'[o] = req[o] /\ now' = now
    BY <1>2, <1>3 DEF Only
  <2>2. RequestOK(o) /\ DecidedSoFar(o)
    BY DEF IInv
  <2>3. RequestOK(o)'
    BY <1>6, <2>1, <2>2 DEF RequestOK
  <2>4. DecidedSoFar(o)'
    BY <2>1, <2>2 DEF DecidedSoFar
  <2> QED
    BY <2>3, <2>4
<1> QED
  BY <1>7, <1>8, <1>9, <1>11, <1>12 DEF IInv

LEMMA StoreKeeps ==
  ASSUME IInv, NEW r \in Requests, Create(r) \/ Patch(r) \/ Delete(r) \/ StoreFails(r)
  PROVE  IInv'
<1> DEFINE a == req[r].ask
           d == req[r].draft
<1>1. req[r].stage = "store"
  BY DEF Create, Patch, Delete, StoreFails, Saved, At
<1>2. DraftOK(a, "store", d) /\ Kind(a) \in Kinds
  BY <1>1 DEF IInv, RequestOK, Kind, Kinds
<1>3. CASE Create(r)
  <2>1. d \in Documents /\ Agrees(d) /\ d.kind = Kind(a)
    BY <1>2, <1>3 DEF DraftOK, Create
  <2>2. d.name \in Names /\ d \in Optional(Documents)
    BY <2>1 DEF Documents, Optional
  <2> QED
    BY <1>2, <1>3, <2>1, <2>2, SavedKeeps DEF Create
<1>4. CASE Patch(r)
  <2> DEFINE k == Kind(a)
             n == Target(a)
             e == Merged(docs[k][n], d)
  <2>1. n \in Names /\ docs[k][n] # None /\ Saved(r, k, n, e)
    BY <1>4 DEF Patch
  <2>2. docs[k][n] \in past /\ docs[k][n].kind = k
    BY <1>2, <2>1 DEF IInv, DocsOK
  <2>3. docs[k][n] \in Documents /\ Agrees(docs[k][n])
    BY <2>2 DEF IInv, TypeOK, RightsAgree, Agrees
  <2>4. d \in Bodies /\ KeepsAgreement(d, k)
    BY <1>2, <1>4 DEF DraftOK, Patch
  <2>5. e \in Documents /\ Agrees(e) /\ e.kind = k
    BY <2>2, <2>3, <2>4, MergedGood
  <2>6. e \in Optional(Documents)
    BY <2>5 DEF Optional
  <2> QED
    BY <1>2, <2>1, <2>5, <2>6, SavedKeeps
<1>5. CASE Delete(r)
  BY <1>2, <1>5, NoneIsOptional, SavedKeeps DEF Delete
<1>6. CASE StoreFails(r)
  BY <1>1, <1>6, MovesOn DEF StoreFails, Plain, Stages
<1> QED
  BY <1>3, <1>4, <1>5, <1>6

\* A step that only moves a request on, and changes the public key.
LEMMA KeyMovesOn ==
  ASSUME IInv, NEW r \in Requests, NEW s \in Plain, req[r].stage # "idle", Goto(r, s),
         UNCHANGED <<docs, past, now, sync, raced>>,
         stored' \in KeyRecords, node' \in KeyRecords
  PROVE  IInv'
<1>1. req[r] \in RequestStates /\ req \in [Requests -> RequestStates]
  BY DEF IInv, TypeOK
<1>2. Only(r)
  BY <1>1, StageTyped DEF Only, Goto, Plain
<1>3. req'[r] = [req[r] EXCEPT !.stage = s]
  BY <1>1 DEF Goto
<1>4. RequestOK(r)'
  BY <1>1, <1>3 DEF IInv, RequestOK, Plain, RequestStates
<1>5. DecidedSoFar(r)'
  BY <1>1, <1>3 DEF IInv, DecidedSoFar, Plain, RequestStates
<1>6. TypeOK'
  BY <1>2 DEF IInv, TypeOK, Only
<1>7. RightsAgree' /\ DocsOK'
  BY DEF IInv, RightsAgree, DocsOK
<1>8. ASSUME NEW o \in Requests \ {r} PROVE RequestOK(o)' /\ DecidedSoFar(o)'
  BY <1>2, <1>8 DEF IInv, Only, RequestOK, DecidedSoFar
<1> QED
  BY <1>4, <1>5, <1>6, <1>7, <1>8 DEF IInv

LEMMA KeyTyped ==
  ASSUME IInv, NEW r \in Requests, req[r].stage # "idle"
  PROVE  /\ req[r].ask.body.key \in Optional(Keys) /\ RoleKey(req[r].ask) \in RoleKeys \cup {""}
         /\ stored \in KeyRecords /\ node \in KeyRecords
<1>1. req[r].ask.body \in Bodies
  BY DEF IInv, RequestOK, Asks
<1>2. "role" \in RoleKeys
  BY AccessAssumption
<1> QED
  BY <1>1, <1>2 DEF Bodies, RoleKey, IInv, TypeOK

LEMMA KeyKeeps ==
  ASSUME IInv, NEW r \in Requests, SaveKey(r) \/ SetLocalKey(r) \/ SetLocalRoleKey(r)
  PROVE  IInv'
<1>1. req[r].stage # "idle"
  BY DEF SaveKey, SetLocalKey, SetLocalRoleKey, At
<1>2. {"localKey", "localRoleKey", "done"} \subseteq Plain
  BY DEF Plain, Stages
<1>3. CASE SaveKey(r)
  <2>1. stored' \in KeyRecords
    <3> DEFINE k == req[r].ask.body.key
               rk == RoleKey(req[r].ask)
    <3>1. k \in Optional(Keys) /\ rk \in RoleKeys \cup {""} /\ stored \in KeyRecords
      BY <1>1, KeyTyped
    <3>2. stored' = stored \/ stored' = [key |-> k, roleKey |-> rk]
      BY <1>3 DEF SaveKey
    <3>3. [key |-> k, roleKey |-> rk] \in KeyRecords
      <4> HIDE DEF k, rk
      <4> QED
        BY <3>1 DEF KeyRecords
    <3> QED
      BY <3>1, <3>2, <3>3
  <2>2. PICK s \in Plain : Goto(r, s)
    BY <1>2, <1>3 DEF SaveKey
  <2> QED
    BY <1>1, <1>3, <2>1, <2>2, KeyTyped, KeyMovesOn DEF SaveKey
<1>4. CASE SetLocalKey(r)
  <2>1. node' \in KeyRecords
    BY <1>1, <1>4, KeyTyped DEF SetLocalKey, KeyRecords
  <2> QED
    BY <1>1, <1>2, <1>4, <2>1, KeyTyped, KeyMovesOn DEF SetLocalKey
<1>5. CASE SetLocalRoleKey(r)
  <2>1. node' \in KeyRecords
    BY <1>1, <1>5, KeyTyped DEF SetLocalRoleKey, KeyRecords
  <2> QED
    BY <1>1, <1>2, <1>5, <2>1, KeyTyped, KeyMovesOn DEF SetLocalRoleKey
<1> QED
  BY <1>3, <1>4, <1>5

LEMMA SyncKeeps ==
  ASSUME IInv, Sync
  PROVE  IInv'
<1> DEFINE Runs == [key : Optional(Keys), roleKey : RoleKeys \cup {""}, half : BOOLEAN]
<1>1. sync \in Optional(Runs) /\ node \in KeyRecords /\ stored \in KeyRecords
  BY DEF IInv, TypeOK
<1>2. UNCHANGED <<docs, past, now, stored, req, raced>>
  BY DEF Sync, SyncFetch, SyncKey, SyncRoleKey
<1>3. sync' \in Optional(Runs) /\ node' \in KeyRecords
  <2>1. CASE SyncFetch
    BY <1>1, <2>1 DEF SyncFetch, KeyRecords, Optional
  <2>2. CASE SyncKey
    BY <1>1, <2>2 DEF SyncKey, KeyRecords, Optional
  <2>3. CASE SyncRoleKey
    BY <1>1, <2>3 DEF SyncRoleKey, KeyRecords, Optional
  <2> QED
    BY <2>1, <2>2, <2>3 DEF Sync
<1>4. TypeOK'
  BY <1>2, <1>3 DEF IInv, TypeOK
<1> QED
  BY <1>2, <1>4 DEF IInv, RightsAgree, DocsOK, RequestOK, DecidedSoFar

LEMMA TickKeeps ==
  ASSUME IInv, Tick
  PROVE  IInv'
<1>1. UNCHANGED <<docs, past, stored, node, sync, req, raced>>
  BY DEF Tick
<1>2. now' \in 0..MaxTime /\ \A t \in 0..MaxTime : t <= now => t <= now'
  <2>1. MaxTime \in Nat /\ now \in 0..MaxTime
    BY TimesAreNumbers DEF IInv, TypeOK
  <2>2. now < MaxTime /\ now' = now + 1
    BY DEF Tick
  <2> QED
    BY <2>1, <2>2
<1>3. TypeOK'
  BY <1>1, <1>2 DEF IInv, TypeOK
<1>4. RightsAgree' /\ DocsOK'
  BY <1>1 DEF IInv, RightsAgree, DocsOK
<1>5. ASSUME NEW r \in Requests PROVE RequestOK(r)' /\ DecidedSoFar(r)'
  <2>1. req[r].since \in 0..MaxTime
    BY DEF IInv, TypeOK, RequestStates
  <2> QED
    BY <1>1, <1>2, <2>1 DEF IInv, RequestOK, DecidedSoFar
<1> QED
  BY <1>3, <1>4, <1>5 DEF IInv


-----------------------------------------------------------------------------
(* The invariant.                                                          *)

\* What the documents at the start are.
LEMMA InitialDocs ==
  /\ Initial \in [Kinds -> [Names -> Optional(Documents)]]
  /\ \A k \in Kinds, n \in Names : Initial[k][n] # None =>
        Initial[k][n] \in Documents /\ Initial[k][n].kind = k /\ Agrees(Initial[k][n])
<1>1. Initial \in [Kinds -> [Names -> Optional(Documents)]]
  BY AccessAssumption
<1>2. ASSUME NEW k \in Kinds, NEW n \in Names, Initial[k][n] # None
      PROVE  Initial[k][n] \in Documents /\ Initial[k][n].kind = k /\ Agrees(Initial[k][n])
  <2>1. Initial[k][n] \in Documents
    BY <1>1, <1>2 DEF Optional
  <2>2. /\ Initial[k][n].kind = k
        /\ Initial[k][n].acls \subseteq ACLsFor(Initial[k][n].categories)
        /\ k = "user" => Initial[k][n].categories = GetCategories(Initial[k][n].actions)
    BY <1>2, AccessAssumption
  <2> QED
    BY <2>1, <2>2 DEF Agrees
<1> QED
  BY <1>1, <1>2

LEMMA InitialRest ==
  /\ InitialKey \in KeyRecords /\ Start \in 0..MaxTime /\ 0 \in 0..MaxTime /\ 0 <= Start
<1>1. MaxTime \in Nat /\ Start \in 0..MaxTime
  BY AccessAssumption
<1>2. InitialKey \in KeyRecords
  BY AccessAssumption
<1> QED
  BY <1>1, <1>2

LEMMA InitOK == Init => IInv
<1> SUFFICES ASSUME Init PROVE IInv
  OBVIOUS
<1>1. \A d \in past : \E k \in Kinds, n \in Names : d = Initial[k][n] /\ d # None
  BY DEF Init
<1>2. \A k \in Kinds, n \in Names : Initial[k][n] # None => Initial[k][n] \in past
  BY DEF Init
<1>3. past \subseteq Documents /\ RightsAgree
  BY <1>1, InitialDocs DEF RightsAgree, Agrees
<1>4. Idle \in RequestStates
  <2>1. 1 \in Nat
    OBVIOUS
  <2> QED
    BY <2>1, InitialRest DEF Idle, RequestStates, Stages, Optional
<1>5. docs = Initial /\ now = Start /\ stored = InitialKey /\ node = InitialKey /\ sync = None
      /\ req = [r \in Requests |-> Idle] /\ raced = {}
  BY DEF Init
<1>6. TypeOK
  BY <1>3, <1>4, <1>5, InitialDocs, InitialRest DEF TypeOK, Optional
<1>7. DocsOK
  BY <1>2, <1>5, InitialDocs DEF DocsOK
<1>8. ASSUME NEW r \in Requests PROVE RequestOK(r) /\ DecidedSoFar(r)
  <2>1. req[r].stage = "idle" /\ req[r].since = 0
    BY <1>5 DEF Idle
  <2> QED
    BY <1>5, <2>1, InitialRest DEF RequestOK, DecidedSoFar
<1> QED
  BY <1>3, <1>6, <1>7, <1>8 DEF IInv

LEMMA HandleKeeps ==
  ASSUME IInv, NEW r \in Requests, Handle(r)
  PROVE  IInv'
<1>1. CASE Verify(r) \/ ReadRole(r)
  BY <1>1, VerifyKeeps, ReadRoleKeeps
<1>2. CASE FindByRole(r) \/ FindNameless(r) \/ FindByName(r)
  BY <1>2, FindKeeps
<1>3. CASE Validate(r)
  BY <1>3, ValidateKeeps
<1>4. CASE Forward(r) \/ Read(r)
  BY <1>4, ServeKeeps
<1>5. CASE PostPermission(r) \/ PatchPermission(r)
  BY <1>5, PostPermissionKeeps, PatchPermissionKeeps
<1>6. CASE PostUser(r) \/ PatchUser(r)
  BY <1>6, PostUserKeeps, PatchUserKeeps
<1>7. CASE DeletePermission(r) \/ DeleteUser(r) \/ SetPublicKey(r)
  BY <1>7, OtherHandlersKeep
<1>8. CASE Redirect(r)
  BY <1>8, RedirectKeeps
<1>9. CASE CheckRole(r)
  BY <1>9, CheckRoleKeeps
<1>10. CASE Create(r) \/ Patch(r) \/ Delete(r) \/ StoreFails(r)
  BY <1>10, StoreKeeps
<1>11. CASE SaveKey(r) \/ SetLocalKey(r) \/ SetLocalRoleKey(r)
  BY <1>11, KeyKeeps
<1> QED
  BY <1>1, <1>2, <1>3, <1>4, <1>5, <1>6, <1>7, <1>8, <1>9, <1>10, <1>11 DEF Handle

LEMMA StutterKeeps == IInv /\ UNCHANGED vars => IInv'
<1> SUFFICES ASSUME IInv, UNCHANGED vars PROVE IInv'
  OBVIOUS
<1>1. UNCHANGED <<docs, past, now, stored, node, sync, req, raced>>
  BY DEF vars
<1>2. TypeOK'
  BY <1>1 DEF IInv, TypeOK
<1>3. RightsAgree' /\ DocsOK'
  BY <1>1 DEF IInv, RightsAgree, DocsOK
<1>4. ASSUME NEW r \in Requests PROVE RequestOK(r)' /\ DecidedSoFar(r)'
  BY <1>1 DEF IInv, RequestOK, DecidedSoFar
<1> QED
  BY <1>2, <1>3, <1>4 DEF IInv

LEMMA NextKeeps == IInv /\ [Next]_vars => IInv'
<1> SUFFICES ASSUME IInv, [Next]_vars PROVE IInv'
  OBVIOUS
<1>1. ASSUME NEW r \in Requests, NEW a \in Menu, Arrive(r, a) PROVE IInv'
  BY <1>1, ArriveKeeps
<1>2. ASSUME NEW r \in Requests, Handle(r) PROVE IInv'
  BY <1>2, HandleKeeps
<1>3. CASE Sync
  BY <1>3, SyncKeeps
<1>4. CASE Tick
  BY <1>4, TickKeeps
<1>5. CASE UNCHANGED vars
  BY <1>5, StutterKeeps
<1> QED
  BY <1>1, <1>2, <1>3, <1>4, <1>5 DEF Next

LEMMA Invariance == Spec => []IInv
<1> QED
  BY InitOK, NextKeeps, PTL DEF Spec

\* Types: documents, requests and the public key keep the form that the code
\* stores and compares.
THEOREM TypeCorrect == Spec => []TypeOK
<1>1. IInv => TypeOK
  BY DEF IInv
<1> QED
  BY <1>1, Invariance, PTL

\* The rights of every document that is ever stored agree, whatever sequence
\* of creations and patches of users and permissions led to it.
THEOREM RightsAlwaysAgree == Spec => []RightsAgree
<1>1. IInv => RightsAgree
  BY DEF IInv
<1> QED
  BY <1>1, Invariance, PTL

-----------------------------------------------------------------------------
(* Roles.                                                                  *)

HasRole(n, role) == docs["permission"][n] # None /\ docs["permission"][n].role = role

\* A request that has checked the role and is about to store it.
Claims(r, role) == At(r, "store") /\ req[r].draft # None /\ req[r].draft.role = role

\* A role that no two requests checked at the same time has one permission, or
\* one request that is about to store one.
OneEach ==
    \A role \in PlainRoles \ raced :
        /\ \A n, m \in Names : HasRole(n, role) /\ HasRole(m, role) => n = m
        /\ \A r \in Requests : Claims(r, role) => \A n \in Names : ~ HasRole(n, role)
        /\ \A r, o \in Requests : Claims(r, role) /\ Claims(o, role) => r = o

\* Only r moves, and claims no role.
ClaimsNothing(r) ==
    /\ UNCHANGED <<docs, raced>>
    /\ \A o \in Requests \ {r} : req'[o] = req[o]
    /\ \/ req'[r].stage # "store"
       \/ req'[r].draft = None
       \/ req'[r].draft.role \notin PlainRoles

LEMMA NothingClaimed ==
  ASSUME OneEach, NEW r \in Requests, ClaimsNothing(r)
  PROVE  OneEach'
<1>1. \A n \in Names, role \in PlainRoles : HasRole(n, role)' = HasRole(n, role)
  BY DEF ClaimsNothing, HasRole
<1>2. \A o \in Requests, role \in PlainRoles : Claims(o, role)' => Claims(o, role)
  BY DEF ClaimsNothing, Claims, At
<1>3. raced' = raced
  BY DEF ClaimsNothing
<1> QED
  BY <1>1, <1>2, <1>3 DEF OneEach

LEMMA GotoClaimsNothing ==
  ASSUME IInv, NEW r \in Requests, NEW s \in Stages \ {"store"}, Goto(r, s), UNCHANGED <<docs, raced>>
  PROVE  ClaimsNothing(r)
<1>1. req[r] \in RequestStates /\ req \in [Requests -> RequestStates]
  BY DEF IInv, TypeOK
<1>2. req'[r] = [req[r] EXCEPT !.stage = s] /\ \A o \in Requests \ {r} : req'[o] = req[o]
  BY <1>1 DEF Goto
<1>3. req'[r].stage = s
  BY <1>1, <1>2 DEF RequestStates
<1> QED
  BY <1>2, <1>3 DEF ClaimsNothing

\* A handler that prepares no role to store, or one that it has yet to check.
LEMMA PrepareClaimsNothing ==
  ASSUME IInv, NEW r \in Requests, NEW fits \in BOOLEAN, NEW d,
         NEW next \in {"role", "store", "saveKey", "localKey"}, Prepare(r, fits, d, next),
         next = "store" => d = None \/ d.role \notin PlainRoles
  PROVE  ClaimsNothing(r)
<1>1. req[r] \in RequestStates /\ req \in [Requests -> RequestStates]
  BY DEF IInv, TypeOK
<1>2. CASE ~ fits
  BY <1>2, GotoClaimsNothing DEF Prepare, Stages
<1>3. CASE fits
  <2>1. req' = [req EXCEPT ![r] = [req[r] EXCEPT !.stage = next, !.draft = d]]
    BY <1>1, <1>3 DEF Prepare
  <2>2. req'[r] = [req[r] EXCEPT !.stage = next, !.draft = d] /\ \A o \in Requests \ {r} : req'[o] = req[o]
    BY <1>1, <2>1
  <2>3. req'[r].stage = next /\ req'[r].draft = d
    BY <1>1, <2>2 DEF RequestStates
  <2> QED
    BY <2>2, <2>3 DEF ClaimsNothing, Prepare
<1> QED
  BY <1>2, <1>3

\* No role is claimed before it is checked.
LEMMA HandlersClaimNothing ==
  ASSUME IInv, NEW r \in Requests,
         \/ PostPermission(r) \/ PatchPermission(r) \/ DeletePermission(r)
         \/ PostUser(r) \/ PatchUser(r) \/ DeleteUser(r) \/ SetPublicKey(r)
  PROVE  ClaimsNothing(r)
<1> DEFINE a == req[r].ask
           b == a.body
           made == NewPermission(r, req[r].obj.admin, b)
           fit == AclsFit(b.acls, made.categories)
           patchFits == PatchFits(b) /\ ~ a.local
           afterPost == IF made.role # "" THEN "role" ELSE "store"
           afterPatch == IF b.role \notin {None, ""} THEN "role" ELSE "store"
           afterKey == IF a.local THEN "localKey" ELSE "saveKey"
<1>1. fit \in BOOLEAN /\ patchFits \in BOOLEAN /\ UserFits(b) \in BOOLEAN
      /\ (~ a.local) \in BOOLEAN /\ (b.key # None) \in BOOLEAN
  BY DEF AclsFit, PatchFits, UserFits
<1>2. "" \notin PlainRoles /\ None \notin PlainRoles
  BY AccessAssumption
<1>3. CASE PostPermission(r)
  <2>1. Prepare(r, fit, made, afterPost)
    BY <1>3 DEF PostPermission
  <2> QED
    BY <1>1, <1>2, <2>1, PrepareClaimsNothing
<1>4. CASE PatchPermission(r)
  <2>1. Prepare(r, patchFits, PermissionPatch(b), afterPatch)
    BY <1>4 DEF PatchPermission
  <2>2. PermissionPatch(b).role = b.role
    BY DEF PermissionPatch
  <2> QED
    BY <1>1, <1>2, <2>1, <2>2, PrepareClaimsNothing
<1>5. CASE DeletePermission(r) \/ DeleteUser(r)
  <2>1. Prepare(r, ~ a.local, None, "store")
    BY <1>5 DEF DeletePermission, DeleteUser
  <2> QED
    BY <1>1, <2>1, PrepareClaimsNothing
<1>6. CASE PostUser(r)
  <2>1. Prepare(r, UserFits(b), NewUser(b), "store") /\ NewUser(b).role = ""
    BY <1>6 DEF PostUser, NewUser
  <2> QED
    BY <1>1, <1>2, <2>1, PrepareClaimsNothing
<1>7. CASE PatchUser(r)
  <2>1. Prepare(r, ~ a.local, UserPatch(b), "store") /\ UserPatch(b).role = None
    BY <1>7 DEF PatchUser, UserPatch
  <2> QED
    BY <1>1, <1>2, <2>1, PrepareClaimsNothing
<1>8. CASE SetPublicKey(r)
  <2>1. Prepare(r, b.key # None, None, afterKey)
    BY <1>8 DEF SetPublicKey
  <2> QED
    BY <1>1, <2>1, PrepareClaimsNothing
<1> QED
  BY <1>3, <1>4, <1>5, <1>6, <1>7, <1>8

LEMMA SubmitClaimsNothing ==
  ASSUME IInv, NEW r \in Requests, NEW a, req' = [req EXCEPT ![r] = Submit(r, a)], UNCHANGED <<docs, raced>>
  PROVE  ClaimsNothing(r)
<1>1. req[r] \in RequestStates /\ req \in [Requests -> RequestStates]
  BY DEF IInv, TypeOK
<1>2. req'[r] = Submit(r, a) /\ \A o \in Requests \ {r} : req'[o] = req[o]
  BY <1>1
<1>3. Submit(r, a).stage # "store"
  BY <1>1 DEF Submit, RequestStates
<1> QED
  BY <1>2, <1>3 DEF ClaimsNothing

\* Authentication, the chain and the public key have nothing to do with roles.
LEMMA OthersClaimNothing ==
  ASSUME IInv, NEW r \in Requests,
         \/ Verify(r) \/ ReadRole(r) \/ FindByRole(r) \/ FindNameless(r) \/ FindByName(r) \/ Validate(r)
         \/ Forward(r) \/ Read(r) \/ Redirect(r) \/ StoreFails(r)
         \/ SaveKey(r) \/ SetLocalKey(r) \/ SetLocalRoleKey(r)
  PROVE  ClaimsNothing(r)
<1> DEFINE Elsewhere == {"claim", "unknown", "denied", "done", "localKey", "localRoleKey"}
           q == req[r]
<1>1. q \in RequestStates /\ req \in [Requests -> RequestStates]
  BY DEF IInv, TypeOK
<1>2. UNCHANGED <<docs, raced>>
  BY DEF Verify, ReadRole, FindByRole, FindNameless, FindByName, Validate, Forward, Read, Redirect, StoreFails, SaveKey,
     SetLocalKey, SetLocalRoleKey
<1>3. ASSUME NEW s \in Elsewhere, Goto(r, s) PROVE ClaimsNothing(r)
  BY <1>2, <1>3, GotoClaimsNothing DEF Stages
<1>4. ASSUME NEW e, e.stage # "store", req' = [req EXCEPT ![r] = e] PROVE ClaimsNothing(r)
  <2>1. req'[r] = e /\ \A o \in Requests \ {r} : req'[o] = req[o]
    BY <1>1, <1>4
  <2> QED
    BY <1>2, <1>4, <2>1 DEF ClaimsNothing
<1>5. CASE Verify(r) \/ Forward(r) \/ Read(r) \/ StoreFails(r) \/ SetLocalKey(r) \/ SetLocalRoleKey(r)
  BY <1>3, <1>5 DEF Verify, Forward, Read, StoreFails, SetLocalKey, SetLocalRoleKey
<1>6. CASE SaveKey(r)
  BY <1>3, <1>6 DEF SaveKey
<1>7. CASE ReadRole(r)
  <2> DEFINE c == q.ask.claims
             role == IF node.roleKey # "" /\ c[node.roleKey] # None THEN c[node.roleKey] ELSE c["role"]
             e == [q EXCEPT !.stage = "lookup", !.role = role]
  <2>1. Goto(r, "unknown") \/ req' = [req EXCEPT ![r] = e]
    BY <1>1, <1>7 DEF ReadRole
  <2>2. e.stage = "lookup"
    BY <1>1 DEF RequestStates
  <2> HIDE DEF role, e
  <2> QED
    BY <1>3, <1>4, <2>1, <2>2
<1>8. ASSUME NEW d, Found(r, d) PROVE ClaimsNothing(r)
  <2> DEFINE e == [q EXCEPT !.stage = "check", !.obj = d]
  <2>1. req' = [req EXCEPT ![r] = e]
    BY <1>1, <1>8 DEF Found
  <2>2. e.stage = "check"
    BY <1>1 DEF RequestStates
  <2> HIDE DEF e
  <2> QED
    BY <1>4, <2>1, <2>2
<1>9. CASE FindByRole(r) \/ FindNameless(r) \/ FindByName(r)
  BY <1>3, <1>8, <1>9 DEF FindByRole, FindNameless, FindByName
<1>10. CASE Validate(r)
  <2> DEFINE next == IF q.at = Len(Validators(q.ask)) THEN "handle" ELSE "check"
             e == [q EXCEPT !.at = @ + 1, !.stage = next]
  <2>1. Goto(r, "denied") \/ req' = [req EXCEPT ![r] = e]
    BY <1>1, <1>10 DEF Validate
  <2>2. e.stage # "store"
    BY <1>1 DEF RequestStates
  <2> HIDE DEF next, e
  <2> QED
    BY <1>3, <1>4, <2>1, <2>2
<1>11. CASE Redirect(r)
  BY <1>2, <1>3, <1>11, SubmitClaimsNothing DEF Redirect
<1> QED
  BY <1>5, <1>6, <1>7, <1>9, <1>10, <1>11

\* Whoever claims a role found none with it, and whoever has claimed it before
\* is noticed.
LEMMA CheckRoleKeepsOne ==
  ASSUME IInv, OneEach, NEW r \in Requests, CheckRole(r)
  PROVE  OneEach'
<1>1. req[r] \in RequestStates /\ req \in [Requests -> RequestStates] /\ docs' = docs
  BY DEF IInv, TypeOK, CheckRole
<1>2. PICK s \in {"done", "store"} : Goto(r, s) /\ (s = "store" =>
          ~ \E d \in Stored("permission") : RoleIs(d, req[r].draft.role))
  BY DEF CheckRole
<1>3. req'[r] = [req[r] EXCEPT !.stage = s] /\ \A o \in Requests \ {r} : req'[o] = req[o]
  BY <1>1, <1>2 DEF Goto
<1>4. req'[r].stage = s /\ req'[r].draft = req[r].draft
  BY <1>1, <1>3 DEF RequestStates
<1>5. raced \subseteq raced'
  BY DEF CheckRole
<1>6. \A n \in Names, role \in PlainRoles : HasRole(n, role)' = HasRole(n, role)
  BY <1>1 DEF HasRole
<1>7. \A o \in Requests \ {r}, role \in PlainRoles : Claims(o, role)' = Claims(o, role)
  BY <1>3 DEF Claims, At
<1>8. ASSUME NEW role \in PlainRoles \ raced', Claims(r, role)'
      PROVE  /\ \A n \in Names : ~ HasRole(n, role)
             /\ \A o \in Requests \ {r} : ~ Claims(o, role)
  <2>1. s = "store" /\ req[r].draft.role = role
    BY <1>4, <1>8 DEF Claims, At
  <2>2. \A n \in Names : ~ HasRole(n, role)
    BY <1>2, <1>8, <2>1 DEF HasRole, Stored, RoleIs
  <2>3. \A o \in Requests \ {r} : ~ Claims(o, role)
    BY <1>8, <2>1 DEF CheckRole, Claims
  <2> QED
    BY <2>2, <2>3
<1> QED
  BY <1>5, <1>6, <1>7, <1>8 DEF OneEach

\* What is stored has the role that was claimed, or the one it had.
LEMMA SavedKeepsOne ==
  ASSUME IInv, OneEach, NEW r \in Requests, NEW kind \in Kinds, NEW id \in Names, NEW d,
         Saved(r, kind, id, d),
         \A role \in PlainRoles : kind = "permission" /\ d # None /\ d.role = role =>
            HasRole(id, role) \/ Claims(r, role)
  PROVE  OneEach'
<1>1. req[r] \in RequestStates /\ req \in [Requests -> RequestStates]
      /\ docs \in [Kinds -> [Names -> Optional(Documents)]]
  BY DEF IInv, TypeOK
<1>2. docs' = [docs EXCEPT ![kind][id] = d] /\ Goto(r, "done") /\ raced' = raced
  BY DEF Saved
<1>3. req'[r] = [req[r] EXCEPT !.stage = "done"] /\ \A o \in Requests \ {r} : req'[o] = req[o]
  BY <1>1, <1>2 DEF Goto
<1>4. req'[r].stage = "done"
  BY <1>1, <1>3 DEF RequestStates
<1>5. \A o \in Requests, role \in PlainRoles : Claims(o, role)' => Claims(o, role) /\ o # r
  BY <1>3, <1>4 DEF Claims, At
<1>6. \A n \in Names : docs'["permission"][n] =
         IF kind = "permission" /\ n = id THEN d ELSE docs["permission"][n]
  BY <1>1, <1>2 DEF Kinds
<1>7. \A n \in Names, role \in PlainRoles :
         HasRole(n, role)' => HasRole(n, role) \/ (n = id /\ Claims(r, role))
  BY <1>6 DEF HasRole
<1> QED
  BY <1>2, <1>5, <1>7 DEF OneEach

LEMMA StoreKeepsOne ==
  ASSUME IInv, OneEach, NEW r \in Requests, Create(r) \/ Patch(r) \/ Delete(r)
  PROVE  OneEach'
<1> DEFINE a == req[r].ask
           d == req[r].draft
<1>1. At(r, "store")
  BY DEF Create, Patch, Delete, Saved
<1>2. DraftOK(a, "store", d) /\ Kind(a) \in Kinds
  BY <1>1 DEF At, IInv, RequestOK, Kind, Kinds
<1>3. CASE Create(r)
  <2>1. d \in Documents
    BY <1>2, <1>3 DEF DraftOK, Create
  <2>2. d.name \in Names
    BY <2>1 DEF Documents
  <2> QED
    BY <1>1, <1>2, <1>3, <2>2, SavedKeepsOne DEF Create, Claims
<1>4. CASE Patch(r)
  <2> DEFINE k == Kind(a)
             n == Target(a)
             e == Merged(docs[k][n], d)
  <2>1. n \in Names /\ docs[k][n] # None /\ Saved(r, k, n, e)
    BY <1>4 DEF Patch
  <2>2. d # None
    BY <1>2, <1>4, AccessAssumption DEF DraftOK, Patch
  <2>3. e.role = Given(d.role, docs[k][n].role)
    BY DEF Merged
  <2>4. \A role \in PlainRoles : k = "permission" /\ e.role = role => HasRole(n, role) \/ Claims(r, role)
    BY <1>1, <2>1, <2>2, <2>3 DEF HasRole, Claims, Given
  <2> HIDE DEF e
  <2> QED
    BY <1>2, <2>1, <2>4, SavedKeepsOne
<1>5. CASE Delete(r)
  BY <1>2, <1>5, SavedKeepsOne DEF Delete
<1> QED
  BY <1>3, <1>4, <1>5

LEMMA NextKeepsOne == IInv /\ OneEach /\ [Next]_vars => OneEach'
<1> SUFFICES ASSUME IInv, OneEach, [Next]_vars PROVE OneEach'
  OBVIOUS
<1>1. ASSUME NEW r \in Requests, NEW a \in Menu, Arrive(r, a) PROVE OneEach'
  BY <1>1, SubmitClaimsNothing, NothingClaimed DEF Arrive
<1>2. ASSUME NEW r \in Requests, Handle(r) PROVE OneEach'
  BY <1>2, HandlersClaimNothing, OthersClaimNothing, NothingClaimed, CheckRoleKeepsOne, StoreKeepsOne
  DEF Handle
<1>3. CASE Sync \/ Tick \/ UNCHANGED vars
  <2>1. UNCHANGED <<docs, req, raced>>
    BY <1>3 DEF Sync, SyncFetch, SyncKey, SyncRoleKey, Tick, vars
  <2> QED
    BY <2>1 DEF OneEach, HasRole, Claims, At
<1> QED
  BY <1>1, <1>2, <1>3 DEF Next

\* The permissions that are there at the start have roles of their own.
OwnRolesInitially ==
    \A n, m \in Names :
        LET d == Initial["permission"][n]
            e == Initial["permission"][m]
        IN  d # None /\ e # None /\ d.role = e.role /\ d.role \in PlainRoles => n = m

\* "permission with role=%s already exists": two permissions come to have the
\* same role (of one lower case word) only by two requests of which one checked
\* it between the other's check and its save, however permissions are created,
\* patched and deleted by name or by role, and for any number of requests.
THEOREM RolesStayUnique == OwnRolesInitially /\ Spec => []RolesUnique
<1> SUFFICES ASSUME OwnRolesInitially PROVE Spec => []RolesUnique
  OBVIOUS
<1>1. Init => OneEach
  <2> SUFFICES ASSUME Init PROVE OneEach
    OBVIOUS
  <2>1. \A r \in Requests : req[r].stage = "idle"
    BY DEF Init, Idle
  <2>2. docs = Initial
    BY DEF Init
  <2> QED
    BY <2>1, <2>2 DEF OneEach, Claims, At, HasRole, OwnRolesInitially
<1>2. OneEach => RolesUnique
  BY DEF OneEach, HasRole, RolesUnique
<1> QED
  BY <1>1, <1>2, NextKeepsOne, Invariance, PTL DEF Spec

-----------------------------------------------------------------------------
(* The policy is implemented.                                              *)

\* A step of r alone that keeps its stage in S.
Proceeds(r, S) ==
    /\ \A o \in Requests \ {r} : req'[o] = req[o]
    /\ req'[r].ask = req[r].ask /\ req'[r].since = req[r].since
    /\ req[r].stage \in S /\ req'[r].stage \in S

\* A request that is left alone keeps its verdict.
LEMMA OthersKept ==
  ASSUME NEW o \in Requests, req'[o] = req[o]
  PROVE  Verdict(o)' = Verdict(o) /\ Call(o)' = Call(o)
  BY DEF Verdict, Call

LEMMA Verdicts ==
  ASSUME NEW r \in Requests
  PROVE  /\ req[r].stage \in Pending => Verdict(r) = "pending"
         /\ req[r].stage \in Granted => Verdict(r) = "granted"
         /\ req[r].stage = "idle" => Verdict(r) = "none"
         /\ req[r].stage = "denied" => Verdict(r) = "denied"
         /\ req[r].stage = "unknown" => Verdict(r) = "unknown"
         /\ req[r].stage # "idle" => Call(r) = [ask |-> req[r].ask, since |-> req[r].since]
  BY DEF Verdict, Call, Pending, Granted, Stages

LEMMA VerdictsNext ==
  ASSUME NEW r \in Requests
  PROVE  /\ req'[r].stage \in Pending => Verdict(r)' = "pending"
         /\ req'[r].stage \in Granted => Verdict(r)' = "granted"
         /\ req'[r].stage = "denied" => Verdict(r)' = "denied"
         /\ req'[r].stage = "unknown" => Verdict(r)' = "unknown"
         /\ req'[r].stage # "idle" => Call(r)' = [ask |-> req'[r].ask, since |-> req'[r].since]
  BY DEF Verdict, Call, Pending, Granted, Stages

LEMMA LearnRefines ==
  ASSUME past \subseteq past', now' >= now,
         \A r \in Requests : Verdict(r)' = Verdict(r) /\ Call(r)' = Call(r)
  PROVE  Policy!Next
  BY DEF Policy!Next, Policy!Learn

LEMMA WithinRefines ==
  ASSUME NEW r \in Requests, NEW S \in {Pending, Granted}, Proceeds(r, S),
         past \subseteq past', now' >= now
  PROVE  Policy!Next
<1>1. Verdict(r)' = Verdict(r)
  BY Verdicts, VerdictsNext DEF Proceeds
<1>2. "idle" \notin S
  BY DEF Pending, Granted
<1>3. Call(r)' = Call(r)
  BY <1>2, Verdicts, VerdictsNext DEF Proceeds
<1>4. ASSUME NEW o \in Requests \ {r} PROVE Verdict(o)' = Verdict(o) /\ Call(o)' = Call(o)
  BY OthersKept DEF Proceeds
<1> QED
  BY <1>1, <1>3, <1>4, LearnRefines

\* A step of r alone that gives it the verdict v.
LEMMA SettleRefines ==
  ASSUME NEW r \in Requests, NEW v, Verdict(r) = "pending", Verdict(r)' = v, Call(r)' = Call(r),
         \A o \in Requests \ {r} : req'[o] = req[o], UNCHANGED <<past, now>>,
         \/ v = "unknown"
         \/ v = "denied" /\ \E d \in past : Bears(d, Call(r).ask) /\ ~ Allows(d, Call(r).ask, now)
         \/ v = "granted" /\ \E d \in past : Bears(d, Call(r).ask)
                                             /\ Allows(d, Call(r).ask, Call(r).since)
  PROVE  Policy!Next
<1>1. ASSUME NEW o \in Requests \ {r} PROVE Verdict(o)' = Verdict(o) /\ Call(o)' = Call(o)
  BY OthersKept
<1>2. Policy!Decide(r, v)
  BY <1>1 DEF Policy!Decide
<1>3. CASE v = "unknown"
  BY <1>2, <1>3 DEF Policy!Next, Policy!Ignore
<1>4. CASE v = "denied"
  BY <1>2, <1>4 DEF Policy!Next, Policy!Deny
<1>5. CASE v = "granted"
  BY <1>2, <1>5 DEF Policy!Next, Policy!Grant
<1> QED
  BY <1>3, <1>4, <1>5

\* A request that is submitted, for the first time or on its way.
LEMMA SubmitRefines ==
  ASSUME IInv, NEW r \in Requests, NEW a \in Asks, req[r].stage = "idle" \/ req[r].stage \in Granted,
         req' = [req EXCEPT ![r] = Submit(r, a)], UNCHANGED <<past, now>>
  PROVE  Policy!Next
<1>1. req \in [Requests -> RequestStates]
  BY DEF IInv, TypeOK
<1>2. req'[r] = Submit(r, a) /\ \A o \in Requests \ {r} : req'[o] = req[o]
  BY <1>1
<1>3. Submit(r, a).stage \in {"token", "lookup"} /\ Submit(r, a).since = now
  BY <1>1 DEF Submit, RequestStates
<1>4. Verdict(r) \in {"none", "granted"} /\ Verdict(r)' = "pending" /\ Call(r)'.since = now
  BY <1>2, <1>3, Verdicts, VerdictsNext DEF Pending
<1>5. ASSUME NEW o \in Requests \ {r} PROVE Verdict(o)' = Verdict(o) /\ Call(o)' = Call(o)
  BY <1>2, OthersKept
<1>6. Policy!Ask(r)
  BY <1>4, <1>5 DEF Policy!Ask
<1> QED
  BY <1>6 DEF Policy!Next

-----------------------------------------------------------------------------
(* The chain and the policy compare the same.                              *)

LEMMA RefusedIsNotAllowed ==
  ASSUME NEW a \in Asks, NEW d, NEW t, NEW i \in 1..Len(Validators(a)),
         ~ Passes(Validators(a)[i], d, a, t)
  PROVE  ~ Allows(d, a, t)
<1> DEFINE v == Validators(a)[i]
<1>1. CASE Chain(a) = "elasticsearch"
  <2>1. v \in {"auth", "sources", "referers", "indices", "category", "acl", "op", "expiry"}
    BY <1>1 DEF Validators
  <2> QED
    BY <1>1, <2>1 DEF Passes, Allows
<1>2. CASE Chain(a) \in {"users", "permissions"}
  <2>1. v \in {"auth", "sources", "op", "category", "access"}
    BY <1>2 DEF Validators
  <2> QED
    BY <1>2, <2>1 DEF Passes, Allows
<1>3. CASE Chain(a) = "auth"
  <2>1. v \in {"auth", "op", "category"}
    BY <1>3 DEF Validators
  <2> QED
    BY <1>3, <2>1 DEF Passes, Allows
<1>4. CASE Chain(a) = "ping"
  <2>1. v = "auth"
    BY <1>4 DEF Validators
  <2> QED
    BY <1>4, <2>1 DEF Passes, Allows
<1> QED
  BY <1>1, <1>2, <1>3, <1>4, ChainOf

LEMMA PassedIsAllowed ==
  ASSUME NEW a \in Asks, NEW d, NEW t,
         \A i \in 1..Len(Validators(a)) : Passes(Validators(a)[i], d, a, t)
  PROVE  Allows(d, a, t)
<1>1. CASE Chain(a) = "elasticsearch"
  <2>1. /\ Passes("auth", d, a, t) /\ Passes("sources", d, a, t) /\ Passes("referers", d, a, t)
        /\ Passes("indices", d, a, t) /\ Passes("category", d, a, t) /\ Passes("acl", d, a, t)
        /\ Passes("op", d, a, t) /\ Passes("expiry", d, a, t)
    BY <1>1 DEF Validators
  <2> QED
    BY <1>1, <2>1 DEF Passes, Allows
<1>2. CASE Chain(a) \in {"users", "permissions"}
  <2>1. /\ Passes("auth", d, a, t) /\ Passes("sources", d, a, t) /\ Passes("op", d, a, t)
        /\ Passes("category", d, a, t) /\ Passes("access", d, a, t)
    BY <1>2 DEF Validators
  <2> QED
    BY <1>2, <2>1 DEF Passes, Allows
<1>3. CASE Chain(a) = "auth"
  <2>1. Passes("auth", d, a, t) /\ Passes("op", d, a, t) /\ Passes("category", d, a, t)
    BY <1>3 DEF Validators
  <2> QED
    BY <1>3, <2>1 DEF Passes, Allows
<1>4. CASE Chain(a) = "ping"
  <2>1. Passes("auth", d, a, t)
    BY <1>4 DEF Validators
  <2> QED
    BY <1>4, <2>1 DEF Passes, Allows
<1> QED
  BY <1>1, <1>2, <1>3, <1>4, ChainOf

-----------------------------------------------------------------------------
(* Steps and what they map to.                                             *)

\* What Goto leaves alone of the request.
LEMMA GoesOn ==
  ASSUME IInv, NEW r \in Requests, NEW s, Goto(r, s)
  PROVE  /\ \A o \in Requests \ {r} : req'[o] = req[o]
         /\ req'[r].stage = s /\ req'[r].ask = req[r].ask /\ req'[r].since = req[r].since
<1>1. req \in [Requests -> RequestStates] /\ req[r] \in RequestStates
  BY DEF IInv, TypeOK
<1>2. req'[r] = [req[r] EXCEPT !.stage = s]
  BY <1>1 DEF Goto
<1> QED
  BY <1>1, <1>2 DEF Goto, RequestStates

LEMMA GotoRefines ==
  ASSUME IInv, NEW r \in Requests, NEW S \in {Pending, Granted}, NEW s \in S, req[r].stage \in S,
         Goto(r, s), past \subseteq past', now' = now
  PROVE  Policy!Next
<1>1. Proceeds(r, S)
  BY GoesOn DEF Proceeds
<1>2. now' >= now
  BY NowIsNumber
<1> QED
  BY <1>1, <1>2, WithinRefines

LEMMA UnknownRefines ==
  ASSUME IInv, NEW r \in Requests, req[r].stage \in Pending, Goto(r, "unknown"),
         UNCHANGED <<past, now>>
  PROVE  Policy!Next
<1>1. req'[r].stage = "unknown" /\ req[r].stage # "idle" /\ req'[r].stage # "idle"
  BY GoesOn DEF Pending
<1>2. Verdict(r) = "pending" /\ Verdict(r)' = "unknown" /\ Call(r)' = Call(r)
  BY <1>1, GoesOn, Verdicts, VerdictsNext
<1> QED
  BY <1>2, GoesOn, SettleRefines

LEMMA AuthRefines ==
  ASSUME IInv, NEW r \in Requests,
         Verify(r) \/ ReadRole(r) \/ FindByRole(r) \/ FindNameless(r) \/ FindByName(r)
  PROVE  Policy!Next
<1>1. /\ req \in [Requests -> RequestStates] /\ req[r] \in RequestStates
      /\ req[r].stage \in Pending /\ UNCHANGED <<past, now>> /\ now' >= now
  BY NowIsNumber DEF IInv, TypeOK, Verify, ReadRole, FindByRole, FindNameless, FindByName, At, Pending
<1>2. CASE Goto(r, "unknown")
  BY <1>1, <1>2, UnknownRefines
<1>3. CASE Goto(r, "claim")
  BY <1>1, <1>3, GotoRefines DEF Pending
<1>4. ASSUME NEW role, req' = [req EXCEPT ![r].stage = "lookup", ![r].role = role] PROVE Policy!Next
  <2>1. req'[r] = [req[r] EXCEPT !.stage = "lookup", !.role = role]
        /\ \A o \in Requests \ {r} : req'[o] = req[o]
    BY <1>1, <1>4
  <2>2. Proceeds(r, Pending)
    BY <1>1, <2>1 DEF Proceeds, RequestStates, Pending
  <2> QED
    BY <1>1, <2>2, WithinRefines
<1>5. ASSUME NEW d, Found(r, d) PROVE Policy!Next
  <2>1. req'[r] = [req[r] EXCEPT !.stage = "check", !.obj = d]
        /\ \A o \in Requests \ {r} : req'[o] = req[o]
    BY <1>1, <1>5 DEF Found
  <2>2. Proceeds(r, Pending)
    BY <1>1, <2>1 DEF Proceeds, RequestStates, Pending
  <2> QED
    BY <1>1, <2>2, WithinRefines
<1>6. CASE Verify(r)
  BY <1>2, <1>3, <1>6 DEF Verify
<1>7. CASE ReadRole(r)
  BY <1>2, <1>4, <1>7 DEF ReadRole
<1>8. CASE FindByRole(r) \/ FindNameless(r) \/ FindByName(r)
  BY <1>2, <1>5, <1>8 DEF FindByRole, FindNameless, FindByName
<1> QED
  BY <1>6, <1>7, <1>8

LEMMA ValidateRefines ==
  ASSUME IInv, NEW r \in Requests, Validate(r)
  PROVE  Policy!Next
<1> DEFINE q == req[r]
           passes == Passes(Validators(q.ask)[q.at], q.obj, q.ask, now)
           next == IF q.at = Len(Validators(q.ask)) THEN "handle" ELSE "check"
<1>1. /\ q \in RequestStates /\ req \in [Requests -> RequestStates]
      /\ q.ask \in Asks /\ q.stage = "check" /\ q.obj \in past
      /\ Bears(q.obj, q.ask) /\ q.at \in 1..Len(Validators(q.ask)) /\ UNCHANGED <<past, now>>
  BY DEF IInv, TypeOK, RequestOK, DecidedSoFar, Validate, At
<1>2. Verdict(r) = "pending" /\ Call(r) = [ask |-> q.ask, since |-> q.since]
  BY <1>1, Verdicts DEF Pending
<1>3. CASE ~ passes
  <2>1. Goto(r, "denied")
    BY <1>3 DEF Validate
  <2>2. Verdict(r)' = "denied" /\ Call(r)' = Call(r)
    BY <1>2, <2>1, GoesOn, VerdictsNext
  <2>3. ~ Allows(q.obj, q.ask, now)
    BY <1>1, <1>3, RefusedIsNotAllowed
  <2> QED
    BY <1>1, <1>2, <2>1, <2>2, <2>3, GoesOn, SettleRefines
<1>4. CASE passes
  <2>1. req' = [req EXCEPT ![r] = [q EXCEPT !.at = @ + 1, !.stage = next]]
    BY <1>1, <1>4 DEF Validate
  <2>2. req'[r] = [q EXCEPT !.at = @ + 1, !.stage = next] /\ \A o \in Requests \ {r} : req'[o] = req[o]
    BY <1>1, <2>1
  <2>3. req'[r].stage = next /\ req'[r].ask = q.ask /\ req'[r].since = q.since
    BY <1>1, <2>2 DEF RequestStates
  <2>4. CASE q.at = Len(Validators(q.ask))
    <3>1. Verdict(r)' = "granted" /\ Call(r)' = Call(r)
      BY <1>2, <2>3, <2>4, VerdictsNext DEF Granted, Stages, Pending
    <3>2. \A i \in 1..Len(Validators(q.ask)) : Passes(Validators(q.ask)[i], q.obj, q.ask, q.since)
      BY <1>1, <1>4, <2>4, PassedAtArrival DEF At
    <3>3. Allows(q.obj, q.ask, q.since)
      BY <1>1, <3>2, PassedIsAllowed
    <3> QED
      BY <1>1, <1>2, <2>2, <3>1, <3>3, SettleRefines
  <2>5. CASE q.at # Len(Validators(q.ask))
    <3>1. Proceeds(r, Pending)
      BY <1>1, <2>2, <2>3, <2>5 DEF Proceeds, Pending
    <3> QED
      BY <1>1, <3>1, NowIsNumber, WithinRefines
  <2> QED
    BY <2>4, <2>5
<1> QED
  BY <1>3, <1>4

LEMMA PrepareRefines ==
  ASSUME IInv, NEW r \in Requests, NEW fits \in BOOLEAN, NEW d, At(r, "handle"),
         NEW next \in {"role", "store", "saveKey", "localKey"}, Prepare(r, fits, d, next)
  PROVE  Policy!Next
<1>1. /\ req \in [Requests -> RequestStates] /\ req[r] \in RequestStates
      /\ req[r].stage \in Granted /\ UNCHANGED <<past, now>> /\ now' >= now
  BY NowIsNumber DEF IInv, TypeOK, At, Prepare, Granted, Stages, Pending
<1>2. CASE ~ fits
  BY <1>1, <1>2, GotoRefines DEF Prepare, Granted, Stages, Pending
<1>3. CASE fits
  <2>1. req'[r] = [req[r] EXCEPT !.stage = next, !.draft = d]
        /\ \A o \in Requests \ {r} : req'[o] = req[o]
    BY <1>1, <1>3 DEF Prepare
  <2>2. Proceeds(r, Granted)
    BY <1>1, <2>1 DEF Proceeds, RequestStates, Granted, Stages, Pending
  <2> QED
    BY <1>1, <2>2, WithinRefines
<1> QED
  BY <1>2, <1>3

LEMMA HandlersRefine ==
  ASSUME IInv, NEW r \in Requests,
         \/ PostPermission(r) \/ PatchPermission(r) \/ DeletePermission(r)
         \/ PostUser(r) \/ PatchUser(r) \/ DeleteUser(r) \/ SetPublicKey(r)
  PROVE  Policy!Next
<1> DEFINE a == req[r].ask
           b == a.body
           made == NewPermission(r, req[r].obj.admin, b)
           fit == AclsFit(b.acls, made.categories)
           patchFits == PatchFits(b) /\ ~ a.local
           afterPost == IF made.role # "" THEN "role" ELSE "store"
           afterPatch == IF b.role \notin {None, ""} THEN "role" ELSE "store"
           afterKey == IF a.local THEN "localKey" ELSE "saveKey"
<1>1. fit \in BOOLEAN /\ patchFits \in BOOLEAN /\ UserFits(b) \in BOOLEAN
      /\ (~ a.local) \in BOOLEAN /\ (b.key # None) \in BOOLEAN
  BY DEF AclsFit, PatchFits, UserFits
<1>2. CASE PostPermission(r)
  <2>1. At(r, "handle") /\ Prepare(r, fit, made, afterPost)
    BY <1>2 DEF PostPermission, Handles
  <2> QED
    BY <1>1, <2>1, PrepareRefines
<1>3. CASE PatchPermission(r)
  <2>1. At(r, "handle") /\ Prepare(r, patchFits, PermissionPatch(b), afterPatch)
    BY <1>3 DEF PatchPermission, Handles
  <2> QED
    BY <1>1, <2>1, PrepareRefines
<1>4. CASE DeletePermission(r) \/ DeleteUser(r)
  <2>1. At(r, "handle") /\ Prepare(r, ~ a.local, None, "store")
    BY <1>4 DEF DeletePermission, DeleteUser, Handles
  <2> QED
    BY <1>1, <2>1, PrepareRefines
<1>5. CASE PostUser(r)
  <2>1. At(r, "handle") /\ Prepare(r, UserFits(b), NewUser(b), "store")
    BY <1>5 DEF PostUser, Handles
  <2> QED
    BY <1>1, <2>1, PrepareRefines
<1>6. CASE PatchUser(r)
  <2>1. At(r, "handle") /\ Prepare(r, ~ a.local, UserPatch(b), "store")
    BY <1>6 DEF PatchUser, Handles
  <2> QED
    BY <1>1, <2>1, PrepareRefines
<1>7. CASE SetPublicKey(r)
  <2>1. At(r, "handle") /\ Prepare(r, b.key # None, None, afterKey)
    BY <1>7 DEF SetPublicKey, Handles
  <2> QED
    BY <1>1, <2>1, PrepareRefines
<1> QED
  BY <1>2, <1>3, <1>4, <1>5, <1>6, <1>7

LEMMA RedirectRefines ==
  ASSUME IInv, NEW r \in Requests, Redirect(r)
  PROVE  Policy!Next
<1> DEFINE a == req[r].ask
<1>1. a \in Asks /\ req[r].stage \in Granted /\ UNCHANGED <<past, now>>
  BY DEF IInv, RequestOK, Redirect, At, Granted, Stages, Pending
<1>2. CASE Goto(r, "done")
  BY <1>1, <1>2, GotoRefines DEF Granted, Stages, Pending
<1>3. ASSUME NEW d \in Stored("permission"),
             req' = [req EXCEPT ![r] = Submit(r,
                       [a EXCEPT !.path = "/_permission/{username}", !.target = d.name, !.uri = ""])]
      PROVE  Policy!Next
  <2>1. PICK n \in Names : d = docs["permission"][n] /\ d # None
    BY DEF Stored
  <2>2. d.name \in Names
    BY <2>1 DEF IInv, TypeOK, DocsOK, Kinds, Documents
  <2>3. [a EXCEPT !.path = "/_permission/{username}", !.target = d.name, !.uri = ""] \in Asks
    BY <1>1, <2>2, SentOnTyped DEF Optional
  <2> QED
    BY <1>1, <1>3, <2>3, SubmitRefines
<1> QED
  BY <1>2, <1>3 DEF Redirect

\* The rest of the handlers only moves a granted request on.
LEMMA GrantedRefines ==
  ASSUME IInv, NEW r \in Requests,
         \/ Forward(r) \/ Read(r) \/ CheckRole(r)
         \/ Create(r) \/ Patch(r) \/ Delete(r) \/ StoreFails(r)
         \/ SaveKey(r) \/ SetLocalKey(r) \/ SetLocalRoleKey(r)
  PROVE  Policy!Next
<1>1. req[r].stage \in Granted /\ {"done", "store", "localKey", "localRoleKey"} \subseteq Granted
  BY DEF Forward, Read, CheckRole, Create, Patch, Delete, StoreFails, Saved, SaveKey, SetLocalKey,
     SetLocalRoleKey, At, Granted, Stages, Pending
<1>2. past \subseteq past' /\ now' = now
  BY DEF Forward, Read, CheckRole, Create, Patch, Delete, StoreFails, Saved, SaveKey, SetLocalKey,
     SetLocalRoleKey
<1>3. PICK s \in {"done", "store", "localKey", "localRoleKey"} : Goto(r, s)
  BY DEF Forward, Read, CheckRole, Create, Patch, Delete, StoreFails, Saved, SaveKey, SetLocalKey,
     SetLocalRoleKey
<1> QED
  BY <1>1, <1>2, <1>3, GotoRefines

LEMMA InitRefines == Init => Policy!Init
<1>1. SUFFICES ASSUME Init PROVE Policy!Init
  OBVIOUS
<1>2. \A r \in Requests : req[r].stage = "idle"
  BY <1>1 DEF Init, Idle
<1>3. \A r \in Requests : Call(r) = None
  BY <1>2 DEF Call
<1>4. \A r \in Requests : Verdict(r) = "none"
  BY <1>2 DEF Verdict, Pending, Granted
<1> QED
  BY <1>3, <1>4 DEF Policy!Init

LEMMA NextRefines == IInv /\ [Next]_vars => [Policy!Next]_(Policy!vars)
<1> SUFFICES ASSUME IInv, [Next]_vars PROVE Policy!Next \/ UNCHANGED Policy!vars
  OBVIOUS
<1>1. ASSUME NEW r \in Requests, NEW a \in Menu, Arrive(r, a) PROVE Policy!Next
  <2>1. a \in Asks
    BY AccessAssumption
  <2> QED
    BY <1>1, <2>1, SubmitRefines DEF Arrive, At
<1>2. ASSUME NEW r \in Requests, Handle(r) PROVE Policy!Next
  BY <1>2, AuthRefines, ValidateRefines, HandlersRefine, RedirectRefines, GrantedRefines DEF Handle
<1>3. CASE Sync \/ Tick
  <2>1. now' >= now /\ past' = past /\ req' = req
    BY <1>3, NowIsNumber DEF Sync, SyncFetch, SyncKey, SyncRoleKey, Tick
  <2>2. \A r \in Requests : Verdict(r)' = Verdict(r) /\ Call(r)' = Call(r)
    BY <2>1, OthersKept
  <2> QED
    BY <2>1, <2>2, LearnRefines
<1>4. CASE UNCHANGED vars
  <2>1. now' = now /\ past' = past /\ req' = req
    BY <1>4 DEF vars
  <2>2. \A r \in Requests : Verdict(r)' = Verdict(r) /\ Call(r)' = Call(r)
    BY <2>1, OthersKept
  <2> QED
    BY <2>1, <2>2 DEF Policy!vars
<1> QED
  BY <1>1, <1>2, <1>3, <1>4 DEF Next

\* Every request is decided as if one stored document of its credential had
\* been compared with it at once when it arrived (ImplementsPolicy): basicAuth
\* and the chains refine AccessPolicy, whatever is stored, patched and deleted
\* meanwhile and however long each step takes.
THEOREM Implements == Spec => ImplementsPolicy
<1> QED
  BY InitRefines, NextRefines, Invariance, PTL DEF Spec, ImplementsPolicy, Policy!Spec
=============================================================================
