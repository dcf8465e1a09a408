----------------------- MODULE CredentialCacheProofs -----------------------
(***************************************************************************)
(* The type invariant and the three safety invariants of the caches, for   *)
(* any nodes, names, requests and menu.  None of the three is inductive by *)
(* itself: a cached credential comes from a request (Held) or from a sync  *)
(* (Snapshots), and both took it from an index (Documents); a cached       *)
(* password comes from a request that passed its check, and the check may  *)
(* itself have used a cached password.                                     *)
(***************************************************************************)
EXTENDS CredentialCache, FiniteSetTheorems, TLAPS

\* The states of a request that has a credential to go by.
Holding == {"check", "save_password", "peek", "cache", "admit"}

\* Whoever is being served has asked; the cache is looked into for basic auth,
\* and for a JWT without a role; ACCAPI is called for patches and removals.
Asked == \A r \in Requests :
    /\ pc[r] # "idle" \/ untold[r] # {} \/ half[r] # {} => ask[r] \in Menu
    /\ pc[r] = "lookup" => ask[r].scheme = "basic" \/ ask[r].name = NoName
    /\ pc[r] = "write" => ask[r].op \in {"create", "patch", "remove"}
    /\ pc[r] = "notify" => Proxied /\ ask[r].op \in {"patch", "remove"}

\* A document has the name it is found by, and the history knows it.
Documents == \A x \in Names :
    store[x] # None => store[x].name = x /\ store[x] \in past[x]

\* What a sync has fetched was once in the index.
Snapshots == \A n \in Nodes, x \in Names :
    snap[n][x] # None => snap[n][x].name = x /\ snap[n][x] \in past[x]

\* The credential of a request is, or was, the document of its name; without a
\* name it is that of some permission.
Held == \A r \in Requests :
    pc[r] \in Holding =>
        /\ obj[r] \in Credential
        /\ obj[r] \in past[obj[r].name]
        /\ IF ask[r].name = NoName THEN obj[r].name \in Permissions ELSE obj[r].name = ask[r].name

\* Only passwords of users are saved.
Hashed == \A r \in Requests : pc[r] = "save_password" => obj[r].name \in Users

\* The inductive invariant.
IInv ==
    /\ TypeOK
    /\ Asked
    /\ Documents
    /\ Snapshots
    /\ Held
    /\ Hashed
    /\ AcceptedKnewPassword
    /\ CachedWereStored
    /\ PasswordsWereStored

USE DEF stores, caches, proxy, syncs, Waiting, Answered

\* A cache keeps its type when an entry is set.
LEMMA SetCredType ==
  ASSUME TypeOK, NEW n \in Nodes, NEW k \in Keys, NEW c \in MaybeCredential, SetCred(n, k, c)
  PROVE  cred' \in [Nodes -> [Keys -> MaybeCredential]]
BY DEF TypeOK, SetCred

\* Setting an entry of one node leaves all others alone.
LEMMA SetCredEffect ==
  ASSUME TypeOK, NEW n \in Nodes, NEW k \in Keys, NEW c, SetCred(n, k, c)
  PROVE  \A m \in Nodes, j \in Keys :
            cred'[m][j] = IF m = n /\ j = k THEN c ELSE cred[m][j]
BY DEF TypeOK, SetCred

\* The password cache keeps its type when an entry is set.
LEMMA SetPwdType ==
  ASSUME TypeOK, NEW n \in Nodes, NEW u \in Users, NEW w \in Passwords \cup {None}, SetPwd(n, u, w)
  PROVE  pwd' \in [Nodes -> [Users -> Passwords \cup {None}]]
BY DEF TypeOK, SetPwd

\* The fields of a request that was asked, and the keys made of them.
LEMMA AskedFields ==
  ASSUME IInv, NEW r \in Requests, ask[r] \in Menu
  PROVE  /\ ask[r] \in Request
         /\ ask[r].node \in Nodes /\ ask[r].name \in Keys /\ ask[r].target \in Names
         /\ ask[r].pass \in Passwords
         /\ CacheKey(ask[r]) \in Keys /\ RouteVar(ask[r]) \in Keys
         /\ ToldName(ask[r]) \in Names
BY CredentialAssumption DEF Request, CacheKey, RouteVar, ToldName, Keys

\* The fields of a credential a sync has listed.
LEMMA ListedFields ==
  ASSUME IInv, NEW n \in Nodes, NEW c \in todo[n]
  PROVE  c \in Credential /\ c.name \in Names /\ c.name \in Keys /\ snap[n][c.name] \in MaybeCredential
<1>1. c \in Credential
  BY DEF IInv, TypeOK
<1>. QED
  BY <1>1 DEF Credential, Keys, IInv, TypeOK

\* A request arrives: it has no credential yet.
LEMMA ArriveStep ==
  ASSUME IInv, NEW r \in Requests, NEW q \in Menu, Arrive(r, q)
  PROVE  IInv'
<1>1. TypeOK'
  BY DEF IInv, TypeOK, Arrive, Goto
<1>2. Asked' /\ AcceptedKnewPassword'
  <2>1. q.scheme \in {"basic", "jwt"}
    BY CredentialAssumption DEF Request
  <2>. QED
    BY <2>1 DEF IInv, TypeOK, Asked, AcceptedKnewPassword, Accepted, Arrive, Goto
<1>3. Held' /\ Hashed'
  BY DEF IInv, TypeOK, Held, Holding, Hashed, Arrive, Goto
<1>4. Documents' /\ Snapshots' /\ CachedWereStored' /\ PasswordsWereStored'
  BY DEF IInv, TypeOK, Asked, Documents, Snapshots, Held, Hashed, AcceptedKnewPassword, CachedWereStored, PasswordsWereStored, Arrive
<1>. QED
  BY <1>1, <1>2, <1>3, <1>4 DEF IInv

\* A hit is of the name asked for, by CachedWereStored, or without a name some
\* permission.
LEMMA LookupStep ==
  ASSUME IInv, NEW r \in Requests, Lookup(r)
  PROVE  IInv'
<1>1. ask[r] \in Menu
  BY DEF IInv, TypeOK, Asked, Lookup
<1>2. TypeOK'
  BY <1>1, AskedFields DEF IInv, TypeOK, Lookup, Goto
<1>3. CacheKey(ask[r]) = ask[r].name
  BY <1>1 DEF IInv, Asked, Lookup, CacheKey
<1>4. obj'[r] # None =>
        /\ obj'[r] \in Credential
        /\ obj'[r] \in past[obj'[r].name]
        /\ IF ask[r].name = NoName THEN obj'[r].name \in Permissions ELSE obj'[r].name = ask[r].name
  BY <1>1, <1>3, AskedFields DEF IInv, TypeOK, CachedWereStored, Lookup, MaybeCredential
<1>5. Held'
  BY <1>4 DEF IInv, TypeOK, Held, Holding, Lookup, Goto
<1>6. Asked' /\ Documents' /\ Snapshots' /\ Hashed' /\ AcceptedKnewPassword' /\ CachedWereStored' /\ PasswordsWereStored'
  BY <1>1 DEF IInv, TypeOK, Asked, Documents, Snapshots, Held, Hashed, AcceptedKnewPassword, CachedWereStored, PasswordsWereStored, Accepted, Lookup, Goto
<1>. QED
  BY <1>1, <1>2, <1>3, <1>4, <1>5, <1>6 DEF IInv

\* The search finds a document, by Documents.
LEMMA FetchStep ==
  ASSUME IInv, NEW r \in Requests, Fetch(r)
  PROVE  IInv'
<1>1. ask[r] \in Menu
  BY DEF IInv, TypeOK, Asked, Fetch
<1>2. CASE Goto(r, "refused") /\ UNCHANGED obj
  BY <1>2 DEF IInv, TypeOK, Asked, Documents, Snapshots, Held, Hashed, AcceptedKnewPassword, CachedWereStored,
     PasswordsWereStored, Accepted, Holding, Fetch, Goto
<1>3. CASE ask[r].name # NoName /\ obj' = [obj EXCEPT ![r] = store[ask[r].name]] /\ Goto(r, "check")
           /\ store[ask[r].name] # None
  <2>1. ask[r].name \in Names /\ store[ask[r].name] \in Credential
    BY <1>1, <1>3, AskedFields DEF Keys, IInv, TypeOK, MaybeCredential
  <2>2. TypeOK'
    BY <1>3, <2>1 DEF IInv, TypeOK, Fetch, Goto, MaybeCredential
  <2>3. store[ask[r].name].name = ask[r].name /\ store[ask[r].name] \in past[ask[r].name]
    BY <1>3, <2>1 DEF IInv, Documents
  <2>4. Held'
    BY <1>3, <2>1, <2>3 DEF IInv, TypeOK, Held, Holding, Fetch, Goto
  <2>5. Asked' /\ Documents' /\ Snapshots' /\ Hashed' /\ AcceptedKnewPassword' /\ CachedWereStored' /\ PasswordsWereStored'
    BY <1>3 DEF IInv, TypeOK, Asked, Documents, Snapshots, Hashed, AcceptedKnewPassword, CachedWereStored,
       PasswordsWereStored, Accepted, Fetch, Goto
  <2>. QED
    BY <2>2, <2>4, <2>5 DEF IInv
<1>. QED
  BY <1>2, <1>3 DEF Fetch

\* Either the credential or the password cache vouches for the password.
LEMMA CheckPasswordStep ==
  ASSUME IInv, NEW r \in Requests, CheckPassword(r)
  PROVE  IInv'
<1>1. ask[r] \in Menu
  BY DEF IInv, TypeOK, Asked, CheckPassword
<1>2. TypeOK'
  BY DEF IInv, TypeOK, CheckPassword, Goto
<1>3. /\ obj[r] \in past[obj[r].name]
      /\ obj[r].name \in IF ask[r].name = NoName THEN Permissions ELSE {ask[r].name}
  BY DEF IInv, Held, Holding, CheckPassword
<1>4. ask[r].scheme = "basic" /\ PasswordAccepted(r) => \E c \in past[obj[r].name] : c.pass = ask[r].pass
  BY <1>1, <1>2, <1>3, AskedFields, CredentialAssumption DEF IInv, PasswordsWereStored, PasswordAccepted
<1>5. AcceptedKnewPassword'
  BY <1>1, <1>3, <1>4 DEF IInv, TypeOK, AcceptedKnewPassword, Accepted, CheckPassword, Goto
<1>6. Asked' /\ Documents' /\ Snapshots' /\ Held' /\ Hashed' /\ CachedWereStored' /\ PasswordsWereStored'
  BY DEF IInv, TypeOK, Asked, Documents, Snapshots, Held, Hashed, AcceptedKnewPassword, CachedWereStored, PasswordsWereStored, Holding, CheckPassword, Goto
<1>. QED
  BY <1>1, <1>2, <1>3, <1>4, <1>5, <1>6 DEF IInv

\* What is saved was accepted, by AcceptedKnewPassword.
LEMMA SavePasswordStep ==
  ASSUME IInv, NEW r \in Requests, SavePassword(r)
  PROVE  IInv'
<1>1. ask[r] \in Menu
  BY DEF IInv, TypeOK, Asked, SavePassword
<1>2. /\ obj[r].name \in Users
      /\ \E c \in past[obj[r].name] : c.pass = ask[r].pass
  <2>1. /\ obj[r].name \in Users
        /\ IF ask[r].name = NoName THEN obj[r].name \in Permissions ELSE obj[r].name = ask[r].name
    BY DEF IInv, Held, Holding, Hashed, SavePassword
  <2>2. ask[r].name # NoName /\ obj[r].name = ask[r].name
    BY <2>1, CredentialAssumption
  <2>3. ask[r].scheme = "basic"
    BY <1>1, <2>1, <2>2, AskedFields, CredentialAssumption DEF Request
  <2>. QED
    BY <2>1, <2>2, <2>3 DEF IInv, AcceptedKnewPassword, Accepted, SavePassword
<1>3. TypeOK'
  BY <1>1, <1>2, AskedFields, SetPwdType DEF IInv, TypeOK, SavePassword, Goto
<1>4. PasswordsWereStored'
  BY <1>1, <1>2, AskedFields DEF IInv, TypeOK, PasswordsWereStored, SavePassword, SetPwd
<1>5. Asked' /\ Documents' /\ Snapshots' /\ Held' /\ Hashed' /\ AcceptedKnewPassword' /\ CachedWereStored'
  BY DEF IInv, TypeOK, Asked, Documents, Snapshots, Held, Hashed, AcceptedKnewPassword, CachedWereStored, PasswordsWereStored, Accepted, Holding, SavePassword, Goto
<1>. QED
  BY <1>1, <1>2, <1>3, <1>4, <1>5 DEF IInv

\* The test before the insertion changes no cache.
LEMMA PeekCacheStep ==
  ASSUME IInv, NEW r \in Requests, PeekCache(r)
  PROVE  IInv'
<1>1. TypeOK'
  BY DEF IInv, TypeOK, PeekCache, Goto
<1>2. Asked' /\ Documents' /\ Snapshots' /\ Held' /\ Hashed' /\ AcceptedKnewPassword' /\ CachedWereStored' /\ PasswordsWereStored'
  BY DEF IInv, TypeOK, Asked, Documents, Snapshots, Held, Hashed, AcceptedKnewPassword, CachedWereStored, PasswordsWereStored, Accepted, Holding, PeekCache, Goto
<1>. QED
  BY <1>1, <1>2 DEF IInv

\* What is inserted is held, maybe stale but from the index.
LEMMA SaveCredentialToCacheStep ==
  ASSUME IInv, NEW r \in Requests, SaveCredentialToCache(r)
  PROVE  IInv'
<1>1. ask[r] \in Menu
  BY DEF IInv, TypeOK, Asked, SaveCredentialToCache
<1>2. TypeOK'
  BY <1>1, AskedFields, SetCredType DEF IInv, TypeOK, SaveCredentialToCache, Goto
<1>3. CachedWereStored'
  <2>1. /\ obj[r] \in past[obj[r].name]
        /\ IF ask[r].name = NoName THEN obj[r].name \in Permissions ELSE obj[r].name = ask[r].name
    BY DEF IInv, Held, Holding, SaveCredentialToCache
  <2>2. IF CacheKey(ask[r]) = NoName THEN obj[r].name \in Permissions ELSE obj[r].name = CacheKey(ask[r])
    BY <1>1, <2>1, CredentialAssumption DEF CacheKey
  <2>3. \A n \in Nodes, k \in Keys :
          cred'[n][k] = IF n = ask[r].node /\ k = CacheKey(ask[r]) THEN obj[r] ELSE cred[n][k]
    BY <1>1, AskedFields, SetCredEffect DEF IInv, SaveCredentialToCache
  <2>. QED
    BY <2>1, <2>2, <2>3 DEF IInv, CachedWereStored, SaveCredentialToCache
<1>4. Asked' /\ Documents' /\ Snapshots' /\ Held' /\ Hashed' /\ AcceptedKnewPassword' /\ PasswordsWereStored'
  BY DEF IInv, TypeOK, Asked, Documents, Snapshots, Held, Hashed, AcceptedKnewPassword, CachedWereStored, PasswordsWereStored, Accepted, Holding, SaveCredentialToCache, Goto
<1>. QED
  BY <1>1, <1>2, <1>3, <1>4 DEF IInv

\* Admission can only remove an entry.
LEMMA AdmitStep ==
  ASSUME IInv, NEW r \in Requests, Admit(r)
  PROVE  IInv'
<1>1. ask[r] \in Menu
  BY DEF IInv, TypeOK, Asked, Admit
<1>2. UNCHANGED cred \/ SetCred(ask[r].node, RouteVar(ask[r]), None)
  BY DEF Admit
<1>3. \E l \in {"ok", "refused", "write", "clear_password"} :
         Goto(r, l) /\ (l = "write" => ask[r].op \in {"create", "patch", "remove"})
  BY <1>1, AskedFields DEF Admit, Request, Ops
<1>4. TypeOK'
  BY <1>1, <1>2, <1>3, AskedFields, SetCredType DEF IInv, TypeOK, Admit, Goto, MaybeCredential
<1>5. \A n \in Nodes, k \in Keys : cred'[n][k] \in {None, cred[n][k]}
  BY <1>1, <1>2, AskedFields, SetCredEffect DEF IInv
<1>6. CachedWereStored'
  BY <1>5 DEF IInv, CachedWereStored, Admit
<1>7. AcceptedKnewPassword' /\ Held' /\ Hashed' /\ Asked'
  BY <1>1, <1>3, <1>4 DEF IInv, TypeOK, Asked, Held, Hashed, AcceptedKnewPassword, Accepted, Holding, Admit, Goto
<1>8. Documents' /\ Snapshots' /\ PasswordsWereStored'
  BY DEF IInv, TypeOK, Asked, Documents, Snapshots, Held, Hashed, AcceptedKnewPassword, CachedWereStored, PasswordsWereStored, Admit
<1>. QED
  BY <1>1, <1>2, <1>3, <1>4, <1>5, <1>6, <1>7, <1>8 DEF IInv

\* A write adds to the history and forgets nothing of it.
LEMMA WriteStep ==
  ASSUME IInv, NEW r \in Requests, Write(r)
  PROVE  IInv'
<1>1. ask[r] \in Menu
  BY DEF IInv, TypeOK, Asked, Write
<1>2. Applicable(ask[r]) =>
        /\ NewDocument(ask[r]) \in MaybeCredential
        /\ NewDocument(ask[r]) # None => NewDocument(ask[r]).name = ask[r].target
  BY <1>1, CredentialAssumption DEF IInv, TypeOK, Applicable, NewDocument, Document, Credential, Request, MaybeCredential
<1>3. (Applicable(ask[r]) /\ Stored(ask[r])) \/ UNCHANGED <<store, past>>
  BY DEF Write
<1>4. /\ store' \in [Names -> MaybeCredential]
      /\ past' \in [Names -> SUBSET Credential]
      /\ \A x \in Names : past[x] \subseteq past'[x]
      /\ Documents'
  <2>1. CASE Applicable(ask[r]) /\ Stored(ask[r])
    <3>1. store' \in [Names -> MaybeCredential] /\ past' \in [Names -> SUBSET Credential]
      BY <1>1, <1>2, <2>1, AskedFields DEF IInv, TypeOK, Stored, MaybeCredential
    <3>2. \A x \in Names : past[x] \subseteq past'[x]
      BY <1>1, <2>1, AskedFields DEF IInv, TypeOK, Stored
    <3>3. Documents'
      BY <1>1, <1>2, <2>1, AskedFields DEF IInv, TypeOK, Documents, Stored
    <3>. QED
      BY <3>1, <3>2, <3>3
  <2>2. CASE UNCHANGED <<store, past>>
    BY <2>2 DEF IInv, TypeOK, Documents
  <2>. QED
    BY <1>3, <2>1, <2>2
<1>5. \E l \in {"ok", "failed", "notify", "clear_password"} :
         Goto(r, l) /\ (l = "notify" => Proxied /\ ask[r].op \in {"patch", "remove"})
  BY DEF Write, AfterWrite, IInv, Asked
<1>6. TypeOK'
  BY <1>4, <1>5 DEF IInv, TypeOK, Write, Goto
<1>7. Asked' /\ Hashed'
  BY <1>1, <1>5 DEF IInv, TypeOK, Asked, Hashed, Write, Goto
<1>8. Snapshots'
  BY <1>4 DEF IInv, Snapshots, Write
<1>9. Held'
  <2>1. /\ UNCHANGED <<ask, obj>>
        /\ \A s \in Requests : pc'[s] \in Holding => pc[s] \in Holding
    BY <1>5 DEF IInv, TypeOK, Holding, Write, Goto
  <2>2. \A s \in Requests : pc[s] \in Holding => obj[s].name \in Names
    BY DEF IInv, Held, Credential
  <2>. QED
    BY <1>4, <2>1, <2>2 DEF IInv, Held
<1>10. AcceptedKnewPassword'
  <2>1. \A s \in Requests : pc'[s] \in Accepted => pc[s] \in Accepted
    BY <1>5 DEF IInv, TypeOK, Accepted, Write, Goto
  <2>2. ASSUME NEW s \in Requests, pc'[s] \in Accepted, ask[s].scheme = "basic"
        PROVE  \E x \in IF ask[s].name = NoName THEN Permissions ELSE {ask[s].name} :
                  \E c \in past'[x] : c.pass = ask[s].pass
    <3>1. ask[s] \in Menu
      BY <2>1, <2>2 DEF IInv, Asked, Accepted
    <3>2. PICK x \in (IF ask[s].name = NoName THEN Permissions ELSE {ask[s].name}) :
              \E c \in past[x] : c.pass = ask[s].pass
      BY <2>1, <2>2 DEF IInv, AcceptedKnewPassword
    <3>3. x \in Names
      BY <3>1, <3>2, AskedFields DEF Keys, Names
    <3>. QED
      BY <1>4, <3>2, <3>3
  <2>. QED
    BY <2>2 DEF AcceptedKnewPassword, Write
<1>11. CachedWereStored'
  BY <1>4 DEF IInv, TypeOK, CachedWereStored, MaybeCredential, Credential, Write
<1>12. PasswordsWereStored'
  BY <1>4 DEF IInv, PasswordsWereStored, Names, Write
<1>. QED
  BY <1>1, <1>2, <1>3, <1>4, <1>5, <1>6, <1>7, <1>8, <1>9, <1>10, <1>11, <1>12 DEF IInv

\* ClearLocalUser, the password.
LEMMA ClearPasswordStep ==
  ASSUME IInv, NEW r \in Requests, ClearPassword(r)
  PROVE  IInv'
<1>1. ask[r] \in Menu
  BY DEF IInv, TypeOK, Asked, ClearPassword
<1>2. TypeOK'
  BY <1>1, AskedFields DEF IInv, TypeOK, ClearPassword, Goto
<1>3. PasswordsWereStored'
  BY <1>1, AskedFields DEF IInv, TypeOK, PasswordsWereStored, ClearPassword
<1>4. Asked' /\ Documents' /\ Snapshots' /\ Held' /\ Hashed' /\ AcceptedKnewPassword' /\ CachedWereStored'
  BY DEF IInv, TypeOK, Asked, Documents, Snapshots, Held, Hashed, AcceptedKnewPassword, CachedWereStored, PasswordsWereStored, Accepted, Holding, ClearPassword, Goto
<1>. QED
  BY <1>1, <1>2, <1>3, <1>4 DEF IInv

\* ClearLocalUser, the credential.
LEMMA ClearCredentialStep ==
  ASSUME IInv, NEW r \in Requests, ClearCredential(r)
  PROVE  IInv'
<1>1. ask[r] \in Menu
  BY DEF IInv, TypeOK, Asked, ClearCredential
<1>2. TypeOK'
  BY <1>1, AskedFields, SetCredType DEF IInv, TypeOK, ClearCredential, Goto, Keys, MaybeCredential
<1>3. CachedWereStored'
  BY <1>1, AskedFields DEF IInv, TypeOK, CachedWereStored, ClearCredential, SetCred
<1>4. Asked' /\ Documents' /\ Snapshots' /\ Held' /\ Hashed' /\ AcceptedKnewPassword' /\ PasswordsWereStored'
  BY DEF IInv, TypeOK, Asked, Documents, Snapshots, Held, Hashed, AcceptedKnewPassword, CachedWereStored, PasswordsWereStored, Accepted, Holding, ClearCredential, Goto
<1>. QED
  BY <1>1, <1>2, <1>3, <1>4 DEF IInv

\* ACCAPI has answered.
LEMMA NotifyDoneStep ==
  ASSUME IInv, NEW r \in Requests, NotifyDone(r)
  PROVE  IInv'
<1>1. TypeOK'
  BY DEF IInv, TypeOK, NotifyDone, Goto
<1>2. Asked' /\ Documents' /\ Snapshots' /\ Held' /\ Hashed' /\ AcceptedKnewPassword' /\ CachedWereStored' /\ PasswordsWereStored'
  BY DEF IInv, TypeOK, Asked, Documents, Snapshots, Held, Hashed, AcceptedKnewPassword, CachedWereStored, PasswordsWereStored, Accepted, Holding, NotifyDone, Goto
<1>. QED
  BY <1>1, <1>2 DEF IInv

\* ACCAPI has failed.
LEMMA NotifyFailsStep ==
  ASSUME IInv, NEW r \in Requests, NotifyFails(r)
  PROVE  IInv'
<1>1. TypeOK'
  BY DEF IInv, TypeOK, NotifyFails, Goto
<1>2. Asked' /\ Documents' /\ Snapshots' /\ Held' /\ Hashed' /\ AcceptedKnewPassword' /\ CachedWereStored' /\ PasswordsWereStored'
  BY DEF IInv, TypeOK, Asked, Documents, Snapshots, Held, Hashed, AcceptedKnewPassword, CachedWereStored, PasswordsWereStored, Accepted, Holding, NotifyFails, Goto
<1>. QED
  BY <1>1, <1>2 DEF IInv

\* ClearLocalUser on another node, the password.
LEMMA TellPasswordStep ==
  ASSUME IInv, NEW r \in Requests, NEW m \in Nodes, TellPassword(r, m)
  PROVE  IInv'
<1>1. ask[r] \in Menu
  BY DEF IInv, TypeOK, Asked, TellPassword
<1>2. pwd' \in [Nodes -> [Users -> Passwords \cup {None}]]
  BY <1>1 DEF IInv, TypeOK, TellPassword
<1>3. TypeOK'
  BY <1>2 DEF IInv, TypeOK, TellPassword
<1>4. PasswordsWereStored'
  BY <1>1 DEF IInv, TypeOK, PasswordsWereStored, TellPassword
<1>5. Asked' /\ Documents' /\ Snapshots' /\ Held' /\ Hashed' /\ AcceptedKnewPassword' /\ CachedWereStored'
  BY <1>1 DEF IInv, TypeOK, Asked, Documents, Snapshots, Held, Hashed, AcceptedKnewPassword, CachedWereStored, PasswordsWereStored, TellPassword
<1>. QED
  BY <1>1, <1>2, <1>3, <1>4, <1>5 DEF IInv

\* ClearLocalUser on another node, the credential.
LEMMA TellCredentialStep ==
  ASSUME IInv, NEW r \in Requests, NEW m \in Nodes, TellCredential(r, m)
  PROVE  IInv'
<1>1. ask[r] \in Menu
  BY DEF IInv, TypeOK, Asked, TellCredential
<1>2. TypeOK'
  BY <1>1, AskedFields, SetCredType DEF IInv, TypeOK, TellCredential, Keys, MaybeCredential
<1>3. CachedWereStored'
  BY <1>1, AskedFields DEF IInv, TypeOK, CachedWereStored, TellCredential, SetCred
<1>4. Asked' /\ Documents' /\ Snapshots' /\ Held' /\ Hashed' /\ AcceptedKnewPassword' /\ PasswordsWereStored'
  BY <1>1 DEF IInv, TypeOK, Asked, Documents, Snapshots, Held, Hashed, AcceptedKnewPassword, CachedWereStored, PasswordsWereStored, TellCredential
<1>. QED
  BY <1>1, <1>2, <1>3, <1>4 DEF IInv

\* The snapshot is taken of the indices.
LEMMA SyncFetchStep ==
  ASSUME IInv, NEW n \in Nodes, SyncFetch(n)
  PROVE  IInv'
<1>1. TypeOK'
  BY DEF IInv, TypeOK, SyncFetch
<1>2. Snapshots'
  BY DEF IInv, TypeOK, Documents, Snapshots, SyncFetch
<1>3. Asked' /\ Documents' /\ Held' /\ Hashed' /\ AcceptedKnewPassword' /\ CachedWereStored' /\ PasswordsWereStored'
  BY DEF IInv, TypeOK, Asked, Documents, Snapshots, Held, Hashed, AcceptedKnewPassword, CachedWereStored, PasswordsWereStored, SyncFetch
<1>. QED
  BY <1>1, <1>2, <1>3 DEF IInv

\* The cached credentials are listed.
LEMMA SyncListStep ==
  ASSUME IInv, NEW n \in Nodes, NEW kind, NEW from, NEW to \in {"users", "permissions"},
         SyncList(n, kind, from, to)
  PROVE  IInv'
<1>1. {c \in Cached(n) : c.name \in kind} \subseteq Credential
  BY DEF IInv, TypeOK, Cached, MaybeCredential
<1>2. TypeOK'
  BY <1>1 DEF IInv, TypeOK, SyncList
<1>3. Asked' /\ Documents' /\ Snapshots' /\ Held' /\ Hashed' /\ AcceptedKnewPassword' /\ CachedWereStored' /\ PasswordsWereStored'
  BY DEF IInv, TypeOK, Asked, Documents, Snapshots, Held, Hashed, AcceptedKnewPassword, CachedWereStored, PasswordsWereStored, SyncList
<1>. QED
  BY <1>1, <1>2, <1>3 DEF IInv

\* The sync ends.
LEMMA SyncEndStep ==
  ASSUME IInv, NEW n \in Nodes, SyncEnd(n)
  PROVE  IInv'
<1>1. TypeOK'
  BY DEF IInv, TypeOK, SyncEnd
<1>2. Asked' /\ Documents' /\ Snapshots' /\ Held' /\ Hashed' /\ AcceptedKnewPassword' /\ CachedWereStored' /\ PasswordsWereStored'
  BY DEF IInv, TypeOK, Asked, Documents, Snapshots, Held, Hashed, AcceptedKnewPassword, CachedWereStored, PasswordsWereStored, SyncEnd
<1>. QED
  BY <1>1, <1>2 DEF IInv

\* The sync clears a password.
LEMMA SyncClearPasswordStep ==
  ASSUME IInv, NEW n \in Nodes, NEW c \in todo[n], SyncClearPassword(n, c)
  PROVE  IInv'
<1>1. TypeOK'
  BY ListedFields, SetPwdType DEF IInv, TypeOK, SyncClearPassword, PasswordChanged
<1>2. PasswordsWereStored'
  BY ListedFields DEF IInv, TypeOK, PasswordsWereStored, SyncClearPassword, SetPwd, PasswordChanged
<1>3. Asked' /\ Documents' /\ Snapshots' /\ Held' /\ Hashed' /\ AcceptedKnewPassword' /\ CachedWereStored'
  BY DEF IInv, TypeOK, Asked, Documents, Snapshots, Held, Hashed, AcceptedKnewPassword, CachedWereStored, PasswordsWereStored, SyncClearPassword
<1>. QED
  BY <1>1, <1>2, <1>3 DEF IInv

\* The sync saves what its snapshot has under that very name.
LEMMA SyncSaveStep ==
  ASSUME IInv, NEW n \in Nodes, NEW c \in todo[n], SyncSave(n, c)
  PROVE  IInv'
<1>1. TypeOK'
  BY ListedFields, SetCredType DEF IInv, TypeOK, SyncSave
<1>2. CachedWereStored'
  <2>1. snap[n][c.name].name = c.name /\ snap[n][c.name] \in past[c.name] /\ c.name # NoName
    BY ListedFields, CredentialAssumption DEF IInv, Snapshots, SyncSave
  <2>2. \A m \in Nodes, k \in Keys :
          cred'[m][k] = IF m = n /\ k = c.name THEN snap[n][c.name] ELSE cred[m][k]
    BY ListedFields, SetCredEffect DEF IInv, SyncSave
  <2>. QED
    BY <2>1, <2>2 DEF IInv, CachedWereStored, SyncSave
<1>3. Asked' /\ Documents' /\ Snapshots' /\ Held' /\ Hashed' /\ AcceptedKnewPassword' /\ PasswordsWereStored'
  BY DEF IInv, TypeOK, Asked, Documents, Snapshots, Held, Hashed, AcceptedKnewPassword, CachedWereStored, PasswordsWereStored, SyncSave
<1>. QED
  BY <1>1, <1>2, <1>3 DEF IInv

\* The sync removes a credential that is gone from its snapshot.
LEMMA SyncRemoveStep ==
  ASSUME IInv, NEW n \in Nodes, NEW c \in todo[n], SyncRemove(n, c)
  PROVE  IInv'
<1>1. cred' \in [Nodes -> [Keys -> MaybeCredential]]
  BY ListedFields, SetCredType DEF IInv, SyncRemove, MaybeCredential
<1>2. todo' \in [Nodes -> SUBSET Credential] /\ part' \in [Nodes -> SUBSET Credential]
  <2>1. c \in Credential
    BY ListedFields
  <2>2. CASE part' = [part EXCEPT ![n] = {c}] /\ UNCHANGED todo
    BY <2>1, <2>2 DEF IInv, TypeOK
  <2>3. CASE todo' = [todo EXCEPT ![n] = @ \ {c}] /\ UNCHANGED part
    BY <2>1, <2>3 DEF IInv, TypeOK
  <2>. QED
    BY <2>2, <2>3 DEF SyncRemove
<1>3. TypeOK'
  BY <1>1, <1>2 DEF IInv, TypeOK, SyncRemove
<1>4. CachedWereStored'
  BY ListedFields DEF IInv, TypeOK, CachedWereStored, SyncRemove, SetCred
<1>5. Asked' /\ Documents' /\ Snapshots' /\ Held' /\ Hashed' /\ AcceptedKnewPassword' /\ PasswordsWereStored'
  BY DEF IInv, TypeOK, Asked, Documents, Snapshots, Held, Hashed, AcceptedKnewPassword, CachedWereStored, PasswordsWereStored, SyncRemove
<1>. QED
  BY <1>1, <1>2, <1>3, <1>4, <1>5 DEF IInv

\* ... and then its password.
LEMMA SyncRemovePasswordStep ==
  ASSUME IInv, NEW n \in Nodes, NEW c \in todo[n], SyncRemovePassword(n, c)
  PROVE  IInv'
<1>1. TypeOK'
  BY ListedFields, SetPwdType DEF IInv, TypeOK, SyncRemovePassword
<1>2. PasswordsWereStored'
  BY ListedFields DEF IInv, TypeOK, PasswordsWereStored, SyncRemovePassword, SetPwd
<1>3. Asked' /\ Documents' /\ Snapshots' /\ Held' /\ Hashed' /\ AcceptedKnewPassword' /\ CachedWereStored'
  BY DEF IInv, TypeOK, Asked, Documents, Snapshots, Held, Hashed, AcceptedKnewPassword, CachedWereStored, PasswordsWereStored, SyncRemovePassword
<1>. QED
  BY <1>1, <1>2, <1>3 DEF IInv

-----------------------------------------------------------------------------
\* The caches are empty at the start and the documents have their names.
LEMMA InitIInv == Init => IInv
<1>. SUFFICES ASSUME Init PROVE IInv
  OBVIOUS
<1>1. TypeOK
  BY CredentialAssumption DEF Init, TypeOK, MaybeCredential
<1>2. Documents
  BY CredentialAssumption DEF Init, Documents
<1>3. /\ Asked /\ Snapshots /\ Held /\ Hashed
      /\ AcceptedKnewPassword /\ CachedWereStored /\ PasswordsWereStored
  BY DEF Init, Asked, Snapshots, Held, Holding, Hashed, AcceptedKnewPassword, Accepted,
         CachedWereStored, PasswordsWereStored
<1>. QED
  BY <1>1, <1>2, <1>3 DEF IInv

\* Every action preserves the invariant: one lemma above for each.
LEMMA NextIInv == IInv /\ [Next]_vars => IInv'
<1>. SUFFICES ASSUME IInv, [Next]_vars PROVE IInv'
  OBVIOUS
<1>1. CASE \E r \in Requests : \E q \in Menu : Arrive(r, q)
  BY <1>1, ArriveStep
<1>2. ASSUME NEW r \in Requests, Serve(r) PROVE IInv'
  BY <1>2, LookupStep, FetchStep, CheckPasswordStep, SavePasswordStep, PeekCacheStep,
     SaveCredentialToCacheStep, AdmitStep, WriteStep, ClearPasswordStep,
     ClearCredentialStep, NotifyDoneStep, NotifyFailsStep DEF Serve
<1>3. ASSUME NEW r \in Requests, NEW m \in Nodes, Tell(r, m) PROVE IInv'
  BY <1>3, TellPasswordStep, TellCredentialStep DEF Tell
<1>4. ASSUME NEW n \in Nodes, Sync(n) PROVE IInv'
  <2>1. CASE SyncFetch(n) \/ SyncEnd(n)
    BY <2>1, SyncFetchStep, SyncEndStep
  <2>2. CASE SyncListUsers(n) \/ SyncListPermissions(n)
    BY <2>2, SyncListStep DEF SyncListUsers, SyncListPermissions
  <2>3. ASSUME NEW c \in todo[n], SyncOne(n, c) PROVE IInv'
    BY <2>3, SyncClearPasswordStep, SyncSaveStep, SyncRemoveStep, SyncRemovePasswordStep
       DEF SyncOne
  <2>. QED
    BY <1>4, <2>1, <2>2, <2>3 DEF Sync
<1>5. CASE UNCHANGED vars
  BY <1>5 DEF vars, IInv, TypeOK, Asked, Documents, Snapshots, Held, Hashed,
              AcceptedKnewPassword, CachedWereStored, PasswordsWereStored
<1>. QED
  BY <1>1, <1>2, <1>3, <1>4, <1>5 DEF Next

\* The inductive invariant holds in every state of every execution.
THEOREM Inductive == Spec => []IInv
BY InitIInv, NextIInv, PTL DEF Spec

\* Every variable of the nodes, of the requests they serve and of the sync
\* keeps its type, for any number of nodes, requests and names.
THEOREM TypeCorrect == Spec => []TypeOK
BY Inductive, PTL DEF IInv

\* No node ever caches, under a username, a credential of another name or one
\* the users and permissions indices never held, however many requests and
\* syncs overlap and whichever of their calls fail (basicAuth and SetCache).
THEOREM CachedCredentialsStored == Spec => []CachedWereStored
BY Inductive, PTL DEF IInv

\* The password cache that replaces the bcrypt comparison only ever holds
\* passwords that were the user's (SavePassword in basicAuth).
THEOREM CachedPasswordsStored == Spec => []PasswordsWereStored
BY Inductive, PTL DEF IInv

\* A basic auth request passes its password check only with a password its
\* credential has or had, by whichever of the two caches or the search.
THEOREM AcceptedPasswordsStored == Spec => []AcceptedKnewPassword
BY Inductive, PTL DEF IInv

-----------------------------------------------------------------------------
(* Requests one at a time (Sequential).                                    *)

Failed == \E r \in Requests : pc[r] = "failed"

\* Node n has yet to clear what it caches of the target of r.
CredDue(r, n) ==
    \/ n \in untold[r] \cup half[r]
    \/ pc[r] \in {"clear_password", "clear_credential"} /\ n = ask[r].node
PwdDue(r, n) == n \in untold[r] \/ (pc[r] = "clear_password" /\ n = ask[r].node)

OneServed == \A r, s \in InFlight : r = s
NoSyncs == \A n \in Nodes : phase[n] = "idle" /\ todo[n] = {}
Told == \A r \in Requests : untold[r] # {} \/ half[r] # {} => pc[r] = "notify"

\* A request with a name goes by the document of that name as it is.
HoldsCurrent == \A r \in Requests :
    /\ pc[r] \in Holding /\ ask[r].name # NoName => obj[r] = store[ask[r].name]
    /\ pc[r] = "save_password" => obj[r].pass = ask[r].pass

CredsFreshOrDue == \A n \in Nodes, x \in Names :
    \/ cred[n][x] \in {None, store[x]}
    \/ \E r \in Requests : CredDue(r, n) /\ ask[r].target = x

PwdsFreshOrDue == \A n \in Nodes, u \in Users :
    \/ pwd[n][u] # None => store[u] # None /\ store[u].pass = pwd[n][u]
    \/ \E r \in Requests : PwdDue(r, n) /\ ask[r].target = u

InTurn ==
    /\ OneServed
    /\ NoSyncs
    /\ ~ Failed => Told /\ HoldsCurrent /\ CredsFreshOrDue /\ PwdsFreshOrDue

SInv == IInv /\ InTurn

LEMMA InTurnInitially == Init => InTurn
<1>. SUFFICES ASSUME Init PROVE InTurn
  OBVIOUS
<1>1. OneServed /\ NoSyncs
  BY DEF Init, OneServed, InFlight, NoSyncs
<1>2. Told /\ HoldsCurrent /\ CredsFreshOrDue /\ PwdsFreshOrDue
  BY DEF Init, Told, HoldsCurrent, Holding, CredsFreshOrDue, PwdsFreshOrDue, Keys
<1>. QED
  BY <1>1, <1>2 DEF InTurn

\* A request that failed stays so.
LEMMA FailedStays ==
  ASSUME SInv, Next, Failed
  PROVE  Failed'
<1>1. PICK r \in Requests : pc[r] = "failed"
  BY DEF Failed
<1>2. pc \in [Requests -> {"idle"} \cup Waiting \cup Answered]
  BY DEF SInv, IInv, TypeOK
<1>3. ASSUME NEW s \in Requests, NEW l, pc[s] # "failed", Goto(s, l) PROVE pc'[r] = "failed"
  BY <1>1, <1>2, <1>3 DEF Goto
<1>4. ASSUME NEW s \in Requests, NEW q \in Menu, Arrive(s, q) PROVE pc'[r] = "failed"
  BY <1>3, <1>4 DEF Arrive
<1>5. ASSUME NEW s \in Requests, Serve(s) PROVE pc'[r] = "failed"
  <2>1. PICK l : Goto(s, l)
    BY <1>5 DEF Serve, Lookup, Fetch, CheckPassword, SavePassword, PeekCache, SaveCredentialToCache, Admit,
       Write, ClearPassword, ClearCredential, NotifyDone, NotifyFails
  <2>2. pc[s] # "failed"
    BY <1>5 DEF Serve, Lookup, Fetch, CheckPassword, SavePassword, PeekCache, SaveCredentialToCache, Admit,
       Write, ClearPassword, ClearCredential, NotifyDone, NotifyFails
  <2>. QED
    BY <1>3, <2>1, <2>2
<1>6. ASSUME UNCHANGED pc PROVE pc'[r] = "failed"
  BY <1>1, <1>6
<1>7. pc'[r] = "failed"
  BY <1>4, <1>5, <1>6
  DEF Next, Tell, TellPassword, TellCredential, Sync, SyncFetch, SyncListUsers, SyncListPermissions,
      SyncList, SyncEnd, SyncOne, SyncClearPassword, SyncSave, SyncRemove, SyncRemovePassword
<1>. QED
  BY <1>7 DEF Failed

\* A step of the one request that is served leaves no other in flight.
LEMMA ServedAlone ==
  ASSUME SInv, NEW r \in Requests, pc[r] \in Waiting, NEW l, Goto(r, l)
  PROVE  /\ pc'[r] = l
         /\ \A s \in Requests \ {r} : pc'[s] = pc[s] /\ pc[s] \notin Waiting
         /\ OneServed'
<1>1. pc \in [Requests -> {"idle"} \cup Waiting \cup Answered]
  BY DEF SInv, IInv, TypeOK
<1>2. pc'[r] = l /\ \A s \in Requests \ {r} : pc'[s] = pc[s]
  BY <1>1 DEF Goto
<1>3. \A s \in Requests \ {r} : pc[s] \notin Waiting
  BY DEF SInv, InTurn, OneServed, InFlight
<1>4. OneServed'
  BY <1>2, <1>3 DEF OneServed, InFlight
<1>. QED
  BY <1>2, <1>3, <1>4

-----------------------------------------------------------------------------
\* Before its write a request finds everything cached as it is in the indices.
Calm == {"lookup", "fetch", "check", "save_password", "peek", "cache", "admit"}

LEMMA CalmIsFresh ==
  ASSUME SInv, ~ Failed, NEW r \in Requests, pc[r] \in Calm \cup {"write"}
  PROVE  /\ CredentialsFresh /\ PasswordsFresh
         /\ \A s \in Requests : untold[s] = {} /\ half[s] = {}
<1>1. r \in InFlight
  BY DEF InFlight, Calm
<1>2. \A s \in Requests : pc[s] \in Waiting => s = r
  BY <1>1 DEF SInv, InTurn, OneServed, InFlight
<1>3. \A s \in Requests : untold[s] = {} /\ half[s] = {}
  BY <1>2 DEF SInv, InTurn, Told, Calm
<1>4. \A s \in Requests, n \in Nodes : ~ CredDue(s, n) /\ ~ PwdDue(s, n)
  BY <1>2, <1>3 DEF CredDue, PwdDue, Calm
<1>. QED
  BY <1>3, <1>4 DEF SInv, InTurn, CredsFreshOrDue, PwdsFreshOrDue, CredentialsFresh, PasswordsFresh

\* A step before the write keeps to its turn if the caches are fresh after it
\* and the request holds the document of its name.
LEMMA CalmStep ==
  ASSUME SInv, NEW r \in Requests, pc[r] \in Calm, NEW l \in Waiting \cup {"ok", "refused"}, Goto(r, l),
         UNCHANGED <<ask, store, untold, half, phase, todo>>,
         ~ Failed => /\ CredentialsFresh' /\ PasswordsFresh'
                     /\ l \in Holding /\ ask[r].name # NoName => obj'[r] = store[ask[r].name]
                     /\ l = "save_password" => obj'[r].pass = ask[r].pass
  PROVE  InTurn'
<1>1. pc[r] \in Waiting
  BY DEF Calm
<1>2. /\ pc'[r] = l /\ OneServed'
      /\ \A s \in Requests \ {r} : pc'[s] = pc[s] /\ pc[s] \notin Waiting
  BY <1>1, ServedAlone
<1>3. NoSyncs'
  BY DEF SInv, InTurn, NoSyncs
<1>4. ASSUME ~ Failed' PROVE Told' /\ HoldsCurrent' /\ CredsFreshOrDue' /\ PwdsFreshOrDue'
  <2>1. ~ Failed
    <3>1. \A s \in Requests : pc[s] = "failed" => s # r
      BY <1>1
    <3>. QED
      BY <1>2, <1>4, <3>1 DEF Failed
  <2>2. Told'
    BY <2>1, CalmIsFresh DEF Told
  <2>3. HoldsCurrent'
    BY <1>2, <2>1 DEF HoldsCurrent, Holding
  <2>4. CredsFreshOrDue' /\ PwdsFreshOrDue'
    BY <2>1 DEF CredsFreshOrDue, PwdsFreshOrDue, CredentialsFresh, PasswordsFresh
  <2>. QED
    BY <2>2, <2>3, <2>4
<1>. QED
  BY <1>2, <1>3, <1>4 DEF InTurn

\* What is known of a request that is served before its write.
LEMMA CalmKnows ==
  ASSUME SInv, NEW r \in Requests, pc[r] \in Calm
  PROVE  /\ ask[r] \in Menu /\ ask[r].node \in Nodes /\ ask[r].name \in Keys
         /\ CacheKey(ask[r]) \in {NoName, ask[r].name}
         /\ NoName \notin Names /\ NoName \notin Users
         /\ pc[r] \in Holding =>
               /\ obj[r] \in Credential
               /\ IF ask[r].name = NoName THEN obj[r].name \notin Users ELSE obj[r].name = ask[r].name
         /\ ~ Failed => (CredentialsFresh /\ PasswordsFresh)
         /\ ~ Failed /\ pc[r] \in Holding /\ ask[r].name # NoName => obj[r] = store[ask[r].name]
<1>1. ask[r] \in Menu
  BY DEF SInv, IInv, Asked, Calm
<1>. QED
  BY <1>1, AskedFields, CalmIsFresh, CredentialAssumption
  DEF SInv, IInv, Held, InTurn, HoldsCurrent, CacheKey, Keys, Names

LEMMA LookupInTurn ==
  ASSUME SInv, NEW r \in Requests, Lookup(r)
  PROVE  InTurn'
<1> DEFINE hit == cred[ask[r].node][CacheKey(ask[r])]
           l == IF hit = None THEN "fetch" ELSE "check"
<1>1. pc[r] = "lookup" /\ Goto(r, l) /\ UNCHANGED <<ask, store, cred, pwd, untold, half, phase, todo>>
  BY DEF Lookup
<1>2. obj'[r] = hit
  BY DEF SInv, IInv, TypeOK, Lookup
<1>3. CacheKey(ask[r]) = ask[r].name
  BY <1>1 DEF SInv, IInv, Asked, CacheKey
<1>4. ~ Failed => CredentialsFresh' /\ PasswordsFresh'
  BY <1>1, CalmKnows DEF Calm, CredentialsFresh, PasswordsFresh
<1>5. ~ Failed /\ l \in Holding /\ ask[r].name # NoName => obj'[r] = store[ask[r].name]
  <2>1. ask[r].name # NoName => ask[r].name \in Names
    BY <1>1, CalmKnows DEF Calm, Keys
  <2>2. hit # None => l = "check" /\ hit = cred[ask[r].node][ask[r].name]
    BY <1>3
  <2>3. hit = None => l \notin Holding
    BY DEF Holding
  <2>. QED
    BY <1>1, <1>2, <2>1, <2>2, <2>3, CalmKnows DEF Calm, CredentialsFresh
<1>6. l \in Waiting \cup {"ok", "refused"} /\ l # "save_password"
  OBVIOUS
<1>. QED
  BY <1>1, <1>4, <1>5, <1>6, CalmStep DEF Calm

LEMMA FetchInTurn ==
  ASSUME SInv, NEW r \in Requests, Fetch(r)
  PROVE  InTurn'
<1>1. pc[r] = "fetch" /\ UNCHANGED <<ask, store, cred, pwd, untold, half, phase, todo>>
  BY DEF Fetch
<1>2. PICK l \in {"check", "refused"} : Goto(r, l) /\ (l = "check" => obj' = [obj EXCEPT ![r] = store[ask[r].name]])
  BY DEF Fetch
<1>3. l \in Holding => obj'[r] = store[ask[r].name]
  BY <1>2 DEF SInv, IInv, TypeOK, Holding
<1>4. ~ Failed => CredentialsFresh' /\ PasswordsFresh'
  BY <1>1, CalmKnows DEF Calm, CredentialsFresh, PasswordsFresh
<1>. QED
  BY <1>1, <1>2, <1>3, <1>4, CalmStep DEF Calm

LEMMA CheckPasswordInTurn ==
  ASSUME SInv, NEW r \in Requests, CheckPassword(r)
  PROVE  InTurn'
<1>1. pc[r] = "check" /\ UNCHANGED <<ask, store, cred, pwd, obj, untold, half, phase, todo>>
  BY DEF CheckPassword
<1>2. PICK l \in {"refused", "save_password", "peek"} :
         Goto(r, l) /\ (l = "save_password" => PasswordAccepted(r) /\ obj[r].name \in Users)
  BY DEF CheckPassword
<1>3. ~ Failed => CredentialsFresh' /\ PasswordsFresh'
  BY <1>1, CalmKnows DEF Calm, CredentialsFresh, PasswordsFresh
<1>4. ~ Failed /\ obj[r].name \in Users =>
         obj[r] = store[ask[r].name] /\ obj[r].name = ask[r].name
  BY <1>1, CalmKnows DEF Calm, Holding
<1>5. ASSUME ~ Failed, l = "save_password" PROVE obj[r].pass = ask[r].pass
  <2>1. ask[r].scheme # "jwt"
    BY <1>1, <1>2, <1>4, <1>5, CalmKnows, CredentialAssumption DEF Calm
  <2>2. CASE pwd[ask[r].node][obj[r].name] = ask[r].pass
    <3>1. ask[r].pass # None
      BY <1>1, CalmKnows, AskedFields, CredentialAssumption DEF Calm, SInv
    <3>. QED
      BY <1>1, <1>2, <1>4, <1>5, <2>2, <3>1, CalmKnows DEF Calm, PasswordsFresh
  <2>. QED
    BY <1>2, <1>5, <2>1, <2>2 DEF PasswordAccepted
<1>6. ~ Failed /\ ask[r].name # NoName => obj[r] = store[ask[r].name]
  BY <1>1, CalmKnows DEF Calm, Holding
<1>. QED
  BY <1>1, <1>2, <1>3, <1>5, <1>6, CalmStep DEF Calm

LEMMA SavePasswordInTurn ==
  ASSUME SInv, NEW r \in Requests, SavePassword(r)
  PROVE  InTurn'
<1>1. /\ pc[r] = "save_password" /\ Goto(r, "peek") /\ SetPwd(ask[r].node, obj[r].name, ask[r].pass)
      /\ UNCHANGED <<ask, store, cred, obj, untold, half, phase, todo>>
  BY DEF SavePassword
<1>2. ~ Failed => obj[r] = store[ask[r].name] /\ obj[r].name = ask[r].name /\ obj[r].pass = ask[r].pass
                  /\ obj[r] \in Credential
  <2>1. obj[r].name \in Users
    BY <1>1 DEF SInv, IInv, Hashed
  <2>2. ~ Failed => obj[r].pass = ask[r].pass
    BY <1>1 DEF SInv, InTurn, HoldsCurrent
  <2>. QED
    BY <1>1, <2>1, <2>2, CalmKnows DEF Calm, Holding
<1>3. ~ Failed => CredentialsFresh'
  BY <1>1, CalmKnows DEF Calm, CredentialsFresh
<1>4. ASSUME ~ Failed PROVE PasswordsFresh'
  <2>1. \A n \in Nodes, u \in Users : pwd'[n][u] =
           IF n = ask[r].node /\ u = obj[r].name THEN ask[r].pass ELSE pwd[n][u]
    BY <1>1 DEF SetPwd, SInv, IInv, TypeOK
  <2>2. store[obj[r].name] # None /\ store[obj[r].name].pass = ask[r].pass
    BY <1>2, <1>4, CredentialAssumption
  <2>. QED
    BY <1>1, <1>4, <2>1, <2>2, CalmKnows DEF Calm, PasswordsFresh
<1>. QED
  BY <1>1, <1>2, <1>3, <1>4, CalmStep DEF Calm

LEMMA PeekCacheInTurn ==
  ASSUME SInv, NEW r \in Requests, PeekCache(r)
  PROVE  InTurn'
<1>1. pc[r] = "peek" /\ UNCHANGED <<ask, store, cred, pwd, obj, untold, half, phase, todo>>
  BY DEF PeekCache
<1>2. PICK l \in {"cache", "admit"} : Goto(r, l)
  BY DEF PeekCache
<1>3. ~ Failed => /\ CredentialsFresh' /\ PasswordsFresh'
                  /\ ask[r].name # NoName => obj[r] = store[ask[r].name]
  BY <1>1, CalmKnows DEF Calm, CredentialsFresh, PasswordsFresh, Holding
<1>. QED
  BY <1>1, <1>2, <1>3, CalmStep DEF Calm

LEMMA SaveCredentialToCacheInTurn ==
  ASSUME SInv, NEW r \in Requests, SaveCredentialToCache(r)
  PROVE  InTurn'
<1>1. /\ pc[r] = "cache" /\ Goto(r, "admit") /\ SetCred(ask[r].node, CacheKey(ask[r]), obj[r])
      /\ UNCHANGED <<ask, store, pwd, obj, untold, half, phase, todo>>
  BY DEF SaveCredentialToCache
<1>2. ~ Failed => PasswordsFresh' /\ (ask[r].name # NoName => obj[r] = store[ask[r].name])
  BY <1>1, CalmKnows DEF Calm, PasswordsFresh, Holding
<1>3. ASSUME ~ Failed PROVE CredentialsFresh'
  <2>1. \A n \in Nodes, k \in Keys :
           cred'[n][k] = IF n = ask[r].node /\ k = CacheKey(ask[r]) THEN obj[r] ELSE cred[n][k]
    BY <1>1 DEF SetCred, SInv, IInv, TypeOK
  <2>2. \A x \in Names : x = CacheKey(ask[r]) => x = ask[r].name /\ x # NoName
    BY <1>1, CalmKnows DEF Calm
  <2>. QED
    BY <1>1, <1>2, <1>3, <2>1, <2>2, CalmKnows DEF Calm, CredentialsFresh, Keys
<1>. QED
  BY <1>1, <1>2, <1>3, CalmStep DEF Calm

LEMMA AdmitInTurn ==
  ASSUME SInv, NEW r \in Requests, Admit(r)
  PROVE  InTurn'
<1>1. pc[r] = "admit" /\ UNCHANGED <<ask, store, pwd, obj, untold, half, phase, todo>>
  BY DEF Admit
<1>2. PICK l \in {"ok", "refused", "write", "clear_password"} : Goto(r, l)
  BY DEF Admit
<1>3. UNCHANGED cred \/ SetCred(ask[r].node, RouteVar(ask[r]), None)
  BY DEF Admit
<1>4. \A n \in Nodes, k \in Keys : cred'[n][k] \in {None, cred[n][k]}
  BY <1>1, <1>3, CalmKnows, AskedFields, SetCredEffect DEF Calm, SInv, IInv
<1>5. ~ Failed => CredentialsFresh' /\ PasswordsFresh'
  BY <1>1, <1>4, CalmKnows DEF Calm, CredentialsFresh, PasswordsFresh, Keys
<1>. QED
  BY <1>1, <1>2, <1>5, CalmStep DEF Calm, Holding

-----------------------------------------------------------------------------
\* From its write on a request has caches to clear, unless it fails.

\* With nobody served there is none, and everything is fresh.
LEMMA RestIsFresh ==
  ASSUME SInv, ~ Failed, InFlight = {}
  PROVE  /\ CredentialsFresh /\ PasswordsFresh
         /\ \A s \in Requests : untold[s] = {} /\ half[s] = {}
<1>1. \A s \in Requests : pc[s] \notin Waiting
  BY DEF InFlight
<1>2. \A s \in Requests : untold[s] = {} /\ half[s] = {}
  BY <1>1 DEF SInv, InTurn, Told
<1>3. \A s \in Requests, n \in Nodes : ~ CredDue(s, n) /\ ~ PwdDue(s, n)
  BY <1>1, <1>2 DEF CredDue, PwdDue
<1>. QED
  BY <1>2, <1>3 DEF SInv, InTurn, CredsFreshOrDue, PwdsFreshOrDue, CredentialsFresh, PasswordsFresh

LEMMA ArriveInTurn ==
  ASSUME Sequential, SInv, NEW r \in Requests, NEW q \in Menu, Arrive(r, q)
  PROVE  InTurn'
<1>1. InFlight = {}
  <2>1. IsFiniteSet(InFlight)
    <3>1. CASE InFlight = {}
      BY <3>1, FS_EmptySet
    <3>2. ASSUME NEW s \in InFlight PROVE IsFiniteSet(InFlight)
      <4>1. InFlight = {s}
        BY DEF SInv, InTurn, OneServed
      <4>. QED
        BY <4>1, FS_Singleton
    <3>. QED
      BY <3>1, <3>2
  <2>2. Cardinality(InFlight) \in Nat /\ Cardinality(InFlight) < 1
    <3>1. Cardinality(InFlight) \in Nat
      BY <2>1, FS_CardinalityType
    <3>2. MaxInFlight \in Nat /\ MaxInFlight <= 1 /\ Cardinality(InFlight) < MaxInFlight
      BY CredentialAssumption DEF Sequential, Arrive
    <3>. QED
      BY <3>1, <3>2
  <2>3. Cardinality(InFlight) = 0
    BY <2>2
  <2>. QED
    BY <2>1, <2>3, FS_EmptySet
<1>2. PICK l \in {"fetch", "lookup"} : Goto(r, l)
  BY DEF Arrive
<1>3. pc'[r] = l /\ \A s \in Requests \ {r} : pc'[s] = pc[s] /\ pc[s] \notin Waiting
  BY <1>1, <1>2 DEF Goto, InFlight, SInv, IInv, TypeOK
<1>4. OneServed'
  BY <1>3 DEF OneServed, InFlight
<1>5. NoSyncs'
  BY DEF SInv, InTurn, NoSyncs, Arrive
<1>6. ASSUME ~ Failed' PROVE Told' /\ HoldsCurrent' /\ CredsFreshOrDue' /\ PwdsFreshOrDue'
  <2>1. ~ Failed
    BY <1>6, FailedStays DEF Next
  <2>2. Told'
    BY <1>1, <2>1, RestIsFresh DEF Told, Arrive
  <2>3. HoldsCurrent'
    BY <1>3 DEF HoldsCurrent, Holding
  <2>4. CredentialsFresh' /\ PasswordsFresh'
    BY <1>1, <2>1, RestIsFresh DEF CredentialsFresh, PasswordsFresh, Arrive
  <2>. QED
    BY <2>2, <2>3, <2>4 DEF CredsFreshOrDue, PwdsFreshOrDue, CredentialsFresh, PasswordsFresh
<1>. QED
  BY <1>4, <1>5, <1>6 DEF InTurn

\* What a write makes stale it has yet to clear: on all nodes by ACCAPI, or on
\* the only one; a permission that is created was cached nowhere.
LEMMA WriteInTurn ==
  ASSUME Sequential, SInv, NEW r \in Requests, Write(r)
  PROVE  InTurn'
<1> DEFINE q == ask[r]
           next == AfterWrite(q)
<1>1. pc[r] = "write" /\ UNCHANGED <<ask, cred, pwd, half, phase, todo>>
  BY DEF Write
<1>2. PICK l : Goto(r, l) /\ l \in {"ok", "failed", "notify", "clear_password"}
  BY DEF Write, AfterWrite
<1>3. /\ pc'[r] = l /\ OneServed'
      /\ \A s \in Requests \ {r} : pc'[s] = pc[s] /\ pc[s] \notin Waiting
  BY <1>1, <1>2, ServedAlone
<1>4. NoSyncs'
  BY <1>1 DEF SInv, InTurn, NoSyncs
<1>5. ASSUME ~ Failed' PROVE Told' /\ HoldsCurrent' /\ CredsFreshOrDue' /\ PwdsFreshOrDue'
  <2>1. ~ Failed
    <3>1. \A s \in Requests : pc[s] = "failed" => s # r
      BY <1>1
    <3>. QED
      BY <1>3, <1>5, <3>1 DEF Failed
  <2>2. ~ Goto(r, "failed")
    BY <1>1, <1>5, ServedAlone DEF Failed
  <2>3. /\ Applicable(q) /\ Stored(q) /\ Goto(r, next)
        /\ untold' = [untold EXCEPT ![r] = IF next = "notify" THEN Nodes ELSE {}]
    BY <2>2 DEF Write
  <2>4. pc'[r] = next
    BY <1>1, <2>3, ServedAlone
  <2>5. CredentialsFresh /\ PasswordsFresh /\ \A s \in Requests : untold[s] = {} /\ half[s] = {}
    BY <1>1, <2>1, CalmIsFresh
  <2>6. /\ untold'[r] = IF next = "notify" THEN Nodes ELSE {}
        /\ \A s \in Requests \ {r} : untold'[s] = {}
    BY <2>3, <2>5 DEF SInv, IInv, TypeOK
  <2>7. Told'
    BY <1>1, <2>4, <2>5, <2>6 DEF Told
  <2>8. HoldsCurrent'
    BY <1>2, <1>3 DEF HoldsCurrent, Holding
  <2>9. q \in Menu /\ q.node \in Nodes /\ q.target \in Names
    BY <1>1, AskedFields DEF SInv, IInv, Asked
  <2>10. \A x \in Names : x # q.target => store'[x] = store[x]
    BY <2>3, <2>9 DEF Stored, SInv, IInv, TypeOK
  <2>11. CASE next = "ok"
    <3>1. q.op = "create"
      BY <2>11 DEF AfterWrite
    <3>2. q.target \in Permissions /\ past[q.target] = {}
      BY <2>3, <2>9, <3>1 DEF Sequential, Applicable, FreshName
    <3>3. \A n \in Nodes : cred[n][q.target] = None
      BY <2>9, <3>2, CredentialAssumption DEF SInv, IInv, CachedWereStored, Keys
    <3>4. q.target \notin Users
      BY <3>2, CredentialAssumption
    <3>. QED
      BY <1>1, <2>5, <2>7, <2>8, <2>10, <3>3, <3>4
      DEF CredsFreshOrDue, PwdsFreshOrDue, CredentialsFresh, PasswordsFresh, Names
  <2>12. CASE next \in {"notify", "clear_password"}
    <3>1. ASSUME NEW n \in Nodes PROVE CredDue(r, n)' /\ PwdDue(r, n)'
      <4>1. CASE next = "notify"
        BY <2>6, <4>1 DEF CredDue, PwdDue
      <4>2. CASE next = "clear_password"
        <5>1. ~ Proxied
          BY <4>2 DEF AfterWrite
        <5>2. n = q.node
          BY <2>9, <5>1 DEF Sequential
        <5>. QED
          BY <1>1, <2>4, <4>2, <5>2 DEF CredDue, PwdDue
      <4>. QED
        BY <2>12, <4>1, <4>2
    <3>. QED
      BY <1>1, <2>5, <2>7, <2>8, <2>10, <3>1
      DEF CredsFreshOrDue, PwdsFreshOrDue, CredentialsFresh, PasswordsFresh, Names
  <2>. QED
    BY <2>11, <2>12 DEF AfterWrite
<1>. QED
  BY <1>3, <1>4, <1>5 DEF InTurn

\* While a request clears, no other has anything to clear.
LEMMA DueAlone ==
  ASSUME SInv, ~ Failed, NEW r \in Requests, pc[r] \in {"notify", "clear_password", "clear_credential"}
  PROVE  /\ ask[r] \in Menu /\ ask[r].node \in Nodes /\ ask[r].target \in Names /\ ask[r].target \in Keys
         /\ \A s \in Requests \ {r} : pc[s] \notin Waiting /\ untold[s] = {} /\ half[s] = {}
         /\ \A n \in Nodes, x \in Names :
               cred[n][x] \in {None, store[x]} \/ (CredDue(r, n) /\ ask[r].target = x)
         /\ \A n \in Nodes, u \in Users :
               \/ pwd[n][u] # None => store[u] # None /\ store[u].pass = pwd[n][u]
               \/ PwdDue(r, n) /\ ask[r].target = u
<1>1. ask[r] \in Menu /\ ask[r].node \in Nodes /\ ask[r].target \in Names /\ ask[r].target \in Keys
  BY AskedFields DEF SInv, IInv, Asked, Keys
<1>2. \A s \in Requests \ {r} : pc[s] \notin Waiting
  BY DEF SInv, InTurn, OneServed, InFlight
<1>3. \A s \in Requests \ {r} : untold[s] = {} /\ half[s] = {}
  BY <1>2 DEF SInv, InTurn, Told
<1>4. \A s \in Requests \ {r}, n \in Nodes : ~ CredDue(s, n) /\ ~ PwdDue(s, n)
  BY <1>2, <1>3 DEF CredDue, PwdDue
<1>. QED
  BY <1>1, <1>2, <1>3, <1>4 DEF SInv, InTurn, CredsFreshOrDue, PwdsFreshOrDue

LEMMA ClearPasswordInTurn ==
  ASSUME SInv, NEW r \in Requests, ClearPassword(r)
  PROVE  InTurn'
<1>1. /\ pc[r] = "clear_password" /\ Goto(r, "clear_credential")
      /\ UNCHANGED <<ask, store, cred, untold, half, phase, todo>>
      /\ pwd' = IF ask[r].target \in Users
                THEN [pwd EXCEPT ![ask[r].node][ask[r].target] = None] ELSE pwd
  BY DEF ClearPassword
<1>2. /\ pc'[r] = "clear_credential" /\ OneServed'
      /\ \A s \in Requests \ {r} : pc'[s] = pc[s] /\ pc[s] \notin Waiting
  BY <1>1, ServedAlone
<1>3. NoSyncs'
  BY <1>1 DEF SInv, InTurn, NoSyncs
<1>4. ASSUME ~ Failed' PROVE Told' /\ HoldsCurrent' /\ CredsFreshOrDue' /\ PwdsFreshOrDue'
  <2>1. ~ Failed
    BY <1>1, <1>2, <1>4 DEF Failed
  <2>2. untold[r] = {} /\ half[r] = {}
    BY <1>1, <2>1 DEF SInv, InTurn, Told
  <2>3. Told'
    BY <1>1, <2>1, <2>2, DueAlone DEF Told
  <2>4. HoldsCurrent'
    BY <1>2 DEF HoldsCurrent, Holding
  <2>5. \A n \in Nodes : CredDue(r, n) => CredDue(r, n)'
    BY <1>1, <1>2 DEF CredDue
  <2>6. CredsFreshOrDue'
    BY <1>1, <2>1, <2>5, DueAlone DEF CredsFreshOrDue
  <2>7. \A n \in Nodes : PwdDue(r, n) => n = ask[r].node
    BY <2>2 DEF PwdDue
  <2>8. ask[r].target \in Users =>
          \A n \in Nodes, u \in Users :
             pwd'[n][u] = IF n = ask[r].node /\ u = ask[r].target THEN None ELSE pwd[n][u]
    BY <1>1 DEF SInv, IInv, TypeOK
  <2>9. PwdsFreshOrDue'
    BY <1>1, <2>1, <2>7, <2>8, DueAlone DEF PwdsFreshOrDue
  <2>. QED
    BY <2>3, <2>4, <2>6, <2>9
<1>. QED
  BY <1>2, <1>3, <1>4 DEF InTurn

LEMMA ClearCredentialInTurn ==
  ASSUME SInv, NEW r \in Requests, ClearCredential(r)
  PROVE  InTurn'
<1>1. /\ pc[r] = "clear_credential" /\ Goto(r, "ok") /\ SetCred(ask[r].node, ask[r].target, None)
      /\ UNCHANGED <<ask, store, pwd, untold, half, phase, todo>>
  BY DEF ClearCredential
<1>2. /\ pc'[r] = "ok" /\ OneServed'
      /\ \A s \in Requests \ {r} : pc'[s] = pc[s] /\ pc[s] \notin Waiting
  BY <1>1, ServedAlone
<1>3. NoSyncs'
  BY <1>1 DEF SInv, InTurn, NoSyncs
<1>4. ASSUME ~ Failed' PROVE Told' /\ HoldsCurrent' /\ CredsFreshOrDue' /\ PwdsFreshOrDue'
  <2>1. ~ Failed
    BY <1>1, <1>2, <1>4 DEF Failed
  <2>2. untold[r] = {} /\ half[r] = {}
    BY <1>1, <2>1 DEF SInv, InTurn, Told
  <2>3. Told'
    BY <1>1, <2>1, <2>2, DueAlone DEF Told
  <2>4. HoldsCurrent'
    BY <1>2 DEF HoldsCurrent, Holding
  <2>5. \A n \in Nodes : ~ PwdDue(r, n) /\ (CredDue(r, n) => n = ask[r].node)
    BY <1>1, <2>2 DEF PwdDue, CredDue
  <2>6. \A n \in Nodes, k \in Keys :
          cred'[n][k] = IF n = ask[r].node /\ k = ask[r].target THEN None ELSE cred[n][k]
    BY <1>1 DEF SetCred, SInv, IInv, TypeOK
  <2>7. CredsFreshOrDue'
    BY <1>1, <2>1, <2>5, <2>6, DueAlone DEF CredsFreshOrDue, Keys
  <2>8. PwdsFreshOrDue'
    BY <1>1, <2>1, <2>5, DueAlone DEF PwdsFreshOrDue
  <2>. QED
    BY <2>3, <2>4, <2>7, <2>8
<1>. QED
  BY <1>2, <1>3, <1>4 DEF InTurn

\* ACCAPI has answered, or failed.
LEMMA NotifiedInTurn ==
  ASSUME SInv, NEW r \in Requests, NotifyDone(r) \/ NotifyFails(r)
  PROVE  InTurn'
<1>1. pc[r] = "notify" /\ UNCHANGED <<ask, store, cred, pwd, half, phase, todo>>
  BY DEF NotifyDone, NotifyFails
<1>2. PICK l \in {"ok", "failed"} : Goto(r, l)
  BY DEF NotifyDone, NotifyFails
<1>3. /\ pc'[r] = l /\ OneServed'
      /\ \A s \in Requests \ {r} : pc'[s] = pc[s] /\ pc[s] \notin Waiting
  BY <1>1, <1>2, ServedAlone
<1>4. NoSyncs'
  BY <1>1 DEF SInv, InTurn, NoSyncs
<1>5. ASSUME ~ Failed' PROVE Told' /\ HoldsCurrent' /\ CredsFreshOrDue' /\ PwdsFreshOrDue'
  <2>1. ~ Failed
    BY <1>1, <1>3, <1>5 DEF Failed
  <2>2. NotifyDone(r)
    BY <1>1, <1>5, ServedAlone DEF Failed, NotifyFails
  <2>3. untold[r] = {} /\ half[r] = {} /\ untold' = untold
    BY <2>2 DEF NotifyDone
  <2>4. Told'
    BY <1>1, <2>1, <2>3, DueAlone DEF Told
  <2>5. HoldsCurrent'
    BY <1>3 DEF HoldsCurrent, Holding
  <2>6. \A n \in Nodes : ~ PwdDue(r, n) /\ ~ CredDue(r, n)
    BY <1>1, <2>3 DEF PwdDue, CredDue
  <2>7. CredsFreshOrDue' /\ PwdsFreshOrDue'
    BY <1>1, <2>1, <2>6, DueAlone DEF CredsFreshOrDue, PwdsFreshOrDue
  <2>. QED
    BY <2>4, <2>5, <2>7
<1>. QED
  BY <1>3, <1>4, <1>5 DEF InTurn

\* What the nodes are told to clear is what the request has written.
LEMMA ToldInTurn ==
  ASSUME Sequential, SInv, NEW r \in Requests, pc[r] = "notify"
  PROVE  ToldName(ask[r]) = ask[r].target
BY DEF SInv, IInv, Asked, Sequential

LEMMA TellPasswordInTurn ==
  ASSUME Sequential, SInv, NEW r \in Requests, NEW m \in Nodes, TellPassword(r, m)
  PROVE  InTurn'
<1>1. /\ m \in untold[r] /\ UNCHANGED <<pc, ask, obj, store, cred, phase, todo>>
      /\ untold' = [untold EXCEPT ![r] = @ \ {m}] /\ half' = [half EXCEPT ![r] = @ \cup {m}]
      /\ pwd' = IF ToldName(ask[r]) \in Users THEN [pwd EXCEPT ![m][ToldName(ask[r])] = None] ELSE pwd
  BY DEF TellPassword
<1>2. OneServed' /\ NoSyncs' /\ (Failed' <=> Failed)
  BY <1>1 DEF SInv, InTurn, OneServed, InFlight, NoSyncs, Failed
<1>3. ASSUME ~ Failed PROVE Told' /\ HoldsCurrent' /\ CredsFreshOrDue' /\ PwdsFreshOrDue'
  <2>1. pc[r] = "notify" /\ ToldName(ask[r]) = ask[r].target
    BY <1>1, <1>3, ToldInTurn DEF SInv, InTurn, Told
  <2>2. /\ untold'[r] = untold[r] \ {m} /\ half'[r] = half[r] \cup {m}
        /\ \A s \in Requests \ {r} : untold'[s] = untold[s] /\ half'[s] = half[s]
    BY <1>1 DEF SInv, IInv, TypeOK
  <2>3. Told'
    BY <1>1, <1>3, <2>1, <2>2, DueAlone DEF Told
  <2>4. HoldsCurrent'
    BY <1>1, <1>3 DEF SInv, InTurn, HoldsCurrent
  <2>5. \A n \in Nodes : (CredDue(r, n) => CredDue(r, n)') /\ (PwdDue(r, n) => PwdDue(r, n)' \/ n = m)
    BY <1>1, <2>1, <2>2 DEF CredDue, PwdDue
  <2>6. ask[r].target \in Users =>
          \A n \in Nodes, u \in Users :
             pwd'[n][u] = IF n = m /\ u = ask[r].target THEN None ELSE pwd[n][u]
    BY <1>1, <2>1 DEF SInv, IInv, TypeOK
  <2>7. CredsFreshOrDue'
    BY <1>1, <1>3, <2>1, <2>5, DueAlone DEF CredsFreshOrDue
  <2>8. PwdsFreshOrDue'
    BY <1>1, <1>3, <2>1, <2>5, <2>6, DueAlone DEF PwdsFreshOrDue
  <2>. QED
    BY <2>3, <2>4, <2>7, <2>8
<1>. QED
  BY <1>2, <1>3 DEF InTurn

LEMMA TellCredentialInTurn ==
  ASSUME Sequential, SInv, NEW r \in Requests, NEW m \in Nodes, TellCredential(r, m)
  PROVE  InTurn'
<1>1. /\ m \in half[r] /\ UNCHANGED <<pc, ask, obj, store, pwd, untold, phase, todo>>
      /\ SetCred(m, ToldName(ask[r]), None) /\ half' = [half EXCEPT ![r] = @ \ {m}]
  BY DEF TellCredential
<1>2. OneServed' /\ NoSyncs' /\ (Failed' <=> Failed)
  BY <1>1 DEF SInv, InTurn, OneServed, InFlight, NoSyncs, Failed
<1>3. ASSUME ~ Failed PROVE Told' /\ HoldsCurrent' /\ CredsFreshOrDue' /\ PwdsFreshOrDue'
  <2>1. pc[r] = "notify" /\ ToldName(ask[r]) = ask[r].target
    BY <1>1, <1>3, ToldInTurn DEF SInv, InTurn, Told
  <2>2. /\ half'[r] = half[r] \ {m}
        /\ \A s \in Requests \ {r} : half'[s] = half[s]
    BY <1>1 DEF SInv, IInv, TypeOK
  <2>3. Told'
    BY <1>1, <1>3, <2>1, <2>2, DueAlone DEF Told
  <2>4. HoldsCurrent'
    BY <1>1, <1>3 DEF SInv, InTurn, HoldsCurrent
  <2>5. \A n \in Nodes : (CredDue(r, n) => CredDue(r, n)' \/ n = m) /\ (PwdDue(r, n) => PwdDue(r, n)')
    BY <1>1, <2>1, <2>2 DEF CredDue, PwdDue
  <2>6. \A n \in Nodes, k \in Keys :
          cred'[n][k] = IF n = m /\ k = ask[r].target THEN None ELSE cred[n][k]
    BY <1>1, <2>1 DEF SetCred, SInv, IInv, TypeOK
  <2>7. CredsFreshOrDue'
    BY <1>1, <1>3, <2>1, <2>5, <2>6, DueAlone DEF CredsFreshOrDue, Keys
  <2>8. PwdsFreshOrDue'
    BY <1>1, <1>3, <2>1, <2>5, DueAlone DEF PwdsFreshOrDue
  <2>. QED
    BY <2>3, <2>4, <2>7, <2>8
<1>. QED
  BY <1>2, <1>3 DEF InTurn

LEMMA NextInTurn == Sequential /\ SInv /\ [Next]_vars => SInv'
<1>. SUFFICES ASSUME Sequential, SInv, [Next]_vars PROVE InTurn'
  BY NextIInv DEF SInv
<1>1. ASSUME NEW r \in Requests, NEW q \in Menu, Arrive(r, q) PROVE InTurn'
  BY <1>1, ArriveInTurn
<1>2. ASSUME NEW r \in Requests, Serve(r) PROVE InTurn'
  BY <1>2, LookupInTurn, FetchInTurn, CheckPasswordInTurn, SavePasswordInTurn, PeekCacheInTurn,
     SaveCredentialToCacheInTurn, AdmitInTurn, WriteInTurn, ClearPasswordInTurn, ClearCredentialInTurn,
     NotifiedInTurn DEF Serve
<1>3. ASSUME NEW r \in Requests, NEW m \in Nodes, Tell(r, m) PROVE InTurn'
  BY <1>3, TellPasswordInTurn, TellCredentialInTurn DEF Tell
<1>4. ASSUME NEW n \in Nodes, Sync(n) PROVE FALSE
  BY <1>4 DEF Sequential, SInv, InTurn, NoSyncs, Sync, SyncFetch, SyncListUsers, SyncListPermissions,
     SyncList, SyncEnd
<1>5. CASE UNCHANGED vars
  BY <1>5 DEF vars, SInv, InTurn, OneServed, InFlight, NoSyncs, Told, HoldsCurrent, CredsFreshOrDue,
     PwdsFreshOrDue, CredDue, PwdDue, Failed
<1>. QED
  BY <1>1, <1>2, <1>3, <1>4, <1>5 DEF Next

\* Requests one after the other leave every cache of every node as the indices
\* are, as long as none of their calls fails: for any number of nodes behind
\* ACCAPI, or a single node, any documents and any requests that do not create
\* a user over another nor, behind ACCAPI, write /_user as somebody else than
\* ACCAPI calls.  So what is stale under a username always comes of an overlap,
\* of a failure, of such a creation, or of a route that names nobody to ACCAPI.
THEOREM CoherentInTurn == Sequential /\ Spec => []SequentialCoherence
<1>. SUFFICES ASSUME Sequential PROVE Spec => []SequentialCoherence
  OBVIOUS
<1>1. Init => SInv
  BY InitIInv, InTurnInitially DEF SInv
<1>2. SInv => SequentialCoherence
  BY RestIsFresh DEF SequentialCoherence, Quiet, Failed
<1>3. SInv /\ [Next]_vars => SInv'
  BY NextInTurn
<1>. QED
  BY <1>1, <1>2, <1>3, PTL DEF Spec
=============================================================================
