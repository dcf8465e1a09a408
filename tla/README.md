# A verification development of reactivesearch-api

reactivesearch-api is a gateway in front of Elasticsearch: it authenticates a
request with a user's or a permission's credential, checks what the credential
may do, limits the rate, translates ReactiveSearch queries, forwards to
Elasticsearch and records the request.  Administrators change users and
permissions, reindex, and pay for a plan, while all this goes on.  This
directory holds TLA+ models of the parts of it in which *order* matters, TLC
configurations that check them on small instances, and proofs, checked by
TLAPS, for all instances.  `PROJECT.json` says of every definition which lines
of the source it stands for.

## 1. Inventory

| Part | State it keeps | Operations | What is hard about it |
|---|---|---|---|
| authentication (`plugins/auth`) | `CredentialCache`, `UserToPasswordCache`, one mutex each; public key and role key | `basicAuth` (basic auth and JWT), removal of a name's entries after writes, setting the public key | lookup, search, comparison, fill are critical sections of their own; writes and syncs fall between them |
| users, permissions (`plugins/users`, `plugins/permissions`) | two indices of Elasticsearch | create, patch, delete; role handlers | a write that succeeds and is reported as failed; clearing after the write; uniqueness of roles is check-then-act |
| cache sync (`util/sync_cache.go`, `*/sync_cache.go`) | none | a cron job compares what is cached with a search | works on a snapshot that is old when it is applied |
| ACCAPI proxy (`util/util.go`) | none | a write is repeated on every node | nodes hear of a write at different times, and of a write of `/_user` without the name |
| reindexer (`plugins/reindexer`, `model/reindex`) | `CurrentlyReIndexingProcess`, a goroutine per asynchronous job | describe, create, copy, wait, aliases, delete, alias, settings, discard | ten calls to Elasticsearch, each may fail or go on unheard, two jobs overlap, the process restarts |
| index and alias caches (`middleware/classify`) | alias to index and index to alias | resolve a name, set an alias, list the aliased indices | a cache beside the truth in Elasticsearch, with two writers |
| rate limiter (`middleware/ratelimiter`) | limiters and counts in memory | limit by category and by address | peek and take are two calls; requests with a patched limit and with the old one set it on one shared limiter in turn |
| request logs (`model/requestlogs`, `plugins/logs`, `plugins/querytranslate/middleware.go`) | a map with expiry; per request a channel and a wait group | senders compute diffs, a recorder drains, a sweeper evicts | counting senders, closing the channel, expiry in between; one file, many writers |
| billing (`util/billing.go`, `util/offline_billing.go`) | six package variables | an hourly job copies the answer of ACCAPI; a middleware reads | unsynchronised assignments, outages that re-apply a stale answer, grace periods |
| validators and models (`middleware/validate`, `model/permission`, `model/user`, `model/category`, `model/acl`, `model/op`) | the credential of the request | may this credential do this? creation and patches | eight comparisons one after the other while documents are patched and expire; relations between categories, acls and actions |
| query translation (`plugins/querytranslate`) | the request and its independent requests, in the context | translate the queries of a request, with those they react to, into one multi search; file its answers; ask endpoints; list instead of search | recursion over what the client wrote; two functions must agree on which queries are executed, because answers are paired by position |
| source filter (`model/sourcefilter`) | none | include and exclude patterns over a document | precedence |
| elasticsearch plugin (`plugins/elasticsearch`) | routes from the API's schema | classify and forward | many routes, one classification |
| lifecycle (`main.go`, `plugins/registry.go`, `plugins/route.go`, `util/migration.go`, `util/plans.go`, `middleware/validate/plan.go`) | the router, the server, the tier | load plugins, run migrations, swap routers, restart the server, check health | a restart, an interrupt, requests and a health check that ends the process, all at once; decisions made once at start that depend on the first answer of the billing job |
| nodes, telemetry (`plugins/nodes`, `plugins/telemetry`) | an index of pings; a Badger store | ping, count; record, post | little |
| clients, templates, diffs, IP lookup, trackers, logger, recovery | none | | I/O and formatting |

The parts meet in the chain of middlewares of a request: classification,
logging, authentication, the validators, the rate limiter, billing, translation,
the handler.  They share the credential in the request's context, the alias
cache (reindexing writes it, translation reads it), the map of request logs
(translation sends, logging receives) and the tier (billing writes it; plans and
telemetry read it).

What makes each part correct is stated as properties in section 3; the hazards,
each at its line, are in `PROJECT.json`.

## 2. Modules

| Module | Models | Proofs |
|---|---|---|
| `CredentialCache` (`MCCredentialCache`) | authentication, users, permissions, sync, proxy | `CredentialCacheProofs` |
| `SeriesPromise` | abstract: what reindexing promises to those who know the name of a series | |
| `Reindex` (`MCReindex`) | jobs, Elasticsearch's indices and aliases, alias cache, client writes, restart; implements `SeriesPromise` | `ReindexProofs` |
| `RateLimiter` (`MCRateLimiter`) | the two limits and their limiters | `RateLimiterProofs` |
| `RequestLogs` | senders, recorder, eviction, the log file | `RequestLogsProofs` |
| `Billing` (`MCBilling`) | the job, assignment by assignment, and the middleware | `BillingProofs` |
| `QueryTranslate` (`MCQueryTranslate`) | a request from the size limit to its answer: clauses, react, multi search, pairing, endpoints | `QueryTranslateProofs` |
| `QueryMeaning` | what the queries of a request ask for, told without clauses, to compare with | |
| `AccessPolicy` | abstract: what the middlewares promise of a request | |
| `Access` (`MCAccess`) | classification, `basicAuth`'s verdict, the validators, the handlers of users, permissions and the public key; implements `AccessPolicy` | `AccessProofs` |
| `Server` (`MCServer`) | start-up, migrations, router, restarts, interrupt, health check | `ServerProofs` |

In every module an action is one step no other goroutine can see the inside
of: a critical section, a call to Elasticsearch or ACCAPI, one assignment to a
shared variable, one operation on a channel.  A goroutine's place in its code is
`pc[r]`, with labels named for what it does next.  Definitions that begin with
*Seeded fault* are plausible bugs; no specification uses them, and `PROJECT.json`
("mutants") says which definition each replaces to show that a property
notices.

### CredentialCache

`store` is what the indices hold, `cred` and `pwd` are the two caches of each
node, `past` (history) every document a name ever had.  A request is `Arrive`,
`Lookup`, `Fetch`, `CheckPassword`, `SavePassword`, `PeekCache`,
`SaveCredentialToCache`, `Admit`, `Write` and the steps that clear:
`ClearPassword` and `ClearCredential` are the two halves of `ClearLocalUser`,
`TellPassword` and `TellCredential` the same on a node ACCAPI calls.  What they
clear is `ToldName`: the proxied path names the credential, but that of the
routes of `/_user` does not, and a node then takes the username of the call's
own basic auth header, which is ACCAPI's (`Accapi`).  `NoName` is the cache
entry of the empty username, which a token has; it is saved for every token and
serves those with an empty role.  `Write` has three outcomes: done, not done and
failed, done and failed.  `Sync*` is one run of a plugin's sync, which works on
`snap`.

### Reindex

Indices are numbers, because the code derives the next name by counting:
`0` is the name clients use, `i` the index `<name>_reindexed_<i>`.  `exists`,
`docs` and `alias` are Elasticsearch; `toAlias` and `toIndex` the caches of
`middleware/classify`; `tracked` is `CurrentlyReIndexingProcess`.  Jobs with
`wait` run inside the request, the others in a goroutine with the ticker and
the channel of `asyncReIndex` (`Tick`, `TakeTick`, `Poll`, `SendDone`,
`TakeDone`).  `task` is how Elasticsearch reports a copy: as ended with a response
(`succeeded`, or `broken` with failures), as ended by an error without one
(`aborted`), or not at all any more (`gone`); `Poll` and `Copied` take these for
what the code takes them.  A copy whose call was given up or sent again
(`Unanswered`) is one of `stray` and goes on to write.  `ListAliases` and `Record`
are `aliasedIndices`, which writes what it has read to both caches, one
entry at a time.  `Put` is a client's write to the name, `AddAlias` an alias of a
client's own, `Restart` loses every goroutine and every cache but not the copies
that run at Elasticsearch.  `safe` (history) are the documents written while
nothing ran, `overtaken` (history) says that the name moved under a listing.

`SeriesPromise` knows no jobs: the name is `at` an index or has left one
(`leaving`), a search by it finds the documents `found`, of which those in
`kept` can be relied on.  It moves to the next index by `Leave` and `Arrive`,
and a stop of the process in between is `Cut`, after which the specification
allows no further step: nothing in the code puts the name back.  The comment of
`Reindex` (`dao.go:75`) would have the two in a single request; the
code makes two, and that is what the abstract specification says.  It is
implemented with `At` and `Found` for what the name reaches, `safe` for `kept`, and
for `leaving` the source of the job that is about to set the alias (`Movers`).

### RateLimiter

`rate[k]` is the limiter that `limiters.Load` finds for a key, `count[k]` the
store's count in the present window.  A worker passes `GetLimiter`, `Peek`,
`GetLimiter`, `Take` for its category and again for its address.  `Menu` may
hold requests that carry different limits for one key: that is a permission
patched while requests with the old one are on their way.  The limiter and its
count stay; what a request changes is `Rate.Limit`, as `SetLimiter` does.

### RequestLogs

Per request: the handler (`pc`), up to two sender goroutines (`writer`), the
wait group (`wg`), the recorder (`rec`), the goroutine that waits and closes
(`closer`), and the age of the entry in the map.  `Sweep` ages and evicts.

### Billing

`paidUntil` and `now` are the world; `validity`, `grace`, `plan`, `tier`,
`invalid` the package variables; `step` the assignment the job makes next and
`answer` the body it makes it from.  `contact` (history) is what the validity
was computed from.  The job runs before the process serves, and afterwards if it
is `Scheduled`: an `Interval` that was given makes a schedule that cron refuses.
An answer names a tier or, but for clusters, none.  The order of assignments
differs between the Arc and the cluster variants, as in the code.

### Access

`docs` are the two indices and `past` every document ever stored; `stored` and
`node` are the record of the public key and the two fields a process keeps of
it.  A request goes from `Arrive` through `Verify` and `ReadRole` (a token) or
straight to `FindByName`, then takes one step of `Validate` per middleware of
its chain (`Validators`), with the document it found, then a handler.  The
handlers that write prepare a document or a patch (`draft`) and store it in a
step of its own (`Create`, `Patch`, `Delete`); `CheckRole` is the search for the
role before.  `Redirect` is what the role's route does with a patch and a
deletion: the client sends the request again, to the permission's route.

A name is found in the cache or by a search, and so it may be any version that
was stored: that is `CachedWereStored` of `CredentialCache`, which in turn takes
a document's rights as one value.  The two modules divide the authentication
between them at this point.  A token with an empty role finds what is cached
without a name (`FindNameless`): any permission that a token was given before,
for good, because the sync never updates that entry.  A `GET` whose URI ends in
`_user` passes the category's middleware, on whichever path; `uri` of a request
says whether it does.

`AccessPolicy` knows neither middlewares nor searches.  A request is asked,
then granted because some stored document of its credential allows all of it
at its arrival, or denied because some does not at present, or ignored.
`Access` implements it with the refinement mapping at its end: `Bears` and
`Allows` are the two operators the policy is given, `Verdict` maps stages.
That documents expire is why the two times differ; everything else that a
middleware compares is of the request and the document alone.

### Server

`pc` has the main goroutine and the callers of `Swap` and `RestartServer`,
`built` the handler each made of `router`, `server` and `port` what
`rs.server` and the operating system know, which are not the same after
`rs.server` was overwritten; `conn` the requests, known to `rs.server` or not.
`probe` and `window` are the health check.  Callers are plugins outside this
repository.

### QueryTranslate

One request, whose place in the chain of handlers is `pc`.  `Limit` is the size
limit, `Check` the first loop of `translateQuery`, `NextQuery` to `AddSearch` its
second, whose position is `at`; `BuildIndependent` is the loop over the
independent requests, and `Translated` and `Built` end the two loops.
`SendSearch`, `TransformESResponse`, `CallEndpoint` and `Answer` are the search
handler, `Validate` the other one.  `request` is what the context holds,
`msearch` the body on its way to Elasticsearch, `calls` the independent requests,
`answers` the response by id.

`evalReactProp` calls itself, but only ever to go on with the rest of what it
was given: with the parts of a map in turn, or with a map in a list in place of
that list.  So it is a loop over the parts that are still to be evaluated,
`todo`, with `gathered` for the clauses of the list it is in and `reacted` for
what it returns; `Eval*` are its branches.  The functions that build a clause
(`getQuery`, `generateQueryByType` and what they call) are operators of the same
names, with an error as a field `ok`.

What a value, a default query or a custom query matches is one atom, and the
responses carry the clause that was searched for in place of what it found.
The options of a query are its size, for those that react must not carry (a
string, `quoted`, is the number in it, as Elasticsearch reads it), and
its sort, for those it does.  `AnswersMatch` and `ListedMatch` are about which
search a query gets, `SearchesMean` about what it says: `QueryMeaning` takes a
document to be the set of the atoms that match it, and tells the documents a
query asks for without clauses: everything under `and` that has something to
say, something under `or`, nothing under `not`, and the query's own part.  So
two clauses are the same when they find the same documents, and boolean nesting
is compared by meaning and not by shape.  A kNN query (`vector`) finds the
same documents by the same clause, in another order, and sets its size last
(`knnSize`).

Two sizes escape the limit, and `EverySizeWithinLimit` fails by either: a default
query's that is a string is not compared, and a kNN query that gives none is sent
with a default.  `SizesWithinLimit` speaks of all others (`IsSizeSeen`).

Three kinds of request are not answered as told, and each of them makes a
property fail when it is let in.  A query of another type than suggestion with
an endpoint and `enableEndpointSuggestions: false` is executed (`translate.go:99`)
but not counted (`util.go:935`), so every later answer is filed one off:
`AnswersMatch` does not speak of these requests.  A list with a nested react
returns what that react yields (`util.go:713`), and a react nested under `or` or
`not` becomes a condition of its own; a default query without `query` drops the
value, but only beside react (`util.go:774`): `SearchesMean` does not speak of
these queries (`IsPlain`).

## 3. Runs

| Run | Instance | What it shows |
|---|---|---|
| `cred_race` | 1 node, 1 user, 1 permission, 2 passwords, any 2 of 13 requests overlapping, sync | `CachedWereStored`, `PasswordsWereStored`, `AcceptedKnewPassword`: whatever overlaps or fails, only what was stored is cached and accepted; `EventuallyFresh`: the sync removes every stale credential in the end |
| `cred_cluster` | 2 nodes, 3 requests one after the other, ACCAPI | `SequentialCoherence`: without overlap and failures, no cache is stale after a request, if ACCAPI calls under the client's name |
| `cred_cluster_own` | 2 nodes, ACCAPI with a name of its own | *violated* `SequentialCoherence`: a write of `/_user` clears the wrong name on every node |
| `reindex_jobs` | 2 jobs of 5 kinds, 4 indices, 2 documents, faults and restart | `SafeKept`: no document is lost; `SingleAlias`: the name of the series is on one index, that has no other; `OneCopyPerIndex`: nobody else fills the index that is to replace the one the name reaches; `DiscardsOnlyItsOwn`: a failed job deletes only what it made; `AtRestResolves`: at rest the name reaches one complete index, as cached; `EndedIsUntracked`: a job leaves `CurrentlyReIndexingProcess` when its task has ended; `KeepsPromise`: all jobs together implement `SeriesPromise` |
| `reindex_outlive` | 2 jobs, one that waits and one to a destination, copies that go on unheard, tasks that vanish or end by an error, aliases of clients on the first index, listings, restart | `KeepsPromise`: the name moves to complete indices only; `AtRestResolves`: the caches agree at rest unless a listing was overtaken |
| `reindex_task_error` | 1 job, a task that ends by an error | *violated* `SafeKept`: the error passes for success and the source is deleted |
| `rate_race` | 3 workers, 2 categories, 1 address, a patched limit | `OvershootBounded` |
| `log_diffs` | 2 requests, entries that may expire at once | `NoSendOnClosed`, `DiffsComplete`, `RequestsSettle`: recorded requests are written, and entries leave the map |
| `billing` | 3 ways of billing, a clock of 5 units, payments up to 2 | `RefusedWasUnpaid`, `SettingsAgree`, `ExpiredIsRefused` |
| `query_answers` | 4,715 requests of up to 3 queries, 5 atoms, a size limit of 2, any search refused | `AnswersMatch`: every answer is filed under the query it belongs to; `SizesWithinLimit`: no size that the middleware can see exceeds the limit; `ListedMatch`: the validate route lists what would be sent; `SearchesMean`: a search finds what its query and its react prop ask for |
| `access` | any 2 of 18 requests overlapping, 3 documents at the start, 2 keys, sync, a clock of 2 | `ImplementsPolicy`: each is decided as if one stored document had been compared with it at once; `RightsAgree`, `RolesUnique`; `KeySettles`: the sync makes the process use the stored key |
| `server` | 4 plugins besides the three of fixed places, an asynchronous and a synchronous migration, 2 callers of restarts, 1 request, 2 overlapping health checks, an interrupt | `ServesCurrent`: until an interrupt, the router served at rest is the one swapped in last; `EndsForCause`: restarts one after the other do not end the process; `ServesOrEnds`: a process that does not serve ends |

Each passing run also checks its module's type invariant where it is first
used.  The violated properties quote what the repository says of itself; the
quotations are in `PROJECT.json` ("findings").  What else the code does against
its own words is reproduced by a change of a configuration, in section 5.

**Bounds, and why they are enough.** The races of the credential caches are
between one request and one writer or sync: two requests in flight and one sync
show them, a third adds no new pair; two nodes are needed for "another node".
`Menu` is a bound too: a document has two passwords and two grants.  Two
reindexing jobs are the smallest number that overlap; `MaxIndex` lets each make
an index and count past the other's; where copies go on without their jobs, a
third index is enough.  Three workers tell "all but one" from "one" in
`OvershootBounded`; the theorem is for any number.  Two requests share the log
file and the map; `MaxTTL = 1` makes entries expire between any two steps.  In
`billing` the short grace is one unit and the long one two, so that validity
runs from well before to well beyond either; `MaxTime` stops the clock.  In
`query_answers` one query reacts to two others, which is what tells `and` from
`or` and an answer one off from a swapped one; `MenuReact` varies the react prop
and the default query over every type, `MenuFlags` who executes which query,
`MenuOdd` missing fields and values, `MenuSizes` every place a size may come
from.  In `access` two requests are one that is being decided and one that
changes what it is compared with; the documents are one of each kind of
credential (an administrator, a user with few actions, a permission that expires
between `Start` and `MaxTime`), and the menu has every handler, every chain and
every field that a patch may carry.  In `server` two callers give every overlap
of two restarts, and two probes every overlap of two health checks; a third
failing probe follows from the first two running again.

**Fairness.** A goroutine that is running is scheduled and its HTTP calls
return, because the clients have timeouts: weak fairness of a request's, a
job's, a sender's and a sync's next step.  Cron jobs and tickers fire: weak
fairness of `Sync`, `Sweep`, `Tick`.  Nobody has to send a request, patch or
pay.  `Reindex` assumes strong fairness of `Poll`: of polls that may fail, some
answer is read at last, as Elasticsearch is not down for ever; that the answer
says the task has ended is not assumed.  `Billing` assumes strong fairness of
`RefreshAnswered`: ACCAPI is not down for ever; without it the last plan is
renewed for ever, as intended.  It asks nothing when the job is not scheduled:
`Due` disables the action.  `RequestLogs` assumes no fairness for a client to
arrive.  `Server` assumes that the process takes its steps and that probes run
and time out (the client has a timeout of two minutes), and nothing of how long
a request takes: a restart may wait for one until the health check ends the
process.

`CHECK_DEADLOCK FALSE` is set where the system may come to rest: requests
served or answered, jobs ended, the clock stopped.

## 4. Proofs

All theorems are about the specifications TLC checks, for all values of the
constants that satisfy the named assumptions (`CredentialAssumption`,
`ReindexAssumption`, `RateAssumption`, `LogsAssumption`, `BillingAssumption`,
`AccessAssumption`, `ServerAssumption`, `QueryAssumption`).  Some theorems have
a hypothesis about constants besides, written in their statement: `Undisturbed`,
`Sequential`, `OwnRolesInitially` and that there are finitely many callers; each
holds of the run that checks the same property.  Each follows the same argument:
an inductive invariant `IInv`, `Init => IInv`, one lemma per action for `IInv /\
[Next]_vars => IInv'`, and `IInv => P`.

* **CredentialCacheProofs**: `TypeCorrect`, `CachedCredentialsStored`,
  `CachedPasswordsStored`, `AcceptedPasswordsStored`.  The caches are filled
  from values on their way, so the invariant follows these: the credential a
  request carries, the snapshot of a sync and the list it works through are
  credentials the index held under the name they are filed under.
  `CoherentInTurn`: with requests one at a time, what is cached is not always
  fresh, because a write comes before the calls that clear; but whatever is
  stale on a node, the one request in progress has still to clear there
  (`CredsFreshOrDue`, `PwdsFreshOrDue`), be it by its own removal or by ACCAPI's
  call, and what it is about to save is what it read, which nobody has changed
  (`HoldsCurrent`).  So nothing is stale when it is over.  A call that fails ends
  the promise for good, in the property as in the invariant.  `Sequential` includes
  that ACCAPI's calls clear the name that was written (`ToldName`), which for
  `/_user` the code leaves to ACCAPI.
* **ReindexProofs**: `TypeCorrect`, `NothingIsLost`, `OneIndexPerName`,
  `OneCopyInPlace`, `RestIsComplete`, `OwnDiscards`, `Implements`,
  `AlwaysComplete`, for any number of jobs.  None of the properties is
  inductive, and the jobs are kept apart by nothing but the numbers of the
  indices they create.  What is inductive is that there is a *holder*: one index
  that exists and has every document of `safe`, and that is the one the name
  reaches, or, between the deletion of the old index and the alias, the new
  index of the job in between (`Held`, `InSwap`).  The source of a job that
  reindexes in place is never ahead of the holder, so the index it made is at
  most the holder's successor (`Behind`); of the indices from the holder on,
  each is used by one job at most (`Alone`), and who replaces the holder has
  seen all of its documents, which is why a task that succeeded has copied
  everything (`Replaces`).  Only that job can delete the holder, and then the
  index it made is the next holder (lemma `Moves`); an older job finds its
  source gone, and every other deletion is of an index that is not the holder.
  All but `TypeCorrect` assume `Undisturbed`, which is what `Faults`,
  `AutoCreate`, `Aliased` and `Menu` of `reindex_jobs` and `reindex_outlive` have in
  common; section 5 says what it excludes and why.  Copies that were given up
  are part of it: such a copy writes to an index that is not its source, and
  adds documents it has read, so that it can complete an index but not take from
  one (`NothingStray` is the case without them, which `OneCopyInPlace` needs to
  speak of copies instead of jobs).  `Implements` maps each step to one of
  `SeriesPromise`.  What is shown of the name is a function of the holder
  (`Shown`): either the name is at it, or it has left the index before it and
  one job is about to put it there, or that job is gone.  So deleting the holder
  is `Leave` (`DeletePromised`), setting the alias is `Arrive`
  (`AliasPromised`), a restart `Cut` or nothing, and every other step leaves the
  holder's name alone and at most adds documents to it (`NameStays`).
  `AlwaysComplete` follows: `AtRestResolves` speaks of rest, but a search by the
  name finds every safe document whenever the name reaches an index at all, also
  while jobs run or after one was cut off.  The proof corrected two properties.
  As first stated, they spoke of every index, and with two jobs they held of
  every index; but with nine jobs, some of them held up between describing and
  creating while others move the name three times, indices that were left behind
  are created again, two jobs fill one of them, and an old name becomes an alias
  of two.  The index the name reaches is not concerned, so `SingleAlias` and
  `OneCopyPerIndex` now speak of that.
* **RateLimiterProofs**: `TypeCorrect`, `OvershootIsBounded`.  For every key,
  count plus the workers that have peeked and not yet counted is below the cap
  plus the number of workers; a peek adds such a worker only while there is
  room, a take turns one into a count, and the end of a window only lowers the
  sum.
* **RequestLogsProofs**: `TypeCorrect`, `NobodySendsOnClosed`,
  `RecordsAreComplete`.  The wait group counts exactly the senders that are
  busy, they all start before the request is answered, and a result is received
  before its sender reports.
* **BillingProofs**: `TypeCorrect`, `OnlyUnpaidAreRefused`,
  `SettingsOfOneAnswer`.  An answer, fresh or kept, promises at least what is
  left of the time it was computed from, and so does `validity`; the assignments
  made so far in a run are those of the run's answer.
* **AccessProofs**: `TypeCorrect`, `RightsAlwaysAgree`, `Implements`.  That the
  rights of documents agree is inductive with what is on its way: a draft of a
  creation agrees by itself, and a patch brings acls with categories, and for a
  user both with actions (`KeepsAgreement`), so that merged into a document that
  agrees it gives one that does.  For the refinement `IInv` says how far a
  request has come: the document it found bears its credential, and every
  middleware it has passed passes at its arrival too (`PassesEarlier`: only the
  expiry looks at the clock, and it only ever turns to refusal).  The last
  middleware of each chain then makes `Allows` true (`PassedIsAllowed`), and any
  that refuses makes it false (`RefusedIsNotAllowed`); every other step maps to
  `Learn`, to a stutter, or, for an arrival, to `Ask`.  `RolesStayUnique`: a
  request between its check and its save *claims* the role, and a role that is
  not in `raced` has one permission or one claim, never both (`OneEach`); the
  save turns the claim into the permission.  A patch that leaves the role alone
  claims nothing, and so the lemma about what is stored (`SavedKeepsOne`) has to
  tell it from one that sets it.
* **ServerProofs**: `TypeCorrect`, `OnlyOverlapsEndIt`, `LastSwapIsServed`.  The
  type invariant bounds `router` by the number of callers, and so it needs a
  count: routers made so far are at most one more than the callers that have
  begun (`ServingTyped`), which is why the callers have to be finitely many.  As
  long as neither two restarts nor a restart and an interrupt overlap
  (`OneAtATime`), one caller at most is restarting, while he does so nobody
  listens, and every request is known to the server that is shut down; before
  the main goroutine listens nobody else has begun (`StartsFirst`).  So a
  restart finds the port free.  The second theorem does without that
  restriction: a server that was shut down is somebody's to replace, and who is
  about to serve an old router has another beside him who is still at work, or
  will find the port taken (`LastIsServed`).  The proof showed a limit that two
  callers do not reach: after an interrupt, which closes the server that one of
  three callers has just made, another may be left to serve an older router, so
  the property stops at the interrupt.

* **QueryTranslateProofs**: `TypeCorrect`, `AnswersAreTheirOwn`,
  `SizesAreLimited`, `ListsAll`, for any number of queries and any react props.
  Answers are paired with queries by counting, so the invariant counts too: the
  search of an executed query stands in the body at the query's *rank*, the
  number of executed queries up to it (`Ranked`), as far as the loop has come
  (`Covered`).  `GetQueryIds` counts by a condition of its own; where the two
  conditions agree, its places are the ranks.  They agree for every request but
  those with a query that is executed although it has an endpoint, which is the
  hypothesis of `AnswersMatch` and the bug section 2 tells of.  The calls to
  endpoints are those of the independent queries come past so far, each once,
  and a call replaces only such a query's answer (`CallsBuilt`, `Filing`).  For
  the sizes, what react hands on never has one (`Typed`), so a size is a query's
  own, its default query's or that of a kNN query, at most its own; each of them
  `Limit` has compared if the middleware can see it.  The proof needs nothing of
  what is still to be evaluated, `todo`: whatever a react prop says, it changes
  clauses and options and not which queries are sent.

Only model-checked: everything temporal (`EventuallyFresh`, `EndedIsUntracked`,
`RequestsSettle`, `ExpiredIsRefused`, `KeySettles`,
`ServesOrEnds`), because liveness under fairness is out of the prover's reach;
and `SearchesMean`, which says what the clauses mean that `evalReactProp` and
its callers compute: clauses and react props are nested to any depth, and a
proof for all of them is an induction over that data, which the prover cannot
do.

## 5. Limits

* Credentials: fields of a document other than name, password and whether it
  grants the request are one value (`Access` has them).  A hash is its
  password.  The creation of a user under a name that
  exists is in the overlapping menu but not in that of `cred_cluster`: the
  handler (`postUser`, `plugins/users/handlers.go`) clears no cache, so the old
  document stays cached until the sync.  `Sequential` excludes it for that
  reason: TLC finds `SequentialCoherence` violated when it is added.
* Reindexing: faults after the deletion of the old index are excluded from the
  passing runs, because the code then discards the new index as well.  A request
  that names the index `<name>_reindexed_<n>` while another job fills it is
  excluded: it copies a partial index.  A job without mappings and settings onto
  an index that existed before may discard that index when it fails; destinations
  in the menu are new.  `Undisturbed` collects these conditions for the proofs:
  jobs name the series; none copies onto its first name, which is free to be
  taken during a swap, nor, with data only, onto an index that exists; the calls
  after the deletion do not fail; no client's write makes an index under the name
  during the swap, and clients add aliases to no index of the series but the
  first; and a task that a goroutine follows in place does not end by an error.
  Each of the last ones is there because the code breaks the property otherwise:
  `reindex_task_error` and the table below show how.  So `SafeKept` and what
  rests on it hold of the code only while Elasticsearch ends no such task by an
  error.  A task whose record is gone never counts as completed (`dao.go:545`):
  its goroutine polls for ever, and `EndedIsUntracked` does not speak of it.
* Bounds of reindexing: one listing of aliases is under way at a time, and a call
  is sent again any number of times, where the retrier stops at five.
* An index that a job left behind, because it was cut off or could not discard
  it, may later be filled by two others and be given names that
  reach nothing else; what the name of the series reaches is kept apart from it
  (`OneIndexPerName`, `OneCopyInPlace`).
* `IsReIndexInProcess` is asked for the name in the request but the map holds
  the resolved names, so a job on an alias is not seen by a second one; the
  jobs are kept apart by the creation of the destination, which is what
  `OneCopyPerIndex` checks.  The map is also read there without its lock.
* Rate limits: one window per key; the window's length is not modelled, it may
  end at any time.
* Request logs: what a diff contains, the failure to marshal a body in a sender
  and the log file's rotation are left out.  On paths the logs plugin does not
  record, senders block for ever in their goroutines; the model has these
  requests, and no property asks for the senders' end.  A record and its newline
  are two writes, in the model as in the code, so a line may hold two records.
* Billing: usage reporting does not change what the middleware reads.
  `/arc/plan/fs` is served by no route of this repository.  `maxErrorTime` is
  never lowered again.  The middleware for offline billing is a function of the
  clock alone and not modelled, nor that with it ACCAPI is not called at all
  (`util/util.go:397`), so that with several machines nothing is cleared; of its
  branches, the one that refuses can never be taken, because the one before it
  covers every expired license.
* Access: patterns of indices, addresses and referers are the sets of what they
  match, and a category has one or two of its acls.  Limits, includes and
  excludes of a document are compared with nothing in the chain and left out.
  `RolesUnique` does not speak of roles that two requests checked at the same
  time, nor of those the search never finds: the field `role` is analysed, so a
  term query (`permissions/dao_es7.go:15`) finds no capitals and no second word.
* What the model of access showed besides, without a property: `PATCH /_user`
  with `is_admin` and `allowed_actions` leaves an administrator with the given
  actions only, against the comments at `model/user/user.go:52` and `66`; a
  permission's `ttl` ends its access to Elasticsearch's routes, but the chains of
  users, permissions and the public key have no expiry check, while `README.md`
  line 213 calls it the duration a permission remains valid.
* Server: flags and environment are read before the model begins; another
  process on the port is not modelled.  Overlapping restarts may end the process
  with an address in use, and a restart that waits for a request longer than
  three probes take is ended by the health check: `EndsForCause` exempts the
  first, and `ServesOrEnds` is about the second.  An asynchronous migration's
  goroutine calls the loop's variable (`main.go:560`) and may run the script of
  a later round, due or not; a synchronous one that fails is logged
  (`main.go:567`), although `util/migration.go:24` calls that fatal.  With an
  invalid `APPBASE_ID` every path is answered with 400, the health check's too
  (`util/billing.go:214`), and so the process ends.  Without a tier the start
  ends with a panic where the logs plugin asks for the plan (`logs/dao.go:107`).
* Query translation: the scripts of kNN queries, highlighting, aggregations,
  pagination, how suggestions are made of hits, source filtering and the
  replacement of index names in the answer are not modelled, nor are queries
  that share an id.  That replacement (`handlers.go:155-166`) is of every quoted
  string, so a query whose id is the name of an index is answered under the
  alias; ids in the model are no names of indices.  Elasticsearch's own default
  of ten hits for a search without a size is not held against the limit.  A
  preference given by the client, or a user id with an underscore, keeps the
  validate route from reading back the ids; `named` tells these requests apart,
  and `ListedMatch` does not speak of them.

* Not modelled at all: the tables of plans and their middleware, which no route
  uses; offline billing, a function of the clock; nodes and telemetry, whose
  state nothing else reads (the deletion of old nodes is never scheduled:
  `"@every 7d"` is no duration of Go's); `TrackReindex`
  (`model/reindex/reindex.go`), which `plugins/logs/dao.go:91` uses once to move
  an index of an old version and which takes a completed task for a complete
  copy; text diffs, HTTP clients, IP lookup and values kept in a context.

**What the restrictions keep out.**  Each of these is a behaviour of the code that
breaks a property which holds without it.  TLC shows it in seconds when a
configuration is changed as told and checks that property alone.

| Configuration | Change | Property that fails | What the code does |
|---|---|---|---|
| `CredRace` | `Menu <- MenuPassword` | `EventuallyFreshPasswords` | `basicAuth` saves a password after it was changed and cleared; the sync compares credentials only (`auth/middleware.go:178`) |
| `CredRace` | `Menu <- MenuNoRole` | `EventuallyFreshEverywhere` | a JWT's permission is cached under the empty username too; the sync saves or removes another entry (`permissions/sync_cache.go:43`) |
| `ReindexTaskError` | `FairSpec`, `Faults <- NoFault`, `SlowPolls = TRUE` | `EndedIsUntracked` | a poll longer than 30 s leaves a tick: the goroutine sends twice on a channel of capacity one that only itself reads (`dao.go:572`) |
| `ReindexTaskError` | `Menu <- MenuWaiting`, `Docs = {d1, d2}`, `Faults <- NoFault`, `AutoCreate = TRUE` | `SafeKept` | a write between deletion and alias creates an index of that name; the alias is refused and the complete copy discarded (`dao.go:264`) |
| `ReindexTaskError` | `Jobs = {j1, j2}`, `Menu <- MenuWaiting`, `Faults <- Unanswereds` | `OneTaskPerIndex` | the copy of a call that got no answer goes on, into the index the next job makes again (`dao.go:248`) |
| `ReindexTaskError` | `Jobs = {j1, j2}`, `Menu <- MenuWaiting`, `MaxIndex = 2`, `Faults <- NoFault`, `Listings = TRUE` | `CacheAgrees` | a listing read before the name moved is written to the caches after it (`reindexer/handlers.go:70`) |
| `ReindexTaskError` | `Jobs = {j1, j2}`, `Menu <- MenuWaiting`, `MaxIndex = 3`, `Faults <- NoFault`, `Aliased = {1}` | `AtRestResolves` | of several aliases one is carried on, and the name of the series may not be it (`dao.go:360`) |
| `Billing` | `Interval = 1` | `ExpiredIsRefused` | cron refuses the schedule made of `PLAN_REFRESH_INTERVAL`, which the Dockerfile sets, and the error is dropped: the job runs once (`main.go:329`) |
| `QueryAnswers` | `Menu <- MenuQuoted` | `EverySizeWithinLimit` | a size that is a string is not compared (`querytranslate/middleware.go:234`) |
| `QueryAnswers` | `Menu <- MenuKnn` | `EverySizeWithinLimit` | a kNN query's default size is set after the comparison (`translate.go:182`) |

## 6. Plan

In the order of what is most likely to go wrong:

1. `QueryTranslate`, what is left: aggregation sizes; suggestions made of hits;
   source filtering.
2. An abstract specification for `CredentialCache` without overlap, "one cell per
   name", from `CoherentInTurn`.
3. `TrackReindex` as another kind of job; `SourceFilter`: patterns against a
   reference; the tier shared by `Billing` and `Server`.

The permissions, the public key and the process's life, which earlier headed
this plan, are `Access` and `Server`.
