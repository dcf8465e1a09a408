------------------------------- MODULE Reindex -------------------------------
(***************************************************************************)
(* Reindexing an index in place (model/reindex, plugins/reindexer).        *)
(*                                                                         *)
(* A job resolves the name it was given, creates the next index of the     *)
(* series (x, x_reindexed_1, x_reindexed_2, ...: here 0, 1, 2, ...), has   *)
(* Elasticsearch copy the documents, deletes the old index, puts its name  *)
(* as an alias on the new one and resets the replicas.  A small index is   *)
(* copied while the request waits; for a large one Elasticsearch runs a    *)
(* task and a goroutine polls it, and only that goroutine's jobs are in    *)
(* CurrentlyReIndexingProcess.  A copy whose call got no answer goes on    *)
(* without a job that knows it.  Each call to Elasticsearch is one step,   *)
(* and jobs, the cluster's tasks, clients that write documents and add     *)
(* aliases, requests that list the aliases (aliasedIndices) and a restart  *)
(* of the process interleave.                                              *)
(***************************************************************************)
EXTENDS Naturals, FiniteSets

CONSTANTS
    Jobs,
    Menu,           \* the requests clients may send
    Docs,           \* documents
    Initially,      \* those in index 0 at the start
    MaxIndex,       \* bound: the last index of the series
    None,
    Faults,         \* what may go wrong (see Fault)
    Aliased,        \* indices on which clients put aliases of their own
    AutoCreate,     \* a client's write creates a missing index
    Listings,       \* clients list the aliased indices
    SlowPolls       \* a poll may take longer than the 30 s of the ticker

Indices == 0..MaxIndex

\* name: the index or alias of the route; dest: the destination of
\* /_reindex/{source}/{destination}, else None; wait: wait_for_completion,
\* given or computed from the size; action: nothing, ["data"] or others.
JobRequest == [name: Indices, dest: Indices \cup {None}, wait: BOOLEAN,
               action: {"all", "data", "mappings"}]

ASSUME ReindexAssumption ==
    /\ MaxIndex \in Nat
    /\ None \notin Indices
    /\ Menu \subseteq JobRequest
    /\ Initially \subseteq Docs
    /\ Aliased \subseteq Indices
    /\ AutoCreate \in BOOLEAN /\ Listings \in BOOLEAN /\ SlowPolls \in BOOLEAN

VARIABLES
    exists,     \* Elasticsearch: the indices
    docs,       \* ... the documents of each
    alias,      \* ... alias -> the indices it is on
    toAlias,    \* classify.IndexAliasCache
    toIndex,    \* classify.AliasIndexCache
    listing,    \* what a request of aliasedIndices has still to put in them
    overtaken,  \* history: the name moved while that request was under way
    tracked,    \* CurrentlyReIndexingProcess, [src, new] of these jobs
    pc, req,
    src,        \* sourceIndex
    new,        \* newIndexName
    name,       \* aliases[0] of postReIndex
    made,       \* history: the job's createIndex made the new index
    seen,       \* what the copy read from the source when it started
    task,       \* the copy the job knows of: a member of Tasks
    stray,      \* copies whose calls got no answer, and that go on
    tick,       \* the ticker's channel holds a tick
    done,       \* the isCompleted channel (capacity 1) holds its message
    hasError,
    safe        \* history: documents written while no job was running

cluster == <<exists, docs, alias>>
caches == <<toAlias, toIndex, listing, overtaken>>
local == <<req, src, new, name, made>>
copy == <<seen, task, stray>>
channel == <<tick, done, hasError>>
vars == <<exists, docs, alias, toAlias, toIndex, listing, overtaken, tracked, pc, req, src,
          new, name, made, seen, task, stray, tick, done, hasError, safe>>

\* How Elasticsearch reports a copy: as ended with the failures of documents in
\* its response, as ended by an error without a response, or not at all any more.
Tasks == {"none", "running", "succeeded", "broken", "aborted", "gone"}

Copies == [job: Jobs, new: Indices, docs: SUBSET Docs]
Pairs == [index: Indices, alias: Indices]

Ended == {"done", "failed", "rejected", "lost"}
Resting == \A j \in Jobs : pc[j] \in Ended \cup {"idle"} /\ task[j] # "running"

Fault(call) == call \in Faults
Goto(j, l) == pc' = [pc EXCEPT ![j] = l]

Init ==
    /\ exists = {0}
    /\ docs = [i \in Indices |-> IF i = 0 THEN Initially ELSE {}]
    /\ alias = [a \in Indices |-> {}]
    /\ toAlias = [i \in Indices |-> None]
    /\ toIndex = [a \in Indices |-> None]
    /\ listing = {}
    /\ overtaken = FALSE
    /\ tracked = {}
    /\ pc = [j \in Jobs |-> "idle"]
    /\ req = [j \in Jobs |-> None]
    /\ src = [j \in Jobs |-> None]
    /\ new = [j \in Jobs |-> None]
    /\ name = [j \in Jobs |-> None]
    /\ made = [j \in Jobs |-> FALSE]
    /\ seen = [j \in Jobs |-> {}]
    /\ task = [j \in Jobs |-> "none"]
    /\ stray = {}
    /\ tick = [j \in Jobs |-> FALSE]
    /\ done = [j \in Jobs |-> FALSE]
    /\ hasError = [j \in Jobs |-> FALSE]
    /\ safe = Initially

-----------------------------------------------------------------------------
(* Elasticsearch (external), as the dao uses it.                           *)

\* The indices a request that names x reaches.
Reached(x) == IF x \in exists THEN {x} ELSE alias[x]

CanCreate(i) == i \notin exists /\ alias[i] = {}

CreateIndex(i) ==
    /\ exists' = exists \cup {i}
    /\ docs' = [docs EXCEPT ![i] = {}]
    /\ UNCHANGED alias

DeleteIndex(i) ==
    /\ exists' = exists \ {i}
    /\ docs' = [docs EXCEPT ![i] = {}]
    /\ alias' = [a \in Indices |-> alias[a] \ {i}]

\* Bulk writes to i: to the index its name reaches, created if there is none.
AddDocs(i, ds) ==
    /\ exists' = IF Reached(i) = {} /\ ds # {} THEN exists \cup {i} ELSE exists
    /\ docs' = [k \in Indices |->
                   IF k \in Reached(i) \/ (k = i /\ Reached(i) = {})
                   THEN docs[k] \cup ds ELSE docs[k]]
    /\ UNCHANGED alias

-----------------------------------------------------------------------------
(* The handlers and Reindex.                                               *)

\* IsReIndexInProcess(x, ""): compares with the names the tracked jobs resolved.
IsReIndexInProcess(x) == \E k \in tracked : x \in {src[k], new[k]}

\* Only the route without a destination asks it.
Submit(j, q) ==
    /\ pc[j] = "idle"
    /\ req' = [req EXCEPT ![j] = q]
    /\ Goto(j, IF q.dest = None /\ IsReIndexInProcess(q.name) THEN "rejected" ELSE "resolve")
    /\ UNCHANGED <<cluster, caches, tracked, src, new, name, made, copy, channel, safe>>

\* getIndicesByAlias; if the call fails the name is taken as an index.
Resolve(j) ==
    LET x == req[j].name
    IN  /\ pc[j] = "resolve"
        /\ \/ /\ Cardinality(alias[x]) > 1
              /\ Goto(j, "failed")
              /\ UNCHANGED src
           \/ /\ \/ alias[x] = {} /\ src' = [src EXCEPT ![j] = x]
                 \/ Cardinality(alias[x]) = 1 /\ \E i \in alias[x] : src' = [src EXCEPT ![j] = i]
                 \/ Fault("lookup") /\ src' = [src EXCEPT ![j] = x]
              /\ Goto(j, "describe")
        /\ UNCHANGED <<cluster, caches, tracked, req, new, name, made, copy, channel, safe>>

\* Seeded fault: the number is incremented twice.
DescribeTwice(j) ==
    /\ pc[j] = "describe"
    /\ \/ /\ src[j] \in exists
          /\ new' = [new EXCEPT ![j] = IF req[j].dest = None THEN src[j] + 2 ELSE req[j].dest]
          /\ Goto(j, "create")
       \/ /\ src[j] \notin exists \/ Fault("describe")
          /\ Goto(j, "failed")
          /\ UNCHANGED new
    /\ UNCHANGED <<cluster, caches, tracked, req, src, name, made, copy, channel, safe>>

\* mappingsOf and settingsOf look their answer up by the name they asked for,
\* so an alias, or a missing index, is an error.  reindexedName adds one.
Describe(j) ==
    /\ pc[j] = "describe"
    /\ \/ /\ src[j] \in exists
          /\ LET i == IF req[j].dest = None THEN src[j] + 1 ELSE req[j].dest
             IN  i \in Indices /\ new' = [new EXCEPT ![j] = i]
          /\ Goto(j, "create")
       \/ /\ src[j] \notin exists \/ Fault("describe")
          /\ Goto(j, "failed")
          /\ UNCHANGED new
    /\ UNCHANGED <<cluster, caches, tracked, req, src, name, made, copy, channel, safe>>

\* Seeded fault: a job without action goes on as well.
ToleratesAnything(q) == q.action = "all" \/ q.action = "data"

\* Which actions go on when createIndex fails.
ToleratesExisting(q) == q.action = "data"

Create(j) ==
    /\ pc[j] = "create"
    /\ \/ /\ CanCreate(new[j])
          /\ CreateIndex(new[j])
          /\ made' = [made EXCEPT ![j] = TRUE]
          /\ Goto(j, "extras")
       \/ /\ ~ CanCreate(new[j]) \/ Fault("create")
          /\ Goto(j, IF ToleratesExisting(req[j]) THEN "extras" ELSE "failed")
          /\ UNCHANGED <<cluster, made>>
    /\ UNCHANGED <<caches, tracked, req, src, new, name, copy, channel, safe>>

\* The search relevancy settings and the synonyms; a job whose action has no
\* data ends here.
Extras(j) ==
    /\ pc[j] = "extras"
    /\ \/ Goto(j, IF req[j].action = "mappings" THEN "done" ELSE "copy")
       \/ Fault("extras") /\ Goto(j, "failed")
    /\ UNCHANGED <<cluster, caches, tracked, local, copy, channel, safe>>

\* Do or DoAsync: the copy reads what the name of the source reaches now.  With
\* DoAsync a missing source is an error of the task, not of the call.
StartCopy(j) ==
    /\ pc[j] = "copy"
    /\ \/ /\ Reached(src[j]) # {} \/ ~ req[j].wait
          /\ seen' = [seen EXCEPT ![j] = UNION {docs[i] : i \in Reached(src[j])}]
          /\ task' = [task EXCEPT ![j] = "running"]
          /\ Goto(j, IF req[j].wait THEN "copying" ELSE "spawn")
          /\ UNCHANGED stray
       \/ /\ (Reached(src[j]) = {} /\ req[j].wait) \/ Fault("start")
          /\ Goto(j, IF req[j].wait THEN "discard" ELSE "failed")
          /\ UNCHANGED copy
    /\ UNCHANGED <<cluster, caches, tracked, local, channel, safe>>

\* Elasticsearch ends the copy with all of it, or with a part of it and a report
\* of one kind or another.
EndCopy(j) ==
    /\ task[j] = "running"
    /\ \/ /\ Reached(src[j]) # {}
          /\ AddDocs(new[j], seen[j])
          /\ task' = [task EXCEPT ![j] = "succeeded"]
       \/ \E how \in {"broken", "aborted", "gone"} :
          /\ \/ how = "broken" /\ (Reached(src[j]) = {} \/ Fault("copy"))
             \/ how = "aborted" /\ (Reached(src[j]) = {} \/ Fault("abort"))
             \/ how = "gone" /\ Fault("vanish")
          /\ \E ds \in SUBSET seen[j] : AddDocs(new[j], ds)
          /\ task' = [task EXCEPT ![j] = how]
    /\ UNCHANGED <<caches, tracked, pc, local, seen, stray, channel, safe>>

\* The call that started the copy gets no answer: the connection broke, its
\* client went away or two minutes passed.  The retrier sends it again (up to
\* five times, any number here) or the job takes it for failed; the copy goes on.
Unanswered(j) ==
    /\ Fault("unanswered")
    /\ pc[j] \in {"copying", "spawn"}
    /\ stray' = IF task[j] = "running"
                THEN stray \cup {[job |-> j, new |-> new[j], docs |-> seen[j]]} ELSE stray
    /\ task' = [task EXCEPT ![j] = "none"]
    /\ \/ Goto(j, "copy")
       \/ Goto(j, IF req[j].wait THEN "discard" ELSE "failed")
    /\ UNCHANGED <<cluster, caches, tracked, local, seen, channel, safe>>

\* A copy that nobody waits for writes, goes on or ends.
StrayWrites(c) ==
    /\ \E ds \in SUBSET c.docs : AddDocs(c.new, ds)
    /\ stray' \in {stray, stray \ {c}}
    /\ UNCHANGED <<caches, tracked, pc, local, seen, task, channel, safe>>

\* Seeded fault: an error of the copy is ignored.
CopiedIgnoringError(j) ==
    /\ pc[j] = "copying"
    /\ task[j] # "running"
    /\ Goto(j, IF req[j].dest = None THEN "aliases" ELSE "done")
    /\ UNCHANGED <<cluster, caches, tracked, local, copy, channel, safe>>

\* The answer of a job that waits.  A copy to a destination ends here.
Copied(j) ==
    /\ pc[j] = "copying"
    /\ \/ task[j] \in {"broken", "aborted", "gone"} /\ Goto(j, "discard")
       \/ task[j] = "succeeded" /\ Goto(j, IF req[j].dest = None THEN "aliases" ELSE "done")
    /\ UNCHANGED <<cluster, caches, tracked, local, copy, channel, safe>>

-----------------------------------------------------------------------------
(* asyncReIndex.                                                           *)

\* The goroutine enters itself in the map once it is scheduled.
SetCurrentProcess(j) ==
    /\ pc[j] = "spawn"
    /\ tracked' = tracked \cup {j}
    /\ Goto(j, "select")
    /\ UNCHANGED <<cluster, caches, local, copy, channel, safe>>

\* 30 seconds pass.  The ticker's channel has room for one tick.
Tick(j) ==
    /\ pc[j] \in {"select", "poll", "send"}
    /\ ~ tick[j]
    /\ SlowPolls \/ (pc[j] = "select" /\ ~ done[j])
    /\ tick' = [tick EXCEPT ![j] = TRUE]
    /\ UNCHANGED <<cluster, caches, tracked, pc, local, copy, done, hasError, safe>>

TakeTick(j) ==
    /\ pc[j] = "select"
    /\ tick[j]
    /\ tick' = [tick EXCEPT ![j] = FALSE]
    /\ Goto(j, "poll")
    /\ UNCHANGED <<cluster, caches, tracked, local, copy, done, hasError, safe>>

\* isTaskCompleted looks at "completed" and at the failures in the response: a
\* task that ended by an error has none, and one whose record is gone never
\* completes.  An error of the call and failures of the task are the same to the
\* goroutine, and neither is forgotten.
Poll(j) ==
    /\ pc[j] = "poll"
    /\ \/ task[j] \in {"running", "gone"} /\ Goto(j, "select") /\ UNCHANGED hasError
       \/ task[j] \in {"succeeded", "aborted"} /\ Goto(j, "send") /\ UNCHANGED hasError
       \/ task[j] = "broken" /\ Goto(j, "send") /\ hasError' = [hasError EXCEPT ![j] = TRUE]
    /\ UNCHANGED <<cluster, caches, tracked, local, copy, tick, done, safe>>

PollFails(j) ==
    /\ pc[j] = "poll"
    /\ Fault("poll") /\ Goto(j, "select") /\ hasError' = [hasError EXCEPT ![j] = TRUE]
    /\ UNCHANGED <<cluster, caches, tracked, local, copy, tick, done, safe>>

\* isCompleted <- true blocks while the channel is full, and only this
\* goroutine ever receives from it.
SendDone(j) ==
    /\ pc[j] = "send"
    /\ ~ done[j]
    /\ done' = [done EXCEPT ![j] = TRUE]
    /\ Goto(j, "select")
    /\ UNCHANGED <<cluster, caches, tracked, local, copy, tick, hasError, safe>>

\* Seeded faults: a failed copy is used; a job that ended stays tracked.
TakeDoneIgnoringError(j) ==
    /\ pc[j] = "select"
    /\ done[j]
    /\ done' = [done EXCEPT ![j] = FALSE]
    /\ tracked' = tracked \ {j}
    /\ Goto(j, "aliases")
    /\ UNCHANGED <<cluster, caches, local, copy, tick, hasError, safe>>

TakeDoneTracked(j) ==
    /\ pc[j] = "select"
    /\ done[j]
    /\ done' = [done EXCEPT ![j] = FALSE]
    /\ Goto(j, IF hasError[j] THEN "discard" ELSE "aliases")
    /\ UNCHANGED <<cluster, caches, tracked, local, copy, tick, hasError, safe>>

\* RemoveCurrentProcess, and the branch on hasError.
TakeDone(j) ==
    /\ pc[j] = "select"
    /\ done[j]
    /\ done' = [done EXCEPT ![j] = FALSE]
    /\ tracked' = tracked \ {j}
    /\ Goto(j, IF hasError[j] THEN "discard" ELSE "aliases")
    /\ UNCHANGED <<cluster, caches, local, copy, tick, hasError, safe>>

-----------------------------------------------------------------------------
(* postReIndex and postReIndexFailure.                                     *)

\* A job that waits also deletes the new index when postReIndex fails.
AfterPostError(j) == IF req[j].wait THEN "discard" ELSE "failed"

\* aliasesOf: an alias of an index named x_reindexed_n, the last one listed;
\* without any the name of the source becomes the alias.
Aliases(j) ==
    LET listed == IF src[j] = 0 THEN {} ELSE {a \in Indices : src[j] \in alias[a]}
    IN  /\ pc[j] = "aliases"
        /\ \/ /\ \E a \in IF listed = {} THEN {src[j]} ELSE listed :
                    name' = [name EXCEPT ![j] = a]
              /\ Goto(j, IF req[j].dest = None THEN "delete" ELSE "settings")
           \/ /\ Fault("aliases")
              /\ Goto(j, AfterPostError(j))
              /\ UNCHANGED name
        /\ UNCHANGED <<cluster, caches, tracked, req, src, new, made, copy, channel, safe>>

\* Seeded fault: an error of the deletion is ignored.
DeleteSourceUnchecked(j) ==
    /\ pc[j] = "delete"
    /\ \/ src[j] \in exists /\ DeleteIndex(src[j])
       \/ (src[j] \notin exists \/ Fault("delete")) /\ UNCHANGED cluster
    /\ Goto(j, "alias")
    /\ UNCHANGED <<caches, tracked, local, copy, channel, safe>>

\* deleteIndex of the old index: done, refused, or done with its answer lost.
DeleteSource(j) ==
    /\ pc[j] = "delete"
    /\ \/ /\ src[j] \in exists
          /\ DeleteIndex(src[j])
          /\ Goto(j, "alias")
       \/ /\ src[j] \notin exists \/ Fault("delete")
          /\ Goto(j, AfterPostError(j))
          /\ UNCHANGED cluster
       \/ /\ Fault("delete_answer") /\ src[j] \in exists
          /\ DeleteIndex(src[j])
          /\ Goto(j, AfterPostError(j))
    /\ UNCHANGED <<caches, tracked, local, copy, channel, safe>>

\* Seeded fault: the cache of an alias that is in it is not updated.
SetAliasOnce(j) ==
    /\ pc[j] = "alias"
    /\ name[j] \notin exists /\ new[j] \in exists
    /\ alias' = [alias EXCEPT ![name[j]] = @ \cup {new[j]}]
    /\ toIndex' = IF toIndex[name[j]] = None THEN [toIndex EXCEPT ![name[j]] = new[j]] ELSE toIndex
    /\ Goto(j, "settings")
    /\ UNCHANGED <<exists, docs, toAlias, listing, overtaken, tracked, local, copy, channel, safe>>

\* setAlias; Elasticsearch refuses an alias that is the name of an index.
SetAlias(j) ==
    /\ pc[j] = "alias"
    /\ \/ /\ name[j] \notin exists /\ new[j] \in exists
          /\ alias' = [alias EXCEPT ![name[j]] = @ \cup {new[j]}]
          /\ toAlias' = [toAlias EXCEPT ![new[j]] = name[j]]
          /\ toIndex' = [toIndex EXCEPT ![name[j]] = new[j]]
          /\ overtaken' = IF name[j] = 0 THEN listing # {} ELSE overtaken
          /\ UNCHANGED listing
          /\ Goto(j, "settings")
       \/ /\ name[j] \in exists \/ new[j] \notin exists \/ Fault("alias")
          /\ Goto(j, AfterPostError(j))
          /\ UNCHANGED <<alias, caches>>
    /\ UNCHANGED <<exists, docs, tracked, local, copy, channel, safe>>

PutReplicas(j) ==
    /\ pc[j] = "settings"
    /\ \/ new[j] \in exists /\ Goto(j, "done")
       \/ (new[j] \notin exists \/ Fault("settings")) /\ Goto(j, AfterPostError(j))
    /\ UNCHANGED <<cluster, caches, tracked, local, copy, channel, safe>>

\* postReIndexFailure; its own error is only logged.
Discard(j) ==
    /\ pc[j] = "discard"
    /\ \/ new[j] \in exists /\ DeleteIndex(new[j])
       \/ (new[j] \notin exists \/ Fault("discard")) /\ UNCHANGED cluster
    /\ Goto(j, "failed")
    /\ UNCHANGED <<caches, tracked, local, copy, channel, safe>>

-----------------------------------------------------------------------------
(* The environment.                                                        *)

\* A client indexes a new document under the name 0.
Put(d) ==
    /\ \A i \in Indices : d \notin docs[i]
    /\ d \notin safe
    /\ IF Reached(0) = {} THEN AutoCreate ELSE Cardinality(Reached(0)) = 1
    /\ AddDocs(0, {d})
    /\ safe' = IF Resting THEN safe \cup {d} ELSE safe
    /\ UNCHANGED <<caches, tracked, pc, local, copy, channel>>

\* A client adds an alias of its own to an index.
AddAlias(a, i) ==
    /\ i \in Aliased \cap exists
    /\ a \notin exists \cup {0}
    /\ alias' = [alias EXCEPT ![a] = @ \cup {i}]
    /\ UNCHANGED <<exists, docs, caches, tracked, pc, local, copy, channel, safe>>

\* GetAliasedIndices: an alias of each index named x_reindexed_n.  The indices
\* are listed before the aliases, so one made in between is left out.  Bound: one
\* such request at a time.
ListAliases ==
    /\ Listings
    /\ listing = {}
    /\ listing' \in SUBSET {p \in Pairs : p.index # 0 /\ p.index \in alias[p.alias]}
    /\ \A p, q \in listing' : p.index = q.index => p = q
    /\ UNCHANGED <<cluster, toAlias, toIndex, overtaken, tracked, pc, local, copy, channel, safe>>

\* aliasedIndices puts one of them in the caches.
Record(p) ==
    /\ toAlias' = [toAlias EXCEPT ![p.index] = p.alias]
    /\ toIndex' = [toIndex EXCEPT ![p.alias] = p.index]
    /\ listing' = listing \ {p}
    /\ UNCHANGED <<cluster, overtaken, tracked, pc, local, copy, channel, safe>>

\* The process restarts: goroutines and maps are gone, the alias caches are
\* read again (InitIndexAliasCache, InitAliasIndexCache); the copies go on.
Restart ==
    /\ Fault("restart")
    /\ \E j \in Jobs : pc[j] \notin Ended \cup {"idle"}
    /\ pc' = [j \in Jobs |-> IF pc[j] \in Ended \cup {"idle"} THEN pc[j] ELSE "lost"]
    /\ tracked' = {}
    /\ toAlias' \in {f \in [Indices -> {a \in Indices : alias[a] # {}} \cup {None}] :
                       \A i \in Indices :
                          LET as == {a \in Indices : i # 0 /\ i \in alias[a]}
                          IN  IF as = {} THEN f[i] = None ELSE f[i] \in as}
    /\ toIndex' \in {f \in [Indices -> UNION {alias[a] : a \in Indices} \cup {None}] :
                       \A a \in Indices : IF alias[a] = {} THEN f[a] = None ELSE f[a] \in alias[a]}
    /\ listing' = {}
    /\ overtaken' = FALSE
    /\ UNCHANGED <<cluster, local, copy, channel, safe>>

Handle(j) ==
    \/ Resolve(j) \/ Describe(j) \/ Create(j) \/ Extras(j) \/ StartCopy(j) \/ Copied(j)
    \/ SetCurrentProcess(j) \/ TakeTick(j) \/ Poll(j) \/ PollFails(j) \/ SendDone(j) \/ TakeDone(j)
    \/ Aliases(j) \/ DeleteSource(j) \/ SetAlias(j) \/ PutReplicas(j) \/ Discard(j)

Next ==
    \/ \E j \in Jobs : \E q \in Menu : Submit(j, q)
    \/ \E j \in Jobs : Handle(j) \/ EndCopy(j) \/ Tick(j) \/ Unanswered(j)
    \/ \E c \in stray : StrayWrites(c)
    \/ \E d \in Docs : Put(d)
    \/ \E a, i \in Indices : AddAlias(a, i)
    \/ ListAliases
    \/ \E p \in listing : Record(p)
    \/ Restart

Spec == Init /\ [][Next]_vars

\* Handlers and goroutines are scheduled, their calls return, time passes and
\* Elasticsearch ends what it has accepted.
FairSpec == Spec /\ \A j \in Jobs :
    WF_vars(Handle(j)) /\ WF_vars(EndCopy(j)) /\ SF_vars(Poll(j)) /\ WF_vars(Tick(j))

-----------------------------------------------------------------------------
TypeOK ==
    /\ exists \subseteq Indices
    /\ docs \in [Indices -> SUBSET Docs]
    /\ alias \in [Indices -> SUBSET Indices]
    /\ toAlias \in [Indices -> Indices \cup {None}]
    /\ toIndex \in [Indices -> Indices \cup {None}]
    /\ listing \subseteq Pairs
    /\ overtaken \in BOOLEAN
    /\ tracked \subseteq Jobs
    /\ pc \in [Jobs -> Ended \cup
          {"idle", "resolve", "describe", "create", "extras", "copy", "copying", "spawn",
           "select", "poll", "send", "aliases", "delete", "alias", "settings", "discard"}]
    /\ req \in [Jobs -> Menu \cup {None}]
    /\ src \in [Jobs -> Indices \cup {None}]
    /\ new \in [Jobs -> Indices \cup {None}]
    /\ name \in [Jobs -> Indices \cup {None}]
    /\ made \in [Jobs -> BOOLEAN]
    /\ seen \in [Jobs -> SUBSET Docs]
    /\ task \in [Jobs -> Tasks]
    /\ stray \subseteq Copies
    /\ tick \in [Jobs -> BOOLEAN]
    /\ done \in [Jobs -> BOOLEAN]
    /\ hasError \in [Jobs -> BOOLEAN]
    /\ safe \subseteq Docs

\* What the jobs can be trusted with: requests name the series, copy nothing
\* onto its first name and, with data only, onto no index that exists; the
\* calls after the deletion of the old index succeed, and no write makes an
\* index under its name in between; clients add aliases to no index of the
\* series but the first; and no task in place that a goroutine follows ends by
\* an error.  A copy may go on without its call, a task may vanish, and aliases
\* are listed at any time.  Section 5 of the README says what happens without
\* each of these.
Undisturbed ==
    /\ \A q \in Menu : q.name = 0 /\ q.dest # 0 /\ ~ ToleratesExisting(q)
    /\ ~ Fault("delete_answer") /\ ~ Fault("alias") /\ ~ Fault("settings")
    /\ Fault("abort") => \A q \in Menu : q.wait \/ q.dest # None
    /\ Aliased \subseteq {0}
    /\ ~ AutoCreate

\* "Reindex all documents from the old index into the new index"
\* (model/reindex/dao.go): a document written while no job was running stays
\* in some index, whatever jobs overlap, fail or are cut off by a restart.
SafeKept == \A d \in safe : \E i \in exists : d \in docs[i]

\* "We only have one alias per index" (setAlias), and getIndicesByAlias takes
\* two indices under an alias for an error: overlapping jobs never put the
\* name of the series on two, nor a second alias on the index it is on.
SingleAlias ==
    /\ Cardinality(alias[0]) <= 1
    /\ \A i \in alias[0] : Cardinality({a \in Indices : i \in alias[a]}) <= 1

\* Nobody else fills the index to which a job copies the one the name reaches,
\* although IsReIndexInProcess sees neither the jobs that wait nor those whose
\* goroutine has not started, and a restart forgets those it saw.
OneCopyPerIndex ==
    \A j, k \in Jobs :
        /\ j # k /\ task[j] = "running" /\ task[k] = "running"
        /\ req[j].dest = None /\ src[j] \in Reached(0)
        => new[j] # new[k]

\* "Re-indexing is already in progress for %s index" (plugins/reindexer): nor
\* does a copy that another job started and gave up.
OneTaskPerIndex ==
    /\ OneCopyPerIndex
    /\ \A j \in Jobs : \A c \in stray :
          c.job # j /\ task[j] = "running" /\ req[j].dest = None /\ src[j] \in Reached(0)
          => c.new # new[j]

\* A job that gives up deletes no index but the one it created.
DiscardsOnlyItsOwn ==
    [][\A j \in Jobs : Discard(j) /\ exists' # exists => made[j]]_vars

\* When no job runs and none was cut off, the name of the series reaches one
\* index, that index has every safe document, and the cache the query
\* middleware resolves it by agrees, unless a request that listed the aliases
\* before the name moved wrote to the cache after it.
AtRestResolves ==
    Resting /\ (\A j \in Jobs : pc[j] # "lost") =>
        \E i \in exists :
            /\ Reached(0) = {i}
            /\ safe \subseteq docs[i]
            /\ ~ overtaken /\ toIndex[0] # None => toIndex[0] = i

\* "AliasIndexCache cache to store alias -> index map" (middleware/classify):
\* with no job and no listing under way it does not name another index.
CacheAgrees ==
    Resting /\ listing = {} /\ toIndex[0] # None /\ Reached(0) # {} => toIndex[0] \in Reached(0)

-----------------------------------------------------------------------------
(* What jobs promise together (SeriesPromise).                             *)

At == IF Reached(0) = {} THEN None ELSE CHOOSE i \in Reached(0) : TRUE
Found == UNION {docs[i] : i \in Reached(0)}

\* The jobs that have deleted the index the name reached, and put the name on
\* the next one now.
Movers == {j \in Jobs : pc[j] = "alias" /\ name[j] = 0}
Leaving == IF Movers = {} THEN None ELSE src[CHOOSE j \in Movers : TRUE]

Series == INSTANCE SeriesPromise WITH at <- At, leaving <- Leaving, found <- Found, kept <- safe

\* "Delete the old index", "Add an alias with the old index name to the new
\* index" (model/reindex/dao.go): whatever jobs overlap, fail or are cut off,
\* the name leaves an index only for the next of the series, and is put there
\* once every safe document is, which clients find by it ever after.
KeepsPromise == Series!Spec

\* A task that ended, and that Elasticsearch reports, leaves
\* CurrentlyReIndexingProcess, so its index can be reindexed again.
EndedIsUntracked ==
    \A j \in Jobs : (j \in tracked /\ task[j] \notin {"running", "gone"}) ~> j \notin tracked
=============================================================================
