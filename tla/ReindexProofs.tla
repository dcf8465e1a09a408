---------------------------- MODULE ReindexProofs ----------------------------
(***************************************************************************)
(* Proofs about Reindex, for any number of jobs, requests, indices and     *)
(* documents, and any faults but those that Undisturbed excludes.  All     *)
(* follow from one idea: at any time one index, the holder, has every      *)
(* document that must be kept.  It is the one the name reaches or, between *)
(* the deletion of the old index and the alias, the new one; only a job    *)
(* that reindexes the holder moves it, and nobody else can touch the index *)
(* it moves to.                                                            *)
(***************************************************************************)
EXTENDS Reindex, FiniteSetTheorems, TLAPS

-----------------------------------------------------------------------------
(* Types.  A job has chosen what its next call names.                      *)

Unresolved == {"idle", "resolve", "rejected"}
Undescribed == Unresolved \cup {"describe"}

\* A job that has made its new index and may still use it.
Filling == {"extras", "copy", "copying", "spawn", "select", "poll", "send", "aliases",
            "delete", "alias", "settings", "discard"}

InPlace(j) == req[j].dest = None

Known(j) ==
    /\ pc[j] # "idle" => req[j] \in Menu
    /\ pc[j] \notin Unresolved \cup {"failed", "lost"} => src[j] \in Indices
    /\ pc[j] \in Filling \cup {"create"} \/ task[j] = "running" =>
          /\ new[j] \in Indices
          /\ InPlace(j) => new[j] = src[j] + 1
    /\ pc[j] \notin {"copying", "spawn", "select", "poll", "lost"} => task[j] # "running"
    /\ pc[j] \in Undescribed \cup {"create", "extras", "copy"} => task[j] = "none"
    /\ done[j] \/ pc[j] = "send" =>
          task[j] \in {"succeeded", "aborted"} \/ (task[j] = "broken" /\ hasError[j])
    /\ pc[j] \in {"aliases", "delete"} => task[j] = "succeeded" \/ (task[j] = "aborted" /\ ~ req[j].wait)
    /\ pc[j] \in {"spawn", "select", "poll", "send"} => ~ req[j].wait
    /\ pc[j] \in {"copying", "spawn"} => ~ done[j]
    /\ pc[j] \in {"delete", "alias"} => InPlace(j) /\ name[j] \in Indices

TInv == TypeOK /\ \A j \in Jobs : Known(j)

LEMMA IndicesAreNat == Indices \subseteq Nat /\ 0 \in Indices /\ None \notin Indices
  BY ReindexAssumption DEF Indices

LEMMA InitTyped == Init => TInv
<1> SUFFICES ASSUME Init PROVE TInv
  OBVIOUS
<1>1. TypeOK
  BY IndicesAreNat, ReindexAssumption DEF Init, TypeOK, Ended, Tasks
<1>2. \A j \in Jobs : Known(j)
  BY DEF Init, Known, Unresolved, Undescribed, Filling
<1> QED
  BY <1>1, <1>2 DEF TInv

LEMMA ClusterTyped ==
  ASSUME TypeOK, NEW i \in Indices, NEW ds \in SUBSET Docs,
         CreateIndex(i) \/ DeleteIndex(i) \/ AddDocs(i, ds) \/ UNCHANGED cluster
  PROVE  /\ exists' \subseteq Indices
         /\ docs' \in [Indices -> SUBSET Docs]
         /\ alias' \in [Indices -> SUBSET Indices]
<1>1. exists \subseteq Indices /\ docs \in [Indices -> SUBSET Docs] /\ alias \in [Indices -> SUBSET Indices]
  BY DEF TypeOK
<1>2. CASE CreateIndex(i)
  BY <1>1, <1>2 DEF CreateIndex
<1>3. CASE DeleteIndex(i)
  BY <1>1, <1>3 DEF DeleteIndex
<1>4. CASE AddDocs(i, ds)
  BY <1>1, <1>4 DEF AddDocs
<1>5. CASE UNCHANGED cluster
  BY <1>1, <1>5 DEF cluster
<1> QED
  BY <1>2, <1>3, <1>4, <1>5

LEMMA NextTyped == TInv /\ [Next]_vars => TypeOK'
<1> SUFFICES ASSUME TInv, [Next]_vars PROVE TypeOK'
  OBVIOUS
<1> USE IndicesAreNat, ReindexAssumption DEF TInv, TypeOK, Ended, Tasks, Goto, caches, local, copy, channel
<1>1. ASSUME NEW j \in Jobs, NEW q \in Menu, Submit(j, q) PROVE TypeOK'
  BY <1>1 DEF Submit, IsReIndexInProcess, cluster
<1>2. ASSUME NEW j \in Jobs, Resolve(j) PROVE TypeOK'
  <2>1. req[j] \in Menu /\ req[j] \in JobRequest
    BY <1>2 DEF Known, Resolve, Unresolved
  <2>2. req[j].name \in Indices /\ (req[j].dest # None => req[j].dest \in Indices)
    BY <2>1 DEF JobRequest
  <2>3. alias[req[j].name] \subseteq Indices
    BY <2>2
  <2> QED
    BY <1>2, <2>2, <2>3 DEF Resolve, cluster
<1>3. ASSUME NEW j \in Jobs, Describe(j) PROVE TypeOK'
  <2>1. req[j] \in Menu /\ req[j] \in JobRequest
    BY <1>3 DEF Known, Describe, Unresolved
  <2>2. req[j].name \in Indices /\ (req[j].dest # None => req[j].dest \in Indices)
    BY <2>1 DEF JobRequest
  <2>3. alias[req[j].name] \subseteq Indices
    BY <2>2
  <2> QED
    BY <1>3, <2>2, <2>3 DEF Describe, cluster
<1>4. ASSUME NEW j \in Jobs, Create(j) PROVE TypeOK'
  <2>1. new[j] \in Indices
    BY <1>4 DEF Known, Create, Unresolved, Filling
  <2>2. /\ exists' \subseteq Indices
        /\ docs' \in [Indices -> SUBSET Docs]
        /\ alias' \in [Indices -> SUBSET Indices]
    BY <1>4, <2>1, ClusterTyped DEF Create
  <2> QED
    BY <1>4, <2>2 DEF Create
<1>5. ASSUME NEW j \in Jobs, Extras(j) PROVE TypeOK'
  BY <1>5 DEF Extras, cluster
<1>6. ASSUME NEW j \in Jobs, StartCopy(j) PROVE TypeOK'
  <2>1. src[j] \in Indices
    BY <1>6 DEF Known, StartCopy, Unresolved, Filling
  <2>2. UNION {docs[i] : i \in Reached(src[j])} \in SUBSET Docs
    BY <2>1 DEF Reached
  <2>3. seen' \in [Jobs -> SUBSET Docs]
    BY <1>6, <2>2 DEF StartCopy
  <2> QED
    BY <1>6, <2>3 DEF StartCopy, cluster
<1>7. ASSUME NEW j \in Jobs, Copied(j) PROVE TypeOK'
  BY <1>7 DEF Copied, cluster
<1>8. ASSUME NEW j \in Jobs, SetCurrentProcess(j) PROVE TypeOK'
  BY <1>8 DEF SetCurrentProcess, cluster
<1>9. ASSUME NEW j \in Jobs, Tick(j) PROVE TypeOK'
  BY <1>9 DEF Tick, cluster
<1>10. ASSUME NEW j \in Jobs, TakeTick(j) PROVE TypeOK'
  BY <1>10 DEF TakeTick, cluster
<1>11. ASSUME NEW j \in Jobs, Poll(j) PROVE TypeOK'
  BY <1>11 DEF Poll, cluster
<1>12. ASSUME NEW j \in Jobs, PollFails(j) PROVE TypeOK'
  BY <1>12 DEF PollFails, cluster
<1>13. ASSUME NEW j \in Jobs, SendDone(j) PROVE TypeOK'
  BY <1>13 DEF SendDone, cluster
<1>14. ASSUME NEW j \in Jobs, TakeDone(j) PROVE TypeOK'
  BY <1>14 DEF TakeDone, cluster
<1>15. ASSUME NEW j \in Jobs, Aliases(j) PROVE TypeOK'
  BY <1>15 DEF Aliases, AfterPostError, cluster
<1>16. ASSUME NEW j \in Jobs, DeleteSource(j) PROVE TypeOK'
  <2>1. src[j] \in Indices
    BY <1>16 DEF Known, DeleteSource, Unresolved, Filling
  <2>2. /\ exists' \subseteq Indices
        /\ docs' \in [Indices -> SUBSET Docs]
        /\ alias' \in [Indices -> SUBSET Indices]
    BY <1>16, <2>1, ClusterTyped DEF DeleteSource
  <2> QED
    BY <1>16, <2>2 DEF DeleteSource, AfterPostError
<1>17. ASSUME NEW j \in Jobs, SetAlias(j) PROVE TypeOK'
  <2>1. new[j] \in Indices /\ name[j] \in Indices
    BY <1>17 DEF Known, SetAlias, Unresolved, Filling
  <2>2. overtaken' \in BOOLEAN
    BY <1>17 DEF SetAlias
  <2> QED
    BY <1>17, <2>1, <2>2 DEF SetAlias, AfterPostError
<1>18. ASSUME NEW j \in Jobs, PutReplicas(j) PROVE TypeOK'
  BY <1>18 DEF PutReplicas, AfterPostError, cluster
<1>19. ASSUME NEW j \in Jobs, Discard(j) PROVE TypeOK'
  <2>1. new[j] \in Indices
    BY <1>19 DEF Known, Discard, Unresolved, Filling
  <2>2. /\ exists' \subseteq Indices
        /\ docs' \in [Indices -> SUBSET Docs]
        /\ alias' \in [Indices -> SUBSET Indices]
    BY <1>19, <2>1, ClusterTyped DEF Discard
  <2> QED
    BY <1>19, <2>2 DEF Discard
<1>20. ASSUME NEW j \in Jobs, EndCopy(j) PROVE TypeOK'
  <2>1. new[j] \in Indices
    BY <1>20 DEF Known, EndCopy
  <2>2. PICK ds \in SUBSET Docs : AddDocs(new[j], ds)
    BY <1>20 DEF EndCopy
  <2>3. /\ exists' \subseteq Indices
        /\ docs' \in [Indices -> SUBSET Docs]
        /\ alias' \in [Indices -> SUBSET Indices]
    BY <2>1, <2>2, ClusterTyped
  <2>4. task' \in [Jobs -> Tasks]
    BY <1>20 DEF EndCopy
  <2> QED
    BY <1>20, <2>3, <2>4 DEF EndCopy
<1>21. ASSUME NEW d \in Docs, Put(d) PROVE TypeOK'
  <2>1. {d} \in SUBSET Docs /\ AddDocs(0, {d})
    BY <1>21 DEF Put
  <2>2. /\ exists' \subseteq Indices
        /\ docs' \in [Indices -> SUBSET Docs]
        /\ alias' \in [Indices -> SUBSET Indices]
    BY <2>1, ClusterTyped
  <2> QED
    BY <1>21, <2>2 DEF Put
<1>22. ASSUME Restart PROVE TypeOK'
  BY <1>22 DEF Restart, cluster
<1>23. ASSUME NEW j \in Jobs, Unanswered(j) PROVE TypeOK'
  <2>1. task[j] = "running" => new[j] \in Indices
    BY DEF Known
  <2>2. stray' \subseteq Copies
    BY <1>23, <2>1 DEF Unanswered, Copies
  <2>3. task' \in [Jobs -> Tasks]
    BY <1>23 DEF Unanswered
  <2> QED
    BY <1>23, <2>2, <2>3 DEF Unanswered, cluster
<1>24. ASSUME NEW c \in stray, StrayWrites(c) PROVE TypeOK'
  <2>1. c.new \in Indices /\ c.docs \in SUBSET Docs
    BY DEF Copies
  <2>2. PICK ds \in SUBSET Docs : AddDocs(c.new, ds)
    BY <1>24, <2>1 DEF StrayWrites
  <2>3. /\ exists' \subseteq Indices
        /\ docs' \in [Indices -> SUBSET Docs]
        /\ alias' \in [Indices -> SUBSET Indices]
    BY <2>1, <2>2, ClusterTyped
  <2>4. stray' \subseteq Copies
    BY <1>24 DEF StrayWrites
  <2> QED
    BY <1>24, <2>3, <2>4 DEF StrayWrites
<1>25. ASSUME NEW a \in Indices, NEW i \in Indices, AddAlias(a, i) PROVE TypeOK'
  BY <1>25 DEF AddAlias
<1>26. ASSUME ListAliases PROVE TypeOK'
  BY <1>26 DEF ListAliases, cluster
<1>27. ASSUME NEW p \in listing, Record(p) PROVE TypeOK'
  <2>1. p.index \in Indices /\ p.alias \in Indices
    BY DEF Pairs
  <2> QED
    BY <1>27, <2>1 DEF Record, cluster
<1>28. CASE UNCHANGED vars
  BY <1>28 DEF vars
<1>29. ASSUME NEW j \in Jobs, Handle(j) PROVE TypeOK'
  BY <1>29, <1>2, <1>3, <1>4, <1>5, <1>6, <1>7, <1>8, <1>10, <1>11, <1>12, <1>13, <1>14, <1>15, <1>16, <1>17, <1>18, <1>19 DEF Handle
<1> HIDE DEF TInv, TypeOK
<1> QED
  BY <1>1, <1>9, <1>20, <1>21, <1>22, <1>23, <1>24, <1>25, <1>26, <1>27, <1>28, <1>29 DEF Next

\* A step of one job.
Others(j) ==
    \A k \in Jobs \ {j} :
        /\ pc'[k] = pc[k] /\ req'[k] = req[k] /\ src'[k] = src[k] /\ new'[k] = new[k]
        /\ name'[k] = name[k] /\ made'[k] = made[k] /\ seen'[k] = seen[k]
        /\ task'[k] = task[k] /\ done'[k] = done[k] /\ hasError'[k] = hasError[k]

\* What holds of the jobs that Undisturbed admits: they copy to an index they
\* have made, and never to the first name of the series.
Trusted(j) ==
    /\ pc[j] \in Filling \cup {"create"} \/ task[j] = "running" => new[j] # 0
    /\ pc[j] \in Filling => made[j]

\* The copies it leaves behind were its own.
Leaves(j) == \A c \in stray' : c \in stray \/ (task[j] = "running" /\ c.new = new[j])

StepOf(j) == Others(j) /\ Leaves(j) /\ Known(j)' /\ (Undisturbed /\ Trusted(j) => Trusted(j)')

LEMMA JobSteps ==
  ASSUME TInv, NEW j \in Jobs,
         Handle(j) \/ EndCopy(j) \/ Tick(j) \/ Unanswered(j) \/ \E q \in Menu : Submit(j, q)
  PROVE  StepOf(j)
<1> USE IndicesAreNat DEF TInv, TypeOK, StepOf, Others, Leaves, Known, Trusted, Filling, Unresolved, Undescribed,
        InPlace, Goto, cluster, caches, local, copy, channel
<1>1. ASSUME NEW q \in Menu, Submit(j, q) PROVE StepOf(j)
  BY <1>1 DEF Submit, IsReIndexInProcess
<1>2. ASSUME Resolve(j) PROVE StepOf(j)
  <2>1. req[j] \in Menu /\ req[j] \in JobRequest
    BY <1>2, ReindexAssumption DEF Resolve
  <2>2. req[j].name \in Indices /\ alias[req[j].name] \subseteq Indices
    BY <2>1 DEF JobRequest
  <2> QED
    BY <1>2, <2>1, <2>2 DEF Resolve
<1>3. ASSUME Describe(j) PROVE StepOf(j)
  <2>1. req[j] \in Menu /\ req[j] \in JobRequest
    BY <1>3, ReindexAssumption DEF Describe
  <2>2. req[j].dest \in Indices \cup {None} /\ (Undisturbed => req[j].dest # 0)
    BY <2>1 DEF JobRequest, Undisturbed
  <2>3. src[j] \in Nat
    BY <1>3 DEF Describe
  <2>4. src[j] + 1 # 0
    BY <2>3
  <2> QED
    BY <1>3, <2>1, <2>2, <2>3, <2>4 DEF Describe
<1>4. ASSUME Create(j) PROVE StepOf(j)
  BY <1>4 DEF Create, CanCreate, CreateIndex, Undisturbed
<1>5. ASSUME Extras(j) PROVE StepOf(j)
  BY <1>5 DEF Extras
<1>6. ASSUME StartCopy(j) PROVE StepOf(j)
  BY <1>6 DEF StartCopy
<1>7. ASSUME Copied(j) PROVE StepOf(j)
  BY <1>7 DEF Copied
<1>8. ASSUME SetCurrentProcess(j) PROVE StepOf(j)
  BY <1>8 DEF SetCurrentProcess
<1>9. ASSUME Tick(j) PROVE StepOf(j)
  BY <1>9 DEF Tick
<1>10. ASSUME TakeTick(j) PROVE StepOf(j)
  BY <1>10 DEF TakeTick
<1>11. ASSUME Poll(j) PROVE StepOf(j)
  BY <1>11 DEF Poll
<1>12. ASSUME PollFails(j) PROVE StepOf(j)
  BY <1>12 DEF PollFails
<1>13. ASSUME SendDone(j) PROVE StepOf(j)
  BY <1>13 DEF SendDone
<1>14. ASSUME TakeDone(j) PROVE StepOf(j)
  BY <1>14 DEF TakeDone
<1>15. ASSUME Aliases(j) PROVE StepOf(j)
  BY <1>15 DEF Aliases, AfterPostError
<1>16. ASSUME DeleteSource(j) PROVE StepOf(j)
  BY <1>16 DEF DeleteSource, AfterPostError, DeleteIndex
<1>17. ASSUME SetAlias(j) PROVE StepOf(j)
  BY <1>17 DEF SetAlias, AfterPostError
<1>18. ASSUME PutReplicas(j) PROVE StepOf(j)
  BY <1>18 DEF PutReplicas, AfterPostError
<1>19. ASSUME Discard(j) PROVE StepOf(j)
  BY <1>19 DEF Discard, DeleteIndex
<1>20. ASSUME EndCopy(j) PROVE StepOf(j)
  BY <1>20 DEF EndCopy
<1>21. ASSUME Unanswered(j) PROVE StepOf(j)
  <2>1. pc[j] \in {"copying", "spawn"} /\ pc'[j] \in {"copy", "discard", "failed"} /\ task'[j] = "none"
    BY <1>21 DEF Unanswered
  <2>2. UNCHANGED <<req, src, new, name, made, seen, done, hasError>>
    BY <1>21 DEF Unanswered
  <2>3. ASSUME NEW k \in Jobs \ {j} PROVE pc'[k] = pc[k] /\ task'[k] = task[k]
    BY <1>21 DEF Unanswered
  <2>4. Others(j)
    BY <2>2, <2>3
  <2>5. Leaves(j)
    BY <1>21 DEF Unanswered
  <2>6. Known(j)
    OBVIOUS
  <2>7. ~ done[j]
    BY <1>21, <2>1, <2>6
  <2>8. Known(j)'
    BY <2>1, <2>2, <2>6, <2>7
  <2>9. Trusted(j) => Trusted(j)'
    BY <2>1, <2>2
  <2> QED
    BY <2>4, <2>5, <2>8, <2>9
<1> QED
  BY <1>1, <1>2, <1>3, <1>4, <1>5, <1>6, <1>7, <1>8, <1>9, <1>10, <1>11, <1>12, <1>13, <1>14, <1>15, <1>16, <1>17, <1>18, <1>19, <1>20, <1>21 DEF Handle

LEMMA NextKnown ==
  TInv /\ [Next]_vars => \A k \in Jobs : Known(k)' /\ (Undisturbed /\ Trusted(k) => Trusted(k)')
<1> SUFFICES ASSUME TInv, [Next]_vars, NEW k \in Jobs
             PROVE  Known(k)' /\ (Undisturbed /\ Trusted(k) => Trusted(k)')
  OBVIOUS
<1>1. Known(k)
  BY DEF TInv
<1>2. ASSUME NEW j \in Jobs, StepOf(j)
      PROVE  Known(k)' /\ (Undisturbed /\ Trusted(k) => Trusted(k)')
  <2>1. CASE k = j
    BY <1>2, <2>1 DEF StepOf
  <2>2. CASE k # j
    BY <1>1, <1>2, <2>2 DEF StepOf, Others, Known, Trusted, InPlace
  <2> QED
    BY <2>1, <2>2
<1>3. CASE Restart
  <2>1. pc'[k] = pc[k] \/ pc'[k] = "lost"
    BY <1>3 DEF Restart
  <2> QED
    BY <1>1, <1>3, <2>1 DEF Restart, local, copy, channel, Known, Trusted, InPlace, Filling, Unresolved, Undescribed
<1>4. ASSUME NEW d \in Docs, Put(d) PROVE Known(k)' /\ (Undisturbed /\ Trusted(k) => Trusted(k)')
  BY <1>1, <1>4 DEF Put, local, copy, channel, Known, Trusted, InPlace
<1>5. ASSUME UNCHANGED <<pc, local, seen, task, channel>>
      PROVE  Known(k)' /\ (Undisturbed /\ Trusted(k) => Trusted(k)')
  BY <1>1, <1>5 DEF local, channel, Known, Trusted, InPlace
<1>6. CASE \/ \E c \in stray : StrayWrites(c)
           \/ \E a, i \in Indices : AddAlias(a, i)
           \/ ListAliases \/ \E p \in listing : Record(p)
           \/ UNCHANGED vars
  BY <1>5, <1>6 DEF StrayWrites, AddAlias, ListAliases, Record, vars, copy, local, channel
<1> QED
  BY <1>2, <1>3, <1>4, <1>6, JobSteps DEF Next

\* Elasticsearch, jobs, caches and channels keep their types, and a call names
\* what its job has chosen before, for any number of jobs and whatever fails.
THEOREM TypeCorrect == Spec => []TypeOK
<1>1. TInv /\ [Next]_vars => TInv'
  BY NextTyped, NextKnown DEF TInv
<1>2. TInv => TypeOK
  BY DEF TInv
<1> QED
  BY <1>1, <1>2, InitTyped, PTL DEF Spec

CInv == TInv /\ Undisturbed /\ (\A j \in Jobs : Trusted(j)) /\ \A c \in stray : c.new # 0

LEMMA InitTrusted == Undisturbed /\ Init => CInv
  BY InitTyped DEF CInv, Init, Trusted, Filling

LEMMA NextTrusted == CInv /\ [Next]_vars => CInv'
<1> SUFFICES ASSUME CInv, [Next]_vars PROVE CInv'
  OBVIOUS
<1>1. TInv'
  BY NextTyped, NextKnown DEF CInv, TInv
<1>2. Undisturbed'
  BY DEF CInv, Undisturbed, Fault, ToleratesExisting
<1>3. \A j \in Jobs : Trusted(j)'
  BY NextKnown DEF CInv
<1>4. ASSUME NEW j \in Jobs, StepOf(j), NEW c \in stray' PROVE c.new # 0
  BY <1>4 DEF CInv, Trusted, StepOf, Leaves
<1>5. ASSUME stray' \subseteq stray, NEW c \in stray' PROVE c.new # 0
  BY <1>5 DEF CInv
<1>6. CASE \/ \E c \in stray : StrayWrites(c)
           \/ \E d \in Docs : Put(d)
           \/ \E a, i \in Indices : AddAlias(a, i)
           \/ ListAliases \/ (\E p \in listing : Record(p)) \/ Restart
           \/ UNCHANGED vars
  <2>1. stray' \subseteq stray
    BY <1>6 DEF StrayWrites, Put, AddAlias, ListAliases, Record, Restart, vars, copy
  <2> QED
    BY <1>1, <1>2, <1>3, <1>5, <2>1 DEF CInv
<1>7. CASE \E j \in Jobs : StepOf(j)
  BY <1>1, <1>2, <1>3, <1>4, <1>7 DEF CInv
<1> QED
  BY <1>6, <1>7, JobSteps DEF Next, CInv

\* A job that gives up deletes an index only if it created one, whichever calls
\* of its own or of others failed (postReIndexFailure).
THEOREM OwnDiscards == Undisturbed /\ Spec => DiscardsOnlyItsOwn
<1>1. CInv => \A j \in Jobs : Discard(j) /\ exists' # exists => made[j]
  BY DEF CInv, Trusted, Filling, Discard
<1> QED
  BY <1>1, InitTrusted, NextTrusted, PTL DEF Spec, DiscardsOnlyItsOwn

-----------------------------------------------------------------------------
(* The holder h.                                                           *)

\* A job that has read the source that it is to replace.
Replacing == {"copying", "spawn", "select", "poll", "send", "aliases", "delete"}

Occupies(j) == pc[j] \in Filling \/ task[j] = "running"

\* Every kept document is in it, and the series' name is on nothing else.
\* Indices beyond it have no aliases.
Held(h) ==
    /\ h \in exists /\ safe \subseteq docs[h]
    /\ 0 \in exists <=> h = 0
    /\ h = 0 => alias[0] = {}
    /\ alias[0] \subseteq {h}
    /\ \A a \in Indices : \A i \in alias[a] : i < h \/ (i = h /\ (a = 0 \/ h = 0))

\* In the middle of a move the mover is about to set the alias, or was cut off.
InSwap(h) == h # 0 /\ alias[0] = {}
Swap(h) ==
    /\ InSwap(h) => \E j \in Jobs : pc[j] = "lost" \/ (pc[j] = "alias" /\ name[j] = 0)
    /\ ~ InSwap(h) /\ ~ overtaken => toIndex[0] \in {None, h} /\ \A p \in listing : p.alias = 0 => p.index = h

\* No job reindexes what is ahead of the holder, nor the holder while it moves.
Behind(j, h) ==
    pc[j] \notin Unresolved \cup {"failed", "lost", "done"} =>
        src[j] <= h /\ (InSwap(h) => src[j] < h)

\* The index of a job from the holder on exists, and its job deletes the
\* holder itself no more.
Ahead(j, h) ==
    /\ Occupies(j) /\ new[j] > h => new[j] \in exists
    /\ pc[j] \in Filling /\ new[j] = h => pc[j] \in {"alias", "settings"}

\* Nobody else uses it.
Alone(h) ==
    \A j, k \in Jobs : j # k /\ Occupies(j) /\ Occupies(k) /\ new[j] >= h => new[j] # new[k]

\* A job in place replaces the holder, with all it holds, or a leftover.
Replaces(j, h) ==
    /\ pc[j] \in Replacing /\ InPlace(j) /\ src[j] = h =>
          /\ safe \subseteq seen[j]
          /\ task[j] = "succeeded" => seen[j] \subseteq docs[new[j]]
          /\ task[j] = "aborted" => req[j].wait
    /\ pc[j] = "delete" => (name[j] = 0 <=> src[j] = h \/ src[j] = 0)
    /\ pc[j] = "alias" /\ name[j] = 0 => new[j] = h /\ alias[0] = {}
    /\ pc[j] = "alias" /\ name[j] # 0 => new[j] < h

Holds(h) ==
    /\ Held(h) /\ Swap(h) /\ Alone(h)
    /\ \A j \in Jobs : Behind(j, h) /\ Ahead(j, h) /\ Replaces(j, h)

IInv == CInv /\ \E h \in Indices : Holds(h)

LEMMA InitHeld == Undisturbed /\ Init => IInv
<1> SUFFICES ASSUME Undisturbed, Init PROVE IInv
  OBVIOUS
<1>1. Held(0) /\ Swap(0) /\ Alone(0)
  BY IndicesAreNat DEF Init, Held, Swap, InSwap, Alone, Occupies, Filling
<1>2. \A j \in Jobs : Behind(j, 0) /\ Ahead(j, 0) /\ Replaces(j, 0)
  BY DEF Init, Behind, Ahead, Replaces, Occupies, Unresolved, Filling, Replacing
<1> QED
  BY <1>1, <1>2, InitTrusted, IndicesAreNat DEF IInv, Holds

\* A step of one job that leaves the holder where it is, and neither sets the
\* alias nor deletes an index that another job may use.
LEMMA HolderStays ==
  ASSUME CInv, NEW h \in Indices, Holds(h), NEW j \in Jobs, StepOf(j), Held(h)',
         safe' = safe, alias'[0] = alias[0], toIndex'[0] = toIndex[0],
         UNCHANGED <<listing, overtaken>>,
         \A i \in exists : i > h =>
             \/ i \in exists' /\ docs[i] \subseteq docs'[i]
             \/ Occupies(j) /\ i = new[j],
         \/ pc'[j] = pc[j] /\ name'[j] = name[j]
         \/ pc[j] # "lost" /\ (pc[j] = "alias" => name[j] # 0),
         Occupies(j)' =>
             \/ Occupies(j) /\ new'[j] = new[j]
             \/ \A k \in Jobs \ {j} : Occupies(k) /\ new[k] >= h => new[k] # new'[j],
         Behind(j, h)', Ahead(j, h)', Replaces(j, h)'
  PROVE  Holds(h)'
<1>1. \A k \in Jobs \ {j} : (Occupies(k)' <=> Occupies(k)) /\ new'[k] = new[k]
  BY DEF StepOf, Others, Occupies
<1>2. \A k \in Jobs \ {j} : Occupies(k) /\ new[k] > h =>
         new[k] \in exists' /\ docs[new[k]] \subseteq docs'[new[k]]
  <2> SUFFICES ASSUME NEW k \in Jobs \ {j}, Occupies(k), new[k] > h
               PROVE  new[k] \in exists' /\ docs[new[k]] \subseteq docs'[new[k]]
    OBVIOUS
  <2>1. new[k] \in exists /\ new[k] \in Indices
    BY DEF Holds, Ahead, CInv, TInv, Known, Occupies
  <2>2. ~ (Occupies(j) /\ new[k] = new[j])
    BY <2>1, IndicesAreNat DEF Holds, Alone
  <2> QED
    BY <2>1, <2>2
<1>3. Swap(h)'
  <2>1. InSwap(h)' <=> InSwap(h)
    BY DEF InSwap
  <2>2. ASSUME InSwap(h)
        PROVE  \E k \in Jobs : pc'[k] = "lost" \/ (pc'[k] = "alias" /\ name'[k] = 0)
    <3>1. PICK k \in Jobs : pc[k] = "lost" \/ (pc[k] = "alias" /\ name[k] = 0)
      BY <2>2 DEF Holds, Swap
    <3> QED
      BY <3>1 DEF StepOf, Others
  <2> QED
    BY <2>1, <2>2 DEF Holds, Swap
<1>4. Alone(h)'
  <2> SUFFICES ASSUME NEW k \in Jobs, NEW l \in Jobs, k # l, Occupies(k)', Occupies(l)', new'[k] >= h
               PROVE  new'[k] # new'[l]
    BY DEF Alone
  <2>1. CASE k # j /\ l # j
    BY <1>1, <2>1 DEF Holds, Alone
  <2>2. CASE k = j
    BY <1>1, <2>2 DEF Holds, Alone
  <2>3. CASE l = j
    BY <1>1, <2>3 DEF Holds, Alone
  <2> QED
    BY <2>1, <2>2, <2>3
<1>5. ASSUME NEW k \in Jobs, k # j PROVE Behind(k, h)' /\ Ahead(k, h)' /\ Replaces(k, h)'
  <2>1. Behind(k, h)'
    BY <1>5 DEF StepOf, Others, Holds, Behind, InSwap
  <2>2. Ahead(k, h)'
    BY <1>1, <1>2, <1>5 DEF StepOf, Others, Holds, Ahead
  <2>3. pc[k] \in Replacing /\ InPlace(k) /\ src[k] = h => Occupies(k) /\ new[k] > h
    BY IndicesAreNat DEF CInv, TInv, Known, Occupies, Replacing, Filling
  <2>4. Replaces(k, h)'
    BY <1>2, <1>5, <2>3 DEF StepOf, Others, Holds, Replaces, InPlace
  <2> QED
    BY <2>1, <2>2, <2>4
<1> QED
  BY <1>3, <1>4, <1>5 DEF Holds

\* A step of a job that changes only what the job knows.
LEMMA ControlStays ==
  ASSUME CInv, NEW h \in Indices, Holds(h), NEW j \in Jobs, StepOf(j),
         UNCHANGED <<exists, docs, alias, toIndex, listing, overtaken, safe>>,
         pc[j] \notin {"alias", "lost"},
         Occupies(j)' => Occupies(j) /\ new'[j] = new[j],
         pc'[j] \in Filling => pc[j] \in Filling /\ (new[j] = h => pc'[j] = "settings"),
         Behind(j, h)', Replaces(j, h)'
  PROVE  Holds(h)'
<1>1. Held(h)'
  BY DEF Holds, Held
<1>2. Ahead(j, h)'
  BY DEF Holds, Ahead, Occupies
<1> QED
  BY <1>1, <1>2, HolderStays

LEMMA ControlSteps ==
  ASSUME CInv, NEW h \in Indices, Holds(h), NEW j \in Jobs,
         \/ \E q \in Menu : Submit(j, q)
         \/ Resolve(j) \/ Describe(j) \/ Extras(j) \/ StartCopy(j) \/ Copied(j)
         \/ SetCurrentProcess(j) \/ Tick(j) \/ TakeTick(j) \/ Poll(j) \/ PollFails(j)
         \/ SendDone(j) \/ TakeDone(j) \/ Aliases(j) \/ PutReplicas(j) \/ Unanswered(j)
  PROVE  Holds(h)'
<1>1. StepOf(j)
  BY JobSteps DEF CInv, Handle
<1>2. Behind(j, h) /\ Ahead(j, h) /\ Replaces(j, h) /\ Held(h) /\ Known(j) /\ Known(j)' /\ Trusted(j)'
  BY <1>1 DEF Holds, CInv, TInv, StepOf
<1>3. TypeOK /\ Undisturbed /\ h \in Nat
  BY IndicesAreNat DEF CInv, TInv
<1> SUFFICES
      /\ UNCHANGED <<exists, docs, alias, toIndex, listing, overtaken, safe>>
      /\ pc[j] \notin {"alias", "lost"}
      /\ Occupies(j)' => Occupies(j) /\ new'[j] = new[j]
      /\ pc'[j] \in Filling => pc[j] \in Filling /\ (new[j] = h => pc'[j] = "settings")
      /\ Behind(j, h)'
      /\ Replaces(j, h)'
  BY <1>1, ControlStays
<1> USE <1>2, <1>3 DEF TypeOK, Occupies, Behind, Ahead, Replaces, InSwap, Known, Filling, Replacing,
        Unresolved, Undescribed, InPlace, Goto, cluster, caches, local, copy, channel
<1>4. CASE \E q \in Menu : Submit(j, q)
  BY <1>4 DEF Submit
<1>5. CASE Resolve(j)
  <2>1. req[j].name = 0
    BY <1>5 DEF Resolve, Undisturbed
  <2>2. alias[0] \subseteq {h} /\ 0 <= h /\ (InSwap(h) => 0 < h)
    BY DEF Held
  <2>3. pc'[j] = "describe" => src'[j] = 0 \/ src'[j] \in alias[0]
    BY <1>5, <2>1 DEF Resolve
  <2>4. Behind(j, h)'
    BY <1>5, <2>2, <2>3 DEF Resolve
  <2> QED
    BY <1>5, <2>4 DEF Resolve
<1>6. CASE Describe(j)
  BY <1>6 DEF Describe
<1>7. CASE Extras(j)
  BY <1>7 DEF Extras
<1>8. CASE StartCopy(j)
  <2>1. src[j] = h => Reached(src[j]) = {h}
    BY DEF Held, Reached
  <2>2. pc'[j] \in Replacing => /\ seen'[j] = UNION {docs[i] : i \in Reached(src[j])}
                                /\ task'[j] = "running" /\ pc'[j] # "delete"
    BY <1>8 DEF StartCopy
  <2>3. Replaces(j, h)'
    BY <1>8, <2>1, <2>2 DEF StartCopy, Held
  <2>4. Behind(j, h)'
    BY <1>8 DEF StartCopy
  <2> QED
    BY <1>8, <2>3, <2>4 DEF StartCopy
<1>9. CASE Copied(j)
  BY <1>9 DEF Copied
<1>10. CASE SetCurrentProcess(j)
  BY <1>10 DEF SetCurrentProcess
<1>11. CASE Tick(j)
  BY <1>11 DEF Tick
<1>12. CASE TakeTick(j)
  BY <1>12 DEF TakeTick
<1>13. CASE Poll(j)
  BY <1>13 DEF Poll
<1>14. CASE PollFails(j)
  BY <1>14 DEF PollFails
<1>15. CASE SendDone(j)
  BY <1>15 DEF SendDone
<1>16. CASE TakeDone(j)
  BY <1>16 DEF TakeDone
<1>17. CASE Aliases(j)
  <2>1. UNCHANGED <<exists, docs, alias, toIndex, listing, overtaken, safe, req, src, new, task, seen>> /\ pc[j] = "aliases"
    BY <1>17 DEF Aliases
  <2>2. pc'[j] \in {"delete", "settings", "discard", "failed"}
    BY <1>17 DEF Aliases, AfterPostError
  <2>3. ASSUME pc'[j] = "delete" PROVE InPlace(j) /\ (name'[j] = 0 <=> src[j] = h \/ src[j] = 0)
    <3> DEFINE listed == IF src[j] = 0 THEN {} ELSE {a \in Indices : src[j] \in alias[a]}
    <3>1. name'[j] \in IF listed = {} THEN {src[j]} ELSE listed
      BY <1>17, <2>3 DEF Aliases, AfterPostError
    <3>2. InPlace(j)
      BY <1>17, <2>3 DEF Aliases, AfterPostError
    <3>3. src[j] \in Indices /\ src[j] <= h /\ (InSwap(h) => src[j] < h)
      BY <2>1, <3>2
    <3>4. CASE src[j] = 0
      BY <3>1, <3>2, <3>3, <3>4
    <3>5. CASE src[j] # 0 /\ src[j] = h
      <4>1. listed = {0}
        BY <3>3, <3>5, IndicesAreNat DEF Held
      <4> QED
        BY <3>1, <3>2, <3>5, <4>1
    <3>6. CASE src[j] # 0 /\ src[j] < h
      <4>1. 0 \notin listed
        BY <3>3, <3>6, IndicesAreNat DEF Held
      <4> QED
        BY <3>1, <3>2, <3>6, <4>1, <3>3, IndicesAreNat
    <3> QED
      BY <3>3, <3>4, <3>5, <3>6, IndicesAreNat
  <2> QED
    BY <2>1, <2>2, <2>3
<1>18. CASE PutReplicas(j)
  <2>1. ~ Fault("settings")
    BY DEF Undisturbed
  <2> QED
    BY <1>18, <2>1 DEF PutReplicas, AfterPostError, Held
<1>19. CASE Unanswered(j)
  BY <1>19 DEF Unanswered
<1> QED
  BY <1>4, <1>5, <1>6, <1>7, <1>8, <1>9, <1>10, <1>11, <1>12, <1>13, <1>14, <1>15, <1>16, <1>17, <1>18, <1>19

-----------------------------------------------------------------------------
(* Steps that change the cluster.                                          *)

LEMMA WritesAdd ==
  ASSUME TypeOK, NEW i \in Indices, NEW ds \in SUBSET Docs, AddDocs(i, ds)
  PROVE  /\ exists \subseteq exists' /\ exists' \subseteq exists \cup {i} /\ alias' = alias
         /\ \A k \in Indices : docs[k] \subseteq docs'[k]
         /\ i \in exists => exists' = exists /\ ds \subseteq docs'[i]
  BY DEF TypeOK, AddDocs, Reached

LEMMA CreateStays ==
  ASSUME CInv, NEW h \in Indices, Holds(h), NEW j \in Jobs, Create(j)
  PROVE  Holds(h)'
<1>1. StepOf(j)
  BY JobSteps DEF CInv, Handle
<1>2. TypeOK /\ Undisturbed /\ Held(h) /\ Known(j) /\ Trusted(j)
  BY DEF CInv, TInv, Holds
<1>3. /\ pc[j] = "create" /\ new[j] \in Indices /\ new[j] # 0 /\ req[j] \in Menu /\ task[j] = "none"
      /\ UNCHANGED <<toIndex, listing, overtaken, safe, new, src, task>>
  BY <1>2 DEF Create, Known, Trusted, Unresolved, Undescribed, caches, copy
<1>4. Behind(j, h)'
  BY <1>2, <1>3 DEF Create, Holds, Behind, InSwap, CreateIndex, cluster, Unresolved, Goto, TypeOK
<1>5. CASE pc'[j] = "failed" /\ UNCHANGED cluster
  <2>1. Replaces(j, h)'
    BY <1>5 DEF Replaces, Replacing
  <2> QED
    BY <1>1, <1>3, <1>4, <1>5, <2>1, ControlStays DEF cluster, Occupies, Filling
<1>6. CASE pc'[j] = "extras" /\ CanCreate(new[j]) /\ CreateIndex(new[j])
  <2>1. /\ new[j] \notin exists /\ exists' = exists \cup {new[j]} /\ alias' = alias
        /\ \A i \in exists : docs'[i] = docs[i]
    BY <1>2, <1>6 DEF CanCreate, CreateIndex, TypeOK
  <2>2. new[j] # h
    BY <1>2, <2>1 DEF Held
  <2>3. Held(h)'
    BY <1>2, <1>3, <2>1, <2>2 DEF Held
  <2>4. \A k \in Jobs \ {j} : Occupies(k) /\ new[k] >= h => new[k] # new[j]
    <3> SUFFICES ASSUME NEW k \in Jobs \ {j}, Occupies(k), new[k] >= h, new[k] = new[j] PROVE FALSE
      OBVIOUS
    <3>1. new[j] \in Nat /\ h \in Nat
      BY <1>3, IndicesAreNat
    <3>2. new[k] > h
      BY <2>2, <3>1
    <3> QED
      BY <2>1, <3>2 DEF Holds, Ahead
  <2>5. Ahead(j, h)'
    BY <1>3, <2>1, <2>2 DEF Ahead
  <2>6. Replaces(j, h)'
    BY <1>6 DEF Replaces, Replacing
  <2> QED
    BY <1>1, <1>3, <1>4, <2>1, <2>3, <2>4, <2>5, <2>6, HolderStays
<1>7. ~ ToleratesExisting(req[j])
  BY <1>2, <1>3 DEF Undisturbed
<1> QED
  BY <1>2, <1>5, <1>6, <1>7 DEF Create, Goto, TypeOK

LEMMA EndCopyStays ==
  ASSUME CInv, NEW h \in Indices, Holds(h), NEW j \in Jobs, EndCopy(j)
  PROVE  Holds(h)'
<1>1. StepOf(j)
  BY JobSteps DEF CInv
<1>2. TypeOK /\ Held(h) /\ Known(j) /\ Trusted(j) /\ Behind(j, h) /\ Ahead(j, h) /\ Replaces(j, h)
  BY DEF CInv, TInv, Holds
<1>3. /\ task[j] = "running" /\ new[j] \in Indices /\ new[j] # 0
      /\ UNCHANGED <<toIndex, listing, overtaken, safe, pc, req, src, new, name, seen>>
  BY <1>2 DEF EndCopy, Known, Trusted, caches, local
<1>4. PICK ds \in SUBSET Docs : AddDocs(new[j], ds) /\ (task'[j] = "succeeded" => ds = seen[j])
  BY <1>2 DEF EndCopy, TypeOK
<1>5. /\ exists \subseteq exists' /\ exists' \subseteq exists \cup {new[j]} /\ alias' = alias
      /\ \A k \in Indices : docs[k] \subseteq docs'[k]
      /\ new[j] \in exists => exists' = exists /\ ds \subseteq docs'[new[j]]
  BY <1>2, <1>3, <1>4, WritesAdd
<1>6. Held(h)'
  BY <1>2, <1>3, <1>5 DEF Held
<1>7. Behind(j, h)' /\ Ahead(j, h)'
  BY <1>2, <1>3, <1>5 DEF Behind, InSwap, Ahead, Occupies
<1>8. pc[j] \in Replacing /\ InPlace(j) /\ src[j] = h => new[j] \in exists
  BY <1>2, <1>3, IndicesAreNat DEF Ahead, Occupies, Known
<1>9. pc[j] \in Replacing /\ InPlace(j) /\ src[j] = h /\ task'[j] = "aborted" => req[j].wait
  <2>1. src[j] = h => Reached(src[j]) # {}
    BY <1>2 DEF Held, Reached
  <2>2. pc[j] # "idle" => req[j] \in Menu
    BY <1>2 DEF Known
  <2>3. InPlace(j) /\ Fault("abort") /\ pc[j] # "idle" => req[j].wait
    BY <2>2 DEF CInv, Undisturbed, InPlace
  <2>4. task'[j] = "aborted" => Reached(src[j]) = {} \/ Fault("abort")
    BY <1>2 DEF EndCopy, TypeOK
  <2> QED
    BY <2>1, <2>3, <2>4 DEF Replacing
<1>12. Replaces(j, h)'
  BY <1>2, <1>3, <1>4, <1>5, <1>8, <1>9 DEF Replaces, InPlace
<1>10. Occupies(j)
  BY <1>3 DEF Occupies
<1>11. \A i \in exists : i \in exists' /\ docs[i] \subseteq docs'[i]
  BY <1>2, <1>5 DEF TypeOK
<1> QED
  BY <1>1, <1>3, <1>5, <1>6, <1>7, <1>12, <1>10, <1>11, HolderStays

LEMMA DiscardStays ==
  ASSUME CInv, NEW h \in Indices, Holds(h), NEW j \in Jobs, Discard(j)
  PROVE  Holds(h)'
<1>1. StepOf(j)
  BY JobSteps DEF CInv, Handle
<1>2. TypeOK /\ Held(h) /\ Known(j) /\ Trusted(j) /\ Ahead(j, h)
  BY DEF CInv, TInv, Holds
<1>3. /\ pc[j] = "discard" /\ new[j] \in Indices /\ new[j] # 0 /\ new[j] # h /\ Occupies(j)
      /\ task[j] # "running" /\ UNCHANGED <<toIndex, listing, overtaken, safe, new, task>>
  BY <1>2 DEF Discard, Known, Trusted, Ahead, Filling, Occupies, caches, local, copy
<1>4. pc'[j] = "failed"
  BY <1>2 DEF Discard, Goto, TypeOK
<1>5. Behind(j, h)' /\ Ahead(j, h)' /\ Replaces(j, h)' /\ ~ Occupies(j)'
  BY <1>3, <1>4 DEF Behind, Ahead, Replaces, Occupies, Filling, Replacing
<1>6. CASE UNCHANGED cluster
  BY <1>1, <1>3, <1>4, <1>5, <1>6, ControlStays DEF cluster, Filling
<1>7. CASE DeleteIndex(new[j])
  <2>1. /\ exists' = exists \ {new[j]}
        /\ \A i \in Indices \ {new[j]} : docs'[i] = docs[i]
        /\ \A a \in Indices : alias'[a] = alias[a] \ {new[j]}
    BY <1>2, <1>7 DEF DeleteIndex, TypeOK
  <2>2. alias'[0] = alias[0]
    <3>1. alias[0] \subseteq {h} /\ alias'[0] = alias[0] \ {new[j]}
      BY <1>2, <2>1, IndicesAreNat DEF Held
    <3> QED
      BY <1>3, <3>1
  <2>3. Held(h)'
    BY <1>2, <1>3, <2>1, <2>2 DEF Held
  <2>4. \A i \in exists : i # new[j] => i \in exists' /\ docs[i] \subseteq docs'[i]
    BY <1>2, <2>1 DEF TypeOK
  <2> QED
    BY <1>1, <1>3, <1>4, <1>5, <2>2, <2>3, <2>4, HolderStays
<1> QED
  BY <1>6, <1>7 DEF Discard

\* The old index is deleted: the holder moves if it is the one.
LEMMA Moves ==
  ASSUME CInv, NEW h \in Indices, Holds(h), NEW j \in Jobs, StepOf(j), pc[j] = "delete",
         src[j] = h, DeleteIndex(h), pc'[j] = "alias", UNCHANGED <<toIndex, safe, local, copy>>,
         NEW g \in Indices, g = new[j]
  PROVE  Holds(g)'
<1>1. /\ TypeOK /\ Held(h) /\ Known(j) /\ Trusted(j) /\ Behind(j, h) /\ Ahead(j, h) /\ Replaces(j, h)
      /\ Undisturbed
  BY DEF CInv, TInv, Holds
<1>2. /\ InPlace(j) /\ new[j] \in Indices /\ new[j] = h + 1 /\ task[j] = "succeeded" /\ name[j] = 0
      /\ new[j] \in exists /\ safe \subseteq docs[new[j]] /\ Occupies(j) /\ new[j] > h /\ ~ InSwap(h)
  <2>1. InPlace(j) /\ new[j] \in Indices /\ new[j] = h + 1 /\ task[j] = "succeeded" /\ Occupies(j)
    BY <1>1 DEF Known, Filling, Occupies, Replaces, Replacing
  <2>2. new[j] > h /\ h \in Nat
    BY <2>1, IndicesAreNat
  <2>3. new[j] \in exists
    BY <1>1, <2>1, <2>2 DEF Ahead
  <2>4. safe \subseteq docs[new[j]] /\ name[j] = 0
    BY <1>1, <2>1 DEF Replaces, Replacing
  <2>5. ~ InSwap(h)
    BY <1>1, <2>2 DEF Behind, Unresolved
  <2> QED
    BY <2>1, <2>2, <2>3, <2>4, <2>5
<1>3. /\ exists' = exists \ {h}
      /\ \A i \in Indices \ {h} : docs'[i] = docs[i]
      /\ \A a \in Indices : alias'[a] = alias[a] \ {h}
  BY <1>1 DEF DeleteIndex, TypeOK
<1>4. alias'[0] = {} /\ 0 \notin exists' /\ h \in Nat
  BY <1>1, <1>3, IndicesAreNat DEF Held
<1>5. UNCHANGED <<req, src, new, name, seen, task>>
  BY DEF local, copy
<1>6. Held(g)'
  <2>1. \A a \in Indices : \A i \in alias'[a] : i < h
    BY <1>1, <1>3 DEF Held
  <2>2. ASSUME NEW a \in Indices, NEW i \in alias'[a] PROVE i < new[j]
    <3>1. i \in Nat /\ i < h
      BY <1>1, <1>3, <2>1, IndicesAreNat DEF TypeOK
    <3> QED
      BY <1>2, <1>4, <3>1
  <2> QED
    BY <1>2, <1>3, <1>4, <1>5, <2>2 DEF Held
<1>7. Swap(g)'
  BY <1>2, <1>4, <1>5 DEF Swap, InSwap
<1>8. \A k \in Jobs : Occupies(k)' => Occupies(k)
  BY <1>2, <1>5 DEF StepOf, Others, Occupies
<1>9. \A k \in Jobs : Occupies(k) => new[k] \in Indices
  BY DEF CInv, TInv, Known, Occupies
<1>10. Alone(g)'
  <2> SUFFICES ASSUME NEW k \in Jobs, NEW l \in Jobs, k # l, Occupies(k)', Occupies(l)', new'[k] >= g
               PROVE  new'[k] # new'[l]
    BY <1>5 DEF Alone
  <2>1. new[k] \in Nat /\ new[k] >= new[j] /\ Occupies(k) /\ Occupies(l)
    BY <1>5, <1>8, <1>9, IndicesAreNat
  <2>2. new[k] >= h
    BY <1>2, <1>4, <2>1
  <2>3. new[k] # new[l]
    BY <2>1, <2>2 DEF Holds, Alone
  <2> QED
    BY <1>5, <2>3
<1>11. ASSUME NEW k \in Jobs PROVE Behind(k, g)'
  <2>1. pc'[k] \notin Unresolved \cup {"failed", "lost", "done"} => src[k] <= h /\ src[k] \in Indices
    BY DEF Holds, Behind, CInv, TInv, Known, StepOf, Others, Unresolved
  <2>2. ASSUME src[k] <= h, src[k] \in Indices PROVE src[k] < new[j] /\ src[k] <= new[j]
    <3>1. src[k] \in Nat
      BY <2>2, IndicesAreNat
    <3> QED
      BY <1>2, <1>4, <2>2, <3>1
  <2> QED
    BY <1>5, <2>1, <2>2 DEF Behind
<1>12. ASSUME NEW k \in Jobs PROVE Ahead(k, g)'
  <2>1. ASSUME Occupies(k), new[k] > new[j] PROVE new[k] \in exists /\ new[k] # h
    <3>1. new[k] \in Nat
      BY <1>9, <2>1, IndicesAreNat
    <3>2. new[k] > h /\ new[k] # h
      BY <1>2, <1>4, <2>1, <3>1
    <3> QED
      BY <2>1, <3>2 DEF Holds, Ahead
  <2>2. Occupies(k) /\ new[k] = new[j] => k = j
    BY <1>2, <1>4, IndicesAreNat DEF Holds, Alone
  <2> QED
    BY <1>3, <1>5, <1>8, <2>1, <2>2 DEF Ahead, Occupies
<1>13. ASSUME NEW k \in Jobs \ {j} PROVE Replaces(k, g)'
  <2>1. ~ (Occupies(k) /\ new[k] = h + 1)
    BY <1>2, <1>4, IndicesAreNat DEF Holds, Alone
  <2>2. pc[k] \in Replacing /\ InPlace(k) => src[k] # h /\ src[k] <= h /\ src[k] \in Indices /\ Occupies(k)
    BY <2>1 DEF CInv, TInv, Known, Holds, Behind, Replacing, Filling, Unresolved, Occupies
  <2>3. pc[k] = "delete" => InPlace(k)
    BY DEF CInv, TInv, Known
  <2>4. ASSUME pc[k] = "alias" PROVE name[k] # 0 /\ new[k] < h /\ new[k] \in Nat
    <3>1. new[k] \in Nat
      BY <2>4, IndicesAreNat DEF CInv, TInv, Known, Filling
    <3>2. alias[0] # {} \/ h = 0
      BY <1>2 DEF InSwap
    <3>3. name[k] = 0 => new[k] = 0
      BY <2>4, <3>2 DEF Holds, Replaces
    <3>4. new[k] # 0
      BY <2>4 DEF CInv, Trusted, Filling
    <3> QED
      BY <2>4, <3>1, <3>3, <3>4 DEF Holds, Replaces
  <2>5. pc'[k] = pc[k]
    BY DEF StepOf, Others
  <2>6. pc[k] \in Replacing /\ InPlace(k) => src[k] # new[j]
    BY <1>2, <1>4, <2>2, IndicesAreNat DEF Holds, Replaces
  <2>7. pc[k] = "delete" => (name[k] = 0 <=> src[k] = new[j] \/ src[k] = 0)
    BY <2>2, <2>3, <2>6 DEF Holds, Replaces, Replacing
  <2>8. pc[k] = "alias" => name[k] # 0 /\ new[k] < new[j]
    BY <1>2, <1>4, <2>4
  <2> QED
    BY <1>5, <2>5, <2>6, <2>7, <2>8 DEF Replaces, InPlace
<1>14. Replaces(j, g)'
  BY <1>2, <1>4, <1>5 DEF Replaces, Replacing
<1> QED
  BY <1>2, <1>6, <1>7, <1>10, <1>11, <1>12, <1>13, <1>14 DEF Holds

LEMMA DeleteSourceKeeps ==
  ASSUME CInv, NEW h \in Indices, Holds(h), NEW j \in Jobs, DeleteSource(j)
  PROVE  \E g \in Indices : Holds(g)'
<1>1. StepOf(j)
  BY JobSteps DEF CInv, Handle
<1>2. /\ TypeOK /\ Held(h) /\ Known(j) /\ Trusted(j) /\ Behind(j, h) /\ Ahead(j, h) /\ Replaces(j, h)
      /\ Undisturbed
  BY DEF CInv, TInv, Holds
<1>3. /\ pc[j] = "delete" /\ src[j] \in Indices /\ src[j] <= h /\ InPlace(j)
      /\ new[j] \in Indices /\ new[j] = src[j] + 1 /\ new[j] # h /\ Occupies(j) /\ task[j] # "running"
      /\ UNCHANGED <<toIndex, listing, overtaken, safe, local, copy>>
  BY <1>2 DEF DeleteSource, Known, Behind, Ahead, Filling, Unresolved, Occupies, caches
<1>4. UNCHANGED <<req, src, new, name, task>>
  BY <1>3 DEF local, copy
<1>5. CASE UNCHANGED cluster /\ pc'[j] \in {"discard", "failed"}
  <2>1. Behind(j, h)' /\ Replaces(j, h)'
    BY <1>2, <1>3, <1>4, <1>5 DEF Behind, InSwap, Replaces, Replacing, Unresolved, cluster
  <2> QED
    BY <1>1, <1>3, <1>4, <1>5, <2>1, ControlStays DEF cluster, Filling
<1>6. CASE DeleteIndex(src[j]) /\ src[j] \in exists /\ pc'[j] = "alias"
  <2>1. CASE src[j] = h
    <3>1. DeleteIndex(h)
      BY <1>6, <2>1
    <3>2. PICK g \in Indices : g = new[j]
      BY <1>3
    <3> QED
      BY <1>1, <1>3, <1>6, <2>1, <3>1, <3>2, Moves
  <2>2. CASE src[j] # h
    <3>1. src[j] \in Nat /\ h \in Nat /\ src[j] < h /\ new[j] < h
      <4>1. src[j] \in Nat /\ h \in Nat
        BY <1>3, IndicesAreNat
      <4> QED
        BY <1>3, <2>2, <4>1
    <3>2. src[j] # 0 /\ name[j] # 0
      BY <1>2, <1>3, <1>6, <2>2, <3>1 DEF Held, Replaces
    <3>3. /\ exists' = exists \ {src[j]}
          /\ \A i \in Indices \ {src[j]} : docs'[i] = docs[i]
          /\ \A a \in Indices : alias'[a] = alias[a] \ {src[j]}
      BY <1>2, <1>6 DEF DeleteIndex, TypeOK
    <3>4. alias'[0] = alias[0]
      <4>1. alias[0] \subseteq {h} /\ alias'[0] = alias[0] \ {src[j]}
        BY <1>2, <3>3, IndicesAreNat DEF Held
      <4> QED
        BY <2>2, <4>1
    <3>5. Held(h)'
      BY <1>2, <1>3, <2>2, <3>2, <3>3, <3>4 DEF Held
    <3>6. \A i \in exists : i > h => i \in exists' /\ docs[i] \subseteq docs'[i]
      BY <1>2, <3>1, <3>3 DEF TypeOK
    <3>7. Behind(j, h)' /\ Ahead(j, h)' /\ Replaces(j, h)'
      BY <1>2, <1>3, <1>4, <1>6, <3>1, <3>2, <3>4 DEF Behind, InSwap, Ahead, Occupies, Replaces, Replacing, Unresolved
    <3> QED
      BY <1>1, <1>3, <1>4, <3>4, <3>5, <3>6, <3>7, HolderStays
  <2> QED
    BY <2>1, <2>2
<1> QED
  BY <1>2, <1>5, <1>6 DEF DeleteSource, AfterPostError, Goto, TypeOK, Undisturbed

\* The mover makes the name reach the holder.
LEMMA SetAliasStays ==
  ASSUME CInv, NEW h \in Indices, Holds(h), NEW j \in Jobs, SetAlias(j)
  PROVE  Holds(h)'
<1>1. StepOf(j)
  BY JobSteps DEF CInv, Handle
<1>2. /\ TypeOK /\ Held(h) /\ Known(j) /\ Trusted(j) /\ Behind(j, h) /\ Ahead(j, h) /\ Replaces(j, h)
      /\ Undisturbed
  BY DEF CInv, TInv, Holds
<1>3. /\ pc[j] = "alias" /\ new[j] \in Indices /\ new[j] # 0 /\ name[j] \in Indices /\ Occupies(j)
      /\ task[j] # "running" /\ src[j] \in Indices /\ src[j] <= h /\ (InSwap(h) => src[j] < h)
      /\ UNCHANGED <<exists, docs, safe, local, copy>>
  BY <1>2 DEF SetAlias, Known, Trusted, Filling, Unresolved, Behind, Occupies
<1>4. UNCHANGED <<req, src, new, name, task, seen>>
  BY <1>3 DEF local, copy
<1>5. CASE name[j] # 0
  <2>1. new[j] < h
    BY <1>2, <1>3, <1>5 DEF Replaces
  <2>2. /\ pc'[j] \in {"settings", "discard", "failed"}
        /\ alias'[0] = alias[0] /\ toIndex'[0] = toIndex[0] /\ UNCHANGED <<listing, overtaken>>
        /\ \A a \in Indices : alias'[a] = alias[a] \/ (a = name[j] /\ alias'[a] = alias[a] \cup {new[j]})
    BY <1>2, <1>3, <1>5, IndicesAreNat DEF SetAlias, AfterPostError, Goto, caches, TypeOK
  <2>3. Held(h)'
    BY <1>2, <1>3, <1>5, <2>1, <2>2 DEF Held
  <2>4. new[j] # h /\ ~ (new[j] > h)
    <3>1. new[j] \in Nat /\ h \in Nat
      BY <1>3, IndicesAreNat
    <3> QED
      BY <2>1, <3>1
  <2>5. Behind(j, h)' /\ Ahead(j, h)' /\ Replaces(j, h)'
    BY <1>3, <1>4, <2>2, <2>4 DEF Behind, InSwap, Ahead, Occupies, Replaces, Replacing
  <2> QED
    BY <1>1, <1>3, <1>4, <1>5, <2>2, <2>3, <2>5, HolderStays
<1>6. CASE name[j] = 0
  <2>1. new[j] = h /\ h # 0 /\ alias[0] = {}
    BY <1>2, <1>3, <1>6 DEF Replaces
  <2>2. /\ pc'[j] = "settings" /\ alias'[0] = {h} /\ toIndex'[0] = h
        /\ overtaken' = (listing # {}) /\ listing' = listing
        /\ \A a \in Indices \ {0} : alias'[a] = alias[a]
    BY <1>2, <1>3, <1>6, <2>1, IndicesAreNat DEF SetAlias, Goto, TypeOK, Held, Undisturbed
  <2>3. Held(h)' /\ Swap(h)'
    <3>1. Held(h)'
      BY <1>2, <1>3, <2>1, <2>2 DEF Held
    <3>2. Swap(h)'
      BY <2>1, <2>2 DEF Swap, InSwap
    <3> QED
      BY <3>1, <3>2
  <2>4. \A k \in Jobs : Occupies(k)' => Occupies(k)
    BY <1>1, <1>3, <1>4 DEF StepOf, Others, Occupies
  <2>5. Alone(h)'
    BY <1>4, <2>4 DEF Holds, Alone
  <2>6. \A k \in Jobs \ {j} : ~ (pc[k] \in Filling /\ new[k] = h)
    BY <1>3, <2>1, IndicesAreNat DEF Holds, Alone, Occupies
  <2>7. ASSUME NEW k \in Jobs \ {j} PROVE Behind(k, h)' /\ Ahead(k, h)' /\ Replaces(k, h)'
    <3>1. pc'[k] = pc[k] /\ (pc[k] = "alias" => name[k] # 0)
      BY <1>1, <2>6 DEF StepOf, Others, Holds, Replaces, Filling
    <3>2. Behind(k, h)'
      BY <1>4, <2>2, <3>1 DEF Holds, Behind, InSwap
    <3>3. Ahead(k, h)'
      BY <1>3, <1>4, <2>4, <3>1 DEF Holds, Ahead
    <3>4. Replaces(k, h)'
      BY <1>3, <1>4, <3>1 DEF Holds, Replaces, InPlace
    <3> QED
      BY <3>2, <3>3, <3>4
  <2>8. Behind(j, h)' /\ Ahead(j, h)' /\ Replaces(j, h)'
    BY <1>2, <1>3, <1>4, <2>1, <2>2, IndicesAreNat DEF Behind, InSwap, Ahead, Replaces, Replacing
  <2> QED
    BY <2>3, <2>5, <2>7, <2>8 DEF Holds
<1> QED
  BY <1>5, <1>6

-----------------------------------------------------------------------------
(* The environment.                                                        *)

LEMMA ReachedIsHolder ==
  ASSUME TypeOK, NEW h \in Indices, Held(h), Reached(0) # {}
  PROVE  Reached(0) = {h} /\ ~ InSwap(h)
<1>1. CASE 0 \in exists
  BY <1>1 DEF Held, Reached, InSwap
<1>2. CASE 0 \notin exists
  BY <1>2 DEF Held, Reached, InSwap
<1> QED
  BY <1>1, <1>2

LEMMA PutStays ==
  ASSUME CInv, NEW h \in Indices, Holds(h), NEW d \in Docs, Put(d)
  PROVE  Holds(h)'
<1>1. TypeOK /\ Held(h) /\ ~ AutoCreate
  BY DEF CInv, TInv, Holds, Undisturbed
<1>2. AddDocs(0, {d}) /\ Reached(0) # {}
  BY <1>1, FS_EmptySet DEF Put
<1>3. Reached(0) = {h}
  BY <1>1, <1>2, ReachedIsHolder
<1>4. UNCHANGED <<caches, pc, local, copy>>
  BY DEF Put
<1>5. UNCHANGED <<toIndex, listing, overtaken, pc, req, src, new, name, seen, task, alias>>
  BY <1>2, <1>4 DEF caches, local, copy, AddDocs
<1>6. exists' = exists /\ docs'[h] = docs[h] \cup {d}
  BY <1>1, <1>2, <1>3 DEF AddDocs, TypeOK
<1>7. \A i \in Indices : docs[i] \subseteq docs'[i]
  BY <1>1, <1>2, WritesAdd, IndicesAreNat
<1>8. safe' = safe \/ (Resting /\ safe' = safe \cup {d})
  BY DEF Put
<1>9. Held(h)'
  BY <1>1, <1>5, <1>6, <1>8 DEF Held
<1>10. Swap(h)' /\ Alone(h)'
  BY <1>5 DEF Holds, Swap, InSwap, Alone, Occupies
<1>11. ASSUME NEW k \in Jobs PROVE Behind(k, h)' /\ Ahead(k, h)' /\ Replaces(k, h)'
  <2>1. Behind(k, h)' /\ Ahead(k, h)'
    BY <1>5, <1>6 DEF Holds, Behind, InSwap, Ahead, Occupies
  <2>2. Resting => pc[k] \notin Replacing
    BY DEF Resting, Ended, Replacing
  <2>3. pc[k] \in Replacing => new[k] \in Indices
    BY DEF CInv, TInv, Known, Replacing, Filling
  <2>4. Replaces(k, h)'
    BY <1>5, <1>7, <1>8, <2>2, <2>3 DEF Holds, Replaces, InPlace
  <2> QED
    BY <2>1, <2>4
<1> QED
  BY <1>9, <1>10, <1>11 DEF Holds

LEMMA StrayStays ==
  ASSUME CInv, NEW h \in Indices, Holds(h), NEW c \in stray, StrayWrites(c)
  PROVE  Holds(h)'
<1>1. TypeOK /\ Held(h)
  BY DEF CInv, TInv, Holds
<1>2. c.new \in Indices /\ c.new # 0 /\ c.docs \in SUBSET Docs
  BY <1>1 DEF CInv, TypeOK, Copies
<1>3. PICK ds \in SUBSET Docs : AddDocs(c.new, ds)
  BY <1>2 DEF StrayWrites
<1>4. /\ exists \subseteq exists' /\ exists' \subseteq exists \cup {c.new} /\ alias' = alias
      /\ \A k \in Indices : docs[k] \subseteq docs'[k]
  BY <1>1, <1>2, <1>3, WritesAdd
<1>5. UNCHANGED <<toIndex, listing, overtaken, safe, pc, req, src, new, name, seen, task>>
  BY DEF StrayWrites, caches, local
<1>6. Held(h)'
  BY <1>1, <1>2, <1>4, <1>5 DEF Held
<1>7. Swap(h)' /\ Alone(h)'
  BY <1>4, <1>5 DEF Holds, Swap, InSwap, Alone, Occupies
<1>8. ASSUME NEW k \in Jobs PROVE Behind(k, h)' /\ Ahead(k, h)' /\ Replaces(k, h)'
  <2>1. Behind(k, h)' /\ Ahead(k, h)'
    BY <1>4, <1>5 DEF Holds, Behind, InSwap, Ahead, Occupies
  <2>2. pc[k] \in Replacing => new[k] \in Indices
    BY DEF CInv, TInv, Known, Replacing, Filling
  <2>3. Replaces(k, h)'
    BY <1>4, <1>5, <2>2 DEF Holds, Replaces, InPlace
  <2> QED
    BY <2>1, <2>3
<1> QED
  BY <1>6, <1>7, <1>8 DEF Holds

\* What a request of aliasedIndices finds is where the name is, and what it
\* puts in the cache where the name was.
LEMMA ListingStays ==
  ASSUME CInv, NEW h \in Indices, Holds(h), ListAliases \/ \E p \in listing : Record(p)
  PROVE  Holds(h)'
<1>1. TypeOK /\ Held(h) /\ 0 \in Indices
  BY IndicesAreNat DEF CInv, TInv, Holds
<1>2. UNCHANGED <<exists, docs, alias, overtaken, safe, pc, req, src, new, name, seen, task>>
  BY DEF ListAliases, Record, cluster, local, copy
<1>3. Swap(h)'
  <2>1. CASE ListAliases
    <3>1. \A p \in listing' : p.alias = 0 => p.index = h
      BY <1>1, <2>1 DEF ListAliases, Held
    <3>2. toIndex' = toIndex
      BY <2>1 DEF ListAliases
    <3> QED
      BY <1>2, <3>1, <3>2 DEF Holds, Swap, InSwap
  <2>2. ASSUME NEW p \in listing, Record(p) PROVE Swap(h)'
    <3>1. p.alias \in Indices /\ listing' \subseteq listing
      BY <1>1, <2>2 DEF TypeOK, Pairs, Record
    <3>2. toIndex'[0] = toIndex[0] \/ (p.alias = 0 /\ toIndex'[0] = p.index)
      BY <1>1, <2>2, <3>1 DEF TypeOK, Record
    <3> QED
      BY <1>2, <3>1, <3>2 DEF Holds, Swap, InSwap
  <2> QED
    BY <2>1, <2>2
<1>4. Held(h)' /\ Alone(h)'
  BY <1>2 DEF Holds, Held, Alone, Occupies
<1>5. ASSUME NEW k \in Jobs PROVE Behind(k, h)' /\ Ahead(k, h)' /\ Replaces(k, h)'
  BY <1>2 DEF Holds, Behind, InSwap, Ahead, Occupies, Replaces, InPlace
<1> QED
  BY <1>3, <1>4, <1>5 DEF Holds

LEMMA AddAliasStays ==
  ASSUME CInv, NEW h \in Indices, Holds(h), NEW a \in Indices, NEW i \in Indices, AddAlias(a, i)
  PROVE  Holds(h)' /\ alias'[0] = alias[0]
<1>1. TypeOK /\ Held(h) /\ Aliased \subseteq {0} /\ 0 \in Indices
  BY IndicesAreNat DEF CInv, TInv, Holds, Undisturbed
<1>2. UNCHANGED <<exists, docs, toIndex, listing, overtaken, safe, pc, req, src, new, name, seen, task>>
  BY DEF AddAlias, caches, local, copy
<1>3. i = 0 /\ h = 0 /\ a # 0 /\ alias' = [alias EXCEPT ![a] = @ \cup {0}]
  BY <1>1 DEF AddAlias, Held
<1>4. alias'[0] = alias[0] /\ \A b \in Indices : alias'[b] \subseteq alias[b] \cup {0}
  BY <1>1, <1>3 DEF TypeOK
<1>5. Held(h)'
  BY <1>1, <1>2, <1>3, <1>4 DEF Held
<1>6. Swap(h)' /\ Alone(h)'
  BY <1>2, <1>4 DEF Holds, Swap, InSwap, Alone, Occupies
<1>7. ASSUME NEW k \in Jobs PROVE Behind(k, h)' /\ Ahead(k, h)' /\ Replaces(k, h)'
  BY <1>2, <1>4 DEF Holds, Behind, InSwap, Ahead, Occupies, Replaces, InPlace
<1> QED
  BY <1>4, <1>5, <1>6, <1>7 DEF Holds

LEMMA RestartStays ==
  ASSUME CInv, NEW h \in Indices, Holds(h), Restart
  PROVE  Holds(h)'
<1>1. TypeOK /\ Held(h)
  BY DEF CInv, TInv, Holds
<1>2. UNCHANGED <<exists, docs, alias, safe, new, task>>
  BY DEF Restart, cluster, local, copy
<1>3. \A k \in Jobs : pc'[k] \in Ended \cup {"idle"} /\ (pc'[k] \in Filling => FALSE)
  BY DEF Restart, Ended, Filling
<1>4. Held(h)'
  BY <1>1, <1>2 DEF Held
<1>5. \E k \in Jobs : pc'[k] = "lost"
  BY DEF Restart
<1>6. alias[0] = {} => toIndex'[0] = None
  BY IndicesAreNat DEF Restart
<1>7. alias[0] # {} => toIndex'[0] \in alias[0]
  BY IndicesAreNat DEF Restart
<1>8. Swap(h)'
  <2>1. listing' = {}
    BY DEF Restart
  <2> QED
    BY <1>1, <1>2, <1>5, <1>6, <1>7, <2>1 DEF Swap, InSwap, Held
<1>9. Alone(h)'
  BY <1>2, <1>3 DEF Holds, Alone, Occupies
<1>10. ASSUME NEW k \in Jobs PROVE Behind(k, h)' /\ Ahead(k, h)' /\ Replaces(k, h)'
  <2>1. pc'[k] \in Unresolved \cup {"failed", "lost", "done"}
    BY DEF Restart, Unresolved, Ended
  <2> QED
    BY <1>2, <1>3, <2>1 DEF Holds, Behind, Ahead, Replaces, Occupies, Replacing, Unresolved
<1> QED
  BY <1>4, <1>8, <1>9, <1>10 DEF Holds

LEMMA NextHeld == IInv /\ [Next]_vars => IInv'
<1> SUFFICES ASSUME IInv, [Next]_vars PROVE IInv'
  OBVIOUS
<1>1. CInv /\ CInv'
  BY NextTrusted DEF IInv
<1>2. PICK h \in Indices : Holds(h)
  BY DEF IInv
<1> SUFFICES \E g \in Indices : Holds(g)'
  BY <1>1 DEF IInv
<1>3. ASSUME NEW j \in Jobs, NEW q \in Menu, Submit(j, q) PROVE Holds(h)'
  BY <1>1, <1>2, <1>3, ControlSteps
<1>4. ASSUME NEW j \in Jobs, Handle(j) PROVE \E g \in Indices : Holds(g)'
  BY <1>1, <1>2, <1>4, ControlSteps, CreateStays, DeleteSourceKeeps, SetAliasStays, DiscardStays DEF Handle
<1>5. ASSUME NEW j \in Jobs, EndCopy(j) \/ Tick(j) \/ Unanswered(j) PROVE Holds(h)'
  BY <1>1, <1>2, <1>5, ControlSteps, EndCopyStays
<1>6. ASSUME NEW d \in Docs, Put(d) PROVE Holds(h)'
  BY <1>1, <1>2, <1>6, PutStays
<1>7. CASE Restart
  BY <1>1, <1>2, <1>7, RestartStays
<1>8. CASE UNCHANGED vars
  BY <1>2, <1>8 DEF vars, Holds, Held, Swap, InSwap, Alone, Occupies, Behind, Ahead, Replaces, InPlace
<1>9. ASSUME NEW c \in stray, StrayWrites(c) PROVE Holds(h)'
  BY <1>1, <1>2, <1>9, StrayStays
<1>10. CASE ListAliases \/ \E p \in listing : Record(p)
  BY <1>1, <1>2, <1>10, ListingStays
<1>11. ASSUME NEW a \in Indices, NEW i \in Indices, AddAlias(a, i) PROVE Holds(h)'
  BY <1>1, <1>2, <1>11, AddAliasStays
<1> QED
  BY <1>2, <1>3, <1>4, <1>5, <1>6, <1>7, <1>8, <1>9, <1>10, <1>11 DEF Next

-----------------------------------------------------------------------------
(* What follows.                                                           *)

\* Whatever jobs overlap, fail or are cut off by a restart, and whatever is
\* written meanwhile, a document written while no job ran is in some index.
THEOREM NothingIsLost == Undisturbed /\ Spec => []SafeKept
<1>1. IInv => SafeKept
  BY DEF IInv, Holds, Held, SafeKept
<1> QED
  BY <1>1, InitHeld, NextHeld, PTL DEF Spec

\* However many jobs move the name at the same time, it is an alias of one
\* index, and that index has no other.
THEOREM OneIndexPerName == Undisturbed /\ Spec => []SingleAlias
<1>1. IInv => SingleAlias
  <2> SUFFICES ASSUME IInv PROVE SingleAlias
    OBVIOUS
  <2>1. PICK h \in Indices : Held(h)
    BY DEF IInv, Holds
  <2>2. IsFiniteSet({h}) /\ Cardinality({h}) = 1 /\ IsFiniteSet({0}) /\ Cardinality({0}) = 1
    BY FS_Singleton
  <2>3. Cardinality(alias[0]) <= 1
    BY <2>1, <2>2, FS_Subset DEF Held
  <2>4. ASSUME NEW i \in alias[0] PROVE Cardinality({a \in Indices : i \in alias[a]}) <= 1
    <3>1. i = h /\ h \in Nat
      BY <2>1, IndicesAreNat DEF Held
    <3>2. ASSUME NEW a \in Indices, i \in alias[a] PROVE a = 0
      <4>1. i < h \/ a = 0
        BY <2>1, <3>2 DEF Held
      <4> QED
        BY <3>1, <4>1
    <3>3. {a \in Indices : i \in alias[a]} \subseteq {0}
      BY <3>2
    <3> QED
      BY <2>2, <3>3, FS_Subset
  <2> QED
    BY <2>3, <2>4 DEF SingleAlias
<1> QED
  BY <1>1, InitHeld, NextHeld, PTL DEF Spec

\* Without calls that go unanswered nothing is left behind.
LEMMA NothingStray == Undisturbed /\ ~ Fault("unanswered") /\ Spec => [](stray = {})
<1>1. Init => stray = {}
  BY DEF Init
<1>2. stray = {} /\ ~ Fault("unanswered") /\ [Next]_vars => (stray = {})'
  <2> SUFFICES ASSUME stray = {}, ~ Fault("unanswered"), [Next]_vars PROVE stray' = {}
    OBVIOUS
  <2>1. ASSUME NEW j \in Jobs, Handle(j) PROVE stray' = {}
    BY <2>1 DEF Handle, Resolve, Describe, Create, Extras, StartCopy, Copied, SetCurrentProcess,
        TakeTick, Poll, PollFails, SendDone, TakeDone, Aliases, DeleteSource, SetAlias, PutReplicas,
        Discard, copy
  <2> QED
    BY <2>1 DEF Next, Submit, EndCopy, Tick, Unanswered, Put, AddAlias, ListAliases, Record, Restart, vars, copy
<1>3. ~ Fault("unanswered") => (~ Fault("unanswered"))'
  BY DEF Fault
<1> QED
  BY <1>1, <1>2, <1>3, PTL DEF Spec

\* The index that is to take the place of the one the name reaches is filled by
\* one job's copy only, for any number of jobs, none of which need know the
\* others; and if every call that starts a copy is answered, nothing that a job
\* has given up fills it either.
THEOREM OneCopyInPlace ==
    /\ Undisturbed /\ Spec => []OneCopyPerIndex
    /\ Undisturbed /\ ~ Fault("unanswered") /\ Spec => []OneTaskPerIndex
<1>1. IInv => OneCopyPerIndex
  <2> SUFFICES ASSUME IInv, NEW j \in Jobs, NEW k \in Jobs, j # k, task[j] = "running",
                      task[k] = "running", InPlace(j), src[j] \in Reached(0)
               PROVE  new[j] # new[k]
    BY DEF OneCopyPerIndex, InPlace
  <2>1. PICK h \in Indices : Holds(h)
    BY DEF IInv
  <2>2. src[j] = h
    BY <2>1, ReachedIsHolder DEF IInv, CInv, TInv, Holds
  <2>3. new[j] = src[j] + 1
    BY DEF IInv, CInv, TInv, Known
  <2>4. new[j] >= h
    BY <2>2, <2>3, IndicesAreNat
  <2> QED
    BY <2>1, <2>4 DEF Holds, Alone, Occupies
<1>2. OneCopyPerIndex /\ stray = {} => OneTaskPerIndex
  BY DEF OneTaskPerIndex
<1>3. Undisturbed /\ Spec => []OneCopyPerIndex
  BY <1>1, InitHeld, NextHeld, PTL DEF Spec
<1> QED
  BY <1>2, <1>3, NothingStray, PTL

\* With no job under way and none cut off, the name reaches exactly one index,
\* which has every document written at rest, and the alias cache agrees.
THEOREM RestIsComplete == Undisturbed /\ Spec => []AtRestResolves
<1>1. IInv => AtRestResolves
  <2> SUFFICES ASSUME IInv, Resting, \A j \in Jobs : pc[j] # "lost"
               PROVE  \E i \in exists : /\ Reached(0) = {i}
                                        /\ safe \subseteq docs[i]
                                        /\ ~ overtaken /\ toIndex[0] # None => toIndex[0] = i
    BY DEF AtRestResolves
  <2>1. PICK h \in Indices : Holds(h)
    BY DEF IInv
  <2>2. ~ InSwap(h)
    BY <2>1 DEF Resting, Ended, Holds, Swap
  <2>3. Held(h) /\ TypeOK
    BY <2>1 DEF IInv, CInv, TInv, Holds
  <2>4. Reached(0) # {}
    BY <2>2, <2>3 DEF InSwap, Held, Reached
  <2>5. Reached(0) = {h}
    BY <2>3, <2>4, ReachedIsHolder
  <2> QED
    BY <2>1, <2>2, <2>3, <2>5 DEF Held, Holds, Swap
<1> QED
  BY <1>1, InitHeld, NextHeld, PTL DEF Spec

-----------------------------------------------------------------------------
(* What jobs promise together.                                             *)

\* Either the name reaches the holder, or a job is about to put it there, from
\* the index before it, or that job was cut off.
Shown(h) ==
    /\ h \in Nat /\ None \notin Indices
    /\ 0 \in exists <=> h = 0
    /\ \/ /\ Reached(0) = {h} /\ ~ InSwap(h)
          /\ At = h /\ At # None /\ Found = docs[h] /\ safe \subseteq docs[h]
          /\ Movers = {} /\ Leaving = None
       \/ /\ Reached(0) = {} /\ InSwap(h)
          /\ At = None /\ Found = {}
          /\ \/ Movers = {} /\ Leaving = None
             \/ \E j \in Jobs : /\ Movers = {j} /\ Leaving = src[j] /\ src[j] # None
                                /\ h = src[j] + 1

HolderShown == \A h \in Indices : CInv /\ Holds(h) => Shown(h)

LEMMA Place == HolderShown
<1> SUFFICES ASSUME NEW h \in Indices, CInv, Holds(h) PROVE Shown(h)
  BY DEF HolderShown
<1> USE DEF Shown
<1>1. TypeOK /\ Held(h) /\ Swap(h)
  BY DEF CInv, TInv, Holds
<1>2. h \in Nat /\ None \notin Indices
  BY IndicesAreNat
<1>3. ASSUME NEW j \in Movers
      PROVE  InSwap(h) /\ new[j] = h /\ Occupies(j) /\ src[j] \in Indices /\ h = src[j] + 1
  <2>1. j \in Jobs /\ pc[j] = "alias" /\ name[j] = 0
    BY <1>3 DEF Movers
  <2>2. new[j] = h /\ alias[0] = {} /\ new[j] # 0
    BY <2>1 DEF CInv, Trusted, Filling, Holds, Replaces
  <2>3. InPlace(j) /\ src[j] \in Indices /\ (InPlace(j) => new[j] = src[j] + 1)
    BY <2>1 DEF CInv, TInv, Known, Filling, Unresolved
  <2> QED
    BY <2>1, <2>2, <2>3 DEF InSwap, Occupies, Filling
<1>4. CASE Reached(0) # {}
  <2>1. Reached(0) = {h} /\ ~ InSwap(h)
    BY <1>1, <1>4, ReachedIsHolder
  <2>2. Movers = {}
    BY <1>3, <2>1
  <2>3. At = h /\ Found = docs[h]
    BY <2>1 DEF At, Found
  <2> QED
    BY <1>1, <1>2, <2>1, <2>2, <2>3 DEF Held, Leaving
<1>5. CASE Reached(0) = {}
  <2>1. InSwap(h)
    BY <1>1, <1>5 DEF Reached, InSwap, Held
  <2>2. At = None /\ Found = {}
    BY <1>5 DEF At, Found
  <2>3. CASE Movers = {}
    BY <1>1, <1>2, <1>5, <2>1, <2>2, <2>3 DEF Leaving, Held
  <2>4. CASE Movers # {}
    <3>1. PICK j \in Movers : j = CHOOSE k \in Movers : TRUE
      BY <2>4
    <3>2. j \in Jobs /\ Leaving = src[j]
      BY <2>4, <3>1 DEF Leaving, Movers
    <3>3. ASSUME NEW k \in Movers PROVE k = j
      <4>1. k \in Jobs /\ new[k] = h /\ Occupies(k) /\ new[j] = h /\ Occupies(j)
        BY <1>3, <3>3 DEF Movers
      <4>2. new[k] >= h
        BY <1>2, <4>1
      <4> QED
        BY <3>2, <4>1, <4>2 DEF Holds, Alone
    <3>4. Movers = {j}
      BY <3>3
    <3>5. src[j] \in Indices /\ h = src[j] + 1
      BY <1>3
    <3> QED
      BY <1>1, <1>2, <1>5, <2>1, <2>2, <3>2, <3>4, <3>5 DEF Held
  <2> QED
    BY <2>3, <2>4
<1> QED
  BY <1>4, <1>5

LEMMA PlaceNext == HolderShown'
  BY Place, PTL

\* A step that leaves the name and the movers alone, and at most adds documents
\* to the holder.
LEMMA NameStays ==
  ASSUME CInv, CInv', NEW h \in Indices, Holds(h), NEW g \in Indices, Holds(g)',
         alias'[0] = alias[0], 0 \in exists' <=> 0 \in exists, docs[h] \subseteq docs'[h],
         safe \subseteq safe', Reached(0) = {} => safe' = safe,
         Movers' = Movers, \A k \in Movers : src'[k] = src[k]
  PROVE  Series!Write \/ UNCHANGED Series!vars
<1>1. Reached(0)' = Reached(0)
  BY DEF Reached
<1> Shown(h) /\ Shown(g)'
  BY Place, PlaceNext DEF HolderShown
<1>2. CASE Reached(0) = {}
  <2>1. At = None /\ At' = None /\ Found = {} /\ Found' = {} /\ safe' = safe
    BY <1>1, <1>2 DEF Shown
  <2>2. Leaving' = Leaving
    <3>1. CASE Movers = {}
      BY <3>1 DEF Leaving
    <3>2. CASE Movers # {}
      BY <3>2 DEF Leaving
    <3> QED
      BY <3>1, <3>2
  <2> QED
    BY <2>1, <2>2 DEF Series!vars
<1>3. CASE Reached(0) # {}
  <2>1. g = h
    BY <1>1, <1>3 DEF Shown
  <2>2. /\ At = h /\ At # None /\ Found = docs[h] /\ Leaving = None
        /\ At' = h /\ Found' = docs'[h] /\ Leaving' = None /\ safe' \subseteq docs'[h]
    BY <1>1, <1>3, <2>1 DEF Shown
  <2> QED
    BY <2>2 DEF Series!Write
<1> QED
  BY <1>2, <1>3

\* A job that was no mover and is none after its step.
LEMMA MoversStay ==
  ASSUME TypeOK, NEW j \in Jobs, StepOf(j),
         pc[j] = "alias" => name[j] # 0, pc'[j] = "alias" => name'[j] # 0
  PROVE  Movers' = Movers /\ \A k \in Movers : src'[k] = src[k]
<1>1. j \notin Movers /\ j \notin Movers'
  BY DEF Movers
<1>2. \A k \in Jobs \ {j} : pc'[k] = pc[k] /\ name'[k] = name[k] /\ src'[k] = src[k]
  BY DEF StepOf, Others
<1>3. \A k \in Jobs \ {j} : k \in Movers' <=> k \in Movers
  BY <1>2 DEF Movers
<1>4. Movers \subseteq Jobs /\ Movers' \subseteq Jobs
  BY DEF Movers
<1> QED
  BY <1>1, <1>2, <1>3, <1>4

LEMMA JobKeepsName ==
  ASSUME CInv, CInv', NEW h \in Indices, Holds(h), Holds(h)', NEW j \in Jobs, StepOf(j),
         alias'[0] = alias[0], docs[h] \subseteq docs'[h], safe' = safe,
         pc[j] = "alias" => name[j] # 0, pc'[j] = "alias" => name'[j] # 0
  PROVE  Series!Write \/ UNCHANGED Series!vars
<1>1. TypeOK
  BY DEF CInv, TInv
<1>2. Movers' = Movers /\ \A k \in Movers : src'[k] = src[k]
  BY <1>1, MoversStay
<1>3. 0 \in exists' <=> 0 \in exists
  BY Place, PlaceNext DEF HolderShown, Shown
<1> QED
  BY <1>2, <1>3, NameStays

LEMMA ControlPromised ==
  ASSUME CInv, CInv', NEW h \in Indices, Holds(h), Holds(h)', NEW j \in Jobs,
         \/ \E q \in Menu : Submit(j, q)
         \/ Resolve(j) \/ Describe(j) \/ Extras(j) \/ StartCopy(j) \/ Copied(j)
         \/ SetCurrentProcess(j) \/ Tick(j) \/ TakeTick(j) \/ Poll(j) \/ PollFails(j)
         \/ SendDone(j) \/ TakeDone(j) \/ Aliases(j) \/ PutReplicas(j) \/ Unanswered(j)
  PROVE  Series!Write \/ UNCHANGED Series!vars
<1>1. StepOf(j)
  BY JobSteps DEF CInv, Handle
<1>2. TypeOK
  BY DEF CInv, TInv
<1> SUFFICES UNCHANGED <<docs, alias, safe>> /\ pc[j] # "alias" /\ pc'[j] # "alias"
  BY <1>1, JobKeepsName
<1> USE <1>2 DEF TypeOK, Goto, cluster, AfterPostError
<1>3. CASE \E q \in Menu : Submit(j, q)
  BY <1>3 DEF Submit
<1>4. CASE Resolve(j) \/ Describe(j)
  BY <1>4 DEF Resolve, Describe
<1>5. CASE Extras(j) \/ StartCopy(j) \/ Copied(j)
  BY <1>5 DEF Extras, StartCopy, Copied
<1>6. CASE SetCurrentProcess(j) \/ Tick(j) \/ TakeTick(j)
  BY <1>6 DEF SetCurrentProcess, Tick, TakeTick
<1>7. CASE Poll(j) \/ PollFails(j)
  BY <1>7 DEF Poll, PollFails
<1>8. CASE SendDone(j) \/ TakeDone(j)
  BY <1>8 DEF SendDone, TakeDone
<1>9. CASE Aliases(j)
  BY <1>9 DEF Aliases
<1>10. CASE PutReplicas(j)
  BY <1>10 DEF PutReplicas
<1>11. CASE Unanswered(j)
  BY <1>11 DEF Unanswered
<1> QED
  BY <1>3, <1>4, <1>5, <1>6, <1>7, <1>8, <1>9, <1>10, <1>11

\* Indices are made, filled and discarded beside the one the name reaches.
LEMMA IndexPromised ==
  ASSUME CInv, CInv', NEW h \in Indices, Holds(h), Holds(h)', NEW j \in Jobs,
         Create(j) \/ EndCopy(j) \/ Discard(j)
  PROVE  Series!Write \/ UNCHANGED Series!vars
<1>1. StepOf(j)
  BY JobSteps DEF CInv, Handle
<1>2. TypeOK /\ Held(h) /\ Held(h)' /\ Known(j) /\ Ahead(j, h) /\ 0 \in Indices
  BY IndicesAreNat DEF CInv, TInv, Holds
<1> SUFFICES /\ alias'[0] = alias[0] /\ docs[h] \subseteq docs'[h] /\ safe' = safe
             /\ pc[j] = "alias" => pc'[j] = "alias" /\ name[j] # 0 /\ name'[j] # 0
             /\ pc'[j] = "alias" => pc[j] = "alias"
  BY <1>1, JobKeepsName
<1>3. CASE Create(j)
  <2>1. pc[j] = "create" /\ pc'[j] # "alias" /\ safe' = safe
    BY <1>2, <1>3 DEF Create, Goto, TypeOK
  <2>2. CASE UNCHANGED cluster
    BY <2>1, <2>2 DEF cluster
  <2>3. CASE CanCreate(new[j]) /\ CreateIndex(new[j])
    BY <1>2, <2>1, <2>3 DEF CanCreate, CreateIndex, Held, TypeOK
  <2> QED
    BY <1>3, <2>2, <2>3 DEF Create
<1>4. CASE EndCopy(j)
  <2>1. new[j] \in Indices /\ pc'[j] = pc[j] /\ safe' = safe /\ pc[j] # "alias"
    BY <1>2, <1>4 DEF EndCopy, Known
  <2>2. PICK ds \in SUBSET Docs : AddDocs(new[j], ds)
    BY <1>2, <1>4 DEF EndCopy, TypeOK
  <2>3. alias' = alias /\ docs[h] \subseteq docs'[h]
    BY <1>2, <2>1, <2>2, WritesAdd
  <2> QED
    BY <2>1, <2>3
<1>5. CASE Discard(j)
  <2>1. pc[j] = "discard" /\ pc'[j] # "alias" /\ safe' = safe /\ new[j] # h
    BY <1>2, <1>5 DEF Discard, Goto, TypeOK, Ahead, Filling
  <2>2. CASE UNCHANGED cluster
    BY <2>1, <2>2 DEF cluster
  <2>3. CASE DeleteIndex(new[j])
    <3>1. alias'[0] = alias[0] \ {new[j]} /\ docs'[h] = docs[h] /\ alias[0] \subseteq {h}
      BY <1>2, <2>1, <2>3 DEF DeleteIndex, Held, TypeOK
    <3> QED
      BY <2>1, <3>1
  <2> QED
    BY <1>5, <2>2, <2>3 DEF Discard
<1> QED
  BY <1>3, <1>4, <1>5

\* The name leaves the holder, if that is what the job deletes.
LEMMA DeletePromised ==
  ASSUME CInv, CInv', NEW h \in Indices, Holds(h), NEW j \in Jobs, DeleteSource(j)
  PROVE  Series!Write \/ Series!Leave \/ UNCHANGED Series!vars
<1>1. StepOf(j)
  BY JobSteps DEF CInv, Handle
<1>2. /\ TypeOK /\ Held(h) /\ Known(j) /\ Behind(j, h) /\ Replaces(j, h) /\ 0 \in Indices
      /\ h \in Nat /\ None \notin Indices /\ Undisturbed
  BY IndicesAreNat DEF CInv, TInv, Holds
<1>3. /\ pc[j] = "delete" /\ src[j] \in Indices /\ (name[j] = 0 <=> src[j] = h \/ src[j] = 0)
      /\ UNCHANGED <<safe, src, name>>
  BY <1>2 DEF DeleteSource, Known, Unresolved, Replaces, local
<1>4. PICK g \in Indices : Holds(g)'
  BY DeleteSourceKeeps
<1>5. Shown(h) /\ Shown(g)'
  BY <1>4, Place, PlaceNext DEF HolderShown
<1>6. ASSUME alias'[0] = alias[0], 0 \in exists' <=> 0 \in exists, docs'[h] = docs[h],
             pc'[j] = "alias" => name[j] # 0
      PROVE  Series!Write \/ UNCHANGED Series!vars
  <2>1. Movers' = Movers /\ \A k \in Movers : src'[k] = src[k]
    BY <1>1, <1>2, <1>3, <1>6, MoversStay
  <2> QED
    BY <1>3, <1>4, <1>6, <2>1, NameStays
<1>7. CASE UNCHANGED cluster /\ pc'[j] # "alias"
  BY <1>6, <1>7 DEF cluster
<1>8. CASE DeleteIndex(src[j]) /\ src[j] \in exists /\ pc'[j] = "alias"
  <2>1. /\ exists' = exists \ {src[j]} /\ alias'[0] = alias[0] \ {src[j]}
        /\ \A i \in Indices \ {src[j]} : docs'[i] = docs[i]
    BY <1>2, <1>8 DEF DeleteIndex, TypeOK
  <2>2. CASE src[j] # h
    <3>1. src[j] # 0 /\ alias'[0] = alias[0]
      BY <1>2, <1>8, <2>1, <2>2 DEF Held
    <3> QED
      BY <1>3, <1>6, <2>1, <2>2, <3>1
  <2>3. CASE src[j] = h
    <3>1. Reached(0) = {h} /\ At = h /\ At # None
      BY <1>2, <1>3, <1>5, <2>3 DEF Behind, Unresolved, Shown
    <3>2. Reached(0)' = {}
      BY <1>2, <2>1, <2>3 DEF Reached, Held
    <3>3. j \in Movers'
      BY <1>3, <1>8, <2>3 DEF Movers
    <3>4. At' = None /\ Found' = {} /\ Leaving' = src'[j]
      BY <1>5, <3>2, <3>3 DEF Shown
    <3> QED
      BY <1>3, <2>3, <3>1, <3>4 DEF Series!Leave
  <2> QED
    BY <2>2, <2>3
<1> QED
  BY <1>2, <1>7, <1>8 DEF DeleteSource, AfterPostError, Goto, TypeOK, Undisturbed

\* The mover puts the name on the holder.
LEMMA AliasPromised ==
  ASSUME CInv, CInv', NEW h \in Indices, Holds(h), Holds(h)', NEW j \in Jobs, SetAlias(j)
  PROVE  Series!Write \/ Series!Arrive \/ UNCHANGED Series!vars
<1>1. StepOf(j)
  BY JobSteps DEF CInv, Handle
<1>2. TypeOK /\ Held(h) /\ Known(j) /\ Replaces(j, h) /\ Undisturbed /\ 0 \in Indices
  BY IndicesAreNat DEF CInv, TInv, Holds
<1>3. Shown(h) /\ Shown(h)'
  BY Place, PlaceNext DEF HolderShown
<1>4. /\ pc[j] = "alias" /\ pc'[j] # "alias" /\ name[j] \in Indices
      /\ UNCHANGED <<exists, docs, safe>>
  BY <1>2 DEF SetAlias, Known, Goto, AfterPostError, TypeOK
<1>5. CASE name[j] # 0
  <2>1. alias'[0] = alias[0]
    BY <1>2, <1>4, <1>5 DEF SetAlias, TypeOK
  <2> QED
    BY <1>1, <1>4, <1>5, <2>1, JobKeepsName
<1>6. CASE name[j] = 0
  <2>1. j \in Movers
    BY <1>4, <1>6 DEF Movers
  <2>2. Leaving = src[j] /\ Leaving # None /\ h = src[j] + 1
    BY <1>3, <2>1 DEF Shown
  <2>3. new[j] = h /\ alias[0] = {} /\ h # 0
    BY <1>2, <1>4, <1>6, <2>1, <1>3 DEF Replaces, Shown, InSwap
  <2>4. alias'[0] = {h}
    BY <1>2, <1>4, <1>6, <2>3 DEF SetAlias, TypeOK, Held, Undisturbed
  <2>5. At' = h /\ Leaving' = None /\ Found' = docs'[h] /\ safe' \subseteq docs'[h]
    BY <1>3, <2>4 DEF Shown, InSwap
  <2> QED
    BY <1>4, <2>2, <2>5 DEF Series!Arrive
<1> QED
  BY <1>5, <1>6

LEMMA PutPromised ==
  ASSUME CInv, CInv', NEW h \in Indices, Holds(h), Holds(h)', NEW d \in Docs, Put(d)
  PROVE  Series!Write \/ UNCHANGED Series!vars
<1>1. TypeOK /\ ~ AutoCreate /\ 0 \in Indices
  BY IndicesAreNat DEF CInv, TInv, Undisturbed
<1>2. AddDocs(0, {d}) /\ Reached(0) # {} /\ safe \subseteq safe'
  BY <1>1, FS_EmptySet DEF Put
<1>3. alias' = alias /\ docs[h] \subseteq docs'[h] /\ exists' = exists
  BY <1>1, <1>2, WritesAdd DEF AddDocs
<1>4. UNCHANGED <<pc, name, src>>
  BY DEF Put, local
<1>5. Movers' = Movers
  BY <1>4 DEF Movers
<1> QED
  BY <1>2, <1>3, <1>4, <1>5, NameStays

LEMMA StrayPromised ==
  ASSUME CInv, CInv', NEW h \in Indices, Holds(h), Holds(h)', NEW c \in stray, StrayWrites(c)
  PROVE  Series!Write \/ UNCHANGED Series!vars
<1>1. TypeOK /\ 0 \in Indices
  BY IndicesAreNat DEF CInv, TInv
<1>2. c.new \in Indices /\ c.docs \in SUBSET Docs
  BY <1>1 DEF TypeOK, Copies
<1>3. PICK ds \in SUBSET Docs : AddDocs(c.new, ds)
  BY <1>2 DEF StrayWrites
<1>4. alias' = alias /\ docs[h] \subseteq docs'[h]
  BY <1>1, <1>2, <1>3, WritesAdd
<1>5. 0 \in exists' <=> 0 \in exists
  BY Place, PlaceNext DEF HolderShown, Shown
<1>6. UNCHANGED <<pc, name, src, safe>>
  BY DEF StrayWrites, local
<1>7. Movers' = Movers
  BY <1>6 DEF Movers
<1> QED
  BY <1>4, <1>5, <1>6, <1>7, NameStays

LEMMA RestartPromised ==
  ASSUME CInv, CInv', NEW h \in Indices, Holds(h), Holds(h)', Restart
  PROVE  Series!Write \/ Series!Cut \/ UNCHANGED Series!vars
<1>1. UNCHANGED <<exists, docs, alias, safe>> /\ Movers' = {} /\ Leaving' = None
  BY DEF Restart, cluster, Movers, Leaving, Ended
<1>2. At' = At /\ Found' = Found
  BY <1>1 DEF At, Found, Reached
<1>3. CASE Leaving = None
  BY <1>1, <1>2, <1>3 DEF Series!vars
<1>4. CASE Leaving # None
  BY <1>1, <1>2, <1>4 DEF Series!Cut
<1> QED
  BY <1>3, <1>4

LEMMA NextPromised == IInv /\ [Next]_vars => [Series!Next]_(Series!vars)
<1> SUFFICES ASSUME IInv, [Next]_vars PROVE Series!Next \/ UNCHANGED Series!vars
  OBVIOUS
<1>1. CInv /\ CInv'
  BY NextTrusted DEF IInv
<1>2. PICK h \in Indices : Holds(h)
  BY DEF IInv
<1>3. ASSUME NEW j \in Jobs, NEW q \in Menu, Submit(j, q) PROVE Series!Next \/ UNCHANGED Series!vars
  BY <1>1, <1>2, <1>3, ControlSteps, ControlPromised DEF Series!Next
<1>4. ASSUME NEW j \in Jobs, Handle(j) PROVE Series!Next \/ UNCHANGED Series!vars
  <2>1. CASE Create(j) \/ Discard(j)
    BY <1>1, <1>2, <2>1, CreateStays, DiscardStays, IndexPromised DEF Series!Next
  <2>2. CASE DeleteSource(j)
    BY <1>1, <1>2, <2>2, DeletePromised DEF Series!Next
  <2>3. CASE SetAlias(j)
    BY <1>1, <1>2, <2>3, SetAliasStays, AliasPromised DEF Series!Next
  <2>4. CASE \/ Resolve(j) \/ Describe(j) \/ Extras(j) \/ StartCopy(j) \/ Copied(j)
             \/ SetCurrentProcess(j) \/ TakeTick(j) \/ Poll(j) \/ PollFails(j)
             \/ SendDone(j) \/ TakeDone(j) \/ Aliases(j) \/ PutReplicas(j)
    BY <1>1, <1>2, <2>4, ControlSteps, ControlPromised DEF Series!Next
  <2> QED
    BY <1>4, <2>1, <2>2, <2>3, <2>4 DEF Handle
<1>5. ASSUME NEW j \in Jobs, EndCopy(j) \/ Tick(j) \/ Unanswered(j) PROVE Series!Next \/ UNCHANGED Series!vars
  <2>1. CASE EndCopy(j)
    BY <1>1, <1>2, <2>1, EndCopyStays, IndexPromised DEF Series!Next
  <2>2. CASE Tick(j) \/ Unanswered(j)
    BY <1>1, <1>2, <2>2, ControlSteps, ControlPromised DEF Series!Next
  <2> QED
    BY <1>5, <2>1, <2>2
<1>6. ASSUME NEW d \in Docs, Put(d) PROVE Series!Next \/ UNCHANGED Series!vars
  BY <1>1, <1>2, <1>6, PutStays, PutPromised DEF Series!Next
<1>7. CASE Restart
  BY <1>1, <1>2, <1>7, RestartStays, RestartPromised DEF Series!Next
<1>8. CASE ListAliases \/ (\E p \in listing : Record(p)) \/ UNCHANGED vars
  <2>1. UNCHANGED <<exists, docs, alias, pc, name, src, safe>>
    BY <1>8 DEF ListAliases, Record, vars, cluster, local
  <2> QED
    BY <2>1 DEF Series!vars, At, Found, Leaving, Movers, Reached
<1>9. ASSUME NEW c \in stray, StrayWrites(c) PROVE Series!Next \/ UNCHANGED Series!vars
  BY <1>1, <1>2, <1>9, StrayStays, StrayPromised DEF Series!Next
<1>10. ASSUME NEW a \in Indices, NEW i \in Indices, AddAlias(a, i)
       PROVE  UNCHANGED Series!vars
  <2>1. alias'[0] = alias[0]
    BY <1>1, <1>2, <1>10, AddAliasStays
  <2>2. UNCHANGED <<exists, docs, pc, name, src, safe>>
    BY <1>10 DEF AddAlias, local
  <2> QED
    BY <2>1, <2>2 DEF Series!vars, At, Found, Leaving, Movers, Reached
<1> QED
  BY <1>3, <1>4, <1>5, <1>6, <1>7, <1>8, <1>9, <1>10 DEF Next

LEMMA InitPromised == Undisturbed /\ Init => Series!Init
<1> SUFFICES ASSUME Init PROVE Series!Init
  OBVIOUS
<1>1. Reached(0) = {0} /\ Movers = {} /\ safe = Initially
  BY DEF Init, Reached, Movers
<1>2. docs[0] = Initially
  BY IndicesAreNat DEF Init
<1> QED
  BY <1>1, <1>2 DEF Series!Init, At, Found, Leaving

\* Overlapping, failing and interrupted jobs together move the name only along
\* the series, one index at a time, to an index that has every document that
\* must be kept: they implement SeriesPromise, however many they are.
THEOREM Implements == Undisturbed /\ Spec => KeepsPromise
<1>1. Undisturbed /\ Init => IInv /\ Series!Init
  BY InitHeld, InitPromised
<1>2. IInv /\ [Next]_vars => IInv' /\ [Series!Next]_(Series!vars)
  BY NextHeld, NextPromised
<1> QED
  BY <1>1, <1>2, PTL DEF Spec, KeepsPromise, Series!Spec

\* Not only at rest: whenever the name reaches an index, in the middle of any
\* jobs, a search by it finds every document written while none was running.
THEOREM AlwaysComplete == Undisturbed /\ Spec => []Series!NothingMissing
<1>1. IInv => Series!NothingMissing
  <2> SUFFICES ASSUME IInv PROVE Series!NothingMissing
    OBVIOUS
  <2>1. PICK h \in Indices : Holds(h)
    BY DEF IInv
  <2>2. Shown(h)
    BY <2>1, Place DEF IInv, HolderShown
  <2> QED
    BY <2>2 DEF Shown, Series!NothingMissing
<1> QED
  BY <1>1, InitHeld, NextHeld, PTL DEF Spec
=============================================================================
