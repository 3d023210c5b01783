------------------------------ MODULE ShareProofs ------------------------------
(* Theorems about ShareNext, for any number of updates, shares and flushes *)
(* at work.                                                                *)
EXTENDS ShareNext, TLAPS

Known == 0..local
Ids == 0..MaxShares

Syncs == [version : Known \ {None}, stage : {"sync", "fill"}, id : Ids, origin : Ids]
FlushStates == [stage : {"idle", "share", "fill", "post"}, version : Known, id : Ids]
RemovalStates == [stage : {"idle", "fill", "request", "deleted"}, id : Ids]

ShareTypeOK ==
  /\ local \in Versions /\ row \in Ids
  /\ shared \in {Unknown} \cup {{id} : id \in Ids} /\ stale \in BOOLEAN
  /\ queue \in Known /\ timers \in Nat
  /\ syncs \subseteq Syncs
  /\ flush \in [Flushes -> FlushStates]
  /\ \A f \in Flushes : flush[f].stage = "post" => flush[f].id \in Shares
  /\ creation \in [Shares -> {"new", "made", "stored", "full", "done"}]
  /\ removal \in RemovalStates
  /\ remote \in [Shares -> Known]

(* The cache may be behind the database only while a create or a remove    *)
(* has changed the row and not yet filled or dropped the cache.            *)
CacheTraced ==
  \/ shared \subseteq {row} \/ stale
  \/ \E s \in Shares : creation[s] = "stored"
  \/ removal.stage = "deleted"

ShareInv == ShareTypeOK /\ FlushComes /\ CacheTraced /\ NothingForgotten

(* What is in the cache is the one it was filled with. *)
LEMMA CacheEntry ==
  ASSUME shared \in {Unknown} \cup {{id} : id \in Ids}, Hit
  PROVE  CachedShare \in Ids /\ shared = {CachedShare}
<1>1. PICK id \in Ids : shared = {id}
  BY DEF Hit
<1>2. CachedShare \in shared
  BY <1>1 DEF CachedShare
<1> QED
  BY <1>1, <1>2

(* The numbers of the model. *)
LEMMA Numbers ==
  ASSUME ShareTypeOK
  PROVE  /\ local \in Nat /\ local # None /\ Known \subseteq Nat /\ None \in Known /\ local \in Known
         /\ None \in Ids /\ Shares \subseteq Ids /\ \A id \in Ids : id # None => id \in Shares
BY ShareAssumption DEF ShareTypeOK, Known, Ids, Versions, Shares, None

(* The share starts well typed. *)
LEMMA ShareInvInit == ShareInit => ShareInv
<1> SUFFICES ASSUME ShareInit PROVE ShareInv
  OBVIOUS
<1> USE DEF ShareInit
<1>1. ShareTypeOK
  <2>1. local \in Versions /\ row \in Ids /\ queue \in Known /\ timers \in Nat
    BY ShareAssumption DEF Versions, Ids, Known, None
  <2>2. 0 \in Known /\ 0 \in Ids
    BY ShareAssumption DEF Ids, Known
  <2>3. flush \in [Flushes -> FlushStates]
    BY <2>2 DEF Idle, None, FlushStates
  <2>4. \A f \in Flushes : flush[f].stage # "post"
    BY DEF Idle
  <2>5. removal \in RemovalStates
    BY <2>2 DEF None, RemovalStates
  <2>6. creation \in [Shares -> {"new", "made", "stored", "full", "done"}] /\ remote \in [Shares -> Known]
    BY <2>2 DEF None
  <2> QED
    BY <2>1, <2>3, <2>4, <2>5, <2>6 DEF ShareTypeOK
<1>2. FlushComes /\ CacheTraced /\ NothingForgotten
  BY DEF FlushComes, CacheTraced, NothingForgotten, Unknown
<1> QED
  BY <1>1, <1>2 DEF ShareInv

(* A call of sync, and what it queues, is of a version that there is. *)
LEMMA EnqueueType ==
  ASSUME ShareTypeOK, NEW version \in Known \ {None}, NEW id, Enqueue(version, id)
  PROVE  queue' \in Known /\ timers' \in Nat
BY DEF ShareTypeOK, Enqueue, queueVars, Newest

(* What a flush does once it knows the share. *)
LEMMA PostsType ==
  ASSUME ShareTypeOK, NEW f \in Flushes, NEW id \in Ids, Posts(f, id)
  PROVE  flush' \in [Flushes -> FlushStates] /\ \A g \in Flushes : flush'[g].stage = "post" => flush'[g].id \in Shares
<1>1. flush[f] \in FlushStates /\ None \in Known /\ None \in Ids
  BY Numbers DEF ShareTypeOK
<1>2. CASE id = None
  <2>1. flush' = [flush EXCEPT ![f] = Idle] /\ Idle \in FlushStates /\ Idle.stage = "idle"
    BY <1>1, <1>2 DEF Posts, Idle, FlushStates
  <2> QED
    BY <2>1 DEF ShareTypeOK
<1>3. CASE id # None
  <2>1. flush' = [flush EXCEPT ![f] = [flush[f] EXCEPT !.stage = "post", !.id = id]]
    BY <1>1, <1>3 DEF Posts, ShareTypeOK
  <2>2. [flush[f] EXCEPT !.stage = "post", !.id = id] \in FlushStates
    BY <1>1 DEF FlushStates
  <2>3. [flush[f] EXCEPT !.stage = "post", !.id = id].id \in Shares
    BY <1>1, <1>3, Numbers DEF FlushStates
  <2> QED
    BY <2>1, <2>2, <2>3 DEF ShareTypeOK
<1> QED
  BY <1>2, <1>3

(* Every step assigns values of the declared sets. *)
LEMMA ShareTypeNext == ASSUME ShareTypeOK, [ShareNext]_shareVars PROVE ShareTypeOK'
<1> USE DEF cacheVars, queueVars
<1>1. ASSUME UNCHANGED local, row' \in Ids, shared' \in {Unknown} \cup {{id} : id \in Ids}, stale' \in BOOLEAN,
             queue' \in Known, timers' \in Nat, syncs' \subseteq Syncs, flush' \in [Flushes -> FlushStates],
             \A f \in Flushes : flush'[f].stage = "post" => flush'[f].id \in Shares,
             creation' \in [Shares -> {"new", "made", "stored", "full", "done"}],
             removal' \in RemovalStates, remote' \in [Shares -> Known]
      PROVE  ShareTypeOK'
  BY <1>1 DEF ShareTypeOK, Known, Syncs, FlushStates
<1>2. /\ local \in Versions /\ row \in Ids /\ shared \in {Unknown} \cup {{id} : id \in Ids} /\ stale \in BOOLEAN
      /\ queue \in Known /\ timers \in Nat /\ syncs \subseteq Syncs /\ flush \in [Flushes -> FlushStates]
      /\ \A f \in Flushes : flush[f].stage = "post" => flush[f].id \in Shares
      /\ creation \in [Shares -> {"new", "made", "stored", "full", "done"}]
      /\ removal \in RemovalStates /\ remote \in [Shares -> Known]
  BY DEF ShareTypeOK
<1>3. CASE Update
  <2>1. local' \in Versions /\ Known \subseteq Known' /\ local + 1 \in Known' \ {None} /\ None \in Ids
    BY <1>2, <1>3, Numbers, ShareAssumption DEF Update, Versions, Known, None
  <2>2. [version |-> local + 1, stage |-> "sync", id |-> None, origin |-> None] \in Syncs'
    BY <2>1 DEF Syncs, Ids
  <2>3. Syncs \subseteq Syncs' /\ FlushStates \subseteq FlushStates'
    BY <2>1 DEF Syncs, FlushStates, Ids
  <2>4. flush' \in [Flushes -> FlushStates'] /\ remote' \in [Shares -> Known'] /\ queue' \in Known' /\ syncs' \subseteq Syncs'
    BY <1>2, <1>3, <2>1, <2>2, <2>3 DEF Update
  <2>5. UNCHANGED <<row, shared, stale, timers, flush, creation, removal>>
    BY <1>3 DEF Update
  <2> QED
    BY <1>2, <2>1, <2>4, <2>5 DEF ShareTypeOK, Ids, RemovalStates
<1>4. ASSUME NEW id \in Ids, Fill(id) PROVE shared' \in {Unknown} \cup {{i} : i \in Ids} /\ stale' \in BOOLEAN
  BY <1>4 DEF Fill
<1>5. ASSUME NEW c \in syncs, SyncCached(c) \/ SyncReads(c) \/ SyncFills(c) PROVE ShareTypeOK'
  <2>1. c.version \in Known \ {None} /\ c.id \in Ids
    BY <1>2 DEF Syncs
  <2>2. CASE SyncCached(c)
    <3>1. queue' \in Known /\ timers' \in Nat
      BY <2>1, <2>2, EnqueueType DEF SyncCached
    <3> QED
      BY <1>1, <1>2, <2>2, <3>1 DEF SyncCached
  <2>3. CASE SyncReads(c)
    <3>1. [c EXCEPT !.stage = "fill", !.id = row] \in Syncs
      BY <1>2 DEF Syncs
    <3> QED
      BY <1>1, <1>2, <2>3, <3>1 DEF SyncReads
  <2>4. CASE SyncFills(c)
    <3>1. queue' \in Known /\ timers' \in Nat
      BY <2>1, <2>4, EnqueueType DEF SyncFills
    <3> QED
      BY <1>1, <1>2, <1>4, <2>1, <2>4, <3>1 DEF SyncFills
  <2> QED
    BY <1>5, <2>2, <2>3, <2>4
<1>6. ASSUME NEW f \in Flushes, FlushStep(f) PROVE ShareTypeOK'
  <2>1. flush[f] \in FlushStates /\ flush[f].version \in Known /\ flush[f].id \in Ids /\ None \in Known /\ None \in Ids
    BY <1>2, Numbers DEF FlushStates
  <2>2. Idle \in FlushStates /\ Idle.stage = "idle"
    BY <2>1 DEF Idle, FlushStates
  <2>3. ASSUME flush' = [flush EXCEPT ![f] = Idle]
        PROVE  flush' \in [Flushes -> FlushStates] /\ \A g \in Flushes : flush'[g].stage = "post" => flush'[g].id \in Shares
    BY <1>2, <2>2, <2>3
  <2>4. CASE FlushTakes(f)
    <3>1. timers' \in Nat
      BY <1>2, <2>4 DEF FlushTakes
    <3> DEFINE begun == [stage |-> "share", version |-> queue, id |-> None]
    <3>2. begun \in FlushStates /\ begun.stage = "share"
      BY <1>2, <2>1 DEF FlushStates
    <3>3. flush' = flush \/ flush' = [flush EXCEPT ![f] = begun]
      BY <2>4 DEF FlushTakes
    <3> HIDE DEF begun
    <3>4. flush' \in [Flushes -> FlushStates] /\ \A g \in Flushes : flush'[g].stage = "post" => flush'[g].id \in Shares
      BY <1>2, <3>2, <3>3
    <3> QED
      BY <1>1, <1>2, <2>1, <2>4, <3>1, <3>4 DEF FlushTakes
  <2>5. CASE FlushCached(f)
    <3>1. CachedShare \in Ids
      BY <1>2, <2>5, CacheEntry DEF FlushCached
    <3>2. flush' \in [Flushes -> FlushStates] /\ \A g \in Flushes : flush'[g].stage = "post" => flush'[g].id \in Shares
      BY <2>5, <3>1, PostsType DEF FlushCached
    <3> QED
      BY <1>1, <1>2, <2>5, <3>2 DEF FlushCached
  <2>6. CASE FlushReads(f)
    <3> DEFINE filling == [flush[f] EXCEPT !.stage = "fill", !.id = row]
    <3>1. filling \in FlushStates /\ filling.stage = "fill"
      BY <1>2, <2>1 DEF FlushStates
    <3>2. flush' = [flush EXCEPT ![f] = filling]
      BY <1>2, <2>6 DEF FlushReads
    <3> HIDE DEF filling
    <3>3. flush' \in [Flushes -> FlushStates] /\ \A g \in Flushes : flush'[g].stage = "post" => flush'[g].id \in Shares
      BY <1>2, <3>1, <3>2
    <3> QED
      BY <1>1, <1>2, <2>6, <3>3 DEF FlushReads
  <2>7. CASE FlushFills(f)
    <3>1. flush' \in [Flushes -> FlushStates] /\ \A g \in Flushes : flush'[g].stage = "post" => flush'[g].id \in Shares
      BY <2>1, <2>7, PostsType DEF FlushFills
    <3> QED
      BY <1>1, <1>2, <1>4, <2>1, <2>7, <3>1 DEF FlushFills
  <2>8. CASE PostArrives(f) \/ PostFails(f)
    <3>1. remote' \in [Shares -> Known]
      BY <1>2, <2>1, <2>8 DEF PostArrives, PostFails
    <3> QED
      BY <1>1, <1>2, <2>3, <2>8, <3>1 DEF PostArrives, PostFails
  <2> QED
    BY <1>6, <2>4, <2>5, <2>6, <2>7, <2>8 DEF FlushStep
<1>7. ASSUME NEW s \in Shares, CreateStep(s) PROVE ShareTypeOK'
  <2>1. s \in Ids /\ None \in Ids /\ local \in Known \ {None}
    BY Numbers
  <2>2. CASE FullReads(s)
    <3>1. [version |-> local, stage |-> "sync", id |-> None, origin |-> s] \in Syncs
      BY <2>1 DEF Syncs
    <3> QED
      BY <1>1, <1>2, <2>2, <3>1 DEF FullReads
  <2>3. CASE CreateBegins(s) \/ CreateFails(s) \/ CreateStores(s) \/ CreateEnds(s) \/ FullFails(s)
    <3>1. creation' \in [Shares -> {"new", "made", "stored", "full", "done"}]
      BY <1>2, <2>3 DEF CreateBegins, CreateFails, CreateStores, CreateEnds, FullFails
    <3> QED
      BY <1>1, <1>2, <2>1, <2>3, <3>1 DEF CreateBegins, CreateFails, CreateStores, CreateEnds, FullFails
  <2> QED
    BY <1>7, <2>2, <2>3 DEF CreateStep
<1>8. ASSUME RemoveStep PROVE ShareTypeOK'
  <2>1. None \in Ids /\ None \in Known /\ removal.id \in Ids
    BY <1>2, Numbers DEF RemovalStates
  <2>2. ASSUME NEW from \in {"idle", "fill"}, NEW id \in Ids, Removes(from, id) PROVE queue' \in Known /\ removal' \in RemovalStates
    BY <1>2, <2>1, <2>2 DEF Removes, RemovalGoto, RemovalStates
  <2>3. CASE RemoveCached
    <3>1. CachedShare \in Ids
      BY <1>2, <2>3, CacheEntry DEF RemoveCached
    <3>2. queue' \in Known /\ removal' \in RemovalStates
      BY <2>2, <2>3, <3>1 DEF RemoveCached
    <3>3. shared' \in {Unknown} \cup {{i} : i \in Ids} /\ stale' \in BOOLEAN
      BY <1>2, <2>3 DEF RemoveCached
    <3> QED
      BY <1>1, <1>2, <2>3, <3>2, <3>3 DEF RemoveCached
  <2>4. CASE RemoveFills
    <3>1. queue' \in Known /\ removal' \in RemovalStates
      BY <2>1, <2>2, <2>4 DEF RemoveFills
    <3>2. shared' \in {Unknown} \cup {{i} : i \in Ids} /\ stale' \in BOOLEAN
      BY <1>4, <2>1, <2>4 DEF RemoveFills
    <3> QED
      BY <1>1, <1>2, <2>4, <3>1, <3>2 DEF RemoveFills
  <2>5. CASE RemoveReads \/ RemoveFails \/ RemoveDeletes \/ RemoveEnds
    <3>1. removal' \in RemovalStates
      BY <1>2, <2>1, <2>5 DEF RemoveReads, RemoveFails, RemoveDeletes, RemoveEnds, RemovalGoto, RemovalStates
    <3> QED
      BY <1>1, <1>2, <2>1, <2>5, <3>1 DEF RemoveReads, RemoveFails, RemoveDeletes, RemoveEnds
  <2> QED
    BY <1>8, <2>3, <2>4, <2>5 DEF RemoveStep
<1>9. CASE UNCHANGED shareVars
  BY <1>1, <1>2, <1>9 DEF shareVars
<1> QED
  BY <1>3, <1>5, <1>6, <1>7, <1>8, <1>9 DEF ShareNext, SyncStep

(* A new queue starts a flush, and an old one has it coming. *)
LEMMA FlushNext == ASSUME ShareTypeOK, FlushComes, [ShareNext]_shareVars PROVE FlushComes'
<1> USE DEF FlushComes, queueVars
<1>1. timers \in Nat /\ queue \in Nat
  BY Numbers DEF ShareTypeOK
<1>2. CASE UNCHANGED <<queue, timers>>
  BY <1>2
<1>3. CASE queue' = None
  BY <1>3
<1>4. ASSUME NEW version, NEW id, Enqueue(version, id) PROVE FlushComes'
  <2>1. UNCHANGED <<queue, timers>> \/ timers' = IF queue = None THEN timers + 1 ELSE timers
    BY <1>4 DEF Enqueue, StartsFlush
  <2> QED
    BY <1>1, <1>2, <2>1
<1>5. CASE SyncStep
  BY <1>2, <1>4, <1>5 DEF SyncStep, SyncCached, SyncReads, SyncFills
<1>6. ASSUME NEW f \in Flushes, FlushStep(f) PROVE FlushComes'
  BY <1>2, <1>3, <1>6 DEF FlushStep, FlushTakes, FlushCached, FlushReads, FlushFills, PostArrives, PostFails
<1>7. ASSUME RemoveStep PROVE FlushComes'
  BY <1>2, <1>3, <1>7 DEF RemoveStep, RemoveCached, RemoveReads, RemoveFills, Removes, RemoveFails, RemoveDeletes, RemoveEnds
<1>8. ASSUME NEW s \in Shares, CreateStep(s) PROVE FlushComes'
  BY <1>2, <1>8 DEF CreateStep, CreateBegins, CreateFails, CreateStores, CreateEnds, FullReads, FullFails
<1>9. CASE Update \/ UNCHANGED shareVars
  BY <1>2, <1>9 DEF Update, shareVars
<1> QED
  BY <1>5, <1>6, <1>7, <1>8, <1>9 DEF ShareNext

(* Whoever changes the row fills or drops the cache before it is done. *)
LEMMA CacheNext == ASSUME ShareTypeOK, CacheTraced, [ShareNext]_shareVars PROVE CacheTraced'
<1> USE DEF CacheTraced, cacheVars
<1>1. CASE UNCHANGED <<row, shared, stale, creation>> /\ removal'.stage = removal.stage
  BY <1>1
<1>2. ASSUME NEW id, Fill(id), UNCHANGED row PROVE CacheTraced'
  BY <1>2 DEF Fill
<1>3. CASE shared' = Unknown
  BY <1>3 DEF Unknown
<1>4. CASE SyncStep
  BY <1>1, <1>2, <1>4 DEF SyncStep, SyncCached, SyncReads, SyncFills
<1>5. ASSUME NEW f \in Flushes, FlushStep(f) PROVE CacheTraced'
  BY <1>1, <1>2, <1>5 DEF FlushStep, FlushTakes, FlushCached, FlushReads, FlushFills, PostArrives, PostFails
<1>6. ASSUME NEW s \in Shares, CreateStep(s) PROVE CacheTraced'
  <2>1. CASE CreateStores(s)
    BY <2>1 DEF CreateStores, ShareTypeOK
  <2>2. CASE CreateEnds(s)
    BY <2>2 DEF CreateEnds
  <2>3. CASE CreateBegins(s) \/ CreateFails(s) \/ FullReads(s) \/ FullFails(s)
    <3>1. \A r \in Shares : creation[r] = "stored" => creation'[r] = "stored"
      BY <2>3 DEF CreateBegins, CreateFails, FullReads, FullFails, ShareTypeOK
    <3>2. UNCHANGED <<row, shared, stale, removal>>
      BY <2>3 DEF CreateBegins, CreateFails, FullReads, FullFails
    <3> QED
      BY <3>1, <3>2
  <2> QED
    BY <1>6, <2>1, <2>2, <2>3 DEF CreateStep
<1>7. ASSUME RemoveStep PROVE CacheTraced'
  <2>1. CASE RemoveDeletes
    BY <2>1 DEF RemoveDeletes, RemovalGoto
  <2>2. CASE RemoveEnds
    BY <1>3, <2>2 DEF RemoveEnds
  <2>3. CASE RemoveReads \/ RemoveFails
    <3>1. removal.stage # "deleted" /\ UNCHANGED <<row, shared, stale, creation>>
      BY <2>3 DEF RemoveReads, RemoveFails, RemovalGoto
    <3> QED
      BY <3>1
  <2>4. CASE RemoveCached
    <3>1. removal.stage # "deleted" /\ UNCHANGED <<row, creation>> /\ (shared' = Unknown \/ UNCHANGED <<shared, stale>>)
      BY <2>4 DEF RemoveCached, Removes, RemovalGoto
    <3> QED
      BY <1>3, <3>1
  <2>5. CASE RemoveFills
    BY <1>2, <1>3, <2>5 DEF RemoveFills
  <2> QED
    BY <1>7, <2>1, <2>2, <2>3, <2>4, <2>5 DEF RemoveStep
<1>8. CASE Update \/ UNCHANGED shareVars
  BY <1>1, <1>8 DEF Update, shareVars
<1> QED
  BY <1>4, <1>5, <1>6, <1>7, <1>8 DEF ShareNext

(* The newest version stays at the server or on its way, or is given up. *)
LEMMA NewestNext == ASSUME ShareTypeOK, NothingForgotten, [ShareNext]_shareVars PROVE NothingForgotten'
<1> USE DEF cacheVars, queueVars
<1>1. local \in Nat /\ local # None /\ Known \subseteq Nat /\ queue \in Known /\ (row # None => row \in Shares)
  BY Numbers DEF ShareTypeOK
<1>2. ASSUME row' # None, local' \notin lost', UNCHANGED <<local, row>>, lost \subseteq lost'
      PROVE  row # None /\ local \notin lost /\ row \in Shares /\ (remote[row] = local \/ Carried(local, row))
  BY <1>1, <1>2 DEF NothingForgotten
<1>3. ASSUME NEW version \in Known, NEW id, Enqueue(version, id), UNCHANGED <<local, row>>
      PROVE  /\ lost \subseteq lost'
             /\ version = local \/ queue = local => queue' = local \/ row = None \/ local \in lost'
  <2>1. CASE id = None
    BY <1>3, <2>1 DEF Enqueue, GiveUp
  <2>2. CASE id # None
    <3>1. queue' = version /\ lost' = IF queue > version THEN lost \cup {queue} ELSE lost
      BY <1>3, <2>2 DEF Enqueue, Newest
    <3>2. version = local \/ local > version
      BY <1>1 DEF Known
    <3> QED
      BY <3>1, <3>2
  <2> QED
    BY <2>1, <2>2
<1>4. ASSUME NEW c \in syncs, SyncCached(c) \/ SyncReads(c) \/ SyncFills(c) PROVE NothingForgotten'
  <2>1. UNCHANGED <<local, row, flush, creation, remote>> /\ c.version \in Known
    BY <1>4 DEF SyncCached, SyncReads, SyncFills, ShareTypeOK, Syncs
  <2>2. CASE SyncReads(c)
    <3> DEFINE filling == [c EXCEPT !.stage = "fill", !.id = row]
    <3>1. filling.version = c.version
      BY DEF ShareTypeOK, Syncs
    <3>2. syncs' = (syncs \ {c}) \cup {filling} /\ UNCHANGED <<queue, lost>>
      BY <2>2 DEF SyncReads
    <3> HIDE DEF filling
    <3>3. (\E d \in syncs : d.version = local) => \E d \in syncs' : d.version = local
      BY <3>1, <3>2
    <3> QED
      BY <2>1, <3>2, <3>3 DEF NothingForgotten, Carried
  <2>3. ASSUME NEW id, Enqueue(c.version, id), syncs' = syncs \ {c} PROVE NothingForgotten'
    <3>1. lost \subseteq lost' /\ (c.version = local \/ queue = local => queue' = local \/ row = None \/ local \in lost')
      BY <1>3, <2>1, <2>3
    <3>2. (\E d \in syncs : d.version = local) => c.version = local \/ \E d \in syncs' : d.version = local
      BY <2>3
    <3> QED
      BY <1>2, <2>1, <3>1, <3>2 DEF NothingForgotten, Carried
  <2> QED
    BY <1>4, <2>2, <2>3 DEF SyncCached, SyncFills
<1>5. ASSUME NEW f \in Flushes, FlushStep(f) PROVE NothingForgotten'
  <2>1. UNCHANGED <<local, row, syncs, creation>> /\ flush[f] \in FlushStates /\ lost \subseteq lost'
    BY <1>5 DEF FlushStep, FlushTakes, FlushCached, FlushReads, FlushFills, Posts, GiveUp, PostArrives, PostFails, ShareTypeOK
  <2>2. ASSUME NEW state, flush' = [flush EXCEPT ![f] = state], UNCHANGED <<queue, remote>>,
               flush[f].version = local => state.version = local \/ row = None \/ local \in lost'
        PROVE  NothingForgotten'
    <3>1. (\E g \in Flushes : flush[g].version = local) =>
            row = None \/ local \in lost' \/ \E g \in Flushes : flush'[g].version = local
      BY <2>2 DEF ShareTypeOK
    <3> QED
      BY <1>2, <2>1, <2>2, <3>1 DEF NothingForgotten, Carried
  <2>3. ASSUME NEW id, Posts(f, id), UNCHANGED <<queue, remote>> PROVE NothingForgotten'
    <3>1. CASE id = None
      <4>1. flush' = [flush EXCEPT ![f] = Idle] /\ GiveUp(flush[f].version)
        BY <2>3, <3>1 DEF Posts
      <4> QED
        BY <2>2, <2>3, <4>1 DEF GiveUp
    <3>2. CASE id # None
      <4> DEFINE posting == [flush[f] EXCEPT !.stage = "post", !.id = id]
      <4>1. flush' = [flush EXCEPT ![f] = posting]
        BY <2>3, <3>2 DEF Posts, ShareTypeOK
      <4>2. posting.version = flush[f].version
        BY <2>1 DEF FlushStates
      <4> HIDE DEF posting
      <4> QED
        BY <2>2, <2>3, <4>1, <4>2
    <3> QED
      BY <3>1, <3>2
  <2>4. CASE FlushTakes(f)
    <3>1. UNCHANGED remote /\ flush[f].version = None
      BY <2>4 DEF FlushTakes, Idle
    <3>2. CASE queue = None
      BY <1>1, <2>1, <2>4, <3>1, <3>2 DEF FlushTakes, NothingForgotten, Carried
    <3>3. CASE queue # None
      <4> DEFINE begun == [stage |-> "share", version |-> queue, id |-> None]
      <4>1. flush' = [flush EXCEPT ![f] = begun] /\ begun.version = queue
        BY <2>4, <3>3 DEF FlushTakes
      <4> HIDE DEF begun
      <4>2. flush'[f].version = queue /\ \A g \in Flushes : g # f => flush'[g] = flush[g]
        BY <4>1 DEF ShareTypeOK
      <4>3. queue = local \/ (\E g \in Flushes : flush[g].version = local) => \E g \in Flushes : flush'[g].version = local
        BY <1>1, <3>1, <4>2
      <4> QED
        BY <1>2, <2>1, <3>1, <4>3 DEF NothingForgotten, Carried
    <3> QED
      BY <3>2, <3>3
  <2>5. CASE FlushReads(f)
    <3> DEFINE filling == [flush[f] EXCEPT !.stage = "fill", !.id = row]
    <3>1. flush' = [flush EXCEPT ![f] = filling] /\ UNCHANGED <<queue, remote>>
      BY <2>5 DEF FlushReads, ShareTypeOK
    <3>2. filling.version = flush[f].version
      BY <2>1 DEF FlushStates
    <3> HIDE DEF filling
    <3> QED
      BY <2>2, <3>1, <3>2
  <2>6. CASE FlushCached(f) \/ FlushFills(f)
    BY <2>3, <2>6 DEF FlushCached, FlushFills
  <2>7. CASE PostFails(f)
    BY <2>2, <2>7 DEF PostFails
  <2>8. CASE PostArrives(f)
    <3> DEFINE id == flush[f].id
               version == flush[f].version
    <3>1. /\ remote' = [remote EXCEPT ![id] = version] /\ UNCHANGED queue
          /\ remote[id] > version => remote[id] \in lost'
          /\ id # row => version \in lost'
          /\ flush' = [flush EXCEPT ![f] = Idle]
      BY <2>8 DEF PostArrives
    <3>2. id \in Shares /\ version \in Known /\ (row # None => row \in Shares)
      BY <1>1, <2>1, <2>8 DEF PostArrives, ShareTypeOK, FlushStates
    <3> HIDE DEF id, version
    <3>3. version = local \/ local > version
      BY <1>1, <3>2 DEF Known
    <3>4. row # None /\ remote[row] = local => remote'[row] = local \/ local \in lost'
      BY <3>1, <3>2, <3>3 DEF ShareTypeOK
    <3>5. row # None /\ version = local => remote'[row] = local \/ local \in lost'
      BY <3>1, <3>2 DEF ShareTypeOK
    <3>6. \A g \in Flushes : g # f => flush'[g] = flush[g]
      BY <3>1 DEF ShareTypeOK
    <3>7. (\E g \in Flushes : flush[g].version = local) => version = local \/ \E g \in Flushes : flush'[g].version = local
      BY <3>6 DEF version
    <3> QED
      BY <1>2, <2>1, <3>1, <3>4, <3>5, <3>7 DEF NothingForgotten, Carried
  <2> QED
    BY <1>5, <2>4, <2>5, <2>6, <2>7, <2>8 DEF FlushStep
<1>6. ASSUME NEW s \in Shares, CreateStep(s) PROVE NothingForgotten'
  <2>1. UNCHANGED <<local, queue, flush, remote>> /\ (UNCHANGED lost \/ FullFails(s))
    BY <1>6 DEF CreateStep, CreateBegins, CreateFails, CreateStores, CreateEnds, FullReads, FullFails
  <2>2. CASE CreateStores(s)
    <3>1. row' = s /\ creation'[s] = "stored"
      BY <2>2 DEF CreateStores, ShareTypeOK
    <3> QED
      BY <3>1 DEF NothingForgotten, Carried
  <2>3. CASE FullReads(s)
    <3> DEFINE full == [version |-> local, stage |-> "sync", id |-> None, origin |-> s]
    <3>1. full \in syncs' /\ full.version = local
      BY <2>3 DEF FullReads
    <3> QED
      BY <2>1, <3>1 DEF NothingForgotten, Carried
  <2>4. CASE CreateBegins(s) \/ CreateFails(s) \/ CreateEnds(s)
    <3>1. UNCHANGED <<row, syncs, lost>>
      BY <2>4 DEF CreateBegins, CreateFails, CreateEnds
    <3>2. \A r \in Shares : creation[r] \in {"stored", "full"} => creation'[r] \in {"stored", "full"}
      BY <2>4 DEF CreateBegins, CreateFails, CreateEnds, ShareTypeOK
    <3> QED
      BY <1>2, <2>1, <3>1, <3>2 DEF NothingForgotten, Carried
  <2>5. CASE FullFails(s)
    <3>1. UNCHANGED <<row, syncs>>
      BY <2>5 DEF FullFails
    <3>2. CASE row = s
      BY <2>1, <2>5, <3>1, <3>2 DEF FullFails, NothingForgotten
    <3>3. CASE row # s
      <4>1. lost' = lost
        BY <2>5, <3>3 DEF FullFails
      <4>2. \A r \in Shares \ {s} : creation'[r] = creation[r]
        BY <2>5 DEF FullFails, ShareTypeOK
      <4>3. row # None => row \in Shares \ {s}
        BY <1>1, <3>3 DEF ShareTypeOK
      <4> QED
        BY <1>2, <2>1, <3>1, <4>1, <4>2, <4>3 DEF NothingForgotten, Carried
    <3> QED
      BY <3>2, <3>3
  <2> QED
    BY <1>6, <2>2, <2>3, <2>4, <2>5 DEF CreateStep
<1>7. ASSUME RemoveStep PROVE NothingForgotten'
  <2>1. UNCHANGED <<local, syncs, flush, creation, remote>>
    BY <1>7 DEF RemoveStep, RemoveCached, RemoveReads, RemoveFills, RemoveFails, RemoveDeletes, RemoveEnds
  <2>2. CASE row' = None
    BY <2>2 DEF NothingForgotten
  <2>3. CASE UNCHANGED <<row, queue, lost>>
    BY <2>1, <2>3 DEF NothingForgotten, Carried
  <2>4. CASE GiveUp(queue) /\ queue' = None /\ UNCHANGED row
    BY <1>2, <2>1, <2>4 DEF GiveUp, NothingForgotten, Carried
  <2>5. RemoveDeletes => row' = None
    BY DEF RemoveDeletes
  <2> QED
    BY <1>7, <2>2, <2>3, <2>4, <2>5
       DEF RemoveStep, RemoveCached, RemoveReads, RemoveFills, Removes, RemoveFails, RemoveEnds
<1>8. CASE Update
  <2> DEFINE update == [version |-> local + 1, stage |-> "sync", id |-> None, origin |-> None]
  <2>1. update \in syncs' /\ update.version = local'
    BY <1>8 DEF Update
  <2> HIDE DEF update
  <2> QED
    BY <2>1 DEF NothingForgotten, Carried
<1>9. CASE UNCHANGED shareVars
  BY <1>9 DEF shareVars, NothingForgotten, Carried
<1> QED
  BY <1>4, <1>5, <1>6, <1>7, <1>8, <1>9 DEF ShareNext, SyncStep

(* The inductive invariant is one. *)
LEMMA ShareInvariance == ShareSpec => []ShareInv
<1>1. ASSUME ShareInv, [ShareNext]_shareVars PROVE ShareInv'
  BY <1>1, ShareTypeNext, FlushNext, CacheNext, NewestNext DEF ShareInv
<1>2. ShareInv /\ [ShareNext]_shareVars => ShareInv'
  BY <1>1
<1> QED
  BY <1>2, ShareInvInit, PTL DEF ShareSpec

(* What is queued has a flush coming, whatever flushes and removes have    *)
(* done with earlier queues (share-next.ts 130-146, 247-253).              *)
THEOREM FlushAlwaysComes == ShareSpec => []FlushComes
<1>1. ShareInv => FlushComes
  BY DEF ShareInv
<1> QED
  BY <1>1, ShareInvariance, PTL

(* Between creates and removes the cache agrees with the database, unless  *)
(* it was filled with an answer that was out of date (share-next.ts        *)
(* 235-245, 310-359).                                                      *)
THEOREM CacheAlwaysAgrees == ShareSpec => []CacheAgrees
<1>1. ShareInv => CacheAgrees
  BY DEF ShareInv, CacheTraced, CacheAgrees, Creating
<1> QED
  BY <1>1, ShareInvariance, PTL

(* The newest version of a shared session is at the server or on its way,  *)
(* unless it was given up (share-next.ts 124-146, 247-299).                *)
THEOREM NewestAlwaysCarried == ShareSpec => []NothingForgotten
<1>1. ShareInv => NothingForgotten
  BY DEF ShareInv
<1> QED
  BY <1>1, ShareInvariance, PTL
===============================================================================
