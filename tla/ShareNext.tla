------------------------------- MODULE ShareNext -------------------------------
(* share/share-next.ts for one session: create, remove, the watchers of    *)
(* the session's events, and the delayed flushes.                          *)
(*                                                                         *)
(* The data of the session is one item, a number that grows with every     *)
(* update.  The queue, which is keyed by item in the code, holds at most   *)
(* one version of it; full and sync differ in the version they bring.      *)
(* The server is external: a request may fail, and two requests may arrive *)
(* in any order.  Left out are the disposal of the instance and the item   *)
(* that names the model of a user message, which the watcher looks up and  *)
(* syncs after the message.                                                *)
EXTENDS Naturals, FiniteSets

CONSTANTS
  MaxVersion,  \* bound on the updates of the session
  MaxShares,   \* bound on the calls of create
  MaxFlushes   \* bound on the flushes between queue and answer

ASSUME ShareAssumption == {MaxVersion, MaxShares, MaxFlushes} \subseteq Nat \ {0}

Versions == 1..MaxVersion
Shares == 1..MaxShares
Flushes == 1..MaxFlushes

None == 0      \* no share, or nothing queued
Unknown == {}  \* the cache has no entry

Idle == [stage |-> "idle", version |-> None, id |-> None]

VARIABLES
  local,     \* the version in the local database
  row,       \* the share in the database
  shared,    \* the cache: Unknown, or {id}, where id may be None
  queue,     \* the version in the queue
  timers,    \* the flushes that wait for their second
  syncs,     \* the calls of sync: records of version, stage, id and origin
  flush,     \* flush[f]: version, stage and id of a flush at work
  creation,  \* creation[s]: where the create that gets s is
  removal,   \* the remove: stage and id
  remote,    \* remote[s]: the version the server has last been given
  lost,      \* the versions that were given up, in a way named where it is
  stale      \* the cache was filled with what had changed meanwhile

cacheVars == <<shared, stale>>
queueVars == <<queue, timers>>
shareVars == <<local, row, cacheVars, queueVars, syncs, flush, creation, removal, remote, lost>>

ShareInit ==
  /\ local = 1 /\ row = None /\ shared = Unknown /\ queue = None /\ timers = 0
  /\ syncs = {} /\ flush = [f \in Flushes |-> Idle]
  /\ creation = [s \in Shares |-> "new"]
  /\ removal = [stage |-> "idle", id |-> None]
  /\ remote = [s \in Shares |-> None]
  /\ lost = {} /\ stale = FALSE

(* What is dropped while the session is shared is lost. *)
GiveUp(version) == lost' = IF row = None THEN lost ELSE lost \cup {version}
-------------------------------------------------------------------------------
(* getCached: the query of the database and the filling of the cache are   *)
(* two steps, and whatever was read is put into the cache.                 *)
Hit == shared # Unknown
CachedShare == CHOOSE id \in shared : TRUE

Fill(id) == shared' = {id} /\ stale' = (id # row)

(* Mutant of Newest: the first version stays. *)
FirstStays(version) == IF queue = None THEN version ELSE queue

(* An item replaces the one before in the queue. *)
Newest(version) == version

(* Mutant of StartsFlush: a flush at work is taken for the next one. *)
StartsFlushIfNone == queue = None /\ \A f \in Flushes : flush[f] = Idle

StartsFlush == queue = None

(* sync, after getCached. *)
Enqueue(version, id) ==
  IF id = None
    THEN GiveUp(version) /\ UNCHANGED queueVars
    ELSE /\ queue' = Newest(version)
         /\ timers' = IF StartsFlush THEN timers + 1 ELSE timers
         /\ lost' = IF queue > Newest(version) THEN lost \cup {queue} ELSE lost

(* The session changes, and the watcher of the event calls sync. *)
Update ==
  /\ local < MaxVersion
  /\ local' = local + 1
  /\ syncs' = syncs \cup {[version |-> local + 1, stage |-> "sync", id |-> None, origin |-> None]}
  /\ UNCHANGED <<row, cacheVars, queueVars, flush, creation, removal, remote, lost>>

(* full: the session is read, then synced. *)
FullReads(s) ==
  /\ creation[s] = "full"
  /\ creation' = [creation EXCEPT ![s] = "done"]
  /\ syncs' = syncs \cup {[version |-> local, stage |-> "sync", id |-> None, origin |-> s]}
  /\ UNCHANGED <<local, row, cacheVars, queueVars, flush, removal, remote, lost>>

(* The session cannot be read, or a model of its messages not be found any *)
(* more: the failure is logged, and nothing is synced.                     *)
FullFails(s) ==
  /\ creation[s] = "full"
  /\ creation' = [creation EXCEPT ![s] = "done"]
  /\ lost' = IF row = s THEN lost \cup {local} ELSE lost
  /\ UNCHANGED <<local, row, cacheVars, queueVars, syncs, flush, removal, remote>>

SyncCached(c) ==
  /\ c.stage = "sync" /\ Hit
  /\ Enqueue(c.version, CachedShare)
  /\ syncs' = syncs \ {c}
  /\ UNCHANGED <<local, row, cacheVars, flush, creation, removal, remote>>

SyncReads(c) ==
  /\ c.stage = "sync" /\ ~Hit
  /\ syncs' = (syncs \ {c}) \cup {[c EXCEPT !.stage = "fill", !.id = row]}
  /\ UNCHANGED <<local, row, cacheVars, queueVars, flush, creation, removal, remote, lost>>

SyncFills(c) ==
  /\ c.stage = "fill"
  /\ Fill(c.id)
  /\ Enqueue(c.version, c.id)
  /\ syncs' = syncs \ {c}
  /\ UNCHANGED <<local, row, flush, creation, removal, remote>>
-------------------------------------------------------------------------------
(* flush: a second after the queue was made.  It takes the queue before it *)
(* asks for the share.                                                     *)
FlushTakes(f) ==
  /\ timers > 0 /\ flush[f] = Idle
  /\ timers' = timers - 1
  /\ queue' = None
  /\ flush' = IF queue = None THEN flush
              ELSE [flush EXCEPT ![f] = [stage |-> "share", version |-> queue, id |-> None]]
  /\ UNCHANGED <<local, row, cacheVars, syncs, creation, removal, remote, lost>>

Posts(f, id) ==
  IF id = None
    THEN flush' = [flush EXCEPT ![f] = Idle] /\ GiveUp(flush[f].version)
    ELSE /\ flush' = [flush EXCEPT ![f].stage = "post", ![f].id = id]
         /\ UNCHANGED lost

FlushCached(f) ==
  /\ flush[f].stage = "share" /\ Hit
  /\ Posts(f, CachedShare)
  /\ UNCHANGED <<local, row, cacheVars, queueVars, syncs, creation, removal, remote>>

FlushReads(f) ==
  /\ flush[f].stage = "share" /\ ~Hit
  /\ flush' = [flush EXCEPT ![f].stage = "fill", ![f].id = row]
  /\ UNCHANGED <<local, row, cacheVars, queueVars, syncs, creation, removal, remote, lost>>

FlushFills(f) ==
  /\ flush[f].stage = "fill"
  /\ Fill(flush[f].id)
  /\ Posts(f, flush[f].id)
  /\ UNCHANGED <<local, row, queueVars, syncs, creation, removal, remote>>

(* The server has the data.  It is of no use to a share that was replaced, *)
(* and an older version may arrive last.                                   *)
PostArrives(f) ==
  /\ flush[f].stage = "post"
  /\ LET id == flush[f].id
         version == flush[f].version
     IN  /\ remote' = [remote EXCEPT ![id] = version]
         /\ lost' = lost \cup (IF remote[id] > version THEN {remote[id]} ELSE {})
                         \cup (IF id # row THEN {version} ELSE {})
  /\ flush' = [flush EXCEPT ![f] = Idle]
  /\ UNCHANGED <<local, row, cacheVars, queueVars, syncs, creation, removal>>

(* The failure is logged. *)
PostFails(f) ==
  /\ flush[f].stage = "post"
  /\ lost' = lost \cup {flush[f].version}
  /\ flush' = [flush EXCEPT ![f] = Idle]
  /\ UNCHANGED <<local, row, cacheVars, queueVars, syncs, creation, removal, remote>>
-------------------------------------------------------------------------------
(* create: the server makes the share, or refuses; then the row, then the  *)
(* cache and, in a fiber of its own, full.                                 *)
CreateBegins(s) ==
  /\ creation[s] = "new" /\ (s > 1 => creation[s - 1] # "new")
  /\ creation' = [creation EXCEPT ![s] = "made"]
  /\ UNCHANGED <<local, row, cacheVars, queueVars, syncs, flush, removal, remote, lost>>

CreateFails(s) ==
  /\ creation[s] = "made"
  /\ creation' = [creation EXCEPT ![s] = "done"]
  /\ UNCHANGED <<local, row, cacheVars, queueVars, syncs, flush, removal, remote, lost>>

CreateStores(s) ==
  /\ creation[s] = "made"
  /\ creation' = [creation EXCEPT ![s] = "stored"]
  /\ row' = s
  /\ UNCHANGED <<local, cacheVars, queueVars, syncs, flush, removal, remote, lost>>

CreateEnds(s) ==
  /\ creation[s] = "stored"
  /\ creation' = [creation EXCEPT ![s] = "full"]
  /\ shared' = {s} /\ stale' = (s # row)
  /\ UNCHANGED <<local, row, queueVars, syncs, flush, removal, remote, lost>>
-------------------------------------------------------------------------------
(* remove: by a user, or when the session is deleted. *)
RemovalGoto(from, to, id) == removal.stage = from /\ removal' = [stage |-> to, id |-> id]

(* Without a share only what is in memory is dropped. *)
Removes(from, id) ==
  IF id = None
    THEN /\ RemovalGoto(from, "idle", None)
         /\ queue' = None /\ GiveUp(queue)
    ELSE RemovalGoto(from, "request", id) /\ UNCHANGED <<queue, lost>>

RemoveCached ==
  /\ Hit
  /\ Removes("idle", CachedShare)
  /\ IF CachedShare = None THEN shared' = Unknown /\ stale' = FALSE ELSE UNCHANGED cacheVars
  /\ UNCHANGED <<local, row, timers, syncs, flush, creation, remote>>

RemoveReads ==
  /\ ~Hit
  /\ RemovalGoto("idle", "fill", row)
  /\ UNCHANGED <<local, row, cacheVars, queueVars, syncs, flush, creation, remote, lost>>

RemoveFills ==
  /\ Removes("fill", removal.id)
  /\ IF removal.id = None THEN shared' = Unknown /\ stale' = FALSE ELSE Fill(removal.id)
  /\ UNCHANGED <<local, row, timers, syncs, flush, creation, remote>>

RemoveFails ==
  /\ RemovalGoto("request", "idle", None)
  /\ UNCHANGED <<local, row, cacheVars, queueVars, syncs, flush, creation, remote, lost>>

(* Whichever share the row holds by now. *)
RemoveDeletes ==
  /\ RemovalGoto("request", "deleted", removal.id)
  /\ row' = None
  /\ UNCHANGED <<local, cacheVars, queueVars, syncs, flush, creation, remote, lost>>

(* Mutant of RemoveEnds: the cache keeps the share. *)
RemoveEndsCached ==
  /\ RemovalGoto("deleted", "idle", None)
  /\ queue' = None /\ GiveUp(queue)
  /\ UNCHANGED <<local, row, cacheVars, timers, syncs, flush, creation, remote>>

RemoveEnds ==
  /\ RemovalGoto("deleted", "idle", None)
  /\ shared' = Unknown /\ stale' = FALSE
  /\ queue' = None /\ GiveUp(queue)
  /\ UNCHANGED <<local, row, timers, syncs, flush, creation, remote>>
-------------------------------------------------------------------------------
SyncStep == \E c \in syncs : SyncCached(c) \/ SyncReads(c) \/ SyncFills(c)

FlushStep(f) ==
  \/ FlushTakes(f) \/ FlushCached(f) \/ FlushReads(f) \/ FlushFills(f)
  \/ PostArrives(f) \/ PostFails(f)

CreateStep(s) ==
  \/ CreateBegins(s) \/ CreateFails(s) \/ CreateStores(s) \/ CreateEnds(s)
  \/ FullReads(s) \/ FullFails(s)

RemoveStep ==
  \/ RemoveCached \/ RemoveReads \/ RemoveFills
  \/ RemoveFails \/ RemoveDeletes \/ RemoveEnds

ShareNext ==
  \/ Update \/ SyncStep \/ RemoveStep
  \/ \E f \in Flushes : FlushStep(f)
  \/ \E s \in Shares : CreateStep(s)

ShareSpec == ShareInit /\ [][ShareNext]_shareVars
-------------------------------------------------------------------------------
Creating == \E s \in Shares : creation[s] \in {"made", "stored"}

(* While no create and no remove is at work the cache agrees with the      *)
(* database, unless it was filled with an answer that a create or a remove *)
(* had made untrue meanwhile: getCached does not notice.                   *)
(* (share-next.ts 235-245, 310-359.)                                       *)
CacheAgrees ==
  ~Creating /\ removal.stage = "idle" => shared \subseteq {row} \/ stale

(* On its way to the server of share s. *)
Carried(version, s) ==
  \/ queue = version
  \/ \E c \in syncs : c.version = version
  \/ \E f \in Flushes : flush[f].version = version
  \/ creation[s] \in {"stored", "full"}

(* The newest version of a shared session is at the server or on its way,  *)
(* unless it was given up: by a request that failed, by a full that could  *)
(* not read the session or find its models, by an older version that came  *)
(* later (full may bring one), by a cache that said there is no share, by  *)
(* a remove, or with a share that was replaced.                            *)
(* (share-next.ts 124-146, 247-299.)                                       *)
NothingForgotten ==
  row # None /\ local \notin lost => remote[row] = local \/ Carried(local, row)

(* What is queued has a flush coming, whatever flushes and removes have    *)
(* done with earlier queues: sync starts one only with a new queue.        *)
(* (share-next.ts 130-146, 247-253.)                                       *)
FlushComes == queue # None => timers > 0
===============================================================================
