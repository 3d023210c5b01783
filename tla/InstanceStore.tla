---------------------------- MODULE InstanceStore ----------------------------
(* The instances of one directory: project/instance-store.ts, with the     *)
(* per-directory state of one service, effect/instance-state.ts.           *)
(* Directories share nothing but the order in which disposeAll visits      *)
(* them, which delays it.                                                  *)
(*                                                                         *)
(* A call that makes a cache entry gives its name to the entry, to its     *)
(* Deferred, to the fiber forked for it and to the InstanceContext it      *)
(* boots.  A load whose call has got its instance goes on as a request     *)
(* that uses the per-directory state, possibly after the instance is gone. *)
EXTENDS FiniteSets

CONSTANTS Calls, None

ASSUME StoreAssumption == None \notin Calls

VARIABLES
  cache,     \* the entry of the directory
  deferred,  \* deferred[e]: "none", "open", "ok" or "failed"
  previous,  \* previous[e]: the entry a reload has replaced
  fpc,       \* fpc[e]: where the fiber of entry e is
  kind, pc,  \* kind[c], pc[c]: what call c is and where it is
  entry,     \* entry[c]: the entry c awaits or disposes; a disposeAll it joined
  ctx,       \* ctx[c]: the instance a dispose was called with
  cell,      \* the state of the service: the instance it was made for
  stray,     \* cell was made by a failed boot, or for an instance no longer in force
  alive      \* the instances booted since the disposers of the directory last ran

callVars == <<kind, pc, entry, ctx>>
entryVars == <<cache, deferred, previous, fpc>>
stateVars == <<cell, stray, alive>>
storeVars == <<callVars, entryVars, stateVars>>

StoreInit ==
  /\ cache = None
  /\ deferred = [e \in Calls |-> "none"] /\ previous = [e \in Calls |-> None]
  /\ fpc = [e \in Calls |-> "none"]
  /\ kind = [c \in Calls |-> "none"] /\ pc = [c \in Calls |-> "ready"]
  /\ entry = [c \in Calls |-> None] /\ ctx = [c \in Calls |-> None]
  /\ cell = None /\ stray = FALSE /\ alive = {}

Enter(c, k, at, e) ==
  /\ pc[c] = "ready"
  /\ kind' = [kind EXCEPT ![c] = k]
  /\ pc' = [pc EXCEPT ![c] = at]
  /\ entry' = [entry EXCEPT ![c] = e]

Goto(c, at) == pc' = [pc EXCEPT ![c] = at] /\ UNCHANGED <<kind, entry, ctx>>

(* The call is over, and what it knew is forgotten. *)
Return(c) ==
  /\ pc' = [pc EXCEPT ![c] = "over"]
  /\ kind' = [kind EXCEPT ![c] = "none"]
  /\ entry' = [entry EXCEPT ![c] = None]
  /\ ctx' = [ctx EXCEPT ![c] = None]

(* cache.set, with the fiber forked for the new entry. *)
NewEntry(c, old, at) ==
  /\ cache' = c
  /\ deferred' = [deferred EXCEPT ![c] = "open"]
  /\ previous' = [previous EXCEPT ![c] = old]
  /\ fpc' = [fpc EXCEPT ![c] = at]

(* disposeInstance: the disposers of all services drop their state of the  *)
(* directory at once, and then take their time.                            *)
RunDisposers == cell' = None /\ stray' = FALSE /\ alive' = {}

(* Mutant of RemoveEntry: whatever is cached is removed. *)
RemoveAny(e) == cache' = None

RemoveEntry(e) == cache' = IF cache = e THEN None ELSE cache

(* InstanceState.get by a holder of instance e. *)
InForce(e) == cache = e /\ e \in alive

Touch(e) ==
  /\ IF cell = None THEN cell' = e /\ stray' = ~InForce(e) ELSE UNCHANGED <<cell, stray>>
  /\ UNCHANGED alive
-------------------------------------------------------------------------------
(* load and reload *)

LoadJoins(c) ==
  /\ cache # None
  /\ Enter(c, "load", "await", cache)
  /\ UNCHANGED <<ctx, entryVars, stateVars>>

LoadCreates(c) ==
  /\ cache = None
  /\ Enter(c, "load", "await", c)
  /\ NewEntry(c, None, "booting")
  /\ UNCHANGED <<ctx, stateVars>>

(* The new entry is cached before the old one is waited for. *)
Reload(c) ==
  /\ Enter(c, "reload", "await", c)
  /\ NewEntry(c, cache, IF cache = None THEN "booting" ELSE "awaitPrevious")
  /\ UNCHANGED <<ctx, stateVars>>

LoadReturns(c) ==
  /\ kind[c] \in {"load", "reload"} /\ pc[c] = "await"
  /\ deferred[entry[c]] # "open"
  /\ IF deferred[entry[c]] = "ok" THEN Goto(c, "using") ELSE Return(c)
  /\ UNCHANGED <<entryVars, stateVars>>

(* The caller is interrupted: the fiber of the entry goes on. *)
LoadAbandoned(c) ==
  /\ kind[c] \in {"load", "reload"} /\ pc[c] = "await"
  /\ Return(c)
  /\ UNCHANGED <<entryVars, stateVars>>

(* `provide`: the effect runs with the instance in its InstanceRef. *)
Uses(c) ==
  /\ pc[c] = "using"
  /\ Touch(entry[c])
  /\ UNCHANGED <<callVars, entryVars>>

UseEnds(c) ==
  /\ pc[c] = "using"
  /\ Return(c)
  /\ UNCHANGED <<entryVars, stateVars>>
-------------------------------------------------------------------------------
(* The fiber of an entry *)

(* Mutant of PreviousSettled: the disposers run at once. *)
NotAwaited(e) == TRUE

PreviousSettled(e) == deferred[previous[e]] # "open"

(* Mutant of ReloadDisposes: the state of the old instance is kept. *)
ReloadKeepsState(e) ==
  /\ fpc[e] = "awaitPrevious" /\ PreviousSettled(e)
  /\ fpc' = [fpc EXCEPT ![e] = "disposing"]
  /\ previous' = [previous EXCEPT ![e] = None]
  /\ UNCHANGED <<callVars, cache, deferred, stateVars>>

ReloadDisposes(e) ==
  /\ fpc[e] = "awaitPrevious" /\ PreviousSettled(e)
  /\ RunDisposers
  /\ fpc' = [fpc EXCEPT ![e] = "disposing"]
  /\ previous' = [previous EXCEPT ![e] = None]
  /\ UNCHANGED <<callVars, cache, deferred>>

ReloadBoots(e) ==
  /\ fpc[e] = "disposing"
  /\ fpc' = [fpc EXCEPT ![e] = "booting"]
  /\ UNCHANGED <<callVars, cache, deferred, previous, stateVars>>

(* bootstrap.run initializes the services, which make their state. *)
BootTouches(e) ==
  /\ fpc[e] = "booting" /\ cell = None
  /\ cell' = e /\ stray' = FALSE
  /\ UNCHANGED <<callVars, entryVars, alive>>

(* completeLoad, when boot has succeeded or failed. *)
BootSucceeds(e) ==
  /\ fpc[e] = "booting"
  /\ fpc' = [fpc EXCEPT ![e] = "ended"]
  /\ deferred' = [deferred EXCEPT ![e] = "ok"]
  /\ alive' = alive \cup {e}
  /\ UNCHANGED <<callVars, cache, previous, cell, stray>>

(* The state a failed boot has made stays where it is. *)
BootFails(e) ==
  /\ fpc[e] = "booting"
  /\ fpc' = [fpc EXCEPT ![e] = "ended"]
  /\ deferred' = [deferred EXCEPT ![e] = "failed"]
  /\ RemoveEntry(e)
  /\ stray' = (stray \/ cell = e)
  /\ UNCHANGED <<callVars, previous, cell, alive>>
-------------------------------------------------------------------------------
(* dispose, disposeDirectory, disposeAll *)

Disposals == {"dispose", "disposeDirectory", "disposeAll"}

(* A dispose by somebody who holds instance x. *)
Dispose(c, x) ==
  /\ deferred[x] = "ok"
  /\ ctx' = [ctx EXCEPT ![c] = x]
  /\ IF cache = None
     THEN Enter(c, "dispose", "disposing", None) /\ RunDisposers
     ELSE Enter(c, "dispose", "await", cache) /\ UNCHANGED stateVars
  /\ UNCHANGED entryVars

DisposeDirectory(c) ==
  /\ IF cache = None
     THEN pc[c] = "ready" /\ Return(c)
     ELSE Enter(c, "disposeDirectory", "await", cache) /\ UNCHANGED ctx
  /\ UNCHANGED <<entryVars, stateVars>>

(* A disposeAll joins one that is on its way (cachedWithTTL). *)
OnItsWay(c) == kind[c] = "disposeAll" /\ pc[c] \in {"await", "disposing"}

DisposeAll(c) ==
  /\ IF \E d \in Calls : OnItsWay(d)
     THEN UNCHANGED ctx /\ \E d \in Calls : OnItsWay(d) /\ Enter(c, "disposeAll", "joined", d)
     ELSE IF cache = None THEN pc[c] = "ready" /\ Return(c)
     ELSE Enter(c, "disposeAll", "await", cache) /\ UNCHANGED ctx
  /\ UNCHANGED <<entryVars, stateVars>>

JoinedReturns(c) ==
  /\ pc[c] = "joined" /\ pc[entry[c]] = "over"
  /\ Return(c)
  /\ UNCHANGED <<entryVars, stateVars>>

Awaited(c) == kind[c] \in Disposals /\ pc[c] = "await" /\ deferred[entry[c]] # "open"

DisposesFailed(c) ==
  /\ Awaited(c) /\ deferred[entry[c]] = "failed"
  /\ RemoveEntry(entry[c])
  /\ Return(c)
  /\ UNCHANGED <<deferred, previous, fpc, stateVars>>

(* The entry was replaced, or is of another instance than the one meant. *)
StaleDisposal(c) == cache # entry[c] \/ (kind[c] = "dispose" /\ entry[c] # ctx[c])

DisposesNothing(c) ==
  /\ Awaited(c) /\ deferred[entry[c]] = "ok" /\ StaleDisposal(c)
  /\ Return(c)
  /\ UNCHANGED <<entryVars, stateVars>>

DisposesEntry(c) ==
  /\ Awaited(c) /\ deferred[entry[c]] = "ok" /\ ~StaleDisposal(c)
  /\ RunDisposers
  /\ Goto(c, "disposing")
  /\ UNCHANGED entryVars

(* The disposers are through. *)
DisposalEnds(c) ==
  /\ pc[c] = "disposing"
  /\ RemoveEntry(entry[c])
  /\ Return(c)
  /\ UNCHANGED <<deferred, previous, fpc, stateVars>>
-------------------------------------------------------------------------------
Start(c) ==
  \/ LoadJoins(c) \/ LoadCreates(c) \/ Reload(c) \/ DisposeDirectory(c) \/ DisposeAll(c)
  \/ \E x \in Calls : Dispose(c, x)

CallStep(c) ==
  \/ LoadReturns(c) \/ JoinedReturns(c)
  \/ DisposesFailed(c) \/ DisposesNothing(c) \/ DisposesEntry(c) \/ DisposalEnds(c)

FiberStep(e) == ReloadDisposes(e) \/ ReloadBoots(e) \/ BootSucceeds(e) \/ BootFails(e)

Request(c) == LoadAbandoned(c) \/ Uses(c) \/ UseEnds(c) \/ BootTouches(c)

StoreNext == \E c \in Calls : Start(c) \/ CallStep(c) \/ FiberStep(c) \/ Request(c)

StoreSpec == StoreInit /\ [][StoreNext]_storeVars
-------------------------------------------------------------------------------
(* Properties. *)

(* While a directory boots, nobody boots it a second time and nobody        *)
(* disposes of what the boot is setting up, however late a reload or a      *)
(* disposal comes: a reload waits for the entry it replaces, which waits    *)
(* for the one before it, and a disposal for the entry it means             *)
(* (instance-store.ts 126-182).                                            *)
BootAlone ==
  [][\A e \in Calls : fpc[e] = "booting" =>
       /\ \A f \in Calls \ {e} : fpc'[f] # "booting"
       /\ cell # None => cell' = cell]_storeVars

(* The cache tells the truth.  An instance that is running can be found and *)
(* disposed: it is cached, or the entry cached in its place is a reload     *)
(* that waits to run the disposers ("stale dispose does not delete an       *)
(* in-flight reload").  And whoever finds a ready instance finds a running  *)
(* one, unless a disposal of it is on its way (instance-store.ts 65-106).   *)
Replaced(e) == cache # None /\ \E f \in Calls : fpc[f] = "awaitPrevious" /\ previous[f] = e

CacheTruthful ==
  /\ \A e \in alive : cache = e \/ Replaced(e)
  /\ cache # None /\ deferred[cache] = "ok" /\ cache \notin alive =>
       \E d \in Calls : pc[d] = "disposing" /\ entry[d] = cache

(* "InstanceState invalidates on reload": an instance works, from its boot  *)
(* on, with state made for itself.  State made for an earlier instance is   *)
(* met only if a boot failed after making it, or if a request made it with  *)
(* an instance that had been replaced or was being disposed.                *)
FreshState ==
  \A e \in Calls : fpc[e] = "booting" \/ InForce(e) => cell \in {None, e} \/ stray
===============================================================================
