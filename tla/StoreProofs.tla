------------------------------ MODULE StoreProofs ------------------------------
(* Theorems about InstanceStore and Question, for any set of calls, of     *)
(* questions and of replies.                                               *)
EXTENDS Question, TLAPS

StoreTypeOK ==
  /\ cache \in Calls \cup {None}
  /\ deferred \in [Calls -> {"none", "open", "ok", "failed"}]
  /\ previous \in [Calls -> Calls \cup {None}]
  /\ fpc \in [Calls -> {"none", "awaitPrevious", "disposing", "booting", "ended"}]
  /\ kind \in [Calls -> {"none", "load", "reload"} \cup Disposals]
  /\ pc \in [Calls -> {"ready", "await", "using", "disposing", "joined", "over"}]
  /\ entry \in [Calls -> Calls \cup {None}]
  /\ ctx \in [Calls -> Calls \cup {None}]
  /\ cell \in Calls \cup {None}
  /\ stray \in BOOLEAN
  /\ alive \subseteq Calls

(* A request uses an instance that it has got.                             *)
UsersHold == \A c \in Calls : pc[c] \in {"using", "await"} => entry[c] # None

(* The store starts well typed. *)
LEMMA StoreTypeInit == StoreInit => StoreTypeOK /\ UsersHold
<1> SUFFICES ASSUME StoreInit PROVE StoreTypeOK /\ UsersHold
  OBVIOUS
<1>1. StoreTypeOK
  BY StoreAssumption DEF StoreInit, StoreTypeOK
<1>2. UsersHold
  BY DEF StoreInit, UsersHold
<1> QED
  BY <1>1, <1>2

(* Every step of the store assigns values of the declared sets.            *)
LEMMA StoreTypeNext == StoreTypeOK /\ UsersHold /\ [StoreNext]_storeVars => StoreTypeOK' /\ UsersHold'
<1> SUFFICES ASSUME StoreTypeOK, UsersHold, [StoreNext]_storeVars PROVE StoreTypeOK' /\ UsersHold'
  OBVIOUS
<1> USE StoreAssumption DEF StoreTypeOK, UsersHold, Disposals, callVars, entryVars, stateVars, storeVars
<1>1. ASSUME NEW c \in Calls, LoadJoins(c) \/ LoadCreates(c) \/ Reload(c) PROVE StoreTypeOK' /\ UsersHold'
  BY <1>1 DEF LoadJoins, LoadCreates, Reload, Enter, NewEntry
<1>2. ASSUME NEW c \in Calls, Return(c), UNCHANGED <<deferred, previous, fpc, stateVars>>, cache' \in {cache, None}
      PROVE  StoreTypeOK' /\ UsersHold'
  BY <1>2 DEF Return
<1>3. ASSUME NEW c \in Calls, NEW at \in {"using", "disposing"}, Goto(c, at), entry[c] # None \/ at # "using",
             UNCHANGED entryVars, UNCHANGED stateVars \/ RunDisposers
      PROVE  StoreTypeOK' /\ UsersHold'
  BY <1>3 DEF Goto, RunDisposers
<1>4. ASSUME NEW c \in Calls, NEW k \in Disposals, NEW at \in {"await", "disposing", "joined"},
             NEW e \in Calls \cup {None}, NEW x \in Calls \cup {None},
             Enter(c, k, at, e), ctx' = [ctx EXCEPT ![c] = x], e # None \/ at # "await",
             UNCHANGED entryVars, UNCHANGED stateVars \/ RunDisposers
      PROVE  StoreTypeOK' /\ UsersHold'
  BY <1>4 DEF Enter, RunDisposers
<1>5. ASSUME NEW c \in Calls, Start(c) PROVE StoreTypeOK' /\ UsersHold'
  <2>1. ASSUME NEW x \in Calls, Dispose(c, x) PROVE StoreTypeOK' /\ UsersHold'
    BY <1>4, <2>1 DEF Dispose
  <2>2. ctx = [ctx EXCEPT ![c] = ctx[c]]
    OBVIOUS
  <2>3. CASE DisposeDirectory(c)
    BY <1>2, <1>4, <2>2, <2>3 DEF DisposeDirectory
  <2>4. CASE DisposeAll(c)
    BY <1>2, <1>4, <2>2, <2>4 DEF DisposeAll
  <2> QED
    BY <1>1, <1>5, <2>1, <2>3, <2>4 DEF Start
<1>6. ASSUME NEW c \in Calls, CallStep(c) \/ LoadAbandoned(c) \/ UseEnds(c) PROVE StoreTypeOK' /\ UsersHold'
  <2>1. CASE LoadReturns(c)
    BY <1>2, <1>3, <2>1 DEF LoadReturns
  <2>2. CASE JoinedReturns(c) \/ DisposesNothing(c) \/ LoadAbandoned(c) \/ UseEnds(c)
    BY <1>2, <2>2 DEF JoinedReturns, DisposesNothing, LoadAbandoned, UseEnds
  <2>3. CASE DisposesFailed(c) \/ DisposalEnds(c)
    BY <1>2, <2>3 DEF DisposesFailed, DisposalEnds, RemoveEntry
  <2>4. CASE DisposesEntry(c)
    BY <1>3, <2>4 DEF DisposesEntry
  <2> QED
    BY <1>6, <2>1, <2>2, <2>3, <2>4 DEF CallStep
<1>7. ASSUME NEW e \in Calls, FiberStep(e) PROVE StoreTypeOK' /\ UsersHold'
  BY <1>7 DEF FiberStep, ReloadDisposes, ReloadBoots, BootSucceeds, BootFails, RunDisposers, RemoveEntry
<1>8. ASSUME NEW c \in Calls, Uses(c) \/ BootTouches(c) PROVE StoreTypeOK' /\ UsersHold'
  BY <1>8 DEF Uses, BootTouches, Touch, InForce
<1>9. CASE UNCHANGED storeVars
  BY <1>9
<1> QED
  BY <1>5, <1>6, <1>7, <1>8, <1>9 DEF StoreNext, Request

-------------------------------------------------------------------------------
(* The inductive invariant of the store.  The entries that are not settled *)
(* form a chain: each waits for the one before it, all but the first, and  *)
(* the cache holds the last (Chained).  So only the first can be at work,  *)
(* which BootAlone says.  The state of the service belongs to a boot or to *)
(* an instance that runs, or is stray (CellTraced); with the chain this    *)
(* gives FreshState.                                                       *)

EntriesConsistent ==
  /\ \A e \in Calls :
       /\ deferred[e] = "none" <=> fpc[e] = "none"
       /\ deferred[e] = "open" <=> fpc[e] \in {"awaitPrevious", "disposing", "booting"}
       /\ pc[e] = "ready" => fpc[e] = "none"
       /\ fpc[e] = "awaitPrevious" <=> previous[e] # None
       /\ previous[e] # None => deferred[previous[e]] # "none"
  /\ cache # None => deferred[cache] \in {"open", "ok"}
  /\ \A e \in alive : deferred[e] = "ok"

CallsConsistent ==
  \A c \in Calls :
    /\ pc[c] = "await" => deferred[entry[c]] # "none"
    /\ pc[c] = "using" => deferred[entry[c]] = "ok"
    /\ pc[c] = "disposing" /\ entry[c] # None => deferred[entry[c]] = "ok" /\ entry[c] \notin alive

(* s lists the entries that are not settled, in the order they were made. *)
ChainOf(s) ==
  /\ \A e \in Calls : deferred[e] = "open" <=> \E i \in 1..Len(s) : s[i] = e
  /\ \A i, j \in 1..Len(s) : s[i] = s[j] => i = j
  /\ \A i \in 2..Len(s) : fpc[s[i]] = "awaitPrevious" /\ previous[s[i]] = s[i - 1]
  /\ Len(s) > 0 => cache = s[Len(s)] /\ (fpc[s[1]] = "awaitPrevious" => deferred[previous[s[1]]] # "open")

Chained == \E s \in Seq(Calls) : ChainOf(s)

CellTraced == cell # None /\ ~stray => fpc[cell] = "booting" \/ cell \in alive

StoreInv == EntriesConsistent /\ CallsConsistent /\ Chained /\ CacheTruthful /\ CellTraced

(* StoreInv holds in an empty store. *)
LEMMA StoreInvInit == StoreInit => StoreInv
<1> SUFFICES ASSUME StoreInit PROVE StoreInv
  OBVIOUS
<1> USE StoreAssumption DEF StoreInit
<1>1. EntriesConsistent /\ CallsConsistent /\ CacheTruthful /\ CellTraced
  BY DEF EntriesConsistent, CallsConsistent, CacheTruthful, CellTraced
<1>2. ChainOf(<<>>) /\ <<>> \in Seq(Calls)
  BY DEF ChainOf
<1>3. Chained
  BY <1>2 DEF Chained
<1> QED
  BY <1>1, <1>3 DEF StoreInv

(* The entry that is first in the chain: nothing before it is open. *)
First(e) == deferred[e] = "open" /\ (fpc[e] = "awaitPrevious" => deferred[previous[e]] # "open")

(* What the chain says without naming it.                                  *)
LEMMA ChainFacts ==
  ASSUME StoreTypeOK, EntriesConsistent, Chained
  PROVE  /\ \A e \in Calls : deferred[e] = "open" => cache \in Calls /\ deferred[cache] = "open"
         /\ \A e, f \in Calls : First(e) /\ First(f) => e = f
         /\ \A e \in Calls : First(e) => e = cache \/ \E f \in Calls : fpc[f] = "awaitPrevious" /\ previous[f] = e
<1>1. PICK s \in Seq(Calls) : ChainOf(s)
  BY DEF Chained
<1>2. \A i \in 1..Len(s) : s[i] \in Calls
  OBVIOUS
<1>3. Len(s) \in Nat
  OBVIOUS
<1>4. ASSUME NEW e \in Calls, deferred[e] = "open" PROVE Len(s) > 0 /\ cache \in Calls /\ deferred[cache] = "open"
  BY <1>1, <1>2, <1>3, <1>4 DEF ChainOf
<1>5. ASSUME NEW e \in Calls, First(e) PROVE Len(s) > 0 /\ e = s[1]
  <2>1. PICK i \in 1..Len(s) : s[i] = e
    BY <1>1, <1>5 DEF First, ChainOf
  <2>2. CASE i \in 2..Len(s)
    <3>1. previous[e] = s[i - 1] /\ fpc[e] = "awaitPrevious" /\ i - 1 \in 1..Len(s)
      BY <1>1, <1>3, <2>1, <2>2 DEF ChainOf
    <3>2. deferred[previous[e]] = "open"
      BY <1>1, <1>2, <3>1 DEF ChainOf
    <3> QED
      BY <1>5, <3>1, <3>2 DEF First
  <2> QED
    BY <1>3, <2>1, <2>2
<1>6. ASSUME NEW e \in Calls, First(e) PROVE e = cache \/ \E f \in Calls : fpc[f] = "awaitPrevious" /\ previous[f] = e
  <2>1. Len(s) > 0 /\ e = s[1]
    BY <1>5, <1>6
  <2>2. CASE Len(s) = 1
    BY <1>1, <2>1, <2>2 DEF ChainOf
  <2>3. CASE Len(s) # 1
    <3>1. 2 \in 2..Len(s)
      BY <1>3, <2>1, <2>3
    <3>2. 2 \in 1..Len(s) /\ 2 - 1 = 1
      BY <3>1
    <3>3. fpc[s[2]] = "awaitPrevious" /\ previous[s[2]] = s[2 - 1] /\ s[2] \in Calls
      BY <1>1, <1>2, <3>1, <3>2 DEF ChainOf
    <3> QED
      BY <2>1, <3>2, <3>3
  <2> QED
    BY <2>2, <2>3
<1> QED
  BY <1>4, <1>5, <1>6
(* The chain stays when nothing is settled and no entry is made: a fiber   *)
(* moves on, or the cache loses an entry that was settled.                 *)
LEMMA ChainStays ==
  ASSUME StoreTypeOK, EntriesConsistent, Chained, deferred' = deferred,
         cache' = cache \/ deferred[cache] # "open" \/ cache = None,
         \A e \in Calls :
            (fpc'[e] = fpc[e] /\ previous'[e] = previous[e]) \/ (First(e) /\ fpc'[e] # "awaitPrevious")
  PROVE  Chained'
<1>1. PICK s \in Seq(Calls) : ChainOf(s)
  BY DEF Chained
<1>2. Len(s) \in Nat /\ \A i \in 1..Len(s) : s[i] \in Calls
  OBVIOUS
<1>3. \A i \in 2..Len(s) : ~First(s[i])
  <2> SUFFICES ASSUME NEW i \in 2..Len(s) PROVE ~First(s[i])
    OBVIOUS
  <2>1. fpc[s[i]] = "awaitPrevious" /\ previous[s[i]] = s[i - 1] /\ i - 1 \in 1..Len(s)
    BY <1>1, <1>2 DEF ChainOf
  <2>2. deferred[s[i - 1]] = "open"
    BY <1>1, <1>2, <2>1 DEF ChainOf
  <2> QED
    BY <2>1, <2>2 DEF First
<1>4. Len(s) > 0 => cache' = cache
  <2>1. ASSUME Len(s) > 0 PROVE cache \in Calls /\ deferred[cache] = "open"
    BY <1>1, <1>2, <2>1 DEF ChainOf
  <2> QED
    BY <2>1, StoreAssumption DEF StoreTypeOK
<1>5. \A i \in 2..Len(s) : fpc'[s[i]] = fpc[s[i]] /\ previous'[s[i]] = previous[s[i]]
  BY <1>2, <1>3
<1>6. Len(s) > 0 /\ fpc'[s[1]] = "awaitPrevious" => fpc[s[1]] = "awaitPrevious" /\ previous'[s[1]] = previous[s[1]]
  BY <1>2
<1>7. ChainOf(s)'
  BY <1>1, <1>4, <1>5, <1>6 DEF ChainOf
<1> QED
  BY <1>7 DEF Chained

(* A boot that ends is the first of the chain, which goes on without it.   *)
LEMMA ChainSettles ==
  ASSUME StoreTypeOK, EntriesConsistent, Chained, NEW e \in Calls, NEW v \in {"ok", "failed"},
         fpc[e] = "booting", fpc' = [fpc EXCEPT ![e] = "ended"], deferred' = [deferred EXCEPT ![e] = v],
         UNCHANGED previous, cache' = cache \/ cache = e
  PROVE  Chained'
<1> USE DEF StoreTypeOK
<1>1. PICK s \in Seq(Calls) : ChainOf(s)
  BY DEF Chained
<1>2. Len(s) \in Nat /\ \A i \in 1..Len(s) : s[i] \in Calls
  OBVIOUS
<1>3. Len(s) > 0 /\ s[1] = e
  <2>1. PICK i \in 1..Len(s) : s[i] = e
    BY <1>1 DEF ChainOf, EntriesConsistent
  <2>2. i \notin 2..Len(s)
    BY <1>1, <2>1 DEF ChainOf
  <2> QED
    BY <1>2, <2>1, <2>2
<1> DEFINE t == Tail(s)
<1>4. t \in Seq(Calls) /\ Len(t) = Len(s) - 1 /\ \A i \in 1..Len(t) : t[i] = s[i + 1]
  BY <1>2, <1>3
<1>5. \A i \in 1..Len(t) : t[i] # e /\ t[i] \in Calls
  BY <1>1, <1>2, <1>3, <1>4 DEF ChainOf
<1> HIDE DEF t
<1>6. \A f \in Calls : deferred'[f] = "open" <=> f # e /\ deferred[f] = "open"
  OBVIOUS
<1>7. \A f \in Calls : deferred'[f] = "open" <=> \E i \in 1..Len(t) : t[i] = f
  <2>1. ASSUME NEW f \in Calls, deferred'[f] = "open" PROVE \E i \in 1..Len(t) : t[i] = f
    <3>1. PICK i \in 1..Len(s) : s[i] = f
      BY <1>1, <1>6, <2>1 DEF ChainOf
    <3>2. i # 1
      BY <1>3, <1>6, <2>1, <3>1
    <3>3. i - 1 \in 1..Len(t) /\ t[i - 1] = f
      BY <1>2, <1>4, <3>1, <3>2
    <3> QED
      BY <3>3
  <2>2. ASSUME NEW i \in 1..Len(t) PROVE deferred'[t[i]] = "open"
    <3>1. i + 1 \in 1..Len(s) /\ t[i] = s[i + 1]
      BY <1>2, <1>4
    <3> QED
      BY <1>1, <1>2, <1>5, <1>6, <3>1 DEF ChainOf
  <2> QED
    BY <2>1, <2>2
<1>8. \A i, j \in 1..Len(t) : t[i] = t[j] => i = j
  <2> SUFFICES ASSUME NEW i \in 1..Len(t), NEW j \in 1..Len(t), t[i] = t[j] PROVE i = j
    OBVIOUS
  <2>1. i + 1 \in 1..Len(s) /\ j + 1 \in 1..Len(s) /\ s[i + 1] = s[j + 1]
    BY <1>2, <1>4
  <2>2. i + 1 = j + 1
    BY <1>1, <2>1 DEF ChainOf
  <2> QED
    BY <2>2
<1>9. \A i \in 1..Len(t) : fpc'[t[i]] = "awaitPrevious" /\ previous'[t[i]] = s[i]
  <2> SUFFICES ASSUME NEW i \in 1..Len(t) PROVE fpc'[t[i]] = "awaitPrevious" /\ previous'[t[i]] = s[i]
    OBVIOUS
  <2>1. i + 1 \in 2..Len(s) /\ (i + 1) - 1 = i
    BY <1>2, <1>4
  <2>2. fpc[s[i + 1]] = "awaitPrevious" /\ previous[s[i + 1]] = s[(i + 1) - 1]
    BY <1>1, <2>1 DEF ChainOf
  <2> QED
    BY <1>4, <1>5, <2>1, <2>2
<1>10. \A i \in 2..Len(t) : previous'[t[i]] = t[i - 1]
  <2> SUFFICES ASSUME NEW i \in 2..Len(t) PROVE previous'[t[i]] = t[i - 1]
    OBVIOUS
  <2>1. i - 1 \in 1..Len(t) /\ (i - 1) + 1 = i
    BY <1>2, <1>4
  <2> QED
    BY <1>4, <1>9, <2>1
<1>11. Len(t) > 0 => cache' = t[Len(t)] /\ deferred'[previous'[t[1]]] # "open"
  <2> SUFFICES ASSUME Len(t) > 0 PROVE cache' = t[Len(t)] /\ deferred'[previous'[t[1]]] # "open"
    OBVIOUS
  <2>1. cache = s[Len(s)] /\ s[Len(s)] = t[Len(t)]
    BY <1>1, <1>2, <1>4 DEF ChainOf
  <2>2. cache # e
    BY <1>2, <1>4, <1>5, <2>1
  <2>3. previous'[t[1]] = e
    BY <1>3, <1>4, <1>9
  <2> QED
    BY <2>1, <2>2, <2>3
<1>12. ChainOf(t)'
  BY <1>7, <1>8, <1>9, <1>10, <1>11, <1>4, <1>2 DEF ChainOf
<1> QED
  BY <1>4, <1>12 DEF Chained

(* A new entry is the last of the chain. *)
LEMMA ChainGrows ==
  ASSUME StoreTypeOK, EntriesConsistent, Chained, NEW c \in Calls, fpc[c] = "none",
         NewEntry(c, cache, IF cache = None THEN "booting" ELSE "awaitPrevious")
  PROVE  Chained'
<1> USE StoreAssumption DEF StoreTypeOK, NewEntry
<1>1. PICK s \in Seq(Calls) : ChainOf(s)
  BY DEF Chained
<1>2. Len(s) \in Nat /\ \A i \in 1..Len(s) : s[i] \in Calls
  OBVIOUS
<1>3. deferred[c] = "none" /\ \A i \in 1..Len(s) : s[i] # c
  BY <1>1 DEF EntriesConsistent, ChainOf
<1> DEFINE t == Append(s, c)
<1>4. t \in Seq(Calls) /\ Len(t) = Len(s) + 1 /\ t[Len(t)] = c /\ \A i \in 1..Len(s) : t[i] = s[i]
  BY <1>2
<1> HIDE DEF t
<1>5. \A e \in Calls : e # c => deferred'[e] = deferred[e] /\ fpc'[e] = fpc[e] /\ previous'[e] = previous[e]
  OBVIOUS
<1>6. /\ deferred'[c] = "open" /\ previous'[c] = cache /\ cache' = c
      /\ fpc'[c] = IF cache = None THEN "booting" ELSE "awaitPrevious"
  OBVIOUS
<1>7. \A e \in Calls : deferred'[e] = "open" <=> \E i \in 1..Len(t) : t[i] = e
  <2>1. \A i \in 1..Len(t) : i = Len(t) \/ i \in 1..Len(s)
    BY <1>2, <1>4
  <2>2. \A i \in 1..Len(s) : i \in 1..Len(t)
    BY <1>2, <1>4
  <2>3. Len(t) \in 1..Len(t)
    BY <1>2, <1>4
  <2>4. ASSUME NEW e \in Calls, deferred'[e] = "open" PROVE \E i \in 1..Len(t) : t[i] = e
    <3>1. CASE e = c
      BY <1>4, <2>3, <3>1
    <3>2. CASE e # c
      <4>1. PICK i \in 1..Len(s) : s[i] = e
        BY <1>1, <1>5, <2>4, <3>2 DEF ChainOf
      <4> QED
        BY <1>4, <2>2, <4>1
    <3> QED
      BY <3>1, <3>2
  <2>5. ASSUME NEW i \in 1..Len(t) PROVE deferred'[t[i]] = "open"
    <3>1. CASE i = Len(t)
      BY <1>4, <1>6, <3>1
    <3>2. CASE i \in 1..Len(s)
      <4>1. t[i] = s[i] /\ s[i] \in Calls /\ s[i] # c /\ deferred[s[i]] = "open"
        BY <1>1, <1>2, <1>3, <1>4, <3>2 DEF ChainOf
      <4> QED
        BY <1>5, <4>1
    <3> QED
      BY <2>1, <3>1, <3>2
  <2> QED
    BY <2>4, <2>5
<1>8. \A i, j \in 1..Len(t) : t[i] = t[j] => i = j
  BY <1>1, <1>2, <1>3, <1>4 DEF ChainOf
<1>9. \A i \in 2..Len(t) : fpc'[t[i]] = "awaitPrevious" /\ previous'[t[i]] = t[i - 1]
  <2> SUFFICES ASSUME NEW i \in 2..Len(t) PROVE fpc'[t[i]] = "awaitPrevious" /\ previous'[t[i]] = t[i - 1]
    OBVIOUS
  <2>1. CASE i \in 2..Len(s)
    <3>1. i \in 1..Len(s) /\ i - 1 \in 1..Len(s)
      BY <1>2, <2>1
    <3>2. fpc[s[i]] = "awaitPrevious" /\ previous[s[i]] = s[i - 1]
      BY <1>1, <2>1 DEF ChainOf
    <3> QED
      BY <1>2, <1>3, <1>4, <1>5, <3>1, <3>2
  <2>2. CASE i = Len(t)
    <3>1. Len(s) > 0 /\ i - 1 = Len(s) /\ cache = s[Len(s)] /\ cache \in Calls
      BY <1>1, <1>2, <1>4, <2>2 DEF ChainOf
    <3> QED
      BY <1>2, <1>4, <1>6, <2>2, <3>1
  <2> QED
    BY <1>2, <1>4, <2>1, <2>2
<1>10. fpc'[t[1]] = "awaitPrevious" => deferred'[previous'[t[1]]] # "open"
  <2>1. CASE Len(s) = 0
    <3>1. t[1] = c /\ cache # c
      BY <1>3, <1>4, <2>1 DEF EntriesConsistent
    <3>2. cache # None => deferred[cache] # "open"
      BY <1>1, <2>1 DEF ChainOf
    <3> QED
      BY <1>5, <1>6, <3>1, <3>2
  <2>2. CASE Len(s) > 0
    <3>1. t[1] = s[1] /\ s[1] \in Calls /\ s[1] # c
      BY <1>2, <1>3, <1>4, <2>2
    <3>2. fpc[s[1]] = "awaitPrevious" =>
            /\ deferred[previous[s[1]]] \notin {"none", "open"}
            /\ previous[s[1]] \in Calls
      BY <1>1, <2>2, <3>1 DEF ChainOf, EntriesConsistent
    <3> QED
      BY <1>3, <1>5, <3>1, <3>2
  <2> QED
    BY <1>2, <2>1, <2>2
<1>11. ChainOf(t)'
  BY <1>4, <1>6, <1>7, <1>8, <1>9, <1>10 DEF ChainOf
<1> QED
  BY <1>4, <1>11 DEF Chained

(* A call that has not been made is named nowhere. *)
LEMMA FreshEntry ==
  ASSUME StoreTypeOK, EntriesConsistent, NEW c \in Calls, pc[c] = "ready"
  PROVE  /\ fpc[c] = "none" /\ deferred[c] = "none" /\ previous[c] = None
         /\ cache # c /\ c \notin alive /\ \A e \in Calls : previous[e] # c
  BY StoreAssumption DEF StoreTypeOK, EntriesConsistent

(* The chain is kept by every step. *)
LEMMA ChainNext ==
  ASSUME StoreTypeOK, EntriesConsistent, CallsConsistent, UsersHold, Chained, [StoreNext]_storeVars
  PROVE  Chained'
<1> USE StoreAssumption DEF callVars, entryVars, stateVars, storeVars
<1>1. ASSUME UNCHANGED <<cache, deferred, previous, fpc>> PROVE Chained'
  BY <1>1, ChainStays
<1>2. ASSUME NEW c \in Calls, LoadCreates(c) \/ Reload(c) PROVE Chained'
  <2>1. fpc[c] = "none"
    BY <1>2, FreshEntry DEF LoadCreates, Reload, Enter
  <2>2. NewEntry(c, cache, IF cache = None THEN "booting" ELSE "awaitPrevious")
    BY <1>2 DEF LoadCreates, Reload
  <2> QED
    BY <2>1, <2>2, ChainGrows
<1>3. ASSUME NEW c \in Calls, Start(c), ~LoadCreates(c), ~Reload(c) PROVE Chained'
  BY <1>1, <1>3 DEF Start, LoadJoins, DisposeDirectory, DisposeAll, Dispose
<1>4. ASSUME NEW c \in Calls, DisposesFailed(c) \/ DisposalEnds(c) PROVE Chained'
  <2>1. entry[c] = None \/ deferred[entry[c]] # "open"
    BY <1>4 DEF DisposesFailed, DisposalEnds, CallsConsistent
  <2>2. UNCHANGED <<deferred, previous, fpc>> /\ cache' = IF cache = entry[c] THEN None ELSE cache
    BY <1>4 DEF DisposesFailed, DisposalEnds, RemoveEntry
  <2>3. cache' = cache \/ deferred[cache] # "open" \/ cache = None
    BY <2>1, <2>2
  <2> QED
    BY <2>2, <2>3, ChainStays
<1>5. ASSUME NEW c \in Calls, CallStep(c) \/ Request(c), ~DisposesFailed(c), ~DisposalEnds(c) PROVE Chained'
  BY <1>1, <1>5 DEF CallStep, Request, LoadReturns, JoinedReturns, DisposesNothing, DisposesEntry,
                    LoadAbandoned, Uses, UseEnds, BootTouches
<1>6. ASSUME NEW e \in Calls, ReloadDisposes(e) \/ ReloadBoots(e) PROVE Chained'
  <2>1. First(e) /\ fpc'[e] # "awaitPrevious" /\ UNCHANGED <<deferred, cache>>
    BY <1>6 DEF ReloadDisposes, ReloadBoots, PreviousSettled, First, EntriesConsistent, StoreTypeOK
  <2>2. \A f \in Calls : f # e => fpc'[f] = fpc[f] /\ previous'[f] = previous[f]
    BY <1>6 DEF ReloadDisposes, ReloadBoots, StoreTypeOK
  <2> QED
    BY <2>1, <2>2, ChainStays
<1>7. ASSUME NEW e \in Calls, BootSucceeds(e) \/ BootFails(e) PROVE Chained'
  <2>1. PICK v \in {"ok", "failed"} : deferred' = [deferred EXCEPT ![e] = v]
    BY <1>7 DEF BootSucceeds, BootFails
  <2>2. fpc[e] = "booting" /\ fpc' = [fpc EXCEPT ![e] = "ended"] /\ UNCHANGED previous /\ (cache' = cache \/ cache = e)
    BY <1>7 DEF BootSucceeds, BootFails, RemoveEntry
  <2> QED
    BY <2>1, <2>2, ChainSettles
<1> QED
  BY <1>1, <1>2, <1>3, <1>4, <1>5, <1>6, <1>7 DEF StoreNext, FiberStep

(* Entries go their way from step to step. *)
LEMMA EntriesNext ==
  ASSUME StoreTypeOK, EntriesConsistent, CallsConsistent, [StoreNext]_storeVars
  PROVE  EntriesConsistent'
<1> USE StoreAssumption DEF StoreTypeOK, callVars, entryVars, stateVars, storeVars
<1>1. ASSUME UNCHANGED <<deferred, previous, fpc>>, cache' \in {cache, None}, alive' \subseteq alive,
             \A c \in Calls : pc'[c] = "ready" => pc[c] = "ready"
      PROVE  EntriesConsistent'
  BY <1>1 DEF EntriesConsistent
<1>2. ASSUME NEW c \in Calls, LoadCreates(c) \/ Reload(c) PROVE EntriesConsistent'
  <2>1. /\ NewEntry(c, cache, IF cache = None THEN "booting" ELSE "awaitPrevious") /\ UNCHANGED alive
        /\ pc[c] = "ready" /\ pc' = [pc EXCEPT ![c] = "await"]
    BY <1>2 DEF LoadCreates, Reload, Enter
  <2> QED
    BY <2>1, FreshEntry DEF NewEntry, EntriesConsistent
<1>3. ASSUME NEW c \in Calls, Start(c), ~LoadCreates(c), ~Reload(c) PROVE EntriesConsistent'
  <2>1. UNCHANGED entryVars /\ alive' \subseteq alive
    BY <1>3 DEF Start, LoadJoins, DisposeDirectory, DisposeAll, Dispose, RunDisposers
  <2>2. \E to : pc' = [pc EXCEPT ![c] = to] /\ to # "ready"
    BY <1>3 DEF Start, LoadJoins, DisposeDirectory, DisposeAll, Dispose, Enter, Return
  <2> QED
    BY <1>1, <2>1, <2>2
<1>4. ASSUME NEW c \in Calls, CallStep(c) \/ Request(c) PROVE EntriesConsistent'
  <2>1. UNCHANGED <<deferred, previous, fpc>> /\ cache' \in {cache, None} /\ alive' \subseteq alive
    BY <1>4 DEF CallStep, Request, LoadReturns, JoinedReturns, DisposesFailed, DisposesNothing, DisposesEntry,
                DisposalEnds, LoadAbandoned, Uses, UseEnds, BootTouches, Touch, RemoveEntry, RunDisposers
  <2>2. pc' = pc \/ \E to : pc' = [pc EXCEPT ![c] = to] /\ to # "ready"
    BY <1>4 DEF CallStep, Request, LoadReturns, JoinedReturns, DisposesFailed, DisposesNothing, DisposesEntry,
                DisposalEnds, LoadAbandoned, Uses, UseEnds, BootTouches, Goto, Return
  <2> QED
    BY <1>1, <2>1, <2>2
<1>5. ASSUME NEW e \in Calls, FiberStep(e) PROVE EntriesConsistent'
  <2>1. CASE ReloadDisposes(e)
    BY <2>1 DEF ReloadDisposes, RunDisposers, EntriesConsistent
  <2>2. CASE ReloadBoots(e)
    BY <2>2 DEF ReloadBoots, EntriesConsistent
  <2>3. CASE BootSucceeds(e)
    BY <2>3 DEF BootSucceeds, EntriesConsistent
  <2>4. CASE BootFails(e)
    <3>1. /\ fpc[e] = "booting" /\ fpc' = [fpc EXCEPT ![e] = "ended"] /\ deferred' = [deferred EXCEPT ![e] = "failed"]
          /\ UNCHANGED <<previous, alive, pc>> /\ cache' = IF cache = e THEN None ELSE cache
      BY <2>4 DEF BootFails, RemoveEntry
    <3>2. deferred[e] = "open" /\ e \notin alive
      BY <3>1 DEF EntriesConsistent
    <3> QED
      BY <3>1, <3>2 DEF EntriesConsistent
  <2> QED
    BY <1>5, <2>1, <2>2, <2>3, <2>4 DEF FiberStep
<1>6. CASE UNCHANGED storeVars
  BY <1>1, <1>6
<1> QED
  BY <1>2, <1>3, <1>4, <1>5, <1>6 DEF StoreNext

(* What a call awaits was made, what it uses has booted, and what it is    *)
(* disposing of does not run any more.                                     *)
LEMMA CallsNext ==
  ASSUME StoreTypeOK, UsersHold, EntriesConsistent, CallsConsistent, [StoreNext]_storeVars
  PROVE  CallsConsistent'
<1> USE StoreAssumption DEF StoreTypeOK, UsersHold, callVars, entryVars, stateVars, storeVars
<1> DEFINE Grows == \A e \in Calls : /\ deferred[e] # "none" => deferred'[e] # "none"
                                     /\ deferred[e] = "ok" => deferred'[e] = "ok"
                                     /\ deferred[e] = "ok" /\ e \in alive' => e \in alive
<1>0. ASSUME Grows, NEW d \in Calls, pc'[d] = pc[d], entry'[d] = entry[d]
      PROVE  /\ pc'[d] = "await" => deferred'[entry'[d]] # "none"
             /\ pc'[d] = "using" => deferred'[entry'[d]] = "ok"
             /\ pc'[d] = "disposing" /\ entry'[d] # None => deferred'[entry'[d]] = "ok" /\ entry'[d] \notin alive'
  BY <1>0 DEF CallsConsistent
<1>1. ASSUME Grows, UNCHANGED <<pc, entry>> PROVE CallsConsistent'
  BY <1>0, <1>1 DEF CallsConsistent
<1>2. ASSUME Grows, NEW c \in Calls, NEW at \in {"await", "using", "disposing", "joined", "over"}, NEW e \in Calls \cup {None},
             pc' = [pc EXCEPT ![c] = at], entry' = [entry EXCEPT ![c] = e],
             at = "await" => deferred'[e] # "none",
             at = "using" => deferred'[e] = "ok",
             at = "disposing" /\ e # None => deferred'[e] = "ok" /\ e \notin alive'
      PROVE  CallsConsistent'
  <2>1. \A d \in Calls : d # c => pc'[d] = pc[d] /\ entry'[d] = entry[d]
    BY <1>2
  <2>2. pc'[c] = at /\ entry'[c] = e
    BY <1>2
  <2> QED
    BY <1>0, <1>2, <2>1, <2>2 DEF CallsConsistent
<1>3. ASSUME UNCHANGED deferred, alive' \subseteq alive PROVE Grows
  BY <1>3
<1>4. ASSUME NEW c \in Calls, NEW k, NEW e, Enter(c, k, "await", e), e \in Calls, deferred'[e] # "none", Grows
      PROVE  CallsConsistent'
  BY <1>2, <1>4 DEF Enter
<1>5. cache # None => cache \in Calls /\ deferred[cache] # "none"
  BY DEF EntriesConsistent
<1>6. ASSUME NEW c \in Calls, Return(c), UNCHANGED deferred, alive' \subseteq alive PROVE CallsConsistent'
  BY <1>2, <1>3, <1>6 DEF Return
<1>7. ASSUME NEW c \in Calls, LoadCreates(c) \/ Reload(c) PROVE CallsConsistent'
  <2>1. Grows /\ deferred'[c] # "none"
    BY <1>7, FreshEntry DEF LoadCreates, Reload, NewEntry, Enter
  <2> QED
    BY <1>4, <1>7, <2>1 DEF LoadCreates, Reload
<1>8. ASSUME NEW c \in Calls, LoadJoins(c) PROVE CallsConsistent'
  BY <1>3, <1>4, <1>5, <1>8 DEF LoadJoins
<1>9. ASSUME NEW c \in Calls, NEW x \in Calls, Dispose(c, x) PROVE CallsConsistent'
  <2>1. CASE cache = None
    BY <1>2, <1>3, <1>9, <2>1 DEF Dispose, Enter, RunDisposers
  <2>2. CASE cache # None
    BY <1>3, <1>4, <1>5, <1>9, <2>2 DEF Dispose
  <2> QED
    BY <2>1, <2>2
<1>10. ASSUME NEW c \in Calls, DisposeDirectory(c) PROVE CallsConsistent'
  BY <1>3, <1>4, <1>5, <1>6, <1>10 DEF DisposeDirectory
<1>11. ASSUME NEW c \in Calls, DisposeAll(c) PROVE CallsConsistent'
  <2>1. UNCHANGED <<deferred, alive>>
    BY <1>11 DEF DisposeAll
  <2>2. ASSUME NEW d \in Calls, Enter(c, "disposeAll", "joined", d) PROVE CallsConsistent'
    BY <1>2, <1>3, <2>1, <2>2 DEF Enter
  <2> QED
    BY <1>3, <1>4, <1>5, <1>6, <1>11, <2>1, <2>2 DEF DisposeAll
<1>12. ASSUME NEW c \in Calls, NEW at \in {"using", "disposing"}, Goto(c, at), deferred[entry[c]] = "ok",
              at = "disposing" => alive' = {}, UNCHANGED deferred, alive' \subseteq alive
       PROVE  CallsConsistent'
  BY <1>12 DEF Goto, CallsConsistent
<1>13. ASSUME NEW c \in Calls, CallStep(c) \/ LoadAbandoned(c) \/ UseEnds(c) PROVE CallsConsistent'
  <2>1. CASE LoadReturns(c)
    BY <1>6, <1>12, <2>1 DEF LoadReturns
  <2>2. CASE DisposesEntry(c)
    BY <1>12, <2>2 DEF DisposesEntry, RunDisposers
  <2> QED
    BY <1>6, <1>13, <2>1, <2>2 DEF CallStep, JoinedReturns, DisposesFailed, DisposesNothing, DisposalEnds,
                                   LoadAbandoned, UseEnds
<1>14. ASSUME NEW c \in Calls, FiberStep(c) \/ Uses(c) \/ BootTouches(c) PROVE CallsConsistent'
  <2>1. UNCHANGED <<pc, entry>>
    BY <1>14 DEF FiberStep, ReloadDisposes, ReloadBoots, BootSucceeds, BootFails, Uses, BootTouches
  <2>2. Grows
    BY <1>14 DEF FiberStep, ReloadDisposes, ReloadBoots, BootSucceeds, BootFails, Uses, BootTouches, Touch,
                 RunDisposers, EntriesConsistent
  <2> QED
    BY <1>1, <2>1, <2>2
<1>15. CASE UNCHANGED storeVars
  BY <1>1, <1>15
<1> QED
  BY <1>7, <1>8, <1>9, <1>10, <1>11, <1>13, <1>14, <1>15 DEF StoreNext, Start, Request

(* When a fiber is at work, no instance of the directory runs. *)
LEMMA WorkAlone ==
  ASSUME StoreTypeOK, EntriesConsistent, Chained, CacheTruthful, NEW e \in Calls, First(e), fpc[e] # "awaitPrevious"
  PROVE  alive = {} /\ cache \in Calls /\ deferred[cache] = "open"
<1>1. cache \in Calls /\ deferred[cache] = "open"
  BY ChainFacts DEF First
<1>2. ASSUME NEW x \in alive PROVE FALSE
  <2>1. x \in Calls /\ deferred[x] = "ok" /\ cache # x
    BY <1>1, <1>2 DEF StoreTypeOK, EntriesConsistent
  <2>2. PICK f \in Calls : fpc[f] = "awaitPrevious" /\ previous[f] = x
    BY <1>2, <2>1 DEF CacheTruthful, Replaced
  <2>3. First(f)
    BY <2>1, <2>2 DEF First, EntriesConsistent
  <2> QED
    BY <2>2, <2>3, ChainFacts
<1> QED
  BY <1>1, <1>2

(* Where the chain is empty, the entry in the cache has not been replaced. *)
LEMMA SettledAlone ==
  ASSUME StoreTypeOK, EntriesConsistent, Chained, CacheTruthful, cache # None => deferred[cache] # "open"
  PROVE  /\ \A e \in Calls : deferred[e] # "open"
         /\ \A x \in alive : cache = x
<1>1. \A e \in Calls : deferred[e] # "open"
  BY StoreAssumption, ChainFacts
<1> QED
  BY <1>1 DEF StoreTypeOK, EntriesConsistent, CacheTruthful, Replaced

(* The cache tells the truth after every step. *)
LEMMA TruthNext ==
  ASSUME StoreTypeOK, UsersHold, EntriesConsistent, CallsConsistent, Chained, CacheTruthful, [StoreNext]_storeVars
  PROVE  CacheTruthful'
<1> USE StoreAssumption DEF callVars, entryVars, stateVars, storeVars
<1>1. ASSUME UNCHANGED <<cache, deferred, previous, alive>>,
             \A f \in Calls : fpc[f] = "awaitPrevious" => fpc'[f] = "awaitPrevious",
             \A d \in Calls : pc[d] = "disposing" => pc'[d] = "disposing" /\ entry'[d] = entry[d]
      PROVE  CacheTruthful'
  <2>1. ASSUME NEW e \in alive' PROVE cache' = e \/ Replaced(e)'
    BY <1>1, <2>1 DEF CacheTruthful, Replaced
  <2>2. ASSUME cache' # None, deferred'[cache'] = "ok", cache' \notin alive'
        PROVE  \E d \in Calls : pc'[d] = "disposing" /\ entry'[d] = cache'
    BY <1>1, <2>2 DEF CacheTruthful
  <2> QED
    BY <2>1, <2>2 DEF CacheTruthful
<1>2. ASSUME NEW c \in Calls, pc[c] # "disposing", UNCHANGED entryVars, UNCHANGED alive,
             \A d \in Calls : d # c => pc'[d] = pc[d] /\ entry'[d] = entry[d]
      PROVE  CacheTruthful'
  BY <1>1, <1>2
<1>3. ASSUME NEW c \in Calls, Start(c), ~LoadCreates(c), ~Reload(c), UNCHANGED alive PROVE CacheTruthful'
  <2>1. pc[c] = "ready" /\ UNCHANGED entryVars
    BY <1>3 DEF Start, LoadJoins, DisposeDirectory, DisposeAll, Dispose, Enter, Return
  <2>2. \E at, e : pc' = [pc EXCEPT ![c] = at] /\ entry' = [entry EXCEPT ![c] = e]
    BY <1>3 DEF Start, LoadJoins, DisposeDirectory, DisposeAll, Dispose, Enter, Return
  <2>3. \A d \in Calls : d # c => pc'[d] = pc[d] /\ entry'[d] = entry[d]
    BY <2>2 DEF StoreTypeOK
  <2> QED
    BY <1>2, <1>3, <2>1, <2>3
<1>4. ASSUME NEW c \in Calls, Start(c), ~UNCHANGED alive PROVE CacheTruthful'
  <2>1. cache' = None /\ alive' = {}
    BY <1>4 DEF Start, LoadJoins, LoadCreates, Reload, DisposeDirectory, DisposeAll, Dispose, RunDisposers
  <2> QED
    BY <2>1 DEF CacheTruthful
<1>5. ASSUME NEW c \in Calls, LoadCreates(c) \/ Reload(c) PROVE CacheTruthful'
  <2>1. /\ NewEntry(c, cache, IF cache = None THEN "booting" ELSE "awaitPrevious") /\ UNCHANGED alive
        /\ pc[c] = "ready"
    BY <1>5 DEF LoadCreates, Reload, Enter
  <2>2. cache' = c /\ deferred'[c] = "open" /\ previous'[c] = cache /\ (cache # None => fpc'[c] = "awaitPrevious")
    BY <2>1 DEF NewEntry, StoreTypeOK
  <2>3. \A f \in Calls : f # c => fpc'[f] = fpc[f] /\ previous'[f] = previous[f]
    BY <2>1 DEF NewEntry, StoreTypeOK
  <2>4. fpc[c] = "none"
    BY <2>1, FreshEntry
  <2>5. ASSUME NEW e \in alive PROVE Replaced(e)'
    <3>1. cache # None /\ (cache = e \/ Replaced(e))
      BY <2>5 DEF CacheTruthful, Replaced, StoreTypeOK
    <3> QED
      BY <2>2, <2>3, <2>4, <3>1 DEF Replaced
  <2> QED
    BY <2>1, <2>2, <2>5 DEF CacheTruthful
<1>6. ASSUME NEW c \in Calls, LoadReturns(c) \/ JoinedReturns(c) \/ DisposesNothing(c) \/ LoadAbandoned(c) \/ Uses(c)
                              \/ UseEnds(c) \/ BootTouches(c)
      PROVE  CacheTruthful'
  <2>1. UNCHANGED entryVars /\ UNCHANGED alive
    BY <1>6 DEF LoadReturns, JoinedReturns, DisposesNothing, LoadAbandoned, Uses, UseEnds, BootTouches, Touch
  <2>2. \/ UNCHANGED <<pc, entry>>
        \/ pc[c] # "disposing" /\ \E at, e : pc' = [pc EXCEPT ![c] = at] /\ entry' = [entry EXCEPT ![c] = e]
    <3>1. entry = [entry EXCEPT ![c] = entry[c]]
      BY DEF StoreTypeOK
    <3> QED
      BY <1>6, <3>1 DEF LoadReturns, JoinedReturns, DisposesNothing, Awaited, LoadAbandoned, Uses, UseEnds, BootTouches,
                        Goto, Return
  <2>3. CASE UNCHANGED <<pc, entry>>
    BY <1>1, <2>1, <2>3
  <2>4. CASE pc[c] # "disposing" /\ \E at, e : pc' = [pc EXCEPT ![c] = at] /\ entry' = [entry EXCEPT ![c] = e]
    <3>1. \A d \in Calls : d # c => pc'[d] = pc[d] /\ entry'[d] = entry[d]
      BY <2>4 DEF StoreTypeOK
    <3> QED
      BY <1>2, <2>1, <2>4, <3>1
  <2> QED
    BY <2>2, <2>3, <2>4
<1>7. ASSUME NEW c \in Calls, DisposesEntry(c) PROVE CacheTruthful'
  <2>1. cache' = cache /\ cache = entry[c] /\ alive' = {} /\ pc'[c] = "disposing" /\ entry'[c] = entry[c]
    BY <1>7 DEF DisposesEntry, StaleDisposal, RunDisposers, Goto, StoreTypeOK
  <2> QED
    BY <2>1 DEF CacheTruthful
<1>8. ASSUME NEW c \in Calls, DisposesFailed(c) \/ DisposalEnds(c) PROVE CacheTruthful'
  <2>1. /\ UNCHANGED <<deferred, previous, fpc, alive>> /\ cache' = IF cache = entry[c] THEN None ELSE cache
        /\ pc' = [pc EXCEPT ![c] = "over"] /\ entry' = [entry EXCEPT ![c] = None]
    BY <1>8 DEF DisposesFailed, DisposalEnds, RemoveEntry, Return
  <2>2. \A d \in Calls : d # c => pc'[d] = pc[d] /\ entry'[d] = entry[d]
    BY <2>1 DEF StoreTypeOK
  <2>3. entry[c] # None => deferred[entry[c]] \in {"failed", "ok"} /\ entry[c] \notin alive
    BY <1>8 DEF DisposesFailed, DisposalEnds, CallsConsistent, EntriesConsistent
  <2>4. CASE cache = entry[c]
    <3>1. alive = {}
      <4>1. CASE cache # None
        BY <2>3, <2>4, <4>1, SettledAlone
      <4>2. CASE cache = None
        BY <4>2 DEF CacheTruthful, Replaced, StoreTypeOK
      <4> QED
        BY <4>1, <4>2
    <3> QED
      BY <2>1, <2>4, <3>1 DEF CacheTruthful
  <2>5. CASE cache # entry[c]
    <3>1. cache' = cache
      BY <2>1, <2>5
    <3>2. ASSUME NEW e \in alive' PROVE cache' = e \/ Replaced(e)'
      BY <2>1, <3>1, <3>2 DEF CacheTruthful, Replaced
    <3>3. ASSUME cache' # None, deferred'[cache'] = "ok", cache' \notin alive'
          PROVE  \E d \in Calls : pc'[d] = "disposing" /\ entry'[d] = cache'
      <4>1. PICK d \in Calls : pc[d] = "disposing" /\ entry[d] = cache
        BY <2>1, <3>1, <3>3 DEF CacheTruthful
      <4> QED
        BY <2>2, <2>5, <3>1, <4>1
    <3> QED
      BY <3>2, <3>3 DEF CacheTruthful
  <2> QED
    BY <2>4, <2>5
<1>9. ASSUME NEW e \in Calls, ReloadDisposes(e) PROVE CacheTruthful'
  <2>1. deferred[e] = "open"
    BY <1>9 DEF ReloadDisposes, EntriesConsistent
  <2>2. deferred[cache] = "open" /\ cache' = cache /\ deferred' = deferred /\ alive' = {}
    BY <1>9, <2>1, ChainFacts DEF ReloadDisposes, RunDisposers
  <2> QED
    BY <2>2 DEF CacheTruthful
<1>10. ASSUME NEW e \in Calls, ReloadBoots(e) PROVE CacheTruthful'
  <2>1. UNCHANGED <<cache, deferred, previous, alive, pc, entry>>
    BY <1>10 DEF ReloadBoots
  <2>2. \A f \in Calls : fpc[f] = "awaitPrevious" => fpc'[f] = "awaitPrevious"
    BY <1>10 DEF ReloadBoots, StoreTypeOK
  <2> QED
    BY <1>1, <2>1, <2>2
<1>11. ASSUME NEW e \in Calls, BootSucceeds(e) \/ BootFails(e) PROVE CacheTruthful'
  <2>1. First(e) /\ fpc[e] # "awaitPrevious"
    BY <1>11 DEF BootSucceeds, BootFails, First, EntriesConsistent
  <2>2. alive = {} /\ cache \in Calls /\ deferred[cache] = "open"
    BY <2>1, WorkAlone
  <2>3. \A f \in Calls : f # e => deferred'[f] = deferred[f] /\ fpc'[f] = fpc[f]
    BY <1>11 DEF BootSucceeds, BootFails, StoreTypeOK
  <2>4. CASE BootFails(e)
    <3>0. alive' = alive /\ cache' = IF cache = e THEN None ELSE cache
      BY <2>4 DEF BootFails, RemoveEntry
    <3>1. alive' = {} /\ (cache' = None \/ (cache' = cache /\ cache # e))
      BY <2>2, <3>0
    <3>2. cache' # None => deferred'[cache'] = "open"
      BY <2>2, <2>3, <3>1
    <3> QED
      BY <3>1, <3>2 DEF CacheTruthful
  <2>5. CASE BootSucceeds(e)
    <3>1. alive' = {e} /\ cache' = cache /\ previous' = previous
      BY <2>2, <2>5 DEF BootSucceeds
    <3>2. e = cache \/ \E f \in Calls : fpc[f] = "awaitPrevious" /\ previous[f] = e
      BY <2>1, ChainFacts
    <3>3. e = cache' \/ Replaced(e)'
      BY <2>1, <2>2, <2>3, <3>1, <3>2 DEF Replaced
    <3>4. cache # e => deferred'[cache'] = "open"
      BY <2>2, <2>3, <3>1
    <3> QED
      BY <3>1, <3>3, <3>4 DEF CacheTruthful
  <2> QED
    BY <1>11, <2>4, <2>5
<1>12. CASE UNCHANGED storeVars
  BY <1>1, <1>12
<1> QED
  BY <1>3, <1>4, <1>5, <1>6, <1>7, <1>8, <1>9, <1>10, <1>11, <1>12 DEF StoreNext, CallStep, FiberStep, Request

(* The state of the service has an owner after every step, or is stray. *)
LEMMA CellNext ==
  ASSUME StoreTypeOK, EntriesConsistent, CellTraced, [StoreNext]_storeVars
  PROVE  CellTraced'
<1> USE StoreAssumption DEF callVars, entryVars, stateVars, storeVars
<1>1. ASSUME UNCHANGED stateVars, \A e \in Calls : fpc[e] = "booting" => fpc'[e] = "booting" PROVE CellTraced'
  BY <1>1 DEF CellTraced, StoreTypeOK
<1>2. ASSUME RunDisposers PROVE CellTraced'
  BY <1>2 DEF RunDisposers, CellTraced
<1>3. ASSUME NEW c \in Calls, Start(c) PROVE CellTraced'
  <2>1. RunDisposers \/ UNCHANGED stateVars
    BY <1>3 DEF Start, LoadJoins, LoadCreates, Reload, DisposeDirectory, DisposeAll, Dispose
  <2>2. CASE LoadCreates(c) \/ Reload(c)
    <3>1. pc[c] = "ready" /\ NewEntry(c, cache, IF cache = None THEN "booting" ELSE "awaitPrevious")
      BY <2>2 DEF LoadCreates, Reload, Enter
    <3>2. \A e \in Calls : fpc[e] = "booting" => fpc'[e] = "booting"
      BY <3>1, FreshEntry DEF StoreTypeOK, NewEntry
    <3> QED
      BY <1>1, <1>2, <2>1, <3>2
  <2>3. CASE ~LoadCreates(c) /\ ~Reload(c)
    <3>1. UNCHANGED fpc
      BY <1>3, <2>3 DEF Start, LoadJoins, DisposeDirectory, DisposeAll, Dispose
    <3> QED
      BY <1>1, <1>2, <2>1, <3>1
  <2> QED
    BY <2>2, <2>3
<1>4. ASSUME NEW c \in Calls, CallStep(c) \/ LoadAbandoned(c) \/ UseEnds(c) PROVE CellTraced'
  <2>1. (RunDisposers \/ UNCHANGED stateVars) /\ UNCHANGED fpc
    BY <1>4 DEF CallStep, LoadReturns, JoinedReturns, DisposesFailed, DisposesNothing, DisposesEntry, DisposalEnds,
                LoadAbandoned, UseEnds
  <2> QED
    BY <1>1, <1>2, <2>1
<1>5. ASSUME NEW c \in Calls, Uses(c) PROVE CellTraced'
  <2>1. UNCHANGED <<fpc, alive>>
    BY <1>5 DEF Uses, Touch
  <2>2. CASE cell = None
    <3>1. cell' = entry[c] /\ stray' = ~(cache = entry[c] /\ entry[c] \in alive)
      BY <1>5, <2>2 DEF Uses, Touch, InForce
    <3> QED
      BY <2>1, <3>1 DEF CellTraced
  <2>3. CASE cell # None
    <3>1. UNCHANGED <<cell, stray>>
      BY <1>5, <2>3 DEF Uses, Touch
    <3> QED
      BY <2>1, <3>1 DEF CellTraced
  <2> QED
    BY <2>2, <2>3
<1>6. ASSUME NEW e \in Calls, BootTouches(e) PROVE CellTraced'
  BY <1>6 DEF BootTouches, CellTraced
<1>7. ASSUME NEW e \in Calls, ReloadDisposes(e) PROVE CellTraced'
  BY <1>2, <1>7 DEF ReloadDisposes
<1>8. ASSUME NEW e \in Calls, ReloadBoots(e) PROVE CellTraced'
  <2>1. UNCHANGED stateVars /\ \A f \in Calls : fpc[f] = "booting" => fpc'[f] = "booting"
    BY <1>8 DEF ReloadBoots, StoreTypeOK
  <2> QED
    BY <1>1, <2>1
<1>9. ASSUME NEW e \in Calls, BootSucceeds(e) PROVE CellTraced'
  <2>1. UNCHANGED <<cell, stray>> /\ alive' = alive \cup {e} /\ \A f \in Calls : f # e => fpc'[f] = fpc[f]
    BY <1>9 DEF BootSucceeds, StoreTypeOK
  <2> QED
    BY <2>1 DEF CellTraced, StoreTypeOK
<1>10. ASSUME NEW e \in Calls, BootFails(e) PROVE CellTraced'
  <2>1. UNCHANGED <<cell, alive>> /\ (~stray' => ~stray /\ cell # e) /\ \A f \in Calls : f # e => fpc'[f] = fpc[f]
    BY <1>10 DEF BootFails, StoreTypeOK
  <2> QED
    BY <2>1 DEF CellTraced, StoreTypeOK
<1>11. CASE UNCHANGED storeVars
  BY <1>1, <1>11
<1> QED
  BY <1>3, <1>4, <1>5, <1>6, <1>7, <1>8, <1>9, <1>10, <1>11 DEF StoreNext, FiberStep, Request

(* Every step of the store keeps the invariant. *)
LEMMA StoreInvNext ==
  StoreTypeOK /\ UsersHold /\ StoreInv /\ [StoreNext]_storeVars => (StoreTypeOK /\ UsersHold /\ StoreInv)'
<1> SUFFICES ASSUME StoreTypeOK, UsersHold, StoreInv, [StoreNext]_storeVars
             PROVE  (StoreTypeOK /\ UsersHold /\ StoreInv)'
  OBVIOUS
<1>1. EntriesConsistent /\ CallsConsistent /\ Chained /\ CacheTruthful /\ CellTraced
  BY DEF StoreInv
<1>2. EntriesConsistent' /\ CallsConsistent'
  BY <1>1, EntriesNext, CallsNext
<1>3. Chained' /\ CacheTruthful' /\ CellTraced'
  BY <1>1, ChainNext, TruthNext, CellNext
<1> QED
  BY <1>2, <1>3, StoreTypeNext DEF StoreInv

(* The inductive invariant is one. *)
LEMMA StoreInvariance == StoreSpec => [](StoreTypeOK /\ UsersHold /\ StoreInv)
<1>1. StoreInit => StoreTypeOK /\ UsersHold /\ StoreInv
  BY StoreTypeInit, StoreInvInit
<1> QED
  BY <1>1, StoreInvNext, PTL DEF StoreSpec

(* An instance that is running is found in the cache, or a reload that     *)
(* will dispose of it is, and a ready entry is of a running instance,      *)
(* unless it is being disposed of (instance-store.ts 65-106).              *)
THEOREM TrueCache == StoreSpec => []CacheTruthful
<1>1. StoreInv => CacheTruthful
  BY DEF StoreInv
<1> QED
  BY <1>1, StoreInvariance, PTL

(* The invariant gives FreshState. *)
LEMMA OwnState == StoreTypeOK /\ StoreInv => FreshState
<1> SUFFICES ASSUME StoreTypeOK, StoreInv, NEW e \in Calls, fpc[e] = "booting" \/ InForce(e), cell # None, ~stray
             PROVE  cell = e
  BY DEF FreshState
<1>1. EntriesConsistent /\ Chained /\ CacheTruthful /\ CellTraced /\ cell \in Calls
  BY DEF StoreInv, StoreTypeOK
<1>2. fpc[cell] = "booting" => First(cell)
  BY <1>1 DEF First, EntriesConsistent
<1>3. CASE fpc[e] = "booting"
  <2>1. First(e) /\ fpc[e] # "awaitPrevious"
    BY <1>1, <1>3 DEF First, EntriesConsistent
  <2>2. alive = {}
    BY <1>1, <2>1, WorkAlone
  <2> QED
    BY <1>1, <1>2, <2>1, <2>2, ChainFacts DEF CellTraced
<1>4. CASE InForce(e)
  <2>1. cache = e /\ e \in alive /\ deferred[e] = "ok"
    BY <1>1, <1>4 DEF InForce, EntriesConsistent
  <2>2. (\A f \in Calls : deferred[f] # "open") /\ \A x \in alive : cache = x
    BY <1>1, <2>1, SettledAlone
  <2> QED
    BY <1>1, <1>2, <2>1, <2>2 DEF CellTraced, First
<1> QED
  BY <1>3, <1>4

(* An instance works, from its boot on, with state made for itself, but    *)
(* for what a failed boot or a late request has left (instance-state.ts).  *)
THEOREM OwnStateAlways == StoreSpec => []FreshState
BY OwnState, StoreInvariance, PTL

(* The step of a boot that is alone. *)
LEMMA BootStep ==
  ASSUME StoreTypeOK, StoreInv, [StoreNext]_storeVars, NEW e \in Calls, fpc[e] = "booting"
  PROVE  /\ \A f \in Calls \ {e} : fpc'[f] # "booting"
         /\ cell # None => cell' = cell
<1> USE StoreAssumption DEF callVars, entryVars, stateVars, storeVars
<1>1. EntriesConsistent /\ Chained /\ CacheTruthful
  BY DEF StoreInv
<1>2. First(e) /\ fpc[e] # "awaitPrevious"
  BY <1>1 DEF First, EntriesConsistent
<1>3. cache \in Calls /\ deferred[cache] = "open"
  BY <1>1, <1>2, WorkAlone
<1>4. \A f \in Calls : fpc[f] \in {"disposing", "booting"} => f = e
  BY <1>1, <1>2, ChainFacts DEF First, EntriesConsistent
<1>5. \A f \in Calls : fpc[f] = "awaitPrevious" => ~PreviousSettled(f)
  BY <1>1, <1>2, ChainFacts DEF First, EntriesConsistent, PreviousSettled
<1>6. ASSUME UNCHANGED fpc, cell # None => cell' = cell PROVE (\A f \in Calls \ {e} : fpc'[f] # "booting") /\ (cell # None => cell' = cell)
  BY <1>4, <1>6
<1>7. ASSUME NEW c \in Calls, Start(c)
      PROVE  (\A f \in Calls \ {e} : fpc'[f] # "booting") /\ (cell # None => cell' = cell)
  <2>1. cell' = cell
    BY <1>3, <1>7 DEF Start, LoadJoins, LoadCreates, Reload, DisposeDirectory, DisposeAll, Dispose
  <2>2. UNCHANGED fpc \/ fpc' = [fpc EXCEPT ![c] = "awaitPrevious"]
    BY <1>3, <1>7 DEF Start, LoadJoins, LoadCreates, Reload, NewEntry, DisposeDirectory, DisposeAll, Dispose
  <2> QED
    BY <1>4, <2>1, <2>2 DEF StoreTypeOK
<1>8. ASSUME NEW c \in Calls, CallStep(c) \/ Request(c)
      PROVE  (\A f \in Calls \ {e} : fpc'[f] # "booting") /\ (cell # None => cell' = cell)
  <2>1. UNCHANGED fpc
    BY <1>8 DEF CallStep, Request, LoadReturns, JoinedReturns, DisposesFailed, DisposesNothing, DisposesEntry,
                DisposalEnds, LoadAbandoned, Uses, UseEnds, BootTouches
  <2>2. ~DisposesEntry(c)
    BY <1>3 DEF DisposesEntry, StaleDisposal
  <2>3. cell # None => cell' = cell
    BY <1>8, <2>2 DEF CallStep, Request, LoadReturns, JoinedReturns, DisposesFailed, DisposesNothing,
                      DisposalEnds, LoadAbandoned, Uses, Touch, UseEnds, BootTouches
  <2> QED
    BY <1>6, <2>1, <2>3
<1>9. ASSUME NEW f \in Calls, FiberStep(f)
      PROVE  (\A g \in Calls \ {e} : fpc'[g] # "booting") /\ (cell # None => cell' = cell)
  <2>1. ~ReloadDisposes(f)
    BY <1>5 DEF ReloadDisposes
  <2>2. f = e /\ cell' = cell /\ \E to : fpc' = [fpc EXCEPT ![f] = to]
    BY <1>4, <1>9, <2>1 DEF FiberStep, ReloadBoots, BootSucceeds, BootFails
  <2> QED
    BY <1>4, <2>2 DEF StoreTypeOK
<1>10. CASE UNCHANGED storeVars
  BY <1>6, <1>10
<1> QED
  BY <1>7, <1>8, <1>9, <1>10 DEF StoreNext

(* While a directory boots, no other entry of it starts to boot and the    *)
(* state the boot has made is not disposed of (instance-store.ts 126-182). *)
THEOREM BootsAlone == StoreSpec => BootAlone
<1> DEFINE Alone == \A e \in Calls : fpc[e] = "booting" =>
                      /\ \A f \in Calls \ {e} : fpc'[f] # "booting"
                      /\ cell # None => cell' = cell
<1>1. StoreTypeOK /\ StoreInv /\ [StoreNext]_storeVars => Alone
  BY BootStep
<1>2. StoreTypeOK /\ UsersHold /\ StoreInv /\ [StoreNext]_storeVars => [Alone]_storeVars
  BY <1>1
<1> HIDE DEF Alone
<1>3. StoreSpec => [][Alone]_storeVars
  BY <1>2, StoreInvariance, PTL DEF StoreSpec
<1> QED
  BY <1>3 DEF BootAlone, Alone

-------------------------------------------------------------------------------
(* The inductive invariant of the questions.  A question leaves `pending`  *)
(* for good when it is taken, so it has one taker (OneTaker), whose events *)
(* and answer are the only ones (EventsTold, AnswersMeant).                *)

Kinds == {"none", "answered", "rejected"}
Logs == Seq(Kinds)

QuestionTypeOK ==
  /\ qpc \in [Questions -> {"new", "publishing", "waiting", "returned", "interrupted"}]
  /\ pending \subseteq Questions
  /\ answered \in [Questions -> {"none", "open", "answered", "rejected"}]
  /\ rpc \in [Replies -> {"new", "publish", "complete", "done", "notFound", "interrupted"}]
  /\ rkind \in [Replies -> Kinds]
  /\ item \in [Replies -> Questions \cup {None}]
  /\ events \in [Questions -> Logs]
  /\ before \in [Calls -> SUBSET Questions]

Takers(q) == {r \in Replies : rpc[r] \notin {"new", "notFound"} /\ item[r] = q}

AskersConsistent ==
  \A q \in Questions :
    /\ answered[q] = "none" <=> qpc[q] = "new"
    /\ q \in pending => qpc[q] # "new" /\ Takers(q) = {}
    /\ qpc[q] = "new" => Takers(q) = {}
    /\ qpc[q] = "returned" => answered[q] # "open"

RepliesConsistent ==
  \A r \in Replies : rpc[r] \notin {"new", "notFound"} => item[r] \in Questions /\ rkind[r] # "none"

OneTaker == \A q \in Questions : \A r, s \in Takers(q) : r = s

EventsTold ==
  \A q \in Questions :
    /\ Takers(q) = {} => events[q] = <<>>
    /\ \A r \in Takers(q) :
         /\ rpc[r] = "publish" => events[q] = <<>>
         /\ rpc[r] \in {"complete", "done"} => events[q] = <<rkind[r]>>
         /\ rpc[r] = "interrupted" => events[q] \in {<<>>, <<rkind[r]>>}

AnswersMeant ==
  \A q \in Questions : answered[q] \in {"answered", "rejected"} =>
    \/ \E r \in Takers(q) : rpc[r] = "done" /\ rkind[r] = answered[q]
    \/ answered[q] = "rejected" /\ q \notin pending /\ Takers(q) = {}

(* What a reload has found pending stays so until the disposers run. *)
BeforeSettled ==
  \A c \in Calls : \A q \in before[c] :
    \/ fpc[c] = "awaitPrevious" /\ q \in pending
    \/ answered[q] \in {"answered", "rejected"}
    \/ qpc[q] = "interrupted"
    \/ \E r \in Replies : Settling(r, q)

QuestionInv ==
  /\ QuestionTypeOK /\ AskersConsistent /\ RepliesConsistent /\ OneTaker
  /\ EventsTold /\ AnswersMeant /\ QuestionReachable /\ BeforeSettled

(* QuestionInv holds before anything is asked. *)
LEMMA QuestionInvInit == Init => QuestionInv
<1> SUFFICES ASSUME Init PROVE QuestionInv
  OBVIOUS
<1> USE DEF Init
<1>1. QuestionTypeOK
  <2>1. <<>> \in Logs
    BY DEF Logs
  <2> QED
    BY <2>1 DEF QuestionTypeOK, Kinds
<1>2. \A q \in Questions : Takers(q) = {}
  BY DEF Takers
<1> QED
  BY <1>1, <1>2 DEF QuestionInv, AskersConsistent, RepliesConsistent, OneTaker, EventsTold, AnswersMeant,
                    QuestionReachable, BeforeSettled

(* A request that gets the state is a step of the store: it makes the     *)
(* state or meets it, and disposes of nothing.                            *)
LEMMA GetsStateIs ==
  ASSUME StoreTypeOK, UsersHold, GetsState
  PROVE  StoreNext /\ UNCHANGED fpc /\ cell' # None /\ (cell # None => cell' = cell)
<1>1. PICK c \in Calls : pc[c] = "using" /\ Touch(entry[c]) /\ UNCHANGED <<callVars, entryVars>>
  BY DEF GetsState
<1>2. StoreNext
  BY <1>1 DEF StoreNext, Request, Uses
<1>3. entry[c] # None /\ UNCHANGED fpc
  BY <1>1 DEF UsersHold, entryVars
<1>4. cell' # None /\ (cell # None => cell' = cell)
  BY <1>1, <1>3 DEF Touch
<1> QED
  BY <1>2, <1>3, <1>4

(* Every step is one of the store, or does not touch it. *)
LEMMA NextStore == ASSUME StoreTypeOK, UsersHold, [Next]_vars PROVE [StoreNext]_storeVars
<1>1. CASE StoreStep
  BY <1>1 DEF StoreStep
<1>2. ASSUME NEW q \in Questions, AskStep(q) PROVE [StoreNext]_storeVars
  BY <1>2, GetsStateIs DEF AskStep, Ask, Asked, AskReturns, AskInterrupted
<1>3. ASSUME NEW r \in Replies, ReplyStep(r) PROVE [StoreNext]_storeVars
  BY <1>3, GetsStateIs DEF ReplyStep, NotFound, Takes, Publishes, Completes, ReplyInterrupted
<1>4. CASE UNCHANGED vars
  BY <1>4 DEF vars
<1> QED
  BY <1>1, <1>2, <1>3, <1>4 DEF Next

(* What the questions see of a step of the store: a reload that takes the *)
(* place of an entry waits, until it runs the disposers.                  *)
LEMMA ReloadWaits ==
  ASSUME StoreTypeOK, EntriesConsistent, StoreNext
  PROVE  /\ \A c \in Calls : fpc[c] = "awaitPrevious" => fpc'[c] = "awaitPrevious" \/ cell' = None
         /\ \A c \in Calls : cache # None /\ cache' = c /\ cache # c => fpc'[c] = "awaitPrevious" /\ cell' = cell
<1> USE StoreAssumption DEF callVars, entryVars, stateVars, storeVars
<1> DEFINE Claim == /\ \A c \in Calls : fpc[c] = "awaitPrevious" => fpc'[c] = "awaitPrevious" \/ cell' = None
                    /\ \A c \in Calls : cache # None /\ cache' = c /\ cache # c =>
                         fpc'[c] = "awaitPrevious" /\ cell' = cell
<1>1. ASSUME UNCHANGED fpc, cache' \in {cache, None} PROVE Claim
  BY <1>1
<1>2. ASSUME NEW c \in Calls, LoadCreates(c) \/ Reload(c) PROVE Claim
  <2>1. fpc[c] = "none" /\ NewEntry(c, cache, IF cache = None THEN "booting" ELSE "awaitPrevious")
    BY <1>2, FreshEntry DEF LoadCreates, Reload, Enter
  <2>2. cell' = cell
    BY <1>2 DEF LoadCreates, Reload
  <2> QED
    BY <2>1, <2>2 DEF NewEntry, StoreTypeOK
<1>3. ASSUME NEW c \in Calls, Start(c), ~LoadCreates(c), ~Reload(c) PROVE Claim
  BY <1>1, <1>3 DEF Start, LoadJoins, DisposeDirectory, DisposeAll, Dispose
<1>4. ASSUME NEW c \in Calls, CallStep(c) \/ Request(c) PROVE Claim
  <2>1. UNCHANGED fpc /\ cache' \in {cache, None}
    BY <1>4 DEF CallStep, Request, LoadReturns, JoinedReturns, DisposesFailed, DisposesNothing, DisposesEntry,
                DisposalEnds, LoadAbandoned, Uses, UseEnds, BootTouches, RemoveEntry
  <2> QED
    BY <1>1, <2>1
<1>5. ASSUME NEW e \in Calls, FiberStep(e) PROVE Claim
  <2>1. cache' \in {cache, None} /\ \E to : fpc' = [fpc EXCEPT ![e] = to]
    BY <1>5 DEF FiberStep, ReloadDisposes, ReloadBoots, BootSucceeds, BootFails, RemoveEntry
  <2>2. fpc[e] = "awaitPrevious" => cell' = None
    BY <1>5 DEF FiberStep, ReloadDisposes, ReloadBoots, BootSucceeds, BootFails, RunDisposers
  <2> QED
    BY <2>1, <2>2 DEF StoreTypeOK
<1> QED
  BY <1>2, <1>3, <1>4, <1>5 DEF StoreNext

(* Every step assigns values of the declared sets. *)
LEMMA QuestionTypeNext ==
  ASSUME QuestionTypeOK, RepliesConsistent, [Next]_vars
  PROVE  QuestionTypeOK'
<1> USE DEF QuestionTypeOK
<1>1. CASE StoreStep
  <2>1. before' \in [Calls -> SUBSET Questions]
    BY <1>1 DEF StoreStep
  <2>2. pending' \subseteq Questions /\ answered' \in [Questions -> {"none", "open", "answered", "rejected"}]
    BY <1>1 DEF StoreStep, FinalizesPending
  <2> QED
    BY <1>1, <2>1, <2>2 DEF StoreStep
<1>2. ASSUME NEW q \in Questions, AskStep(q) PROVE QuestionTypeOK'
  BY <1>2 DEF AskStep, Ask, Asked, AskReturns, AskInterrupted
<1>3. ASSUME NEW r \in Replies, NEW q \in Questions, NotFound(r, q) \/ Takes(r, q) PROVE QuestionTypeOK'
  BY <1>3 DEF NotFound, Takes, Kinds
<1>4. ASSUME NEW r \in Replies, Publishes(r) PROVE QuestionTypeOK'
  <2>1. item[r] \in Questions
    BY <1>4 DEF Publishes, RepliesConsistent
  <2>2. events[item[r]] \in Seq(Kinds) /\ rkind[r] \in Kinds
    BY <2>1 DEF Logs
  <2>3. Append(events[item[r]], rkind[r]) \in Logs
    BY <2>2 DEF Logs
  <2> QED
    BY <1>4, <2>1, <2>3 DEF Publishes
<1>5. ASSUME NEW r \in Replies, Completes(r) PROVE QuestionTypeOK'
  <2>1. item[r] \in Questions /\ rkind[r] \in {"answered", "rejected"}
    BY <1>5 DEF Completes, RepliesConsistent, Kinds
  <2> QED
    BY <1>5, <2>1 DEF Completes
<1>6. ASSUME NEW r \in Replies, ReplyInterrupted(r) PROVE QuestionTypeOK'
  BY <1>6 DEF ReplyInterrupted
<1>7. CASE UNCHANGED vars
  BY <1>7 DEF vars, questionVars
<1> QED
  BY <1>1, <1>2, <1>3, <1>4, <1>5, <1>6, <1>7 DEF Next, ReplyStep

(* A question is taken once, while it is pending. *)
LEMMA TakersNext ==
  ASSUME QuestionTypeOK, RepliesConsistent, AskersConsistent, [Next]_vars
  PROVE  \/ /\ \A q \in Questions : Takers(q)' = Takers(q)
            /\ ~ \E r \in Replies, q \in Questions : Takes(r, q)
         \/ \E r \in Replies, q \in Questions :
              Takes(r, q) /\ Takers(q)' = {r} /\ \A p \in Questions : p # q => Takers(p)' = Takers(p)
<1> USE DEF QuestionTypeOK
<1>1. ASSUME NEW r \in Replies, NEW q \in Questions, Takes(r, q)
      PROVE  Takers(q)' = {r} /\ \A p \in Questions : p # q => Takers(p)' = Takers(p)
  <2>1. Takers(q) = {}
    BY <1>1 DEF Takes, AskersConsistent
  <2>2. rpc[r] = "new" /\ rpc'[r] = "publish" /\ item'[r] = q
    BY <1>1 DEF Takes
  <2>3. \A s \in Replies : s # r => rpc'[s] = rpc[s] /\ item'[s] = item[s]
    BY <1>1 DEF Takes
  <2>4. Takers(q)' = {r}
    BY <2>1, <2>2, <2>3 DEF Takers
  <2>5. ASSUME NEW p \in Questions, p # q PROVE Takers(p)' = Takers(p)
    BY <2>2, <2>3, <2>5 DEF Takers
  <2> QED
    BY <2>4, <2>5
<1>2. ASSUME UNCHANGED item,
             \A r \in Replies : rpc'[r] \in {"new", "notFound"} <=> rpc[r] \in {"new", "notFound"}
      PROVE  \A q \in Questions : Takers(q)' = Takers(q)
  BY <1>2 DEF Takers
<1>3. CASE \E r \in Replies, q \in Questions : Takes(r, q)
  BY <1>1, <1>3
<1>4. CASE ~ \E r \in Replies, q \in Questions : Takes(r, q)
  <2>1. CASE UNCHANGED <<item, rpc>>
    BY <1>2, <1>4, <2>1
  <2>2. ASSUME NEW r \in Replies, ReplyStep(r)
        PROVE  UNCHANGED item /\ \A s \in Replies : rpc'[s] \in {"new", "notFound"} <=> rpc[s] \in {"new", "notFound"}
    BY <1>4, <2>2 DEF ReplyStep, NotFound, Publishes, Completes, ReplyInterrupted
  <2>3. CASE StoreStep \/ (\E q \in Questions : AskStep(q)) \/ UNCHANGED vars
    BY <2>1, <2>3 DEF StoreStep, AskStep, Ask, Asked, AskReturns, AskInterrupted, vars, questionVars
  <2> QED
    BY <1>2, <1>4, <2>2, <2>3 DEF Next
<1> QED
  BY <1>3, <1>4

(* Replies and askers agree about what is pending, after every step. *)
LEMMA AskersNext ==
  ASSUME QuestionTypeOK, RepliesConsistent, AskersConsistent, [Next]_vars
  PROVE  RepliesConsistent' /\ AskersConsistent'
<1> USE DEF QuestionTypeOK
<1>1. ASSUME \A q \in Questions : Takers(q)' = Takers(q), UNCHANGED <<qpc, answered>>, pending' \subseteq pending
      PROVE  AskersConsistent'
  BY <1>1 DEF AskersConsistent
<1>2. ASSUME UNCHANGED <<rpc, rkind, item>> PROVE RepliesConsistent'
  BY <1>2 DEF RepliesConsistent
<1>3. CASE StoreStep
  <2>1. UNCHANGED <<qpc, rpc, rkind, item>> /\ pending' \subseteq pending
    BY <1>3 DEF StoreStep, FinalizesPending
  <2>2. \A q \in Questions : answered'[q] = answered[q] \/ (answered[q] = "open" /\ answered'[q] = "rejected")
    BY <1>3 DEF StoreStep, FinalizesPending
  <2>3. \A q \in Questions : Takers(q)' = Takers(q)
    BY <2>1 DEF Takers
  <2> QED
    BY <1>2, <2>1, <2>2, <2>3 DEF AskersConsistent
<1>4. ASSUME NEW q \in Questions, AskStep(q) PROVE RepliesConsistent' /\ AskersConsistent'
  <2>1. UNCHANGED <<rpc, rkind, item>>
    BY <1>4 DEF AskStep, Ask, Asked, AskReturns, AskInterrupted
  <2>2. \A p \in Questions : Takers(p)' = Takers(p)
    BY <2>1 DEF Takers
  <2>3. \A p \in Questions : p # q =>
          qpc'[p] = qpc[p] /\ answered'[p] = answered[p] /\ (p \in pending' <=> p \in pending)
    BY <1>4 DEF AskStep, Ask, Asked, AskReturns, AskInterrupted
  <2>4. CASE Ask(q)
    <3>1. answered'[q] = "open" /\ qpc'[q] = "publishing" /\ qpc[q] = "new"
      BY <2>4 DEF Ask
    <3> QED
      BY <1>2, <2>1, <2>2, <2>3, <3>1 DEF AskersConsistent
  <2>5. CASE ~Ask(q)
    <3>1. answered'[q] = answered[q] /\ qpc[q] # "new" /\ qpc'[q] # "new" /\ (q \in pending' => q \in pending)
      BY <1>4, <2>5 DEF AskStep, Asked, AskReturns, AskInterrupted
    <3>2. qpc'[q] = "returned" => answered[q] # "open"
      BY <1>4, <2>5 DEF AskStep, Asked, AskReturns, AskInterrupted
    <3> QED
      BY <1>2, <2>1, <2>2, <2>3, <3>1, <3>2 DEF AskersConsistent
  <2> QED
    BY <2>4, <2>5
<1>5. ASSUME NEW r \in Replies, NEW q \in Questions, Takes(r, q) PROVE RepliesConsistent' /\ AskersConsistent'
  <2>1. \A p \in Questions : p # q => Takers(p)' = Takers(p)
    <3>1. \A s \in Replies : s # r => rpc'[s] = rpc[s] /\ item'[s] = item[s]
      BY <1>5 DEF Takes
    <3>2. rpc[r] = "new" /\ item'[r] = q
      BY <1>5 DEF Takes
    <3> QED
      BY <3>1, <3>2 DEF Takers
  <2>2. UNCHANGED <<qpc, answered>> /\ pending' = pending \ {q} /\ qpc[q] # "new"
    BY <1>5 DEF Takes
  <2>3. AskersConsistent'
    BY <2>1, <2>2 DEF AskersConsistent
  <2>4. item'[r] = q /\ rkind'[r] \in {"answered", "rejected"}
    BY <1>5 DEF Takes
  <2>5. \A s \in Replies : s # r => rpc'[s] = rpc[s] /\ item'[s] = item[s] /\ rkind'[s] = rkind[s]
    BY <1>5 DEF Takes
  <2> QED
    BY <2>3, <2>4, <2>5 DEF RepliesConsistent
<1>6. ASSUME NEW r \in Replies, ReplyStep(r), ~ \E q \in Questions : Takes(r, q)
      PROVE  RepliesConsistent' /\ AskersConsistent'
  <2>1. UNCHANGED <<qpc, pending, rkind, item>>
    BY <1>6 DEF ReplyStep, NotFound, Publishes, Completes, ReplyInterrupted
  <2>2. \A s \in Replies : rpc'[s] \in {"new", "notFound"} <=> rpc[s] \in {"new", "notFound"}
    BY <1>6 DEF ReplyStep, NotFound, Publishes, Completes, ReplyInterrupted
  <2>3. \A q \in Questions : Takers(q)' = Takers(q)
    BY <2>1, <2>2 DEF Takers
  <2>4. \A q \in Questions : \/ answered'[q] = answered[q]
                             \/ answered[q] = "open" /\ answered'[q] \in {"answered", "rejected"}
    <3>1. CASE Completes(r)
      <4>1. rkind[r] \in {"answered", "rejected"}
        BY <3>1 DEF Completes, RepliesConsistent, Kinds
      <4> QED
        BY <3>1, <4>1 DEF Completes
    <3>2. CASE ~Completes(r)
      BY <1>6, <3>2 DEF ReplyStep, NotFound, Publishes, ReplyInterrupted
    <3> QED
      BY <3>1, <3>2
  <2>5. AskersConsistent'
    BY <2>1, <2>3, <2>4 DEF AskersConsistent
  <2>6. RepliesConsistent'
    BY <2>1, <2>2 DEF RepliesConsistent
  <2> QED
    BY <2>5, <2>6
<1>7. CASE UNCHANGED vars
  <2>1. \A q \in Questions : Takers(q)' = Takers(q)
    BY <1>7 DEF Takers, vars, questionVars
  <2> QED
    BY <1>1, <1>2, <1>7, <2>1 DEF vars, questionVars
<1> QED
  BY <1>3, <1>4, <1>5, <1>6, <1>7 DEF Next

(* A question has one taker: it is taken while it is pending. *)
LEMMA OneTakerNext ==
  ASSUME QuestionTypeOK, RepliesConsistent, AskersConsistent, OneTaker, [Next]_vars
  PROVE  OneTaker'
BY TakersNext DEF OneTaker

(* The events of a question are those of its taker. *)
LEMMA EventsNext ==
  ASSUME QuestionTypeOK, RepliesConsistent, AskersConsistent, OneTaker, EventsTold, [Next]_vars
  PROVE  EventsTold'
<1> USE DEF QuestionTypeOK
<1>1. ASSUME NEW r \in Replies, NEW q \in Questions, Takes(r, q) PROVE EventsTold'
  <2>1. Takers(q) = {} /\ events' = events /\ rpc'[r] = "publish"
    BY <1>1 DEF Takes, AskersConsistent
  <2>2. item'[r] = q /\ rpc[r] = "new"
    BY <1>1 DEF Takes
  <2>3. \A s \in Replies : s # r => rpc'[s] = rpc[s] /\ item'[s] = item[s] /\ rkind'[s] = rkind[s]
    BY <1>1 DEF Takes
  <2>4. Takers(q)' = {r}
    BY <2>1, <2>2, <2>3 DEF Takers
  <2>5. \A p \in Questions : p # q => Takers(p)' = Takers(p) /\ r \notin Takers(p)
    BY <2>1, <2>2, <2>3 DEF Takers
  <2>6. \A p \in Questions : \A s \in Takers(p) : p # q => rpc'[s] = rpc[s] /\ rkind'[s] = rkind[s]
    BY <2>3, <2>5 DEF Takers
  <2> QED
    BY <2>1, <2>4, <2>5, <2>6 DEF EventsTold
<1>2. ASSUME UNCHANGED <<rpc, rkind, item, events>> PROVE EventsTold'
  <2>1. \A q \in Questions : Takers(q)' = Takers(q)
    BY <1>2 DEF Takers
  <2> QED
    BY <1>2, <2>1 DEF EventsTold
<1>3. ASSUME NEW r \in Replies, NEW q \in Questions, NotFound(r, q) PROVE EventsTold'
  <2>1. UNCHANGED <<rkind, item, events>> /\ rpc[r] = "new" /\ rpc'[r] = "notFound"
    BY <1>3 DEF NotFound
  <2>2. \A s \in Replies : s # r => rpc'[s] = rpc[s]
    BY <1>3 DEF NotFound
  <2>3. \A p \in Questions : Takers(p)' = Takers(p) /\ r \notin Takers(p)
    BY <2>1, <2>2 DEF Takers
  <2>4. \A p \in Questions : \A s \in Takers(p) : rpc'[s] = rpc[s] /\ rkind'[s] = rkind[s]
    BY <2>1, <2>2, <2>3 DEF Takers
  <2> QED
    BY <2>1, <2>3, <2>4 DEF EventsTold
<1>4. ASSUME NEW r \in Replies, Publishes(r) \/ Completes(r) \/ ReplyInterrupted(r) PROVE EventsTold'
  <2>1. UNCHANGED <<rkind, item>> /\ rpc[r] \in {"publish", "complete"}
    BY <1>4 DEF Publishes, Completes, ReplyInterrupted
  <2>2. \A s \in Replies : s # r => rpc'[s] = rpc[s]
    BY <1>4 DEF Publishes, Completes, ReplyInterrupted
  <2>3. rpc'[r] \notin {"new", "notFound"}
    BY <1>4 DEF Publishes, Completes, ReplyInterrupted
  <2>4. \A p \in Questions : Takers(p)' = Takers(p)
    BY <2>1, <2>2, <2>3 DEF Takers
  <2>5. PICK q \in Questions : item[r] = q
    BY <2>1 DEF RepliesConsistent
  <2>6. r \in Takers(q) /\ Takers(q) = {r}
    BY <2>1, <2>5 DEF Takers, OneTaker
  <2>7. \A p \in Questions : \A s \in Takers(p) : p # q => s # r
    BY <2>5 DEF Takers
  <2>8. \A p \in Questions : p # q => events'[p] = events[p]
    BY <1>4, <2>5 DEF Publishes, Completes, ReplyInterrupted
  <2>9. /\ rpc'[r] # "publish"
        /\ rpc'[r] \in {"complete", "done"} => events'[q] = <<rkind[r]>>
        /\ rpc'[r] = "interrupted" => events'[q] \in {<<>>, <<rkind[r]>>}
    <3>1. CASE Publishes(r)
      <4>1. events[q] = <<>> /\ events'[q] = Append(events[q], rkind[r]) /\ rpc'[r] = "complete"
        BY <2>5, <2>6, <3>1 DEF EventsTold, Publishes
      <4>2. Append(<<>>, rkind[r]) = <<rkind[r]>>
        OBVIOUS
      <4> QED
        BY <4>1, <4>2
    <3>2. CASE Completes(r)
      <4>1. events'[q] = events[q] /\ rpc'[r] = "done" /\ rpc[r] = "complete"
        BY <3>2 DEF Completes
      <4> QED
        BY <2>6, <4>1 DEF EventsTold
    <3>3. CASE ReplyInterrupted(r)
      <4>1. events'[q] = events[q] /\ rpc'[r] = "interrupted"
        BY <3>3 DEF ReplyInterrupted
      <4> QED
        BY <2>1, <2>6, <4>1 DEF EventsTold
    <3> QED
      BY <1>4, <3>1, <3>2, <3>3
  <2>10. ASSUME NEW p \in Questions
         PROVE  /\ Takers(p) = {} => events'[p] = <<>>
                /\ \A s \in Takers(p) :
                     /\ rpc'[s] = "publish" => events'[p] = <<>>
                     /\ rpc'[s] \in {"complete", "done"} => events'[p] = <<rkind[s]>>
                     /\ rpc'[s] = "interrupted" => events'[p] \in {<<>>, <<rkind[s]>>}
    <3>1. CASE p = q
      BY <2>6, <2>9, <3>1
    <3>2. CASE p # q
      <4>1. \A s \in Takers(p) : rpc'[s] = rpc[s]
        BY <2>2, <2>7, <3>2 DEF Takers
      <4> QED
        BY <2>8, <3>2, <4>1 DEF EventsTold
    <3> QED
      BY <3>1, <3>2
  <2> QED
    BY <2>1, <2>4, <2>10 DEF EventsTold
<1>5. CASE StoreStep \/ (\E q \in Questions : AskStep(q)) \/ UNCHANGED vars
  BY <1>2, <1>5 DEF StoreStep, AskStep, Ask, Asked, AskReturns, AskInterrupted, vars, questionVars
<1> QED
  BY <1>1, <1>3, <1>4, <1>5 DEF Next, ReplyStep

(* An answer is the taker's, or the finalizer's when there is none. *)
LEMMA AnswersNext ==
  ASSUME QuestionTypeOK, RepliesConsistent, AskersConsistent, OneTaker, AnswersMeant, [Next]_vars
  PROVE  AnswersMeant'
<1> USE DEF QuestionTypeOK
<1>1. ASSUME NEW q \in Questions, Takers(q)' = Takers(q), answered'[q] = answered[q],
             q \in pending' => q \in pending \/ answered[q] \notin {"answered", "rejected"},
             \A r \in Takers(q) : rpc[r] = "done" => rpc'[r] = "done" /\ rkind'[r] = rkind[r]
      PROVE  answered'[q] \in {"answered", "rejected"} =>
               \/ \E r \in Takers(q)' : rpc'[r] = "done" /\ rkind'[r] = answered'[q]
               \/ answered'[q] = "rejected" /\ q \notin pending' /\ Takers(q)' = {}
  BY <1>1 DEF AnswersMeant
<1>2. ASSUME \A q \in Questions : Takers(q)' = Takers(q), UNCHANGED <<rpc, rkind>>, NEW q \in Questions,
             answered'[q] = answered[q], q \in pending' => q \in pending \/ answered[q] \notin {"answered", "rejected"}
      PROVE  answered'[q] \in {"answered", "rejected"} =>
               \/ \E r \in Takers(q)' : rpc'[r] = "done" /\ rkind'[r] = answered'[q]
               \/ answered'[q] = "rejected" /\ q \notin pending' /\ Takers(q)' = {}
  BY <1>1, <1>2
<1>3. CASE StoreStep
  <2>1. UNCHANGED <<rpc, rkind, item>> /\ pending' \subseteq pending
    BY <1>3 DEF StoreStep, FinalizesPending
  <2>2. \A q \in Questions : Takers(q)' = Takers(q)
    BY <2>1 DEF Takers
  <2>3. \A q \in Questions : \/ answered'[q] = answered[q]
                             \/ q \in pending /\ answered'[q] = "rejected" /\ pending' = {}
    BY <1>3 DEF StoreStep, FinalizesPending
  <2>4. ASSUME NEW q \in Questions, q \in pending, answered'[q] = "rejected", pending' = {}
        PROVE  Takers(q)' = {} /\ q \notin pending'
    BY <2>2, <2>4 DEF AskersConsistent
  <2> QED
    BY <1>2, <2>1, <2>2, <2>3, <2>4 DEF AnswersMeant
<1>4. ASSUME NEW q \in Questions, AskStep(q) PROVE AnswersMeant'
  <2>1. UNCHANGED <<rpc, rkind, item>>
    BY <1>4 DEF AskStep, Ask, Asked, AskReturns, AskInterrupted
  <2>2. \A p \in Questions : Takers(p)' = Takers(p)
    BY <2>1 DEF Takers
  <2>3. \A p \in Questions : p # q => answered'[p] = answered[p] /\ (p \in pending' => p \in pending)
    BY <1>4 DEF AskStep, Ask, Asked, AskReturns, AskInterrupted
  <2>4. answered'[q] = "open" \/ (answered'[q] = answered[q] /\ (q \in pending' => q \in pending))
    BY <1>4 DEF AskStep, Ask, Asked, AskReturns, AskInterrupted
  <2> QED
    BY <1>2, <2>1, <2>2, <2>3, <2>4 DEF AnswersMeant
<1>5. ASSUME NEW r \in Replies, NEW q \in Questions, Takes(r, q) PROVE AnswersMeant'
  <2>1. Takers(q) = {} /\ UNCHANGED answered /\ q \in pending /\ pending' \subseteq pending
    BY <1>5 DEF Takes, AskersConsistent
  <2>2. answered[q] \notin {"answered", "rejected"}
    BY <2>1 DEF AnswersMeant
  <2>3. rpc[r] = "new" /\ item'[r] = q
    BY <1>5 DEF Takes
  <2>4. \A s \in Replies : s # r => rpc'[s] = rpc[s] /\ item'[s] = item[s] /\ rkind'[s] = rkind[s]
    BY <1>5 DEF Takes
  <2>5. \A p \in Questions : p # q => Takers(p)' = Takers(p)
    BY <2>3, <2>4 DEF Takers
  <2>6. \A p \in Questions : \A s \in Takers(p) : s # r /\ s \in Replies
    BY <2>3 DEF Takers
  <2> QED
    BY <1>1, <2>1, <2>2, <2>4, <2>5, <2>6 DEF AnswersMeant
<1>6. ASSUME NEW r \in Replies, ReplyStep(r), ~ \E q \in Questions : Takes(r, q) PROVE AnswersMeant'
  <2>1. UNCHANGED <<pending, rkind, item>>
    BY <1>6 DEF ReplyStep, NotFound, Publishes, Completes, ReplyInterrupted
  <2>2. \A s \in Replies : /\ rpc'[s] \in {"new", "notFound"} <=> rpc[s] \in {"new", "notFound"}
                           /\ rpc[s] = "done" => rpc'[s] = "done"
    BY <1>6 DEF ReplyStep, NotFound, Publishes, Completes, ReplyInterrupted
  <2>3. \A q \in Questions : Takers(q)' = Takers(q) /\ Takers(q) \subseteq Replies
    BY <2>1, <2>2 DEF Takers
  <2>4. CASE Completes(r)
    <3>1. item[r] \in Questions /\ r \in Takers(item[r]) /\ rpc'[r] = "done"
      BY <2>4 DEF Completes, RepliesConsistent, Takers
    <3>2. answered'[item[r]] = answered[item[r]] \/ answered'[item[r]] = rkind[r]
      BY <2>4, <3>1 DEF Completes
    <3>3. \A p \in Questions : p # item[r] => answered'[p] = answered[p]
      BY <2>4 DEF Completes
    <3> QED
      BY <1>1, <2>1, <2>2, <2>3, <3>1, <3>2, <3>3 DEF AnswersMeant
  <2>5. CASE ~Completes(r)
    <3>1. UNCHANGED answered
      BY <1>6, <2>5 DEF ReplyStep, NotFound, Publishes, ReplyInterrupted
    <3> QED
      BY <1>1, <2>1, <2>2, <2>3, <3>1 DEF AnswersMeant
  <2> QED
    BY <2>4, <2>5
<1>7. CASE UNCHANGED vars
  <2>1. \A q \in Questions : Takers(q)' = Takers(q)
    BY <1>7 DEF Takers, vars, questionVars
  <2> QED
    BY <1>2, <1>7, <2>1 DEF AnswersMeant, vars, questionVars
<1> QED
  BY <1>3, <1>4, <1>5, <1>6, <1>7 DEF Next

(* Who is settling a question goes on until it is answered. *)
LEMMA SettlingNext ==
  ASSUME QuestionTypeOK, RepliesConsistent, AskersConsistent, [Next]_vars,
         NEW q \in Questions, NEW r \in Replies, Settling(r, q)
  PROVE  Settling(r, q)' \/ answered'[q] \in {"answered", "rejected"}
<1> USE DEF QuestionTypeOK, Settling
<1>1. CASE UNCHANGED <<rpc, item>>
  BY <1>1
<1>2. ASSUME NEW s \in Replies, ReplyStep(s), s # r PROVE Settling(r, q)'
  BY <1>2 DEF ReplyStep, NotFound, Takes, Publishes, Completes, ReplyInterrupted
<1>3. CASE ReplyStep(r)
  <2>1. CASE Completes(r)
    <3>1. answered'[q] = IF answered[q] = "open" THEN rkind[r] ELSE answered[q]
      BY <2>1 DEF Completes
    <3>2. rkind[r] \in {"answered", "rejected"}
      BY <2>1 DEF Completes, RepliesConsistent, Kinds
    <3>3. answered[q] # "none"
      BY DEF AskersConsistent, Takers
    <3> QED
      BY <3>1, <3>2, <3>3
  <2>2. CASE ~Completes(r)
    BY <1>3, <2>2 DEF ReplyStep, NotFound, Takes, Publishes, ReplyInterrupted
  <2> QED
    BY <2>1, <2>2
<1>4. CASE StoreStep \/ (\E p \in Questions : AskStep(p)) \/ UNCHANGED vars
  BY <1>1, <1>4 DEF StoreStep, AskStep, Ask, Asked, AskReturns, AskInterrupted, vars, questionVars
<1> QED
  BY <1>2, <1>3, <1>4 DEF Next

(* A question that leaves `pending` has been taken or settled, or its     *)
(* asker is gone.                                                         *)
LEMMA PendingLeaves ==
  ASSUME QuestionTypeOK, AskersConsistent, [Next]_vars, NEW q \in pending
  PROVE  \/ q \in pending'
         \/ answered'[q] \in {"answered", "rejected"}
         \/ qpc'[q] = "interrupted"
         \/ \E r \in Replies : Settling(r, q)'
<1> USE DEF QuestionTypeOK
<1>1. CASE StoreStep
  <2>1. UNCHANGED <<pending, answered>> \/ FinalizesPending
    BY <1>1 DEF StoreStep
  <2>2. ASSUME FinalizesPending PROVE answered'[q] \in {"answered", "rejected"}
    <3>1. answered[q] # "none"
      BY DEF AskersConsistent
    <3>2. answered'[q] = IF answered[q] = "open" THEN "rejected" ELSE answered[q]
      BY <2>2 DEF FinalizesPending
    <3> QED
      BY <3>1, <3>2
  <2> QED
    BY <2>1, <2>2
<1>2. ASSUME NEW p \in Questions, AskStep(p) PROVE \/ q \in pending'
                                                   \/ answered'[q] \in {"answered", "rejected"}
                                                   \/ qpc'[q] = "interrupted"
  <2>1. CASE AskReturns(p)
    <3>1. p = q => answered'[q] = answered[q] /\ answered[q] \notin {"none", "open"}
      BY <2>1 DEF AskReturns, AskersConsistent
    <3> QED
      BY <2>1, <3>1 DEF AskReturns
  <2>2. CASE AskInterrupted(p)
    BY <2>2 DEF AskInterrupted
  <2> QED
    BY <1>2, <2>1, <2>2 DEF AskStep, Ask, Asked
<1>3. ASSUME NEW r \in Replies, NEW p \in Questions, Takes(r, p) PROVE q \in pending' \/ Settling(r, q)'
  BY <1>3 DEF Takes, Settling
<1>4. ASSUME NEW r \in Replies, ReplyStep(r), ~ \E p \in Questions : Takes(r, p) PROVE q \in pending'
  BY <1>4 DEF ReplyStep, NotFound, Publishes, Completes, ReplyInterrupted
<1>5. CASE UNCHANGED vars
  BY <1>5 DEF vars, questionVars
<1> QED
  BY <1>1, <1>2, <1>3, <1>4, <1>5 DEF Next

(* A question that is waited for stays within reach. *)
LEMMA ReachableNext ==
  ASSUME StoreTypeOK, UsersHold, QuestionTypeOK, RepliesConsistent, AskersConsistent, QuestionReachable, [Next]_vars
  PROVE  QuestionReachable'
<1> USE DEF QuestionTypeOK
<1> SUFFICES ASSUME NEW q \in Questions, qpc'[q] \in {"publishing", "waiting"}, answered'[q] = "open"
             PROVE  (q \in pending' /\ cell' # None) \/ \E r \in Replies : Settling(r, q)'
  BY DEF QuestionReachable
<1>1. ASSUME NEW r \in Replies, Settling(r, q) PROVE Settling(r, q)'
  BY <1>1, SettlingNext
<1>2. CASE Ask(q)
  BY <1>2, GetsStateIs DEF Ask
<1>3. CASE ~Ask(q)
  <2>1. qpc[q] \in {"publishing", "waiting"} /\ answered[q] = "open"
    <3>1. CASE StoreStep
      BY <3>1 DEF StoreStep, FinalizesPending
    <3>2. ASSUME NEW p \in Questions, AskStep(p)
          PROVE  qpc[q] \in {"publishing", "waiting"} /\ answered[q] = "open"
      <4>1. CASE p = q
        BY <1>3, <3>2, <4>1 DEF AskStep, Asked, AskReturns, AskInterrupted
      <4>2. CASE p # q
        BY <3>2, <4>2 DEF AskStep, Ask, Asked, AskReturns, AskInterrupted
      <4> QED
        BY <4>1, <4>2
    <3>3. ASSUME NEW r \in Replies, ReplyStep(r)
          PROVE  qpc[q] \in {"publishing", "waiting"} /\ answered[q] = "open"
      <4>1. CASE Completes(r)
        <5>1. item[r] \in Questions /\ rkind[r] # "open" /\ qpc' = qpc
          BY <4>1 DEF Completes, RepliesConsistent, Kinds
        <5>2. answered' = [answered EXCEPT ![item[r]] = IF answered[item[r]] = "open" THEN rkind[r] ELSE answered[item[r]]]
          BY <4>1 DEF Completes
        <5> QED
          BY <5>1, <5>2
      <4>2. CASE ~Completes(r)
        BY <3>3, <4>2 DEF ReplyStep, NotFound, Takes, Publishes, ReplyInterrupted
      <4> QED
        BY <4>1, <4>2
    <3>4. CASE UNCHANGED vars
      BY <3>4 DEF vars, questionVars
    <3> QED
      BY <3>1, <3>2, <3>3, <3>4 DEF Next
  <2>2. (q \in pending /\ cell # None) \/ \E r \in Replies : Settling(r, q)
    BY <2>1 DEF QuestionReachable
  <2>3. CASE q \in pending /\ cell # None
    <3>1. q \in pending' \/ \E r \in Replies : Settling(r, q)'
      BY <2>3, PendingLeaves
    <3>2. CASE cell' = None
      <4>1. StoreStep
        <5>1. ASSUME NEW p \in Questions, AskStep(p) PROVE cell' # None
          BY <2>3, <5>1, GetsStateIs DEF AskStep, Ask, Asked, AskReturns, AskInterrupted, storeVars, stateVars
        <5>2. ASSUME NEW r \in Replies, ReplyStep(r) PROVE cell' # None
          BY <2>3, <5>2, GetsStateIs DEF ReplyStep, NotFound, Takes, Publishes, Completes, ReplyInterrupted,
                                         storeVars, stateVars
        <5> QED
          BY <2>3, <3>2, <5>1, <5>2 DEF Next, vars, storeVars, stateVars
      <4>2. FinalizesPending
        BY <2>3, <3>2, <4>1 DEF StoreStep
      <4> QED
        BY <2>3, <4>2 DEF FinalizesPending
    <3> QED
      BY <3>1, <3>2
  <2> QED
    BY <1>1, <2>2, <2>3
<1> QED
  BY <1>2, <1>3

(* What a reload has found pending, when it took the place of an entry,   *)
(* stays pending until the disposers run, or is settled before.           *)
LEMMA BeforeNext ==
  ASSUME StoreTypeOK, UsersHold, EntriesConsistent, QuestionTypeOK, RepliesConsistent, AskersConsistent,
         QuestionReachable, BeforeSettled, [Next]_vars
  PROVE  BeforeSettled'
<1> USE DEF QuestionTypeOK
<1>1. ASSUME NEW c \in Calls, NEW q \in before[c] PROVE
        \/ fpc'[c] = "awaitPrevious" /\ q \in pending'
        \/ answered'[q] \in {"answered", "rejected"}
        \/ qpc'[q] = "interrupted"
        \/ \E r \in Replies : Settling(r, q)'
  <2>1. q \in Questions
    OBVIOUS
  <2>2. CASE answered[q] \in {"answered", "rejected"}
    <3>1. qpc[q] # "new"
      BY <2>1, <2>2 DEF AskersConsistent
    <3>2. answered'[q] = answered[q]
      <4>1. CASE StoreStep
        BY <2>1, <2>2, <4>1 DEF StoreStep, FinalizesPending
      <4>2. ASSUME NEW p \in Questions, AskStep(p) PROVE answered'[q] = answered[q]
        BY <2>1, <3>1, <4>2 DEF AskStep, Ask, Asked, AskReturns, AskInterrupted
      <4>3. ASSUME NEW r \in Replies, ReplyStep(r) PROVE answered'[q] = answered[q]
        BY <2>1, <2>2, <4>3 DEF ReplyStep, NotFound, Takes, Publishes, Completes, ReplyInterrupted
      <4>4. CASE UNCHANGED vars
        BY <4>4 DEF vars, questionVars
      <4> QED
        BY <4>1, <4>2, <4>3, <4>4 DEF Next
    <3> QED
      BY <2>2, <3>2
  <2>3. CASE qpc[q] = "interrupted"
    <3>1. ASSUME NEW p \in Questions, AskStep(p) PROVE qpc'[q] = qpc[q]
      BY <2>1, <2>3, <3>1 DEF AskStep, Ask, Asked, AskReturns, AskInterrupted
    <3>2. qpc'[q] = qpc[q]
      BY <3>1 DEF Next, StoreStep, ReplyStep, NotFound, Takes, Publishes, Completes, ReplyInterrupted, vars, questionVars
    <3> QED
      BY <2>3, <3>2
  <2>4. CASE \E r \in Replies : Settling(r, q)
    BY <2>1, <2>4, SettlingNext
  <2>5. CASE fpc[c] = "awaitPrevious" /\ q \in pending
    <3>1. CASE StoreStep
      <4>1. fpc'[c] = "awaitPrevious" \/ cell' = None
        BY <2>5, <3>1, ReloadWaits DEF StoreStep
      <4>2. CASE cell' # None \/ cell = None
        <5>1. UNCHANGED <<pending, answered, qpc, rpc, item>>
          BY <3>1, <4>2 DEF StoreStep
        <5>2. CASE cell' # None
          BY <2>5, <4>1, <5>1, <5>2
        <5>3. CASE cell = None
          <6>1. \/ qpc[q] \notin {"publishing", "waiting"} \/ answered[q] # "open"
                \/ \E r \in Replies : Settling(r, q)
            BY <2>1, <5>3 DEF QuestionReachable
          <6>2. qpc[q] # "new" /\ (qpc[q] = "returned" => answered[q] # "open") /\ answered[q] # "none"
            BY <2>1, <2>5 DEF AskersConsistent
          <6>3. \/ answered[q] \in {"answered", "rejected"} \/ qpc[q] = "interrupted"
                \/ \E r \in Replies : Settling(r, q)
            BY <2>1, <6>1, <6>2
          <6> QED
            BY <2>2, <2>3, <2>4, <6>3
        <5> QED
          BY <4>2, <5>2, <5>3
      <4>3. CASE cell' = None /\ cell # None
        <5>1. pending' = {}
          BY <3>1, <4>3 DEF StoreStep, FinalizesPending
        <5> QED
          BY <2>5, <5>1, PendingLeaves
      <4> QED
        BY <4>2, <4>3
    <3>2. CASE ~StoreStep
      <4>1. UNCHANGED fpc
        BY <3>2, GetsStateIs DEF Next, AskStep, Ask, Asked, AskReturns, AskInterrupted, ReplyStep, NotFound, Takes,
                                 Publishes, Completes, ReplyInterrupted, vars, storeVars, entryVars
      <4> QED
        BY <2>5, <4>1, PendingLeaves
    <3> QED
      BY <3>1, <3>2
  <2> QED
    BY <2>2, <2>3, <2>4, <2>5 DEF BeforeSettled
<1>2. ASSUME NEW c \in Calls, before'[c] # before[c], NEW q \in before'[c]
      PROVE  fpc'[c] = "awaitPrevious" /\ q \in pending'
  <2>1. StoreStep
    BY <1>2 DEF Next, AskStep, Ask, Asked, AskReturns, AskInterrupted, ReplyStep, NotFound, Takes,
                Publishes, Completes, ReplyInterrupted, vars, questionVars
  <2>2. cache # None /\ cache' = c /\ cache # c /\ before'[c] = pending
    BY <1>2, <2>1 DEF StoreStep
  <2>3. fpc'[c] = "awaitPrevious" /\ cell' = cell
    BY <2>1, <2>2, ReloadWaits DEF StoreStep
  <2> QED
    BY <2>1, <2>2, <2>3 DEF StoreStep
<1> QED
  BY <1>1, <1>2 DEF BeforeSettled

(* Every step keeps the invariant of the questions. *)
LEMMA QuestionInvNext ==
  StoreTypeOK /\ UsersHold /\ StoreInv /\ QuestionInv /\ [Next]_vars => QuestionInv'
<1> SUFFICES ASSUME StoreTypeOK, UsersHold, StoreInv, QuestionInv, [Next]_vars PROVE QuestionInv'
  OBVIOUS
<1>1. /\ QuestionTypeOK /\ AskersConsistent /\ RepliesConsistent /\ OneTaker /\ EventsTold /\ AnswersMeant
      /\ QuestionReachable /\ BeforeSettled /\ EntriesConsistent
  BY DEF QuestionInv, StoreInv
<1>2. QuestionTypeOK' /\ AskersConsistent' /\ RepliesConsistent'
  BY <1>1, QuestionTypeNext, AskersNext
<1>3. OneTaker' /\ EventsTold' /\ AnswersMeant'
  BY <1>1, OneTakerNext, EventsNext, AnswersNext
<1>4. QuestionReachable' /\ BeforeSettled'
  BY <1>1, ReachableNext, BeforeNext
<1> QED
  BY <1>2, <1>3, <1>4 DEF QuestionInv

(* The store in a directory with questions is the store. *)
THEOREM StoreWithin == Spec => StoreSpec
<1>1. Init => StoreInit
  BY DEF Init
<1>2. StoreTypeOK /\ UsersHold /\ StoreInv /\ [Next]_vars => [StoreNext]_storeVars
  BY NextStore
<1>3. Init => StoreTypeOK /\ UsersHold /\ StoreInv
  BY <1>1, StoreTypeInit, StoreInvInit
<1>4. Spec => [](StoreTypeOK /\ UsersHold /\ StoreInv)
  BY <1>2, <1>3, StoreInvNext, PTL DEF Spec
<1> QED
  BY <1>1, <1>2, <1>4, PTL DEF Spec, StoreSpec

(* The inductive invariant is one. *)
LEMMA QuestionInvariance == Spec => []QuestionInv
BY QuestionInvInit, QuestionInvNext, StoreWithin, StoreInvariance, PTL DEF Spec

(* A question that is waited for can be answered, or is being settled, in *)
(* any sequence of loads, reloads and disposals (index.ts 87-148).        *)
THEOREM ReachableAlways == Spec => []QuestionReachable
<1>1. QuestionInv => QuestionReachable
  BY DEF QuestionInv
<1> QED
  BY <1>1, QuestionInvariance, PTL

(* Whatever races for a question, one event at most is published, and the *)
(* asker hears what it says (index.ts 114-148).                           *)
THEOREM AnsweredOnceAlways == Spec => []QuestionAnsweredOnce
<1>1. QuestionInv => QuestionAnsweredOnce
  <2> SUFFICES ASSUME QuestionInv, NEW q \in Questions
               PROVE  /\ Len(events[q]) <= 1
                      /\ answered[q] = "answered" => events[q] = <<"answered">>
                      /\ answered[q] = "rejected" => events[q] \in {<<>>, <<"rejected">>}
    BY DEF QuestionAnsweredOnce
  <2>1. EventsTold /\ AnswersMeant /\ QuestionTypeOK
    BY DEF QuestionInv
  <2>2. \A r \in Takers(q) : rpc[r] \in {"publish", "complete", "done", "interrupted"}
    BY <2>1 DEF Takers, QuestionTypeOK
  <2>3. events[q] = <<>> \/ \E r \in Takers(q) : events[q] = <<rkind[r]>>
    BY <2>1, <2>2 DEF EventsTold
  <2>4. Len(events[q]) <= 1
    <3>1. ASSUME NEW r \in Takers(q), events[q] = <<rkind[r]>> PROVE Len(events[q]) = 1
      BY <3>1
    <3>2. events[q] = <<>> => Len(events[q]) = 0
      OBVIOUS
    <3>3. Len(events[q]) \in {0, 1}
      BY <2>3, <3>1, <3>2
    <3>4. \A n \in {0, 1} : n <= 1
      OBVIOUS
    <3> QED
      BY <3>3, <3>4, Zenon
  <2>5. ASSUME answered[q] \in {"answered", "rejected"}
        PROVE  events[q] = <<answered[q]>> \/ (answered[q] = "rejected" /\ events[q] = <<>>)
    BY <2>1, <2>5 DEF AnswersMeant, EventsTold
  <2> QED
    BY <2>4, <2>5
<1> QED
  BY <1>1, QuestionInvariance, PTL

(* "pending question rejects on instance reload": a reload has settled    *)
(* what it found pending before it boots (index.ts 87-100).               *)
THEOREM RejectedAlways == Spec => []ReloadRejects
<1>1. QuestionInv => ReloadRejects
  <2> SUFFICES ASSUME QuestionInv, NEW c \in Calls, NEW q \in Questions,
                      fpc[c] \in {"disposing", "booting", "ended"}, q \in before[c]
               PROVE  answered[q] # "open" \/ qpc[q] = "interrupted" \/ \E r \in Replies : Settling(r, q)
    BY DEF ReloadRejects
  <2> QED
    BY DEF QuestionInv, BeforeSettled
<1> QED
  BY <1>1, QuestionInvariance, PTL
===============================================================================
