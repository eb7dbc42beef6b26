---------------------------- MODULE ProjectBasis ----------------------------
(***************************************************************************)
(* The cache of prepared project bases: `prove --basis` checks a dependency*)
(* once in a shelf child, keeps that HOL process alive behind a broker of  *)
(* its own, and replays every leaf in a child of it.  Bases are indexed by *)
(* their content identity, one record each, and at most MaxLive are kept;  *)
(* the least recently used make room.  One flock guards lookup,            *)
(* preparation, use and eviction.                                          *)
(*                                                                         *)
(* A generation is one prepared process.  It forks from the preparation    *)
(* with a deadline by which it must be adopted, or it exits by itself.     *)
(* Controllers can be killed, brokers and bases can crash.                 *)
(***************************************************************************)
EXTENDS Naturals, Sequences, FiniteSets, SequencesExt

CONSTANTS
  Controllers,     \* `prove --basis` and `hearth basis retire` processes
  Keys,            \* content identities
  MaxLive,         \* MAX_LIVE_BASES
  MaxGenerations,  \* bound on prepared generations
  MaxCrashes,      \* bound on broker and basis crashes
  Killable,        \* controllers that may be killed outright
  KillInAdoption,  \* ... also while they adopt a basis
  None

ASSUME CacheAssumption ==
  /\ IsFiniteSet(Keys) /\ Keys # {} /\ MaxLive \in Nat \ {0}
  /\ None \notin Controllers /\ Killable \subseteq Controllers
  /\ MaxGenerations \in Nat /\ MaxCrashes \in Nat /\ KillInAdoption \in BOOLEAN

Gens == 1..MaxGenerations

VARIABLES
  cacheLock, \* holder of the cache lock
  index,    \* basis.json of each key: its status and generation
  recency,  \* keys by last_used_epoch_seconds, the least recent first
  basis,    \* the HOL process of each generation
  broker,   \* its broker
  child,    \* generations on which a leaf is being evaluated
  prepared, \* generations prepared
  cachePc, key, gen, \* control point, key and generation of each controller
  crashed

cacheLocal == <<cachePc, key, gen>>
baseProcs == <<basis, broker, child>>
cacheVars == <<cacheLock, index, recency, basis, broker, child, prepared, cachePc, key,
               gen, crashed>>

CachePcs == {"idle", "lookup", "room", "preparing", "forked", "adopting", "leaf",
             "using", "retiring", "killed"}

CacheTypeOK ==
  /\ cacheLock \in Controllers \cup {None}
  /\ index \in [Keys -> [status : {"none", "ready", "retired"}, gen : 0..MaxGenerations]]
  /\ recency \in Seq(Keys) /\ IsInjective(recency)
  /\ basis \in [Gens -> {"none", "waiting", "live", "gone"}]
  /\ broker \in [Gens -> {"none", "starting", "serving", "gone"}]
  /\ child \subseteq Gens
  /\ prepared \in 0..MaxGenerations
  /\ cachePc \in [Controllers -> CachePcs]
  /\ key \in [Controllers -> Keys]
  /\ gen \in [Controllers -> 0..MaxGenerations]
  /\ crashed \in 0..MaxCrashes

CacheInit ==
  /\ cacheLock = None
  /\ index = [k \in Keys |-> [status |-> "none", gen |-> 0]]
  /\ recency = <<>>
  /\ basis = [g \in Gens |-> "none"] /\ broker = [g \in Gens |-> "none"]
  /\ child = {} /\ prepared = 0
  /\ cachePc = [c \in Controllers |-> "idle"]
  /\ key = [c \in Controllers |-> CHOOSE k \in Keys : TRUE]
  /\ gen = [c \in Controllers |-> 0]
  /\ crashed = 0

Ready(k) == index[k].status = "ready"
Live(g) == basis[g] = "live" /\ broker[g] = "serving"
ReadyLive == {k \in Keys : Ready(k) /\ Live(index[k].gen)}

Moves(c, p) == cachePc' = [cachePc EXCEPT ![c] = p]

\* The flock ends with the `with` block, or with the process.
Leave(c) == Moves(c, "idle") /\ cacheLock' = None /\ gen' = [gen EXCEPT ![c] = 0]

\* Broker and basis of the generations G are told to stop, or terminated; a
\* broker that serves ends its children first.
StopBases(G) ==
  /\ basis' = [g \in Gens |-> IF g \in G /\ basis[g] # "none" THEN "gone" ELSE basis[g]]
  /\ broker' =
       [g \in Gens |-> IF g \in G /\ broker[g] # "none" THEN "gone" ELSE broker[g]]
  /\ child' = child \ {g \in G : broker[g] = "serving"}

Retire(K) ==
  index' = [k \in Keys |-> IF k \in K THEN [index[k] EXCEPT !.status = "retired"]
                           ELSE index[k]]

Touch(k) == recency' = Append(Remove(recency, k), k)

-----------------------------------------------------------------------------
(* prove --basis: run_project_basis_replay.                                *)

\* project_basis_lock, capture, plan_basis.
Enter(c, k) ==
  /\ cachePc[c] = "idle" /\ cacheLock = None
  /\ cacheLock' = c
  /\ key' = [key EXCEPT ![c] = k]
  /\ Moves(c, "lookup")
  /\ UNCHANGED <<index, recency, baseProcs, prepared, gen, crashed>>

\* lookup_basis: a live idle generation that revalidates is used.
LookupHit(c) ==
  /\ cachePc[c] = "lookup" /\ key[c] \in ReadyLive
  /\ index[key[c]].gen \notin child
  /\ Touch(key[c])
  /\ gen' = [gen EXCEPT ![c] = index[key[c]].gen]
  /\ Moves(c, "leaf")
  /\ UNCHANGED <<cacheLock, index, baseProcs, prepared, key, crashed>>

\* A generation that evaluates is kept and the attempt refused.
LookupBusy(c) ==
  /\ cachePc[c] = "lookup" /\ key[c] \in ReadyLive
  /\ index[key[c]].gen \in child
  /\ Leave(c)
  /\ UNCHANGED <<index, recency, baseProcs, prepared, key, crashed>>

\* No record, a generation that died, or one that fails its revalidation.
LookupMiss(c) ==
  /\ cachePc[c] = "lookup"
  /\ IF Ready(key[c])
     THEN /\ key[c] \in ReadyLive => index[key[c]].gen \notin child
          /\ StopBases({index[key[c]].gen}) /\ Retire({key[c]})
     ELSE UNCHANGED <<baseProcs, index>>
  /\ Moves(c, "room")
  /\ UNCHANGED <<cacheLock, recency, prepared, key, gen, crashed>>

\* _make_room: records of dead generations are retired, what is left of them
\* is terminated, and the least recently used live bases stop until one more
\* fits.  The key's own record is not ready here: the lookup saw to that.
UsedBefore(j, k) ==
  \E m, n \in 1..Len(recency) : m < n /\ recency[m] = j /\ recency[n] = k

\* Fault: room is made once the limit is exceeded.
Excess_Late ==
  LET n == Cardinality(ReadyLive) IN IF n <= MaxLive THEN 0 ELSE n - MaxLive

Excess == LET n == Cardinality(ReadyLive) IN IF n < MaxLive THEN 0 ELSE n - MaxLive + 1

\* K is what has to make room.
LeastRecent(K) ==
  /\ K \subseteq ReadyLive /\ Cardinality(K) = Excess
  /\ \A j \in K, k \in ReadyLive \ K : UsedBefore(j, k)

Dead == {k \in Keys : Ready(k)} \ ReadyLive

Evicts(K) == StopBases({index[k].gen : k \in Dead \cup K}) /\ Retire(Dead \cup K)

\* Fault: the least recently used basis stops, in use or not.
MakeRoom_InUse(c) ==
  /\ cachePc[c] = "room" /\ prepared < MaxGenerations
  /\ \E K \in SUBSET Keys : LeastRecent(K) /\ Evicts(K)
  /\ Moves(c, "preparing")
  /\ UNCHANGED <<cacheLock, recency, prepared, key, gen, crashed>>

MakeRoom(c) ==
  /\ cachePc[c] = "room" /\ prepared < MaxGenerations
  /\ \E K \in SUBSET Keys :
       LeastRecent(K) /\ (\A k \in K : index[k].gen \notin child) /\ Evicts(K)
  /\ Moves(c, "preparing")
  /\ UNCHANGED <<cacheLock, recency, prepared, key, gen, crashed>>

\* A basis in use is not evicted: the preparation is refused.
NoRoom(c) ==
  /\ cachePc[c] = "room"
  /\ \E K \in SUBSET Keys : LeastRecent(K) /\ \E k \in K : index[k].gen \in child
  /\ Evicts({})
  /\ Leave(c)
  /\ UNCHANGED <<recency, prepared, key, crashed>>

\* The preparation replay ends with the fork of the future basis.
PrepareForks(c) ==
  /\ cachePc[c] = "preparing" /\ prepared < MaxGenerations
  /\ prepared' = prepared + 1
  /\ basis' = [basis EXCEPT ![prepared + 1] = "waiting"]
  /\ gen' = [gen EXCEPT ![c] = prepared + 1]
  /\ Moves(c, "forked")
  /\ UNCHANGED <<cacheLock, index, recency, broker, child, key, crashed>>

\* The preparation does not pass, or its receipt is refused, or it is
\* interrupted: abort_basis stops a child that acknowledged.
PreparationFails(c) ==
  /\ cachePc[c] \in {"preparing", "forked"}
  /\ StopBases({gen[c]} \cap Gens)
  /\ Leave(c)
  /\ UNCHANGED <<index, recency, prepared, key, crashed>>

\* adopt_basis: the receipt is valid, the child waits: its broker starts.
StartBroker(c) ==
  /\ cachePc[c] = "forked" /\ basis[gen[c]] = "waiting"
  /\ broker' = [broker EXCEPT ![gen[c]] = "starting"]
  /\ Moves(c, "adopting")
  /\ UNCHANGED <<cacheLock, index, recency, basis, child, prepared, key, gen, crashed>>

\* The broker answers ready: the record is published.
Publish(c) ==
  /\ cachePc[c] = "adopting" /\ Live(gen[c])
  /\ index' = [index EXCEPT ![key[c]] = [status |-> "ready", gen |-> gen[c]]]
  /\ Touch(key[c])
  /\ Moves(c, "leaf")
  /\ UNCHANGED <<cacheLock, baseProcs, prepared, key, gen, crashed>>

\* A timeout, a broker that exits, an interrupt: broker and child are stopped.
AdoptionFails(c) ==
  /\ cachePc[c] = "adopting"
  /\ StopBases({gen[c]})
  /\ Leave(c)
  /\ UNCHANGED <<index, recency, prepared, key, crashed>>

\* validate_basis_use, then the leaf in a fresh child; or it is refused.
StartLeaf(c) ==
  /\ cachePc[c] = "leaf" /\ Live(gen[c]) /\ gen[c] \notin child
  /\ child' = child \cup {gen[c]}
  /\ Moves(c, "using")
  /\ UNCHANGED <<cacheLock, index, recency, basis, broker, prepared, key, gen, crashed>>

LeafRefused(c) ==
  /\ cachePc[c] = "leaf" /\ ~Live(gen[c])
  /\ Leave(c)
  /\ UNCHANGED <<index, recency, baseProcs, prepared, key, crashed>>

LeafEnds(c) ==
  /\ cachePc[c] = "using"
  /\ child' = child \ {gen[c]}
  /\ Leave(c)
  /\ UNCHANGED <<index, recency, basis, broker, prepared, key, crashed>>

-----------------------------------------------------------------------------
(* hearth basis retire: the rows are listed before the lock is taken, and  *)
(* each record is read again under it.                                     *)

ListLive(c, k) ==
  /\ cachePc[c] = "idle" /\ k \in ReadyLive
  /\ key' = [key EXCEPT ![c] = k]
  /\ Moves(c, "retiring")
  /\ UNCHANGED <<cacheLock, index, recency, baseProcs, prepared, gen, crashed>>

RetireListed(c) ==
  /\ cachePc[c] = "retiring" /\ cacheLock = None
  /\ StopBases({index[key[c]].gen})
  /\ Retire({key[c]})
  /\ Moves(c, "idle")
  /\ UNCHANGED <<cacheLock, recency, prepared, key, gen, crashed>>

-----------------------------------------------------------------------------
(* Kills and crashes, and what ends by itself.                             *)

ControllerKilled(c) ==
  /\ c \in Killable /\ cachePc[c] \notin {"idle", "killed"}
  /\ cachePc[c] = "adopting" => KillInAdoption
  /\ Moves(c, "killed")
  /\ cacheLock' = IF cacheLock = c THEN None ELSE cacheLock
  /\ UNCHANGED <<index, recency, baseProcs, prepared, key, gen, crashed>>

BrokerCrashes(g) ==
  /\ broker[g] \in {"starting", "serving"} /\ crashed < MaxCrashes
  /\ broker' = [broker EXCEPT ![g] = "gone"]
  /\ crashed' = crashed + 1
  /\ UNCHANGED <<cacheLock, index, recency, basis, child, prepared, cacheLocal>>

BasisCrashes(g) ==
  /\ basis[g] = "live" /\ crashed < MaxCrashes
  /\ basis' = [basis EXCEPT ![g] = "gone"]
  /\ crashed' = crashed + 1
  /\ UNCHANGED <<cacheLock, index, recency, broker, child, prepared, cacheLocal>>

\* The waiting child exits after ADOPTION_SECONDS.
AdoptionExpires(g) ==
  /\ basis[g] = "waiting"
  /\ basis' = [basis EXCEPT ![g] = "gone"]
  /\ UNCHANGED <<cacheLock, index, recency, broker, child, prepared, cacheLocal, crashed>>

\* _ProjectBasisBroker._start_basis: a live child is told of its adoption.
BrokerAttaches(g) ==
  /\ broker[g] = "starting"
  /\ IF basis[g] = "waiting"
     THEN /\ basis' = [basis EXCEPT ![g] = "live"]
          /\ broker' = [broker EXCEPT ![g] = "serving"]
     ELSE broker' = [broker EXCEPT ![g] = "gone"] /\ UNCHANGED basis
  /\ UNCHANGED <<cacheLock, index, recency, child, prepared, cacheLocal, crashed>>

\* The basis reads end of file once its broker is gone.
BasisReadsEof(g) ==
  /\ basis[g] = "live" /\ broker[g] = "gone"
  /\ basis' = [basis EXCEPT ![g] = "gone"]
  /\ UNCHANGED <<cacheLock, index, recency, broker, child, prepared, cacheLocal, crashed>>

\* The broker ends with its basis, and ends its children.
BrokerSeesBasisGone(g) ==
  /\ broker[g] = "serving" /\ basis[g] = "gone"
  /\ broker' = [broker EXCEPT ![g] = "gone"]
  /\ child' = child \ {g}
  /\ UNCHANGED <<cacheLock, index, recency, basis, prepared, cacheLocal, crashed>>

\* The child of a killed controller is cancelled when its connection ends; a
\* child without a broker ends by itself.
ChildEnds(g) ==
  /\ g \in child
  /\ broker[g] = "gone" \/ ~\E c \in Controllers : cachePc[c] = "using" /\ gen[c] = g
  /\ child' = child \ {g}
  /\ UNCHANGED <<cacheLock, index, recency, basis, broker, prepared, cacheLocal, crashed>>

-----------------------------------------------------------------------------
Prove(c) ==
  \/ \E k \in Keys : Enter(c, k)
  \/ LookupHit(c) \/ LookupBusy(c) \/ LookupMiss(c) \/ MakeRoom(c) \/ NoRoom(c)
  \/ PrepareForks(c) \/ PreparationFails(c) \/ StartBroker(c) \/ Publish(c)
  \/ AdoptionFails(c) \/ StartLeaf(c) \/ LeafRefused(c) \/ LeafEnds(c)

Process(g) ==
  BrokerCrashes(g) \/ BasisCrashes(g) \/ AdoptionExpires(g) \/ BrokerAttaches(g)
    \/ BasisReadsEof(g) \/ BrokerSeesBasisGone(g) \/ ChildEnds(g)

CacheNext ==
  \/ \E c \in Controllers :
       \/ Prove(c) \/ (\E k \in Keys : ListLive(c, k)) \/ RetireListed(c)
       \/ ControllerKilled(c)
  \/ \E g \in Gens : Process(g)

CacheSpec == CacheInit /\ [][CacheNext]_cacheVars

-----------------------------------------------------------------------------
(* Properties.                                                             *)

\* At most MaxLive bases are retained in one cache, whichever controllers are
\* killed and whatever crashes (project_basis.MAX_LIVE_BASES), and each of them
\* is the one its key's record names, or a controller is about to publish or to
\* abort it: none is unreachable from the index.
LiveBasesBounded ==
  /\ Cardinality({g \in Gens : Live(g)}) <= MaxLive
  /\ \A g \in Gens : Live(g) =>
       \/ \E k \in Keys : Ready(k) /\ index[k].gen = g
       \/ \E c \in Controllers : cachePc[c] = "adopting" /\ gen[c] = g

\* Preparing another basis, by lookup, eviction or adoption, never stops a
\* basis on which a leaf is being evaluated.
UseNotEvicted ==
  [][\A c \in Controllers, g \in Gens :
       cachePc[c] \in {"lookup", "room"} /\ cachePc'[c] # cachePc[c]
         /\ g \in child /\ Live(g)
       => basis'[g] = "live" /\ broker'[g] = "serving"]_cacheVars
=============================================================================
