--------------------------- MODULE CataloguePages ---------------------------
(***************************************************************************)
(* A public page of the catalogue and its two caches: shops.service.ts,    *)
(* catalog-cache.service.ts, and what redis.service.ts makes of a Redis    *)
(* that cannot be reached.                                                 *)
(*                                                                         *)
(* The database is reduced to the number of changes committed; what a page *)
(* shows is how many of them it was computed from.  Cache entries are      *)
(* keyed by the version of the page's scope, a counter in Redis that is    *)
(* incremented to announce a change.  A change may be announced at any     *)
(* time after its commit, by any process, more than once or never: by the  *)
(* process that made it and by the consumers of its event                  *)
(* (CatalogueEvents).                                                      *)
(***************************************************************************)
EXTENDS Naturals, FiniteSets

CONSTANTS
  Processes,     \* API processes
  Servers,       \* those of them that are asked for the page
  MaxChanges,    \* bound on the changes committed
  MaxBumps,      \* bound on the announcements
  MaxFaults      \* bound on crashes and on Redis commands that fail

VARIABLES
  committed,   \* how many changes have been committed
  counter,     \* the version counter of the page's scope in Redis; 0 when the key is absent
  l2,          \* version -> content: the page's entries in Redis
  l1,          \* process -> version -> content: its entries in process memory
  loads,       \* process -> version -> what a load in flight has read: {} or {content}
  firsts,      \* processes that were answered 1 and have not written 1 yet
  reach,       \* process -> whether its Redis circuit is closed
  bumps,       \* how many announcements there have been
  faults,      \* how many faults there have been
  announced,   \* (auxiliary) the latest change for which the counter has been incremented
  reused       \* (auxiliary) whether the counter has been left at a version already in use

caches == <<l2, l1, loads>>

version == <<counter, announced, reused>>

vars == <<committed, caches, version, firsts, reach, bumps, faults>>

Nothing == [v \in {} |-> 0]

Put(f, key, value) == [k \in DOMAIN f \cup {key} |-> IF k = key THEN value ELSE f[k]]

Without(f, key) == [k \in DOMAIN f \ {key} |-> f[k]]

(* A scope that nobody has invalidated yet, or an older one.               *)
Init ==
  /\ committed = 0
  /\ counter \in {0, 2}
  /\ l2 = Nothing
  /\ l1 = [p \in Servers |-> Nothing]
  /\ loads = [p \in Servers |-> Nothing]
  /\ firsts = {}
  /\ reach = [p \in Processes |-> TRUE]
  /\ bumps = 0 /\ faults = 0
  /\ announced = 0 /\ reused = FALSE

-----------------------------------------------------------------------------
(* Redis.  Any command that fails opens the process's circuit.             *)

Fails(p) == reach[p] /\ faults < MaxFaults /\ faults' = faults + 1 /\ reach' = [reach EXCEPT ![p] = FALSE]

Outage(p) == Fails(p) /\ UNCHANGED <<committed, caches, version, firsts, bumps>>

CircuitCloses(p) ==
  /\ ~reach[p] /\ reach' = [reach EXCEPT ![p] = TRUE]
  /\ UNCHANGED <<committed, caches, version, firsts, bumps, faults>>

(* The version in force: 1 while the key is absent.                        *)
InForce == IF counter = 0 THEN 1 ELSE counter

(* The version as a process reads it: 1 when Redis cannot be reached.      *)
VersionRead(p) == IF reach[p] THEN InForce ELSE 1

-----------------------------------------------------------------------------
(* Serving the page.  An entry in memory answers at once; one in Redis is  *)
(* kept in memory, too; a miss in both starts a load or joins the one in   *)
(* flight.                                                                 *)

MissesMemory(p) == VersionRead(p) \notin DOMAIN l1[p]

FindsInRedis(p) == reach[p] /\ VersionRead(p) \in DOMAIN l2

ServeFromRedis(p) ==
  /\ MissesMemory(p) /\ FindsInRedis(p)
  /\ l1' = [l1 EXCEPT ![p] = Put(@, VersionRead(p), l2[VersionRead(p)])]
  /\ UNCHANGED <<committed, l2, loads, version, firsts, reach, bumps, faults>>

StartLoad(p) ==
  /\ MissesMemory(p) /\ ~FindsInRedis(p) /\ VersionRead(p) \notin DOMAIN loads[p]
  /\ loads' = [loads EXCEPT ![p] = Put(@, VersionRead(p), {})]
  /\ UNCHANGED <<committed, l2, l1, version, firsts, reach, bumps, faults>>

ReadDatabase(p, v) ==
  /\ v \in DOMAIN loads[p] /\ loads[p][v] = {}
  /\ loads' = [loads EXCEPT ![p][v] = {committed}]
  /\ UNCHANGED <<committed, l2, l1, version, firsts, reach, bumps, faults>>

(* Mutant: the version is read again when the page is stored.              *)
StoreUnder_Read(v) == InForce

(* The page is stored under the version that was read before the load.     *)
StoreUnder(v) == v

StorePage(p, v) ==
  /\ v \in DOMAIN loads[p] /\ loads[p][v] # {}
  /\ \E content \in loads[p][v] :
       /\ l1' = [l1 EXCEPT ![p] = Put(@, StoreUnder(v), content)]
       /\ l2' = IF reach[p] THEN Put(l2, StoreUnder(v), content) ELSE l2
  /\ loads' = [loads EXCEPT ![p] = Without(@, v)]
  /\ UNCHANGED <<committed, version, firsts, reach, bumps, faults>>

(* Thirty seconds in memory, five minutes in Redis.                        *)
ExpireInMemory(p, v) ==
  /\ v \in DOMAIN l1[p]
  /\ l1' = [l1 EXCEPT ![p] = Without(@, v)]
  /\ UNCHANGED <<committed, l2, loads, version, firsts, reach, bumps, faults>>

(* Mutant: the entry is set without a lifetime.                            *)
ExpireInRedis_Never(v) == FALSE /\ UNCHANGED vars

ExpireInRedis(v) ==
  /\ v \in DOMAIN l2
  /\ l2' = Without(l2, v)
  /\ UNCHANGED <<committed, l1, loads, version, firsts, reach, bumps, faults>>

-----------------------------------------------------------------------------
(* Changing the catalogue, and announcing it.                              *)

Change ==
  /\ committed < MaxChanges /\ committed' = committed + 1
  /\ UNCHANGED <<caches, version, firsts, reach, bumps, faults>>

Increment(n) ==
  /\ counter' = counter + 1
  /\ announced' = IF announced < n THEN n ELSE announced
  /\ reused' = (reused \/ counter = 0)

(* The pages in memory are dropped in any case.  The command is answered,  *)
(* or executed and not answered, or never sent.                            *)
Announce(p, n) ==
  /\ bumps < MaxBumps /\ bumps' = bumps + 1
  /\ n \in 1..committed
  /\ l1' = [l1 EXCEPT ![p] = Nothing]
  /\ \/ /\ reach[p] /\ Increment(n) /\ UNCHANGED <<reach, faults>>
        /\ firsts' = IF counter = 0 THEN firsts \cup {p} ELSE firsts
     \/ Fails(p) /\ Increment(n) /\ UNCHANGED firsts
     \/ ~reach[p] /\ UNCHANGED <<version, firsts, reach, faults>>
  /\ UNCHANGED <<committed, l2, loads>>

(* Whoever has counted to 1 writes 1 once more, to give the key a          *)
(* lifetime.                                                               *)
WriteOne(p) ==
  /\ p \in firsts /\ firsts' = firsts \ {p}
  /\ counter' = IF reach[p] THEN 1 ELSE counter
  /\ reused' = (reused \/ counter' < counter)
  /\ UNCHANGED <<committed, caches, announced, reach, bumps, faults>>

-----------------------------------------------------------------------------
(* A process stops and is started again: its memory is gone.               *)
Crash(p) ==
  /\ faults < MaxFaults /\ faults' = faults + 1
  /\ l1' = [l1 EXCEPT ![p] = Nothing]
  /\ loads' = [loads EXCEPT ![p] = Nothing]
  /\ firsts' = firsts \ {p}
  /\ reach' = [reach EXCEPT ![p] = TRUE]
  /\ UNCHANGED <<committed, l2, version, bumps>>

Versions == DOMAIN l2 \cup UNION {DOMAIN l1[p] \cup DOMAIN loads[p] : p \in Servers}

Next ==
  \/ Change
  \/ \E p \in Servers :
       \/ ServeFromRedis(p) \/ StartLoad(p)
       \/ \E v \in DOMAIN loads[p] : ReadDatabase(p, v) \/ StorePage(p, v)
       \/ \E v \in DOMAIN l1[p] : ExpireInMemory(p, v)
  \/ \E p \in Processes :
       \/ WriteOne(p)
       \/ \E n \in 1..committed : Announce(p, n)
       \/ Outage(p) \/ CircuitCloses(p) \/ Crash(p)
  \/ \E v \in DOMAIN l2 : ExpireInRedis(v)

Spec == Init /\ [][Next]_vars

MaxVersion == 2 + MaxBumps

(* Loads end, and the lifetimes of the entries run out.                    *)
Fairness ==
  \A v \in 1..MaxVersion :
    /\ WF_vars(ExpireInRedis(v))
    /\ \A p \in Servers :
         WF_vars(ReadDatabase(p, v) \/ StorePage(p, v)) /\ WF_vars(ExpireInMemory(p, v))

LiveSpec == Spec /\ Fairness
-----------------------------------------------------------------------------
TypeOK ==
  /\ committed \in 0..MaxChanges /\ announced \in 0..committed
  /\ counter \in 0..MaxVersion /\ reused \in BOOLEAN
  /\ firsts \subseteq Processes /\ reach \in [Processes -> BOOLEAN]
  /\ \A v \in DOMAIN l2 : l2[v] \in 0..committed
  /\ \A p \in Servers :
       /\ \A v \in DOMAIN l1[p] : l1[p][v] \in 0..committed
       /\ \A v \in DOMAIN loads[p] : loads[p][v] \in {{}} \cup {{n} : n \in 0..committed}
  /\ Versions \subseteq 1..MaxVersion

(* What the page may be served from under the version in force.            *)
Served ==
  LET Under(f) == {f[v] : v \in DOMAIN f \cap {InForce}}
  IN Under(l2) \cup UNION {Under(l1[p]) \cup UNION Under(loads[p]) : p \in Servers}

(* Once a change has been announced, no page older than it is served under *)
(* the version in force, whatever loads were in flight when it was         *)
(* committed and whichever process stores them afterwards.  It holds as    *)
(* long as no announcement has left the counter at a version in use, which *)
(* the first one of a scope does: it counts from nothing, read as 1, to 1. *)
AnnouncedIsServed == reused \/ \A content \in Served : content >= announced

Kept == {l2[v] : v \in DOMAIN l2} \cup UNION {{l1[p][v] : v \in DOMAIN l1[p]} : p \in Servers}

(* When changes stop, all pages kept come to show the last one, even if no *)
(* announcement has ever been executed or the counter was lowered: an      *)
(* entry in memory may be renewed from Redis, one in Redis only by a load. *)
PagesCatchUp == <>[](Kept \subseteq {committed})
=============================================================================
