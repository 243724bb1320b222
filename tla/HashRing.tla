------------------------------ MODULE HashRing ------------------------------
(***************************************************************************)
(* The consistent hash ring over the Redis nodes                           *)
(* (services/gateway/internal/cache/ring.go).  Lookups run concurrently    *)
(* with Add and Remove: a lookup takes one step for each round of its      *)
(* binary search and holds the read lock from its first to its last.  Add  *)
(* and Remove run under the write lock, each in one step.                  *)
(*                                                                         *)
(* SHA-256 is any function: Init chooses where the virtual nodes lie,      *)
(* collisions included.  A key is its position.  Indexes start with 1.     *)
(***************************************************************************)
EXTENDS Integers, Sequences, FiniteSets

CONSTANTS
  Nodes,      \* names of Redis nodes
  Replicas,   \* virtual nodes of each
  Positions,  \* the hash space
  Lookups,    \* goroutines that look a key up
  NoNode      \* the empty name, for an empty ring

ASSUME RingAssumption ==
  /\ Replicas \in Nat \ {0}
  /\ Positions \subseteq Nat /\ Positions # {}
  /\ NoNode \notin Nodes

VARIABLES
  hashKey,  \* the positions of the virtual nodes of each node
  vnodes,   \* the positions in the ring, sorted
  nodeMap,  \* the node at each of them
  clients,  \* the nodes that have a client
  reading,  \* the lookups that hold the read lock
  key,      \* what each lookup looks for
  l, r,     \* the bounds of its search
  found     \* what it returned last

ring == <<vnodes, nodeMap, clients>>
vars == <<hashKey, ring, reading, key, l, r, found>>

TypeOK ==
  /\ hashKey \in [Nodes -> [1 .. Replicas -> Positions]]
  /\ vnodes \in Seq(Positions)
  /\ DOMAIN nodeMap \subseteq Positions
  /\ \A h \in DOMAIN nodeMap : nodeMap[h] \in Nodes
  /\ clients \subseteq Nodes
  /\ reading \subseteq Lookups
  /\ key \in [Lookups -> Positions]
  /\ l \in [Lookups -> Nat] /\ r \in [Lookups -> Nat]
  /\ found \in [Lookups -> Nodes \cup {NoNode}]

AnyPosition == CHOOSE h \in Positions : TRUE

\* An empty ring; NewHashRing with clients is the Add of each of them, in any
\* order.
Init ==
  /\ hashKey \in [Nodes -> [1 .. Replicas -> Positions]]
  /\ vnodes = <<>> /\ nodeMap = <<>> /\ clients = {}
  /\ reading = {}
  /\ key = [p \in Lookups |-> AnyPosition]
  /\ l = [p \in Lookups |-> 1] /\ r = [p \in Lookups |-> 1]
  /\ found = [p \in Lookups |-> NoNode]

-----------------------------------------------------------------------------
\* Helpers.

\* The values f[i], i \in I, in ascending order: the k-th is the value with
\* fewer than k below it and at least k up to it.
Ranked(I, f) ==
  [k \in 1 .. Cardinality(I) |->
     CHOOSE v \in {f[i] : i \in I} :
       /\ Cardinality({i \in I : f[i] < v}) < k
       /\ k <= Cardinality({i \in I : f[i] <= v})]

\* slices.Sort
Sort(s) == Ranked(DOMAIN s, s)

\* The loop of Remove: the elements that are not in S, in their order.
Filter(s, S) ==
  LET kept == {i \in DOMAIN s : s[i] \notin S}
      index == Ranked(kept, [i \in kept |-> i])
  IN [k \in DOMAIN index |-> s[index[k]]]

\* The positions of the virtual nodes of a node.
Hashes(name) == {hashKey[name][i] : i \in 1 .. Replicas}

-----------------------------------------------------------------------------
\* Add and Remove.

\* mu.Lock
WriteLock == reading = {}

\* Mutated form: the positions are mapped to no name.
AddVnodesUnnamed(name) ==
  /\ vnodes' = Sort(vnodes \o hashKey[name])
  /\ nodeMap' = [h \in DOMAIN nodeMap \cup Hashes(name) |->
                   IF h \in Hashes(name) THEN NoNode ELSE nodeMap[h]]

\* addVnodes, and the sort that follows it.  The last node to be added keeps a
\* position that several have.
AddVnodes(name) ==
  /\ vnodes' = Sort(vnodes \o hashKey[name])
  /\ nodeMap' = [h \in DOMAIN nodeMap \cup Hashes(name) |->
                   IF h \in Hashes(name) THEN name ELSE nodeMap[h]]

Insert(name) ==
  /\ clients' = clients \cup {name}
  /\ AddVnodes(name)
  /\ UNCHANGED <<hashKey, reading, key, l, r, found>>

\* Mutated form: Add does not wait for the readers.
AddUnlocked(name) == name \notin clients /\ Insert(name)

\* Mutated form: a node may be added twice.
AddAgain(name) == WriteLock /\ Insert(name)

\* A node that is already there is left alone.
Add(name) ==
  /\ WriteLock
  /\ name \notin clients
  /\ Insert(name)

\* Mutated form: the positions stay in the map.
DropKeepsMap(S) == vnodes' = Filter(vnodes, S) /\ UNCHANGED nodeMap

\* The positions in S leave the ring.
Drop(S) ==
  /\ vnodes' = Filter(vnodes, S)
  /\ nodeMap' = [h \in DOMAIN nodeMap \ S |-> nodeMap[h]]

\* Mutated form: all that lies between two virtual nodes of the node goes.
RemoveSpan(name) ==
  /\ WriteLock
  /\ Len(vnodes) >= Replicas
  /\ Drop({h \in Positions : \E a, b \in Hashes(name) : a <= h /\ h <= b})
  /\ clients' = clients \ {name}
  /\ UNCHANGED <<hashKey, reading, key, l, r, found>>

\* Every virtual node at a position of the node goes, and its client, whether
\* the node is in the ring or not.  With fewer than Replicas virtual nodes in
\* the ring the allocation panics before anything has changed.
Remove(name) ==
  /\ WriteLock
  /\ Len(vnodes) >= Replicas
  /\ Drop(Hashes(name))
  /\ clients' = clients \ {name}
  /\ UNCHANGED <<hashKey, reading, key, l, r, found>>

-----------------------------------------------------------------------------
\* nodeFor, for NodeFor and ClientFor.

\* The lookup of position h begins: an empty ring has no node.
Lookup(p, h) ==
  /\ p \notin reading
  /\ found' = [found EXCEPT ![p] = NoNode]
  /\ IF vnodes = <<>>
       THEN UNCHANGED <<reading, key, l, r>>
       ELSE /\ reading' = reading \cup {p}
            /\ key' = [key EXCEPT ![p] = h]
            /\ l' = [l EXCEPT ![p] = 1]
            /\ r' = [r EXCEPT ![p] = Len(vnodes) + 1]
  /\ UNCHANGED <<hashKey, ring>>

\* mu.RUnlock
End(p) ==
  /\ reading' = reading \ {p}
  /\ key' = [key EXCEPT ![p] = AnyPosition]
  /\ l' = [l EXCEPT ![p] = 1] /\ r' = [r EXCEPT ![p] = 1]

\* findIndex has returned i.
Return(p, i) ==
  /\ found' = [found EXCEPT ![p] =
                 nodeMap[vnodes[IF i = Len(vnodes) + 1 THEN 1 ELSE i]]]
  /\ End(p)

\* A round of findIndex.
Round(p) ==
  LET m == l[p] + (r[p] - l[p]) \div 2 IN
  /\ p \in reading
  /\ l[p] < r[p]
  /\ \/ /\ vnodes[m] < key[p]
        /\ l' = [l EXCEPT ![p] = m + 1]
        /\ UNCHANGED <<reading, key, r, found>>
     \/ /\ vnodes[m] > key[p]
        /\ r' = [r EXCEPT ![p] = m]
        /\ UNCHANGED <<reading, key, l, found>>
     \/ vnodes[m] = key[p] /\ Return(p, m)
  /\ UNCHANGED <<hashKey, ring>>

\* The loop has ended.
Found(p) ==
  /\ p \in reading
  /\ l[p] >= r[p]
  /\ Return(p, l[p])
  /\ UNCHANGED <<hashKey, ring>>

Next ==
  \/ \E name \in Nodes : Add(name) \/ Remove(name)
  \/ \E p \in Lookups :
       (\E h \in Positions : Lookup(p, h)) \/ Round(p) \/ Found(p)

Spec == Init /\ [][Next]_vars

-----------------------------------------------------------------------------
\* Properties.

\* h is reached from k no later than g, clockwise.
Sooner(k, h, g) ==
  \/ k <= h /\ (h <= g \/ g < k)
  \/ h < k /\ h <= g /\ g < k

\* The node at the first position of the ring from k on, by the map alone.
Owner(k) ==
  nodeMap[CHOOSE h \in DOMAIN nodeMap : \A g \in DOMAIN nodeMap : Sooner(k, h, g)]

\* The virtual nodes of all nodes lie at different positions.
NoCollision ==
  \A m, n \in Nodes, i, j \in 1 .. Replicas :
    hashKey[m][i] = hashKey[n][j] => m = n /\ i = j

\* The binary search over the sorted slice finds the clockwise successor: what
\* a lookup returns is the owner of its key in the ring as it is then, with
\* positions that several virtual nodes share, keys past the last one, and Add
\* and Remove waiting for the lock.
RoutesClockwise ==
  [][\A p \in Lookups : p \in reading \ reading' => found'[p] = Owner(key[p])]_vars

\* Whatever was added, added again and removed, and whatever collides, every
\* position of the ring belongs to a node that has a client, and slice and map
\* hold the same positions: ClientFor never returns nil for a ring with virtual
\* nodes.
OwnersHaveClients ==
  /\ DOMAIN nodeMap = {vnodes[i] : i \in DOMAIN vnodes}
  /\ \A h \in DOMAIN nodeMap : nodeMap[h] \in clients

\* Without collisions the ring is determined by the nodes in it: gateways that
\* list the same nodes in another order, or come to them by other Adds and
\* Removes, route every key alike, and any node in the ring can be removed.
RingOfMembers ==
  NoCollision =>
    /\ DOMAIN nodeMap = UNION {Hashes(n) : n \in clients}
    /\ \A n \in clients : \A h \in Hashes(n) : nodeMap[h] = n
    /\ Len(vnodes) = Replicas * Cardinality(clients)

\* "Adding or removing one node re-routes only ~1/N of all keys" (ring.go): a
\* key only ever moves to the node that was added, and, without collisions,
\* away from the node that was removed.
OnlyItsKeysMove ==
  [][\A n \in Nodes :
       /\ n \in clients' \ clients /\ DOMAIN nodeMap # {}
            => \A k \in Positions : Owner(k)' \in {Owner(k), n}
       /\ n \in clients \ clients' /\ DOMAIN nodeMap' # {} /\ NoCollision
            => \A k \in Positions : Owner(k) \in {Owner(k)', n}]_vars
=============================================================================
