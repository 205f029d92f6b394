----------------------------- MODULE StateHash -----------------------------
(***************************************************************************)
(* Snapshot::hash_state: what is fed to the hasher, and in which order.     *)
(***************************************************************************)
EXTENDS Integers, SequencesExt

\* The orders in which the HashMap of archive a may yield its keys.
Orders(a) == SetToSeqs(DOMAIN a.memory_regions)

\* slice::sort_unstable: the same elements, rearranged.
Rearranged(s) == {[i \in DOMAIN s |-> s[p[i]]] : p \in Bijection(DOMAIN s, DOMAIN s)}

Ascending(s) == \A i, j \in DOMAIN s : i < j => s[i] <= s[j]

sort_unstable(s) == CHOOSE t \in Rearranged(s) : Ascending(t)

\* The registers, then each region: its address and the slice of its buffer,
\* which is hashed with its length.
HashFeed(a, gpas) ==
  [i \in DOMAIN a.registers |-> a.registers[i][1]]
  \o FlattenSeq([i \in DOMAIN gpas |->
                   <<gpas[i], Len(a.memory_regions[gpas[i]])>> \o a.memory_regions[gpas[i]]])

\* Seeded fault: the regions are hashed in the order of the HashMap.
HashFeedUnsorted(a, order) == HashFeed(a, order)

\* order: the sequence in which keys().collect() yields the addresses.
hash_state(a, order) == HashFeed(a, sort_unstable(order))
=============================================================================
