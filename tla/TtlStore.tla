------------------------------ MODULE TtlStore ------------------------------
(***************************************************************************)
(* The bounded stores with expiry (token-store.ts, file-ttl-map.ts,        *)
(* MemoryNonceStore): a sequence of [key, exp] in insertion order, as a    *)
(* JavaScript Map keeps it.                                                *)
(***************************************************************************)
EXTENDS Subsequence

(* has *)
HasKey(store, k, now) == \E i \in DOMAIN store : store[i].key = k /\ store[i].exp > now

Unexpired(store, now) == Kept(store, {store[i] : i \in {j \in DOMAIN store : store[j].exp > now}})

(* delete *)
WithoutKey(store, k) == Kept(store, {store[i] : i \in {j \in DOMAIN store : store[j].key # k}})

(* set of a Map: a key that is there keeps its place. *)
Put(store, k, exp) ==
  IF \E i \in DOMAIN store : store[i].key = k
  THEN [i \in DOMAIN store |-> IF store[i].key = k THEN [key |-> k, exp |-> exp] ELSE store[i]]
  ELSE Append(store, [key |-> k, exp |-> exp])

(* SET of Redis, which has room. *)
SetKey(store, k, exp, now) == Put(Unexpired(store, now), k, exp)

(* add: prune what has expired, make room by dropping the oldest, set. *)
AddKey(store, k, exp, now, cap) ==
  LET kept == Unexpired(store, now)
      room == IF Len(kept) < cap THEN kept ELSE SubSeq(kept, Len(kept) - cap + 2, Len(kept))
  IN Put(room, k, exp)

(* The keys that adding k pushes out although they have not expired. *)
Evicted(store, k, now, cap) ==
  LET kept == Unexpired(store, now)
  IN {kept[i].key : i \in 1..(IF Len(kept) < cap THEN 0 ELSE Len(kept) - cap + 1)} \ {k}
=============================================================================
