------------------------------ MODULE CacheModel ------------------------------
(***************************************************************************)
(* The cache exhibit (web/lib/cache-model.ts, simulateCache): a bounded    *)
(* cache with LRU eviction and a TTL counted in operations in front of an  *)
(* origin.  One step is one operation; latencies are left out.             *)
(***************************************************************************)
EXTENDS Integers, Sequences, FiniteSetsExt, Functions

CONSTANTS
    CacheSettings,  \* the configurations to simulate
    KeyPattern      \* the keys that successive reads ask for, in turn

ASSUME CacheAssumption ==
    /\ KeyPattern \in Seq(Range(KeyPattern)) /\ KeyPattern # <<>>
    /\ \A c \in CacheSettings :
           /\ c.invalidationMode \in {"invalidate-on-write", "ttl-only"}
           /\ {c.requestCount, c.cacheCapacity, c.writeEvery} \subseteq Nat
           /\ c.ttlOperations \in Nat \ {0}

VARIABLE cache  \* config, the entries by key, the origin's versions, the operations so far

Hot == "hot"
CacheKeys == Range(KeyPattern) \cup {Hot}

CacheIndex == Len(cache.operations)

\* Every writeEvery-th operation is a write, and writes go to the hot key.
IsCacheWrite(c, i) == c.writeEvery > 0 /\ (i + 1) % c.writeEvery = 0
KeyOf(c, i) == IF IsCacheWrite(c, i) THEN Hot ELSE KeyPattern[(i % Len(KeyPattern)) + 1]

Without(entries, keys) == Restrict(entries, DOMAIN entries \ keys)

CacheRecord(key, write, hit, version, originVersion) ==
    [key |-> key, write |-> write, hit |-> hit, cacheVersion |-> version,
     originVersion |-> originVersion]

-----------------------------------------------------------------------------

CacheWrite(s, i) ==
    LET version == s.origin[Hot] + 1
        kept == IF s.config.invalidationMode = "invalidate-on-write"
                THEN Without(s.entries, {Hot}) ELSE s.entries
        cached == IF Hot \in DOMAIN kept THEN kept[Hot].version ELSE -1
    IN  /\ IsCacheWrite(s.config, i)
        /\ cache' = [s EXCEPT !.origin[Hot] = version, !.entries = kept,
                        !.operations = Append(@, CacheRecord(Hot, TRUE, FALSE, cached, version))]

\* Mutant of Expired: the time to live starts again at every use.
Expired_SinceLastUse(s, key, i) == i - s.entries[key].lastUsedAt >= s.config.ttlOperations

Expired(s, key, i) == i - s.entries[key].insertedAt >= s.config.ttlOperations

Live(s, key, i) == key \in DOMAIN s.entries /\ ~Expired(s, key, i)

CacheHit(s, i) ==
    LET key == KeyOf(s.config, i)
    IN  /\ ~IsCacheWrite(s.config, i) /\ Live(s, key, i)
        /\ cache' = [s EXCEPT !.entries[key].lastUsedAt = i,
                        !.operations = Append(@,
                            CacheRecord(key, FALSE, TRUE, s.entries[key].version, s.origin[key]))]

leastRecentlyUsedKey(entries) ==
    CHOOSE k \in DOMAIN entries : \A l \in DOMAIN entries : entries[k].lastUsedAt <= entries[l].lastUsedAt

\* The entries with room for one more.
RoomMade(entries, capacity) ==
    IF Cardinality(DOMAIN entries) < capacity THEN entries
    ELSE Without(entries, {leastRecentlyUsedKey(entries)})

\* The origin answers; an expired entry is replaced, and a new one may evict another.
CacheMiss(s, i) ==
    LET key == KeyOf(s.config, i)
        entry == [version |-> s.origin[key], insertedAt |-> i, lastUsedAt |-> i]
        kept == Without(s.entries, {key})
        room == RoomMade(kept, s.config.cacheCapacity)
    IN  /\ ~IsCacheWrite(s.config, i) /\ ~Live(s, key, i)
        /\ cache' = [s EXCEPT !.entries = IF s.config.cacheCapacity = 0 THEN kept
                                          ELSE [k \in DOMAIN room \cup {key} |->
                                                   IF k = key THEN entry ELSE room[k]],
                        !.operations = Append(@,
                            CacheRecord(key, FALSE, FALSE, s.origin[key], s.origin[key]))]

-----------------------------------------------------------------------------

CacheOf(c) ==
    [config |-> c, entries |-> <<>>, origin |-> [k \in CacheKeys |-> 0], operations |-> <<>>]

CacheOperation ==
    /\ CacheIndex < cache.config.requestCount
    /\ CacheWrite(cache, CacheIndex) \/ CacheHit(cache, CacheIndex) \/ CacheMiss(cache, CacheIndex)

CacheSpec == cache \in {CacheOf(c) : c \in CacheSettings} /\ [][CacheOperation]_cache

-----------------------------------------------------------------------------

\* The origin's version of a key after the operation at position k, or 0.
OriginAt(key, k) ==
    Max({0} \cup {cache.operations[j].originVersion :
                      j \in {i \in DOMAIN cache.operations : i <= k /\ cache.operations[i].key = key}})

\* A hit is never older than the time to live, however often the entry was used; with
\* invalidation it is never stale at all.
HitsAreRecent ==
    \A k \in DOMAIN cache.operations :
        LET op == cache.operations[k]
        IN  op.hit => /\ op.cacheVersion >= OriginAt(op.key, k - cache.config.ttlOperations)
                      /\ cache.config.invalidationMode = "invalidate-on-write" =>
                             op.cacheVersion = op.originVersion

\* When the operation at position k last read this key; 0 if it never did.
LastRead(key, k) ==
    Max({0} \cup {j \in DOMAIN cache.operations :
                      j <= k /\ cache.operations[j].key = key /\ ~cache.operations[j].write})

\* Least recently used: among the last operations, a key read more recently than a cached
\* one is cached too, unless a write has invalidated it.
RecentlyUsedIsKept ==
    cache.config.cacheCapacity > 0 =>
        \A k \in DOMAIN cache.entries, l \in CacheKeys :
            LastRead(l, CacheIndex) > LastRead(k, CacheIndex) =>
                l \in DOMAIN cache.entries \/
                \E j \in DOMAIN cache.operations :
                    j > LastRead(l, CacheIndex) /\ cache.operations[j].write /\ cache.operations[j].key = l

\* The cache serves nothing too old, forgets nothing too early and never outgrows its capacity.
CachePromises ==
    /\ HitsAreRecent /\ RecentlyUsedIsKept
    /\ Cardinality(DOMAIN cache.entries) <= cache.config.cacheCapacity

=============================================================================
