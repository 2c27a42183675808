--------------------------- MODULE RewrittenJSCache ---------------------------
(***************************************************************************)
(* internal/api/rewritten_js_cache.go: the cache of rewritten scripts, a   *)
(* map from keys to entries and a list of the entries in order of use,     *)
(* under one mutex.  Every operation is a function of the cache.  The      *)
(* counters of hits, misses and evictions are left out.                    *)
(***************************************************************************)
EXTENDS Naturals, Sequences, FiniteSets, FiniteSetsExt, SequencesExt

CONSTANT MaxBytes     \* maxBytes

ASSUME CacheAssumption == MaxBytes \in Nat

VARIABLES
  cache,    \* entries (key -> body, bytes), lru (keys, the last used first), usedBytes
  recency   \* history: every key that was added or served, the last one first

EmptyCache == [entries |-> <<>>, lru |-> <<>>, used |-> 0]

CacheInit == cache = EmptyCache /\ recency = <<>>

InCache(c, k) == k \in DOMAIN c.entries

ToFront(s, k) == <<k>> \o RemoveFirst(s, k)

\* Mutant: the bytes of a removed entry stay counted.
UsedAfterRemoveKept(c, k) == IF InCache(c, k) THEN c.used ELSE c.used

UsedAfterRemove(c, k) == c.used - c.entries[k].bytes

CacheRemove(c, k) ==
  [entries |-> [j \in DOMAIN c.entries \ {k} |-> c.entries[j]],
   lru |-> RemoveFirst(c.lru, k),
   used |-> UsedAfterRemove(c, k)]

\* The loop that takes entries from the back of the list until size more fit.
MakeRoom(c, size) ==
  FoldLeft(LAMBDA d, k : IF d.used + size > MaxBytes THEN CacheRemove(d, k) ELSE d,
           c, Reverse(c.lru))

\* add: an entry that is larger than the whole cache leaves it alone.
CacheAdd(c, k, body, size) ==
  IF size > MaxBytes THEN c
  ELSE LET d == MakeRoom(IF InCache(c, k) THEN CacheRemove(c, k) ELSE c, size)
       IN [entries |-> [j \in DOMAIN d.entries \cup {k} |->
                          IF j = k THEN [body |-> body, bytes |-> size] ELSE d.entries[j]],
           lru |-> <<k>> \o d.lru,
           used |-> d.used + size]

\* serve, for a key that is there.
CacheServe(c, k) == [c EXCEPT !.lru = ToFront(c.lru, k)]

-----------------------------------------------------------------------------
(* Properties *)

\* The map and the list hold the same keys, each once, and usedBytes is what
\* their entries take, which is never more than the limit: through
\* replacements, evictions and entries that do not fit.  What is there are the
\* most recently used scripts, without a gap: an entry is evicted only when all
\* that were used after it stay or go as well.
CacheSound ==
  /\ ToSet(cache.lru) = DOMAIN cache.entries
  /\ Len(cache.lru) = Cardinality(DOMAIN cache.entries)
  /\ cache.used = MapThenSumSet(LAMBDA k : cache.entries[k].bytes, DOMAIN cache.entries)
  /\ cache.used <= MaxBytes
  /\ IsPrefix(cache.lru, recency)
===============================================================================
