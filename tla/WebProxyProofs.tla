---------------------------- MODULE WebProxyProofs ----------------------------
(***************************************************************************)
(* Proofs about WebProxy with its CookieJar and RewrittenJSCache, for any  *)
(* number of targets, instances, tabs and concurrent requests, any limit   *)
(* of the cache, any Set-Cookies and any cookies of the browser.           *)
(*                                                                         *)
(* Three inductive invariants.  WebInv says what a handler knows of its    *)
(* target, and that at most one handler is on its way with the bootstrap   *)
(* of a target that is still unsent.  CacheInv says that the map, the list *)
(* and the byte counter of the cache agree; the loop that evicts is a fold *)
(* and the counter a sum, so what they compute is proved by induction on   *)
(* numbers, from the well-foundedness of <, with sets in place of          *)
(* predicates.  JarInv says that a jar holds exactly the cookies that the  *)
(* latest entries of the log store, and that every entry was scoped below  *)
(* the prefix of its target.                                               *)
(***************************************************************************)
EXTENDS WebProxy, FiniteSetTheorems, SequenceTheorems, WellFoundedInduction, TLAPS

-----------------------------------------------------------------------------
(* Numbers, folds and sums *)

\* One turn of the loop of add, and the function that the fold of MakeRoom chooses.
EvictStep(d, k, size) == IF d.used + size > MaxBytes THEN CacheRemove(d, k) ELSE d
FoldOf(it, c, r, size, n) ==
  it = [s \in SUBSET (1 .. n) |-> IF s = {} THEN c
                                  ELSE EvictStep(it[s \ {Max(s)}], r[Max(s)], size)]

\* Every non-empty set of numbers has a least element ...
LEMMA LeastNumber ==
  ASSUME NEW T, T \subseteq Nat, T # {}
  PROVE  \E n \in T : \A m \in T : n <= m
<1>1. PICK n \in T : \A m \in T : ~(<<m, n>> \in OpToRel(<, Nat))
  BY NatLessThanWellFounded, WFMin
<1>2. \A m \in T : ~(m < n)
  BY <1>1 DEF OpToRel
<1> QED
  BY <1>2

\* ... so that a set of numbers that is closed under successor has them all.
LEMMA UpTo ==
  ASSUME NEW L \in Nat, NEW S, 0 \in S, \A n \in 0 .. L : n # L /\ n \in S => n + 1 \in S
  PROVE  \A n \in 0 .. L : n \in S
<1> SUFFICES ASSUME NEW k \in 0 .. L, k \notin S PROVE FALSE
  OBVIOUS
<1>1. PICK T : T = {n \in 0 .. L : n \notin S}
  OBVIOUS
<1>2. PICK m \in T : \A j \in T : m <= j
  <2>1. T \subseteq Nat /\ T # {}
    BY <1>1
  <2> QED
    BY <2>1, LeastNumber
<1>3. m \in 0 .. L /\ m \notin S /\ m # 0
  BY <1>1, <1>2
<1>4. m - 1 \in 0 .. L /\ m - 1 # L /\ m - 1 \notin T /\ (m - 1) + 1 = m
  BY <1>2, <1>3
<1> QED
  BY <1>1, <1>3, <1>4

\* The same for all numbers.
LEMMA UpToAll ==
  ASSUME NEW S, 0 \in S, \A n \in Nat : n \in S => n + 1 \in S
  PROVE  \A n \in Nat : n \in S
<1> SUFFICES ASSUME NEW n \in Nat PROVE n \in S
  OBVIOUS
<1>1. \A m \in 0 .. n : m \in S
  <2>1. \A m \in 0 .. n : m # n /\ m \in S => m + 1 \in S
    OBVIOUS
  <2> QED
    BY <2>1, UpTo
<1> QED
  BY <1>1

\* Max, by its CHOOSE, of a set with a greatest element.
LEMMA MaxIs ==
  ASSUME NEW m \in Nat, NEW s, s \subseteq 1 .. m, m \in s PROVE Max(s) = m
<1>1. m \in s /\ \A y \in s : m >= y
  OBVIOUS
<1>2. \A k \in s : (\A y \in s : k >= y) => k = m
  OBVIOUS
<1> QED
  BY <1>1, <1>2 DEF Max

\* A recursive function on the parts of 1 .. n exists, and is what CHOOSE finds.
LEMMA FoldExists ==
  ASSUME NEW c, NEW r, NEW size
  PROVE  \A n \in Nat : \E it : FoldOf(it, c, r, size, n)
<1>1. PICK S : S = {n \in Nat : \E it : FoldOf(it, c, r, size, n)}
  OBVIOUS
<1>2. 0 \in S
  <2>1. PICK it : it = [s \in SUBSET (1 .. 0) |-> c]
    OBVIOUS
  <2>2. FoldOf(it, c, r, size, 0)
    BY <2>1 DEF FoldOf
  <2> QED
    BY <1>1, <2>2
<1>3. ASSUME NEW n \in Nat, n \in S PROVE n + 1 \in S
  <2>1. PICK it : FoldOf(it, c, r, size, n)
    BY <1>1, <1>3
  <2>2. PICK m : m = n + 1 /\ m \in Nat /\ 1 .. n = (1 .. m) \ {m}
    OBVIOUS
  <2>3. PICK nx : nx = [s \in SUBSET (1 .. m) |->
                          IF m \in s THEN EvictStep(it[s \ {m}], r[m], size) ELSE it[s]]
    OBVIOUS
  <2>4. ASSUME NEW s \in SUBSET (1 .. m)
        PROVE  nx[s] = IF s = {} THEN c ELSE EvictStep(nx[s \ {Max(s)}], r[Max(s)], size)
    <3>1. CASE m \in s
      <4>1. Max(s) = m /\ s # {}
        BY <2>2, <3>1, MaxIs
      <4>2. s \ {m} \in SUBSET (1 .. m) /\ m \notin s \ {m}
        OBVIOUS
      <4>3. nx[s \ {m}] = it[s \ {m}]
        BY <2>3, <4>2
      <4>4. nx[s] = EvictStep(it[s \ {m}], r[m], size)
        BY <2>3, <3>1
      <4> QED
        BY <4>1, <4>3, <4>4
    <3>2. CASE m \notin s
      <4>1. s \in SUBSET (1 .. n) /\ nx[s] = it[s]
        BY <2>2, <2>3, <3>2
      <4>2. PICK k : k = Max(s)
        OBVIOUS
      <4>3. nx[s \ {k}] = it[s \ {k}]
        BY <2>3, <3>2
      <4>4. it[s] = IF s = {} THEN c ELSE EvictStep(it[s \ {Max(s)}], r[Max(s)], size)
        BY <2>1, <4>1 DEF FoldOf
      <4> QED
        BY <4>1, <4>2, <4>3, <4>4
    <3> QED
      BY <3>1, <3>2
  <2>5. FoldOf(nx, c, r, size, m)
    BY <2>3, <2>4 DEF FoldOf
  <2> QED
    BY <1>1, <2>2, <2>5
<1>4. \A n \in Nat : n \in S
  BY <1>2, <1>3, UpToAll
<1> QED
  BY <1>1, <1>4

\* MakeRoom, turn by turn: room[i] is the cache after i turns of the loop.
LEMMA MakeRoomTurns ==
  ASSUME NEW K, NEW c, c.lru \in Seq(K), NEW size
  PROVE  \E room : /\ room[0] = c
                   /\ \A i \in 1 .. Len(c.lru) :
                        room[i] = EvictStep(room[i - 1], c.lru[Len(c.lru) - i + 1], size)
                   /\ MakeRoom(c, size) = room[Len(c.lru)]
<1>1. PICK L : L = Len(c.lru) /\ L \in Nat
  BY LenProperties
<1>2. PICK r : r = Reverse(c.lru)
  OBVIOUS
<1>3. DOMAIN r = 1 .. L /\ \A i \in 1 .. L : r[i] = c.lru[L - i + 1]
  BY <1>1, <1>2 DEF Reverse
<1>4. MakeRoom(c, size) =
        (CHOOSE it : it = [s \in SUBSET DOMAIN r |->
                             IF s = {} THEN c
                             ELSE EvictStep(it[s \ {Max(s)}], r[Max(s)], size)])[DOMAIN r]
  BY <1>2 DEF MakeRoom, FoldLeft, MapThenFoldSet, EvictStep
<1>5. PICK it : FoldOf(it, c, r, size, L) /\ MakeRoom(c, size) = it[1 .. L]
  <2>1. PICK g : g = CHOOSE it : FoldOf(it, c, r, size, L)
    OBVIOUS
  <2>2. FoldOf(g, c, r, size, L)
    BY <1>1, <2>1, FoldExists
  <2>3. MakeRoom(c, size) = g[1 .. L]
    BY <1>3, <1>4, <2>1 DEF FoldOf
  <2> QED
    BY <2>2, <2>3
<1>6. PICK room : room = [i \in 0 .. L |-> it[1 .. i]]
  OBVIOUS
<1>7. room[0] = c
  <2>1. 1 .. 0 = {} /\ {} \in SUBSET (1 .. L) /\ 0 \in 0 .. L
    BY <1>1
  <2>2. it[{}] = c
    BY <1>5, <2>1 DEF FoldOf
  <2> QED
    BY <1>6, <2>1, <2>2
<1>8. ASSUME NEW i \in 1 .. L PROVE room[i] = EvictStep(room[i - 1], c.lru[L - i + 1], size)
  <2>1. /\ i \in Nat /\ 1 .. i \subseteq 1 .. L /\ i \in 1 .. i /\ (1 .. i) \ {i} = 1 .. i - 1
        /\ i \in 0 .. L /\ i - 1 \in 0 .. L
    BY <1>1
  <2>2. Max(1 .. i) = i
    BY <2>1, MaxIs
  <2>3. it[1 .. i] = EvictStep(it[1 .. i - 1], r[i], size)
    BY <1>5, <2>1, <2>2 DEF FoldOf
  <2> QED
    BY <1>3, <1>6, <2>1, <2>3
<1>9. MakeRoom(c, size) = room[L]
  BY <1>1, <1>5, <1>6
<1> QED
  BY <1>1, <1>7, <1>8, <1>9

\* The bytes of the entries e of the keys S, and the function their sum chooses.
SumBytes(e, S) == MapThenSumSet(LAMBDA k : e[k].bytes, S)
Pick(s) == CHOOSE x \in s : TRUE
SumOn(it, e, D) ==
  it = [s \in D |-> IF s = {} THEN 0 ELSE e[Pick(s)].bytes + it[s \ {Pick(s)}]]
SumOf(it, e, S) == SumOn(it, e, SUBSET S)
Small(S, n) == {s \in SUBSET S : Cardinality(s) <= n}
SameBytes(e, f, S, T) == S \subseteq T /\ \A k \in S : e[k].bytes = f[k].bytes

\* Taking one element from a finite set.
LEMMA Taken ==
  ASSUME NEW s, IsFiniteSet(s), NEW k \in s
  PROVE  /\ IsFiniteSet(s \ {k}) /\ Cardinality(s \ {k}) \in Nat /\ Cardinality(s) \in Nat
         /\ Cardinality(s) = Cardinality(s \ {k}) + 1
<1>1. IsFiniteSet(s \ {k}) /\ k \notin s \ {k} /\ s = (s \ {k}) \cup {k}
  BY FS_Subset
<1>2. Cardinality((s \ {k}) \cup {k}) = Cardinality(s \ {k}) + 1
  BY <1>1, FS_AddElement
<1> QED
  BY <1>1, <1>2, FS_CardinalityType

LEMMA PickIn == ASSUME NEW s, s # {} PROVE Pick(s) \in s
BY DEF Pick

\* The function that MapThenFoldSet chooses exists, by induction on the size of the set.
LEMMA SumExists ==
  ASSUME NEW e, NEW S, IsFiniteSet(S) PROVE \E it : SumOf(it, e, S)
<1>1. PICK N : N = {n \in Nat : \E it : SumOn(it, e, Small(S, n))}
  OBVIOUS
<1>f. \A s \in SUBSET S : IsFiniteSet(s) /\ Cardinality(s) \in Nat /\ (Cardinality(s) = 0 <=> s = {})
  BY FS_Subset, FS_CardinalityType, FS_EmptySet
<1>2. 0 \in N
  <2>1. PICK it : it = [s \in Small(S, 0) |-> 0]
    OBVIOUS
  <2>2. \A s \in Small(S, 0) : s = {}
    BY <1>f DEF Small
  <2>3. SumOn(it, e, Small(S, 0))
    BY <2>1, <2>2 DEF SumOf, SumOn
  <2> QED
    BY <1>1, <2>3
<1>3. ASSUME NEW n \in Nat, n \in N PROVE n + 1 \in N
  <2>1. PICK it : SumOn(it, e, Small(S, n))
    BY <1>1, <1>3
  <2>2. PICK nx : nx = [s \in Small(S, n + 1) |-> IF s = {} THEN 0 ELSE e[Pick(s)].bytes + it[s \ {Pick(s)}]]
    OBVIOUS
  <2>3. \A u \in Small(S, n) : u \in Small(S, n + 1) /\ nx[u] = it[u]
    <3>1. \A u \in Small(S, n) : u \in Small(S, n + 1)
      BY <1>f DEF Small
    <3> QED
      BY <2>1, <2>2, <3>1 DEF SumOf, SumOn
  <2>4. ASSUME NEW s \in Small(S, n + 1), s # {} PROVE s \ {Pick(s)} \in Small(S, n)
    <3>1. Pick(s) \in s /\ s \in SUBSET S /\ Cardinality(s) <= n + 1
      BY <2>4, PickIn DEF Small
    <3>2. /\ Cardinality(s \ {Pick(s)}) \in Nat /\ Cardinality(s) \in Nat
          /\ Cardinality(s) = Cardinality(s \ {Pick(s)}) + 1
      BY <1>f, <3>1, Taken
    <3>3. Cardinality(s \ {Pick(s)}) <= n
      BY <3>1, <3>2
    <3> QED
      BY <3>1, <3>3 DEF Small
  <2>5. SumOn(nx, e, Small(S, n + 1))
    BY <2>2, <2>3, <2>4 DEF SumOf, SumOn
  <2> QED
    BY <1>1, <2>5
<1>4. Cardinality(S) \in N
  BY <1>2, <1>3, <1>f, UpToAll
<1>5. Small(S, Cardinality(S)) = SUBSET S
  BY FS_Subset DEF Small
<1> QED
  BY <1>1, <1>4, <1>5 DEF SumOf

\* The sum is a number ...
LEMMA SumType ==
  ASSUME NEW e, NEW S, NEW it, IsFiniteSet(S), \A k \in S : e[k].bytes \in Nat, SumOf(it, e, S)
  PROVE  \A s \in SUBSET S : it[s] \in Nat
<1>1. PICK N : N = {n \in Nat : \A s \in SUBSET S : Cardinality(s) = n => it[s] \in Nat}
  OBVIOUS
<1>f. \A s \in SUBSET S : IsFiniteSet(s) /\ Cardinality(s) \in Nat /\ (Cardinality(s) = 0 <=> s = {})
  BY FS_Subset, FS_CardinalityType, FS_EmptySet
<1>2. 0 \in N
  BY <1>1, <1>f DEF SumOf, SumOn
<1>3. ASSUME NEW n \in Nat, n \in N PROVE n + 1 \in N
  <2> SUFFICES ASSUME NEW s \in SUBSET S, Cardinality(s) = n + 1 PROVE it[s] \in Nat
    BY <1>1
  <2>1. s # {}
    BY <1>f
  <2>2. PICK p : p = Pick(s) /\ p \in s
    BY <2>1, PickIn
  <2>3. Cardinality(s \ {p}) = n
    BY <1>f, <2>2, Taken
  <2>4. it[s \ {p}] \in Nat
    BY <1>1, <1>3, <2>3
  <2>5. it[s] = e[p].bytes + it[s \ {p}]
    BY <2>1, <2>2 DEF SumOf, SumOn
  <2> QED
    BY <2>2, <2>4, <2>5
<1>4. \A n \in Nat : n \in N
  BY <1>2, <1>3, UpToAll
<1> QED
  BY <1>1, <1>4, <1>f

\* ... that does not depend on the order in which the elements are taken ...
LEMMA SumAnyOrder ==
  ASSUME NEW e, NEW S, NEW it, IsFiniteSet(S), \A k \in S : e[k].bytes \in Nat, SumOf(it, e, S)
  PROVE  \A s \in SUBSET S : \A k \in s : it[s] = e[k].bytes + it[s \ {k}]
<1>1. PICK N : N = {n \in Nat : \A s \in SUBSET S : Cardinality(s) = n =>
                                  \A k \in s : it[s] = e[k].bytes + it[s \ {k}]}
  OBVIOUS
<1>f. \A s \in SUBSET S : IsFiniteSet(s) /\ Cardinality(s) \in Nat /\ (Cardinality(s) = 0 <=> s = {})
  BY FS_Subset, FS_CardinalityType, FS_EmptySet
<1>t. \A s \in SUBSET S : it[s] \in Nat
  BY SumType
<1>2. 0 \in N
  BY <1>1, <1>f
<1>3. ASSUME NEW n \in Nat, n \in N PROVE n + 1 \in N
  <2> SUFFICES ASSUME NEW s \in SUBSET S, Cardinality(s) = n + 1, NEW k \in s
               PROVE  it[s] = e[k].bytes + it[s \ {k}]
    BY <1>1
  <2>1. s # {}
    OBVIOUS
  <2>2. PICK p : p = Pick(s) /\ p \in s
    BY <2>1, PickIn
  <2>3. it[s] = e[p].bytes + it[s \ {p}]
    BY <2>1, <2>2 DEF SumOf, SumOn
  <2>4. CASE p = k
    BY <2>3, <2>4
  <2>5. CASE p # k
    <3>1. Cardinality(s \ {p}) = n /\ Cardinality(s \ {k}) = n
      BY <1>f, <2>2, Taken
    <3>2. PICK q : q = s \ {p, k} /\ q = (s \ {p}) \ {k} /\ q = (s \ {k}) \ {p} /\ q \in SUBSET S
      OBVIOUS
    <3>3. it[s \ {p}] = e[k].bytes + it[q]
      <4>1. k \in s \ {p} /\ s \ {p} \in SUBSET S
        BY <2>5
      <4> QED
        BY <1>1, <1>3, <3>1, <3>2, <4>1
    <3>4. it[s \ {k}] = e[p].bytes + it[q]
      <4>1. p \in s \ {k} /\ s \ {k} \in SUBSET S
        BY <2>2, <2>5
      <4> QED
        BY <1>1, <1>3, <3>1, <3>2, <4>1
    <3>5. it[q] \in Nat /\ e[p].bytes \in Nat /\ e[k].bytes \in Nat
      BY <1>t, <2>2, <3>2
    <3>6. \A a, b, d \in Nat : a + (b + d) = b + (a + d)
      OBVIOUS
    <3> QED
      BY <2>3, <3>3, <3>4, <3>5, <3>6
  <2> QED
    BY <2>4, <2>5
<1>4. \A n \in Nat : n \in N
  BY <1>2, <1>3, UpToAll
<1> QED
  BY <1>1, <1>4, <1>f

\* ... nor on anything but the bytes of the elements themselves.
LEMMA SumAgrees ==
  ASSUME NEW e, NEW f, NEW S, NEW T, NEW it, NEW ju, IsFiniteSet(S), SameBytes(e, f, S, T),
         SumOf(it, e, S), SumOf(ju, f, T)
  PROVE  it[S] = ju[S]
<1>1. PICK N : N = {n \in Nat : \A s \in SUBSET S : Cardinality(s) = n => it[s] = ju[s]}
  OBVIOUS
<1>f. \A s \in SUBSET S : /\ IsFiniteSet(s) /\ Cardinality(s) \in Nat /\ (Cardinality(s) = 0 <=> s = {})
                          /\ s \in SUBSET T
  BY FS_Subset, FS_CardinalityType, FS_EmptySet DEF SameBytes
<1>2. 0 \in N
  BY <1>1, <1>f DEF SumOf, SumOn
<1>3. ASSUME NEW n \in Nat, n \in N PROVE n + 1 \in N
  <2> SUFFICES ASSUME NEW s \in SUBSET S, Cardinality(s) = n + 1 PROVE it[s] = ju[s]
    BY <1>1
  <2>1. s # {}
    BY <1>f
  <2>2. PICK p : p = Pick(s) /\ p \in s
    BY <2>1, PickIn
  <2>3. Cardinality(s \ {p}) = n
    BY <1>f, <2>2, Taken
  <2>4. it[s \ {p}] = ju[s \ {p}]
    BY <1>1, <1>3, <2>3
  <2>5. it[s] = e[p].bytes + it[s \ {p}]
    BY <2>1, <2>2 DEF SumOf, SumOn
  <2>6. ju[s] = f[p].bytes + ju[s \ {p}]
    BY <1>f, <2>1, <2>2 DEF SumOf, SumOn
  <2> QED
    BY <2>2, <2>4, <2>5, <2>6 DEF SameBytes
<1>4. \A n \in Nat : n \in N
  BY <1>2, <1>3, UpToAll
<1> QED
  BY <1>1, <1>4, <1>f

\* The sum of a finite set of entries, unfolded at any element.
LEMMA SumIs ==
  ASSUME NEW e, NEW S, IsFiniteSet(S)
  PROVE  \E it : SumOf(it, e, S) /\ SumBytes(e, S) = it[S]
<1>1. SumBytes(e, S) = (CHOOSE it : it = [s \in SUBSET S |->
           IF s = {} THEN 0 ELSE e[CHOOSE x \in s : TRUE].bytes + it[s \ {CHOOSE x \in s : TRUE}]])[S]
  BY DEF SumBytes, MapThenSumSet, MapThenFoldSet
<1>2. PICK g : g = CHOOSE it : SumOf(it, e, S)
  OBVIOUS
<1>3. SumOf(g, e, S)
  BY <1>2, SumExists
<1>4. SumBytes(e, S) = g[S]
  BY <1>1, <1>2 DEF SumOf, SumOn, Pick
<1> QED
  BY <1>3, <1>4

\* What the sum is for no entry, and with one entry more; and that other entries
\* do not matter.
LEMMA SumFacts ==
  ASSUME NEW e, NEW S, IsFiniteSet(S), \A k \in S : e[k].bytes \in Nat
  PROVE  /\ SumBytes(e, S) \in Nat
         /\ S = {} => SumBytes(e, S) = 0
         /\ \A k \in S : SumBytes(e, S) = e[k].bytes + SumBytes(e, S \ {k})
         /\ \A f : (\A k \in S : f[k].bytes = e[k].bytes) => SumBytes(f, S) = SumBytes(e, S)
<1>1. PICK it : SumOf(it, e, S) /\ SumBytes(e, S) = it[S]
  BY SumIs
<1>2. SumBytes(e, S) \in Nat
  BY <1>1, SumType
<1>3. S = {} => SumBytes(e, S) = 0
  BY <1>1 DEF SumOf, SumOn
<1>4. ASSUME NEW k \in S PROVE SumBytes(e, S) = e[k].bytes + SumBytes(e, S \ {k})
  <2>1. PICK R : R = S \ {k} /\ R \subseteq S /\ IsFiniteSet(R)
    BY FS_Subset
  <2>2. PICK ju : SumOf(ju, e, R) /\ SumBytes(e, R) = ju[R]
    BY <2>1, SumIs
  <2>3. ju[R] = it[R]
    <3>1. SameBytes(e, e, R, S)
      BY <2>1 DEF SameBytes
    <3> QED
      BY <1>1, <2>1, <2>2, <3>1, SumAgrees
  <2>4. it[S] = e[k].bytes + it[R]
    BY <1>1, <2>1, SumAnyOrder
  <2> QED
    BY <1>1, <2>1, <2>2, <2>3, <2>4
<1>5. ASSUME NEW f, \A k \in S : f[k].bytes = e[k].bytes PROVE SumBytes(f, S) = SumBytes(e, S)
  <2>1. PICK ju : SumOf(ju, f, S) /\ SumBytes(f, S) = ju[S]
    BY SumIs
  <2>2. ju[S] = it[S]
    <3>1. SameBytes(f, e, S, S)
      BY <1>5 DEF SameBytes
    <3> QED
      BY <1>1, <2>1, <3>1, SumAgrees
  <2> QED
    BY <1>1, <2>1, <2>2
<1> QED
  BY <1>2, <1>3, <1>4, <1>5

-----------------------------------------------------------------------------
(* Sequences *)

\* RemoveFirst on a sequence whose first k is at m, or that has none.
LEMMA FirstAt ==
  ASSUME NEW K, NEW s \in Seq(K), NEW k, \E i \in 1 .. Len(s) : s[i] = k
  PROVE  \E m \in 1 .. Len(s) : s[m] = k /\ \A j \in 1 .. m - 1 : s[j] # k
<1>1. PICK T : T = {i \in 1 .. Len(s) : s[i] = k}
  OBVIOUS
<1>2. T \subseteq Nat /\ T # {} /\ Len(s) \in Nat
  BY <1>1, LenProperties
<1>3. PICK m \in T : \A j \in T : m <= j
  BY <1>2, LeastNumber
<1>4. m \in 1 .. Len(s) /\ s[m] = k
  BY <1>1
<1>5. ASSUME NEW j \in 1 .. m - 1 PROVE s[j] # k
  <2>1. j \in 1 .. Len(s) /\ ~(m <= j)
    BY <1>2, <1>4
  <2> QED
    BY <1>1, <1>3, <2>1
<1> QED
  BY <1>4, <1>5

\* The sequence without its m-th element.
LEMMA RemovedAt ==
  ASSUME NEW K, NEW s \in Seq(K), NEW m \in 1 .. Len(s)
  PROVE  /\ RemoveAt(s, m) \in Seq(K) /\ Len(RemoveAt(s, m)) = Len(s) - 1
         /\ \A i \in 1 .. Len(s) - 1 : RemoveAt(s, m)[i] = IF i < m THEN s[i] ELSE s[i + 1]
<1>1. PICK L : L = Len(s) /\ L \in Nat /\ m \in 1 .. L
  BY LenProperties
<1>2. PICK a, b : a = SubSeq(s, 1, m - 1) /\ b = SubSeq(s, m + 1, L)
  OBVIOUS
<1>3. /\ a \in Seq(K) /\ Len(a) = m - 1 /\ \A i \in 1 .. m - 1 : a[i] = s[i]
  BY <1>1, <1>2, SubSeqProperties
<1>4. /\ b \in Seq(K) /\ Len(b) = L - m /\ \A i \in 1 .. L - m : b[i] = s[m + i]
  BY <1>1, <1>2, SubSeqProperties
<1>5. RemoveAt(s, m) = a \o b
  BY <1>1, <1>2 DEF RemoveAt
<1>6. /\ a \o b \in Seq(K) /\ Len(a \o b) = L - 1
      /\ \A i \in 1 .. L - 1 : (a \o b)[i] = IF i <= m - 1 THEN a[i] ELSE b[i - (m - 1)]
  <2>1. /\ a \o b \in Seq(K) /\ Len(a \o b) = Len(a) + Len(b)
        /\ \A i \in 1 .. Len(a) + Len(b) : (a \o b)[i] = IF i <= Len(a) THEN a[i] ELSE b[i - Len(a)]
    BY <1>3, <1>4, ConcatProperties
  <2>2. Len(a) = m - 1 /\ Len(a) + Len(b) = L - 1
    BY <1>1, <1>3, <1>4
  <2> QED
    BY <2>1, <2>2, Zenon
<1>7. ASSUME NEW i \in 1 .. L - 1 PROVE (a \o b)[i] = IF i < m THEN s[i] ELSE s[i + 1]
  <2>1. CASE i < m
    BY <1>1, <1>3, <1>6, <2>1
  <2>2. CASE ~(i < m)
    <3>1. i - (m - 1) \in 1 .. L - m /\ m + (i - (m - 1)) = i + 1 /\ ~(i <= m - 1)
      BY <1>1, <2>2
    <3>2. b[i - (m - 1)] = s[m + (i - (m - 1))]
      BY <1>4, <3>1
    <3> QED
      BY <1>6, <2>2, <3>1, <3>2
  <2> QED
    BY <2>1, <2>2
<1> QED
  BY <1>1, <1>5, <1>6, <1>7

\* RemoveFirst takes away the first of the elements that are k ...
LEMMA RemoveFirstIs ==
  ASSUME NEW K, NEW s \in Seq(K), NEW m \in 1 .. Len(s), NEW k, s[m] = k, \A j \in 1 .. m - 1 : s[j] # k
  PROVE  RemoveFirst(s, k) = RemoveAt(s, m)
<1>1. PICK T : T = {i \in 1 .. Len(s) : s[i] = k}
  OBVIOUS
<1>2. SelectInSeq(s, LAMBDA v : v = k) = IF T # {} THEN Min(T) ELSE 0
  BY <1>1 DEF SelectInSeq
<1>3. m \in T /\ Len(s) \in Nat
  BY <1>1, LenProperties
<1>4. \A i \in T : m <= i
  <2> SUFFICES ASSUME NEW i \in 1 .. Len(s), s[i] = k, ~(m <= i) PROVE FALSE
    BY <1>1
  <2>1. i \in 1 .. m - 1
    BY <1>3
  <2> QED
    BY <2>1
<1>5. Min(T) = m
  <2>1. \A x \in T : (\A y \in T : x =< y) => x = m
    BY <1>1, <1>3, <1>4
  <2> QED
    BY <1>3, <1>4, <2>1 DEF Min
<1> QED
  BY <1>2, <1>3, <1>5 DEF RemoveFirst

\* ... leaves a sequence without k alone ...
LEMMA RemoveFirstNone ==
  ASSUME NEW s, NEW k, ~\E i \in 1 .. Len(s) : s[i] = k PROVE RemoveFirst(s, k) = s
BY DEF RemoveFirst

\* ... and gives a sequence.
LEMMA RemoveFirstType ==
  ASSUME NEW K, NEW s \in Seq(K), NEW k PROVE RemoveFirst(s, k) \in Seq(K)
<1>1. CASE \E i \in 1 .. Len(s) : s[i] = k
  <2>1. PICK m \in 1 .. Len(s) : s[m] = k /\ \A j \in 1 .. m - 1 : s[j] # k
    BY <1>1, FirstAt
  <2> QED
    <3>1. RemoveFirst(s, k) = RemoveAt(s, m)
      BY <2>1, RemoveFirstIs
    <3> QED
      BY <3>1, RemovedAt
<1>2. CASE ~\E i \in 1 .. Len(s) : s[i] = k
  BY <1>2, RemoveFirstNone
<1> QED
  BY <1>1, <1>2

\* Prefixes, element by element.
LEMMA PrefixIs ==
  ASSUME NEW K, NEW s \in Seq(K), NEW t \in Seq(K)
  PROVE  IsPrefix(s, t) <=> (Len(s) <= Len(t) /\ \A i \in 1 .. Len(s) : s[i] = t[i])
<1>1. PICK n : n = Len(s) /\ n \in Nat /\ Len(t) \in Nat
  BY LenProperties
<1>2. CASE n <= Len(t)
  <2>1. PICK a, b : a = SubSeq(s, 1, n) /\ b = SubSeq(t, 1, n)
    OBVIOUS
  <2>2. /\ a \in Seq(K) /\ Len(a) = n /\ \A i \in 1 .. n : a[i] = s[i]
    BY <1>1, <2>1, SubSeqProperties
  <2>3. /\ b \in Seq(K) /\ Len(b) = n /\ \A i \in 1 .. n : b[i] = t[i]
    BY <1>1, <1>2, <2>1, SubSeqProperties
  <2>4. a = b <=> \A i \in 1 .. n : s[i] = t[i]
    BY <1>1, <2>2, <2>3, SeqEqual
  <2> QED
    BY <1>1, <1>2, <2>1, <2>4 DEF IsPrefix
<1>3. CASE ~(n <= Len(t))
  BY <1>1, <1>3 DEF IsPrefix
<1> QED
  BY <1>2, <1>3

LEMMA PrefixTrans ==
  ASSUME NEW K, NEW s \in Seq(K), NEW t \in Seq(K), NEW u \in Seq(K), IsPrefix(s, t), IsPrefix(t, u)
  PROVE  IsPrefix(s, u)
<1>1. Len(s) \in Nat /\ Len(t) \in Nat /\ Len(u) \in Nat
  BY LenProperties
<1>2. Len(s) <= Len(t) /\ \A i \in 1 .. Len(s) : s[i] = t[i]
  BY PrefixIs
<1>3. Len(t) <= Len(u) /\ \A i \in 1 .. Len(t) : t[i] = u[i]
  BY PrefixIs
<1>4. Len(s) <= Len(u) /\ \A i \in 1 .. Len(s) : s[i] = u[i]
  BY <1>1, <1>2, <1>3
<1> QED
  BY <1>4, PrefixIs

\* A sequence with a new first element.
LEMMA ConsIs ==
  ASSUME NEW K, NEW s \in Seq(K), NEW k \in K
  PROVE  /\ <<k>> \o s \in Seq(K) /\ Len(<<k>> \o s) = Len(s) + 1
         /\ (<<k>> \o s)[1] = k /\ \A i \in 1 .. Len(s) : (<<k>> \o s)[i + 1] = s[i]
         /\ \A i \in 1 .. Len(s) + 1 : (<<k>> \o s)[i] = IF i = 1 THEN k ELSE s[i - 1]
<1>1. <<k>> \in Seq(K) /\ Len(<<k>>) = 1 /\ <<k>>[1] = k /\ Len(s) \in Nat
  BY LenProperties
<1>2. /\ <<k>> \o s \in Seq(K) /\ Len(<<k>> \o s) = 1 + Len(s)
      /\ \A i \in 1 .. 1 + Len(s) : (<<k>> \o s)[i] = IF i <= 1 THEN <<k>>[i] ELSE s[i - 1]
  BY <1>1, ConcatProperties
<1>3. \A i \in 1 .. Len(s) + 1 : (<<k>> \o s)[i] = IF i = 1 THEN k ELSE s[i - 1]
  BY <1>1, <1>2
<1>4. \A i \in 1 .. Len(s) : (<<k>> \o s)[i + 1] = s[i]
  BY <1>1, <1>3
<1> QED
  BY <1>1, <1>2, <1>3, <1>4

\* A new first element, and the removal of one, keep a prefix a prefix.
LEMMA PrefixCons ==
  ASSUME NEW K, NEW s \in Seq(K), NEW t \in Seq(K), NEW k \in K, IsPrefix(s, t)
  PROVE  IsPrefix(<<k>> \o s, <<k>> \o t)
<1>1. Len(s) \in Nat /\ Len(t) \in Nat /\ Len(s) <= Len(t) /\ \A i \in 1 .. Len(s) : s[i] = t[i]
  BY LenProperties, PrefixIs
<1>2. PICK a, b : a = <<k>> \o s /\ b = <<k>> \o t
  OBVIOUS
<1>3. /\ a \in Seq(K) /\ Len(a) = Len(s) + 1
      /\ \A i \in 1 .. Len(s) + 1 : a[i] = IF i = 1 THEN k ELSE s[i - 1]
  BY <1>2, ConsIs
<1>4. /\ b \in Seq(K) /\ Len(b) = Len(t) + 1
      /\ \A i \in 1 .. Len(t) + 1 : b[i] = IF i = 1 THEN k ELSE t[i - 1]
  BY <1>2, ConsIs
<1>5. ASSUME NEW i \in 1 .. Len(s) + 1 PROVE a[i] = b[i]
  <2>1. i \in 1 .. Len(t) + 1 /\ (i # 1 => i - 1 \in 1 .. Len(s))
    BY <1>1
  <2> QED
    BY <1>1, <1>3, <1>4, <2>1
<1>6. Len(a) <= Len(b)
  BY <1>1, <1>3, <1>4
<1>7. IsPrefix(a, b)
  BY <1>3, <1>4, <1>5, <1>6, PrefixIs
<1> QED
  BY <1>2, <1>7

LEMMA PrefixRemove ==
  ASSUME NEW K, NEW s \in Seq(K), NEW t \in Seq(K), NEW k, IsPrefix(s, t)
  PROVE  IsPrefix(RemoveFirst(s, k), RemoveFirst(t, k))
<1>1. Len(s) \in Nat /\ Len(t) \in Nat /\ Len(s) <= Len(t) /\ \A i \in 1 .. Len(s) : s[i] = t[i]
  BY LenProperties, PrefixIs
<1>2. PICK a, b : a = RemoveFirst(s, k) /\ b = RemoveFirst(t, k)
  OBVIOUS
<1>3. a \in Seq(K) /\ b \in Seq(K)
  BY <1>2, RemoveFirstType
<1>4. CASE ~\E i \in 1 .. Len(t) : t[i] = k
  <2>1. ~\E i \in 1 .. Len(s) : s[i] = k
    BY <1>1, <1>4
  <2>2. a = s /\ b = t
    BY <1>2, <1>4, <2>1, RemoveFirstNone
  <2> QED
    BY <1>2, <2>2
<1>5. CASE \E i \in 1 .. Len(t) : t[i] = k
  <2>1. PICK m \in 1 .. Len(t) : t[m] = k /\ \A j \in 1 .. m - 1 : t[j] # k
    BY <1>5, FirstAt
  <2>2. /\ Len(b) = Len(t) - 1
        /\ \A i \in 1 .. Len(t) - 1 : b[i] = IF i < m THEN t[i] ELSE t[i + 1]
    <3>1. b = RemoveAt(t, m)
      BY <1>2, <2>1, RemoveFirstIs
    <3> QED
      BY <3>1, RemovedAt
  <2>3. CASE m <= Len(s)
    <3>1. m \in 1 .. Len(s) /\ s[m] = k /\ \A j \in 1 .. m - 1 : s[j] # k
      <4>1. m \in 1 .. Len(s) /\ \A j \in 1 .. m - 1 : j \in 1 .. Len(s)
        BY <1>1, <2>3
      <4> QED
        BY <1>1, <2>1, <4>1
    <3>2. /\ Len(a) = Len(s) - 1
          /\ \A i \in 1 .. Len(s) - 1 : a[i] = IF i < m THEN s[i] ELSE s[i + 1]
      <4>1. a = RemoveAt(s, m)
        BY <1>2, <3>1, RemoveFirstIs
      <4> QED
        BY <3>1, <4>1, RemovedAt
    <3>3. ASSUME NEW i \in 1 .. Len(s) - 1 PROVE a[i] = b[i]
      <4>1. i \in 1 .. Len(s) /\ i + 1 \in 1 .. Len(s) /\ i \in 1 .. Len(t) - 1
        BY <1>1
      <4> QED
        BY <1>1, <2>2, <3>2, <4>1
    <3>4. Len(a) <= Len(b)
      BY <1>1, <2>2, <3>2
    <3>5. IsPrefix(a, b)
      BY <1>3, <3>2, <3>3, <3>4, PrefixIs
    <3> QED
      BY <1>2, <3>5
  <2>4. CASE ~(m <= Len(s))
    <3>1. ~\E i \in 1 .. Len(s) : s[i] = k
      <4> SUFFICES ASSUME NEW i \in 1 .. Len(s) PROVE s[i] # k
        OBVIOUS
      <4>1. i \in 1 .. m - 1
        BY <1>1, <2>4
      <4> QED
        BY <1>1, <2>1, <4>1
    <3>2. a = s
      BY <1>2, <3>1, RemoveFirstNone
    <3>3. ASSUME NEW i \in 1 .. Len(s) PROVE s[i] = b[i]
      <4>1. i \in 1 .. Len(t) - 1 /\ i < m
        BY <1>1, <2>1, <2>4
      <4> QED
        BY <1>1, <2>2, <4>1
    <3>4. Len(s) <= Len(b)
      BY <1>1, <2>1, <2>2, <2>4
    <3>5. IsPrefix(a, b)
      BY <1>3, <3>2, <3>3, <3>4, PrefixIs
    <3> QED
      BY <1>2, <3>5
  <2> QED
    BY <2>3, <2>4
<1> QED
  BY <1>4, <1>5

-----------------------------------------------------------------------------
(* The cache *)

CacheOwn(c) == \A k \in DOMAIN c.entries : c.entries[k].body = k[1]

Keys == Instances \X RequestPaths

\* The map and the list of cache c hold the same keys, each once, its counter is
\* the sum of their bytes, and every entry is of the instance its key names.
CacheOK(c) ==
  /\ \E E : c \in [entries : E, lru : Seq(Keys), used : Nat]
  /\ IsFiniteSet(DOMAIN c.entries)
  /\ c.entries \in [DOMAIN c.entries -> [body : Instances, bytes : Nat]]
  /\ ToSet(c.lru) = DOMAIN c.entries
  /\ Len(c.lru) = Cardinality(DOMAIN c.entries)
  /\ \A i, j \in 1 .. Len(c.lru) : c.lru[i] = c.lru[j] => i = j
  /\ c.used = SumBytes(c.entries, DOMAIN c.entries)
  /\ CacheOwn(c)

CacheInv == /\ CacheOK(cache) /\ cache.used <= MaxBytes
            /\ recency \in Seq(Keys) /\ IsPrefix(cache.lru, recency)

\* What add does once there is room.
PushFront(d, k, body, size) ==
  [entries |-> [j \in DOMAIN d.entries \cup {k} |->
                  IF j = k THEN [body |-> body, bytes |-> size] ELSE d.entries[j]],
   lru |-> <<k>> \o d.lru,
   used |-> d.used + size]

\* What CacheOK says of the list and of the entries, element by element.
LEMMA InList ==
  ASSUME NEW c, CacheOK(c)
  PROVE  /\ c.lru \in Seq(Keys) /\ Len(c.lru) \in Nat /\ c.used \in Nat
         /\ \A k : k \in DOMAIN c.entries <=> \E i \in 1 .. Len(c.lru) : c.lru[i] = k
         /\ DOMAIN c.entries \subseteq Keys
         /\ \A k \in DOMAIN c.entries : c.entries[k].bytes \in Nat /\ c.entries[k].body \in Instances
<1>1. c.lru \in Seq(Keys) /\ c.used \in Nat
  BY DEF CacheOK
<1>2. Len(c.lru) \in Nat /\ DOMAIN c.lru = 1 .. Len(c.lru) /\ \A i \in 1 .. Len(c.lru) : c.lru[i] \in Keys
  BY <1>1, LenProperties, ElementOfSeq
<1>3. \A k : k \in DOMAIN c.entries <=> \E i \in 1 .. Len(c.lru) : c.lru[i] = k
  BY <1>2 DEF CacheOK, ToSet
<1>4. \A k \in DOMAIN c.entries : c.entries[k].bytes \in Nat /\ c.entries[k].body \in Instances
  BY DEF CacheOK
<1> QED
  BY <1>1, <1>2, <1>3, <1>4

\* remove keeps the cache sound ...
LEMMA RemoveKeepsCache ==
  ASSUME NEW c, CacheOK(c), NEW k \in DOMAIN c.entries, NEW d, d = CacheRemove(c, k)
  PROVE  /\ CacheOK(d) /\ DOMAIN d.entries = DOMAIN c.entries \ {k}
         /\ d.lru = RemoveFirst(c.lru, k) /\ d.used = c.used - c.entries[k].bytes
<1>1. /\ c.lru \in Seq(Keys) /\ Len(c.lru) \in Nat /\ c.used \in Nat /\ c.entries[k].bytes \in Nat
      /\ \A j : j \in DOMAIN c.entries <=> \E i \in 1 .. Len(c.lru) : c.lru[i] = j
      /\ \A j \in DOMAIN c.entries : c.entries[j].bytes \in Nat
  BY InList
<1>2. PICK m \in 1 .. Len(c.lru) : c.lru[m] = k /\ \A j \in 1 .. m - 1 : c.lru[j] # k
  <2>1. \E i \in 1 .. Len(c.lru) : c.lru[i] = k
    BY <1>1
  <2> QED
    BY <1>1, <2>1, FirstAt
<1>3. PICK l : l = RemoveFirst(c.lru, k) /\ l = RemoveAt(c.lru, m)
  BY <1>1, <1>2, RemoveFirstIs
<1>4. /\ l \in Seq(Keys) /\ Len(l) = Len(c.lru) - 1
      /\ \A i \in 1 .. Len(c.lru) - 1 : l[i] = IF i < m THEN c.lru[i] ELSE c.lru[i + 1]
  <2>1. /\ RemoveAt(c.lru, m) \in Seq(Keys) /\ Len(RemoveAt(c.lru, m)) = Len(c.lru) - 1
        /\ \A i \in 1 .. Len(c.lru) - 1 :
             RemoveAt(c.lru, m)[i] = IF i < m THEN c.lru[i] ELSE c.lru[i + 1]
    BY <1>1, RemovedAt
  <2> QED
    BY <1>3, <2>1
<1>5. PICK D : D = DOMAIN c.entries \ {k}
  OBVIOUS
<1>6. /\ d = [entries |-> [j \in D |-> c.entries[j]], lru |-> l, used |-> c.used - c.entries[k].bytes]
  BY <1>3, <1>5 DEF CacheRemove, UsedAfterRemove
<1>7. /\ d.entries = [j \in D |-> c.entries[j]] /\ DOMAIN d.entries = D /\ d.lru = l
      /\ d.used = c.used - c.entries[k].bytes /\ \A j \in D : d.entries[j] = c.entries[j]
  BY <1>6
<1>8. /\ IsFiniteSet(DOMAIN c.entries) /\ IsFiniteSet(D) /\ Cardinality(D) \in Nat
      /\ Cardinality(DOMAIN c.entries) = Cardinality(D) + 1
  BY <1>5, Taken DEF CacheOK
<1>9. SumBytes(d.entries, D) \in Nat /\ c.used = c.entries[k].bytes + SumBytes(d.entries, D)
  <2>1. SumBytes(c.entries, DOMAIN c.entries) = c.entries[k].bytes + SumBytes(c.entries, D)
    BY <1>1, <1>5, <1>8, SumFacts
  <2>2. \A j \in D : c.entries[j].bytes \in Nat /\ d.entries[j].bytes = c.entries[j].bytes
    BY <1>1, <1>5, <1>7
  <2>3. SumBytes(c.entries, D) \in Nat /\ SumBytes(d.entries, D) = SumBytes(c.entries, D)
    BY <1>8, <2>2, SumFacts
  <2> QED
    BY <2>1, <2>3 DEF CacheOK
<1>10. d.used \in Nat /\ d.used = SumBytes(d.entries, D)
  BY <1>1, <1>7, <1>9
<1>11. \E E : d \in [entries : E, lru : Seq(Keys), used : Nat]
  <2>1. d \in [entries : {d.entries}, lru : Seq(Keys), used : Nat]
    BY <1>4, <1>6, <1>7, <1>10
  <2> QED
    BY <2>1
<1>12. d.entries \in [D -> [body : Instances, bytes : Nat]]
  <2>1. \A j \in D : c.entries[j] \in [body : Instances, bytes : Nat]
    BY <1>5 DEF CacheOK
  <2> QED
    BY <1>7, <2>1
<1>13. \A i, j \in 1 .. Len(l) : l[i] = l[j] => i = j
  <2> SUFFICES ASSUME NEW i \in 1 .. Len(l), NEW j \in 1 .. Len(l), l[i] = l[j] PROVE i = j
    OBVIOUS
  <2>1. PICK p, q : p = (IF i < m THEN i ELSE i + 1) /\ q = (IF j < m THEN j ELSE j + 1)
    OBVIOUS
  <2>2. p \in 1 .. Len(c.lru) /\ q \in 1 .. Len(c.lru)
    BY <1>1, <1>4, <2>1
  <2>3. c.lru[p] = c.lru[q]
    BY <1>4, <2>1
  <2>4. p = q
    BY <2>2, <2>3 DEF CacheOK
  <2> QED
    BY <1>1, <1>4, <2>1, <2>4
<1>14. ToSet(l) = D
  <2>1. DOMAIN l = 1 .. Len(l)
    BY <1>4, LenProperties
  <2>2. ASSUME NEW i \in 1 .. Len(l) PROVE l[i] \in D
    <3>1. PICK p : p = IF i < m THEN i ELSE i + 1
      OBVIOUS
    <3>2. p \in 1 .. Len(c.lru) /\ p # m /\ l[i] = c.lru[p]
      <4>1. i \in 1 .. Len(c.lru) - 1
        BY <1>4
      <4>2. CASE i < m
        <5>1. p = i /\ i \in 1 .. Len(c.lru) /\ i # m
          BY <1>1, <3>1, <4>1, <4>2
        <5> QED
          BY <1>4, <4>1, <4>2, <5>1
      <4>3. CASE ~(i < m)
        <5>1. p = i + 1 /\ i + 1 \in 1 .. Len(c.lru) /\ i + 1 # m
          BY <1>1, <3>1, <4>1, <4>3
        <5> QED
          BY <1>4, <4>1, <4>3, <5>1
      <4> QED
        BY <4>2, <4>3
    <3>3. c.lru[p] # k
      BY <1>2, <3>2 DEF CacheOK
    <3> QED
      BY <1>1, <1>5, <3>2, <3>3
  <2>3. ASSUME NEW j \in D PROVE \E i \in 1 .. Len(l) : l[i] = j
    <3>1. PICK p \in 1 .. Len(c.lru) : c.lru[p] = j
      BY <1>1, <1>5
    <3>2. p # m
      BY <1>2, <1>5, <3>1
    <3>3. PICK i : i = IF p < m THEN p ELSE p - 1
      OBVIOUS
    <3>4. i \in 1 .. Len(l) /\ (i < m => i = p) /\ (~(i < m) => i + 1 = p)
      BY <1>1, <1>4, <3>2, <3>3
    <3>5. l[i] = j
      BY <1>4, <3>1, <3>4
    <3> QED
      BY <3>4, <3>5
  <2> QED
    BY <2>1, <2>2, <2>3 DEF ToSet
<1>15. Len(l) = Cardinality(D)
  <2>1. Len(c.lru) = Cardinality(DOMAIN c.entries)
    BY DEF CacheOK
  <2> QED
    BY <1>1, <1>4, <1>8, <2>1
<1>16. CacheOwn(d)
  BY <1>5, <1>7 DEF CacheOwn, CacheOK
<1>17. CacheOK(d)
  BY <1>7, <1>8, <1>10, <1>11, <1>12, <1>13, <1>14, <1>15, <1>16 DEF CacheOK
<1> QED
  BY <1>3, <1>5, <1>7, <1>17

\* ... and so does a new entry at the front.
LEMMA PushKeepsCache ==
  ASSUME NEW d, CacheOK(d), NEW k \in Keys, k \notin DOMAIN d.entries, NEW size \in Nat
  PROVE  CacheOK(PushFront(d, k, k[1], size))
<1>0. PICK a : a = PushFront(d, k, k[1], size)
  OBVIOUS
<1>1. /\ d.lru \in Seq(Keys) /\ Len(d.lru) \in Nat /\ d.used \in Nat
      /\ \A j : j \in DOMAIN d.entries <=> \E i \in 1 .. Len(d.lru) : d.lru[i] = j
      /\ \A j \in DOMAIN d.entries : d.entries[j].bytes \in Nat
  BY InList
<1>2. PICK l : l = <<k>> \o d.lru
  OBVIOUS
<1>3. /\ l \in Seq(Keys) /\ Len(l) = Len(d.lru) + 1 /\ l[1] = k
      /\ \A i \in 1 .. Len(d.lru) : l[i + 1] = d.lru[i]
      /\ \A i \in 1 .. Len(d.lru) + 1 : l[i] = IF i = 1 THEN k ELSE d.lru[i - 1]
  BY <1>1, <1>2, ConsIs
<1>4. PICK D : D = DOMAIN d.entries \cup {k}
  OBVIOUS
<1>5. PICK e : e = [j \in D |-> IF j = k THEN [body |-> k[1], bytes |-> size] ELSE d.entries[j]]
  OBVIOUS
<1>6. /\ a = [entries |-> e, lru |-> l, used |-> d.used + size]
      /\ a.entries = e /\ a.lru = l /\ a.used = d.used + size
  BY <1>0, <1>2, <1>4, <1>5 DEF PushFront
<1>7. /\ DOMAIN e = D /\ e[k] = [body |-> k[1], bytes |-> size] /\ k \in D /\ k[1] \in Instances
      /\ \A j \in DOMAIN d.entries : j \in D /\ j # k /\ e[j] = d.entries[j]
  BY <1>4, <1>5 DEF Keys
<1>8. /\ IsFiniteSet(D) /\ Cardinality(DOMAIN d.entries) \in Nat
      /\ Cardinality(D) = Cardinality(DOMAIN d.entries) + 1 /\ D \ {k} = DOMAIN d.entries
  BY <1>4, FS_AddElement, FS_CardinalityType DEF CacheOK
<1>9. e \in [D -> [body : Instances, bytes : Nat]]
  <2>1. \A j \in D : e[j] \in [body : Instances, bytes : Nat]
    BY <1>4, <1>7 DEF CacheOK
  <2> QED
    BY <1>5, <2>1
<1>10. a.used = SumBytes(e, D) /\ a.used \in Nat
  <2>1. \A j \in D : e[j].bytes \in Nat
    BY <1>9
  <2>2. SumBytes(e, D) = e[k].bytes + SumBytes(e, DOMAIN d.entries)
    <3>1. \A j \in D : SumBytes(e, D) = e[j].bytes + SumBytes(e, D \ {j})
      BY <1>8, <2>1, SumFacts
    <3> QED
      BY <1>7, <1>8, <3>1
  <2>3. SumBytes(e, DOMAIN d.entries) = d.used
    <3>1. \A j \in DOMAIN d.entries : e[j].bytes = d.entries[j].bytes
      BY <1>7
    <3>2. IsFiniteSet(DOMAIN d.entries)
      BY DEF CacheOK
    <3>3. SumBytes(e, DOMAIN d.entries) = SumBytes(d.entries, DOMAIN d.entries)
      BY <1>1, <3>1, <3>2, SumFacts
    <3> QED
      BY <3>3 DEF CacheOK
  <2> QED
    BY <1>1, <1>6, <1>7, <2>2, <2>3
<1>11. \E E : a \in [entries : E, lru : Seq(Keys), used : Nat]
  <2>1. a \in [entries : {e}, lru : Seq(Keys), used : Nat]
    BY <1>3, <1>6, <1>10
  <2> QED
    BY <2>1
<1>12. ASSUME NEW i \in 1 .. Len(l), NEW j \in 1 .. Len(l), l[i] = l[j] PROVE i = j
  <2>1. \A p \in 1 .. Len(l) : p # 1 => p - 1 \in 1 .. Len(d.lru) /\ l[p] = d.lru[p - 1] /\ l[p] # k
    <3>1. \A p \in 1 .. Len(l) : p # 1 => p - 1 \in 1 .. Len(d.lru) /\ l[p] = d.lru[p - 1]
      <4>1. \A n \in Nat : \A p \in 1 .. n + 1 : p # 1 => p - 1 \in 1 .. n
        OBVIOUS
      <4> QED
        BY <1>1, <1>3, <4>1
    <3> QED
      BY <1>1, <3>1
  <2>2. CASE i = 1 \/ j = 1
    BY <1>3, <1>12, <2>1, <2>2
  <2>3. CASE i # 1 /\ j # 1
    <3>1. i - 1 = j - 1
      BY <1>12, <2>1, <2>3 DEF CacheOK
    <3> QED
      BY <1>1, <1>3, <3>1
  <2> QED
    BY <2>2, <2>3
<1>13. ToSet(l) = D
  <2>1. DOMAIN l = 1 .. Len(l)
    BY <1>3, LenProperties
  <2>2. ASSUME NEW i \in 1 .. Len(l) PROVE l[i] \in D
    <3>1. i = 1 \/ i - 1 \in 1 .. Len(d.lru)
      BY <1>1, <1>3
    <3>2. l[i] = IF i = 1 THEN k ELSE d.lru[i - 1]
      BY <1>3
    <3> QED
      BY <1>1, <1>4, <3>1, <3>2
  <2>3. ASSUME NEW j \in D PROVE \E i \in 1 .. Len(l) : l[i] = j
    <3>1. CASE j = k
      <4>1. 1 \in 1 .. Len(l)
        BY <1>1, <1>3
      <4> QED
        BY <1>3, <3>1, <4>1
    <3>2. CASE j # k
      <4>1. PICK p \in 1 .. Len(d.lru) : d.lru[p] = j
        BY <1>1, <1>4, <3>2
      <4>2. p + 1 \in 1 .. Len(l)
        BY <1>1, <1>3
      <4> QED
        BY <1>3, <4>1, <4>2
    <3> QED
      BY <3>1, <3>2
  <2> QED
    BY <2>1, <2>2, <2>3 DEF ToSet
<1>14. Len(l) = Cardinality(D)
  <2>1. Len(d.lru) = Cardinality(DOMAIN d.entries)
    BY DEF CacheOK
  <2> QED
    BY <1>3, <1>8, <2>1
<1>15. CacheOwn(a)
  <2>1. \A j \in DOMAIN d.entries : d.entries[j].body = j[1]
    BY DEF CacheOK, CacheOwn
  <2> QED
    BY <1>4, <1>6, <1>7, <2>1 DEF CacheOwn
<1>16. CacheOK(a)
  BY <1>6, <1>7, <1>8, <1>9, <1>10, <1>11, <1>12, <1>13, <1>14, <1>15 DEF CacheOK
<1> QED
  BY <1>0, <1>16

\* The entry at the back of a list without repetitions.
LEMMA RemoveBack ==
  ASSUME NEW K, NEW s \in Seq(K), NEW k, Len(s) # 0, s[Len(s)] = k,
         \A i, j \in 1 .. Len(s) : s[i] = s[j] => i = j
  PROVE  IsPrefix(RemoveFirst(s, k), s) /\ Len(RemoveFirst(s, k)) = Len(s) - 1
<1>1. PICK n : n = Len(s) /\ n \in Nat \ {0}
  BY LenProperties
<1>2. n \in 1 .. Len(s) /\ s[n] = k /\ \A j \in 1 .. n - 1 : j \in 1 .. Len(s) /\ j # n
  BY <1>1
<1>3. \A j \in 1 .. n - 1 : s[j] # k
  BY <1>2
<1>4. PICK a : a = RemoveFirst(s, k) /\ a = RemoveAt(s, n)
  BY <1>2, <1>3, RemoveFirstIs
<1>5. /\ RemoveAt(s, n) \in Seq(K) /\ Len(RemoveAt(s, n)) = Len(s) - 1
      /\ \A i \in 1 .. Len(s) - 1 : RemoveAt(s, n)[i] = IF i < n THEN s[i] ELSE s[i + 1]
  BY <1>2, RemovedAt
<1>6. /\ a \in Seq(K) /\ Len(a) = n - 1 /\ \A i \in 1 .. n - 1 : a[i] = s[i]
  BY <1>1, <1>4, <1>5
<1>7. IsPrefix(a, s)
  BY <1>1, <1>6, PrefixIs
<1> QED
  BY <1>1, <1>4, <1>6, <1>7

\* The loop of add: it takes entries from the back, as many as it needs.
LEMMA MakeRoomKeepsCache ==
  ASSUME NEW c, CacheOK(c), NEW size \in Nat, size <= MaxBytes, NEW d, d = MakeRoom(c, size)
  PROVE  /\ CacheOK(d) /\ IsPrefix(d.lru, c.lru) /\ DOMAIN d.entries \subseteq DOMAIN c.entries
         /\ d.used + size <= MaxBytes
<1>1. PICK L : L = Len(c.lru) /\ L \in Nat /\ c.lru \in Seq(Keys)
  BY InList
<1>2. PICK room : /\ room[0] = c
                  /\ \A i \in 1 .. L : room[i] = EvictStep(room[i - 1], c.lru[L - i + 1], size)
                  /\ d = room[L]
  <2>1. c.lru \in Seq(Keys)
    BY <1>1
  <2>2. \E room : /\ room[0] = c
                  /\ \A i \in 1 .. Len(c.lru) :
                        room[i] = EvictStep(room[i - 1], c.lru[Len(c.lru) - i + 1], size)
                  /\ MakeRoom(c, size) = room[Len(c.lru)]
    BY <2>1, MakeRoomTurns
  <2> QED
    BY <1>1, <2>2
<1>3. PICK S : S = {i \in 0 .. L : /\ CacheOK(room[i]) /\ IsPrefix(room[i].lru, c.lru)
                                   /\ DOMAIN room[i].entries \subseteq DOMAIN c.entries
                                   /\ Len(room[i].lru) = L - i \/ room[i].used + size <= MaxBytes}
  OBVIOUS
<1>4. 0 \in S
  <2>1. IsPrefix(c.lru, c.lru)
    BY <1>1, PrefixIs
  <2> QED
    BY <1>1, <1>2, <1>3, <2>1
<1>5. ASSUME NEW i \in 0 .. L, i # L, i \in S PROVE i + 1 \in S
  <2>1. PICK q : q = room[i]
    OBVIOUS
  <2>2. /\ CacheOK(q) /\ IsPrefix(q.lru, c.lru) /\ DOMAIN q.entries \subseteq DOMAIN c.entries
        /\ Len(q.lru) = L - i \/ q.used + size <= MaxBytes
    BY <1>3, <1>5, <2>1
  <2>3. i + 1 \in 1 .. L /\ i + 1 \in 0 .. L /\ (i + 1) - 1 = i /\ L - (i + 1) + 1 = L - i /\ L - i \in 1 .. L
    BY <1>1, <1>5
  <2>4. room[i + 1] = EvictStep(q, c.lru[L - i], size)
    BY <1>2, <2>1, <2>3
  <2>5. /\ q.lru \in Seq(Keys) /\ q.used \in Nat /\ Len(q.lru) \in Nat
        /\ \A k : k \in DOMAIN q.entries <=> \E j \in 1 .. Len(q.lru) : q.lru[j] = k
    BY <2>2, InList
  <2>6. CASE ~(q.used + size > MaxBytes)
    <3>1. room[i + 1] = q /\ q.used + size <= MaxBytes
      BY <2>4, <2>5, <2>6, CacheAssumption DEF EvictStep
    <3> QED
      BY <1>3, <2>2, <2>3, <3>1
  <2>7. CASE q.used + size > MaxBytes
    <3>1. PICK k : k = c.lru[L - i]
      OBVIOUS
    <3>2. PICK e : e = CacheRemove(q, k) /\ e = room[i + 1]
      BY <2>4, <2>7, <3>1 DEF EvictStep
    <3>3. Len(q.lru) = L - i
      BY <2>2, <2>5, <2>7, CacheAssumption
    <3>4. Len(q.lru) # 0 /\ Len(q.lru) \in 1 .. Len(q.lru) /\ q.lru[Len(q.lru)] = k
      <4>1. \A j \in 1 .. Len(q.lru) : q.lru[j] = c.lru[j]
        <5>1. PICK s, t : s = q.lru /\ t = c.lru /\ s \in Seq(Keys) /\ t \in Seq(Keys) /\ IsPrefix(s, t)
          BY <1>1, <2>2, <2>5
        <5>2. \A j \in 1 .. Len(s) : s[j] = t[j]
          BY <5>1, PrefixIs
        <5> QED
          BY <5>1, <5>2
      <4>2. Len(q.lru) # 0 /\ Len(q.lru) \in 1 .. Len(q.lru)
        BY <2>3, <2>5, <3>3
      <4> QED
        BY <3>1, <3>3, <4>1, <4>2
    <3>5. k \in DOMAIN q.entries
      BY <2>5, <3>4
    <3>6. CacheOK(e) /\ DOMAIN e.entries = DOMAIN q.entries \ {k} /\ e.lru = RemoveFirst(q.lru, k)
      BY <2>2, <3>2, <3>5, RemoveKeepsCache
    <3>7. IsPrefix(e.lru, q.lru) /\ Len(e.lru) = Len(q.lru) - 1
      <4>1. PICK s : s = q.lru /\ s \in Seq(Keys) /\ Len(s) # 0 /\ s[Len(s)] = k
        BY <2>5, <3>4
      <4>2. \A x, y \in 1 .. Len(s) : s[x] = s[y] => x = y
        BY <2>2, <4>1 DEF CacheOK
      <4>3. IsPrefix(RemoveFirst(s, k), s) /\ Len(RemoveFirst(s, k)) = Len(s) - 1
        BY <4>1, <4>2, RemoveBack
      <4> QED
        BY <3>6, <4>1, <4>3
    <3>8. e.lru \in Seq(Keys)
      BY <3>6, InList
    <3>9. IsPrefix(e.lru, c.lru)
      BY <1>1, <2>2, <2>5, <3>7, <3>8, PrefixTrans
    <3>10. Len(e.lru) = L - (i + 1)
      BY <1>1, <3>3, <3>7
    <3> QED
      BY <1>3, <2>2, <2>3, <3>2, <3>6, <3>9, <3>10
  <2> QED
    BY <2>6, <2>7
<1>6. L \in S
  <2>1. \A i \in 0 .. L : i \in S
    BY <1>1, <1>4, <1>5, UpTo
  <2> QED
    BY <1>1, <2>1
<1>7. /\ CacheOK(d) /\ IsPrefix(d.lru, c.lru) /\ DOMAIN d.entries \subseteq DOMAIN c.entries
      /\ Len(d.lru) = L - L \/ d.used + size <= MaxBytes
  BY <1>2, <1>3, <1>6
<1>8. CASE Len(d.lru) = L - L
  <2>1. Cardinality(DOMAIN d.entries) = 0 /\ IsFiniteSet(DOMAIN d.entries)
    BY <1>1, <1>7, <1>8 DEF CacheOK
  <2>2. DOMAIN d.entries = {}
    BY <2>1, FS_EmptySet
  <2>3. d.used = 0
    <3>1. \A k \in DOMAIN d.entries : d.entries[k].bytes \in Nat
      BY <2>2
    <3>2. SumBytes(d.entries, DOMAIN d.entries) = 0
      BY <2>1, <2>2, <3>1, SumFacts
    <3> QED
      BY <1>7, <3>2 DEF CacheOK
  <2> QED
    BY <1>7, <2>3
<1> QED
  BY <1>7, <1>8

\* serve moves an entry to the front.
LEMMA ServeKeepsCache ==
  ASSUME NEW c, CacheOK(c), NEW k \in DOMAIN c.entries, NEW a, a = CacheServe(c, k)
  PROVE  CacheOK(a) /\ a.lru = <<k>> \o RemoveFirst(c.lru, k) /\ a.used = c.used
<1>1. PICK E : c \in [entries : E, lru : Seq(Keys), used : Nat]
  BY DEF CacheOK
<1>2. PICK d : d = CacheRemove(c, k)
  OBVIOUS
<1>3. /\ CacheOK(d) /\ DOMAIN d.entries = DOMAIN c.entries \ {k}
      /\ d.lru = RemoveFirst(c.lru, k) /\ d.used = c.used - c.entries[k].bytes
  BY <1>2, RemoveKeepsCache
<1>4. k \in Keys /\ c.entries[k].bytes \in Nat /\ c.used \in Nat
  BY InList
<1>5. c.entries[k].body = k[1] /\ c.entries[k] \in [body : Instances, bytes : Nat]
  BY DEF CacheOK, CacheOwn
<1>6. c.entries[k] = [body |-> k[1], bytes |-> c.entries[k].bytes]
  BY <1>5
<1>7. PICK p : p = PushFront(d, k, k[1], c.entries[k].bytes)
  OBVIOUS
<1>8. CacheOK(p)
  BY <1>3, <1>4, <1>7, PushKeepsCache
<1>9. c.entries = [j \in DOMAIN d.entries \cup {k} |->
                     IF j = k THEN [body |-> k[1], bytes |-> c.entries[k].bytes] ELSE d.entries[j]]
  <2>1. \A j \in DOMAIN d.entries : d.entries[j] = c.entries[j]
    BY <1>2, <1>3 DEF CacheRemove
  <2>2. c.entries = [j \in DOMAIN c.entries |-> c.entries[j]]
    BY DEF CacheOK
  <2>3. DOMAIN c.entries = DOMAIN d.entries \cup {k}
    BY <1>3
  <2> QED
    BY <1>6, <2>1, <2>2, <2>3
<1>10. c.used = d.used + c.entries[k].bytes
  <2>1. \A x, y \in Nat : (x - y) + y = x
    OBVIOUS
  <2> QED
    BY <1>3, <1>4, <2>1
<1>11. p = [entries |-> c.entries, lru |-> <<k>> \o RemoveFirst(c.lru, k), used |-> c.used]
  BY <1>3, <1>7, <1>9, <1>10, Zenon DEF PushFront
<1>12. a = [entries |-> c.entries, lru |-> <<k>> \o RemoveFirst(c.lru, k), used |-> c.used]
  BY <1>1 DEF CacheServe, ToFront
<1> QED
  BY <1>8, <1>11, <1>12

\* add, for a script that fits.
LEMMA AddKeepsCache ==
  ASSUME NEW c, CacheOK(c), NEW k \in Keys, NEW size \in Nat, size <= MaxBytes,
         NEW a, a = CacheAdd(c, k, k[1], size)
  PROVE  /\ CacheOK(a) /\ a.used <= MaxBytes /\ k \in DOMAIN a.entries
         /\ \E l \in Seq(Keys) : a.lru = <<k>> \o l /\ IsPrefix(l, RemoveFirst(c.lru, k))
<1>1. PICK r : r = IF InCache(c, k) THEN CacheRemove(c, k) ELSE c
  OBVIOUS
<1>2. CacheOK(r) /\ k \notin DOMAIN r.entries /\ r.lru = RemoveFirst(c.lru, k)
  <2>1. CASE InCache(c, k)
    <3>1. k \in DOMAIN c.entries /\ r = CacheRemove(c, k)
      BY <1>1, <2>1 DEF InCache
    <3> QED
      BY <3>1, RemoveKeepsCache
  <2>2. CASE ~InCache(c, k)
    <3>1. k \notin DOMAIN c.entries /\ r = c
      BY <1>1, <2>2 DEF InCache
    <3>2. ~\E i \in 1 .. Len(c.lru) : c.lru[i] = k
      BY <3>1, InList
    <3> QED
      BY <3>1, <3>2, RemoveFirstNone
  <2> QED
    BY <2>1, <2>2
<1>3. PICK d : d = MakeRoom(r, size)
  OBVIOUS
<1>4. /\ CacheOK(d) /\ IsPrefix(d.lru, r.lru) /\ DOMAIN d.entries \subseteq DOMAIN r.entries
      /\ d.used + size <= MaxBytes
  BY <1>2, <1>3, MakeRoomKeepsCache
<1>5. ~(size > MaxBytes)
  BY CacheAssumption
<1>6. a = PushFront(d, k, k[1], size)
  <2>1. d = MakeRoom(IF InCache(c, k) THEN CacheRemove(c, k) ELSE c, size)
    BY <1>1, <1>3
  <2> QED
    BY <1>5, <2>1, Zenon DEF CacheAdd, PushFront
<1>7. /\ CacheOK(a) /\ a.lru = <<k>> \o d.lru /\ DOMAIN a.entries = DOMAIN d.entries \cup {k}
      /\ a.used = d.used + size
  <2>1. k \notin DOMAIN d.entries
    BY <1>2, <1>4
  <2>2. CacheOK(PushFront(d, k, k[1], size))
    BY <1>4, <2>1, PushKeepsCache
  <2>3. /\ a.lru = <<k>> \o d.lru /\ DOMAIN a.entries = DOMAIN d.entries \cup {k}
        /\ a.used = d.used + size
    BY <1>6 DEF PushFront
  <2> QED
    BY <1>6, <2>2, <2>3
<1>8. d.lru \in Seq(Keys)
  BY <1>4, InList
<1> QED
  BY <1>2, <1>4, <1>7, <1>8

\* Removing what was just put at the front.
LEMMA RemoveFront ==
  ASSUME NEW K, NEW s \in Seq(K), NEW k \in K PROVE RemoveFirst(<<k>> \o s, k) = s
<1>1. PICK l : l = <<k>> \o s
  OBVIOUS
<1>2. /\ l \in Seq(K) /\ Len(l) = Len(s) + 1 /\ l[1] = k /\ Len(s) \in Nat
      /\ \A i \in 1 .. Len(s) : l[i + 1] = s[i]
  BY <1>1, ConsIs, LenProperties
<1>3. 1 \in 1 .. Len(l) /\ \A j \in 1 .. 1 - 1 : l[j] # k
  BY <1>2
<1>4. RemoveFirst(l, k) = RemoveAt(l, 1)
  BY <1>2, <1>3, RemoveFirstIs
<1>5. /\ RemoveAt(l, 1) \in Seq(K) /\ Len(RemoveAt(l, 1)) = Len(l) - 1
      /\ \A i \in 1 .. Len(l) - 1 : RemoveAt(l, 1)[i] = IF i < 1 THEN l[i] ELSE l[i + 1]
  BY <1>2, <1>3, RemovedAt
<1>6. PICK q : q = RemoveAt(l, 1)
  OBVIOUS
<1>7. q \in Seq(K) /\ Len(q) = Len(s) /\ \A i \in 1 .. Len(s) : q[i] = s[i]
  BY <1>2, <1>5, <1>6
<1>8. q = s
  BY <1>7, SeqEqual
<1> QED
  BY <1>1, <1>4, <1>6, <1>8

\* The list stays a prefix of the history of uses.
LEMMA FrontKeepsPrefix ==
  ASSUME NEW K, NEW s \in Seq(K), NEW t \in Seq(K), NEW k \in K, IsPrefix(s, RemoveFirst(t, k))
  PROVE  ToFront(t, k) \in Seq(K) /\ IsPrefix(<<k>> \o s, ToFront(t, k))
<1>1. RemoveFirst(t, k) \in Seq(K)
  BY RemoveFirstType
<1> QED
  BY <1>1, ConsIs, PrefixCons DEF ToFront

\* CacheInv through a hit, through an addition that is then served, and at the start.
LEMMA CacheServed ==
  ASSUME CacheInv, NEW k, InCache(cache, k), cache' = CacheServe(cache, k), recency' = ToFront(recency, k)
  PROVE  CacheInv'
<1>1. PICK a : a = CacheServe(cache, k)
  OBVIOUS
<1>2. k \in DOMAIN cache.entries /\ CacheOK(cache)
  BY DEF InCache, CacheInv
<1>3. CacheOK(a) /\ a.lru = <<k>> \o RemoveFirst(cache.lru, k) /\ a.used = cache.used
  BY <1>1, <1>2, ServeKeepsCache
<1>4. cache.lru \in Seq(Keys) /\ k \in Keys
  BY <1>2, InList
<1>5. RemoveFirst(cache.lru, k) \in Seq(Keys) /\ recency \in Seq(Keys) /\ IsPrefix(cache.lru, recency)
  BY <1>4, RemoveFirstType DEF CacheInv
<1>6. IsPrefix(RemoveFirst(cache.lru, k), RemoveFirst(recency, k))
  BY <1>4, <1>5, PrefixRemove
<1>7. ToFront(recency, k) \in Seq(Keys) /\ IsPrefix(a.lru, ToFront(recency, k))
  BY <1>3, <1>4, <1>5, <1>6, FrontKeepsPrefix
<1> QED
  BY <1>1, <1>3, <1>7 DEF CacheInv

LEMMA CacheAdded ==
  ASSUME CacheInv, NEW k \in Keys, NEW size \in 1 .. MaxBytes,
         cache' = CacheServe(CacheAdd(cache, k, k[1], size), k), recency' = ToFront(recency, k)
  PROVE  CacheInv'
<1>0. size \in Nat /\ size <= MaxBytes /\ CacheOK(cache)
  BY CacheAssumption DEF CacheInv
<1>1. PICK a : a = CacheAdd(cache, k, k[1], size)
  OBVIOUS
<1>2. /\ CacheOK(a) /\ a.used <= MaxBytes /\ k \in DOMAIN a.entries
      /\ \E l \in Seq(Keys) : a.lru = <<k>> \o l /\ IsPrefix(l, RemoveFirst(cache.lru, k))
  BY <1>0, <1>1, AddKeepsCache
<1>3. PICK l \in Seq(Keys) : a.lru = <<k>> \o l /\ IsPrefix(l, RemoveFirst(cache.lru, k))
  BY <1>2
<1>4. PICK b : b = CacheServe(a, k)
  OBVIOUS
<1>5. CacheOK(b) /\ b.lru = <<k>> \o RemoveFirst(a.lru, k) /\ b.used = a.used
  BY <1>2, <1>4, ServeKeepsCache
<1>6. RemoveFirst(a.lru, k) = l
  BY <1>3, RemoveFront
<1>7. cache.lru \in Seq(Keys) /\ recency \in Seq(Keys) /\ IsPrefix(cache.lru, recency)
  BY <1>0, InList DEF CacheInv
<1>8. /\ RemoveFirst(cache.lru, k) \in Seq(Keys) /\ RemoveFirst(recency, k) \in Seq(Keys)
      /\ IsPrefix(RemoveFirst(cache.lru, k), RemoveFirst(recency, k))
  BY <1>7, RemoveFirstType, PrefixRemove
<1>9. IsPrefix(l, RemoveFirst(recency, k))
  BY <1>3, <1>8, PrefixTrans
<1>10. ToFront(recency, k) \in Seq(Keys) /\ IsPrefix(b.lru, ToFront(recency, k))
  BY <1>5, <1>6, <1>7, <1>9, FrontKeepsPrefix
<1> QED
  BY <1>1, <1>2, <1>4, <1>5, <1>10 DEF CacheInv

LEMMA CacheStart == CacheInit => CacheInv
<1> SUFFICES ASSUME CacheInit PROVE CacheInv
  OBVIOUS
<1>1. /\ cache = [entries |-> <<>>, lru |-> <<>>, used |-> 0] /\ recency = <<>>
      /\ cache.entries = <<>> /\ cache.lru = <<>> /\ cache.used = 0
  BY DEF CacheInit, EmptyCache
<1>2. DOMAIN cache.entries = {} /\ IsFiniteSet({}) /\ Cardinality({}) = 0 /\ Len(<<>>) = 0 /\ <<>> \in Seq(Keys)
  BY <1>1, FS_EmptySet
<1>3. SumBytes(cache.entries, {}) = 0
  <2>1. PICK N : N = {} /\ IsFiniteSet(N) /\ \A k \in N : cache.entries[k].bytes \in Nat
    BY <1>2
  <2>2. SumBytes(cache.entries, N) = 0
    BY <2>1, SumFacts
  <2> QED
    BY <2>1, <2>2
<1>4. cache.entries \in [{} -> [body : Instances, bytes : Nat]]
  BY <1>1
<1>5. \E E : cache \in [entries : E, lru : Seq(Keys), used : Nat]
  <2>1. cache \in [entries : {<<>>}, lru : Seq(Keys), used : Nat]
    BY <1>1, <1>2
  <2> QED
    BY <2>1
<1>6. ToSet(cache.lru) = {}
  BY <1>1 DEF ToSet
<1>7. CacheOK(cache)
  BY <1>1, <1>2, <1>3, <1>4, <1>5, <1>6 DEF CacheOK, CacheOwn
<1>8. IsPrefix(cache.lru, recency)
  BY <1>1, <1>2 DEF IsPrefix
<1> QED
  BY <1>1, <1>2, <1>7, <1>8, CacheAssumption DEF CacheInv

-----------------------------------------------------------------------------
(* Targets, handlers and the bootstrap *)

\* Where a handler is once it has a target.
Routed == {"session", "relook", "proxy", "send", "wait"}
Pcs == {"idle", "route", "done"} \cup Routed
TargetRecs == [instance : Instances, until : 0 .. MaxTime + Hour, pending : BOOLEAN]
BootRecs == [offered : BOOLEAN, sent : Nat]
HandlerRecs(H) == [pc : Pcs, req : Requests, asked : Ids, sid : Ids, boot : BOOLEAN,
                   header : H, setc : Ids \cup {Clear}, got : Instances \cup {None}]

\* What a handler with record r knows when ids are the targets that exist.
Knows(r, ids) ==
  /\ r.asked \in ids \cup {None}
  /\ r.req.inPath \in {None, r.asked} /\ r.req.referer \in {None, r.asked}
  /\ r.req.cookie \in ids \cup {None}
  /\ r.setc \in ids \cup {None, Clear}
  /\ r.pc \in Routed \/ r.got # None => r.sid \in ids /\ r.sid = SessionIDForRequest(r.req)
  /\ r.pc \in {"idle", "route", "session"} => ~r.boot
  /\ r.pc = "relook" => r.req.ws
  /\ r.pc # "done" => r.got = None

HandlerInv == /\ \E H : h \in [Handlers -> HandlerRecs(H)]
              /\ \A x \in Handlers : Knows(h[x], DOMAIN targets)

TargetInv == /\ DOMAIN targets \subseteq JarIds
             /\ targets \in [DOMAIN targets -> TargetRecs]
             /\ bootstraps \in [DOMAIN targets -> BootRecs]
             /\ shows \in [Tabs -> DOMAIN targets \cup {None}]
             /\ dshTarget \in [id : DOMAIN targets \cup {None}, until : Nat]
             /\ live \in [Instances -> {"offline", "unready", "ready", "startup"}]
             /\ now \in 2 .. MaxTime

\* The instance of a target never changes: what a handler with record r answers
\* with is that of its target, and every script in the cache is that of its key.
Own(r, ts) == r.got # None => r.got = ts[r.sid].instance

\* A handler with record r is on its way to send the bootstrap of target t.
Holds(r, t) == r.boot /\ ~r.req.ws /\ r.sid = t /\ r.pc \in {"proxy", "send"}

BootInv ==
  \A t \in DOMAIN targets :
    /\ bootstraps[t].sent \in {0, 1}
    /\ bootstraps[t].sent = 1 => bootstraps[t].offered /\ ~targets[t].pending
    /\ targets[t].pending => bootstraps[t].offered
    /\ \A x \in Handlers : Holds(h[x], t) =>
         /\ bootstraps[t].offered /\ bootstraps[t].sent = 0 /\ ~targets[t].pending
         /\ \A y \in Handlers : Holds(h[y], t) => y = x

WebInv == HandlerInv /\ TargetInv /\ BootInv /\ \A x \in Handlers : Own(h[x], targets)

\* More targets do not make a handler forget.
LEMMA KnowsMore ==
  ASSUME NEW r, NEW ids, NEW more, ids \subseteq more, Knows(r, ids) PROVE Knows(r, more)
BY DEF Knows

\* A step that gives handler x the record r.
LEMMA HandlerSet ==
  ASSUME HandlerInv, NEW x \in Handlers, NEW H, NEW r \in HandlerRecs(H),
         h' = [h EXCEPT ![x] = r], DOMAIN targets \subseteq DOMAIN targets', Knows(r, DOMAIN targets')
  PROVE  HandlerInv'
<1>1. PICK G : h \in [Handlers -> HandlerRecs(G)]
  BY DEF HandlerInv
<1>2. h' \in [Handlers -> HandlerRecs(G \cup H)]
  <2>1. \A q \in HandlerRecs(G) : q \in HandlerRecs(G \cup H)
    BY DEF HandlerRecs
  <2>2. r \in HandlerRecs(G \cup H)
    BY DEF HandlerRecs
  <2> HIDE DEF HandlerRecs
  <2> QED
    BY <1>1, <2>1, <2>2
<1>3. ASSUME NEW y \in Handlers PROVE Knows(h'[y], DOMAIN targets')
  <2>1. CASE y = x
    BY <1>1, <2>1
  <2>2. CASE y # x
    <3>1. h'[y] = h[y]
      BY <1>1, <2>2
    <3>2. Knows(h[y], DOMAIN targets)
      BY DEF HandlerInv
    <3> QED
      BY <3>1, <3>2, KnowsMore
  <2> QED
    BY <2>1, <2>2
<1> QED
  BY <1>2, <1>3 DEF HandlerInv

\* The records that the handlers' steps make.
LEMMA EndsRecord ==
  ASSUME HandlerInv, NEW x \in Handlers, NEW g \in Instances \cup {None}, NEW c, c \in Ids \cup {Clear},
         Ends(x, g, c)
  PROVE  \E H : \E r \in HandlerRecs(H) :
           /\ h' = [h EXCEPT ![x] = r] /\ r.pc = "done" /\ r.got = g /\ r.setc = c
           /\ r.req = h[x].req /\ r.asked = h[x].asked /\ r.sid = h[x].sid /\ r.boot = h[x].boot
<1>1. PICK H : h \in [Handlers -> HandlerRecs(H)]
  BY DEF HandlerInv
<1>2. PICK r : r = [h[x] EXCEPT !.pc = "done", !.got = g, !.setc = c]
  OBVIOUS
<1>3. h' = [h EXCEPT ![x] = r]
  BY <1>1, <1>2 DEF Ends, HandlerRecs
<1>4. r \in HandlerRecs(H)
  BY <1>1, <1>2 DEF HandlerRecs, Pcs
<1>5. /\ r.pc = "done" /\ r.got = g /\ r.setc = c
      /\ r.req = h[x].req /\ r.asked = h[x].asked /\ r.sid = h[x].sid /\ r.boot = h[x].boot
  BY <1>1, <1>2 DEF HandlerRecs
<1> QED
  BY <1>3, <1>4, <1>5

\* A step of handler x that touches no target and takes no bootstrap.
LEMMA HandlerMoves ==
  ASSUME WebInv, NEW x \in Handlers, NEW H, NEW r \in HandlerRecs(H),
         h' = [h EXCEPT ![x] = r], Knows(r, DOMAIN targets), Own(r, targets),
         \A t \in DOMAIN targets : Holds(r, t) => Holds(h[x], t),
         UNCHANGED <<targets, bootstraps, shows, live, now>>,
         dshTarget' \in [id : DOMAIN targets \cup {None}, until : Nat]
  PROVE  WebInv'
<1>1. HandlerInv'
  BY HandlerSet DEF WebInv
<1>2. TargetInv'
  BY DEF WebInv, TargetInv
<1>3. \A y \in Handlers : h'[y] = IF y = x THEN r ELSE h[y]
  BY DEF WebInv, HandlerInv
<1>4. \A y \in Handlers, t \in DOMAIN targets : Holds(h'[y], t) => Holds(h[y], t)
  BY <1>3
<1>5. BootInv'
  BY <1>4 DEF WebInv, BootInv
<1>6. \A y \in Handlers : Own(h'[y], targets')
  BY <1>3 DEF WebInv
<1> QED
  BY <1>1, <1>2, <1>5, <1>6 DEF WebInv

\* A handler ends.
LEMMA EndsKeeps ==
  ASSUME WebInv, NEW x \in Handlers, NEW g \in Instances \cup {None}, NEW c,
         c \in DOMAIN targets \cup {None, Clear},
         g # None => h[x].pc \in Routed /\ g = targets[h[x].sid].instance,
         Ends(x, g, c), UNCHANGED <<targets, bootstraps, shows, dshTarget, live, now>>
  PROVE  WebInv'
<1>0. c \in Ids \cup {Clear}
  BY DEF WebInv, TargetInv, Ids
<1>1. PICK H : \E r \in HandlerRecs(H) :
           /\ h' = [h EXCEPT ![x] = r] /\ r.pc = "done" /\ r.got = g /\ r.setc = c
           /\ r.req = h[x].req /\ r.asked = h[x].asked /\ r.sid = h[x].sid /\ r.boot = h[x].boot
  BY <1>0, EndsRecord DEF WebInv
<1>2. PICK r \in HandlerRecs(H) :
           /\ h' = [h EXCEPT ![x] = r] /\ r.pc = "done" /\ r.got = g /\ r.setc = c
           /\ r.req = h[x].req /\ r.asked = h[x].asked /\ r.sid = h[x].sid /\ r.boot = h[x].boot
  BY <1>1
<1>3. Knows(h[x], DOMAIN targets)
  BY DEF WebInv, HandlerInv
<1>4. Knows(r, DOMAIN targets)
  BY <1>2, <1>3 DEF Knows, Routed
<1>5. Own(r, targets) /\ \A t \in DOMAIN targets : Holds(r, t) => Holds(h[x], t)
  BY <1>2 DEF Own, Holds
<1>6. dshTarget' \in [id : DOMAIN targets \cup {None}, until : Nat]
  BY DEF WebInv, TargetInv
<1> QED
  BY <1>2, <1>4, <1>5, <1>6, HandlerMoves

\* sessionIDForRequest finds a target the browser knows, or none.
LEMMA SessionIDKnown ==
  ASSUME NEW r, NEW ids, Knows(r, ids)
  PROVE  /\ SessionIDForRequest(r.req) \in ids \cup {None}
         /\ (r.req.inPath # None \/ r.req.referer # None) => SessionIDForRequest(r.req) = r.asked
         /\ r.req.inPath \in ids \cup {None}
BY DEF Knows, SessionIDForRequest

\* targetForSession gives a handler a target that exists.
LEMMA RouteKeeps == ASSUME WebInv, NEW x \in Handlers, Route(x) PROVE WebInv'
<1>0. /\ h[x].pc = "route" /\ UNCHANGED <<targets, bootstraps, shows, dshTarget, live, now>>
  BY DEF Route, browserVars
<1>1. PICK id : id = SessionIDForRequest(h[x].req)
  OBVIOUS
<1>2. CASE Ends(x, None, None)
  BY <1>0, <1>2, EndsKeeps
<1>3. CASE Ends(x, None, Clear)
  BY <1>0, <1>3, EndsKeeps
<1>4. CASE /\ id # None /\ Found(id)
           /\ h' = [h EXCEPT ![x].sid = id,
                             ![x].pc = IF h[x].req.inPath # None THEN "session" ELSE "proxy",
                             ![x].setc = h[x].req.inPath]
  <2>1. PICK H : h \in [Handlers -> HandlerRecs(H)]
    BY DEF WebInv, HandlerInv
  <2>2. PICK p : p = IF h[x].req.inPath # None THEN "session" ELSE "proxy"
    OBVIOUS
  <2>3. PICK r : r = [h[x] EXCEPT !.sid = id, !.pc = p, !.setc = h[x].req.inPath]
    OBVIOUS
  <2>4. h' = [h EXCEPT ![x] = r]
    BY <1>4, <2>1, <2>2, <2>3 DEF HandlerRecs
  <2>5. Knows(h[x], DOMAIN targets)
    BY DEF WebInv, HandlerInv
  <2>6. id \in DOMAIN targets /\ h[x].req.inPath \in DOMAIN targets \cup {None}
    BY <1>4, <2>5, SessionIDKnown DEF Found
  <2>7. id \in Ids /\ h[x].req.inPath \in Ids
    BY <2>6 DEF WebInv, TargetInv, Ids
  <2>8. r \in HandlerRecs(H)
    BY <2>1, <2>2, <2>3, <2>7 DEF HandlerRecs, Pcs, Routed
  <2>9. /\ r.pc = p /\ p \in {"session", "proxy"} /\ r.sid = id /\ r.setc = h[x].req.inPath /\ r.got = h[x].got
        /\ r.req = h[x].req /\ r.asked = h[x].asked /\ r.boot = h[x].boot
    BY <2>1, <2>2, <2>3 DEF HandlerRecs
  <2>10. Knows(r, DOMAIN targets)
    BY <1>0, <1>1, <2>5, <2>6, <2>9 DEF Knows, Routed
  <2>11. Own(r, targets) /\ \A t \in DOMAIN targets : Holds(r, t) => Holds(h[x], t)
    BY <1>0, <2>5, <2>9 DEF Own, Holds, Knows
  <2>12. dshTarget' \in [id : DOMAIN targets \cup {None}, until : Nat]
    BY <1>0 DEF WebInv, TargetInv
  <2> QED
    BY <1>0, <2>4, <2>8, <2>10, <2>11, <2>12, HandlerMoves
<1> QED
  BY <1>1, <1>2, <1>3, <1>4 DEF Route

\* The second lookup of proxyWebSocket ends the handler or lets it go on.
LEMMA LookAgainKeeps == ASSUME WebInv, NEW x \in Handlers, LookAgain(x) PROVE WebInv'
<1>0. /\ h[x].pc = "relook" /\ UNCHANGED <<targets, bootstraps, shows, dshTarget, live, now>>
  BY DEF LookAgain, browserVars
<1>1. CASE Ends(x, None, Clear)
  BY <1>0, <1>1, EndsKeeps
<1>2. CASE h' = [h EXCEPT ![x].pc = "proxy"]
  <2>1. PICK H : h \in [Handlers -> HandlerRecs(H)]
    BY DEF WebInv, HandlerInv
  <2>3. PICK r : r = [h[x] EXCEPT !.pc = "proxy"]
    OBVIOUS
  <2>4. h' = [h EXCEPT ![x] = r]
    BY <1>2, <2>1, <2>3 DEF HandlerRecs
  <2>5. Knows(h[x], DOMAIN targets)
    BY DEF WebInv, HandlerInv
  <2>8. r \in HandlerRecs(H)
    BY <2>1, <2>3 DEF HandlerRecs, Pcs, Routed
  <2>9. /\ r.pc = "proxy" /\ r.sid = h[x].sid /\ r.setc = h[x].setc /\ r.got = h[x].got
        /\ r.req = h[x].req /\ r.asked = h[x].asked /\ r.boot = h[x].boot
    BY <2>1, <2>3 DEF HandlerRecs
  <2>10. Knows(r, DOMAIN targets)
    BY <1>0, <2>5, <2>9 DEF Knows, Routed
  <2>11. Own(r, targets) /\ \A t \in DOMAIN targets : Holds(r, t) => Holds(h[x], t)
    BY <1>0, <2>5, <2>9 DEF Own, Holds, Knows
  <2>12. dshTarget' \in [id : DOMAIN targets \cup {None}, until : Nat]
    BY <1>0 DEF WebInv, TargetInv
  <2> QED
    BY <1>0, <2>4, <2>8, <2>10, <2>11, <2>12, HandlerMoves
<1> QED
  BY <1>1, <1>2 DEF LookAgain

\* An error ends the handler without content.
LEMMA RefuseKeeps == ASSUME WebInv, NEW x \in Handlers, Refuse(x) PROVE WebInv'
<1>1. Ends(x, None, h[x].setc) /\ UNCHANGED <<targets, bootstraps, shows, dshTarget, live, now>>
  BY DEF Refuse, browserVars
<1>2. h[x].setc \in DOMAIN targets \cup {None, Clear}
  BY DEF WebInv, HandlerInv, Knows
<1> QED
  BY <1>1, <1>2, EndsKeeps

\* The cache lookup: a script is served as what the cache holds for its key.
LEMMA StartProxyKeeps ==
  ASSUME WebInv, CacheOwn(cache), NEW x \in Handlers, StartProxy(x) PROVE WebInv'
<1>0. /\ h[x].pc = "proxy" /\ UNCHANGED <<targets, bootstraps, shows, dshTarget, live, now>>
  BY DEF StartProxy, browserVars
<1>1. Knows(h[x], DOMAIN targets) /\ h[x].sid \in DOMAIN targets
      /\ h[x].setc \in DOMAIN targets \cup {None, Clear}
  BY <1>0 DEF WebInv, HandlerInv, Knows, Routed
<1>2. CASE Ends(x, None, Clear)
  BY <1>0, <1>2, EndsKeeps
<1>3. CASE /\ InCache(cache, CacheKey(x))
           /\ Ends(x, cache.entries[CacheKey(x)].body, h[x].setc)
  <2>1. cache.entries[CacheKey(x)].body = InstanceOf(x)
    BY <1>3 DEF CacheOwn, InCache, CacheKey
  <2>2. InstanceOf(x) \in Instances /\ InstanceOf(x) = targets[h[x].sid].instance
    BY <1>1 DEF WebInv, TargetInv, TargetRecs, InstanceOf
  <2>3. Ends(x, InstanceOf(x), h[x].setc)
    BY <1>3, <2>1
  <2> QED
    BY <1>0, <1>1, <2>2, <2>3, EndsKeeps DEF Routed
<1>4. CASE h' = [h EXCEPT ![x].pc = "send"]
  <2>1. PICK H : h \in [Handlers -> HandlerRecs(H)]
    BY DEF WebInv, HandlerInv
  <2>2. PICK r : r = [h[x] EXCEPT !.pc = "send"]
    OBVIOUS
  <2>3. h' = [h EXCEPT ![x] = r]
    BY <1>4, <2>1, <2>2 DEF HandlerRecs
  <2>4. r \in HandlerRecs(H)
    BY <2>1, <2>2 DEF HandlerRecs, Pcs, Routed
  <2>5. /\ r.pc = "send" /\ r.sid = h[x].sid /\ r.setc = h[x].setc /\ r.got = h[x].got
        /\ r.req = h[x].req /\ r.asked = h[x].asked /\ r.boot = h[x].boot
    BY <2>1, <2>2 DEF HandlerRecs
  <2>6. Knows(r, DOMAIN targets)
    BY <1>0, <1>1, <2>5 DEF Knows, Routed
  <2>7. Own(r, targets) /\ \A t \in DOMAIN targets : Holds(r, t) => Holds(h[x], t)
    BY <1>0, <1>1, <2>5 DEF Own, Holds, Knows
  <2>8. dshTarget' \in [id : DOMAIN targets \cup {None}, until : Nat]
    BY <1>0 DEF WebInv, TargetInv
  <2> QED
    BY <1>0, <2>3, <2>4, <2>6, <2>7, <2>8, HandlerMoves
<1> QED
  BY <1>2, <1>3, <1>4 DEF StartProxy

\* The instance of the handler's target answers.
LEMMA AnswerKeeps == ASSUME WebInv, NEW x \in Handlers, NEW c, NEW size, Answer(x, c, size) PROVE WebInv'
<1>1. /\ h[x].pc = "wait" /\ Ends(x, InstanceOf(x), h[x].setc)
      /\ UNCHANGED <<targets, bootstraps, shows, dshTarget, live, now>>
  BY DEF Answer, browserVars
<1>2. h[x].sid \in DOMAIN targets /\ h[x].setc \in DOMAIN targets \cup {None, Clear}
  BY <1>1 DEF WebInv, HandlerInv, Knows, Routed
<1>3. InstanceOf(x) \in Instances /\ InstanceOf(x) = targets[h[x].sid].instance
  BY <1>2 DEF WebInv, TargetInv, TargetRecs, InstanceOf
<1> QED
  BY <1>1, <1>2, <1>3, EndsKeeps DEF Routed

\* The browser's cookie is cleared, kept, or named after a target that exists.
LEMMA ReceivesKeeps == ASSUME WebInv, NEW x \in Handlers, BrowserReceives(x) PROVE WebInv'
<1>0. /\ h' = [h EXCEPT ![x] = Idle] /\ UNCHANGED <<targets, bootstraps, shows, live, now>>
  BY DEF BrowserReceives
<1>1. h[x].setc \in DOMAIN targets \cup {None, Clear}
  BY DEF WebInv, HandlerInv, Knows
<1>2. dshTarget' \in [id : DOMAIN targets \cup {None}, until : Nat]
  <2>1. now + Hour \in Nat /\ dshTarget \in [id : DOMAIN targets \cup {None}, until : Nat]
    BY WebAssumption DEF WebInv, TargetInv
  <2> QED
    BY <1>1, <2>1 DEF BrowserReceives
<1>3. /\ Idle \in HandlerRecs({<<>>}) /\ Knows(Idle, DOMAIN targets) /\ Own(Idle, targets)
      /\ \A t \in DOMAIN targets : ~Holds(Idle, t)
  BY WebAssumption
     DEF Idle, NoRequest, Requests, HandlerRecs, Pcs, Routed, Ids, Knows, Own, Holds, None, Clear
<1> QED
  BY <1>0, <1>2, <1>3, HandlerMoves

\* A tab asks for what it shows: the target exists.
LEMMA RequestsKeep ==
  ASSUME WebInv, NEW x \in Handlers, NEW tab \in Tabs, NEW path \in RequestPaths,
         NEW ws \in BOOLEAN, NEW below \in BOOLEAN, NEW withReferer \in BOOLEAN,
         BrowserRequests(x, tab, path, ws, below, withReferer)
  PROVE  WebInv'
<1>1. PICK s : s = shows[tab]
  OBVIOUS
<1>2. PICK c : c = IF now < dshTarget.until THEN dshTarget.id ELSE None
  OBVIOUS
<1>3. PICK q : q = [path |-> path, ws |-> ws, inPath |-> IF below THEN s ELSE None,
                    referer |-> IF withReferer THEN s ELSE None, cookie |-> c]
  OBVIOUS
<1>4. PICK r : r = [Idle EXCEPT !.pc = "route", !.asked = s, !.req = q]
  OBVIOUS
<1>5. h' = [h EXCEPT ![x] = r] /\ UNCHANGED <<targets, bootstraps, shows, dshTarget, live, now>>
  BY <1>1, <1>2, <1>3, <1>4 DEF BrowserRequests, browserVars
<1>6. s \in DOMAIN targets \cup {None} /\ c \in DOMAIN targets \cup {None}
  BY <1>1, <1>2 DEF WebInv, TargetInv
<1>7. s \in Ids /\ c \in Ids
  BY <1>6 DEF WebInv, TargetInv, Ids
<1>8. /\ q \in Requests /\ q.inPath \in {None, s} /\ q.referer \in {None, s} /\ q.cookie = c
  BY <1>3, <1>7 DEF Requests, Ids
<1>9. /\ r.pc = "route" /\ r.asked = s /\ r.req = q /\ r.sid = None /\ r.boot = FALSE
      /\ r.setc = None /\ r.got = None /\ r.header = <<>>
      /\ r = [pc |-> "route", req |-> q, asked |-> s, sid |-> None, boot |-> FALSE,
              header |-> <<>>, setc |-> None, got |-> None]
  BY <1>4 DEF Idle
<1>10. r \in HandlerRecs({<<>>})
  BY <1>7, <1>8, <1>9 DEF HandlerRecs, Pcs, Ids
<1>11. Knows(r, DOMAIN targets)
  BY <1>6, <1>8, <1>9 DEF Knows, Routed
<1>12. Own(r, targets) /\ \A t \in DOMAIN targets : ~Holds(r, t)
  BY <1>9 DEF Own, Holds
<1>13. dshTarget' \in [id : DOMAIN targets \cup {None}, until : Nat]
  BY <1>5 DEF WebInv, TargetInv
<1> QED
  BY <1>5, <1>10, <1>11, <1>12, <1>13, HandlerMoves

\* consumeBootstrap takes the token of a target: under the mutex the flag is
\* read and cleared at once, so that one handler at most leaves with it.
LEMMA ConsumeKeeps == ASSUME WebInv, NEW x \in Handlers, ConsumeBootstrap(x) PROVE WebInv'
<1>0. /\ h[x].pc = "session" /\ UNCHANGED <<bootstraps, shows, dshTarget, live, now>>
  BY DEF ConsumeBootstrap, browserVars
<1>1. PICK id : id = h[x].sid
  OBVIOUS
<1>2. PICK b : b = (h[x].req.path = Root /\ targets[id].pending)
  OBVIOUS
<1>3. PICK p : p = IF h[x].req.ws THEN "relook" ELSE "proxy"
  OBVIOUS
<1>4. PICK H : h \in [Handlers -> HandlerRecs(H)]
  BY DEF WebInv, HandlerInv
<1>5. PICK r : r = [h[x] EXCEPT !.pc = p, !.boot = b]
  OBVIOUS
<1>6. /\ h' = [h EXCEPT ![x] = r]
      /\ targets' = IF b THEN [targets EXCEPT ![id].pending = FALSE] ELSE targets
  BY <1>1, <1>2, <1>3, <1>4, <1>5 DEF ConsumeBootstrap, HandlerRecs, AfterConsume
<1>7. Knows(h[x], DOMAIN targets) /\ id \in DOMAIN targets
  BY <1>0, <1>1 DEF WebInv, HandlerInv, Knows, Routed
<1>8. /\ targets \in [DOMAIN targets -> TargetRecs] /\ targets[id].pending \in BOOLEAN /\ b \in BOOLEAN
      /\ bootstraps \in [DOMAIN targets -> BootRecs]
  BY <1>2, <1>7 DEF WebInv, TargetInv, TargetRecs
<1>9. /\ DOMAIN targets' = DOMAIN targets /\ targets' \in [DOMAIN targets -> TargetRecs]
      /\ \A t \in DOMAIN targets : /\ targets'[t].instance = targets[t].instance
                                   /\ t # id \/ ~b => targets'[t] = targets[t]
                                   /\ t = id /\ b => targets'[t].pending = FALSE
  BY <1>6, <1>7, <1>8 DEF TargetRecs
<1>10. r \in HandlerRecs(H)
  BY <1>3, <1>4, <1>5, <1>8 DEF HandlerRecs, Pcs, Routed
<1>11. /\ r.pc = p /\ p \in {"relook", "proxy"} /\ r.sid = id /\ r.setc = h[x].setc /\ r.got = h[x].got
       /\ r.req = h[x].req /\ r.asked = h[x].asked /\ r.boot = b /\ (p = "relook" => h[x].req.ws)
  BY <1>1, <1>3, <1>4, <1>5 DEF HandlerRecs
<1>12. Knows(r, DOMAIN targets')
  BY <1>0, <1>1, <1>7, <1>9, <1>11 DEF Knows, Routed
<1>13. HandlerInv'
  BY <1>6, <1>9, <1>10, <1>12, HandlerSet DEF WebInv
<1>14. TargetInv'
  BY <1>0, <1>9 DEF WebInv, TargetInv
<1>15. \A y \in Handlers : h'[y] = IF y = x THEN r ELSE h[y]
  BY <1>4, <1>6
<1>16. ASSUME NEW y \in Handlers PROVE Own(h'[y], targets')
  <2>1. CASE y = x
    <3>1. h'[y].got = None
      BY <1>0, <1>7, <1>11, <1>15, <2>1 DEF Knows
    <3> QED
      BY <3>1 DEF Own
  <2>2. CASE y # x
    <3>1. h'[y] = h[y] /\ Own(h[y], targets) /\ Knows(h[y], DOMAIN targets)
      BY <1>15, <2>2 DEF WebInv, HandlerInv
    <3> QED
      BY <1>9, <3>1 DEF Own, Knows
  <2> QED
    BY <2>1, <2>2
<1>17. BootInv'
  <2> SUFFICES ASSUME NEW t \in DOMAIN targets
               PROVE  /\ bootstraps[t].sent \in {0, 1}
                      /\ bootstraps[t].sent = 1 => bootstraps[t].offered /\ ~targets'[t].pending
                      /\ targets'[t].pending => bootstraps[t].offered
                      /\ \A y \in Handlers : Holds(h'[y], t) =>
                           /\ bootstraps[t].offered /\ bootstraps[t].sent = 0 /\ ~targets'[t].pending
                           /\ \A z \in Handlers : Holds(h'[z], t) => z = y
    BY <1>0, <1>9 DEF BootInv
  <2>1. /\ bootstraps[t].sent \in {0, 1}
        /\ bootstraps[t].sent = 1 => bootstraps[t].offered /\ ~targets[t].pending
        /\ targets[t].pending => bootstraps[t].offered
        /\ \A y \in Handlers : Holds(h[y], t) =>
             /\ bootstraps[t].offered /\ bootstraps[t].sent = 0 /\ ~targets[t].pending
             /\ \A z \in Handlers : Holds(h[z], t) => z = y
    BY DEF WebInv, BootInv
  <2>2. CASE t # id \/ ~b
    <3>1. ~Holds(r, t)
      BY <1>11, <2>2 DEF Holds
    <3>2. \A y \in Handlers : Holds(h'[y], t) => Holds(h[y], t)
      BY <1>15, <3>1
    <3> QED
      BY <1>9, <2>1, <2>2, <3>2
  <2>3. CASE t = id /\ b
    <3>1. targets[t].pending
      BY <1>2, <2>3
    <3>2. \A y \in Handlers : Holds(h'[y], t) => y = x
      BY <1>15, <2>1, <3>1
    <3>3. bootstraps[t].sent = 0 /\ bootstraps[t].offered /\ ~targets'[t].pending
      BY <1>9, <2>1, <2>3, <3>1
    <3> QED
      BY <3>2, <3>3
  <2> QED
    BY <2>2, <2>3
<1> QED
  BY <1>13, <1>14, <1>16, <1>17 DEF WebInv

\* The request is sent, with bootstrap:true when the handler holds the token.
LEMMA SendKeeps == ASSUME WebInv, NEW x \in Handlers, SendRequest(x) PROVE WebInv'
<1>0. /\ h[x].pc = "send" /\ UNCHANGED <<targets, shows, dshTarget, live, now>>
  BY DEF SendRequest, browserVars
<1>1. PICK id : id = h[x].sid
  OBVIOUS
<1>2. PICK b : b = (h[x].boot /\ ~h[x].req.ws)
  OBVIOUS
<1>3. PICK v : h' = [h EXCEPT ![x].pc = "wait", ![x].header = v]
  BY DEF SendRequest
<1>4. PICK H : h \in [Handlers -> HandlerRecs(H)]
  BY DEF WebInv, HandlerInv
<1>5. PICK r : r = [h[x] EXCEPT !.pc = "wait", !.header = v]
  OBVIOUS
<1>6. /\ h' = [h EXCEPT ![x] = r]
      /\ bootstraps' = [bootstraps EXCEPT ![id].sent = IF b THEN @ + 1 ELSE @]
  BY <1>1, <1>2, <1>3, <1>4, <1>5 DEF SendRequest, HandlerRecs
<1>7. Knows(h[x], DOMAIN targets) /\ id \in DOMAIN targets
  BY <1>0, <1>1 DEF WebInv, HandlerInv, Knows, Routed
<1>8. bootstraps \in [DOMAIN targets -> BootRecs] /\ h[x].boot \in BOOLEAN
  BY <1>4 DEF WebInv, TargetInv, HandlerRecs
<1>9. /\ bootstraps' \in [DOMAIN targets -> BootRecs]
      /\ \A t \in DOMAIN targets : /\ bootstraps'[t].offered = bootstraps[t].offered
                                   /\ t # id \/ ~b => bootstraps'[t].sent = bootstraps[t].sent
                                   /\ t = id /\ b => bootstraps'[t].sent = bootstraps[t].sent + 1
  BY <1>6, <1>7, <1>8 DEF BootRecs
<1>10. r \in HandlerRecs(H \cup {v})
  BY <1>4, <1>5 DEF HandlerRecs, Pcs, Routed
<1>11. /\ r.pc = "wait" /\ r.sid = id /\ r.setc = h[x].setc /\ r.got = h[x].got
       /\ r.req = h[x].req /\ r.asked = h[x].asked /\ r.boot = h[x].boot
  BY <1>1, <1>4, <1>5 DEF HandlerRecs
<1>12. Knows(r, DOMAIN targets')
  BY <1>0, <1>1, <1>7, <1>11 DEF Knows, Routed
<1>13. HandlerInv'
  BY <1>0, <1>6, <1>10, <1>12, HandlerSet DEF WebInv
<1>14. TargetInv'
  BY <1>0, <1>9 DEF WebInv, TargetInv
<1>15. \A y \in Handlers : h'[y] = IF y = x THEN r ELSE h[y]
  BY <1>4, <1>6
<1>16. ASSUME NEW y \in Handlers PROVE Own(h'[y], targets')
  <2>1. CASE y = x
    <3>1. h'[y].got = None
      BY <1>0, <1>7, <1>11, <1>15, <2>1 DEF Knows
    <3> QED
      BY <3>1 DEF Own
  <2>2. CASE y # x
    BY <1>0, <1>15, <2>2 DEF WebInv
  <2> QED
    BY <2>1, <2>2
<1>17. BootInv'
  <2> SUFFICES ASSUME NEW t \in DOMAIN targets
               PROVE  /\ bootstraps'[t].sent \in {0, 1}
                      /\ bootstraps'[t].sent = 1 => bootstraps'[t].offered /\ ~targets[t].pending
                      /\ targets[t].pending => bootstraps'[t].offered
                      /\ \A y \in Handlers : Holds(h'[y], t) =>
                           /\ bootstraps'[t].offered /\ bootstraps'[t].sent = 0 /\ ~targets[t].pending
                           /\ \A z \in Handlers : Holds(h'[z], t) => z = y
    BY <1>0 DEF BootInv
  <2>1. /\ bootstraps[t].sent \in {0, 1}
        /\ bootstraps[t].sent = 1 => bootstraps[t].offered /\ ~targets[t].pending
        /\ targets[t].pending => bootstraps[t].offered
        /\ \A y \in Handlers : Holds(h[y], t) =>
             /\ bootstraps[t].offered /\ bootstraps[t].sent = 0 /\ ~targets[t].pending
             /\ \A z \in Handlers : Holds(h[z], t) => z = y
    BY DEF WebInv, BootInv
  <2>2. \A y \in Handlers : Holds(h'[y], t) => y # x /\ Holds(h[y], t)
    BY <1>11, <1>15 DEF Holds
  <2>3. CASE t # id \/ ~b
    BY <1>9, <2>1, <2>2, <2>3
  <2>4. CASE t = id /\ b
    <3>1. Holds(h[x], t)
      BY <1>0, <1>1, <1>2, <2>4 DEF Holds
    <3>2. bootstraps[t].sent = 0 /\ bootstraps[t].offered /\ ~targets[t].pending
      BY <2>1, <3>1
    <3>3. bootstraps'[t].sent = 1 /\ bootstraps'[t].offered
      BY <1>9, <2>4, <3>2
    <3>4. \A y \in Handlers : ~Holds(h'[y], t)
      BY <2>1, <2>2, <3>1
    <3> QED
      BY <3>2, <3>3, <3>4
  <2> QED
    BY <2>3, <2>4
<1> QED
  BY <1>13, <1>14, <1>16, <1>17 DEF WebInv

\* openInstance adds a target.
LEMMA OpenKeeps ==
  ASSUME WebInv, NEW tab \in Tabs, NEW i \in Instances, NEW id \in JarIds, OpenInstance(tab, i, id)
  PROVE  WebInv'
<1>1. PICK D : D = DOMAIN targets \cup {id}
  OBVIOUS
<1>2. PICK o \in BOOLEAN : o = (live[i] = "startup")
  OBVIOUS
<1>3. PICK u : u = now + Hour /\ u \in 0 .. MaxTime + Hour /\ u \in Nat
  BY WebAssumption DEF WebInv, TargetInv
<1>4. /\ targets' = [t \in D |-> IF t = id THEN [instance |-> i, until |-> u, pending |-> o] ELSE targets[t]]
      /\ bootstraps' = [t \in D |-> IF t = id THEN [offered |-> o, sent |-> 0] ELSE bootstraps[t]]
      /\ shows' = [shows EXCEPT ![tab] = id] /\ dshTarget' = [id |-> id, until |-> u]
      /\ id \notin DOMAIN targets /\ UNCHANGED <<h, live, now>>
  BY <1>1, <1>2, <1>3 DEF OpenInstance
<1>5. /\ targets \in [DOMAIN targets -> TargetRecs] /\ bootstraps \in [DOMAIN targets -> BootRecs]
      /\ DOMAIN targets \subseteq JarIds /\ shows \in [Tabs -> DOMAIN targets \cup {None}]
  BY DEF WebInv, TargetInv
<1>6. /\ DOMAIN targets' = D /\ DOMAIN targets \subseteq D
      /\ targets'[id] = [instance |-> i, until |-> u, pending |-> o]
      /\ bootstraps'[id] = [offered |-> o, sent |-> 0]
      /\ \A t \in DOMAIN targets : t # id /\ targets'[t] = targets[t] /\ bootstraps'[t] = bootstraps[t]
  BY <1>1, <1>4
<1>7. TargetInv'
  <2>1. targets' \in [D -> TargetRecs]
    <3>1. [instance |-> i, until |-> u, pending |-> o] \in TargetRecs
      BY <1>2, <1>3 DEF TargetRecs
    <3>2. \A t \in D : targets'[t] \in TargetRecs
      <4>1. ASSUME NEW t \in DOMAIN targets PROVE targets'[t] \in TargetRecs
        BY <1>5, <1>6, <4>1
      <4> QED
        BY <1>1, <1>6, <3>1, <4>1
    <3> QED
      BY <1>4, <3>2
  <2>2. bootstraps' \in [D -> BootRecs]
    <3>1. [offered |-> o, sent |-> 0] \in BootRecs
      BY <1>2 DEF BootRecs
    <3>2. \A t \in D : bootstraps'[t] \in BootRecs
      <4>1. ASSUME NEW t \in DOMAIN targets PROVE bootstraps'[t] \in BootRecs
        BY <1>5, <1>6, <4>1
      <4> QED
        BY <1>1, <1>6, <3>1, <4>1
    <3> QED
      BY <1>4, <3>2
  <2>3. shows' \in [Tabs -> D \cup {None}]
    BY <1>1, <1>4, <1>5
  <2>4. dshTarget' \in [id : D \cup {None}, until : Nat]
    BY <1>1, <1>3, <1>4
  <2> QED
    BY <1>1, <1>4, <1>5, <1>6, <2>1, <2>2, <2>3, <2>4 DEF WebInv, TargetInv
<1>8. \A x \in Handlers : Knows(h[x], DOMAIN targets) /\ Own(h[x], targets)
  BY DEF WebInv, HandlerInv
<1>9. \A x \in Handlers : Knows(h[x], D)
  BY <1>6, <1>8, KnowsMore
<1>10. HandlerInv'
  BY <1>4, <1>6, <1>9 DEF WebInv, HandlerInv
<1>11. \A x \in Handlers : Own(h'[x], targets')
  <2> SUFFICES ASSUME NEW x \in Handlers, h[x].got # None PROVE h[x].got = targets'[h[x].sid].instance
    BY <1>4 DEF Own
  <2>1. h[x].sid \in DOMAIN targets /\ h[x].got = targets[h[x].sid].instance
    BY <1>8 DEF Knows, Own
  <2> QED
    BY <1>6, <2>1
<1>12. \A x \in Handlers : ~Holds(h[x], id)
  <2> SUFFICES ASSUME NEW x \in Handlers, Holds(h[x], id) PROVE FALSE
    OBVIOUS
  <2>1. h[x].pc \in Routed /\ h[x].sid = id
    BY DEF Holds, Routed
  <2> QED
    BY <1>4, <1>8, <2>1 DEF Knows
<1>13. BootInv'
  <2> SUFFICES ASSUME NEW t \in D
               PROVE  /\ bootstraps'[t].sent \in {0, 1}
                      /\ bootstraps'[t].sent = 1 => bootstraps'[t].offered /\ ~targets'[t].pending
                      /\ targets'[t].pending => bootstraps'[t].offered
                      /\ \A y \in Handlers : Holds(h[y], t) =>
                           /\ bootstraps'[t].offered /\ bootstraps'[t].sent = 0 /\ ~targets'[t].pending
                           /\ \A z \in Handlers : Holds(h[z], t) => z = y
    BY <1>4, <1>6 DEF BootInv
  <2>1. CASE t = id
    BY <1>6, <1>12, <2>1
  <2>2. CASE t \in DOMAIN targets
    BY <1>6, <2>2 DEF WebInv, BootInv
  <2> QED
    BY <1>1, <2>1, <2>2
<1> QED
  BY <1>7, <1>10, <1>11, <1>13 DEF WebInv

\* An agent reports, or time passes.
LEMMA OthersKeepWeb ==
  ASSUME WebInv,
         \/ \E i \in Instances, state \in {"offline", "unready", "ready", "startup"} : AgentReports(i, state)
         \/ Tick \/ UNCHANGED vars
  PROVE  WebInv'
<1>1. UNCHANGED <<targets, bootstraps, h, shows, dshTarget>>
  BY DEF AgentReports, Tick, vars, webVars, browserVars
<1>2. live' \in [Instances -> {"offline", "unready", "ready", "startup"}] /\ now' \in 2 .. MaxTime
  <2>1. live \in [Instances -> {"offline", "unready", "ready", "startup"}] /\ now \in 2 .. MaxTime
    BY DEF WebInv, TargetInv
  <2>2. CASE \E i \in Instances, state \in {"offline", "unready", "ready", "startup"} : AgentReports(i, state)
    BY <2>1, <2>2 DEF AgentReports
  <2>3. CASE Tick
    BY <2>1, <2>3, WebAssumption DEF Tick
  <2>4. CASE UNCHANGED vars
    BY <2>1, <2>4 DEF vars
  <2> QED
    BY <2>2, <2>3, <2>4
<1> QED
  BY <1>1, <1>2 DEF WebInv, HandlerInv, TargetInv, BootInv

\* At the start there are no targets and nothing is cached.
LEMMA WebInit == Init => WebInv /\ CacheInv
<1> SUFFICES ASSUME Init PROVE WebInv /\ CacheInv
  OBVIOUS
<1>1. CacheInv
  BY CacheStart DEF Init
<1>2. DOMAIN targets = {} /\ targets = <<>> /\ bootstraps = <<>>
  BY DEF Init
<1>3. Idle \in HandlerRecs({<<>>}) /\ Knows(Idle, {}) /\ Own(Idle, targets)
  BY WebAssumption
     DEF Idle, NoRequest, Requests, HandlerRecs, Pcs, Routed, Ids, Knows, Own, None, Clear
<1>4. HandlerInv
  <2>1. h = [x \in Handlers |-> Idle]
    BY DEF Init
  <2>2. h \in [Handlers -> HandlerRecs({<<>>})] /\ \A x \in Handlers : h[x] = Idle
    BY <1>3, <2>1
  <2> QED
    BY <1>2, <1>3, <2>2 DEF HandlerInv
<1>5. \A x \in Handlers : Own(h[x], targets)
  BY <1>3 DEF Init
<1>6. TargetInv
  <2>1. targets \in [{} -> TargetRecs] /\ bootstraps \in [{} -> BootRecs]
    BY <1>2
  <2>2. shows \in [Tabs -> {} \cup {None}] /\ dshTarget \in [id : {} \cup {None}, until : Nat]
    BY DEF Init
  <2>3. live \in [Instances -> {"offline", "unready", "ready", "startup"}] /\ now \in 2 .. MaxTime
    BY WebAssumption DEF Init, JarInit
  <2> QED
    BY <1>2, <2>1, <2>2, <2>3 DEF TargetInv
<1>7. BootInv
  BY <1>2 DEF BootInv
<1> QED
  BY <1>1, <1>4, <1>5, <1>6, <1>7 DEF WebInv

\* Only a handler that starts to proxy, or gets an answer, touches the cache and the jars.
LEMMA StoresUntouched ==
  ASSUME [Next]_vars
  PROVE  \/ UNCHANGED <<jars, jarLog, cache, recency>>
         \/ \E x \in Handlers : StartProxy(x)
         \/ \E x \in Handlers, c \in SetCookies \cup {NoCookie}, size \in Sizes \cup {0} : Answer(x, c, size)
<1>1. CASE UNCHANGED vars
  BY <1>1 DEF vars, storeVars
<1>2. CASE \E tab \in Tabs, i \in Instances, id \in JarIds : OpenInstance(tab, i, id)
  BY <1>2 DEF OpenInstance, storeVars
<1>3. CASE \E x \in Handlers, tab \in Tabs, path \in RequestPaths, ws, below, withReferer \in BOOLEAN :
             BrowserRequests(x, tab, path, ws, below, withReferer)
  BY <1>3 DEF BrowserRequests, storeVars
<1>4. ASSUME NEW x \in Handlers,
             Route(x) \/ ConsumeBootstrap(x) \/ LookAgain(x) \/ Refuse(x) \/ SendRequest(x) \/ BrowserReceives(x)
      PROVE  UNCHANGED <<jars, jarLog, cache, recency>>
  BY <1>4 DEF Route, ConsumeBootstrap, LookAgain, Refuse, SendRequest, BrowserReceives, storeVars
<1>5. CASE \E i \in Instances, state \in {"offline", "unready", "ready", "startup"} : AgentReports(i, state)
  BY <1>5 DEF AgentReports, storeVars
<1>6. CASE Tick
  BY <1>6 DEF Tick, storeVars
<1> QED
  BY <1>1, <1>2, <1>3, <1>4, <1>5, <1>6 DEF Next, HandlerStep

LEMMA CacheStep == ASSUME WebInv, CacheInv, [Next]_vars PROVE CacheInv'
<1>1. CASE UNCHANGED <<cache, recency>>
  BY <1>1 DEF CacheInv
<1>2. ASSUME NEW x \in Handlers, StartProxy(x) PROVE CacheInv'
  <2>1. \/ UNCHANGED <<cache, recency>>
        \/ /\ InCache(cache, CacheKey(x)) /\ cache' = CacheServe(cache, CacheKey(x))
           /\ recency' = ToFront(recency, CacheKey(x))
    BY <1>2 DEF StartProxy
  <2> QED
    BY <1>1, <2>1, CacheServed
<1>3. ASSUME NEW x \in Handlers, NEW c, NEW size, Answer(x, c, size) PROVE CacheInv'
  <2>1. CASE UNCHANGED <<cache, recency>>
    BY <1>1, <2>1
  <2>2. CASE /\ size \in 1 .. MaxBytes
             /\ cache' = CacheServe(CacheAdd(cache, CacheKey(x), InstanceOf(x), size), CacheKey(x))
             /\ recency' = ToFront(recency, CacheKey(x))
    <3>1. PICK k : k = CacheKey(x)
      OBVIOUS
    <3>2. h[x].sid \in DOMAIN targets /\ h[x].req.path \in RequestPaths
      <4>1. h[x].pc \in Routed
        BY <1>3 DEF Answer, Routed
      <4>2. h[x].req \in Requests
        BY DEF WebInv, HandlerInv, HandlerRecs
      <4> QED
        BY <4>1, <4>2 DEF WebInv, HandlerInv, Knows, Requests
    <3>3. InstanceOf(x) \in Instances
      BY <3>2 DEF WebInv, TargetInv, TargetRecs, InstanceOf
    <3>4. k \in Keys /\ k[1] = InstanceOf(x)
      BY <3>1, <3>2, <3>3 DEF CacheKey, Keys
    <3>5. /\ cache' = CacheServe(CacheAdd(cache, k, k[1], size), k)
          /\ recency' = ToFront(recency, k)
      BY <2>2, <3>1, <3>4
    <3> QED
      BY <2>2, <3>4, <3>5, CacheAdded
  <2> QED
    BY <1>3, <2>1, <2>2 DEF Answer
<1> QED
  BY <1>1, <1>2, <1>3, StoresUntouched

LEMMA WebStep == WebInv /\ CacheInv /\ [Next]_vars => (WebInv /\ CacheInv)'
<1> SUFFICES ASSUME WebInv, CacheInv, [Next]_vars PROVE WebInv'
  BY CacheStep
<1>1. CacheOwn(cache)
  BY DEF CacheInv, CacheOK
<1> QED
  BY <1>1, OpenKeeps, RequestsKeep, RouteKeeps, ConsumeKeeps, LookAgainKeeps, StartProxyKeeps, RefuseKeeps,
     SendKeeps, AnswerKeeps, ReceivesKeeps, OthersKeepWeb DEF Next, HandlerStep

LEMMA WebAlways == Spec => [](WebInv /\ CacheInv)
BY WebInit, WebStep, PTL DEF Spec

-----------------------------------------------------------------------------
(* The cookie jars *)

\* Paths as the jar keeps them, its cookies, and the entries of its log.
Paths == Seq(STRING) \ {<<>>}
CookieRecs == [name : STRING, path : Paths, value : STRING, until : Nat]
Parts == STRING \cup {"dsh"} \cup JarIds

\* A scoped path is below the prefix of its target, and moved there as it was when
\* the entry is Unscoped.
ScopedOwn(e) ==
  e.cookie.name \notin ManagerNames =>
    /\ \E p \in Seq(STRING) : e.scoped = <<"dsh", e.jar>> \o p
    /\ Unscoped(e) => e.scoped = <<"dsh", e.jar>> \o e.path

LogRecs == {e \in [jar : JarIds, cookie : SetCookies, path : Paths, scoped : Seq(Parts), at : Nat] :
              ScopedOwn(e)}

\* Two entries are about one cookie; entry e stores it, as CookieOf(e).
SameCookie(e, f) == e.jar = f.jar /\ e.cookie.name = f.cookie.name /\ e.path = f.path
Stores(e) == e.cookie.name \notin ManagerNames /\ (e.cookie.until = 0 \/ e.at <= e.cookie.until)
CookieOf(e) == [name |-> e.cookie.name, path |-> e.path, value |-> e.cookie.value, until |-> e.cookie.until]
Latest(log, i) == \A l \in i + 1 .. Len(log) : ~SameCookie(log[l], log[i])

\* The log more is log with entry e at its end.
Grown(log, more, e) ==
  /\ more \in Seq(LogRecs) /\ Len(more) = Len(log) + 1
  /\ more[Len(log) + 1] = e /\ \A i \in 1 .. Len(log) : more[i] = log[i]
  /\ Latest(more, Len(log) + 1)
  /\ \A i \in 1 .. Len(log) : Latest(more, i) <=> (Latest(log, i) /\ ~SameCookie(e, log[i]))

\* PathMatches(p, r), part by part.
Covers(p, r) ==
  \/ r = p
  \/ p[Len(p)] = "" /\ Len(r) >= Len(p) /\ \A n \in 1 .. Len(p) - 1 : p[n] = r[n]
  \/ p[Len(p)] # "" /\ Len(r) > Len(p) /\ \A n \in 1 .. Len(p) : p[n] = r[n]

\* How PathLength orders two paths p and q that match request r.
InOrder(p, q, r) ==
  /\ PathLength(p) \in 0 .. 2 * Len(r) /\ 2 * Len(r) \in Nat
  /\ PathLength(q) = PathLength(p) => q = p
  /\ PathLength(q) <= PathLength(p) <=>
       (Len(q) < Len(p) \/ q = p \/ (Len(q) = Len(p) /\ Last(q) = ""))

\* The valid entries of HeaderMatchesLog, and the longest of them.
Valid(j, name, request) ==
  {i \in 1 .. Len(jarLog) : /\ name \notin ManagerNames
                            /\ Says(j, name, jarLog[i].path, i)
                            /\ PathMatches(jarLog[i].path, request)}
LongestOf(V) ==
  {i \in V : \A l \in V : Len(jarLog[l].path) < Len(jarLog[i].path) \/ l = i
                          \/ (Len(jarLog[l].path) = Len(jarLog[i].path) /\ Last(jarLog[l].path) = "")}

\* The candidates of requestHeader are the cookies of the valid entries.
SameCandidates(j, name, request) ==
  /\ \A i \in Valid(j, name, request) : CookieOf(jarLog[i]) \in Candidates(jars[j], name, request, now)
  /\ \A k \in Candidates(jars[j], name, request, now) :
       \E i \in Valid(j, name, request) : CookieOf(jarLog[i]) = k

\* A jar holds the cookies that the latest entries of its target store, and no other;
\* that each entry is scoped below its target's prefix is part of LogRecs.
JarInv ==
  /\ jarLog \in Seq(LogRecs)
  /\ jars \in [JarIds -> SUBSET CookieRecs]
  /\ \A i \in 1 .. Len(jarLog) :
       Latest(jarLog, i) /\ Stores(jarLog[i]) => CookieOf(jarLog[i]) \in jars[jarLog[i].jar]
  /\ \A j \in JarIds : \A k \in jars[j] :
       \E i \in 1 .. Len(jarLog) : /\ Latest(jarLog, i) /\ Stores(jarLog[i])
                                   /\ jarLog[i].jar = j /\ CookieOf(jarLog[i]) = k

\* PathMatches, part by part.
LEMMA FrontIs ==
  ASSUME NEW K, NEW p \in Seq(K), p # <<>>
  PROVE  /\ Len(p) \in Nat \ {0} /\ Front(p) \in Seq(K) /\ Len(Front(p)) = Len(p) - 1
         /\ \A n \in 1 .. Len(p) - 1 : Front(p)[n] = p[n]
<1>1. PICK L : L = Len(p) /\ L \in Nat
  BY LenProperties
<1>2. L # 0
  BY <1>1, EmptySeq
<1>3. /\ Front(p) \in Seq(K) /\ Len(Front(p)) = L - 1 /\ \A n \in 1 .. L - 1 : Front(p)[n] = p[n]
  <2>1. Front(p) = SubSeq(p, 1, L - 1)
    BY <1>1 DEF Front
  <2> QED
    BY <1>1, <1>2, <2>1, SubSeqProperties
<1> QED
  BY <1>1, <1>2, <1>3

\* PathMatches is Covers.
LEMMA MatchesIs ==
  ASSUME NEW K, NEW p \in Seq(K), p # <<>>, NEW r \in Seq(K) PROVE PathMatches(p, r) <=> Covers(p, r)
<1>1. PICK L, M : L = Len(p) /\ M = Len(r) /\ L \in Nat \ {0} /\ M \in Nat
  BY FrontIs, LenProperties
<1>2. ASSUME NEW g \in Seq(K)
      PROVE  IsPrefix(g, r) <=> (Len(g) <= Len(r) /\ \A n \in 1 .. Len(g) : g[n] = r[n])
  <2>1. ASSUME IsPrefix(g, r) PROVE Len(g) <= Len(r) /\ \A n \in 1 .. Len(g) : g[n] = r[n]
    BY <2>1, PrefixIs
  <2>2. ASSUME Len(g) <= Len(r), \A n \in 1 .. Len(g) : g[n] = r[n] PROVE IsPrefix(g, r)
    BY <2>2, PrefixIs
  <2> QED
    BY <2>1, <2>2
<1>3. M >= L => (IsPrefix(Front(p), r) <=> \A n \in 1 .. L - 1 : p[n] = r[n])
  <2>1. PICK f : f = Front(p) /\ f \in Seq(K) /\ Len(f) = L - 1 /\ \A n \in 1 .. L - 1 : f[n] = p[n]
    BY <1>1, FrontIs
  <2>2. IsPrefix(f, r) <=> (Len(f) <= Len(r) /\ \A n \in 1 .. Len(f) : f[n] = r[n])
    BY <1>2, <2>1
  <2> QED
    BY <1>1, <2>1, <2>2
<1>4. M > L => (IsPrefix(p, r) <=> \A n \in 1 .. L : p[n] = r[n])
  BY <1>1, <1>2
<1> QED
  BY <1>1, <1>3, <1>4 DEF PathMatches, Covers, Last

LEMMA LastIndex == ASSUME NEW L \in Nat, NEW n \in 1 .. L PROVE n \in 1 .. L - 1 \/ n = L
OBVIOUS

\* Two paths of one length, as PathLength measures it, that match one request are equal.
LEMMA MatchesOnce ==
  ASSUME NEW p \in Paths, NEW q \in Paths, NEW r \in Paths,
         PathMatches(p, r), PathMatches(q, r), Len(p) = Len(q), (Last(p) = "") <=> (Last(q) = "")
  PROVE  p = q
<1>1. p \in Seq(STRING) /\ q \in Seq(STRING) /\ r \in Seq(STRING) /\ p # <<>> /\ q # <<>>
  BY DEF Paths
<1>2. PICK L : L = Len(p) /\ L = Len(q) /\ L \in Nat \ {0}
  BY <1>1, EmptySeq
<1>3. Covers(p, r) /\ Covers(q, r)
  <2>1. PathMatches(p, r) <=> Covers(p, r)
    BY <1>1, MatchesIs
  <2>2. PathMatches(q, r) <=> Covers(q, r)
    BY <1>1, MatchesIs
  <2> QED
    BY <2>1, <2>2
<1>4. \A n \in 1 .. L : n \in 1 .. L - 1 \/ n = L
  BY <1>2, LastIndex
<1>5. \/ r = p
      \/ p[L] = "" /\ \A n \in 1 .. L - 1 : p[n] = r[n]
      \/ p[L] # "" /\ Len(r) > L /\ \A n \in 1 .. L : p[n] = r[n]
  BY <1>2, <1>3 DEF Covers
<1>6. \/ r = q
      \/ q[L] = "" /\ \A n \in 1 .. L - 1 : q[n] = r[n]
      \/ q[L] # "" /\ Len(r) > L /\ \A n \in 1 .. L : q[n] = r[n]
  BY <1>2, <1>3 DEF Covers
<1>7. (p[L] = "") <=> (q[L] = "")
  BY <1>2 DEF Last
<1>8. CASE p[L] = ""
  <2>1. \A n \in 1 .. L - 1 : p[n] = q[n]
    BY <1>5, <1>6, <1>7, <1>8
  <2>2. \A n \in 1 .. L : p[n] = q[n]
    BY <1>4, <1>7, <1>8, <2>1
  <2> QED
    BY <1>1, <1>2, <2>2, SeqEqual
<1>9. CASE p[L] # ""
  <2>1. \A n \in 1 .. L : p[n] = r[n] /\ q[n] = r[n]
    BY <1>2, <1>5, <1>6, <1>7, <1>9
  <2> QED
    BY <1>1, <1>2, <2>1, SeqEqual
<1> QED
  BY <1>8, <1>9

\* What a path of the target's prefix and a path of the instance match.
LEMMA ScopedIs ==
  ASSUME NEW K, NEW p \in Seq(K), NEW a \in K, NEW b \in K
  PROVE  /\ <<a, b>> \o p \in Seq(K) /\ Len(<<a, b>> \o p) = Len(p) + 2
         /\ (<<a, b>> \o p)[1] = a /\ (<<a, b>> \o p)[2] = b
         /\ \A n \in 1 .. Len(p) : (<<a, b>> \o p)[n + 2] = p[n]
<1>1. <<a, b>> \in Seq(K) /\ Len(<<a, b>>) = 2 /\ <<a, b>>[1] = a /\ <<a, b>>[2] = b /\ Len(p) \in Nat
  BY LenProperties
<1>2. PICK s, t : s = <<a, b>> /\ t = <<a, b>> \o p
  OBVIOUS
<1>3. /\ t \in Seq(K) /\ Len(t) = 2 + Len(p)
      /\ \A n \in 1 .. 2 + Len(p) : t[n] = IF n <= 2 THEN s[n] ELSE p[n - 2]
  BY <1>1, <1>2, ConcatProperties
<1>4. t[1] = a /\ t[2] = b
  BY <1>1, <1>2, <1>3
<1>5. ASSUME NEW n \in 1 .. Len(p) PROVE t[n + 2] = p[n]
  <2>1. n + 2 \in 1 .. 2 + Len(p) /\ ~(n + 2 <= 2) /\ (n + 2) - 2 = n
    BY <1>1
  <2> QED
    BY <1>3, <2>1
<1> QED
  BY <1>1, <1>2, <1>3, <1>4, <1>5

\* Scoping moves a path and the requests it matches below the target's prefix, and no others.
LEMMA ScopeExact ==
  ASSUME NEW p \in Paths, NEW r \in Paths, NEW i, NEW j
  PROVE  PathMatches(<<"dsh", i>> \o p, <<"dsh", j>> \o r) <=> (i = j /\ PathMatches(p, r))
<1>1. PICK K : K = STRING \cup {"dsh", i, j}
  OBVIOUS
<1>2. /\ p \in Seq(STRING) /\ r \in Seq(STRING) /\ p # <<>> /\ r # <<>>
      /\ Len(p) \in Nat \ {0} /\ Len(r) \in Nat \ {0}
  <2>1. p \in Seq(STRING) /\ r \in Seq(STRING) /\ p # <<>> /\ r # <<>>
    BY DEF Paths
  <2> QED
    BY <2>1, EmptySeq
<1>3. p \in Seq(K) /\ r \in Seq(K) /\ "dsh" \in K /\ i \in K /\ j \in K
  <2>1. STRING \subseteq K /\ "dsh" \in K /\ i \in K /\ j \in K
    BY <1>1, Zenon
  <2>2. \A s \in Seq(STRING) : s \in Seq(K)
    BY <2>1, SeqMonotonic
  <2> QED
    BY <1>2, <2>1, <2>2
<1>4. PICK P, R : P = <<"dsh", i>> \o p /\ R = <<"dsh", j>> \o r
  OBVIOUS
<1>5. /\ P \in Seq(K) /\ Len(P) = Len(p) + 2 /\ P[1] = "dsh" /\ P[2] = i
      /\ \A n \in 1 .. Len(p) : P[n + 2] = p[n]
  BY <1>3, <1>4, ScopedIs
<1>6. /\ R \in Seq(K) /\ Len(R) = Len(r) + 2 /\ R[1] = "dsh" /\ R[2] = j
      /\ \A n \in 1 .. Len(r) : R[n + 2] = r[n]
  BY <1>3, <1>4, ScopedIs
<1>7. PathMatches(P, R) <=> Covers(P, R)
  <2>1. P # <<>>
    BY <1>2, <1>5
  <2> QED
    BY <1>5, <1>6, <2>1, MatchesIs
<1>8. PathMatches(p, r) <=> Covers(p, r)
  BY <1>2, MatchesIs
<1>9. ASSUME NEW m \in Nat, m <= Len(p), m <= Len(r)
      PROVE  (\A n \in 1 .. m + 2 : P[n] = R[n]) <=> (i = j /\ \A n \in 1 .. m : p[n] = r[n])
  <2>1. ASSUME \A n \in 1 .. m + 2 : P[n] = R[n], NEW n \in 1 .. m PROVE p[n] = r[n]
    <3>1. n + 2 \in 1 .. m + 2 /\ n \in 1 .. Len(p) /\ n \in 1 .. Len(r)
      BY <1>2, <1>9
    <3> QED
      BY <1>5, <1>6, <2>1, <3>1
  <2>2. ASSUME \A n \in 1 .. m + 2 : P[n] = R[n] PROVE i = j
    <3>1. 2 \in 1 .. m + 2
      OBVIOUS
    <3> QED
      BY <1>5, <1>6, <2>2, <3>1
  <2>3. ASSUME i = j, \A n \in 1 .. m : p[n] = r[n], NEW n \in 1 .. m + 2 PROVE P[n] = R[n]
    <3>1. CASE n = 1 \/ n = 2
      BY <1>5, <1>6, <2>3, <3>1
    <3>2. CASE n - 2 \in 1 .. m
      <4>1. /\ n - 2 \in 1 .. Len(p) /\ n - 2 \in 1 .. Len(r) /\ (n - 2) + 2 = n
        BY <1>2, <1>9, <3>2
      <4> QED
        BY <1>5, <1>6, <2>3, <3>2, <4>1
    <3>3. n = 1 \/ n = 2 \/ n - 2 \in 1 .. m
      OBVIOUS
    <3> QED
      BY <3>1, <3>2, <3>3
  <2> QED
    BY <2>1, <2>2, <2>3
<1>10. P[Len(P)] = p[Len(p)] /\ Len(P) - 1 = (Len(p) - 1) + 2
  BY <1>2, <1>5
<1>11. Len(R) >= Len(P) <=> Len(r) >= Len(p)
  BY <1>2, <1>5, <1>6
<1>12. Len(R) > Len(P) <=> Len(r) > Len(p)
  BY <1>2, <1>5, <1>6
<1>13. R = P <=> (i = j /\ r = p)
  <2>1. ASSUME R = P PROVE i = j /\ r = p
    <3>1. Len(p) = Len(r)
      BY <1>2, <1>5, <1>6, <2>1
    <3>2. i = j /\ \A n \in 1 .. Len(p) : p[n] = r[n]
      BY <1>2, <1>5, <1>6, <2>1, <3>1
    <3> QED
      BY <1>2, <3>1, <3>2, SeqEqual
  <2> QED
    BY <1>4, <2>1
<1>14. Covers(P, R) <=> (i = j /\ Covers(p, r))
  <2>1. Len(p) - 1 \in Nat /\ Len(p) \in Nat
    BY <1>2
  <2>2. Len(r) >= Len(p) => ((\A n \in 1 .. Len(P) - 1 : P[n] = R[n])
                              <=> (i = j /\ \A n \in 1 .. Len(p) - 1 : p[n] = r[n]))
    <3>1. ASSUME Len(r) >= Len(p) PROVE Len(p) - 1 <= Len(p) /\ Len(p) - 1 <= Len(r)
      BY <1>2, <3>1
    <3> QED
      BY <1>9, <1>10, <2>1, <3>1
  <2>3. Len(r) > Len(p) => ((\A n \in 1 .. Len(P) : P[n] = R[n])
                              <=> (i = j /\ \A n \in 1 .. Len(p) : p[n] = r[n]))
    <3>1. ASSUME Len(r) > Len(p) PROVE Len(p) <= Len(p) /\ Len(p) <= Len(r)
      BY <1>2, <3>1
    <3> QED
      BY <1>5, <1>9, <2>1, <3>1
  <2>4. Len(r) > Len(p) => Len(r) >= Len(p)
    BY <1>2
  <2> QED
    BY <1>10, <1>11, <1>12, <1>13, <2>2, <2>3, <2>4 DEF Covers
<1> QED
  BY <1>4, <1>7, <1>8, <1>14

LEMMA Single == ASSUME NEW S, NEW e \in S PROVE <<e>> \in Seq(S) /\ Len(<<e>>) = 1
OBVIOUS

\* The empty part is a string, as Root is a path of strings.
LEMMA EmptyPart == "" \in STRING
<1>1. Root \in Seq(STRING)
  BY PathAssumption, WebAssumption
<1>2. Len(Root) = 1
  BY DEF Root
<1>3. Root[1] = ""
  BY DEF Root
<1>4. 1 \in 1 .. Len(Root)
  BY <1>2
<1>5. Root[1] \in STRING
  BY <1>1, <1>4, ElementOfSeq
<1> QED
  BY <1>3, <1>5

\* The directory of a request is a path that starts with a slash.
LEMMA DefaultPathIs ==
  ASSUME NEW request \in RequestPaths
  PROVE  DefaultPath(request) \in Paths /\ Head(DefaultPath(request)) # Relative
<1>1. request \in Seq(STRING) /\ request # <<>> /\ Head(request) # Relative
  BY PathAssumption
<1>2. PICK f : /\ f = Front(request) /\ f \in Seq(STRING) /\ Len(f) \in Nat
               /\ Len(f) = Len(request) - 1 /\ \A n \in 1 .. Len(request) - 1 : f[n] = request[n]
  BY <1>1, FrontIs
<1>3. PICK d : d = <<"">> /\ d \in Seq(STRING) /\ Len(d) = 1 /\ d[1] = ""
  <2>1. <<"">> \in Seq(STRING) /\ Len(<<"">>) = 1
    BY EmptyPart, Single
  <2>2. <<"">>[1] = ""
    OBVIOUS
  <2> QED
    BY <2>1, <2>2
<1>4. PICK s : s = f \o d
  OBVIOUS
<1>5. /\ s \in Seq(STRING) /\ Len(s) = Len(f) + 1
      /\ \A n \in 1 .. Len(f) + 1 : s[n] = IF n <= Len(f) THEN f[n] ELSE d[n - Len(f)]
  BY <1>2, <1>3, <1>4, ConcatProperties
<1>6. s = DefaultPath(request)
  BY <1>2, <1>3, <1>4 DEF DefaultPath
<1>7. s # <<>>
  <2>1. Len(s) # 0
    BY <1>2, <1>5
  <2> QED
    BY <2>1
<1>8. s[1] # Relative
  <2>1. CASE Len(f) = 0
    <3>1. 1 \in 1 .. Len(f) + 1 /\ ~(1 <= Len(f)) /\ 1 - Len(f) = 1
      BY <2>1
    <3>2. s[1] = d[1]
      BY <1>5, <3>1
    <3> QED
      BY <1>3, <3>2 DEF Relative
  <2>2. CASE Len(f) # 0
    <3>1. 1 <= Len(f) /\ 1 \in 1 .. Len(f) + 1 /\ 1 \in 1 .. Len(request) - 1
      BY <1>2, <2>2
    <3>2. s[1] = request[1]
      BY <1>2, <1>5, <3>1
    <3> QED
      BY <1>1, <3>2
  <2> QED
    BY <2>1, <2>2
<1> QED
  BY <1>5, <1>6, <1>7, <1>8 DEF Paths

\* A Set-Cookie gets a path in the jar, its own or that of the request.
LEMMA CookiePathType ==
  ASSUME NEW c \in SetCookies, NEW request \in RequestPaths PROVE CookiePath(c, request) \in Paths
<1>1. c.path \in Seq(STRING)
  BY WebAssumption
<1>2. Root \in Paths
  BY PathAssumption, WebAssumption DEF Paths
<1>3. DefaultPath(request) \in Paths
  BY DefaultPathIs
<1>4. c.path \notin {NoPath, EmptyPath} => c.path \in Paths
  BY <1>1 DEF NoPath, Paths
<1> QED
  BY <1>2, <1>3, <1>4 DEF CookiePath

\* A path that begins with the prefix of a target is the prefix and the rest.
LEMMA RestOfPrefix ==
  ASSUME NEW id \in JarIds, NEW path \in Seq(STRING), IsPrefix(<<"dsh", id>>, path)
  PROVE  \E p \in Seq(STRING) : path = <<"dsh", id>> \o p
<1>1. PICK s : s = <<"dsh", id>>
  OBVIOUS
<1>2. s \in Seq(Parts) /\ Len(s) = 2 /\ s[1] = "dsh" /\ s[2] = id
  BY <1>1 DEF Parts
<1>3. path \in Seq(Parts) /\ Len(path) \in Nat
  <2>1. STRING \subseteq Parts
    BY Zenon DEF Parts
  <2>2. path \in Seq(Parts)
    BY <2>1, SeqMonotonic
  <2> QED
    BY LenProperties, <2>2
<1>4. Len(path) >= 2 /\ path[1] = "dsh" /\ path[2] = id
  <2>1. IsPrefix(s, path)
    BY <1>1
  <2>2. Len(s) <= Len(path) /\ \A n \in 1 .. Len(s) : s[n] = path[n]
    BY <1>2, <1>3, <2>1, PrefixIs
  <2> QED
    BY <1>2, <1>3, <2>2
<1>5. PICK p : p = [n \in 1 .. Len(path) - 2 |-> path[n + 2]]
  OBVIOUS
<1>6. \A n \in 1 .. Len(path) - 2 : n + 2 \in 1 .. Len(path) /\ p[n] = path[n + 2]
  BY <1>3, <1>5
<1>7. p \in Seq(STRING) /\ Len(p) = Len(path) - 2
  <2>1. \A n \in 1 .. Len(path) - 2 : p[n] \in STRING
    BY <1>6, ElementOfSeq
  <2>2. Len(path) - 2 \in Nat
    BY <1>3, <1>4
  <2> QED
    BY <1>5, <2>1, <2>2, IsASeq, LenProperties
<1>8. PICK q : q = <<"dsh", id>> \o p
  OBVIOUS
<1>9. p \in Seq(Parts)
  <2>1. STRING \subseteq Parts
    BY Zenon DEF Parts
  <2> QED
    BY <1>7, <2>1, SeqMonotonic
<1>10. /\ q \in Seq(Parts) /\ Len(q) = Len(p) + 2 /\ q[1] = "dsh" /\ q[2] = id
       /\ \A n \in 1 .. Len(p) : q[n + 2] = p[n]
  BY <1>8, <1>9, ScopedIs DEF Parts
<1>11. ASSUME NEW n \in 1 .. Len(path) PROVE q[n] = path[n]
  <2>1. n = 1 \/ n = 2 \/ (n - 2 \in 1 .. Len(path) - 2 /\ (n - 2) + 2 = n)
    BY <1>3
  <2>2. CASE n - 2 \in 1 .. Len(path) - 2 /\ (n - 2) + 2 = n
    BY <1>6, <1>7, <1>10, <2>2
  <2> QED
    BY <1>4, <1>10, <2>1, <2>2
<1>12. Len(q) = Len(path)
  BY <1>3, <1>4, <1>7, <1>10
<1>13. q = path
  BY <1>3, <1>10, <1>11, <1>12, SeqEqual
<1> QED
  BY <1>7, <1>8, <1>13

\* What scopeProxyCookiePath returns: a path below the prefix, and the prefix before
\* the path when that starts with a slash and is not below the prefix.
LEMMA ScopeIs ==
  ASSUME NEW id \in JarIds, NEW path \in Paths
  PROVE  /\ \E p \in Seq(STRING) : Scope(id, path) = <<"dsh", id>> \o p
         /\ Head(path) # Relative /\ ~IsPrefix(<<"dsh", id>>, path) => Scope(id, path) = <<"dsh", id>> \o path
<1>1. path \in Seq(STRING) /\ path # <<>>
  BY DEF Paths
<1>2. PICK r : r = (IF Head(path) = Relative THEN Tail(path) ELSE path)
  OBVIOUS
<1>3. r \in Seq(STRING)
  <2>1. Tail(path) \in Seq(STRING)
    BY <1>1, HeadTailProperties
  <2> QED
    BY <1>1, <1>2, <2>1
<1>4. Scope(id, path) = IF IsPrefix(<<"dsh", id>>, r) THEN r ELSE <<"dsh", id>> \o r
  BY <1>2 DEF Scope
<1>5. \E p \in Seq(STRING) : Scope(id, path) = <<"dsh", id>> \o p
  <2>1. CASE IsPrefix(<<"dsh", id>>, r)
    BY <1>3, <1>4, <2>1, RestOfPrefix
  <2>2. CASE ~IsPrefix(<<"dsh", id>>, r)
    BY <1>3, <1>4, <2>2
  <2> QED
    BY <2>1, <2>2
<1>6. ASSUME Head(path) # Relative, ~IsPrefix(<<"dsh", id>>, path)
      PROVE  Scope(id, path) = <<"dsh", id>> \o path
  <2>1. r = path
    BY <1>2, <1>6
  <2> QED
    BY <1>4, <1>6, <2>1
<1> QED
  BY <1>5, <1>6

\* What JarApply writes into the log.
LEMMA EntryType ==
  ASSUME NEW j \in JarIds, NEW c \in SetCookies, NEW request \in RequestPaths, NEW time \in Nat, NEW e,
         e = [jar |-> j, cookie |-> c, path |-> CookiePath(c, request),
              scoped |-> ScopedPath(j, c, request), at |-> time]
  PROVE  e \in LogRecs
<1>1. /\ e.jar = j /\ e.cookie = c /\ e.path = CookiePath(c, request) /\ e.path \in Paths
      /\ e.scoped = ScopedPath(j, c, request) /\ e.at = time
  BY CookiePathType
<1>2. PICK given : given = IF c.path = NoPath THEN DefaultPath(request) ELSE c.path
  OBVIOUS
<1>3. given \in Paths
  <2>1. c.path \in Seq(STRING)
    BY WebAssumption
  <2> QED
    BY <1>2, <2>1, DefaultPathIs DEF Paths, NoPath
<1>4. e.scoped = IF c.name \in ManagerNames THEN NoPath ELSE Scope(j, given)
  BY <1>1, <1>2 DEF ScopedPath
<1>5. PICK p \in Seq(STRING) : Scope(j, given) = <<"dsh", j>> \o p
  BY <1>3, ScopeIs
<1>6. ASSUME Unscoped(e), c.name \notin ManagerNames PROVE e.scoped = <<"dsh", j>> \o e.path
  <2>1. (c.path = NoPath \/ Head(c.path) # Relative) /\ ~IsPrefix(<<"dsh", j>>, e.path)
    BY <1>1, <1>6 DEF Unscoped
  <2>2. Head(EmptyPath) = Relative
    BY DEF EmptyPath
  <2>3. given = e.path
    BY <1>1, <1>2, <2>1, <2>2 DEF CookiePath
  <2>4. Head(given) # Relative
    BY <1>2, <2>1, DefaultPathIs
  <2>5. Scope(j, given) = <<"dsh", j>> \o given
    BY <1>3, <2>1, <2>3, <2>4, ScopeIs
  <2> QED
    BY <1>4, <1>6, <2>3, <2>5
<1>7. ScopedOwn(e)
  BY <1>1, <1>4, <1>5, <1>6 DEF ScopedOwn
<1>8. e.scoped \in Seq(Parts)
  <2>1. <<"dsh", j>> \o p \in Seq(Parts)
    <3>1. STRING \subseteq Parts
      BY Zenon DEF Parts
    <3>2. p \in Seq(Parts)
      BY <1>5, <3>1, SeqMonotonic
    <3> QED
      BY <3>2, ScopedIs DEF Parts
  <2>2. NoPath \in Seq(Parts)
    BY DEF NoPath
  <2> QED
    BY <1>4, <1>5, <2>1, <2>2
<1> QED
  BY <1>1, <1>7, <1>8 DEF LogRecs

\* What apply leaves in a jar, for a jar without manager cookies and entry e of the log.
LEMMA ApplyIs ==
  ASSUME NEW jar, \A k \in jar : k.name \notin ManagerNames,
         NEW c, NEW request, NEW time \in Nat, c.until \in Nat, NEW j, NEW e,
         e = [jar |-> j, cookie |-> c, path |-> CookiePath(c, request),
              scoped |-> ScopedPath(j, c, request), at |-> time]
  PROVE  \A k : k \in Apply(jar, c, request, time) <=>
                  \/ k \in jar /\ (k.name # e.cookie.name \/ k.path # e.path)
                  \/ Stores(e) /\ k = CookieOf(e)
<1>1. PICK path : path = CookiePath(c, request) /\ e.path = path
  OBVIOUS
<1>2. e.cookie = c /\ e.at = time
  OBVIOUS
<1>3. (c.until # 0 /\ c.until < time) <=> ~(c.until = 0 \/ time <= c.until)
  OBVIOUS
<1>4. CookieOf(e) = [name |-> c.name, path |-> path, value |-> c.value, until |-> c.until]
  BY <1>1, <1>2 DEF CookieOf
<1>5. Stores(e) <=> c.name \notin ManagerNames /\ ~(c.until # 0 /\ c.until < time)
  BY <1>2, <1>3 DEF Stores
<1>6. CASE c.name \in ManagerNames
  <2>1. Apply(jar, c, request, time) = jar
    BY <1>6 DEF Apply
  <2> QED
    BY <1>2, <1>5, <1>6, <2>1
<1>7. CASE c.name \notin ManagerNames /\ c.until # 0 /\ c.until < time
  <2>1. Apply(jar, c, request, time) = Kept(jar, c, path)
    BY <1>1, <1>7 DEF Apply
  <2> QED
    BY <1>1, <1>2, <1>5, <1>7, <2>1 DEF Kept
<1>8. CASE c.name \notin ManagerNames /\ ~(c.until # 0 /\ c.until < time)
  <2>1. Apply(jar, c, request, time) = Kept(jar, c, path) \cup {CookieOf(e)}
    BY <1>1, <1>4, <1>8 DEF Apply
  <2> QED
    BY <1>1, <1>2, <1>5, <1>8, <2>1 DEF Kept
<1> QED
  BY <1>6, <1>7, <1>8

\* The latest entries of a log to which e is added.
LEMMA LatestGrows ==
  ASSUME NEW log \in Seq(LogRecs), NEW e \in LogRecs, NEW more, more = Append(log, e)
  PROVE  Grown(log, more, e)
<1>1. PICK n : n = Len(log) /\ n \in Nat
  BY LenProperties
<1>2. /\ more \in Seq(LogRecs) /\ Len(more) = n + 1 /\ more[n + 1] = e
      /\ \A i \in 1 .. n : more[i] = log[i]
  BY <1>1, AppendProperties
<1>3. Latest(more, n + 1)
  <2>1. \A l \in (n + 1) + 1 .. n + 1 : FALSE
    BY <1>1
  <2> QED
    BY <1>2, <2>1 DEF Latest
<1>4. ASSUME NEW i \in 1 .. n PROVE Latest(more, i) <=> (Latest(log, i) /\ ~SameCookie(e, log[i]))
  <2>1. \A l : l \in i + 1 .. n + 1 <=> (l \in i + 1 .. n \/ l = n + 1)
    BY <1>1
  <2>2. \A l \in i + 1 .. n : l \in 1 .. n
    BY <1>1
  <2> QED
    BY <1>1, <1>2, <2>1, <2>2 DEF Latest
<1> QED
  BY <1>1, <1>2, <1>3, <1>4 DEF Grown

LEMMA CookieOfType == ASSUME NEW e \in LogRecs PROVE CookieOf(e) \in CookieRecs
<1>1. /\ e.path \in Paths /\ e.cookie.name \in STRING
      /\ e.cookie.value \in STRING /\ e.cookie.until \in Nat
  BY WebAssumption DEF LogRecs
<1> QED
  BY <1>1 DEF CookieOf, CookieRecs

\* A Set-Cookie, with its entry in the log, keeps the jar what the log says.
LEMMA JarApplyKeeps ==
  ASSUME JarInv, now \in Nat, NEW j \in JarIds, NEW c \in SetCookies, NEW request \in RequestPaths,
         JarApply(j, c, request)
  PROVE  JarInv'
<1>1. PICK e : e = [jar |-> j, cookie |-> c, path |-> CookiePath(c, request),
                    scoped |-> ScopedPath(j, c, request), at |-> now]
  OBVIOUS
<1>2. e \in LogRecs /\ e.jar = j
  BY <1>1, EntryType
<1>3. PICK old, new : old = jarLog /\ new = jarLog' /\ old \in Seq(LogRecs) /\ new = Append(old, e)
  BY <1>1 DEF JarInv, JarApply
<1>4. PICK n : n = Len(old) /\ n \in Nat
  BY <1>3, LenProperties
<1>5. /\ new \in Seq(LogRecs) /\ Len(new) = n + 1 /\ new[n + 1] = e
      /\ \A i \in 1 .. n : new[i] = old[i] /\ old[i] \in LogRecs
      /\ Latest(new, n + 1)
      /\ \A i \in 1 .. n : Latest(new, i) <=> (Latest(old, i) /\ ~SameCookie(e, old[i]))
  <2>1. \A i \in 1 .. n : old[i] \in LogRecs
    BY <1>3, <1>4, ElementOfSeq
  <2>2. Grown(old, new, e)
    BY <1>2, <1>3, LatestGrows
  <2> QED
    BY <1>4, <2>1, <2>2 DEF Grown
<1>6. PICK J, M : J = jars /\ M = jars'
  OBVIOUS
<1>7. /\ J \in [JarIds -> SUBSET CookieRecs]
      /\ \A i \in 1 .. n : Latest(old, i) /\ Stores(old[i]) => CookieOf(old[i]) \in J[old[i].jar]
      /\ \A t \in JarIds : \A k \in J[t] :
           \E i \in 1 .. n : Latest(old, i) /\ Stores(old[i]) /\ old[i].jar = t /\ CookieOf(old[i]) = k
  BY <1>3, <1>4, <1>6 DEF JarInv
<1>8. M = [J EXCEPT ![j] = Apply(J[j], c, request, now)]
  BY <1>6 DEF JarApply
<1>9. \A k : k \in Apply(J[j], c, request, now) <=>
               \/ k \in J[j] /\ (k.name # e.cookie.name \/ k.path # e.path)
               \/ Stores(e) /\ k = CookieOf(e)
  <2>1. ASSUME NEW k \in J[j] PROVE k.name \notin ManagerNames
    <3>1. PICK i \in 1 .. n : Stores(old[i]) /\ CookieOf(old[i]) = k
      BY <1>7, <2>1
    <3> QED
      BY <3>1 DEF Stores, CookieOf
  <2>2. c.until \in Nat
    BY WebAssumption
  <2> QED
    BY <1>1, <2>1, <2>2, ApplyIs
<1>10. /\ \A t \in JarIds : t # j => M[t] = J[t]
       /\ \A k : k \in M[j] <=> \/ k \in J[j] /\ (k.name # e.cookie.name \/ k.path # e.path)
                                \/ Stores(e) /\ k = CookieOf(e)
  BY <1>7, <1>8, <1>9
<1>11. M \in [JarIds -> SUBSET CookieRecs]
  <2>1. Apply(J[j], c, request, now) \in SUBSET CookieRecs
    <3>1. CookieOf(e) \in CookieRecs
      BY <1>2, CookieOfType
    <3> QED
      BY <1>7, <1>9, <3>1
  <2> QED
    BY <1>7, <1>8, <2>1
<1>12. ASSUME NEW i \in 1 .. n + 1, Latest(new, i), Stores(new[i])
       PROVE  CookieOf(new[i]) \in M[new[i].jar]
  <2>1. CASE i = n + 1
    BY <1>2, <1>5, <1>10, <1>12, <2>1
  <2>2. CASE i \in 1 .. n
    <3>1. new[i] = old[i] /\ Latest(old, i) /\ ~SameCookie(e, old[i]) /\ old[i] \in LogRecs
      BY <1>5, <1>12, <2>2
    <3>2. CookieOf(old[i]) \in J[old[i].jar] /\ old[i].jar \in JarIds
      BY <1>7, <1>12, <2>2, <3>1 DEF LogRecs
    <3>3. CASE old[i].jar # j
      BY <1>10, <3>1, <3>2, <3>3
    <3>4. CASE old[i].jar = j
      <4>1. old[i].cookie.name # e.cookie.name \/ old[i].path # e.path
        BY <1>2, <3>1, <3>4 DEF SameCookie
      <4>2. CookieOf(old[i]).name = old[i].cookie.name /\ CookieOf(old[i]).path = old[i].path
        BY DEF CookieOf
      <4>3. CookieOf(old[i]) \in M[j]
        BY <1>10, <3>2, <3>4, <4>1, <4>2
      <4> QED
        BY <3>1, <3>4, <4>3
    <3> QED
      BY <3>3, <3>4
  <2>3. i = n + 1 \/ i \in 1 .. n
    BY <1>4
  <2> QED
    BY <2>1, <2>2, <2>3
<1>13. ASSUME NEW t \in JarIds, NEW k \in M[t]
       PROVE  \E i \in 1 .. n + 1 : Latest(new, i) /\ Stores(new[i]) /\ new[i].jar = t /\ CookieOf(new[i]) = k
  <2>1. \A i \in 1 .. n : i \in 1 .. n + 1
    BY <1>4
  <2>2. CASE t = j /\ Stores(e) /\ k = CookieOf(e)
    <3>1. n + 1 \in 1 .. n + 1
      BY <1>4
    <3> QED
      BY <1>2, <1>5, <2>2, <3>1
  <2>3. CASE k \in J[t] /\ (t = j => k.name # e.cookie.name \/ k.path # e.path)
    <3>1. PICK i \in 1 .. n : Latest(old, i) /\ Stores(old[i]) /\ old[i].jar = t /\ CookieOf(old[i]) = k
      BY <1>7, <2>3
    <3>2. k.name = old[i].cookie.name /\ k.path = old[i].path
      BY <3>1 DEF CookieOf
    <3>3. ~SameCookie(e, old[i])
      BY <1>2, <2>3, <3>1, <3>2 DEF SameCookie
    <3> QED
      BY <1>5, <2>1, <3>1, <3>3
  <2> QED
    BY <1>10, <2>2, <2>3
<1>14. jarLog' \in Seq(LogRecs) /\ jars' \in [JarIds -> SUBSET CookieRecs]
  BY <1>3, <1>5, <1>6, <1>11
<1>15. \A i \in 1 .. Len(jarLog') :
         Latest(jarLog', i) /\ Stores(jarLog'[i]) => CookieOf(jarLog'[i]) \in jars'[jarLog'[i].jar]
  BY <1>3, <1>5, <1>6, <1>12
<1>16. \A t \in JarIds : \A k \in jars'[t] :
         \E i \in 1 .. Len(jarLog') : /\ Latest(jarLog', i) /\ Stores(jarLog'[i])
                                      /\ jarLog'[i].jar = t /\ CookieOf(jarLog'[i]) = k
  BY <1>3, <1>5, <1>6, <1>13
<1> QED
  BY <1>14, <1>15, <1>16 DEF JarInv

\* A set of numbers with a bound has a greatest one.
LEMMA GreatestNumber ==
  ASSUME NEW B \in Nat, NEW T, T \subseteq 0 .. B, T # {} PROVE \E m \in T : \A n \in T : n <= m
<1>1. PICK D : D = {d \in Nat : \E n \in T : d = B - n}
  OBVIOUS
<1>2. \A n \in T : B - n \in D
  BY <1>1
<1>3. D \subseteq Nat /\ D # {}
  BY <1>1, <1>2
<1>4. PICK d \in D : \A c \in D : d <= c
  BY <1>3, LeastNumber
<1>5. PICK m \in T : d = B - m
  BY <1>1
<1>6. ASSUME NEW n \in T PROVE n <= m
  <2>1. B - m <= B - n
    BY <1>2, <1>4, <1>5
  <2> QED
    BY <2>1
<1> QED
  BY <1>6

\* The order of requestHeader on the paths that match a request.
LEMMA DoubleOrder ==
  ASSUME NEW a \in Nat \ {0}, NEW b \in Nat \ {0}, NEW c \in Nat, a <= c,
         NEW x \in {0, 1}, NEW y \in {0, 1}
  PROVE  /\ 2 * a - x \in 0 .. 2 * c /\ 2 * c \in Nat
         /\ 2 * b - y = 2 * a - x => a = b /\ x = y
         /\ 2 * b - y <= 2 * a - x <=> (b < a \/ (b = a /\ x = y) \/ (b = a /\ y = 1))
OBVIOUS

\* PathLength orders them like the log's property does, without ties.
LEMMA PathOrder ==
  ASSUME NEW p \in Paths, NEW q \in Paths, NEW r \in Paths, PathMatches(p, r), PathMatches(q, r)
  PROVE  InOrder(p, q, r)
<1>1. p \in Seq(STRING) /\ q \in Seq(STRING) /\ r \in Seq(STRING) /\ p # <<>> /\ q # <<>>
  BY DEF Paths
<1>2. Len(p) \in Nat \ {0} /\ Len(q) \in Nat \ {0} /\ Len(r) \in Nat
  <2>1. Len(p) \in Nat \ {0}
    BY <1>1, EmptySeq
  <2>2. Len(q) \in Nat \ {0}
    BY <1>1, EmptySeq
  <2>3. Len(r) \in Nat
    BY <1>1, LenProperties
  <2> QED
    BY <2>1, <2>2, <2>3
<1>3. \E x, y \in {0, 1} : /\ x = (IF Last(p) = "" THEN 1 ELSE 0) /\ y = (IF Last(q) = "" THEN 1 ELSE 0)
  BY Zenon
<1>4. PICK x, y \in {0, 1} : x = (IF Last(p) = "" THEN 1 ELSE 0) /\ y = (IF Last(q) = "" THEN 1 ELSE 0)
  BY <1>3
<1>5. PathLength(p) = 2 * Len(p) - x /\ PathLength(q) = 2 * Len(q) - y
  BY <1>4, Zenon DEF PathLength
<1>6. Len(p) = Len(q) /\ x = y => p = q
  <2>1. x = y => ((Last(p) = "") <=> (Last(q) = ""))
    <3>1. 0 # 1
      OBVIOUS
    <3> QED
      BY <1>4, <3>1, Zenon
  <2> QED
    BY <2>1, MatchesOnce
<1>7. Len(p) <= Len(r)
  <2>1. PathMatches(p, r) <=> Covers(p, r)
    BY <1>1, MatchesIs
  <2>2. r = p \/ Len(r) >= Len(p) \/ Len(r) > Len(p)
    BY <2>1 DEF Covers
  <2>3. CASE r = p
    BY <1>2, <2>3
  <2>4. CASE Len(r) >= Len(p) \/ Len(r) > Len(p)
    BY <1>2, <2>4
  <2> QED
    BY <2>2, <2>3, <2>4
<1>8. /\ 2 * Len(p) - x \in 0 .. 2 * Len(r) /\ 2 * Len(r) \in Nat
      /\ 2 * Len(q) - y = 2 * Len(p) - x => Len(p) = Len(q) /\ x = y
      /\ 2 * Len(q) - y <= 2 * Len(p) - x <=>
           (Len(q) < Len(p) \/ (Len(q) = Len(p) /\ x = y) \/ (Len(q) = Len(p) /\ y = 1))
  BY <1>2, <1>4, <1>7, DoubleOrder
<1>9. q = p => Len(q) = Len(p) /\ x = y
  BY <1>4, Zenon
<1>10. (y = 1) <=> (Last(q) = "")
  <2>1. 0 # 1
    OBVIOUS
  <2> QED
    BY <1>4, <2>1, Zenon
<1> QED
  BY <1>5, <1>6, <1>8, <1>9, <1>10, Zenon DEF InOrder

\* The candidates of requestHeader are the cookies that the log says.
LEMMA CandidatesAre ==
  ASSUME JarInv, NEW j \in JarIds, NEW name \in CookieNames, NEW request \in RequestPaths
  PROVE  SameCandidates(j, name, request)
<1>1. ASSUME NEW i \in Valid(j, name, request)
      PROVE  CookieOf(jarLog[i]) \in Candidates(jars[j], name, request, now)
  <2>1. /\ i \in 1 .. Len(jarLog) /\ name \notin ManagerNames /\ Says(j, name, jarLog[i].path, i)
        /\ PathMatches(jarLog[i].path, request)
    BY <1>1 DEF Valid
  <2>2. PICK e : e = jarLog[i]
    OBVIOUS
  <2>3. /\ e.jar = j /\ e.cookie.name = name
        /\ e.cookie.until = 0 \/ (e.at <= e.cookie.until /\ now < e.cookie.until)
    BY <2>1, <2>2 DEF Says
  <2>4. Latest(jarLog, i)
    BY <2>1, <2>2, <2>3 DEF Says, Latest, SameCookie
  <2>5. Stores(e)
    BY <2>1, <2>3 DEF Stores
  <2>6. CookieOf(e) \in jars[j]
    BY <2>1, <2>2, <2>3, <2>4, <2>5 DEF JarInv
  <2>7. /\ CookieOf(e).name = name /\ Live(CookieOf(e), now) /\ PathMatches(CookieOf(e).path, request)
    BY <2>1, <2>2, <2>3 DEF CookieOf, Live
  <2> QED
    BY <2>2, <2>6, <2>7 DEF Candidates
<1>2. ASSUME NEW k \in Candidates(jars[j], name, request, now)
      PROVE  \E i \in Valid(j, name, request) : CookieOf(jarLog[i]) = k
  <2>1. k \in jars[j] /\ k.name = name /\ Live(k, now) /\ PathMatches(k.path, request)
    BY <1>2 DEF Candidates
  <2>2. PICK i \in 1 .. Len(jarLog) :
          Latest(jarLog, i) /\ Stores(jarLog[i]) /\ jarLog[i].jar = j /\ CookieOf(jarLog[i]) = k
    BY <2>1 DEF JarInv
  <2>3. k.name = jarLog[i].cookie.name /\ k.path = jarLog[i].path /\ k.until = jarLog[i].cookie.until
    BY <2>2 DEF CookieOf
  <2>4. \A l \in i + 1 .. Len(jarLog) :
          ~(jarLog[l].jar = j /\ jarLog[l].cookie.name = name /\ jarLog[l].path = jarLog[i].path)
    BY <2>1, <2>2, <2>3 DEF Latest, SameCookie
  <2>5. Says(j, name, jarLog[i].path, i)
    BY <2>1, <2>2, <2>3, <2>4 DEF Says, Stores, Live
  <2>6. i \in Valid(j, name, request)
    BY <2>1, <2>2, <2>3, <2>5 DEF Valid, Stores
  <2> QED
    BY <2>2, <2>6
<1> QED
  BY <1>1, <1>2 DEF SameCandidates

\* Two valid entries with one path are one entry.
LEMMA ValidOnce ==
  ASSUME JarInv, NEW j, NEW name, NEW request, NEW i \in Valid(j, name, request),
         NEW l \in Valid(j, name, request), jarLog[i].path = jarLog[l].path
  PROVE  i = l
<1>1. /\ i \in 1 .. Len(jarLog) /\ l \in 1 .. Len(jarLog) /\ Len(jarLog) \in Nat
      /\ Says(j, name, jarLog[i].path, i) /\ Says(j, name, jarLog[l].path, l)
  BY LenProperties DEF Valid, JarInv
<1>2. i < l => l \in i + 1 .. Len(jarLog)
  BY <1>1
<1>3. l < i => i \in l + 1 .. Len(jarLog)
  BY <1>1
<1>4. i < l \/ l < i \/ i = l
  BY <1>1
<1> QED
  BY <1>1, <1>2, <1>3, <1>4 DEF Says

\* The header of one request for one name: the valid entries of the log have one of
\* the greatest length, and the candidate that requestHeader chooses is that one's.
LEMMA HeaderFromLog ==
  ASSUME JarInv, NEW j \in JarIds, NEW name \in CookieNames, NEW request \in RequestPaths,
         NEW browser
  PROVE  LET header == RequestHeader(jars[j], browser, request, now)
             V == Valid(j, name, request)
             forwarded == IF name \in DOMAIN browser \ ManagerNames THEN {browser[name]} ELSE {}
         IN /\ Cardinality(LongestOf(V)) = IF V = {} THEN 0 ELSE 1
            /\ (IF name \in DOMAIN header THEN {header[name]} ELSE {})
                 = IF V = {} THEN forwarded ELSE {jarLog[i].cookie.value : i \in LongestOf(V)}
<1>1. PICK V, C, F, header : /\ V = Valid(j, name, request) /\ C = Candidates(jars[j], name, request, now)
                             /\ F = {n \in CookieNames : Candidates(jars[j], n, request, now) # {}}
                             /\ header = RequestHeader(jars[j], browser, request, now)
  OBVIOUS
<1>2. /\ \A i \in V : CookieOf(jarLog[i]) \in C
      /\ \A k \in C : \E i \in V : CookieOf(jarLog[i]) = k
  <2>1. SameCandidates(j, name, request)
    BY CandidatesAre
  <2> QED
    BY <1>1, <2>1 DEF SameCandidates
<1>3. V = {} <=> C = {}
  BY <1>2
<1>4. /\ DOMAIN header = (DOMAIN browser \cup F) \ ManagerNames
      /\ name \in F <=> C # {}
  BY <1>1 DEF RequestHeader
<1>5. ASSUME V = {}
      PROVE  /\ Cardinality(LongestOf(V)) = 0
             /\ name \in DOMAIN header <=> name \in DOMAIN browser \ ManagerNames
             /\ name \in DOMAIN header => header[name] = browser[name]
  <2>1. name \notin F
    BY <1>3, <1>4, <1>5
  <2>2. LongestOf(V) = {}
    BY <1>5 DEF LongestOf
  <2>3. name \in DOMAIN header => header[name] = browser[name]
    BY <1>1, <1>4, <2>1 DEF RequestHeader
  <2> QED
    BY <1>4, <2>1, <2>2, <2>3, FS_EmptySet
<1>6. ASSUME V # {}
      PROVE  /\ Cardinality(LongestOf(V)) = 1
             /\ name \in DOMAIN header
             /\ {header[name]} = {jarLog[i].cookie.value : i \in LongestOf(V)}
  <2>1. name \in DOMAIN header /\ name \in F
    <3>1. name \notin ManagerNames
      BY <1>1, <1>6 DEF Valid
    <3> QED
      BY <1>3, <1>4, <1>6, <3>1
  <2>2. PICK P : P = [i \in 1 .. Len(jarLog) |-> jarLog[i].path]
    OBVIOUS
  <2>3. \A i \in V : /\ i \in 1 .. Len(jarLog) /\ P[i] = jarLog[i].path
                    /\ P[i] \in Paths /\ PathMatches(P[i], request)
    <3> SUFFICES ASSUME NEW i \in V
                 PROVE  /\ i \in 1 .. Len(jarLog) /\ P[i] = jarLog[i].path
                        /\ P[i] \in Paths /\ PathMatches(P[i], request)
      OBVIOUS
    <3>1. i \in 1 .. Len(jarLog) /\ PathMatches(jarLog[i].path, request)
      BY <1>1 DEF Valid
    <3>2. jarLog[i] \in LogRecs
      <4>1. jarLog \in Seq(LogRecs)
        BY DEF JarInv
      <4> QED
        BY <3>1, <4>1, ElementOfSeq
    <3>3. jarLog[i].path \in Paths
      BY <3>2 DEF LogRecs
    <3> QED
      BY <2>2, <3>1, <3>3
  <2>4. request \in Paths
    BY PathAssumption DEF Paths
  <2>5. \A i, l \in V : InOrder(P[i], P[l], request)
    BY <2>3, <2>4, PathOrder
  <2>6. \A i, l \in V : P[i] = P[l] => i = l
    BY <1>1, <2>3, ValidOnce
  <2>7. \A i, l \in V : PathLength(P[i]) = PathLength(P[l]) => i = l
    BY <2>5, <2>6 DEF InOrder
  <2>8. LongestOf(V) = {i \in V : \A l \in V : PathLength(P[l]) <= PathLength(P[i])}
    <3> SUFFICES ASSUME NEW i \in V, NEW l \in V
                 PROVE  PathLength(P[l]) <= PathLength(P[i]) <=>
                          (Len(P[l]) < Len(P[i]) \/ l = i \/ (Len(P[l]) = Len(P[i]) /\ Last(P[l]) = ""))
      BY <2>3 DEF LongestOf
    <3> QED
      BY <2>5, <2>6 DEF InOrder
  <2>9. PICK m \in V : \A l \in V : PathLength(P[l]) <= PathLength(P[m])
    <3>1. PICK T : T = {PathLength(P[i]) : i \in V}
      OBVIOUS
    <3>2. T \subseteq 0 .. 2 * Len(request) /\ 2 * Len(request) \in Nat /\ T # {}
      BY <1>6, <2>5, <3>1 DEF InOrder
    <3>3. PICK g \in T : \A n \in T : n <= g
      BY <3>2, GreatestNumber
    <3>4. PICK m \in V : g = PathLength(P[m])
      BY <3>1
    <3> QED
      BY <3>1, <3>3, <3>4
  <2>10. \A i \in V : (\A l \in V : PathLength(P[l]) <= PathLength(P[i])) => i = m
    <3> SUFFICES ASSUME NEW i \in V, \A l \in V : PathLength(P[l]) <= PathLength(P[i]) PROVE i = m
      OBVIOUS
    <3>1. PathLength(P[m]) <= PathLength(P[i]) /\ PathLength(P[i]) <= PathLength(P[m])
      BY <2>9
    <3>2. PathLength(P[m]) \in Nat /\ PathLength(P[i]) \in Nat
      <4>1. \A l \in V : PathLength(P[l]) \in 0 .. 2 * Len(request)
        BY <2>5 DEF InOrder
      <4>2. \A n \in 0 .. 2 * Len(request) : n \in Nat
        OBVIOUS
      <4> QED
        BY <4>1, <4>2
    <3>3. PathLength(P[i]) = PathLength(P[m])
      BY <3>1, <3>2
    <3> QED
      BY <2>7, <3>3
  <2>11. LongestOf(V) = {m}
    BY <2>8, <2>9, <2>10
  <2>12. Cardinality(LongestOf(V)) = 1
    BY <2>11, FS_Singleton
  <2>13. header[name] = (CHOOSE k \in C : \A l \in C : PathLength(l.path) <= PathLength(k.path)).value
    BY <1>1, <1>4, <2>1 DEF RequestHeader
  <2>14. \A i \in V : CookieOf(jarLog[i]).path = P[i] /\ CookieOf(jarLog[i]).value = jarLog[i].cookie.value
    BY <2>3 DEF CookieOf
  <2>15. ASSUME NEW k \in C PROVE \E i \in V : CookieOf(jarLog[i]) = k /\ k.path = P[i]
    BY <1>2, <2>14
  <2>16. \E k \in C : \A l \in C : PathLength(l.path) <= PathLength(k.path)
    <3>1. CookieOf(jarLog[m]) \in C /\ CookieOf(jarLog[m]).path = P[m]
      BY <1>2, <2>14
    <3>2. \A l \in C : PathLength(l.path) <= PathLength(P[m])
      BY <2>9, <2>15
    <3> QED
      BY <3>1, <3>2
  <2>17. PICK k \in C : /\ \A l \in C : PathLength(l.path) <= PathLength(k.path)
                        /\ header[name] = k.value
    BY <2>13, <2>16
  <2>18. PICK i \in V : CookieOf(jarLog[i]) = k /\ k.path = P[i]
    BY <2>15
  <2>19. ASSUME NEW l \in V PROVE PathLength(P[l]) <= PathLength(P[i])
    <3>1. CookieOf(jarLog[l]) \in C /\ CookieOf(jarLog[l]).path = P[l]
      BY <1>2, <2>14
    <3> QED
      BY <2>17, <2>18, <3>1
  <2>20. i = m
    BY <2>10, <2>19
  <2> QED
    BY <2>1, <2>11, <2>12, <2>14, <2>17, <2>18, <2>20
<1>7. V = {} => IF name \in DOMAIN browser \ ManagerNames
                THEN name \in DOMAIN header /\ {header[name]} = {browser[name]}
                ELSE name \notin DOMAIN header
  BY <1>5
<1> QED
  BY <1>1, <1>5, <1>6, <1>7

LEMMA JarSays == JarInv => HeaderMatchesLog
<1> SUFFICES ASSUME JarInv, NEW j \in JarIds, NEW name \in CookieNames, NEW request \in RequestPaths
             PROVE  /\ Cardinality(LongestOf(Valid(j, name, request)))
                         = IF Valid(j, name, request) = {} THEN 0 ELSE 1
                    /\ \A browser \in BrowserHeaders :
                         LET header == RequestHeader(jars[j], browser, request, now)
                             forwarded == IF name \in DOMAIN browser \ ManagerNames THEN {browser[name]} ELSE {}
                         IN (IF name \in DOMAIN header THEN {header[name]} ELSE {})
                              = IF Valid(j, name, request) = {}
                                THEN forwarded
                                ELSE {jarLog[i].cookie.value : i \in LongestOf(Valid(j, name, request))}
  BY DEF HeaderMatchesLog, Valid, LongestOf
<1>1. Cardinality(LongestOf(Valid(j, name, request))) = IF Valid(j, name, request) = {} THEN 0 ELSE 1
  BY HeaderFromLog
<1>2. ASSUME NEW browser \in BrowserHeaders
      PROVE  LET header == RequestHeader(jars[j], browser, request, now)
                 forwarded == IF name \in DOMAIN browser \ ManagerNames THEN {browser[name]} ELSE {}
             IN (IF name \in DOMAIN header THEN {header[name]} ELSE {})
                  = IF Valid(j, name, request) = {}
                    THEN forwarded
                    ELSE {jarLog[i].cookie.value : i \in LongestOf(Valid(j, name, request))}
  BY HeaderFromLog
<1> QED
  BY <1>1, <1>2

\* A path below the prefix of one target matches no request of another.
LEMMA ScopeIsolates ==
  ASSUME NEW p \in Seq(STRING), NEW r \in Paths, NEW i \in JarIds, NEW j \in JarIds,
         PathMatches(<<"dsh", i>> \o p, <<"dsh", j>> \o r)
  PROVE  i = j
<1>1. PICK P, R : P = <<"dsh", i>> \o p /\ R = <<"dsh", j>> \o r
  OBVIOUS
<1>2. p \in Seq(Parts) /\ r \in Seq(Parts) /\ Len(p) \in Nat /\ Len(r) \in Nat
  <2>1. STRING \subseteq Parts
    BY Zenon DEF Parts
  <2>2. r \in Seq(STRING)
    BY DEF Paths
  <2> QED
    BY <2>1, <2>2, SeqMonotonic, LenProperties
<1>3. P \in Seq(Parts) /\ Len(P) = Len(p) + 2 /\ P[2] = i
  BY <1>1, <1>2, ScopedIs DEF Parts
<1>4. R \in Seq(Parts) /\ Len(R) = Len(r) + 2 /\ R[2] = j
  BY <1>1, <1>2, ScopedIs DEF Parts
<1>5. Covers(P, R)
  <2>1. P # <<>>
    BY <1>2, <1>3
  <2> QED
    BY <1>1, <1>3, <1>4, <2>1, MatchesIs
<1>6. CASE R = P
  BY <1>3, <1>4, <1>6
<1>7. CASE P[Len(P)] = "" /\ \A n \in 1 .. Len(P) - 1 : P[n] = R[n]
  <2>1. Len(P) # 2
    BY <1>3, <1>7, JarIdAssumption
  <2>2. 2 \in 1 .. Len(P) - 1
    BY <1>2, <1>3, <2>1
  <2> QED
    BY <1>3, <1>4, <1>7, <2>2
<1>8. CASE \A n \in 1 .. Len(P) : P[n] = R[n]
  <2>1. 2 \in 1 .. Len(P)
    BY <1>2, <1>3
  <2> QED
    BY <1>3, <1>4, <1>8, <2>1
<1> QED
  BY <1>5, <1>6, <1>7, <1>8 DEF Covers

LEMMA JarScopes == JarInv => ScopeFaithful
<1> SUFFICES ASSUME JarInv, NEW i \in 1 .. Len(jarLog), NEW j \in JarIds, NEW request \in RequestPaths,
                    jarLog[i].cookie.name \notin ManagerNames
             PROVE  LET sent == PathMatches(jarLog[i].scoped, <<"dsh", j>> \o request)
                    IN /\ sent => j = jarLog[i].jar
                       /\ Unscoped(jarLog[i]) =>
                            (sent <=> (j = jarLog[i].jar /\ PathMatches(jarLog[i].path, request)))
  BY DEF ScopeFaithful
<1>1. PICK e : e = jarLog[i] /\ e \in LogRecs
  BY ElementOfSeq DEF JarInv
<1>2. e.jar \in JarIds /\ e.path \in Paths /\ ScopedOwn(e) /\ e.cookie.name \notin ManagerNames
  BY <1>1 DEF LogRecs
<1>3. request \in Paths
  BY PathAssumption DEF Paths
<1>4. PICK p \in Seq(STRING) : e.scoped = <<"dsh", e.jar>> \o p
  BY <1>2 DEF ScopedOwn
<1>5. PathMatches(e.scoped, <<"dsh", j>> \o request) => j = e.jar
  BY <1>2, <1>3, <1>4, ScopeIsolates
<1>6. ASSUME Unscoped(e)
      PROVE  PathMatches(e.scoped, <<"dsh", j>> \o request) <=> (j = e.jar /\ PathMatches(e.path, request))
  <2>1. e.scoped = <<"dsh", e.jar>> \o e.path
    BY <1>2, <1>6 DEF ScopedOwn
  <2>2. PathMatches(<<"dsh", e.jar>> \o e.path, <<"dsh", j>> \o request)
          <=> (e.jar = j /\ PathMatches(e.path, request))
    BY <1>2, <1>3, ScopeExact
  <2> QED
    BY <2>1, <2>2
<1> QED
  BY <1>1, <1>5, <1>6

\* At the start the jars and the log are empty.
LEMMA JarStart == Init => JarInv
<1> SUFFICES ASSUME Init PROVE JarInv
  OBVIOUS
<1>1. jarLog = <<>> /\ jars = [j \in JarIds |-> {}]
  BY DEF Init, JarInit
<1>2. jarLog \in Seq(LogRecs) /\ Len(jarLog) = 0
  BY <1>1
<1>3. jars \in [JarIds -> SUBSET CookieRecs] /\ \A j \in JarIds : jars[j] = {}
  BY <1>1
<1>4. 1 .. Len(jarLog) = {}
  BY <1>2
<1> QED
  BY <1>2, <1>3, <1>4 DEF JarInv

\* Only an answer with a Set-Cookie touches the jars.
LEMMA JarStep == ASSUME WebInv, JarInv, [Next]_vars PROVE JarInv'
<1>1. CASE UNCHANGED <<jars, jarLog>>
  BY <1>1 DEF JarInv, Latest
<1>2. ASSUME NEW x \in Handlers, NEW c \in SetCookies \cup {NoCookie}, NEW size, Answer(x, c, size)
      PROVE  JarInv'
  <2>1. CASE c = NoCookie
    BY <1>1, <1>2, <2>1 DEF Answer
  <2>2. CASE c # NoCookie
    <3>1. c \in SetCookies /\ JarApply(h[x].sid, c, h[x].req.path)
      BY <1>2, <2>2 DEF Answer
    <3>2. h[x].pc \in Routed
      BY <1>2 DEF Answer, Routed
    <3>3. h[x].sid \in JarIds
      BY <3>2 DEF WebInv, HandlerInv, TargetInv, Knows
    <3>4. h[x].req.path \in RequestPaths
      <4>1. h[x].req \in Requests
        BY DEF WebInv, HandlerInv, HandlerRecs
      <4> QED
        BY <4>1 DEF Requests
    <3>5. now \in Nat
      BY WebAssumption DEF WebInv, TargetInv
    <3> QED
      BY <3>1, <3>3, <3>4, <3>5, JarApplyKeeps
  <2> QED
    BY <2>1, <2>2
<1>3. ASSUME NEW x \in Handlers, StartProxy(x) PROVE UNCHANGED <<jars, jarLog>>
  BY <1>3 DEF StartProxy
<1> QED
  BY <1>1, <1>2, <1>3, StoresUntouched

LEMMA JarAlways == Spec => []JarInv
<1>1. WebInv /\ JarInv /\ [Next]_vars => JarInv'
  BY JarStep
<1> QED
  BY <1>1, JarStart, WebAlways, PTL DEF Spec

-----------------------------------------------------------------------------
(* The theorems *)

\* TypeOK: targets, handlers and the browser's cookie have the types the code
\* gives them; what a tab shows and what the cookie names are known targets.
THEOREM WebTypes == Spec => []TypeOK
<1>1. WebInv => TypeOK
  <2> SUFFICES ASSUME WebInv PROVE TypeOK
    OBVIOUS
  <2>1. ASSUME NEW x \in Handlers
        PROVE  /\ h[x].pc \in {"idle", "route", "session", "relook", "proxy", "send", "wait", "done"}
               /\ h[x].req \in Requests
               /\ h[x].asked \in Ids /\ h[x].sid \in Ids
               /\ h[x].boot \in BOOLEAN
               /\ h[x].setc \in Ids \cup {Clear}
               /\ h[x].got \in Instances \cup {None}
    BY DEF WebInv, HandlerInv, HandlerRecs, Pcs, Routed
  <2> QED
    BY <2>1 DEF WebInv, TargetInv, TypeOK, TargetRecs
<1> QED
  BY <1>1, WebAlways, PTL

\* BootstrapOnce: however the requests of a page interleave, one bootstrap:true
\* at most is sent for a target, and none that its agent had not offered.
THEOREM OneBootstrap == Spec => []BootstrapOnce
<1>1. WebInv => BootstrapOnce
  <2> SUFFICES ASSUME WebInv, NEW t \in DOMAIN targets
               PROVE  bootstraps[t].sent + (IF targets[t].pending THEN 1 ELSE 0)
                        <= (IF bootstraps[t].offered THEN 1 ELSE 0)
    BY DEF BootstrapOnce
  <2>1. /\ bootstraps[t].sent \in {0, 1}
        /\ bootstraps[t].sent = 1 => bootstraps[t].offered /\ ~targets[t].pending
        /\ targets[t].pending => bootstraps[t].offered
    BY DEF WebInv, BootInv
  <2> QED
    BY <2>1
<1> QED
  BY <1>1, WebAlways, PTL

\* ContentFromOwnInstance: what a request is answered with comes from the
\* instance of its target, through the cache that all targets share as well.
THEOREM OwnContent == Spec => []ContentFromOwnInstance
<1>1. WebInv => ContentFromOwnInstance
  <2> SUFFICES ASSUME WebInv, NEW x \in Handlers, h[x].got # None
               PROVE  /\ h[x].got = InstanceOf(x)
                      /\ (h[x].req.inPath # None \/ h[x].req.referer # None) => h[x].sid = h[x].asked
    BY DEF ContentFromOwnInstance
  <2>1. Knows(h[x], DOMAIN targets) /\ Own(h[x], targets)
    BY DEF WebInv, HandlerInv
  <2>2. h[x].sid = SessionIDForRequest(h[x].req)
    BY <2>1 DEF Knows
  <2> QED
    BY <2>1, <2>2, SessionIDKnown DEF Own, InstanceOf
<1> QED
  BY <1>1, WebAlways, PTL

\* CacheSound: the map, the list and the byte counter of the script cache agree,
\* within the limit, for every limit and every sequence of additions and hits.
THEOREM CacheAgrees == Spec => []CacheSound
<1>1. CacheInv => CacheSound
  <2> SUFFICES ASSUME CacheInv PROVE CacheSound
    OBVIOUS
  <2>1. cache.used = MapThenSumSet(LAMBDA k : cache.entries[k].bytes, DOMAIN cache.entries)
    BY DEF CacheInv, CacheOK, SumBytes
  <2> QED
    BY <2>1 DEF CacheInv, CacheOK, CacheSound
<1> QED
  BY <1>1, WebAlways, PTL

\* HeaderMatchesLog: a request carries what the target's instance has set last, for
\* every set of Set-Cookies and every order in which they arrive, and where that
\* instance has set nothing that is still valid what the browser sends, whatever
\* that is, without the manager's cookies.
THEOREM JarReplaysTheLog == Spec => []HeaderMatchesLog
BY JarAlways, JarSays, PTL

\* ScopeFaithful: for every Path that an instance can write the browser sends the
\* cookie to no other target, and it sends it exactly where the jar replays it
\* unless the Path is relative, empty or below the target's prefix already.
THEOREM ScopingIsFaithful == Spec => []ScopeFaithful
BY JarAlways, JarScopes, PTL
===============================================================================
