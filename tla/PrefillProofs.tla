---------------------------- MODULE PrefillProofs ----------------------------
(***************************************************************************)
(* What parse guarantees of the chunks of any plan, that two plans with one*)
(* cache key store the same rows, and what the calls of WCAState guarantee *)
(* of the selection, for any tokens, deviations, budget and gates.         *)
(*                                                                         *)
(* Then what Prefill guarantees for any requests and numbers of layers,    *)
(* whatever order the workers of the store complete its loads in and       *)
(* wherever it fails: the one load that runs is the live request's         *)
(* prefetch, of the layer that each stage expects; the selection is the    *)
(* best there is; and the pages, rows, weights and output are those that   *)
(* they stand for.                                                         *)
(***************************************************************************)
EXTENDS Prefill, TLAPS, WellFoundedInduction, FiniteSetTheorems, SequenceTheorems

\* A set of natural numbers that is not empty has a least one.
LEMMA LeastNatural ==
    ASSUME NEW T, T \subseteq Nat, T # {}
    PROVE  \E x \in T : \A y \in T : x =< y
<1> DEFINE Below == {0 .. x - 1 : x \in T}
<1>1. IsWellFoundedOn(StrictSubsetOrdering(Nat), FiniteSubsetsOf(Nat))
  BY FS_StrictSubsetOrderingWellFounded
<1>2. Below \subseteq FiniteSubsetsOf(Nat)
  <2> SUFFICES ASSUME NEW x \in T PROVE 0 .. x - 1 \in FiniteSubsetsOf(Nat)
    OBVIOUS
  <2>1. IsFiniteSet(0 .. x - 1)
    BY FS_Interval
  <2> QED BY <2>1 DEF FiniteSubsetsOf
<1>3. PICK B \in Below : \A C \in Below : ~ (<<C, B>> \in StrictSubsetOrdering(Nat))
  <2>1. Below # {}
    OBVIOUS
  <2> QED BY <1>1, <1>2, <2>1, WFMin
<1>4. PICK x \in T : B = 0 .. x - 1
  BY <1>3
<1>5. ASSUME NEW y \in T, y < x PROVE FALSE
  <2>1. y \in Nat /\ x \in Nat
    OBVIOUS
  <2>2. 0 .. y - 1 \subseteq 0 .. x - 1 /\ y \in 0 .. x - 1 /\ y \notin 0 .. y - 1
    BY <2>1, <1>5
  <2>3. (0 .. y - 1) \in SUBSET Nat /\ (0 .. x - 1) \in SUBSET Nat
    BY <2>1
  <2>4. <<0 .. y - 1, 0 .. x - 1>> \in StrictSubsetOrdering(Nat)
    BY <2>2, <2>3 DEF StrictSubsetOrdering
  <2> QED BY <1>3, <1>4, <2>4
<1> QED
  BY <1>4, <1>5

-----------------------------------------------------------------------------
(* The chunks of an accepted plan                                           *)

\* What parse has established of the chunks of a plan.
LEMMA ChunkFacts ==
    ASSUME NEW p, IsPlan(p), Accepts(p)
    PROVE  /\ Len(p.tokens) \in Nat /\ Len(p.chunks) \in Nat \ {0}
           /\ DOMAIN p.chunks = 1 .. Len(p.chunks)
           /\ \A i \in 1 .. Len(p.chunks) :
                 /\ p.chunks[i].start \in Int /\ p.chunks[i].end \in Int
                 /\ p.chunks[i].start < p.chunks[i].end
                 /\ p.chunks[i].start = Cursor(p.chunks, i)
           /\ p.chunks[Len(p.chunks)].end = Len(p.tokens)
<1> DEFINE R == [id : STRING, role : STRING, start : Int, end : Int]
           n == Len(p.chunks)
<1>1. Len(p.tokens) \in Nat
  BY LenProperties DEF IsPlan
<1>2. n \in Nat /\ DOMAIN p.chunks = 1 .. n /\ p.chunks \in [1 .. n -> R]
  BY LenProperties DEF IsPlan
<1>3. n \in 1 .. MaxChunks
  BY DEF Accepts
<1> HIDE DEF n
<1>4. n \in Nat \ {0}
  BY <1>2, <1>3
<1>5. ASSUME NEW i \in 1 .. n
      PROVE  /\ p.chunks[i].start \in Int /\ p.chunks[i].end \in Int
             /\ p.chunks[i].start < p.chunks[i].end
             /\ p.chunks[i].start = Cursor(p.chunks, i)
  <2>1. p.chunks[i] \in R
    BY <1>2
  <2>2. Adjoins(p.chunks, i, Len(p.tokens))
    BY <1>2 DEF Accepts
  <2> QED BY <2>1, <2>2 DEF Adjoins
<1>6. p.chunks[n].end = Len(p.tokens)
  BY DEF Accepts, n
<1> QED
  BY <1>1, <1>2, <1>4, <1>5, <1>6 DEF n

\* A chunk that comes earlier ends before a later one starts.
LEMMA EarlierEnds ==
    ASSUME NEW p, IsPlan(p), Accepts(p),
           NEW i \in 1 .. Len(p.chunks), NEW j \in 1 .. Len(p.chunks), i < j
    PROVE  p.chunks[i].end =< p.chunks[j].start
<1> DEFINE n == Len(p.chunks)
           c == p.chunks
           Wrong == {k \in 1 .. n : i < k /\ ~(c[i].end =< c[k].start)}
<1>1. n \in Nat /\ \A k \in 1 .. n : /\ c[k].start \in Int /\ c[k].end \in Int
                                     /\ c[k].start < c[k].end
                                     /\ c[k].start = Cursor(c, k)
  BY ChunkFacts
<1> HIDE DEF n, c
<1>2. SUFFICES ASSUME Wrong # {} PROVE FALSE
  BY <1>1 DEF n, c
<1>3. PICK k \in Wrong : \A l \in Wrong : k =< l
  <2>1. Wrong \subseteq Nat
    BY <1>1
  <2> QED BY <1>2, <2>1, LeastNatural
<1>4. k \in 1 .. n /\ i \in 1 .. n /\ i < k /\ ~(c[i].end =< c[k].start) /\ k \in Nat /\ i \in Nat
  BY <1>1, <1>3 DEF n
<1>5. k - 1 \in 1 .. n /\ k # 1
  BY <1>1, <1>4
<1>6. c[k].start = c[k - 1].end
  BY <1>1, <1>4, <1>5 DEF Cursor
<1>7. CASE k - 1 = i
  BY <1>1, <1>4, <1>6, <1>7
<1>8. CASE k - 1 # i
  <2>1. k - 1 \notin Wrong
    BY <1>3, <1>4
  <2>2. c[i].end =< c[k - 1].start
    BY <1>4, <1>5, <1>8, <2>1
  <2> QED BY <1>1, <1>4, <1>5, <1>6, <2>2
<1> QED
  BY <1>7, <1>8

\* The chunks of an accepted plan divide its prompt: every token is in one chunk
\* and in no other, so that it is either reusable or recomputed (parse).
THEOREM ChunksPartition ==
    ASSUME NEW p, IsPlan(p), Accepts(p), NEW t \in Prompt(p)
    PROVE  \E i \in DOMAIN p.chunks :
              /\ t \in Span(p.chunks[i])
              /\ \A j \in DOMAIN p.chunks : t \in Span(p.chunks[j]) => j = i
<1> DEFINE n == Len(p.chunks)
           c == p.chunks
           After == {k \in 1 .. n : t < c[k].end}
<1>1. /\ n \in Nat \ {0} /\ DOMAIN c = 1 .. n /\ Len(p.tokens) \in Nat
      /\ \A k \in 1 .. n : /\ c[k].start \in Int /\ c[k].end \in Int
                           /\ c[k].start < c[k].end
                           /\ c[k].start = Cursor(c, k)
      /\ c[n].end = Len(p.tokens)
  BY ChunkFacts
<1>2. \A i, j \in 1 .. n : i < j => c[i].end =< c[j].start
  BY EarlierEnds
<1> HIDE DEF n, c
<1>3. t \in Int /\ 0 =< t /\ t < Len(p.tokens)
  BY <1>1 DEF Prompt
<1>4. n \in After
  BY <1>1, <1>3
<1>5. PICK i \in After : \A k \in After : i =< k
  <2>1. After \subseteq Nat
    BY <1>1
  <2> QED BY <1>4, <2>1, LeastNatural
<1>6. i \in 1 .. n /\ t < c[i].end /\ i \in Nat
  BY <1>1, <1>5
<1>7. c[i].start =< t
  <2>1. CASE i = 1
    BY <1>1, <1>3, <1>6, <2>1 DEF Cursor
  <2>2. CASE i # 1
    <3>1. i - 1 \in 1 .. n /\ i - 1 \notin After
      BY <1>1, <1>5, <1>6, <2>2
    <3>2. c[i].start = c[i - 1].end
      BY <1>1, <1>6, <2>2 DEF Cursor
    <3> QED BY <1>1, <1>3, <3>1, <3>2
  <2> QED BY <2>1, <2>2
<1>8. t \in Span(c[i])
  BY <1>1, <1>3, <1>6, <1>7 DEF Span
<1>9. ASSUME NEW j \in 1 .. n, t \in Span(c[j]) PROVE j = i
  <2>1. c[j].start =< t /\ t < c[j].end
    BY <1>1, <1>3, <1>9 DEF Span
  <2>2. ~(j < i)
    BY <1>1, <1>2, <1>3, <1>6, <1>7, <2>1
  <2>3. ~(i < j)
    BY <1>1, <1>2, <1>3, <1>6, <1>7, <2>1
  <2> QED BY <1>1, <1>6, <2>2, <2>3
<1> QED
  BY <1>1, <1>6, <1>8, <1>9 DEF c

\* A token that is not reusable is mandatory (fixed_indices, mandatory_indices).
LEMMA FixedOrMandatory ==
    ASSUME NEW p, IsPlan(p), Accepts(p)
    PROVE  /\ IsFiniteSet(Fixed(p))
           /\ Prompt(p) \ Fixed(p) \subseteq Mandatory(p)
<1>1. IsFiniteSet(Fixed(p))
  <2>1. Fixed(p) \in SUBSET Prompt(p)
    BY DEF Fixed, InRole
  <2>2. IsFiniteSet(Prompt(p))
    <3>1. Len(p.tokens) - 1 \in Int
      BY ChunkFacts
    <3> QED BY <3>1, FS_Interval DEF Prompt
  <2> QED BY <2>1, <2>2, FS_Subset
<1>2. ASSUME NEW t \in Prompt(p), t \notin Fixed(p) PROVE t \in Mandatory(p)
  <2>1. PICK i \in DOMAIN p.chunks : t \in Span(p.chunks[i])
    BY ChunksPartition
  <2>2. p.chunks[i].role \in {"reuse", "recompute"}
    BY DEF Accepts
  <2>3. p.chunks[i].role # "reuse"
    BY <1>2, <2>1 DEF Fixed, InRole
  <2> QED BY <2>1, <2>2, <2>3 DEF Mandatory, InRole
<1> QED
  BY <1>1, <1>2

-----------------------------------------------------------------------------
(* Numbers in their order                                                   *)

\* The members of a set before s.
Earlier(S, s) == {t \in S : t < s}

\* A member's number of predecessors is below the size of the set, and its own.
LEMMA OrdinalOwn ==
    ASSUME NEW S \in SUBSET Int, IsFiniteSet(S), NEW s \in S
    PROVE  /\ Cardinality(Earlier(S, s)) \in 0 .. Cardinality(S) - 1
           /\ \A u \in S : Cardinality(Earlier(S, u)) = Cardinality(Earlier(S, s)) => u = s
<1>1. ASSUME NEW T \in SUBSET S, NEW U \in SUBSET T, U # T
      PROVE  /\ Cardinality(U) \in Nat /\ Cardinality(T) \in Nat /\ Cardinality(S) \in Nat
             /\ Cardinality(U) < Cardinality(T) /\ Cardinality(T) =< Cardinality(S)
  <2>1. IsFiniteSet(T) /\ Cardinality(T) =< Cardinality(S)
    BY FS_Subset
  <2>2. /\ IsFiniteSet(U) /\ Cardinality(U) =< Cardinality(T)
        /\ Cardinality(T) = Cardinality(U) => T = U
    BY <2>1, FS_Subset
  <2>3. Cardinality(U) \in Nat /\ Cardinality(T) \in Nat /\ Cardinality(S) \in Nat
    BY <2>1, <2>2, FS_CardinalityType
  <2> QED BY <1>1, <2>1, <2>2, <2>3
<1>2. Cardinality(Earlier(S, s)) \in 0 .. Cardinality(S) - 1
  <2>1. Earlier(S, s) \in SUBSET S /\ s \notin Earlier(S, s)
    BY DEF Earlier
  <2>2. Earlier(S, s) # S
    BY <2>1
  <2> QED BY <1>1, <2>1, <2>2
<1>3. ASSUME NEW u \in S, NEW v \in S, u < v
      PROVE  Cardinality(Earlier(S, u)) < Cardinality(Earlier(S, v))
  <2>1. Earlier(S, v) \in SUBSET S /\ Earlier(S, u) \in SUBSET Earlier(S, v)
    <3>1. \A t \in S : t < u => t < v
      <4> SUFFICES ASSUME NEW t \in S, t < u PROVE t < v
        OBVIOUS
      <4>1. t \in Int /\ u \in Int /\ v \in Int
        OBVIOUS
      <4> QED BY <1>3, <4>1
    <3> QED BY <3>1 DEF Earlier
  <2>2. u \in Earlier(S, v) /\ u \notin Earlier(S, u)
    BY <1>3 DEF Earlier
  <2> QED BY <1>1, <2>1, <2>2
<1>4. ASSUME NEW u \in S, Cardinality(Earlier(S, u)) = Cardinality(Earlier(S, s)) PROVE u = s
  <2>1. Cardinality(Earlier(S, u)) \in Nat
    <3>1. Earlier(S, u) \in SUBSET S
      BY DEF Earlier
    <3> QED BY <3>1, FS_Subset, FS_CardinalityType
  <2>2. ~(u < s) /\ ~(s < u)
    BY <1>3, <1>4, <2>1
  <2> QED BY <2>2
<1> QED BY <1>2, <1>4

\* What Ascending returns: the members, each at the place of its rank.
LEMMA AscendingRanks ==
    ASSUME NEW S \in SUBSET Int, IsFiniteSet(S)
    PROVE  /\ DOMAIN Ascending(S) = 1 .. Cardinality(S) /\ Cardinality(S) \in Nat
           /\ \A i \in 1 .. Cardinality(S) :
                 /\ Ascending(S)[i] \in S
                 /\ Cardinality(Earlier(S, Ascending(S)[i])) = i - 1
           /\ \A s \in S : \E i \in 1 .. Cardinality(S) : Ascending(S)[i] = s
<1> DEFINE n == Cardinality(S)
           rank == [s \in S |-> Cardinality(Earlier(S, s)) + 1]
<1>1. n \in Nat
  BY FS_CardinalityType
<1>2. \A s \in S : Cardinality(Earlier(S, s)) \in 0 .. n - 1
  BY OrdinalOwn
<1>3. rank \in [S -> 1 .. n]
  BY <1>1, <1>2
<1>4. ASSUME NEW s \in S, NEW u \in S, rank[s] = rank[u] PROVE s = u
  <2>1. Cardinality(Earlier(S, s)) = Cardinality(Earlier(S, u))
    BY <1>1, <1>2, <1>4
  <2> QED BY <2>1, OrdinalOwn
<1>5. rank \in Surjection(S, 1 .. n)
  <2>1. rank \in Injection(S, 1 .. n)
    BY <1>3, <1>4 DEF Injection, IsInjective
  <2>2. IsFiniteSet(1 .. n) /\ Cardinality(1 .. n) = n
    BY <1>1, FS_Interval
  <2> QED BY <2>1, <2>2, FS_Injection
<1>6. \A i \in 1 .. n : \E s \in S : Cardinality(Earlier(S, s)) = i - 1
  <2> SUFFICES ASSUME NEW i \in 1 .. n PROVE \E s \in S : Cardinality(Earlier(S, s)) = i - 1
    OBVIOUS
  <2>1. PICK s \in S : rank[s] = i
    BY <1>5 DEF Surjection
  <2>2. Cardinality(Earlier(S, s)) + 1 = i
    BY <2>1
  <2> QED BY <1>1, <1>2, <2>2
<1>7. \A i \in 1 .. n : /\ Ascending(S)[i] \in S
                        /\ Cardinality(Earlier(S, Ascending(S)[i])) = i - 1
  BY <1>6 DEF Ascending, Earlier
<1>8. ASSUME NEW s \in S PROVE \E i \in 1 .. n : Ascending(S)[i] = s
  <2>1. rank[s] \in 1 .. n /\ Cardinality(Earlier(S, s)) = rank[s] - 1
    BY <1>1, <1>2
  <2>2. PICK i \in 1 .. n : Cardinality(Earlier(S, s)) = i - 1
    BY <2>1
  <2>3. /\ Ascending(S)[i] \in S
        /\ Cardinality(Earlier(S, Ascending(S)[i])) = Cardinality(Earlier(S, s))
    BY <1>7, <2>2
  <2>4. \A u \in S : Cardinality(Earlier(S, u)) = Cardinality(Earlier(S, s)) => u = s
    BY OrdinalOwn
  <2>5. Ascending(S)[i] = s
    BY <2>3, <2>4
  <2> QED BY <2>5
<1> QED BY <1>1, <1>7, <1>8 DEF Ascending

\* Two sets whose members correspond in order are listed in correspondence.
LEMMA AscendingMaps ==
    ASSUME NEW S \in SUBSET Int, IsFiniteSet(S), NEW T \in SUBSET Int,
           NEW f \in [S -> T], \A t \in T : \E s \in S : f[s] = t,
           \A s, u \in S : s < u => f[s] < f[u]
    PROVE  /\ IsFiniteSet(T) /\ Cardinality(T) = Cardinality(S)
           /\ \A i \in 1 .. Cardinality(S) : Ascending(T)[i] = f[Ascending(S)[i]]
<1>1. \A s, u \in S : f[s] < f[u] <=> s < u
  <2> SUFFICES ASSUME NEW s \in S, NEW u \in S PROVE f[s] < f[u] <=> s < u
    OBVIOUS
  <2>1. s \in Int /\ u \in Int /\ f[s] \in Int /\ f[u] \in Int
    OBVIOUS
  <2>2. s < u \/ s = u \/ u < s
    BY <2>1
  <2> QED BY <2>1, <2>2
<1>2. ASSUME NEW A \in SUBSET S, NEW B \in SUBSET T, \A s \in S : s \in A <=> f[s] \in B
      PROVE  IsFiniteSet(B) /\ Cardinality(B) = Cardinality(A)
  <2> DEFINE g == [s \in A |-> f[s]]
  <2>1. g \in [A -> B] /\ \A t \in B : \E s \in A : g[s] = t
    BY <1>2
  <2>2. \A s, u \in A : g[s] = g[u] => s = u
    <3> SUFFICES ASSUME NEW s \in A, NEW u \in A, g[s] = g[u] PROVE s = u
      OBVIOUS
    <3>1. s \in S /\ u \in S /\ s \in Int /\ u \in Int /\ f[s] = f[u] /\ f[s] \in Int
      OBVIOUS
    <3>2. ~(f[s] < f[u]) /\ ~(f[u] < f[s])
      BY <3>1
    <3> QED BY <1>1, <3>1, <3>2
  <2>3. g \in Bijection(A, B)
    BY <2>1, <2>2 DEF Bijection, Injection, Surjection, IsInjective
  <2>4. ExistsBijection(A, B)
    BY <2>3 DEF ExistsBijection
  <2>5. IsFiniteSet(A)
    BY FS_Subset
  <2> QED BY <2>4, <2>5, FS_Bijection
<1>3. IsFiniteSet(T) /\ Cardinality(T) = Cardinality(S)
  BY <1>2
<1>4. ASSUME NEW i \in 1 .. Cardinality(S) PROVE Ascending(T)[i] = f[Ascending(S)[i]]
  <2> DEFINE s == Ascending(S)[i]
             t == Ascending(T)[i]
  <2>1. s \in S /\ Cardinality(Earlier(S, s)) = i - 1
    BY AscendingRanks
  <2>2. t \in T /\ Cardinality(Earlier(T, t)) = i - 1
    BY <1>3, <1>4, AscendingRanks
  <2> HIDE DEF s, t
  <2>3. Cardinality(Earlier(T, f[s])) = Cardinality(Earlier(S, s))
    <3>1. Earlier(S, s) \in SUBSET S /\ Earlier(T, f[s]) \in SUBSET T
      BY DEF Earlier
    <3>2. \A u \in S : u \in Earlier(S, s) <=> f[u] \in Earlier(T, f[s])
      BY <1>1, <2>1 DEF Earlier
    <3> QED BY <1>2, <3>1, <3>2
  <2>4. f[s] \in T /\ Cardinality(Earlier(T, t)) = Cardinality(Earlier(T, f[s]))
    BY <2>1, <2>2, <2>3
  <2>5. \A u \in T : Cardinality(Earlier(T, u)) = Cardinality(Earlier(T, f[s])) => u = f[s]
    BY <1>3, <2>4, OrdinalOwn
  <2>6. t = f[s]
    BY <2>2, <2>4, <2>5
  <2> QED BY <2>6 DEF s, t
<1> QED BY <1>3, <1>4
-----------------------------------------------------------------------------
(* Plans with one cache key                                                 *)

\* Where a chunk lies, and what it contains.
LEMMA ChunkContent ==
    ASSUME NEW p, IsPlan(p), Accepts(p), NEW i \in DOMAIN p.chunks
    PROVE  /\ p.chunks[i].start \in Nat /\ p.chunks[i].end \in Nat
           /\ p.chunks[i].start < p.chunks[i].end
           /\ Span(p.chunks[i]) \subseteq Prompt(p)
           /\ Len(Content(p, p.chunks[i])) = p.chunks[i].end - p.chunks[i].start
           /\ \A k \in 1 .. p.chunks[i].end - p.chunks[i].start :
                 Content(p, p.chunks[i])[k] = p.tokens[p.chunks[i].start + k]
<1> DEFINE n == Len(p.chunks)
           c == p.chunks
<1>1. /\ n \in Nat \ {0} /\ DOMAIN c = 1 .. n /\ Len(p.tokens) \in Nat
      /\ \A k \in 1 .. n : /\ c[k].start \in Int /\ c[k].end \in Int
                           /\ c[k].start < c[k].end
                           /\ c[k].start = Cursor(c, k)
      /\ c[n].end = Len(p.tokens)
  BY ChunkFacts
<1>2. \A j, k \in 1 .. n : j < k => c[j].end =< c[k].start
  BY EarlierEnds
<1>3. i \in 1 .. n /\ i \in DOMAIN p.chunks
  BY <1>1
<1> HIDE DEF n
<1>4. 0 =< c[i].start
  <2>1. 1 \in 1 .. n /\ c[1].start = 0
    BY <1>1 DEF Cursor
  <2> QED BY <1>1, <1>2, <1>3, <2>1
<1>5. c[i].end =< Len(p.tokens)
  BY <1>1, <1>2, <1>3
<1>6. Span(c[i]) \subseteq Prompt(p)
  <2>1. c[i].start \in Int /\ c[i].end \in Int
    BY <1>1, <1>3
  <2> HIDE DEF c
  <2> QED BY <1>1, <1>4, <1>5, <2>1 DEF Span, Prompt
<1>7. /\ Len(SubSeq(p.tokens, c[i].start + 1, c[i].end)) = c[i].end - c[i].start
      /\ \A k \in 1 .. c[i].end - c[i].start :
            SubSeq(p.tokens, c[i].start + 1, c[i].end)[k] = p.tokens[c[i].start + k]
  <2> DEFINE a == c[i].start
             b == c[i].end
  <2>1. a \in Nat /\ b \in Nat /\ a < b /\ b =< Len(p.tokens)
    BY <1>1, <1>3, <1>4, <1>5
  <2>2. p.tokens \in Seq(Int)
    BY DEF IsPlan
  <2> HIDE DEF a, b
  <2>3. a + 1 \in 1 .. Len(p.tokens) + 1 /\ b \in a .. Len(p.tokens)
    BY <1>1, <2>1
  <2>4. SubSeq(p.tokens, a + 1, b) = [k \in 1 .. b - (a + 1) + 1 |-> p.tokens[k + (a + 1) - 1]]
    BY <2>1
  <2>5. b - (a + 1) + 1 = b - a /\ b - a \in Nat
    BY <2>1
  <2>6. Len(SubSeq(p.tokens, a + 1, b)) = b - a
    BY <2>4, <2>5, <2>1
  <2>7. \A k \in 1 .. b - a : SubSeq(p.tokens, a + 1, b)[k] = p.tokens[a + k]
    <3> SUFFICES ASSUME NEW k \in 1 .. b - a
                 PROVE  SubSeq(p.tokens, a + 1, b)[k] = p.tokens[a + k]
      OBVIOUS
    <3>1. k + (a + 1) - 1 = a + k
      BY <2>1
    <3> QED BY <2>4, <2>5, <3>1
  <2> QED BY <2>6, <2>7 DEF a, b
<1> QED BY <1>1, <1>3, <1>4, <1>6, <1>7 DEF Content

\* The chunk of a token is the one that it lies in.
LEMMA TokenChunk ==
    ASSUME NEW p, IsPlan(p), Accepts(p), NEW t \in Prompt(p)
    PROVE  /\ ChunkOf(p, t) \in DOMAIN p.chunks /\ t \in Span(p.chunks[ChunkOf(p, t)])
           /\ \A j \in DOMAIN p.chunks : t \in Span(p.chunks[j]) => j = ChunkOf(p, t)
           /\ t \in Fixed(p) <=> p.chunks[ChunkOf(p, t)].role = "reuse"
<1>1. PICK i \in DOMAIN p.chunks :
              /\ t \in Span(p.chunks[i])
              /\ \A j \in DOMAIN p.chunks : t \in Span(p.chunks[j]) => j = i
  BY ChunksPartition
<1>2. ChunkOf(p, t) = i
  BY <1>1 DEF ChunkOf
<1> QED BY <1>1, <1>2 DEF Fixed, InRole

\* What two plans with one key have in common.
Alike(p, q) ==
    /\ IsPlan(p) /\ Accepts(p) /\ IsPlan(q) /\ Accepts(q)
    /\ p.task = q.task /\ Template(p) = Template(q) /\ FixedLayout(p) = FixedLayout(q)

LEMMA AlikeChunks ==
    ASSUME NEW p, NEW q, Alike(p, q)
    PROVE  /\ DOMAIN p.chunks = DOMAIN q.chunks
           /\ \A i \in DOMAIN p.chunks : /\ p.chunks[i].id = q.chunks[i].id
                                         /\ p.chunks[i].role = q.chunks[i].role
                                         /\ p.chunks[i].role = "reuse" =>
                                               Content(p, p.chunks[i]) = Content(q, q.chunks[i])
<1>1. DOMAIN p.chunks = DOMAIN q.chunks
  BY DEF Alike, Template
<1>2. ASSUME NEW i \in DOMAIN p.chunks
      PROVE  p.chunks[i].id = q.chunks[i].id /\ p.chunks[i].role = q.chunks[i].role
  <2>1. Template(p)[i] = <<p.chunks[i].id, p.chunks[i].role>>
    BY DEF Template
  <2>2. Template(q)[i] = <<q.chunks[i].id, q.chunks[i].role>>
    BY <1>1 DEF Template
  <2> QED BY <2>1, <2>2 DEF Alike
<1> DEFINE R == {i \in DOMAIN p.chunks : p.chunks[i].role = "reuse"}
<1>3. R = {i \in DOMAIN q.chunks : q.chunks[i].role = "reuse"}
  BY <1>1, <1>2
<1>4. R \in SUBSET Int /\ IsFiniteSet(R)
  <2>1. DOMAIN p.chunks = 1 .. Len(p.chunks) /\ Len(p.chunks) \in Nat
    BY ChunkFacts DEF Alike
  <2>2. IsFiniteSet(1 .. Len(p.chunks)) /\ R \in SUBSET (1 .. Len(p.chunks))
    BY <2>1, FS_Interval
  <2> QED BY <2>1, <2>2, FS_Subset
<1>5. ASSUME NEW i \in R PROVE Content(p, p.chunks[i]) = Content(q, q.chunks[i])
  <2>1. PICK k \in 1 .. Cardinality(R) : Ascending(R)[k] = i
    BY <1>4, AscendingRanks
  <2>2. DOMAIN Ascending(R) = 1 .. Cardinality(R)
    BY <1>4, AscendingRanks
  <2>3. FixedLayout(p)[k] = <<p.chunks[i].id, Content(p, p.chunks[i])>>
    BY <2>1, <2>2 DEF FixedLayout, Layout
  <2>4. FixedLayout(q)[k] = <<q.chunks[i].id, Content(q, q.chunks[i])>>
    BY <1>3, <2>1, <2>2 DEF FixedLayout, Layout
  <2> QED BY <2>3, <2>4 DEF Alike
<1> QED BY <1>1, <1>2, <1>5

\* They also agree before any chunk.
LEMMA AlikeBefore ==
    ASSUME NEW p, NEW q, Alike(p, q), NEW i \in DOMAIN p.chunks
    PROVE  Layout(p, SubSeq(p.chunks, 1, i - 1)) = Layout(q, SubSeq(q.chunks, 1, i - 1))
<1> DEFINE a == SubSeq(p.chunks, 1, i - 1)
           b == SubSeq(q.chunks, 1, i - 1)
           R == {j \in DOMAIN a : a[j].role = "reuse"}
<1>1. /\ DOMAIN p.chunks = 1 .. Len(p.chunks) /\ Len(p.chunks) \in Nat
      /\ DOMAIN q.chunks = 1 .. Len(q.chunks) /\ Len(q.chunks) \in Nat
  BY ChunkFacts DEF Alike
<1>2. i \in Nat \ {0} /\ i =< Len(p.chunks) /\ DOMAIN p.chunks = DOMAIN q.chunks
  BY <1>1, AlikeChunks
<1>3. a = [j \in 1 .. i - 1 |-> p.chunks[j]] /\ b = [j \in 1 .. i - 1 |-> q.chunks[j]]
  <2>1. (i - 1) - 1 + 1 = i - 1 /\ \A j \in 1 .. i - 1 : j + 1 - 1 = j
    BY <1>2
  <2>2. /\ a = [j \in 1 .. (i - 1) - 1 + 1 |-> p.chunks[j + 1 - 1]]
        /\ b = [j \in 1 .. (i - 1) - 1 + 1 |-> q.chunks[j + 1 - 1]]
    BY <1>2
  <2> QED BY <2>1, <2>2
<1>4. \A j \in 1 .. i - 1 : j \in DOMAIN p.chunks
  BY <1>1, <1>2
<1> HIDE DEF a, b
<1>5. DOMAIN a = 1 .. i - 1 /\ DOMAIN b = 1 .. i - 1
  BY <1>3
<1>6. \A j \in 1 .. i - 1 :
        /\ a[j].role = b[j].role /\ a[j].id = b[j].id
        /\ a[j].role = "reuse" => Content(p, a[j]) = Content(q, b[j])
  BY <1>3, <1>4, AlikeChunks
<1>7. R = {j \in DOMAIN b : b[j].role = "reuse"}
  BY <1>5, <1>6
<1>8. \A k \in DOMAIN Ascending(R) : Ascending(R)[k] \in R
  <2>1. IsFiniteSet(1 .. i - 1) /\ R \in SUBSET (1 .. i - 1)
    BY <1>2, <1>5, FS_Interval
  <2>2. R \in SUBSET Int /\ IsFiniteSet(R)
    <3>1. \A x \in 1 .. i - 1 : x \in Int
      OBVIOUS
    <3> HIDE DEF R
    <3> QED BY <2>1, <3>1, FS_Subset
  <2> HIDE DEF R
  <2>3. /\ DOMAIN Ascending(R) = 1 .. Cardinality(R)
        /\ \A k \in 1 .. Cardinality(R) : Ascending(R)[k] \in R
    BY <2>2, AscendingRanks
  <2> QED BY <2>3
<1>9. Layout(p, a) = [k \in DOMAIN Ascending(R) |->
                        <<a[Ascending(R)[k]].id, Content(p, a[Ascending(R)[k]])>>]
  BY DEF Layout
<1>10. Layout(q, b) = [k \in DOMAIN Ascending(R) |->
                        <<b[Ascending(R)[k]].id, Content(q, b[Ascending(R)[k]])>>]
  BY <1>7 DEF Layout
<1>11. ASSUME NEW k \in DOMAIN Ascending(R)
       PROVE  /\ a[Ascending(R)[k]].id = b[Ascending(R)[k]].id
              /\ Content(p, a[Ascending(R)[k]]) = Content(q, b[Ascending(R)[k]])
  <2>1. PICK j \in R : Ascending(R)[k] = j
    BY <1>8
  <2>2. j \in 1 .. i - 1 /\ a[j].role = "reuse"
    BY <1>5, <2>1
  <2> QED BY <1>6, <2>1, <2>2
<1> HIDE DEF R
<1> QED BY <1>9, <1>10, <1>11 DEF a, b

\* The token of another plan that lies where t lies, in the same chunk.
Twin(p, q, t) == q.chunks[ChunkOf(p, t)].start + (t - p.chunks[ChunkOf(p, t)].start)

\* For plans with one key the twin of a fixed token stands for the same.
LEMMA TwinToken ==
    ASSUME NEW p, NEW q, Alike(p, q), NEW t \in Fixed(p)
    PROVE  /\ Twin(p, q, t) \in Fixed(q) /\ ChunkOf(q, Twin(p, q, t)) = ChunkOf(p, t)
           /\ TokenAt(q, Twin(p, q, t)) = TokenAt(p, t)
<1> DEFINE i == ChunkOf(p, t)
           u == Twin(p, q, t)
           a == p.chunks[i].start
           b == q.chunks[i].start
           n == p.chunks[i].end - a
<1>1. IsPlan(p) /\ Accepts(p) /\ IsPlan(q) /\ Accepts(q) /\ t \in Prompt(p)
  BY DEF Alike, Fixed, InRole
<1>2. i \in DOMAIN p.chunks /\ t \in Span(p.chunks[i]) /\ p.chunks[i].role = "reuse"
  BY <1>1, TokenChunk
<1>3. /\ i \in DOMAIN q.chunks /\ q.chunks[i].role = "reuse"
      /\ Content(p, p.chunks[i]) = Content(q, q.chunks[i])
  BY <1>2, AlikeChunks
<1>4. /\ a \in Nat /\ p.chunks[i].end \in Nat
      /\ Len(Content(p, p.chunks[i])) = n
      /\ \A k \in 1 .. n : Content(p, p.chunks[i])[k] = p.tokens[a + k]
  BY <1>1, <1>2, ChunkContent
<1>5. /\ b \in Nat /\ q.chunks[i].end \in Nat
      /\ Span(q.chunks[i]) \subseteq Prompt(q)
      /\ Len(Content(q, q.chunks[i])) = q.chunks[i].end - b
      /\ \A k \in 1 .. q.chunks[i].end - b : Content(q, q.chunks[i])[k] = q.tokens[b + k]
  BY <1>1, <1>3, ChunkContent
<1>6. q.chunks[i].end = b + n
  <2> DEFINE e == q.chunks[i].end
  <2>1. n = e - b /\ n \in Int /\ e \in Int /\ b \in Int
    BY <1>3, <1>4, <1>5
  <2> HIDE DEF b, e, n, i
  <2>2. e = b + n
    BY <2>1
  <2> QED BY <2>2 DEF e
<1>7. t \in Int /\ a =< t /\ t =< a + n - 1
  <2> DEFINE e == p.chunks[i].end
  <2>1. t \in a .. e - 1 /\ a \in Int /\ e \in Int /\ n = e - a
    BY <1>2, <1>4 DEF Span
  <2> HIDE DEF a, e, n, i
  <2> QED BY <2>1
<1>8. u = b + (t - a) /\ u \in Span(q.chunks[i])
  <2> DEFINE e == q.chunks[i].end
  <2>1. /\ u = b + (t - a) /\ Span(q.chunks[i]) = b .. e - 1
        /\ a \in Int /\ b \in Int /\ e \in Int /\ e = b + n /\ n \in Int
    BY <1>4, <1>5, <1>6 DEF Twin, Span
  <2>2. t \in Int /\ a =< t /\ t =< a + n - 1
    BY <1>7
  <2> HIDE DEF a, b, e, n, i, u
  <2> QED BY <2>1, <2>2
<1> DEFINE d == q.chunks[i]
<1>9. u \in Prompt(q)
  <2>1. u \in Span(d) /\ Span(d) \subseteq Prompt(q)
    BY <1>5, <1>8
  <2> HIDE DEF u, d
  <2> QED BY <2>1
<1>10. ChunkOf(q, u) = i
  <2>1. i \in DOMAIN q.chunks /\ u \in Span(q.chunks[i]) /\ u \in Prompt(q)
    BY <1>3, <1>8, <1>9
  <2> HIDE DEF i, u
  <2> QED BY <1>1, <2>1, TokenChunk
<1>11. u \in Fixed(q)
  <2>1. u \in Prompt(q) /\ ChunkOf(q, u) = i /\ q.chunks[i].role = "reuse"
    BY <1>3, <1>9, <1>10
  <2> HIDE DEF i, u
  <2> QED BY <1>1, <2>1, TokenChunk
<1>12. q.tokens[u + 1] = p.tokens[t + 1]
  <2> DEFINE k == t - a + 1
  <2>1. k \in 1 .. n /\ a + k = t + 1 /\ b + k = u + 1 /\ q.chunks[i].end - b = n
    <3>1. a \in Int /\ b \in Int /\ n \in Int /\ t \in Int
      BY <1>4, <1>5, <1>7
    <3>2. u = b + (t - a) /\ a =< t /\ t =< a + n - 1 /\ q.chunks[i].end = b + n
      BY <1>6, <1>7, <1>8
    <3> HIDE DEF a, b, n, u, i
    <3> QED BY <3>1, <3>2
  <2> HIDE DEF k, a, b, n, u, i
  <2>2. Content(p, p.chunks[i])[k] = p.tokens[t + 1]
    BY <1>4, <2>1
  <2>3. Content(q, q.chunks[i])[k] = q.tokens[u + 1]
    BY <1>5, <2>1
  <2> QED BY <1>3, <2>2, <2>3
<1>13. u - b = t - a
  BY <1>4, <1>5, <1>7, <1>8
<1>14. Layout(p, SubSeq(p.chunks, 1, i - 1)) = Layout(q, SubSeq(q.chunks, 1, i - 1))
  BY <1>2, AlikeBefore
<1>15. p.task = q.task /\ Template(p) = Template(q)
  BY DEF Alike
<1>16. TokenAt(q, u) = TokenAt(p, t)
  <2>1. TokenAt(p, t) = [task |-> p.task, template |-> Template(p), chunk |-> i,
                         offset |-> t - a, token |-> p.tokens[t + 1],
                         before |-> Layout(p, SubSeq(p.chunks, 1, i - 1))]
    BY DEF TokenAt
  <2>2. TokenAt(q, u) = [task |-> q.task, template |-> Template(q), chunk |-> i,
                         offset |-> u - b, token |-> q.tokens[u + 1],
                         before |-> Layout(q, SubSeq(q.chunks, 1, i - 1))]
    BY <1>10 DEF TokenAt
  <2> HIDE DEF i, u, a, b, n
  <2> QED BY <1>12, <1>13, <1>14, <1>15, <2>1, <2>2
<1> QED BY <1>10, <1>11, <1>16

\* Twins stand in the same order.
LEMMA TwinOrder ==
    ASSUME NEW p, NEW q, Alike(p, q), NEW s \in Fixed(p), NEW t \in Fixed(p), s < t
    PROVE  Twin(p, q, s) < Twin(p, q, t)
<1> DEFINE i == ChunkOf(p, s)
           j == ChunkOf(p, t)
<1>1. /\ IsPlan(p) /\ Accepts(p) /\ IsPlan(q) /\ Accepts(q)
      /\ s \in Prompt(p) /\ t \in Prompt(p)
  BY DEF Alike, Fixed, InRole
<1>2. /\ i \in DOMAIN p.chunks /\ s \in Span(p.chunks[i])
      /\ j \in DOMAIN p.chunks /\ t \in Span(p.chunks[j])
  BY <1>1, TokenChunk
<1>3. /\ ChunkOf(q, Twin(p, q, s)) = i /\ ChunkOf(q, Twin(p, q, t)) = j
      /\ Twin(p, q, s) \in Prompt(q) /\ Twin(p, q, t) \in Prompt(q)
  <2>1. /\ ChunkOf(q, Twin(p, q, s)) = i /\ Twin(p, q, s) \in Fixed(q)
        /\ ChunkOf(q, Twin(p, q, t)) = j /\ Twin(p, q, t) \in Fixed(q)
    BY TwinToken
  <2> QED BY <2>1 DEF Fixed, InRole
<1>4. Twin(p, q, s) \in Span(q.chunks[i]) /\ Twin(p, q, t) \in Span(q.chunks[j])
  <2>1. /\ Twin(p, q, s) \in Span(q.chunks[ChunkOf(q, Twin(p, q, s))])
        /\ Twin(p, q, t) \in Span(q.chunks[ChunkOf(q, Twin(p, q, t))])
    BY <1>1, <1>3, TokenChunk
  <2> QED BY <1>3, <2>1
<1>5. /\ DOMAIN p.chunks = 1 .. Len(p.chunks) /\ Len(p.chunks) \in Nat
      /\ DOMAIN q.chunks = 1 .. Len(q.chunks) /\ Len(q.chunks) \in Nat
      /\ DOMAIN p.chunks = DOMAIN q.chunks
  BY <1>1, ChunkFacts, AlikeChunks
<1>6. \A k \in DOMAIN p.chunks : /\ p.chunks[k].start \in Int /\ p.chunks[k].end \in Int
                                 /\ q.chunks[k].start \in Int /\ q.chunks[k].end \in Int
  BY <1>1, <1>5, ChunkFacts
<1>7. s \in Int /\ t \in Int /\ Twin(p, q, s) \in Int /\ Twin(p, q, t) \in Int
  <2>1. \A r \in Prompt(p) \cup Prompt(q) : r \in Int
    <3>1. Len(p.tokens) \in Nat /\ Len(q.tokens) \in Nat
      BY <1>1, ChunkFacts
    <3> QED BY <3>1 DEF Prompt
  <2> QED BY <1>1, <1>3, <2>1
<1> HIDE DEF i, j
<1>8. i \in Int /\ j \in Int
  BY <1>2, <1>5
<1>9. CASE i = j
  BY <1>2, <1>6, <1>7, <1>9 DEF Twin, i, j
<1>10. CASE j < i
  <2>1. p.chunks[j].end =< p.chunks[i].start
    BY <1>1, <1>2, <1>5, <1>10, EarlierEnds
  <2> QED BY <1>2, <1>6, <1>7, <2>1 DEF Span
<1>11. CASE i < j
  <2>1. q.chunks[i].end =< q.chunks[j].start
    BY <1>1, <1>2, <1>5, <1>11, EarlierEnds
  <2>2. i \in DOMAIN p.chunks /\ j \in DOMAIN p.chunks
    BY <1>2
  <2> QED BY <1>4, <1>6, <1>7, <2>1, <2>2 DEF Span
<1> QED BY <1>8, <1>9, <1>10, <1>11

\* The twin of the twin is the token.
LEMMA TwinTwin ==
    ASSUME NEW p, NEW q, Alike(p, q), NEW u \in Fixed(q)
    PROVE  Twin(q, p, u) \in Fixed(p) /\ Twin(p, q, Twin(q, p, u)) = u
<1>1. Alike(q, p)
  BY DEF Alike
<1>2. Twin(q, p, u) \in Fixed(p) /\ ChunkOf(p, Twin(q, p, u)) = ChunkOf(q, u)
  BY <1>1, TwinToken
<1> DEFINE i == ChunkOf(q, u)
<1>3. /\ i \in DOMAIN q.chunks /\ i \in DOMAIN p.chunks /\ u \in Prompt(q)
      /\ p.chunks[i].start \in Nat /\ q.chunks[i].start \in Nat /\ Len(q.tokens) \in Nat
  <2>1. /\ IsPlan(p) /\ Accepts(p) /\ IsPlan(q) /\ Accepts(q) /\ u \in Prompt(q)
    BY DEF Alike, Fixed, InRole
  <2>2. i \in DOMAIN q.chunks /\ i \in DOMAIN p.chunks
    BY <2>1, TokenChunk, AlikeChunks
  <2> HIDE DEF i
  <2> QED BY <2>1, <2>2, ChunkContent, ChunkFacts
<1>4. u \in Int
  BY <1>3 DEF Prompt
<1> HIDE DEF i
<1>5. Twin(q, p, u) = p.chunks[i].start + (u - q.chunks[i].start)
  BY DEF Twin, i
<1>6. Twin(p, q, Twin(q, p, u)) = q.chunks[i].start + (Twin(q, p, u) - p.chunks[i].start)
  BY <1>2 DEF Twin, i
<1> QED BY <1>2, <1>3, <1>4, <1>5, <1>6

\* What the rows of the fixed tokens of a plan stand for, in their order.
Kept(p) == [i \in DOMAIN Ascending(Fixed(p)) |-> TokenAt(p, Ascending(Fixed(p))[i])]

LEMMA FixedSet ==
    ASSUME NEW p, IsPlan(p), Accepts(p)
    PROVE  Fixed(p) \in SUBSET Int /\ IsFiniteSet(Fixed(p)) /\ Fixed(p) \subseteq Prompt(p)
<1>1. Len(p.tokens) \in Nat /\ Fixed(p) \subseteq Prompt(p)
  BY ChunkFacts DEF Fixed, InRole
<1>2. Prompt(p) \in SUBSET Int
  BY <1>1 DEF Prompt
<1> QED BY <1>1, <1>2, FixedOrMandatory

\* Plans with one key keep rows of the same tokens in the same order.
LEMMA AlikeKept ==
    ASSUME NEW p, NEW q, Alike(p, q)
    PROVE  Kept(p) = Kept(q)
<1> DEFINE S == Fixed(p)
           T == Fixed(q)
           f == [t \in S |-> Twin(p, q, t)]
<1>1. S \in SUBSET Int /\ IsFiniteSet(S) /\ T \in SUBSET Int /\ IsFiniteSet(T)
  BY FixedSet DEF Alike
<1>2. f \in [S -> T]
  BY TwinToken
<1>3. \A u \in T : \E t \in S : f[t] = u
  <2> SUFFICES ASSUME NEW u \in T PROVE \E t \in S : f[t] = u
    OBVIOUS
  <2>1. Twin(q, p, u) \in S /\ Twin(p, q, Twin(q, p, u)) = u
    BY TwinTwin
  <2> QED BY <2>1
<1>4. \A s, t \in S : s < t => f[s] < f[t]
  BY TwinOrder
<1>5. \A t \in S : TokenAt(q, f[t]) = TokenAt(p, t)
  BY TwinToken
<1> HIDE DEF S, T, f
<1>6. /\ Cardinality(T) = Cardinality(S)
      /\ \A i \in 1 .. Cardinality(S) : Ascending(T)[i] = f[Ascending(S)[i]]
  BY <1>1, <1>2, <1>3, <1>4, AscendingMaps
<1>7. /\ DOMAIN Ascending(S) = 1 .. Cardinality(S)
      /\ \A i \in 1 .. Cardinality(S) : Ascending(S)[i] \in S
  BY <1>1, AscendingRanks
<1>8. DOMAIN Ascending(T) = 1 .. Cardinality(T)
  BY <1>1, AscendingRanks
<1>9. Kept(p) = [i \in 1 .. Cardinality(S) |-> TokenAt(p, Ascending(S)[i])]
  BY <1>7 DEF Kept, S
<1>10. Kept(q) = [i \in 1 .. Cardinality(S) |-> TokenAt(q, Ascending(T)[i])]
  BY <1>6, <1>8 DEF Kept, T
<1>11. \A i \in 1 .. Cardinality(S) :
          TokenAt(p, Ascending(S)[i]) = TokenAt(q, Ascending(T)[i])
  BY <1>5, <1>6, <1>7
<1> QED BY <1>9, <1>10, <1>11

\* Two requests with the same cache key at a layer keep the same rows: what one
\* stores is what the other would (contracts.py:cache_key).
THEOREM SameKeySameRows ==
    ASSUME NEW p, NEW q, IsPlan(p), Accepts(p), IsPlan(q), Accepts(q),
           NEW l, NEW m, CacheKey(p, l) = CacheKey(q, m)
    PROVE  l = m /\ Kept(p) = Kept(q)
<1>1. /\ p.task = q.task /\ FixedLayout(p) = FixedLayout(q) /\ Template(p) = Template(q)
      /\ l = m
  BY DEF CacheKey
<1>2. Alike(p, q)
  BY <1>1 DEF Alike
<1> QED BY <1>1, <1>2, AlikeKept

-----------------------------------------------------------------------------
(* The corrected tokens                                                     *)

\* A WCAState is a record of these fields.
Shape(w) ==
    w = [mandatory |-> w.mandatory, deviation |-> w.deviation, candidate |-> w.candidate,
         selected |-> w.selected, removed |-> w.removed, alpha |-> w.alpha,
         budget |-> w.budget, last |-> w.last]

\* The state of a selection among the tokens of F, between calls.
Selecting(w, F) ==
    /\ Shape(w) /\ w.budget \in Nat
    /\ w.candidate \subseteq F /\ w.removed \subseteq F
    /\ BestSelected(w)

\* _promote fills the places that are free with the best that wait, and touches
\* nothing else.
LEMMA PromotedBest ==
    ASSUME NEW F, IsFiniteSet(F), NEW w, Shape(w), w.budget \in Nat,
           w.candidate \subseteq F, w.removed \subseteq F,
           w.selected \subseteq w.candidate, w.candidate \cap w.removed = {},
           Cardinality(w.selected) =< w.budget,
           \A s \in w.selected, t \in w.candidate \ w.selected : Before(w, s, t),
           NEW x \in Promoted(w)
    PROVE  /\ Selecting(x, F)
           /\ x.mandatory = w.mandatory /\ x.last = w.last
<1>1. PICK P \in BestWaiting(w) : x = [w EXCEPT !.selected = w.selected \cup P]
  BY DEF Promoted
<1> DEFINE C == w.candidate
           S == w.selected
           W == C \ S
<1>2. /\ x = [mandatory |-> w.mandatory, deviation |-> w.deviation, candidate |-> C,
              selected |-> S \cup P, removed |-> w.removed, alpha |-> w.alpha,
              budget |-> w.budget, last |-> w.last]
  BY <1>1 DEF Shape
<1>3. /\ Shape(x) /\ x.mandatory = w.mandatory /\ x.last = w.last
      /\ x.deviation = w.deviation /\ x.candidate = C /\ x.selected = S \cup P
      /\ x.removed = w.removed /\ x.budget = w.budget
  BY <1>2 DEF Shape
<1>4. Waiting(w) = W
  BY DEF Waiting
<1>5. /\ P \subseteq W
      /\ Cardinality(P) = Least(Slots(w), Cardinality(W))
      /\ \A s \in P, t \in W \ P : Before(w, s, t)
  BY <1>4 DEF BestWaiting
<1>6. IsFiniteSet(C) /\ IsFiniteSet(S) /\ IsFiniteSet(W) /\ IsFiniteSet(P)
  <2>1. C \in SUBSET F
    OBVIOUS
  <2>2. IsFiniteSet(C)
    BY <2>1, FS_Subset
  <2>3. S \in SUBSET C /\ W \in SUBSET C /\ P \in SUBSET C
    BY <1>5
  <2> QED BY <2>2, <2>3, FS_Subset
<1>7. /\ Cardinality(C) \in Nat /\ Cardinality(S) \in Nat
      /\ Cardinality(W) \in Nat /\ Cardinality(P) \in Nat
  BY <1>6, FS_CardinalityType
<1>8. Cardinality(C) = Cardinality(S) + Cardinality(W)
  <2>1. C = S \cup W /\ S \cap W = {}
    OBVIOUS
  <2>2. Cardinality(S \cup W) = Cardinality(S) + Cardinality(W) - Cardinality(S \cap W)
    BY <1>6, FS_Union
  <2>3. Cardinality(S \cap W) = 0
    BY <2>1, FS_EmptySet
  <2>4. Cardinality(C) = Cardinality(S \cup W)
    BY <2>1
  <2> HIDE DEF C, S, W
  <2> QED BY <1>7, <2>2, <2>3, <2>4
<1>9. Cardinality(S \cup P) = Cardinality(S) + Cardinality(P)
  <2>1. S \cap P = {}
    BY <1>5
  <2>2. Cardinality(S \cup P) = Cardinality(S) + Cardinality(P) - Cardinality(S \cap P)
    BY <1>6, FS_Union
  <2>3. Cardinality(S \cap P) = 0
    BY <2>1, FS_EmptySet
  <2> QED BY <1>7, <2>2, <2>3
<1>10. Cardinality(S \cup P) = Least(w.budget, Cardinality(C))
  <2>1. Slots(w) = IF w.budget - Cardinality(S) > 0 THEN w.budget - Cardinality(S) ELSE 0
    BY DEF Slots
  <2> HIDE DEF C, S, W
  <2> QED BY <1>5, <1>7, <1>8, <1>9, <2>1 DEF Least, S
<1>11. ASSUME NEW s \in S \cup P, NEW t \in C \ (S \cup P) PROVE Before(x, s, t)
  <2>1. Before(w, s, t)
    BY <1>5
  <2> QED BY <1>3, <2>1 DEF Before
<1>12. BestSelected(x)
  BY <1>3, <1>5, <1>10, <1>11 DEF BestSelected
<1> QED
  BY <1>3, <1>12 DEF Selecting

\* initialize chooses the budget's worth of the most deviating tokens.
LEMMA InitializedBest ==
    ASSUME NEW F, IsFiniteSet(F), NEW M, NEW d, NEW layer,
           NEW x \in Initialized(F, M, d, layer)
    PROVE  Selecting(x, F) /\ x.mandatory = M /\ x.last = layer
<1> DEFINE C == {t \in F : d[t] > 0}
           w == [mandatory |-> M, deviation |-> d, candidate |-> C, selected |-> {},
                 removed |-> {}, alpha |-> [t \in DOMAIN d |-> layer],
                 budget |-> Budget(F, C), last |-> layer]
<1>1. x \in Promoted(w)
  BY DEF Initialized
<1>2. Budget(F, C) \in Nat
  <2>1. IsFiniteSet(C)
    BY FS_Subset, C \in SUBSET F
  <2>2. Cardinality(F) \in Nat /\ Cardinality(C) \in Nat
    BY <2>1, FS_CardinalityType
  <2> HIDE DEF C
  <2>3. CorrectionPercent * Cardinality(F) \in Nat
    BY <2>2, FractionAssumption
  <2> QED BY <2>2, <2>3 DEF Budget, Least
<1>3. /\ w.mandatory = M /\ w.candidate = C /\ w.selected = {} /\ w.removed = {}
      /\ w.budget = Budget(F, C) /\ w.last = layer /\ Shape(w)
  BY DEF Shape
<1>4. Cardinality({}) = 0
  BY FS_EmptySet
<1>5. Cardinality(w.selected) =< w.budget
  BY <1>2, <1>3, <1>4
<1> HIDE DEF w
<1>6. /\ w.budget \in Nat /\ w.candidate \subseteq F /\ w.removed \subseteq F
      /\ w.selected \subseteq w.candidate /\ w.candidate \cap w.removed = {}
      /\ \A s \in w.selected, t \in w.candidate \ w.selected : Before(w, s, t)
  BY <1>2, <1>3
<1> QED
  BY <1>1, <1>3, <1>5, <1>6, PromotedBest

\* What a gate leaves of each field.
LEMMA GatedFields ==
    ASSUME NEW w, Shape(w), NEW layer, NEW R
    PROVE  Gated(w, layer, R) =
             [mandatory |-> w.mandatory, deviation |-> w.deviation,
              candidate |-> w.candidate \ R, selected |-> w.selected \ R,
              removed |-> w.removed \cup R, alpha |-> Remeasured(w, layer),
              budget |-> w.budget, last |-> layer]
<1>1. PICK m, d, c, s, r, a, b, l :
        w = [mandatory |-> m, deviation |-> d, candidate |-> c, selected |-> s,
             removed |-> r, alpha |-> a, budget |-> b, last |-> l]
  BY DEF Shape
<1>2. Gated(w, layer, R) =
        [w EXCEPT !.alpha = Remeasured(w, layer), !.last = layer,
                  !.selected = w.selected \ R, !.candidate = w.candidate \ R,
                  !.removed = w.removed \cup R]
  BY <1>1 DEF Gated
<1> QED BY <1>1, <1>2

\* update keeps the selection the best, whichever tokens a gate removes.
LEMMA UpdatedBest ==
    ASSUME NEW F, IsFiniteSet(F), NEW w, Selecting(w, F), NEW layer,
           NEW x \in Updated(w, layer)
    PROVE  Selecting(x, F) /\ x.mandatory = w.mandatory /\ x.last = layer
<1>1. PICK R \in SUBSET w.selected : x \in Promoted(Gated(w, layer, R))
  BY DEF Updated
<1> DEFINE g == Gated(w, layer, R)
<1>2. g = [mandatory |-> w.mandatory, deviation |-> w.deviation,
           candidate |-> w.candidate \ R, selected |-> w.selected \ R,
           removed |-> w.removed \cup R, alpha |-> Remeasured(w, layer),
           budget |-> w.budget, last |-> layer]
  BY GatedFields DEF Selecting
<1>3. /\ Shape(g) /\ g.mandatory = w.mandatory /\ g.deviation = w.deviation
      /\ g.candidate = w.candidate \ R /\ g.selected = w.selected \ R
      /\ g.removed = w.removed \cup R /\ g.budget = w.budget /\ g.last = layer
  BY <1>2 DEF Shape
<1> HIDE DEF g
<1>4. /\ g.budget \in Nat /\ g.candidate \subseteq F /\ g.removed \subseteq F
      /\ g.selected \subseteq g.candidate /\ g.candidate \cap g.removed = {}
  BY <1>3 DEF Selecting, BestSelected
<1>5. ASSUME NEW s \in g.selected, NEW t \in g.candidate \ g.selected PROVE Before(g, s, t)
  <2>1. Before(w, s, t)
    BY <1>3 DEF Selecting, BestSelected
  <2> QED BY <1>3, <2>1 DEF Before
<1>6. Cardinality(g.selected) =< g.budget
  <2>1. w.candidate \in SUBSET F /\ w.selected \in SUBSET w.candidate
        /\ w.selected \ R \in SUBSET w.selected
    BY DEF Selecting, BestSelected
  <2>2. IsFiniteSet(w.candidate) /\ IsFiniteSet(w.selected)
    BY <2>1, FS_Subset
  <2>3. Cardinality(w.selected \ R) =< Cardinality(w.selected) /\ IsFiniteSet(w.selected \ R)
    BY <2>1, <2>2, FS_Subset
  <2>4. /\ Cardinality(w.candidate) \in Nat /\ Cardinality(w.selected) \in Nat
        /\ Cardinality(w.selected \ R) \in Nat
    BY <2>2, <2>3, FS_CardinalityType
  <2>5. Cardinality(w.selected) = Least(w.budget, Cardinality(w.candidate)) /\ w.budget \in Nat
    BY DEF Selecting, BestSelected
  <2> QED BY <1>3, <2>3, <2>4, <2>5 DEF Least
<1>7. x \in Promoted(g)
  BY <1>1 DEF g
<1> QED
  <2>1. Selecting(x, F) /\ x.mandatory = g.mandatory /\ x.last = g.last
    <3>1. Shape(g)
      BY <1>3
    <3> QED BY <3>1, <1>4, <1>5, <1>6, <1>7, PromotedBest
  <2> QED BY <1>3, <2>1

\* What a correction leaves of the weights: the latest of what it has measured.
LEMMA InitializedWeights ==
    ASSUME NEW F, NEW M, NEW d, NEW layer, NEW x \in Initialized(F, M, d, layer)
    PROVE  x.alpha \in [DOMAIN d -> {layer}] /\ x.deviation = d
<1>1. x.alpha = [t \in DOMAIN d |-> layer] /\ x.deviation = d
  BY DEF Initialized, Promoted
<1> QED BY <1>1

LEMMA UpdatedWeights ==
    ASSUME NEW w, Shape(w), NEW layer, NEW x \in Updated(w, layer)
    PROVE  x.alpha = Remeasured(w, layer) /\ x.deviation = w.deviation
<1>1. PICK R \in (IF Gate(layer) THEN SUBSET w.selected ELSE {{}}) :
              x \in Promoted(Gated(w, layer, R))
  BY DEF Updated
<1> DEFINE g == Gated(w, layer, R)
           a == Remeasured(w, layer)
<1>2. g = [mandatory |-> w.mandatory, deviation |-> w.deviation,
           candidate |-> w.candidate \ R, selected |-> w.selected \ R,
           removed |-> w.removed \cup R, alpha |-> a,
           budget |-> w.budget, last |-> layer]
  BY GatedFields
<1>3. PICK P \in SUBSET Waiting(g) : x = [g EXCEPT !.selected = g.selected \cup P]
  BY <1>1 DEF Promoted, BestWaiting
<1> HIDE DEF g, a
<1>4. x.alpha = a /\ x.deviation = w.deviation
  BY <1>2, <1>3
<1> QED BY <1>4 DEF a

-----------------------------------------------------------------------------
(* The run of a prefill                                                     *)

Stages == {"idle", "recover", "enter", "gather", "read", "prefetch", "fuse", "finish",
           "output", "fallback", "plain"}
Futures == [layer : 0 .. Layers - 1, load : {"ready", "running", "failed"}]

\* Where a run is, and for which plan.
Calling ==
    /\ at \in Stages
    /\ plan # None => plan \in Requests /\ Accepts(plan)
    /\ at # "idle" => plan # None /\ outcome = "none"
    /\ index \in Nat
    /\ at \in {"recover", "enter"} => index = 0
    /\ at \in {"gather", "read", "prefetch", "fuse", "finish"} => index < Layers

\* The one load, and of which layer it is at each stage.
Prefetching ==
    /\ loads # {} => /\ future # None /\ future.load = "running"
                     /\ loads = {Page(plan, future.layer, "kv")}
    /\ future # None => plan # None /\ reuse /\ future \in Futures
    /\ outcome = "returned" => future = None
    /\ at \in {"recover", "enter", "prefetch", "output"} => future = None
    /\ at \in {"gather", "read"} /\ future # None => future.layer = index
    /\ at \in {"fuse", "finish"} /\ future # None => future.layer = index + 1

\* The selection, and of which layer it is at each stage.
Correcting ==
    wca # None =>
        /\ plan # None /\ reuse
        /\ Selecting(wca, Fixed(plan)) /\ wca.mandatory = Mandatory(plan)
        /\ at \notin {"recover", "enter"}
        /\ at \in {"gather", "read", "prefetch", "fuse"} => wca.last = index
        /\ at = "finish" => wca.last = index + 1
        /\ at \in {"read", "prefetch", "fuse"} => order = Ascending(ActiveTokens(wca))

IInv == Calling /\ Prefetching /\ Correcting

-----------------------------------------------------------------------------
(* What the actions share                                                   *)

\* After a failure the run is at its answer, or over, and the load is as it was,
\* or was taken.
LEMMA FailsKeeps ==
    ASSUME IInv, at # "idle", NEW answer \in {"fallback", "plain"}, Fails(answer),
           UNCHANGED <<loads, plan, reuse, wca, index>>,
           \/ UNCHANGED future
           \/ loads = {} /\ future' = None
    PROVE  IInv'
<1>1. at' \in {"idle", "fallback", "plain"} /\ (at' # "idle" => outcome' = outcome)
  BY DEF Fails
<1>2. outcome' \in {outcome, "fallback", "plain"}
  BY DEF Fails
<1>3. Calling'
  BY <1>1, <1>2 DEF IInv, Calling, Stages
<1>4. Prefetching'
  <2>1. outcome' # "returned"
    BY <1>2 DEF IInv, Calling
  <2>2. CASE UNCHANGED future
    BY <1>1, <2>1, <2>2 DEF IInv, Prefetching, Page, CacheKey, FixedLayout, Template, Futures
  <2>3. CASE loads = {} /\ future' = None
    BY <1>1, <2>1, <2>3 DEF IInv, Prefetching
  <2> QED BY <2>2, <2>3
<1>5. Correcting'
  BY <1>1 DEF IInv, Correcting, Selecting, Shape
<1> QED BY <1>3, <1>4, <1>5 DEF IInv

\* Where nothing is being loaded a prefetch leaves one load, of its layer, or fails.
LEMMA PrefetchStarts ==
    ASSUME plan # None, future = None, loads = {}, NEW layer \in Nat, NEW next,
           Prefetch(layer, next), UNCHANGED <<plan, reuse>>
    PROVE  \/ /\ Continues(next)
              /\ loads' # {} => /\ future' # None /\ future'.load = "running"
                                /\ loads' = {Page(plan, future'.layer, "kv")}
              /\ future' # None => reuse /\ future' \in Futures /\ future'.layer = layer
           \/ Fails("fallback") /\ UNCHANGED <<loads, future>>
<1>1. CASE ~Prefetches(layer) /\ Continues(next) /\ UNCHANGED <<loads, future>>
  BY <1>1
<1>2. CASE Prefetches(layer) /\ Continues(next)
           /\ future' = [layer |-> layer, load |-> "ready"] /\ UNCHANGED loads
  <2>1. reuse /\ layer \in 0 .. Layers - 1
    BY <1>2, LayersAssumption DEF Prefetches
  <2> QED BY <1>2, <2>1 DEF Futures
<1>3. CASE Prefetches(layer) /\ Continues(next)
           /\ future' = [layer |-> layer, load |-> "running"]
           /\ loads' = loads \cup {Page(plan, layer, "kv")}
  <2>1. reuse /\ layer \in 0 .. Layers - 1
    BY <1>3, LayersAssumption DEF Prefetches
  <2>2. future' \in Futures /\ future'.layer = layer /\ future'.load = "running"
    BY <1>3, <2>1 DEF Futures
  <2>3. future' # None
    <3>1. future' \in [layer : Nat, load : {"ready", "running", "failed"}]
      BY <1>3
    <3> QED BY <3>1, NoneAssumption
  <2>4. loads' = {Page(plan, layer, "kv")}
    BY <1>3
  <2> QED BY <1>3, <2>1, <2>2, <2>3, <2>4
<1> QED BY <1>1, <1>2, <1>3 DEF Prefetch

\* A request that is retired, or that falls back, leaves no load behind.
LEMMA DrainedEmpty ==
    ASSUME IInv, Drained
    PROVE  loads = {}
BY DEF IInv, Prefetching, Drained

\* A state without a request, or without anything of it but its plan.
LEMMA BeginsAnew ==
    ASSUME loads' = {}, future' = None, wca' = None, index' = 0, outcome' = "none",
           at' \in {"idle", "recover", "enter"},
           plan' # None => plan' \in Requests /\ Accepts(plan'),
           at' # "idle" => plan' # None
    PROVE  IInv'
<1>1. Calling'
  BY LayersAssumption DEF Calling, Stages
<1>2. Prefetching'
  BY DEF Prefetching
<1>3. Correcting'
  BY DEF Correcting
<1> QED BY <1>1, <1>2, <1>3 DEF IInv

\* The runtime starts without a request.
LEMMA InitKeeps == Init => IInv
<1> SUFFICES ASSUME Init PROVE IInv
  OBVIOUS
<1>1. Calling
  BY DEF Init, Calling, Stages
<1>2. Prefetching
  BY DEF Init, Prefetching
<1>3. Correcting
  BY DEF Init, Correcting
<1> QED BY <1>1, <1>2, <1>3 DEF IInv

-----------------------------------------------------------------------------
(* One lemma for each action                                                *)

\* A release waits for the prefetch before it forgets the request.
LEMMA ReleaseKeeps == ASSUME IInv, Release PROVE IInv'
<1>1. loads' = {}
  BY DrainedEmpty DEF Release, Retire, MayRetire
<1> QED BY <1>1, BeginsAnew DEF Release, Retire, NoPass

\* So does the start of the next run.
LEMMA RunKeeps ==
    ASSUME IInv, NEW p \in Requests, NEW profiles \in BOOLEAN, Run(p, profiles) PROVE IInv'
<1>1. loads' = {}
  BY DrainedEmpty DEF Run, Retire, MayRetire
<1>2. plan' \in Requests /\ Accepts(plan') /\ plan' # None
  BY NoneAssumption DEF Run
<1>3. at' \in {"recover", "enter"}
  BY DEF Run
<1>4. future' = None /\ wca' = None /\ index' = 0 /\ outcome' = "none"
  BY DEF Run, Retire, NoPass
<1> QED BY <1>1, <1>2, <1>3, <1>4, BeginsAnew

\* The one load that runs is the prefetch, which learns how it ended.
LEMMA LoadDoneKeeps ==
    ASSUME IInv, NEW page \in loads, NEW ok \in BOOLEAN, LoadDone(page, ok) PROVE IInv'
<1>1. UNCHANGED <<plan, reuse, wca, at, index, order, outcome>>
  BY DEF LoadDone, request, pass, rows
<1>2. /\ future # None /\ future \in Futures
      /\ loads = {page} /\ page = Page(plan, future.layer, "kv")
  BY DEF IInv, Prefetching
<1>3. loads' = {}
  BY <1>2 DEF LoadDone
<1>4. future' \in Futures /\ future'.layer = future.layer
  <2>1. future' = [future EXCEPT !.load = Resolved(ok)]
    BY <1>2 DEF LoadDone
  <2>2. Resolved(ok) \in {"ready", "running", "failed"}
    BY DEF Resolved
  <2> QED BY <1>2, <2>1, <2>2 DEF Futures
<1>5. Calling'
  BY <1>1 DEF IInv, Calling
<1>6. Prefetching'
  BY <1>1, <1>2, <1>3, <1>4 DEF IInv, Prefetching
<1>7. Correcting'
  BY <1>1 DEF IInv, Correcting, Selecting, Shape, ActiveTokens
<1> QED BY <1>5, <1>6, <1>7 DEF IInv

\* A population that cleans up has no prefetch and no selection.
LEMMA RecoverKeeps == ASSUME IInv, Recover PROVE IInv'
<1>1. /\ at = "recover" /\ UNCHANGED <<loads, plan, reuse, future, wca, index, order>>
      /\ \/ Continues("enter")
         \/ Fails("fallback")
  BY DEF Recover, request, pass, rows
<1>2. CASE Fails("fallback")
  BY <1>1, <1>2, FailsKeeps
<1>3. CASE Continues("enter")
  <2>1. at' = "enter" /\ UNCHANGED outcome
    BY <1>3 DEF Continues
  <2>2. Calling'
    BY <1>1, <2>1 DEF IInv, Calling, Stages
  <2>3. Prefetching'
    BY <1>1, <2>1 DEF IInv, Prefetching, Page, CacheKey, FixedLayout, Template
  <2>4. Correcting'
    BY <1>1, <2>1 DEF IInv, Correcting
  <2> QED BY <2>2, <2>3, <2>4 DEF IInv
<1> QED BY <1>1, <1>2, <1>3

\* The first prefetch is of layer 0.
LEMMA EnterKeeps == ASSUME IInv, Enter PROVE IInv'
<1>1. /\ at = "enter" /\ UNCHANGED <<plan, reuse, wca, index>>
      /\ Prefetch(0, "gather")
  BY DEF Enter, request
<1>2. future = None /\ loads = {} /\ plan # None /\ wca = None /\ index = 0
  BY <1>1 DEF IInv, Calling, Prefetching, Correcting
<1>3. CASE Fails("fallback") /\ UNCHANGED <<loads, future>>
  BY <1>1, <1>3, FailsKeeps
<1>4. CASE /\ Continues("gather")
           /\ loads' # {} => /\ future' # None /\ future'.load = "running"
                             /\ loads' = {Page(plan, future'.layer, "kv")}
           /\ future' # None => reuse /\ future' \in Futures /\ future'.layer = 0
  <2>1. at' = "gather" /\ UNCHANGED outcome
    BY <1>4 DEF Continues
  <2>2. Calling'
    BY <1>1, <1>2, <2>1, LayersAssumption DEF IInv, Calling, Stages
  <2>3. Prefetching'
    <3>1. outcome' # "returned"
      BY <1>1, <2>1 DEF IInv, Calling
    <3>2. Page(plan, future'.layer, "kv") = Page(plan', future'.layer, "kv")
      BY <1>1
    <3> QED BY <1>1, <1>2, <1>4, <2>1, <3>1, <3>2 DEF Prefetching
  <2>4. Correcting'
    BY <1>1, <1>2 DEF Correcting
  <2> QED BY <2>2, <2>3, <2>4 DEF IInv
<1> QED BY <1>1, <1>2, <1>3, <1>4, PrefetchStarts, 0 \in Nat

\* The rows of a layer become those of the selection.
LEMMA GatherKeeps == ASSUME IInv, Gather PROVE IInv'
<1>1. at = "gather" /\ UNCHANGED <<loads, plan, reuse, future, wca, index>>
  BY DEF Gather
<1>2. CASE Fails("fallback")
  BY <1>1, <1>2, FailsKeeps
<1>3. CASE /\ Continues(IF reuse THEN "read" ELSE "fuse")
           /\ order' = Active
  <2>1. at' = (IF reuse THEN "read" ELSE "fuse") /\ UNCHANGED outcome
    BY <1>3 DEF Continues
  <2>2. Calling'
    BY <1>1, <2>1 DEF IInv, Calling, Stages
  <2>3. Prefetching'
    <3>1. outcome' # "returned"
      BY <1>1, <2>1 DEF IInv, Calling
    <3>2. CASE reuse
      BY <1>1, <2>1, <3>1, <3>2
         DEF IInv, Prefetching, Page, CacheKey, FixedLayout, Template, Futures
    <3>3. CASE ~reuse
      BY <1>1, <2>1, <3>1, <3>3 DEF IInv, Prefetching
    <3> QED BY <3>2, <3>3
  <2>4. Correcting'
    <3>1. ASSUME wca # None PROVE order' = Ascending(ActiveTokens(wca)) /\ wca.last = index
      BY <1>1, <1>3, <3>1 DEF Active, IInv, Correcting
    <3> QED BY <1>1, <2>1, <3>1 DEF IInv, Correcting, Selecting, Shape
  <2> QED BY <2>2, <2>3, <2>4 DEF IInv
<1> QED BY <1>2, <1>3 DEF Gather

\* A failed load is found before the layer reads.
LEMMA StageFailsKeeps == ASSUME IInv, StageFails PROVE IInv'
<1>1. /\ at = "read" /\ Fails("fallback")
      /\ UNCHANGED <<loads, plan, reuse, future, wca, index>>
  BY DEF StageFails, store, request, pass
<1> QED BY <1>1, FailsKeeps

\* The read takes the layer's own prefetch, and leaves none.
LEMMA ReadKeeps == ASSUME IInv, Read PROVE IInv'
<1>1. at = "read" /\ UNCHANGED <<loads, plan, reuse, wca, index, order>>
  BY DEF Read, store, request
<1>2. future' = None /\ loads = {}
  <2>1. CASE Prefetched
    <3>1. Drained /\ future' = None
      BY <2>1 DEF Read
    <3> QED BY <3>1, DrainedEmpty
  <2>2. CASE ~Prefetched
    <3>1. future = None
      BY <1>1, <2>2 DEF Prefetched, IInv, Prefetching
    <3> QED BY <2>2, <3>1 DEF Read, IInv, Prefetching
  <2> QED BY <2>1, <2>2
<1>3. CASE Fails("fallback")
  BY <1>1, <1>2, <1>3, FailsKeeps
<1>4. CASE Continues("prefetch")
  <2>1. at' = "prefetch" /\ UNCHANGED outcome
    BY <1>4 DEF Continues
  <2>2. Calling'
    BY <1>1, <2>1 DEF IInv, Calling, Stages
  <2>3. Prefetching'
    BY <1>1, <1>2 DEF Prefetching
  <2>4. Correcting'
    BY <1>1, <2>1 DEF IInv, Correcting, Selecting, Shape
  <2> QED BY <2>2, <2>3, <2>4 DEF IInv
<1> QED BY <1>3, <1>4 DEF Read

\* Nothing is being loaded when the next layer is asked for.
LEMMA PrefetchNextKeeps == ASSUME IInv, PrefetchNext PROVE IInv'
<1>1. /\ at = "prefetch" /\ Prefetch(index + 1, "fuse")
      /\ UNCHANGED <<plan, reuse, wca, index, order>>
  BY DEF PrefetchNext, request, pass, rows
<1>2. future = None /\ loads = {} /\ plan # None /\ index + 1 \in Nat
  BY <1>1 DEF IInv, Calling, Prefetching
<1>3. CASE Fails("fallback") /\ UNCHANGED <<loads, future>>
  BY <1>1, <1>3, FailsKeeps
<1>4. CASE /\ Continues("fuse")
           /\ loads' # {} => /\ future' # None /\ future'.load = "running"
                             /\ loads' = {Page(plan, future'.layer, "kv")}
           /\ future' # None => reuse /\ future' \in Futures /\ future'.layer = index + 1
  <2>1. at' = "fuse" /\ UNCHANGED outcome
    BY <1>4 DEF Continues
  <2>2. Calling'
    BY <1>1, <2>1 DEF IInv, Calling, Stages
  <2>3. Prefetching'
    <3>1. outcome' # "returned"
      BY <1>1, <2>1 DEF IInv, Calling
    <3>2. Page(plan, future'.layer, "kv") = Page(plan', future'.layer, "kv")
      BY <1>1
    <3> QED BY <1>1, <1>2, <1>4, <2>1, <3>1, <3>2 DEF Prefetching
  <2>4. Correcting'
    BY <1>1, <2>1 DEF IInv, Correcting, Selecting, Shape
  <2> QED BY <2>2, <2>3, <2>4 DEF IInv
<1> QED BY <1>1, <1>2, <1>3, <1>4, PrefetchStarts

\* A layer's update moves the selection on to that layer.
LEMMA FuseKeeps == ASSUME IInv, Fuse PROVE IInv'
<1>1. /\ at = "fuse"
      /\ UNCHANGED <<loads, plan, reuse, future, index, order>>
      /\ plan # None /\ plan \in Requests /\ Accepts(plan) /\ index \in Nat
  BY DEF Fuse, IInv, Calling
<1>2. CASE UNCHANGED wca /\ (Fails("fallback") \/ Fails("plain"))
  BY <1>1, <1>2, FailsKeeps
<1>3. CASE Correct /\ Continues("finish")
  <2>1. at' = "finish" /\ UNCHANGED outcome
    BY <1>3 DEF Continues
  <2>2. Calling'
    BY <1>1, <2>1 DEF IInv, Calling, Stages
  <2>3. Prefetching'
    <3>1. outcome' # "returned"
      BY <1>1, <2>1 DEF IInv, Calling
    <3> QED BY <1>1, <2>1, <3>1
            DEF IInv, Prefetching, Page, CacheKey, FixedLayout, Template, Futures
  <2>4. wca' # None => /\ reuse /\ Selecting(wca', Fixed(plan))
                       /\ wca'.mandatory = Mandatory(plan) /\ wca'.last = index + 1
    <3>1. IsFiniteSet(Fixed(plan))
      BY <1>1, FixedOrMandatory, RequestAssumption
    <3>2. CASE Sparse /\ wca' \in Updated(wca, index + 1)
      <4>1. reuse /\ Selecting(wca, Fixed(plan)) /\ wca.mandatory = Mandatory(plan)
        BY <3>2 DEF Sparse, IInv, Correcting
      <4> QED BY <3>1, <3>2, <4>1, UpdatedBest
    <3>3. CASE Observes /\ \E d \in Measured :
                 wca' \in Initialized(Fixed(plan), Mandatory(plan), d, index + 1)
      BY <3>1, <3>3, InitializedBest DEF Observes
    <3>4. CASE ~Sparse /\ UNCHANGED wca
      BY <3>4 DEF Sparse, IInv, Correcting
    <3> QED BY <1>3, <3>2, <3>3, <3>4 DEF Correct
  <2>5. Correcting'
    BY <1>1, <2>1, <2>4 DEF Correcting, Selecting, Shape
  <2> QED BY <2>2, <2>3, <2>5 DEF IInv
<1> QED BY <1>2, <1>3 DEF Fuse

\* The index moves on, past the layer that the prefetch is of only at the end.
LEMMA FinishKeeps == ASSUME IInv, Finish PROVE IInv'
<1>1. at = "finish" /\ UNCHANGED <<loads, plan, reuse, future, wca, order>>
  BY DEF Finish, store, request
<1>2. CASE Fails("fallback") /\ UNCHANGED index
  BY <1>1, <1>2, FailsKeeps
<1>3. CASE /\ index' = index + 1
           /\ Continues(IF index' < Layers THEN "gather" ELSE "output")
  <2>1. at' = (IF index' < Layers THEN "gather" ELSE "output") /\ UNCHANGED outcome
    BY <1>3 DEF Continues
  <2>2. index \in Nat /\ index < Layers
    BY <1>1 DEF IInv, Calling
  <2>3. Calling'
    BY <1>1, <1>3, <2>1, <2>2 DEF IInv, Calling, Stages
  <2>4. Prefetching'
    <3>1. outcome' # "returned"
      BY <1>1, <2>1 DEF IInv, Calling
    <3>2. at' = "output" => future = None
      BY <1>1, <1>3, <2>1, <2>2, LayersAssumption DEF IInv, Prefetching, Futures
    <3>3. at' \in {"gather", "output"}
      BY <2>1
    <3> QED BY <1>1, <1>3, <3>1, <3>2, <3>3
            DEF IInv, Prefetching, Page, CacheKey, FixedLayout, Template, Futures
  <2>5. Correcting'
    <3>1. at' \in {"gather", "output"}
      BY <2>1
    <3> QED BY <1>1, <1>3, <3>1 DEF IInv, Correcting, Selecting, Shape
  <2> QED BY <2>3, <2>4, <2>5 DEF IInv
<1> QED BY <1>2, <1>3 DEF Finish

\* No prefetch is left: the last one would be of a layer that does not exist.
LEMMA OutputKeeps == ASSUME IInv, Output PROVE IInv'
<1>1. at = "output" /\ UNCHANGED <<loads, plan, reuse, future, wca, index>>
  BY DEF Output
<1>2. CASE Fails("fallback")
  BY <1>1, <1>2, FailsKeeps
<1>3. CASE at' = "idle" /\ outcome' = "returned"
  <2>1. future = None /\ loads = {}
    BY <1>1 DEF IInv, Prefetching
  <2>2. Calling'
    BY <1>1, <1>3 DEF IInv, Calling, Stages
  <2>3. Prefetching'
    BY <1>1, <2>1 DEF Prefetching
  <2>4. Correcting'
    BY <1>1, <1>3 DEF IInv, Correcting, Selecting, Shape
  <2> QED BY <2>2, <2>3, <2>4 DEF IInv
<1> QED BY <1>2, <1>3 DEF Output

\* The second prefill starts with nothing of the first.
LEMMA FallbackKeeps == ASSUME IInv, Fallback PROVE IInv'
<1>1. loads' = {}
  BY DrainedEmpty DEF Fallback
<1>2. future' = None /\ wca' = None /\ index' = 0 /\ at' = "enter"
  BY DEF Fallback, Forgotten, NoPass
<1>3. plan' = plan /\ plan \in Requests /\ Accepts(plan) /\ plan # None /\ outcome' = "none"
  BY DEF Fallback, IInv, Calling
<1> QED BY <1>1, <1>2, <1>3, BeginsAnew

\* A run that raises leaves its request as it is, to be released.
LEMMA ErrsKeeps == ASSUME IInv, Errs PROVE IInv'
<1>1. /\ at' = "idle" /\ outcome' = "raised" /\ index' = 0
      /\ UNCHANGED <<loads, plan, reuse, future, wca>>
  BY DEF Errs, store, request, NoPass
<1>2. Calling'
  BY <1>1 DEF IInv, Calling, Stages
<1>3. Prefetching'
  BY <1>1 DEF IInv, Prefetching, Page, CacheKey, FixedLayout, Template, Futures
<1>4. Correcting'
  BY <1>1 DEF IInv, Correcting, Selecting, Shape
<1> QED BY <1>2, <1>3, <1>4 DEF IInv

\* A restart begins with nothing.
LEMMA CrashKeeps == ASSUME IInv, NEW lost, Crash(lost) PROVE IInv'
BY BeginsAnew DEF Crash, NoPass

\* A step that changes nothing.
LEMMA StutterKeeps == ASSUME IInv, UNCHANGED vars PROVE IInv'
<1>1. UNCHANGED <<loads, plan, reuse, future, wca, at, index, order, outcome>>
  BY DEF vars, store, request, pass, rows
<1>2. Calling'
  BY <1>1 DEF IInv, Calling
<1>3. Prefetching'
  BY <1>1 DEF IInv, Prefetching, Page, CacheKey, FixedLayout, Template, Futures
<1>4. Correcting'
  BY <1>1 DEF IInv, Correcting, Selecting, Shape
<1> QED BY <1>2, <1>3, <1>4 DEF IInv

\* Every step keeps the invariant.
LEMMA NextKeeps == ASSUME IInv, [Next]_vars PROVE IInv'
<1>1. CASE Step
  BY <1>1, RecoverKeeps, EnterKeeps, GatherKeeps, StageFailsKeeps, ReadKeeps,
     PrefetchNextKeeps, FuseKeeps, FinishKeeps, OutputKeeps, FallbackKeeps DEF Step
<1>2. CASE Next /\ ~Step
  BY <1>2, ReleaseKeeps, RunKeeps, ErrsKeeps, LoadDoneKeeps, CrashKeeps DEF Next
<1>3. CASE UNCHANGED vars
  BY <1>3, StutterKeeps
<1> QED BY <1>1, <1>2, <1>3

-----------------------------------------------------------------------------
(* What the pages and the rows of a pass hold                               *)

\* The rows that a page of a plan holds.
PageRows(p, layer) == [i \in DOMAIN Kept(p) |-> [of |-> Kept(p)[i], depth |-> layer]]

\* Whoever stored a page stored what each of its requests would have.
PagesExact ==
    \A p \in Requests, layer \in 0 .. Layers - 1, kind \in {"state", "kv"} :
        Accepts(p) /\ Page(p, layer, kind) \in Stored =>
            pages[Page(p, layer, kind)] = PageRows(p, layer)

\* A populating request corrects nothing, and only a reusing one reads.
Modes ==
    /\ write => ~reuse
    /\ at \in {"read", "prefetch"} => reuse

\* The rows of a layer: of which tokens, and which K/V stand beside them.
RowsHeld ==
    /\ Computing =>
         /\ DOMAIN hidden = DOMAIN order
         /\ \A i \in DOMAIN order : /\ order[i] \in Prompt(plan)
                                    /\ hidden[i] = RowAt(order[i], index)
         /\ \A t \in Mandatory(plan) : Has(order, t)
         /\ wca = None => \A t \in Prompt(plan) : Has(order, t)
    /\ at \in {"prefetch", "fuse"} /\ reuse =>
         \A t \in Fixed(plan) : kv[t] = RowAt(t, index)
    /\ at = "finish" => \A t \in Prompt(plan) : kv[t] = RowAt(t, index)
    /\ at = "output" => index = Layers

\* At which layer the weight of each token was measured.
Weighed ==
    wca # None /\ Computing =>
        /\ wca.alpha \in [Prompt(plan) -> Nat] /\ wca.deviation \in [Prompt(plan) -> Nat]
        /\ \A t \in Prompt(plan) :
              wca.alpha[t] = IF at = "finish" /\ Has(order, t) THEN index + 1 ELSE ran[t]

\* The policy of the positions that the pass has used so far.
Policed ==
    /\ at \in {"recover", "enter"} => policies = {}
    /\ Computing => policies = IF index = 0 /\ at # "finish" THEN {} ELSE {profiled}

RInv == PagesExact /\ Modes /\ RowsHeld /\ Weighed /\ WeightsTimely /\ Policed /\ OutputSound

-----------------------------------------------------------------------------
(* What the rows rest on                                                    *)

\* The tokens of an accepted plan.
LEMMA PlanSets ==
    ASSUME NEW p \in Requests, Accepts(p)
    PROVE  /\ Prompt(p) \in SUBSET Int /\ IsFiniteSet(Prompt(p))
           /\ Fixed(p) \subseteq Prompt(p) /\ IsFiniteSet(Fixed(p))
           /\ Mandatory(p) \subseteq Prompt(p) /\ Prompt(p) \ Fixed(p) \subseteq Mandatory(p)
           /\ Len(p.tokens) - 1 \in Mandatory(p)
<1>1. IsPlan(p)
  BY RequestAssumption
<1>2. Len(p.tokens) \in Nat /\ Len(p.tokens) > 0
  BY <1>1, ChunkFacts DEF Accepts
<1>3. Prompt(p) \in SUBSET Int /\ IsFiniteSet(Prompt(p)) /\ Len(p.tokens) - 1 \in Prompt(p)
  BY <1>2, FS_Interval DEF Prompt
<1>4. Mandatory(p) \subseteq Prompt(p) /\ Fixed(p) \subseteq Prompt(p)
  BY <1>3 DEF Mandatory, Fixed, InRole
<1>5. Len(p.tokens) - 1 \in Mandatory(p)
  BY DEF Mandatory
<1> QED BY <1>1, <1>3, <1>4, <1>5, FixedOrMandatory

\* Where a sequence has a token, there it is.
LEMMA Placed ==
    ASSUME NEW tokens, NEW t, Has(tokens, t)
    PROVE  Place(tokens, t) \in DOMAIN tokens /\ tokens[Place(tokens, t)] = t
BY DEF Has, Place

\* A set in its order has its members, and no others.
LEMMA AscendingHas ==
    ASSUME NEW S \in SUBSET Int, IsFiniteSet(S)
    PROVE  /\ \A t : Has(Ascending(S), t) <=> t \in S
           /\ \A i \in DOMAIN Ascending(S) : Ascending(S)[i] \in S
<1>1. /\ DOMAIN Ascending(S) = 1 .. Cardinality(S)
      /\ \A i \in 1 .. Cardinality(S) : Ascending(S)[i] \in S
      /\ \A s \in S : \E i \in 1 .. Cardinality(S) : Ascending(S)[i] = s
  BY AscendingRanks
<1> QED BY <1>1 DEF Has

\* A page's row in the place of a fixed token is that token's.
LEMMA PageRow ==
    ASSUME plan \in Requests, Accepts(plan), NEW t \in Fixed(plan), NEW layer
    PROVE  PageRows(plan, layer)[Place(FixedOrder, t)] = RowAt(t, layer)
<1>1. Fixed(plan) \in SUBSET Int /\ IsFiniteSet(Fixed(plan))
  BY PlanSets
<1>2. Has(FixedOrder, t)
  BY <1>1, AscendingHas DEF FixedOrder
<1>3. Place(FixedOrder, t) \in DOMAIN FixedOrder /\ FixedOrder[Place(FixedOrder, t)] = t
  BY <1>2, Placed
<1>4. /\ DOMAIN Kept(plan) = DOMAIN FixedOrder
      /\ \A i \in DOMAIN FixedOrder : Kept(plan)[i] = TokenAt(plan, FixedOrder[i])
  BY DEF Kept, FixedOrder
<1> QED BY <1>3, <1>4 DEF PageRows, RowAt

\* The rows of the fixed tokens, in their order, are those of the page.
LEMMA FixedRowsExact ==
    ASSUME plan \in Requests, Accepts(plan), NEW layer,
           \A t \in Prompt(plan) : Has(order, t),
           \A i \in DOMAIN order : hidden[i] = RowAt(order[i], layer)
    PROVE  FixedRows(hidden) = PageRows(plan, layer)
<1>1. /\ Fixed(plan) \in SUBSET Int /\ IsFiniteSet(Fixed(plan))
      /\ Fixed(plan) \subseteq Prompt(plan)
  BY PlanSets
<1>2. \A i \in DOMAIN FixedOrder : FixedOrder[i] \in Prompt(plan)
  BY <1>1, AscendingHas DEF FixedOrder
<1>3. ASSUME NEW i \in DOMAIN FixedOrder
      PROVE  hidden[Place(order, FixedOrder[i])] = RowAt(FixedOrder[i], layer)
  <2>1. Has(order, FixedOrder[i])
    BY <1>2
  <2>2. /\ Place(order, FixedOrder[i]) \in DOMAIN order
        /\ order[Place(order, FixedOrder[i])] = FixedOrder[i]
    BY <2>1, Placed
  <2> QED BY <2>2
<1>4. /\ DOMAIN Kept(plan) = DOMAIN FixedOrder
      /\ \A i \in DOMAIN FixedOrder : Kept(plan)[i] = TokenAt(plan, FixedOrder[i])
  BY DEF Kept, FixedOrder
<1> QED BY <1>3, <1>4 DEF PageRows, RowAt, FixedRows

\* No page is changed; pages may go.
LEMMA PagesStay ==
    ASSUME PagesExact, UNCHANGED pages \/ \E S : pages' = Without(S)
    PROVE  PagesExact'
<1>1. \A x \in DOMAIN pages' : x \in DOMAIN pages /\ pages'[x] = pages[x]
  BY DEF Without, Stored
<1> SUFFICES ASSUME NEW p \in Requests, NEW layer \in 0 .. Layers - 1,
                    NEW kind \in {"state", "kv"},
                    Accepts(p), Page(p, layer, kind) \in DOMAIN pages'
             PROVE  pages'[Page(p, layer, kind)] = PageRows(p, layer)
  BY DEF PagesExact, Stored
<1> QED BY <1>1 DEF PagesExact, Stored

\* A request's own page holds what all requests with its key would store.
LEMMA PagesPut ==
    ASSUME PagesExact, plan \in Requests, Accepts(plan),
           NEW layer \in 0 .. Layers - 1, NEW kind \in {"state", "kv"},
           pages' = With(Page(plan, layer, kind), PageRows(plan, layer))
    PROVE  PagesExact'
<1> DEFINE own == Page(plan, layer, kind)
<1>1. /\ DOMAIN pages' = DOMAIN pages \cup {own}
      /\ pages'[own] = PageRows(plan, layer)
      /\ \A x \in DOMAIN pages : x # own => pages'[x] = pages[x]
  BY DEF With, Stored
<1> SUFFICES ASSUME NEW p \in Requests, NEW l \in 0 .. Layers - 1, NEW k \in {"state", "kv"},
                    Accepts(p), Page(p, l, k) \in DOMAIN pages'
             PROVE  pages'[Page(p, l, k)] = PageRows(p, l)
  BY DEF PagesExact, Stored
<1>2. CASE Page(p, l, k) = own
  <2>1. CacheKey(p, l) = CacheKey(plan, layer)
    BY <1>2 DEF Page
  <2>2. l = layer /\ Kept(p) = Kept(plan)
    BY <2>1, RequestAssumption, SameKeySameRows
  <2> HIDE DEF own
  <2> QED BY <1>1, <1>2, <2>2 DEF PageRows
<1>3. CASE Page(p, l, k) # own
  <2> HIDE DEF own
  <2>1. Page(p, l, k) \in DOMAIN pages
    BY <1>1, <1>3
  <2> QED BY <1>1, <1>3, <2>1 DEF PagesExact, Stored
<1> QED BY <1>2, <1>3

\* The marker is no page of rows.
LEMMA PagesMarked ==
    ASSUME PagesExact, pages' = With(Marker(plan), <<>>)
    PROVE  PagesExact'
<1> DEFINE own == Marker(plan)
<1>1. /\ DOMAIN pages' = DOMAIN pages \cup {own}
      /\ \A x \in DOMAIN pages : x # own => pages'[x] = pages[x]
  BY DEF With, Stored
<1> SUFFICES ASSUME NEW p \in Requests, NEW l \in 0 .. Layers - 1, NEW k \in {"state", "kv"},
                    Accepts(p), Page(p, l, k) \in DOMAIN pages'
             PROVE  pages'[Page(p, l, k)] = PageRows(p, l)
  BY DEF PagesExact, Stored
<1>2. Page(p, l, k) # own
  BY DEF Page, Marker
<1> HIDE DEF own
<1> QED BY <1>1, <1>2 DEF PagesExact, Stored

-----------------------------------------------------------------------------
(* The steps at which no layer is being computed                            *)

\* Outside the layers there are no rows to hold.
LEMMA NoRowsHeld ==
    ASSUME PagesExact', Modes', OutputSound',
           at' \in {"idle", "fallback", "plain", "recover", "enter"},
           at' \in {"recover", "enter"} => policies' = {}
    PROVE  RInv'
BY DEF RInv, RowsHeld, Weighed, WeightsTimely, Policed, Computing

\* A failure keeps the pages and stands for no output.
LEMMA FailsRows ==
    ASSUME IInv, RInv, at # "idle", NEW answer \in {"fallback", "plain"}, Fails(answer),
           UNCHANGED <<pages, reuse, write>>
    PROVE  RInv'
<1>1. at' \in {"idle", "fallback", "plain"} /\ outcome' # "returned"
  BY DEF Fails, IInv, Calling
<1>2. PagesExact' /\ Modes' /\ OutputSound'
  BY <1>1, PagesStay DEF RInv, Modes, OutputSound
<1> QED BY <1>1, <1>2, NoRowsHeld

\* A request that begins, or goes, without rows.
LEMMA BeginsRows ==
    ASSUME RInv, \E S : pages' = Without(S), outcome' = "none", policies' = {},
           at' \in {"idle", "recover", "enter"}, write' => ~reuse'
    PROVE  RInv'
<1>1. PagesExact'
  BY PagesStay DEF RInv
<1>2. Modes' /\ OutputSound'
  BY DEF Modes, OutputSound
<1> QED BY <1>1, <1>2, NoRowsHeld

\* There are no pages, no rows and no output at the start.
LEMMA InitRows == Init => RInv
<1> SUFFICES ASSUME Init PROVE RInv
  OBVIOUS
<1>1. at = "idle" /\ outcome = "none" /\ write = FALSE /\ Stored = {}
  BY DEF Init, Stored
<1>2. PagesExact
  BY <1>1 DEF PagesExact
<1> QED BY <1>1, <1>2
        DEF RInv, Modes, OutputSound, RowsHeld, Weighed, WeightsTimely, Policed, Computing

LEMMA ReleaseRows == ASSUME IInv, RInv, Release PROVE RInv'
BY BeginsRows DEF Release, Retire, NoPass

LEMMA RunRows ==
    ASSUME IInv, RInv, NEW p \in Requests, NEW profiles \in BOOLEAN, Run(p, profiles) PROVE RInv'
<1>1. (\E S : pages' = Without(S)) /\ outcome' = "none" /\ policies' = {}
      /\ at' \in {"idle", "recover", "enter"}
  BY DEF Run, Retire, NoPass
<1>2. write' => ~reuse'
  BY DEF Run
<1> QED BY <1>1, <1>2, BeginsRows

LEMMA FallbackRows == ASSUME IInv, RInv, Fallback PROVE RInv'
<1>1. outcome' = "none"
  BY DEF Fallback, IInv, Calling
<1> QED BY <1>1, BeginsRows DEF Fallback, Forgotten, NoPass

LEMMA CrashRows == ASSUME IInv, RInv, NEW lost, Crash(lost) PROVE RInv'
BY BeginsRows DEF Crash, NoPass

\* A run that raises has no output.
LEMMA ErrsRows == ASSUME IInv, RInv, Errs PROVE RInv'
<1>1. at' = "idle" /\ outcome' = "raised" /\ UNCHANGED <<pages, reuse, write>>
  BY DEF Errs, store, request
<1>2. PagesExact' /\ Modes' /\ OutputSound'
  BY <1>1, PagesStay DEF RInv, Modes, OutputSound
<1> QED BY <1>1, <1>2, NoRowsHeld

LEMMA RecoverRows == ASSUME IInv, RInv, Recover PROVE RInv'
<1>1. at = "recover" /\ UNCHANGED <<reuse, write, policies>>
  BY DEF Recover, request, pass
<1>2. CASE Fails("fallback") /\ UNCHANGED pages
  BY <1>1, <1>2, FailsRows
<1>3. CASE pages' = Without(LayerPages(plan)) /\ Continues("enter")
  <2>1. at' = "enter" /\ outcome' = "none" /\ policies' = {}
    BY <1>1, <1>3 DEF Continues, IInv, Calling, RInv, Policed
  <2> QED BY <1>1, <1>3, <2>1, BeginsRows DEF RInv, Modes
<1> QED BY <1>1, <1>2, <1>3 DEF Recover

\* The end of a load and a step that changes nothing leave all this alone.
LEMMA QuietRows ==
    ASSUME RInv, UNCHANGED <<pages, request, wca, at, pass, outcome>>
    PROVE  RInv'
<1>1. UNCHANGED <<pages, plan, reuse, write, profiled, wca, at, index, order, hidden, kv,
                  fused, ran, policies, output, outcome>>
  BY DEF request, pass, rows
<1>2. PagesExact'
  BY <1>1, PagesStay DEF RInv
<1>3. Modes' /\ Policed'
  BY <1>1 DEF RInv, Modes, Policed, Computing
<1>4. RowsHeld'
  BY <1>1 DEF RInv, RowsHeld, Computing, RowAt
<1>5. Weighed' /\ WeightsTimely'
  BY <1>1 DEF RInv, Weighed, WeightsTimely, Computing
<1>6. OutputSound'
  BY <1>1 DEF RInv, OutputSound, RowAt
<1> QED BY <1>2, <1>3, <1>4, <1>5, <1>6 DEF RInv

-----------------------------------------------------------------------------
(* The steps of a layer                                                     *)

\* What every step of a layer knows of its request.
LEMMA LayerRequest ==
    ASSUME IInv, Computing
    PROVE  /\ plan \in Requests /\ Accepts(plan) /\ outcome = "none" /\ index \in Nat
           /\ at # "output" => index \in 0 .. Layers - 1
<1>1. at # "idle" /\ at # "recover" /\ at # "enter"
  BY DEF Computing
<1>2. plan # None /\ outcome = "none" /\ index \in Nat
  BY <1>1 DEF IInv, Calling
<1>3. plan \in Requests /\ Accepts(plan)
  BY <1>2 DEF IInv, Calling
<1>4. at # "output" => index < Layers
  BY DEF IInv, Calling, Computing
<1> QED BY <1>2, <1>3, <1>4, LayersAssumption

\* All rows are there at first, fresh from the embedding.
LEMMA EnterRows == ASSUME IInv, RInv, Enter PROVE RInv'
<1>1. at = "enter" /\ UNCHANGED <<pages, plan, reuse, write, profiled, wca, index, policies>>
  BY DEF Enter, request
<1>2. /\ plan \in Requests /\ Accepts(plan) /\ index = 0 /\ wca = None
      /\ policies = {} /\ outcome = "none"
  BY <1>1 DEF IInv, Calling, Correcting, RInv, Policed
<1>3. Fails("fallback") \/ Continues("gather")
  BY DEF Enter, Prefetch
<1>4. CASE Fails("fallback")
  BY <1>1, <1>4, FailsRows
<1>5. CASE Continues("gather")
  <2>1. at' = "gather" /\ outcome' = "none"
    BY <1>2, <1>5 DEF Continues
  <2>2. PagesExact' /\ Modes' /\ Policed' /\ OutputSound' /\ WeightsTimely' /\ Weighed'
    BY <1>1, <1>2, <2>1, PagesStay
       DEF RInv, Modes, Policed, OutputSound, WeightsTimely, Weighed, Computing
  <2>3. /\ \A i \in DOMAIN order' : order'[i] \in Prompt(plan)
        /\ \A t \in Prompt(plan) : Has(order', t)
        /\ Mandatory(plan) \subseteq Prompt(plan)
    <3>1. /\ Prompt(plan) \in SUBSET Int /\ IsFiniteSet(Prompt(plan))
          /\ Mandatory(plan) \subseteq Prompt(plan)
      BY <1>2, PlanSets
    <3>2. order' = Ascending(Prompt(plan))
      BY DEF Enter
    <3> QED BY <3>1, <3>2, AscendingHas
  <2>4. hidden' = [i \in DOMAIN order' |-> RowAt(order'[i], 0)]
    BY DEF Enter
  <2>5. RowsHeld'
    BY <1>1, <1>2, <2>1, <2>3, <2>4 DEF RowsHeld, Computing, RowAt
  <2> QED BY <2>2, <2>5 DEF RInv
<1> QED BY <1>3, <1>4, <1>5

\* A failed load is found before the layer reads.
LEMMA StageFailsRows == ASSUME IInv, RInv, StageFails PROVE RInv'
BY FailsRows DEF StageFails, store, request

\* The read brings the rows of the layer that whoever stored them computed.
LEMMA ReadRows == ASSUME IInv, RInv, Read PROVE RInv'
<1>1. /\ at = "read"
      /\ UNCHANGED <<pages, plan, reuse, write, profiled, wca, index, order, hidden, fused,
                     ran, policies, output>>
  BY DEF Read, store, request
<1>2. plan \in Requests /\ Accepts(plan) /\ outcome = "none" /\ index \in 0 .. Layers - 1
  BY <1>1, LayerRequest DEF Computing
<1>3. CASE Fails("fallback")
  BY <1>1, <1>3, FailsRows
<1>4. CASE /\ Page(plan, index, "kv") \in Stored
           /\ kv' = [t \in Prompt(plan) |->
                      IF t \in Fixed(plan)
                      THEN pages[Page(plan, index, "kv")][Place(FixedOrder, t)] ELSE Zero]
           /\ Continues("prefetch")
  <2>1. at' = "prefetch" /\ outcome' = "none"
    BY <1>2, <1>4 DEF Continues
  <2>2. PagesExact' /\ Modes' /\ OutputSound' /\ WeightsTimely'
    BY <1>1, <2>1, PagesStay DEF RInv, Modes, OutputSound, WeightsTimely
  <2>3. Policed' /\ Weighed'
    BY <1>1, <2>1 DEF RInv, Policed, Weighed, Computing
  <2>4. \A t \in Fixed(plan) : kv'[t] = RowAt(t, index)
    <3> SUFFICES ASSUME NEW t \in Fixed(plan) PROVE kv'[t] = RowAt(t, index)
      OBVIOUS
    <3>1. t \in Prompt(plan)
      BY DEF Fixed, InRole
    <3>2. pages[Page(plan, index, "kv")] = PageRows(plan, index)
      BY <1>2, <1>4 DEF RInv, PagesExact
    <3>3. PageRows(plan, index)[Place(FixedOrder, t)] = RowAt(t, index)
      BY <1>2, PageRow
    <3> QED BY <1>4, <3>1, <3>2, <3>3
  <2>5. RowsHeld'
    BY <1>1, <2>1, <2>4 DEF RInv, RowsHeld, Computing, RowAt
  <2> QED BY <2>2, <2>3, <2>5 DEF RInv
<1> QED BY <1>3, <1>4 DEF Read

\* The next layer's prefetch touches no row.
LEMMA PrefetchNextRows == ASSUME IInv, RInv, PrefetchNext PROVE RInv'
<1>1. /\ at = "prefetch"
      /\ UNCHANGED <<pages, plan, reuse, write, profiled, wca, index, order, hidden, kv, fused,
                     ran, policies, output>>
  BY DEF PrefetchNext, request, pass, rows
<1>2. outcome = "none"
  BY <1>1, LayerRequest DEF Computing
<1>3. Fails("fallback") \/ Continues("fuse")
  BY DEF PrefetchNext, Prefetch
<1>4. CASE Fails("fallback")
  BY <1>1, <1>4, FailsRows
<1>5. CASE Continues("fuse")
  <2>1. at' = "fuse" /\ outcome' = "none"
    BY <1>2, <1>5 DEF Continues
  <2>2. PagesExact' /\ Modes' /\ OutputSound' /\ WeightsTimely'
    BY <1>1, <2>1, PagesStay DEF RInv, Modes, OutputSound, WeightsTimely
  <2>3. Policed' /\ Weighed'
    BY <1>1, <2>1 DEF RInv, Policed, Weighed, Computing
  <2>4. RowsHeld'
    BY <1>1, <2>1 DEF RInv, RowsHeld, Computing, RowAt
  <2> QED BY <2>2, <2>3, <2>4 DEF RInv
<1> QED BY <1>3, <1>4, <1>5

\* A row that continues or comes from the snapshot is its token's, of this layer.
LEMMA GatheredExact ==
    ASSUME PagesExact, plan \in Requests, Accepts(plan), index \in 0 .. Layers - 1,
           \A i \in DOMAIN order : hidden[i] = RowAt(order[i], index),
           NEW t, ~Continuing(t) => t \in Fixed(plan) /\ Page(plan, index, "state") \in Stored
    PROVE  Gathered(t) = RowAt(t, index)
<1>1. CASE Continuing(t)
  <2>1. Place(order, t) \in DOMAIN order /\ order[Place(order, t)] = t
    BY <1>1, Placed DEF Continuing
  <2> QED BY <1>1, <2>1 DEF Gathered
<1>2. CASE ~Continuing(t)
  <2>1. pages[Page(plan, index, "state")] = PageRows(plan, index)
    BY <1>2 DEF PagesExact
  <2>2. PageRows(plan, index)[Place(FixedOrder, t)] = RowAt(t, index)
    BY <1>2, PageRow
  <2> QED BY <1>2, <2>1, <2>2 DEF Gathered, Restored
<1> QED BY <1>1, <1>2

\* The layer goes on with the tokens of the selection, or with all.
LEMMA GatherRows == ASSUME IInv, RInv, Gather PROVE RInv'
<1>1. /\ at = "gather" /\ UNCHANGED <<plan, reuse, write, profiled, wca, index, kv, fused, ran,
                                      policies, output>>
  BY DEF Gather
<1>2. plan \in Requests /\ Accepts(plan) /\ outcome = "none" /\ index \in 0 .. Layers - 1
  BY <1>1, LayerRequest DEF Computing
<1>3. /\ DOMAIN hidden = DOMAIN order
      /\ \A i \in DOMAIN order : order[i] \in Prompt(plan) /\ hidden[i] = RowAt(order[i], index)
      /\ \A t \in Mandatory(plan) : Has(order, t)
      /\ wca = None => \A t \in Prompt(plan) : Has(order, t)
  BY <1>1 DEF RInv, RowsHeld, Computing
<1>4. CASE Fails("fallback") /\ UNCHANGED pages
  BY <1>1, <1>4, FailsRows
<1>5. CASE /\ \A i \in DOMAIN Active :
                ~Continuing(Active[i]) =>
                  (Active[i] \in Fixed(plan) /\ Page(plan, index, "state") \in Stored)
           /\ order' = Active
           /\ hidden' = [i \in DOMAIN Active |-> Gathered(Active[i])]
           /\ IF write THEN Put("state", FixedRows(hidden)) ELSE UNCHANGED <<pages, created>>
           /\ Continues(IF reuse THEN "read" ELSE "fuse")
  <2>1. at' = (IF reuse THEN "read" ELSE "fuse") /\ outcome' = "none"
    BY <1>2, <1>5 DEF Continues
  <2>2. PagesExact'
    <3>1. CASE write
      <4>1. wca = None
        BY <3>1 DEF RInv, Modes, IInv, Correcting
      <4>2. FixedRows(hidden) = PageRows(plan, index)
        BY <1>2, <1>3, <4>1, FixedRowsExact
      <4>3. pages' = With(Page(plan, index, "state"), PageRows(plan, index))
        BY <1>5, <3>1, <4>2 DEF Put
      <4> QED BY <1>2, <4>3, PagesPut DEF RInv
    <3>2. CASE ~write
      BY <1>5, <3>2, PagesStay DEF RInv
    <3> QED BY <3>1, <3>2
  <2>3. Modes' /\ OutputSound' /\ WeightsTimely'
    BY <1>1, <2>1 DEF RInv, Modes, OutputSound, WeightsTimely
  <2>4. Policed'
    BY <1>1, <2>1 DEF RInv, Policed, Computing
  <2>5. Weighed'
    BY <1>1, <2>1 DEF RInv, Weighed, Computing
  <2>6. /\ \A i \in DOMAIN Active : Active[i] \in Prompt(plan)
        /\ \A t \in Mandatory(plan) : Has(Active, t)
        /\ wca = None => \A t \in Prompt(plan) : Has(Active, t)
    <3>1. CASE wca = None
      BY <1>3, <3>1 DEF Active
    <3>2. CASE wca # None
      <4> DEFINE A == ActiveTokens(wca)
      <4>1. /\ Active = Ascending(A) /\ Mandatory(plan) \subseteq A
            /\ A \subseteq Fixed(plan) \cup Mandatory(plan)
        <5>1. /\ wca.mandatory = Mandatory(plan) /\ wca.selected \subseteq wca.candidate
              /\ wca.candidate \subseteq Fixed(plan)
          BY <3>2 DEF IInv, Correcting, Selecting, BestSelected
        <5> QED BY <3>2, <5>1 DEF Active, ActiveTokens
      <4>2. A \in SUBSET Int /\ A \subseteq Prompt(plan) /\ IsFiniteSet(A)
        <5>1. /\ Prompt(plan) \in SUBSET Int /\ IsFiniteSet(Prompt(plan))
              /\ Fixed(plan) \subseteq Prompt(plan) /\ Mandatory(plan) \subseteq Prompt(plan)
          BY <1>2, PlanSets
        <5>2. A \subseteq Prompt(plan)
          BY <4>1, <5>1
        <5> QED BY <5>1, <5>2, FS_Subset
      <4> HIDE DEF A
      <4>3. /\ \A t : Has(Ascending(A), t) <=> t \in A
            /\ \A i \in DOMAIN Ascending(A) : Ascending(A)[i] \in A
        BY <4>2, AscendingHas
      <4> QED BY <3>2, <4>1, <4>2, <4>3
    <3> QED BY <3>1, <3>2
  <2>7. \A i \in DOMAIN Active : Gathered(Active[i]) = RowAt(Active[i], index)
    <3> SUFFICES ASSUME NEW i \in DOMAIN Active
                 PROVE  Gathered(Active[i]) = RowAt(Active[i], index)
      OBVIOUS
    <3>1. ~Continuing(Active[i]) =>
             Active[i] \in Fixed(plan) /\ Page(plan, index, "state") \in Stored
      BY <1>5
    <3>2. PagesExact /\ \A j \in DOMAIN order : hidden[j] = RowAt(order[j], index)
      BY <1>3 DEF RInv
    <3> QED BY <1>2, <3>1, <3>2, GatheredExact
  <2>8. /\ DOMAIN hidden' = DOMAIN order'
        /\ \A i \in DOMAIN order' : hidden'[i] = RowAt(order'[i], index)
    BY <1>5, <2>7
  <2>9. RowsHeld'
    <3>1. at' \in {"read", "fuse"} /\ (at' = "fuse" => ~reuse)
      BY <2>1
    <3>2. /\ \A i \in DOMAIN order' : order'[i] \in Prompt(plan)
          /\ \A t \in Mandatory(plan) : Has(order', t)
          /\ wca = None => \A t \in Prompt(plan) : Has(order', t)
      BY <1>5, <2>6
    <3> QED BY <1>1, <2>8, <3>1, <3>2 DEF RowsHeld, Computing, RowAt
  <2> QED BY <2>2, <2>3, <2>4, <2>5, <2>9 DEF RInv
<1> QED BY <1>4, <1>5 DEF Gather

\* An update leaves a state, not None.
LEMMA UpdatedIsState ==
    ASSUME IInv, wca # None, plan \in Requests, Accepts(plan), index \in 0 .. Layers - 1,
           wca.alpha \in [Prompt(plan) -> Nat], wca.deviation \in [Prompt(plan) -> Nat],
           NEW x \in Updated(wca, index + 1)
    PROVE  x # None
<1>1. /\ Fixed(plan) \subseteq Prompt(plan) /\ IsFiniteSet(Fixed(plan))
      /\ Mandatory(plan) \subseteq Prompt(plan)
  BY PlanSets
<1>2. Selecting(wca, Fixed(plan)) /\ wca.mandatory = Mandatory(plan)
  BY DEF IInv, Correcting
<1>3. Selecting(x, Fixed(plan)) /\ x.mandatory = Mandatory(plan) /\ x.last = index + 1
  BY <1>1, <1>2, UpdatedBest
<1>4. x.alpha \in [Prompt(plan) -> Nat] /\ x.deviation \in [Prompt(plan) -> Nat]
  <2>1. x.alpha = Remeasured(wca, index + 1) /\ x.deviation = wca.deviation
    BY <1>2, UpdatedWeights DEF Selecting
  <2> QED BY <2>1, LayersAssumption DEF Remeasured
<1>5. x \in WCAStates(plan)
  <2>1. /\ x.mandatory \in SUBSET Prompt(plan) /\ x.candidate \in SUBSET Prompt(plan)
        /\ x.selected \in SUBSET Prompt(plan) /\ x.removed \in SUBSET Prompt(plan)
        /\ x.budget \in Nat /\ x.last \in Nat
    BY <1>1, <1>3 DEF Selecting, BestSelected
  <2>2. Shape(x)
    BY <1>3 DEF Selecting
  <2> QED BY <1>4, <2>1, <2>2 DEF WCAStates, Shape
<1> QED BY <1>5, NoneAssumption

\* A layer's K/V are those of all tokens, and each weight is of its last layer.
LEMMA FuseRows == ASSUME IInv, RInv, Fuse PROVE RInv'
<1>1. /\ at = "fuse"
      /\ UNCHANGED <<plan, reuse, write, profiled, index, order, hidden, ran, output>>
  BY DEF Fuse
<1>2. plan \in Requests /\ Accepts(plan) /\ outcome = "none" /\ index \in 0 .. Layers - 1
  BY <1>1, LayerRequest DEF Computing
<1>3. /\ DOMAIN hidden = DOMAIN order
      /\ \A i \in DOMAIN order : order[i] \in Prompt(plan) /\ hidden[i] = RowAt(order[i], index)
      /\ \A t \in Mandatory(plan) : Has(order, t)
      /\ wca = None => \A t \in Prompt(plan) : Has(order, t)
      /\ reuse => \A t \in Fixed(plan) : kv[t] = RowAt(t, index)
  BY <1>1 DEF RInv, RowsHeld, Computing
<1>4. wca # None => /\ reuse /\ Shape(wca) /\ wca.mandatory = Mandatory(plan)
                    /\ order = Ascending(ActiveTokens(wca))
                    /\ wca.alpha \in [Prompt(plan) -> Nat]
                    /\ wca.deviation \in [Prompt(plan) -> Nat]
                    /\ \A t \in Prompt(plan) : wca.alpha[t] = ran[t]
  BY <1>1 DEF IInv, Correcting, Selecting, RInv, Weighed, Computing
<1>5. CASE UNCHANGED pages /\ (Fails("fallback") \/ Fails("plain"))
  BY <1>1, <1>5, FailsRows
<1>6. CASE /\ Correct
           /\ fused' = IF Sparse THEN [t \in Prompt(plan) |-> UsedWeight(wca, t, index + 1)]
                                 ELSE <<>>
           /\ kv' = [t \in Prompt(plan) |-> IF Has(order, t) THEN hidden[Place(order, t)]
                                            ELSE IF Sparse THEN kv[t] ELSE Zero]
           /\ policies' = policies \cup {profiled}
           /\ IF write THEN Put("kv", FixedRows(hidden)) ELSE UNCHANGED <<pages, created>>
           /\ Continues("finish")
  <2>1. at' = "finish" /\ outcome' = "none"
    BY <1>2, <1>6 DEF Continues
  <2>2. PagesExact'
    <3>1. CASE write
      <4>1. wca = None
        BY <3>1, <1>4 DEF RInv, Modes
      <4>2. FixedRows(hidden) = PageRows(plan, index)
        BY <1>2, <1>3, <4>1, FixedRowsExact
      <4>3. pages' = With(Page(plan, index, "kv"), PageRows(plan, index))
        BY <1>6, <3>1, <4>2 DEF Put
      <4> QED BY <1>2, <4>3, PagesPut DEF RInv
    <3>2. CASE ~write
      BY <1>6, <3>2, PagesStay DEF RInv
    <3> QED BY <3>1, <3>2
  <2>3. Modes' /\ OutputSound'
    BY <1>1, <2>1 DEF RInv, Modes, OutputSound
  <2>4. Policed'
    BY <1>1, <1>6, <2>1 DEF RInv, Policed, Computing
  <2>5. \A t \in Prompt(plan) : kv'[t] = RowAt(t, index)
    <3> SUFFICES ASSUME NEW t \in Prompt(plan) PROVE kv'[t] = RowAt(t, index)
      OBVIOUS
    <3>1. CASE Has(order, t)
      <4>1. Place(order, t) \in DOMAIN order /\ order[Place(order, t)] = t
        BY <3>1, Placed
      <4> QED BY <1>3, <1>6, <3>1, <4>1
    <3>2. CASE ~Has(order, t)
      <4>1. wca # None
        BY <1>3, <3>2
      <4>2. Sparse /\ reuse
        BY <1>4, <4>1 DEF Sparse
      <4>3. t \in Fixed(plan)
        BY <1>2, <1>3, <3>2, PlanSets
      <4> QED BY <1>3, <1>6, <3>2, <4>2, <4>3
    <3> QED BY <3>1, <3>2
  <2>6. RowsHeld'
    <3>1. wca' = None => \A t \in Prompt(plan) : Has(order, t)
      <4>1. CASE wca = None
        BY <1>3, <4>1
      <4>2. CASE wca # None
        <5>1. Sparse /\ wca' \in Updated(wca, index + 1)
          BY <1>4, <1>6, <4>2 DEF Correct, Sparse, Observes
        <5> QED BY <1>2, <1>4, <4>2, <5>1, UpdatedIsState
      <4> QED BY <4>1, <4>2
    <3> QED BY <1>1, <1>3, <2>1, <2>5, <3>1 DEF RowsHeld, Computing, RowAt
  <2>7. WeightsTimely'
    <3>1. CASE Sparse
      <4>1. wca # None
        BY <3>1 DEF Sparse
      <4>2. \A i \in DOMAIN order :
               fused'[order[i]] = IF order[i] \in Mandatory(plan) THEN Fresh
                                  ELSE IF WeightUpdate = "previous_layer" THEN ran[order[i]]
                                  ELSE index + 1
        BY <1>3, <1>4, <1>6, <3>1, <4>1 DEF UsedWeight
      <4> QED BY <1>1, <4>2 DEF WeightsTimely
    <3>2. CASE ~Sparse
      BY <1>6, <3>2 DEF WeightsTimely
    <3> QED BY <3>1, <3>2
  <2>8. Weighed'
    <3>1. CASE Sparse /\ wca' \in Updated(wca, index + 1)
      <4>1. wca # None
        BY <3>1 DEF Sparse
      <4> DEFINE A == ActiveTokens(wca)
      <4>2. A \in SUBSET Int /\ IsFiniteSet(A)
        <5>1. /\ Prompt(plan) \in SUBSET Int /\ IsFiniteSet(Prompt(plan))
              /\ Fixed(plan) \subseteq Prompt(plan) /\ Mandatory(plan) \subseteq Prompt(plan)
          BY <1>2, PlanSets
        <5>2. /\ wca.mandatory = Mandatory(plan) /\ wca.selected \subseteq wca.candidate
              /\ wca.candidate \subseteq Fixed(plan)
          BY <4>1 DEF IInv, Correcting, Selecting, BestSelected
        <5>3. A \subseteq Prompt(plan)
          BY <5>1, <5>2 DEF ActiveTokens
        <5> HIDE DEF A
        <5> QED BY <5>1, <5>3, FS_Subset
      <4>3. \A t : Has(order, t) <=> t \in A
        <5>1. order = Ascending(A)
          BY <1>4, <4>1
        <5> HIDE DEF A
        <5> QED BY <4>2, <5>1, AscendingHas
      <4>4. wca'.alpha = Remeasured(wca, index + 1)
        BY <1>4, <3>1, <4>1, UpdatedWeights
      <4>5. \A t \in Prompt(plan) :
               wca'.alpha[t] = IF Has(order, t) THEN index + 1 ELSE ran[t]
        BY <1>4, <4>1, <4>3, <4>4 DEF Remeasured
      <4>6. wca'.alpha \in [Prompt(plan) -> Nat] /\ wca'.deviation \in [Prompt(plan) -> Nat]
        <5>1. wca'.deviation = wca.deviation
          BY <1>4, <3>1, <4>1, UpdatedWeights
        <5> QED BY <1>2, <1>4, <4>1, <4>4, <5>1 DEF Remeasured
      <4> QED BY <1>1, <2>1, <4>5, <4>6 DEF Weighed
    <3>2. CASE Observes /\ \E d \in Measured :
                 wca' \in Initialized(Fixed(plan), Mandatory(plan), d, index + 1)
      <4>1. PICK d \in Measured :
                    wca' \in Initialized(Fixed(plan), Mandatory(plan), d, index + 1)
        BY <3>2
      <4>2. DOMAIN d = Prompt(plan) /\ d \in [Prompt(plan) -> Nat]
        <5>1. d \in [Prompt(plan) -> 0 .. Deviations]
          BY DEF Measured
        <5>2. \A n \in 0 .. Deviations : n \in Nat
          BY BoundAssumption
        <5> QED BY <5>1, <5>2
      <4>3. wca'.alpha \in [Prompt(plan) -> {index + 1}] /\ wca'.deviation = d
        <5>1. wca'.alpha \in [DOMAIN d -> {index + 1}] /\ wca'.deviation = d
          BY <4>1, InitializedWeights
        <5> QED BY <4>2, <5>1
      <4>4. \A t \in Prompt(plan) : Has(order, t)
        BY <1>3, <3>2 DEF Observes
      <4>5. wca'.alpha \in [Prompt(plan) -> Nat]
        BY <1>2, <4>3
      <4> QED BY <1>1, <2>1, <4>2, <4>3, <4>4, <4>5 DEF Weighed
    <3>3. CASE ~Sparse /\ UNCHANGED wca
      <4>1. wca' = None
        BY <1>4, <3>3 DEF Sparse
      <4> QED BY <4>1 DEF Weighed
    <3> QED BY <1>6, <3>1, <3>2, <3>3 DEF Correct
  <2> QED BY <2>2, <2>3, <2>4, <2>6, <2>7, <2>8 DEF RInv
<1>7. \/ UNCHANGED pages /\ (Fails("fallback") \/ Fails("plain"))
      \/ /\ Correct
         /\ fused' = IF Sparse THEN [t \in Prompt(plan) |-> UsedWeight(wca, t, index + 1)]
                               ELSE <<>>
         /\ kv' = [t \in Prompt(plan) |-> IF Has(order, t) THEN hidden[Place(order, t)]
                                          ELSE IF Sparse THEN kv[t] ELSE Zero]
         /\ policies' = policies \cup {profiled}
         /\ IF write THEN Put("kv", FixedRows(hidden)) ELSE UNCHANGED <<pages, created>>
         /\ Continues("finish")
  BY DEF Fuse
<1> QED BY <1>5, <1>6, <1>7

\* A layer later, each row is of the layer that comes next.
LEMMA FinishRows == ASSUME IInv, RInv, Finish PROVE RInv'
<1>1. /\ at = "finish"
      /\ UNCHANGED <<pages, plan, reuse, write, profiled, wca, order, policies, output>>
  BY DEF Finish, store, request
<1>2. plan \in Requests /\ Accepts(plan) /\ outcome = "none" /\ index \in 0 .. Layers - 1
  BY <1>1, LayerRequest DEF Computing
<1>3. /\ DOMAIN hidden = DOMAIN order
      /\ \A i \in DOMAIN order : order[i] \in Prompt(plan) /\ hidden[i] = RowAt(order[i], index)
      /\ \A t \in Mandatory(plan) : Has(order, t)
      /\ wca = None => \A t \in Prompt(plan) : Has(order, t)
  BY <1>1 DEF RInv, RowsHeld, Computing
<1>4. CASE Fails("fallback")
  BY <1>1, <1>4, FailsRows
<1>5. CASE /\ hidden' = [i \in DOMAIN hidden |-> [hidden[i] EXCEPT !.depth = @ + 1]]
           /\ ran' = [t \in Prompt(plan) |-> IF Has(order, t) THEN index + 1 ELSE ran[t]]
           /\ index' = index + 1
           /\ Continues(IF index' < Layers THEN "gather" ELSE "output")
  <2>1. /\ at' = (IF index' < Layers THEN "gather" ELSE "output") /\ outcome' = "none"
        /\ at' = "output" => index' = Layers
    BY <1>2, <1>5, LayersAssumption DEF Continues
  <2>2. PagesExact' /\ Modes' /\ OutputSound' /\ WeightsTimely'
    BY <1>1, <2>1, PagesStay DEF RInv, Modes, OutputSound, WeightsTimely
  <2>3. Policed'
    <3>1. policies = {profiled} /\ index' # 0
      BY <1>1, <1>2, <1>5 DEF RInv, Policed, Computing
    <3> QED BY <1>1, <2>1, <3>1 DEF Policed
  <2>4. Weighed'
    <3>1. wca # None =>
            /\ wca.alpha \in [Prompt(plan) -> Nat] /\ wca.deviation \in [Prompt(plan) -> Nat]
            /\ \A t \in Prompt(plan) :
                  wca.alpha[t] = IF Has(order, t) THEN index + 1 ELSE ran[t]
      BY <1>1 DEF RInv, Weighed, Computing
    <3>2. at' # "finish"
      BY <2>1
    <3> QED BY <1>1, <1>5, <3>1, <3>2 DEF Weighed
  <2>5. /\ DOMAIN hidden' = DOMAIN order
        /\ \A i \in DOMAIN order : hidden'[i] = RowAt(order[i], index + 1)
    <3> SUFFICES ASSUME NEW i \in DOMAIN order PROVE hidden'[i] = RowAt(order[i], index + 1)
      BY <1>3, <1>5
    <3>1. hidden[i] = [of |-> TokenAt(plan, order[i]), depth |-> index]
      BY <1>3 DEF RowAt
    <3>2. hidden'[i] = [hidden[i] EXCEPT !.depth = hidden[i].depth + 1]
      BY <1>3, <1>5
    <3> QED BY <3>1, <3>2 DEF RowAt
  <2>6. RowsHeld'
    <3>1. at' \in {"gather", "output"}
      BY <2>1
    <3>2. /\ DOMAIN hidden' = DOMAIN order'
          /\ \A i \in DOMAIN order' : order'[i] \in Prompt(plan)
          /\ \A i \in DOMAIN order' : hidden'[i] = RowAt(order'[i], index')
          /\ \A t \in Mandatory(plan) : Has(order', t)
          /\ wca = None => \A t \in Prompt(plan) : Has(order', t)
      BY <1>1, <1>3, <1>5, <2>5
    <3> QED BY <1>1, <2>1, <3>1, <3>2 DEF RowsHeld, Computing, RowAt
  <2> QED BY <2>2, <2>3, <2>4, <2>6 DEF RInv
<1> QED BY <1>4, <1>5 DEF Finish

\* What is returned went through all layers.
LEMMA OutputRows == ASSUME IInv, RInv, Output PROVE RInv'
<1>1. at = "output" /\ UNCHANGED <<plan, reuse, profiled, wca, index, policies>>
  BY DEF Output
<1>2. plan \in Requests /\ Accepts(plan) /\ index = Layers
  BY <1>1, LayerRequest DEF RInv, RowsHeld, Computing
<1>3. /\ \A i \in DOMAIN order : order[i] \in Prompt(plan) /\ hidden[i] = RowAt(order[i], index)
      /\ \A t \in Mandatory(plan) : Has(order, t)
      /\ wca = None => \A t \in Prompt(plan) : Has(order, t)
  BY <1>1 DEF RInv, RowsHeld, Computing
<1>4. CASE Fails("fallback") /\ UNCHANGED <<pages, created, write, rows, output>>
  BY <1>1, <1>4, FailsRows
<1>5. CASE /\ output' = [t \in Prompt(plan) |->
                           IF Has(order, t) THEN hidden[Place(order, t)] ELSE Zero]
           /\ IF write THEN pages' = With(Marker(plan), <<>>) /\ created' = {}
                       ELSE UNCHANGED <<pages, created>>
           /\ write' = FALSE
           /\ at' = "idle" /\ outcome' = "returned"
  <2>1. PagesExact'
    BY <1>5, PagesMarked, PagesStay DEF RInv
  <2>2. Modes'
    BY <1>5 DEF Modes
  <2>3. ASSUME NEW t \in Prompt(plan), Has(order, t) PROVE output'[t] = RowAt(t, Layers)
    <3>1. Place(order, t) \in DOMAIN order /\ order[Place(order, t)] = t
      BY <2>3, Placed
    <3> QED BY <1>2, <1>3, <1>5, <2>3, <3>1
  <2>4. OutputSound'
    <3>1. Len(plan.tokens) - 1 \in Prompt(plan) /\ Len(plan.tokens) - 1 \in Mandatory(plan)
      BY <1>2, PlanSets
    <3>2. output'[Len(plan.tokens) - 1] = RowAt(Len(plan.tokens) - 1, Layers)
      BY <1>3, <2>3, <3>1
    <3>3. ~reuse => \A t \in Prompt(plan) : output'[t] = RowAt(t, Layers)
      BY <1>3, <2>3 DEF IInv, Correcting
    <3>4. policies = {profiled}
      BY <1>1, <1>2, LayersAssumption DEF RInv, Policed, Computing
    <3> QED BY <1>1, <3>2, <3>3, <3>4 DEF OutputSound, RowAt
  <2> QED BY <1>5, <2>1, <2>2, <2>4, NoRowsHeld
<1> QED BY <1>4, <1>5 DEF Output

\* Every step keeps the pages and the rows exact.
LEMMA NextRows == ASSUME IInv, RInv, [Next]_vars PROVE RInv'
<1>1. CASE Step
  BY <1>1, RecoverRows, EnterRows, GatherRows, StageFailsRows, ReadRows,
     PrefetchNextRows, FuseRows, FinishRows, OutputRows, FallbackRows DEF Step
<1>2. ASSUME NEW page \in loads, NEW ok \in BOOLEAN, LoadDone(page, ok) PROVE RInv'
  BY <1>2, QuietRows DEF LoadDone
<1>3. CASE Next /\ ~Step
  BY <1>2, <1>3, ReleaseRows, RunRows, ErrsRows, CrashRows DEF Next
<1>4. CASE UNCHANGED vars
  BY <1>4, QuietRows DEF vars, store
<1> QED BY <1>1, <1>3, <1>4

-----------------------------------------------------------------------------
(* The theorems                                                             *)

\* Each stage of a prefill knows its request, its one load and its selection.
THEOREM PrefillConsistent == Spec => []IInv
BY InitKeeps, NextKeeps, PTL DEF Spec

\* The load of a worker is the live request's one prefetch (runtime.py:_prefetch,
\* _drain_prefetch), and none outlives its prefill, its retry or its request: for
\* any requests, layers, workers' orders, failures and restarts.
THEOREM PrefillPrefetchOwned == Spec => []PrefetchOwned
<1>1. IInv => PrefetchOwned
  BY DEF IInv, Prefetching, PrefetchOwned
<1> QED BY <1>1, PrefillConsistent, PTL

\* The corrected tokens are the budget's worth of the most deviating reusable ones
\* that no gate removed (wca.py:_promote), at every layer, for any prompts, budgets,
\* deviations and gates.
THEOREM PrefillSelectionBest == Spec => []SelectionBest
<1>1. IInv => SelectionBest
  <2> SUFFICES ASSUME IInv, wca # None PROVE SelectionBest
    BY DEF SelectionBest
  <2>1. /\ plan \in Requests /\ Accepts(plan)
        /\ Selecting(wca, Fixed(plan)) /\ wca.mandatory = Mandatory(plan)
        /\ at \in {"read", "prefetch", "fuse"} =>
             wca.last = index /\ order = Ascending(ActiveTokens(wca))
    BY DEF IInv, Calling, Correcting
  <2>2. Prompt(plan) \ Fixed(plan) \subseteq Mandatory(plan)
    BY <2>1, RequestAssumption, FixedOrMandatory
  <2>3. BestSelected(wca) /\ wca.selected \cup wca.removed \subseteq Fixed(plan)
    BY <2>1 DEF Selecting, BestSelected
  <2> QED BY <2>1, <2>2, <2>3 DEF SelectionBest
<1> QED BY <1>1, PrefillConsistent, PTL

\* Whatever was stored, carried on, restored or corrected, the pages and the rows
\* of a pass are of the tokens and the layers that they stand for.
THEOREM PrefillRowsInvariant == Spec => []RInv
<1>1. Init => RInv
  BY InitRows
<1>2. RInv /\ [Next]_vars /\ IInv => RInv'
  BY NextRows
<1> QED BY <1>1, <1>2, PrefillConsistent, PTL DEF Spec

\* Every row of the hidden states and of the K/V is its token's and its layer's
\* (runtime.py:attention, _read, _put), for any requests that share pages by their
\* cache keys, any selections, failures, second prefills and restarts.
THEOREM PrefillRowsExact == Spec => []RowsExact
<1>1. RInv => RowsExact
  BY DEF RInv, RowsHeld, RowsExact
<1> QED BY <1>1, PrefillRowsInvariant, PTL

\* A corrected row is fused with the weight of the layer at which it was last
\* computed (wca.py:update), for any gates and budgets.
THEOREM PrefillWeightsTimely == Spec => []WeightsTimely
<1>1. RInv => WeightsTimely
  BY DEF RInv
<1> QED BY <1>1, PrefillRowsInvariant, PTL

\* What a prefill returns went through all layers, computed with one policy of the
\* positions, and keeps nothing of a first attempt (runtime.py:run, _prefill).
THEOREM PrefillOutputSound == Spec => []OutputSound
<1>1. RInv => OutputSound
  BY DEF RInv
<1> QED BY <1>1, PrefillRowsInvariant, PTL
=============================================================================
