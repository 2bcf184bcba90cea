--------------------------- MODULE ManifestProofs ---------------------------
(***************************************************************************)
(* Facts about ManifestValidation's operators that the proofs about the    *)
(* API and about the client's read share.                                  *)
(***************************************************************************)
EXTENDS ManifestValidation, FiniteSetTheorems, TLAPS

(***************************************************************************)
(* A non-empty set of naturals has a least element: the first match of a   *)
(* search exists.                                                          *)
(***************************************************************************)
LEMMA LeastNat ==
  ASSUME NEW T, T \subseteq Nat, T # {}
  PROVE  \E n \in T : \A k \in T : n <= k
<1>1. PICK n \in T : \A k \in T : ~(<<k, n>> \in OpToRel(<, Nat))
  BY NatLessThanWellFounded, WFMin, Zenon
<1>2. \A k \in T : ~(k < n)
  BY <1>1 DEF OpToRel
<1> QED
  BY <1>2

(***************************************************************************)
(* Induction over the naturals, for a set instead of a predicate.          *)
(***************************************************************************)
LEMMA NatInductionSet ==
  ASSUME NEW T, 0 \in T, \A n \in Nat : n \in T => n + 1 \in T
  PROVE  Nat \subseteq T
<1> SUFFICES ASSUME Nat \ T # {} PROVE FALSE
  OBVIOUS
<1>1. PICK n \in Nat \ T : \A k \in Nat \ T : n <= k
  BY LeastNat
<1>2. n # 0 /\ n - 1 \in Nat
  BY <1>1
<1>3. n - 1 \in T
  BY <1>1, <1>2
<1> QED
  BY <1>1, <1>2, <1>3

(***************************************************************************)
(* Manifest::chunk_size returns the size of a record with that id, when    *)
(* there is one.                                                           *)
(***************************************************************************)
LEMMA FirstChunk ==
  ASSUME NEW m \in Manifest, NEW id, HasChunk(m, id)
  PROVE  \E k \in DOMAIN m.chunks : /\ m.chunks[k].chunk_id = id
                                    /\ ChunkSize(m, id) = m.chunks[k].size
<1> DEFINE T == {k \in DOMAIN m.chunks : m.chunks[k].chunk_id = id}
<1>1. m.chunks \in Seq(Chunk)
  BY DEF Manifest
<1>2. T \subseteq Nat /\ T # {}
  BY <1>1 DEF HasChunk
<1>3. PICK n \in T : \A k \in T : n <= k
  BY <1>2, LeastNat
<1> DEFINE First(k) == /\ m.chunks[k].chunk_id = id
                       /\ \A j \in 1 .. (k - 1) : m.chunks[j].chunk_id # id
<1>4. First(n) /\ n \in DOMAIN m.chunks
  BY <1>1, <1>3
<1>5. First(CHOOSE k \in DOMAIN m.chunks : First(k))
      /\ (CHOOSE k \in DOMAIN m.chunks : First(k)) \in DOMAIN m.chunks
  <2> HIDE DEF First
  <2> QED
    BY <1>4, Zenon
<1> QED
  BY <1>5 DEF ChunkSize

(***************************************************************************)
(* The partial sums that LengthSum recurses over exist: it is the last of  *)
(* the running sums of inv05.                                              *)
(***************************************************************************)
IsPartialSums(f, es, n) ==
  /\ f \in [0 .. n -> Nat]
  /\ f[0] = 0
  /\ \A k \in 1 .. n : f[k] = f[k - 1] + es[k].length

(* PartialSumsExist: by induction on how many entries are added. *)
LEMMA PartialSumsExist ==
  ASSUME NEW es \in Seq(ManifestEntry)
  PROVE  \E f : IsPartialSums(f, es, Len(es))
<1> DEFINE T == {n \in Nat : n <= Len(es) => \E f : IsPartialSums(f, es, n)}
<1>1. \A k \in 1 .. Len(es) : es[k].length \in Nat
  <2>1. \A k \in 1 .. Len(es) : es[k] \in ManifestEntry
    OBVIOUS
  <2> QED
    BY <2>1, U64MaxAssumption DEF ManifestEntry, U64
<1>2. 0 \in T
  <2>1. IsPartialSums([k \in 0 .. 0 |-> 0], es, 0)
    BY DEF IsPartialSums
  <2> QED
    BY <2>1
<1>3. ASSUME NEW n \in Nat, n \in T PROVE n + 1 \in T
  <2> SUFFICES ASSUME n + 1 <= Len(es)
               PROVE  \E f : IsPartialSums(f, es, n + 1)
    OBVIOUS
  <2>1. PICK f : IsPartialSums(f, es, n)
    BY <1>3
  <2> DEFINE g == [k \in 0 .. (n + 1) |->
                     IF k = n + 1 THEN f[n] + es[n + 1].length ELSE f[k]]
  <2>2. f \in [0 .. n -> Nat] /\ es[n + 1].length \in Nat
    BY <1>1, <2>1 DEF IsPartialSums
  <2>3. g \in [0 .. (n + 1) -> Nat]
    BY <2>2
  <2>4. g[0] = 0
    BY <2>1 DEF IsPartialSums
  <2>5. \A k \in 1 .. (n + 1) : g[k] = g[k - 1] + es[k].length
    BY <2>1 DEF IsPartialSums
  <2> HIDE DEF g
  <2>6. IsPartialSums(g, es, n + 1)
    BY <2>3, <2>4, <2>5 DEF IsPartialSums
  <2> QED
    BY <2>6
<1> HIDE DEF T
<1>4. Nat \subseteq T
  BY <1>2, <1>3, NatInductionSet
<1> QED
  BY <1>4 DEF T

(* LengthSumIsPartialSum: LengthSum is the last partial sum. *)
LEMMA LengthSumIsPartialSum ==
  ASSUME NEW es \in Seq(ManifestEntry)
  PROVE  \E f : IsPartialSums(f, es, Len(es)) /\ LengthSum(es) = f[Len(es)]
<1> DEFINE n == Len(es)
           Step(f) == [k \in 0 .. n |->
                         IF k = 0 THEN 0 ELSE f[k - 1] + es[k].length]
           sum == CHOOSE f : f = Step(f)
<1>1. n \in Nat
  OBVIOUS
<1>2. PICK f : IsPartialSums(f, es, n)
  BY PartialSumsExist
<1>3. f = Step(f)
  BY <1>1, <1>2 DEF IsPartialSums
<1>4. sum = Step(sum)
  <2> HIDE DEF Step
  <2> QED
    BY <1>3, Zenon
<1>5. LengthSum(es) = sum[n]
  BY DEF LengthSum
<1>6. IsPartialSums(sum, es, n)
  <2> HIDE DEF sum
  <2>1. DOMAIN sum = 0 .. n /\ sum = [k \in 0 .. n |-> sum[k]]
    BY <1>4
  <2>2. \A k \in 0 .. n :
          sum[k] = IF k = 0 THEN 0 ELSE sum[k - 1] + es[k].length
    <3>1. \A k \in 0 .. n : Step(sum)[k] = IF k = 0 THEN 0 ELSE sum[k - 1] + es[k].length
      OBVIOUS
    <3> HIDE DEF Step
    <3> QED
      BY <1>4, <3>1
  <2> DEFINE T == {k \in Nat : k <= n => sum[k] = f[k]}
  <2>3. 0 \in T
    BY <1>2, <2>2 DEF IsPartialSums
  <2>4. ASSUME NEW k \in Nat, k \in T PROVE k + 1 \in T
    BY <1>1, <1>2, <2>2, <2>4 DEF IsPartialSums
  <2> HIDE DEF T
  <2>5. Nat \subseteq T
    BY <2>3, <2>4, NatInductionSet
  <2>6. \A k \in 0 .. n : sum[k] = f[k]
    BY <1>1, <2>5 DEF T
  <2>7. sum = f
    BY <1>2, <2>1, <2>6 DEF IsPartialSums
  <2> QED
    BY <1>2, <2>7
<1> QED
  BY <1>5, <1>6
=============================================================================
