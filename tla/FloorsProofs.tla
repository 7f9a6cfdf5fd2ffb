---------------------------- MODULE FloorsProofs ----------------------------
(***************************************************************************)
(* TLAPS proofs about Floors, for any floors, segments, areas, plots,      *)
(* corrections and requests: types, the stored total, the plot.  What the  *)
(* folds of the model compute is proved by least counterexample, on the    *)
(* number of elements folded.                                              *)
(***************************************************************************)
EXTENDS Floors, FiniteSetTheorems, WellFoundedInduction, TLAPS

-----------------------------------------------------------------------------
(* Least elements.                                                          *)

LEMMA LeastNat == ASSUME NEW N \in SUBSET Nat, N # {}
                  PROVE  \E n \in N : \A m \in N : n <= m
<1>1. PICK n \in N : \A m \in N : ~(<<m, n>> \in OpToRel(<, Nat))
  BY WFMin, NatLessThanWellFounded, Zenon
<1>2. \A m \in N : ~(m < n)
  BY <1>1, Zenon DEF OpToRel
<1>3. \A m \in N : n \in Nat /\ m \in Nat
  OBVIOUS
<1>4. \A m \in N : n <= m
  BY <1>2, <1>3
<1>. QED BY <1>1, <1>4

\* A set of finite sets has a member with no proper subset in it.
LEMMA LeastSet == ASSUME NEW S, IsFiniteSet(S), NEW B \in SUBSET SUBSET S, B # {}
                  PROVE  \E s \in B : \A t \in B : t \subseteq s => t = s
<1>1. PICK N : N = {Cardinality(s) : s \in B}
  OBVIOUS
<1>2. \A s \in B : IsFiniteSet(s) /\ Cardinality(s) \in Nat
  BY FS_Subset, FS_CardinalityType
<1>3. PICK n \in N : \A m \in N : n <= m
  <2>1. N \in SUBSET Nat /\ N # {}
    BY <1>1, <1>2
  <2>. QED BY <2>1, LeastNat
<1>4. PICK s \in B : Cardinality(s) = n
  BY <1>1, <1>3
<1>5. ASSUME NEW t \in B, t \subseteq s
      PROVE  t = s
  <2>1. Cardinality(s) <= Cardinality(t)
    BY <1>1, <1>3, <1>4
  <2>2. Cardinality(t) <= Cardinality(s) /\ (Cardinality(t) = Cardinality(s) => t = s)
    BY <1>2, <1>5, FS_Subset
  <2>. QED BY <1>2, <2>1, <2>2
<1>. QED BY <1>5

-----------------------------------------------------------------------------
(* Folds: a recursive function on the subsets of a finite set exists.       *)

IsFold(it, S, V, base, c, g) ==
    /\ it \in [SUBSET S -> V]
    /\ \A s \in SUBSET S : it[s] = IF s = {} THEN base ELSE g[<<c[s], it[s \ {c[s]}]>>]

LEMMA FoldExists ==
    ASSUME NEW S, IsFiniteSet(S), NEW V, NEW base \in V, NEW c, NEW g \in [S \X V -> V],
           \A s \in SUBSET S : s # {} => c[s] \in s
    PROVE  \E it : IsFold(it, S, V, base, c, g)
<1> DEFINE D(n) == {s \in SUBSET S : Cardinality(s) <= n}
           Solves(h, n) == /\ h \in [D(n) -> V]
                           /\ \A s \in D(n) :
                                h[s] = IF s = {} THEN base ELSE g[<<c[s], h[s \ {c[s]}]>>]
           Bad == {n \in Nat : ~ \E h : Solves(h, n)}
<1>1. \A s \in SUBSET S : IsFiniteSet(s) /\ Cardinality(s) \in Nat /\ Cardinality(s) <= Cardinality(S)
  BY FS_Subset, FS_CardinalityType
<1>2. \A s \in SUBSET S : s # {} =>
        s \ {c[s]} \in SUBSET S /\ Cardinality(s \ {c[s]}) = Cardinality(s) - 1
  BY <1>1, FS_RemoveElement
<1>3. Bad = {}
  <2> SUFFICES ASSUME Bad # {}
               PROVE  FALSE
    OBVIOUS
  <2>1. PICK n \in Bad : \A m \in Bad : n <= m
    BY LeastNat
  <2>2. CASE n = 0
    <3>1. \A s \in D(n) : s = {}
      BY <1>1, <2>2, FS_EmptySet
    <3>2. Solves([s \in D(n) |-> base], n)
      BY <3>1
    <3>. QED BY <2>1, <3>2
  <2>3. CASE n # 0
    <3>0. n \in Nat
      BY <2>1
    <3>1. n \in Nat /\ n - 1 \in Nat /\ n - 1 \notin Bad
      <4>1. n - 1 \in Nat /\ ~(n <= n - 1)
        BY <2>3, <3>0
      <4>2. n - 1 \notin Bad
        BY <2>1, <4>1
      <4>. QED BY <3>0, <4>1, <4>2
    <3>2. PICK h : Solves(h, n - 1)
      BY <3>1
    <3>3. PICK h2 : h2 = [s \in D(n) |->
                            IF s = {} THEN base ELSE g[<<c[s], h[s \ {c[s]}]>>]]
      OBVIOUS
    <3>4. \A s \in D(n) : s # {} => s \ {c[s]} \in D(n - 1) /\ c[s] \in S
      <4>1. ASSUME NEW s \in SUBSET S, Cardinality(s) <= n, s # {}
            PROVE  Cardinality(s \ {c[s]}) <= n - 1
        BY <1>1, <1>2, <3>1, <4>1
      <4>. QED BY <1>2, <4>1
    <3>5. D(n - 1) \subseteq D(n)
      BY <1>1, <3>1
    <3>6. \A s \in D(n) : s # {} => g[<<c[s], h[s \ {c[s]}]>>] \in V
      <4>1. ASSUME NEW s \in D(n), s # {}
            PROVE  g[<<c[s], h[s \ {c[s]}]>>] \in V
        <5>1. h[s \ {c[s]}] \in V /\ c[s] \in S
          BY <3>2, <3>4, <4>1
        <5>. QED BY <5>1
      <4>. QED BY <4>1
    <3>7. h2 \in [D(n) -> V]
      BY <3>3, <3>6
    <3>8. \A t \in D(n - 1) : h2[t] = h[t]
      BY <3>2, <3>3, <3>5
    <3>9. \A s \in D(n) : h2[s] = IF s = {} THEN base ELSE g[<<c[s], h2[s \ {c[s]}]>>]
      BY <3>3, <3>4, <3>8
    <3>10. Solves(h2, n)
      BY <3>7, <3>9
    <3>. QED BY <2>1, <3>10
  <2>. QED BY <2>2, <2>3
<1>4. Cardinality(S) \in Nat /\ Cardinality(S) \notin Bad
  BY <1>1, <1>3
<1>5. PICK h : Solves(h, Cardinality(S))
  BY <1>4
<1>6. D(Cardinality(S)) = SUBSET S
  BY <1>1
<1>7. IsFold(h, S, V, base, c, g)
  BY <1>5, <1>6 DEF IsFold
<1>. QED BY <1>7

-----------------------------------------------------------------------------
(* The sum of the floors' areas.                                            *)

Rows == [FloorIds -> Row]
Adds(rows, f) == Countable(rows[f].area, rows[f].seg)

LEMMA Constants ==
    /\ Areas \subseteq Nat /\ Plots \subseteq Nat \cup {None}
    /\ MaxFloors \in Nat /\ MaxCalls \in Nat
    /\ Keep \notin Areas /\ Keep \notin Plots
    /\ None \notin Segments /\ None \notin FloorIds /\ Keep # None
    /\ FloorIds \subseteq Nat
<1>1. FloorIds \subseteq Nat
  BY DEF FloorIds
<1>. QED BY <1>1, FloorsAssumption, Zenon

LEMMA IdsFinite == \A ids \in SUBSET FloorIds : IsFiniteSet(ids)
<1>1. IsFiniteSet(FloorIds)
  BY FS_Interval, Constants DEF FloorIds
<1>. QED BY <1>1, FS_Subset

LEMMA AddsType == \A rows \in Rows : \A f \in FloorIds : Adds(rows, f) \in Nat
<1>1. \A z \in Row : z.area \in Nat
  <2>1. \A z \in Row : z.area \in Areas \cup {0}
    BY DEF Row
  <2>2. Areas \subseteq Nat
    BY Constants
  <2>3. 0 \in Nat
    OBVIOUS
  <2>. QED BY <2>1, <2>2, <2>3, Zenon
<1>2. \A a \in Nat : \A seg : Countable(a, seg) \in Nat
  BY DEF Countable
<1>. QED BY <1>1, <1>2 DEF Rows, Adds

\* it adds up the rows of every set of floors in ids, in the order of the fold.
First(s) == CHOOSE x \in s : TRUE
SumsUp(it, rows, ids) ==
    it = [s \in SUBSET ids |-> IF s = {} THEN 0 ELSE Adds(rows, First(s)) + it[s \ {First(s)}]]
Sums(rows, ids) == CHOOSE it : SumsUp(it, rows, ids)

LEMMA SumUnfolds == \A rows, ids : SumArea(rows, ids) = Sums(rows, ids)[ids]
  BY DEF SumArea, MapThenSumSet, MapThenFoldSet, Sums, SumsUp, Adds, First

LEMMA SumsExist == ASSUME NEW rows \in Rows, NEW ids \in SUBSET FloorIds
                   PROVE  SumsUp(Sums(rows, ids), rows, ids)
<1> DEFINE c == [s \in SUBSET ids |-> First(s)]
           g == [z \in ids \X Nat |-> Adds(rows, z[1]) + z[2]]
<1>1. \A s \in SUBSET ids : s # {} => c[s] \in s
  BY DEF First
<1>2. g \in [ids \X Nat -> Nat]
  BY AddsType
<1>3. \A x \in ids : \A n \in Nat : g[<<x, n>>] = Adds(rows, x) + n
  OBVIOUS
<1>4. \A s \in SUBSET ids : c[s] = First(s)
  OBVIOUS
<1> HIDE DEF c, g
<1>5. PICK it : IsFold(it, ids, Nat, 0, c, g)
  <2>1. IsFiniteSet(ids) /\ 0 \in Nat
    BY IdsFinite
  <2>. QED BY <1>1, <1>2, <2>1, FoldExists
<1>5a. /\ it \in [SUBSET ids -> Nat]
       /\ \A s \in SUBSET ids : it[s] = IF s = {} THEN 0 ELSE g[<<c[s], it[s \ {c[s]}]>>]
  BY <1>5 DEF IsFold
<1>6. \A s \in SUBSET ids :
        it[s] = IF s = {} THEN 0 ELSE Adds(rows, First(s)) + it[s \ {First(s)}]
  <2>1. ASSUME NEW s \in SUBSET ids, s # {}
        PROVE  it[s] = Adds(rows, First(s)) + it[s \ {First(s)}]
    <3>1. First(s) \in ids /\ s \ {First(s)} \in SUBSET ids
      BY <1>1, <1>4, <2>1
    <3>. QED BY <1>3, <1>4, <1>5a, <2>1, <3>1
  <2>. QED BY <1>5a, <2>1
<1>7. SumsUp(it, rows, ids)
  BY <1>5a, <1>6 DEF SumsUp
<1>. QED BY <1>7 DEF Sums

LEMMA SumsStep == ASSUME NEW rows \in Rows, NEW ids \in SUBSET FloorIds, NEW s \in SUBSET ids
                  PROVE  Sums(rows, ids)[s] =
                           IF s = {} THEN 0
                           ELSE Adds(rows, First(s)) + Sums(rows, ids)[s \ {First(s)}]
<1>1. PICK it : it = Sums(rows, ids)
  OBVIOUS
<1>2. it = [t \in SUBSET ids |->
              IF t = {} THEN 0 ELSE Adds(rows, First(t)) + it[t \ {First(t)}]]
  <2>1. SumsUp(it, rows, ids)
    BY <1>1, SumsExist
  <2>. QED BY <2>1, Zenon DEF SumsUp
<1>3. it[s] = IF s = {} THEN 0 ELSE Adds(rows, First(s)) + it[s \ {First(s)}]
  BY <1>2
<1>. QED BY <1>1, <1>3

\* The sum over a part is the same in whatever set the part is folded.
LEMMA SumsAgree == ASSUME NEW rows \in Rows, NEW ids \in SUBSET FloorIds, NEW s \in SUBSET ids
                   PROVE  Sums(rows, ids)[s] = SumArea(rows, s)
<1> DEFINE Bad == {t \in SUBSET s : Sums(rows, ids)[t] # Sums(rows, s)[t]}
<1>1. Bad = {}
  <2> SUFFICES ASSUME Bad # {}
               PROVE  FALSE
    OBVIOUS
  <2>0. IsFiniteSet(s)
    BY IdsFinite
  <2>1. PICK t \in Bad : \A u \in Bad : u \subseteq t => u = t
    <3>1. PICK B : B = Bad
      OBVIOUS
    <3>2. B \in SUBSET SUBSET s /\ B # {}
      BY <3>1
    <3>3. \E t \in B : \A u \in B : u \subseteq t => u = t
      BY <2>0, <3>2, LeastSet
    <3>. QED BY <3>1, <3>3, Zenon
  <2>2. t \in SUBSET s /\ t \in SUBSET ids /\ s \in SUBSET FloorIds
    OBVIOUS
  <2>3. CASE t = {}
    BY <2>1, <2>2, <2>3, SumsStep
  <2>4. CASE t # {}
    <3>1. First(t) \in t
      BY <2>4 DEF First
    <3>2. t \ {First(t)} \in SUBSET s /\ t \ {First(t)} \notin Bad
      BY <2>1, <3>1
    <3>3. Sums(rows, ids)[t \ {First(t)}] = Sums(rows, s)[t \ {First(t)}]
      BY <3>2
    <3>4. Sums(rows, ids)[t] = Sums(rows, s)[t]
      BY <2>2, <2>4, <3>3, SumsStep
    <3>. QED BY <2>1, <3>4
  <2>. QED BY <2>3, <2>4
<1>2. Sums(rows, ids)[s] = Sums(rows, s)[s]
  BY <1>1
<1>. QED BY <1>2, SumUnfolds

LEMMA SumStep == ASSUME NEW rows \in Rows, NEW ids \in SUBSET FloorIds
                 PROVE  SumArea(rows, ids) =
                          IF ids = {} THEN 0
                          ELSE Adds(rows, First(ids)) + SumArea(rows, ids \ {First(ids)})
<1>1. SumArea(rows, ids) = Sums(rows, ids)[ids]
  BY SumUnfolds
<1>2. ids \ {First(ids)} \in SUBSET ids
  OBVIOUS
<1>3. Sums(rows, ids)[ids \ {First(ids)}] = SumArea(rows, ids \ {First(ids)})
  BY <1>2, SumsAgree
<1>. QED BY <1>1, <1>3, SumsStep

LEMMA SumNone == ASSUME NEW rows \in Rows PROVE SumArea(rows, {}) = 0
  BY SumStep

LEMMA SumType == ASSUME NEW rows \in Rows, NEW ids \in SUBSET FloorIds
                 PROVE  SumArea(rows, ids) \in Nat
<1> DEFINE Bad == {t \in SUBSET ids : SumArea(rows, t) \notin Nat}
<1> SUFFICES ASSUME Bad # {}
             PROVE  FALSE
  OBVIOUS
<1>1. PICK t \in Bad : \A u \in Bad : u \subseteq t => u = t
  <2>1. PICK B : B = Bad
    OBVIOUS
  <2>2. B \in SUBSET SUBSET ids /\ B # {} /\ IsFiniteSet(ids)
    BY <2>1, IdsFinite
  <2>3. \E t \in B : \A u \in B : u \subseteq t => u = t
    BY <2>2, LeastSet
  <2>. QED BY <2>1, <2>3, Zenon
<1>2. t # {} /\ t \in SUBSET FloorIds
  BY SumNone
<1>3. First(t) \in t /\ First(t) \in FloorIds
  BY <1>2 DEF First
<1>4. t \ {First(t)} \notin Bad
  BY <1>1, <1>3
<1>5. SumArea(rows, t \ {First(t)}) \in Nat
  BY <1>4
<1>6. SumArea(rows, t) = Adds(rows, First(t)) + SumArea(rows, t \ {First(t)})
  BY <1>2, SumStep
<1>7. Adds(rows, First(t)) \in Nat
  BY <1>3, AddsType
<1>8. SumArea(rows, t) \in Nat
  BY <1>5, <1>6, <1>7
<1>. QED BY <1>8

\* Any floor can be taken out of a sum first.
LEMMA SumPick == ASSUME NEW rows \in Rows, NEW ids \in SUBSET FloorIds, NEW y \in ids
                 PROVE  SumArea(rows, ids) = Adds(rows, y) + SumArea(rows, ids \ {y})
<1> DEFINE Bad == {t \in SUBSET ids :
                     \E x \in t : SumArea(rows, t) # Adds(rows, x) + SumArea(rows, t \ {x})}
<1> SUFFICES ASSUME Bad # {}
             PROVE  FALSE
  OBVIOUS
<1>1. PICK t \in Bad : \A u \in Bad : u \subseteq t => u = t
  <2>1. PICK B : B = Bad
    OBVIOUS
  <2>2. B \in SUBSET SUBSET ids /\ B # {} /\ IsFiniteSet(ids)
    BY <2>1, IdsFinite
  <2>3. \E t \in B : \A u \in B : u \subseteq t => u = t
    BY <2>2, LeastSet
  <2>. QED BY <2>1, <2>3, Zenon
<1>2. PICK x \in t : SumArea(rows, t) # Adds(rows, x) + SumArea(rows, t \ {x})
  OBVIOUS
<1>3. PICK f : f = First(t)
  OBVIOUS
<1>4. f \in t /\ t \in SUBSET FloorIds /\ f \in FloorIds /\ x \in FloorIds
  BY <1>2, <1>3 DEF First
<1>5. SumArea(rows, t) = Adds(rows, f) + SumArea(rows, t \ {f})
  BY <1>3, <1>4, SumStep
<1>6. f # x
  BY <1>2, <1>5
<1>7. t \ {f} \notin Bad /\ t \ {x} \notin Bad
  BY <1>1, <1>2, <1>4
<1>8. SumArea(rows, t \ {f}) = Adds(rows, x) + SumArea(rows, (t \ {f}) \ {x})
  BY <1>2, <1>4, <1>6, <1>7
<1>9. SumArea(rows, t \ {x}) = Adds(rows, f) + SumArea(rows, (t \ {x}) \ {f})
  BY <1>2, <1>4, <1>6, <1>7
<1>10. (t \ {f}) \ {x} = (t \ {x}) \ {f}
  OBVIOUS
<1>11. PICK a, b, n : a = Adds(rows, f) /\ b = Adds(rows, x) /\ n = SumArea(rows, (t \ {x}) \ {f})
  OBVIOUS
<1>12. a \in Nat /\ b \in Nat /\ n \in Nat
  <2>1. (t \ {x}) \ {f} \in SUBSET FloorIds
    BY <1>4
  <2>. QED BY <1>4, <1>11, <2>1, AddsType, SumType
<1>13. a + (b + n) = b + (a + n)
  BY <1>12
<1>. QED BY <1>2, <1>5, <1>8, <1>9, <1>10, <1>11, <1>13

\* A sum depends on the rows it counts only.
LEMMA SumSame == ASSUME NEW rows \in Rows, NEW rows2 \in Rows, NEW ids \in SUBSET FloorIds,
                        \A f \in ids : rows[f] = rows2[f]
                 PROVE  SumArea(rows, ids) = SumArea(rows2, ids)
<1> DEFINE Bad == {t \in SUBSET ids : SumArea(rows, t) # SumArea(rows2, t)}
<1> SUFFICES ASSUME Bad # {}
             PROVE  FALSE
  OBVIOUS
<1>1. PICK t \in Bad : \A u \in Bad : u \subseteq t => u = t
  <2>1. PICK B : B = Bad
    OBVIOUS
  <2>2. B \in SUBSET SUBSET ids /\ B # {} /\ IsFiniteSet(ids)
    BY <2>1, IdsFinite
  <2>3. \E t \in B : \A u \in B : u \subseteq t => u = t
    BY <2>2, LeastSet
  <2>. QED BY <2>1, <2>3, Zenon
<1>2. t # {} /\ t \in SUBSET FloorIds
  BY SumNone
<1>3. PICK f : f = First(t)
  OBVIOUS
<1>4. f \in t /\ f \in ids
  BY <1>2, <1>3 DEF First
<1>5. t \ {f} \notin Bad
  BY <1>1, <1>4
<1>6. SumArea(rows, t \ {f}) = SumArea(rows2, t \ {f})
  BY <1>5
<1>7. Adds(rows, f) = Adds(rows2, f)
  BY <1>4 DEF Adds
<1>8. SumArea(rows, t) = Adds(rows, f) + SumArea(rows, t \ {f})
  BY <1>2, <1>3, SumStep
<1>9. SumArea(rows2, t) = Adds(rows2, f) + SumArea(rows2, t \ {f})
  BY <1>2, <1>3, SumStep
<1>. QED BY <1>1, <1>6, <1>7, <1>8, <1>9

\* Less one floor, a sum is no greater.
LEMMA SumLess == ASSUME NEW rows \in Rows, NEW ids \in SUBSET FloorIds, NEW y
                 PROVE  SumArea(rows, ids \ {y}) <= SumArea(rows, ids)
<1>0. ids \ {y} \in SUBSET FloorIds
  OBVIOUS
<1>1. SumArea(rows, ids) \in Nat /\ SumArea(rows, ids \ {y}) \in Nat
  BY <1>0, SumType
<1>2. CASE y \in ids
  <2>1. SumArea(rows, ids) = Adds(rows, y) + SumArea(rows, ids \ {y}) /\ Adds(rows, y) \in Nat
    BY <1>2, SumPick, AddsType
  <2>. QED BY <1>1, <2>1
<1>3. CASE y \notin ids
  <2>1. ids \ {y} = ids
    BY <1>3
  <2>. QED BY <1>1, <2>1
<1>. QED BY <1>2, <1>3

\* The built-up area of a plot without floors, or of open land, is zero.
LEMMA BuiltUpType == ASSUME NEW rows \in Rows, NEW u
                     PROVE  BuiltUp(rows, u) \in Nat /\ (Live(rows) = {} => BuiltUp(rows, u) = 0)
<1>1. Live(rows) \in SUBSET FloorIds
  BY DEF Live
<1>2. SumArea(rows, Live(rows)) \in Nat /\ SumArea(rows, {}) = 0 /\ 0 \in Nat
  BY <1>1, SumType, SumNone
<1>. QED BY <1>2 DEF BuiltUp

-----------------------------------------------------------------------------
(* Floors by segment.                                                       *)

Placed(rows) == \A f \in Live(rows) : rows[f].seg \in Segments

LEMMA MinIn == ASSUME NEW S \in SUBSET FloorIds, S # {}
               PROVE  Min(S) \in S
<1>1. S \in SUBSET Nat
  BY Constants
<1>2. \E x \in S : \A y \in S : x <= y
  BY <1>1, LeastNat
<1>. QED BY <1>2 DEF Min

LEMMA RowAtIs == ASSUME NEW rows, NEW seg
                 PROVE  \/ RowAt(rows, seg) = None /\ At(rows, seg) = {}
                        \/ /\ RowAt(rows, seg) \in At(rows, seg) /\ RowAt(rows, seg) \in FloorIds
                           /\ RowAt(rows, seg) # None
<1>1. At(rows, seg) \in SUBSET FloorIds
  BY DEF At, Live
<1>2. CASE At(rows, seg) = {}
  BY <1>2 DEF RowAt
<1>3. CASE At(rows, seg) # {}
  <2>1. RowAt(rows, seg) = Min(At(rows, seg))
    BY <1>3 DEF RowAt
  <2>. QED BY <1>1, <1>3, <2>1, MinIn, Constants
<1>. QED BY <1>2, <1>3

\* A floor gets a row of some segment.
LEMMA PlacedPut == ASSUME NEW rows \in Rows, Placed(rows), NEW f \in FloorIds,
                          NEW z \in Row, z.life = "live" => z.seg \in Segments,
                          NEW rows2, rows2 = [rows EXCEPT ![f] = z]
                   PROVE  rows2 \in Rows /\ Placed(rows2)
<1>1. rows2 \in Rows /\ rows2[f] = z /\ \A g \in FloorIds \ {f} : rows2[g] = rows[g]
  BY DEF Rows
<1>2. ASSUME NEW g \in Live(rows2)
      PROVE  rows2[g].seg \in Segments
  BY <1>1 DEF Live, Placed
<1>. QED BY <1>1, <1>2 DEF Placed

\* Rows that are dropped leave the others as they were.
LEMMA PlacedDrop == ASSUME NEW rows \in Rows, Placed(rows), NEW rows2 \in Rows,
                           \A f \in FloorIds : rows2[f] = rows[f] \/ rows2[f].life # "live"
                    PROVE  Placed(rows2)
  BY DEF Placed, Live

\* A body changes a segment into a segment.
LEMMA PatchedType == ASSUME NEW seg \in Segments, NEW body \in SegmentPatches
                     PROVE  Patched(seg, body) \in Segments
  BY DEF Segments, SegmentPatches, Patched

LEMMA SegmentIsPatch == Segments \subseteq SegmentPatches
  BY DEF Segments, SegmentPatches

-----------------------------------------------------------------------------
(* The floor list of a correction.                                          *)

GoneRow == Gone \in Row /\ Unborn \in Row /\ Gone.life = "gone" /\ Unborn.life = "unborn"
           /\ Gone.seg = None /\ Unborn.seg = None

LEMMA GoneFacts == GoneRow
<1>1. Gone = [life |-> "gone", seg |-> None, area |-> 0]
  BY DEF Gone, Unborn
<1>. QED BY <1>1 DEF GoneRow, Unborn, Row

\* What the list leaves of the floors at each entry.
Synced ==
    {acc \in [rows : Rows, kept : SUBSET FloorIds, ok : BOOLEAN] : Placed(acc.rows)}

LEMMA UpsertIs ==
    ASSUME NEW acc, acc.rows \in Rows, NEW e
    PROVE  \/ Upsert(acc, e) = [acc EXCEPT !.ok = FALSE]
           \/ \E f \in FloorIds :
                Upsert(acc, e) =
                  [acc EXCEPT !.rows[f] = [life |-> "live", seg |-> e.seg, area |-> e.area],
                              !.kept = @ \cup {f}]
<1> DEFINE own == IF e.id # None /\ e.id \in Live(acc.rows) THEN e.id ELSE None
           hit == IF own # None THEN own ELSE RowAt(acc.rows, e.seg)
           new == {f \in FloorIds : /\ acc.rows[f] = Unborn /\ corr.wrote[f] = None
                                    /\ \A q \in Requests : ~(Open(q) /\ req[q].id = f)}
           f == IF hit # None THEN hit ELSE IF new = {} THEN None ELSE Min(new)
<1>1. Upsert(acc, e) =
        IF f = None \/ (own # None /\ ~(At(acc.rows, e.seg) \subseteq {own}))
        THEN [acc EXCEPT !.ok = FALSE]
        ELSE [acc EXCEPT !.rows[f] = [life |-> "live", seg |-> e.seg, area |-> e.area],
                         !.kept = @ \cup {f}]
  BY DEF Upsert
<1>2. f = None \/ f \in FloorIds
  <2>1. own # None => own \in FloorIds
    BY DEF Live
  <2>2. hit # None => hit \in FloorIds
    BY <2>1, RowAtIs
  <2>3. new # {} => Min(new) \in FloorIds
    BY MinIn
  <2>. QED BY <2>2, <2>3
<1> HIDE DEF own, hit, new, f
<1>. QED BY <1>1, <1>2

LEMMA UpsertKeeps ==
    ASSUME NEW list \in Seq(Entries), NEW acc \in Synced, NEW i \in DOMAIN list
    PROVE  Upsert(acc, list[i]) \in Synced
<1>1. /\ acc \in [rows : Rows, kept : SUBSET FloorIds, ok : BOOLEAN] /\ acc.rows \in Rows
      /\ Placed(acc.rows)
  BY DEF Synced
<1>2. PICK e : e = list[i] /\ e \in Entries
  OBVIOUS
<1>3. e.seg \in Segments /\ e.area \in Areas \cup {0}
  BY <1>2 DEF Entries
<1>4. CASE Upsert(acc, e) = [acc EXCEPT !.ok = FALSE]
  <2>1. PICK z : z = [acc EXCEPT !.ok = FALSE]
    OBVIOUS
  <2>2. z \in [rows : Rows, kept : SUBSET FloorIds, ok : BOOLEAN] /\ z.rows = acc.rows
    BY <1>1, <2>1
  <2>3. z \in Synced
    BY <1>1, <2>2 DEF Synced
  <2>. QED BY <1>2, <1>4, <2>1, <2>3
<1>5. ASSUME NEW f \in FloorIds,
             Upsert(acc, e) =
               [acc EXCEPT !.rows[f] = [life |-> "live", seg |-> e.seg, area |-> e.area],
                           !.kept = @ \cup {f}]
      PROVE  Upsert(acc, e) \in Synced
  <2>1. PICK z, row, rows2 :
          /\ row = [life |-> "live", seg |-> e.seg, area |-> e.area]
          /\ rows2 = [acc.rows EXCEPT ![f] = row]
          /\ z = Upsert(acc, e)
    OBVIOUS
  <2>2. row \in Row /\ row.seg = e.seg
    BY <1>3, <2>1 DEF Row
  <2>3. rows2 \in Rows /\ Placed(rows2)
    BY <1>1, <1>3, <2>1, <2>2, PlacedPut
  <2>4. z = [acc EXCEPT !.rows = rows2, !.kept = acc.kept \cup {f}]
    BY <1>1, <1>5, <2>1
  <2>5. z \in [rows : Rows, kept : SUBSET FloorIds, ok : BOOLEAN] /\ z.rows = rows2
    BY <1>1, <2>3, <2>4
  <2>. QED BY <2>1, <2>3, <2>5 DEF Synced
<1>. QED BY <1>1, <1>2, <1>4, <1>5, UpsertIs

LEMMA MaxIn == ASSUME NEW n \in Nat, NEW s \in SUBSET (1..n), s # {}
               PROVE  Max(s) \in s
<1>1. PICK N : N = {n - x : x \in s}
  OBVIOUS
<1>2. N \in SUBSET Nat /\ N # {}
  <2>1. ASSUME NEW x \in s
        PROVE  n - x \in Nat
    <3>1. x \in Nat /\ x <= n
      OBVIOUS
    <3>. QED BY <3>1
  <2>2. N \in SUBSET Nat
    BY <1>1, <2>1
  <2>. QED BY <1>1, <2>2
<1>3. PICK m \in N : \A k \in N : m <= k
  BY <1>2, LeastNat
<1>4. PICK x \in s : m = n - x
  BY <1>1, <1>3
<1>5. \A y \in s : n - x <= n - y
  BY <1>1, <1>3, <1>4
<1>6. \A y \in s : x >= y
  <2>1. ASSUME NEW y \in s
        PROVE  x >= y
    <3>1. x \in Nat /\ y \in Nat /\ n - x <= n - y
      BY <1>5
    <3>. QED BY <3>1
  <2>. QED BY <2>1
<1>7. \E z \in s : \A y \in s : z >= y
  BY <1>6
<1>. QED BY <1>7 DEF Max

\* it folds Upsert over the entries of the list, in every part of it.
Upserts(it, start, list) ==
    it = [s \in SUBSET DOMAIN list |->
            IF s = {} THEN start ELSE Upsert(it[s \ {Max(s)}], list[Max(s)])]
Folded(start, list) == CHOOSE it : Upserts(it, start, list)

LEMMA FoldUnfolds == ASSUME NEW start, NEW list
                     PROVE  FoldLeft(Upsert, start, list) = Folded(start, list)[DOMAIN list]
  BY DEF FoldLeft, MapThenFoldSet, Folded, Upserts

LEMMA FoldedExists == ASSUME NEW list \in Seq(Entries), NEW start \in Synced
                      PROVE  Upserts(Folded(start, list), start, list)
<1> DEFINE S == DOMAIN list
           c == [s \in SUBSET S |-> Max(s)]
           g == [z \in S \X Synced |-> Upsert(z[2], list[z[1]])]
<1>0. Len(list) \in Nat /\ S = 1..Len(list) /\ IsFiniteSet(S)
  BY FS_Interval
<1>1. \A s \in SUBSET S : s # {} => Max(s) \in s
  BY <1>0, MaxIn
<1>2. \A s \in SUBSET S : c[s] = Max(s)
  OBVIOUS
<1>3. g \in [S \X Synced -> Synced]
  BY UpsertKeeps
<1>4. \A x \in S : \A acc \in Synced : g[<<x, acc>>] = Upsert(acc, list[x])
  OBVIOUS
<1> HIDE DEF c, g
<1>5. PICK it : IsFold(it, S, Synced, start, c, g)
  BY <1>0, <1>1, <1>2, <1>3, FoldExists
<1>6. /\ it \in [SUBSET S -> Synced]
      /\ \A s \in SUBSET S : it[s] = IF s = {} THEN start ELSE g[<<c[s], it[s \ {c[s]}]>>]
  BY <1>5 DEF IsFold
<1>7. ASSUME NEW s \in SUBSET S, s # {}
      PROVE  it[s] = Upsert(it[s \ {Max(s)}], list[Max(s)])
  <2>1. Max(s) \in S /\ it[s \ {Max(s)}] \in Synced
    BY <1>1, <1>6, <1>7
  <2>2. it[s] = g[<<Max(s), it[s \ {Max(s)}]>>]
    BY <1>2, <1>6, <1>7
  <2>. QED BY <1>4, <2>1, <2>2
<1>8. Upserts(it, start, list)
  BY <1>6, <1>7 DEF Upserts
<1>. QED BY <1>8 DEF Folded

\* The whole list, folded.
LEMMA FoldKeeps == ASSUME NEW list \in Seq(Entries), NEW start \in Synced
                   PROVE  FoldLeft(Upsert, start, list) \in Synced
<1>1. PICK it : it = Folded(start, list)
  OBVIOUS
<1>2. it = [s \in SUBSET DOMAIN list |->
              IF s = {} THEN start ELSE Upsert(it[s \ {Max(s)}], list[Max(s)])]
  <2>1. Upserts(it, start, list)
    BY <1>1, FoldedExists
  <2>. QED BY <2>1, Zenon DEF Upserts
<1>3. \A s \in SUBSET DOMAIN list :
        it[s] = IF s = {} THEN start ELSE Upsert(it[s \ {Max(s)}], list[Max(s)])
  BY <1>2
<1> DEFINE Bad == {s \in SUBSET DOMAIN list : it[s] \notin Synced}
<1>4. Bad = {}
  <2> SUFFICES ASSUME Bad # {}
               PROVE  FALSE
    OBVIOUS
  <2>0. Len(list) \in Nat /\ DOMAIN list = 1..Len(list) /\ IsFiniteSet(DOMAIN list)
    BY FS_Interval
  <2>1. PICK t \in Bad : \A u \in Bad : u \subseteq t => u = t
    <3>1. PICK B : B = Bad
      OBVIOUS
    <3>2. B \in SUBSET SUBSET DOMAIN list /\ B # {}
      BY <3>1
    <3>3. \E t \in B : \A u \in B : u \subseteq t => u = t
      BY <2>0, <3>2, LeastSet
    <3>. QED BY <3>1, <3>3, Zenon
  <2>2. t # {} /\ t \in SUBSET (1..Len(list))
    BY <1>3, <2>0
  <2>3. Max(t) \in t /\ Max(t) \in DOMAIN list
    BY <2>0, <2>2, MaxIn
  <2>4. t \ {Max(t)} \notin Bad
    BY <2>1, <2>3
  <2>5. it[t \ {Max(t)}] \in Synced
    BY <2>4
  <2>6. it[t] = Upsert(it[t \ {Max(t)}], list[Max(t)])
    BY <1>3, <2>2
  <2>7. it[t] \in Synced
    BY <2>3, <2>5, <2>6, UpsertKeeps
  <2>. QED BY <2>7
<1>5. it[DOMAIN list] \in Synced
  BY <1>4
<1>. QED BY <1>1, <1>5, FoldUnfolds

\* syncFloors leaves rows of segments, whatever list a correction sends.
LEMMA SyncKeeps ==
    ASSUME NEW list \in Seq(Entries), floor \in Rows, Placed(floor),
           NEW rows, rows = SyncFloors(list).rows
    PROVE  rows \in Rows /\ Placed(rows)
<1>1. PICK start, done :
        /\ start = [rows |-> floor, kept |-> {}, ok |-> TRUE]
        /\ done = FoldLeft(Upsert, start, list)
  OBVIOUS
<1>2. start \in Synced
  BY <1>1 DEF Synced
<1>3. done \in Synced
  BY <1>1, <1>2, FoldKeeps
<1>4. done \in [rows : Rows, kept : SUBSET FloorIds, ok : BOOLEAN] /\ Placed(done.rows)
  BY <1>3 DEF Synced
<1>5. PICK left : left = [f \in FloorIds |->
                            IF f \in Live(done.rows) \ done.kept THEN Gone ELSE done.rows[f]]
  OBVIOUS
<1>6. rows = left
  <2>1. SyncFloors(list) = [done EXCEPT !.rows = left]
    BY <1>1, <1>5 DEF SyncFloors
  <2>. QED BY <1>4, <2>1
<1>7. rows \in Rows /\ \A f \in FloorIds : rows[f] = done.rows[f] \/ rows[f] = Gone
  <2>1. \A f \in FloorIds : done.rows[f] \in Row
    BY <1>4 DEF Rows
  <2>2. Gone \in Row
    BY GoneFacts DEF GoneRow
  <2>. QED BY <1>5, <1>6, <2>1, <2>2 DEF Rows
<1>8. Gone.life # "live" /\ done.rows \in Rows
  BY <1>4, GoneFacts DEF GoneRow
<1>. QED BY <1>4, <1>7, <1>8, PlacedDrop

-----------------------------------------------------------------------------
(* The inductive invariant.                                                 *)

\* What a request at each step holds.
Shape(q) ==
    /\ q.op = "create" /\ q.at \in {"write", "again"} => q.seg \in Segments
    /\ q.op = "update" /\ q.at \in {"check", "write"} => q.seg \in SegmentPatches
    /\ q.at \in {"sum", "commit"} =>
         q.id \in FloorIds /\ (q.row.life = "live" => q.row.seg \in Segments)
Shaped == \A r \in Requests : Shape(req[r])
CorrectionPlaced == \A f \in FloorIds :
    corr.wrote[f] # None /\ corr.wrote[f].life = "live" => corr.wrote[f].seg \in Segments

RowsInv == TypeOK /\ Shaped /\ Placed(floor) /\ CorrectionPlaced

\* A request or correction nobody has disturbed is the only one.
Lonely ==
    /\ \A r \in Requests : req[r] # Idle /\ req[r].alone =>
         corr = NoCorrection /\ \A q \in Requests \ {r} : req[q] = Idle
    /\ corr # NoCorrection /\ corr.alone => \A r \in Requests : req[r] = Idle
\* It is going to store what the floors, with its own rows, add up to.
Summed ==
    /\ \A r \in Requests : req[r].alone /\ req[r].at = "commit" =>
         req[r].sum = BuiltUp(Seen(r), use)
    /\ corr.alone /\ corr.at = "commit" => corr.sum = BuiltUp(CorrectionSeen, use)
TotalInv == Lonely /\ Summed /\ TotalCountsFloors

\* WithinPlot and what a request has checked, of any rows, use and plot.
Within(rows, u, p, seg, area, e) ==
    IF u = "OPEN_LAND" THEN Excluded(seg)
    ELSE p # None =>
           Countable(area, seg)
             + SumArea(rows, {f \in Live(rows) \ {e} :
                                rows[f].seg.position = seg.position}) <= p
Checked(q, rows, u, p) ==
    /\ q.op = "create" /\ q.at = "write" =>
         q.id = RowAt(rows, q.seg) /\ Within(rows, u, p, q.seg, Asked(q.area), q.id)
    /\ q.op = "update" /\ q.at = "check" => q.base = rows[q.id]
    /\ q.op = "update" /\ q.at = "write" =>
         Within(rows, u, p, Patched(rows[q.id].seg, q.seg),
                            IF q.area = Keep THEN rows[q.id].area ELSE q.area, q.id)
    /\ q.at \in {"sum", "commit"} /\ Fits(rows, u, p) =>
         Fits([rows EXCEPT ![q.id] = q.row], u, p)
\* For a request nobody has disturbed that still holds: its row keeps to the plot when
\* the others do.
PlotInv == PlotLimit /\ \A r \in Requests : req[r].alone => Checked(req[r], floor, use, plot)

-----------------------------------------------------------------------------
(* Requests.                                                                *)

\* q2 is q, whether or not it was disturbed.
Same(q, q2) == /\ q2.op = q.op /\ q2.at = q.at /\ q2.id = q.id /\ q2.seg = q.seg
               /\ q2.area = q.area /\ q2.base = q.base /\ q2.row = q.row /\ q2.sum = q.sum

LEMMA SegRow == ASSUME NEW seg \in Segments, NEW area \in Areas \cup {0}
                PROVE  [life |-> "live", seg |-> seg, area |-> area] \in Row
  BY DEF Row

LEMMA NoCorrectionFacts ==
    /\ NoCorrection \in Correction /\ NoCorrection.at = "-" /\ NoCorrection.alone
    /\ \A f \in FloorIds : NoCorrection.wrote[f] = None
<1>1. [f \in FloorIds |-> None] \in [FloorIds -> Row \cup {None}] /\ 0 \in Nat
  OBVIOUS
<1>. QED BY <1>1 DEF NoCorrection, Correction

LEMMA IdleFacts ==
    /\ Idle \in Request /\ Shape(Idle) /\ Idle.at = "-" /\ Idle.op = "idle" /\ Idle.alone
    /\ Idle.id = None /\ Idle.area = 0
<1>1. 0 \in Nat
  OBVIOUS
<1>2. Idle \in Request
  BY <1>1, GoneFacts DEF Idle, Request, GoneRow
<1>. QED BY <1>2 DEF Idle, Shape

LEMMA DisturbedIs == ASSUME NEW q \in Request
                     PROVE  /\ Disturbed(q) \in Request /\ Same(q, Disturbed(q))
                            /\ Shape(q) => Shape(Disturbed(q))
                            /\ q = Idle => Disturbed(q) = Idle
                            /\ q # Idle => ~Disturbed(q).alone
                            /\ Disturbed(q) # Idle => q # Idle /\ ~Disturbed(q).alone
<1>1. PICK d : d = [q EXCEPT !.alone = FALSE]
  OBVIOUS
<1>2. d \in Request /\ ~d.alone /\ Same(q, d)
  BY <1>1 DEF Request, Same
<1>3. Same(q, q)
  BY DEF Same
<1>4. Disturbed(q) = IF q = Idle THEN q ELSE d
  BY <1>1 DEF Disturbed
<1>5. Shape(q) => Shape(d)
  BY <1>2 DEF Shape, Same
<1>. QED BY <1>2, <1>3, <1>4, <1>5

\* What the steps of a request that change no committed row do to the others.
Others(r) == \A q \in Requests \ {r} : Same(req[q], req'[q]) /\ Shape(req'[q])

LEMMA ShapeSame == ASSUME NEW q, NEW q2, Same(q, q2), Shape(q)
                   PROVE  Shape(q2)
  BY DEF Same, Shape

-----------------------------------------------------------------------------
(* What each step does, in the terms of the proofs.                         *)

Rest == UNCHANGED <<floor, use, plot, total, exact, fits>>

\* An open correction, too, learns that somebody else writes.
CorrectionDisturbed ==
    /\ corr' \in Correction /\ corr'.wrote = corr.wrote
    /\ corr = NoCorrection => corr' = NoCorrection
    /\ corr' # NoCorrection => corr # NoCorrection /\ ~corr'.alone

LEMMA DisturbCorrectionIs == ASSUME TypeOK, DisturbCorrection
                             PROVE  CorrectionDisturbed
<1>1. PICK d : d = [corr EXCEPT !.alone = FALSE]
  OBVIOUS
<1>2. corr \in Correction
  BY DEF TypeOK
<1>3. d \in Correction /\ d.wrote = corr.wrote /\ ~d.alone
  BY <1>1, <1>2 DEF Correction
<1>4. corr' = IF corr = NoCorrection THEN corr ELSE d
  BY <1>1 DEF DisturbCorrection
<1>. QED BY <1>2, <1>3, <1>4 DEF CorrectionDisturbed

\* r begins: whoever is there is disturbed, and it is alone when nobody is.
Begins(r, z) ==
    /\ CorrectionDisturbed
    /\ req' \in [Requests -> Request] /\ calls' \in 0..MaxCalls /\ Others(r)
    /\ req[r] = Idle /\ req'[r] = z /\ Shape(z)
    /\ z.alone <=> (corr = NoCorrection /\ \A o \in Requests \ {r} : req[o] = Idle)
    /\ \A q \in Requests \ {r} : /\ req'[q] # Idle => ~req'[q].alone
                                 /\ req[q] = Idle => req'[q] = Idle

\* r goes on: it alone changes.
Moved(r, z) ==
    /\ corr' = corr
    /\ req' \in [Requests -> Request] /\ calls' \in 0..MaxCalls /\ Others(r)
    /\ req'[r] = z /\ Shape(z)
    /\ \A q \in Requests \ {r} : req'[q] = req[q]

LEMMA BeginIs == ASSUME TypeOK, Shaped, NEW r \in Requests, NEW z \in Request, Shape(z), Begin(r, z)
                 PROVE  \E z2 \in Request : Begins(r, z2) /\ Same(z, z2)
<1>1. PICK b \in BOOLEAN : b = (corr = NoCorrection /\ \A o \in Requests \ {r} : req[o] = Idle)
  OBVIOUS
<1>2. PICK z2 : z2 = [z EXCEPT !.alone = b]
  OBVIOUS
<1>3. z2 \in Request /\ Same(z, z2) /\ z2.alone = b
  BY <1>2 DEF Request, Same
<1>4. req[r] = Idle /\ calls < MaxCalls /\ calls' = calls + 1
      /\ req' = [q \in Requests |-> IF q = r THEN z2 ELSE Disturbed(req[q])]
  BY <1>1, <1>2 DEF Begin, Counted
<1>5. \A q \in Requests : req[q] \in Request /\ Shape(req[q])
  BY DEF TypeOK, Shaped
<1>6. \A q \in Requests \ {r} : req'[q] = Disturbed(req[q])
  BY <1>4
<1>7. ASSUME NEW q \in Requests \ {r}
      PROVE  /\ req'[q] \in Request /\ Same(req[q], req'[q]) /\ Shape(req'[q])
             /\ req'[q] # Idle => ~req'[q].alone
             /\ req[q] = Idle => req'[q] = Idle
  BY <1>5, <1>6, DisturbedIs
<1>8. req'[r] = z2 /\ Shape(z2)
  BY <1>3, <1>4, ShapeSame
<1>9. req' \in [Requests -> Request]
  <2>1. \A q \in Requests : req'[q] \in Request
    BY <1>3, <1>7, <1>8
  <2>2. req' = [q \in Requests |-> req'[q]]
    BY <1>4
  <2>. QED BY <2>1, <2>2
<1>10. calls' \in 0..MaxCalls
  <2>1. calls \in 0..MaxCalls /\ MaxCalls \in Nat
    BY Constants DEF TypeOK
  <2>. QED BY <1>4, <2>1
<1>11. Others(r)
  BY <1>7 DEF Others
<1>12. CorrectionDisturbed
  BY DisturbCorrectionIs DEF Begin
<1>. QED BY <1>12, <1>1, <1>3, <1>4, <1>7, <1>8, <1>9, <1>10, <1>11 DEF Begins

LEMMA MoveIs == ASSUME TypeOK, Shaped, NEW r \in Requests, NEW z \in Request, Shape(z),
                       req' = [req EXCEPT ![r] = z], calls' = calls, corr' = corr
                PROVE  Moved(r, z)
<1>1. \A q \in Requests : Same(req[q], req[q]) /\ Shape(req[q])
  BY DEF Same, Shaped
<1>2. req \in [Requests -> Request] /\ calls' \in 0..MaxCalls
  BY DEF TypeOK
<1>3. req'[r] = z /\ \A q \in Requests \ {r} : req'[q] = req[q]
  BY <1>2
<1>4. Others(r)
  BY <1>1, <1>3 DEF Others
<1>. QED BY <1>2, <1>3, <1>4 DEF Moved

LEMMA CreateReadsIs ==
    ASSUME TypeOK, Shaped, NEW r \in Requests, CreateReads(r)
    PROVE  \E z \in Request :
             /\ Begins(r, z) /\ Rest /\ z.op = "create" /\ z.at = "write"
             /\ z.seg \in Segments /\ z.id = RowAt(floor, z.seg)
             /\ WithinPlot(z.seg, Asked(z.area), z.id)
<1>1. PICK seg \in Segments, area \in Areas \cup {Keep} :
        /\ WithinPlot(seg, Asked(area), RowAt(floor, seg))
        /\ Begin(r, [Idle EXCEPT !.op = "create", !.at = "write",
                                 !.id = RowAt(floor, seg), !.seg = seg, !.area = area])
        /\ Rest
  BY DEF CreateReads, KeepSurvey, KeepHistory, Rest
<1>2. PICK f, z : f = RowAt(floor, seg) /\
        z = [Idle EXCEPT !.op = "create", !.at = "write", !.id = f, !.seg = seg, !.area = area]
  OBVIOUS
<1>3. f \in FloorIds \cup {None}
  BY <1>2, RowAtIs
<1>4. z \in Request /\ z.op = "create" /\ z.at = "write" /\ z.id = f /\ z.seg = seg /\ z.area = area
  BY <1>2, <1>3, IdleFacts, SegmentIsPatch DEF Request
<1>5. Shape(z)
  BY <1>4 DEF Shape
<1>6. Begin(r, z)
  BY <1>1, <1>2, Zenon
<1>7. PICK z2 \in Request : Begins(r, z2) /\ Same(z, z2)
  BY <1>4, <1>5, <1>6, BeginIs
<1>8. WithinPlot(seg, Asked(area), f)
  BY <1>1, <1>2
<1>. QED BY <1>1, <1>2, <1>4, <1>7, <1>8 DEF Same

LEMMA UpdateReadsIs ==
    ASSUME RowsInv, NEW r \in Requests, UpdateReads(r)
    PROVE  \E z \in Request :
             /\ Begins(r, z) /\ Rest /\ z.op = "update" /\ z.at = "check"
             /\ z.id \in Live(floor) /\ z.base = floor[z.id]
<1>1. PICK f \in Live(floor), seg \in SegmentPatches, area \in Areas \cup {Keep} :
        /\ Begin(r, [Idle EXCEPT !.op = "update", !.at = "check", !.id = f,
                                 !.seg = seg, !.area = area, !.base = floor[f]])
        /\ Rest
  BY DEF UpdateReads, KeepSurvey, KeepHistory, Rest
<1>2. PICK b, z : b = floor[f] /\
        z = [Idle EXCEPT !.op = "update", !.at = "check", !.id = f,
                         !.seg = seg, !.area = area, !.base = b]
  OBVIOUS
<1>3. f \in FloorIds /\ b \in Row /\ b.life = "live" /\ b.seg \in Segments
  BY <1>2 DEF RowsInv, TypeOK, Live, Placed
<1>4. z \in Request /\ z.op = "update" /\ z.at = "check" /\ z.id = f /\ z.seg = seg /\ z.base = b
  BY <1>2, <1>3, IdleFacts, SegmentIsPatch DEF Request
<1>5. Shape(z)
  BY <1>3, <1>4 DEF Shape
<1>6. Begin(r, z)
  BY <1>1, <1>2
<1>7. PICK z2 \in Request : Begins(r, z2) /\ Same(z, z2)
  BY <1>4, <1>5, <1>6, BeginIs DEF RowsInv
<1>. QED BY <1>1, <1>2, <1>4, <1>7 DEF Same

LEMMA DeleteWritesIs ==
    ASSUME TypeOK, Shaped, NEW r \in Requests, DeleteWrites(r)
    PROVE  \E z \in Request :
             /\ Begins(r, z) /\ Rest /\ z.op = "delete" /\ z.at = "sum"
             /\ z.id \in Live(floor) /\ z.row = Gone
<1>1. PICK f \in Live(floor) :
        /\ Begin(r, [Idle EXCEPT !.op = "delete", !.at = "sum", !.id = f, !.row = Gone])
        /\ Rest
  BY DEF DeleteWrites, KeepSurvey, KeepHistory, Rest
<1>2. PICK z : z = [Idle EXCEPT !.op = "delete", !.at = "sum", !.id = f, !.row = Gone]
  OBVIOUS
<1>3. f \in FloorIds /\ Gone \in Row /\ Gone.life # "live"
  BY GoneFacts DEF Live, GoneRow
<1>4. z \in Request /\ z.op = "delete" /\ z.at = "sum" /\ z.id = f /\ z.row = Gone
  BY <1>2, <1>3, IdleFacts DEF Request
<1>5. Shape(z)
  BY <1>3, <1>4 DEF Shape
<1>6. Begin(r, z)
  BY <1>1, <1>2
<1>7. PICK z2 \in Request : Begins(r, z2) /\ Same(z, z2)
  BY <1>4, <1>5, <1>6, BeginIs
<1>. QED BY <1>1, <1>4, <1>7 DEF Same

LEMMA CreateReadsAgainIs ==
    ASSUME TypeOK, Shaped, NEW r \in Requests, CreateReadsAgain(r)
    PROVE  \E z \in Request :
             /\ Moved(r, z) /\ Rest /\ req[r] # Idle /\ z.alone = req[r].alone
             /\ z.op = "create" /\ z.at = "write" /\ z.id = RowAt(floor, z.seg)
             /\ WithinPlot(z.seg, Asked(z.area), z.id)
<1>1. /\ req[r].op = "create" /\ req[r].at = "again"
      /\ WithinPlot(req[r].seg, Asked(req[r].area), RowAt(floor, req[r].seg))
      /\ req' = [req EXCEPT ![r].at = "write", ![r].id = RowAt(floor, req[r].seg)]
      /\ Rest /\ calls' = calls /\ corr' = corr
  BY DEF CreateReadsAgain, Step, KeepSurvey, KeepHistory, Rest
<1>2. PICK f, z : f = RowAt(floor, req[r].seg) /\ z = [req[r] EXCEPT !.at = "write", !.id = f]
  OBVIOUS
<1>3. req[r] \in Request /\ Shape(req[r]) /\ req \in [Requests -> Request]
  BY DEF TypeOK, Shaped
<1>4. f \in FloorIds \cup {None}
  BY <1>2, RowAtIs
<1>5. /\ z \in Request /\ z.at = "write" /\ z.id = f
      /\ z.op = req[r].op /\ z.seg = req[r].seg /\ z.area = req[r].area /\ z.alone = req[r].alone
  BY <1>2, <1>3, <1>4 DEF Request
<1>6. Shape(z)
  BY <1>1, <1>3, <1>5 DEF Shape
<1>7. req' = [req EXCEPT ![r] = z]
  BY <1>1, <1>2, <1>3
<1>8. WithinPlot(z.seg, Asked(z.area), z.id)
  BY <1>1, <1>2, <1>5
<1>. QED BY <1>1, <1>2, <1>5, <1>6, <1>7, <1>8, MoveIs, IdleFacts

LEMMA CreateConflictsIs ==
    ASSUME TypeOK, Shaped, NEW r \in Requests, CreateConflicts(r)
    PROVE  \E z \in Request :
             /\ Moved(r, z) /\ Rest /\ req[r] # Idle /\ z.alone = req[r].alone
             /\ z.op = "create" /\ z.at = "again"
<1>1. /\ req[r].op = "create" /\ req[r].at = "write"
      /\ req' = [req EXCEPT ![r].at = "again", ![r].retried = TRUE]
      /\ Rest /\ calls' = calls /\ corr' = corr
  BY DEF CreateConflicts, Step, KeepSurvey, KeepHistory, Rest
<1>2. PICK z : z = [req[r] EXCEPT !.at = "again", !.retried = TRUE]
  OBVIOUS
<1>3. req[r] \in Request /\ Shape(req[r]) /\ req \in [Requests -> Request]
  BY DEF TypeOK, Shaped
<1>5. /\ z \in Request /\ z.at = "again"
      /\ z.op = req[r].op /\ z.seg = req[r].seg /\ z.alone = req[r].alone
  BY <1>2, <1>3 DEF Request
<1>6. Shape(z)
  BY <1>1, <1>3, <1>5 DEF Shape
<1>7. req' = [req EXCEPT ![r] = z]
  BY <1>1, <1>2, <1>3
<1>. QED BY <1>1, <1>5, <1>6, <1>7, MoveIs, IdleFacts

LEMMA UpdateChecksIs ==
    ASSUME TypeOK, Shaped, NEW r \in Requests, UpdateChecks(r)
    PROVE  \E z \in Request :
             /\ Moved(r, z) /\ Rest /\ req[r] # Idle /\ z.alone = req[r].alone
             /\ req[r].op = "update" /\ req[r].at = "check"
             /\ z.op = "update" /\ z.at = "write" /\ z.id = req[r].id
             /\ WithinPlot(Patched(req[r].base.seg, z.seg),
                           IF z.area = Keep THEN req[r].base.area ELSE z.area, z.id)
<1>1. /\ req[r].op = "update" /\ req[r].at = "check"
      /\ WithinPlot(Patched(req[r].base.seg, req[r].seg),
                    IF req[r].area = Keep THEN req[r].base.area ELSE req[r].area, req[r].id)
      /\ req' = [req EXCEPT ![r].at = "write", ![r].base = Unborn]
      /\ Rest /\ calls' = calls /\ corr' = corr
  BY DEF UpdateChecks, Step, KeepSurvey, KeepHistory, Rest
<1>2. PICK z : z = [req[r] EXCEPT !.at = "write", !.base = Unborn]
  OBVIOUS
<1>3. req[r] \in Request /\ Shape(req[r]) /\ req \in [Requests -> Request]
  BY DEF TypeOK, Shaped
<1>5. /\ z \in Request /\ z.at = "write" /\ z.op = req[r].op /\ z.id = req[r].id
      /\ z.seg = req[r].seg /\ z.area = req[r].area /\ z.alone = req[r].alone
  BY <1>2, <1>3, GoneFacts DEF Request, GoneRow
<1>6. Shape(z)
  BY <1>1, <1>3, <1>5 DEF Shape
<1>7. req' = [req EXCEPT ![r] = z]
  BY <1>1, <1>2, <1>3
<1>8. WithinPlot(Patched(req[r].base.seg, z.seg),
                 IF z.area = Keep THEN req[r].base.area ELSE z.area, z.id)
  BY <1>1, <1>5
<1>. QED BY <1>1, <1>5, <1>6, <1>7, <1>8, MoveIs, IdleFacts

LEMMA RecalculatesIs ==
    ASSUME TypeOK, Shaped, NEW r \in Requests, Recalculates(r)
    PROVE  \E z \in Request :
             /\ Moved(r, z) /\ Rest /\ req[r] # Idle /\ z.alone = req[r].alone
             /\ req[r].at = "sum" /\ z.at = "commit" /\ z.op = req[r].op
             /\ z.id = req[r].id /\ z.row = req[r].row /\ z.sum = BuiltUp(Seen(r), use)
<1>1. /\ req[r].at = "sum"
      /\ req' = [req EXCEPT ![r].at = "commit", ![r].sum = BuiltUp(Seen(r), use)]
      /\ Rest /\ calls' = calls /\ corr' = corr
  BY DEF Recalculates, KeepSurvey, KeepHistory, Rest
<1>2. PICK rows, n, z : rows = Seen(r) /\ n = BuiltUp(Seen(r), use) /\ n = BuiltUp(rows, use) /\
        z = [req[r] EXCEPT !.at = "commit", !.sum = n]
  OBVIOUS
<1>3. req[r] \in Request /\ Shape(req[r]) /\ req \in [Requests -> Request]
  BY DEF TypeOK, Shaped
<1>4. n \in Nat
  <2>1. rows = [floor EXCEPT ![req[r].id] = req[r].row] /\ floor \in Rows
    BY <1>1, <1>2 DEF Seen, Open, TypeOK, Rows
  <2>2. rows \in Rows
    BY <1>3, <2>1 DEF Rows, Request
  <2>. QED BY <1>2, <2>2, BuiltUpType
<1>5. /\ z \in Request /\ z.at = "commit" /\ z.op = req[r].op /\ z.id = req[r].id
      /\ z.row = req[r].row /\ z.sum = n /\ z.alone = req[r].alone
  BY <1>2, <1>3, <1>4 DEF Request
<1>6. Shape(z)
  BY <1>1, <1>3, <1>5 DEF Shape
<1>7. req' = [req EXCEPT ![r] = z]
  BY <1>1, <1>2, <1>3
<1>. QED BY <1>1, <1>2, <1>5, <1>6, <1>7, MoveIs, IdleFacts

LEMMA RollsBackIs ==
    ASSUME TypeOK, Shaped, NEW r \in Requests, RollsBack(r)
    PROVE  Moved(r, Idle) /\ Rest /\ req[r] # Idle
<1>1. req[r] # Idle /\ req' = [req EXCEPT ![r] = Idle] /\ Rest /\ calls' = calls /\ corr' = corr
  BY DEF RollsBack, Finish, KeepSurvey, KeepHistory, Rest
<1>. QED BY <1>1, IdleFacts, MoveIs

\* A row is written.
LEMMA PutIs ==
    ASSUME TypeOK, Shaped, NEW r \in Requests, req[r] # Idle, NEW f \in FloorIds, NEW row \in Row,
           row.life = "live", row.seg \in Segments,
           Puts(r, f, row), calls' = calls, corr' = corr
    PROVE  \E z \in Request :
             /\ Moved(r, z) /\ z.alone = req[r].alone
             /\ z.op = req[r].op /\ z.at = "sum" /\ z.id = f /\ z.row = row
<1>1. PICK z : z = [Idle EXCEPT !.op = req[r].op, !.at = "sum", !.id = f, !.row = row,
                                !.alone = req[r].alone]
  OBVIOUS
<1>2. req[r] \in Request /\ req \in [Requests -> Request]
  BY DEF TypeOK
<1>3. z \in Request /\ z.at = "sum" /\ z.id = f /\ z.row = row /\ z.alone = req[r].alone
      /\ z.op = req[r].op
  BY <1>1, <1>2, IdleFacts DEF Request
<1>4. Shape(z)
  BY <1>3 DEF Shape
<1>5. req' = [req EXCEPT ![r] = z]
  BY <1>1, <1>2 DEF Puts
<1>. QED BY <1>3, <1>4, <1>5, MoveIs

LEMMA CreateUpdatesIs ==
    ASSUME RowsInv, NEW r \in Requests, CreateUpdates(r)
    PROVE  \E z \in Request :
             /\ Moved(r, z) /\ Rest /\ req[r] # Idle /\ z.alone = req[r].alone /\ z.at = "sum"
             /\ z.op = "create" /\ req[r].op = "create" /\ req[r].at = "write"
             /\ z.id = req[r].id /\ z.id \in Live(floor)
             /\ z.row.life = "live" /\ z.row.seg = floor[z.id].seg
             /\ z.row.area = IF req[r].area = Keep THEN floor[z.id].area ELSE req[r].area
<1>1. PICK f, b, row :
        /\ f = req[r].id /\ b = floor[f]
        /\ row = IF req[r].area = Keep THEN b ELSE [b EXCEPT !.area = req[r].area]
  OBVIOUS
<1>2. /\ req[r].op = "create" /\ req[r].at = "write"
      /\ f \in Live(floor)
      /\ Puts(r, f, row)
      /\ Rest /\ calls' = calls /\ corr' = corr
  BY <1>1 DEF CreateUpdates, Step, KeepSurvey, KeepHistory, Rest
<1>3. f \in FloorIds /\ b \in Row /\ b.life = "live" /\ b.seg \in Segments
  BY <1>1, <1>2 DEF RowsInv, TypeOK, Live, Placed
<1>4. req[r].area \in Areas \cup {Keep, 0}
  BY DEF RowsInv, TypeOK, Request
<1>5. row \in Row /\ row.life = "live" /\ row.seg = b.seg
      /\ row.area = IF req[r].area = Keep THEN b.area ELSE req[r].area
  BY <1>1, <1>3, <1>4 DEF Row
<1>6. req[r] # Idle
  BY <1>2, IdleFacts
<1>7. PICK z \in Request : /\ Moved(r, z) /\ z.alone = req[r].alone
                           /\ z.op = req[r].op /\ z.at = "sum" /\ z.id = f /\ z.row = row
  <2>1. TypeOK /\ Shaped
    BY DEF RowsInv
  <2>2. row.life = "live" /\ row.seg \in Segments /\ Puts(r, f, row)
    BY <1>2, <1>3, <1>5
  <2>. QED BY <1>2, <1>3, <1>5, <1>6, <2>1, <2>2, PutIs
<1>. QED BY <1>1, <1>2, <1>5, <1>6, <1>7

LEMMA CreateInsertsIs ==
    ASSUME RowsInv, NEW r \in Requests, CreateInserts(r)
    PROVE  \E z \in Request :
             /\ Moved(r, z) /\ Rest /\ req[r] # Idle /\ z.alone = req[r].alone /\ z.at = "sum"
             /\ z.op = "create" /\ req[r].op = "create" /\ req[r].at = "write"
             /\ req[r].id = None /\ z.id \in FloorIds /\ z.id \notin Live(floor)
             /\ z.row.life = "live" /\ z.row.seg = req[r].seg /\ z.row.area = Asked(req[r].area)
<1>1. PICK f, row :
        /\ f = Min(FreshIds(r))
        /\ row = [life |-> "live", seg |-> req[r].seg, area |-> Asked(req[r].area)]
  OBVIOUS
<1>2. /\ req[r].op = "create" /\ req[r].at = "write" /\ req[r].id = None
      /\ FreshIds(r) # {}
      /\ Puts(r, f, row)
      /\ Rest /\ calls' = calls /\ corr' = corr
  BY <1>1 DEF CreateInserts, Step, KeepSurvey, KeepHistory, Rest
<1>3. f \in FloorIds /\ floor[f] = Unborn
  <2>1. FreshIds(r) \in SUBSET FloorIds
    BY DEF FreshIds
  <2>2. f \in FreshIds(r)
    BY <1>1, <1>2, <2>1, MinIn
  <2>. QED BY <2>2 DEF FreshIds
<1>4. f \notin Live(floor)
  BY <1>3, GoneFacts DEF Live, GoneRow
<1>5. req[r].seg \in Segments /\ req[r].area \in Areas \cup {Keep, 0}
  BY <1>2 DEF RowsInv, TypeOK, Request, Shaped, Shape
<1>6. Asked(req[r].area) \in Areas \cup {0}
  BY <1>5 DEF Asked
<1>7. row \in Row /\ row.life = "live" /\ row.seg = req[r].seg /\ row.area = Asked(req[r].area)
  BY <1>1, <1>5, <1>6 DEF Row
<1>8. req[r] # Idle
  BY <1>2, IdleFacts
<1>9. PICK z \in Request : /\ Moved(r, z) /\ z.alone = req[r].alone
                           /\ z.op = req[r].op /\ z.at = "sum" /\ z.id = f /\ z.row = row
  <2>1. TypeOK /\ Shaped
    BY DEF RowsInv
  <2>2. row \in Row /\ row.life = "live" /\ row.seg \in Segments /\ Puts(r, f, row) /\ calls' = calls
        /\ corr' = corr
    BY <1>2, <1>5, <1>7
  <2>. QED BY <1>3, <1>8, <2>1, <2>2, PutIs
<1>. QED BY <1>2, <1>3, <1>4, <1>5, <1>7, <1>8, <1>9

LEMMA UpdateWritesIs ==
    ASSUME RowsInv, NEW r \in Requests, UpdateWrites(r)
    PROVE  \E z \in Request :
             /\ Moved(r, z) /\ Rest /\ req[r] # Idle /\ z.alone = req[r].alone /\ z.at = "sum"
             /\ z.op = "update" /\ req[r].op = "update" /\ req[r].at = "write"
             /\ z.id = req[r].id /\ z.id \in Live(floor) /\ z.row.life = "live"
             /\ z.row.seg = Patched(floor[z.id].seg, req[r].seg)
             /\ z.row.area = IF req[r].area = Keep THEN floor[z.id].area ELSE req[r].area
<1>1. PICK f, b, seg, area, row :
        /\ f = req[r].id /\ b = floor[f]
        /\ seg = Patched(b.seg, req[r].seg)
        /\ area = IF req[r].area = Keep THEN b.area ELSE req[r].area
        /\ row = [b EXCEPT !.seg = seg, !.area = area]
  OBVIOUS
<1>2. /\ req[r].op = "update" /\ req[r].at = "write"
      /\ f \in Live(floor)
      /\ Rest /\ calls' = calls /\ corr' = corr
  BY <1>1 DEF UpdateWrites, Step, KeepSurvey, KeepHistory, Rest
<1>3. f \in FloorIds /\ b \in Row /\ b.life = "live" /\ b.seg \in Segments
  BY <1>1, <1>2 DEF RowsInv, TypeOK, Live, Placed
<1>4. /\ req[r].area \in Areas \cup {Keep, 0} /\ req[r].seg \in SegmentPatches
  BY <1>2 DEF RowsInv, TypeOK, Request, Shaped, Shape
<1>5. row \in Row /\ row.life = "live" /\ row.seg = seg /\ row.area = area /\ seg \in Segments
  <2>1. seg \in Segments
    BY <1>1, <1>3, <1>4, PatchedType
  <2>2. area \in Areas \cup {0}
    <3>1. b.area \in Areas \cup {0}
      BY <1>3 DEF Row
    <3>. QED BY <1>1, <1>4, <3>1
  <2>. QED BY <1>1, <1>3, <2>1, <2>2 DEF Row
<1>6. Puts(r, f, row)
  <2>1. row = [floor[f] EXCEPT
                 !.seg = seg, !.area = IF req[r].area = Keep THEN @ ELSE req[r].area]
    BY <1>1, <1>3 DEF Row
  <2>2. Puts(r, f, [floor[f] EXCEPT
                      !.seg = seg, !.area = IF req[r].area = Keep THEN @ ELSE req[r].area])
    BY <1>1 DEF UpdateWrites
  <2>. QED BY <2>1, <2>2
<1>7. req[r] # Idle
  BY <1>2, IdleFacts
<1>8. PICK z \in Request : /\ Moved(r, z) /\ z.alone = req[r].alone
                           /\ z.op = req[r].op /\ z.at = "sum" /\ z.id = f /\ z.row = row
  <2>1. TypeOK /\ Shaped /\ f \in FloorIds /\ row \in Row /\ row.life = "live"
        /\ row.seg \in Segments /\ calls' = calls /\ corr' = corr
    BY <1>2, <1>3, <1>5 DEF RowsInv
  <2>. QED BY <2>1, <1>6, <1>7, PutIs
<1>9. /\ f = req[r].id
      /\ row.seg = Patched(floor[f].seg, req[r].seg)
      /\ row.area = IF req[r].area = Keep THEN floor[f].area ELSE req[r].area
  BY <1>1, <1>2, <1>5
<1>10. Rest /\ f \in Live(floor) /\ row.life = "live"
       /\ req[r].op = "update" /\ req[r].at = "write"
  BY <1>2, <1>5
<1>. QED BY <1>7, <1>8, <1>9, <1>10, Zenon

LEMMA CommitsIs ==
    ASSUME RowsInv, NEW r \in Requests, Commits(r)
    PROVE  /\ Moved(r, Idle) /\ req[r].at = "commit" /\ req[r].id \in FloorIds
           /\ floor' = [floor EXCEPT ![req[r].id] = req[r].row] /\ floor' = Seen(r)
           /\ total' = req[r].sum /\ exact' = req[r].alone /\ fits' = (fits /\ req[r].alone)
           /\ use' = use /\ plot' = plot
<1>1. /\ req[r].at = "commit" /\ floor' = Seen(r) /\ total' = req[r].sum
      /\ req' = [req EXCEPT ![r] = Idle]
      /\ exact' = req[r].alone /\ fits' = (fits /\ req[r].alone)
      /\ use' = use /\ plot' = plot /\ calls' = calls /\ corr' = corr
  BY DEF Commits, Finish
<1>2. TypeOK /\ Shaped /\ req[r].id \in FloorIds
  BY <1>1 DEF RowsInv, Shaped, Shape
<1>3. Moved(r, Idle)
  BY <1>1, <1>2, IdleFacts, MoveIs
<1>. QED BY <1>1, <1>2, <1>3 DEF Seen, Open

LEMMA DisturbRequestsIs ==
    ASSUME TypeOK, Shaped, DisturbRequests
    PROVE  /\ req' \in [Requests -> Request]
           /\ \A q \in Requests : /\ Same(req[q], req'[q]) /\ Shape(req'[q])
                                  /\ req'[q] # Idle => req[q] # Idle /\ ~req'[q].alone
<1>1. req' = [q \in Requests |-> Disturbed(req[q])]
  BY DEF DisturbRequests
<1>2. ASSUME NEW q \in Requests
      PROVE  /\ req'[q] \in Request /\ Same(req[q], req'[q]) /\ Shape(req'[q])
             /\ req'[q] # Idle => req[q] # Idle /\ ~req'[q].alone
  <2>1. req[q] \in Request /\ Shape(req[q]) /\ req'[q] = Disturbed(req[q])
    BY <1>1 DEF TypeOK, Shaped
  <2>. QED BY <2>1, DisturbedIs
<1>3. req' \in [Requests -> Request]
  BY <1>1, <1>2
<1>. QED BY <1>2, <1>3

LEMMA DisturbAllIs ==
    ASSUME TypeOK, Shaped, DisturbAll
    PROVE  /\ CorrectionDisturbed /\ req' \in [Requests -> Request]
           /\ \A q \in Requests : /\ Same(req[q], req'[q]) /\ Shape(req'[q])
                                  /\ req'[q] # Idle => ~req'[q].alone
  BY DisturbRequestsIs, DisturbCorrectionIs DEF DisturbAll

LEMMA CountedIs == ASSUME TypeOK, Counted PROVE calls' \in 0..MaxCalls
<1>1. calls \in 0..MaxCalls /\ MaxCalls \in Nat /\ calls < MaxCalls /\ calls' = calls + 1
  BY Constants DEF TypeOK, Counted
<1>. QED BY <1>1

LEMMA EditSurveyIs ==
    ASSUME TypeOK, EditSurvey
    PROVE  /\ use' \in PropertyUses /\ plot' \in Plots /\ calls' \in 0..MaxCalls
           /\ exact' \in BOOLEAN /\ fits' \in BOOLEAN /\ (exact' => exact /\ use' = use)
           /\ (fits' => Fits(floor, use', plot'))
           /\ DisturbAll /\ floor' = floor /\ total' = total
<1>1. PICK u \in PropertyUses, p \in Plots :
        /\ Counted /\ use' = u /\ plot' = p
        /\ exact' = (exact /\ u = use) /\ fits' = (fits /\ Fits(floor, u, p))
        /\ DisturbAll /\ floor' = floor /\ total' = total
  BY DEF EditSurvey
<1>2. exact' \in BOOLEAN /\ fits' \in BOOLEAN
  BY <1>1, Zenon DEF TypeOK
<1>3. calls' \in 0..MaxCalls
  BY <1>1, CountedIs
<1>4. Fits(floor, u, p) => Fits(floor, use', plot')
  BY <1>1
<1>. QED BY <1>1, <1>2, <1>3, <1>4

LEMMA CorrectionType ==
    ASSUME NEW c \in Corrections
    PROVE  /\ c.use \in PropertyUses \cup {Keep} /\ c.plot \in Plots \cup {Keep}
           /\ c.floors = Keep \/ c.floors \in Seq(Entries)
           /\ Keep \notin PropertyUses
  BY FloorsAssumption, Zenon

\* The floors after a correction: as they were, or the list's.
LEMMA CorrectIs ==
    ASSUME RowsInv, Correct
    PROVE  /\ use' \in PropertyUses /\ plot' \in Plots /\ calls' \in 0..MaxCalls
           /\ exact' \in BOOLEAN /\ fits' \in BOOLEAN
           /\ (fits' => Fits(floor', use', plot')) /\ DisturbAll
           /\ \/ \E list \in Seq(Entries) :
                   /\ floor' = SyncFloors(list).rows
                   /\ total' = BuiltUp(floor', use')
              \/ /\ floor' = floor
                 /\ \/ use' = "OPEN_LAND" /\ total' = 0
                    \/ total' = total /\ (exact' => exact /\ use' = use)
<1>1. PICK c \in Corrections :
        /\ Counted
        /\ use' = IF c.use = Keep THEN use ELSE c.use
        /\ plot' = IF c.plot = Keep THEN plot ELSE c.plot
        /\ IF c.floors # Keep
           THEN /\ ListAccepted(c.floors)
                /\ floor' = SyncFloors(c.floors).rows
                /\ total' = BuiltUp(floor', use')
           ELSE /\ floor' = floor
                /\ total' = IF c.use = "OPEN_LAND" THEN 0 ELSE total
        /\ exact' = (c.floors # Keep \/ c.use = "OPEN_LAND" \/ (exact /\ use' = use))
        /\ fits' = (fits /\ Fits(floor', use', plot'))
        /\ DisturbAll
  BY Zenon DEF Correct
<1>2. calls' \in 0..MaxCalls
  BY <1>1, CountedIs DEF RowsInv
<1>3. use' \in PropertyUses
  BY <1>1, CorrectionType DEF RowsInv, TypeOK
<1>4. plot' \in Plots
  BY <1>1, CorrectionType DEF RowsInv, TypeOK
<1>5. exact' \in BOOLEAN
  BY <1>1, Zenon
<1>6. fits' \in BOOLEAN
  BY <1>1, Zenon DEF RowsInv, TypeOK
<1>7. fits' => Fits(floor', use', plot')
  BY <1>1, Zenon
<1>8. CASE c.floors # Keep
  <2>1. c.floors \in Seq(Entries)
    BY <1>8, CorrectionType
  <2>. QED BY <1>1, <1>2, <1>3, <1>4, <1>5, <1>6, <1>7, <1>8, <2>1
<1>9. CASE c.floors = Keep
  <2>1. CASE c.use = "OPEN_LAND"
    <3>1. use' = "OPEN_LAND" /\ total' = 0 /\ floor' = floor
      BY <1>1, <1>9, <2>1, CorrectionType DEF PropertyUses
    <3>. QED BY <1>1, <1>2, <1>3, <1>4, <1>5, <1>6, <1>7, <3>1
  <2>2. CASE c.use # "OPEN_LAND"
    <3>1. floor' = floor /\ total' = total /\ (exact' => exact /\ use' = use)
      BY <1>1, <1>9, <2>2
    <3>. QED BY <1>1, <1>2, <1>3, <1>4, <1>5, <1>6, <1>7, <3>1
  <2>. QED BY <2>1, <2>2
<1>. QED BY <1>8, <1>9

\* What a correction of the floors alone has written.
LEMMA CorrectionSyncsIs ==
    ASSUME RowsInv, CorrectionSyncs
    PROVE  /\ Rest /\ calls' \in 0..MaxCalls /\ DisturbRequests
           /\ corr' \in Correction /\ corr'.at = "sum" /\ CorrectionPlaced'
           /\ corr'.alone <=> \A q \in Requests : req[q] = Idle
<1>0. PICK c \in Corrections :
        /\ ~WritesSurvey(c) /\ Counted
        /\ corr' = [at |-> "sum", sum |-> 0,
                    wrote |-> [f \in FloorIds |->
                      IF f \in Live(floor) \cup Live(SyncFloors(c.floors).rows)
                      THEN SyncFloors(c.floors).rows[f] ELSE None],
                    alone |-> \A q \in Requests : req[q] = Idle]
        /\ DisturbRequests /\ Rest
  BY DEF CorrectionSyncs, KeepSurvey, KeepHistory, Rest
<1>1. PICK rows :
        /\ ~WritesSurvey(c) /\ Counted /\ rows = SyncFloors(c.floors).rows
        /\ corr' = [at |-> "sum", sum |-> 0,
                    wrote |-> [f \in FloorIds |->
                      IF f \in Live(floor) \cup Live(rows) THEN rows[f] ELSE None],
                    alone |-> \A q \in Requests : req[q] = Idle]
        /\ DisturbRequests /\ Rest
  BY <1>0
<1>2. c.floors \in Seq(Entries)
  <2>1. c.use = Keep /\ c.plot = Keep
    BY <1>1 DEF WritesSurvey
  <2>. QED BY <2>1, FloorsAssumption, Zenon
<1>3. rows \in Rows /\ Placed(rows)
  BY <1>1, <1>2, SyncKeeps DEF RowsInv, TypeOK, Rows
<1>4. PICK b \in BOOLEAN : b <=> \A q \in Requests : req[q] = Idle
  OBVIOUS
<1>5. PICK w : w = [f \in FloorIds |->
                      IF f \in Live(floor) \cup Live(rows) THEN rows[f] ELSE None]
  OBVIOUS
<1>6. w \in [FloorIds -> Row \cup {None}]
  BY <1>3, <1>5 DEF Rows
<1>7. corr' = [at |-> "sum", sum |-> 0, wrote |-> w, alone |-> b]
  BY <1>1, <1>4, <1>5
<1>8. corr' \in Correction /\ corr'.wrote = w /\ corr'.at = "sum" /\ corr'.alone = b
  BY <1>6, <1>7 DEF Correction
<1>9. ASSUME NEW f \in FloorIds, w[f] # None, w[f].life = "live"
      PROVE  w[f].seg \in Segments
  BY <1>3, <1>5, <1>9 DEF Placed, Live
<1>10. CorrectionPlaced'
  BY <1>8, <1>9 DEF CorrectionPlaced
<1>11. calls' \in 0..MaxCalls
  BY <1>1, CountedIs DEF RowsInv
<1>. QED BY <1>1, <1>4, <1>8, <1>10, <1>11

\* What the correction sees, and leaves when it commits.
LEMMA SeenIs == ASSUME RowsInv
                PROVE  CorrectionSeen \in Rows /\ Placed(CorrectionSeen)
<1>1. \A f \in FloorIds : floor[f] \in Row /\ corr.wrote[f] \in Row \cup {None}
  BY DEF RowsInv, TypeOK, Correction
<1>2. \A f \in FloorIds : CorrectionSeen[f] \in Row
  BY <1>1 DEF CorrectionSeen
<1>3. CorrectionSeen \in Rows
  BY <1>2 DEF CorrectionSeen, Rows
<1>4. ASSUME NEW f \in Live(CorrectionSeen)
      PROVE  CorrectionSeen[f].seg \in Segments
  <2>1. f \in FloorIds /\ CorrectionSeen[f] = IF corr.wrote[f] = None THEN floor[f] ELSE corr.wrote[f]
    BY DEF Live, CorrectionSeen
  <2>2. CorrectionSeen[f].life = "live"
    BY DEF Live
  <2>. QED BY <2>1, <2>2 DEF RowsInv, Placed, CorrectionPlaced, Live
<1>. QED BY <1>3, <1>4 DEF Placed

LEMMA CorrectionSumsIs ==
    ASSUME RowsInv, CorrectionSums
    PROVE  /\ Rest /\ UNCHANGED <<req, calls>> /\ corr' \in Correction
           /\ corr # NoCorrection /\ corr' # NoCorrection /\ corr'.wrote = corr.wrote
           /\ corr'.alone = corr.alone /\ corr'.sum = BuiltUp(CorrectionSeen, use)
<1>1. PICK n : n = BuiltUp(CorrectionSeen, use)
  OBVIOUS
<1>2. n \in Nat
  BY <1>1, SeenIs, BuiltUpType
<1>3. /\ corr.at = "sum" /\ corr' = [corr EXCEPT !.at = "commit", !.sum = n]
      /\ Rest /\ UNCHANGED <<req, calls>>
  BY <1>1 DEF CorrectionSums, KeepSurvey, KeepHistory, Rest
<1>4. corr \in Correction
  BY DEF RowsInv, TypeOK
<1>5. corr' \in Correction /\ corr'.at = "commit" /\ corr'.wrote = corr.wrote
      /\ corr'.alone = corr.alone /\ corr'.sum = n
  BY <1>2, <1>3, <1>4 DEF Correction
<1>. QED BY <1>1, <1>3, <1>5, NoCorrectionFacts

-----------------------------------------------------------------------------
(* Types.                                                                   *)

LEMMA InitRows == Init => RowsInv
<1> SUFFICES ASSUME Init
             PROVE  RowsInv
  OBVIOUS
<1>1. \A f \in FloorIds : floor[f] = Unborn
  BY DEF Init
<1>2. \A r \in Requests : req[r] = Idle
  BY DEF Init
<1>3. Live(floor) = {}
  BY <1>1, GoneFacts DEF Live, GoneRow
<1>4. TypeOK
  <2>1. floor \in [FloorIds -> Row]
    BY GoneFacts DEF Init, GoneRow
  <2>2. req \in [Requests -> Request] /\ corr \in Correction
    BY IdleFacts, NoCorrectionFacts DEF Init
  <2>3. 0 \in 0..MaxCalls /\ 0 \in Nat
    BY Constants
  <2>. QED BY <2>1, <2>2, <2>3 DEF Init, TypeOK
<1>5. Placed(floor) /\ CorrectionPlaced
  BY <1>3, NoCorrectionFacts DEF Placed, CorrectionPlaced, Init
<1>6. Shaped
  BY <1>2, IdleFacts DEF Shaped
<1>. QED BY <1>4, <1>5, <1>6 DEF RowsInv

LEMMA PlacedSame == ASSUME floor' = floor, Placed(floor)
                    PROVE  Placed(floor)'
  BY DEF Placed, Live

LEMMA CorrectionPlacedSame == ASSUME corr'.wrote = corr.wrote, CorrectionPlaced
                              PROVE  CorrectionPlaced'
  BY DEF CorrectionPlaced

\* What begins or goes on, and leaves the committed rows alone.
LEMMA MovesKeep ==
    ASSUME RowsInv, Rest, NEW r \in Requests, NEW z \in Request, Begins(r, z) \/ Moved(r, z)
    PROVE  RowsInv'
<1>1. /\ req' \in [Requests -> Request] /\ calls' \in 0..MaxCalls /\ Others(r)
      /\ req'[r] = z /\ Shape(z)
  BY DEF Begins, Moved
<1>2. corr' \in Correction /\ corr'.wrote = corr.wrote
  BY DEF RowsInv, TypeOK, Begins, Moved, CorrectionDisturbed
<1>3. TypeOK'
  BY <1>1, <1>2 DEF RowsInv, TypeOK, Rest
<1>4. Shaped'
  BY <1>1 DEF Shaped, Others
<1>. QED BY <1>2, <1>3, <1>4, PlacedSame, CorrectionPlacedSame DEF RowsInv, Rest

LEMMA CommitRows == ASSUME RowsInv, NEW r \in Requests, Commits(r)
                    PROVE  RowsInv'
<1>1. PICK f, row : f = req[r].id /\ row = req[r].row
  OBVIOUS
<1>2. /\ Moved(r, Idle) /\ req[r].at = "commit" /\ f \in FloorIds
      /\ floor' = [floor EXCEPT ![f] = row]
      /\ total' = req[r].sum /\ exact' = req[r].alone /\ fits' = (fits /\ req[r].alone)
      /\ use' = use /\ plot' = plot
  BY <1>1, CommitsIs
<1>3. /\ req' \in [Requests -> Request] /\ calls' \in 0..MaxCalls /\ corr' = corr
      /\ req'[r] = Idle /\ \A q \in Requests \ {r} : req'[q] = req[q]
  BY <1>2 DEF Moved
<1>4. req[r] \in Request /\ floor \in Rows /\ Placed(floor) /\ row \in Row
  BY <1>1 DEF RowsInv, TypeOK, Rows, Request
<1>5. row.life = "live" => row.seg \in Segments
  BY <1>1, <1>2 DEF RowsInv, Shaped, Shape
<1>6. floor' \in Rows /\ Placed(floor')
  BY <1>2, <1>4, <1>5, PlacedPut
<1>7. TypeOK'
  <2>1. req[r].sum \in Nat /\ req[r].alone \in BOOLEAN
    BY <1>4 DEF Request
  <2>2. fits' \in BOOLEAN
    BY <1>2, Zenon
  <2>. QED BY <1>2, <1>3, <1>6, <2>1, <2>2 DEF RowsInv, TypeOK, Rows
<1>8. Shaped'
  BY <1>3, IdleFacts DEF RowsInv, Shaped
<1>9. Placed(floor)'
  BY <1>6 DEF Placed, Live
<1>. QED BY <1>3, <1>7, <1>8, <1>9, CorrectionPlacedSame DEF RowsInv

LEMMA CorrectRows == ASSUME RowsInv, Correct
                     PROVE  RowsInv'
<1>1. /\ use' \in PropertyUses /\ plot' \in Plots /\ calls' \in 0..MaxCalls
      /\ exact' \in BOOLEAN /\ fits' \in BOOLEAN /\ DisturbAll
      /\ \/ \E list \in Seq(Entries) :
              /\ floor' = SyncFloors(list).rows
              /\ total' = BuiltUp(floor', use')
         \/ floor' = floor /\ (total' = 0 \/ total' = total)
  BY CorrectIs
<1>2. /\ req' \in [Requests -> Request] /\ CorrectionDisturbed
      /\ \A q \in Requests : Same(req[q], req'[q]) /\ Shape(req'[q])
  BY <1>1, DisturbAllIs DEF RowsInv
<1>3. Shaped' /\ corr' \in Correction /\ CorrectionPlaced'
  BY <1>2, CorrectionPlacedSame DEF Shaped, CorrectionDisturbed, RowsInv
<1>4. floor' \in Rows /\ Placed(floor') /\ total' \in Nat
  <2>1. floor \in Rows /\ Placed(floor) /\ total \in Nat /\ 0 \in Nat
    BY DEF RowsInv, TypeOK, Rows
  <2>2. ASSUME NEW list \in Seq(Entries), floor' = SyncFloors(list).rows,
               total' = BuiltUp(floor', use')
        PROVE  floor' \in Rows /\ Placed(floor') /\ total' \in Nat
    <3>1. floor' \in Rows /\ Placed(floor')
      BY <2>1, <2>2, SyncKeeps
    <3>. QED BY <2>2, <3>1, BuiltUpType
  <2>3. CASE floor' = floor /\ (total' = 0 \/ total' = total)
    BY <2>1, <2>3
  <2>. QED BY <1>1, <2>2, <2>3
<1>5. TypeOK'
  BY <1>1, <1>2, <1>3, <1>4 DEF TypeOK, Rows
<1>6. Placed(floor)'
  BY <1>4 DEF Placed, Live
<1>. QED BY <1>3, <1>5, <1>6 DEF RowsInv

LEMMA EditRows == ASSUME RowsInv, EditSurvey
                  PROVE  RowsInv'
<1>1. /\ use' \in PropertyUses /\ plot' \in Plots /\ calls' \in 0..MaxCalls
      /\ exact' \in BOOLEAN /\ fits' \in BOOLEAN
      /\ DisturbAll /\ floor' = floor /\ total' = total
  BY EditSurveyIs DEF RowsInv
<1>2. /\ req' \in [Requests -> Request] /\ CorrectionDisturbed
      /\ \A q \in Requests : Same(req[q], req'[q]) /\ Shape(req'[q])
  BY <1>1, DisturbAllIs DEF RowsInv
<1>3. Shaped' /\ corr' \in Correction /\ CorrectionPlaced'
  BY <1>2, CorrectionPlacedSame DEF Shaped, CorrectionDisturbed, RowsInv
<1>4. TypeOK'
  BY <1>1, <1>2, <1>3 DEF RowsInv, TypeOK
<1>. QED BY <1>1, <1>3, <1>4, PlacedSame DEF RowsInv

\* The statements of a correction of the floors alone.
LEMMA CorrectionRows ==
    ASSUME RowsInv, CorrectionSyncs \/ CorrectionSums \/ CorrectionCommits \/ CorrectionRollsBack
    PROVE  RowsInv'
<1>1. CASE CorrectionSyncs
  <2>1. /\ Rest /\ calls' \in 0..MaxCalls /\ DisturbRequests
        /\ corr' \in Correction /\ CorrectionPlaced'
    BY <1>1, CorrectionSyncsIs
  <2>2. req' \in [Requests -> Request] /\ Shaped'
    BY <2>1, DisturbRequestsIs DEF RowsInv, Shaped
  <2>3. TypeOK'
    BY <2>1, <2>2 DEF RowsInv, TypeOK, Rest
  <2>. QED BY <2>1, <2>2, <2>3, PlacedSame DEF RowsInv, Rest
<1>2. CASE CorrectionSums
  <2>1. /\ Rest /\ UNCHANGED <<req, calls>> /\ corr' \in Correction /\ corr'.wrote = corr.wrote
    BY <1>2, CorrectionSumsIs
  <2>2. TypeOK' /\ Shaped'
    BY <2>1 DEF RowsInv, TypeOK, Rest, Shaped
  <2>. QED BY <2>1, <2>2, PlacedSame, CorrectionPlacedSame DEF RowsInv, Rest
<1>3. CASE CorrectionCommits
  <2>1. /\ floor' = CorrectionSeen /\ total' = corr.sum /\ corr' = NoCorrection
        /\ exact' = corr.alone /\ fits' = (fits /\ Fits(floor', use, plot))
        /\ UNCHANGED <<use, plot, req, calls>>
    BY <1>3 DEF CorrectionCommits
  <2>2. floor' \in Rows /\ Placed(floor')
    BY <2>1, SeenIs
  <2>3. corr.sum \in Nat /\ corr.alone \in BOOLEAN
    BY DEF RowsInv, TypeOK, Correction
  <2>4. fits' \in BOOLEAN
    BY <2>1, Zenon
  <2>5. TypeOK' /\ Shaped'
    BY <2>1, <2>2, <2>3, <2>4, NoCorrectionFacts DEF RowsInv, TypeOK, Rows, Shaped
  <2>6. CorrectionPlaced' /\ Placed(floor)'
    BY <2>1, <2>2, NoCorrectionFacts DEF CorrectionPlaced, Placed, Live
  <2>. QED BY <2>5, <2>6 DEF RowsInv
<1>4. CASE CorrectionRollsBack
  <2>1. Rest /\ UNCHANGED <<req, calls>> /\ corr' = NoCorrection
    BY <1>4 DEF CorrectionRollsBack, KeepSurvey, KeepHistory, Rest
  <2>2. TypeOK' /\ Shaped'
    BY <2>1, NoCorrectionFacts DEF RowsInv, TypeOK, Rest, Shaped
  <2>3. CorrectionPlaced'
    BY <2>1, NoCorrectionFacts DEF CorrectionPlaced
  <2>. QED BY <2>1, <2>2, <2>3, PlacedSame DEF RowsInv, Rest
<1>. QED BY <1>1, <1>2, <1>3, <1>4

LEMMA NextRows == RowsInv /\ [Next]_vars => RowsInv'
<1> SUFFICES ASSUME RowsInv, [Next]_vars
             PROVE  RowsInv'
  OBVIOUS
<1>0. TypeOK /\ Shaped
  BY DEF RowsInv
<1>1. ASSUME NEW r \in Requests, CreateReads(r) \/ UpdateReads(r) \/ DeleteWrites(r)
      PROVE  RowsInv'
  <2>1. \E z \in Request : Begins(r, z) /\ Rest
    <3>1. CASE CreateReads(r)
      BY <1>0, <3>1, CreateReadsIs
    <3>2. CASE UpdateReads(r)
      BY <3>2, UpdateReadsIs
    <3>3. CASE DeleteWrites(r)
      BY <1>0, <3>3, DeleteWritesIs
    <3>. QED BY <1>1, <3>1, <3>2, <3>3
  <2>. QED BY <2>1, MovesKeep
<1>2. ASSUME NEW r \in Requests,
             \/ CreateReadsAgain(r) \/ CreateUpdates(r) \/ CreateInserts(r) \/ CreateConflicts(r)
             \/ UpdateChecks(r) \/ UpdateWrites(r) \/ Recalculates(r) \/ RollsBack(r)
      PROVE  RowsInv'
  <2>1. \E z \in Request : Moved(r, z) /\ Rest
    <3>1. CASE CreateReadsAgain(r)
      BY <1>0, <3>1, CreateReadsAgainIs
    <3>2. CASE CreateUpdates(r)
      BY <3>2, CreateUpdatesIs
    <3>3. CASE CreateInserts(r)
      BY <3>3, CreateInsertsIs
    <3>4. CASE CreateConflicts(r)
      BY <1>0, <3>4, CreateConflictsIs
    <3>5. CASE UpdateChecks(r)
      BY <1>0, <3>5, UpdateChecksIs
    <3>6. CASE UpdateWrites(r)
      BY <3>6, UpdateWritesIs
    <3>7. CASE Recalculates(r)
      BY <1>0, <3>7, RecalculatesIs
    <3>8. CASE RollsBack(r)
      BY <1>0, <3>8, RollsBackIs, IdleFacts
    <3>. QED BY <1>2, <3>1, <3>2, <3>3, <3>4, <3>5, <3>6, <3>7, <3>8
  <2>. QED BY <2>1, MovesKeep
<1>3. CASE UNCHANGED vars
  BY <1>3 DEF vars, RowsInv, TypeOK, Shaped, Placed, CorrectionPlaced, Live
<1>4. CASE Next
  BY <1>1, <1>2, <1>4, CommitRows, CorrectRows, EditRows, CorrectionRows, Zenon DEF Next
<1>. QED BY <1>3, <1>4

THEOREM RowsInvariant == Spec => []RowsInv
  BY InitRows, NextRows, PTL DEF Spec

\* Every variable keeps its type through every request and correction.
THEOREM TypeCorrect == Spec => []TypeOK
<1>1. RowsInv => TypeOK
  BY DEF RowsInv
<1>. QED BY <1>1, RowsInvariant, PTL

-----------------------------------------------------------------------------
(* The stored total.                                                        *)

LEMMA InitTotal == Init => TotalInv
<1> SUFFICES ASSUME Init
             PROVE  TotalInv
  OBVIOUS
<1>1. \A r \in Requests : req[r] = Idle
  BY DEF Init
<1>2. Lonely /\ Summed
  BY <1>1, IdleFacts, NoCorrectionFacts DEF Lonely, Summed, Init
<1>3. floor \in Rows
  BY GoneFacts DEF Init, Rows, GoneRow
<1>4. Live(floor) = {}
  BY GoneFacts DEF Init, Live, GoneRow
<1>5. total = BuiltUp(floor, use)
  BY <1>3, <1>4, BuiltUpType DEF Init
<1>. QED BY <1>2, <1>5 DEF TotalInv, TotalCountsFloors

\* What each step means for a request nobody has disturbed.
LEMMA LonelyKept ==
    ASSUME Lonely, NEW r \in Requests, NEW z,
           \/ Begins(r, z)
           \/ Moved(r, z) /\ req[r] # Idle /\ (z = Idle \/ z.alone = req[r].alone)
    PROVE  /\ Lonely'
           /\ \A q \in Requests \ {r} : req'[q] # Idle /\ req'[q].alone => req'[q] = req[q]
           /\ corr' # NoCorrection /\ corr'.alone => FALSE
<1>1. CASE Begins(r, z)
  <2>1. /\ req'[r] = z
        /\ z.alone <=> (corr = NoCorrection /\ \A o \in Requests \ {r} : req[o] = Idle)
        /\ \A q \in Requests \ {r} : /\ req'[q] # Idle => ~req'[q].alone
                                     /\ req[q] = Idle => req'[q] = Idle
        /\ corr = NoCorrection => corr' = NoCorrection
        /\ corr' # NoCorrection => ~corr'.alone
    BY <1>1 DEF Begins, CorrectionDisturbed
  <2>2. ASSUME NEW q \in Requests, req'[q] # Idle, req'[q].alone
        PROVE  corr' = NoCorrection /\ \A o \in Requests \ {q} : req'[o] = Idle
    <3>1. q = r
      BY <2>1, <2>2
    <3>. QED BY <2>1, <2>2, <3>1
  <2>. QED BY <2>1, <2>2 DEF Lonely
<1>2. CASE Moved(r, z) /\ req[r] # Idle /\ (z = Idle \/ z.alone = req[r].alone)
  <2>1. req'[r] = z /\ corr' = corr /\ \A q \in Requests \ {r} : req'[q] = req[q]
    BY <1>2 DEF Moved
  <2>2. ASSUME NEW q \in Requests, req'[q] # Idle, req'[q].alone
        PROVE  corr' = NoCorrection /\ \A o \in Requests \ {q} : req'[o] = Idle
    <3>1. req[q] # Idle /\ req[q].alone
      BY <1>2, <2>1, <2>2
    <3>2. corr = NoCorrection /\ \A o \in Requests \ {q} : req[o] = Idle
      BY <3>1 DEF Lonely
    <3>. QED BY <1>2, <2>1, <2>2, <3>2
  <2>3. ~(corr # NoCorrection /\ corr.alone)
    BY <1>2 DEF Lonely
  <2>. QED BY <2>1, <2>2, <2>3 DEF Lonely
<1>. QED BY <1>1, <1>2

LEMMA MovesTotal ==
    ASSUME TotalInv, Rest, NEW r \in Requests, NEW z,
           \/ Begins(r, z)
           \/ Moved(r, z) /\ req[r] # Idle /\ (z = Idle \/ z.alone = req[r].alone),
           \/ z.at # "commit"
           \/ Open(r) /\ z.id = req[r].id /\ z.row = req[r].row /\ z.sum = BuiltUp(Seen(r), use)
    PROVE  TotalInv'
<1>1. /\ Lonely'
      /\ \A q \in Requests \ {r} : req'[q] # Idle /\ req'[q].alone => req'[q] = req[q]
      /\ corr' # NoCorrection => ~corr'.alone
  BY LonelyKept DEF TotalInv
<1>2. floor' = floor /\ use' = use /\ total' = total /\ exact' = exact /\ req'[r] = z
  BY DEF Rest, Begins, Moved
<1>3. ASSUME NEW q \in Requests, req'[q].alone, req'[q].at = "commit"
      PROVE  req'[q].sum = BuiltUp(Seen(q)', use)
  <2>1. CASE q = r
    <3>1. /\ Open(r) /\ z.id = req[r].id /\ z.row = req[r].row /\ z.sum = BuiltUp(Seen(r), use)
      BY <1>2, <1>3, <2>1
    <3>2. Seen(r)' = Seen(r)
      BY <1>2, <1>3, <2>1, <3>1 DEF Seen, Open
    <3>. QED BY <1>2, <2>1, <3>1, <3>2
  <2>2. CASE q # r
    <3>1. req'[q] = req[q]
      BY <1>1, <1>3, <2>2, IdleFacts
    <3>2. Seen(q)' = Seen(q)
      BY <1>2, <3>1 DEF Seen, Open
    <3>3. req[q].sum = BuiltUp(Seen(q), use)
      BY <1>3, <3>1 DEF TotalInv, Summed
    <3>. QED BY <3>1, <3>2, <3>3
  <2>. QED BY <2>1, <2>2
<1>4. Summed'
  BY <1>1, <1>2, <1>3, NoCorrectionFacts DEF Summed
<1>5. TotalCountsFloors'
  BY <1>2 DEF TotalInv, TotalCountsFloors
<1>. QED BY <1>1, <1>4, <1>5 DEF TotalInv

LEMMA DisturbTotal ==
    ASSUME RowsInv, DisturbAll
    PROVE  /\ \A q \in Requests : req'[q] # Idle => ~req'[q].alone
           /\ Lonely' /\ Summed'
<1>1. /\ \A q \in Requests : req'[q] # Idle => ~req'[q].alone
      /\ corr' # NoCorrection => ~corr'.alone
  BY DisturbAllIs DEF RowsInv, CorrectionDisturbed
<1>2. Lonely' /\ Summed'
  BY <1>1, IdleFacts, NoCorrectionFacts DEF Lonely, Summed
<1>. QED BY <1>1, <1>2

LEMMA CorrectionTotal ==
    ASSUME RowsInv, TotalInv,
           CorrectionSyncs \/ CorrectionSums \/ CorrectionCommits \/ CorrectionRollsBack
    PROVE  TotalInv'
<1>1. CASE CorrectionSyncs
  <2>1. /\ Rest /\ DisturbRequests /\ corr'.at = "sum"
        /\ corr'.alone <=> \A q \in Requests : req[q] = Idle
    BY <1>1, CorrectionSyncsIs
  <2>2. \A q \in Requests : req'[q] # Idle => req[q] # Idle /\ ~req'[q].alone
    BY <2>1, DisturbRequestsIs DEF RowsInv
  <2>3. Lonely' /\ Summed'
    BY <2>1, <2>2, IdleFacts DEF Lonely, Summed
  <2>4. TotalCountsFloors'
    BY <2>1 DEF TotalInv, TotalCountsFloors, Rest
  <2>. QED BY <2>3, <2>4 DEF TotalInv
<1>2. CASE CorrectionSums
  <2>1. /\ Rest /\ req' = req /\ corr # NoCorrection /\ corr' # NoCorrection
        /\ corr'.wrote = corr.wrote /\ corr'.alone = corr.alone
        /\ corr'.sum = BuiltUp(CorrectionSeen, use)
    BY <1>2, CorrectionSumsIs
  <2>2. Lonely'
    BY <2>1 DEF TotalInv, Lonely
  <2>3. \A q \in Requests : req[q].alone => req[q] = Idle
    BY <2>1 DEF TotalInv, Lonely
  <2>4. CorrectionSeen' = CorrectionSeen
    BY <2>1 DEF CorrectionSeen, Rest
  <2>5. Summed'
    BY <2>1, <2>3, <2>4, IdleFacts DEF Summed, Rest
  <2>6. TotalCountsFloors'
    BY <2>1 DEF TotalInv, TotalCountsFloors, Rest
  <2>. QED BY <2>2, <2>5, <2>6 DEF TotalInv
<1>3. CASE CorrectionCommits
  <2>1. /\ corr.at = "commit" /\ floor' = CorrectionSeen /\ total' = corr.sum
        /\ corr' = NoCorrection /\ exact' = corr.alone /\ use' = use /\ req' = req
    BY <1>3 DEF CorrectionCommits
  <2>2. corr # NoCorrection
    BY <2>1, NoCorrectionFacts
  <2>3. \A q \in Requests : req[q].alone => req[q] = Idle
    BY <2>2 DEF TotalInv, Lonely
  <2>4. Lonely' /\ Summed'
    BY <2>1, <2>3, IdleFacts, NoCorrectionFacts DEF Lonely, Summed
  <2>5. corr.alone => corr.sum = BuiltUp(CorrectionSeen, use)
    BY <2>1 DEF TotalInv, Summed
  <2>6. TotalCountsFloors'
    BY <2>1, <2>5 DEF TotalCountsFloors
  <2>. QED BY <2>4, <2>6 DEF TotalInv
<1>4. CASE CorrectionRollsBack
  <2>1. Rest /\ req' = req /\ corr # NoCorrection /\ corr' = NoCorrection
    BY <1>4 DEF CorrectionRollsBack, KeepSurvey, KeepHistory, Rest
  <2>2. \A q \in Requests : req[q].alone => req[q] = Idle
    BY <2>1 DEF TotalInv, Lonely
  <2>3. Lonely' /\ Summed'
    BY <2>1, <2>2, IdleFacts, NoCorrectionFacts DEF Lonely, Summed
  <2>4. TotalCountsFloors'
    BY <2>1 DEF TotalInv, TotalCountsFloors, Rest
  <2>. QED BY <2>3, <2>4 DEF TotalInv
<1>. QED BY <1>1, <1>2, <1>3, <1>4

LEMMA NextTotal == RowsInv /\ TotalInv /\ [Next]_vars => TotalInv'
<1> SUFFICES ASSUME RowsInv, TotalInv, [Next]_vars
             PROVE  TotalInv'
  OBVIOUS
<1>0. TypeOK /\ Shaped
  BY DEF RowsInv
<1>1. ASSUME NEW r \in Requests, CreateReads(r) \/ UpdateReads(r) \/ DeleteWrites(r)
      PROVE  TotalInv'
  <2>1. \E z \in Request : Begins(r, z) /\ Rest /\ z.at # "commit"
    <3>1. CASE CreateReads(r)
      <4>1. PICK z \in Request : Begins(r, z) /\ Rest /\ z.at = "write"
        BY <1>0, <3>1, CreateReadsIs
      <4>. QED BY <4>1
    <3>2. CASE UpdateReads(r)
      <4>1. PICK z \in Request : Begins(r, z) /\ Rest /\ z.at = "check"
        BY <3>2, UpdateReadsIs
      <4>. QED BY <4>1
    <3>3. CASE DeleteWrites(r)
      <4>1. PICK z \in Request : Begins(r, z) /\ Rest /\ z.at = "sum"
        BY <1>0, <3>3, DeleteWritesIs
      <4>. QED BY <4>1
    <3>. QED BY <1>1, <3>1, <3>2, <3>3
  <2>. QED BY <2>1, MovesTotal
<1>2. ASSUME NEW r \in Requests,
             \/ CreateReadsAgain(r) \/ CreateUpdates(r) \/ CreateInserts(r) \/ CreateConflicts(r)
             \/ UpdateChecks(r) \/ UpdateWrites(r)
      PROVE  TotalInv'
  <2>1. \E z \in Request :
          Moved(r, z) /\ Rest /\ req[r] # Idle /\ z.alone = req[r].alone /\ z.at # "commit"
    <3>1. CASE CreateReadsAgain(r)
      <4>1. PICK z \in Request :
              Moved(r, z) /\ Rest /\ req[r] # Idle /\ z.alone = req[r].alone /\ z.at = "write"
        BY <1>0, <3>1, CreateReadsAgainIs
      <4>. QED BY <4>1
    <3>2. CASE CreateUpdates(r)
      <4>1. PICK z \in Request :
              Moved(r, z) /\ Rest /\ req[r] # Idle /\ z.alone = req[r].alone /\ z.at = "sum"
        BY <3>2, CreateUpdatesIs
      <4>. QED BY <4>1
    <3>3. CASE CreateInserts(r)
      <4>1. PICK z \in Request :
              Moved(r, z) /\ Rest /\ req[r] # Idle /\ z.alone = req[r].alone /\ z.at = "sum"
        BY <3>3, CreateInsertsIs
      <4>. QED BY <4>1
    <3>4. CASE CreateConflicts(r)
      <4>1. PICK z \in Request :
              Moved(r, z) /\ Rest /\ req[r] # Idle /\ z.alone = req[r].alone /\ z.at = "again"
        BY <1>0, <3>4, CreateConflictsIs
      <4>. QED BY <4>1
    <3>5. CASE UpdateChecks(r)
      <4>1. PICK z \in Request :
              Moved(r, z) /\ Rest /\ req[r] # Idle /\ z.alone = req[r].alone /\ z.at = "write"
        BY <1>0, <3>5, UpdateChecksIs
      <4>. QED BY <4>1
    <3>6. CASE UpdateWrites(r)
      <4>1. PICK z \in Request :
              Moved(r, z) /\ Rest /\ req[r] # Idle /\ z.alone = req[r].alone /\ z.at = "sum"
        BY <3>6, UpdateWritesIs
      <4>. QED BY <4>1
    <3>. QED BY <1>2, <3>1, <3>2, <3>3, <3>4, <3>5, <3>6
  <2>. QED BY <2>1, MovesTotal
<1>3. ASSUME NEW r \in Requests, Recalculates(r)
      PROVE  TotalInv'
  <2>1. PICK z \in Request :
          /\ Moved(r, z) /\ Rest /\ req[r] # Idle /\ z.alone = req[r].alone
          /\ req[r].at = "sum" /\ z.at = "commit" /\ z.op = req[r].op
          /\ z.id = req[r].id /\ z.row = req[r].row /\ z.sum = BuiltUp(Seen(r), use)
    BY <1>0, <1>3, RecalculatesIs
  <2>2. Open(r)
    BY <2>1 DEF Open
  <2>. QED BY <2>1, <2>2, MovesTotal
<1>4. ASSUME NEW r \in Requests, RollsBack(r)
      PROVE  TotalInv'
  BY <1>0, <1>4, RollsBackIs, IdleFacts, MovesTotal
<1>5. ASSUME NEW r \in Requests, Commits(r)
      PROVE  TotalInv'
  <2>0. /\ Moved(r, Idle) /\ req[r].at = "commit" /\ floor' = Seen(r)
        /\ total' = req[r].sum /\ exact' = req[r].alone /\ use' = use
    BY <1>5, CommitsIs
  <2>1. /\ Moved(r, Idle) /\ req[r].at = "commit" /\ floor' = Seen(r) /\ req[r] # Idle
        /\ total' = req[r].sum /\ exact' = req[r].alone /\ use' = use
    BY <2>0, IdleFacts
  <2>2. /\ Lonely' /\ (corr' # NoCorrection => ~corr'.alone)
        /\ \A q \in Requests \ {r} : req'[q] # Idle /\ req'[q].alone => req'[q] = req[q]
    BY <2>1, LonelyKept DEF TotalInv
  <2>3. ASSUME NEW q \in Requests, req'[q].alone, req'[q].at = "commit"
        PROVE  FALSE
    <3>1. q # r /\ req'[q] # Idle /\ req'[q] = req[q]
      BY <2>1, <2>2, <2>3, IdleFacts DEF Moved
    <3>2. req[r] = Idle
      BY <2>3, <3>1 DEF TotalInv, Lonely
    <3>. QED BY <2>1, <3>2, IdleFacts
  <2>4. Summed'
    BY <2>2, <2>3, NoCorrectionFacts DEF Summed
  <2>5. exact' => req[r].sum = BuiltUp(Seen(r), use)
    BY <2>1 DEF TotalInv, Summed
  <2>6. TotalCountsFloors'
    BY <2>1, <2>5 DEF TotalCountsFloors
  <2>. QED BY <2>2, <2>4, <2>6 DEF TotalInv
<1>6. ASSUME EditSurvey
      PROVE  TotalInv'
  <2>1. DisturbAll /\ floor' = floor /\ total' = total /\ (exact' => exact /\ use' = use)
    BY <1>0, <1>6, EditSurveyIs
  <2>2. TotalCountsFloors'
    BY <2>1 DEF TotalInv, TotalCountsFloors
  <2>. QED BY <2>1, <2>2, DisturbTotal DEF TotalInv
<1>7. ASSUME Correct
      PROVE  TotalInv'
  <2>1. /\ DisturbAll
        /\ \/ total' = BuiltUp(floor', use')
           \/ /\ floor' = floor
              /\ \/ use' = "OPEN_LAND" /\ total' = 0
                 \/ total' = total /\ (exact' => exact /\ use' = use)
    BY <1>7, CorrectIs
  <2>2. CASE total' = BuiltUp(floor', use')
    BY <2>1, <2>2, DisturbTotal DEF TotalInv, TotalCountsFloors
  <2>3. CASE use' = "OPEN_LAND" /\ total' = 0
    <3>1. total' = BuiltUp(floor', use')
      BY <2>3 DEF BuiltUp
    <3>. QED BY <2>1, <3>1, DisturbTotal DEF TotalInv, TotalCountsFloors
  <2>4. CASE floor' = floor /\ total' = total /\ (exact' => exact /\ use' = use)
    <3>1. TotalCountsFloors'
      BY <2>4 DEF TotalInv, TotalCountsFloors
    <3>. QED BY <2>1, <3>1, DisturbTotal DEF TotalInv
  <2>. QED BY <2>1, <2>2, <2>3, <2>4
<1>8. CASE UNCHANGED vars
  <2>1. floor' = floor /\ use' = use /\ total' = total /\ exact' = exact /\ req' = req
    BY <1>8 DEF vars
  <2>2. CorrectionSeen' = CorrectionSeen /\ corr' = corr /\ \A q \in Requests : Seen(q)' = Seen(q)
    BY <1>8, <2>1 DEF Seen, Open, CorrectionSeen, vars
  <2>. QED BY <2>1, <2>2 DEF TotalInv, Lonely, Summed, TotalCountsFloors
<1>9. CASE Next
  BY <1>1, <1>2, <1>3, <1>4, <1>5, <1>6, <1>7, <1>9, CorrectionTotal, Zenon DEF Next
<1>. QED BY <1>8, <1>9

THEOREM TotalInvariant == Spec => [](RowsInv /\ TotalInv)
  BY InitRows, NextRows, InitTotal, NextTotal, PTL DEF Spec

\* The stored total is what the floors add up to after any write that met no other: a
\* request nobody disturbed is the only one, so the floors it re-read are those it leaves.
THEOREM TotalExact == Spec => []TotalCountsFloors
<1>1. TotalInv => TotalCountsFloors
  BY DEF TotalInv
<1>. QED BY <1>1, TotalInvariant, PTL

-----------------------------------------------------------------------------
(* The plot.                                                                *)

LEMMA WithinIs == \A seg, area, e : WithinPlot(seg, area, e) <=> Within(floor, use, plot, seg, area, e)
  BY DEF WithinPlot, Within

\* Rows at a position.
Near(rows, seg) == {g \in Live(rows) : rows[g].seg.position = seg.position}

EachWithin(rows, p) == \A f \in Live(rows) : SumArea(rows, Near(rows, rows[f].seg)) <= p

LEMMA FitsIs == \A rows, u, p : Fits(rows, u, p) <=>
    IF u = "OPEN_LAND" THEN \A f \in Live(rows) : Excluded(rows[f].seg)
    ELSE p # None => EachWithin(rows, p)
  BY DEF Fits, Near, EachWithin

PutIn(rows, f, z, rows2) == rows2 = [rows EXCEPT ![f] = z]

\* The floors row f is not on lose at most that row.
LEMMA FitsBeside ==
    ASSUME NEW rows \in Rows, NEW f \in FloorIds, NEW z \in Row, NEW p \in Nat,
           NEW rows2, PutIn(rows, f, z, rows2),
           EachWithin(rows, p), NEW h \in Live(rows2), h # f,
           z.life # "live" \/ z.seg.position # rows2[h].seg.position
    PROVE  SumArea(rows2, Near(rows2, rows2[h].seg)) <= p
<1>1. rows2 \in Rows /\ rows2[f] = z /\ \A g \in FloorIds \ {f} : rows2[g] = rows[g]
  BY DEF Rows, PutIn
<1>2. h \in Live(rows) /\ rows2[h] = rows[h]
  BY <1>1 DEF Live
<1>3. PICK here, there : here = Near(rows, rows[h].seg) /\ there = Near(rows2, rows2[h].seg)
  OBVIOUS
<1>4. here \in SUBSET FloorIds /\ there \in SUBSET FloorIds
  BY <1>3 DEF Near, Live
<1>5. there = here \ {f}
  BY <1>1, <1>2, <1>3 DEF Near, Live
<1>6. SumArea(rows2, there) = SumArea(rows, there)
  <2>1. \A g \in there : rows[g] = rows2[g]
    BY <1>1, <1>4, <1>5
  <2>. QED BY <1>1, <1>4, <2>1, SumSame
<1>7. SumArea(rows, there) <= SumArea(rows, here)
  BY <1>4, <1>5, SumLess
<1>8. SumArea(rows, here) <= p
  BY <1>2, <1>3 DEF EachWithin
<1>9. SumArea(rows, there) \in Nat /\ SumArea(rows, here) \in Nat
  BY <1>4, SumType
<1>. QED BY <1>3, <1>6, <1>7, <1>8, <1>9

\* A row that keeps to the plot next to those of its floor leaves every floor within it.
LEMMA FitsPut ==
    ASSUME NEW rows \in Rows, NEW f \in FloorIds, NEW z \in Row, z.life = "live",
           NEW u, NEW p \in Nat \cup {None}, NEW e, Live(rows) \ {e} = Live(rows) \ {f},
           Fits(rows, u, p), Within(rows, u, p, z.seg, z.area, e)
    PROVE  Fits([rows EXCEPT ![f] = z], u, p)
<1>1. PICK rows2 : rows2 = [rows EXCEPT ![f] = z]
  OBVIOUS
<1>2. rows2 \in Rows /\ rows2[f] = z /\ \A g \in FloorIds \ {f} : rows2[g] = rows[g]
  BY <1>1 DEF Rows
<1>3. \A g \in Live(rows2) : g \in FloorIds /\ (g = f \/ (g \in Live(rows) /\ rows2[g] = rows[g]))
  BY <1>2 DEF Live
<1>4. CASE u = "OPEN_LAND"
  <2>1. Excluded(z.seg) /\ \A g \in Live(rows) : Excluded(rows[g].seg)
    BY <1>4, FitsIs DEF Within
  <2>2. \A g \in Live(rows2) : Excluded(rows2[g].seg)
    BY <1>2, <1>3, <2>1
  <2>. QED BY <1>1, <1>4, <2>2, FitsIs
<1>5. CASE u # "OPEN_LAND" /\ p # None
  <2>1. p \in Nat /\ EachWithin(rows, p)
    BY <1>5, FitsIs
  <2>2. PICK beside : beside = {g \in Live(rows) \ {f} : rows[g].seg.position = z.seg.position}
    OBVIOUS
  <2>3. Countable(z.area, z.seg) + SumArea(rows, beside) <= p
    BY <1>5, <2>2 DEF Within
  <2>4. ASSUME NEW h \in Live(rows2)
        PROVE  SumArea(rows2, Near(rows2, rows2[h].seg)) <= p
    <3>1. CASE rows2[h].seg.position = z.seg.position
      <4>1. PICK there : there = Near(rows2, rows2[h].seg)
        OBVIOUS
      <4>2. f \in there /\ there \in SUBSET FloorIds /\ there \ {f} = beside
        BY <1>2, <2>2, <3>1, <4>1 DEF Near, Live
      <4>3. SumArea(rows2, there) = Adds(rows2, f) + SumArea(rows2, beside)
        BY <1>2, <4>2, SumPick
      <4>4. SumArea(rows2, beside) = SumArea(rows, beside)
        <5>1. beside \in SUBSET FloorIds /\ \A g \in beside : rows[g] = rows2[g]
          BY <1>2, <2>2 DEF Live
        <5>. QED BY <1>2, <5>1, SumSame
      <4>5. Adds(rows2, f) = Countable(z.area, z.seg)
        BY <1>2 DEF Adds
      <4>. QED BY <2>3, <4>1, <4>3, <4>4, <4>5
    <3>2. CASE rows2[h].seg.position # z.seg.position
      <4>1. h # f
        BY <1>2, <3>2
      <4>2. PutIn(rows, f, z, rows2) /\ z.seg.position # rows2[h].seg.position
        BY <1>1, <3>2 DEF PutIn
      <4>. QED BY <2>1, <4>1, <4>2, FitsBeside
    <3>. QED BY <3>1, <3>2
  <2>. QED BY <1>1, <1>5, <2>4, FitsIs DEF EachWithin
<1>6. CASE u # "OPEN_LAND" /\ p = None
  BY <1>6, FitsIs
<1>. QED BY <1>4, <1>5, <1>6

\* So does a row that goes.
LEMMA FitsDrop ==
    ASSUME NEW rows \in Rows, NEW f \in FloorIds, NEW z \in Row, z.life # "live",
           NEW u, NEW p \in Nat \cup {None}, Fits(rows, u, p)
    PROVE  Fits([rows EXCEPT ![f] = z], u, p)
<1>1. PICK rows2 : rows2 = [rows EXCEPT ![f] = z]
  OBVIOUS
<1>2. rows2[f] = z /\ \A g \in FloorIds \ {f} : rows2[g] = rows[g]
  BY <1>1 DEF Rows
<1>3. \A g \in Live(rows2) : g # f /\ g \in Live(rows) /\ rows2[g] = rows[g]
  BY <1>2 DEF Live
<1>4. CASE u = "OPEN_LAND"
  BY <1>1, <1>3, <1>4, FitsIs
<1>5. CASE u # "OPEN_LAND" /\ p # None
  <2>1. p \in Nat /\ EachWithin(rows, p)
    BY <1>5, FitsIs
  <2>2. ASSUME NEW h \in Live(rows2)
        PROVE  SumArea(rows2, Near(rows2, rows2[h].seg)) <= p
    <3>1. h # f /\ PutIn(rows, f, z, rows2)
      BY <1>1, <1>3 DEF PutIn
    <3>. QED BY <2>1, <3>1, FitsBeside
  <2>. QED BY <1>1, <1>5, <2>2, FitsIs DEF EachWithin
<1>6. CASE u # "OPEN_LAND" /\ p = None
  BY <1>6, FitsIs
<1>. QED BY <1>4, <1>5, <1>6

LEMMA InitPlot == Init => PlotInv
<1> SUFFICES ASSUME Init
             PROVE  PlotInv
  OBVIOUS
<1>1. Live(floor) = {}
  BY GoneFacts DEF Init, Live, GoneRow
<1>2. PlotLimit
  BY <1>1 DEF PlotLimit, Fits
<1>3. \A r \in Requests : Checked(req[r], floor, use, plot)
  BY IdleFacts DEF Init, Checked
<1>. QED BY <1>2, <1>3 DEF PlotInv

LEMMA IdleChecked == \A rows, u, p : Checked(Idle, rows, u, p)
  BY IdleFacts DEF Checked

LEMMA MovesPlot ==
    ASSUME TotalInv, PlotInv, Rest, NEW r \in Requests, NEW z,
           \/ Begins(r, z)
           \/ Moved(r, z) /\ req[r] # Idle /\ (z = Idle \/ z.alone = req[r].alone),
           z.alone => Checked(z, floor, use, plot)
    PROVE  PlotInv'
<1>1. \A q \in Requests \ {r} : req'[q] # Idle /\ req'[q].alone => req'[q] = req[q]
  BY LonelyKept DEF TotalInv
<1>2. floor' = floor /\ use' = use /\ plot' = plot /\ fits' = fits /\ req'[r] = z
  BY DEF Rest, Begins, Moved
<1>3. ASSUME NEW q \in Requests, req'[q].alone
      PROVE  Checked(req'[q], floor, use, plot)
  <2>1. CASE q = r
    BY <1>2, <1>3, <2>1
  <2>2. CASE q # r
    <3>1. req'[q] = Idle \/ (req'[q] = req[q] /\ Checked(req[q], floor, use, plot))
      BY <1>1, <1>3, <2>2 DEF PlotInv
    <3>. QED BY <3>1, IdleChecked
  <2>. QED BY <2>1, <2>2
<1>4. PlotLimit'
  BY <1>2 DEF PlotInv, PlotLimit
<1>. QED BY <1>2, <1>3, <1>4 DEF PlotInv

\* The types the sums need.
LEMMA PlotTypes ==
    ASSUME RowsInv
    PROVE  floor \in Rows /\ plot \in Nat \cup {None}
           /\ \A r \in Requests : req[r].alone \in BOOLEAN
<1>1. TypeOK
  BY DEF RowsInv
<1>2. Plots \subseteq Nat \cup {None}
  BY Constants
<1>. QED BY <1>1, <1>2 DEF TypeOK, Rows, Request

\* A row that is written: it keeps to the plot when what was checked does.
LEMMA PutChecked ==
    ASSUME RowsInv, NEW z \in Request, z.at = "sum", z.id \in FloorIds,
           Fits(floor, use, plot) => Fits([floor EXCEPT ![z.id] = z.row], use, plot)
    PROVE  Checked(z, floor, use, plot)
  BY DEF Checked

LEMMA CreateUpdatesPlot ==
    ASSUME RowsInv, TotalInv, PlotInv, NEW r \in Requests, CreateUpdates(r)
    PROVE  PlotInv'
<1>1. PICK z \in Request :
        /\ Moved(r, z) /\ Rest /\ req[r] # Idle /\ z.alone = req[r].alone /\ z.at = "sum"
        /\ z.op = "create" /\ req[r].op = "create" /\ req[r].at = "write"
        /\ z.id = req[r].id /\ z.id \in Live(floor)
        /\ z.row.life = "live" /\ z.row.seg = floor[z.id].seg
        /\ z.row.area = IF req[r].area = Keep THEN floor[z.id].area ELSE req[r].area
  BY CreateUpdatesIs
<1>2. PICK f, row : f = z.id /\ row = z.row
  OBVIOUS
<1>3. f \in FloorIds /\ row \in Row /\ floor \in Rows /\ floor[f] \in Row /\ floor[f].life = "live"
      /\ plot \in Nat \cup {None}
  BY <1>1, <1>2, PlotTypes DEF Live, Request, Rows
<1>4. ASSUME z.alone, Fits(floor, use, plot)
      PROVE  Fits([floor EXCEPT ![f] = row], use, plot)
  <2>1. f = RowAt(floor, req[r].seg) /\ WithinPlot(req[r].seg, Asked(req[r].area), f)
    <3>1. Checked(req[r], floor, use, plot)
      BY <1>1, <1>4 DEF PlotInv
    <3>. QED BY <1>1, <1>2, <3>1, WithinIs DEF Checked
  <2>2. CASE req[r].area = Keep
    <3>1. row = floor[f]
      <4>1. row.life = floor[f].life /\ row.seg = floor[f].seg /\ row.area = floor[f].area
        BY <1>1, <1>2, <1>3, <2>2
      <4>. QED BY <1>3, <4>1 DEF Row
    <3>2. [floor EXCEPT ![f] = row] = floor
      BY <1>3, <3>1 DEF Rows
    <3>. QED BY <1>4, <3>2
  <2>3. CASE req[r].area # Keep
    <3>1. f # None
      BY <1>3, Constants
    <3>2. f \in At(floor, req[r].seg)
      BY <2>1, <3>1, RowAtIs
    <3>3. row.life = "live" /\ row.seg = req[r].seg /\ row.area = req[r].area
          /\ Asked(req[r].area) = row.area
      BY <1>1, <1>2, <2>3, <3>2 DEF At, Asked
    <3>4. Within(floor, use, plot, row.seg, row.area, f)
      BY <2>1, <3>3, WithinIs
    <3>. QED BY <1>3, <1>4, <3>3, <3>4, FitsPut
  <2>. QED BY <2>2, <2>3
<1>5. z.alone => Checked(z, floor, use, plot)
  BY <1>1, <1>2, <1>3, <1>4, PutChecked
<1>. QED BY <1>1, <1>5, MovesPlot

LEMMA CreateInsertsPlot ==
    ASSUME RowsInv, TotalInv, PlotInv, NEW r \in Requests, CreateInserts(r)
    PROVE  PlotInv'
<1>1. PICK z \in Request :
        /\ Moved(r, z) /\ Rest /\ req[r] # Idle /\ z.alone = req[r].alone /\ z.at = "sum"
        /\ req[r].op = "create" /\ req[r].at = "write" /\ req[r].id = None
        /\ z.id \in FloorIds /\ z.id \notin Live(floor)
        /\ z.row.life = "live" /\ z.row.seg = req[r].seg /\ z.row.area = Asked(req[r].area)
  BY CreateInsertsIs
<1>2. PICK f, row : f = z.id /\ row = z.row
  OBVIOUS
<1>3. f \in FloorIds /\ row \in Row /\ row.life = "live" /\ floor \in Rows
      /\ plot \in Nat \cup {None}
  BY <1>1, <1>2, PlotTypes DEF Request
<1>4. ASSUME z.alone, Fits(floor, use, plot)
      PROVE  Fits([floor EXCEPT ![f] = row], use, plot)
  <2>1. Checked(req[r], floor, use, plot)
    BY <1>1, <1>4 DEF PlotInv
  <2>2. Within(floor, use, plot, row.seg, row.area, None)
    BY <1>1, <1>2, <2>1 DEF Checked
  <2>3. Live(floor) \ {None} = Live(floor) \ {f}
    BY <1>1, <1>2, Constants DEF Live
  <2>. QED BY <1>3, <1>4, <2>2, <2>3, FitsPut
<1>5. z.alone => Checked(z, floor, use, plot)
  BY <1>1, <1>2, <1>3, <1>4, PutChecked
<1>. QED BY <1>1, <1>5, MovesPlot

LEMMA UpdateWritesPlot ==
    ASSUME RowsInv, TotalInv, PlotInv, NEW r \in Requests, UpdateWrites(r)
    PROVE  PlotInv'
<1>1. PICK z \in Request :
        /\ Moved(r, z) /\ Rest /\ req[r] # Idle /\ z.alone = req[r].alone /\ z.at = "sum"
        /\ req[r].op = "update" /\ req[r].at = "write"
        /\ z.id = req[r].id /\ z.id \in Live(floor) /\ z.row.life = "live"
        /\ z.row.seg = Patched(floor[z.id].seg, req[r].seg)
        /\ z.row.area = IF req[r].area = Keep THEN floor[z.id].area ELSE req[r].area
  BY UpdateWritesIs
<1>2. PICK f, row : f = z.id /\ row = z.row
  OBVIOUS
<1>3. f \in FloorIds /\ row \in Row /\ row.life = "live" /\ floor \in Rows
      /\ plot \in Nat \cup {None}
  BY <1>1, <1>2, PlotTypes DEF Live, Request
<1>4. ASSUME z.alone, Fits(floor, use, plot)
      PROVE  Fits([floor EXCEPT ![f] = row], use, plot)
  <2>1. Checked(req[r], floor, use, plot)
    BY <1>1, <1>4 DEF PlotInv
  <2>3. Within(floor, use, plot, Patched(floor[f].seg, req[r].seg),
               IF req[r].area = Keep THEN floor[f].area ELSE req[r].area, f)
    BY <1>1, <1>2, <2>1 DEF Checked
  <2>4. /\ row.seg = Patched(floor[f].seg, req[r].seg)
        /\ row.area = IF req[r].area = Keep THEN floor[f].area ELSE req[r].area
    BY <1>1, <1>2
  <2>5. Within(floor, use, plot, row.seg, row.area, f)
    BY <2>3, <2>4
  <2>. QED BY <1>3, <1>4, <2>5, FitsPut
<1>5. z.alone => Checked(z, floor, use, plot)
  BY <1>1, <1>2, <1>3, <1>4, PutChecked
<1>. QED BY <1>1, <1>5, MovesPlot

LEMMA DeleteWritesPlot ==
    ASSUME RowsInv, TotalInv, PlotInv, NEW r \in Requests, DeleteWrites(r)
    PROVE  PlotInv'
<1>1. PICK z \in Request :
        Begins(r, z) /\ Rest /\ z.at = "sum" /\ z.op = "delete" /\ z.id \in Live(floor) /\ z.row = Gone
  BY DeleteWritesIs DEF RowsInv
<1>2. PICK f, row : f = z.id /\ row = z.row
  OBVIOUS
<1>3. f \in FloorIds /\ row \in Row /\ row.life # "live" /\ floor \in Rows
      /\ plot \in Nat \cup {None}
  BY <1>1, <1>2, PlotTypes, GoneFacts DEF Live, Request, GoneRow
<1>4. ASSUME Fits(floor, use, plot)
      PROVE  Fits([floor EXCEPT ![f] = row], use, plot)
  BY <1>3, <1>4, FitsDrop
<1>5. Checked(z, floor, use, plot)
  BY <1>1, <1>2, <1>3, <1>4, PutChecked
<1>. QED BY <1>1, <1>5, MovesPlot

LEMMA CommitsPlot ==
    ASSUME RowsInv, TotalInv, PlotInv, NEW r \in Requests, Commits(r)
    PROVE  PlotInv'
<1>1. /\ Moved(r, Idle) /\ req[r].at = "commit"
      /\ floor' = [floor EXCEPT ![req[r].id] = req[r].row]
      /\ fits' = (fits /\ req[r].alone) /\ use' = use /\ plot' = plot
  BY CommitsIs
<1>2. \A q \in Requests \ {r} : req'[q] # Idle /\ req'[q].alone => req'[q] = req[q]
  BY <1>1, IdleFacts, LonelyKept DEF TotalInv
<1>3. ASSUME NEW q \in Requests, req'[q].alone, req'[q] # Idle
      PROVE  FALSE
  <2>1. q # r /\ req'[q] = req[q]
    BY <1>1, <1>2, <1>3 DEF Moved
  <2>2. req[r] = Idle
    BY <1>3, <2>1 DEF TotalInv, Lonely
  <2>. QED BY <1>1, <2>2, IdleFacts
<1>4. fits' => Fits(floor', use', plot')
  <2>1. ASSUME fits'
        PROVE  Fits(floor', use', plot')
    <3>1. fits /\ req[r].alone
      BY <1>1, <2>1, Zenon
    <3>2. Fits(floor, use, plot)
      BY <3>1 DEF PlotInv, PlotLimit
    <3>3. Checked(req[r], floor, use, plot)
      BY <3>1 DEF PlotInv
    <3>4. Fits([floor EXCEPT ![req[r].id] = req[r].row], use, plot)
      BY <1>1, <3>2, <3>3 DEF Checked
    <3>. QED BY <1>1, <3>4
  <2>. QED BY <2>1
<1>5. PlotLimit'
  BY <1>4 DEF PlotLimit
<1>. QED BY <1>3, <1>5, IdleChecked DEF PlotInv

LEMMA DisturbPlot ==
    ASSUME RowsInv, DisturbAll, fits' => Fits(floor', use', plot')
    PROVE  PlotInv'
<1>1. \A q \in Requests : req'[q].alone => req'[q] = Idle
  BY DisturbTotal
<1>2. PlotLimit'
  BY DEF PlotLimit
<1>. QED BY <1>1, <1>2, IdleChecked DEF PlotInv

LEMMA CorrectionPlot ==
    ASSUME RowsInv, TotalInv, PlotInv,
           CorrectionSyncs \/ CorrectionSums \/ CorrectionCommits \/ CorrectionRollsBack
    PROVE  PlotInv'
<1>1. CASE CorrectionSyncs
  <2>1. Rest /\ DisturbRequests
    BY <1>1, CorrectionSyncsIs
  <2>2. \A q \in Requests : req'[q].alone => req'[q] = Idle
    BY <2>1, DisturbRequestsIs DEF RowsInv
  <2>3. PlotLimit'
    BY <2>1 DEF PlotInv, PlotLimit, Rest
  <2>. QED BY <2>2, <2>3, IdleChecked DEF PlotInv
<1>2. CASE CorrectionSums \/ CorrectionRollsBack
  <2>1. Rest /\ req' = req
    BY <1>2, CorrectionSumsIs DEF CorrectionRollsBack, KeepSurvey, KeepHistory, Rest
  <2>. QED BY <2>1 DEF PlotInv, PlotLimit, Rest
<1>3. CASE CorrectionCommits
  <2>1. /\ corr # NoCorrection /\ req' = req /\ UNCHANGED <<use, plot>>
        /\ fits' = (fits /\ Fits(floor', use, plot))
    BY <1>3, NoCorrectionFacts DEF CorrectionCommits
  <2>2. \A q \in Requests : req[q].alone => req[q] = Idle
    BY <2>1 DEF TotalInv, Lonely
  <2>3. fits' => Fits(floor', use, plot)
    BY <2>1, Zenon
  <2>4. PlotLimit'
    BY <2>1, <2>3 DEF PlotLimit
  <2>. QED BY <2>1, <2>2, <2>4, IdleChecked DEF PlotInv
<1>. QED BY <1>1, <1>2, <1>3

LEMMA NextPlot == RowsInv /\ TotalInv /\ PlotInv /\ [Next]_vars => PlotInv'
<1> SUFFICES ASSUME RowsInv, TotalInv, PlotInv, [Next]_vars
             PROVE  PlotInv'
  OBVIOUS
<1>0. TypeOK /\ Shaped
  BY DEF RowsInv
<1>1. ASSUME NEW r \in Requests, CreateReads(r)
      PROVE  PlotInv'
  <2>1. PICK z \in Request :
          /\ Begins(r, z) /\ Rest /\ z.op = "create" /\ z.at = "write"
          /\ z.id = RowAt(floor, z.seg) /\ WithinPlot(z.seg, Asked(z.area), z.id)
    BY <1>0, <1>1, CreateReadsIs
  <2>2. Checked(z, floor, use, plot)
    BY <2>1, WithinIs DEF Checked
  <2>. QED BY <2>1, <2>2, MovesPlot
<1>2. ASSUME NEW r \in Requests, CreateReadsAgain(r)
      PROVE  PlotInv'
  <2>1. PICK z \in Request :
          /\ Moved(r, z) /\ Rest /\ req[r] # Idle /\ z.alone = req[r].alone
          /\ z.op = "create" /\ z.at = "write" /\ z.id = RowAt(floor, z.seg)
          /\ WithinPlot(z.seg, Asked(z.area), z.id)
    BY <1>0, <1>2, CreateReadsAgainIs
  <2>2. Checked(z, floor, use, plot)
    BY <2>1, WithinIs DEF Checked
  <2>. QED BY <2>1, <2>2, MovesPlot
<1>3. ASSUME NEW r \in Requests, CreateConflicts(r)
      PROVE  PlotInv'
  <2>1. PICK z \in Request :
          /\ Moved(r, z) /\ Rest /\ req[r] # Idle /\ z.alone = req[r].alone
          /\ z.op = "create" /\ z.at = "again"
    BY <1>0, <1>3, CreateConflictsIs
  <2>2. Checked(z, floor, use, plot)
    BY <2>1 DEF Checked
  <2>. QED BY <2>1, <2>2, MovesPlot
<1>4. ASSUME NEW r \in Requests, UpdateReads(r)
      PROVE  PlotInv'
  <2>1. PICK z \in Request :
          /\ Begins(r, z) /\ Rest /\ z.op = "update" /\ z.at = "check"
          /\ z.id \in Live(floor) /\ z.base = floor[z.id]
    BY <1>4, UpdateReadsIs
  <2>2. Checked(z, floor, use, plot)
    BY <2>1 DEF Checked
  <2>. QED BY <2>1, <2>2, MovesPlot
<1>5. ASSUME NEW r \in Requests, UpdateChecks(r)
      PROVE  PlotInv'
  <2>1. PICK z \in Request :
          /\ Moved(r, z) /\ Rest /\ req[r] # Idle /\ z.alone = req[r].alone
          /\ req[r].op = "update" /\ req[r].at = "check"
          /\ z.op = "update" /\ z.at = "write" /\ z.id = req[r].id
          /\ WithinPlot(Patched(req[r].base.seg, z.seg),
                        IF z.area = Keep THEN req[r].base.area ELSE z.area, z.id)
    BY <1>0, <1>5, UpdateChecksIs
  <2>2. Within(floor, use, plot, Patched(req[r].base.seg, z.seg),
               IF z.area = Keep THEN req[r].base.area ELSE z.area, z.id)
    BY <2>1, WithinIs
  <2>3. ASSUME z.alone
        PROVE  req[r].base = floor[z.id]
    <3>1. Checked(req[r], floor, use, plot)
      BY <2>1, <2>3 DEF PlotInv
    <3>. QED BY <2>1, <3>1 DEF Checked
  <2>4. z.alone => Checked(z, floor, use, plot)
    BY <2>1, <2>2, <2>3 DEF Checked
  <2>. QED BY <2>1, <2>4, MovesPlot
<1>6. ASSUME NEW r \in Requests, Recalculates(r)
      PROVE  PlotInv'
  <2>1. PICK z \in Request :
          /\ Moved(r, z) /\ Rest /\ req[r] # Idle /\ z.alone = req[r].alone
          /\ req[r].at = "sum" /\ z.at = "commit" /\ z.op = req[r].op
          /\ z.id = req[r].id /\ z.row = req[r].row
    BY <1>0, <1>6, RecalculatesIs
  <2>2. ASSUME z.alone, Fits(floor, use, plot)
        PROVE  Fits([floor EXCEPT ![z.id] = z.row], use, plot)
    <3>1. Checked(req[r], floor, use, plot)
      BY <2>1, <2>2 DEF PlotInv
    <3>. QED BY <2>1, <2>2, <3>1 DEF Checked
  <2>3. z.alone => Checked(z, floor, use, plot)
    BY <2>1, <2>2 DEF Checked
  <2>. QED BY <2>1, <2>3, MovesPlot
<1>7. ASSUME NEW r \in Requests, RollsBack(r)
      PROVE  PlotInv'
  BY <1>0, <1>7, RollsBackIs, IdleChecked, MovesPlot
<1>8. ASSUME EditSurvey
      PROVE  PlotInv'
  <2>1. DisturbAll /\ floor' = floor /\ (fits' => Fits(floor, use', plot'))
    BY <1>0, <1>8, EditSurveyIs
  <2>2. fits' => Fits(floor', use', plot')
    BY <2>1
  <2>. QED BY <2>1, <2>2, DisturbPlot
<1>9. ASSUME Correct
      PROVE  PlotInv'
  BY <1>9, CorrectIs, DisturbPlot
<1>10. CASE UNCHANGED vars
  BY <1>10 DEF vars, PlotInv, PlotLimit
<1>11. CASE Next
  BY <1>1, <1>2, <1>3, <1>4, <1>5, <1>6, <1>7, <1>8, <1>9, <1>11, CreateUpdatesPlot,
     CreateInsertsPlot, UpdateWritesPlot, DeleteWritesPlot, CommitsPlot, CorrectionPlot, Zenon
     DEF Next
<1>. QED BY <1>10, <1>11

\* No floor exceeds the plot, and open land stays open, while no two writes met and no
\* edit went past the check: what an undisturbed request checked is what it leaves.
THEOREM PlotKept == Spec => []PlotLimit
<1>1. RowsInv /\ TotalInv /\ PlotInv /\ [Next]_vars => (RowsInv /\ TotalInv /\ PlotInv)'
  BY NextRows, NextTotal, NextPlot
<1>2. Init => RowsInv /\ TotalInv /\ PlotInv
  BY InitRows, InitTotal, InitPlot
<1>3. PlotInv => PlotLimit
  BY DEF PlotInv
<1>. QED BY <1>1, <1>2, <1>3, PTL DEF Spec
=============================================================================
