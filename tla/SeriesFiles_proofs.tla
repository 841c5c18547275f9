------------------------- MODULE SeriesFiles_proofs -------------------------
(***************************************************************************)
(* Theorems about SeriesFiles for any names, files, edits and crashes.     *)
(***************************************************************************)
EXTENDS SeriesFiles, FiniteSetTheorems, WellFoundedInduction, TLAPS

-----------------------------------------------------------------------------
(***************************************************************************)
(* The inductive invariant.                                                *)
(***************************************************************************)
(* A creation or a deletion has a child file in hand, and so has a change  *)
(* of an imported show, as long as nobody changes the imports.             *)
OpInv ==
  /\ op.at \in {"append", "unlist"} => op.l.file \in Stems
  /\ op.at \in {"put", "drop"} /\ op.l.file # Inline /\ op.l.file \notin odd
       => op.p \in Importers(op.l.file)

(* What ImportsAgree leaves open: the file a creation has written is not   *)
(* imported yet, and the file a deletion took away still is, by its own    *)
(* platform alone.                                                         *)
Pending(at, f) == op.at = at /\ op.l.file = f
StepInv(f) ==
  /\ Pending("append", f) => child[f] # <<>> /\ Importers(f) = {}
  /\ Pending("unlist", f) => child[f] = <<>> /\ Importers(f) = {op.p}
  /\ ~Pending("append", f) /\ ~Pending("unlist", f) => InStep(f)
AgreeInv == \A f \in Stems \ odd : StepInv(f)

(* A request has its show where it found it, and a refresh that started    *)
(* beside it read the show that is there now.                              *)
Holds(r) == /\ r.l.index <= Len(Raw("dropout", r.l.file))
            /\ ShowAt("dropout", r.l) = r.old
HitInv ==
  op.at \in {"put", "drop"} /\ ~meddled =>
    /\ Rereads(op.p, op.l) /\ ShowAt(op.p, op.l) \in Merged(op.old)
    /\ refresh # NoRefresh => Holds(refresh)

(* What a refresh proposes is the show it read, with more seasons.         *)
ProposalInv ==
  refresh.at \in {"proposed", "checked"} =>
    refresh.new \in Merged(refresh.old) /\ refresh.new # refresh.old

(* A refresh that has read the revision of its show: the file it hashed    *)
(* had that show, or so many writes have passed that the comparisons still *)
(* to come, or one of them gone by, tell.                                  *)
Hashed(r) == IF r.l.file = Inline THEN r.content[1].inline ELSE r.content[2]
Proven(r) == /\ r.l.index <= Len(Hashed(r))
             /\ ReadAs("dropout", Hashed(r)[r.l.index]) = r.old
Agreed(r) == r.revision.l = r.l /\ r.revision.show = r.old
LossInv ==
  /\ refresh.at \in {"located", "asking"} /\ refresh.changes = 0 => Holds(refresh)
  /\ refresh.at = "proposed" /\ Agreed(refresh) =>
       \/ Proven(refresh)
       \/ /\ refresh.changes >= 1
          /\ refresh.changes = 1 => Content(refresh.l.file) = refresh.content
  /\ refresh.at = "checked" /\ Agreed(refresh) =>
       \/ Proven(refresh)
       \/ /\ refresh.changes >= 2
          /\ refresh.changes = 2 => Holds(refresh)

IInv == TypeOK /\ OpInv /\ AgreeInv /\ HitInv /\ ProposalInv /\ LossInv

-----------------------------------------------------------------------------
(***************************************************************************)
(* Subsequences: the n-th member of a finite set of positions exists,      *)
(* which is the least number that has n members up to it.                  *)
(***************************************************************************)
LEMMA PositionsFinite ==
  ASSUME NEW m \in Nat, NEW K \in SUBSET (1..m)
  PROVE  IsFiniteSet(K) /\ Cardinality(K) \in Nat
  <1>1. IsFiniteSet(1..m) BY FS_Interval
  <1>2. IsFiniteSet(K) BY <1>1, FS_Subset
  <1> QED BY <1>2, FS_CardinalityType

LEMMA PositionIn ==
  ASSUME NEW m \in Nat, NEW K \in SUBSET (1..m), NEW n \in 1..Cardinality(K)
  PROVE  Position(K, n) \in K
  <1> DEFINE Upto(i) == {j \in K : j <= i}
             C(i) == Cardinality(Upto(i))
             T == {i \in Nat : C(i) >= n}
             R == OpToRel(<, Nat)
  <1>0. \A j \in K : j \in Nat /\ 1 <= j /\ j <= m OBVIOUS
  <1>1. IsFiniteSet(K) /\ Cardinality(K) \in Nat BY PositionsFinite
  <1>a. n \in Nat /\ 1 <= n /\ n <= Cardinality(K) BY <1>1
  <1>2. \A i \in Nat : IsFiniteSet(Upto(i)) /\ C(i) \in Nat
    <2>1. TAKE i \in Nat
    <2>2. Upto(i) \in SUBSET K OBVIOUS
    <2> HIDE DEF Upto
    <2>3. IsFiniteSet(Upto(i)) BY <1>1, <2>2, FS_Subset
    <2> QED BY <2>3, FS_CardinalityType
  <1>3. m \in T
    <2>1. Upto(m) = K BY <1>0
    <2> QED BY <2>1, <1>a
  <1>4. \A x, y \in Nat : y < x => <<y, x>> \in R BY DEF OpToRel
  <1>5. PICK i \in T : \A y \in T : <<y, i>> \notin R
    <2>1. IsWellFoundedOn(R, Nat) BY NatLessThanWellFounded
    <2>2. T \subseteq Nat /\ T # {} BY <1>3
    <2> HIDE DEF T, R
    <2> QED BY <2>1, <2>2, WFMin
  <1> HIDE DEF R
  <1>6. \A y \in Nat : y < i => C(y) < n
    <2>1. \A y \in Nat : y < i => y \notin T BY <1>4, <1>5
    <2>2. \A y \in Nat : C(y) \in Nat BY <1>2
    <2> HIDE DEF C
    <2> QED BY <2>1, <2>2
  <1>7. i \in Nat /\ C(i) >= n OBVIOUS
  <1> HIDE DEF T
  <1>8. i # 0
    <2>1. Upto(0) = {}
      <3>1. \A j \in K : ~(j <= 0) BY <1>0
      <3> QED BY <3>1
    <2>2. C(0) = 0 BY <2>1, FS_EmptySet
    <2> HIDE DEF C
    <2> QED BY <2>2, <1>7, <1>a
  <1>9. i - 1 \in Nat /\ C(i - 1) < n
    <2>1. i - 1 \in Nat /\ i - 1 < i BY <1>7, <1>8
    <2> HIDE DEF C
    <2> QED BY <1>6, <2>1
  <1>10. i \in K
    <2>1. SUFFICES ASSUME i \notin K PROVE FALSE OBVIOUS
    <2>2. Upto(i) = Upto(i - 1)
      <3>1. \A j \in K : j <= i <=> j <= i - 1 BY <1>0, <1>7, <2>1
      <3> QED BY <3>1
    <2>3. C(i) = C(i - 1) BY <2>2
    <2>4. C(i) \in Nat BY <1>2, <1>7
    <2> HIDE DEF C
    <2> QED BY <2>3, <2>4, <1>7, <1>9, <1>a
  <1>11. C(i) = n
    <2>1. Upto(i) = Upto(i - 1) \cup {i}
      <3>1. \A j \in K : j <= i <=> (j <= i - 1 \/ j = i) BY <1>0, <1>7
      <3> QED BY <3>1, <1>10
    <2>2. i \notin Upto(i - 1) BY <1>7
    <2>3. IsFiniteSet(Upto(i - 1)) /\ C(i - 1) \in Nat BY <1>2, <1>9
    <2> HIDE DEF Upto
    <2>4. C(i) = C(i - 1) + 1 BY <2>1, <2>2, <2>3, FS_AddElement
    <2> HIDE DEF C
    <2> QED BY <2>3, <2>4, <1>7, <1>9, <1>a
  <1> QED BY <1>10, <1>11 DEF Position

(* ... and each member is the n-th for some n.                             *)
LEMMA PositionOnto ==
  ASSUME NEW m \in Nat, NEW K \in SUBSET (1..m), NEW i \in K
  PROVE  \E n \in 1..Cardinality(K) : Position(K, n) = i
  <1> DEFINE Upto(j) == {k \in K : k <= j}
             C(j) == Cardinality(Upto(j))
  <1>0. \A j \in K : j \in Nat /\ 1 <= j /\ j <= m OBVIOUS
  <1>1. IsFiniteSet(K) /\ Cardinality(K) \in Nat BY PositionsFinite
  <1>3. \A j \in K : IsFiniteSet(Upto(j)) /\ C(j) \in Nat /\ C(j) <= Cardinality(K)
    <2>1. TAKE j \in K
    <2>2. Upto(j) \in SUBSET K OBVIOUS
    <2> HIDE DEF Upto
    <2>3. IsFiniteSet(Upto(j)) /\ C(j) <= Cardinality(K) BY <1>1, <2>2, FS_Subset
    <2> QED BY <2>3, FS_CardinalityType
  <1>4. \A j, k \in K : j < k => C(j) < C(k)
    <2>1. SUFFICES ASSUME NEW j \in K, NEW k \in K, j < k PROVE C(j) < C(k) OBVIOUS
    <2>a. \A x \in K : x <= j => x <= k BY <1>0, <2>1
    <2>2. Upto(j) \in SUBSET Upto(k) BY <2>a
    <2>3. k \in Upto(k) /\ k \notin Upto(j) BY <1>0, <2>1
    <2>4. IsFiniteSet(Upto(k)) /\ C(j) \in Nat /\ C(k) \in Nat BY <1>3
    <2> HIDE DEF Upto
    <2>5. C(j) <= C(k) /\ C(j) # C(k) BY <2>2, <2>3, <2>4, FS_Subset
    <2> HIDE DEF C
    <2> QED BY <2>4, <2>5
  <1>5. \A j, k \in K : C(j) = C(k) => j = k
    <2> HIDE DEF C
    <2>1. \A j \in K : C(j) \in Nat BY <1>3
    <2> QED BY <1>0, <1>4, <2>1
  <1>6. C(i) >= 1
    <2>1. i \in Upto(i) BY <1>0
    <2>2. IsFiniteSet(Upto(i)) /\ C(i) \in Nat BY <1>3
    <2> HIDE DEF Upto
    <2>3. C(i) # 0 BY <2>1, <2>2, FS_EmptySet
    <2> HIDE DEF C
    <2> QED BY <2>2, <2>3
  <1>7. Position(K, C(i)) = i
    <2>1. Position(K, C(i)) = CHOOSE j \in K : C(j) = C(i) BY DEF Position
    <2> HIDE DEF C
    <2> DEFINE j == CHOOSE k \in K : C(k) = C(i)
    <2>2. \E k \in K : C(k) = C(i) OBVIOUS
    <2>3. j \in K /\ C(j) = C(i) BY <2>2, Zenon
    <2>4. Position(K, C(i)) = j BY <2>1
    <2> HIDE DEF j
    <2>5. j = i BY <1>5, <2>3
    <2> QED BY <2>4, <2>5
  <1>8. C(i) \in 1..Cardinality(K)
    <2>1. C(i) \in Nat /\ C(i) <= Cardinality(K) BY <1>3
    <2> HIDE DEF C, Upto
    <2> QED BY <1>1, <1>6, <2>1
  <1> HIDE DEF C
  <1> QED BY <1>7, <1>8

(* A subsequence has the elements at its positions, and no other.          *)
LEMMA SubsequenceIs ==
  ASSUME NEW S, NEW ss \in Seq(S), NEW K \in SUBSET (1..Len(ss))
  PROVE  /\ Subsequence(ss, K) \in Seq(S)
         /\ Len(Subsequence(ss, K)) = Cardinality(K)
         /\ \A n \in 1..Cardinality(K) : Subsequence(ss, K)[n] = ss[Position(K, n)]
         /\ \A n \in 1..Cardinality(K) : Position(K, n) \in K
  <1>1. Len(ss) \in Nat OBVIOUS
  <1>2. \A n \in 1..Cardinality(K) : Position(K, n) \in K BY <1>1, PositionIn
  <1>3. Cardinality(K) \in Nat BY <1>1, PositionsFinite
  <1> HIDE DEF Position
  <1>4. \A n \in 1..Cardinality(K) : ss[Position(K, n)] \in S
    <2>1. TAKE n \in 1..Cardinality(K)
    <2>2. Position(K, n) \in 1..Len(ss) BY <1>2
    <2> QED BY <2>2
  <1> QED BY <1>2, <1>3, <1>4 DEF Subsequence

(* Without a child file, a list of imports has all the others, and none of *)
(* it.                                                                     *)
Elements(ss) == {ss[i] : i \in 1..Len(ss)}

LEMMA DelistedIs ==
  ASSUME NEW S, NEW is \in Seq(S), NEW f
  PROVE  /\ Delisted(is, f) \in Seq(S)
         /\ Elements(Delisted(is, f)) = Elements(is) \ {f}
  <1> DEFINE K == {i \in 1..Len(is) : is[i] # f}
  <1>0. Len(is) \in Nat OBVIOUS
  <1>1. K \in SUBSET (1..Len(is)) OBVIOUS
  <1>2. \A i \in K : is[i] # f OBVIOUS
  <1>a. \A i \in 1..Len(is) : is[i] # f => i \in K OBVIOUS
  <1>4. Delisted(is, f) = Subsequence(is, K) BY DEF Delisted
  <1> HIDE DEF K
  <1>3. /\ Subsequence(is, K) \in Seq(S) /\ Len(Subsequence(is, K)) = Cardinality(K)
        /\ \A n \in 1..Cardinality(K) : Subsequence(is, K)[n] = is[Position(K, n)]
        /\ \A n \in 1..Cardinality(K) : Position(K, n) \in K
    BY <1>1, SubsequenceIs
  <1>5. \A i \in K : \E n \in 1..Cardinality(K) : Position(K, n) = i
    BY <1>0, <1>1, PositionOnto
  <1>6. \A g : g \in Elements(Delisted(is, f)) <=> g # f /\ g \in Elements(is)
    <2>1. \A n \in 1..Cardinality(K) : Delisted(is, f)[n] # f /\ Delisted(is, f)[n] \in Elements(is)
      BY <1>1, <1>2, <1>3, <1>4 DEF Elements
    <2>2. Elements(Delisted(is, f)) = {Delisted(is, f)[n] : n \in 1..Cardinality(K)}
      BY <1>3, <1>4 DEF Elements
    <2>3. ASSUME NEW g \in Elements(is), g # f PROVE g \in Elements(Delisted(is, f))
      <3>1. PICK i \in 1..Len(is) : is[i] = g BY DEF Elements
      <3>2. PICK n \in 1..Cardinality(K) : Position(K, n) = i BY <1>a, <1>5, <2>3, <3>1
      <3>3. Delisted(is, f)[n] = g BY <1>3, <1>4, <3>1, <3>2
      <3> QED BY <2>2, <3>3
    <2> QED BY <2>1, <2>2, <2>3
  <1>7. Elements(Delisted(is, f)) = Elements(is) \ {f} BY <1>6
  <1> QED BY <1>3, <1>4, <1>7

-----------------------------------------------------------------------------
(***************************************************************************)
(* What the operators return.                                              *)
(***************************************************************************)
LEMMA ReadAsTyped ==
  ASSUME NEW p \in Platforms, NEW s \in Show
  PROVE  /\ ReadAs(p, s) \in Show /\ ReadAs(p, s).kind = p
         /\ ReadAs(p, s).name = s.name /\ ReadAs(p, s).path = s.path
         /\ s.kind = p => ReadAs(p, s) = s
         /\ s.kind # p => ReadAs(p, s).sources = <<>>
  <1>1. /\ s = [kind |-> s.kind, name |-> s.name, path |-> s.path, sources |-> s.sources]
        /\ s.kind \in Platforms /\ s.name \in Names /\ s.path \in Paths
        /\ s.sources \in Seq(Source)
    BY DEF Show
  <1>2. CASE s.kind = p BY <1>2 DEF ReadAs
  <1>3. CASE s.kind # p
    <2>1. ReadAs(p, s) = [kind |-> p, name |-> s.name, path |-> s.path, sources |-> <<>>]
      BY <1>1, <1>3 DEF ReadAs
    <2>2. <<>> \in Seq(Source) OBVIOUS
    <2> QED BY <1>1, <1>3, <2>1, <2>2 DEF Show
  <1> QED BY <1>2, <1>3

LEMMA RawTyped ==
  ASSUME TypeOK, NEW p \in Platforms, NEW f \in Stems \cup {Inline}
  PROVE  Raw(p, f) \in Seq(Show)
  BY DEF TypeOK, Raw, Root

LEMMA ImportsStems ==
  ASSUME TypeOK, NEW p \in Platforms
  PROVE  /\ root[p] \in Root /\ root[p].imports \in Seq(Stems)
         /\ Imports(p) \subseteq Stems
  <1>1. root[p] \in Root /\ root[p].imports \in Seq(Stems) BY DEF TypeOK, Root
  <1> QED BY <1>1 DEF Imports

(* A position that is read again has a show.                               *)
LEMMA RereadsTyped ==
  ASSUME TypeOK, NEW p \in Platforms, NEW l \in Loc, l.index <= Len(Raw(p, l.file))
  PROVE  /\ l.index \in 1..Len(Raw(p, l.file)) /\ Raw(p, l.file)[l.index] \in Show
         /\ ShowAt(p, l) \in Show /\ ShowAt(p, l).kind = p
  <1>1. l.file \in Stems \cup {Inline} /\ l.index \in Nat \ {0} BY DEF Loc
  <1>2. Raw(p, l.file) \in Seq(Show) BY <1>1, RawTyped
  <1>3. l.index \in 1..Len(Raw(p, l.file)) BY <1>1, <1>2
  <1>4. Raw(p, l.file)[l.index] \in Show BY <1>2, <1>3
  <1> QED BY <1>3, <1>4, ReadAsTyped DEF ShowAt

(* An entry is a show of a readable file that is imported or the root.     *)
LEMMA ListedIs ==
  ASSUME TypeOK, NEW p \in Platforms, NEW l \in Listed(p)
  PROVE  /\ l \in Loc /\ l.file \in Imports(p) \cup {Inline}
         /\ Rereads(p, l)
         /\ ShowAt(p, l) \in Show /\ ShowAt(p, l).kind = p
  <1>1. PICK f \in Imports(p) \cup {Inline} : l \in ToSet(Locs(p, f)) BY DEF Listed
  <1>2. f \in Stems \cup {Inline} BY ImportsStems
  <1>3. Raw(p, f) \in Seq(Show) BY <1>2, RawTyped
  <1>4. PICK i \in DOMAIN Locs(p, f) : l = Locs(p, f)[i] BY <1>1 DEF ToSet
  <1>5. Readable(p, Raw(p, f)) BY <1>4 DEF Locs
  <1>6. i \in 1..Len(Raw(p, f)) /\ l = [file |-> f, index |-> i] BY <1>4, <1>5 DEF Locs
  <1>7. l \in Loc /\ l.file = f /\ l.index = i BY <1>2, <1>3, <1>6 DEF Loc
  <1>8. Rereads(p, l) BY <1>3, <1>5, <1>6, <1>7 DEF Rereads
  <1> QED BY <1>7, <1>8, RereadsTyped DEF Rereads

LEMMA ReachedListed ==
  ASSUME NEW p, NEW l \in Reached(p)
  PROVE  l \in Listed(p)
  BY DEF Reached

LEMMA WithoutTyped ==
  ASSUME NEW S, NEW ss \in Seq(S), NEW i \in 1..Len(ss)
  PROVE  Without(ss, i) \in Seq(S) /\ Len(Without(ss, i)) = Len(ss) - 1
  <1>1. SubSeq(ss, 1, i - 1) \in Seq(S) /\ Len(SubSeq(ss, 1, i - 1)) = i - 1 OBVIOUS
  <1>2. SubSeq(ss, i + 1, Len(ss)) \in Seq(S) /\ Len(SubSeq(ss, i + 1, Len(ss))) = Len(ss) - i
    OBVIOUS
  <1> DEFINE a == SubSeq(ss, 1, i - 1)
             b == SubSeq(ss, i + 1, Len(ss))
  <1>3. Without(ss, i) = a \o b BY DEF Without
  <1>4. a \in Seq(S) /\ b \in Seq(S) /\ Len(a) = i - 1 /\ Len(b) = Len(ss) - i
    BY <1>1, <1>2
  <1>5. Len(ss) \in Nat /\ i \in Nat OBVIOUS
  <1> HIDE DEF a, b
  <1> QED BY <1>3, <1>4, <1>5

(* What merging seasons leaves alone.                                      *)
LEMMA MergedTyped ==
  ASSUME NEW s \in Show, NEW new \in Merged(s)
  PROVE  /\ new \in Show /\ new.kind = s.kind /\ new.name = s.name /\ new.path = s.path
         /\ Len(new.sources) = Len(s.sources)
  <1>1. PICK asked \in SUBSET (1..Len(s.sources)) :
          new = [s EXCEPT !.sources = [i \in 1..Len(@) |->
                   IF i \in asked /\ @[i].seasons = "none" THEN [@[i] EXCEPT !.seasons = "all"]
                   ELSE @[i]]]
    BY DEF Merged
  <1>2. s.sources \in Seq(Source) BY DEF Show
  <1> DEFINE f == [i \in 1..Len(s.sources) |->
                     IF i \in asked /\ s.sources[i].seasons = "none"
                     THEN [s.sources[i] EXCEPT !.seasons = "all"] ELSE s.sources[i]]
  <1>3. f \in Seq(Source) /\ Len(f) = Len(s.sources)
    <2>1. \A i \in 1..Len(s.sources) : s.sources[i] \in Source BY <1>2
    <2>2. \A i \in 1..Len(s.sources) : f[i] \in Source BY <2>1 DEF Source
    <2>3. Len(s.sources) \in Nat BY <1>2
    <2>4. DOMAIN f = 1..Len(s.sources) OBVIOUS
    <2>5. f = [i \in 1..Len(s.sources) |-> f[i]] OBVIOUS
    <2> HIDE DEF f
    <2> QED BY <2>2, <2>3, <2>4, <2>5
  <1>4. new = [s EXCEPT !.sources = f] BY <1>1
  <1> HIDE DEF f
  <1> QED BY <1>3, <1>4 DEF Show

LEMMA WithShowTyped ==
  ASSUME NEW p \in Platforms, NEW ss \in Seq(Show), NEW i, NEW new \in Show
  PROVE  /\ WithShow(p, ss, i, new) \in Seq(Show)
         /\ Len(WithShow(p, ss, i, new)) = Len(ss)
  <1>1. \A j \in 1..Len(ss) : ReadAs(p, ss[j]) \in Show BY ReadAsTyped
  <1>2. Len(ss) \in Nat OBVIOUS
  <1> QED BY <1>1, <1>2 DEF WithShow

LEMMA ChangedTyped ==
  ASSUME NEW s \in Show, NEW new \in Changed(s)
  PROVE  new \in Show
  <1>1. s.sources \in Seq(Source) BY DEF Show
  <1>2. CASE \E n \in Names : new = [s EXCEPT !.name = n] BY <1>2 DEF Show
  <1>3. CASE \E f \in Paths : new = [s EXCEPT !.path = f] BY <1>3 DEF Show
  <1>4. CASE \E i \in 1..Len(s.sources), v \in {"all", "only", "none"} :
               new = [s EXCEPT !.sources[i].seasons = v]
    <2>1. PICK i \in 1..Len(s.sources), v \in {"all", "only", "none"} :
            new = [s EXCEPT !.sources[i].seasons = v] BY <1>4
    <2>2. s.sources[i] \in Source BY <1>1
    <2>3. [s.sources[i] EXCEPT !.seasons = v] \in Source BY <2>2 DEF Source
    <2>4. [s.sources EXCEPT ![i] = [s.sources[i] EXCEPT !.seasons = v]] \in Seq(Source)
      BY <1>1, <2>3
    <2>5. new = [s EXCEPT !.sources = [s.sources EXCEPT ![i] = [s.sources[i] EXCEPT !.seasons = v]]]
      BY <2>1
    <2> QED BY <2>4, <2>5 DEF Show
  <1>5. CASE \E i \in 1..Len(s.sources) : new = [s EXCEPT !.sources = Without(@, i)]
    <2>1. PICK i \in 1..Len(s.sources) : new = [s EXCEPT !.sources = Without(s.sources, i)]
      BY <1>5
    <2>2. Without(s.sources, i) \in Seq(Source) BY <1>1, WithoutTyped
    <2> QED BY <2>1, <2>2 DEF Show
  <1> QED BY <1>2, <1>3, <1>4, <1>5 DEF Changed

LEMMA FromDetailTyped ==
  ASSUME NEW p, NEW s \in Show
  PROVE  FromDetail(p, s) \in Show
  <1>1. s.sources \in Seq(Source) BY DEF Show
  <1> DEFINE K == {i \in 1..Len(s.sources) : s.sources[i].seasons # "none"}
             kept == Subsequence(s.sources, K)
             f == [i \in 1..Len(kept) |-> [kept[i] EXCEPT !.seasons = "all"]]
  <1>2. K \in SUBSET (1..Len(s.sources)) OBVIOUS
  <1>3. FromDetail(p, s) = IF p = "dropout" THEN s ELSE [s EXCEPT !.sources = f]
    BY DEF FromDetail
  <1> HIDE DEF K
  <1>4. kept \in Seq(Source) BY <1>1, <1>2, SubsequenceIs
  <1> HIDE DEF kept
  <1>5. \A i \in 1..Len(kept) : f[i] \in Source
    <2>1. TAKE i \in 1..Len(kept)
    <2>2. kept[i] \in Source BY <1>4
    <2> QED BY <2>2 DEF Source
  <1>6. f \in Seq(Source) BY <1>4, <1>5
  <1> HIDE DEF f
  <1> QED BY <1>3, <1>6 DEF Show

LEMMA RewrittenTyped ==
  ASSUME NEW p \in Platforms, NEW ss \in Seq(Show), NEW text \in Rewritten(p, ss)
  PROVE  text \in Seq(Show)
  <1>1. CASE \E i \in 1..Len(ss) : text = Without(ss, i) BY <1>1, WithoutTyped
  <1>2. CASE \E i \in 1..Len(ss) : text = [ss EXCEPT ![i].sources = <<>>]
    <2>1. PICK i \in 1..Len(ss) : text = [ss EXCEPT ![i] = [ss[i] EXCEPT !.sources = <<>>]]
      BY <1>2
    <2>2. [ss[i] EXCEPT !.sources = <<>>] \in Show
      <3>1. ss[i] \in Show OBVIOUS
      <3>2. <<>> \in Seq(Source) OBVIOUS
      <3> QED BY <3>1, <3>2 DEF Show
    <2> QED BY <2>1, <2>2
  <1>3. CASE \E n \in Names :
               text = <<[kind |-> p, name |-> n, path |-> AnyPath, sources |-> <<>>]>> \o ss
    <2>1. PICK n \in Names :
            text = <<[kind |-> p, name |-> n, path |-> AnyPath, sources |-> <<>>]>> \o ss
      BY <1>3
    <2>2. AnyPath \in Paths BY FilesAssumption DEF AnyPath
    <2>3. [kind |-> p, name |-> n, path |-> AnyPath, sources |-> <<>>] \in Show
      BY <2>2 DEF Show
    <2> QED BY <2>1, <2>3
  <1> QED BY <1>1, <1>2, <1>3 DEF Rewritten

LEMMA RootTextsTyped ==
  ASSUME TypeOK, NEW p \in Platforms, NEW text \in RootTexts(p)
  PROVE  text \in Root
  <1>1. /\ root[p] \in Root /\ root[p].imports \in Seq(Stems) /\ Imports(p) \subseteq Stems
        /\ root[p].inline \in Seq(Show)
    BY ImportsStems DEF Root
  <1>2. CASE \E f \in Imports(p) : text = [root[p] EXCEPT !.imports = Delisted(@, f)]
    <2>1. PICK f : text = [root[p] EXCEPT !.imports = Delisted(root[p].imports, f)] BY <1>2
    <2>2. Delisted(root[p].imports, f) \in Seq(Stems) BY <1>1, DelistedIs
    <2> QED BY <1>1, <2>1, <2>2 DEF Root
  <1>3. CASE \E f \in Stems : text = [root[p] EXCEPT !.imports = Append(@, f)]
    <2>1. PICK f \in Stems : text = [root[p] EXCEPT !.imports = Append(root[p].imports, f)]
      BY <1>3
    <2>2. Append(root[p].imports, f) \in Seq(Stems) BY <1>1
    <2> QED BY <1>1, <2>1, <2>2 DEF Root
  <1>4. CASE \E ss \in Rewritten(p, root[p].inline) : text = [root[p] EXCEPT !.inline = ss]
    <2>1. PICK ss \in Rewritten(p, root[p].inline) : text = [root[p] EXCEPT !.inline = ss]
      BY <1>4
    <2>2. ss \in Seq(Show) BY <1>1, RewrittenTyped
    <2> QED BY <1>1, <2>1, <2>2 DEF Root
  <1> QED BY <1>2, <1>3, <1>4 DEF RootTexts

-----------------------------------------------------------------------------
(***************************************************************************)
(* Types.                                                                  *)
(***************************************************************************)
RefreshOK(r) ==
  r = NoRefresh \/
    /\ DOMAIN r = {"at", "slug", "l", "old", "revision", "new", "content", "changes"}
    /\ r.at \in {"located", "asking", "proposed", "checked"}
    /\ r.l \in Loc /\ r.old \in Show /\ r.new \in Show /\ r.changes \in Nat
FilesOK == root \in [Platforms -> Root] /\ child \in [Stems -> Seq(Show)]
CountersOK ==
  /\ meddled \in BOOLEAN /\ odd \subseteq Stems
  /\ edits \in 0..MaxEdits /\ hands \in 0..MaxHands /\ faults \in 0..MaxFaults
SeenOK == seen = Unseen \/ (seen.p \in Platforms /\ seen.show \in Show)

LEMMA TypeParts ==
  /\ TypeOK <=> /\ FilesOK /\ op \in Op \cup {Idle} /\ RefreshOK(refresh)
                /\ SeenOK /\ CountersOK
  /\ TypeOK' <=> /\ FilesOK' /\ op' \in Op \cup {Idle} /\ RefreshOK(refresh')
                 /\ SeenOK' /\ CountersOK'
  BY DEF TypeOK, FilesOK, RefreshOK, SeenOK, CountersOK

(* The fields a step of the refresh sets, and those it leaves.             *)
LEMMA RefreshSets ==
  ASSUME NEW r, DOMAIN r = {"at", "slug", "l", "old", "revision", "new", "content", "changes"},
         NEW at, NEW revision, NEW new, NEW content
  PROVE  /\ LET q == [r EXCEPT !.at = at]
            IN  /\ DOMAIN q = DOMAIN r /\ q.at = at /\ q.slug = r.slug /\ q.l = r.l
                /\ q.old = r.old /\ q.revision = r.revision /\ q.new = r.new
                /\ q.content = r.content /\ q.changes = r.changes
         /\ LET q == [r EXCEPT !.at = at, !.revision = revision]
            IN  /\ DOMAIN q = DOMAIN r /\ q.at = at /\ q.slug = r.slug /\ q.l = r.l
                /\ q.old = r.old /\ q.revision = revision /\ q.new = r.new
                /\ q.content = r.content /\ q.changes = r.changes
         /\ LET q == [r EXCEPT !.at = at, !.new = new, !.content = content]
            IN  /\ DOMAIN q = DOMAIN r /\ q.at = at /\ q.slug = r.slug /\ q.l = r.l
                /\ q.old = r.old /\ q.revision = r.revision /\ q.new = new
                /\ q.content = content /\ q.changes = r.changes
         /\ LET q == [r EXCEPT !.changes = r.changes + 1]
            IN  /\ DOMAIN q = DOMAIN r /\ q.at = r.at /\ q.slug = r.slug /\ q.l = r.l
                /\ q.old = r.old /\ q.revision = r.revision /\ q.new = r.new
                /\ q.content = r.content /\ q.changes = r.changes + 1
  OBVIOUS

LEMMA CountedTyped ==
  ASSUME RefreshOK(refresh), refresh' = Counted(refresh)
  PROVE  RefreshOK(refresh')
  <1>1. CASE refresh' = refresh BY <1>1
  <1>2. CASE refresh # NoRefresh /\ refresh' = [refresh EXCEPT !.changes = @ + 1]
    <2>1. /\ DOMAIN refresh = {"at", "slug", "l", "old", "revision", "new", "content", "changes"}
          /\ refresh.at \in {"located", "asking", "proposed", "checked"}
          /\ refresh.l \in Loc /\ refresh.old \in Show /\ refresh.new \in Show
          /\ refresh.changes \in Nat
      BY <1>2 DEF RefreshOK
    <2>2. refresh' = [refresh EXCEPT !.changes = refresh.changes + 1] BY <1>2
    <2>3. /\ DOMAIN refresh' = DOMAIN refresh /\ refresh'.at = refresh.at
          /\ refresh'.l = refresh.l /\ refresh'.old = refresh.old /\ refresh'.new = refresh.new
          /\ refresh'.changes = refresh.changes + 1
      BY <2>1, <2>2, RefreshSets
    <2>4. refresh'.changes \in Nat BY <2>1, <2>3
    <2> QED BY <2>1, <2>3, <2>4 DEF RefreshOK
  <1> QED BY <1>1, <1>2 DEF Counted

LEMMA WriteFileTyped ==
  ASSUME FilesOK, NEW p \in Platforms, NEW f \in Stems \cup {Inline}, NEW ss \in Seq(Show),
         WriteFile(p, f, ss)
  PROVE  FilesOK'
  <1>1. CASE f = Inline
    <2>1. root' = [root EXCEPT ![p].inline = ss] /\ child' = child BY <1>1 DEF WriteFile
    <2>2. root[p] \in Root BY DEF FilesOK
    <2>3. [root[p] EXCEPT !.inline = ss] \in Root BY <2>2 DEF Root
    <2>4. root' = [root EXCEPT ![p] = [root[p] EXCEPT !.inline = ss]] BY <2>1
    <2> QED BY <2>1, <2>3, <2>4 DEF FilesOK
  <1>2. CASE f # Inline BY <1>2 DEF WriteFile, FilesOK
  <1> QED BY <1>1, <1>2

LEMMA OpFields ==
  ASSUME TypeOK, op # Idle
  PROVE  /\ op \in Op /\ op.at \in {"put", "drop", "append", "unlist"}
         /\ op.p \in Platforms /\ op.l \in Loc
         /\ op.l.file \in Stems \cup {Inline} /\ op.l.index \in Nat \ {0}
         /\ op.old \in Show /\ op.new \in Show /\ op.asked \in Seq(Source)
  BY DEF TypeOK, Op, Loc

LEMMA BusyOp ==
  ASSUME op.at \in {"put", "drop", "append", "unlist"}
  PROVE  op # Idle
  BY DEF Idle

LEMMA BeginTyped ==
  ASSUME TypeOK, Accepted, NEW at \in {"put", "drop"}, NEW p \in Platforms,
         NEW l \in Listed(p), NEW new \in Show, NEW asked \in Seq(Source),
         Begin(at, p, l, new, asked)
  PROVE  TypeOK'
  <1>1. l \in Loc /\ ShowAt(p, l) \in Show BY ListedIs
  <1>2. op' \in Op BY <1>1 DEF Begin, Op
  <1>3. FilesOK' /\ RefreshOK(refresh') /\ SeenOK'
    BY TypeParts DEF Begin, files, FilesOK, SeenOK
  <1>4. CountersOK'
    <2>1. CountersOK BY TypeParts
    <2>2. MaxEdits \in Nat BY FilesAssumption
    <2>3. /\ edits < MaxEdits /\ edits' = edits + 1 /\ meddled' = FALSE
          /\ odd' = odd /\ hands' = hands /\ faults' = faults
      BY DEF Begin, Accepted
    <2>4. meddled' \in BOOLEAN BY <2>3
    <2>5. /\ odd' \subseteq Stems /\ edits' \in 0..MaxEdits
          /\ hands' \in 0..MaxHands /\ faults' \in 0..MaxFaults
      BY <2>1, <2>2, <2>3 DEF CountersOK
    <2> QED BY <2>4, <2>5 DEF CountersOK
  <1> QED BY <1>2, <1>3, <1>4, TypeParts

LEMMA DiscoveredTyped ==
  ASSUME NEW p, NEW new \in Discovered(p)
  PROVE  new \in Seq(Source)
  <1> DEFINE Whole(u) == [url |-> u, seasons |-> "all"]
  <1>1. \A u \in Urls : Whole(u) \in Source BY DEF Source
  <1>2. \/ \E u \in Urls : new = <<Whole(u)>>
        \/ \E u, v \in Urls : new = <<Whole(u), Whole(v)>>
    <2>1. CASE p = "youtube" BY <2>1 DEF Discovered
    <2>2. CASE p # "youtube" BY <2>2 DEF Discovered
    <2> QED BY <2>1, <2>2
  <1> HIDE DEF Whole
  <1>3. CASE \E u \in Urls : new = <<Whole(u)>>
    <2>1. PICK u \in Urls : new = <<Whole(u)>> BY <1>3
    <2>2. Whole(u) \in Source BY <1>1
    <2> QED BY <2>1, <2>2
  <1>4. CASE \E u, v \in Urls : new = <<Whole(u), Whole(v)>>
    <2>1. PICK u \in Urls, v \in Urls : new = <<Whole(u), Whole(v)>> BY <1>4
    <2>2. Whole(u) \in Source /\ Whole(v) \in Source BY <1>1
    <2> QED BY <2>1, <2>2
  <1> QED BY <1>2, <1>3, <1>4

LEMMA SourcesReplaced ==
  ASSUME NEW s \in Show, NEW ss \in Seq(Source)
  PROVE  [s EXCEPT !.sources = ss] \in Show
  <1>1. s = [kind |-> s.kind, name |-> s.name, path |-> s.path, sources |-> s.sources]
        /\ s.kind \in Platforms /\ s.name \in Names /\ s.path \in Paths
    BY DEF Show
  <1>2. [s EXCEPT !.sources = ss] = [kind |-> s.kind, name |-> s.name, path |-> s.path, sources |-> ss]
    BY <1>1
  <1> QED BY <1>1, <1>2 DEF Show

(* The requests that find a show and will write it, or take it away.       *)
LEMMA RequestBegins ==
  ASSUME TypeOK, AddSource \/ DeleteSource \/ PutSeries \/ PutSeriesYaml \/ DeleteSeries
  PROVE  /\ Accepted
         /\ \E at \in {"put", "drop"}, p \in Platforms :
            \E l \in Listed(p), new \in Show, asked \in Seq(Source) :
              Begin(at, p, l, new, asked)
  <1>0. NoSource \in Seq(Source) BY DEF NoSource
  <1>1. CASE AddSource
    <2>a. PICK p \in Platforms : \E l \in Reached(p), new \in Discovered(p) :
            Begin("put", p, l, [ShowAt(p, l) EXCEPT !.sources = @ \o new], NoSource)
      BY <1>1 DEF AddSource
    <2>1. PICK l \in Reached(p), new \in Discovered(p) :
            Begin("put", p, l, [ShowAt(p, l) EXCEPT !.sources = @ \o new], NoSource)
      BY <2>a
    <2>2. l \in Listed(p) BY ReachedListed
    <2>3. ShowAt(p, l) \in Show /\ ShowAt(p, l).sources \in Seq(Source) BY <2>2, ListedIs DEF Show
    <2>4. ShowAt(p, l).sources \o new \in Seq(Source) BY <2>3, DiscoveredTyped
    <2>5. [ShowAt(p, l) EXCEPT !.sources = ShowAt(p, l).sources \o new] \in Show
      BY <2>3, <2>4, SourcesReplaced
    <2> QED BY <1>0, <1>1, <2>1, <2>2, <2>5 DEF AddSource
  <1>2. CASE DeleteSource
    <2>1. seen.p \in Platforms /\ seen.show \in Show BY <1>2 DEF DeleteSource, TypeOK
    <2>2. PICK l \in Listed(seen.p), i \in 1..Len(seen.show.sources) :
            /\ i <= Len(ShowAt(seen.p, l).sources)
            /\ Begin("put", seen.p, l, [ShowAt(seen.p, l) EXCEPT !.sources = Without(@, i)],
                     <<seen.show.sources[i]>>)
      BY <1>2 DEF DeleteSource
    <2>3. ShowAt(seen.p, l) \in Show /\ ShowAt(seen.p, l).sources \in Seq(Source)
      BY <2>1, ListedIs DEF Show
    <2>4. i \in 1..Len(ShowAt(seen.p, l).sources) BY <2>2, <2>3
    <2>5. Without(ShowAt(seen.p, l).sources, i) \in Seq(Source) BY <2>3, <2>4, WithoutTyped
    <2>6. [ShowAt(seen.p, l) EXCEPT !.sources = Without(ShowAt(seen.p, l).sources, i)] \in Show
      BY <2>3, <2>5, SourcesReplaced
    <2>7. <<seen.show.sources[i]>> \in Seq(Source)
      <3>1. seen.show.sources \in Seq(Source) BY <2>1 DEF Show
      <3>2. seen.show.sources[i] \in Source BY <3>1
      <3> QED BY <3>2
    <2> QED BY <1>2, <2>1, <2>2, <2>6, <2>7 DEF DeleteSource
  <1>3. CASE PutSeries
    <2>1. seen.p \in Platforms /\ seen.show \in Show BY <1>3 DEF PutSeries, TypeOK
    <2>2. PICK l \in Listed(seen.p), body \in Changed(seen.show) :
            Replace(seen.p, l, FromDetail(seen.p, body))
      BY <1>3 DEF PutSeries
    <2>3. FromDetail(seen.p, body) \in Show BY <2>1, ChangedTyped, FromDetailTyped
    <2> QED BY <1>0, <1>3, <2>1, <2>2, <2>3 DEF PutSeries, Replace
  <1>4. CASE PutSeriesYaml
    <2>a. PICK p \in Platforms : \E l \in Reached(p) : \E new \in Changed(ShowAt(p, l)) :
            Replace(p, l, new)
      BY <1>4 DEF PutSeriesYaml
    <2>b. PICK l \in Reached(p) : \E new \in Changed(ShowAt(p, l)) : Replace(p, l, new) BY <2>a
    <2>1. PICK new \in Changed(ShowAt(p, l)) : Replace(p, l, new) BY <2>b
    <2>2. l \in Listed(p) BY ReachedListed
    <2>3. ShowAt(p, l) \in Show BY <2>2, ListedIs
    <2>4. new \in Show BY <2>3, ChangedTyped
    <2> QED BY <1>0, <1>4, <2>1, <2>2, <2>4 DEF PutSeriesYaml, Replace
  <1>5. CASE DeleteSeries
    <2>a. PICK p \in Platforms : \E l \in Reached(p) : Begin("drop", p, l, ShowAt(p, l), NoSource)
      BY <1>5 DEF DeleteSeries
    <2>1. PICK l \in Reached(p) : Begin("drop", p, l, ShowAt(p, l), NoSource) BY <2>a
    <2>2. l \in Listed(p) BY ReachedListed
    <2>3. ShowAt(p, l) \in Show BY <2>2, ListedIs
    <2> QED BY <1>0, <1>5, <2>1, <2>2, <2>3 DEF DeleteSeries
  <1> QED BY <1>1, <1>2, <1>3, <1>4, <1>5

(* What the actions do to the counters and to the history.                 *)
LEMMA SameCounters ==
  ASSUME CountersOK, UNCHANGED history
  PROVE  CountersOK'
  BY DEF CountersOK, history

LEMMA EditCounted ==
  ASSUME CountersOK, Accepted, UNCHANGED <<hands, faults>>,
         meddled' = meddled \/ meddled' = FALSE, odd' \subseteq Stems
  PROVE  CountersOK'
  <1>1. edits' = edits + 1 /\ edits < MaxEdits /\ hands' = hands /\ faults' = faults
    BY DEF Accepted
  <1>2. meddled' \in BOOLEAN BY DEF CountersOK
  <1>3. MaxEdits \in Nat BY FilesAssumption
  <1>4. /\ edits \in 0..MaxEdits /\ hands' \in 0..MaxHands /\ faults' \in 0..MaxFaults
    BY <1>1 DEF CountersOK
  <1>5. edits' \in 0..MaxEdits BY <1>1, <1>3, <1>4
  <1> QED BY <1>2, <1>4, <1>5 DEF CountersOK

LEMMA RelistedStems ==
  ASSUME NEW p, NEW text
  PROVE  Relisted(p, text) \subseteq Stems
  BY DEF Relisted

(* The writes of the requests.                                             *)
LEMMA SaveTyped ==
  ASSUME TypeOK, Save
  PROVE  TypeOK'
  <1>1. op # Idle BY BusyOp DEF Save
  <1>2. /\ op.p \in Platforms /\ op.l.file \in Stems \cup {Inline} /\ op.new \in Show
    BY <1>1, OpFields
  <1>3. FilesOK'
    <2>1. CASE Rereads(op.p, op.l)
      <3> DEFINE ss == WithShow(op.p, Raw(op.p, op.l.file), op.l.index, op.new)
      <3>1. ss \in Seq(Show) BY <1>2, RawTyped, WithShowTyped
      <3>2. WriteFile(op.p, op.l.file, ss) BY <2>1 DEF Save
      <3> HIDE DEF ss
      <3> QED BY <1>2, <3>1, <3>2, WriteFileTyped, TypeParts
    <2>2. CASE ~Rereads(op.p, op.l) BY <2>2, TypeParts DEF Save, files, FilesOK
    <2> QED BY <2>1, <2>2
  <1>4. op' = Idle BY DEF Save
  <1>5. RefreshOK(refresh') BY TypeParts, CountedTyped DEF Save
  <1>6. SeenOK' BY TypeParts DEF Save, SeenOK
  <1>7. CountersOK' BY TypeParts, SameCounters DEF Save
  <1> QED BY <1>3, <1>4, <1>5, <1>6, <1>7, TypeParts

LEMMA DropTyped ==
  ASSUME TypeOK, Drop
  PROVE  TypeOK'
  <1>1. op # Idle BY BusyOp DEF Drop
  <1>2. /\ op \in Op /\ op.p \in Platforms /\ op.l.file \in Stems \cup {Inline}
        /\ op.l.index \in Nat \ {0}
    BY <1>1, OpFields
  <1> DEFINE ss == Raw(op.p, op.l.file)
             rs == [j \in 1..Len(ss) |-> ReadAs(op.p, ss[j])]
             rest == Without(rs, op.l.index)
  <1>3. ss \in Seq(Show) BY <1>2, RawTyped
  <1>4. rs \in Seq(Show) /\ Len(rs) = Len(ss)
    <2> HIDE DEF ss
    <2>1. \A j \in 1..Len(ss) : ReadAs(op.p, ss[j]) \in Show BY <1>2, <1>3, ReadAsTyped
    <2>2. Len(ss) \in Nat BY <1>3
    <2> QED BY <2>1, <2>2
  <1>5. ASSUME Rereads(op.p, op.l) PROVE FilesOK' /\ op' \in Op \cup {Idle}
    <2>1. op.l.index \in 1..Len(rs) BY <1>2, <1>3, <1>4, <1>5 DEF Rereads
    <2> HIDE DEF rs
    <2>2. rest \in Seq(Show) BY <1>4, <2>1, WithoutTyped
    <2>3. /\ WriteFile(op.p, op.l.file, rest)
          /\ op' = Idle \/ op' = [op EXCEPT !.at = "unlist"]
      BY <1>5 DEF Drop, rs
    <2> HIDE DEF rest
    <2>4. FilesOK' BY <1>2, <2>2, <2>3, WriteFileTyped, TypeParts
    <2>5. op' \in Op \cup {Idle} BY <1>2, <2>3 DEF Op
    <2> QED BY <2>4, <2>5
  <1>7. FilesOK' /\ op' \in Op \cup {Idle}
    <2>1. CASE Rereads(op.p, op.l) BY <2>1, <1>5
    <2>2. CASE ~Rereads(op.p, op.l) BY <2>2, TypeParts DEF Drop, files, FilesOK
    <2> QED BY <2>1, <2>2
  <1>8. RefreshOK(refresh') BY TypeParts, CountedTyped DEF Drop
  <1>9. SeenOK' BY TypeParts DEF Drop, SeenOK
  <1>10. CountersOK' BY TypeParts, SameCounters DEF Drop
  <1> QED BY <1>7, <1>8, <1>9, <1>10, TypeParts

LEMMA ImportsReplaced ==
  ASSUME FilesOK, NEW p \in Platforms, NEW is \in Seq(Stems)
  PROVE  [root EXCEPT ![p].imports = is] \in [Platforms -> Root]
  <1>1. root[p] \in Root BY DEF FilesOK
  <1>2. [root[p] EXCEPT !.imports = is] \in Root BY <1>1 DEF Root
  <1>3. [root EXCEPT ![p].imports = is] = [root EXCEPT ![p] = [root[p] EXCEPT !.imports = is]]
    OBVIOUS
  <1> QED BY <1>2, <1>3 DEF FilesOK

LEMMA UnlistTyped ==
  ASSUME TypeOK, Unlist
  PROVE  TypeOK'
  <1>1. op # Idle BY BusyOp DEF Unlist
  <1>2. op.p \in Platforms BY <1>1, OpFields
  <1> DEFINE is == Delisted(root[op.p].imports, op.l.file)
  <1>3. is \in Seq(Stems)
    <2>1. root[op.p].imports \in Seq(Stems) BY <1>2, ImportsStems
    <2> QED BY <2>1, DelistedIs
  <1>4. root' = [root EXCEPT ![op.p].imports = is] /\ child' = child BY DEF Unlist
  <1> HIDE DEF is
  <1>5. FilesOK' BY <1>2, <1>3, <1>4, ImportsReplaced, TypeParts DEF FilesOK
  <1>6. RefreshOK(refresh') BY TypeParts, CountedTyped DEF Unlist
  <1>7. SeenOK' BY TypeParts DEF Unlist, SeenOK
  <1>8. CountersOK' BY TypeParts, SameCounters DEF Unlist
  <1>9. op' = Idle BY DEF Unlist
  <1> QED BY <1>5, <1>6, <1>7, <1>8, <1>9, TypeParts

LEMMA AppendTyped ==
  ASSUME TypeOK, OpInv, AppendImport
  PROVE  TypeOK'
  <1>1. op # Idle BY BusyOp DEF AppendImport
  <1>2. op.p \in Platforms /\ op.l.file \in Stems BY <1>1, OpFields DEF OpInv, AppendImport
  <1> DEFINE is == Append(root[op.p].imports, op.l.file)
  <1>3. is \in Seq(Stems)
    <2>1. root[op.p].imports \in Seq(Stems) BY <1>2, ImportsStems
    <2> QED BY <1>2, <2>1
  <1>4. /\ root' = root \/ root' = [root EXCEPT ![op.p].imports = is]
        /\ child' = child
    BY DEF AppendImport
  <1> HIDE DEF is
  <1>5. FilesOK'
    <2>1. FilesOK BY TypeParts
    <2>2. [root EXCEPT ![op.p].imports = is] \in [Platforms -> Root]
      BY <1>2, <1>3, <2>1, ImportsReplaced
    <2> QED BY <1>4, <2>1, <2>2 DEF FilesOK
  <1>6. RefreshOK(refresh') BY TypeParts, CountedTyped DEF AppendImport
  <1>7. SeenOK' BY TypeParts DEF AppendImport, SeenOK
  <1>8. CountersOK' BY TypeParts, SameCounters DEF AppendImport
  <1>9. op' = Idle BY DEF AppendImport
  <1> QED BY <1>5, <1>6, <1>7, <1>8, <1>9, TypeParts

(* A creation writes a show with no source into a file of its own.         *)
NewShow(p, n, f) == [kind |-> p, name |-> n, path |-> f, sources |-> <<>>]
Created(p, n, f) ==
  /\ n \notin AllNames /\ f \notin PathsOf(p)
  /\ child[SlugOf[n]] = <<>>
  /\ child' = [child EXCEPT ![SlugOf[n]] = <<NewShow(p, n, f)>>]
  /\ op' = [at |-> "append", p |-> p, l |-> [file |-> SlugOf[n], index |-> 1],
            old |-> NewShow(p, n, f), new |-> NewShow(p, n, f), asked |-> NoSource]

LEMMA CreateSeriesIs ==
  CreateSeries <=>
    /\ Accepted
    /\ \E p \in Platforms, n \in Names, f \in Paths : Created(p, n, f)
    /\ meddled' = FALSE
    /\ UNCHANGED <<root, refresh, seen, odd, hands, faults>>
  BY DEF CreateSeries, Created, NewShow

LEMMA NewShowTyped ==
  ASSUME NEW p \in Platforms, NEW n \in Names, NEW f \in Paths
  PROVE  NewShow(p, n, f) \in Show /\ SlugOf[n] \in Stems
  <1>1. <<>> \in Seq(Source) OBVIOUS
  <1>2. SlugOf[n] \in Stems BY FilesAssumption
  <1> QED BY <1>1, <1>2 DEF NewShow, Show

LEMMA CreateTyped ==
  ASSUME TypeOK, CreateSeries
  PROVE  TypeOK'
  <1>1. PICK p \in Platforms, n \in Names, f \in Paths : Created(p, n, f) BY CreateSeriesIs
  <1>2. NewShow(p, n, f) \in Show /\ SlugOf[n] \in Stems BY NewShowTyped
  <1>3. FilesOK'
    <2>1. root' = root BY CreateSeriesIs
    <2>2. <<NewShow(p, n, f)>> \in Seq(Show) BY <1>2
    <2> QED BY <1>1, <1>2, <2>1, <2>2, TypeParts DEF FilesOK, Created
  <1>4. op' \in Op
    <2>1. NoSource \in Seq(Source) BY DEF NoSource
    <2>2. [file |-> SlugOf[n], index |-> 1] \in Loc BY <1>2 DEF Loc
    <2> QED BY <1>1, <1>2, <2>1, <2>2 DEF Created, Op
  <1>5. RefreshOK(refresh') BY TypeParts, CreateSeriesIs
  <1>6. SeenOK' BY TypeParts, CreateSeriesIs DEF SeenOK
  <1>7. CountersOK'
    <2>1. Accepted /\ meddled' = FALSE /\ odd' = odd /\ hands' = hands /\ faults' = faults
      BY CreateSeriesIs
    <2>2. odd' \subseteq Stems BY <2>1, TypeParts DEF CountersOK
    <2> QED BY <2>1, <2>2, TypeParts, EditCounted
  <1> QED BY <1>3, <1>4, <1>5, <1>6, <1>7, TypeParts

(* Raw text and settings.                                                  *)
LEMMA PutPlatformTyped ==
  ASSUME TypeOK, PutPlatform
  PROVE  TypeOK'
  <1>1. PICK p \in Platforms, d \in Dirs \cup {NoDir} :
          root' = IF d = NoDir THEN root ELSE [root EXCEPT ![p].library = d]
    BY DEF PutPlatform
  <1>2. FilesOK'
    <2>1. FilesOK /\ child' = child BY TypeParts DEF PutPlatform
    <2>2. root[p] \in Root BY <2>1 DEF FilesOK
    <2>3. [root[p] EXCEPT !.library = d] \in Root BY <2>2 DEF Root
    <2>4. root' = root \/ root' = [root EXCEPT ![p] = [root[p] EXCEPT !.library = d]]
      BY <1>1
    <2> QED BY <2>1, <2>3, <2>4 DEF FilesOK
  <1>3. op' \in Op \cup {Idle} /\ RefreshOK(refresh') /\ SeenOK'
    BY TypeParts DEF PutPlatform, SeenOK
  <1>4. CountersOK'
    <2>1. Accepted /\ meddled' = meddled /\ odd' = odd /\ hands' = hands /\ faults' = faults
      BY DEF PutPlatform
    <2>2. odd' \subseteq Stems BY <2>1, TypeParts DEF CountersOK
    <2> QED BY <2>1, <2>2, TypeParts, EditCounted
  <1> QED BY <1>2, <1>3, <1>4, TypeParts

(* The user's editor and the server's write the text of a root file, or of *)
(* an imported one.                                                        *)
RootText(p, text) == /\ root' = [root EXCEPT ![p] = text]
                     /\ odd' = odd \cup Relisted(p, text)
                     /\ child' = child
ImportText(f, ss) == /\ child' = [child EXCEPT ![f] = ss]
                     /\ odd' = odd \cup {f}
                     /\ root' = root
TextWritten ==
  \E p \in Platforms :
    \/ \E text \in RootTexts(p) : RootText(p, text)
    \/ \E f \in Imports(p) : \E ss \in Rewritten(p, child[f]) : ImportText(f, ss)

LEMMA TextWrites ==
  ASSUME PutManifest \/ PutImport \/ HandEdit
  PROVE  TextWritten
  BY DEF PutManifest, PutImport, HandEdit, TextWritten, RootText, ImportText

LEMMA TextTyped ==
  ASSUME TypeOK, TextWritten
  PROVE  FilesOK' /\ odd' \subseteq Stems
  <1>0. FilesOK /\ odd \subseteq Stems BY TypeParts DEF CountersOK
  <1>1. PICK p \in Platforms :
          \/ \E text \in RootTexts(p) : RootText(p, text)
          \/ \E f \in Imports(p) : \E ss \in Rewritten(p, child[f]) : ImportText(f, ss)
    BY DEF TextWritten
  <1>2. CASE \E text \in RootTexts(p) : RootText(p, text)
    <2>1. PICK text \in RootTexts(p) : RootText(p, text) BY <1>2
    <2>2. text \in Root BY RootTextsTyped
    <2>3. Relisted(p, text) \subseteq Stems BY RelistedStems
    <2> QED BY <1>0, <2>1, <2>2, <2>3 DEF FilesOK, RootText
  <1>3. CASE \E f \in Imports(p) : \E ss \in Rewritten(p, child[f]) : ImportText(f, ss)
    <2>1. PICK f \in Imports(p) : \E ss \in Rewritten(p, child[f]) : ImportText(f, ss) BY <1>3
    <2>2. PICK ss \in Rewritten(p, child[f]) : ImportText(f, ss) BY <2>1
    <2>3. f \in Stems /\ child[f] \in Seq(Show) BY <1>0, ImportsStems DEF FilesOK
    <2>4. ss \in Seq(Show) BY <2>3, RewrittenTyped
    <2> QED BY <1>0, <2>2, <2>3, <2>4 DEF FilesOK, ImportText
  <1> QED BY <1>1, <1>2, <1>3

LEMMA PutTextTyped ==
  ASSUME TypeOK, PutManifest \/ PutImport
  PROVE  TypeOK'
  <1>1. FilesOK' /\ odd' \subseteq Stems BY TextWrites, TextTyped
  <1>2. Accepted /\ UNCHANGED <<op, refresh, seen, meddled, hands, faults>>
    BY DEF PutManifest, PutImport
  <1>3. op' \in Op \cup {Idle} /\ RefreshOK(refresh') /\ SeenOK' BY <1>2, TypeParts DEF SeenOK
  <1>4. CountersOK' BY <1>1, <1>2, TypeParts, EditCounted
  <1> QED BY <1>1, <1>3, <1>4, TypeParts

LEMMA HandEditTyped ==
  ASSUME TypeOK, HandEdit
  PROVE  TypeOK'
  <1>1. FilesOK' /\ odd' \subseteq Stems BY TextWrites, TextTyped
  <1>2. /\ edits < MaxEdits /\ edits' = edits + 1 /\ hands < MaxHands /\ hands' = hands + 1
        /\ meddled' = (op # Idle) /\ refresh' = Counted(refresh)
        /\ UNCHANGED <<op, seen, faults>>
    BY DEF HandEdit
  <1>3. op' \in Op \cup {Idle} /\ RefreshOK(refresh') /\ SeenOK'
    BY <1>2, TypeParts, CountedTyped DEF SeenOK
  <1>4. CountersOK'
    <2>1. meddled' \in BOOLEAN BY <1>2
    <2>2. MaxEdits \in Nat /\ MaxHands \in Nat BY FilesAssumption
    <2>3. edits \in 0..MaxEdits /\ hands \in 0..MaxHands /\ faults \in 0..MaxFaults
      BY TypeParts DEF CountersOK
    <2>4. edits' \in 0..MaxEdits /\ hands' \in 0..MaxHands /\ faults' \in 0..MaxFaults
      BY <1>2, <2>2, <2>3
    <2> QED BY <1>1, <2>1, <2>4 DEF CountersOK
  <1> QED BY <1>1, <1>3, <1>4, TypeParts

(* The refresh.                                                            *)
LEMMA RefreshFields ==
  ASSUME TypeOK, refresh # NoRefresh
  PROVE  /\ DOMAIN refresh = {"at", "slug", "l", "old", "revision", "new", "content", "changes"}
         /\ refresh.at \in {"located", "asking", "proposed", "checked"}
         /\ refresh.l \in Loc /\ refresh.old \in Show /\ refresh.new \in Show
         /\ refresh.changes \in Nat
         /\ refresh.l.file \in Stems \cup {Inline} /\ refresh.l.index \in Nat \ {0}
  <1>1. /\ DOMAIN refresh = {"at", "slug", "l", "old", "revision", "new", "content", "changes"}
        /\ refresh.at \in {"located", "asking", "proposed", "checked"}
        /\ refresh.l \in Loc /\ refresh.old \in Show /\ refresh.new \in Show
        /\ refresh.changes \in Nat
    BY DEF TypeOK
  <1> QED BY <1>1 DEF Loc

LEMMA UnderWay ==
  ASSUME refresh.at \in {"located", "asking", "proposed", "checked"}
  PROVE  refresh # NoRefresh
  BY DEF NoRefresh

(* Each stage of the refresh, by the fields it leaves.                     *)
Kept(r, q) == /\ DOMAIN q = DOMAIN r /\ q.slug = r.slug /\ q.l = r.l /\ q.old = r.old
              /\ q.changes = r.changes
LEMMA StartIs ==
  ASSUME TypeOK, RefreshStart
  PROVE  \E l \in Listed("dropout") :
           /\ l \in Loc /\ ShowAt("dropout", l) \in Show
           /\ DOMAIN refresh' = {"at", "slug", "l", "old", "revision", "new", "content", "changes"}
           /\ refresh'.at = "located" /\ refresh'.l = l /\ refresh'.old = ShowAt("dropout", l)
           /\ refresh'.new = ShowAt("dropout", l) /\ refresh'.changes = 0
  <1>1. PICK l \in Reached("dropout") :
          refresh' = [at |-> "located", slug |-> Slugs("dropout")[l], l |-> l,
                      old |-> ShowAt("dropout", l), revision |-> NoSource,
                      new |-> ShowAt("dropout", l), content |-> NoSource, changes |-> 0]
    BY DEF RefreshStart
  <1>2. l \in Listed("dropout") BY ReachedListed
  <1>3. l \in Loc /\ ShowAt("dropout", l) \in Show BY <1>2, ListedIs DEF Platforms
  <1> QED BY <1>1, <1>2, <1>3

LEMMA ReviseIs ==
  ASSUME TypeOK, RefreshRevise
  PROVE  \/ refresh' = NoRefresh
         \/ /\ refresh.at = "located" /\ refresh'.at = "asking" /\ Kept(refresh, refresh')
            /\ refresh'.new = refresh.new
            /\ \E l \in Current : refresh'.revision = Revision(l)
  <1>1. refresh.at = "located" BY DEF RefreshRevise
  <1>2. DOMAIN refresh = {"at", "slug", "l", "old", "revision", "new", "content", "changes"}
    BY <1>1, UnderWay, RefreshFields
  <1>3. CASE refresh' # NoRefresh
    <2>1. PICK l \in Current : refresh' = [refresh EXCEPT !.at = "asking", !.revision = Revision(l)]
      BY <1>3 DEF RefreshRevise
    <2> DEFINE R == Revision(l)
    <2>2. refresh' = [refresh EXCEPT !.at = "asking", !.revision = R] BY <2>1
    <2> HIDE DEF R
    <2>3. /\ DOMAIN refresh' = DOMAIN refresh /\ refresh'.at = "asking"
          /\ refresh'.slug = refresh.slug /\ refresh'.l = refresh.l /\ refresh'.old = refresh.old
          /\ refresh'.revision = R /\ refresh'.new = refresh.new
          /\ refresh'.changes = refresh.changes
      BY <1>2, <2>2, RefreshSets
    <2>4. \E k \in Current : refresh'.revision = Revision(k) BY <2>3 DEF R
    <2> QED BY <1>1, <2>3, <2>4 DEF Kept
  <1> QED BY <1>3

LEMMA ProposeIs ==
  ASSUME TypeOK, RefreshPropose
  PROVE  \/ refresh' = NoRefresh
         \/ /\ refresh.at = "asking" /\ refresh'.at = "proposed" /\ Kept(refresh, refresh')
            /\ refresh'.revision = refresh.revision
            /\ refresh'.new \in Merged(refresh.old) /\ refresh'.new # refresh.old
            /\ refresh'.content = Content(refresh.l.file)
  <1>1. refresh.at = "asking" BY DEF RefreshPropose
  <1>2. DOMAIN refresh = {"at", "slug", "l", "old", "revision", "new", "content", "changes"}
    BY <1>1, UnderWay, RefreshFields
  <1>3. CASE refresh' # NoRefresh
    <2>1. PICK new \in Merged(refresh.old) \ {refresh.old} :
            refresh' = [refresh EXCEPT !.at = "proposed", !.new = new,
                                       !.content = Content(refresh.l.file)]
      BY <1>3 DEF RefreshPropose
    <2> DEFINE C == Content(refresh.l.file)
    <2>2. refresh' = [refresh EXCEPT !.at = "proposed", !.new = new, !.content = C] BY <2>1
    <2>3. C = Content(refresh.l.file) OBVIOUS
    <2> HIDE DEF C
    <2>4. /\ DOMAIN refresh' = DOMAIN refresh /\ refresh'.at = "proposed"
          /\ refresh'.slug = refresh.slug /\ refresh'.l = refresh.l /\ refresh'.old = refresh.old
          /\ refresh'.revision = refresh.revision /\ refresh'.new = new
          /\ refresh'.content = C /\ refresh'.changes = refresh.changes
      BY <1>2, <2>2, RefreshSets
    <2> QED BY <1>1, <2>1, <2>3, <2>4 DEF Kept
  <1> QED BY <1>3

LEMMA CheckIs ==
  ASSUME TypeOK, RefreshCheck
  PROVE  \/ refresh' = NoRefresh
         \/ /\ refresh.at = "proposed" /\ refresh'.at = "checked" /\ Kept(refresh, refresh')
            /\ refresh'.revision = refresh.revision /\ refresh'.new = refresh.new
            /\ refresh'.content = refresh.content
            /\ \E l \in Current : Revision(l) = refresh.revision
  <1>1. refresh.at = "proposed" BY DEF RefreshCheck
  <1>2. DOMAIN refresh = {"at", "slug", "l", "old", "revision", "new", "content", "changes"}
    BY <1>1, UnderWay, RefreshFields
  <1>3. CASE refresh' # NoRefresh
    <2>1. /\ refresh' = [refresh EXCEPT !.at = "checked"]
          /\ \E l \in Current : Revision(l) = refresh.revision
      BY <1>3 DEF RefreshCheck
    <2>2. /\ DOMAIN refresh' = DOMAIN refresh /\ refresh'.at = "checked"
          /\ refresh'.slug = refresh.slug /\ refresh'.l = refresh.l /\ refresh'.old = refresh.old
          /\ refresh'.revision = refresh.revision /\ refresh'.new = refresh.new
          /\ refresh'.content = refresh.content /\ refresh'.changes = refresh.changes
      BY <1>2, <2>1, RefreshSets
    <2> QED BY <1>1, <2>1, <2>2 DEF Kept
  <1> QED BY <1>3

LEMMA RefreshReadsTyped ==
  ASSUME TypeOK, RefreshStart \/ RefreshRevise \/ RefreshPropose \/ RefreshCheck
  PROVE  TypeOK'
  <1>1. UNCHANGED <<files, op, seen, history>>
    BY DEF RefreshStart, RefreshRevise, RefreshPropose, RefreshCheck
  <1>2. FilesOK' /\ op' \in Op \cup {Idle} /\ SeenOK' /\ CountersOK'
    BY <1>1, TypeParts, SameCounters DEF files, FilesOK, SeenOK
  <1>3. ASSUME Kept(refresh, refresh'), refresh'.new \in Show,
               refresh'.at \in {"located", "asking", "proposed", "checked"},
               refresh.at \in {"located", "asking", "proposed", "checked"}
        PROVE  RefreshOK(refresh')
    BY <1>3, UnderWay, RefreshFields DEF RefreshOK, Kept
  <1>4. ASSUME refresh.at \in {"located", "asking", "proposed", "checked"}
        PROVE  refresh.old \in Show /\ refresh.new \in Show
    BY <1>4, UnderWay, RefreshFields
  <1>5. RefreshOK(refresh')
    <2>1. CASE RefreshStart BY <2>1, StartIs DEF RefreshOK
    <2>2. CASE RefreshRevise
      <3>1. CASE refresh' = NoRefresh BY <3>1 DEF RefreshOK
      <3>2. CASE refresh' # NoRefresh
        <4>1. /\ refresh.at = "located" /\ refresh'.at = "asking" /\ Kept(refresh, refresh')
              /\ refresh'.new = refresh.new
          BY <2>2, <3>2, ReviseIs
        <4> QED BY <1>3, <1>4, <4>1
      <3> QED BY <3>1, <3>2
    <2>3. CASE RefreshPropose
      <3>1. CASE refresh' = NoRefresh BY <3>1 DEF RefreshOK
      <3>2. CASE refresh' # NoRefresh
        <4>1. /\ refresh.at = "asking" /\ refresh'.at = "proposed" /\ Kept(refresh, refresh')
              /\ refresh'.new \in Merged(refresh.old)
          BY <2>3, <3>2, ProposeIs
        <4>2. refresh'.new \in Show BY <1>4, <4>1, MergedTyped
        <4> QED BY <1>3, <4>1, <4>2
      <3> QED BY <3>1, <3>2
    <2>4. CASE RefreshCheck
      <3>1. CASE refresh' = NoRefresh BY <3>1 DEF RefreshOK
      <3>2. CASE refresh' # NoRefresh
        <4>1. /\ refresh.at = "proposed" /\ refresh'.at = "checked" /\ Kept(refresh, refresh')
              /\ refresh'.new = refresh.new
          BY <2>4, <3>2, CheckIs
        <4> QED BY <1>3, <1>4, <4>1
      <3> QED BY <3>1, <3>2
    <2> QED BY <2>1, <2>2, <2>3, <2>4
  <1> QED BY <1>2, <1>5, TypeParts

LEMMA ReplacedAt ==
  ASSUME NEW S, NEW ss \in Seq(S), NEW i \in 1..Len(ss), NEW e \in S
  PROVE  /\ [ss EXCEPT ![i] = e] \in Seq(S) /\ Len([ss EXCEPT ![i] = e]) = Len(ss)
         /\ \A j \in 1..Len(ss) : [ss EXCEPT ![i] = e][j] = IF j = i THEN e ELSE ss[j]
  OBVIOUS

LEMMA ApplyTyped ==
  ASSUME TypeOK, RefreshApply
  PROVE  TypeOK'
  <1>1. /\ refresh.at = "checked" /\ refresh' = NoRefresh /\ UNCHANGED <<op, seen, history>>
    BY DEF RefreshApply
  <1>2. refresh.l \in Loc /\ refresh.new \in Show
    <2>1. refresh # NoRefresh BY <1>1 DEF NoRefresh
    <2> QED BY <2>1, TypeParts DEF RefreshOK
  <1>3. FilesOK'
    <2>1. CASE Swappable
      <3> DEFINE f == refresh.l.file
                 ss == [Raw("dropout", f) EXCEPT ![refresh.l.index] = refresh.new]
      <3>1. "dropout" \in Platforms /\ f \in Stems \cup {Inline} BY <1>2 DEF Platforms, Loc
      <3>2. Raw("dropout", f) \in Seq(Show) BY <3>1, RawTyped
      <3>a. refresh.l.index \in 1..Len(Raw("dropout", f))
        BY <1>2, <2>1, <3>1, RereadsTyped DEF Swappable, Rereads
      <3>3. ss \in Seq(Show) BY <1>2, <3>2, <3>a, ReplacedAt
      <3>4. WriteFile("dropout", f, ss) BY <2>1 DEF RefreshApply
      <3>5. FilesOK BY TypeParts
      <3> HIDE DEF f, ss
      <3> QED BY <3>1, <3>3, <3>4, <3>5, WriteFileTyped
    <2>2. CASE ~Swappable BY <2>2, TypeParts DEF RefreshApply, files, FilesOK
    <2> QED BY <2>1, <2>2
  <1>4. op' \in Op \cup {Idle} /\ RefreshOK(refresh') /\ SeenOK' /\ CountersOK'
    BY <1>1, TypeParts, SameCounters DEF RefreshOK, SeenOK
  <1> QED BY <1>3, <1>4, TypeParts

LEMMA GetTyped ==
  ASSUME TypeOK, Get
  PROVE  TypeOK'
  <1>1. PICK p \in Platforms :
          \E l \in Reached(p) : seen' = [slug |-> Slugs(p)[l], p |-> p, show |-> ShowAt(p, l)]
    BY DEF Get
  <1>2. PICK l \in Reached(p) : seen' = [slug |-> Slugs(p)[l], p |-> p, show |-> ShowAt(p, l)]
    BY <1>1
  <1>3. ShowAt(p, l) \in Show BY ReachedListed, ListedIs
  <1>4. SeenOK' BY <1>2, <1>3 DEF SeenOK
  <1>5. UNCHANGED <<files, op, refresh, history>> BY DEF Get
  <1> QED BY <1>4, <1>5, TypeParts, SameCounters DEF files, FilesOK

LEMMA CrashTyped ==
  ASSUME TypeOK, OpInv, Crash
  PROVE  TypeOK'
  <1>1. /\ faults < MaxFaults /\ faults' = faults + 1
        /\ op' = Idle /\ refresh' = NoRefresh
        /\ odd' = odd \/ (op.at \in {"append", "unlist"} /\ odd' = odd \cup {op.l.file})
        /\ UNCHANGED <<files, seen, meddled, edits, hands>>
    BY DEF Crash
  <1>2. CountersOK'
    <2>1. MaxFaults \in Nat BY FilesAssumption
    <2>2. /\ meddled \in BOOLEAN /\ odd \subseteq Stems
          /\ edits \in 0..MaxEdits /\ hands \in 0..MaxHands /\ faults \in 0..MaxFaults
      BY TypeParts DEF CountersOK
    <2>3. odd' \subseteq Stems BY <1>1, <2>2 DEF OpInv
    <2>4. faults' \in 0..MaxFaults BY <1>1, <2>1, <2>2
    <2> QED BY <1>1, <2>2, <2>3, <2>4 DEF CountersOK
  <1>3. FilesOK' /\ op' \in Op \cup {Idle} /\ RefreshOK(refresh') /\ SeenOK'
    BY <1>1, TypeParts DEF files, FilesOK, RefreshOK, SeenOK
  <1> QED BY <1>2, <1>3, TypeParts

LEMMA StutterTyped ==
  ASSUME TypeOK, UNCHANGED vars
  PROVE  TypeOK'
  BY TypeParts, SameCounters DEF vars, files, FilesOK, SeenOK, history

LEMMA TypeStep ==
  ASSUME TypeOK, OpInv, [Next]_vars
  PROVE  TypeOK'
  <1>1. ASSUME AddSource \/ DeleteSource \/ PutSeries \/ PutSeriesYaml \/ DeleteSeries
        PROVE  TypeOK'
    BY <1>1, RequestBegins, BeginTyped
  <1> QED BY <1>1, SaveTyped, DropTyped, UnlistTyped, AppendTyped, CreateTyped,
             PutPlatformTyped, PutTextTyped, HandEditTyped, RefreshReadsTyped, ApplyTyped,
             GetTyped, CrashTyped, StutterTyped DEF Next

-----------------------------------------------------------------------------
(***************************************************************************)
(* The imports and the child files.                                        *)
(***************************************************************************)
(* A write of shows, of a setting or of nothing leaves the imports alone.  *)
ImportsKept == \A q \in Platforms : root'[q].imports = root[q].imports

LEMMA KeptImporters ==
  ASSUME ImportsKept
  PROVE  /\ \A q \in Platforms : Imports(q)' = Imports(q)
         /\ \A f : Importers(f)' = Importers(f)
  <1>1. \A q \in Platforms : Imports(q)' = Imports(q) BY DEF ImportsKept, Imports
  <1> QED BY <1>1 DEF Importers

(* Every child file that is there stays, and no other comes.               *)
ChildrenKept == \A f \in Stems : child'[f] = <<>> <=> child[f] = <<>>

LEMMA WriteKeeps ==
  ASSUME TypeOK, NEW p \in Platforms, NEW f \in Stems \cup {Inline}, NEW ss \in Seq(Show),
         WriteFile(p, f, ss)
  PROVE  /\ ImportsKept
         /\ \A g \in Stems : g # f => child'[g] = child[g]
         /\ f # Inline => child'[f] = ss
         /\ Len(ss) = Len(Raw(p, f)) => ChildrenKept
  <1>0. root \in [Platforms -> Root] /\ child \in [Stems -> Seq(Show)] BY DEF TypeOK
  <1>1. CASE f = Inline
    <2>1. root' = [root EXCEPT ![p].inline = ss] /\ child' = child BY <1>1 DEF WriteFile
    <2>2. root[p] \in Root BY <1>0
    <2>3. [root[p] EXCEPT !.inline = ss].imports = root[p].imports BY <2>2 DEF Root
    <2>4. root' = [root EXCEPT ![p] = [root[p] EXCEPT !.inline = ss]] BY <2>1
    <2>5. ImportsKept BY <1>0, <2>3, <2>4 DEF ImportsKept
    <2> QED BY <1>1, <2>1, <2>5 DEF ChildrenKept
  <1>2. CASE f # Inline
    <2>1. child' = [child EXCEPT ![f] = ss] /\ root' = root /\ f \in Stems
      BY <1>2 DEF WriteFile
    <2>2. child'[f] = ss /\ \A g \in Stems : g # f => child'[g] = child[g] BY <1>0, <2>1
    <2>3. ASSUME Len(ss) = Len(Raw(p, f)) PROVE ChildrenKept
      <3>1. Raw(p, f) = child[f] /\ child[f] \in Seq(Show) BY <1>0, <1>2, <2>1 DEF Raw
      <3>2. ss = <<>> <=> child[f] = <<>> BY <2>3, <3>1
      <3> QED BY <2>2, <3>2 DEF ChildrenKept
    <2> QED BY <2>1, <2>2, <2>3 DEF ImportsKept
  <1> QED BY <1>1, <1>2

(* What keeps the imports and the child files keeps every file in step.    *)
LEMMA StepsKept ==
  ASSUME NEW f \in Stems, ImportsKept, child'[f] = <<>> <=> child[f] = <<>>
  PROVE  /\ InStep(f)' <=> InStep(f)
         /\ op' = op => (StepInv(f)' <=> StepInv(f))
  <1>1. Importers(f)' = Importers(f) BY KeptImporters
  <1>2. InStep(f)' <=> InStep(f) BY <1>1 DEF InStep
  <1> QED BY <1>1, <1>2 DEF StepInv, Pending

LEMMA NotPending ==
  ASSUME op.at \notin {"append", "unlist"}
  PROVE  \A f : StepInv(f) <=> InStep(f)
  BY DEF StepInv, Pending

(* A step of a request that is neither creating nor deleting a file, or of *)
(* a refresh, that leaves the imports and the child files as they are.     *)
LEMMA AgreeKept ==
  ASSUME AgreeInv, ImportsKept, ChildrenKept, odd' = odd,
         op' = op \/ (op.at \notin {"append", "unlist"} /\ op'.at \notin {"append", "unlist"})
  PROVE  AgreeInv'
  <1>1. SUFFICES ASSUME NEW f \in Stems \ odd PROVE StepInv(f)' BY DEF AgreeInv
  <1>2. StepInv(f) BY DEF AgreeInv
  <1>3. InStep(f)' <=> InStep(f) BY StepsKept DEF ChildrenKept
  <1>4. CASE op' = op BY <1>2, <1>4, StepsKept DEF ChildrenKept
  <1>5. CASE op.at \notin {"append", "unlist"} /\ op'.at \notin {"append", "unlist"}
    <2>1. InStep(f) BY <1>2, <1>5, NotPending
    <2> QED BY <1>3, <1>5, <2>1 DEF StepInv, Pending
  <1> QED BY <1>4, <1>5

LEMMA FilesKept ==
  ASSUME UNCHANGED files
  PROVE  ImportsKept /\ ChildrenKept
  BY DEF files, ImportsKept, ChildrenKept

(* Raw text leaves out of step, or in step, what it does not list anew.    *)
LEMMA TextKeeps ==
  ASSUME TypeOK, TextWritten
  PROVE  /\ odd \subseteq odd'
         /\ \A f \in Stems \ odd' : Importers(f)' = Importers(f) /\ child'[f] = child[f]
  <1>0. root \in [Platforms -> Root] /\ child \in [Stems -> Seq(Show)] BY DEF TypeOK
  <1>1. PICK p \in Platforms :
          \/ \E text \in RootTexts(p) : RootText(p, text)
          \/ \E f \in Imports(p) : \E ss \in Rewritten(p, child[f]) : ImportText(f, ss)
    BY DEF TextWritten
  <1>2. CASE \E text \in RootTexts(p) : RootText(p, text)
    <2>1. PICK text \in RootTexts(p) : RootText(p, text) BY <1>2
    <2>2. /\ root' = [root EXCEPT ![p] = text] /\ odd' = odd \cup Relisted(p, text)
          /\ child' = child
      BY <2>1 DEF RootText
    <2>3. root'[p] = text /\ \A q \in Platforms : q # p => root'[q] = root[q] BY <1>0, <2>2
    <2>4. \A f \in Stems \ odd' : \A q \in Platforms : f \in Imports(q)' <=> f \in Imports(q)
      <3>1. TAKE f \in Stems \ odd'
      <3>2. f \in Imports(p) <=> \E i \in 1..Len(text.imports) : text.imports[i] = f
        BY <2>2 DEF Relisted
      <3>3. f \in Imports(p)' <=> \E i \in 1..Len(text.imports) : text.imports[i] = f
        BY <2>3 DEF Imports
      <3>4. \A q \in Platforms : q # p => (f \in Imports(q)' <=> f \in Imports(q))
        BY <2>3 DEF Imports
      <3> QED BY <3>2, <3>3, <3>4
    <2>5. \A f \in Stems \ odd' : Importers(f)' = Importers(f) BY <2>4 DEF Importers
    <2> QED BY <2>2, <2>5
  <1>3. CASE \E f \in Imports(p) : \E ss \in Rewritten(p, child[f]) : ImportText(f, ss)
    <2>1. PICK f \in Imports(p) : \E ss \in Rewritten(p, child[f]) : ImportText(f, ss) BY <1>3
    <2>2. child' = [child EXCEPT ![f] = child'[f]] /\ odd' = odd \cup {f} /\ root' = root
      <3>1. f \in Stems BY ImportsStems
      <3> QED BY <1>0, <2>1, <3>1 DEF ImportText
    <2>3. ImportsKept BY <2>2 DEF ImportsKept
    <2> QED BY <1>0, <2>2, <2>3, KeptImporters
  <1> QED BY <1>1, <1>2, <1>3

LEMMA TextAgrees ==
  ASSUME TypeOK, AgreeInv, TextWritten, op' = op
  PROVE  AgreeInv'
  <1>1. SUFFICES ASSUME NEW f \in Stems \ odd' PROVE StepInv(f)' BY DEF AgreeInv
  <1>2. StepInv(f) BY TextKeeps DEF AgreeInv
  <1>3. Importers(f)' = Importers(f) /\ child'[f] = child[f] BY TextKeeps
  <1>4. InStep(f)' <=> InStep(f) BY <1>3 DEF InStep
  <1> QED BY <1>2, <1>3, <1>4 DEF StepInv, Pending

(* A step that leaves the request alone, and one that ends it.             *)
LEMMA OpKept ==
  ASSUME TypeOK, OpInv, op' = op, odd \subseteq odd',
         \A f \in Stems \ odd' : Importers(f)' = Importers(f)
  PROVE  OpInv'
  <1>1. CASE op.at \in {"put", "drop"}
    <2>1. op.l.file \in Stems \cup {Inline} BY <1>1, BusyOp, OpFields
    <2> QED BY <1>1, <2>1 DEF OpInv
  <1>2. CASE op.at \notin {"put", "drop"} BY <1>2 DEF OpInv
  <1> QED BY <1>1, <1>2

LEMMA IdleAgrees ==
  ASSUME op' = Idle
  PROVE  /\ OpInv' /\ op'.at = "idle"
         /\ (\A f \in Stems \ odd' : InStep(f)') => AgreeInv'
  <1>1. op'.at = "idle" BY DEF Idle
  <1>2. OpInv' BY <1>1 DEF OpInv
  <1>3. \A f : InStep(f)' => StepInv(f)' BY <1>1 DEF StepInv, Pending
  <1> QED BY <1>1, <1>2, <1>3 DEF AgreeInv

LEMMA StillAgrees ==
  ASSUME TypeOK, OpInv, AgreeInv, UNCHANGED <<files, op, odd>>
  PROVE  OpInv' /\ AgreeInv'
  <1>1. ImportsKept /\ ChildrenKept /\ op' = op /\ odd' = odd BY FilesKept
  <1>2. \A f : Importers(f)' = Importers(f) BY <1>1, KeptImporters
  <1> QED BY <1>1, <1>2, AgreeKept, OpKept

LEMMA RequestAgrees ==
  ASSUME TypeOK, AgreeInv,
         AddSource \/ DeleteSource \/ PutSeries \/ PutSeriesYaml \/ DeleteSeries
  PROVE  OpInv' /\ AgreeInv'
  <1>1. PICK at \in {"put", "drop"}, p \in Platforms :
          \E l \in Listed(p), new \in Show, asked \in Seq(Source) :
            Begin(at, p, l, new, asked)
    BY RequestBegins
  <1>2. PICK l \in Listed(p), new \in Show, asked \in Seq(Source) : Begin(at, p, l, new, asked)
    BY <1>1
  <1>a. op = Idle BY RequestBegins DEF Accepted, Maintenance
  <1>3. /\ op.at = "idle" /\ op'.at = at /\ op'.p = p /\ op'.l = l /\ UNCHANGED <<files, odd>>
    BY <1>2, <1>a DEF Begin, Idle
  <1>4. ImportsKept /\ ChildrenKept BY <1>3, FilesKept
  <1>5. AgreeInv' BY <1>3, <1>4, AgreeKept
  <1>6. OpInv'
    <2>1. l.file \in Imports(p) \cup {Inline} BY ListedIs
    <2>2. Imports(p)' = Imports(p) BY <1>4, KeptImporters
    <2>3. l.file # Inline => p \in Importers(l.file)' BY <2>1, <2>2 DEF Importers
    <2> QED BY <1>3, <2>3 DEF OpInv
  <1> QED BY <1>5, <1>6

LEMMA SaveAgrees ==
  ASSUME TypeOK, AgreeInv, Save
  PROVE  OpInv' /\ AgreeInv'
  <1>1. op.at = "put" /\ op' = Idle /\ odd' = odd BY DEF Save, history
  <1>2. op.p \in Platforms /\ op.l.file \in Stems \cup {Inline} /\ op.new \in Show
    BY <1>1, BusyOp, OpFields
  <1>3. ImportsKept /\ ChildrenKept
    <2>1. CASE Rereads(op.p, op.l)
      <3> DEFINE ss == WithShow(op.p, Raw(op.p, op.l.file), op.l.index, op.new)
      <3>1. ss \in Seq(Show) /\ Len(ss) = Len(Raw(op.p, op.l.file))
        BY <1>2, RawTyped, WithShowTyped
      <3>2. WriteFile(op.p, op.l.file, ss) BY <2>1 DEF Save
      <3> HIDE DEF ss
      <3> QED BY <1>2, <3>1, <3>2, WriteKeeps
    <2>2. CASE ~Rereads(op.p, op.l) BY <2>2, FilesKept DEF Save
    <2> QED BY <2>1, <2>2
  <1>4. op'.at = "idle" BY <1>1, IdleAgrees
  <1>5. AgreeInv' BY <1>1, <1>3, <1>4, AgreeKept
  <1> QED BY <1>1, <1>5, IdleAgrees

LEMMA ApplyKeeps ==
  ASSUME TypeOK, RefreshApply
  PROVE  ImportsKept /\ ChildrenKept
  <1>1. refresh.at = "checked" BY DEF RefreshApply
  <1>2. refresh.l \in Loc /\ refresh.new \in Show /\ refresh.l.file \in Stems \cup {Inline}
    BY <1>1, UnderWay, RefreshFields
  <1>3. "dropout" \in Platforms BY DEF Platforms
  <1>4. CASE Swappable
    <2> DEFINE raw == Raw("dropout", refresh.l.file)
               ss == [raw EXCEPT ![refresh.l.index] = refresh.new]
    <2>1. raw \in Seq(Show) BY <1>2, <1>3, RawTyped
    <2>2. refresh.l.index \in 1..Len(raw)
      BY <1>2, <1>3, <1>4, RereadsTyped DEF Swappable, Rereads
    <2>3. WriteFile("dropout", refresh.l.file, ss) BY <1>4 DEF RefreshApply
    <2>4. ss \in Seq(Show) /\ Len(ss) = Len(raw)
      <3> HIDE DEF raw
      <3> QED BY <1>2, <2>1, <2>2, ReplacedAt
    <2> HIDE DEF ss
    <2> QED BY <1>2, <1>3, <2>3, <2>4, WriteKeeps
  <1>5. CASE ~Swappable BY <1>5, FilesKept DEF RefreshApply
  <1> QED BY <1>4, <1>5

LEMMA ApplyAgrees ==
  ASSUME TypeOK, OpInv, AgreeInv, RefreshApply
  PROVE  OpInv' /\ AgreeInv'
  <1>1. op' = op /\ odd' = odd BY DEF RefreshApply, history
  <1>2. ImportsKept /\ ChildrenKept BY ApplyKeeps
  <1>3. \A f : Importers(f)' = Importers(f) BY <1>2, KeptImporters
  <1> QED BY <1>1, <1>2, <1>3, AgreeKept, OpKept

(* A deletion that leaves its child file empty has found it imported.      *)
LEMMA DropAgrees ==
  ASSUME TypeOK, OpInv, AgreeInv, Drop
  PROVE  OpInv' /\ AgreeInv'
  <1>1. op.at = "drop" /\ odd' = odd BY DEF Drop, history
  <1>2. /\ op # Idle /\ op.p \in Platforms /\ op.l.file \in Stems \cup {Inline} /\ op \in Op
        /\ op.l.index \in Nat \ {0}
    BY <1>1, BusyOp, OpFields
  <1>3. CASE ~Rereads(op.p, op.l)
    <2>1. op' = Idle /\ UNCHANGED files BY <1>3 DEF Drop
    <2>2. AgreeInv' BY <1>1, <2>1, FilesKept, IdleAgrees, AgreeKept
    <2> QED BY <2>1, <2>2, IdleAgrees
  <1>4. CASE Rereads(op.p, op.l)
    <2>a. PICK p \in Platforms, F \in Stems \cup {Inline}, ss \in Seq(Show) :
            p = op.p /\ F = op.l.file /\ ss = Raw(op.p, op.l.file)
      BY <1>2, RawTyped
    <2> DEFINE rs == [j \in 1..Len(ss) |-> ReadAs(p, ss[j])]
    <2>1. ss # <<>> /\ op.l.index \in 1..Len(ss)
      BY <1>2, <1>4, <2>a, RereadsTyped DEF Rereads, Readable
    <2>2. rs \in Seq(Show) /\ Len(rs) = Len(ss)
      <3>1. \A j \in 1..Len(ss) : ReadAs(p, ss[j]) \in Show BY ReadAsTyped
      <3>2. Len(ss) \in Nat OBVIOUS
      <3> QED BY <3>1, <3>2
    <2>3. PICK rest \in Seq(Show) :
            /\ WriteFile(p, F, rest)
            /\ op' = IF F = Inline \/ rest # <<>> THEN Idle ELSE [op EXCEPT !.at = "unlist"]
      <3>1. /\ WriteFile(p, F, Without(rs, op.l.index))
            /\ op' = IF F = Inline \/ Without(rs, op.l.index) # <<>> THEN Idle
                     ELSE [op EXCEPT !.at = "unlist"]
        BY <1>4, <2>a DEF Drop
      <3> HIDE DEF rs
      <3>2. Without(rs, op.l.index) \in Seq(Show) BY <2>1, <2>2, WithoutTyped
      <3> QED BY <3>1, <3>2
    <2>6. /\ ImportsKept /\ \A g \in Stems : g # F => child'[g] = child[g]
          /\ F # Inline => child'[F] = rest
      BY <2>3, WriteKeeps
    <2>7. F # Inline => child[F] # <<>> BY <2>1, <2>a DEF Raw
    <2>8. \A f \in Stems \ odd : InStep(f) BY <1>1, NotPending DEF AgreeInv
    <2>9. \A f \in Stems \ odd : f # F => InStep(f)' BY <2>6, <2>8, StepsKept
    <2>10. Inline \notin Stems BY FilesAssumption
    <2>11. CASE F = Inline \/ rest # <<>>
      <3>1. \A f \in Stems \ odd : InStep(f)' BY <2>6, <2>7, <2>8, <2>9, <2>10, <2>11, StepsKept
      <3>2. op' = Idle BY <2>3, <2>11
      <3> QED BY <1>1, <3>1, <3>2, IdleAgrees
    <2>12. CASE F # Inline /\ rest = <<>>
      <3>1. op' = [op EXCEPT !.at = "unlist"] BY <2>3, <2>12
      <3>2. op'.at = "unlist" /\ op'.p = p /\ op'.l.file = F BY <1>2, <2>a, <3>1 DEF Op
      <3>3. OpInv' BY <2>12, <3>2 DEF OpInv
      <3>4. ASSUME NEW f \in Stems \ odd PROVE StepInv(f)'
        <4>1. CASE f # F BY <2>9, <3>2, <4>1 DEF StepInv, Pending
        <4>2. CASE f = F
          <5>1. PICK q \in Platforms : Importers(f) = {q} BY <2>7, <2>8, <2>12, <4>2 DEF InStep
          <5>2. p \in Importers(f) BY <1>1, <2>a, <2>12, <4>2 DEF OpInv
          <5>3. Importers(f)' = {p} BY <2>6, <5>1, <5>2, KeptImporters
          <5>4. child'[f] = <<>> BY <2>6, <2>12, <4>2
          <5> QED BY <3>2, <4>2, <5>3, <5>4 DEF StepInv, Pending
        <4> QED BY <4>1, <4>2
      <3> QED BY <1>1, <3>3, <3>4 DEF AgreeInv
    <2> QED BY <2>11, <2>12
  <1> QED BY <1>3, <1>4

(* The imports of one platform are the elements of its list.               *)
LEMMA ImportsBy ==
  ASSUME NEW p \in Platforms
  PROVE  /\ Imports(p) = Elements(root[p].imports)
         /\ Imports(p)' = Elements(root'[p].imports)
         /\ root'[p] = root[p] => Imports(p)' = Imports(p)
  BY DEF Imports, Elements

LEMMA ImportersBy ==
  ASSUME NEW p \in Platforms, NEW f, \A q \in Platforms : q # p => Imports(q)' = Imports(q)
  PROVE  /\ f \notin Imports(p)' => Importers(f)' = Importers(f) \ {p}
         /\ f \in Imports(p)' => Importers(f)' = Importers(f) \cup {p}
  BY DEF Importers

(* Taking the import away leaves the other files' imports as they were.    *)
LEMMA UnlistAgrees ==
  ASSUME TypeOK, OpInv, AgreeInv, Unlist
  PROVE  OpInv' /\ AgreeInv'
  <1>1. op.at = "unlist" /\ op' = Idle /\ odd' = odd /\ child' = child
    BY DEF Unlist, history
  <1>2. PICK p \in Platforms, F \in Stems : p = op.p /\ F = op.l.file
    BY <1>1, BusyOp, OpFields DEF OpInv
  <1>3. root[p].imports \in Seq(Stems) /\ root[p] \in Root BY ImportsStems
  <1>b. PICK ds : ds = Delisted(root[p].imports, F) OBVIOUS
  <1>4. Elements(ds) = Elements(root[p].imports) \ {F} BY <1>3, <1>b, DelistedIs
  <1>5. /\ root'[p].imports = ds
        /\ \A q \in Platforms : q # p => root'[q] = root[q]
    <2>1. root' = [root EXCEPT ![p] = [root[p] EXCEPT !.imports = ds]]
      BY <1>2, <1>b DEF Unlist
    <2>2. [root[p] EXCEPT !.imports = ds].imports = ds BY <1>3 DEF Root
    <2> QED BY <2>1, <2>2 DEF TypeOK
  <1>6. /\ Imports(p)' = Imports(p) \ {F}
        /\ \A q \in Platforms : q # p => Imports(q)' = Imports(q)
    BY <1>4, <1>5, ImportsBy
  <1>7. ASSUME NEW f \in Stems \ odd PROVE InStep(f)'
    <2>1. StepInv(f) BY DEF AgreeInv
    <2>2. CASE f = F
      <3>1. child[f] = <<>> /\ Importers(f) = {p} BY <1>1, <1>2, <2>1, <2>2 DEF StepInv, Pending
      <3>2. Importers(f)' = {} BY <1>6, <2>2, <3>1, ImportersBy
      <3> QED BY <1>1, <3>1, <3>2 DEF InStep
    <2>3. CASE f # F
      <3>1. InStep(f) BY <1>1, <1>2, <2>1, <2>3 DEF StepInv, Pending
      <3>2. \A q \in Platforms : f \in Imports(q)' <=> f \in Imports(q) BY <1>6, <2>3
      <3>3. Importers(f)' = Importers(f) BY <3>2 DEF Importers
      <3> QED BY <1>1, <3>1, <3>3 DEF InStep
    <2> QED BY <2>2, <2>3
  <1> QED BY <1>1, <1>7, IdleAgrees

(* A creation writes the file where there was none, and none imported it.  *)
LEMMA CreateAgrees ==
  ASSUME TypeOK, AgreeInv, CreateSeries
  PROVE  OpInv' /\ AgreeInv'
  <1>1. PICK p \in Platforms, n \in Names, g \in Paths : Created(p, n, g) BY CreateSeriesIs
  <1>2. op.at = "idle" /\ odd' = odd /\ root' = root
    BY CreateSeriesIs DEF Accepted, Maintenance, Idle
  <1> DEFINE F == SlugOf[n]
  <1>3. F \in Stems BY NewShowTyped
  <1>4. /\ child[F] = <<>> /\ child' = [child EXCEPT ![F] = <<NewShow(p, n, g)>>]
        /\ op'.at = "append" /\ op'.p = p /\ op'.l.file = F
    BY <1>1 DEF Created
  <1> HIDE DEF F
  <1>5. child'[F] # <<>> /\ \A f \in Stems : f # F => child'[f] = child[f]
    BY <1>3, <1>4 DEF TypeOK
  <1>6. ImportsKept BY <1>2 DEF ImportsKept
  <1>7. \A f \in Stems \ odd : InStep(f) BY <1>2, NotPending DEF AgreeInv
  <1>8. OpInv' BY <1>3, <1>4 DEF OpInv
  <1>9. ASSUME NEW f \in Stems \ odd PROVE StepInv(f)'
    <2>1. CASE f # F
      <3>1. InStep(f)' BY <1>5, <1>6, <1>7, <2>1, StepsKept
      <3> QED BY <1>4, <2>1, <3>1 DEF StepInv, Pending
    <2>2. CASE f = F
      <3>1. Importers(f) = {} BY <1>4, <1>7, <2>2 DEF InStep
      <3>2. Importers(f)' = {} BY <1>6, <3>1, KeptImporters
      <3> QED BY <1>4, <1>5, <2>2, <3>2 DEF StepInv, Pending
    <2> QED BY <2>1, <2>2
  <1> QED BY <1>2, <1>8, <1>9 DEF AgreeInv

LEMMA AppendedIs ==
  ASSUME NEW S, NEW is \in Seq(S), NEW f \in S
  PROVE  Elements(Append(is, f)) = Elements(is) \cup {f}
  <1>1. Append(is, f) \in Seq(S) OBVIOUS
  <1>a. PICK js \in Seq(S) : js = Append(is, f) BY <1>1
  <1>2. /\ Len(js) = Len(is) + 1 /\ js[Len(is) + 1] = f
        /\ Len(is) \in Nat /\ \A i \in 1..Len(is) : js[i] = is[i]
    BY <1>a
  <1>3. \A i \in 1..(Len(is) + 1) : i \in 1..Len(is) \/ i = Len(is) + 1 BY <1>2
  <1>4. Len(is) + 1 \in 1..(Len(is) + 1) /\ \A i \in 1..Len(is) : i \in 1..(Len(is) + 1)
    BY <1>2
  <1>5. \A g : g \in Elements(js) <=> g \in Elements(is) \/ g = f
    BY <1>2, <1>3, <1>4 DEF Elements
  <1>6. Elements(js) = Elements(is) \cup {f} BY <1>5
  <1> QED BY <1>a, <1>6

LEMMA AppendAgrees ==
  ASSUME TypeOK, OpInv, AgreeInv, AppendImport
  PROVE  OpInv' /\ AgreeInv'
  <1>1. op.at = "append" /\ op' = Idle /\ odd' = odd /\ child' = child
    BY DEF AppendImport, history
  <1>2. PICK p \in Platforms, F \in Stems : p = op.p /\ F = op.l.file
    BY <1>1, BusyOp, OpFields DEF OpInv
  <1>3. root[p].imports \in Seq(Stems) /\ root[p] \in Root BY ImportsStems
  <1>4. /\ \A q \in Platforms : q # p => Imports(q)' = Imports(q)
        /\ Imports(p)' = Imports(p) \cup {F}
    <2>1. CASE F \in Imports(p)
      <3>1. root' = root BY <1>2, <2>1 DEF AppendImport
      <3> QED BY <2>1, <3>1, ImportsBy
    <2>2. CASE F \notin Imports(p)
      <3>1. PICK js : js = Append(root[p].imports, F) OBVIOUS
      <3>2. Elements(js) = Elements(root[p].imports) \cup {F} BY <1>3, <3>1, AppendedIs
      <3>3. root' = [root EXCEPT ![p] = [root[p] EXCEPT !.imports = js]]
        BY <1>2, <2>2, <3>1 DEF AppendImport
      <3>4. [root[p] EXCEPT !.imports = js].imports = js BY <1>3 DEF Root
      <3>5. /\ root'[p].imports = js
            /\ \A q \in Platforms : q # p => root'[q] = root[q]
        BY <3>3, <3>4 DEF TypeOK
      <3> QED BY <3>2, <3>5, ImportsBy
    <2> QED BY <2>1, <2>2
  <1>5. ASSUME NEW f \in Stems \ odd PROVE InStep(f)'
    <2>1. StepInv(f) BY DEF AgreeInv
    <2>2. CASE f = F
      <3>1. child[f] # <<>> /\ Importers(f) = {} BY <1>1, <1>2, <2>1, <2>2 DEF StepInv, Pending
      <3>2. Importers(f)' = {p} BY <1>4, <2>2, <3>1, ImportersBy
      <3> QED BY <1>1, <3>1, <3>2 DEF InStep
    <2>3. CASE f # F
      <3>1. InStep(f) BY <1>1, <1>2, <2>1, <2>3 DEF StepInv, Pending
      <3>2. \A q \in Platforms : f \in Imports(q)' <=> f \in Imports(q) BY <1>4, <2>3
      <3>3. Importers(f)' = Importers(f) BY <3>2 DEF Importers
      <3> QED BY <1>1, <3>1, <3>3 DEF InStep
    <2> QED BY <2>2, <2>3
  <1> QED BY <1>1, <1>5, IdleAgrees

LEMMA PlatformKeeps ==
  ASSUME TypeOK, PutPlatform
  PROVE  ImportsKept /\ ChildrenKept
  <1>1. PICK p \in Platforms, d \in Dirs \cup {NoDir} :
          root' = IF d = NoDir THEN root ELSE [root EXCEPT ![p].library = d]
    BY DEF PutPlatform
  <1>2. root \in [Platforms -> Root] /\ root[p] \in Root BY DEF TypeOK
  <1>3. root' = root \/ root' = [root EXCEPT ![p] = [root[p] EXCEPT !.library = d]] BY <1>1
  <1>4. [root[p] EXCEPT !.library = d].imports = root[p].imports BY <1>2 DEF Root
  <1>5. child' = child BY DEF PutPlatform
  <1> QED BY <1>2, <1>3, <1>4, <1>5 DEF ImportsKept, ChildrenKept

LEMMA CrashAgrees ==
  ASSUME TypeOK, OpInv, AgreeInv, Crash
  PROVE  OpInv' /\ AgreeInv'
  <1>1. /\ op' = Idle /\ UNCHANGED files /\ odd \subseteq odd'
        /\ op.at \in {"append", "unlist"} => op.l.file \in odd'
    BY DEF Crash
  <1>2. ASSUME NEW f \in Stems \ odd' PROVE InStep(f)'
    <2>1. StepInv(f) BY <1>1 DEF AgreeInv
    <2>2. InStep(f) BY <1>1, <2>1 DEF StepInv, Pending
    <2> QED BY <1>1, <2>2, FilesKept, StepsKept DEF ChildrenKept
  <1> QED BY <1>1, <1>2, IdleAgrees

LEMMA AgreeStep ==
  ASSUME TypeOK, OpInv, AgreeInv, [Next]_vars
  PROVE  OpInv' /\ AgreeInv'
  <1>1. ASSUME AddSource \/ DeleteSource \/ PutSeries \/ PutSeriesYaml \/ DeleteSeries
        PROVE  OpInv' /\ AgreeInv'
    BY <1>1, RequestAgrees
  <1>2. ASSUME PutManifest \/ PutImport \/ HandEdit PROVE OpInv' /\ AgreeInv'
    <2>1. TextWritten BY <1>2, TextWrites
    <2>2. op' = op BY <1>2 DEF PutManifest, PutImport, HandEdit
    <2> QED BY <2>1, <2>2, TextAgrees, TextKeeps, OpKept
  <1>3. ASSUME PutPlatform PROVE OpInv' /\ AgreeInv'
    <2>1. ImportsKept /\ ChildrenKept BY <1>3, PlatformKeeps
    <2>2. op' = op /\ odd' = odd BY <1>3 DEF PutPlatform
    <2> QED BY <2>1, <2>2, KeptImporters, AgreeKept, OpKept
  <1>4. ASSUME Get \/ RefreshStart \/ RefreshRevise \/ RefreshPropose \/ RefreshCheck
               \/ UNCHANGED vars
        PROVE  OpInv' /\ AgreeInv'
    <2>1. UNCHANGED <<files, op, odd>>
      BY <1>4 DEF Get, RefreshStart, RefreshRevise, RefreshPropose, RefreshCheck, vars, files,
                  history
    <2> QED BY <2>1, StillAgrees
  <1> QED BY <1>1, <1>2, <1>3, <1>4, SaveAgrees, DropAgrees, UnlistAgrees, CreateAgrees,
             AppendAgrees, ApplyAgrees, CrashAgrees DEF Next

-----------------------------------------------------------------------------
(***************************************************************************)
(* Merged seasons.                                                         *)
(***************************************************************************)
Asked(ss, A) == [i \in 1..Len(ss) |->
  IF i \in A /\ ss[i].seasons = "none" THEN [ss[i] EXCEPT !.seasons = "all"] ELSE ss[i]]

LEMMA MergedBy ==
  ASSUME NEW s, NEW new
  PROVE  new \in Merged(s) <=> \E A \in SUBSET (1..Len(s.sources)) :
                                 new = [s EXCEPT !.sources = Asked(s.sources, A)]
  BY DEF Merged, Asked

LEMMA AskedIs ==
  ASSUME NEW ss \in Seq(Source), NEW A
  PROVE  /\ Asked(ss, A) \in Seq(Source) /\ Len(Asked(ss, A)) = Len(ss)
         /\ \A i \in 1..Len(ss) : Asked(ss, A)[i] =
              IF i \in A /\ ss[i].seasons = "none" THEN [ss[i] EXCEPT !.seasons = "all"] ELSE ss[i]
  <1>1. Len(ss) \in Nat /\ \A i \in 1..Len(ss) : ss[i] \in Source OBVIOUS
  <1>2. \A i \in 1..Len(ss) : [ss[i] EXCEPT !.seasons = "all"] \in Source BY <1>1 DEF Source
  <1> QED BY <1>1, <1>2 DEF Asked

(* Merging nothing is the show; merging twice is merging both; and a show  *)
(* without sources has no seasons to add.                                  *)
LEMMA MergedSelf ==
  ASSUME NEW s \in Show
  PROVE  s \in Merged(s)
  <1>1. s.sources \in Seq(Source) BY DEF Show
  <1>2. \A i \in 1..Len(s.sources) : Asked(s.sources, {})[i] = s.sources[i] BY <1>1, AskedIs
  <1>3. Asked(s.sources, {}) \in Seq(Source) /\ Len(Asked(s.sources, {})) = Len(s.sources)
    BY <1>1, AskedIs
  <1>4. PICK ts \in Seq(Source) : ts = Asked(s.sources, {}) BY <1>3
  <1>5. PICK ss \in Seq(Source) : ss = s.sources BY <1>1
  <1>6. Len(ts) = Len(ss) /\ \A i \in 1..Len(ss) : ts[i] = ss[i] BY <1>2, <1>3, <1>4, <1>5
  <1>7. ts = ss BY <1>6
  <1>8. s = [s EXCEPT !.sources = ts] BY <1>5, <1>7 DEF Show
  <1>9. {} \in SUBSET (1..Len(s.sources)) OBVIOUS
  <1> QED BY <1>4, <1>8, <1>9, MergedBy

LEMMA MergedTwice ==
  ASSUME NEW s \in Show, NEW a \in Merged(s), NEW b \in Merged(a)
  PROVE  b \in Merged(s)
  <1>1. PICK A \in SUBSET (1..Len(s.sources)) : a = [s EXCEPT !.sources = Asked(s.sources, A)]
    BY MergedBy
  <1>2. PICK B \in SUBSET (1..Len(a.sources)) : b = [a EXCEPT !.sources = Asked(a.sources, B)]
    BY MergedBy
  <1>3. PICK ss \in Seq(Source) : ss = s.sources BY DEF Show
  <1>4. PICK as \in Seq(Source) : as = Asked(ss, A) BY AskedIs
  <1>5. PICK bs \in Seq(Source) : bs = Asked(as, B) BY AskedIs
  <1>6. PICK cs \in Seq(Source) : cs = Asked(ss, A \cup B) BY AskedIs
  <1>7. a.sources = as /\ a \in Show BY <1>1, <1>3, <1>4, MergedTyped DEF Show
  <1>8. bs = cs
    <2>1. /\ Len(as) = Len(ss) /\ Len(bs) = Len(ss) /\ Len(cs) = Len(ss) /\ Len(ss) \in Nat
      BY <1>4, <1>5, <1>6, AskedIs
    <2>2. \A i \in 1..Len(ss) : bs[i] = cs[i]
      <3>1. TAKE i \in 1..Len(ss)
      <3>2. ss[i] \in Source OBVIOUS
      <3>3. as[i] = IF i \in A /\ ss[i].seasons = "none" THEN [ss[i] EXCEPT !.seasons = "all"]
                    ELSE ss[i]
        BY <1>4, AskedIs
      <3>a. i \in 1..Len(as) BY <2>1
      <3>4. bs[i] = IF i \in B /\ as[i].seasons = "none" THEN [as[i] EXCEPT !.seasons = "all"]
                    ELSE as[i]
        <4>1. Asked(as, B)[i] = IF i \in B /\ as[i].seasons = "none"
                                THEN [as[i] EXCEPT !.seasons = "all"] ELSE as[i]
          BY <3>a, AskedIs
        <4> QED BY <1>5, <4>1
      <3>5. cs[i] = IF i \in A \cup B /\ ss[i].seasons = "none"
                    THEN [ss[i] EXCEPT !.seasons = "all"] ELSE ss[i]
        BY <1>6, AskedIs
      <3>6. [ss[i] EXCEPT !.seasons = "all"].seasons = "all" BY <3>2 DEF Source
      <3> QED BY <3>3, <3>4, <3>5, <3>6
    <2> QED BY <2>1, <2>2
  <1>9. b = [s EXCEPT !.sources = cs]
    <2>1. a = [s EXCEPT !.sources = as] BY <1>1, <1>3, <1>4
    <2>2. b = [a EXCEPT !.sources = bs] BY <1>2, <1>5, <1>7
    <2> QED BY <1>8, <2>1, <2>2 DEF Show
  <1>10. A \cup B \in SUBSET (1..Len(s.sources)) BY <1>1, <1>2, <1>3, <1>4, <1>7, AskedIs
  <1> QED BY <1>3, <1>6, <1>9, <1>10, MergedBy

LEMMA MergedNothing ==
  ASSUME NEW s \in Show, s.sources = <<>>, NEW new \in Merged(s)
  PROVE  new = s
  <1>1. PICK A \in SUBSET (1..Len(s.sources)) : new = [s EXCEPT !.sources = Asked(s.sources, A)]
    BY MergedBy
  <1>2. <<>> \in Seq(Source) OBVIOUS
  <1>3. PICK as \in Seq(Source) : as = Asked(s.sources, A) BY <1>2, AskedIs
  <1>4. Len(as) = 0 BY <1>2, <1>3, AskedIs
  <1>5. as = <<>> BY <1>4
  <1>6. new = [s EXCEPT !.sources = s.sources] BY <1>1, <1>3, <1>5
  <1> QED BY <1>6 DEF Show

-----------------------------------------------------------------------------
(***************************************************************************)
(* A request has its show where it found it.                               *)
(***************************************************************************)
LEMMA StillThere ==
  ASSUME UNCHANGED files
  PROVE  /\ \A p, f : Raw(p, f)' = Raw(p, f)
         /\ \A p, l : ShowAt(p, l)' = ShowAt(p, l)
         /\ \A p, l : Rereads(p, l)' <=> Rereads(p, l)
         /\ \A f : Content(f)' = Content(f)
  <1>1. root' = root /\ child' = child BY DEF files
  <1>2. \A p, f : Raw(p, f)' = Raw(p, f) BY <1>1 DEF Raw
  <1>3. \A p, l : ShowAt(p, l)' = ShowAt(p, l) BY <1>2 DEF ShowAt
  <1>4. \A p, l : Rereads(p, l)' <=> Rereads(p, l) BY <1>2 DEF Rereads
  <1>5. \A f : Content(f)' = Content(f) BY <1>1 DEF Content
  <1> QED BY <1>2, <1>3, <1>4, <1>5

(* What is said of a refresh that keeps its show.                          *)
LEMMA HoldsKept ==
  ASSUME UNCHANGED files, refresh'.l = refresh.l, refresh'.old = refresh.old
  PROVE  Holds(refresh)' <=> Holds(refresh)
  BY StillThere DEF Holds

(* A show read again after the seasons found for it have been merged is    *)
(* the one the request wants, with no more than that.                      *)
LEMMA MergedShow ==
  ASSUME NEW s \in Show, NEW new \in Merged(ReadAs("dropout", s)), NEW p \in Platforms,
         new # ReadAs("dropout", s), Valid("dropout", new)
  PROVE  /\ Valid(p, new) /\ ReadAs(p, new) \in Merged(ReadAs(p, s))
  <1>1. "dropout" \in Platforms BY DEF Platforms
  <1>2. ReadAs("dropout", s) \in Show BY <1>1, ReadAsTyped
  <1>3. s.kind = "dropout"
    <2>1. SUFFICES ASSUME s.kind # "dropout" PROVE FALSE OBVIOUS
    <2>2. ReadAs("dropout", s).sources = <<>> BY <1>1, <2>1, ReadAsTyped
    <2> QED BY <1>2, <2>2, MergedNothing
  <1>4. ReadAs("dropout", s) = s BY <1>1, <1>3, ReadAsTyped
  <1>5. new \in Show /\ new.kind = "dropout" /\ new.name = s.name /\ new.path = s.path
    BY <1>3, <1>4, MergedTyped
  <1>6. CASE p = "dropout"
    <2>1. ReadAs(p, new) = new /\ ReadAs(p, s) = s BY <1>3, <1>5, <1>6, ReadAsTyped
    <2> QED BY <1>4, <1>6, <2>1
  <1>7. CASE p = "youtube"
    <2>1. /\ new = [kind |-> new.kind, name |-> s.name, path |-> s.path, sources |-> new.sources]
          /\ s = [kind |-> s.kind, name |-> s.name, path |-> s.path, sources |-> s.sources]
      BY <1>5 DEF Show
    <2>2. /\ ReadAs(p, new) = [kind |-> p, name |-> s.name, path |-> s.path, sources |-> <<>>]
          /\ ReadAs(p, s) = [kind |-> p, name |-> s.name, path |-> s.path, sources |-> <<>>]
      BY <1>3, <1>5, <1>7, <2>1 DEF ReadAs
    <2>3. ReadAs(p, s) \in Show BY ReadAsTyped
    <2>4. ReadAs(p, new) \in Merged(ReadAs(p, s)) BY <2>2, <2>3, MergedSelf
    <2>5. PlaylistsValid(ReadAs(p, new)) BY <2>2 DEF PlaylistsValid
    <2>6. new.name \notin Invalid BY DEF Valid
    <2> QED BY <1>7, <2>4, <2>5, <2>6 DEF Valid
  <1> QED BY <1>6, <1>7 DEF Platforms

(* Where a show is replaced by one that is as valid, a file stays readable *)
(* and every position has its show.                                        *)
LEMMA ReplacedReads ==
  ASSUME NEW p \in Platforms, NEW ss \in Seq(Show), NEW i \in 1..Len(ss), NEW new \in Show,
         Readable(p, ss), Valid(p, new)
  PROVE  Readable(p, [ss EXCEPT ![i] = new])
  <1>1. PICK ts \in Seq(Show) : ts = [ss EXCEPT ![i] = new] BY ReplacedAt
  <1>2. Len(ts) = Len(ss) /\ \A j \in 1..Len(ss) : ts[j] = IF j = i THEN new ELSE ss[j]
    BY <1>1, ReplacedAt
  <1>3. \A j \in 1..Len(ss) : Valid(p, ss[j]) BY DEF Readable
  <1>4. \A j \in 1..Len(ts) : Valid(p, ts[j]) BY <1>2, <1>3
  <1>5. ts # <<>>
    <2>1. Len(ts) # 0 BY <1>2
    <2> QED BY <2>1
  <1>6. Readable(p, ts) BY <1>4, <1>5 DEF Readable
  <1> QED BY <1>1, <1>6

(* The write of a refresh: what it leaves alone, and what it replaces.     *)
LEMMA ApplyWrites ==
  ASSUME TypeOK, RefreshApply, Swappable
  PROVE  \A p \in Platforms, f \in Stems \cup {Inline} :
           Raw(p, f)' = IF f = refresh.l.file /\ (f = Inline => p = "dropout")
                        THEN [Raw(p, f) EXCEPT ![refresh.l.index] = refresh.new] ELSE Raw(p, f)
  <1>1. refresh.at = "checked" BY DEF RefreshApply
  <1>a. PICK F \in Stems \cup {Inline} : F = refresh.l.file BY <1>1, UnderWay, RefreshFields
  <1>b. PICK ss : ss = [Raw("dropout", F) EXCEPT ![refresh.l.index] = refresh.new] OBVIOUS
  <1>2. F = refresh.l.file /\ ss = [Raw("dropout", F) EXCEPT ![refresh.l.index] = refresh.new]
    BY <1>a, <1>b
  <1>3. WriteFile("dropout", F, ss) BY <1>2 DEF RefreshApply
  <1>4. "dropout" \in Platforms BY DEF Platforms
  <1>5. root \in [Platforms -> Root] /\ child \in [Stems -> Seq(Show)] BY DEF TypeOK
  <1>6. CASE F = Inline
    <2>1. /\ root' = [root EXCEPT !["dropout"] = [root["dropout"] EXCEPT !.inline = ss]]
          /\ child' = child
      BY <1>3, <1>6 DEF WriteFile
    <2>2. [root["dropout"] EXCEPT !.inline = ss].inline = ss BY <1>4, <1>5 DEF Root
    <2>3. root'["dropout"].inline = ss /\ \A p \in Platforms : p # "dropout" => root'[p] = root[p]
      BY <1>4, <1>5, <2>1, <2>2
    <2> QED BY <1>2, <1>6, <2>1, <2>3 DEF Raw
  <1>7. CASE F # Inline
    <2>1. child' = [child EXCEPT ![F] = ss] /\ root' = root BY <1>3, <1>7 DEF WriteFile
    <2>2. child'[F] = ss /\ \A f \in Stems : f # F => child'[f] = child[f] BY <1>5, <1>7, <2>1
    <2>3. ss = [child[F] EXCEPT ![refresh.l.index] = refresh.new] BY <1>2, <1>7 DEF Raw
    <2> QED BY <1>2, <1>7, <2>1, <2>2, <2>3 DEF Raw
  <1> QED BY <1>6, <1>7

LEMMA ApplyHits ==
  ASSUME TypeOK, HitInv, ProposalInv, RefreshApply,
         op.at \in {"put", "drop"}, ~meddled
  PROVE  Rereads(op.p, op.l)' /\ ShowAt(op.p, op.l)' \in Merged(op.old) /\ UNCHANGED op
  <1>1. refresh.at = "checked" /\ refresh # NoRefresh /\ op' = op
    BY UnderWay DEF RefreshApply
  <1>2. PICK p \in Platforms, l \in Loc, old \in Show : p = op.p /\ l = op.l /\ old = op.old
    BY BusyOp, OpFields
  <1>3. PICK r \in Loc, new \in Show : r = refresh.l /\ new = refresh.new
    BY <1>1, RefreshFields
  <1>4. /\ Rereads(p, l) /\ ShowAt(p, l) \in Merged(old)
        /\ r.index <= Len(Raw("dropout", r.file)) /\ ShowAt("dropout", r) = refresh.old
    BY <1>1, <1>2, <1>3 DEF HitInv, Holds
  <1>5. new \in Merged(ShowAt("dropout", r)) /\ new # ShowAt("dropout", r)
    BY <1>1, <1>3, <1>4 DEF ProposalInv
  <1>6. l.file \in Stems \cup {Inline} BY DEF Loc
  <1>7. PICK ss \in Seq(Show) : ss = Raw(p, l.file) BY <1>6, RawTyped
  <1>8. l.index \in 1..Len(ss) /\ Readable(p, ss) BY <1>4, <1>7, RereadsTyped DEF Rereads
  <1>9. Rereads(p, l)' /\ ShowAt(p, l)' \in Merged(old)
    <2>1. CASE ~Swappable
      <3>1. UNCHANGED files BY <2>1 DEF RefreshApply
      <3> QED BY <1>4, <3>1, StillThere
    <2>2. CASE Swappable /\ ~(l.file = r.file /\ (l.file = Inline => p = "dropout"))
      <3>1. Raw(p, l.file)' = Raw(p, l.file) BY <1>3, <1>6, <2>2, ApplyWrites
      <3> QED BY <1>4, <3>1 DEF Rereads, ShowAt
    <2>3. CASE Swappable /\ l.file = r.file /\ (l.file = Inline => p = "dropout")
      <3>1. Raw(p, l.file)' = [ss EXCEPT ![r.index] = new]
        BY <1>3, <1>6, <1>7, <2>3, ApplyWrites
      <3>2. Raw("dropout", r.file) = ss BY <1>7, <2>3 DEF Raw
      <3>3. r.index \in 1..Len(ss)
        <4>1. r.index \in Nat \ {0} BY DEF Loc
        <4> QED BY <1>4, <3>2, <4>1
      <3>4. ss[r.index] \in Show /\ ShowAt("dropout", r) = ReadAs("dropout", ss[r.index])
        BY <3>2, <3>3 DEF ShowAt
      <3>5. Valid("dropout", new) BY <1>3, <2>3 DEF Swappable
      <3>6. Valid(p, new) /\ ReadAs(p, new) \in Merged(ReadAs(p, ss[r.index]))
        BY <1>5, <3>4, <3>5, MergedShow
      <3>7. PICK ts \in Seq(Show) : ts = [ss EXCEPT ![r.index] = new] BY <3>3, ReplacedAt
      <3>8. Len(ts) = Len(ss) /\ \A j \in 1..Len(ss) : ts[j] = IF j = r.index THEN new ELSE ss[j]
        BY <3>3, <3>7, ReplacedAt
      <3>9. Readable(p, ts) BY <1>8, <3>3, <3>6, <3>7, ReplacedReads
      <3>10. Rereads(p, l)' BY <1>8, <3>1, <3>7, <3>8, <3>9 DEF Rereads
      <3>11. ShowAt(p, l) = ReadAs(p, ss[l.index]) BY <1>7 DEF ShowAt
      <3>12. ShowAt(p, l)' = ReadAs(p, ts[l.index]) BY <3>1, <3>7 DEF ShowAt, ReadAs
      <3>13. CASE l.index # r.index BY <1>4, <1>8, <3>8, <3>10, <3>11, <3>12, <3>13
      <3>14. CASE l.index = r.index
        <4>1. ReadAs(p, ss[l.index]) \in Merged(old) BY <1>4, <3>11
        <4>2. ReadAs(p, new) \in Merged(old) BY <3>6, <3>14, <4>1, MergedTwice
        <4>3. ts[l.index] = new BY <1>8, <3>8, <3>14
        <4> QED BY <3>10, <3>12, <4>2, <4>3
      <3> QED BY <3>13, <3>14
    <2> QED BY <2>1, <2>2, <2>3
  <1>10. Rereads(op.p, op.l)' /\ ShowAt(op.p, op.l)' \in Merged(op.old)
    BY <1>1, <1>2, <1>9 DEF Rereads, Readable, ShowAt, Raw
  <1> QED BY <1>1, <1>10

(* A step that writes no file, keeps the request and starts, keeps or ends *)
(* a refresh of the show that is there.                                    *)
LEMMA HitKept ==
  ASSUME HitInv, UNCHANGED <<files, op>>, meddled' = meddled,
         \/ refresh' = NoRefresh
         \/ refresh # NoRefresh /\ refresh'.l = refresh.l /\ refresh'.old = refresh.old
         \/ Holds(refresh)'
  PROVE  HitInv'
  <1>1. SUFFICES ASSUME (op.at \in {"put", "drop"} /\ ~meddled)'
                 PROVE  /\ Rereads(op.p, op.l)' /\ ShowAt(op.p, op.l)' \in Merged(op.old)
                        /\ refresh' # NoRefresh => Holds(refresh)'
    BY DEF HitInv
  <1>2. /\ Rereads(op.p, op.l) /\ ShowAt(op.p, op.l) \in Merged(op.old)
        /\ refresh # NoRefresh => Holds(refresh)
    BY <1>1 DEF HitInv
  <1>3. UNCHANGED files OBVIOUS
  <1>4. Rereads(op.p, op.l)' /\ ShowAt(op.p, op.l)' \in Merged(op.old)
    BY <1>2, <1>3 DEF files, Rereads, Readable, ShowAt, Raw
  <1>5. refresh' # NoRefresh => Holds(refresh)' BY <1>2, <1>3, HoldsKept
  <1> QED BY <1>4, <1>5

(* The steps of a refresh, in the fields that the invariants are about.    *)
LEMMA RefreshSteps ==
  ASSUME TypeOK, RefreshStart \/ RefreshRevise \/ RefreshPropose \/ RefreshCheck
  PROVE  /\ UNCHANGED <<files, op, meddled>>
         /\ \/ refresh' = NoRefresh
            \/ refresh # NoRefresh /\ Kept(refresh, refresh')
            \/ Holds(refresh)' /\ refresh'.at = "located" /\ refresh'.changes = 0
  <1>1. UNCHANGED <<files, op, meddled>>
    BY DEF RefreshStart, RefreshRevise, RefreshPropose, RefreshCheck, history
  <1>2. CASE RefreshStart
    <2>1. PICK l \in Listed("dropout") :
            /\ l \in Loc /\ refresh'.at = "located" /\ refresh'.l = l
            /\ refresh'.old = ShowAt("dropout", l) /\ refresh'.changes = 0
      BY <1>2, StartIs
    <2>2. l.index <= Len(Raw("dropout", l.file)) BY ListedIs DEF Platforms, Rereads
    <2>3. Holds(refresh)' BY <1>1, <2>1, <2>2, StillThere DEF Holds
    <2> QED BY <1>1, <2>1, <2>3
  <1>3. CASE RefreshRevise BY <1>1, <1>3, ReviseIs, UnderWay
  <1>4. CASE RefreshPropose BY <1>1, <1>4, ProposeIs, UnderWay
  <1>5. CASE RefreshCheck BY <1>1, <1>5, CheckIs, UnderWay
  <1> QED BY <1>2, <1>3, <1>4, <1>5

LEMMA HitStep ==
  ASSUME TypeOK, HitInv, ProposalInv, [Next]_vars
  PROVE  HitInv'
  <1>1. ASSUME AddSource \/ DeleteSource \/ PutSeries \/ PutSeriesYaml \/ DeleteSeries
        PROVE  HitInv'
    <2>1. PICK at \in {"put", "drop"}, p \in Platforms :
            \E l \in Listed(p), new \in Show, asked \in Seq(Source) : Begin(at, p, l, new, asked)
      BY <1>1, RequestBegins
    <2>2. PICK l \in Listed(p), new \in Show, asked \in Seq(Source) : Begin(at, p, l, new, asked)
      BY <2>1
    <2>3. refresh = NoRefresh BY <1>1, RequestBegins DEF Accepted, Maintenance
    <2>4. /\ UNCHANGED files /\ refresh' = NoRefresh
          /\ op'.p = p /\ op'.l = l /\ op'.old = ShowAt(p, l)
      BY <2>2, <2>3 DEF Begin
    <2>5. Rereads(p, l) /\ ShowAt(p, l) \in Show BY ListedIs
    <2>6. ShowAt(p, l) \in Merged(ShowAt(p, l)) BY <2>5, MergedSelf
    <2>7. Rereads(op.p, op.l)' /\ ShowAt(op.p, op.l)' \in Merged(op'.old)
      BY <2>4, <2>5, <2>6 DEF files, Rereads, ShowAt, Raw
    <2> QED BY <2>4, <2>7 DEF HitInv
  <1>2. ASSUME op'.at \notin {"put", "drop"} PROVE HitInv' BY <1>2 DEF HitInv
  <1>3. ASSUME Save \/ Unlist \/ AppendImport \/ Crash PROVE HitInv'
    <2>1. op' = Idle BY <1>3 DEF Save, Unlist, AppendImport, Crash
    <2> QED BY <1>2, <2>1 DEF Idle
  <1>4. ASSUME Drop PROVE HitInv'
    <2>1. op.at = "drop" BY <1>4 DEF Drop
    <2>2. op \in Op BY <2>1, BusyOp, OpFields
    <2>3. op' = Idle \/ op' = [op EXCEPT !.at = "unlist"] BY <1>4 DEF Drop
    <2> QED BY <1>2, <2>2, <2>3 DEF Idle, Op
  <1>5. ASSUME CreateSeries PROVE HitInv'
    <2>1. op'.at = "append" BY <1>5 DEF CreateSeries
    <2> QED BY <1>2, <2>1
  <1>6. ASSUME PutPlatform \/ PutManifest \/ PutImport PROVE HitInv'
    <2>1. op' = Idle BY <1>6 DEF PutPlatform, PutManifest, PutImport, Accepted, Maintenance
    <2> QED BY <1>2, <2>1 DEF Idle
  <1>7. ASSUME HandEdit PROVE HitInv'
    <2>1. op' = op /\ meddled' = (op # Idle) BY <1>7 DEF HandEdit
    <2>2. CASE op = Idle BY <1>2, <2>1, <2>2 DEF Idle
    <2>3. CASE op # Idle BY <2>1, <2>3 DEF HitInv
    <2> QED BY <2>2, <2>3
  <1>8. ASSUME Get \/ UNCHANGED vars PROVE HitInv'
    <2>1. UNCHANGED <<files, op>> /\ meddled' = meddled /\ refresh' = refresh
      BY <1>8 DEF Get, vars, files, history
    <2>2. refresh' = NoRefresh \/ (refresh # NoRefresh /\ refresh'.l = refresh.l
                                    /\ refresh'.old = refresh.old)
      BY <2>1
    <2> QED BY <2>1, <2>2, HitKept
  <1>9. ASSUME RefreshStart \/ RefreshRevise \/ RefreshPropose \/ RefreshCheck PROVE HitInv'
    BY <1>9, RefreshSteps, HitKept DEF Kept
  <1>10. ASSUME RefreshApply PROVE HitInv'
    <2>1. op' = op /\ meddled' = meddled /\ refresh' = NoRefresh BY <1>10 DEF RefreshApply, history
    <2>2. CASE op.at \in {"put", "drop"} /\ ~meddled BY <1>10, <2>1, <2>2, ApplyHits DEF HitInv
    <2>3. CASE ~(op.at \in {"put", "drop"} /\ ~meddled) BY <2>1, <2>3 DEF HitInv
    <2> QED BY <2>2, <2>3
  <1> QED BY <1>1, <1>3, <1>4, <1>5, <1>6, <1>7, <1>8, <1>9, <1>10 DEF Next

(* A write beside a refresh is counted; a step that writes nothing is not. *)
LEMMA CountedIs ==
  ASSUME TypeOK, refresh' = Counted(refresh)
  PROVE  \/ refresh' = NoRefresh /\ refresh = NoRefresh
         \/ refresh # NoRefresh /\ files' = files /\ refresh' = refresh
         \/ /\ refresh # NoRefresh /\ files' # files
            /\ refresh'.at = refresh.at /\ refresh'.l = refresh.l /\ refresh'.old = refresh.old
            /\ refresh'.revision = refresh.revision /\ refresh'.new = refresh.new
            /\ refresh'.content = refresh.content /\ refresh'.changes = refresh.changes + 1
            /\ refresh.changes \in Nat
  <1>1. CASE refresh = NoRefresh BY <1>1 DEF Counted
  <1>2. CASE refresh # NoRefresh /\ files' = files BY <1>2 DEF Counted
  <1>3. CASE refresh # NoRefresh /\ files' # files
    <2>1. refresh' = [refresh EXCEPT !.changes = refresh.changes + 1] BY <1>3 DEF Counted
    <2> QED BY <1>3, <2>1, RefreshFields, RefreshSets
  <1> QED BY <1>1, <1>2, <1>3

(* The actions, by what they do to a refresh under way.                    *)
LEMMA BesideRefresh ==
  ASSUME TypeOK, [Next]_vars
  PROVE  \/ refresh' = Counted(refresh)
         \/ refresh' = NoRefresh
         \/ RefreshStart \/ RefreshRevise \/ RefreshPropose \/ RefreshCheck
  <1>1. ASSUME AddSource \/ DeleteSource \/ PutSeries \/ PutSeriesYaml \/ DeleteSeries
        PROVE  refresh' = NoRefresh
    <2>1. refresh = NoRefresh BY <1>1, RequestBegins DEF Accepted, Maintenance
    <2> QED BY <1>1, <2>1, RequestBegins DEF Begin
  <1>2. ASSUME CreateSeries \/ PutPlatform \/ PutManifest \/ PutImport PROVE refresh' = NoRefresh
    BY <1>2 DEF CreateSeries, PutPlatform, PutManifest, PutImport, Accepted, Maintenance
  <1>3. ASSUME Save \/ Drop \/ Unlist \/ AppendImport \/ HandEdit PROVE refresh' = Counted(refresh)
    BY <1>3 DEF Save, Drop, Unlist, AppendImport, HandEdit
  <1>4. ASSUME Get \/ UNCHANGED vars PROVE refresh' = Counted(refresh)
    BY <1>4 DEF Get, vars, files, Counted
  <1>5. ASSUME RefreshApply \/ Crash PROVE refresh' = NoRefresh BY <1>5 DEF RefreshApply, Crash
  <1> QED BY <1>1, <1>2, <1>3, <1>4, <1>5 DEF Next

-----------------------------------------------------------------------------
(***************************************************************************)
(* What a refresh writes over.                                             *)
(***************************************************************************)
LEMMA ProposalStep ==
  ASSUME TypeOK, ProposalInv, [Next]_vars
  PROVE  ProposalInv'
  <1>1. CASE refresh' = NoRefresh BY <1>1 DEF ProposalInv, NoRefresh
  <1>2. CASE refresh' = Counted(refresh)
    <2>1. CASE refresh' = refresh BY <2>1 DEF ProposalInv
    <2>2. CASE refresh' # refresh
      <3>1. refresh'.at = refresh.at /\ refresh'.old = refresh.old /\ refresh'.new = refresh.new
        BY <1>2, <2>2, CountedIs
      <3> QED BY <3>1 DEF ProposalInv
    <2> QED BY <2>1, <2>2
  <1>3. CASE refresh' # NoRefresh /\ RefreshStart BY <1>3, StartIs DEF ProposalInv
  <1>4. CASE refresh' # NoRefresh /\ RefreshRevise BY <1>4, ReviseIs DEF ProposalInv
  <1>5. CASE refresh' # NoRefresh /\ RefreshPropose BY <1>5, ProposeIs DEF ProposalInv, Kept
  <1>6. CASE refresh' # NoRefresh /\ RefreshCheck BY <1>6, CheckIs DEF ProposalInv, Kept
  <1> QED BY <1>1, <1>2, <1>3, <1>4, <1>5, <1>6, BesideRefresh

(* What a file has now is what was hashed if the hashes are the same.      *)
LEMMA HashedIs ==
  ASSUME TypeOK, NEW f \in Stems \cup {Inline}
  PROVE  Raw("dropout", f) = IF f = Inline THEN Content(f)[1].inline ELSE Content(f)[2]
  BY DEF Raw, Content

LEMMA HashedHolds ==
  ASSUME TypeOK, refresh # NoRefresh, Content(refresh.l.file) = refresh.content
  PROVE  Proven(refresh) <=> Holds(refresh)
  <1>1. refresh.l.file \in Stems \cup {Inline} BY RefreshFields
  <1>2. Hashed(refresh) = Raw("dropout", refresh.l.file) BY <1>1, HashedIs DEF Hashed
  <1> QED BY <1>2 DEF Proven, Holds, ShowAt

(* A revision that is still the show's, of the show the refresh has read.  *)
LEMMA RevisionHolds ==
  ASSUME TypeOK, refresh # NoRefresh, Agreed(refresh),
         NEW l \in Current, Revision(l) = refresh.revision
  PROVE  Holds(refresh)
  <1>1. l \in Listed("dropout") BY DEF Current
  <1>2. Rereads("dropout", l) BY <1>1, ListedIs DEF Platforms
  <1>3. refresh.revision.l = l /\ refresh.revision.show = ShowAt("dropout", l) BY DEF Revision
  <1> QED BY <1>2, <1>3 DEF Agreed, Holds, Rereads

LEMMA LossCounted ==
  ASSUME TypeOK, LossInv, refresh' = Counted(refresh)
  PROVE  LossInv'
  <1>1. CASE refresh' = NoRefresh BY <1>1 DEF LossInv, NoRefresh
  <1>2. CASE refresh # NoRefresh /\ files' = files /\ refresh' = refresh
    <2>1. Holds(refresh)' <=> Holds(refresh) BY <1>2, HoldsKept
    <2>2. Content(refresh.l.file)' = Content(refresh.l.file) BY <1>2, StillThere
    <2>3. (Agreed(refresh)' <=> Agreed(refresh)) /\ (Proven(refresh)' <=> Proven(refresh))
      BY <1>2 DEF Agreed, Proven, Hashed
    <2> QED BY <1>2, <2>1, <2>2, <2>3 DEF LossInv
  <1>3. CASE ~(refresh' = NoRefresh \/ (refresh # NoRefresh /\ files' = files /\ refresh' = refresh))
    <2>1. /\ refresh'.at = refresh.at /\ refresh'.l = refresh.l /\ refresh'.old = refresh.old
          /\ refresh'.revision = refresh.revision /\ refresh'.new = refresh.new
          /\ refresh'.content = refresh.content /\ refresh'.changes = refresh.changes + 1
          /\ refresh.changes \in Nat
      BY <1>3, CountedIs
    <2>2. (Agreed(refresh)' <=> Agreed(refresh)) /\ (Proven(refresh)' <=> Proven(refresh))
      BY <2>1 DEF Agreed, Proven, Hashed
    <2>3. refresh'.changes # 0 BY <2>1
    <2>4. refresh.changes >= 1 => refresh'.changes >= 1 /\ refresh'.changes # 1 BY <2>1
    <2>5. refresh.changes >= 2 => refresh'.changes >= 2 /\ refresh'.changes # 2 BY <2>1
    <2> QED BY <2>1, <2>2, <2>3, <2>4, <2>5 DEF LossInv
  <1> QED BY <1>1, <1>2, <1>3

LEMMA LossRevised ==
  ASSUME TypeOK, LossInv, RefreshRevise
  PROVE  LossInv'
  <1>1. CASE refresh' = NoRefresh BY <1>1 DEF LossInv, NoRefresh
  <1>2. CASE refresh' # NoRefresh
    <2>1. /\ refresh.at = "located" /\ refresh'.at = "asking" /\ Kept(refresh, refresh')
          /\ UNCHANGED files
      BY <1>2, ReviseIs DEF RefreshRevise
    <2>2. Holds(refresh)' <=> Holds(refresh) BY <2>1, HoldsKept DEF Kept
    <2> QED BY <2>1, <2>2 DEF LossInv, Kept
  <1> QED BY <1>1, <1>2

LEMMA LossProposed ==
  ASSUME TypeOK, LossInv, RefreshPropose
  PROVE  LossInv'
  <1>1. CASE refresh' = NoRefresh BY <1>1 DEF LossInv, NoRefresh
  <1>2. CASE refresh' # NoRefresh
    <2>1. /\ refresh.at = "asking" /\ refresh'.at = "proposed" /\ Kept(refresh, refresh')
          /\ refresh'.content = Content(refresh.l.file) /\ UNCHANGED files
      BY <1>2, ProposeIs DEF RefreshPropose
    <2>2. refresh # NoRefresh BY <2>1, UnderWay
    <2>3. refresh.changes \in Nat /\ refresh.l.file \in Stems \cup {Inline} BY <2>2, RefreshFields
    <2>4. Content(refresh.l.file)' = refresh'.content BY <2>1, StillThere DEF Kept
    <2>5. CASE refresh.changes = 0
      <3>1. Holds(refresh) BY <2>1, <2>5 DEF LossInv
      <3>2. Hashed(refresh)' = Raw("dropout", refresh.l.file)
        <4>1. Raw("dropout", refresh.l.file) =
                IF refresh.l.file = Inline THEN refresh'.content[1].inline ELSE refresh'.content[2]
          BY <2>1, <2>3, HashedIs
        <4> QED BY <2>1, <4>1 DEF Hashed, Kept
      <3>3. Proven(refresh)' BY <2>1, <3>1, <3>2 DEF Proven, Holds, ShowAt, Kept
      <3> QED BY <2>1, <3>3 DEF LossInv
    <2>6. CASE refresh.changes # 0
      <3>1. refresh'.changes >= 1 BY <2>1, <2>3, <2>6 DEF Kept
      <3> QED BY <2>1, <2>4, <3>1 DEF LossInv
    <2> QED BY <2>5, <2>6
  <1> QED BY <1>1, <1>2

LEMMA LossChecked ==
  ASSUME TypeOK, LossInv, RefreshCheck
  PROVE  LossInv'
  <1>1. CASE refresh' = NoRefresh BY <1>1 DEF LossInv, NoRefresh
  <1>2. CASE refresh' # NoRefresh
    <2>1. /\ refresh.at = "proposed" /\ refresh'.at = "checked" /\ Kept(refresh, refresh')
          /\ refresh'.revision = refresh.revision /\ refresh'.content = refresh.content
          /\ UNCHANGED files
      BY <1>2, CheckIs DEF RefreshCheck
    <2>2. PICK l \in Current : Revision(l) = refresh.revision BY <1>2, CheckIs
    <2>3. refresh # NoRefresh BY <2>1, UnderWay
    <2>4. refresh.changes \in Nat BY <2>3, RefreshFields
    <2>5. /\ Agreed(refresh)' <=> Agreed(refresh)
          /\ Proven(refresh)' <=> Proven(refresh)
          /\ Holds(refresh)' <=> Holds(refresh)
      BY <2>1, HoldsKept DEF Agreed, Proven, Hashed, Kept
    <2>6. ASSUME Agreed(refresh), ~Proven(refresh)
          PROVE  refresh.changes >= 2 /\ Holds(refresh)
      <3>1. Holds(refresh) BY <2>2, <2>3, <2>6, RevisionHolds
      <3>2. /\ refresh.changes >= 1
            /\ refresh.changes = 1 => Content(refresh.l.file) = refresh.content
        BY <2>1, <2>6 DEF LossInv
      <3>3. refresh.changes # 1 BY <2>3, <2>6, <3>1, <3>2, HashedHolds
      <3> QED BY <2>4, <3>1, <3>2, <3>3
    <2> QED BY <2>1, <2>5, <2>6 DEF LossInv, Kept
  <1> QED BY <1>1, <1>2

LEMMA LossStep ==
  ASSUME TypeOK, LossInv, [Next]_vars
  PROVE  LossInv'
  <1>1. ASSUME RefreshStart PROVE LossInv'
    <2>1. refresh'.at = "located" /\ (refresh'.changes = 0 => Holds(refresh)')
      <3>1. refresh'.at = "located" BY <1>1, StartIs
      <3>2. refresh = NoRefresh BY <1>1 DEF RefreshStart
      <3> QED BY <1>1, <3>1, <3>2, RefreshSteps DEF NoRefresh
    <2> QED BY <2>1 DEF LossInv
  <1>2. ASSUME refresh' = NoRefresh PROVE LossInv' BY <1>2 DEF LossInv, NoRefresh
  <1> QED BY <1>1, <1>2, LossCounted, LossRevised, LossProposed, LossChecked, BesideRefresh

(* The write itself: the hashes agree, and either the file that was hashed *)
(* had the show, or two writes have passed and it has it again.            *)
LEMMA NothingLost ==
  ASSUME TypeOK, LossInv, [Next]_vars,
         refresh.at = "checked", refresh' = NoRefresh, files' # files,
         Agreed(refresh), refresh.changes <= 2
  PROVE  ShowAt("dropout", refresh.l) = refresh.old
  <1>1. refresh # NoRefresh BY UnderWay
  <1>2. RefreshApply
    <2>1. refresh' # Counted(refresh)
      <3>1. SUFFICES ASSUME refresh' = Counted(refresh) PROVE FALSE OBVIOUS
      <3>2. refresh'.at = "checked" BY <1>1, <3>1, CountedIs
      <3> QED BY <3>2 DEF NoRefresh
    <2>2. ~(Save \/ Drop \/ Unlist \/ AppendImport \/ HandEdit)
      BY <2>1 DEF Save, Drop, Unlist, AppendImport, HandEdit
    <2>3. ~(AddSource \/ DeleteSource \/ PutSeries \/ PutSeriesYaml \/ DeleteSeries)
      BY <1>1, RequestBegins DEF Accepted, Maintenance
    <2>4. ~(CreateSeries \/ PutPlatform \/ PutManifest \/ PutImport)
      BY <1>1 DEF CreateSeries, PutPlatform, PutManifest, PutImport, Accepted, Maintenance
    <2>5. ~(Get \/ RefreshStart \/ RefreshRevise \/ RefreshPropose \/ RefreshCheck \/ Crash
            \/ UNCHANGED vars)
      BY DEF Get, RefreshStart, RefreshRevise, RefreshPropose, RefreshCheck, Crash, vars, files
    <2> QED BY <2>2, <2>3, <2>4, <2>5 DEF Next
  <1>3. Swappable BY <1>2 DEF RefreshApply
  <1>4. Content(refresh.l.file) = refresh.content BY <1>3 DEF Swappable
  <1>5. refresh.changes \in Nat BY <1>1, RefreshFields
  <1>6. Proven(refresh) \/ Holds(refresh) BY <1>5 DEF LossInv
  <1>7. Holds(refresh) BY <1>1, <1>4, <1>6, HashedHolds
  <1> QED BY <1>7 DEF Holds

-----------------------------------------------------------------------------
(***************************************************************************)
(* The theorems.                                                           *)
(***************************************************************************)
LEMMA InitInv ==
  ASSUME Init
  PROVE  IInv
  <1>1. PICK f \in FirstFiles : root = f.root /\ child = f.child BY DEF Init
  <1>2. FilesOK BY <1>1, FilesAssumption DEF FilesOK
  <1>3. /\ op = Idle /\ refresh = NoRefresh /\ seen = Unseen /\ meddled = FALSE
        /\ odd = {g \in Stems : ~InStep(g)} /\ edits = 0 /\ hands = 0 /\ faults = 0
    BY DEF Init
  <1>4. CountersOK
    <2>1. odd \subseteq Stems /\ meddled \in BOOLEAN BY <1>3
    <2>2. edits \in 0..MaxEdits /\ hands \in 0..MaxHands /\ faults \in 0..MaxFaults
      BY <1>3, FilesAssumption
    <2> QED BY <2>1, <2>2 DEF CountersOK
  <1>5. TypeOK BY <1>2, <1>3, <1>4, TypeParts DEF RefreshOK, SeenOK
  <1>6. OpInv /\ HitInv BY <1>3 DEF OpInv, HitInv, Idle
  <1>7. AgreeInv
    <2>1. \A g \in Stems \ odd : InStep(g) BY <1>3
    <2>2. op.at \notin {"append", "unlist"} BY <1>3 DEF Idle
    <2> QED BY <2>1, <2>2, NotPending DEF AgreeInv
  <1>8. ProposalInv /\ LossInv BY <1>3 DEF ProposalInv, LossInv, NoRefresh
  <1> QED BY <1>5, <1>6, <1>7, <1>8 DEF IInv

(* The invariant is inductive: what the others rest on.                    *)
THEOREM Invariance == Spec => []IInv
  <1>1. Init => IInv BY InitInv
  <1>2. IInv /\ [Next]_vars => IInv'
    BY TypeStep, AgreeStep, HitStep, ProposalStep, LossStep DEF IInv
  <1> QED BY <1>1, <1>2, PTL DEF Spec

(* Every variable keeps its type, and the counters their bounds.           *)
THEOREM TypeCorrect == Spec => []TypeOK
  <1>1. IInv => TypeOK BY DEF IInv
  <1> QED BY <1>1, Invariance, PTL

(* However creations, deletions, saves, refreshes and crashes interleave:  *)
(* a child file is imported, by one platform, if and only if it is there,  *)
(* but for the one being written and those left out of step.               *)
THEOREM ImportsMatchFiles == Spec => []ImportsAgree
  <1>1. IInv => ImportsAgree BY DEF IInv, AgreeInv, StepInv, Pending, ImportsAgree
  <1> QED BY <1>1, Invariance, PTL

(* Until a request writes, the position it found holds the show it found,  *)
(* with at most the seasons that a refresh beside it has added.            *)
THEOREM SavesHit == Spec => []SaveHitsItsShow
  <1>1. IInv => SaveHitsItsShow BY DEF IInv, HitInv, SaveHitsItsShow
  <1> QED BY <1>1, Invariance, PTL

(* A refresh that read the revision of the show it had read writes over    *)
(* that very show, if at most two writes came since it began.              *)
THEOREM RefreshKeepsAll == Spec => RefreshLosesNothing
  <1>1. IInv /\ [Next]_vars =>
          [ /\ refresh.at = "checked" /\ refresh' = NoRefresh /\ files' # files
            /\ refresh.revision.l = refresh.l /\ refresh.revision.show = refresh.old
            /\ refresh.changes <= 2
            => ShowAt("dropout", refresh.l) = refresh.old ]_vars
    BY NothingLost DEF IInv, Agreed
  <1> QED BY <1>1, Invariance, PTL DEF Spec, RefreshLosesNothing

-----------------------------------------------------------------------------
(***************************************************************************)
(* The names of the listed shows.                                          *)
(***************************************************************************)
(* The name a request will write is nobody else's, and the file of a       *)
(* creation has nothing but the show created.                              *)
NamedInv ==
  /\ op.at = "put" /\ ~meddled => op.new.name = op.old.name \/ op.new.name \notin AllNames
  /\ op.at = "append" /\ ~meddled /\ op.l.file \notin odd
       => child[op.l.file] = <<op.new>> /\ op.new.name \notin AllNames

(* A refresh beside the second write of a creation or a deletion is one of *)
(* another show, and has read the one that is there now.                   *)
BesideInv ==
  op.at \in {"append", "unlist"} /\ ~meddled /\ op.l.file \notin odd /\ refresh # NoRefresh =>
    /\ op.at = "append" => refresh.l.file # op.l.file
    /\ refresh.l.file # op.l.file => Holds(refresh)

(* The child file of a show that is refreshed is imported by its platform  *)
(* alone, until it is deleted.                                             *)
OwnedInv ==
  refresh # NoRefresh /\ refresh.l.file \in Stems \ odd =>
    Importers(refresh.l.file) = {"dropout"} \/ child[refresh.l.file] = <<>>

NameInv == NamedInv /\ BesideInv /\ OwnedInv

(* An entry is a position of a readable file, imported or the root.        *)
LEMMA ListedIff ==
  TypeOK => \A p \in Platforms : \A l : l \in Listed(p) <=>
              l \in Loc /\ l.file \in Imports(p) \cup {Inline} /\ Rereads(p, l)
  <1>1. SUFFICES ASSUME TypeOK, NEW p \in Platforms, NEW l
                 PROVE  l \in Listed(p) <=>
                          l \in Loc /\ l.file \in Imports(p) \cup {Inline} /\ Rereads(p, l)
    OBVIOUS
  <1>2. ASSUME l \in Loc, l.file \in Imports(p) \cup {Inline}, Rereads(p, l)
        PROVE  l \in Listed(p)
    <2>1. PICK n \in Nat : n = Len(Raw(p, l.file))
      BY <1>1, <1>2, RawTyped DEF Loc
    <2>2. l = [file |-> l.file, index |-> l.index] /\ l.index \in 1..n
      BY <1>2, <2>1, RereadsTyped DEF Loc, Rereads
    <2>3. Locs(p, l.file) = [i \in 1..n |-> [file |-> l.file, index |-> i]]
      BY <1>2, <2>1 DEF Locs, Rereads
    <2>4. l \in ToSet(Locs(p, l.file)) BY <2>2, <2>3 DEF ToSet
    <2> QED BY <1>2, <2>4 DEF Listed
  <1> QED BY <1>1, <1>2, ListedIs

LEMMA ListedNext ==
  TypeOK' => \A p \in Platforms : \A l : l \in Listed(p)' <=>
               l \in Loc /\ l.file \in Imports(p)' \cup {Inline} /\ Rereads(p, l)'
  <1>1. (TypeOK => \A p \in Platforms : \A l : l \in Listed(p) <=>
              l \in Loc /\ l.file \in Imports(p) \cup {Inline} /\ Rereads(p, l))'
    BY ListedIff, PTL
  <1> QED BY <1>1

(* A listed show has the name it has in its file.                          *)
LEMMA NameIs ==
  ASSUME TypeOK, NEW p \in Platforms, NEW l \in Loc, Rereads(p, l)
  PROVE  ShowAt(p, l).name = Raw(p, l.file)[l.index].name
  BY RereadsTyped, ReadAsTyped DEF Rereads, ShowAt

(* What is listed was listed, under the same name.                         *)
NoneNew == \A p \in Platforms : \A l \in Listed(p)' :
             l \in Listed(p) /\ ShowAt(p, l)'.name = ShowAt(p, l).name

LEMMA NoneNewNames ==
  ASSUME NoneNew
  PROVE  /\ DistinctNames => DistinctNames'
         /\ AllNames' \subseteq AllNames
  BY DEF NoneNew, DistinctNames, AllNames

LEMMA OneNewName ==
  ASSUME DistinctNames, NEW P, NEW L, NEW n, n \notin AllNames,
         \A p \in Platforms : \A l \in Listed(p)' :
           \/ p = P /\ l = L /\ ShowAt(p, l)'.name = n
           \/ l \in Listed(p) /\ ShowAt(p, l)'.name = ShowAt(p, l).name
  PROVE  DistinctNames'
  <1>1. SUFFICES ASSUME NEW p \in Platforms, NEW q \in Platforms,
                        NEW k \in Listed(p)', NEW l \in Listed(q)',
                        ShowAt(p, k)'.name = ShowAt(q, l)'.name
                 PROVE  p = q /\ k = l
    BY DEF DistinctNames
  <1>2. \A r \in Platforms : \A m \in Listed(r) : ShowAt(r, m).name # n BY DEF AllNames
  <1> QED BY <1>1, <1>2 DEF DistinctNames

LEMMA FilesNames ==
  ASSUME TypeOK, TypeOK', UNCHANGED files
  PROVE  NoneNew
  <1>1. \A p \in Platforms : Imports(p)' = Imports(p) BY FilesKept, KeptImporters
  <1>2. \A p \in Platforms : \A l : l \in Listed(p)' <=> l \in Listed(p)
    BY <1>1, StillThere, ListedIff, ListedNext
  <1> QED BY <1>2, StillThere DEF NoneNew

(* The same, where the files that are imported keep what is listed.        *)
LEMMA RawNames ==
  ASSUME TypeOK, TypeOK', \A p \in Platforms : Imports(p)' \subseteq Imports(p),
         \A p \in Platforms : \A f \in Imports(p)' \cup {Inline} : Raw(p, f)' = Raw(p, f)
  PROVE  NoneNew
  <1>1. SUFFICES ASSUME NEW p \in Platforms, NEW l \in Listed(p)'
                 PROVE  l \in Listed(p) /\ ShowAt(p, l)'.name = ShowAt(p, l).name
    BY DEF NoneNew
  <1>2. l \in Loc /\ l.file \in Imports(p)' \cup {Inline} /\ Rereads(p, l)' BY ListedNext
  <1>3. Raw(p, l.file)' = Raw(p, l.file) BY <1>2
  <1>4. Rereads(p, l) /\ ShowAt(p, l)' = ShowAt(p, l) BY <1>2, <1>3 DEF Rereads, ShowAt
  <1> QED BY <1>2, <1>4, ListedIff

(* The write of a refresh names no show anew: it writes a show of the name *)
(* that is there, and makes no file readable again, unless both platforms  *)
(* import it.                                                              *)
LEMMA MergedValid ==
  ASSUME NEW s \in Show, NEW new \in Merged(ReadAs("dropout", s)),
         new # ReadAs("dropout", s), Valid("dropout", new)
  PROVE  Valid("youtube", s)
  <1>1. "dropout" \in Platforms /\ "youtube" \in Platforms BY DEF Platforms
  <1>2. ReadAs("dropout", s) \in Show BY <1>1, ReadAsTyped
  <1>3. s.kind = "dropout"
    <2>1. SUFFICES ASSUME s.kind # "dropout" PROVE FALSE OBVIOUS
    <2>2. ReadAs("dropout", s).sources = <<>> BY <1>1, <2>1, ReadAsTyped
    <2> QED BY <1>2, <2>2, MergedNothing
  <1>4. ReadAs("youtube", s).sources = <<>> BY <1>1, <1>3, ReadAsTyped
  <1>5. new.name = s.name BY <1>1, <1>2, MergedTyped, ReadAsTyped
  <1> QED BY <1>4, <1>5 DEF Valid, PlaylistsValid

LEMMA ApplyNames ==
  ASSUME TypeOK, TypeOK', ProposalInv, RefreshApply,
         Holds(refresh) \/ "youtube" \notin Importers(refresh.l.file)
  PROVE  NoneNew
  <1>1. refresh.at = "checked" /\ refresh # NoRefresh BY UnderWay DEF RefreshApply
  <1>2. PICK r \in Loc, new \in Show : r = refresh.l /\ new = refresh.new
    BY <1>1, RefreshFields
  <1>3. \A p \in Platforms : Imports(p)' = Imports(p) BY ApplyKeeps, KeptImporters
  <1>4. CASE ~Swappable
    <2>1. UNCHANGED files BY <1>4 DEF RefreshApply
    <2> QED BY <2>1, FilesNames
  <1>5. CASE Swappable
    <2>1. SUFFICES ASSUME NEW p \in Platforms, NEW l \in Listed(p)'
                   PROVE  l \in Listed(p) /\ ShowAt(p, l)'.name = ShowAt(p, l).name
      BY DEF NoneNew
    <2>2. l \in Loc /\ l.file \in Imports(p) \cup {Inline} /\ Rereads(p, l)'
      BY <1>3, ListedNext
    <2>3. l.file \in Stems \cup {Inline} BY <2>2 DEF Loc
    <2>4. CASE ~(l.file = r.file /\ (l.file = Inline => p = "dropout"))
      <3>1. Raw(p, l.file)' = Raw(p, l.file) BY <1>2, <1>5, <2>3, <2>4, ApplyWrites
      <3>2. Rereads(p, l) /\ ShowAt(p, l)' = ShowAt(p, l) BY <2>2, <3>1 DEF Rereads, ShowAt
      <3> QED BY <2>2, <3>2, ListedIff
    <2>5. CASE l.file = r.file /\ (l.file = Inline => p = "dropout")
      <3>1. PICK ss \in Seq(Show) : ss = Raw(p, l.file) BY <2>3, RawTyped
      <3>2. Raw("dropout", r.file) = ss BY <2>5, <3>1 DEF Raw
      <3>3. r.index \in 1..Len(ss) /\ Readable("dropout", ss) /\ "dropout" \in Platforms
        BY <1>2, <1>5, <3>2, RereadsTyped DEF Swappable, Rereads, Platforms
      <3>4. PICK ts \in Seq(Show) : ts = [ss EXCEPT ![r.index] = new] BY <3>3, ReplacedAt
      <3>5. Len(ts) = Len(ss) /\ \A j \in 1..Len(ss) : ts[j] = IF j = r.index THEN new ELSE ss[j]
        BY <3>3, <3>4, ReplacedAt
      <3>6. Raw(p, l.file)' = ts BY <1>2, <1>5, <2>3, <2>5, <3>1, <3>4, ApplyWrites
      <3>7. Readable(p, ts) /\ l.index \in 1..Len(ss)
        <4>1. l.index \in Nat \ {0} /\ Len(ss) \in Nat BY <2>2 DEF Loc
        <4> QED BY <2>2, <3>5, <3>6, <4>1 DEF Rereads
      <3>8. ss[r.index] \in Show /\ ShowAt("dropout", r) = ReadAs("dropout", ss[r.index])
        BY <3>2, <3>3 DEF ShowAt
      <3>9. Readable(p, ss)
        <4>1. CASE p = "dropout" BY <3>3, <4>1
        <4>2. CASE p = "youtube"
          <5>1. l.file # Inline BY <2>5, <4>2
          <5>2. Holds(refresh) BY <1>2, <2>2, <2>5, <4>2, <5>1 DEF Importers
          <5>3. new \in Merged(ReadAs("dropout", ss[r.index]))
                /\ new # ReadAs("dropout", ss[r.index])
            BY <1>1, <1>2, <3>8, <5>2 DEF Holds, ProposalInv
          <5>4. Valid("dropout", new) BY <1>2, <1>5 DEF Swappable
          <5>5. Valid(p, ss[r.index]) BY <3>8, <4>2, <5>3, <5>4, MergedValid
          <5>6. \A j \in 1..Len(ss) : Valid(p, ss[j]) BY <3>5, <3>7, <5>5 DEF Readable
          <5> QED BY <3>3, <5>6 DEF Readable
        <4> QED BY <4>1, <4>2 DEF Platforms
      <3>10. Rereads(p, l)
        <4>1. Len(ss) \in Nat OBVIOUS
        <4> QED BY <3>1, <3>7, <3>9, <4>1 DEF Rereads
      <3>11. ShowAt(p, l).name = ss[l.index].name BY <2>2, <3>1, <3>10, NameIs
      <3>12. ShowAt(p, l)' = ReadAs(p, ts[l.index]) BY <3>6 DEF ShowAt, ReadAs
      <3>13. ts[l.index] \in Show BY <3>5, <3>7
      <3>14. ShowAt(p, l)'.name = ts[l.index].name BY <3>12, <3>13, ReadAsTyped
      <3>15. ss[r.index].name = new.name
        <4>1. ReadAs("dropout", ss[r.index]).name = ss[r.index].name BY <3>3, <3>8, ReadAsTyped
        <4> QED BY <1>2, <1>5, <3>8, <4>1 DEF Swappable
      <3>16. ShowAt(p, l)'.name = ShowAt(p, l).name BY <3>5, <3>7, <3>11, <3>14, <3>15
      <3> QED BY <2>2, <3>10, <3>16, ListedIff
    <2> QED BY <2>4, <2>5
  <1> QED BY <1>4, <1>5

(* The second write of a deletion lists less, and the first of a creation  *)
(* lists nothing yet.                                                      *)
LEMMA UnlistIs ==
  ASSUME TypeOK, Unlist, op.l.file \in Stems
  PROVE  /\ \A p \in Platforms : Imports(p)' = IF p = op.p THEN Imports(p) \ {op.l.file}
                                               ELSE Imports(p)
         /\ \A p \in Platforms : root'[p].inline = root[p].inline
         /\ child' = child /\ op' = Idle /\ UNCHANGED <<odd, meddled>> /\ op.at = "unlist"
  <1>1. op.at = "unlist" /\ op' = Idle /\ child' = child /\ UNCHANGED <<odd, meddled>>
    BY DEF Unlist, history
  <1>2. PICK p \in Platforms, F \in Stems : p = op.p /\ F = op.l.file BY <1>1, BusyOp, OpFields
  <1>3. root[p].imports \in Seq(Stems) /\ root[p] \in Root BY ImportsStems
  <1>4. PICK ds : ds = Delisted(root[p].imports, F) OBVIOUS
  <1>5. Elements(ds) = Elements(root[p].imports) \ {F} BY <1>3, <1>4, DelistedIs
  <1>6. root' = [root EXCEPT ![p] = [root[p] EXCEPT !.imports = ds]]
    BY <1>2, <1>4 DEF Unlist
  <1>7. /\ [root[p] EXCEPT !.imports = ds].imports = ds
        /\ [root[p] EXCEPT !.imports = ds].inline = root[p].inline
    BY <1>3 DEF Root
  <1>8. /\ root'[p].imports = ds /\ root'[p].inline = root[p].inline
        /\ \A q \in Platforms : q # p => root'[q] = root[q]
    BY <1>6, <1>7 DEF TypeOK
  <1>9. Imports(p)' = Imports(p) \ {F} /\ \A q \in Platforms : q # p => Imports(q)' = Imports(q)
    BY <1>5, <1>8, ImportsBy
  <1> QED BY <1>1, <1>2, <1>8, <1>9

LEMMA UnlistNames ==
  ASSUME TypeOK, TypeOK', OpInv, Unlist
  PROVE  NoneNew
  <1>1. op.l.file \in Stems BY DEF Unlist, OpInv
  <1>2. \A p \in Platforms : Imports(p)' \subseteq Imports(p) BY <1>1, UnlistIs
  <1>3. \A p \in Platforms : \A f : Raw(p, f)' = Raw(p, f) BY <1>1, UnlistIs DEF Raw
  <1> QED BY <1>2, <1>3, RawNames

LEMMA CreateNames ==
  ASSUME TypeOK, TypeOK', AgreeInv, CreateSeries, op'.l.file \notin odd
  PROVE  NoneNew
  <1>1. PICK p \in Platforms, n \in Names, g \in Paths : Created(p, n, g) BY CreateSeriesIs
  <1>2. op.at = "idle" /\ root' = root BY CreateSeriesIs DEF Accepted, Maintenance, Idle
  <1>3. PICK F \in Stems : F = SlugOf[n] BY NewShowTyped
  <1>4. /\ child[F] = <<>> /\ child' = [child EXCEPT ![F] = <<NewShow(p, n, g)>>] /\ F \notin odd
    BY <1>1, <1>3 DEF Created
  <1>5. \A f \in Stems : f # F => child'[f] = child[f] BY <1>4 DEF TypeOK
  <1>6. \A q \in Platforms : Imports(q)' = Imports(q) BY <1>2 DEF Imports
  <1>7. Importers(F) = {} BY <1>2, <1>4, NotPending DEF AgreeInv, InStep
  <1>8. \A q \in Platforms : F \notin Imports(q) BY <1>7 DEF Importers
  <1>9. \A q \in Platforms : \A f \in Imports(q)' \cup {Inline} : Raw(q, f)' = Raw(q, f)
    <2>1. \A q \in Platforms : Imports(q) \subseteq Stems BY ImportsStems
    <2> QED BY <1>2, <1>5, <1>6, <1>8, <2>1 DEF Raw
  <1> QED BY <1>6, <1>9, RawNames

LEMMA AppendIs ==
  ASSUME TypeOK, AppendImport, op.l.file \in Stems
  PROVE  /\ \A p \in Platforms : Imports(p)' = IF p = op.p THEN Imports(p) \cup {op.l.file}
                                               ELSE Imports(p)
         /\ \A p \in Platforms : root'[p].inline = root[p].inline
         /\ child' = child /\ op' = Idle /\ UNCHANGED <<odd, meddled>> /\ op.at = "append"
  <1>1. op.at = "append" /\ op' = Idle /\ child' = child /\ UNCHANGED <<odd, meddled>>
    BY DEF AppendImport, history
  <1>2. PICK p \in Platforms, F \in Stems : p = op.p /\ F = op.l.file BY <1>1, BusyOp, OpFields
  <1>3. root[p].imports \in Seq(Stems) /\ root[p] \in Root BY ImportsStems
  <1>4. CASE F \in Imports(p)
    <2>1. root' = root BY <1>2, <1>4 DEF AppendImport
    <2>2. \A q \in Platforms : Imports(q)' = Imports(q) BY <2>1 DEF Imports
    <2>3. Imports(p) \cup {F} = Imports(p) BY <1>4
    <2> QED BY <1>1, <1>2, <2>1, <2>2, <2>3
  <1>5. CASE F \notin Imports(p)
    <2>1. PICK js : js = Append(root[p].imports, F) OBVIOUS
    <2>2. Elements(js) = Elements(root[p].imports) \cup {F} BY <1>3, <2>1, AppendedIs
    <2>3. root' = [root EXCEPT ![p] = [root[p] EXCEPT !.imports = js]]
      BY <1>2, <1>5, <2>1 DEF AppendImport
    <2>4. /\ [root[p] EXCEPT !.imports = js].imports = js
          /\ [root[p] EXCEPT !.imports = js].inline = root[p].inline
      BY <1>3 DEF Root
    <2>5. /\ root'[p].imports = js /\ root'[p].inline = root[p].inline
          /\ \A q \in Platforms : q # p => root'[q] = root[q]
      BY <2>3, <2>4 DEF TypeOK
    <2>6. /\ Imports(p)' = Imports(p) \cup {F}
          /\ \A q \in Platforms : q # p => Imports(q)' = Imports(q)
      BY <2>2, <2>5, ImportsBy
    <2> QED BY <1>1, <1>2, <2>5, <2>6
  <1> QED BY <1>4, <1>5

(* Both writes of a saved or deleted show, in the terms of its file.       *)
LEMMA SaveIs ==
  ASSUME TypeOK, Save
  PROVE  /\ op.at = "put" /\ op' = Idle /\ UNCHANGED <<odd, meddled>>
         /\ refresh' = Counted(refresh)
         /\ \/ UNCHANGED files
            \/ \E ss, rs \in Seq(Show) :
                 /\ ss = Raw(op.p, op.l.file) /\ Rereads(op.p, op.l)
                 /\ WriteFile(op.p, op.l.file, rs) /\ Len(rs) = Len(ss)
                 /\ op.l.index \in 1..Len(ss)
                 /\ \A j \in 1..Len(ss) :
                      rs[j] = IF j = op.l.index THEN op.new ELSE ReadAs(op.p, ss[j])
  <1>1. op.at = "put" /\ op' = Idle /\ UNCHANGED <<odd, meddled>> /\ refresh' = Counted(refresh)
    BY DEF Save, history
  <1>2. PICK p \in Platforms, l \in Loc, new \in Show : p = op.p /\ l = op.l /\ new = op.new
    BY <1>1, BusyOp, OpFields
  <1>3. CASE ~Rereads(p, l) BY <1>1, <1>2, <1>3 DEF Save
  <1>4. CASE Rereads(p, l)
    <2>1. PICK ss \in Seq(Show) : ss = Raw(p, l.file) BY RawTyped DEF Loc
    <2>2. l.index \in 1..Len(ss) BY <1>4, <2>1, RereadsTyped DEF Rereads
    <2>3. PICK rs \in Seq(Show) : rs = WithShow(p, ss, l.index, new) BY WithShowTyped
    <2>4. Len(rs) = Len(ss) BY <2>3, WithShowTyped
    <2>5. \A j \in 1..Len(ss) : rs[j] = IF j = l.index THEN new ELSE ReadAs(p, ss[j])
      BY <2>3 DEF WithShow
    <2>6. WriteFile(p, l.file, rs) BY <1>2, <1>4, <2>1, <2>3 DEF Save
    <2> QED BY <1>1, <1>2, <1>4, <2>1, <2>2, <2>4, <2>5, <2>6
  <1> QED BY <1>3, <1>4

LEMMA WithoutIs ==
  ASSUME NEW S, NEW ss \in Seq(S), NEW i \in 1..Len(ss)
  PROVE  \A j \in 1..(Len(ss) - 1) : Without(ss, i)[j] = ss[IF j < i THEN j ELSE j + 1]
  <1>1. SubSeq(ss, 1, i - 1) \in Seq(S) /\ Len(SubSeq(ss, 1, i - 1)) = i - 1 OBVIOUS
  <1>2. SubSeq(ss, i + 1, Len(ss)) \in Seq(S) /\ Len(SubSeq(ss, i + 1, Len(ss))) = Len(ss) - i
    OBVIOUS
  <1>3. \A j \in 1..(i - 1) : SubSeq(ss, 1, i - 1)[j] = ss[j] OBVIOUS
  <1>4. \A j \in 1..(Len(ss) - i) : SubSeq(ss, i + 1, Len(ss))[j] = ss[i + j] OBVIOUS
  <1>5. PICK a \in Seq(S), b \in Seq(S) :
          a = SubSeq(ss, 1, i - 1) /\ b = SubSeq(ss, i + 1, Len(ss))
    BY <1>1, <1>2
  <1>6. Without(ss, i) = a \o b BY <1>5 DEF Without
  <1>7. Len(a) = i - 1 /\ Len(b) = Len(ss) - i BY <1>1, <1>2, <1>5
  <1>8. \A j \in 1..(Len(a) + Len(b)) : (a \o b)[j] = IF j <= Len(a) THEN a[j] ELSE b[j - Len(a)]
    OBVIOUS
  <1>9. SUFFICES ASSUME NEW j \in 1..(Len(ss) - 1)
                 PROVE  (a \o b)[j] = ss[IF j < i THEN j ELSE j + 1]
    BY <1>6
  <1>10. i \in Nat /\ Len(ss) \in Nat /\ j \in Nat /\ j \in 1..(Len(a) + Len(b)) BY <1>7
  <1>11. CASE j < i
    <2>1. j \in 1..(i - 1) /\ j <= Len(a) BY <1>7, <1>10, <1>11
    <2> QED BY <1>3, <1>5, <1>8, <1>10, <1>11, <2>1
  <1>12. CASE ~(j < i)
    <2>1. j - Len(a) \in 1..(Len(ss) - i) /\ ~(j <= Len(a)) /\ i + (j - Len(a)) = j + 1
      BY <1>7, <1>10, <1>12
    <2> QED BY <1>4, <1>5, <1>8, <1>10, <1>12, <2>1
  <1> QED BY <1>11, <1>12

LEMMA DropIs ==
  ASSUME TypeOK, Drop
  PROVE  /\ op.at = "drop" /\ UNCHANGED <<odd, meddled>> /\ refresh' = Counted(refresh)
         /\ \/ UNCHANGED files /\ op' = Idle
            \/ \E ss, rs \in Seq(Show) :
                 /\ ss = Raw(op.p, op.l.file) /\ Rereads(op.p, op.l)
                 /\ WriteFile(op.p, op.l.file, rs) /\ Len(rs) = Len(ss) - 1
                 /\ op.l.index \in 1..Len(ss)
                 /\ \A j \in 1..Len(rs) :
                      rs[j] = ReadAs(op.p, ss[IF j < op.l.index THEN j ELSE j + 1])
                 /\ op' = IF op.l.file = Inline \/ rs # <<>> THEN Idle
                          ELSE [op EXCEPT !.at = "unlist"]
  <1>1. op.at = "drop" /\ UNCHANGED <<odd, meddled>> /\ refresh' = Counted(refresh)
    BY DEF Drop, history
  <1>2. PICK p \in Platforms, l \in Loc : p = op.p /\ l = op.l BY <1>1, BusyOp, OpFields
  <1>3. CASE ~Rereads(p, l) BY <1>1, <1>2, <1>3 DEF Drop
  <1>4. CASE Rereads(p, l)
    <2>1. PICK ss \in Seq(Show) : ss = Raw(p, l.file) BY RawTyped DEF Loc
    <2>2. l.index \in 1..Len(ss) BY <1>4, <2>1, RereadsTyped DEF Rereads
    <2>3. PICK ts : ts = [j \in 1..Len(ss) |-> ReadAs(p, ss[j])] OBVIOUS
    <2>4. ts \in Seq(Show) /\ Len(ts) = Len(ss)
      <3>1. \A j \in 1..Len(ss) : ReadAs(p, ss[j]) \in Show BY ReadAsTyped
      <3>2. Len(ss) \in Nat OBVIOUS
      <3> QED BY <2>3, <3>1, <3>2
    <2>5. PICK rs \in Seq(Show) : rs = Without(ts, l.index) BY <2>2, <2>4, WithoutTyped
    <2>6. Len(rs) = Len(ss) - 1 BY <2>2, <2>4, <2>5, WithoutTyped
    <2>7. \A j \in 1..(Len(ss) - 1) : rs[j] = ts[IF j < l.index THEN j ELSE j + 1]
      BY <2>2, <2>4, <2>5, WithoutIs
    <2>8. ASSUME NEW j \in 1..Len(rs)
          PROVE  rs[j] = ReadAs(p, ss[IF j < l.index THEN j ELSE j + 1])
      <3>1. PICK k \in 1..Len(ss) : k = IF j < l.index THEN j ELSE j + 1
        BY <2>2, <2>6
      <3>2. rs[j] = ts[k] BY <2>6, <2>7, <3>1
      <3> QED BY <2>3, <3>1, <3>2
    <2>9. /\ WriteFile(p, l.file, rs)
          /\ op' = IF l.file = Inline \/ rs # <<>> THEN Idle ELSE [op EXCEPT !.at = "unlist"]
      BY <1>2, <1>4, <2>1, <2>3, <2>5 DEF Drop
    <2> QED BY <1>1, <1>2, <1>4, <2>1, <2>2, <2>6, <2>8, <2>9
  <1> QED BY <1>3, <1>4

(* A refresh keeps its show while it runs, and no request begins beside it.*)
LEMMA RefreshKeeps ==
  ASSUME TypeOK, [Next]_vars
  PROVE  \/ refresh' = NoRefresh
         \/ refresh # NoRefresh /\ refresh'.l = refresh.l /\ refresh'.old = refresh.old
         \/ RefreshStart
  <1>1. CASE refresh' = Counted(refresh) BY <1>1, CountedIs
  <1>2. CASE RefreshRevise \/ RefreshPropose \/ RefreshCheck
    BY <1>2, ReviseIs, ProposeIs, CheckIs, UnderWay DEF Kept
  <1> QED BY <1>1, <1>2, BesideRefresh

Request == AddSource \/ DeleteSource \/ PutSeries \/ PutSeriesYaml \/ DeleteSeries \/ CreateSeries
Setting == PutPlatform \/ PutManifest \/ PutImport
Reading == Get \/ RefreshStart \/ RefreshRevise \/ RefreshPropose \/ RefreshCheck \/ UNCHANGED vars

LEMMA NextIs ==
  [Next]_vars <=> \/ Request \/ Setting \/ Reading \/ Save \/ Drop \/ Unlist \/ AppendImport
                  \/ HandEdit \/ RefreshApply \/ Crash
  BY DEF Next, Request, Setting, Reading

LEMMA AcceptedIs ==
  ASSUME TypeOK, Request \/ Setting
  PROVE  op = Idle /\ refresh = NoRefresh /\ refresh' = NoRefresh
  <1>1. Accepted
    BY RequestBegins DEF Request, Setting, CreateSeries, PutPlatform, PutManifest, PutImport
  <1>2. UNCHANGED refresh
    <2>1. CASE CreateSeries \/ Setting
      BY <2>1 DEF Setting, CreateSeries, PutPlatform, PutManifest, PutImport
    <2>2. CASE AddSource \/ DeleteSource \/ PutSeries \/ PutSeriesYaml \/ DeleteSeries
      BY <2>2, RequestBegins DEF Begin
    <2> QED BY <2>1, <2>2 DEF Request
  <1> QED BY <1>1, <1>2 DEF Accepted, Maintenance

LEMMA ReadingKeeps ==
  ASSUME Reading
  PROVE  UNCHANGED <<files, op, meddled, odd>>
  BY DEF Reading, Get, RefreshStart, RefreshRevise, RefreshPropose, RefreshCheck, vars, files,
     history

LEMMA StartHolds ==
  ASSUME TypeOK, RefreshStart
  PROVE  Holds(refresh)'
  <1>1. UNCHANGED files BY DEF RefreshStart
  <1>2. PICK l \in Listed("dropout") :
          l \in Loc /\ refresh'.l = l /\ refresh'.old = ShowAt("dropout", l)
    BY StartIs
  <1>3. l.index <= Len(Raw("dropout", l.file)) BY <1>2, ListedIs DEF Platforms, Rereads
  <1> QED BY <1>1, <1>2, <1>3, StillThere DEF Holds

(* What a show that is being refreshed is listed under stays as it is.     *)
LEMMA OwnedStep ==
  ASSUME TypeOK, OpInv, AgreeInv, OwnedInv, [Next]_vars
  PROVE  OwnedInv'
  <1>1. SUFFICES ASSUME refresh' # NoRefresh, NEW F \in Stems \ odd', F = refresh'.l.file
                 PROVE  Importers(F)' = {"dropout"} \/ child'[F] = <<>>
    BY DEF OwnedInv, Importers, Imports
  <1>2. F = refresh'.l.file BY <1>1
  <1>3. CASE RefreshStart
    <2>1. UNCHANGED files /\ odd' = odd BY <1>3 DEF RefreshStart, history
    <2>2. Importers(F)' = Importers(F) /\ child' = child
      BY <2>1, FilesKept, KeptImporters DEF files
    <2>3. F \in Imports("dropout")
      <3>1. PICK l \in Listed("dropout") : refresh'.l = l BY <1>3, StartIs
      <3>2. l.file \in Imports("dropout") \cup {Inline} BY <3>1, ListedIs DEF Platforms
      <3> QED BY <1>2, <3>1, <3>2, FilesAssumption
    <2>4. "dropout" \in Importers(F) BY <2>3 DEF Importers, Platforms
    <2>5. StepInv(F) BY <2>1 DEF AgreeInv
    <2>6. child[F] = <<>> \/ Importers(F) = {"dropout"} BY <2>4, <2>5 DEF StepInv, InStep
    <2> QED BY <1>2, <2>2, <2>6
  <1>4. CASE refresh # NoRefresh /\ refresh'.l = refresh.l /\ ~RefreshStart
    <2>0. ~Request /\ ~Setting BY <1>4, AcceptedIs
    <2>1. F = refresh.l.file BY <1>2, <1>4
    <2>2. ASSUME F \notin odd PROVE Importers(F) = {"dropout"} \/ child[F] = <<>>
      BY <1>4, <2>1, <2>2 DEF OwnedInv
    <2>4. CASE Reading
      <3>1. UNCHANGED files /\ odd' = odd BY <2>4, ReadingKeeps
      <3> QED BY <2>2, <3>1, FilesKept, KeptImporters DEF ChildrenKept
    <2>5. CASE Save
      <3>1. odd' = odd BY <2>5, SaveIs
      <3>2. op.p \in Platforms /\ op.l.file \in Stems \cup {Inline}
        BY <2>5, SaveIs, BusyOp, OpFields
      <3>3. ImportsKept /\ ChildrenKept BY <2>5, <3>2, SaveIs, WriteKeeps, FilesKept
      <3> QED BY <2>2, <3>1, <3>3, KeptImporters DEF ChildrenKept
    <2>6. CASE Drop
      <3>1. odd' = odd BY <2>6, DropIs
      <3>2. op.p \in Platforms /\ op.l.file \in Stems \cup {Inline}
        BY <2>6, DropIs, BusyOp, OpFields
      <3>3. CASE UNCHANGED files BY <2>2, <3>1, <3>3, FilesKept, KeptImporters DEF ChildrenKept
      <3>4. CASE \E ss, rs \in Seq(Show) :
                    /\ ss = Raw(op.p, op.l.file) /\ Rereads(op.p, op.l)
                    /\ WriteFile(op.p, op.l.file, rs)
        <4>1. PICK rs \in Seq(Show) : WriteFile(op.p, op.l.file, rs) BY <3>4
        <4>2. /\ ImportsKept /\ \A g \in Stems : g # op.l.file => child'[g] = child[g]
          BY <3>2, <4>1, WriteKeeps
        <4>3. Importers(F)' = Importers(F) BY <4>2, KeptImporters
        <4>4. F = op.l.file => child[F] # <<>>
          BY <3>4, FilesAssumption DEF Rereads, Readable, Raw
        <4> QED BY <2>2, <3>1, <4>2, <4>3, <4>4
      <3> QED BY <2>6, <3>3, <3>4, DropIs
    <2>7. CASE Unlist
      <3>1. op.at = "unlist" /\ op.l.file \in Stems BY <2>7 DEF Unlist, OpInv
      <3>2. odd' = odd /\ child' = child BY <2>7, <3>1, UnlistIs
      <3>3. CASE F = op.l.file
        <4>1. child[F] = <<>> BY <3>1, <3>2, <3>3 DEF AgreeInv, StepInv, Pending
        <4> QED BY <3>2, <4>1
      <3>4. CASE F # op.l.file
        <4>1. \A p \in Platforms : F \in Imports(p)' <=> F \in Imports(p)
          BY <2>7, <3>1, <3>4, UnlistIs
        <4>2. Importers(F)' = Importers(F) BY <4>1 DEF Importers
        <4> QED BY <2>2, <3>2, <4>2
      <3> QED BY <3>3, <3>4
    <2>8. CASE AppendImport
      <3>1. op.at = "append" /\ op.l.file \in Stems BY <2>8 DEF AppendImport, OpInv
      <3>2. odd' = odd /\ child' = child BY <2>8, <3>1, AppendIs
      <3>3. F # op.l.file
        <4>1. F = op.l.file => child[F] # <<>> /\ Importers(F) = {}
          BY <3>1, <3>2 DEF AgreeInv, StepInv, Pending
        <4> QED BY <2>2, <3>2, <4>1
      <3>4. \A p \in Platforms : F \in Imports(p)' <=> F \in Imports(p)
        BY <2>8, <3>1, <3>3, AppendIs
      <3>5. Importers(F)' = Importers(F) BY <3>4 DEF Importers
      <3> QED BY <2>2, <3>2, <3>5
    <2>9. CASE HandEdit
      <3>1. odd \subseteq odd' /\ Importers(F)' = Importers(F) /\ child'[F] = child[F]
        BY <2>9, TextWrites, TextKeeps
      <3> QED BY <2>2, <3>1
    <2>10. CASE RefreshApply \/ Crash BY <1>1, <2>10 DEF RefreshApply, Crash
    <2> QED BY <2>0, <2>4, <2>5, <2>6, <2>7, <2>8, <2>9, <2>10, NextIs
  <1> QED BY <1>1, <1>3, <1>4, RefreshKeeps

(* What a refresh has read stays while a request writes another file.      *)
LEMMA BesideStep ==
  ASSUME TypeOK, OpInv, AgreeInv, HitInv, BesideInv, [Next]_vars
  PROVE  BesideInv'
  <1>1. SUFFICES ASSUME op'.at \in {"append", "unlist"}, ~meddled', op'.l.file \notin odd',
                        refresh' # NoRefresh
                 PROVE  /\ op'.at = "append" => refresh'.l.file # op'.l.file
                        /\ refresh'.l.file # op'.l.file => Holds(refresh)'
    BY DEF BesideInv
  <1>2. ~Request /\ ~Setting BY <1>1, AcceptedIs
  <1>3. CASE Reading
    <2>1. UNCHANGED <<files, op, meddled, odd>> BY <1>3, ReadingKeeps
    <2>2. CASE RefreshStart
      <3>1. Holds(refresh)' BY <2>2, StartHolds
      <3>2. PICK l \in Listed("dropout") : refresh'.l = l BY <2>2, StartIs
      <3>3. l.file \in Imports("dropout") \cup {Inline} BY <3>2, ListedIs DEF Platforms
      <3>4. ASSUME op.at = "append" PROVE l.file # op.l.file
        <4>1. op.l.file \in Stems \ odd BY <1>1, <2>1, <3>4 DEF OpInv
        <4>2. Importers(op.l.file) = {} BY <3>4, <4>1 DEF AgreeInv, StepInv, Pending
        <4> QED BY <3>3, <4>1, <4>2, FilesAssumption DEF Importers, Platforms
      <3> QED BY <2>1, <3>1, <3>2, <3>4
    <2>3. CASE refresh # NoRefresh /\ refresh'.l = refresh.l /\ refresh'.old = refresh.old
      BY <1>1, <2>1, <2>3, HoldsKept DEF BesideInv
    <2> QED BY <1>1, <2>2, <2>3, RefreshKeeps
  <1>4. CASE Drop
    <2>1. /\ op.at = "drop" /\ op.p \in Platforms /\ op.l.file \in Stems \cup {Inline} /\ op \in Op
          /\ ~meddled /\ refresh' = Counted(refresh)
      BY <1>1, <1>4, DropIs, BusyOp, OpFields
    <2>2. PICK rs \in Seq(Show) :
            /\ WriteFile(op.p, op.l.file, rs) /\ op.l.file # Inline
            /\ op' = [op EXCEPT !.at = "unlist"]
      BY <1>1, <1>4, DropIs DEF Idle
    <2>3. op'.at = "unlist" /\ op'.l.file = op.l.file BY <2>1, <2>2 DEF Op
    <2>4. /\ refresh # NoRefresh /\ refresh'.l = refresh.l /\ refresh'.old = refresh.old
      BY <1>1, <2>1, CountedIs
    <2>5. Holds(refresh) BY <2>1, <2>4 DEF HitInv
    <2>6. refresh.l.file \in Stems \cup {Inline} BY <2>4, RefreshFields
    <2>7. root' = root /\ \A g \in Stems : g # op.l.file => child'[g] = child[g]
      BY <2>1, <2>2, WriteKeeps DEF WriteFile
    <2>8. ASSUME refresh.l.file # op.l.file PROVE Holds(refresh)'
      <3>1. Raw("dropout", refresh.l.file)' = Raw("dropout", refresh.l.file)
        BY <2>4, <2>6, <2>7, <2>8 DEF Raw
      <3> QED BY <2>4, <2>5, <3>1 DEF Holds, ShowAt
    <2> QED BY <2>3, <2>4, <2>8
  <1>5. CASE Save \/ Unlist \/ AppendImport \/ Crash
    BY <1>1, <1>5 DEF Save, Unlist, AppendImport, Crash, Idle
  <1>6. CASE HandEdit
    <2>1. op' = op /\ meddled' = (op # Idle) BY <1>6 DEF HandEdit
    <2>2. CASE op = Idle BY <1>1, <2>1, <2>2 DEF Idle
    <2>3. CASE op # Idle BY <1>1, <2>1, <2>3
    <2> QED BY <2>2, <2>3
  <1>7. CASE RefreshApply BY <1>1, <1>7 DEF RefreshApply
  <1> QED BY <1>2, <1>3, <1>4, <1>5, <1>6, <1>7, NextIs

(* A request that changes a name has found the new one free.               *)
LEMMA RequestNames ==
  ASSUME TypeOK, AddSource \/ DeleteSource \/ PutSeries \/ PutSeriesYaml \/ DeleteSeries
  PROVE  /\ op'.at \in {"put", "drop"} /\ UNCHANGED files
         /\ op'.at = "put" => op'.new.name = op'.old.name \/ op'.new.name \notin AllNames
  <1>1. ASSUME NEW p \in Platforms, NEW l \in Listed(p), NEW new, NEW asked, NEW at,
               Begin(at, p, l, new, asked)
        PROVE  /\ op'.at = at /\ op'.new = new /\ op'.old = ShowAt(p, l) /\ UNCHANGED files
               /\ ShowAt(p, l) \in Show
    BY <1>1, ListedIs DEF Begin
  <1>2. ASSUME NEW s \in Show, NEW ss PROVE [s EXCEPT !.sources = ss].name = s.name
    BY DEF Show
  <1>3. CASE AddSource
    <2>1. PICK p \in Platforms : \E l \in Reached(p), new \in Discovered(p) :
            Begin("put", p, l, [ShowAt(p, l) EXCEPT !.sources = @ \o new], NoSource)
      BY <1>3 DEF AddSource
    <2>2. PICK l \in Reached(p), found \in Discovered(p) :
            Begin("put", p, l, [ShowAt(p, l) EXCEPT !.sources = @ \o found], NoSource)
      BY <2>1
    <2>3. l \in Listed(p) BY ReachedListed
    <2>4. PICK ss : ss = ShowAt(p, l).sources \o found OBVIOUS
    <2>5. PICK new : new = [ShowAt(p, l) EXCEPT !.sources = ss] OBVIOUS
    <2>6. Begin("put", p, l, new, NoSource) BY <2>2, <2>4, <2>5
    <2>7. op'.at = "put" /\ op'.new = new /\ op'.old = ShowAt(p, l) /\ UNCHANGED files
      BY <1>1, <2>3, <2>6
    <2>8. new.name = ShowAt(p, l).name BY <1>1, <1>2, <2>3, <2>5, <2>6
    <2> QED BY <2>7, <2>8
  <1>4. CASE DeleteSource
    <2>1. PICK p \in Platforms : p = seen.p BY <1>4, TypeParts DEF DeleteSource, SeenOK
    <2>2. PICK l \in Listed(p), i \in 1..Len(seen.show.sources) :
            Begin("put", p, l, [ShowAt(p, l) EXCEPT !.sources = Without(@, i)],
                  <<seen.show.sources[i]>>)
      BY <1>4, <2>1 DEF DeleteSource
    <2>3. PICK ss : ss = Without(ShowAt(p, l).sources, i) OBVIOUS
    <2>4. PICK new : new = [ShowAt(p, l) EXCEPT !.sources = ss] OBVIOUS
    <2>5. Begin("put", p, l, new, <<seen.show.sources[i]>>) BY <2>2, <2>3, <2>4
    <2>6. op'.at = "put" /\ op'.new = new /\ op'.old = ShowAt(p, l) /\ UNCHANGED files
      BY <1>1, <2>5
    <2>7. new.name = ShowAt(p, l).name BY <1>1, <1>2, <2>4, <2>5
    <2> QED BY <2>6, <2>7
  <1>5. ASSUME NEW p \in Platforms, NEW l \in Listed(p), NEW new, Replace(p, l, new)
        PROVE  /\ op'.at = "put" /\ UNCHANGED files
               /\ op'.new.name = op'.old.name \/ op'.new.name \notin AllNames
    <2>1. Begin("put", p, l, new, NoSource) /\ ~Conflicts(p, ShowAt(p, l), new)
      BY <1>5 DEF Replace
    <2>2. new.name = ShowAt(p, l).name \/ new.name \notin AllNames BY <2>1 DEF Conflicts
    <2> QED BY <1>1, <2>1, <2>2
  <1>6. CASE PutSeries
    <2>1. PICK p \in Platforms : p = seen.p BY <1>6, TypeParts DEF PutSeries, SeenOK
    <2>2. PICK l \in Listed(p), body \in Changed(seen.show) : Replace(p, l, FromDetail(p, body))
      BY <1>6, <2>1 DEF PutSeries
    <2> QED BY <1>5, <2>2
  <1>7. CASE PutSeriesYaml
    <2>1. PICK p \in Platforms : \E l \in Reached(p) : \E new : Replace(p, l, new)
      BY <1>7 DEF PutSeriesYaml
    <2> QED BY <1>5, <2>1, ReachedListed
  <1>8. CASE DeleteSeries
    <2>1. PICK p \in Platforms : \E l \in Reached(p) : Begin("drop", p, l, ShowAt(p, l), NoSource)
      BY <1>8 DEF DeleteSeries
    <2> QED BY <1>1, <2>1, ReachedListed
  <1> QED BY <1>3, <1>4, <1>6, <1>7, <1>8

(* Where a request writes its file, and who lists that file.               *)
LEMMA WriteRaw ==
  ASSUME TypeOK, NEW p \in Platforms, NEW f \in Stems \cup {Inline}, NEW ss, WriteFile(p, f, ss)
  PROVE  \A q \in Platforms, g \in Stems \cup {Inline} :
           Raw(q, g)' = IF g = f /\ (f = Inline => q = p) THEN ss ELSE Raw(q, g)
  <1>1. root \in [Platforms -> Root] /\ child \in [Stems -> Seq(Show)] BY DEF TypeOK
  <1>2. CASE f = Inline
    <2>1. root' = [root EXCEPT ![p] = [root[p] EXCEPT !.inline = ss]] /\ child' = child
      BY <1>2 DEF WriteFile
    <2>2. [root[p] EXCEPT !.inline = ss].inline = ss BY <1>1 DEF Root
    <2>3. root'[p].inline = ss /\ \A q \in Platforms : q # p => root'[q] = root[q]
      BY <1>1, <2>1, <2>2
    <2> QED BY <1>2, <2>1, <2>3 DEF Raw
  <1>3. CASE f # Inline
    <2>1. child' = [child EXCEPT ![f] = ss] /\ root' = root BY <1>3 DEF WriteFile
    <2>2. child'[f] = ss /\ \A g \in Stems : g # f => child'[g] = child[g] BY <1>1, <1>3, <2>1
    <2> QED BY <1>3, <2>1, <2>2 DEF Raw
  <1> QED BY <1>2, <1>3

LEMMA OneLister ==
  ASSUME TypeOK, OpInv, AgreeInv, op.at \in {"put", "drop"}, op.l.file \notin odd,
         Rereads(op.p, op.l), NEW q \in Platforms, op.l.file \in Imports(q)
  PROVE  q = op.p
  <1>1. op.p \in Platforms /\ op.l.file \in Stems BY BusyOp, OpFields, ImportsStems
  <1>2. op.l.file # Inline BY <1>1, FilesAssumption
  <1>3. child[op.l.file] # <<>> BY <1>2 DEF Rereads, Readable, Raw
  <1>4. PICK p \in Platforms : Importers(op.l.file) = {p}
    BY <1>1, <1>3, NotPending DEF AgreeInv, InStep
  <1>5. op.p \in Importers(op.l.file) /\ q \in Importers(op.l.file) BY <1>2 DEF OpInv, Importers
  <1> QED BY <1>4, <1>5

(* A save names its show as it was, or by a free name.                     *)
LEMMA SaveNames ==
  ASSUME TypeOK, TypeOK', OpInv, AgreeInv, HitInv, NamedInv, Save,
         ~meddled, op.l.file \notin odd, DistinctNames
  PROVE  DistinctNames'
  <1>1. /\ op.at = "put" /\ op.p \in Platforms /\ op.l \in Loc /\ op.new \in Show /\ op.old \in Show
        /\ op.l.file \in Stems \cup {Inline}
    BY SaveIs, BusyOp, OpFields
  <1>2. CASE UNCHANGED files BY <1>2, FilesNames, NoneNewNames
  <1>3. CASE ~UNCHANGED files
    <2>1. PICK ss, rs \in Seq(Show) :
            /\ ss = Raw(op.p, op.l.file) /\ Rereads(op.p, op.l)
            /\ WriteFile(op.p, op.l.file, rs) /\ Len(rs) = Len(ss)
            /\ op.l.index \in 1..Len(ss)
            /\ \A j \in 1..Len(ss) :
                 rs[j] = IF j = op.l.index THEN op.new ELSE ReadAs(op.p, ss[j])
      BY <1>3, SaveIs
    <2>0. \A q \in Platforms, g \in Stems \cup {Inline} :
            Raw(q, g)' = IF g = op.l.file /\ (op.l.file = Inline => q = op.p)
                         THEN rs ELSE Raw(q, g)
      <3>1. PICK P \in Platforms, F \in Stems \cup {Inline} : P = op.p /\ F = op.l.file BY <1>1
      <3>2. WriteFile(P, F, rs) BY <2>1, <3>1
      <3>3. \A q \in Platforms, g \in Stems \cup {Inline} :
              Raw(q, g)' = IF g = F /\ (F = Inline => q = P) THEN rs ELSE Raw(q, g)
        BY <3>2, WriteRaw
      <3> QED BY <3>1, <3>3
    <2>2. \A q \in Platforms : Imports(q)' = Imports(q)
      BY <1>1, <2>1, WriteKeeps, KeptImporters
    <2>3. ASSUME NEW q \in Platforms, NEW k \in Listed(q)'
          PROVE  \/ q = op.p /\ k = op.l /\ ShowAt(q, k)'.name = op.new.name
                 \/ k \in Listed(q) /\ ShowAt(q, k)'.name = ShowAt(q, k).name
      <3>1. k \in Loc /\ k.file \in Imports(q) \cup {Inline} /\ Rereads(q, k)'
        BY <2>2, ListedNext
      <3>2. k.file \in Stems \cup {Inline} BY <3>1 DEF Loc
      <3>3. CASE ~(k.file = op.l.file /\ (op.l.file = Inline => q = op.p))
        <4>1. Raw(q, k.file)' = Raw(q, k.file) BY <2>0, <3>2, <3>3
        <4>2. Rereads(q, k) /\ ShowAt(q, k)' = ShowAt(q, k) BY <3>1, <4>1 DEF Rereads, ShowAt
        <4> QED BY <3>1, <4>2, ListedIff
      <3>4. CASE k.file = op.l.file /\ (op.l.file = Inline => q = op.p)
        <4>1. q = op.p
          <5>1. CASE op.l.file = Inline BY <3>4, <5>1
          <5>2. CASE op.l.file # Inline
            <6>1. op.l.file \in Imports(q) BY <3>1, <3>4, <5>2
            <6> QED BY <1>1, <2>1, <6>1, OneLister
          <5> QED BY <5>1, <5>2
        <4>2. Raw(q, k.file)' = rs BY <2>0, <3>2, <3>4, <4>1
        <4>3. k.index \in 1..Len(ss)
          <5>1. k.index \in Nat \ {0} /\ Len(ss) \in Nat BY <3>1 DEF Loc
          <5> QED BY <2>1, <3>1, <4>2, <5>1 DEF Rereads
        <4>4. Rereads(q, k)
          <5>1. Len(ss) \in Nat OBVIOUS
          <5> QED BY <2>1, <3>4, <4>1, <4>3, <5>1 DEF Rereads
        <4>5. ShowAt(q, k).name = ss[k.index].name BY <2>1, <3>1, <3>4, <4>1, <4>4, NameIs
        <4>6. ShowAt(q, k)' = ReadAs(q, rs[k.index]) BY <4>2 DEF ShowAt, ReadAs
        <4>7. rs[k.index] \in Show /\ ss[k.index] \in Show BY <2>1, <4>3
        <4>8. ShowAt(q, k)'.name = rs[k.index].name BY <4>6, <4>7, ReadAsTyped
        <4>9. CASE k.index # op.l.index
          <5>1. rs[k.index] = ReadAs(q, ss[k.index]) BY <2>1, <4>1, <4>3, <4>9
          <5>2. rs[k.index].name = ss[k.index].name BY <4>7, <5>1, ReadAsTyped
          <5>3. k \in Listed(q) BY <3>1, <4>4, ListedIff
          <5> QED BY <4>5, <4>8, <5>2, <5>3
        <4>10. CASE k.index = op.l.index
          <5>1. k = op.l BY <1>1, <3>1, <3>4, <4>10 DEF Loc
          <5>2. rs[k.index] = op.new BY <2>1, <4>3, <4>10
          <5> QED BY <4>1, <4>8, <5>1, <5>2
        <4> QED BY <4>9, <4>10
      <3> QED BY <3>3, <3>4
    <2>4. CASE op.new.name \notin AllNames
      <3>1. PICK P, L, n : P = op.p /\ L = op.l /\ n = op.new.name OBVIOUS
      <3>2. \A q \in Platforms : \A k \in Listed(q)' :
              \/ q = P /\ k = L /\ ShowAt(q, k)'.name = n
              \/ k \in Listed(q) /\ ShowAt(q, k)'.name = ShowAt(q, k).name
        BY <2>3, <3>1
      <3>3. n \notin AllNames BY <2>4, <3>1
      <3> QED BY <3>2, <3>3, OneNewName
    <2>5. CASE op.new.name = op.old.name
      <3>1. ShowAt(op.p, op.l).name = op.old.name
        <4>1. ShowAt(op.p, op.l) \in Merged(op.old) BY <1>1 DEF HitInv
        <4> QED BY <1>1, <4>1, MergedTyped
      <3>2. ASSUME NEW q \in Platforms, NEW k \in Listed(q)', q = op.p, k = op.l
            PROVE  k \in Listed(q)
        <4>1. k \in Loc /\ k.file \in Imports(q) \cup {Inline} BY <2>2, ListedNext
        <4> QED BY <2>1, <3>2, <4>1, ListedIff
      <3>3. NoneNew BY <2>3, <2>5, <3>1, <3>2 DEF NoneNew
      <3> QED BY <3>3, NoneNewNames
    <2> QED BY <1>1, <2>4, <2>5 DEF NamedInv
  <1> QED BY <1>2, <1>3

(* A deletion moves the shows after it down, each under its name.          *)
LEMMA DropNames ==
  ASSUME TypeOK, TypeOK', OpInv, AgreeInv, Drop, op.l.file \notin odd, DistinctNames
  PROVE  DistinctNames'
  <1>1. /\ op.at = "drop" /\ op.p \in Platforms /\ op.l \in Loc
        /\ op.l.file \in Stems \cup {Inline}
    BY DropIs, BusyOp, OpFields
  <1>2. CASE UNCHANGED files BY <1>2, FilesNames, NoneNewNames
  <1>3. CASE ~UNCHANGED files
    <2>1. PICK ss, rs \in Seq(Show) :
            /\ ss = Raw(op.p, op.l.file) /\ Rereads(op.p, op.l)
            /\ WriteFile(op.p, op.l.file, rs) /\ Len(rs) = Len(ss) - 1
            /\ op.l.index \in 1..Len(ss)
            /\ \A j \in 1..Len(rs) :
                 rs[j] = ReadAs(op.p, ss[IF j < op.l.index THEN j ELSE j + 1])
      BY <1>3, DropIs
    <2>2. PICK P \in Platforms, F \in Stems \cup {Inline}, i \in Nat \ {0} :
            P = op.p /\ F = op.l.file /\ i = op.l.index
      BY <1>1 DEF Loc
    <2>3. \A q \in Platforms, g \in Stems \cup {Inline} :
            Raw(q, g)' = IF g = F /\ (F = Inline => q = P) THEN rs ELSE Raw(q, g)
      <3>1. WriteFile(P, F, rs) BY <2>1, <2>2
      <3> QED BY <3>1, WriteRaw
    <2>4. \A q \in Platforms : Imports(q)' = Imports(q)
      BY <1>1, <2>1, WriteKeeps, KeptImporters
    <2> DEFINE Was(q, k, b) ==
          /\ b \in Listed(q) /\ b.file = k.file
          /\ b.index = IF q = P /\ k.file = F /\ ~(k.index < i) THEN k.index + 1 ELSE k.index
    <2>5. ASSUME NEW q \in Platforms, NEW k \in Listed(q)'
          PROVE  k \in Loc /\ \E b : Was(q, k, b) /\ ShowAt(q, k)'.name = ShowAt(q, b).name
      <3>1. k \in Loc /\ k.file \in Imports(q) \cup {Inline} /\ Rereads(q, k)'
        BY <2>4, ListedNext
      <3>2. k.file \in Stems \cup {Inline} /\ k.index \in Nat \ {0} BY <3>1 DEF Loc
      <3>3. CASE ~(k.file = F /\ (F = Inline => q = P))
        <4>1. Raw(q, k.file)' = Raw(q, k.file) BY <2>3, <3>2, <3>3
        <4>2. Rereads(q, k) /\ ShowAt(q, k)' = ShowAt(q, k) BY <3>1, <4>1 DEF Rereads, ShowAt
        <4>3. Was(q, k, k) BY <3>1, <3>3, <4>2, ListedIff
        <4> QED BY <3>1, <4>2, <4>3
      <3>4. CASE k.file = F /\ (F = Inline => q = P)
        <4>1. q = P
          <5>1. CASE F = Inline BY <3>4, <5>1
          <5>2. CASE F # Inline
            <6>1. op.l.file \in Imports(q) BY <2>2, <3>1, <3>4, <5>2
            <6> QED BY <1>1, <2>1, <2>2, <6>1, OneLister
          <5> QED BY <5>1, <5>2
        <4>2. Raw(q, k.file)' = rs BY <2>3, <3>2, <3>4, <4>1
        <4>3. Len(ss) \in Nat /\ Len(rs) = Len(ss) - 1 /\ k.index \in 1..Len(rs)
          <5>1. k.index <= Len(rs) BY <3>1, <4>2 DEF Rereads
          <5> QED BY <2>1, <3>2, <5>1
        <4>4. PICK j \in Nat \ {0} : j = IF ~(k.index < i) THEN k.index + 1 ELSE k.index
          BY <3>2
        <4>5. PICK b \in Loc : b = [file |-> F, index |-> j] BY DEF Loc
        <4>6. b.file = F /\ b.index = j BY <4>5
        <4>7. j \in 1..Len(ss) BY <3>2, <4>3, <4>4
        <4>8. Rereads(q, b) BY <2>1, <2>2, <4>1, <4>6, <4>7 DEF Rereads
        <4>9. Was(q, k, b) BY <3>1, <3>4, <4>1, <4>4, <4>6, <4>8, ListedIff
        <4>10. ShowAt(q, b).name = ss[j].name BY <2>1, <2>2, <4>1, <4>6, <4>8, NameIs
        <4>11. rs[k.index] = ReadAs(P, ss[j]) BY <2>1, <2>2, <3>2, <4>3, <4>4
        <4>12. ShowAt(q, k)' = ReadAs(q, rs[k.index]) BY <4>2 DEF ShowAt, ReadAs
        <4>13. rs[k.index] \in Show /\ ss[j] \in Show BY <2>1, <4>3, <4>7
        <4>14. ShowAt(q, k)'.name = rs[k.index].name BY <4>12, <4>13, ReadAsTyped
        <4>15. rs[k.index].name = ss[j].name BY <4>11, <4>13, ReadAsTyped
        <4> QED BY <3>1, <4>9, <4>10, <4>14, <4>15
      <3> QED BY <3>3, <3>4
    <2>6. ASSUME NEW q \in Platforms, NEW k \in Loc, NEW l \in Loc, NEW b,
                 Was(q, k, b), Was(q, l, b)
          PROVE  k = l
      <3>1. k.index \in Nat /\ l.index \in Nat BY DEF Loc
      <3>2. k.file = l.file BY <2>6
      <3>3. k.index = l.index BY <2>6, <3>1, <3>2
      <3> QED BY <3>2, <3>3 DEF Loc
    <2>7. SUFFICES ASSUME NEW p \in Platforms, NEW q \in Platforms,
                          NEW k \in Listed(p)', NEW l \in Listed(q)',
                          ShowAt(p, k)'.name = ShowAt(q, l)'.name
                   PROVE  p = q /\ k = l
      BY DEF DistinctNames
    <2>8. PICK b : Was(p, k, b) /\ ShowAt(p, k)'.name = ShowAt(p, b).name BY <2>5
    <2>9. PICK c : Was(q, l, c) /\ ShowAt(q, l)'.name = ShowAt(q, c).name BY <2>5
    <2>10. p = q /\ b = c
      <3>1. b \in Listed(p) /\ c \in Listed(q) BY <2>8, <2>9
      <3> HIDE DEF Was
      <3>2. ShowAt(p, b).name = ShowAt(q, c).name BY <2>7, <2>8, <2>9
      <3> QED BY <3>1, <3>2 DEF DistinctNames
    <2>11. k \in Loc /\ l \in Loc BY <2>5
    <2>12. Was(p, k, b) /\ Was(p, l, b) BY <2>8, <2>9, <2>10
    <2> HIDE DEF Was
    <2> QED BY <2>6, <2>10, <2>11, <2>12
  <1> QED BY <1>2, <1>3

(* A created show that becomes listed has a free name.                     *)
LEMMA AppendNames ==
  ASSUME TypeOK, TypeOK', OpInv, AgreeInv, NamedInv, AppendImport,
         ~meddled, op.l.file \notin odd, DistinctNames
  PROVE  DistinctNames'
  <1>1. op.at = "append" /\ op.l.file \in Stems BY DEF AppendImport, OpInv
  <1>2. PICK P \in Platforms, F \in Stems, new \in Show :
          P = op.p /\ F = op.l.file /\ new = op.new
    BY <1>1, BusyOp, OpFields
  <1>3. child[F] = <<new>> /\ new.name \notin AllNames BY <1>1, <1>2 DEF NamedInv
  <1>4. /\ \A p \in Platforms : Imports(p)' = IF p = P THEN Imports(p) \cup {F} ELSE Imports(p)
        /\ \A p \in Platforms : root'[p].inline = root[p].inline
        /\ child' = child
    BY <1>1, <1>2, AppendIs
  <1>5. \A p \in Platforms : \A f : Raw(p, f)' = Raw(p, f) BY <1>4 DEF Raw
  <1>6. PICK L \in Loc : L = [file |-> F, index |-> 1]
    <2>1. [file |-> F, index |-> 1] \in Loc BY DEF Loc
    <2> QED BY <2>1
  <1>7. ASSUME NEW q \in Platforms, NEW k \in Listed(q)'
        PROVE  \/ q = P /\ k = L /\ ShowAt(q, k)'.name = new.name
               \/ k \in Listed(q) /\ ShowAt(q, k)'.name = ShowAt(q, k).name
    <2>1. k \in Loc /\ k.file \in Imports(q)' \cup {Inline} /\ Rereads(q, k)' BY ListedNext
    <2>2. Raw(q, k.file)' = Raw(q, k.file) BY <1>5
    <2>3. Rereads(q, k) /\ ShowAt(q, k)' = ShowAt(q, k) BY <2>1, <2>2 DEF Rereads, ShowAt
    <2>4. CASE k.file \in Imports(q) \cup {Inline} BY <2>1, <2>3, <2>4, ListedIff
    <2>5. CASE k.file \notin Imports(q) \cup {Inline}
      <3>1. q = P /\ k.file = F BY <1>4, <2>1, <2>5
      <3>2. Raw(q, k.file) = <<new>> BY <1>3, <3>1, FilesAssumption DEF Raw
      <3>3. k.index = 1 BY <2>1, <2>3, <3>2 DEF Rereads, Loc
      <3>4. k = L BY <1>6, <2>1, <3>1, <3>3 DEF Loc
      <3>5. ShowAt(q, k).name = new.name BY <2>1, <2>3, <3>2, <3>3, NameIs
      <3> QED BY <2>3, <3>1, <3>4, <3>5
    <2> QED BY <2>4, <2>5
  <1>8. PICK n : n = new.name OBVIOUS
  <1> QED BY <1>3, <1>7, <1>8, OneNewName

(* A refresh writes over what it has read, or a file of its platform alone,*)
(* if the request beside it or its own file is in step.                    *)
LEMMA ApplyInStep ==
  ASSUME TypeOK, TypeOK', OpInv, AgreeInv, HitInv, ProposalInv, BesideInv, OwnedInv,
         RefreshApply,
         \/ op # Idle /\ ~meddled /\ op.l.file \notin odd
         \/ refresh.l.file \notin odd
  PROVE  NoneNew
  <1>1. refresh # NoRefresh BY UnderWay DEF RefreshApply
  <1>2. PICK F \in Stems \cup {Inline} : F = refresh.l.file BY <1>1, RefreshFields
  <1>3. CASE F \in Stems /\ child[F] = <<>>
    <2>1. ~Swappable BY <1>2, <1>3, FilesAssumption DEF Swappable, Rereads, Readable, Raw
    <2>2. UNCHANGED files BY <2>1 DEF RefreshApply
    <2> QED BY <2>2, FilesNames
  <1>4. CASE Holds(refresh) BY <1>4, ApplyNames
  <1>5. ASSUME F \notin odd
        PROVE  (F \in Stems /\ child[F] = <<>>) \/ "youtube" \notin Importers(F)
    <2>1. CASE F \in Stems BY <1>1, <1>2, <1>5, <2>1 DEF OwnedInv
    <2>2. CASE F = Inline BY <2>2, ImportsStems, FilesAssumption DEF Importers
    <2> QED BY <2>1, <2>2
  <1>6. ASSUME op # Idle, ~meddled, op.l.file \notin odd
        PROVE  (F \in Stems /\ child[F] = <<>>) \/ Holds(refresh)
    <2>1. op.at \in {"put", "drop", "append", "unlist"} /\ op.l.file \in Stems \cup {Inline}
      BY <1>6, OpFields
    <2>2. CASE op.at \in {"put", "drop"} BY <1>1, <1>6, <2>2 DEF HitInv
    <2>3. CASE op.at \in {"append", "unlist"} /\ F # op.l.file
      BY <1>1, <1>2, <1>6, <2>3 DEF BesideInv
    <2>4. CASE op.at = "append" /\ F = op.l.file BY <1>1, <1>2, <1>6, <2>4 DEF BesideInv
    <2>5. CASE op.at = "unlist" /\ F = op.l.file
      BY <1>6, <2>5 DEF OpInv, AgreeInv, StepInv, Pending
    <2> QED BY <2>1, <2>2, <2>3, <2>4, <2>5
  <1>7. CASE "youtube" \notin Importers(F) BY <1>2, <1>7, ApplyNames
  <1> QED BY <1>2, <1>3, <1>4, <1>5, <1>6, <1>7

(* The name a request will write stays free until it is written.           *)
LEMMA NamedStep ==
  ASSUME TypeOK, TypeOK', OpInv, AgreeInv, HitInv, ProposalInv, NameInv, [Next]_vars
  PROVE  NamedInv'
  <1>0. NamedInv /\ BesideInv /\ OwnedInv BY DEF NameInv
  <1>1. ASSUME UNCHANGED <<op, meddled, odd>>, AllNames' \subseteq AllNames,
               op.at = "append" /\ ~meddled /\ op.l.file \notin odd
                 => child'[op.l.file] = child[op.l.file]
        PROVE  NamedInv'
    BY <1>0, <1>1 DEF NamedInv
  <1>2. CASE op' = Idle BY <1>2 DEF NamedInv, Idle
  <1>3. CASE Request /\ ~CreateSeries
    <2>1. /\ op'.at \in {"put", "drop"} /\ UNCHANGED files
          /\ op'.at = "put" => op'.new.name = op'.old.name \/ op'.new.name \notin AllNames
      BY <1>3, RequestNames DEF Request
    <2>2. AllNames' \subseteq AllNames BY <2>1, FilesNames, NoneNewNames
    <2> QED BY <2>1, <2>2 DEF NamedInv
  <1>4. CASE CreateSeries
    <2>1. PICK p \in Platforms, n \in Names, g \in Paths : Created(p, n, g)
      BY <1>4, CreateSeriesIs
    <2>2. odd' = odd BY <1>4, CreateSeriesIs
    <2>3. PICK F \in Stems, new \in Show : F = SlugOf[n] /\ new = NewShow(p, n, g)
      BY NewShowTyped
    <2>4. op'.at = "append" /\ op'.l.file = F /\ op'.new = new BY <2>1, <2>3 DEF Created
    <2>5. new.name = n /\ n \notin AllNames BY <2>1, <2>3 DEF Created, NewShow
    <2>6. child'[F] = <<new>> BY <2>1, <2>3 DEF Created, TypeOK
    <2>7. op'.l.file \notin odd => AllNames' \subseteq AllNames
      BY <1>4, CreateNames, NoneNewNames
    <2> QED BY <2>2, <2>4, <2>5, <2>6, <2>7 DEF NamedInv
  <1>5. CASE Setting
    <2>1. op = Idle /\ op' = op
      BY <1>5, AcceptedIs DEF Setting, PutPlatform, PutManifest, PutImport
    <2> QED BY <1>2, <2>1
  <1>6. CASE Reading
    <2>1. UNCHANGED <<files, op, meddled, odd>> BY <1>6, ReadingKeeps
    <2>2. AllNames' \subseteq AllNames BY <2>1, FilesNames, NoneNewNames
    <2> QED BY <1>1, <2>1, <2>2 DEF files
  <1>7. CASE Save \/ Unlist \/ AppendImport \/ Crash
    BY <1>2, <1>7 DEF Save, Unlist, AppendImport, Crash
  <1>8. CASE Drop
    <2>1. op' = Idle \/ op'.at = "unlist"
      <3>1. op \in Op BY <1>8, DropIs, BusyOp, OpFields
      <3>2. [op EXCEPT !.at = "unlist"].at = "unlist" BY <3>1 DEF Op
      <3> QED BY <1>8, <3>2, DropIs
    <2> QED BY <1>2, <2>1 DEF NamedInv
  <1>9. CASE HandEdit
    <2>1. op' = op /\ meddled' = (op # Idle) BY <1>9 DEF HandEdit
    <2>2. CASE op = Idle BY <1>2, <2>1, <2>2
    <2>3. CASE op # Idle BY <2>1, <2>3 DEF NamedInv
    <2> QED BY <2>2, <2>3
  <1>10. CASE RefreshApply
    <2>1. UNCHANGED <<op, meddled, odd>> /\ refresh # NoRefresh
      BY <1>10, UnderWay DEF RefreshApply, history
    <2>2. CASE op = Idle BY <1>2, <2>1, <2>2
    <2>3. CASE op.at = "put" /\ ~meddled
      <3>1. Holds(refresh) BY <2>1, <2>3 DEF HitInv
      <3>2. AllNames' \subseteq AllNames BY <1>10, <3>1, ApplyNames, NoneNewNames
      <3> QED BY <1>1, <2>1, <2>3, <3>2
    <2>4. CASE op.at = "append" /\ ~meddled /\ op.l.file \notin odd
      <3>1. op # Idle BY <2>4, BusyOp
      <3>2. AllNames' \subseteq AllNames
        BY <1>0, <1>10, <2>4, <3>1, ApplyInStep, NoneNewNames
      <3>3. op.l.file \in Stems /\ refresh.l.file # op.l.file
        BY <1>0, <2>1, <2>4 DEF OpInv, BesideInv
      <3>4. child'[op.l.file] = child[op.l.file]
        <4>1. CASE Swappable
          <5>1. PICK f \in Stems : f = op.l.file BY <3>3
          <5>2. Raw("youtube", f)' = Raw("youtube", f)
            BY <1>10, <3>3, <4>1, <5>1, ApplyWrites DEF Platforms
          <5> QED BY <5>1, <5>2, FilesAssumption DEF Raw
        <4>2. CASE ~Swappable BY <1>10, <4>2 DEF RefreshApply, files
        <4> QED BY <4>1, <4>2
      <3> QED BY <1>1, <2>1, <3>2, <3>4
    <2>5. CASE ~(op.at = "put" /\ ~meddled)
               /\ ~(op.at = "append" /\ ~meddled /\ op.l.file \notin odd)
      BY <2>1, <2>5 DEF NamedInv
    <2> QED BY <2>3, <2>4, <2>5
  <1> QED BY <1>3, <1>4, <1>5, <1>6, <1>7, <1>8, <1>9, <1>10, NextIs

(* Each step that NamesStayDistinct is about.                              *)
LEMMA NamesStep ==
  ASSUME IInv, TypeOK', NameInv, [Next]_vars, DistinctNames,
         \/ /\ op # Idle \/ op' # Idle
            /\ ~meddled' /\ (IF op = Idle THEN op' ELSE op).l.file \notin odd
         \/ refresh.at = "checked" /\ refresh' = NoRefresh /\ refresh.l.file \notin odd
  PROVE  DistinctNames'
  <1>0. /\ TypeOK /\ OpInv /\ AgreeInv /\ HitInv /\ ProposalInv
        /\ NamedInv /\ BesideInv /\ OwnedInv
    BY DEF IInv, NameInv
  <1>1. CASE UNCHANGED files BY <1>0, <1>1, FilesNames, NoneNewNames
  <1>2. ASSUME refresh' = Counted(refresh)
        PROVE  ~(refresh.at = "checked" /\ refresh' = NoRefresh)
    BY <1>0, <1>2, CountedIs DEF NoRefresh
  <1>3. ASSUME refresh' = Counted(refresh), op # Idle, meddled' = meddled
        PROVE  ~meddled /\ op.l.file \notin odd
    BY <1>2, <1>3
  <1>4. CASE Request /\ ~CreateSeries BY <1>0, <1>1, <1>4, RequestNames DEF Request
  <1>5. CASE CreateSeries
    <2>1. op = Idle /\ refresh = NoRefresh BY <1>0, <1>5, AcceptedIs DEF Request
    <2>2. op'.l.file \notin odd BY <2>1 DEF NoRefresh
    <2> QED BY <1>0, <1>5, <2>2, CreateNames, NoneNewNames
  <1>6. CASE Setting
    <2>1. op = Idle /\ refresh = NoRefresh BY <1>0, <1>6, AcceptedIs
    <2>2. op' = op BY <1>6 DEF Setting, PutPlatform, PutManifest, PutImport
    <2> QED BY <2>1, <2>2 DEF NoRefresh
  <1>7. CASE Reading BY <1>1, <1>7, ReadingKeeps
  <1>8. CASE Save
    <2>1. refresh' = Counted(refresh) /\ op # Idle /\ meddled' = meddled
      BY <1>8 DEF Save, history, Idle
    <2> QED BY <1>0, <1>3, <1>8, <2>1, SaveNames
  <1>9. CASE Drop
    <2>1. refresh' = Counted(refresh) /\ op # Idle /\ meddled' = meddled
      BY <1>9 DEF Drop, history, Idle
    <2> QED BY <1>0, <1>3, <1>9, <2>1, DropNames
  <1>10. CASE Unlist BY <1>0, <1>10, UnlistNames, NoneNewNames
  <1>11. CASE AppendImport
    <2>1. refresh' = Counted(refresh) /\ op # Idle /\ meddled' = meddled
      BY <1>11 DEF AppendImport, history, Idle
    <2> QED BY <1>0, <1>3, <1>11, <2>1, AppendNames
  <1>12. CASE HandEdit
    <2>1. op' = op /\ meddled' = (op # Idle) /\ refresh' = Counted(refresh)
      BY <1>12 DEF HandEdit
    <2> QED BY <1>2, <2>1
  <1>13. CASE RefreshApply
    <2>1. op' = op /\ meddled' = meddled BY <1>13 DEF RefreshApply, history
    <2>2. \/ op # Idle /\ ~meddled /\ op.l.file \notin odd
          \/ refresh.l.file \notin odd
      BY <2>1
    <2> QED BY <1>0, <1>13, <2>2, ApplyInStep, NoneNewNames
  <1>14. CASE Crash BY <1>1, <1>14 DEF Crash
  <1> QED BY <1>4, <1>5, <1>6, <1>7, <1>8, <1>9, <1>10, <1>11, <1>12, <1>13, <1>14, NextIs

(* What the names rest on is inductive, given the rest of the invariant.   *)
THEOREM NameInvariance == Spec => [](IInv /\ NameInv)
  <1>1. Init => IInv /\ NameInv
    <2>1. Init => IInv BY InitInv
    <2>2. ASSUME Init PROVE NameInv
      BY <2>2 DEF Init, NameInv, NamedInv, BesideInv, OwnedInv, Idle
    <2> QED BY <2>1, <2>2
  <1>2. ASSUME IInv, NameInv, [Next]_vars
        PROVE  IInv' /\ NameInv'
    <2>1. IInv'
      BY <1>2, TypeStep, AgreeStep, HitStep, ProposalStep, LossStep DEF IInv
    <2>2. NamedInv' BY <1>2, <2>1, NamedStep DEF IInv
    <2>3. BesideInv' BY <1>2, BesideStep DEF IInv, NameInv
    <2>4. OwnedInv' BY <1>2, OwnedStep DEF IInv, NameInv
    <2> QED BY <2>1, <2>2, <2>3, <2>4 DEF NameInv
  <1> QED BY <1>1, <1>2, PTL DEF Spec

(* No request and no refresh gives a listed show the name of another, on   *)
(* either platform, though the check and the write are steps apart, but    *)
(* for a child file that is left out of step.                              *)
THEOREM NamesDistinct == Spec => NamesStayDistinct
  <1>1. ASSUME IInv, NameInv, TypeOK', [Next]_vars
        PROVE  [ \/ /\ op # Idle \/ op' # Idle
                    /\ ~meddled' /\ (IF op = Idle THEN op' ELSE op).l.file \notin odd
                 \/ refresh.at = "checked" /\ refresh' = NoRefresh /\ refresh.l.file \notin odd
                 => (DistinctNames => DistinctNames') ]_vars
    BY <1>1, NamesStep
  <1>2. Spec => []TypeOK BY TypeCorrect
  <1> QED BY <1>1, <1>2, NameInvariance, PTL DEF Spec, NamesStayDistinct

-----------------------------------------------------------------------------
(***************************************************************************)
(* The slugs of the listed shows.  FoldLeft and FlattenSeq are recursive   *)
(* functions given by CHOOSE: that one exists, and what it holds at each   *)
(* number, is shown of the least number for which it would not.            *)
(***************************************************************************)
(* A set of numbers that is not empty has a least member: what takes the   *)
(* place of induction below.                                               *)
LEMMA LeastMember ==
  ASSUME NEW T \in SUBSET Nat, T # {}
  PROVE  \E i \in T : \A j \in T : i <= j
  <1> DEFINE R == OpToRel(<, Nat)
  <1>1. \A x, y \in Nat : y < x => <<y, x>> \in R BY DEF OpToRel
  <1>2. IsWellFoundedOn(R, Nat) BY NatLessThanWellFounded
  <1> HIDE DEF R
  <1>3. PICK i \in T : \A j \in T : <<j, i>> \notin R BY <1>2, WFMin
  <1>4. \A j \in T : ~(j < i) BY <1>1, <1>3
  <1>5. \A j \in T : j \in Nat OBVIOUS
  <1> QED BY <1>4, <1>5

LEMMA LeastOf ==
  ASSUME NEW T \in SUBSET Nat, T # {}
  PROVE  Min(T) \in T
  <1>1. \E i \in T : \A j \in T : i <= j BY LeastMember
  <1> QED BY <1>1 DEF Min

(* FlattenSeq: the prefixes of its result.                                 *)
Joined(seqs, g, i) == IF i = 1 THEN seqs[i] ELSE g[i - 1] \o seqs[i]
IsJoin(seqs, g, n) == g = [i \in 1..n |-> Joined(seqs, g, i)]

LEMMA JoinExists ==
  ASSUME NEW seqs, NEW n \in Nat
  PROVE  \E g : IsJoin(seqs, g, n)
  <1> DEFINE T == {k \in Nat : ~\E g : IsJoin(seqs, g, k)}
  <1>1. SUFFICES ASSUME T # {} PROVE FALSE OBVIOUS
  <1>2. PICK k \in T : \A j \in T : k <= j
    <2>1. T \in SUBSET Nat OBVIOUS
    <2> HIDE DEF T
    <2> QED BY <1>1, <2>1, LeastMember
  <1>3. k \in Nat /\ ~\E g : IsJoin(seqs, g, k) OBVIOUS
  <1>4. CASE k = 0
    <2> DEFINE g == [i \in 1..0 |-> <<>>]
    <2>1. \A i \in 1..0 : Joined(seqs, g, i) = <<>> OBVIOUS
    <2> DEFINE J(i) == Joined(seqs, g, i)
    <2>2. \A i \in 1..0 : J(i) = <<>> BY <2>1
    <2> HIDE DEF J
    <2>3. g = [i \in 1..0 |-> J(i)] BY <2>2
    <2> HIDE DEF g
    <2> QED BY <1>3, <1>4, <2>3 DEF IsJoin, J
  <1>5. CASE k # 0
    <2>1. k - 1 \in Nat /\ k - 1 \notin T
      <3>1. k - 1 \in Nat /\ ~(k <= k - 1) BY <1>3, <1>5
      <3> HIDE DEF T
      <3> QED BY <1>2, <3>1
    <2>2. PICK g : IsJoin(seqs, g, k - 1) BY <2>1
    <2> HIDE DEF T
    <2>3. \A i \in 1..(k - 1) : g[i] = Joined(seqs, g, i)
      <3> DEFINE J(i) == Joined(seqs, g, i)
      <3>1. g = [i \in 1..(k - 1) |-> J(i)] BY <2>2 DEF IsJoin
      <3> HIDE DEF J
      <3>2. \A i \in 1..(k - 1) : g[i] = J(i) BY <3>1
      <3> QED BY <3>2 DEF J
    <2> DEFINE h == [i \in 1..k |-> Joined(seqs, g, i)]
    <2>4. \A i \in 1..k : h[i] = Joined(seqs, g, i) OBVIOUS
    <2>5. \A i \in 1..k : Joined(seqs, g, i) = Joined(seqs, h, i)
      <3>1. SUFFICES ASSUME NEW i \in 1..k, i # 1
                     PROVE  g[i - 1] = h[i - 1]
        <4> HIDE DEF h
        <4> QED BY <3>1 DEF Joined
      <3>2. i - 1 \in 1..(k - 1) /\ i - 1 \in 1..k BY <1>3, <3>1
      <3> HIDE DEF h
      <3> QED BY <2>3, <2>4, <3>2
    <2>6. h = [i \in 1..k |-> Joined(seqs, h, i)]
      <3> DEFINE U(i) == Joined(seqs, g, i)
                 V(i) == Joined(seqs, h, i)
      <3>1. \A i \in 1..k : U(i) = V(i) BY <2>5
      <3>2. h = [i \in 1..k |-> U(i)] OBVIOUS
      <3> HIDE DEF h, U, V
      <3>3. h = [i \in 1..k |-> V(i)] BY <3>1, <3>2
      <3> QED BY <3>3 DEF V
    <2> HIDE DEF h
    <2>7. IsJoin(seqs, h, k) BY <2>6 DEF IsJoin
    <2> QED BY <1>3, <2>7
  <1> QED BY <1>4, <1>5

(* A sequence after another: the members of both.                          *)
LEMMA AppendedMembers ==
  ASSUME NEW S, NEW s \in Seq(S), NEW t \in Seq(S)
  PROVE  s \o t \in Seq(S) /\ ToSet(s \o t) = ToSet(s) \cup ToSet(t)
  <1>1. s \o t \in Seq(S) /\ Len(s \o t) = Len(s) + Len(t) OBVIOUS
  <1>2. \A i \in 1..Len(s) : (s \o t)[i] = s[i] OBVIOUS
  <1>3. \A i \in 1..Len(t) : (s \o t)[Len(s) + i] = t[i] OBVIOUS
  <1>4. \A i \in 1..(Len(s) + Len(t)) :
          i \in 1..Len(s) \/ \E j \in 1..Len(t) : i = Len(s) + j
    <2>1. Len(s) \in Nat /\ Len(t) \in Nat OBVIOUS
    <2>2. TAKE i \in 1..(Len(s) + Len(t))
    <2>3. CASE i > Len(s)
      <3>1. i - Len(s) \in 1..Len(t) /\ i = Len(s) + (i - Len(s)) BY <2>1, <2>3
      <3> QED BY <3>1
    <2>4. CASE i <= Len(s) BY <2>1, <2>4
    <2> QED BY <2>1, <2>3, <2>4
  <1>5. \A j \in 1..Len(t) : Len(s) + j \in 1..(Len(s) + Len(t)) OBVIOUS
  <1>6. \A i \in 1..Len(s) : i \in 1..(Len(s) + Len(t)) OBVIOUS
  <1>7. DOMAIN s = 1..Len(s) /\ DOMAIN t = 1..Len(t) /\ DOMAIN (s \o t) = 1..(Len(s) + Len(t))
    BY <1>1
  <1>8. ToSet(s) = {s[i] : i \in 1..Len(s)} /\ ToSet(t) = {t[i] : i \in 1..Len(t)}
        /\ ToSet(s \o t) = {(s \o t)[i] : i \in 1..(Len(s) + Len(t))}
    BY <1>7 DEF ToSet
  <1> DEFINE u == s \o t
  <1>9. \A i \in 1..(Len(s) + Len(t)) : u[i] \in ToSet(s) \cup ToSet(t)
    BY <1>2, <1>3, <1>4, <1>8
  <1>10. \A x \in ToSet(s) \cup ToSet(t) : \E i \in 1..(Len(s) + Len(t)) : u[i] = x
    BY <1>2, <1>3, <1>5, <1>6, <1>8
  <1>11. ToSet(u) = {u[i] : i \in 1..(Len(s) + Len(t))} BY <1>8
  <1> HIDE DEF u
  <1>12. ToSet(u) = ToSet(s) \cup ToSet(t) BY <1>9, <1>10, <1>11
  <1> QED BY <1>1, <1>12 DEF u

(* Each prefix has the members of the sequences it joins.                  *)
LEMMA JoinOf ==
  ASSUME NEW S, NEW seqs, NEW n \in Nat, \A i \in 1..n : seqs[i] \in Seq(S),
         NEW g, IsJoin(seqs, g, n), n # 0
  PROVE  g[n] \in Seq(S) /\ ToSet(g[n]) = UNION {ToSet(seqs[i]) : i \in 1..n}
  <1> DEFINE U(k) == UNION {ToSet(seqs[i]) : i \in 1..k}
             P(k) == g[k] \in Seq(S) /\ ToSet(g[k]) = U(k)
             T == {k \in 1..n : ~P(k)}
  <1>0. \A i \in 1..n : g[i] = Joined(seqs, g, i)
    <2> DEFINE J(i) == Joined(seqs, g, i)
    <2>1. g = [i \in 1..n |-> J(i)] BY DEF IsJoin
    <2> HIDE DEF J
    <2>2. \A i \in 1..n : g[i] = J(i) BY <2>1
    <2> QED BY <2>2 DEF J
  <1>1. SUFFICES ASSUME T # {} PROVE FALSE
    <2>1. n \in 1..n OBVIOUS
    <2> QED BY <2>1
  <1>2. PICK k \in T : \A j \in T : k <= j
    <2>1. T \in SUBSET Nat OBVIOUS
    <2> HIDE DEF T
    <2> QED BY <1>1, <2>1, LeastMember
  <1>3. k \in 1..n /\ ~P(k) OBVIOUS
  <1>4. CASE k = 1
    <2>1. g[k] = seqs[1] BY <1>0, <1>3, <1>4 DEF Joined
    <2>2. 1..k = {1} BY <1>4
    <2>3. U(k) = ToSet(seqs[1]) BY <2>2
    <2> HIDE DEF U
    <2>4. seqs[1] \in Seq(S) BY <1>3, <1>4
    <2> QED BY <1>3, <2>1, <2>3, <2>4
  <1>5. CASE k # 1
    <2>1. k - 1 \in 1..n /\ k \in Nat /\ k - 1 \notin T
      <3>1. k - 1 \in 1..n /\ ~(k <= k - 1) BY <1>3, <1>5
      <3> HIDE DEF T
      <3> QED BY <1>2, <1>3, <3>1
    <2>2. P(k - 1) BY <2>1
    <2> HIDE DEF T
    <2>3. g[k] = g[k - 1] \o seqs[k] BY <1>0, <1>3, <1>5 DEF Joined
    <2>4. seqs[k] \in Seq(S) BY <1>3
    <2>5. ToSet(g[k]) = ToSet(g[k - 1]) \cup ToSet(seqs[k]) /\ g[k] \in Seq(S)
      <3>1. PICK s \in Seq(S) : s = g[k - 1] BY <2>2
      <3>2. PICK t \in Seq(S) : t = seqs[k] BY <2>4
      <3>3. ToSet(s \o t) = ToSet(s) \cup ToSet(t) /\ s \o t \in Seq(S) BY AppendedMembers
      <3> QED BY <2>3, <3>1, <3>2, <3>3
    <2>6. U(k) = U(k - 1) \cup ToSet(seqs[k])
      <3>1. 1..k = (1..(k - 1)) \cup {k} BY <2>1
      <3> QED BY <3>1
    <2> HIDE DEF U
    <2> QED BY <1>3, <2>2, <2>5, <2>6
  <1> QED BY <1>4, <1>5

LEMMA FlattenIs ==
  ASSUME NEW S, NEW n \in Nat, NEW seqs \in [1..n -> Seq(S)]
  PROVE  /\ FlattenSeq(seqs) \in Seq(S)
         /\ ToSet(FlattenSeq(seqs)) = UNION {ToSet(seqs[i]) : i \in 1..n}
  <1>1. seqs \in Seq(Seq(S)) /\ Len(seqs) = n OBVIOUS
  <1>2. CASE n = 0
    <2>1. seqs = <<>> BY <1>1, <1>2
    <2>2. FlattenSeq(seqs) = <<>> BY <1>1, <1>2, <2>1 DEF FlattenSeq
    <2>3. ToSet(<<>>) = {} BY DEF ToSet
    <2> QED BY <1>2, <2>2, <2>3
  <1>3. CASE n # 0
    <2> DEFINE G == CHOOSE g : g = [i \in 1..Len(seqs) |-> Joined(seqs, g, i)]
    <2>1. FlattenSeq(seqs) = G[Len(seqs)] BY <1>1, <1>3, Zenon DEF FlattenSeq, Joined
    <2>2. \E g : g = [i \in 1..Len(seqs) |-> Joined(seqs, g, i)]
      <3>1. PICK g : IsJoin(seqs, g, n) BY JoinExists
      <3>2. g = [i \in 1..Len(seqs) |-> Joined(seqs, g, i)] BY <1>1, <3>1, Zenon DEF IsJoin
      <3> QED BY <3>2
    <2>3. G = [i \in 1..Len(seqs) |-> Joined(seqs, G, i)] BY <2>2, Zenon
    <2> HIDE DEF G
    <2>4. IsJoin(seqs, G, n) BY <1>1, <2>3, Zenon DEF IsJoin
    <2>5. \A i \in 1..n : seqs[i] \in Seq(S) OBVIOUS
    <2>6. G[n] \in Seq(S) /\ ToSet(G[n]) = UNION {ToSet(seqs[i]) : i \in 1..n}
      BY <1>3, <2>4, <2>5, JoinOf
    <2> QED BY <1>1, <2>1, <2>6
  <1> QED BY <1>2, <1>3

LEMMA NumberedApart ==
  ASSUME NEW W, NEW base \in W \X Seq(Nat), NEW m \in Nat, NEW n \in Nat,
         Numbered(base, m) = Numbered(base, n)
  PROVE  m = n
  <1>1. PICK s \in Seq(Nat) : s = base[2] OBVIOUS
  <1>2. Append(s, m) = Append(s, n) BY <1>1 DEF Numbered
  <1>3. Append(s, m)[Len(s) + 1] = m /\ Append(s, n)[Len(s) + 1] = n OBVIOUS
  <1> QED BY <1>2, <1>3

(* unique_slug: of more numbers than there are used slugs, one is free.    *)
LEMMA UniqueSlugFree ==
  ASSUME NEW W, NEW base \in W \X Seq(Nat), NEW used, IsFiniteSet(used)
  PROVE  UniqueSlug(base, used) \notin used
  <1> DEFINE c == Cardinality(used)
             N == {n \in 2..(c + 2) : Numbered(base, n) \notin used}
             f == [n \in 2..(c + 2) |-> Numbered(base, n)]
  <1>1. c \in Nat BY FS_CardinalityType
  <1>2. N # {}
    <2>1. SUFFICES ASSUME N = {} PROVE FALSE OBVIOUS
    <2>2. \A n \in 2..(c + 2) : Numbered(base, n) \in used BY <2>1
    <2>3. f \in Injection(2..(c + 2), used)
      <3>1. f \in [2..(c + 2) -> used] BY <2>2
      <3>2. \A m, n \in 2..(c + 2) : f[m] = f[n] => m = n
        <4>1. \A m, n \in 2..(c + 2) : Numbered(base, m) = Numbered(base, n) => m = n
          BY <1>1, NumberedApart
        <4> QED BY <4>1
      <3> QED BY <3>1, <3>2 DEF Injection, IsInjective
    <2>4. Cardinality(2..(c + 2)) <= c BY <2>3, FS_Injection
    <2>5. Cardinality(2..(c + 2)) = c + 1 BY <1>1, FS_Interval
    <2> QED BY <1>1, <2>4, <2>5
  <1>3. N \in SUBSET Nat BY <1>1
  <1>4. Min(N) \in N
    <2> HIDE DEF N
    <2> QED BY <1>2, <1>3, LeastOf
  <1>5. base \in used => UniqueSlug(base, used) = Numbered(base, Min(N)) BY DEF UniqueSlug
  <1>6. base \notin used => UniqueSlug(base, used) = base BY DEF UniqueSlug
  <1> QED BY <1>4, <1>5, <1>6

(* _assign_slug: the file's name or that.                                  *)
LEMMA AssignSlugFree ==
  ASSUME NEW p, NEW l, ShowAt(p, l).name \in Names, NEW used, IsFiniteSet(used)
  PROVE  AssignSlug(p, l, used) \notin used
  <1>1. SlugOf[ShowAt(p, l).name] \in (DOMAIN Lower) \X Seq(Nat) BY FilesAssumption
  <1>2. UniqueSlug(SlugOf[ShowAt(p, l).name], used) \notin used BY <1>1, UniqueSlugFree
  <1> QED BY <1>2 DEF AssignSlug

(* Only the name of a file has capitals.                                   *)
LEMMA AssignSlugFolded ==
  ASSUME NEW p, NEW l, ShowAt(p, l).name \in Names, NEW used
  PROVE  \/ AssignSlug(p, l, used) = l.file
         \/ Folded(AssignSlug(p, l, used)) = AssignSlug(p, l, used)
  <1> DEFINE base == SlugOf[ShowAt(p, l).name]
  <1>1. base \in (DOMAIN Lower) \X Seq(Nat) /\ Folded(base) = base BY FilesAssumption
  <1> HIDE DEF base
  <1>2. \A n : Folded(Numbered(base, n)) = Numbered(base, n) BY <1>1 DEF Folded, Numbered
  <1>3. \E n : UniqueSlug(base, used) \in {base, Numbered(base, n)} BY DEF UniqueSlug
  <1>4. Folded(UniqueSlug(base, used)) = UniqueSlug(base, used) BY <1>1, <1>2, <1>3
  <1>5. AssignSlug(p, l, used) \in {l.file, UniqueSlug(base, used)} BY DEF AssignSlug, base
  <1> QED BY <1>4, <1>5

(* A slug for each of the locations E, and no slug twice.                  *)
Distinct(f, E) == /\ DOMAIN f = E /\ IsFiniteSet(Range(f))
                  /\ \A k, l \in E : f[k] = f[l] => k = l
                  /\ \A k \in E : f[k] = k.file \/ Folded(f[k]) = f[k]

LEMMA GiveSlugDistinct ==
  ASSUME NEW p, NEW l, ShowAt(p, l).name \in Names, NEW f, NEW E, Distinct(f, E)
  PROVE  Distinct(GiveSlug(p, f, l), E \cup {l})
  <1> DEFINE s == AssignSlug(p, l, Range(f))
             g == GiveSlug(p, f, l)
  <1>1. /\ DOMAIN f = E /\ IsFiniteSet(Range(f)) /\ \A k, m \in E : f[k] = f[m] => k = m
        /\ \A k \in E : f[k] = k.file \/ Folded(f[k]) = f[k]
    BY DEF Distinct
  <1>2. s \notin Range(f) BY <1>1, AssignSlugFree
  <1>3. \A k \in E : f[k] \in Range(f) BY <1>1 DEF Range
  <1>4. g = [k \in E \cup {l} |-> IF k \in E THEN f[k] ELSE s] BY <1>1 DEF GiveSlug
  <1>5. DOMAIN g = E \cup {l} /\ \A k \in E \cup {l} : g[k] = IF k \in E THEN f[k] ELSE s
    BY <1>4
  <1>6. Range(g) \in SUBSET (Range(f) \cup {s}) BY <1>3, <1>5 DEF Range
  <1>a. s = l.file \/ Folded(s) = s BY AssignSlugFolded
  <1> HIDE DEF s, g
  <1>7. IsFiniteSet(Range(f) \cup {s}) BY <1>1, FS_AddElement
  <1>8. IsFiniteSet(Range(g)) BY <1>6, <1>7, FS_Subset
  <1>9. \A k, m \in E \cup {l} : g[k] = g[m] => k = m BY <1>1, <1>2, <1>3, <1>5
  <1>10. \A k \in E \cup {l} : g[k] = k.file \/ Folded(g[k]) = g[k] BY <1>1, <1>5, <1>a
  <1> QED BY <1>5, <1>8, <1>9, <1>10 DEF Distinct, g

LEMMA GreatestOf ==
  ASSUME NEW n \in Nat, NEW s \in SUBSET (1..n), s # {}
  PROVE  Max(s) \in s /\ \A j \in s : j <= Max(s)
  <1> DEFINE T == {k \in Nat : \A j \in s : j <= k}
  <1>0. \A j \in s : j \in Nat /\ 1 <= j /\ j <= n OBVIOUS
  <1>1. n \in T BY <1>0
  <1>2. PICK i \in T : \A j \in T : i <= j
    <2>1. T \in SUBSET Nat /\ T # {} BY <1>1
    <2> HIDE DEF T
    <2> QED BY <2>1, LeastMember
  <1>3. i \in Nat /\ \A j \in s : j <= i OBVIOUS
  <1>4. i \in s
    <2>1. SUFFICES ASSUME i \notin s PROVE FALSE OBVIOUS
    <2>2. \A j \in s : j <= i - 1 BY <1>0, <1>3, <2>1
    <2>3. i - 1 \in Nat
      <3>1. PICK j \in s : TRUE OBVIOUS
      <3>2. j \in Nat /\ 1 <= j /\ j <= i BY <1>0, <1>3
      <3> QED BY <1>3, <3>2
    <2>4. i - 1 \in T BY <2>2, <2>3
    <2> HIDE DEF T
    <2> QED BY <1>2, <1>3, <2>4
  <1>5. \E x \in s : \A y \in s : x >= y BY <1>0, <1>3, <1>4
  <1>6. Max(s) \in s /\ \A y \in s : Max(s) >= y BY <1>5 DEF Max
  <1> QED BY <1>0, <1>6

(* The fold behind Slugs: its value for a set of positions of the entries, *)
(* from that for the set without the last.                                 *)
Upon(p, es, g, s) == IF s = {} THEN <<>> ELSE GiveSlug(p, g[s \ {Max(s)}], es[Max(s)])
IsFold(p, es, g, n) == g = [s \in SUBSET (1..n) |-> Upon(p, es, g, s)]

LEMMA FoldExists ==
  ASSUME NEW p, NEW es, NEW n \in Nat
  PROVE  \E g : IsFold(p, es, g, n)
  <1> DEFINE T == {k \in Nat : ~\E g : IsFold(p, es, g, k)}
  <1>1. SUFFICES ASSUME T # {} PROVE FALSE OBVIOUS
  <1>2. PICK k \in T : \A j \in T : k <= j
    <2>1. T \in SUBSET Nat OBVIOUS
    <2> HIDE DEF T
    <2> QED BY <1>1, <2>1, LeastMember
  <1>3. k \in Nat /\ ~\E g : IsFold(p, es, g, k) OBVIOUS
  <1>4. CASE k = 0
    <2> DEFINE g == [s \in SUBSET (1..0) |-> <<>>]
    <2>1. \A s \in SUBSET (1..0) : s = {} OBVIOUS
    <2>2. \A s \in SUBSET (1..0) : Upon(p, es, g, s) = <<>> BY <2>1 DEF Upon
    <2> HIDE DEF Upon
    <2>3. g = [s \in SUBSET (1..0) |-> Upon(p, es, g, s)] BY <2>2
    <2> HIDE DEF g
    <2> QED BY <1>3, <1>4, <2>3 DEF IsFold
  <1>5. CASE k # 0
    <2>1. k - 1 \in Nat /\ k - 1 \notin T
      <3>1. k - 1 \in Nat /\ ~(k <= k - 1) BY <1>3, <1>5
      <3> HIDE DEF T
      <3> QED BY <1>2, <3>1
    <2>2. PICK g : IsFold(p, es, g, k - 1) BY <2>1
    <2> HIDE DEF T
    <2>3. \A s \in SUBSET (1..(k - 1)) : g[s] = Upon(p, es, g, s)
      <3>1. g = [s \in SUBSET (1..(k - 1)) |-> Upon(p, es, g, s)] BY <2>2 DEF IsFold
      <3> DEFINE U(s) == Upon(p, es, g, s)
      <3>2. g = [s \in SUBSET (1..(k - 1)) |-> U(s)] BY <3>1
      <3> HIDE DEF U
      <3>3. \A s \in SUBSET (1..(k - 1)) : g[s] = U(s) BY <3>2
      <3> QED BY <3>3 DEF U
    <2> DEFINE h == [s \in SUBSET (1..k) |-> Upon(p, es, g, s)]
    <2>4. \A s \in SUBSET (1..k) : h[s] = Upon(p, es, g, s) OBVIOUS
    <2>5. \A s \in SUBSET (1..k) : Upon(p, es, g, s) = Upon(p, es, h, s)
      <3>1. SUFFICES ASSUME NEW s \in SUBSET (1..k), s # {}
                     PROVE  Upon(p, es, g, s) = Upon(p, es, h, s)
        BY DEF Upon
      <3>2. Max(s) \in s /\ \A j \in s : j <= Max(s) BY <1>3, <3>1, GreatestOf
      <3>3. \A j \in s : j \in Nat /\ 1 <= j /\ j <= k BY <1>3
      <3>4. s \ {Max(s)} \in SUBSET (1..(k - 1))
        <4>1. PICK M : M = Max(s) OBVIOUS
        <4>2. M \in s /\ \A j \in s : j <= M BY <3>2, <4>1
        <4>3. \A j \in s : j # M => j \in 1..(k - 1) BY <1>3, <3>3, <4>2
        <4> QED BY <4>1, <4>3
      <3>5. s \ {Max(s)} \in SUBSET (1..k) BY <3>1
      <3> HIDE DEF h
      <3>6. h[s \ {Max(s)}] = g[s \ {Max(s)}] BY <2>3, <2>4, <3>4, <3>5
      <3> QED BY <3>6 DEF Upon
    <2>6. h = [s \in SUBSET (1..k) |-> Upon(p, es, h, s)]
      <3> DEFINE U(s) == Upon(p, es, g, s)
                 V(s) == Upon(p, es, h, s)
      <3>1. \A s \in SUBSET (1..k) : U(s) = V(s) BY <2>5
      <3>2. h = [s \in SUBSET (1..k) |-> U(s)] OBVIOUS
      <3> HIDE DEF h, U, V
      <3>3. h = [s \in SUBSET (1..k) |-> V(s)] BY <3>1, <3>2
      <3> QED BY <3>3 DEF V
    <2> HIDE DEF h
    <2>7. IsFold(p, es, h, k) BY <2>6 DEF IsFold
    <2> QED BY <1>3, <2>7
  <1> QED BY <1>4, <1>5

LEMMA FoldDistinct ==
  ASSUME NEW p, NEW es, NEW n \in Nat, NEW g, IsFold(p, es, g, n),
         \A i \in 1..n : ShowAt(p, es[i]).name \in Names
  PROVE  Distinct(g[1..n], {es[i] : i \in 1..n})
  <1> DEFINE E(k) == {es[i] : i \in 1..k}
             T == {k \in 0..n : ~Distinct(g[1..k], E(k))}
  <1>0. \A s \in SUBSET (1..n) : g[s] = Upon(p, es, g, s)
    <2>1. g = [s \in SUBSET (1..n) |-> Upon(p, es, g, s)] BY DEF IsFold
    <2> DEFINE U(s) == Upon(p, es, g, s)
    <2>2. g = [s \in SUBSET (1..n) |-> U(s)] BY <2>1
    <2> HIDE DEF U
    <2>3. \A s \in SUBSET (1..n) : g[s] = U(s) BY <2>2
    <2> QED BY <2>3 DEF U
  <1>1. SUFFICES ASSUME T # {} PROVE FALSE
    <2>1. n \in 0..n OBVIOUS
    <2> QED BY <2>1
  <1>2. PICK k \in T : \A j \in T : k <= j
    <2>1. T \in SUBSET Nat OBVIOUS
    <2> HIDE DEF T
    <2> QED BY <1>1, <2>1, LeastMember
  <1>3. k \in 0..n /\ ~Distinct(g[1..k], E(k)) OBVIOUS
  <1>4. CASE k = 0
    <2>1. 1..k = {} BY <1>4
    <2>2. g[1..k] = <<>>
      <3>1. {} \in SUBSET (1..n) OBVIOUS
      <3> QED BY <1>0, <2>1, <3>1 DEF Upon
    <2>3. DOMAIN <<>> = {} OBVIOUS
    <2>4. Range(<<>>) = {} BY <2>3 DEF Range
    <2>5. E(k) = {} BY <2>1
    <2> QED BY <1>3, <2>2, <2>3, <2>4, <2>5, FS_EmptySet DEF Distinct
  <1>5. CASE k # 0
    <2>1. k - 1 \in 0..n /\ k \in Nat /\ k - 1 \notin T
      <3>1. k - 1 \in 0..n /\ ~(k <= k - 1) BY <1>3, <1>5
      <3> HIDE DEF T
      <3> QED BY <1>2, <1>3, <3>1
    <2>2. Distinct(g[1..(k - 1)], E(k - 1)) BY <2>1
    <2> HIDE DEF T
    <2>3. 1..k \in SUBSET (1..n) /\ k \in 1..k BY <1>3, <1>5
    <2>4. Max(1..k) = k
      <3>1. Max(1..k) \in 1..k /\ \A j \in 1..k : j <= Max(1..k) BY <2>1, <2>3, GreatestOf
      <3> QED BY <2>3, <3>1
    <2>5. (1..k) \ {k} = 1..(k - 1) BY <2>1
    <2>6. g[1..k] = GiveSlug(p, g[1..(k - 1)], es[k])
      <3>1. 1..k # {} BY <2>3
      <3> QED BY <1>0, <2>3, <2>4, <2>5, <3>1 DEF Upon
    <2>7. E(k) = E(k - 1) \cup {es[k]} BY <2>1, <2>3
    <2>8. ShowAt(p, es[k]).name \in Names BY <2>3
    <2> HIDE DEF E
    <2> QED BY <1>3, <2>2, <2>6, <2>7, <2>8, GiveSlugDistinct
  <1> QED BY <1>4, <1>5

LEMMA SlugsDistinct ==
  ASSUME NEW p, NEW S, NEW es \in Seq(S), es = Entries(p),
         \A i \in 1..Len(es) : ShowAt(p, es[i]).name \in Names
  PROVE  Distinct(Slugs(p), {es[i] : i \in 1..Len(es)})
  <1> DEFINE n == Len(es)
             G == CHOOSE g : g = [s \in SUBSET DOMAIN es |-> Upon(p, es, g, s)]
  <1>1. n \in Nat /\ DOMAIN es = 1..n OBVIOUS
  <1>2. Slugs(p) = G[DOMAIN es] BY Zenon DEF Slugs, FoldLeft, MapThenFoldSet, Upon
  <1>3. \E g : g = [s \in SUBSET DOMAIN es |-> Upon(p, es, g, s)]
    <2>1. PICK g : IsFold(p, es, g, n) BY <1>1, FoldExists
    <2>2. SUBSET DOMAIN es = SUBSET (1..n) BY <1>1
    <2> HIDE DEF n
    <2>3. g = [s \in SUBSET DOMAIN es |-> Upon(p, es, g, s)] BY <2>1, <2>2, Zenon DEF IsFold
    <2> QED BY <2>3
  <1>4. G = [s \in SUBSET DOMAIN es |-> Upon(p, es, G, s)] BY <1>3, Zenon
  <1> HIDE DEF G
  <1>5. IsFold(p, es, G, n) BY <1>1, <1>4, Zenon DEF IsFold
  <1>a. \A i \in 1..n : ShowAt(p, es[i]).name \in Names OBVIOUS
  <1> HIDE DEF n
  <1>6. Distinct(G[1..n], {es[i] : i \in 1..n}) BY <1>1, <1>5, <1>a, FoldDistinct
  <1> QED BY <1>1, <1>2, <1>6 DEF n

(* The entries of a platform are its listed shows.                         *)
LEMMA EntriesAre ==
  ASSUME TypeOK, NEW p \in Platforms
  PROVE  Entries(p) \in Seq(Loc) /\ ToSet(Entries(p)) = Listed(p)
  <1> DEFINE imports == root[p].imports
             n == Len(imports)
             seqs == [i \in 1..n |-> Locs(p, imports[i])]
  <1>1. imports \in Seq(Stems) /\ n \in Nat /\ \A i \in 1..n : imports[i] \in Stems
    BY ImportsStems
  <1>2. \A f \in Stems \cup {Inline} : Locs(p, f) \in Seq(Loc)
    <2>1. TAKE f \in Stems \cup {Inline}
    <2>2. Raw(p, f) \in Seq(Show) BY RawTyped
    <2>3. Len(Raw(p, f)) \in Nat BY <2>2
    <2>4. \A i \in 1..Len(Raw(p, f)) : [file |-> f, index |-> i] \in Loc
      BY <2>3 DEF Loc
    <2>5. [i \in 1..Len(Raw(p, f)) |-> [file |-> f, index |-> i]] \in Seq(Loc)
      BY <2>3, <2>4
    <2> QED BY <2>5 DEF Locs
  <1>3. seqs \in [1..n -> Seq(Loc)] BY <1>1, <1>2
  <1>4. /\ FlattenSeq(seqs) \in Seq(Loc)
        /\ ToSet(FlattenSeq(seqs)) = UNION {ToSet(seqs[i]) : i \in 1..n}
    <2> HIDE DEF seqs
    <2> QED BY <1>1, <1>3, FlattenIs
  <1>5. Locs(p, Inline) \in Seq(Loc) BY <1>2
  <1>6. Entries(p) = FlattenSeq(seqs) \o Locs(p, Inline)
    BY DEF Entries, DropoutEntries, YoutubeEntries, Platforms
  <1>7. \A i \in 1..n : seqs[i] = Locs(p, imports[i]) OBVIOUS
  <1>8. Imports(p) = {imports[i] : i \in 1..n} BY DEF Imports
  <1> HIDE DEF seqs, imports, n
  <1>9. UNION {ToSet(seqs[i]) : i \in 1..n} = UNION {ToSet(Locs(p, f)) : f \in Imports(p)}
    BY <1>7, <1>8
  <1>10. Listed(p) = (UNION {ToSet(Locs(p, f)) : f \in Imports(p)}) \cup ToSet(Locs(p, Inline))
    BY DEF Listed
  <1> QED BY <1>4, <1>5, <1>6, <1>9, <1>10, AppendedMembers

(* A slug that does not find its show is another's but for letter case, so *)
(* one of the two has capitals, and those a file's name alone can have.    *)
LEMMA FoundOrCapitals ==
  ASSUME NEW slugs, NEW E, Distinct(slugs, E), NEW l \in E, Found(slugs, slugs[l]) # {l}
  PROVE  \E k \in E : /\ slugs[k] = k.file /\ Folded(k.file) # k.file
                      /\ Folded(k.file) = Folded(slugs[l])
  <1> DEFINE M == {k \in E : Folded(slugs[k]) = Folded(slugs[l])}
  <1>1. Found(slugs, slugs[l]) = Preferred(M) BY DEF Found, Distinct
  <1>2. Preferred({l}) = {l} BY DEF Preferred, Imported
  <1>3. PICK k \in M : k # l BY <1>1, <1>2
  <1>4. k \in E /\ Folded(slugs[k]) = Folded(slugs[l]) /\ slugs[k] # slugs[l]
    BY <1>3 DEF Distinct
  <1>5. \A m \in E : slugs[m] = m.file \/ Folded(slugs[m]) = slugs[m] BY DEF Distinct
  <1>6. PICK m \in {k, l} : Folded(slugs[m]) # slugs[m] BY <1>4
  <1>7. m \in E /\ slugs[m] = m.file /\ Folded(slugs[m]) = Folded(slugs[l])
    BY <1>4, <1>5, <1>6
  <1> QED BY <1>6, <1>7

LEMMA SlugFindsHere ==
  ASSUME TypeOK
  PROVE  SlugFinds
  <1>1. SUFFICES ASSUME NEW p \in Platforms, NEW l \in Listed(p), l \notin Reached(p)
                 PROVE  \E k \in Listed(p) : /\ Slugs(p)[k] = k.file /\ Folded(k.file) # k.file
                                             /\ Folded(k.file) = Folded(Slugs(p)[l])
    BY DEF SlugFinds
  <1>2. Entries(p) \in Seq(Loc) /\ ToSet(Entries(p)) = Listed(p) BY EntriesAre
  <1>3. ToSet(Entries(p)) = {Entries(p)[i] : i \in 1..Len(Entries(p))} BY <1>2 DEF ToSet
  <1>4. \A i \in 1..Len(Entries(p)) : ShowAt(p, Entries(p)[i]).name \in Names
    <2>1. TAKE i \in 1..Len(Entries(p))
    <2>2. PICK k \in Listed(p) : k = Entries(p)[i] BY <1>2, <1>3
    <2>3. ShowAt(p, k) \in Show BY ListedIs
    <2>4. ShowAt(p, k).name \in Names BY <2>3 DEF Show
    <2> QED BY <2>2, <2>4
  <1>5. Distinct(Slugs(p), Listed(p)) BY <1>2, <1>3, <1>4, SlugsDistinct
  <1>6. Found(Slugs(p), Slugs(p)[l]) # {l} BY <1>1 DEF Reached
  <1> QED BY <1>5, <1>6, FoundOrCapitals

(* Whatever names the files hold, by edits, refreshes, the user's hand and *)
(* crashes: the slug that a list gives a show finds that show alone, as    *)
(* long as the files are the same, unless it is, but for letter case, the  *)
(* name of a show's own file, and that has capitals.                       *)
THEOREM EverySlugFinds == Spec => []SlugFinds
  <1>1. TypeOK => SlugFinds BY SlugFindsHere
  <1> QED BY <1>1, TypeCorrect, PTL

=============================================================================
