---------------------------- MODULE FSEventsProofs ----------------------------
(***************************************************************************)
(* Proofs about FSEvents, for every set of directories and any number of   *)
(* updates and events: the roots that findCommonRoots computes fit, and    *)
(* the watcher implements the abstract Watcher.                            *)
(*                                                                         *)
(* findCommonRoots is a loop over the directories of a tree, which         *)
(* RootLength folds.  What it computes is proved by induction on the       *)
(* number of directories.  An induction theorem would take the induction   *)
(* hypothesis as an operator; a set of natural numbers does as well, and   *)
(* rests on < being well-founded on them.                                  *)
(***************************************************************************)
EXTENDS FSEvents, FiniteSetTheorems, SequenceTheorems, TLAPS

(***************************************************************************)
(* Induction.                                                              *)
(***************************************************************************)

\* A set of natural numbers that is not empty has a least member.
LEMMA LeastNatural ==
    ASSUME NEW T \in SUBSET Nat, T # {}
    PROVE  \E n \in T : \A m \in T : n <= m
<1> DEFINE R == {ss \in Nat \X Nat : ss[1] < ss[2]}
<1>1. IsWellFoundedOn(R, Nat)
  BY NatLessThanWellFounded, Zenon DEF OpToRel
<1>2. \E x \in T : \A y \in T : ~ (<<y, x>> \in R)
  <2>1. T \subseteq Nat
    OBVIOUS
  <2>2. T # {}
    OBVIOUS
  <2> HIDE DEF R
  <2> QED
    BY <1>1, <2>1, <2>2, WFMin
<1>3. \A x, y \in Nat : y < x => <<y, x>> \in R
  OBVIOUS
<1> HIDE DEF R
<1>4. PICK x \in T : \A y \in T : ~ (<<y, x>> \in R)
  BY <1>2
<1>5. \A y \in T : x <= y
  <2>1. SUFFICES ASSUME NEW y \in T PROVE x <= y
    OBVIOUS
  <2>2. x \in Nat /\ y \in Nat
    OBVIOUS
  <2>3. ~ (y < x)
    BY <1>3, <1>4, <2>2, Zenon
  <2> QED
    BY <2>2, <2>3
<1> QED
  BY <1>5

\* Induction over the natural numbers: a set that has 0 and with n also n + 1 has them all.
LEMMA NaturalsIn ==
    ASSUME NEW T, 0 \in T, \A n \in Nat : n \in T => n + 1 \in T
    PROVE  \A n \in Nat : n \in T
<1> SUFFICES ASSUME Nat \ T # {} PROVE FALSE
  OBVIOUS
<1>1. PICK n \in Nat \ T : \A m \in Nat \ T : n <= m
  BY LeastNatural
<1>2. n - 1 \in Nat /\ n - 1 \in T
  BY <1>1
<1>3. (n - 1) + 1 \in T
  BY <1>2
<1> QED
  BY <1>1, <1>3

\* A set of natural numbers with a bound has a largest member, which is its Max.
LEMMA MaxIsGreatest ==
    ASSUME NEW n \in Nat, NEW T \in SUBSET (0..n), T # {}
    PROVE  Max(T) \in T /\ \A m \in T : m <= Max(T)
<1> DEFINE Gaps == {n - m : m \in T}
<1>1. Gaps \in SUBSET Nat
  OBVIOUS
<1>2. Gaps # {}
  <2>1. PICK x : x \in T
    OBVIOUS
  <2>2. n - x \in Gaps
    BY <2>1
  <2> QED
    BY <2>2
<1>3. PICK g \in Gaps : \A h \in Gaps : g <= h
  <2> HIDE DEF Gaps
  <2> QED
    BY <1>1, <1>2, LeastNatural
<1>4. PICK x \in T : g = n - x
  BY <1>3
<1>5. \A y \in T : x >= y
  <2>1. SUFFICES ASSUME NEW y \in T PROVE x >= y
    OBVIOUS
  <2>2. n - x <= n - y
    BY <1>3, <1>4
  <2> QED
    BY <2>2
<1>6. Max(T) \in T /\ \A y \in T : Max(T) >= y
  BY <1>5, Zenon DEF Max
<1> QED
  BY <1>6

(***************************************************************************)
(* rootLength.                                                             *)
(***************************************************************************)

\* The equation of the function that RootLength folds with.
Folding(first, D, it) ==
    [s \in SUBSET D |-> IF s = {} THEN Len(first)
                        ELSE LET d == CHOOSE x \in s : TRUE IN
                             CommonLength(first, d, it[s \ {d}])]

\* The folding function of RootLength exists: it is defined by recursion over the number
\* of directories.
LEMMA FoldExists ==
    ASSUME NEW first, NEW D, IsFiniteSet(D)
    PROVE  \E it : it = Folding(first, D, it)
<1> DEFINE Small(n) == {s \in SUBSET D : Cardinality(s) <= n}
           Body(it, s) == IF s = {} THEN Len(first)
                          ELSE LET d == CHOOSE x \in s : TRUE IN
                               CommonLength(first, d, it[s \ {d}])
           T == {n \in Nat : \E it : it = [s \in Small(n) |-> Body(it, s)]}
<1>1. \A s \in SUBSET D :
         IsFiniteSet(s) /\ Cardinality(s) \in Nat /\ Cardinality(s) <= Cardinality(D)
  BY FS_Subset, FS_CardinalityType
<1>2. \A n \in Nat : \A s \in Small(n + 1) : s # {} =>
          LET d == CHOOSE x \in s : TRUE IN s \ {d} \in Small(n)
  <2>1. SUFFICES ASSUME NEW n \in Nat, NEW s \in Small(n + 1), s # {}, NEW d, d \in s
                 PROVE  s \ {d} \in Small(n)
    OBVIOUS
  <2> QED
    BY <1>1, <2>1, FS_RemoveElement
<1>3. Small(0) = {{}}
  BY <1>1, FS_EmptySet
<1>4. 0 \in T
  <2> DEFINE it == [s \in Small(0) |-> Len(first)]
  <2>1. it = [s \in Small(0) |-> Body(it, s)]
    BY <1>3
  <2> QED
    BY <2>1
<1>5. ASSUME NEW n \in Nat, n \in T
      PROVE  n + 1 \in T
  <2>1. PICK it : it = [s \in Small(n) |-> Body(it, s)]
    BY <1>5
  <2> DEFINE next == [s \in Small(n + 1) |-> Body(it, s)]
  <2>2. \A s \in Small(n) : s \in Small(n + 1)
    BY <1>1
  <2>3. \A s \in Small(n) : next[s] = it[s]
    <3>1. SUFFICES ASSUME NEW s \in Small(n) PROVE next[s] = it[s]
      OBVIOUS
    <3>2. next[s] = Body(it, s)
      BY <2>2, Zenon
    <3>3. it[s] = Body(it, s)
      BY <2>1, Zenon
    <3> QED
      BY <3>2, <3>3
  <2>4. \A s \in Small(n + 1) : Body(next, s) = Body(it, s)
    <3>1. SUFFICES ASSUME NEW s \in Small(n + 1) PROVE Body(next, s) = Body(it, s)
      OBVIOUS
    <3>2. s # {} => next[s \ {CHOOSE x \in s : TRUE}] = it[s \ {CHOOSE x \in s : TRUE}]
      <4> HIDE DEF next, Small
      <4> QED
        BY <1>2, <2>3, Zenon
    <3> HIDE DEF next, Small
    <3> QED
      BY <3>2
  <2>5. next = [s \in Small(n + 1) |-> Body(next, s)]
    <3>1. next = [s \in Small(n + 1) |-> Body(it, s)]
      OBVIOUS
    <3> HIDE DEF next, Small, Body
    <3> QED
      BY <2>4, <3>1
  <2>6. n + 1 \in Nat
    OBVIOUS
  <2> HIDE DEF next, Small, Body
  <2> QED
    BY <2>5, <2>6
<1>6. Cardinality(D) \in T
  <2> HIDE DEF T
  <2> QED
    BY <1>1, <1>4, <1>5, NaturalsIn
<1>7. Small(Cardinality(D)) = SUBSET D
  BY <1>1
<1>8. \A it : Folding(first, D, it) = [s \in Small(Cardinality(D)) |-> Body(it, s)]
  <2> HIDE DEF Small
  <2> QED
    BY <1>7 DEF Folding
<1>9. PICK it : it = [s \in Small(Cardinality(D)) |-> Body(it, s)]
  <2> HIDE DEF Small, Body
  <2> QED
    BY <1>6
<1> HIDE DEF Small, Body
<1> QED
  BY <1>8, <1>9, Zenon

\* The recursion that RootLength follows.
LEMMA RootLengthRecursion ==
    ASSUME NEW first, NEW D, IsFiniteSet(D)
    PROVE  \E it : it = Folding(first, D, it) /\ RootLength(D, first) = it[D]
<1> DEFINE iter == CHOOSE it : it = Folding(first, D, it)
<1>1. iter = Folding(first, D, iter)
  BY FoldExists, Zenon
<1>2. RootLength(D, first) = iter[D]
  BY DEF Folding, RootLength, FoldSet, MapThenFoldSet
<1> QED
  BY <1>1, <1>2

\* CommonLength is a length that a and b share, and the largest up to n.
LEMMA CommonLengthIs ==
    ASSUME NEW a \in Seq(Names), NEW b \in Seq(Names), NEW n \in Nat
    PROVE  /\ CommonLength(a, b, n) \in 0..n
           /\ Share(a, b, CommonLength(a, b, n))
           /\ \A k \in 0..n : Share(a, b, k) => k <= CommonLength(a, b, n)
<1> DEFINE T == {k \in 0..n : Share(a, b, k)}
<1>1. T \in SUBSET (0..n)
  OBVIOUS
<1>2. 0 \in T
  BY DEF Share
<1>3. CommonLength(a, b, n) = Max(T)
  BY DEF CommonLength
<1>4. Max(T) \in T /\ \A k \in T : k <= Max(T)
  <2> HIDE DEF T
  <2> QED
    BY <1>1, <1>2, MaxIsGreatest
<1> QED
  BY <1>3, <1>4

\* What is shared up to k is shared up to less.
LEMMA ShareLess ==
    ASSUME NEW a \in Seq(Names), NEW b \in Seq(Names), NEW k \in Nat, Share(a, b, k),
           NEW m \in 0..k
    PROVE  Share(a, b, m)
BY DEF Share

\* n is a length that first shares with every directory, and the largest.
SharedByAll(first, D, n) ==
    /\ n \in 0..Len(first)
    /\ \A d \in D : Share(first, d, n)
    /\ \A k \in 0..Len(first) : (\A d \in D : Share(first, d, k)) => k <= n

\* RootLength is the length of what all directories of a tree share.
LEMMA RootLengthIs ==
    ASSUME NEW first \in Seq(Names), NEW D \in SUBSET Seq(Names), IsFiniteSet(D)
    PROVE  SharedByAll(first, D, RootLength(D, first))
<1>1. PICK it : it = Folding(first, D, it) /\ RootLength(D, first) = it[D]
  BY RootLengthRecursion
<1> DEFINE T == {n \in Nat : \A s \in SUBSET D :
                    Cardinality(s) <= n => SharedByAll(first, s, it[s])}
<1>2. \A s \in SUBSET D : IsFiniteSet(s) /\ Cardinality(s) \in Nat
  BY FS_Subset, FS_CardinalityType
<1>3. it[{}] = Len(first)
  BY <1>1, Zenon DEF Folding
<1>4. \A s \in SUBSET D : s # {} =>
          \E d \in s : it[s] = CommonLength(first, d, it[s \ {d}])
  <2>1. SUFFICES ASSUME NEW s \in SUBSET D, s # {}
                 PROVE  \E d \in s : it[s] = CommonLength(first, d, it[s \ {d}])
    OBVIOUS
  <2> DEFINE d == CHOOSE x \in s : TRUE
  <2>2. d \in s
    BY <2>1
  <2>3. it[s] = CommonLength(first, d, it[s \ {d}])
    BY <1>1, <2>1, Zenon DEF Folding
  <2> QED
    BY <2>2, <2>3
<1>5. SharedByAll(first, {}, it[{}])
  BY <1>3 DEF SharedByAll
<1>6. 0 \in T
  <2>1. \A s \in SUBSET D : Cardinality(s) <= 0 => s = {}
    BY <1>2, FS_EmptySet
  <2> QED
    BY <1>5, <2>1
<1>7. ASSUME NEW n \in Nat, n \in T
      PROVE  n + 1 \in T
  <2>1. SUFFICES ASSUME NEW s \in SUBSET D, Cardinality(s) <= n + 1, s # {}
                 PROVE  SharedByAll(first, s, it[s])
    <3>1. n + 1 \in Nat
      OBVIOUS
    <3> HIDE DEF SharedByAll
    <3> QED
      BY <1>5, <3>1
  <2>2. PICK d \in s : it[s] = CommonLength(first, d, it[s \ {d}])
    BY <1>4, <2>1
  <2> DEFINE rest == s \ {d}
             m == it[rest]
  <2>3. SharedByAll(first, rest, m)
    <3>1. IsFiniteSet(s) /\ Cardinality(s) \in Nat
      BY <1>2, <2>1
    <3>2. Cardinality(rest) = Cardinality(s) - 1
      BY <3>1, FS_RemoveElement
    <3>3. rest \in SUBSET D /\ Cardinality(rest) <= n
      BY <2>1, <3>1, <3>2
    <3> QED
      BY <1>7, <3>3
  <2>4. first \in Seq(Names) /\ d \in Seq(Names) /\ m \in Nat /\ m <= Len(first)
    BY <2>3 DEF SharedByAll
  <2>5. /\ it[s] \in 0..m
        /\ Share(first, d, it[s])
        /\ \A k \in 0..m : Share(first, d, k) => k <= it[s]
    <3> HIDE DEF m
    <3> QED
      BY <2>2, <2>4, CommonLengthIs DEF m
  <2>6. it[s] \in 0..Len(first)
    BY <2>4, <2>5
  <2>7. \A e \in s : Share(first, e, it[s])
    <3>1. SUFFICES ASSUME NEW e \in rest PROVE Share(first, e, it[s])
      BY <2>5
    <3>2. Share(first, e, m)
      BY <2>3 DEF SharedByAll
    <3> HIDE DEF m
    <3> QED
      BY <2>4, <2>5, <3>2, ShareLess
  <2>8. ASSUME NEW k \in 0..Len(first), \A e \in s : Share(first, e, k)
        PROVE  k <= it[s]
    <3>1. k <= m
      BY <2>3, <2>8 DEF SharedByAll
    <3> HIDE DEF m
    <3> QED
      BY <2>4, <2>5, <2>8, <3>1
  <2> QED
    BY <2>6, <2>7, <2>8 DEF SharedByAll
<1>8. \A n \in Nat : n \in T
  <2> HIDE DEF T
  <2> QED
    BY <1>6, <1>7, NaturalsIn
<1> QED
  BY <1>1, <1>2, <1>8

\* The first k names of a are a prefix of b just when a and b share them.
LEMMA PrefixIsShare ==
    ASSUME NEW a \in Seq(Names), NEW b \in Seq(Names), NEW k \in 0..Len(a)
    PROVE  IsPrefix(SubSeq(a, 1, k), b) <=> Share(a, b, k)
<1> DEFINE p == SubSeq(a, 1, k)
<1>1. p \in Seq(Names) /\ Len(p) = k /\ \A i \in 1..k : p[i] = a[i]
  BY SubSeqProperties
<1>2. SubSeq(p, 1, Len(p)) = p
  BY <1>1, SubSeqFull
<1>3. ASSUME k <= Len(b)
      PROVE  (p = SubSeq(b, 1, k)) <=> \A i \in 1..k : a[i] = b[i]
  <2> DEFINE q == SubSeq(b, 1, k)
  <2>1. q \in Seq(Names) /\ Len(q) = k /\ \A i \in 1..k : q[i] = b[i]
    BY <1>3, SubSeqProperties
  <2> HIDE DEF p, q
  <2>2. (\A i \in 1..k : p[i] = q[i]) => p = q
    BY <1>1, <2>1, SeqEqual
  <2>3. (p = q) <=> \A i \in 1..k : a[i] = b[i]
    BY <1>1, <2>1, <2>2
  <2> QED
    BY <2>3 DEF q
<1>4. IsPrefix(p, b) <=> k <= Len(b) /\ p = SubSeq(b, 1, k)
  BY <1>1, <1>2 DEF IsPrefix
<1> QED
  BY <1>3, <1>4 DEF Share

\* Of one tree: its root is above exactly its directories, starts with its top and is
\* as deep as can be.
LEMMA TreeRoot ==
    ASSUME NEW dirs, IsFiniteSet(dirs), dirs \subseteq Seq(Names), <<>> \notin dirs,
           NEW first \in dirs
    PROVE  LET top  == Head(first)
               root == RootOf(Tree(dirs, top), first)
           IN  /\ root \in Seq(Names) /\ root # <<>> /\ Head(root) = top
               /\ \A d \in dirs : IsPrefix(root, d) <=> d \in Tree(dirs, top)
               /\ \A n \in Names : \E d \in Tree(dirs, top) : ~IsPrefix(Append(root, n), d)
<1> DEFINE top == Head(first)
           D   == Tree(dirs, top)
           L   == RootLength(D, first)
           root == RootOf(D, first)
<1>1. first \in Seq(Names) /\ first # <<>> /\ Len(first) \in Nat /\ 1 <= Len(first)
  OBVIOUS
<1>2. D \in SUBSET Seq(Names) /\ D \subseteq dirs /\ first \in D
  BY DEF Tree
<1>3. IsFiniteSet(D)
  BY <1>2, FS_Subset
<1>4. SharedByAll(first, D, L)
  <2> HIDE DEF D
  <2> QED
    BY <1>1, <1>2, <1>3, RootLengthIs
<1>5. L \in 0..Len(first) /\ \A d \in D : Share(first, d, L)
  BY <1>4 DEF SharedByAll
<1>6. \A d \in dirs : Len(d) \in Nat /\ 1 <= Len(d) /\ Head(d) = d[1]
  OBVIOUS
<1>7. 1 <= L
  <2>1. \A d \in D : Share(first, d, 1)
    BY <1>2, <1>6 DEF Share, Tree
  <2>2. 1 \in 0..Len(first)
    BY <1>1
  <2> HIDE DEF D, L
  <2> QED
    BY <1>4, <2>1, <2>2 DEF SharedByAll
<1>8. root = SubSeq(first, 1, L)
  BY DEF RootOf
<1>9. root \in Seq(Names) /\ Len(root) = L /\ \A i \in 1..L : root[i] = first[i]
  <2> HIDE DEF root, L
  <2> QED
    BY <1>1, <1>5, <1>8, SubSeqProperties
<1>10. root # <<>> /\ Head(root) = top
  <2> HIDE DEF root, L
  <2> QED
    BY <1>6, <1>7, <1>9
<1>11. \A d \in dirs : IsPrefix(root, d) <=> Share(first, d, L)
  <2> HIDE DEF root, L
  <2> QED
    BY <1>1, <1>5, <1>8, PrefixIsShare
<1>12. \A d \in dirs : Share(first, d, L) => d \in D
  <2>1. SUFFICES ASSUME NEW d \in dirs, Share(first, d, L) PROVE Head(d) = top
    BY DEF Tree
  <2>2. 1 \in 1..L
    BY <1>5, <1>7
  <2>3. first[1] = d[1]
    <3> HIDE DEF L
    <3> QED
      BY <2>1, <2>2 DEF Share
  <2> QED
    BY <1>6, <2>3
<1>13. ASSUME NEW n \in Names, \A d \in D : IsPrefix(Append(root, n), d)
       PROVE  FALSE
  <2> DEFINE c == Append(root, n)
  <2>1. c \in Seq(Names) /\ Len(c) = L + 1
    <3> HIDE DEF root, L
    <3> QED
      BY <1>9, AppendProperties
  <2>2. SubSeq(c, 1, L + 1) = c
    <3> HIDE DEF c, L
    <3> QED
      BY <2>1, SubSeqFull
  <2>3. \A d \in D : L + 1 <= Len(d) /\ c = SubSeq(d, 1, L + 1)
    <3> HIDE DEF D, L, root
    <3> QED
      BY <1>13, <2>1, <2>2 DEF IsPrefix
  <2>4. L + 1 \in 0..Len(first) /\ c = SubSeq(first, 1, L + 1)
    <3> HIDE DEF D, L, c
    <3> QED
      BY <1>2, <1>5, <2>3
  <2>5. \A d \in D : Share(first, d, L + 1)
    <3>1. \A d \in D : IsPrefix(SubSeq(first, 1, L + 1), d)
      <4> HIDE DEF D, L, root
      <4> QED
        BY <1>13, <2>4
    <3>2. \A d \in D : d \in Seq(Names)
      BY <1>2
    <3> HIDE DEF D, L
    <3> QED
      BY <1>1, <2>4, <3>1, <3>2, PrefixIsShare
  <2> HIDE DEF D, L
  <2> QED
    BY <1>4, <1>5, <2>4, <2>5 DEF SharedByAll
<1> QED
  <2>1. \A d \in dirs : IsPrefix(root, d) <=> d \in D
    BY <1>5, <1>11, <1>12, <1>2
  <2>2. \A n \in Names : \E d \in D : ~IsPrefix(Append(root, n), d)
    <3> HIDE DEF D, root
    <3> QED
      BY <1>13
  <2> HIDE DEF D, root, top
  <2>3. /\ root \in Seq(Names) /\ root # <<>> /\ Head(root) = top
        /\ \A d \in dirs : IsPrefix(root, d) <=> d \in D
        /\ \A n \in Names : \E d \in D : ~IsPrefix(Append(root, n), d)
    BY <1>9, <1>10, <2>1, <2>2
  <2> QED
    BY <2>3 DEF D, root, top

\* findCommonRoots returns roots that fit.
LEMMA CommonRootsFit ==
    ASSUME NEW dirs, IsFiniteSet(dirs), dirs \subseteq Seq(Names)
    PROVE  FindCommonRoots(dirs) \subseteq Seq(Names) /\ Fit(FindCommonRoots(dirs), dirs)
<1>1. CASE <<>> \in dirs
  <2>1. FindCommonRoots(dirs) = {<<>>}
    BY <1>1 DEF FindCommonRoots
  <2>2. \A d \in dirs : IsPrefix(<<>>, d)
    <3>1. SUFFICES ASSUME NEW d \in dirs PROVE IsPrefix(<<>>, d)
      OBVIOUS
    <3>2. SubSeq(<<>>, 1, 0) = <<>> /\ SubSeq(d, 1, 0) = <<>>
      BY SubSeqEmpty
    <3>3. Len(<<>>) = 0 /\ Len(d) \in Nat
      OBVIOUS
    <3> QED
      BY <3>2, <3>3 DEF IsPrefix
  <2>3. \A n \in Names : ~IsPrefix(Append(<<>>, n), <<>>)
    <3>1. \A n \in Names : Len(Append(<<>>, n)) = 1 /\ Len(<<>>) = 0
      OBVIOUS
    <3> QED
      BY <3>1 DEF IsPrefix
  <2>4. <<>> \in Seq(Names)
    OBVIOUS
  <2>5. \A d \in dirs : \E r \in {<<>>} : IsPrefix(r, d)
    BY <2>2
  <2>6. \A r \in {<<>>} : ~\E c \in {Append(r, n) : n \in Names} :
            \A d \in {e \in dirs : IsPrefix(r, e)} : IsPrefix(c, d)
    BY <1>1, <2>2, <2>3
  <2> QED
    BY <2>1, <2>4, <2>5, <2>6 DEF Fit
<1>2. CASE <<>> \notin dirs
  <2> DEFINE First(top) == CHOOSE f \in Tree(dirs, top) : TRUE
             Root(top) == RootOf(Tree(dirs, top), First(top))
             Tops == {Head(d) : d \in dirs}
  <2>1. FindCommonRoots(dirs) = {Root(top) : top \in Tops}
    BY <1>2 DEF FindCommonRoots
  <2>2. ASSUME NEW top \in Tops
        PROVE  First(top) \in dirs /\ Head(First(top)) = top
    BY <2>2 DEF Tree
  <2>3. ASSUME NEW top \in Tops
        PROVE  /\ Root(top) \in Seq(Names) /\ Head(Root(top)) = top
               /\ \A d \in dirs : IsPrefix(Root(top), d) <=> d \in Tree(dirs, top)
               /\ \A n \in Names : \E d \in Tree(dirs, top) : ~IsPrefix(Append(Root(top), n), d)
    <3> DEFINE first == First(top)
    <3>1. first \in dirs /\ Head(first) = top
      BY <2>2
    <3>2. /\ RootOf(Tree(dirs, Head(first)), first) \in Seq(Names)
          /\ Head(RootOf(Tree(dirs, Head(first)), first)) = Head(first)
          /\ \A d \in dirs : IsPrefix(RootOf(Tree(dirs, Head(first)), first), d)
                                <=> d \in Tree(dirs, Head(first))
          /\ \A n \in Names : \E d \in Tree(dirs, Head(first)) :
                ~IsPrefix(Append(RootOf(Tree(dirs, Head(first)), first), n), d)
      <4> HIDE DEF first
      <4> QED
        BY <1>2, <3>1, TreeRoot
    <3> HIDE DEF first
    <3> QED
      BY <3>1, <3>2 DEF first
  <2>4. \A d \in dirs : Head(d) \in Tops /\ d \in Tree(dirs, Head(d))
    BY DEF Tree
  <2>5. \A d \in dirs : \E r \in {Root(top) : top \in Tops} : IsPrefix(r, d)
    <3> HIDE DEF Root, Tops
    <3> QED
      BY <2>3, <2>4
  <2>6. \A r, q \in {Root(top) : top \in Tops} : r # q => Head(r) # Head(q)
    <3> HIDE DEF Root, Tops
    <3> QED
      BY <2>3
  <2>7. ASSUME NEW r \in {Root(top) : top \in Tops}, NEW n \in Names,
               \A d \in {e \in dirs : IsPrefix(r, e)} : IsPrefix(Append(r, n), d)
        PROVE  FALSE
    <3>1. PICK top \in Tops : r = Root(top)
      BY <2>7
    <3>2. PICK d \in Tree(dirs, top) : ~IsPrefix(Append(r, n), d)
      BY <2>3, <3>1
    <3>3. d \in dirs /\ IsPrefix(r, d)
      <4>1. d \in dirs
        BY DEF Tree
      <4> HIDE DEF Root, Tops
      <4> QED
        BY <2>3, <3>1, <4>1
    <3> QED
      BY <2>7, <3>2, <3>3
  <2>8. {Root(top) : top \in Tops} \subseteq Seq(Names)
    <3> HIDE DEF Root, Tops
    <3> QED
      BY <2>3
  <2> HIDE DEF Root, Tops
  <2> QED
    BY <2>1, <2>5, <2>6, <2>7, <2>8 DEF Fit
<1> QED
  BY <1>1, <1>2

(***************************************************************************)
(* The inductive invariant.                                                *)
(***************************************************************************)

\* Where UpdateAll is: between its Stop and its Start nothing runs, and there is a stream
\* left to make.
UpdateInv ==
    /\ loop # "wait" => running = {}
    /\ loop = "stopped" => es < MaxUpdates
    /\ loop = "made" => es > 0

Inv == TypeOK /\ UpdateInv /\ RootsFit

\* What UpdateAll is given is finite and made of directories.
LEMMA NamesAreDirectories ==
    ASSUME TypeOK
    PROVE  IsFiniteSet(names) /\ names \subseteq Seq(Names)
<1>1. CASE names \in WantedSets
  BY <1>1, FSEventsAssumption
<1>2. CASE names = {}
  BY <1>2, FS_EmptySet
<1> QED
  BY <1>1, <1>2 DEF TypeOK

LEMMA StreamsAreNaturals == 0 \in Streams /\ \A s \in Streams : s \in Nat /\ s <= MaxUpdates
BY FSEventsAssumption DEF Streams

\* At first there is one stream, which does not run.
LEMMA InvInit == Init => Inv
<1> SUFFICES ASSUME Init PROVE Inv
  OBVIOUS
<1>1. <<>> \in Seq(Event)
  OBVIOUS
<1>2. TypeOK
  BY <1>1, StreamsAreNaturals, FSEventsAssumption DEF Init, TypeOK
<1> QED
  BY <1>2 DEF Init, Inv, UpdateInv, RootsFit

LEMMA StopStreamInv == ASSUME Inv, NEW dirs \in WantedSets, StopStream(dirs) PROVE Inv'
<1>1. queue' \in [Streams -> Seq(Event)]
  <2>1. <<>> \in Seq(Event)
    OBVIOUS
  <2> QED
    BY <2>1 DEF Inv, TypeOK, StopStream
<1>2. TypeOK'
  BY <1>1 DEF Inv, TypeOK, StopStream
<1> QED
  BY <1>2 DEF Inv, UpdateInv, RootsFit, StopStream

LEMMA NewStreamInv == ASSUME Inv, NewStream PROVE Inv'
<1>1. es \in Nat /\ es + 1 \in Streams
  BY FSEventsAssumption DEF Inv, TypeOK, UpdateInv, NewStream, Streams
<1>2. FindCommonRoots(names) \subseteq Seq(Names) /\ Fit(FindCommonRoots(names), names)
  <2>1. IsFiniteSet(names) /\ names \subseteq Seq(Names)
    BY NamesAreDirectories DEF Inv
  <2> QED
    BY <2>1, CommonRootsFit
<1>3. paths' \in [Streams -> SUBSET Seq(Names)]
  BY <1>1, <1>2 DEF Inv, TypeOK, NewStream
<1>4. running = {}
  BY DEF Inv, UpdateInv, NewStream
<1>5. TypeOK'
  BY <1>1, <1>3, <1>4 DEF Inv, TypeOK, NewStream
<1>6. paths'[es'] = FindCommonRoots(names)
  BY <1>1 DEF Inv, TypeOK, NewStream
<1>7. RootsFit'
  <2>1. names' = names
    BY DEF NewStream
  <2>2. Fit(paths'[es'], names')
    BY <1>2, <1>6, <2>1
  <2>3. Fit(paths[es], names)'
    BY <2>2 DEF Fit
  <2> QED
    BY <2>3 DEF RootsFit
<1>8. UpdateInv'
  BY <1>1, <1>4 DEF UpdateInv, NewStream
<1> QED
  BY <1>5, <1>7, <1>8 DEF Inv

LEMMA StartStreamInv == ASSUME Inv, StartStream PROVE Inv'
<1>1. TypeOK'
  BY DEF Inv, TypeOK, StartStream
<1>2. RootsFit'
  BY DEF Inv, RootsFit, Fit, StartStream
<1> QED
  BY <1>1, <1>2 DEF Inv, UpdateInv, StartStream

LEMMA MapperInv == ASSUME Inv, NEW g \in Streams, Mapper(g) PROVE Inv'
<1>1. UNCHANGED <<es, paths, running, loop, names, happened>>
  BY DEF Mapper, MapEvents, TakeBatch, SendEvent
<1>2. CASE MapEvents(g)
  <2>1. TypeOK'
    BY <1>1, <1>2 DEF Inv, TypeOK, MapEvents
  <2> QED
    BY <1>1, <2>1 DEF Inv, UpdateInv, RootsFit, Fit
<1>3. CASE TakeBatch(g)
  <2>1. PICK s \in reads[g] : /\ batch' = [batch EXCEPT ![g] = queue[s]]
                             /\ queue' = [queue EXCEPT ![s] = <<>>]
    BY <1>3 DEF TakeBatch
  <2>2. s \in Streams /\ <<>> \in Seq(Event)
    BY DEF Inv, TypeOK
  <2>3. TypeOK'
    BY <1>1, <1>3, <2>1, <2>2 DEF Inv, TypeOK, TakeBatch
  <2> QED
    BY <1>1, <2>3 DEF Inv, UpdateInv, RootsFit, Fit
<1>4. CASE SendEvent(g)
  <2>1. Tail(batch[g]) \in Seq(Event)
    BY <1>4 DEF Inv, TypeOK, SendEvent
  <2>2. TypeOK'
    BY <1>1, <1>4, <2>1 DEF Inv, TypeOK, SendEvent
  <2> QED
    BY <1>1, <2>2 DEF Inv, UpdateInv, RootsFit, Fit
<1> QED
  BY <1>2, <1>3, <1>4 DEF Mapper

LEMMA SystemEventInv ==
    ASSUME Inv, NEW f \in Files, NEW flags \in FlagSets, SystemEvent(f, flags)
    PROVE  Inv'
<1>1. [file |-> f, flags |-> flags] \in Event
  BY DEF Event
<1>2. queue' \in [Streams -> Seq(Event)]
  BY <1>1 DEF Inv, TypeOK, SystemEvent
<1>3. happened' \in 0..MaxChanges
  BY FSEventsAssumption DEF Inv, TypeOK, SystemEvent
<1>4. TypeOK'
  BY <1>2, <1>3 DEF Inv, TypeOK, SystemEvent
<1> QED
  BY <1>4 DEF Inv, UpdateInv, RootsFit, Fit, SystemEvent

LEMMA InvStep == ASSUME Inv, [Next]_vars PROVE Inv'
<1>1. CASE UNCHANGED vars
  <2>1. TypeOK'
    BY <1>1 DEF Inv, TypeOK, vars
  <2> QED
    BY <1>1, <2>1 DEF Inv, UpdateInv, RootsFit, Fit, vars
<1> QED
  BY <1>1, StopStreamInv, NewStreamInv, StartStreamInv, MapperInv, SystemEventInv DEF Next

LEMMA InvHolds == Spec => []Inv
BY InvInit, InvStep, PTL DEF Spec

\* The variables of the stream, its goroutines and the loop keep their types: a new stream
\* is only made while there is one left to make and none is running.
THEOREM TypeCorrect == Spec => []TypeOK
BY InvHolds, PTL DEF Inv

\* The roots of the present stream fit the directories UpdateAll was given, whatever they
\* are and in whichever order findCommonRoots meets them (RootsFit, fsevents.go:103).
THEOREM RootsFitHolds == Spec => []RootsFit
BY InvHolds, PTL DEF Inv

(***************************************************************************)
(* The refinement of Watcher.                                              *)
(***************************************************************************)

\* The three variables of the abstract watcher.
Wanted  == {f \in Files : DirOf[f] \in names}
Covered == {f \in Files : \E s \in running : Covers(s, f)}
Pending == {f \in Files : \E s \in Streams : Held(queue[s], f) \/ Held(batch[s], f)}

\* An event e is a modification of f.
Modifies(e, f) == e.file = f /\ Modifying(e)

LEMMA HeldInNone == \A f : ~Held(<<>>, f)
BY DEF Held

LEMMA HeldInTail ==
    ASSUME NEW q \in Seq(Event), q # <<>>, NEW f
    PROVE  Held(q, f) <=> Modifies(Head(q), f) \/ Held(Tail(q), f)
<1>1. /\ Len(q) \in Nat /\ 1 <= Len(q) /\ Head(q) = q[1]
      /\ Len(Tail(q)) = Len(q) - 1
      /\ \A i \in 1..Len(Tail(q)) : Tail(q)[i] = q[i + 1]
  BY HeadTailProperties
<1>2. ASSUME NEW i \in 1..Len(q), Modifies(q[i], f)
      PROVE  Modifies(Head(q), f) \/ Held(Tail(q), f)
  <2>1. CASE i = 1
    BY <1>1, <1>2, <2>1
  <2>2. CASE i # 1
    <3>1. i - 1 \in 1..Len(Tail(q)) /\ Tail(q)[i - 1] = q[i]
      BY <1>1, <2>2
    <3> QED
      BY <1>2, <3>1 DEF Held, Modifies
  <2> QED
    BY <2>1, <2>2
<1>3. Modifies(Head(q), f) => Held(q, f)
  BY <1>1 DEF Held, Modifies
<1>4. ASSUME NEW i \in 1..Len(Tail(q)), Modifies(Tail(q)[i], f)
      PROVE  Held(q, f)
  <2>1. i + 1 \in 1..Len(q) /\ q[i + 1] = Tail(q)[i]
    BY <1>1
  <2> QED
    BY <1>4, <2>1 DEF Held, Modifies
<1> QED
  BY <1>2, <1>3, <1>4 DEF Held, Modifies

LEMMA HeldInAppend ==
    ASSUME NEW q \in Seq(Event), NEW e \in Event, NEW f
    PROVE  Held(Append(q, e), f) <=> Held(q, f) \/ Modifies(e, f)
<1> DEFINE p == Append(q, e)
<1>1. /\ Len(q) \in Nat /\ Len(p) = Len(q) + 1 /\ p[Len(q) + 1] = e
      /\ \A i \in 1..Len(q) : p[i] = q[i]
  BY AppendProperties
<1>2. Held(p, f) <=> \E i \in 1..Len(p) : Modifies(p[i], f)
  BY DEF Held, Modifies
<1>3. Held(q, f) <=> \E i \in 1..Len(q) : Modifies(q[i], f)
  BY DEF Held, Modifies
<1> HIDE DEF p
<1>4. ASSUME NEW i \in 1..Len(p), Modifies(p[i], f)
      PROVE  Held(q, f) \/ Modifies(e, f)
  <2>1. i \in 1..Len(q) \/ i = Len(q) + 1
    BY <1>1
  <2> QED
    BY <1>1, <1>3, <1>4, <2>1
<1>5. Held(q, f) => Held(p, f)
  <2>1. \A i \in 1..Len(q) : i \in 1..Len(p)
    BY <1>1
  <2> QED
    BY <1>1, <1>2, <1>3, <2>1
<1>6. Modifies(e, f) => Held(p, f)
  <2>1. Len(q) + 1 \in 1..Len(p)
    BY <1>1
  <2> QED
    BY <1>1, <1>2, <2>1
<1>7. Held(p, f) <=> Held(q, f) \/ Modifies(e, f)
  BY <1>2, <1>4, <1>5, <1>6
<1> QED
  BY <1>7 DEF p

\* How a step changes them: the steps of Watcher.
Stutters  == Wanted' = Wanted /\ Covered' = Covered /\ Pending' = Pending
Stops     == Covered' = {} /\ Pending' \subseteq Pending
Starts    == Wanted \subseteq Covered' /\ Wanted' = Wanted /\ Pending' = Pending
Changes(f)  == /\ Pending' = IF f \in Covered THEN Pending \cup {f} ELSE Pending
               /\ Wanted' = Wanted /\ Covered' = Covered
Delivers(f) == Pending' = Pending \ {f} /\ Wanted' = Wanted /\ Covered' = Covered

LEMMA StopStreamStops == ASSUME Inv, NEW dirs \in WantedSets, StopStream(dirs) PROVE Stops
<1>1. Covered' = {}
  BY DEF Covered, StopStream
<1>2. ASSUME NEW s \in Streams, NEW f
      PROVE  Held(queue'[s], f) => Held(queue[s], f)
  <2>1. queue'[s] = queue[s] \/ queue'[s] = <<>>
    BY DEF Inv, TypeOK, StopStream
  <2> QED
    BY <2>1, HeldInNone
<1>3. batch' = batch
  BY DEF StopStream
<1> QED
  BY <1>1, <1>2, <1>3 DEF Stops, Pending

\* Nothing runs when a stream is made, so its roots cover nothing yet.
LEMMA NewStreamStutters == ASSUME Inv, NewStream PROVE Stutters
BY DEF Inv, UpdateInv, NewStream, Stutters, Wanted, Covered, Pending

\* The roots fit, so the stream covers what is wanted as soon as it runs.
LEMMA StartStreamStarts == ASSUME Inv, StartStream PROVE Starts
<1>1. Fit(paths[es], names)
  <2>1. es > 0 /\ loop # "stopped"
    BY DEF Inv, UpdateInv, StartStream
  <2> QED
    BY <2>1 DEF Inv, RootsFit
<1>2. \A f \in Files : DirOf[f] \in names => Covers(es, f)
  BY <1>1 DEF Fit, Covers
<1>3. running' = {es} /\ paths' = paths
  BY DEF StartStream
<1>4. Wanted \subseteq Covered'
  <2>1. \A f \in Files : Covers(es, f) => f \in Covered'
    BY <1>3 DEF Covered, Covers
  <2> QED
    BY <1>2, <2>1 DEF Wanted
<1> QED
  BY <1>4 DEF Starts, StartStream, Wanted, Pending

\* MapEvents hands events on: none is added, and only what SendEvent sends is gone.
LEMMA MapperStep ==
    ASSUME Inv, NEW g \in Streams, Mapper(g)
    PROVE  Stutters \/ \E f \in Files : Delivers(f)
<1>1. Wanted' = Wanted /\ Covered' = Covered
  BY DEF Mapper, MapEvents, TakeBatch, SendEvent, Wanted, Covered, Covers
<1>2. CASE MapEvents(g)
  BY <1>1, <1>2 DEF MapEvents, Stutters, Pending
<1>3. CASE TakeBatch(g)
  <2>1. PICK s \in reads[g] : /\ batch' = [batch EXCEPT ![g] = queue[s]]
                             /\ queue' = [queue EXCEPT ![s] = <<>>]
    BY <1>3 DEF TakeBatch
  <2>2. s \in Streams
    BY DEF Inv, TypeOK
  <2>3. /\ batch'[g] = queue[s] /\ \A h \in Streams \ {g} : batch'[h] = batch[h]
        /\ queue'[s] = <<>> /\ \A t \in Streams \ {s} : queue'[t] = queue[t]
    BY <2>1, <2>2 DEF Inv, TypeOK
  <2>4. batch[g] = <<>>
    BY <1>3 DEF TakeBatch
  <2>5. ASSUME NEW f \in Files
        PROVE  (\E t \in Streams : Held(queue'[t], f) \/ Held(batch'[t], f))
                 <=> \E t \in Streams : Held(queue[t], f) \/ Held(batch[t], f)
    <3>1. \A t \in Streams : Held(queue'[t], f) => Held(queue[t], f)
      BY <2>3, HeldInNone
    <3>2. \A t \in Streams : Held(batch'[t], f) => Held(queue[s], f) \/ Held(batch[t], f)
      BY <2>3
    <3>3. \A t \in Streams : Held(queue[t], f) => Held(queue'[t], f) \/ Held(batch'[g], f)
      BY <2>3
    <3>4. \A t \in Streams : Held(batch[t], f) => Held(batch'[t], f)
      BY <2>3, <2>4, HeldInNone
    <3> QED
      BY <2>2, <3>1, <3>2, <3>3, <3>4
  <2>6. Pending' = Pending
    BY <2>5 DEF Pending
  <2> QED
    BY <1>1, <2>6 DEF Stutters
<1>4. CASE SendEvent(g)
  <2> DEFINE e == Head(batch[g])
  <2>1. batch[g] \in Seq(Event) /\ batch[g] # <<>> /\ e \in Event
    BY <1>4 DEF Inv, TypeOK, SendEvent
  <2>2. /\ batch'[g] = Tail(batch[g]) /\ queue' = queue
        /\ \A h \in Streams \ {g} : batch'[h] = batch[h]
    BY <1>4 DEF Inv, TypeOK, SendEvent
  <2>3. e.file \in Files
    BY <2>1 DEF Event
  <2> HIDE DEF e
  <2>4. \A f : Held(batch[g], f) <=> Modifies(e, f) \/ Held(batch'[g], f)
    BY <2>1, <2>2, HeldInTail DEF e
  <2>5. \A f \in Files : f # e.file => (f \in Pending' <=> f \in Pending)
    <3>1. \A f \in Files : f # e.file =>
              \A h \in Streams : Held(batch'[h], f) <=> Held(batch[h], f)
      BY <2>2, <2>4 DEF Modifies
    <3> QED
      BY <2>2, <3>1 DEF Pending
  <2>6. e.file \in Pending' => e.file \in Pending
    <3>1. \A h \in Streams : Held(batch'[h], e.file) => Held(batch[h], e.file)
      BY <2>2, <2>4
    <3> QED
      BY <2>2, <3>1 DEF Pending
  <2>7. Pending \subseteq Files /\ Pending' \subseteq Files
    BY DEF Pending
  <2>8. Pending' = Pending \/ Pending' = Pending \ {e.file}
    BY <2>3, <2>5, <2>6, <2>7
  <2> QED
    BY <1>1, <2>3, <2>8 DEF Stutters, Delivers
<1> QED
  BY <1>2, <1>3, <1>4 DEF Mapper

\* An event of the system reaches the stream that runs, if its roots cover the file.
LEMMA SystemEventStep ==
    ASSUME Inv, NEW f \in Files, NEW flags \in FlagSets, SystemEvent(f, flags)
    PROVE  Stutters \/ Changes(f)
<1> DEFINE e == [file |-> f, flags |-> flags]
<1>1. Wanted' = Wanted /\ Covered' = Covered
  BY DEF SystemEvent, Wanted, Covered, Covers
<1>2. e \in Event /\ e.file = f
  BY DEF Event
<1>3. batch' = batch /\ running \subseteq Streams
  BY DEF Inv, TypeOK, SystemEvent
<1>4. \A s \in Streams :
         queue'[s] = IF s \in running /\ Covers(s, f) THEN Append(queue[s], e) ELSE queue[s]
  BY DEF SystemEvent
<1>5. \A s \in Streams : queue[s] \in Seq(Event)
  BY DEF Inv, TypeOK
<1>6. f \in Covered <=> \E s \in running : Covers(s, f)
  BY DEF Covered
<1> HIDE DEF e
<1>7. ASSUME NEW s \in Streams, NEW g
      PROVE  Held(queue'[s], g) <=> \/ Held(queue[s], g)
                                    \/ s \in running /\ Covers(s, f) /\ Modifies(e, g)
  BY <1>2, <1>4, <1>5, HeldInAppend
<1>8. CASE Modifying(e) /\ f \in Covered
  <2>1. \A g \in Files : g \in Pending' <=> g \in Pending \/ g = f
    BY <1>2, <1>3, <1>6, <1>7, <1>8 DEF Pending, Modifies
  <2>2. Pending \subseteq Files /\ Pending' \subseteq Files
    BY DEF Pending
  <2>3. Pending' = Pending \cup {f}
    BY <2>1, <2>2
  <2> QED
    BY <1>1, <1>8, <2>3 DEF Changes
<1>9. CASE ~(Modifying(e) /\ f \in Covered)
  <2>1. \A s \in Streams, g \in Files : Held(queue'[s], g) <=> Held(queue[s], g)
    BY <1>6, <1>7, <1>9 DEF Modifies
  <2>2. Pending' = Pending
    BY <1>3, <2>1 DEF Pending
  <2> QED
    BY <1>1, <2>2 DEF Stutters
<1> QED
  BY <1>8, <1>9

LEMMA WatcherStep ==
    ASSUME Inv, [Next]_vars
    PROVE  \/ Stutters \/ Stops \/ Starts
           \/ \E f \in Files : Changes(f) \/ Delivers(f)
<1>1. CASE UNCHANGED vars
  BY <1>1 DEF vars, Stutters, Wanted, Covered, Covers, Pending
<1>2. CASE \E dirs \in WantedSets : StopStream(dirs)
  BY <1>2, StopStreamStops
<1>3. CASE NewStream
  BY <1>3, NewStreamStutters
<1>4. CASE StartStream
  BY <1>4, StartStreamStarts
<1>5. CASE \E g \in Streams : Mapper(g)
  BY <1>5, MapperStep
<1>6. CASE \E f \in Files, flags \in FlagSets : SystemEvent(f, flags)
  BY <1>6, SystemEventStep
<1> QED
  BY <1>1, <1>2, <1>3, <1>4, <1>5, <1>6 DEF Next

\* At first nothing is wanted, covered or pending.
LEMMA WatcherInit ==
    ASSUME Init
    PROVE  Wanted = {} /\ Covered = {} /\ Pending = {}
<1>1. Wanted = {} /\ Covered = {}
  BY DEF Init, Wanted, Covered
<1>2. Pending = {}
  BY HeldInNone DEF Init, Pending
<1> QED
  BY <1>1, <1>2

\* The macOS watcher is a Watcher that restarts: once UpdateAll has started a stream every
\* wanted file is covered, and only an update's Stop loses an event that is pending
\* (ImplementsWatcher, fsevents.go:46).
THEOREM ImplementsWatcherHolds == Spec => ImplementsWatcher
<1>1. Init => AsWatcher!Init
  <2> SUFFICES ASSUME Init PROVE AsWatcher!Init
    OBVIOUS
  <2>1. Wanted = {} /\ Covered = {} /\ Pending = {}
    BY WatcherInit DEF Init
  <2> QED
    BY <2>1 DEF AsWatcher!Init, Wanted, Covered, Pending
<1>2. Inv /\ [Next]_vars => [AsWatcher!Next]_(AsWatcher!vars)
  <2> SUFFICES ASSUME Inv, [Next]_vars PROVE [AsWatcher!Next]_(AsWatcher!vars)
    OBVIOUS
  <2>1. CASE Stutters
    BY <2>1 DEF Stutters, AsWatcher!vars, Wanted, Covered, Pending
  <2>2. CASE Stops
    <3>1. Wanted' \subseteq Files
      BY DEF Wanted
    <3> QED
      BY <2>2, <3>1 DEF Stops, AsWatcher!Next, AsWatcher!Stop, Wanted, Covered, Pending
  <2>3. CASE Starts
    <3>1. Covered' \subseteq Files
      BY DEF Covered
    <3> QED
      BY <2>3, <3>1 DEF Starts, AsWatcher!Next, AsWatcher!Start, Wanted, Covered, Pending
  <2>4. CASE \E f \in Files : Changes(f)
    BY <2>4 DEF Changes, AsWatcher!Next, AsWatcher!Change, Wanted, Covered, Pending
  <2>5. CASE \E f \in Files : Delivers(f)
    BY <2>5 DEF Delivers, AsWatcher!Next, AsWatcher!Deliver, Wanted, Covered, Pending
  <2> QED
    BY <2>1, <2>2, <2>3, <2>4, <2>5, WatcherStep
<1> QED
  BY <1>1, <1>2, InvHolds, PTL DEF Spec, ImplementsWatcher, AsWatcher!Spec
===============================================================================
