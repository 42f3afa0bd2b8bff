--------------------------- MODULE OutputRunnerProofs ---------------------------
(***************************************************************************)
(* Proofs about OutputRunner, for every configuration, every output and    *)
(* everything typed.                                                       *)
(***************************************************************************)
EXTENDS OutputRunner, FiniteSetTheorems, SequenceTheorems, TLAPS

(***************************************************************************)
(* Induction.                                                              *)
(***************************************************************************)

\* A set of natural numbers that is not empty has a least member.
LEMMA LeastNatural ==
    ASSUME NEW T \in SUBSET Nat, T # {}
    PROVE  \E n \in T : \A m \in T : n <= m
<1> DEFINE R == {ss \in Nat \X Nat : ss[1] < ss[2]}
<1>1. IsWellFoundedOn(R, Nat)
  BY NatLessThanWellFounded, Zenon DEF OpToRel
<1>2. \E x \in T : \A y \in T : ~ (<<y, x>> \in R)
  <2>1. T \subseteq Nat
    OBVIOUS
  <2>2. T # {}
    OBVIOUS
  <2> HIDE DEF R
  <2> QED
    BY <1>1, <2>1, <2>2, WFMin
<1>3. \A x, y \in Nat : y < x => <<y, x>> \in R
  OBVIOUS
<1> HIDE DEF R
<1>4. PICK x \in T : \A y \in T : ~ (<<y, x>> \in R)
  BY <1>2
<1>5. \A y \in T : x <= y
  <2>1. SUFFICES ASSUME NEW y \in T PROVE x <= y
    OBVIOUS
  <2>2. x \in Nat /\ y \in Nat
    OBVIOUS
  <2>3. ~ (y < x)
    BY <1>3, <1>4, <2>2, Zenon
  <2> QED
    BY <2>2, <2>3
<1> QED
  BY <1>5

\* Induction over the natural numbers: a set that has 0 and with n also n + 1 has them all.
LEMMA NaturalsIn ==
    ASSUME NEW T, 0 \in T, \A n \in Nat : n \in T => n + 1 \in T
    PROVE  \A n \in Nat : n \in T
<1> SUFFICES ASSUME Nat \ T # {} PROVE FALSE
  OBVIOUS
<1>1. PICK n \in Nat \ T : \A m \in Nat \ T : n <= m
  BY LeastNatural
<1>2. n - 1 \in Nat /\ n - 1 \in T
  BY <1>1
<1>3. (n - 1) + 1 \in T
  BY <1>2
<1> QED
  BY <1>1, <1>3

\* A set of natural numbers with a bound has a largest member, which is its Max.
LEMMA MaxIsGreatest ==
    ASSUME NEW n \in Nat, NEW T \in SUBSET (0..n), T # {}
    PROVE  Max(T) \in T /\ \A m \in T : m <= Max(T)
<1> DEFINE Gaps == {n - m : m \in T}
<1>1. Gaps \in SUBSET Nat
  OBVIOUS
<1>2. Gaps # {}
  <2>1. PICK x : x \in T
    OBVIOUS
  <2>2. n - x \in Gaps
    BY <2>1
  <2> QED
    BY <2>2
<1>3. PICK g \in Gaps : \A h \in Gaps : g <= h
  <2> HIDE DEF Gaps
  <2> QED
    BY <1>1, <1>2, LeastNatural
<1>4. PICK x \in T : g = n - x
  BY <1>3
<1>5. \A y \in T : x >= y
  <2>1. SUFFICES ASSUME NEW y \in T PROVE x >= y
    OBVIOUS
  <2>2. n - x <= n - y
    BY <1>3, <1>4
  <2> QED
    BY <2>2
<1>6. Max(T) \in T /\ \A y \in T : Max(T) >= y
  BY <1>5, Zenon DEF Max
<1> QED
  BY <1>6

(***************************************************************************)
(* Folding a sequence from the left.                                       *)
(***************************************************************************)

\* The largest index up to n is n, and without it the indices are those up to n - 1.
LEMMA LastIndex ==
    ASSUME NEW n \in Nat
    PROVE  Max(1..(n + 1)) = n + 1 /\ (1..(n + 1)) \ {n + 1} = 1..n
<1>1. n + 1 \in 1..(n + 1)
  OBVIOUS
<1>2. Max(1..(n + 1)) \in 1..(n + 1) /\ \A m \in 1..(n + 1) : m <= Max(1..(n + 1))
  <2> DEFINE k == n + 1
             T == 1..k
  <2>1. k \in Nat /\ T \in SUBSET (0..k) /\ T # {}
    OBVIOUS
  <2> HIDE DEF k, T
  <2>2. Max(T) \in T /\ \A m \in T : m <= Max(T)
    BY <2>1, MaxIsGreatest
  <2> QED
    BY <2>2 DEF k, T
<1> QED
  BY <1>1, <1>2

\* The equation of FoldLeft's function, with the operator given as a function: F[i][v] is
\* the value after the i-th element if it was v before.
Folding(n, base, F, it) ==
    [s \in SUBSET (1..n) |-> IF s = {} THEN base ELSE F[Max(s)][it[s \ {Max(s)}]]]

Closed(n, S, F) == \A i \in 1..n : \A v \in S : F[i][v] \in S

Solves(n, S, base, F, it) == it \in [SUBSET (1..n) -> S] /\ it = Folding(n, base, F, it)

\* It has a solution, with values in the set that F stays in.
LEMMA FoldExists ==
    ASSUME NEW n \in Nat, NEW S, NEW base \in S, NEW F,
           Closed(n, S, F)
    PROVE  \E it : Solves(n, S, base, F, it)
<1> DEFINE Small(m) == {s \in SUBSET (1..n) : s \subseteq 1..m}
           Body(it, s) == IF s = {} THEN base ELSE F[Max(s)][it[s \ {Max(s)}]]
           T == {m \in Nat : \E it \in [Small(m) -> S] : it = [s \in Small(m) |-> Body(it, s)]}
<1>1. \A m \in Nat : \A s \in Small(m + 1) : s # {} =>
          Max(s) \in 1..n /\ s \ {Max(s)} \in Small(m)
  <2>1. SUFFICES ASSUME NEW m \in Nat, NEW s \in Small(m + 1), s # {}
                 PROVE  Max(s) \in 1..n /\ s \ {Max(s)} \in Small(m)
    OBVIOUS
  <2>2. s \subseteq 1..n /\ s \subseteq 1..(m + 1)
    OBVIOUS
  <2>5. s \in SUBSET (0..n)
    BY <2>2
  <2>3. Max(s) \in s /\ \A x \in s : x <= Max(s)
    BY <2>1, <2>5, MaxIsGreatest
  <2>4. \A x \in s \ {Max(s)} : x \in 1..m
    <3>1. SUFFICES ASSUME NEW x \in s, x # Max(s) PROVE x \in 1..m
      OBVIOUS
    <3>2. x \in 1..(m + 1) /\ Max(s) \in 1..(m + 1) /\ x <= Max(s)
      BY <2>2, <2>3
    <3> QED
      BY <3>1, <3>2
  <2> QED
    BY <2>2, <2>3, <2>4
<1>2. Small(0) = {{}}
  OBVIOUS
<1>3. 0 \in T
  <2> DEFINE it == [s \in Small(0) |-> base]
  <2>1. it = [s \in Small(0) |-> Body(it, s)]
    BY <1>2
  <2>2. it \in [Small(0) -> S]
    OBVIOUS
  <2> HIDE DEF it, Small, Body
  <2> QED
    BY <2>1, <2>2
<1>4. ASSUME NEW m \in Nat, m \in T
      PROVE  m + 1 \in T
  <2>1. PICK it \in [Small(m) -> S] : it = [s \in Small(m) |-> Body(it, s)]
    BY <1>4
  <2> DEFINE next == [s \in Small(m + 1) |-> Body(it, s)]
  <2>2. \A s \in Small(m) : s \in Small(m + 1)
    OBVIOUS
  <2>3. \A s \in Small(m) : next[s] = it[s]
    <3>1. SUFFICES ASSUME NEW s \in Small(m) PROVE next[s] = it[s]
      OBVIOUS
    <3>2. next[s] = Body(it, s)
      BY <2>2, Zenon
    <3>3. it[s] = Body(it, s)
      BY <2>1, Zenon
    <3> QED
      BY <3>2, <3>3
  <2>4. \A s \in Small(m + 1) : Body(next, s) = Body(it, s)
    <3> HIDE DEF next, Small
    <3> QED
      BY <1>1, <2>3
  <2>5. next = [s \in Small(m + 1) |-> Body(next, s)]
    <3>1. next = [s \in Small(m + 1) |-> Body(it, s)]
      OBVIOUS
    <3> HIDE DEF next, Small, Body
    <3> QED
      BY <2>4, <3>1
  <2>6. next \in [Small(m + 1) -> S]
    <3>1. \A s \in Small(m + 1) : Body(it, s) \in S
      <4> HIDE DEF Small
      <4> QED
        BY <1>1 DEF Closed
    <3> HIDE DEF Small, Body
    <3> QED
      BY <3>1
  <2>7. m + 1 \in Nat
    OBVIOUS
  <2> HIDE DEF next, Small, Body
  <2> QED
    BY <2>5, <2>6, <2>7
<1>5. n \in T
  <2> HIDE DEF T
  <2> QED
    BY <1>3, <1>4, NaturalsIn
<1>6. Small(n) = SUBSET (1..n)
  OBVIOUS
<1>7. PICK it \in [SUBSET (1..n) -> S] : it = [s \in Small(n) |-> Body(it, s)]
  <2> HIDE DEF Small, Body
  <2> QED
    BY <1>5, <1>6
<1>8. Folding(n, base, F, it) = [s \in Small(n) |-> Body(it, s)]
  <2> HIDE DEF Small
  <2> QED
    BY <1>6 DEF Folding
<1>9. Solves(n, S, base, F, it)
  <2> HIDE DEF Small, Body
  <2> QED
    BY <1>7, <1>8 DEF Solves
<1> QED
  BY <1>9, Zenon

(***************************************************************************)
(* matchRegex.                                                             *)
(***************************************************************************)

Pair == [line : Line, rule : Rule]

\* The command that a pair asks for.
CommandOf(pair) == [rule |-> pair.rule, line |-> pair.line, argv |-> Argv(pair.rule, pair.line)]
Command == {CommandOf(pair) : pair \in Pair}

\* AddCommand adds the command of a pair that asks for one with a new text, and no other.
LEMMA AddCommandIs ==
    ASSUME NEW found \in Seq(Command), NEW pair \in Pair
    PROVE  /\ FullCmd(CommandOf(pair).argv) = Text(pair)
           /\ AddCommand(found, pair) =
                IF Asks(pair) /\ \A k \in 1..Len(found) : FullCmd(found[k].argv) # Text(pair)
                THEN Append(found, CommandOf(pair)) ELSE found
<1>1. CommandOf(pair).argv = Argv(pair.rule, pair.line)
  BY DEF CommandOf
<1> QED
  BY <1>1, Zenon DEF AddCommand, CommandOf, Asks, Text

LEMMA AddCommandType ==
    ASSUME NEW found \in Seq(Command), NEW pair \in Pair
    PROVE  AddCommand(found, pair) \in Seq(Command)
<1> DEFINE c == CommandOf(pair)
<1>1. c \in Command
  BY DEF Command
<1>2. AddCommand(found, pair) = Append(found, c) \/ AddCommand(found, pair) = found
  BY AddCommandIs
<1> HIDE DEF c
<1>3. Append(found, c) \in Seq(Command)
  BY <1>1
<1> QED
  BY <1>2, <1>3

\* matchRegex adds the commands of the pairs one after the other.
LEMMA MatchRegexSteps ==
    ASSUME NEW n \in Nat, NEW pairs \in [1..n -> Pair]
    PROVE  \E found \in [0..n -> Seq(Command)] :
              /\ found[0] = <<>>
              /\ \A i \in 0..(n - 1) : found[i + 1] = AddCommand(found[i], pairs[i + 1])
              /\ FoldLeft(AddCommand, <<>>, pairs) = found[n]
<1> DEFINE F == [i \in 1..n |-> [v \in Seq(Command) |-> AddCommand(v, pairs[i])]]
           Next1(it) == [s \in SUBSET DOMAIN pairs |->
                          IF s = {} THEN <<>>
                          ELSE LET x == Max(s) IN AddCommand(it[s \ {x}], pairs[x])]
           iter == CHOOSE it : it = Next1(it)
<1>1. /\ <<>> \in Seq(Command)
      /\ \A i \in 1..n : \A v \in Seq(Command) : F[i][v] \in Seq(Command)
  BY AddCommandType
<1>2. PICK it : it \in [SUBSET (1..n) -> Seq(Command)] /\ it = Folding(n, <<>>, F, it)
  <2> DEFINE S == Seq(Command)
             none == <<>>
  <2>1. Closed(n, S, F)
    BY <1>1 DEF Closed
  <2>2. none \in S
    OBVIOUS
  <2> HIDE DEF F, S, none
  <2>3. PICK it : Solves(n, S, none, F, it)
    BY <2>1, <2>2, FoldExists
  <2> QED
    BY <2>3 DEF Solves, S, none
<1>3. \A s \in SUBSET (1..n) : s # {} => Max(s) \in s /\ s \ {Max(s)} \in SUBSET (1..n)
  <2>1. SUFFICES ASSUME NEW s \in SUBSET (1..n), s # {} PROVE Max(s) \in s
    OBVIOUS
  <2>2. s \in SUBSET (0..n)
    OBVIOUS
  <2> QED
    BY <2>1, <2>2, MaxIsGreatest
<1>4. DOMAIN pairs = 1..n
  OBVIOUS
<1>5. it = Next1(it)
  <2>1. ASSUME NEW s \in SUBSET (1..n), s # {}
        PROVE  F[Max(s)][it[s \ {Max(s)}]] = AddCommand(it[s \ {Max(s)}], pairs[Max(s)])
    <3>1. Max(s) \in 1..n /\ it[s \ {Max(s)}] \in Seq(Command)
      BY <1>2, <1>3, <2>1
    <3> QED
      BY <3>1
  <2>2. Folding(n, <<>>, F, it) = Next1(it)
    <3> HIDE DEF F
    <3> QED
      BY <1>4, <2>1 DEF Folding
  <2> HIDE DEF F, Next1
  <2> QED
    BY <1>2, <2>2, Zenon
<1>6. iter = Next1(iter)
  <2> HIDE DEF Next1
  <2> QED
    BY <1>5, Zenon
<1>7. FoldLeft(AddCommand, <<>>, pairs) = iter[1..n]
  BY <1>4, Zenon DEF FoldLeft, MapThenFoldSet
<1> HIDE DEF iter, F
<1>8. iter[{}] = <<>>
  BY <1>6
<1>9. ASSUME NEW i \in 0..(n - 1)
      PROVE  iter[1..(i + 1)] = AddCommand(iter[1..i], pairs[i + 1])
  <2>1. 1..(i + 1) \subseteq 1..n /\ i + 1 \in 1..(i + 1)
    OBVIOUS
  <2>4. i \in Nat
    OBVIOUS
  <2>2. Max(1..(i + 1)) = i + 1 /\ (1..(i + 1)) \ {i + 1} = 1..i
    BY <2>4, LastIndex
  <2>3. iter[1..(i + 1)] = AddCommand(iter[(1..(i + 1)) \ {Max(1..(i + 1))}], pairs[Max(1..(i + 1))])
    BY <1>4, <1>6, <2>1, Zenon
  <2> QED
    BY <2>2, <2>3
<1> DEFINE found == [i \in 0..n |-> iter[1..i]]
<1>10. found[0] = <<>>
  BY <1>8
<1>11. \A i \in 0..(n - 1) : found[i + 1] = AddCommand(found[i], pairs[i + 1])
  BY <1>9
<1> HIDE DEF found
<1>12. \A i \in Nat : i \in 0..n => found[i] \in Seq(Command)
  <2> DEFINE T == {i \in Nat : i \in 0..n => found[i] \in Seq(Command)}
  <2>1. 0 \in T
    BY <1>1, <1>10
  <2>2. ASSUME NEW i \in Nat, i \in T
        PROVE  i + 1 \in T
    <3>1. SUFFICES ASSUME i + 1 \in 0..n PROVE found[i + 1] \in Seq(Command)
      OBVIOUS
    <3>2. i \in 0..(n - 1) /\ found[i] \in Seq(Command) /\ pairs[i + 1] \in Pair
      BY <2>2, <3>1
    <3> QED
      BY <1>11, <3>2, AddCommandType
  <2> HIDE DEF T
  <2>3. \A i \in Nat : i \in T
    BY <2>1, <2>2, NaturalsIn
  <2> QED
    BY <2>3 DEF T
<1>13. found \in [0..n -> Seq(Command)]
  BY <1>12 DEF found
<1>14. FoldLeft(AddCommand, <<>>, pairs) = found[n]
  BY <1>7 DEF found
<1> QED
  BY <1>10, <1>11, <1>13, <1>14

\* What first has to do for the commands found among the first i pairs.
Orders(first, found, pairs, i) ==
    /\ first \in [1..Len(found) -> FirstAsked(pairs) \cap 1..i]
    /\ \A k \in 1..Len(found) : FullCmd(found[k].argv) = Text(pairs[first[k]])
    /\ \A k, l \in 1..Len(found) : k < l => first[k] < first[l]
    /\ \A p \in FirstAsked(pairs) \cap 1..i : \E k \in 1..Len(found) : first[k] = p

\* The texts asked for by the first i pairs are found.
Answered(found, pairs, i) ==
    \A e \in 1..i : Asks(pairs[e]) =>
        \E k \in 1..Len(found) : FullCmd(found[k].argv) = Text(pairs[e])

\* A pair with a new text adds its command at the end.
LEMMA NewCommand ==
    ASSUME NEW n \in Nat, NEW pairs \in [1..n -> Pair], NEW i \in 0..(n - 1),
           NEW found \in Seq(Command), NEW first, Orders(first, found, pairs, i),
           Answered(found, pairs, i), NEW next \in Seq(Command),
           next = AddCommand(found, pairs[i + 1]),
           Asks(pairs[i + 1]),
           \A k \in 1..Len(found) : FullCmd(found[k].argv) # Text(pairs[i + 1])
    PROVE  (\E f : Orders(f, next, pairs, i + 1)) /\ Answered(next, pairs, i + 1)
<1> DEFINE c == CommandOf(pairs[i + 1])
           m == Len(found)
           f == [k \in 1..(m + 1) |-> IF k = m + 1 THEN i + 1 ELSE first[k]]
<1>1. m \in Nat /\ i \in Nat /\ i + 1 \in 1..n /\ pairs[i + 1] \in Pair
  OBVIOUS
<1>2. next = Append(found, c) /\ FullCmd(c.argv) = Text(pairs[i + 1])
  BY <1>1, AddCommandIs
<1>3. c \in Command
  BY <1>1 DEF Command
<1> HIDE DEF c
<1>4. Len(next) = m + 1 /\ next[m + 1] = c /\ \A k \in 1..m : next[k] = found[k]
  BY <1>2, <1>3, AppendProperties
<1>5. i + 1 \in FirstAsked(pairs)
  <2>1. \A e \in 1..i : Asks(pairs[e]) => Text(pairs[e]) # Text(pairs[i + 1])
    BY DEF Answered
  <2>2. (i + 1) - 1 = i /\ i + 1 \in DOMAIN pairs
    BY <1>1
  <2> QED
    BY <2>1, <2>2 DEF FirstAsked
<1>6. 1..(i + 1) = (1..i) \cup {i + 1} /\ 1..(m + 1) = (1..m) \cup {m + 1}
  BY <1>1
<1>7. \A k \in 1..m : /\ k # m + 1 /\ f[k] = first[k] /\ first[k] \in FirstAsked(pairs)
                      /\ first[k] \in 1..i /\ first[k] < i + 1
  <2>1. SUFFICES ASSUME NEW k \in 1..m
                 PROVE  /\ k # m + 1 /\ f[k] = first[k] /\ first[k] \in FirstAsked(pairs)
                        /\ first[k] \in 1..i /\ first[k] < i + 1
    OBVIOUS
  <2>2. k # m + 1 /\ k \in 1..(m + 1)
    BY <1>1
  <2>3. f[k] = first[k]
    BY <2>2
  <2>4. first[k] \in FirstAsked(pairs) \cap 1..i
    BY DEF Orders
  <2> HIDE DEF f
  <2> QED
    BY <1>1, <2>2, <2>3, <2>4
<1>8. f[m + 1] = i + 1
  BY <1>1
<1>9. f \in [1..(m + 1) -> FirstAsked(pairs) \cap 1..(i + 1)]
  <2>1. \A k \in 1..(m + 1) : f[k] \in FirstAsked(pairs) \cap 1..(i + 1)
    <3> HIDE DEF f
    <3> QED
      BY <1>5, <1>6, <1>7, <1>8
  <2> QED
    BY <2>1
<1> HIDE DEF f
<1>10. \A k \in 1..(m + 1) : FullCmd(next[k].argv) = Text(pairs[f[k]])
  <2>1. \A k \in 1..m : FullCmd(next[k].argv) = Text(pairs[f[k]])
    BY <1>4, <1>7 DEF Orders
  <2> QED
    BY <1>2, <1>4, <1>6, <1>8, <2>1
<1>11. \A k, l \in 1..(m + 1) : k < l => f[k] < f[l]
  <2>1. SUFFICES ASSUME NEW k \in 1..(m + 1), NEW l \in 1..(m + 1), k < l PROVE f[k] < f[l]
    OBVIOUS
  <2>2. k \in 1..m
    BY <1>1, <2>1
  <2>3. CASE l = m + 1
    BY <1>7, <1>8, <2>2, <2>3
  <2>4. CASE l \in 1..m
    BY <1>7, <2>1, <2>2, <2>4 DEF Orders
  <2> QED
    BY <1>6, <2>3, <2>4
<1>12. \A p \in FirstAsked(pairs) \cap 1..(i + 1) : \E k \in 1..(m + 1) : f[k] = p
  <2>1. SUFFICES ASSUME NEW p \in FirstAsked(pairs) \cap 1..(i + 1)
                 PROVE  \E k \in 1..(m + 1) : f[k] = p
    OBVIOUS
  <2>2. CASE p = i + 1
    BY <1>6, <1>8, <2>2
  <2>3. CASE p \in 1..i
    <3>1. PICK k \in 1..m : first[k] = p
      BY <2>3 DEF Orders
    <3> QED
      BY <1>6, <1>7, <3>1
  <2> QED
    BY <1>6, <2>2, <2>3
<1>13. Answered(next, pairs, i + 1)
  <2>1. SUFFICES ASSUME NEW e \in 1..(i + 1), Asks(pairs[e])
                 PROVE  \E k \in 1..(m + 1) : FullCmd(next[k].argv) = Text(pairs[e])
    BY <1>4 DEF Answered
  <2>2. CASE e = i + 1
    BY <1>2, <1>4, <1>6, <2>2
  <2>3. CASE e \in 1..i
    <3>1. PICK k \in 1..m : FullCmd(found[k].argv) = Text(pairs[e])
      BY <2>1, <2>3 DEF Answered
    <3> QED
      BY <1>4, <1>6, <3>1
  <2> QED
    BY <1>6, <2>2, <2>3
<1>14. Orders(f, next, pairs, i + 1)
  BY <1>4, <1>9, <1>10, <1>11, <1>12 DEF Orders
<1> QED
  BY <1>13, <1>14

\* Any other pair adds nothing and is no first one.
LEMMA NoCommand ==
    ASSUME NEW n \in Nat, NEW pairs \in [1..n -> Pair], NEW i \in 0..(n - 1),
           NEW found \in Seq(Command), NEW first, Orders(first, found, pairs, i),
           Answered(found, pairs, i),
           ~ (/\ Asks(pairs[i + 1])
              /\ \A k \in 1..Len(found) : FullCmd(found[k].argv) # Text(pairs[i + 1]))
    PROVE  Orders(first, found, pairs, i + 1) /\ Answered(found, pairs, i + 1)
<1>1. i \in Nat /\ i + 1 \in 1..n
  OBVIOUS
<1>2. 1..(i + 1) = (1..i) \cup {i + 1}
  BY <1>1
<1>3. i + 1 \notin FirstAsked(pairs)
  <2>1. SUFFICES ASSUME Asks(pairs[i + 1]), i + 1 \in FirstAsked(pairs) PROVE FALSE
    BY DEF FirstAsked
  <2>2. PICK k \in 1..Len(found) : FullCmd(found[k].argv) = Text(pairs[i + 1])
    BY <2>1
  <2>3. /\ first[k] \in FirstAsked(pairs) /\ first[k] \in 1..i
        /\ Text(pairs[first[k]]) = Text(pairs[i + 1])
    BY <2>2 DEF Orders
  <2>4. Asks(pairs[first[k]]) /\ first[k] \in 1..((i + 1) - 1)
    BY <1>1, <2>3 DEF FirstAsked
  <2> QED
    BY <2>1, <2>3, <2>4 DEF FirstAsked
<1>4. FirstAsked(pairs) \cap 1..(i + 1) = FirstAsked(pairs) \cap 1..i
  BY <1>2, <1>3
<1>5. Orders(first, found, pairs, i + 1)
  BY <1>4 DEF Orders
<1>6. Answered(found, pairs, i + 1)
  BY <1>2 DEF Answered
<1> QED
  BY <1>5, <1>6

\* The commands are those asked for, once and in order.
LEMMA MatchRegexOnce ==
    ASSUME NEW n \in Nat, NEW pairs \in [1..n -> Pair]
    PROVE  OncePerCommand(FoldLeft(AddCommand, <<>>, pairs), pairs)
<1>1. PICK found \in [0..n -> Seq(Command)] :
          /\ found[0] = <<>>
          /\ \A i \in 0..(n - 1) : found[i + 1] = AddCommand(found[i], pairs[i + 1])
          /\ FoldLeft(AddCommand, <<>>, pairs) = found[n]
  BY MatchRegexSteps
<1> DEFINE Good(i) == (\E f : Orders(f, found[i], pairs, i)) /\ Answered(found[i], pairs, i)
           T == {i \in Nat : i <= n => Good(i)}
<1>2. 0 \in T
  <2> DEFINE f == [k \in 1..0 |-> 0]
  <2>1. Len(found[0]) = 0 /\ 1..0 = {}
    BY <1>1
  <2>2. f \in [1..0 -> FirstAsked(pairs) \cap 1..0]
    BY <2>1
  <2> HIDE DEF f
  <2>3. Orders(f, found[0], pairs, 0)
    BY <2>1, <2>2 DEF Orders
  <2>4. Answered(found[0], pairs, 0)
    BY <2>1 DEF Answered
  <2> QED
    BY <2>3, <2>4
<1>3. ASSUME NEW i \in Nat, i \in T
      PROVE  i + 1 \in T
  <2>1. SUFFICES ASSUME i + 1 <= n PROVE Good(i + 1)
    OBVIOUS
  <2>2. i \in 0..(n - 1) /\ i \in 0..n /\ i + 1 \in 0..n /\ i + 1 \in 1..n
    BY <2>1
  <2>3. found[i] \in Seq(Command) /\ found[i + 1] \in Seq(Command) /\ pairs[i + 1] \in Pair
    BY <2>2
  <2>4. found[i + 1] = AddCommand(found[i], pairs[i + 1])
    BY <1>1, <2>2
  <2>5. Answered(found[i], pairs, i)
    BY <1>3, <2>2
  <2>6. PICK f : Orders(f, found[i], pairs, i)
    BY <1>3, <2>2
  <2> DEFINE New == /\ Asks(pairs[i + 1])
                    /\ \A k \in 1..Len(found[i]) : FullCmd(found[i][k].argv) # Text(pairs[i + 1])
  <2>7. CASE New
    BY <2>2, <2>3, <2>4, <2>5, <2>6, <2>7, NewCommand
  <2>8. CASE ~New
    <3>1. found[i + 1] = found[i]
      BY <2>3, <2>4, <2>8, AddCommandIs
    <3>2. Orders(f, found[i], pairs, i + 1) /\ Answered(found[i], pairs, i + 1)
      BY <2>2, <2>3, <2>5, <2>6, <2>8, NoCommand
    <3> QED
      BY <3>1, <3>2
  <2> QED
    BY <2>7, <2>8
<1>4. Good(n)
  <2> HIDE DEF Good
  <2>1. \A i \in Nat : i \in T
    <3> HIDE DEF T
    <3> QED
      BY <1>2, <1>3, NaturalsIn
  <2> QED
    BY <2>1
<1>5. PICK f : Orders(f, found[n], pairs, n)
  BY <1>4
<1>6. FirstAsked(pairs) \cap 1..n = FirstAsked(pairs)
  BY DEF FirstAsked
<1>7. /\ f \in [1..Len(found[n]) -> FirstAsked(pairs)]
      /\ \A k \in 1..Len(found[n]) : FullCmd(found[n][k].argv) = Text(pairs[f[k]])
      /\ \A k, l \in 1..Len(found[n]) : k < l => f[k] < f[l]
      /\ \A p \in FirstAsked(pairs) : \E k \in 1..Len(found[n]) : f[k] = p
  BY <1>5, <1>6 DEF Orders
<1>8. OncePerCommand(found[n], pairs)
  BY <1>7 DEF OncePerCommand
<1> QED
  BY <1>1, <1>8

\* The quotient and the remainder of an index below a product.
LEMMA Quotient ==
    ASSUME NEW a \in Nat, NEW b \in Nat, NEW l \in Nat, a < l * b
    PROVE  a \div b \in 0..(l - 1) /\ a % b \in 0..(b - 1)
<1>1. b > 0
  OBVIOUS
<1>2. a \div b \in Int
  BY <1>1
<1>3. a \div b >= 0
  BY <1>1, SMTT(30)
<1>4. a \div b < l
  BY <1>1, SMTT(30)
<1>5. a % b \in 0..(b - 1)
  BY <1>1
<1> QED
  BY <1>2, <1>3, <1>4, <1>5

\* The pairs are numbered from 1, every one of a line and a rule.
LEMMA PairsType ==
    ASSUME NEW rules \in Seq(Rule), NEW lines \in Seq(Line)
    PROVE  \E n \in Nat : Pairs(rules, lines) \in [1..n -> Pair]
<1> DEFINE R == Len(rules)
           L == Len(lines)
           n == L * R
<1>1. R \in Nat /\ L \in Nat
  OBVIOUS
<1>2. n \in Nat
  BY <1>1
<1>3. ASSUME NEW p \in 1..n
      PROVE  [line |-> lines[((p - 1) \div R) + 1], rule |-> rules[((p - 1) % R) + 1]] \in Pair
  <2>1. p - 1 \in Nat /\ p - 1 < L * R
    BY <1>2
  <2> DEFINE q == (p - 1) \div R
             r == (p - 1) % R
  <2>2. q \in 0..(L - 1) /\ r \in 0..(R - 1)
    <3> DEFINE a == p - 1
    <3>1. a \in Nat /\ a < L * R
      BY <2>1
    <3> HIDE DEF R, L, n, a
    <3>2. a \div R \in 0..(L - 1) /\ a % R \in 0..(R - 1)
      BY <1>1, <3>1, Quotient
    <3> QED
      BY <3>2 DEF a
  <2> HIDE DEF q, r, n
  <2>3. q + 1 \in 1..L /\ r + 1 \in 1..R
    BY <1>1, <2>2
  <2>4. lines[q + 1] \in Line /\ rules[r + 1] \in Rule
    BY <2>3
  <2> QED
    BY <2>4 DEF Pair, q, r
<1>4. Pairs(rules, lines) \in [1..n -> Pair]
  BY <1>3 DEF Pairs
<1> QED
  BY <1>2, <1>4

\* The lines scanned are some of the lines.
LEMMA ScannedType ==
    ASSUME NEW lines \in Seq(Line)
    PROVE  Scanned(lines) \in Seq(Line)
<1> DEFINE T == {k \in 0..Len(lines) : \A l \in 1..k : ~lines[l].long}
<1>1. Len(lines) \in Nat /\ T \in SUBSET (0..Len(lines))
  OBVIOUS
<1>2. T # {}
  <2>1. 0 \in T
    OBVIOUS
  <2> QED
    BY <2>1
<1> HIDE DEF T
<1>3. Max(T) \in T
  <2> DEFINE n == Len(lines)
  <2>1. n \in Nat /\ T \in SUBSET (0..n)
    BY <1>1
  <2> HIDE DEF n
  <2> QED
    BY <2>1, <1>2, MaxIsGreatest
<1>4. Max(T) \in 0..Len(lines)
  BY <1>1, <1>3
<1>5. SubSeq(lines, 1, Max(T)) \in Seq(Line)
  BY <1>4
<1> QED
  BY <1>5 DEF Scanned, T

\* The built-in rules are rules.
LEMMA DefaultConfigType == DefaultConfig \in Seq(Rule)
<1> DEFINE r == [regex |-> "buildozer", command |-> <<"b">>, args |-> <<<<"$", "1">>, <<"$", "2">>>>]
<1>1. "buildozer" \in Regexes /\ "b" \in Chars /\ "$" \in Chars /\ "1" \in Chars /\ "2" \in Chars
  BY OutputRunnerAssumption
<1>2. <<"b">> \in Seq(Chars) /\ <<"$", "1">> \in Seq(Chars) /\ <<"$", "2">> \in Seq(Chars)
  BY <1>1
<1>3. <<<<"$", "1">>, <<"$", "2">>>> \in Seq(Seq(Chars))
  BY <1>2
<1>4. r \in Rule
  BY <1>1, <1>2, <1>3 DEF Rule
<1> HIDE DEF r
<1>5. <<r>> \in Seq(Rule)
  BY <1>4
<1> QED
  BY <1>5 DEF r, DefaultConfig

\* And they are commands.
LEMMA MatchRegexType ==
    ASSUME NEW rules \in Seq(Rule), NEW lines \in Seq(Line)
    PROVE  MatchRegex(rules, Scanned(lines)) \in Seq(Command)
<1> DEFINE pairs == Pairs(rules, Scanned(lines))
<1>1. PICK n \in Nat : pairs \in [1..n -> Pair]
  BY ScannedType, PairsType
<1> HIDE DEF pairs
<1>2. PICK found \in [0..n -> Seq(Command)] : FoldLeft(AddCommand, <<>>, pairs) = found[n]
  BY <1>1, MatchRegexSteps
<1>3. FoldLeft(AddCommand, <<>>, pairs) \in Seq(Command)
  BY <1>1, <1>2
<1> QED
  BY <1>3 DEF MatchRegex, pairs

(***************************************************************************)
(* EveryCommandOnce.                                                       *)
(***************************************************************************)

\* While the commands are run they are what matchRegex found.
CommandsFound ==
    /\ config \in Seq(Rule)
    /\ output \in Seq(Line)
    /\ commands \in Seq(Command)
    /\ step = "commands" => commands = MatchRegex(config, Scanned(output))

LEMMA InitCommands == Init => CommandsFound
<1> SUFFICES ASSUME Init PROVE CommandsFound
  OBVIOUS
<1>1. config \in Seq(Rule) /\ output \in Seq(Line)
  BY DefaultConfigType, OutputRunnerAssumption DEF Init
<1>2. <<>> \in Seq(Command)
  OBVIOUS
<1> QED
  BY <1>1, <1>2 DEF Init, CommandsFound

LEMMA NextCommands == CommandsFound /\ [Next]_vars => CommandsFound'
<1> SUFFICES ASSUME CommandsFound, [Next]_vars PROVE CommandsFound'
  OBVIOUS
<1>1. CASE Sift
  <2>1. config \in Seq(Rule) /\ output \in Seq(Line)
    BY DEF CommandsFound
  <2>2. MatchRegex(config, Scanned(output)) \in Seq(Command)
    BY <2>1, MatchRegexType
  <2> QED
    BY <1>1, <2>2, Zenon DEF Sift, CommandsFound
<1>2. CASE PromptCommand
  BY <1>2 DEF PromptCommand, CommandsFound
<1>3. CASE ExecuteCommand
  BY <1>3 DEF ExecuteCommand, CommandsFound
<1>4. CASE Finish
  BY <1>4 DEF Finish, CommandsFound
<1>5. CASE WorkspaceLost
  BY <1>5 DEF WorkspaceLost, CommandsFound
<1>6. CASE UNCHANGED vars
  BY <1>6 DEF vars, CommandsFound
<1> QED
  BY <1>1, <1>2, <1>3, <1>4, <1>5, <1>6 DEF Next

LEMMA FoundOnce == CommandsFound => EveryCommandOnce
<1> SUFFICES ASSUME CommandsFound, step = "commands"
             PROVE  OncePerCommand(commands, Pairs(config, Scanned(output)))
  BY DEF EveryCommandOnce
<1> DEFINE pairs == Pairs(config, Scanned(output))
<1>1. Scanned(output) \in Seq(Line) /\ config \in Seq(Rule)
  BY ScannedType DEF CommandsFound
<1>2. \E n \in Nat : pairs \in [1..n -> Pair]
  BY <1>1, PairsType
<1>3. commands = FoldLeft(AddCommand, <<>>, pairs)
  BY DEF CommandsFound, MatchRegex
<1> HIDE DEF pairs
<1>4. OncePerCommand(FoldLeft(AddCommand, <<>>, pairs), pairs)
  BY <1>2, MatchRegexOnce
<1> QED
  BY <1>3, <1>4 DEF pairs

\* Every command that a scanned line asks for is found once, in the order of the output
\* (matchRegex).
THEOREM EveryCommandOnceHolds == Spec => []EveryCommandOnce
<1>1. Spec => []CommandsFound
  BY InitCommands, NextCommands, PTL DEF Spec
<1> QED
  BY <1>1, FoundOnce, PTL

(***************************************************************************)
(* ConfirmedIsRun.                                                         *)
(***************************************************************************)

\* What one read from a terminal returns.
OneAnswer == [1..1 -> Answers]

\* An element after another.
LEMMA OneMore ==
    ASSUME NEW S, NEW n \in Nat, NEW u \in [1..n -> S], NEW v \in [1..(n + 1) -> S],
           \A k \in 1..n : v[k] = u[k]
    PROVE  v = u \o <<v[n + 1]>>
<1> DEFINE w == <<v[n + 1]>>
<1>1. n + 1 \in Nat /\ n + 1 \in 1..(n + 1) /\ v[n + 1] \in S
  OBVIOUS
<1>2. u \in Seq(S) /\ Len(u) = n
  OBVIOUS
<1>3. v \in Seq(S) /\ Len(v) = n + 1
  BY <1>1
<1>4. w \in Seq(S) /\ Len(w) = 1 /\ w[1] = v[n + 1]
  BY <1>1
<1> HIDE DEF w
<1>5. /\ u \o w \in Seq(S) /\ Len(u \o w) = n + 1
      /\ \A k \in 1..(n + 1) : (u \o w)[k] = IF k <= n THEN u[k] ELSE w[k - n]
  <2>1. /\ u \o w \in Seq(S) /\ Len(u \o w) = Len(u) + Len(w)
        /\ \A k \in 1..(Len(u) + Len(w)) :
              (u \o w)[k] = IF k <= Len(u) THEN u[k] ELSE w[k - Len(u)]
    BY <1>2, <1>4, ConcatProperties
  <2> QED
    BY <1>2, <1>4, <2>1
<1>6. \A k \in 1..(n + 1) : v[k] = (u \o w)[k]
  <2>1. SUFFICES ASSUME NEW k \in 1..(n + 1) PROVE v[k] = (u \o w)[k]
    OBVIOUS
  <2>2. CASE k <= n
    BY <1>5, <2>2
  <2>3. CASE ~(k <= n)
    <3>1. k = n + 1 /\ k - n = 1
      BY <2>3
    <3> QED
      BY <1>4, <1>5, <2>3, <3>1
  <2> QED
    BY <2>2, <2>3
<1>7. v = u \o w
  BY <1>3, <1>5, <1>6, SeqEqual
<1> QED
  BY <1>7 DEF w
\* Answers read one at a time are the answers.
LEMMA FlattenOnes ==
    ASSUME NEW n \in Nat, NEW t \in [1..n -> OneAnswer]
    PROVE  FlattenSeq(t) = [k \in 1..n |-> t[k][1]]
<1> DEFINE Rest(f) == [i \in 1..n |-> IF i = 1 THEN t[i] ELSE f[i - 1] \o t[i]]
           flatten == CHOOSE f : f = Rest(f)
           ones == [i \in 1..n |-> [k \in 1..i |-> t[k][1]]]
<1>1. Len(t) = n
  OBVIOUS
<1>2. \A i \in 1..n : t[i] \in OneAnswer /\ t[i] = <<t[i][1]>> /\ t[i][1] \in Answers
  <2>1. SUFFICES ASSUME NEW i \in 1..n PROVE t[i] = <<t[i][1]>> /\ t[i][1] \in Answers
    OBVIOUS
  <2>2. t[i] \in [1..1 -> Answers]
    BY DEF OneAnswer
  <2> QED
    BY <2>2
<1>3. ones = Rest(ones)
  <2>1. \A i \in 1..n : ones[i] = IF i = 1 THEN t[i] ELSE ones[i - 1] \o t[i]
    <3>1. SUFFICES ASSUME NEW i \in 1..n
                   PROVE  ones[i] = IF i = 1 THEN t[i] ELSE ones[i - 1] \o t[i]
      OBVIOUS
    <3>2. CASE i = 1
      <4>1. ones[1] = <<t[1][1]>>
        BY <3>2
      <4> QED
        BY <1>2, <3>2, <4>1
    <3>3. CASE i # 1
      <4>1. i - 1 \in 1..n /\ i - 1 \in Nat
        BY <3>3
      <4>2. /\ ones[i] = [k \in 1..i |-> t[k][1]]
            /\ ones[i - 1] = [k \in 1..(i - 1) |-> t[k][1]]
        BY <4>1
      <4> HIDE DEF ones
      <4>3. ones[i] \in [1..i -> Answers] /\ ones[i - 1] \in [1..(i - 1) -> Answers]
        <5>1. \A k \in 1..i : t[k][1] \in Answers
          BY <1>2
        <5> QED
          BY <4>1, <4>2, <5>1
      <4>4. \A k \in 1..(i - 1) : ones[i][k] = ones[i - 1][k]
        BY <4>2
      <4> DEFINE m == i - 1
                 u == ones[m]
                 v == ones[i]
      <4>5. m \in Nat /\ i = m + 1
        BY <4>1
      <4> HIDE DEF m
      <4>6. u \in [1..m -> Answers] /\ v \in [1..(m + 1) -> Answers] /\ \A k \in 1..m : v[k] = u[k]
        BY <4>3, <4>4, <4>5 DEF m
      <4> HIDE DEF u, v
      <4>7. v = u \o <<v[m + 1]>>
        BY <4>5, <4>6, OneMore
      <4>8. v[m + 1] = t[i][1]
        BY <4>2, <4>5 DEF v
      <4>9. <<v[m + 1]>> = t[i]
        BY <1>2, <4>8
      <4> QED
        BY <3>3, <4>7, <4>9 DEF m, u, v
    <3> QED
      BY <3>2, <3>3
  <2>2. ones = [i \in 1..n |-> ones[i]]
    OBVIOUS
  <2> HIDE DEF ones
  <2> QED
    BY <2>1, <2>2
<1> HIDE DEF ones
<1>4. flatten = Rest(flatten)
  <2> HIDE DEF Rest
  <2> QED
    BY <1>3, Zenon
<1> HIDE DEF flatten
<1>5. \A i \in Nat : i + 1 \in 1..n => flatten[i + 1] = ones[i + 1]
  <2> DEFINE T == {i \in Nat : i + 1 \in 1..n => flatten[i + 1] = ones[i + 1]}
  <2>1. 0 \in T
    BY <1>3, <1>4
  <2>2. ASSUME NEW i \in Nat, i \in T PROVE i + 1 \in T
    <3>1. SUFFICES ASSUME (i + 1) + 1 \in 1..n PROVE flatten[(i + 1) + 1] = ones[(i + 1) + 1]
      OBVIOUS
    <3> DEFINE j == (i + 1) + 1
    <3>2. j \in 1..n /\ j # 1 /\ j - 1 = i + 1 /\ i + 1 \in 1..n
      BY <3>1
    <3>3. flatten[j - 1] = ones[j - 1]
      BY <2>2, <3>2
    <3> HIDE DEF j
    <3>4. flatten[j] = flatten[j - 1] \o t[j] /\ ones[j] = ones[j - 1] \o t[j]
      BY <1>3, <1>4, <3>2
    <3> QED
      BY <3>3, <3>4 DEF j
  <2> HIDE DEF T
  <2>3. \A i \in Nat : i \in T
    BY <2>1, <2>2, NaturalsIn
  <2> QED
    BY <2>3 DEF T
<1>6. CASE n = 0
  <2>1. FlattenSeq(t) = t /\ t = [k \in 1..n |-> t[k][1]]
    BY <1>1, <1>6 DEF FlattenSeq
  <2> QED
    BY <2>1
<1>7. CASE n # 0
  <2>1. FlattenSeq(t) = flatten[n]
    BY <1>1, <1>7, Zenon DEF FlattenSeq, flatten
  <2>2. n - 1 \in Nat /\ (n - 1) + 1 = n /\ n \in 1..n
    BY <1>7
  <2>3. flatten[n] = ones[n]
    BY <1>5, <2>2
  <2>4. ones[n] = [k \in 1..n |-> t[k][1]]
    BY <2>2 DEF ones
  <2> QED
    BY <2>1, <2>3, <2>4
<1> QED
  BY <1>6, <1>7

\* Running one more command.
LEMMA RangeAppend ==
    ASSUME NEW S, NEW s \in Seq(S), NEW e \in S
    PROVE  Range(Append(s, e)) = Range(s) \cup {e}
<1>1. Len(s) \in Nat /\ DOMAIN s = 1..Len(s) /\ DOMAIN Append(s, e) = 1..(Len(s) + 1)
  OBVIOUS
<1>2. /\ Append(s, e)[Len(s) + 1] = e
      /\ \A k \in 1..Len(s) : Append(s, e)[k] = s[k]
  OBVIOUS
<1>3. 1..(Len(s) + 1) = (1..Len(s)) \cup {Len(s) + 1}
  BY <1>1
<1> QED
  BY <1>1, <1>2, <1>3, Zenon DEF Range

\* After k answers the input is the rest of what was typed, and a command was run if and
\* only if its answer was a yes.
Confirmed(k) ==
    /\ Len(stdin) = IF k < Len(typed) THEN Len(typed) - k ELSE 0
    /\ \A i \in 1..Len(stdin) : stdin[i] = typed[k + i]
    /\ Range(executed) = {c \in 1..k : c <= Len(typed) /\ typed[c][1] = "y"}

AnswersInv ==
    /\ typed \in Seq(OneAnswer) /\ stdin \in Seq(OneAnswer)
    /\ executed \in Seq(Nat)
    /\ idx \in Nat \ {0} /\ Len(commands) \in Nat
    /\ idx <= Len(commands) + 1
    /\ step = "begin" => commands = <<>> /\ idx = 1
    /\ step = "done" => idx = Len(commands) + 1
    /\ interactive => Confirmed(idx - 1)

LEMMA InitAnswers ==
    ASSUME MaxChunk = 1, Init
    PROVE  AnswersInv
<1>1. BoundedSeq(Answers, 1) \ {<<>>} \subseteq OneAnswer
  <2>1. SUFFICES ASSUME NEW chunk \in BoundedSeq(Answers, 1), chunk # <<>>
                 PROVE  chunk \in [1..1 -> Answers]
    BY DEF OneAnswer
  <2>2. PICK m \in 0..1 : chunk \in [1..m -> Answers]
    BY DEF BoundedSeq, SeqOf
  <2>3. CASE m = 0
    BY <2>1, <2>2, <2>3
  <2>4. CASE m = 1
    BY <2>2, <2>4
  <2> QED
    BY <2>3, <2>4
<1>2. stdin \in Seq(OneAnswer)
  <2> DEFINE Chunks == BoundedSeq(Answers, 1) \ {<<>>}
  <2>1. stdin \in BoundedSeq(Chunks, MaxTyped)
    BY DEF Init
  <2>2. PICK m \in 0..MaxTyped : stdin \in [1..m -> Chunks]
    BY <2>1 DEF BoundedSeq, SeqOf
  <2> HIDE DEF Chunks
  <2>3. Chunks \subseteq OneAnswer
    BY <1>1 DEF Chunks
  <2>4. m \in Nat
    BY OutputRunnerAssumption
  <2>5. stdin \in [1..m -> OneAnswer]
    BY <2>2, <2>3
  <2> QED
    BY <2>4, <2>5
<1>3. Confirmed(0)
  <2>1. executed = <<>> /\ typed = stdin /\ Len(typed) \in Nat
    BY <1>2 DEF Init
  <2>2. Range(executed) = {}
    BY <2>1 DEF Range
  <2>3. 1..0 = {}
    OBVIOUS
  <2> QED
    BY <2>1, <2>2, <2>3 DEF Confirmed
<1>4. /\ typed = stdin /\ executed = <<>> /\ idx = 1 /\ commands = <<>> /\ step = "begin"
      /\ idx - 1 = 0
  BY DEF Init
<1>5. <<>> \in Seq(Nat) /\ Len(commands) = 0
  BY <1>4
<1> QED
  BY <1>2, <1>3, <1>4, <1>5 DEF AnswersInv

LEMMA SiftAnswers == CommandsFound /\ AnswersInv /\ Sift => AnswersInv'
<1> SUFFICES ASSUME CommandsFound, AnswersInv, Sift PROVE AnswersInv'
  OBVIOUS
<1>1. /\ UNCHANGED <<interactive, stdin, idx, executed, typed>>
      /\ commands = <<>> /\ idx = 1 /\ step # "done"
  BY DEF Sift, AnswersInv
<1>2. Len(commands') \in Nat /\ (step' = "done" => Len(commands') = 0)
  <2>1. CASE step' = "commands"
    <3>1. config \in Seq(Rule) /\ output \in Seq(Line)
      BY DEF CommandsFound
    <3>2. MatchRegex(config, Scanned(output)) \in Seq(Command)
      BY <3>1, MatchRegexType
    <3>3. commands' = MatchRegex(config, Scanned(output))
      BY <2>1, Zenon DEF Sift
    <3> QED
      BY <2>1, <3>2, <3>3
  <2>2. CASE step' # "commands"
    <3>1. commands' = <<>>
      BY <1>1, <2>2, Zenon DEF Sift
    <3> QED
      BY <3>1
  <2> QED
    BY <2>1, <2>2
<1>3. step' # "begin"
  BY Zenon DEF Sift
<1> QED
  BY <1>1, <1>2, <1>3 DEF AnswersInv, Confirmed

\* One answer, of the input if it has one, decides on one command.
LEMMA PromptAnswers == AnswersInv /\ PromptCommand => AnswersInv'
<1> SUFFICES ASSUME AnswersInv, PromptCommand PROVE AnswersInv'
  OBVIOUS
<1>0. PICK k \in Nat : k = idx - 1
  BY DEF AnswersInv
<1>1. /\ k \in Nat /\ idx = k + 1 /\ idx' - 1 = k + 1
      /\ Len(typed) \in Nat /\ Len(stdin) \in Nat /\ idx \in Nat
  BY <1>0 DEF AnswersInv, PromptCommand
<1>2. /\ UNCHANGED <<interactive, step, commands, typed>>
      /\ interactive /\ step = "commands" /\ idx <= Len(commands)
  BY DEF PromptCommand, Pending
<1>3. Confirmed(k)
  BY <1>0, <1>2 DEF AnswersInv
<1>4. CASE stdin = <<>>
  <2>1. Len(typed) <= k
    BY <1>1, <1>3, <1>4 DEF Confirmed
  <2>2. stdin' = <<>> /\ executed' = executed
    BY <1>4 DEF PromptCommand
  <2>3. {c \in 1..(k + 1) : c <= Len(typed) /\ typed[c][1] = "y"}
          = {c \in 1..k : c <= Len(typed) /\ typed[c][1] = "y"}
    BY <1>1, <2>1
  <2>4. Confirmed(k + 1)'
    BY <1>1, <1>2, <1>3, <1>4, <2>1, <2>2, <2>3 DEF Confirmed
  <2> QED
    BY <1>1, <1>2, <1>4, <2>2, <2>4 DEF AnswersInv, PromptCommand
<1>5. CASE stdin # <<>>
  <2>1. /\ k < Len(typed) /\ Len(stdin) = Len(typed) - k
        /\ 1 \in 1..Len(stdin) /\ stdin[1] = typed[k + 1]
    <3>1. Len(stdin) > 0
      BY <1>1, <1>5 DEF AnswersInv
    <3> QED
      BY <1>1, <1>3, <3>1 DEF Confirmed
  <2>2. /\ stdin' \in Seq(OneAnswer) /\ Len(stdin') = Len(stdin) - 1
        /\ \A i \in 1..Len(stdin') : stdin'[i] = stdin[i + 1]
    BY <1>5 DEF PromptCommand, AnswersInv
  <2>3. \A i \in 1..Len(stdin') : stdin'[i] = typed[(k + 1) + i]
    <3>1. SUFFICES ASSUME NEW i \in 1..Len(stdin') PROVE stdin'[i] = typed[(k + 1) + i]
      OBVIOUS
    <3>2. i + 1 \in 1..Len(stdin) /\ k + (i + 1) = (k + 1) + i
      BY <1>1, <2>2
    <3> QED
      BY <1>3, <2>2, <3>2 DEF Confirmed
  <2>4. /\ executed' \in Seq(Nat)
        /\ Range(executed') = IF typed[k + 1][1] = "y" THEN Range(executed) \cup {k + 1} ELSE Range(executed)
    <3>1. CASE typed[k + 1][1] = "y"
      <4>1. executed' = Append(executed, k + 1)
        BY <1>1, <1>5, <2>1, <3>1 DEF PromptCommand
      <4>2. executed \in Seq(Nat) /\ k + 1 \in Nat
        BY <1>1 DEF AnswersInv
      <4>3. Range(Append(executed, k + 1)) = Range(executed) \cup {k + 1}
        <5> DEFINE e == k + 1
        <5>1. e \in Nat
          BY <4>2
        <5> HIDE DEF e
        <5>2. Range(Append(executed, e)) = Range(executed) \cup {e}
          BY <4>2, <5>1, RangeAppend
        <5> QED
          BY <5>2 DEF e
      <4> QED
        BY <3>1, <4>1, <4>2, <4>3
    <3>2. CASE typed[k + 1][1] # "y"
      <4>1. executed' = executed
        BY <2>1, <3>2 DEF PromptCommand
      <4> QED
        BY <3>2, <4>1 DEF AnswersInv
    <3> QED
      BY <3>1, <3>2
  <2>5. {c \in 1..(k + 1) : c <= Len(typed) /\ typed[c][1] = "y"}
          = IF typed[k + 1][1] = "y"
            THEN {c \in 1..k : c <= Len(typed) /\ typed[c][1] = "y"} \cup {k + 1}
            ELSE {c \in 1..k : c <= Len(typed) /\ typed[c][1] = "y"}
    <3>1. 1..(k + 1) = (1..k) \cup {k + 1} /\ k + 1 <= Len(typed)
      BY <1>1, <2>1
    <3> QED
      BY <3>1
  <2>6. Len(stdin') = IF k + 1 < Len(typed) THEN Len(typed) - (k + 1) ELSE 0
    BY <1>1, <2>1, <2>2
  <2>7. Range(executed') = {c \in 1..(k + 1) : c <= Len(typed) /\ typed[c][1] = "y"}
    BY <1>3, <2>4, <2>5 DEF Confirmed
  <2>8. Confirmed(k + 1)'
    BY <1>1, <1>2, <2>3, <2>6, <2>7 DEF Confirmed
  <2>9. idx' = idx + 1
    BY DEF PromptCommand
  <2> QED
    BY <1>1, <1>2, <2>2, <2>4, <2>8, <2>9 DEF AnswersInv
<1> QED
  BY <1>4, <1>5

LEMMA NextAnswers == CommandsFound /\ AnswersInv /\ [Next]_vars => AnswersInv'
<1> SUFFICES ASSUME CommandsFound, AnswersInv, [Next]_vars PROVE AnswersInv'
  OBVIOUS
<1>1. CASE Sift
  BY <1>1, SiftAnswers
<1>2. CASE PromptCommand
  BY <1>2, PromptAnswers
<1>3. CASE ExecuteCommand
  <2>1. executed \in Seq(Nat) /\ idx \in Nat
    BY DEF AnswersInv
  <2>2. Append(executed, idx) \in Seq(Nat)
    BY <2>1
  <2> QED
    BY <1>3, <2>1, <2>2 DEF ExecuteCommand, Pending, AnswersInv
<1>4. CASE Finish
  BY <1>4 DEF Finish, AnswersInv, Confirmed
<1>5. CASE WorkspaceLost
  BY <1>5 DEF WorkspaceLost, AnswersInv, Confirmed
<1>6. CASE UNCHANGED vars
  BY <1>6 DEF vars, AnswersInv, Confirmed
<1> QED
  BY <1>1, <1>2, <1>3, <1>4, <1>5, <1>6 DEF Next

LEMMA AnswersConfirm == AnswersInv => ConfirmedIsRun
<1> SUFFICES ASSUME AnswersInv, step = "done", interactive
             PROVE  Range(executed) = {k \in 1..Len(commands) :
                        k <= Len(FlattenSeq(typed)) /\ FlattenSeq(typed)[k] = "y"}
  BY DEF ConfirmedIsRun
<1> DEFINE n == Len(typed)
<1>1. n \in Nat /\ typed \in [1..n -> OneAnswer]
  BY DEF AnswersInv
<1>2. FlattenSeq(typed) = [k \in 1..n |-> typed[k][1]]
  BY <1>1, FlattenOnes
<1>3. Len(FlattenSeq(typed)) = n /\ \A k \in 1..n : FlattenSeq(typed)[k] = typed[k][1]
  BY <1>1, <1>2
<1>4. idx - 1 = Len(commands) /\ Len(commands) \in Nat
  BY DEF AnswersInv
<1>5. Range(executed) = {c \in 1..Len(commands) : c <= n /\ typed[c][1] = "y"}
  BY <1>4 DEF AnswersInv, Confirmed
<1> QED
  BY <1>1, <1>3, <1>4, <1>5

\* With one line to a read, as from a terminal, the k-th command runs if and only if the
\* k-th answer is a yes (executeOutput).
THEOREM ConfirmedIsRunHolds ==
    ASSUME MaxChunk = 1
    PROVE  Spec => []ConfirmedIsRun
<1>1. Init => CommandsFound /\ AnswersInv
  BY InitCommands, InitAnswers
<1>2. CommandsFound /\ AnswersInv /\ [Next]_vars => (CommandsFound /\ AnswersInv)'
  BY NextCommands, NextAnswers
<1>3. Spec => []AnswersInv
  BY <1>1, <1>2, PTL DEF Spec
<1> QED
  BY <1>3, AnswersConfirm, PTL

(***************************************************************************)
(* ArgumentsSubstituted.                                                   *)
(***************************************************************************)

\* What an argument is made of, and convertArgs' local variables.
Part == Captures \cup Chars \cup {ToString(m) : m \in Nat}
Locals == [out : Seq(Part), matching : BOOLEAN, index : Nat]
Start == [out |-> <<>>, matching |-> FALSE, index |-> 0]

LEMMA DigitsType ==
    /\ \A d \in DOMAIN Digits : Digits[d] \in Nat
    /\ "$" \notin DOMAIN Digits /\ "$" \in Chars
<1>1. DOMAIN Figures = 1..10 /\ \A i \in 1..10 : Figures[i] # "$"
  BY DEF Figures
<1>2. DOMAIN Digits = {Figures[i] : i \in 1..10}
  BY <1>1, Zenon DEF Digits, Range
<1>3. ASSUME NEW d \in DOMAIN Digits PROVE Digits[d] \in Nat
  <2>1. PICK i \in 1..10 : d = Figures[i]
    BY <1>2
  <2>2. i - 1 \in 0..9 /\ Figures[(i - 1) + 1] = d
    BY <2>1
  <2> DEFINE m == CHOOSE m \in 0..9 : Figures[m + 1] = d
  <2>3. m \in 0..9
    BY <2>2, Zenon
  <2>4. Digits[d] = m
    BY <1>1, <1>2, Zenon DEF Digits, Range
  <2> HIDE DEF m
  <2> QED
    BY <2>3, <2>4
<1> QED
  BY <1>1, <1>2, <1>3, OutputRunnerAssumption

LEMMA GroupType ==
    ASSUME NEW matches \in Seq(Captures), NEW m \in Nat
    PROVE  Group(matches, m) \in Seq(Part)
<1>1. CASE m < Len(matches)
  <2>1. m + 1 \in 1..Len(matches)
    BY <1>1
  <2>2. matches[m + 1] \in Part
    BY <2>1 DEF Part
  <2> QED
    BY <1>1, <2>2 DEF Group
<1>2. CASE ~(m < Len(matches))
  <2>1. "$" \in Part /\ ToString(m) \in Part
    BY DigitsType DEF Part
  <2> QED
    BY <1>2, <2>1 DEF Group
<1> QED
  BY <1>1, <1>2

\* What writeMatch and one character do to the variables.
LEMMA WriteMatchIs ==
    ASSUME NEW matches \in Seq(Captures), NEW s \in Locals
    PROVE  /\ WriteMatch(matches, s) \in Locals
           /\ s.matching => /\ WriteMatch(matches, s).out = s.out \o Group(matches, s.index)
                            /\ WriteMatch(matches, s).matching = FALSE
                            /\ WriteMatch(matches, s).index = 0
           /\ ~s.matching => WriteMatch(matches, s) = s
<1>1. s.out \in Seq(Part) /\ s.matching \in BOOLEAN /\ s.index \in Nat
  BY DEF Locals
<1>2. s.out \o Group(matches, s.index) \in Seq(Part)
  BY <1>1, GroupType, ConcatProperties
<1>3. CASE s.matching
  BY <1>2, <1>3 DEF WriteMatch, Locals
<1>4. CASE ~s.matching
  BY <1>4 DEF WriteMatch
<1> QED
  BY <1>3, <1>4

Converted(matches, s, c, r) ==
    /\ c = "$" => /\ r.matching = ~s.matching
                  /\ r.out = IF s.matching THEN Append(s.out, c) ELSE s.out
                  /\ r.index = s.index
    /\ c # "$" /\ s.matching /\ c \in DOMAIN Digits =>
          /\ r.matching = s.matching
          /\ r.out = s.out
          /\ r.index = s.index * 10 + Digits[c]
    /\ c # "$" /\ ~(s.matching /\ c \in DOMAIN Digits) =>
          /\ r.matching = FALSE
          /\ r.out = Append(WriteMatch(matches, s).out, c)
          /\ r.index = WriteMatch(matches, s).index

LEMMA ConvertCharIs ==
    ASSUME NEW matches \in Seq(Captures), NEW s \in Locals, NEW c \in Chars,
           NEW r, r = ConvertChar(matches, s, c)
    PROVE  r \in Locals /\ Converted(matches, s, c, r)
<1>1. s.out \in Seq(Part) /\ s.matching \in BOOLEAN /\ s.index \in Nat /\ c \in Part
  BY DEF Locals, Part
<1>2. CASE c = "$"
  <2>1. Append(s.out, c) \in Seq(Part)
    BY <1>1
  <2>2. r = [s EXCEPT !.out = IF s.matching THEN Append(@, c) ELSE @, !.matching = ~@]
    BY <1>2 DEF ConvertChar
  <2>3. r = [out |-> IF s.matching THEN Append(s.out, c) ELSE s.out,
             matching |-> ~s.matching, index |-> s.index]
    BY <2>2 DEF Locals
  <2>4. r \in Locals
    BY <1>1, <2>1, <2>3 DEF Locals
  <2>5. /\ r.matching = ~s.matching
        /\ r.out = IF s.matching THEN Append(s.out, c) ELSE s.out
        /\ r.index = s.index
    BY <2>3
  <2> QED
    BY <1>2, <2>4, <2>5 DEF Converted
<1>3. CASE c # "$" /\ s.matching /\ c \in DOMAIN Digits
  <2>1. s.index * 10 + Digits[c] \in Nat
    BY <1>1, <1>3, DigitsType
  <2>2. r = [s EXCEPT !.index = @ * 10 + Digits[c]]
    BY <1>3 DEF ConvertChar
  <2>3. r = [out |-> s.out, matching |-> s.matching, index |-> s.index * 10 + Digits[c]]
    BY <2>2 DEF Locals
  <2>4. r \in Locals
    BY <1>1, <2>1, <2>3 DEF Locals
  <2>5. /\ r.matching = s.matching /\ r.out = s.out
        /\ r.index = s.index * 10 + Digits[c]
    BY <2>3
  <2> QED
    BY <1>3, <2>4, <2>5 DEF Converted
<1>4. CASE c # "$" /\ ~(s.matching /\ c \in DOMAIN Digits)
  <2> DEFINE w == WriteMatch(matches, s)
  <2>1. w \in Locals /\ w.matching = FALSE
    BY WriteMatchIs, <1>1
  <2>2. r = [w EXCEPT !.out = Append(@, c)]
    BY <1>4 DEF ConvertChar
  <2> HIDE DEF w
  <2>3. r = [out |-> Append(w.out, c), matching |-> w.matching, index |-> w.index]
    BY <2>1, <2>2 DEF Locals
  <2>4. w.out \in Seq(Part) /\ w.index \in Nat /\ Append(w.out, c) \in Seq(Part)
    BY <1>1, <2>1 DEF Locals
  <2>5. r \in Locals /\ r.matching = FALSE /\ r.out = Append(w.out, c) /\ r.index = w.index
    BY <2>1, <2>3, <2>4 DEF Locals
  <2> QED
    BY <1>4, <2>5 DEF w, Converted
<1> QED
  BY <1>2, <1>3, <1>4

LEMMA ConvertCharType ==
    ASSUME NEW matches \in Seq(Captures), NEW s \in Locals, NEW c \in Chars
    PROVE  ConvertChar(matches, s, c) \in Locals
  BY ConvertCharIs

\* convertArgs goes through the characters one after the other.
LEMMA ConvertSteps ==
    ASSUME NEW matches \in Seq(Captures), NEW n \in Nat, NEW arg \in [1..n -> Chars]
    PROVE  \E v \in [0..n -> Locals] :
              /\ v[0] = Start
              /\ \A i \in 0..(n - 1) : v[i + 1] = ConvertChar(matches, v[i], arg[i + 1])
              /\ ConvertArgs(matches, arg) = WriteMatch(matches, v[n]).out
<1> DEFINE F == [i \in 1..n |-> [s \in Locals |-> ConvertChar(matches, s, arg[i])]]
           Rest(it) == [t \in SUBSET DOMAIN arg |->
                          IF t = {} THEN Start
                          ELSE LET x == Max(t) IN ConvertChar(matches, it[t \ {x}], arg[x])]
           iter == CHOOSE it : it = Rest(it)
<1>1. /\ Start \in Locals
      /\ \A i \in 1..n : \A s \in Locals : F[i][s] \in Locals
  <2>1. Start \in Locals
    <3>1. <<>> \in Seq(Part) /\ 0 \in Nat
      OBVIOUS
    <3> QED
      BY <3>1 DEF Start, Locals
  <2>2. ASSUME NEW i \in 1..n, NEW s \in Locals PROVE F[i][s] \in Locals
    <3>1. arg[i] \in Chars
      OBVIOUS
    <3>2. ConvertChar(matches, s, arg[i]) \in Locals
      BY <3>1, ConvertCharType
    <3> QED
      BY <3>2
  <2> HIDE DEF F
  <2> QED
    BY <2>1, <2>2
<1>2. PICK it : it \in [SUBSET (1..n) -> Locals] /\ it = Folding(n, Start, F, it)
  <2>1. Closed(n, Locals, F)
    BY <1>1 DEF Closed
  <2> HIDE DEF F
  <2>2. Start \in Locals
    BY <1>1
  <2>3. PICK it : Solves(n, Locals, Start, F, it)
    BY <2>1, <2>2, FoldExists
  <2> QED
    BY <2>3 DEF Solves
<1>3. \A t \in SUBSET (1..n) : t # {} => Max(t) \in t /\ t \ {Max(t)} \in SUBSET (1..n)
  <2>1. SUFFICES ASSUME NEW t \in SUBSET (1..n), t # {} PROVE Max(t) \in t
    OBVIOUS
  <2>2. t \in SUBSET (0..n)
    OBVIOUS
  <2> QED
    BY <2>1, <2>2, MaxIsGreatest
<1>4. DOMAIN arg = 1..n
  OBVIOUS
<1>5. it = Rest(it)
  <2>1. ASSUME NEW t \in SUBSET (1..n), t # {}
        PROVE  F[Max(t)][it[t \ {Max(t)}]] = ConvertChar(matches, it[t \ {Max(t)}], arg[Max(t)])
    <3>1. Max(t) \in 1..n /\ it[t \ {Max(t)}] \in Locals
      BY <1>2, <1>3, <2>1
    <3> QED
      BY <3>1
  <2>2. Folding(n, Start, F, it) = Rest(it)
    <3> HIDE DEF F
    <3> QED
      BY <1>4, <2>1 DEF Folding
  <2> HIDE DEF F, Rest
  <2> QED
    BY <1>2, <2>2, Zenon
<1>6. iter = Rest(iter)
  <2> HIDE DEF Rest
  <2> QED
    BY <1>5, Zenon
<1>7. ConvertArgs(matches, arg) = WriteMatch(matches, iter[1..n]).out
  BY <1>4, Zenon DEF ConvertArgs, FoldLeft, MapThenFoldSet, Start
<1> HIDE DEF iter, F
<1>8. iter[{}] = Start
  BY <1>6
<1>9. ASSUME NEW i \in 0..(n - 1)
      PROVE  iter[1..(i + 1)] = ConvertChar(matches, iter[1..i], arg[i + 1])
  <2>1. 1..(i + 1) \subseteq 1..n /\ i + 1 \in 1..(i + 1) /\ i \in Nat
    OBVIOUS
  <2>2. Max(1..(i + 1)) = i + 1 /\ (1..(i + 1)) \ {i + 1} = 1..i
    BY <2>1, LastIndex
  <2>3. iter[1..(i + 1)]
          = ConvertChar(matches, iter[(1..(i + 1)) \ {Max(1..(i + 1))}], arg[Max(1..(i + 1))])
    BY <1>4, <1>6, <2>1, Zenon
  <2> QED
    BY <2>2, <2>3
<1> DEFINE v == [i \in 0..n |-> iter[1..i]]
<1>10. v[0] = Start
  BY <1>8
<1>11. \A i \in 0..(n - 1) : v[i + 1] = ConvertChar(matches, v[i], arg[i + 1])
  BY <1>9
<1> HIDE DEF v
<1>12. \A i \in Nat : i \in 0..n => v[i] \in Locals
  <2> DEFINE T == {i \in Nat : i \in 0..n => v[i] \in Locals}
  <2>1. 0 \in T
    BY <1>1, <1>10
  <2>2. ASSUME NEW i \in Nat, i \in T
        PROVE  i + 1 \in T
    <3>1. SUFFICES ASSUME i + 1 \in 0..n PROVE v[i + 1] \in Locals
      OBVIOUS
    <3>2. i \in 0..(n - 1) /\ v[i] \in Locals /\ arg[i + 1] \in Chars
      BY <2>2, <3>1
    <3> QED
      BY <1>11, <3>2, ConvertCharType
  <2> HIDE DEF T
  <2>3. \A i \in Nat : i \in T
    BY <2>1, <2>2, NaturalsIn
  <2> QED
    BY <2>3 DEF T
<1>13. v \in [0..n -> Locals]
  BY <1>12 DEF v
<1>14. ConvertArgs(matches, arg) = WriteMatch(matches, v[n]).out
  BY <1>7 DEF v
<1> QED
  BY <1>10, <1>11, <1>13, <1>14

\* Number reads the digits one after the other.
LEMMA NumberSteps ==
    ASSUME NEW n \in Nat, NEW chars \in [1..n -> DOMAIN Digits]
    PROVE  \E v \in [0..n -> Nat] :
              /\ v[0] = 0
              /\ \A i \in 0..(n - 1) : v[i + 1] = v[i] * 10 + Digits[chars[i + 1]]
              /\ Number(chars) = v[n]
<1> DEFINE F == [i \in 1..n |-> [s \in Nat |-> s * 10 + Digits[chars[i]]]]
           Rest(it) == [t \in SUBSET DOMAIN chars |->
                          IF t = {} THEN 0
                          ELSE LET x == Max(t) IN it[t \ {x}] * 10 + Digits[chars[x]]]
           iter == CHOOSE it : it = Rest(it)
<1>1. /\ 0 \in Nat
      /\ \A i \in 1..n : \A s \in Nat : F[i][s] \in Nat
  <2>1. \A i \in 1..n : Digits[chars[i]] \in Nat
    BY DigitsType
  <2> QED
    BY <2>1
<1>2. PICK it : it \in [SUBSET (1..n) -> Nat] /\ it = Folding(n, 0, F, it)
  <2>1. Closed(n, Nat, F)
    BY <1>1 DEF Closed
  <2> HIDE DEF F
  <2>2. 0 \in Nat
    BY <1>1
  <2>3. PICK it : Solves(n, Nat, 0, F, it)
    BY <2>1, <2>2, FoldExists
  <2> QED
    BY <2>3 DEF Solves
<1>3. \A t \in SUBSET (1..n) : t # {} => Max(t) \in t /\ t \ {Max(t)} \in SUBSET (1..n)
  <2>1. SUFFICES ASSUME NEW t \in SUBSET (1..n), t # {} PROVE Max(t) \in t
    OBVIOUS
  <2>2. t \in SUBSET (0..n)
    OBVIOUS
  <2> QED
    BY <2>1, <2>2, MaxIsGreatest
<1>4. DOMAIN chars = 1..n
  OBVIOUS
<1>5. it = Rest(it)
  <2>1. ASSUME NEW t \in SUBSET (1..n), t # {}
        PROVE  F[Max(t)][it[t \ {Max(t)}]] = it[t \ {Max(t)}] * 10 + Digits[chars[Max(t)]]
    <3>1. Max(t) \in 1..n /\ it[t \ {Max(t)}] \in Nat
      BY <1>2, <1>3, <2>1
    <3> QED
      BY <3>1
  <2>2. Folding(n, 0, F, it) = Rest(it)
    <3> HIDE DEF F
    <3> QED
      BY <1>4, <2>1 DEF Folding
  <2> HIDE DEF F, Rest
  <2> QED
    BY <1>2, <2>2, Zenon
<1>6. iter = Rest(iter)
  <2> HIDE DEF Rest
  <2> QED
    BY <1>5, Zenon
<1>7. Number(chars) = iter[1..n]
  BY <1>4, Zenon DEF Number, FoldLeft, MapThenFoldSet
<1> HIDE DEF iter, F
<1>8. iter[{}] = 0
  BY <1>6
<1>9. ASSUME NEW i \in 0..(n - 1)
      PROVE  iter[1..(i + 1)] = iter[1..i] * 10 + Digits[chars[i + 1]]
  <2>1. 1..(i + 1) \subseteq 1..n /\ i + 1 \in 1..(i + 1) /\ i \in Nat
    OBVIOUS
  <2>2. Max(1..(i + 1)) = i + 1 /\ (1..(i + 1)) \ {i + 1} = 1..i
    BY <2>1, LastIndex
  <2>3. iter[1..(i + 1)]
          = iter[(1..(i + 1)) \ {Max(1..(i + 1))}] * 10 + Digits[chars[Max(1..(i + 1))]]
    BY <1>4, <1>6, <2>1, Zenon
  <2> QED
    BY <2>2, <2>3
<1> DEFINE v == [i \in 0..n |-> iter[1..i]]
<1>10. v[0] = 0
  BY <1>8
<1>11. \A i \in 0..(n - 1) : v[i + 1] = v[i] * 10 + Digits[chars[i + 1]]
  BY <1>9
<1> HIDE DEF v
<1>12. \A i \in Nat : i \in 0..n => v[i] \in Nat
  <2> DEFINE T == {i \in Nat : i \in 0..n => v[i] \in Nat}
  <2>1. 0 \in T
    BY <1>1, <1>10
  <2>2. ASSUME NEW i \in Nat, i \in T
        PROVE  i + 1 \in T
    <3>1. SUFFICES ASSUME i + 1 \in 0..n PROVE v[i + 1] \in Nat
      OBVIOUS
    <3>2. i \in 0..(n - 1) /\ v[i] \in Nat /\ chars[i + 1] \in DOMAIN Digits
      BY <2>2, <3>1
    <3>3. Digits[chars[i + 1]] \in Nat
      BY <3>2, DigitsType
    <3>4. v[i + 1] = v[i] * 10 + Digits[chars[i + 1]]
      BY <1>11, <3>2
    <3> QED
      BY <3>2, <3>3, <3>4
  <2> HIDE DEF T
  <2>3. \A i \in Nat : i \in T
    BY <2>1, <2>2, NaturalsIn
  <2> QED
    BY <2>3 DEF T
<1>13. v \in [0..n -> Nat]
  BY <1>12 DEF v
<1>14. Number(chars) = v[n]
  BY <1>7 DEF v
<1> QED
  BY <1>10, <1>11, <1>13, <1>14

LEMMA NumberOfNone == Number(<<>>) = 0
<1> DEFINE none == [k \in 1..0 |-> "0"]
<1>1. none = <<>>
  OBVIOUS
<1>2. none \in [1..0 -> DOMAIN Digits]
  OBVIOUS
<1> HIDE DEF none
<1>3. 0 \in Nat
  OBVIOUS
<1>4. PICK v \in [0..0 -> Nat] : v[0] = 0 /\ Number(none) = v[0]
  BY <1>2, <1>3, NumberSteps
<1> QED
  BY <1>1, <1>4

\* One digit more.
LEMMA NumberGrows ==
    ASSUME NEW n \in Nat, NEW chars \in [1..n -> DOMAIN Digits],
           NEW more \in [1..(n + 1) -> DOMAIN Digits],
           \A k \in 1..n : more[k] = chars[k]
    PROVE  Number(chars) \in Nat /\ Number(more) = Number(chars) * 10 + Digits[more[n + 1]]
<1>1. PICK v \in [0..n -> Nat] :
          /\ v[0] = 0
          /\ \A i \in 0..(n - 1) : v[i + 1] = v[i] * 10 + Digits[chars[i + 1]]
          /\ Number(chars) = v[n]
  BY NumberSteps
<1> DEFINE m == n + 1
<1>2. m \in Nat /\ m = n + 1 /\ more \in [1..m -> DOMAIN Digits]
  OBVIOUS
<1> HIDE DEF m
<1>3. PICK w \in [0..m -> Nat] :
          /\ w[0] = 0
          /\ \A i \in 0..(m - 1) : w[i + 1] = w[i] * 10 + Digits[more[i + 1]]
          /\ Number(more) = w[m]
  BY <1>2, NumberSteps
<1> DEFINE T == {i \in Nat : i <= n => v[i] = w[i]}
<1>4. 0 \in T
  BY <1>1, <1>3
<1>5. ASSUME NEW i \in Nat, i \in T
      PROVE  i + 1 \in T
  <2>1. SUFFICES ASSUME i + 1 <= n PROVE v[i + 1] = w[i + 1]
    OBVIOUS
  <2>2. i \in 0..(n - 1) /\ i \in 0..(m - 1) /\ i + 1 \in 1..n /\ v[i] = w[i]
    BY <1>2, <1>5, <2>1
  <2>3. more[i + 1] = chars[i + 1]
    BY <2>2
  <2>4. v[i + 1] = v[i] * 10 + Digits[chars[i + 1]]
    BY <1>1, <2>2
  <2>5. w[i + 1] = w[i] * 10 + Digits[more[i + 1]]
    BY <1>3, <2>2
  <2> QED
    BY <2>2, <2>3, <2>4, <2>5
<1> HIDE DEF T
<1>6. \A i \in Nat : i \in T
  BY <1>4, <1>5, NaturalsIn
<1>7. v[n] = w[n]
  BY <1>6 DEF T
<1>8. w[m] = w[n] * 10 + Digits[more[m]]
  <2>1. n \in 0..(m - 1)
    BY <1>2
  <2> QED
    BY <1>2, <1>3, <2>1
<1> QED
  BY <1>1, <1>2, <1>3, <1>7, <1>8

\* The digits of a reference, from the character after its `$`.
LEMMA RunGrows ==
    ASSUME NEW arg \in Seq(Chars), NEW d \in 1..Len(arg), NEW i \in d..Len(arg),
           \A k \in (d + 1)..i : arg[k] \in DOMAIN Digits
    PROVE  /\ Number(SubSeq(arg, d + 1, i)) \in Nat
           /\ i = d => Number(SubSeq(arg, d + 1, i)) = 0
           /\ i + 1 <= Len(arg) /\ arg[i + 1] \in DOMAIN Digits =>
                 Number(SubSeq(arg, d + 1, i + 1))
                   = Number(SubSeq(arg, d + 1, i)) * 10 + Digits[arg[i + 1]]
<1> DEFINE Run(j) == SubSeq(arg, d + 1, j)
           n == i - d
<1>1. Len(arg) \in Nat /\ n \in Nat /\ d \in Nat /\ i \in Nat /\ i = d + n
  OBVIOUS
<1>2. \A j \in d..Len(arg) : Run(j) = [k \in 1..(j - d) |-> arg[d + k]]
  <2>1. SUFFICES ASSUME NEW j \in d..Len(arg) PROVE Run(j) = [k \in 1..(j - d) |-> arg[d + k]]
    OBVIOUS
  <2> DEFINE e == d + 1
  <2>2. e \in Int /\ j \in Int /\ \A x \in e..j : arg[x] \in Chars
    BY <1>1
  <2>3. e = d + 1 /\ j - e + 1 = j - d /\ (e <= j <=> j - d > 0) /\ j - d \in Nat
    BY <1>1
  <2> HIDE DEF e
  <2>4. /\ SubSeq(arg, e, j) \in Seq(Chars)
        /\ Len(SubSeq(arg, e, j)) = IF e <= j THEN j - e + 1 ELSE 0
        /\ \A k \in 1..(j - e + 1) : SubSeq(arg, e, j)[k] = arg[e + k - 1]
    BY <2>2, SubSeqProperties
  <2>5. /\ SubSeq(arg, e, j) \in Seq(Chars) /\ Len(SubSeq(arg, e, j)) = j - d
        /\ \A k \in 1..(j - d) : SubSeq(arg, e, j)[k] = arg[d + k]
    <3>1. \A k \in 1..(j - d) : e + k - 1 = d + k
      BY <1>1, <2>3
    <3>2. j - e + 1 = j - d
      BY <2>3
    <3>3. Len(SubSeq(arg, e, j)) = j - d
      BY <2>3, <2>4
    <3>4. \A k \in 1..(j - d) : SubSeq(arg, e, j)[k] = arg[e + k - 1]
      BY <2>4, <3>2
    <3> QED
      BY <2>4, <3>1, <3>3, <3>4
  <2> DEFINE r == SubSeq(arg, e, j)
             q == j - d
  <2>6. q \in Nat /\ r \in Seq(Chars) /\ Len(r) = q /\ \A k \in 1..q : r[k] = arg[d + k]
    BY <2>3, <2>5
  <2> HIDE DEF r, q
  <2>7. r = [k \in 1..q |-> arg[d + k]]
    BY <2>6
  <2> QED
    BY <2>7, Zenon DEF r, q, e
<1>3. Run(i) \in [1..n -> DOMAIN Digits] /\ \A k \in 1..n : Run(i)[k] = arg[d + k]
  <2>1. Run(i) = [k \in 1..n |-> arg[d + k]]
    BY <1>1, <1>2
  <2>2. \A k \in 1..n : arg[d + k] \in DOMAIN Digits
    <3>1. \A k \in 1..n : d + k \in (d + 1)..i
      BY <1>1
    <3> QED
      BY <3>1
  <2> HIDE DEF Run, n
  <2> QED
    BY <2>1, <2>2
<1>4. ASSUME n = 0 PROVE Number(Run(i)) = 0
  <2>1. Run(i) = <<>>
    <3> HIDE DEF Run
    <3> QED
      BY <1>3, <1>4
  <2> QED
    BY <2>1, NumberOfNone
<1>5. Number(Run(i)) \in Nat
  <2> HIDE DEF Run, n
  <2>1. PICK v \in [0..n -> Nat] : Number(Run(i)) = v[n]
    BY <1>1, <1>3, NumberSteps
  <2> QED
    BY <1>1, <2>1
<1>6. ASSUME i + 1 <= Len(arg), arg[i + 1] \in DOMAIN Digits
      PROVE  Number(Run(i + 1)) = Number(Run(i)) * 10 + Digits[arg[i + 1]]
  <2>1. Run(i + 1) = [k \in 1..(n + 1) |-> arg[d + k]]
    BY <1>1, <1>2, <1>6
  <2>2. \A k \in 1..(n + 1) : arg[d + k] \in DOMAIN Digits
    <3>1. \A k \in 1..(n + 1) : d + k \in (d + 1)..i \/ d + k = i + 1
      BY <1>1
    <3> QED
      BY <1>6, <3>1
  <2>3. d + (n + 1) = i + 1 /\ n + 1 \in 1..(n + 1) /\ \A k \in 1..n : k \in 1..(n + 1)
    BY <1>1
  <2> DEFINE u == Run(i)
             w == Run(i + 1)
  <2> HIDE DEF Run, n
  <2>4. w \in [1..(n + 1) -> DOMAIN Digits] /\ \A k \in 1..(n + 1) : w[k] = arg[d + k]
    BY <2>1, <2>2
  <2>5. u \in [1..n -> DOMAIN Digits] /\ \A k \in 1..n : w[k] = u[k]
    BY <1>3, <2>3, <2>4
  <2> HIDE DEF u, w
  <2>6. Number(w) = Number(u) * 10 + Digits[w[n + 1]]
    BY <1>1, <2>4, <2>5, NumberGrows
  <2>7. w[n + 1] = arg[i + 1]
    BY <2>3, <2>4
  <2> QED
    BY <2>6, <2>7 DEF u, w
<1> QED
  BY <1>1, <1>4, <1>5, <1>6

\* Where the digits end is one place.
LEMMA RunEndIs ==
    ASSUME NEW arg \in Seq(Chars), NEW i \in 1..Len(arg)
    PROVE  /\ RunEnd(arg, i) \in i..Len(arg)
           /\ \A k \in (i + 1)..RunEnd(arg, i) : arg[k] \in DOMAIN Digits
           /\ RunEnd(arg, i) = Len(arg) \/ arg[RunEnd(arg, i) + 1] \notin DOMAIN Digits
<1> DEFINE n == Len(arg)
           T == {j \in i..n : \A k \in (i + 1)..j : arg[k] \in DOMAIN Digits}
<1>1. n \in Nat /\ T \in SUBSET (0..n)
  OBVIOUS
<1>2. T # {}
  <2>1. i \in T
    OBVIOUS
  <2> QED
    BY <2>1
<1> DEFINE j == Max(T)
<1>3. j \in T /\ \A m \in T : m <= j
  <2> HIDE DEF T, n
  <2> QED
    BY <1>1, <1>2, MaxIsGreatest
<1> HIDE DEF j
<1>4. j \in i..n /\ \A k \in (i + 1)..j : arg[k] \in DOMAIN Digits
  BY <1>3
<1>5. j = n \/ arg[j + 1] \notin DOMAIN Digits
  <2>1. SUFFICES ASSUME j # n, arg[j + 1] \in DOMAIN Digits PROVE FALSE
    OBVIOUS
  <2>2. j + 1 \in T
    BY <1>1, <1>4, <2>1
  <2> QED
    BY <1>1, <1>3, <2>2
<1> HIDE DEF T
<1> QED
  BY <1>4, <1>5, Zenon DEF RunEnd

LEMMA RunEndUnique ==
    ASSUME NEW arg \in Seq(Chars), NEW i \in 1..Len(arg), NEW j \in i..Len(arg),
           \A k \in (i + 1)..j : arg[k] \in DOMAIN Digits,
           j = Len(arg) \/ arg[j + 1] \notin DOMAIN Digits
    PROVE  RunEnd(arg, i) = j
<1> DEFINE e == RunEnd(arg, i)
<1>1. /\ e \in i..Len(arg) /\ \A k \in (i + 1)..e : arg[k] \in DOMAIN Digits
      /\ e = Len(arg) \/ arg[e + 1] \notin DOMAIN Digits
  BY RunEndIs
<1>2. Len(arg) \in Nat
  OBVIOUS
<1> HIDE DEF e
<1>3. ASSUME e < j PROVE FALSE
  <2>1. e + 1 \in (i + 1)..j
    BY <1>1, <1>2, <1>3
  <2> QED
    BY <1>1, <1>3, <2>1
<1>4. ASSUME j < e PROVE FALSE
  <2>1. j + 1 \in (i + 1)..e
    BY <1>1, <1>2, <1>4
  <2> QED
    BY <1>1, <1>4, <2>1
<1> QED
  BY <1>1, <1>3, <1>4 DEF e

\* Expansion's function, at one place, and a function that is as Expansion's is at the last
\* m places.
ExpandAt(matches, arg, f, i) ==
    IF i > Len(arg) THEN <<>>
    ELSE IF arg[i] # "$" THEN <<arg[i]>> \o f[i + 1]
    ELSE IF i < Len(arg) /\ arg[i + 1] = "$" THEN <<"$">> \o f[i + 2]
    ELSE LET j == RunEnd(arg, i) IN
         Group(matches, Number(SubSeq(arg, i + 1, j))) \o f[j + 1]

Expands(matches, arg, f, m) ==
    /\ f \in [1..(Len(arg) + 2) -> Seq(Part)]
    /\ \A i \in 1..(Len(arg) + 2) : i > Len(arg) + 2 - m => f[i] = ExpandAt(matches, arg, f, i)

\* A place needs later ones only.
LEMMA ExpandAtType ==
    ASSUME NEW matches \in Seq(Captures), NEW arg \in Seq(Chars), NEW f,
           NEW i \in 1..(Len(arg) + 2),
           \A k \in 1..(Len(arg) + 2) : k > i => f[k] \in Seq(Part)
    PROVE  /\ ExpandAt(matches, arg, f, i) \in Seq(Part)
           /\ \A g : (\A k \in 1..(Len(arg) + 2) : k > i => g[k] = f[k])
                        => ExpandAt(matches, arg, g, i) = ExpandAt(matches, arg, f, i)
<1>1. Len(arg) \in Nat
  OBVIOUS
<1>2. CASE i > Len(arg)
  <2>1. <<>> \in Seq(Part)
    OBVIOUS
  <2> QED
    BY <1>2, <2>1 DEF ExpandAt
<1>3. CASE i <= Len(arg) /\ arg[i] # "$"
  <2>1. /\ i + 1 \in 1..(Len(arg) + 2) /\ i + 1 > i /\ ~(i > Len(arg))
        /\ arg[i] \in Chars
    BY <1>1, <1>3
  <2>2. <<arg[i]>> \in Seq(Part) /\ f[i + 1] \in Seq(Part)
    <3>1. arg[i] \in Part
      BY <2>1 DEF Part
    <3> QED
      BY <2>1, <3>1
  <2>3. <<arg[i]>> \o f[i + 1] \in Seq(Part)
    BY <2>2, ConcatProperties
  <2>4. \A g : ExpandAt(matches, arg, g, i) = <<arg[i]>> \o g[i + 1]
    BY <1>3, <2>1, Zenon DEF ExpandAt
  <2> QED
    BY <2>1, <2>3, <2>4
<1>4. CASE i <= Len(arg) /\ arg[i] = "$" /\ i < Len(arg) /\ arg[i + 1] = "$"
  <2>1. i + 2 \in 1..(Len(arg) + 2) /\ i + 2 > i /\ ~(i > Len(arg))
    BY <1>1, <1>4
  <2>2. <<"$">> \in Seq(Part) /\ f[i + 2] \in Seq(Part)
    <3>1. "$" \in Part
      BY DigitsType DEF Part
    <3> QED
      BY <2>1, <3>1
  <2>3. <<"$">> \o f[i + 2] \in Seq(Part)
    BY <2>2, ConcatProperties
  <2>4. \A g : ExpandAt(matches, arg, g, i) = <<"$">> \o g[i + 2]
    BY <1>4, <2>1, Zenon DEF ExpandAt
  <2> QED
    BY <2>1, <2>3, <2>4
<1>5. CASE i <= Len(arg) /\ arg[i] = "$" /\ ~(i < Len(arg) /\ arg[i + 1] = "$")
  <2> DEFINE j == RunEnd(arg, i)
             m == Number(SubSeq(arg, i + 1, j))
  <2>1. i \in 1..Len(arg) /\ ~(i > Len(arg))
    BY <1>1, <1>5
  <2>2. j \in i..Len(arg) /\ \A k \in (i + 1)..j : arg[k] \in DOMAIN Digits
    BY <2>1, RunEndIs
  <2> HIDE DEF j
  <2>3. m \in Nat
    BY <2>1, <2>2, RunGrows
  <2>4. j + 1 \in 1..(Len(arg) + 2) /\ j + 1 > i
    BY <1>1, <2>1, <2>2
  <2> HIDE DEF m
  <2>5. Group(matches, m) \in Seq(Part) /\ f[j + 1] \in Seq(Part)
    BY <2>3, <2>4, GroupType
  <2>6. Group(matches, m) \o f[j + 1] \in Seq(Part)
    BY <2>5, ConcatProperties
  <2>7. \A g : ExpandAt(matches, arg, g, i) = Group(matches, m) \o g[j + 1]
    BY <1>5, <2>1, Zenon DEF ExpandAt, m, j
  <2> QED
    BY <2>4, <2>6, <2>7
<1> QED
  BY <1>1, <1>2, <1>3, <1>4, <1>5

\* Expansion's function exists, and is right at every place.
LEMMA ExpansionIs ==
    ASSUME NEW matches \in Seq(Captures), NEW arg \in Seq(Chars)
    PROVE  \E f : Expands(matches, arg, f, Len(arg) + 2) /\ Expansion(matches, arg) = f[1]
<1> DEFINE n == Len(arg) + 2
           Rest(f) == [i \in 1..(Len(arg) + 2) |-> ExpandAt(matches, arg, f, i)]
           expand == CHOOSE f : f = Rest(f)
           T == {m \in Nat : m <= n => \E f : Expands(matches, arg, f, m)}
           V == {m \in Nat : \A i \in 1..n : i > n - m => expand[i] \in Seq(Part)}
<1>1. Len(arg) \in Nat /\ n \in Nat
  OBVIOUS
<1>2. 0 \in T
  <2> DEFINE f == [i \in 1..(Len(arg) + 2) |-> <<>>]
  <2>1. f \in [1..(Len(arg) + 2) -> Seq(Part)]
    <3>1. <<>> \in Seq(Part)
      OBVIOUS
    <3> QED
      BY <3>1
  <2> HIDE DEF f
  <2>2. Expands(matches, arg, f, 0)
    BY <1>1, <2>1 DEF Expands
  <2> QED
    BY <2>2
<1>3. ASSUME NEW m \in Nat, m \in T
      PROVE  m + 1 \in T
  <2>1. SUFFICES ASSUME m + 1 <= n PROVE \E f : Expands(matches, arg, f, m + 1)
    OBVIOUS
  <2>2. PICK f : Expands(matches, arg, f, m)
    BY <1>1, <1>3, <2>1
  <2> DEFINE e == n - m
             g == [f EXCEPT ![e] = ExpandAt(matches, arg, f, e)]
  <2>3. e \in 1..n /\ \A k \in 1..n : (k > e <=> k > n - m) /\ (k > n - (m + 1) <=> k > e \/ k = e)
    BY <1>1, <2>1
  <2> HIDE DEF e
  <2>4. f \in [1..n -> Seq(Part)] /\ \A i \in 1..n : i > e => f[i] = ExpandAt(matches, arg, f, i)
    BY <2>2, <2>3 DEF Expands
  <2>5. ExpandAt(matches, arg, f, e) \in Seq(Part)
    BY <2>3, <2>4, ExpandAtType
  <2>6. g \in [1..n -> Seq(Part)] /\ g[e] = ExpandAt(matches, arg, f, e) /\ \A k \in 1..n : k # e => g[k] = f[k]
    BY <2>3, <2>4, <2>5
  <2> HIDE DEF g
  <2>7. \A i \in 1..n : i >= e => ExpandAt(matches, arg, g, i) = ExpandAt(matches, arg, f, i)
    <3>1. SUFFICES ASSUME NEW i \in 1..n, i >= e
                   PROVE  ExpandAt(matches, arg, g, i) = ExpandAt(matches, arg, f, i)
      OBVIOUS
    <3>2. \A k \in 1..n : k > i => g[k] = f[k] /\ f[k] \in Seq(Part)
      <4>1. \A k \in 1..n : k > i => k # e
        BY <1>1, <2>3, <3>1
      <4>2. \A k \in 1..n : f[k] \in Seq(Part)
        BY <2>4
      <4> QED
        BY <2>6, <4>1, <4>2
    <3>3. \A h : (\A k \in 1..n : k > i => h[k] = f[k])
                     => ExpandAt(matches, arg, h, i) = ExpandAt(matches, arg, f, i)
      BY <3>2, ExpandAtType
    <3> QED
      BY <3>2, <3>3
  <2>8. \A i \in 1..n : i > n - (m + 1) => g[i] = ExpandAt(matches, arg, g, i)
    <3>1. SUFFICES ASSUME NEW i \in 1..n, i > n - (m + 1) PROVE g[i] = ExpandAt(matches, arg, g, i)
      OBVIOUS
    <3>2. CASE i = e
      BY <1>1, <2>3, <2>6, <2>7, <3>2
    <3>3. CASE i # e
      <4>1. i > e /\ i >= e
        BY <1>1, <2>3, <3>1, <3>3
      <4> QED
        BY <2>4, <2>6, <2>7, <3>3, <4>1
    <3> QED
      BY <3>2, <3>3
  <2>9. Expands(matches, arg, g, m + 1)
    BY <2>6, <2>8 DEF Expands
  <2> QED
    BY <2>9
<1>4. PICK f : Expands(matches, arg, f, n)
  <2>1. \A m \in Nat : m \in T
    <3> HIDE DEF T
    <3> QED
      BY <1>2, <1>3, NaturalsIn
  <2> QED
    BY <1>1, <2>1
<1>5. f = Rest(f)
  <2>1. f \in [1..n -> Seq(Part)] /\ \A i \in 1..n : f[i] = ExpandAt(matches, arg, f, i)
    BY <1>1, <1>4 DEF Expands
  <2> QED
    BY <2>1
<1>6. expand = Rest(expand)
  <2> HIDE DEF Rest
  <2> QED
    BY <1>5, Zenon
<1>7. Expansion(matches, arg) = expand[1]
  BY Zenon DEF Expansion, ExpandAt
<1> HIDE DEF expand
<1>8. \A i \in 1..n : expand[i] = ExpandAt(matches, arg, expand, i)
  BY <1>6
<1>9. 0 \in V
  BY <1>1
<1>10. ASSUME NEW m \in Nat, m \in V
       PROVE  m + 1 \in V
  <2>1. SUFFICES ASSUME NEW i \in 1..n, i > n - (m + 1) PROVE expand[i] \in Seq(Part)
    OBVIOUS
  <2>2. \A k \in 1..n : k > i => expand[k] \in Seq(Part)
    BY <1>1, <1>10, <2>1
  <2>3. ExpandAt(matches, arg, expand, i) \in Seq(Part)
    BY <2>2, ExpandAtType
  <2> QED
    BY <1>8, <2>3
<1>11. n \in V
  <2> HIDE DEF V
  <2>1. \A m \in Nat : m \in V
    BY <1>9, <1>10, NaturalsIn
  <2> QED
    BY <1>1, <2>1
<1>12. expand \in [1..n -> Seq(Part)]
  <2>1. \A i \in 1..n : expand[i] \in Seq(Part)
    BY <1>1, <1>11
  <2>2. expand = [i \in 1..n |-> expand[i]]
    BY <1>6
  <2> QED
    BY <2>1, <2>2
<1>13. Expands(matches, arg, expand, n)
  BY <1>8, <1>12 DEF Expands
<1> QED
  BY <1>7, <1>13

\* After i characters, in a reference from its `$` at d: what is written and the expansion
\* of the rest, from d on in a reference, are together the whole expansion.
InReference(arg, f, s, i, d) ==
    /\ d \in 1..i /\ arg[d] = "$"
    /\ \A k \in (d + 1)..i : arg[k] \in DOMAIN Digits
    /\ s.index = Number(SubSeq(arg, d + 1, i))
    /\ s.out \o f[d] = f[1]

Along(arg, f, s, i) ==
    /\ s \in Locals
    /\ ~s.matching => s.index = 0 /\ s.out \o f[i + 1] = f[1]
    /\ s.matching => \E d \in 1..i : InReference(arg, f, s, i, d)

\* Moving the first element of what follows to what is written.
LEMMA Shift ==
    ASSUME NEW u \in Seq(Part), NEW c \in Part, NEW v \in Seq(Part)
    PROVE  Append(u, c) \o v = u \o (<<c>> \o v) /\ Append(u, c) \in Seq(Part)
<1> DEFINE w == <<c>>
<1>1. w \in Seq(Part)
  OBVIOUS
<1>2. Append(u, c) = u \o w
  OBVIOUS
<1> HIDE DEF w
<1>3. (u \o w) \o v = u \o (w \o v)
  BY <1>1, ConcatAssociative
<1>4. Append(u, c) \in Seq(Part)
  OBVIOUS
<1> QED
  BY <1>2, <1>3, <1>4 DEF w

LEMMA PartsAssociate ==
    ASSUME NEW u \in Seq(Part), NEW v \in Seq(Part), NEW w \in Seq(Part)
    PROVE  (u \o v) \o w = u \o (v \o w)
  BY ConcatAssociative

\* A reference that ends before the next place, written out.
LEMMA ReferenceEnds ==
    ASSUME NEW matches \in Seq(Captures), NEW arg \in Seq(Chars), NEW f,
           Expands(matches, arg, f, Len(arg) + 2),
           NEW i \in 1..Len(arg), NEW s \in Locals, NEW d \in 1..i,
           InReference(arg, f, s, i, d),
           i = Len(arg) \/ arg[i + 1] \notin DOMAIN Digits \cup {"$"}
    PROVE  (s.out \o Group(matches, s.index)) \o f[i + 1] = f[1]
<1>1. Len(arg) \in Nat /\ d \in 1..Len(arg) /\ i \in d..Len(arg) /\ i + 1 \in 1..(Len(arg) + 2)
      /\ d \in 1..(Len(arg) + 2) /\ d > Len(arg) + 2 - (Len(arg) + 2) /\ ~(d > Len(arg))
  OBVIOUS
<1>2. RunEnd(arg, d) = i
  <2>1. \A k \in (d + 1)..i : arg[k] \in DOMAIN Digits
    BY DEF InReference
  <2>2. i = Len(arg) \/ arg[i + 1] \notin DOMAIN Digits
    OBVIOUS
  <2> QED
    BY <1>1, <2>1, <2>2, RunEndUnique
<1>3. ~(d < Len(arg) /\ arg[d + 1] = "$")
  <2>1. SUFFICES ASSUME d < Len(arg), arg[d + 1] = "$" PROVE FALSE
    OBVIOUS
  <2>2. CASE d = i
    BY <2>1, <2>2
  <2>3. CASE d # i
    <3>1. d + 1 \in (d + 1)..i
      BY <1>1, <2>3
    <3>2. arg[d + 1] \in DOMAIN Digits
      BY <3>1 DEF InReference
    <3> QED
      BY <2>1, <3>2, DigitsType
  <2> QED
    BY <2>2, <2>3
<1>4. f[d] = ExpandAt(matches, arg, f, d)
  BY <1>1 DEF Expands
<1>5. ExpandAt(matches, arg, f, d)
        = Group(matches, Number(SubSeq(arg, d + 1, i))) \o f[i + 1]
  <2>1. arg[d] = "$"
    BY DEF InReference
  <2> QED
    BY <1>1, <1>2, <1>3, <2>1, Zenon DEF ExpandAt
<1>6. f[d] = Group(matches, s.index) \o f[i + 1] /\ s.out \o f[d] = f[1]
  BY <1>4, <1>5 DEF InReference
<1>7. s.out \in Seq(Part) /\ s.index \in Nat
  BY DEF Locals
<1>8. Group(matches, s.index) \in Seq(Part) /\ f[i + 1] \in Seq(Part)
  BY <1>1, <1>7, GroupType DEF Expands
<1> DEFINE u == s.out
           g == Group(matches, s.index)
           v == f[i + 1]
<1>9. u \in Seq(Part) /\ g \in Seq(Part) /\ v \in Seq(Part) /\ u \o (g \o v) = f[1]
  BY <1>6, <1>7, <1>8
<1> HIDE DEF u, g, v
<1>10. u \in Seq(Part) /\ g \in Seq(Part) /\ v \in Seq(Part)
  BY <1>9
<1>11. (u \o g) \o v = u \o (g \o v)
  BY <1>10, PartsAssociate
<1> QED
  BY <1>9, <1>11, Zenon DEF u, g, v

\* One character more.
LEMMA AlongStep ==
    ASSUME NEW matches \in Seq(Captures), NEW arg \in Seq(Chars), Separated(arg),
           NEW f, Expands(matches, arg, f, Len(arg) + 2),
           NEW i \in 0..(Len(arg) - 1), NEW s, Along(arg, f, s, i),
           NEW r, r = ConvertChar(matches, s, arg[i + 1])
    PROVE  Along(arg, f, r, i + 1)
<1> DEFINE c == arg[i + 1]
           e == i + 1
<1>1. /\ Len(arg) \in Nat /\ i \in Nat /\ e \in 1..Len(arg) /\ e = i + 1
      /\ e \in 1..(Len(arg) + 2) /\ e + 1 \in 1..(Len(arg) + 2)
      /\ e > Len(arg) + 2 - (Len(arg) + 2) /\ ~(e > Len(arg))
  OBVIOUS
<1>2. c \in Chars /\ c \in Part /\ c = arg[e] /\ s \in Locals
  BY DEF Along, Part
<1>3. s.out \in Seq(Part) /\ s.index \in Nat /\ s.matching \in BOOLEAN
  BY <1>2 DEF Locals
<1> HIDE DEF e
<1>4. f[e] = ExpandAt(matches, arg, f, e) /\ f[e] \in Seq(Part) /\ f[e + 1] \in Seq(Part)
  BY <1>1 DEF Expands
<1>5. r = ConvertChar(matches, s, c)
  OBVIOUS
<1> HIDE DEF c
<1>6. r \in Locals /\ Converted(matches, s, c, r)
  BY <1>2, <1>5, ConvertCharIs
<1>7. CASE c = "$" /\ ~s.matching
  <2>1. r.matching = TRUE /\ r.out = s.out /\ r.index = s.index
    BY <1>6, <1>7 DEF Converted
  <2>2. s.index = 0 /\ s.out \o f[e] = f[1]
    BY <1>1, <1>7 DEF Along
  <2>3. Number(SubSeq(arg, e + 1, e)) = 0
    <3>1. e \in e..Len(arg) /\ \A k \in (e + 1)..e : arg[k] \in DOMAIN Digits
      BY <1>1
    <3> QED
      BY <1>1, <3>1, RunGrows
  <2>4. InReference(arg, f, r, e, e)
    <3>1. e \in 1..e /\ \A k \in (e + 1)..e : arg[k] \in DOMAIN Digits
      BY <1>1
    <3> QED
      BY <1>2, <1>7, <2>1, <2>2, <2>3, <3>1 DEF InReference
  <2>5. e \in 1..e
    BY <1>1
  <2>6. Along(arg, f, r, e)
    BY <1>6, <2>1, <2>4, <2>5 DEF Along
  <2> QED
    BY <2>6 DEF e
<1>8. CASE c = "$" /\ s.matching
  <2>1. PICK d \in 1..i : InReference(arg, f, s, i, d)
    BY <1>8 DEF Along
  <2>2. r.matching = FALSE /\ r.out = Append(s.out, c) /\ r.index = s.index
    BY <1>6, <1>8 DEF Converted
  <2>3. d = i
    <3>1. SUFFICES ASSUME d # i PROVE FALSE
      OBVIOUS
    <3>2. d \in 1..Len(arg) /\ d + 1 < e /\ arg[d] = "$" /\ arg[e] = "$"
      BY <1>1, <1>2, <1>8, <2>1, <3>1 DEF InReference
    <3>3. PICK k \in (d + 1)..(e - 1) : arg[k] \notin DOMAIN Digits
      BY <1>1, <3>2 DEF Separated
    <3>4. k \in (d + 1)..i
      BY <1>1, <3>3
    <3> QED
      BY <2>1, <3>3, <3>4 DEF InReference
  <2>4. d \in 1..Len(arg) /\ d < Len(arg) /\ d + 1 = e /\ d + 2 = e + 1 /\ ~(d > Len(arg))
        /\ d \in 1..(Len(arg) + 2) /\ d > Len(arg) + 2 - (Len(arg) + 2)
    BY <1>1, <2>3
  <2>5. f[d] = ExpandAt(matches, arg, f, d)
    BY <2>4 DEF Expands
  <2>6. ExpandAt(matches, arg, f, d) = <<"$">> \o f[d + 2]
    <3>1. arg[d] = "$" /\ arg[d + 1] = "$"
      BY <1>2, <1>8, <2>1, <2>4 DEF InReference
    <3> QED
      BY <2>4, <3>1, Zenon DEF ExpandAt
  <2>7. s.out \o (<<c>> \o f[e + 1]) = f[1]
    BY <1>8, <2>1, <2>4, <2>5, <2>6 DEF InReference
  <2>8. r.out \o f[e + 1] = f[1]
    <3> DEFINE u == s.out
               v == f[e + 1]
    <3>1. u \in Seq(Part) /\ v \in Seq(Part)
      BY <1>3, <1>4
    <3> HIDE DEF u, v
    <3>2. Append(u, c) \o v = u \o (<<c>> \o v)
      BY <1>2, <3>1, Shift
    <3> QED
      BY <2>2, <2>7, <3>2 DEF u, v
  <2>9. r.index = 0
    <3>1. d \in d..Len(arg) /\ \A k \in (d + 1)..d : arg[k] \in DOMAIN Digits
      BY <1>1, <2>4
    <3>2. Number(SubSeq(arg, d + 1, d)) = 0
      BY <2>4, <3>1, RunGrows
    <3> QED
      BY <2>1, <2>2, <2>3, <3>2 DEF InReference
  <2>10. Along(arg, f, r, e)
    BY <1>6, <2>2, <2>8, <2>9 DEF Along
  <2> QED
    BY <2>10 DEF e
<1>9. CASE c # "$" /\ s.matching /\ c \in DOMAIN Digits
  <2>1. PICK d \in 1..i : InReference(arg, f, s, i, d)
    BY <1>9 DEF Along
  <2>2. r.matching = s.matching /\ r.out = s.out /\ r.index = s.index * 10 + Digits[c]
    BY <1>6, <1>9 DEF Converted
  <2>3. d \in 1..Len(arg) /\ i \in d..Len(arg) /\ d \in 1..e /\ i + 1 <= Len(arg)
    BY <1>1
  <2>4. arg[i + 1] \in DOMAIN Digits
    BY <1>1, <1>2, <1>9
  <2>5. \A k \in (d + 1)..i : arg[k] \in DOMAIN Digits
    BY <2>1 DEF InReference
  <2>6. Number(SubSeq(arg, d + 1, i + 1)) = Number(SubSeq(arg, d + 1, i)) * 10 + Digits[arg[i + 1]]
    BY <2>3, <2>4, <2>5, RunGrows
  <2>7. r.index = Number(SubSeq(arg, d + 1, e))
    BY <1>1, <1>2, <2>1, <2>2, <2>6 DEF InReference
  <2>8. \A k \in (d + 1)..e : arg[k] \in DOMAIN Digits
    <3>1. \A k \in (d + 1)..e : k \in (d + 1)..i \/ k = e
      BY <1>1
    <3> QED
      BY <1>1, <2>4, <2>5, <3>1
  <2>9. InReference(arg, f, r, e, d)
    BY <2>1, <2>2, <2>3, <2>7, <2>8 DEF InReference
  <2>10. Along(arg, f, r, e)
    BY <1>6, <1>9, <2>2, <2>3, <2>9 DEF Along
  <2> QED
    BY <2>10 DEF e
<1>10. CASE c # "$" /\ ~(s.matching /\ c \in DOMAIN Digits)
  <2> DEFINE w == WriteMatch(matches, s)
  <2>1. r.matching = FALSE /\ r.out = Append(w.out, c) /\ r.index = w.index
    BY <1>6, <1>10 DEF Converted
  <2>2. f[e] = <<c>> \o f[e + 1]
    <3>1. ExpandAt(matches, arg, f, e) = <<arg[e]>> \o f[e + 1]
      BY <1>1, <1>2, <1>10, Zenon DEF ExpandAt
    <3> QED
      BY <1>2, <1>4, <3>1
  <2>3. w.out \in Seq(Part) /\ w.index = 0 /\ w.out \o f[e] = f[1]
    <3>1. CASE ~s.matching
      <4>1. w = s /\ s.index = 0 /\ s.out \o f[e] = f[1]
        BY <1>1, <1>2, <3>1, WriteMatchIs DEF Along
      <4> HIDE DEF w
      <4> QED
        BY <1>3, <4>1
    <3>2. CASE s.matching
      <4>1. PICK d \in 1..i : InReference(arg, f, s, i, d)
        BY <3>2 DEF Along
      <4>2. w.out = s.out \o Group(matches, s.index) /\ w.index = 0 /\ w \in Locals
        BY <1>2, <3>2, WriteMatchIs
      <4>3. i \in 1..Len(arg) /\ arg[i + 1] \notin DOMAIN Digits \cup {"$"}
        BY <1>1, <1>2, <1>10, <3>2
      <4>4. (s.out \o Group(matches, s.index)) \o f[i + 1] = f[1]
        BY <1>2, <4>1, <4>3, ReferenceEnds
      <4> HIDE DEF w
      <4>5. w.out \in Seq(Part)
        BY <4>2 DEF Locals
      <4> QED
        BY <1>1, <4>2, <4>4, <4>5
    <3> QED
      BY <1>3, <3>1, <3>2
  <2> DEFINE u == w.out
             v == f[e + 1]
  <2>4. u \in Seq(Part) /\ v \in Seq(Part) /\ u \o (<<c>> \o v) = f[1]
    BY <1>4, <2>2, <2>3
  <2>5. r.out = Append(u, c)
    BY <2>1
  <2> HIDE DEF u, v, w
  <2>6. Append(u, c) \o v = u \o (<<c>> \o v)
    BY <1>2, <2>4, Shift
  <2>7. r.out \o f[e + 1] = f[1]
    BY <2>4, <2>5, <2>6 DEF v
  <2>8. Along(arg, f, r, e)
    BY <1>6, <2>1, <2>3, <2>7 DEF Along
  <2> QED
    BY <2>8 DEF e
<1> QED
  BY <1>3, <1>7, <1>8, <1>9, <1>10

\* convertArgs gives what a template means.
LEMMA ConvertArgsIsExpansion ==
    ASSUME NEW matches \in Seq(Captures), NEW arg \in Seq(Chars), Separated(arg)
    PROVE  ConvertArgs(matches, arg) = Expansion(matches, arg)
<1> DEFINE n == Len(arg)
<1>1. n \in Nat /\ arg \in [1..n -> Chars]
  OBVIOUS
<1>2. PICK f : Expands(matches, arg, f, Len(arg) + 2) /\ Expansion(matches, arg) = f[1]
  BY ExpansionIs
<1>3. PICK v \in [0..n -> Locals] :
          /\ v[0] = Start
          /\ \A i \in 0..(n - 1) : v[i + 1] = ConvertChar(matches, v[i], arg[i + 1])
          /\ ConvertArgs(matches, arg) = WriteMatch(matches, v[n]).out
  <2> HIDE DEF n
  <2> QED
    BY <1>1, ConvertSteps
<1>4. \A i \in 1..(n + 2) : f[i] \in Seq(Part) /\ f[i] = ExpandAt(matches, arg, f, i)
  BY <1>1, <1>2 DEF Expands
<1> DEFINE T == {i \in Nat : i <= n => Along(arg, f, v[i], i)}
<1>5. 0 \in T
  <2>1. Start \in Locals /\ Start.matching = FALSE /\ Start.index = 0 /\ Start.out = <<>>
    <3>1. <<>> \in Seq(Part) /\ 0 \in Nat
      OBVIOUS
    <3> QED
      BY <3>1 DEF Start, Locals
  <2>2. f[1] \in Seq(Part)
    BY <1>1, <1>4
  <2>3. <<>> \o f[1] = f[1]
    BY <2>2, ConcatEmptySeq
  <2>4. 0 + 1 = 1
    OBVIOUS
  <2>5. Along(arg, f, Start, 0)
    BY <2>1, <2>3, <2>4 DEF Along
  <2> QED
    BY <1>3, <2>5
<1>6. ASSUME NEW i \in Nat, i \in T
      PROVE  i + 1 \in T
  <2>1. SUFFICES ASSUME i + 1 <= n PROVE Along(arg, f, v[i + 1], i + 1)
    OBVIOUS
  <2>2. i \in 0..(Len(arg) - 1) /\ Along(arg, f, v[i], i)
    BY <1>1, <1>6, <2>1
  <2>3. v[i + 1] = ConvertChar(matches, v[i], arg[i + 1])
    BY <1>3, <2>2
  <2> QED
    BY <1>2, <2>2, <2>3, AlongStep
<1>7. Along(arg, f, v[n], n)
  <2> HIDE DEF T
  <2>1. \A i \in Nat : i \in T
    BY <1>5, <1>6, NaturalsIn
  <2> QED
    BY <1>1, <2>1 DEF T
<1> DEFINE s == v[n]
<1>8. s \in Locals /\ f[n + 1] = <<>>
  <2>1. n + 1 \in 1..(n + 2) /\ n + 1 > Len(arg) /\ n \in 0..n
    BY <1>1
  <2> QED
    BY <1>3, <1>4, <2>1 DEF ExpandAt
<1>9. WriteMatch(matches, s).out \o <<>> = f[1]
  <2>1. CASE ~s.matching
    BY <1>7, <1>8, <2>1, WriteMatchIs DEF Along
  <2>2. CASE s.matching
    <3>1. PICK d \in 1..n : InReference(arg, f, s, n, d)
      BY <1>7, <2>2 DEF Along
    <3>2. n \in 1..Len(arg) /\ n = Len(arg)
      BY <1>1
    <3> HIDE DEF s, n
    <3>3. (s.out \o Group(matches, s.index)) \o f[n + 1] = f[1]
      BY <1>2, <1>8, <3>1, <3>2, ReferenceEnds
    <3> QED
      BY <1>8, <2>2, <3>3, WriteMatchIs
  <2> QED
    BY <2>1, <2>2
<1>10. WriteMatch(matches, s).out \in Seq(Part)
  <2>1. WriteMatch(matches, s) \in Locals
    BY <1>8, WriteMatchIs
  <2> QED
    BY <2>1 DEF Locals
<1>11. WriteMatch(matches, s).out \o <<>> = WriteMatch(matches, s).out
  BY <1>10, ConcatEmptySeq
<1> QED
  BY <1>2, <1>3, <1>9, <1>11

\* The words of a command after the first.
LEMMA ArgvIs ==
    ASSUME NEW rule \in Rule, NEW line \in Line, NEW k \in 1..Len(rule.args)
    PROVE  Argv(rule, line)[k + 1] = ConvertArgs(Matches(rule, line), rule.args[k])
<1> DEFINE n == Len(rule.args)
           first == ConvertArg(Matches(rule, line), rule.command)
           word(i) == ConvertArgs(Matches(rule, line), rule.args[i])
           S == {first} \cup {word(i) : i \in 1..n}
           u == <<first>>
           v == [i \in 1..n |-> word(i)]
<1>1. n \in Nat
  BY DEF Rule
<1>2. Argv(rule, line) = u \o v
  BY DEF Argv
<1>3. v[k] = word(k)
  OBVIOUS
<1>4. u \in Seq(S) /\ Len(u) = 1
  <2>1. first \in S
    OBVIOUS
  <2> HIDE DEF first, S
  <2> QED
    BY <2>1
<1>5. v \in Seq(S) /\ Len(v) = n
  <2>1. \A i \in 1..n : word(i) \in S
    OBVIOUS
  <2> HIDE DEF word, S, n
  <2> QED
    BY <1>1, <2>1
<1> HIDE DEF u, v, S, word
<1>6. (u \o v)[k + 1] = v[k]
  <2>1. u \in Seq(S) /\ v \in Seq(S)
    BY <1>4, <1>5
  <2>2. /\ u \o v \in Seq(S) /\ Len(u \o v) = Len(u) + Len(v)
        /\ \A i \in 1..(Len(u) + Len(v)) :
              (u \o v)[i] = IF i <= Len(u) THEN u[i] ELSE v[i - Len(u)]
    BY <2>1, ConcatProperties
  <2>3. k + 1 \in 1..(1 + n) /\ ~(k + 1 <= 1) /\ (k + 1) - 1 = k
    BY <1>1
  <2> HIDE DEF n
  <2> QED
    BY <1>4, <1>5, <2>2, <2>3
<1> QED
  BY <1>2, <1>3, <1>6 DEF word

LEMMA CommandsSubstitute == CommandsFound => ArgumentsSubstituted
<1> SUFFICES ASSUME CommandsFound, NEW n \in 1..Len(commands),
                    NEW k \in 1..Len(commands[n].rule.args), Separated(commands[n].rule.args[k])
             PROVE  commands[n].argv[k + 1] =
                        Expansion(Matches(commands[n].rule, commands[n].line), commands[n].rule.args[k])
  BY DEF ArgumentsSubstituted
<1>1. PICK pair \in Pair : commands[n] = CommandOf(pair)
  BY DEF CommandsFound, Command
<1> DEFINE rule == pair.rule
           line == pair.line
<1>2. commands[n].rule = rule /\ commands[n].line = line /\ commands[n].argv = Argv(rule, line)
  BY <1>1 DEF CommandOf
<1>3. rule \in Rule /\ line \in Line
  BY DEF Pair
<1> HIDE DEF rule, line
<1> DEFINE arg == rule.args[k]
           matches == Matches(rule, line)
<1>4. k \in 1..Len(rule.args) /\ Separated(arg)
  BY <1>2
<1>5. matches \in Seq(Captures) /\ arg \in Seq(Chars)
  BY <1>3, <1>4 DEF Matches, Rule, Line
<1>6. Argv(rule, line)[k + 1] = ConvertArgs(matches, arg)
  BY <1>3, <1>4, ArgvIs
<1> HIDE DEF arg, matches
<1>7. ConvertArgs(matches, arg) = Expansion(matches, arg)
  BY <1>4, <1>5, ConvertArgsIsExpansion
<1> QED
  BY <1>2, <1>6, <1>7 DEF arg, matches

\* Every argument of a command is what its template means, if no `$` follows a reference in
\* it at once (convertArgs).
THEOREM ArgumentsSubstitutedHolds == Spec => []ArgumentsSubstituted
<1>1. Spec => []CommandsFound
  BY InitCommands, NextCommands, PTL DEF Spec
<1> QED
  BY <1>1, CommandsSubstitute, PTL

===============================================================================
