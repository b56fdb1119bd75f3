---------------------------- MODULE Folds_proofs ----------------------------
(***************************************************************************)
(* What programs compute by passing over a list or a set: why no time of   *)
(* the screen is counted twice, why the texts of a mail are kept, its      *)
(* reader view is well formed and its saved copy settles, why a listing of *)
(* the networks shows each once, as it is in the air, and why the          *)
(* Explorer's helper answers with the files opened last and with every     *)
(* application that opens a file.                                          *)
(*                                                                         *)
(* A sample of the screen time is added to the bucket of each day that it  *)
(* touches, to the bucket of one window and to the total, so what has to   *)
(* be shown is about sums over finite sets: that the portions of the days  *)
(* add up to the sample, and that the sum of a function grows by what is   *)
(* added to it at one point, or at all of them. The bodies of a mail are   *)
(* handled token by token and line by line, a listing access point by      *)
(* access point and a line of it character by character, recent files      *)
(* access by access, and what has to be shown is what each prefix leaves.  *)
(* Of sources that are cut before they are merged it is that what is cut   *)
(* off is older than as many other files as are shown. Sums and passes     *)
(* over a list are folds that the libraries prove nothing of. They are     *)
(* unfolded here, and what would be shown by induction is shown of a       *)
(* smallest set, or a shortest prefix, for which it fails.                 *)
(***************************************************************************)
EXTENDS ScreenTime, MailBody, Network, ExplorerQueries,
        FiniteSetTheorems, SequenceTheorems, WellFoundedInduction, TLAPS

(***************************************************************************)
(* Sums over finite sets.                                                  *)
(***************************************************************************)
\* A set of natural numbers has a least one, ...
LEMMA LeastNumber ==
    ASSUME NEW S, S \subseteq Nat, S # {}
    PROVE  \E d \in S : \A e \in S : d <= e
  <1> DEFINE R == OpToRel(<, Nat)
  <1>1. R = {ss \in Nat \X Nat : ss[1] < ss[2]}
    BY DEF OpToRel
  <1>2. IsWellFoundedOn(R, Nat)
    BY NatLessThanWellFounded
  <1> HIDE DEF R
  <1>3. PICK d \in S : \A e \in S : <<e, d>> \notin R
    BY <1>2, WFMin
  <1>4. ASSUME NEW e \in S PROVE d <= e
    <2>1. d \in Nat /\ e \in Nat /\ <<e, d>> \in Nat \X Nat
      OBVIOUS
    <2>2. ~ (e < d)
      BY <1>1, <1>3, <2>1
    <2> QED  BY <2>1, <2>2
  <1> QED  BY <1>3, <1>4

\* ... and among subsets of a finite set there is one that is in the set no more when any
\* element leaves it: what holds of a set whenever it holds of it without each element,
\* holds of all.
LEMMA SmallestSet ==
    ASSUME NEW S, IsFiniteSet(S), NEW B, B \subseteq SUBSET S, B # {}
    PROVE  \E s \in B : \A x \in s : s \ {x} \notin B
  <1>1. \A s \in B : IsFiniteSet(s) /\ Cardinality(s) \in Nat
    BY FS_Subset, FS_CardinalityType
  <1> DEFINE N == {Cardinality(s) : s \in B}
  <1>2. PICK n \in N : \A m \in N : n <= m
    <2>1. N \subseteq Nat /\ N # {}
      BY <1>1
    <2> HIDE DEF N
    <2> QED  BY <2>1, LeastNumber
  <1>3. PICK s \in B : Cardinality(s) = n
    BY <1>2
  <1>4. ASSUME NEW x \in s, s \ {x} \in B PROVE FALSE
    <2>1. Cardinality(s \ {x}) = Cardinality(s) - 1
      BY <1>1, FS_RemoveElement
    <2>2. Cardinality(s) <= Cardinality(s \ {x})
      BY <1>2, <1>3, <1>4
    <2> QED  BY <1>1, <2>1, <2>2
  <1> QED  BY <1>3, <1>4

\* The element of a set that a fold takes away first.
Chosen(s) == CHOOSE x \in s : TRUE
\* T has the sum of g over every subset of S.
Sums(g, S, T) ==
    T = [s \in SUBSET S |-> IF s = {} THEN 0 ELSE g[Chosen(s)] + T[s \ {Chosen(s)}]]

\* SumOver takes one element after the other away.
LEMMA SumsExist ==
    ASSUME NEW g, NEW S, IsFiniteSet(S)
    PROVE  \E T : Sums(g, S, T) /\ SumOver(g, S) = T[S]
  <1> DEFINE Small(n) == {s \in SUBSET S : Cardinality(s) <= n}
             Value(T, s) == IF s = {} THEN 0 ELSE g[Chosen(s)] + T[s \ {Chosen(s)}]
             Upto(n, T) == T = [s \in Small(n) |-> Value(T, s)]
             Bad == {n \in Nat : ~ \E T : Upto(n, T)}
  <1>1. \A s \in SUBSET S : IsFiniteSet(s) /\ Cardinality(s) \in Nat
    BY FS_Subset, FS_CardinalityType
  <1>2. \A s \in SUBSET S : s # {} =>
          Chosen(s) \in s /\ s \ {Chosen(s)} \in SUBSET S
            /\ Cardinality(s \ {Chosen(s)}) = Cardinality(s) - 1
    BY <1>1, FS_RemoveElement DEF Chosen
  <1>3. Bad = {}
    <2> SUFFICES ASSUME Bad # {} PROVE FALSE
      OBVIOUS
    <2>1. PICK n \in Bad : \A m \in Bad : n <= m
      <3>1. Bad \subseteq Nat
        OBVIOUS
      <3> HIDE DEF Bad
      <3> QED  BY <3>1, LeastNumber
    <2>2. CASE n = 0
      <3> DEFINE T == [s \in Small(0) |-> 0]
      <3>1. \A s \in Small(0) : s = {}
        BY <1>1, FS_EmptySet
      <3>2. T = [s \in Small(0) |-> Value(T, s)]
        BY <3>1
      <3> QED  BY <2>1, <2>2, <3>2
    <2>3. CASE n # 0
      <3>1. n - 1 \in Nat /\ n - 1 \notin Bad
        <4>1. n \in Nat /\ n - 1 \in Nat /\ ~ (n <= n - 1)
          BY <2>1, <2>3
        <4> HIDE DEF Bad
        <4> QED  BY <2>1, <4>1
      <3>2. PICK T : Upto(n - 1, T)
        BY <3>1
      <3> DEFINE U == [s \in Small(n) |-> Value(T, s)]
      <3>3. \A s \in Small(n) : s # {} => s \ {Chosen(s)} \in Small(n - 1)
        BY <1>1, <1>2, <3>1
      <3>4. Small(n - 1) \subseteq Small(n)
        BY <1>1, <3>1
      <3>5. \A s \in Small(n - 1) : U[s] = T[s]
        BY <3>2, <3>4
      <3>6. \A s \in Small(n) : Value(U, s) = Value(T, s)
        <4> HIDE DEF Small, U
        <4> QED  BY <3>3, <3>5
      <3>7. Upto(n, U)
        <4> HIDE DEF Small, Value
        <4> QED  BY <3>6
      <3> QED  BY <2>1, <3>7
    <2> QED  BY <2>2, <2>3
  <1>4. PICK T : Upto(Cardinality(S), T)
    BY <1>1, <1>3
  <1>5. Small(Cardinality(S)) = SUBSET S
    BY FS_Subset
  <1>6. Sums(g, S, T)
    BY <1>4, <1>5 DEF Sums
  <1> DEFINE C == CHOOSE U : Sums(g, S, U)
  <1>7. Sums(g, S, C)
    BY <1>6
  <1>8. SumOver(g, S) = C[S]
    BY DEF SumOver, MapThenSumSet, MapThenFoldSet, Chosen, Sums
  <1> HIDE DEF C
  <1> QED  BY <1>7, <1>8

\* What T has, written out.
LEMMA SumsUnfold ==
    ASSUME NEW g, NEW S, NEW T, Sums(g, S, T)
    PROVE  /\ T[{}] = 0
           /\ \A s \in SUBSET S : s # {} =>
                /\ Chosen(s) \in s
                /\ T[s] = g[Chosen(s)] + T[s \ {Chosen(s)}]
  BY DEF Sums, Chosen

\* A sum of natural numbers is one.
LEMMA SumsAreNumbers ==
    ASSUME NEW g, NEW S, IsFiniteSet(S), NEW T, Sums(g, S, T), \A x \in S : g[x] \in Nat
    PROVE  \A s \in SUBSET S : T[s] \in Nat
  <1> DEFINE B == {s \in SUBSET S : T[s] \notin Nat}
  <1> SUFFICES ASSUME B # {} PROVE FALSE
    OBVIOUS
  <1>1. PICK s \in B : \A x \in s : s \ {x} \notin B
    BY SmallestSet
  <1>0. T[{}] = 0
    BY SumsUnfold
  <1>2. s # {}
    BY <1>0, <1>1
  <1>3. Chosen(s) \in s /\ T[s] = g[Chosen(s)] + T[s \ {Chosen(s)}]
    <2>1. s \in SUBSET S
      BY <1>1
    <2>2. \A r \in SUBSET S : r # {} =>
            Chosen(r) \in r /\ T[r] = g[Chosen(r)] + T[r \ {Chosen(r)}]
      <3> HIDE DEF B
      <3> QED  BY SumsUnfold
    <2> QED  BY <1>2, <2>1, <2>2
  <1>4. T[s \ {Chosen(s)}] \in Nat
    BY <1>1, <1>3
  <1>5. g[Chosen(s)] \in Nat
    BY <1>1, <1>3
  <1> QED  BY <1>1, <1>3, <1>4, <1>5

\* Any element may be taken away first.
LEMMA SumsRemove ==
    ASSUME NEW g, NEW S, IsFiniteSet(S), NEW T, Sums(g, S, T), \A x \in S : g[x] \in Nat
    PROVE  \A s \in SUBSET S : \A x \in s : T[s] = g[x] + T[s \ {x}]
  <1> DEFINE P(s) == \A x \in s : T[s] = g[x] + T[s \ {x}]
             B == {s \in SUBSET S : ~P(s)}
  <1> SUFFICES ASSUME B # {} PROVE FALSE
    OBVIOUS
  <1>1. PICK s \in B : \A x \in s : s \ {x} \notin B
    BY SmallestSet
  <1>2. PICK x \in s : T[s] # g[x] + T[s \ {x}]
    BY <1>1
  <1> DEFINE c == Chosen(s)
  <1>3. c \in s /\ T[s] = g[c] + T[s \ {c}]
    BY <1>1, <1>2, SumsUnfold
  <1> HIDE DEF c
  <1>4. x # c
    BY <1>2, <1>3
  <1>5. T[s \ {c}] = g[x] + T[(s \ {c}) \ {x}]
    BY <1>1, <1>3, <1>4
  <1>6. T[s \ {x}] = g[c] + T[(s \ {x}) \ {c}]
    BY <1>1, <1>3, <1>4
  <1>7. (s \ {c}) \ {x} = (s \ {x}) \ {c}
    OBVIOUS
  <1>8. T[(s \ {x}) \ {c}] \in Nat /\ g[x] \in Nat /\ g[c] \in Nat
    <2>1. (s \ {x}) \ {c} \in SUBSET S
      BY <1>1
    <2> QED  BY <1>1, <1>2, <1>3, <2>1, SumsAreNumbers
  <1> DEFINE w == T[(s \ {x}) \ {c}]
  <1>9. T[s] = g[c] + (g[x] + w) /\ T[s \ {x}] = g[c] + w
    BY <1>3, <1>5, <1>6, <1>7
  <1>10. g[c] + (g[x] + w) = g[x] + (g[c] + w)
    BY <1>8
  <1> HIDE DEF w
  <1> QED  BY <1>2, <1>9, <1>10

\* So may the last number of an interval.
LEMMA SumsShrink ==
    ASSUME NEW n \in Nat, NEW g, NEW T, Sums(g, 0..n, T), \A d \in 0..n : g[d] \in Nat,
           NEW k \in 0..n
    PROVE  T[0..k] = g[k] + T[(0..k) \ {k}]
  <1> DEFINE S == 0..n
             R == 0..k
             x == k
  <1>1. IsFiniteSet(S)
    <2>1. 0 \in Int /\ n \in Int
      OBVIOUS
    <2> QED  BY <2>1, FS_Interval
  <1>2. R \in SUBSET S /\ x \in R
    OBVIOUS
  <1>3. Sums(g, S, T) /\ \A d \in S : g[d] \in Nat
    OBVIOUS
  <1> HIDE DEF S, R, x
  <1>4. T[R] = g[x] + T[R \ {x}]
    BY <1>1, <1>2, <1>3, SumsRemove
  <1> QED  BY <1>4 DEF R, x

\* The sum of two functions is the sum of their sums.
LEMMA SumsAdd ==
    ASSUME NEW g, NEW h, NEW k, NEW S, IsFiniteSet(S), NEW T, Sums(g, S, T),
           NEW U, Sums(h, S, U), NEW V, Sums(k, S, V),
           \A x \in S : g[x] \in Nat /\ h[x] \in Nat /\ k[x] = g[x] + h[x]
    PROVE  \A s \in SUBSET S : V[s] = T[s] + U[s]
  <1> DEFINE B == {s \in SUBSET S : V[s] # T[s] + U[s]}
  <1> SUFFICES ASSUME B # {} PROVE FALSE
    OBVIOUS
  <1>1. PICK s \in B : \A x \in s : s \ {x} \notin B
    BY SmallestSet
  <1>0. T[{}] = 0 /\ U[{}] = 0 /\ V[{}] = 0
    <2> HIDE DEF B
    <2> QED  BY SumsUnfold
  <1>2. s # {} /\ s \in SUBSET S
    <2>1. s \in SUBSET S /\ V[s] # T[s] + U[s]
      BY <1>1
    <2>2. T[{}] + U[{}] = 0
      BY <1>0
    <2>3. s # {}
      BY <1>0, <2>1, <2>2
    <2> QED  BY <2>1, <2>3
  <1> DEFINE c == Chosen(s)
  <1>3. /\ c \in s
        /\ T[s] = g[c] + T[s \ {c}] /\ U[s] = h[c] + U[s \ {c}] /\ V[s] = k[c] + V[s \ {c}]
    <2> HIDE DEF B
    <2>1. c \in s /\ T[s] = g[c] + T[s \ {c}]
      <3>1. \A r \in SUBSET S : r # {} =>
              Chosen(r) \in r /\ T[r] = g[Chosen(r)] + T[r \ {Chosen(r)}]
        BY ONLY Sums(g, S, T), SumsUnfold
      <3> QED  BY <1>2, <3>1
    <2>2. U[s] = h[c] + U[s \ {c}]
      BY <1>2, SumsUnfold
    <2>3. V[s] = k[c] + V[s \ {c}]
      <3>1. \A r \in SUBSET S : r # {} =>
              Chosen(r) \in r /\ V[r] = k[Chosen(r)] + V[r \ {Chosen(r)}]
        BY ONLY Sums(k, S, V), SumsUnfold
      <3> QED  BY <1>2, <3>1
    <2> QED  BY <2>1, <2>2, <2>3
  <1> HIDE DEF c
  <1>4. V[s \ {c}] = T[s \ {c}] + U[s \ {c}]
    BY <1>1, <1>3
  <1>5. g[c] \in Nat /\ h[c] \in Nat /\ k[c] = g[c] + h[c]
    BY <1>1, <1>3
  <1>6. T[s \ {c}] \in Nat /\ U[s \ {c}] \in Nat
    <2>1. s \ {c} \in SUBSET S
      BY <1>1
    <2> QED  BY <2>1, SumsAreNumbers
  <1> QED  BY <1>1, <1>3, <1>4, <1>5, <1>6

\* So it is for SumOver: of nothing, ...
LEMMA SumOfNothing ==
    ASSUME NEW g, NEW S, IsFiniteSet(S), \A x \in S : g[x] = 0
    PROVE  SumOver(g, S) = 0
  <1>1. PICK T : Sums(g, S, T) /\ SumOver(g, S) = T[S]
    BY SumsExist
  <1> DEFINE B == {s \in SUBSET S : T[s] # 0}
  <1> SUFFICES ASSUME B # {} PROVE FALSE
    BY <1>1
  <1>2. PICK s \in B : \A x \in s : s \ {x} \notin B
    BY SmallestSet
  <1>3. s # {}
    BY <1>1, <1>2, SumsUnfold
  <1>4. Chosen(s) \in s /\ T[s] = g[Chosen(s)] + T[s \ {Chosen(s)}]
    <2>1. s \in SUBSET S
      BY <1>2
    <2> HIDE DEF B
    <2> QED  BY <1>1, <1>3, <2>1, SumsUnfold
  <1> QED  BY <1>2, <1>4

\* ... of two functions, ...
LEMMA SumOfBoth ==
    ASSUME NEW g, NEW h, NEW k, NEW S, IsFiniteSet(S),
           \A x \in S : g[x] \in Nat /\ h[x] \in Nat /\ k[x] = g[x] + h[x]
    PROVE  SumOver(k, S) = SumOver(g, S) + SumOver(h, S)
  <1>1. PICK T : Sums(g, S, T) /\ SumOver(g, S) = T[S]
    BY SumsExist
  <1>2. PICK U : Sums(h, S, U) /\ SumOver(h, S) = U[S]
    BY SumsExist
  <1>3. PICK V : Sums(k, S, V) /\ SumOver(k, S) = V[S]
    BY SumsExist
  <1> QED  BY <1>1, <1>2, <1>3, SumsAdd

\* ... and of one element.
LEMMA SumOfOne ==
    ASSUME NEW g, NEW S, IsFiniteSet(S), NEW x \in S, g[x] \in Nat,
           \A y \in S \ {x} : g[y] = 0
    PROVE  SumOver(g, S) = g[x]
  <1>1. PICK T : Sums(g, S, T) /\ SumOver(g, S) = T[S]
    BY SumsExist
  <1>2. T[S] = g[x] + T[S \ {x}]
    BY <1>1, SumsRemove
  <1> DEFINE B == {s \in SUBSET (S \ {x}) : T[s] # 0}
  <1>3. B = {}
    <2> SUFFICES ASSUME B # {} PROVE FALSE
      OBVIOUS
    <2>1. IsFiniteSet(S \ {x}) /\ B \subseteq SUBSET (S \ {x})
      BY FS_RemoveElement
    <2>2. PICK s \in B : \A y \in s : s \ {y} \notin B
      <3> HIDE DEF B
      <3> QED  BY <2>1, SmallestSet
    <2>3. s \in SUBSET S /\ s # {}
      BY <1>1, <2>2, SumsUnfold
    <2>4. Chosen(s) \in s /\ T[s] = g[Chosen(s)] + T[s \ {Chosen(s)}]
      BY <1>1, <2>3, SumsUnfold
    <2> QED  BY <2>2, <2>4
  <1>4. T[S \ {x}] = 0
    BY <1>3
  <1> QED  BY <1>1, <1>2, <1>4

(***************************************************************************)
(* The time that falls on each day.                                        *)
(***************************************************************************)
\* The larger and the smaller of two numbers.
LEMMA OfTwo ==
    ASSUME NEW x \in Int, NEW y \in Int
    PROVE  /\ Max({x, y}) = IF x >= y THEN x ELSE y
           /\ Min({x, y}) = IF x <= y THEN x ELSE y
  <1>1. \A z \in {x, y} : (\A w \in {x, y} : z >= w) => z = IF x >= y THEN x ELSE y
    OBVIOUS
  <1>2. \E z \in {x, y} : \A w \in {x, y} : z >= w
    OBVIOUS
  <1>3. \A z \in {x, y} : (\A w \in {x, y} : z <= w) => z = IF x <= y THEN x ELSE y
    OBVIOUS
  <1>4. \E z \in {x, y} : \A w \in {x, y} : z <= w
    OBVIOUS
  <1>5. Max({x, y}) = IF x >= y THEN x ELSE y
    BY <1>1, <1>2 DEF Max
  <1>6. Min({x, y}) = IF x <= y THEN x ELSE y
    BY <1>3, <1>4 DEF Min
  <1> QED  BY <1>5, <1>6

\* A day begins where the one before ends.
LEMMA DayBounds ==
    ASSUME ClocksCount, NEW d \in Nat
    PROVE  /\ d * DayLength \in Nat /\ (d + 1) * DayLength \in Nat
           /\ (d + 1) * DayLength = d * DayLength + DayLength
           /\ d * DayLength < (d + 1) * DayLength
  <1>1. DayLength \in Nat /\ DayLength > 0
    BY DEF ClocksCount
  <1>2. d * DayLength \in Nat
    BY <1>1
  <1>3. (d + 1) * DayLength = d * DayLength + DayLength
    BY <1>1
  <1> QED  BY <1>1, <1>2, <1>3

\* How long the interval from s to e overlaps that from a to b.
Overlap(s, e, a, b) ==
    LET lo == IF s >= a THEN s ELSE a
        hi == IF e <= b THEN e ELSE b
    IN  IF 0 >= hi - lo THEN 0 ELSE hi - lo

\* The portion of a day, without the sets.
LEMMA PortionIs ==
    ASSUME ClocksCount, NEW d \in Nat, NEW s \in Nat, NEW e \in Nat
    PROVE  Portion(d, s, e) = Overlap(s, e, d * DayLength, (d + 1) * DayLength)
  <1> DEFINE a == d * DayLength
             b == (d + 1) * DayLength
             lo == IF s >= a THEN s ELSE a
             hi == IF e <= b THEN e ELSE b
  <1>1. a \in Nat /\ b \in Nat
    BY DayBounds
  <1>2. Portion(d, s, e) = Max({0, Min({e, b}) - Max({s, a})})
    BY DEF Portion
  <1>3. Overlap(s, e, a, b) = IF 0 >= hi - lo THEN 0 ELSE hi - lo
    BY DEF Overlap
  <1> HIDE DEF a, b
  <1>4. Max({s, a}) = lo /\ Min({e, b}) = hi
    <2>1. s \in Int /\ e \in Int /\ a \in Int /\ b \in Int
      BY <1>1
    <2>2. Max({s, a}) = IF s >= a THEN s ELSE a
      BY ONLY <2>1, OfTwo
    <2>3. Min({e, b}) = IF e <= b THEN e ELSE b
      BY ONLY <2>1, OfTwo
    <2> QED  BY <2>2, <2>3
  <1>5. lo \in Int /\ hi \in Int
    BY <1>1
  <1> HIDE DEF lo, hi
  <1>6. Max({0, hi - lo}) = IF 0 >= hi - lo THEN 0 ELSE hi - lo
    BY <1>5, OfTwo
  <1>7. Portion(d, s, e) = Overlap(s, e, a, b)
    BY <1>2, <1>3, <1>4, <1>6
  <1> QED  BY <1>7 DEF a, b

\* Portions are numbers, and those of two intervals that meet add up.
LEMMA PortionsAdd ==
    ASSUME ClocksCount, NEW d \in Nat, NEW s \in Nat, NEW e \in Nat, s <= e
    PROVE  /\ Portion(d, s, e) \in Nat /\ Portion(d, 0, s) \in Nat /\ Portion(d, 0, e) \in Nat
           /\ Portion(d, 0, s) + Portion(d, s, e) = Portion(d, 0, e)
  <1> DEFINE a == d * DayLength  b == (d + 1) * DayLength
  <1>1. a \in Nat /\ b \in Nat /\ a < b
    BY DayBounds
  <1>2. /\ Portion(d, s, e) = Overlap(s, e, a, b) /\ Portion(d, 0, s) = Overlap(0, s, a, b)
        /\ Portion(d, 0, e) = Overlap(0, e, a, b)
    BY PortionIs
  <1> HIDE DEF a, b
  <1>3. /\ Overlap(s, e, a, b) \in Nat /\ Overlap(0, s, a, b) \in Nat
        /\ Overlap(0, e, a, b) \in Nat
        /\ Overlap(0, s, a, b) + Overlap(s, e, a, b) = Overlap(0, e, a, b)
    BY <1>1 DEF Overlap
  <1> QED  BY <1>2, <1>3

\* The portions of the first days add up to what of the interval lies in them.
LEMMA FirstDaysAddUp ==
    ASSUME ClocksCount, NEW n \in Nat, NEW s \in Nat, NEW e \in Nat, s <= e,
           e <= (n + 1) * DayLength
    PROVE  SumOver([d \in 0..n |-> Portion(d, s, e)], 0..n) = e - s
  <1> DEFINE g == [d \in 0..n |-> Portion(d, s, e)]
             end(k) == (k + 1) * DayLength
             Left(x, k) == IF x <= end(k) THEN x ELSE end(k)
  <1>0. IsFiniteSet(0..n) /\ \A d \in 0..n : g[d] \in Nat /\ g[d] = Portion(d, s, e)
    <2>1. 0 \in Int /\ n \in Int
      OBVIOUS
    <2>2. IsFiniteSet(0..n)
      BY <2>1, FS_Interval
    <2>3. ASSUME NEW d \in 0..n PROVE g[d] \in Nat /\ g[d] = Portion(d, s, e)
      <3>1. d \in Nat /\ g[d] = Portion(d, s, e)
        OBVIOUS
      <3> QED  BY <3>1, PortionsAdd
    <2> QED  BY <2>2, <2>3
  <1> HIDE DEF g
  <1>1. PICK T : Sums(g, 0..n, T) /\ SumOver(g, 0..n) = T[0..n]
    BY <1>0, SumsExist
  <1>2. T[{}] = 0 /\ \A k \in 0..n : T[0..k] = g[k] + T[(0..k) \ {k}]
    BY <1>0, <1>1, SumsShrink, SumsUnfold
  <1> DEFINE Bad == {k \in 0..n : T[0..k] # Left(e, k) - Left(s, k)}
  <1>3. Bad = {}
    <2> SUFFICES ASSUME Bad # {} PROVE FALSE
      OBVIOUS
    <2>1. PICK k \in Bad : \A j \in Bad : k <= j
      <3>1. Bad \subseteq Nat
        OBVIOUS
      <3> HIDE DEF Bad
      <3> QED  BY <3>1, LeastNumber
    <2>2. k \in 0..n /\ k \in Nat /\ T[0..k] # Left(e, k) - Left(s, k)
      BY <2>1
    <2>3. T[0..k] = g[k] + T[(0..k) \ {k}]
      <3> HIDE DEF Bad
      <3> QED  BY <1>2, <2>2
    <2> DEFINE a == k * DayLength  b == (k + 1) * DayLength
    <2>4. a \in Nat /\ b \in Nat /\ a < b
      BY <2>2, DayBounds
    <2>5. g[k] = Overlap(s, e, a, b)
      <3>1. g[k] = Portion(k, s, e)
        BY <1>0, <2>2
      <3>2. Portion(k, s, e) = Overlap(s, e, a, b)
        BY <2>2, PortionIs
      <3> QED  BY <3>1, <3>2
    <2>6. T[(0..k) \ {k}] = (IF e <= a THEN e ELSE a) - (IF s <= a THEN s ELSE a)
      <3>1. CASE k = 0
        <4>1. (0..k) \ {k} = {}
          BY <3>1
        <4>2. a = 0
          BY <3>1 DEF ClocksCount
        <4>3. T[(0..k) \ {k}] = 0
          BY <1>2, <4>1
        <4> HIDE DEF a
        <4>4. (IF e <= a THEN e ELSE a) - (IF s <= a THEN s ELSE a) = 0
          BY <4>2
        <4> QED  BY <4>3, <4>4
      <3>2. CASE k # 0
        <4>1. k - 1 \in 0..n /\ ~ (k <= k - 1) /\ (k - 1) + 1 = k
          BY <2>2, <3>2
        <4>2. (0..k) \ {k} = 0..(k - 1)
          BY <2>2, <3>2
        <4>3. k - 1 \notin Bad
          <5> HIDE DEF Bad
          <5> QED  BY <2>1, <4>1
        <4>4. T[0..(k - 1)] = Left(e, k - 1) - Left(s, k - 1) /\ end(k - 1) = a
          BY <4>1, <4>3
        <4> QED  BY <4>2, <4>4
      <3> QED  BY <3>1, <3>2
    <2>7. Left(e, k) = (IF e <= b THEN e ELSE b) /\ Left(s, k) = (IF s <= b THEN s ELSE b)
      OBVIOUS
    <2>8. T[0..k] # (IF e <= b THEN e ELSE b) - (IF s <= b THEN s ELSE b)
      BY <2>2, <2>7
    <2> HIDE DEF a, b, Left, Bad
    <2> QED  BY <2>3, <2>4, <2>5, <2>6, <2>8 DEF Overlap
  <1>4. T[0..n] = Left(e, n) - Left(s, n)
    BY <1>3
  <1>5. Left(e, n) = e /\ Left(s, n) = s
    <2>1. end(n) \in Nat
      BY DayBounds
    <2> HIDE DEF end
    <2> QED  BY <2>1 DEF end
  <1> HIDE DEF Left
  <1> QED  BY <1>1, <1>4, <1>5 DEF g

(***************************************************************************)
(* The record.                                                             *)
(***************************************************************************)
\* There are finitely many days and windows, and the clock stays within the days.
LEMMA DaysAndWindows ==
    ASSUME ClocksCount, IsFiniteSet(Apps)
    PROVE  /\ IsFiniteSet(Days) /\ IsFiniteSet(Windows) /\ Days \subseteq Nat
           /\ \E n \in Nat : Days = 0..n /\ MaxClock <= (n + 1) * DayLength
  <1> DEFINE n == MaxClock \div DayLength
  <1>1. MaxClock \in Nat /\ DayLength \in Nat /\ DayLength > 0
    BY DEF ClocksCount
  <1>2. n \in Nat /\ MaxClock <= (n + 1) * DayLength
    BY <1>1
  <1>3. Days = 0..n
    BY DEF Days
  <1> HIDE DEF n
  <1>4. IsFiniteSet(Days) /\ Days \subseteq Nat
    <2>1. 0 \in Int /\ n \in Int
      BY <1>2
    <2> QED  BY <1>2, <1>3, <2>1, FS_Interval
  <1>5. IsFiniteSet(Windows)
    BY FS_AddElement DEF Windows
  <1> QED  BY <1>2, <1>3, <1>4, <1>5

\* The portions of any interval before the end of the clock add up to its length.
LEMMA PortionsAddUp ==
    ASSUME ClocksCount, IsFiniteSet(Apps), NEW s \in Nat, NEW e \in Nat, s <= e, e <= MaxClock
    PROVE  SumOver([d \in Days |-> Portion(d, s, e)], Days) = e - s
  <1>1. PICK n \in Nat : Days = 0..n /\ MaxClock <= (n + 1) * DayLength
    BY DaysAndWindows
  <1>2. e <= (n + 1) * DayLength
    <2>1. (n + 1) * DayLength \in Nat /\ MaxClock \in Nat
      BY DayBounds DEF ClocksCount
    <2> QED  BY <1>1, <2>1
  <1>3. SumOver([d \in 0..n |-> Portion(d, s, e)], 0..n) = e - s
    BY <1>2, FirstDaysAddUp
  <1> QED  BY <1>1, <1>3

\* An empty record is balanced and fits anywhere.
LEMMA EmptyIsBalanced ==
    ASSUME ClocksCount, IsFiniteSet(Apps)
    PROVE  /\ EmptyState \in Records /\ Balanced(EmptyState)
           /\ \A d \in Days : EmptyState.days[d] = 0
           /\ EmptyState.total = 0
  <1>1. SumOver(EmptyState.days, Days) = 0
    <2>1. \A d \in Days : EmptyState.days[d] = 0
      BY DEF EmptyState
    <2> QED  BY <2>1, DaysAndWindows, SumOfNothing
  <1>2. SumOver(EmptyState.apps, Windows) = 0
    <2>1. \A a \in Windows : EmptyState.apps[a] = 0
      BY DEF EmptyState
    <2> QED  BY <2>1, DaysAndWindows, SumOfNothing
  <1> QED  BY <1>1, <1>2 DEF Balanced, EmptyState, Records

\* Time that is added to a balanced record keeps it balanced, and makes each day longer by
\* its portion.
LEMMA AddingIsFair ==
    ASSUME ClocksCount, IsFiniteSet(Apps), NEW r \in Records, Balanced(r), NEW app \in Windows,
           NEW s \in Nat, NEW e \in Nat, s <= e, e <= MaxClock,
           NEW q, q = AddElapsed(r, app, s, e)
    PROVE  /\ q \in Records /\ Balanced(q) /\ q.total = r.total + (e - s)
           /\ \A d \in Days : q.days[d] = r.days[d] + Portion(d, s, e)
  <1> DEFINE t == e - s
             p == [d \in Days |-> Portion(d, s, e)]
             one == [a \in Windows |-> IF a = app THEN t ELSE 0]
  <1>1. t \in Nat /\ r.total \in Nat /\ r.active \in Nat /\ r.unknown \in Nat
        /\ r.days \in [Days -> Nat] /\ r.apps \in [Windows -> Nat]
    BY DEF Records
  <1>2. \A d \in Days : p[d] \in Nat
    <2>1. \A d \in Days : d \in Nat
      BY DaysAndWindows
    <2> QED  BY <2>1, PortionsAdd
  <1>3. q.days = [d \in Days |-> r.days[d] + p[d]]
    BY DEF AddElapsed
  <1>4. /\ q.apps = [r.apps EXCEPT ![app] = @ + e - s]
        /\ q.active = r.active + (IF app = NoWindow THEN 0 ELSE t)
        /\ q.unknown = r.unknown + (IF app = NoWindow THEN t ELSE 0)
        /\ q.total = r.total + e - s
        /\ q = [days |-> q.days, apps |-> q.apps, active |-> q.active, unknown |-> q.unknown,
                total |-> q.total]
    BY DEF AddElapsed
  <1>5. \A n \in Nat : n + e - s = n + t
    OBVIOUS
  <1>6. q.total = r.total + t
    BY <1>1, <1>4, <1>5
  <1>7. q.apps = [a \in Windows |-> r.apps[a] + one[a]]
    <2>1. r.apps[app] \in Nat
      BY <1>1
    <2>2. r.apps[app] + e - s = r.apps[app] + t
      BY <1>5, <2>1
    <2>3. q.apps = [r.apps EXCEPT ![app] = r.apps[app] + t]
      BY <1>4, <2>2
    <2> HIDE DEF t
    <2>4. \A a \in Windows : r.apps[a] \in Nat /\ r.apps[a] + 0 = r.apps[a]
      BY <1>1
    <2> QED  BY <1>1, <2>3, <2>4
  <1> HIDE DEF t
  <1>8. SumOver(q.days, Days) = SumOver(r.days, Days) + t
    <2>1. SumOver(p, Days) = t
      BY PortionsAddUp DEF t
    <2> HIDE DEF p
    <2>2. \A d \in Days : r.days[d] \in Nat /\ p[d] \in Nat /\ q.days[d] = r.days[d] + p[d]
      BY <1>1, <1>2, <1>3
    <2>3. SumOver(q.days, Days) = SumOver(r.days, Days) + SumOver(p, Days)
      BY <2>2, DaysAndWindows, SumOfBoth
    <2> QED  BY <2>1, <2>3
  <1>9. SumOver(q.apps, Windows) = SumOver(r.apps, Windows) + t
    <2>1. one[app] = t /\ \A a \in Windows \ {app} : one[a] = 0
      OBVIOUS
    <2>2. \A a \in Windows :
            r.apps[a] \in Nat /\ one[a] \in Nat /\ q.apps[a] = r.apps[a] + one[a]
      BY <1>1, <1>7
    <2> HIDE DEF one
    <2>3. SumOver(one, Windows) = t
      BY <1>1, <2>1, DaysAndWindows, SumOfOne
    <2>4. SumOver(q.apps, Windows) = SumOver(r.apps, Windows) + SumOver(one, Windows)
      BY <2>2, DaysAndWindows, SumOfBoth
    <2> QED  BY <2>3, <2>4
  <1>10. q.total = q.active + q.unknown
    <2>1. r.total = r.active + r.unknown
      BY DEF Balanced
    <2> QED  BY <1>1, <1>4, <1>6, <2>1
  <1>11. Balanced(q)
    BY <1>6, <1>8, <1>9, <1>10 DEF Balanced
  <1>12. q \in Records
    <2>1. q.days \in [Days -> Nat]
      <3> HIDE DEF p
      <3>1. \A d \in Days : r.days[d] + p[d] \in Nat
        BY <1>1, <1>2
      <3> QED  BY <1>3, <3>1
    <2>2. q.apps \in [Windows -> Nat]
      <3>1. \A a \in Windows : one[a] \in Nat
        BY <1>1
      <3> HIDE DEF one
      <3>2. \A a \in Windows : r.apps[a] + one[a] \in Nat
        BY <1>1, <3>1
      <3> QED  BY <1>7, <3>2
    <2>3. q.active \in Nat /\ q.unknown \in Nat /\ q.total \in Nat
      BY <1>1, <1>4, <1>6
    <2> HIDE DEF p, one
    <2> QED  BY <1>4, <2>1, <2>2, <2>3 DEF Records
  <1>13. \A d \in Days : q.days[d] = r.days[d] + Portion(d, s, e)
    BY <1>3
  <1> QED  BY <1>6, <1>11, <1>12, <1>13 DEF t

(***************************************************************************)
(* The monitors.                                                           *)
(***************************************************************************)
\* A record that fits keeps fitting as the clocks go on.
LEMMA FitsLater ==
    ASSUME ClocksCount, IsFiniteSet(Apps), NEW r \in Records, NEW t \in Nat, NEW u \in Nat,
           NEW v \in Nat, NEW w \in Nat, t <= u, v <= w, since \in Nat, Fits(r, t, v)
    PROVE  Fits(r, u, w)
  <1>1. ASSUME NEW d \in Days PROVE r.days[d] <= Portion(d, 0, u)
    <2>1. d \in Nat
      BY DaysAndWindows
    <2>2. /\ Portion(d, t, u) \in Nat /\ Portion(d, 0, t) \in Nat /\ Portion(d, 0, u) \in Nat
          /\ Portion(d, 0, t) + Portion(d, t, u) = Portion(d, 0, u)
      BY <2>1, PortionsAdd
    <2>3. r.days[d] \in Nat
      BY DEF Records
    <2>4. r.days[d] <= Portion(d, 0, t)
      BY DEF Fits
    <2> QED  BY <2>2, <2>3, <2>4
  <1>2. r.total <= w - since
    <2>1. r.total \in Nat /\ r.total <= v - since
      BY DEF Records, Fits
    <2> QED  BY <2>1
  <1> QED  BY <1>1, <1>2 DEF Fits

\* Nothing is recorded and no monitor runs at first.
LEMMA TimeAtStart ==
    ASSUME ClocksCount, IsFiniteSet(Apps), Init PROVE StInv
  <1>1. /\ wall = 0 /\ mono = 0 /\ since = 0 /\ stops = 0 /\ file = EmptyState
        /\ mon = [m \in Monitors |-> Off]
    BY DEF Init
  <1>2. EmptyState \in Records /\ Balanced(EmptyState) /\ EmptyState.total = 0
        /\ \A d \in Days : EmptyState.days[d] = 0
    BY EmptyIsBalanced
  <1>3. Off \in Samples /\ ~Off.on
    BY <1>2 DEF Off, Samples, Windows
  <1>4. StTypeOK
    BY <1>1, <1>2, <1>3 DEF StTypeOK, ClocksCount
  <1>5. Fits(file, wall, mono)
    <2>1. ASSUME NEW d \in Days PROVE Portion(d, 0, 0) \in Nat
      <3>1. d \in Nat
        BY DaysAndWindows
      <3> QED  BY <3>1, PortionsAdd
    <2>2. \A d \in Days : 0 <= Portion(d, 0, 0)
      BY <2>1
    <2> QED  BY <1>1, <1>2, <2>2 DEF Fits
  <1> QED  BY <1>1, <1>2, <1>3, <1>4, <1>5 DEF StInv

\* What StInv says of a monitor that runs.
LEMMA MonitorFacts ==
    ASSUME StInv, NEW m \in Monitors, mon[m].on
    PROVE  /\ \A n \in Monitors : mon[n].on => n = m
           /\ mon[m] \in Samples /\ mon[m].atWall \in Nat /\ mon[m].atMono \in Nat
           /\ mon[m].app \in Windows
           /\ Counting(m)
  BY DEF StInv, StTypeOK, Samples

\* run_monitor reads the record and starts to count.
LEMMA MonitorStarts ==
    ASSUME StInv, NEW m \in Monitors, StartMonitor(m) PROVE StInv'
  <1>1. PICK app \in Windows :
          mon' = [mon EXCEPT ![m] = [on |-> TRUE, stop |-> FALSE, record |-> file, app |-> app,
                                     atWall |-> wall, atMono |-> mono]]
    BY DEF StartMonitor
  <1>2. /\ wall' = wall /\ mono' = mono /\ file' = file /\ since' = since /\ stops' = stops
        /\ \A n \in Monitors : ~mon[n].on
    BY DEF StartMonitor, LockIsFree
  <1> DEFINE x == [on |-> TRUE, stop |-> FALSE, record |-> file, app |-> app,
                   atWall |-> wall, atMono |-> mono]
  <1>3. x \in Samples /\ x.record = file /\ x.atWall = wall /\ x.atMono = mono
    BY DEF StInv, StTypeOK, Samples
  <1> HIDE DEF x
  <1>4. mon' = [mon EXCEPT ![m] = x] /\ mon \in [Monitors -> Samples]
    BY <1>1 DEF x, StInv, StTypeOK
  <1>5. mon'[m] = x /\ \A n \in Monitors : n # m => mon'[n] = mon[n]
    BY <1>4
  <1>6. StTypeOK'
    BY <1>2, <1>3, <1>4 DEF StInv, StTypeOK
  <1>7. \A n \in Monitors : mon'[n].on => n = m
    BY <1>2, <1>5
  <1>8. Balanced(file)' /\ Fits(file, wall, mono)'
    BY <1>2 DEF StInv, Balanced, Fits
  <1>9. Counting(m)'
    BY <1>2, <1>3, <1>5, <1>8 DEF StInv, StTypeOK, Counting, Fits
  <1> QED  BY <1>6, <1>7, <1>8, <1>9 DEF StInv

\* The time since the last sample is at most what passed on either clock.
LEMMA ElapsedFits ==
    ASSUME ClocksCount, StInv, NEW m \in Monitors, mon[m].on
    PROVE  /\ Elapsed(m) \in Nat /\ Elapsed(m) <= mono - mon[m].atMono
           /\ mon[m].atWall + Elapsed(m) \in Nat
           /\ mon[m].atWall <= mon[m].atWall + Elapsed(m)
           /\ mon[m].atWall + Elapsed(m) <= wall
  <1>1. /\ mon[m].atWall \in Nat /\ mon[m].atMono \in Nat /\ mon[m].atMono <= mono
        /\ mono - mon[m].atMono <= wall - mon[m].atWall
    BY MonitorFacts DEF Counting
  <1>2. wall \in Nat /\ mono \in Nat /\ SampleCap \in Nat
    BY DEF StInv, StTypeOK, ClocksCount
  <1>3. mono - mon[m].atMono \in Nat
    BY <1>1, <1>2
  <1> DEFINE x == mono - mon[m].atMono
             e == Elapsed(m)
  <1>4. e = IF x <= SampleCap THEN x ELSE SampleCap
    <2>1. x \in Int /\ SampleCap \in Int
      BY <1>2, <1>3
    <2>2. e = Min({x, SampleCap})
      BY DEF Elapsed
    <2> HIDE DEF x, e
    <2> QED  BY <2>1, <2>2, OfTwo
  <1>5. e \in Nat /\ e <= x
    <2> HIDE DEF x, e
    <2> QED  BY <1>2, <1>3, <1>4 DEF x
  <1> HIDE DEF e
  <1>6. /\ mon[m].atWall + e \in Nat /\ mon[m].atWall <= mon[m].atWall + e
        /\ mon[m].atWall + e <= wall
    BY <1>1, <1>2, <1>5
  <1> QED  BY <1>5, <1>6 DEF e

\* A turn of the loop adds the time since the one before, and no other.
LEMMA MonitorSamples ==
    ASSUME ClocksCount, IsFiniteSet(Apps), StInv, NEW m \in Monitors, Sample(m) PROVE StInv'
  <1> DEFINE s == mon[m].atWall
             e == mon[m].atWall + Elapsed(m)
             r == AddElapsed(mon[m].record, mon[m].app, s, e)
  <1>1. /\ mon[m].on /\ mon[m].record = file /\ mon[m].app \in Windows
        /\ mon[m].atWall \in Nat /\ mon[m].atMono \in Nat
        /\ mon[m].atWall <= wall /\ since <= mon[m].atMono /\ mon[m].atMono <= mono
        /\ Fits(file, mon[m].atWall, mon[m].atMono)
        /\ \A n \in Monitors : mon[n].on => n = m
    BY MonitorFacts DEF Sample, Counting
  <1>2. /\ Elapsed(m) \in Nat /\ Elapsed(m) <= mono - mon[m].atMono
        /\ e \in Nat /\ s <= e /\ e <= wall
    BY <1>1, ElapsedFits
  <1>3. /\ wall \in 0..MaxClock /\ wall \in Nat /\ mono \in Nat /\ since \in 0..mono
        /\ file \in Records /\ Balanced(file) /\ MaxClock \in Nat
    BY DEF StInv, StTypeOK, ClocksCount
  <1>4. /\ file' = r /\ wall' = wall /\ mono' = mono /\ since' = since /\ stops' = stops
    BY DEF Sample
  <1>5. PICK app \in Windows :
          mon' = [mon EXCEPT ![m] = IF mon[m].stop THEN Off
                    ELSE [on |-> TRUE, stop |-> FALSE, record |-> r, app |-> app,
                          atWall |-> wall, atMono |-> mono]]
    BY DEF Sample
  <1>6. r = AddElapsed(file, mon[m].app, s, e)
    BY <1>1
  <1> HIDE DEF r
  <1>7. /\ r \in Records /\ Balanced(r) /\ r.total = file.total + (e - s)
        /\ \A d \in Days : r.days[d] = file.days[d] + Portion(d, s, e)
    <2>1. e <= MaxClock
      BY <1>2, <1>3
    <2> DEFINE a == mon[m].app
    <2>2. s \in Nat /\ e \in Nat /\ s <= e /\ a \in Windows /\ r = AddElapsed(file, a, s, e)
      BY <1>1, <1>2, <1>6
    <2> HIDE DEF e, s, a
    <2>3. file \in Records /\ Balanced(file)
      BY <1>3
    <2> QED  BY <2>1, <2>2, <2>3, AddingIsFair
  <1>8. e - s = Elapsed(m)
    BY <1>1, <1>2
  <1>9. Fits(r, e, mono)
    <2>1. ASSUME NEW d \in Days PROVE r.days[d] <= Portion(d, 0, e)
      <3>1. d \in Nat /\ s \in Nat
        BY <1>1, DaysAndWindows
      <3>2. /\ Portion(d, s, e) \in Nat /\ Portion(d, 0, s) \in Nat /\ Portion(d, 0, e) \in Nat
            /\ Portion(d, 0, s) + Portion(d, s, e) = Portion(d, 0, e)
        <4> HIDE DEF e, s
        <4> QED  BY <1>2, <3>1, PortionsAdd
      <3>3. file.days[d] \in Nat
        BY <1>3 DEF Records
      <3>4. file.days[d] <= Portion(d, 0, s)
        BY <1>1 DEF Fits
      <3> HIDE DEF e, s
      <3> QED  BY <1>7, <3>2, <3>3, <3>4
    <2>2. r.total <= mono - since
      <3>1. file.total \in Nat /\ file.total <= mon[m].atMono - since
        BY <1>1, <1>3 DEF Records, Fits
      <3>2. r.total = file.total + Elapsed(m)
        BY <1>7, <1>8
      <3> QED  BY <1>1, <1>2, <1>3, <3>1, <3>2
    <2> QED  BY <2>1, <2>2 DEF Fits
  <1>10. Fits(r, wall, mono)
    <2>1. since \in Nat
      BY <1>3
    <2>2. mono <= mono
      BY <1>3
    <2> HIDE DEF e
    <2> QED  BY <1>2, <1>3, <1>7, <1>9, <2>1, <2>2, FitsLater
  <1> DEFINE x == IF mon[m].stop THEN Off
                  ELSE [on |-> TRUE, stop |-> FALSE, record |-> r, app |-> app,
                        atWall |-> wall, atMono |-> mono]
  <1>11. x \in Samples /\ (x.on => x.record = r /\ x.atWall = wall /\ x.atMono = mono)
    <2>1. EmptyState \in Records
      BY EmptyIsBalanced
    <2> QED  BY <1>3, <1>7, <2>1 DEF Off, Samples, Windows
  <1>12. mon' = [mon EXCEPT ![m] = x] /\ mon \in [Monitors -> Samples]
    BY <1>5 DEF StInv, StTypeOK
  <1> HIDE DEF x
  <1>13. mon'[m] = x /\ \A n \in Monitors : n # m => mon'[n] = mon[n]
    BY <1>12
  <1>14. StTypeOK'
    BY <1>4, <1>7, <1>11, <1>12 DEF StInv, StTypeOK
  <1>15. \A n \in Monitors : mon'[n].on => n = m
    BY <1>1, <1>13
  <1>16. Balanced(file)' /\ Fits(file, wall, mono)'
    BY <1>4, <1>7, <1>10 DEF Balanced, Fits
  <1>17. x.on => Counting(m)'
    <2>1. since <= mono /\ wall <= wall /\ mono <= mono /\ mono - mono <= wall - wall
      BY <1>3
    <2> QED  BY <1>4, <1>10, <1>11, <1>13, <2>1 DEF Counting, Fits
  <1> QED  BY <1>13, <1>14, <1>15, <1>16, <1>17 DEF StInv

\* A monitor is told to stop, or killed.
LEMMA MonitorStops ==
    ASSUME ClocksCount, IsFiniteSet(Apps), StInv, NEW m \in Monitors,
           StopMonitor(m) \/ KillMonitor(m)
    PROVE  StInv'
  <1>1. /\ wall' = wall /\ mono' = mono /\ file' = file /\ since' = since /\ stops' = stops + 1
        /\ mon[m].on
    BY DEF StopMonitor, KillMonitor
  <1>2. PICK x : mon' = [mon EXCEPT ![m] = x] /\ (x = Off \/ x = [mon[m] EXCEPT !.stop = TRUE])
    BY DEF StopMonitor, KillMonitor
  <1>3. mon \in [Monitors -> Samples] /\ mon[m] \in Samples /\ EmptyState \in Records
    BY EmptyIsBalanced DEF StInv, StTypeOK
  <1>4. /\ x \in Samples
        /\ x.on => x.record = mon[m].record /\ x.atWall = mon[m].atWall
                   /\ x.atMono = mon[m].atMono
    <2>1. CASE x = Off
      BY <1>3, <2>1 DEF Off, Samples, Windows
    <2>2. CASE x = [mon[m] EXCEPT !.stop = TRUE]
      BY <1>3, <2>2 DEF Samples
    <2> QED  BY <1>2, <2>1, <2>2
  <1>5. mon'[m] = x /\ \A n \in Monitors : n # m => mon'[n] = mon[n]
    BY <1>2, <1>3
  <1>6. StTypeOK'
    <2>1. mon' \in [Monitors -> Samples]
      BY <1>2, <1>3, <1>4
    <2>2. stops' \in Nat
      BY <1>1 DEF StInv, StTypeOK
    <2> QED  BY <1>1, <2>1, <2>2 DEF StInv, StTypeOK
  <1>7. \A n \in Monitors : mon'[n].on => n = m
    BY <1>1, <1>5, MonitorFacts
  <1>8. Balanced(file)' /\ Fits(file, wall, mono)'
    BY <1>1 DEF StInv, Balanced, Fits
  <1>9. x.on => Counting(m)'
    BY <1>1, <1>4, <1>5, MonitorFacts DEF Counting, Fits
  <1> QED  BY <1>5, <1>6, <1>7, <1>8, <1>9 DEF StInv

\* A reset empties the record when no monitor holds it.
LEMMA RecordIsReset ==
    ASSUME ClocksCount, IsFiniteSet(Apps), StInv, Reset, ~ResetAnytime PROVE StInv'
  <1>1. /\ wall' = wall /\ mono' = mono /\ mon' = mon /\ stops' = stops
        /\ file' = EmptyState /\ since' = mono /\ \A m \in Monitors : ~mon[m].on
    BY DEF Reset, LockIsFree
  <1>2. EmptyState \in Records /\ Balanced(EmptyState) /\ EmptyState.total = 0
        /\ \A d \in Days : EmptyState.days[d] = 0
    BY EmptyIsBalanced
  <1>3. StTypeOK'
    BY <1>1, <1>2 DEF StInv, StTypeOK
  <1>4. Balanced(file)'
    BY <1>1, <1>2 DEF Balanced
  <1>5. Fits(file, wall, mono)'
    <2>1. wall \in Nat /\ mono \in Nat
      BY DEF StInv, StTypeOK
    <2>2. ASSUME NEW d \in Days PROVE 0 <= Portion(d, 0, wall)
      <3>1. d \in Nat /\ 0 \in Nat /\ 0 <= wall
        BY <2>1, DaysAndWindows
      <3>2. Portion(d, 0, wall) \in Nat
        BY <2>1, <3>1, PortionsAdd
      <3> QED  BY <3>2
    <2> QED  BY <1>1, <1>2, <2>1, <2>2 DEF Fits
  <1> QED  BY <1>1, <1>3, <1>4, <1>5 DEF StInv

\* The wall clock never goes slower than the monotonic one.
LEMMA TimePasses ==
    ASSUME ClocksCount, IsFiniteSet(Apps), StInv, Tick \/ Suspend PROVE StInv'
  <1>1. /\ wall < MaxClock /\ wall' = wall + 1 /\ (mono' = mono \/ mono' = mono + 1)
        /\ file' = file /\ mon' = mon /\ since' = since /\ stops' = stops
    BY DEF Tick, Suspend
  <1>2. /\ wall \in Nat /\ mono \in Nat /\ since \in Nat /\ since <= mono /\ MaxClock \in Nat
        /\ file \in Records
    BY DEF StInv, StTypeOK, ClocksCount
  <1>3. /\ wall' \in 0..MaxClock /\ wall' \in Nat /\ mono' \in Nat /\ since \in 0..mono'
        /\ wall <= wall' /\ mono <= mono'
    BY <1>1, <1>2
  <1>4. StTypeOK'
    BY <1>1, <1>3 DEF StInv, StTypeOK
  <1>5. Balanced(file)'
    BY <1>1 DEF StInv, Balanced
  <1>6. Fits(file, wall', mono')
    <2> DEFINE u == wall'  w == mono'
    <2>1. u \in Nat /\ w \in Nat /\ wall <= u /\ mono <= w
      BY <1>3
    <2>2. Fits(file, wall, mono)
      BY DEF StInv
    <2> HIDE DEF u, w
    <2>3. Fits(file, u, w)
      BY <1>2, <2>1, <2>2, FitsLater
    <2> QED  BY <2>3 DEF u, w
  <1>7. Fits(file, wall, mono)'
    BY <1>1, <1>6 DEF Fits
  <1>8. ASSUME NEW m \in Monitors, mon[m].on PROVE Counting(m)'
    <2>1. Counting(m) /\ mon[m].atWall \in Nat /\ mon[m].atMono \in Nat
      BY <1>8, MonitorFacts
    <2>2. /\ mon[m].atWall <= wall' /\ mon[m].atMono <= mono'
          /\ mono' - mon[m].atMono <= wall' - mon[m].atWall
      BY <1>1, <1>2, <2>1 DEF Counting
    <2> QED  BY <1>1, <2>1, <2>2 DEF Counting, Fits
  <1> QED  BY <1>1, <1>4, <1>5, <1>7, <1>8 DEF StInv

\* Every step keeps the invariant, while no record is reset that a monitor holds.
LEMMA TimeStep ==
    ASSUME ClocksCount, IsFiniteSet(Apps), ~ResetAnytime, StInv, Next PROVE StInv'
  BY MonitorStarts, MonitorSamples, MonitorStops, RecordIsReset, TimePasses DEF Next

\* The invariant says that time is counted once.
LEMMA TimeIsCounted == ASSUME StInv PROVE TimeIsCountedOnce
  BY DEF StInv, Balanced, Fits, TimeIsCountedOnce

(***************************************************************************)
(* Passes over lists.                                                      *)
(***************************************************************************)
\* What a fold over a list of n elements comes to for each set of places, the last one last.
Top(s) == CHOOSE x \in s : \A y \in s : x >= y
IsFold(it, S, G, base, n) ==
    /\ it \in [SUBSET (1..n) -> S]
    /\ \A s \in SUBSET (1..n) : it[s] = IF s = {} THEN base ELSE G[<<it[s \ {Top(s)}], Top(s)>>]

\* The largest of a set of places that has k and none beyond is k.
LEMMA TopIs == ASSUME NEW k \in Nat, NEW s \in SUBSET (1..k), k \in s PROVE Top(s) = k
  <1>1. \A y \in s : y \in Nat /\ k >= y
    OBVIOUS
  <1>2. \A x \in s : (\A y \in s : x >= y) => x = k
    BY <1>1
  <1> QED  BY <1>1, <1>2 DEF Top

\* A set of places that is not empty has a largest.
LEMMA TopIsIn == ASSUME NEW n \in Nat, NEW s \in SUBSET (1..n), s # {} PROVE Top(s) \in s
  <1> DEFINE below == {n - x : x \in s}
  <1>1. below \subseteq Nat /\ below # {}
    <2>1. \A x \in s : n - x \in Nat
      OBVIOUS
    <2> QED  BY <2>1
  <1>2. PICK d \in below : \A e \in below : d <= e
    BY <1>1, LeastNumber
  <1>3. PICK x \in s : d = n - x
    BY <1>2
  <1>4. ASSUME NEW y \in s PROVE x >= y
    <2>1. n - y \in below /\ x \in Nat /\ y \in Nat
      OBVIOUS
    <2>2. n - x <= n - y
      BY <1>2, <1>3, <2>1
    <2> QED  BY <2>1, <2>2
  <1> QED  BY <1>4 DEF Top

\* A fold whose steps stay within a set has a value for each set of places.
LEMMA FoldsExist ==
    ASSUME NEW S, NEW base \in S, NEW n \in Nat, NEW G \in [S \X (1..n) -> S]
    PROVE  \E it : IsFold(it, S, G, base, n)
  <1> DEFINE Good(m) == \E it : IsFold(it, S, G, base, m)
             Bad == {m \in Nat : m <= n /\ ~ Good(m)}
  <1>1. Bad = {}
    <2> SUFFICES ASSUME Bad # {} PROVE FALSE
      OBVIOUS
    <2>1. PICK m \in Bad : \A j \in Bad : m <= j
      <3>1. Bad \subseteq Nat
        OBVIOUS
      <3> HIDE DEF Bad
      <3> QED  BY <3>1, LeastNumber
    <2>2. m \in Nat /\ m <= n /\ ~ Good(m)
      BY <2>1
    <2>3. CASE m = 0
      <3>1. IsFold([s \in SUBSET (1..0) |-> base], S, G, base, 0)
        <4>1. 1..0 = {}
          OBVIOUS
        <4> QED  BY <4>1 DEF IsFold
      <3> QED  BY <2>2, <2>3, <3>1
    <2>4. CASE m # 0
      <3>1. m - 1 \in Nat /\ m - 1 \notin Bad
        <4>1. m - 1 \in Nat /\ ~ (m <= m - 1)
          BY <2>2, <2>4
        <4> HIDE DEF Bad
        <4> QED  BY <2>1, <4>1
      <3>2. Good(m - 1)
        BY <2>2, <3>1
      <3>3. PICK it : IsFold(it, S, G, base, m - 1)
        BY <3>2
      <3> DEFINE Low == SUBSET (1..(m - 1))
                 more == [s \in SUBSET (1..m) |->
                            IF m \in s THEN G[<<it[s \ {m}], m>>] ELSE it[s]]
      <3>4. \A s \in SUBSET (1..m) : s \ {m} \in Low /\ (m \notin s => s \in Low)
        BY <2>2, <2>4
      <3>5. it \in [Low -> S] /\ m \in 1..n
        BY <2>2, <2>4, <3>3 DEF IsFold
      <3>6. more \in [SUBSET (1..m) -> S]
        BY <3>4, <3>5
      <3>7. ASSUME NEW s \in SUBSET (1..m)
            PROVE  more[s] = IF s = {} THEN base ELSE G[<<more[s \ {Top(s)}], Top(s)>>]
        <4>1. CASE m \in s
          <5>1. Top(s) = m
            BY <2>2, <4>1, TopIs
          <5>2. more[s \ {m}] = it[s \ {m}] /\ more[s] = G[<<it[s \ {m}], m>>]
            BY <4>1
          <5> QED  BY <4>1, <5>1, <5>2
        <4>2. CASE m \notin s
          <5>1. more[s] = it[s] /\ more[s \ {Top(s)}] = it[s \ {Top(s)}] /\ s \in Low
            BY <3>4, <4>2
          <5> QED  BY <3>3, <5>1 DEF IsFold
        <4> QED  BY <4>1, <4>2
      <3>8. IsFold(more, S, G, base, m)
        BY <3>6, <3>7 DEF IsFold
      <3> QED  BY <2>2, <3>8
    <2> QED  BY <2>3, <2>4
  <1> QED  BY <1>1

(***************************************************************************)
(* The reader view: lines that are cleaned.                                *)
(***************************************************************************)
\* clean_reader_text line by line: the text so far, and whether it ends with a blank.
CleanStates == [out : Seq(Line), blank : BOOLEAN]
NothingYet == [out |-> << >>, blank |-> FALSE]
CleanRun(at, lines) ==
    /\ at \in [0..Len(lines) -> CleanStates] /\ at[0] = NothingYet
    /\ \A k \in 1..Len(lines) : at[k] = CleanStep(at[k - 1], lines[k])

\* The text cleaned is what the last step leaves, without a blank at its end.
LEMMA CleanStepType ==
    ASSUME NEW st \in CleanStates, NEW line \in Line
    PROVE  CleanStep(st, line) \in CleanStates
  <1>1. st.out \in Seq(Line) /\ st.blank \in BOOLEAN /\ st = [out |-> st.out, blank |-> st.blank]
    BY DEF CleanStates
  <1>2. Append(st.out, line) \in Seq(Line)
    BY <1>1
  <1> HIDE DEF CleanStates
  <1>3. \A o \in Seq(Line), b \in BOOLEAN : [out |-> o, blank |-> b] \in CleanStates
    BY DEF CleanStates
  <1>4. CASE line.k = "blank"
    <2>1. CleanStep(st, line) =
            [out |-> IF st.out # << >> /\ ~st.blank THEN Append(st.out, line) ELSE st.out,
             blank |-> TRUE]
      BY <1>1, <1>4 DEF CleanStep
    <2> QED  BY <1>1, <1>2, <1>3, <2>1
  <1>5. CASE line.k # "blank"
    <2>1. CASE Contains(st.out, line)
      BY <1>5, <2>1 DEF CleanStep
    <2>2. CASE ~ Contains(st.out, line)
      <3>1. CleanStep(st, line) = [st EXCEPT !.out = Append(@, line), !.blank = FALSE]
        BY <1>5, <2>2 DEF CleanStep
      <3>2. CleanStep(st, line) = [out |-> Append(st.out, line), blank |-> FALSE]
        BY <1>1, <3>1
      <3> QED  BY <1>2, <1>3, <3>2
    <2> QED  BY <2>1, <2>2
  <1> QED  BY <1>4, <1>5

\* clean_reader_text passes from line to line.
LEMMA CleanSteps ==
    ASSUME NEW lines \in Seq(Line)
    PROVE  \E at : /\ CleanRun(at, lines)
                   /\ FoldLeft(CleanStep, NothingYet, lines) = at[Len(lines)]
  <1> DEFINE n == Len(lines)
             G == [p \in CleanStates \X (1..n) |-> CleanStep(p[1], lines[p[2]])]
  <1>1. n \in Nat /\ DOMAIN lines = 1..n /\ \A k \in 1..n : lines[k] \in Line
    OBVIOUS
  <1>2. G \in [CleanStates \X (1..n) -> CleanStates] /\ NothingYet \in CleanStates
    <2>1. NothingYet \in CleanStates
      BY DEF CleanStates, NothingYet
    <2>2. \A x \in CleanStates \X (1..n) : CleanStep(x[1], lines[x[2]]) \in CleanStates
      BY <1>1, CleanStepType
    <2> QED  BY <2>1, <2>2
  <1>3. PICK it : IsFold(it, CleanStates, G, NothingYet, n)
    <2> HIDE DEF G
    <2> QED  BY <1>1, <1>2, FoldsExist
  <1> DEFINE Solves(f) ==
               f = [s \in SUBSET (1..n) |->
                      IF s = {} THEN NothingYet ELSE CleanStep(f[s \ {Top(s)}], lines[Top(s)])]
             sol == CHOOSE f : Solves(f)
  <1>5. FoldLeft(CleanStep, NothingYet, lines) = sol[1..n]
    BY <1>1 DEF FoldLeft, MapThenFoldSet, Max, Top
  <1>6. ASSUME NEW s \in SUBSET (1..n)
        PROVE  it[s] = IF s = {} THEN NothingYet ELSE CleanStep(it[s \ {Top(s)}], lines[Top(s)])
    <2>1. CASE s = {}
      BY <1>3, <2>1 DEF IsFold
    <2>2. CASE s # {}
      <3>1. Top(s) \in 1..n
        BY <1>1, <2>2, TopIsIn
      <3>2. it[s \ {Top(s)}] \in CleanStates
        BY <1>3 DEF IsFold
      <3>3. it[s] = G[<<it[s \ {Top(s)}], Top(s)>>]
        BY <1>3, <2>2 DEF IsFold
      <3> QED  BY <2>2, <3>1, <3>2, <3>3
    <2> QED  BY <2>1, <2>2
  <1>7. Solves(it)
    <2>1. it \in [SUBSET (1..n) -> CleanStates]
      BY <1>3 DEF IsFold
    <2> QED  BY <1>6, <2>1
  <1>8. Solves(sol)
    BY <1>7
  <1> DEFINE at == [k \in 0..n |-> sol[1..k]]
  <1> HIDE DEF sol
  <1>9. at[0] = NothingYet
    <2>1. 1..0 = {} /\ 0 \in 0..n /\ {} \in SUBSET (1..n)
      BY <1>1
    <2> QED  BY <1>8, <2>1
  <1>10. ASSUME NEW k \in 1..n PROVE at[k] = CleanStep(at[k - 1], lines[k])
    <2>1. /\ 1..k \in SUBSET (1..n) /\ 1..k # {} /\ k \in 1..k /\ k \in Nat
          /\ (1..k) \ {k} = 1..(k - 1) /\ k \in 0..n /\ k - 1 \in 0..n
      <3>1. k \in Nat /\ 1 <= k /\ k <= n
        BY <1>1
      <3>2. (1..k) \ {k} = 1..(k - 1)
        BY <3>1
      <3>3. \A i \in 1..k : i \in 1..n
        BY <3>1
      <3>4. k \in 1..k /\ k \in 0..n /\ k - 1 \in 0..n
        BY <3>1
      <3> QED  BY <3>1, <3>2, <3>3, <3>4
    <2>2. Top(1..k) = k
      BY <2>1, TopIs
    <2> QED  BY <1>8, <2>1, <2>2
  <1>11. at[n] = sol[1..n]
    BY <1>1
  <1>12. ASSUME NEW k \in 0..n PROVE at[k] \in CleanStates
    <2> DEFINE Bad == {j \in Nat : j <= n /\ at[j] \notin CleanStates}
    <2>1. CASE Bad # {}
      <3>1. PICK j \in Bad : \A i \in Bad : j <= i
        <4>1. Bad \subseteq Nat
          OBVIOUS
        <4> HIDE DEF Bad
        <4> QED  BY <2>1, <4>1, LeastNumber
      <3>2. j # 0
        BY <1>2, <1>9, <3>1
      <3>3. j \in 1..n /\ j - 1 \in Nat /\ j - 1 <= n /\ ~ (j <= j - 1)
        BY <1>1, <3>1, <3>2
      <3>4. at[j - 1] \in CleanStates
        BY <3>1, <3>3
      <3>5. at[j] \in CleanStates
        BY <1>1, <1>10, <3>3, <3>4, CleanStepType
      <3> QED  BY <3>1, <3>5
    <2> QED  BY <1>1, <2>1
  <1>13. CleanRun(at, lines)
    BY <1>9, <1>10, <1>12 DEF CleanRun
  <1> HIDE DEF at
  <1> QED  BY <1>5, <1>11, <1>13


\* Lines as they are once cleaned: blanks only between others and one at a time, and no
\* other line twice.
Blank(line) == line.k = "blank"
Spaced(s) ==
    /\ s # << >> => ~Blank(s[1])
    /\ \A i, j \in 1..Len(s) : j = i + 1 => ~(Blank(s[i]) /\ Blank(s[j]))
    /\ \A i, j \in 1..Len(s) : i < j /\ ~Blank(s[i]) => s[i] # s[j]
Neat(s) == Spaced(s) /\ (s # << >> => ~Blank(s[Len(s)]))

\* A line keeps what is cleaned so far spaced, and blank says that it ends with a blank.
LEMMA SpacedStep ==
    ASSUME NEW st \in CleanStates, NEW line \in Line, Spaced(st.out),
           st.out # << >> /\ ~st.blank => ~Blank(st.out[Len(st.out)])
    PROVE  LET to == CleanStep(st, line)
           IN  Spaced(to.out) /\ (to.out # << >> /\ ~to.blank => ~Blank(to.out[Len(to.out)]))
  <1> DEFINE s == st.out
             more == Append(s, line)
             to == CleanStep(st, line)
  <1>1. s \in Seq(Line) /\ st.blank \in BOOLEAN /\ st = [out |-> s, blank |-> st.blank]
    BY DEF CleanStates
  <1>2. /\ more \in Seq(Line) /\ Len(more) = Len(s) + 1 /\ more[Len(s) + 1] = line
        /\ \A i \in 1..Len(s) : more[i] = s[i]
        /\ Len(s) \in Nat /\ more # << >>
    BY <1>1
  <1>3. ASSUME s = << >> => ~Blank(line), s # << >> => ~(Blank(s[Len(s)]) /\ Blank(line)),
               \A i \in 1..Len(s) : ~Blank(s[i]) => s[i] # line
        PROVE  Spaced(more)
    <2>1. more # << >> => ~Blank(more[1])
      <3>1. CASE s = << >>
        BY <1>2, <1>3, <3>1
      <3>2. CASE s # << >>
        <4>1. 1 \in 1..Len(s)
          BY <1>1, <3>2
        <4> QED  BY <1>2, <3>2, <4>1 DEF Spaced
      <3> QED  BY <3>1, <3>2
    <2>2. ASSUME NEW i \in 1..Len(more), NEW j \in 1..Len(more), j = i + 1
          PROVE  ~(Blank(more[i]) /\ Blank(more[j]))
      <3>1. CASE j = Len(s) + 1
        <4>1. i = Len(s) /\ i \in 1..Len(s) /\ s # << >>
          BY <1>1, <1>2, <2>2, <3>1
        <4> QED  BY <1>2, <1>3, <3>1, <4>1
      <3>2. CASE j # Len(s) + 1
        <4>1. i \in 1..Len(s) /\ j \in 1..Len(s)
          BY <1>2, <2>2, <3>2
        <4> QED  BY <1>2, <2>2, <4>1 DEF Spaced
      <3> QED  BY <3>1, <3>2
    <2>3. ASSUME NEW i \in 1..Len(more), NEW j \in 1..Len(more), i < j, ~Blank(more[i])
          PROVE  more[i] # more[j]
      <3>1. i \in 1..Len(s) /\ (j \in 1..Len(s) \/ j = Len(s) + 1)
        BY <1>2, <2>3
      <3> QED  BY <1>2, <1>3, <2>3, <3>1 DEF Spaced
    <2> HIDE DEF more
    <2> QED  BY <2>1, <2>2, <2>3 DEF Spaced
  <1>4. CASE Blank(line)
    <2>1. to = [out |-> IF s # << >> /\ ~st.blank THEN more ELSE s, blank |-> TRUE]
      BY <1>1, <1>4 DEF CleanStep, Blank
    <2>2. CASE s # << >> /\ ~st.blank
      <3>1. \A i \in 1..Len(s) : ~Blank(s[i]) => s[i] # line
        BY <1>4
      <3>2. Spaced(more)
        BY <1>3, <2>2, <3>1
      <3> QED  BY <2>1, <2>2, <3>2
    <2> QED  BY <2>1, <2>2
  <1>5. CASE ~Blank(line)
    <2>1. CASE Contains(s, line)
      BY <1>5, <2>1 DEF CleanStep, Blank
    <2>2. CASE ~ Contains(s, line)
      <3>1. to = [st EXCEPT !.out = Append(@, line), !.blank = FALSE]
        BY <1>5, <2>2 DEF CleanStep, Blank
      <3>2. to.out = more
        BY <1>1, <3>1
      <3>3. Spaced(more)
        BY <1>3, <1>5, <2>2 DEF Contains
      <3> QED  BY <1>2, <1>5, <3>2, <3>3
    <2> QED  BY <2>1, <2>2
  <1> QED  BY <1>4, <1>5

\* What is cleaned is neat.
LEMMA CleanIsNeat ==
    ASSUME NEW lines \in Seq(Line)
    PROVE  CleanReaderText(lines) \in Seq(Line) /\ Neat(CleanReaderText(lines))
  <1> DEFINE n == Len(lines)
  <1>1. PICK at : CleanRun(at, lines) /\ FoldLeft(CleanStep, NothingYet, lines) = at[n]
    BY CleanSteps
  <1> DEFINE Fine(st) == Spaced(st.out)
                         /\ (st.out # << >> /\ ~st.blank => ~Blank(st.out[Len(st.out)]))
             Bad == {j \in Nat : j <= n /\ ~Fine(at[j])}
  <1>2. CASE Bad # {}
    <2>1. PICK j \in Bad : \A i \in Bad : j <= i
      <3>1. Bad \subseteq Nat
        OBVIOUS
      <3> HIDE DEF Bad
      <3> QED  BY <1>2, <3>1, LeastNumber
    <2>2. j # 0
      <3>1. Fine(NothingYet)
        BY DEF NothingYet, Spaced
      <3> QED  BY <1>1, <2>1, <3>1 DEF CleanRun
    <2>3. j \in 1..n /\ j - 1 \in 0..n /\ ~ (j <= j - 1) /\ lines[j] \in Line
      BY <2>1, <2>2
    <2>4. Fine(at[j - 1])
      BY <2>1, <2>3
    <2>5. at[j - 1] \in CleanStates /\ at[j] = CleanStep(at[j - 1], lines[j])
      BY <1>1, <2>3 DEF CleanRun
    <2>6. Fine(at[j])
      BY <2>3, <2>4, <2>5, SpacedStep
    <2> QED  BY <2>1, <2>6
  <1>3. CASE Bad = {}
    <2> DEFINE out == at[n].out
    <2>1. n \in Nat /\ n \notin Bad
      BY <1>3
    <2>2. Spaced(out) /\ out \in Seq(Line)
      BY <1>1, <2>1 DEF CleanRun, CleanStates
    <2>3. CleanReaderText(lines) =
            IF out # << >> /\ out[Len(out)].k = "blank" THEN Front(out) ELSE out
      BY <1>1 DEF CleanReaderText, NothingYet
    <2> HIDE DEF out, Bad
    <2>4. CASE out # << >> /\ out[Len(out)].k = "blank"
      <3> DEFINE less == SubSeq(out, 1, Len(out) - 1)
      <3>1. Len(out) \in Nat /\ Len(out) # 0 /\ Len(out) - 1 \in Nat
        BY <2>2, <2>4
      <3>2. /\ less \in Seq(Line) /\ Len(less) = Len(out) - 1
            /\ \A i \in 1..(Len(out) - 1) : less[i] = out[i] /\ i \in 1..Len(out)
        <4>1. \A i \in 1..(Len(out) - 1) : i \in 1..Len(out)
          BY <3>1
        <4>2. less \in Seq(Line)
          BY <2>2, <4>1
        <4>4. Len(less) = Len(out) - 1
          <5> DEFINE l == Len(out) - 1
          <5>1. l \in Nat /\ l <= Len(out) /\ less = SubSeq(out, 1, l)
            BY <3>1
          <5> HIDE DEF l
          <5>2. Len(SubSeq(out, 1, l)) = l
            BY <2>2, <5>1
          <5> HIDE DEF less
          <5>3. Len(less) = l
            BY <5>1, <5>2
          <5> QED  BY <5>3 DEF l
        <4>3. \A i \in 1..(Len(out) - 1) : less[i] = out[i]
          BY <2>2, <3>1
        <4> QED  BY <4>1, <4>2, <4>3, <4>4
      <3>3. CleanReaderText(lines) = less
        BY <2>3, <2>4 DEF Front
      <3> HIDE DEF less
      <3>4. less # << >> => 1 \in 1..(Len(out) - 1) /\ Len(less) \in 1..(Len(out) - 1)
                             /\ Len(out) = Len(less) + 1
        BY <3>1, <3>2
      <3>5. Spaced(less)
        BY <2>2, <3>1, <3>2, <3>4 DEF Spaced
      <3>6. less # << >> => ~Blank(less[Len(less)])
        <4>1. Len(out) \in 1..Len(out)
          BY <3>1
        <4> QED  BY <2>2, <2>4, <3>2, <3>4, <4>1 DEF Spaced, Blank
      <3> QED  BY <3>2, <3>3, <3>5, <3>6 DEF Neat
    <2>5. CASE ~ (out # << >> /\ out[Len(out)].k = "blank")
      BY <2>2, <2>3, <2>5 DEF Neat, Blank
    <2> QED  BY <2>4, <2>5
  <1> QED  BY <1>2, <1>3

\* Cleaning leaves alone what is neat.
LEMMA NeatStays ==
    ASSUME NEW lines \in Seq(Line), Neat(lines)
    PROVE  CleanReaderText(lines) = lines
  <1> DEFINE n == Len(lines)
  <1>1. PICK at : CleanRun(at, lines) /\ FoldLeft(CleanStep, NothingYet, lines) = at[n]
    BY CleanSteps
  <1> DEFINE So(k) == [out |-> SubSeq(lines, 1, k), blank |-> k > 0 /\ Blank(lines[k])]
             Bad == {j \in Nat : j <= n /\ at[j] # So(j)}
  <1>2. n \in Nat /\ DOMAIN lines = 1..n /\ \A k \in 1..n : lines[k] \in Line
    OBVIOUS
  <1>3. CASE Bad # {}
    <2>1. PICK j \in Bad : \A i \in Bad : j <= i
      <3>1. Bad \subseteq Nat
        OBVIOUS
      <3> HIDE DEF Bad
      <3> QED  BY <1>3, <3>1, LeastNumber
    <2>2. j # 0
      <3>1. So(0) = NothingYet
        <4>1. SubSeq(lines, 1, 0) = << >> /\ (0 > 0 /\ Blank(lines[0])) = FALSE
          OBVIOUS
        <4> QED  BY <4>1 DEF NothingYet
      <3> HIDE DEF So
      <3> QED  BY <1>1, <2>1, <3>1 DEF CleanRun
    <2>3. j \in 1..n /\ j - 1 \in 0..n /\ ~ (j <= j - 1) /\ lines[j] \in Line
      BY <1>2, <2>1, <2>2
    <2>4. at[j - 1] = So(j - 1)
      BY <2>1, <2>3
    <2> DEFINE head == SubSeq(lines, 1, j - 1)
               line == lines[j]
    <2>5. at[j] = CleanStep(So(j - 1), line)
      BY <1>1, <2>3, <2>4 DEF CleanRun
    <2>6. head \in Seq(Line) /\ Len(head) = j - 1 /\ \A i \in 1..(j - 1) : head[i] = lines[i]
      BY <1>2, <2>3
    <2>7. SubSeq(lines, 1, j) = Append(head, line)
      <3>1. SubSeq(lines, 1, j) \in Seq(Line) /\ Len(SubSeq(lines, 1, j)) = j
            /\ \A i \in 1..j : SubSeq(lines, 1, j)[i] = lines[i]
        BY <1>2, <2>3
      <3>2. Append(head, line) \in Seq(Line) /\ Len(Append(head, line)) = j
            /\ \A i \in 1..j : Append(head, line)[i] = IF i = j THEN line ELSE head[i]
        <4> HIDE DEF head, line
        <4>1. line \in Line
          BY <2>3 DEF line
        <4> QED  BY <2>3, <2>6, <4>1
      <3> HIDE DEF head
      <3> DEFINE a == SubSeq(lines, 1, j)
                 b == Append(head, line)
      <3>3. \A i \in 1..j : a[i] = b[i]
        BY <2>3, <2>6, <3>1, <3>2
      <3>4. a \in Seq(Line) /\ b \in Seq(Line) /\ Len(a) = Len(b) /\ \A i \in 1..Len(a) : a[i] = b[i]
        BY <3>1, <3>2, <3>3
      <3> HIDE DEF a, b
      <3>5. a = b
        BY <3>4
      <3> QED  BY <3>5 DEF a, b
    <2> HIDE DEF head, Bad
    <2>8. CASE Blank(line)
      <3>1. j # 1 /\ j - 1 \in 1..n
        <4>1. ~Blank(lines[1])
          <5>1. lines # << >>
            BY <1>2, <2>3
          <5> QED  BY <5>1 DEF Neat, Spaced
        <4> QED  BY <2>3, <2>8, <4>1
      <3>2. ~Blank(lines[j - 1])
        <4>1. j = (j - 1) + 1
          BY <2>3
        <4> QED  BY <1>2, <2>3, <2>8, <3>1, <4>1 DEF Neat, Spaced
      <3>3. head # << >> /\ So(j - 1) = [out |-> head, blank |-> FALSE]
        <4>1. (j - 1 > 0 /\ Blank(lines[j - 1])) = FALSE
          BY <3>2
        <4>2. head # << >>
          BY <2>3, <2>6, <3>1
        <4> QED  BY <4>1, <4>2 DEF head
      <3>4. at[j] = [out |-> Append(head, line), blank |-> TRUE]
        BY <2>5, <2>8, <3>3 DEF CleanStep, Blank
      <3>5. at[j] = So(j)
        <4>1. (j > 0 /\ Blank(lines[j])) = TRUE
          BY <2>3, <2>8
        <4> QED  BY <2>7, <3>4, <4>1
      <3> QED  BY <2>1, <3>5 DEF Bad
    <2>9. CASE ~Blank(line)
      <3>1. ~ Contains(head, line)
        <4>1. \A i \in 1..(j - 1) : i \in 1..n /\ i < j
          BY <1>2, <2>3
        <4>2. \A i \in 1..(j - 1) : head[i] # line
          <5> SUFFICES ASSUME NEW i \in 1..(j - 1), head[i] = line PROVE FALSE
            OBVIOUS
          <5>1. i \in 1..n /\ i < j /\ lines[i] = lines[j]
            BY <2>6, <4>1
          <5>2. ~Blank(lines[i])
            BY <2>9, <5>1
          <5> QED  BY <1>2, <2>3, <5>1, <5>2 DEF Neat, Spaced
        <4> QED  BY <2>6, <4>2 DEF Contains
      <3> DEFINE st == So(j - 1)
      <3>2. st.out = head /\ st = [out |-> head, blank |-> st.blank]
        BY DEF head
      <3> HIDE DEF st
      <3>3. at[j] = [st EXCEPT !.out = Append(@, line), !.blank = FALSE]
        BY <2>5, <2>9, <3>1, <3>2 DEF CleanStep, Blank, st
      <3>4. at[j] = [out |-> Append(head, line), blank |-> FALSE]
        BY <3>2, <3>3
      <3>5. at[j] = So(j)
        BY <2>3, <2>7, <2>9, <3>4
      <3> QED  BY <2>1, <3>5 DEF Bad
    <2> QED  BY <2>8, <2>9
  <1>4. CASE Bad = {}
    <2>1. at[n] = So(n)
      <3>1. n \in Nat /\ n \notin Bad
        BY <1>2, <1>4
      <3> HIDE DEF So
      <3> QED  BY <3>1
    <2>2. SubSeq(lines, 1, n) = lines
      <3> DEFINE a == SubSeq(lines, 1, n)
      <3>1. a \in Seq(Line) /\ Len(a) = n /\ \A i \in 1..n : a[i] = lines[i]
        BY <1>2
      <3> HIDE DEF a
      <3>2. a = lines
        BY <3>1
      <3> QED  BY <3>2 DEF a
    <2>3. at[n].out = lines
      BY <2>1, <2>2
    <2>4. lines # << >> => lines[Len(lines)].k # "blank"
      BY DEF Neat, Blank
    <2>5. FoldLeft(CleanStep, [out |-> << >>, blank |-> FALSE], lines).out = lines
      BY <1>1, <2>3 DEF NothingYet
    <2> QED  BY <2>4, <2>5 DEF CleanReaderText
  <1> QED  BY <1>3, <1>4

(***************************************************************************)
(* The reader view: lines that are rendered.                               *)
(***************************************************************************)
\* Markup as far as it is written: lists are not nested, items are in lists and other blocks
\* are not, and inList says whether a list is open.
Markup == {"<ul>", "</ul>", "li", "br", "p"}
Framed == {st \in [out : Seq(Markup), inList : BOOLEAN] :
             /\ ListOpen(st.out, Len(st.out) + 1) = IF st.inList THEN 1 ELSE 0
             /\ \A n \in 1..Len(st.out) :
                  ListOpen(st.out, n) = IF st.out[n] \in {"li", "</ul>"} THEN 1 ELSE 0}

\* How often a mark occurs before a place.
Marks(html, x, n) == {m \in 1..(n - 1) : html[m] = x}

\* A mark that is put at the end counts there and nowhere before.
LEMMA MarksGrow ==
    ASSUME NEW html \in Seq(Markup), NEW x \in Markup, NEW y \in Markup
    PROVE  /\ \A n \in 1..(Len(html) + 1) :
                Cardinality(Marks(Append(html, y), x, n)) = Cardinality(Marks(html, x, n))
           /\ Cardinality(Marks(Append(html, y), x, Len(html) + 2))
                = Cardinality(Marks(html, x, Len(html) + 1)) + IF x = y THEN 1 ELSE 0
           /\ \A n \in 1..(Len(html) + 1) : Cardinality(Marks(html, x, n)) \in Nat
  <1> DEFINE len == Len(html)
             more == Append(html, y)
  <1>1. len \in Nat /\ more[len + 1] = y /\ \A m \in 1..len : more[m] = html[m]
    OBVIOUS
  <1>2. ASSUME NEW n \in 1..(len + 1) PROVE Marks(more, x, n) = Marks(html, x, n)
    <2>1. \A m \in 1..(n - 1) : m \in 1..len
      BY <1>1
    <2> HIDE DEF more
    <2> QED  BY <1>1, <2>1 DEF Marks
  <1>3. ASSUME NEW n \in 1..(len + 1)
        PROVE  IsFiniteSet(Marks(html, x, n)) /\ Cardinality(Marks(html, x, n)) \in Nat
    <2>1. IsFiniteSet(1..(n - 1))
      BY <1>1, FS_Interval
    <2>2. Marks(html, x, n) \subseteq 1..(n - 1)
      BY DEF Marks
    <2> QED  BY <2>1, <2>2, FS_Subset, FS_CardinalityType
  <1>4. Marks(more, x, len + 2) = Marks(html, x, len + 1) \cup (IF x = y THEN {len + 1} ELSE {})
    <2>1. \A m : m \in 1..(len + 2 - 1) <=> m \in 1..(len + 1 - 1) \/ m = len + 1
      BY <1>1
    <2>2. \A m \in 1..(len + 1 - 1) : more[m] = html[m] /\ m # len + 1
      BY <1>1
    <2> HIDE DEF more, len
    <2> QED  BY <1>1, <2>1, <2>2 DEF Marks
  <1>5. len + 1 \notin Marks(html, x, len + 1) /\ len + 1 \in 1..(len + 1)
    BY <1>1 DEF Marks
  <1>6. Cardinality(Marks(more, x, len + 2))
          = Cardinality(Marks(html, x, len + 1)) + IF x = y THEN 1 ELSE 0
    <2>1. CASE x = y
      <3>1. Marks(more, x, len + 2) = Marks(html, x, len + 1) \cup {len + 1}
        BY <1>4, <2>1
      <3> HIDE DEF more, len
      <3> QED  BY <1>3, <1>5, <2>1, <3>1, FS_AddElement
    <2>2. CASE x # y
      <3>1. Marks(more, x, len + 2) = Marks(html, x, len + 1)
        BY <1>4, <2>2
      <3> HIDE DEF more, len
      <3> QED  BY <1>3, <1>5, <2>2, <3>1
    <2> QED  BY <2>1, <2>2
  <1> QED  BY <1>2, <1>3, <1>6

\* A list is open when more were opened than closed.
LEMMA ListOpenIs ==
    ASSUME NEW html, NEW n
    PROVE  ListOpen(html, n)
             = Cardinality(Marks(html, "<ul>", n)) - Cardinality(Marks(html, "</ul>", n))
  BY DEF ListOpen, Marks

\* A mark that fits where it is put.
LEMMA MarkFits ==
    ASSUME NEW st \in Framed, NEW y \in Markup, st.inList <=> y \in {"li", "</ul>"},
           NEW b \in BOOLEAN, b <=> y \in {"li", "<ul>"}
    PROVE  [out |-> Append(st.out, y), inList |-> b] \in Framed
  <1> DEFINE html == st.out
             len == Len(html)
             more == Append(html, y)
  <1>1. html \in Seq(Markup) /\ len \in Nat
    BY DEF Framed
  <1>2. more \in Seq(Markup) /\ Len(more) = len + 1 /\ more[len + 1] = y
        /\ \A m \in 1..len : more[m] = html[m]
    BY <1>1
  <1>3. /\ ListOpen(html, len + 1) = IF st.inList THEN 1 ELSE 0
        /\ \A n \in 1..len : ListOpen(html, n) = IF html[n] \in {"li", "</ul>"} THEN 1 ELSE 0
    BY DEF Framed
  <1> HIDE DEF html, len, more
  <1>4. \A n \in 1..(len + 1) : ListOpen(more, n) = ListOpen(html, n)
    <2>1. "<ul>" \in Markup /\ "</ul>" \in Markup
      BY DEF Markup
    <2> QED  BY <1>1, <2>1, MarksGrow, ListOpenIs DEF more, len
  <1>5. ListOpen(more, len + 2)
          = ListOpen(html, len + 1) + (IF y = "<ul>" THEN 1 ELSE IF y = "</ul>" THEN -1 ELSE 0)
    <2>1. "<ul>" \in Markup /\ "</ul>" \in Markup /\ len + 1 \in 1..(len + 1)
      BY <1>1 DEF Markup
    <2>2. /\ Cardinality(Marks(more, "<ul>", len + 2))
               = Cardinality(Marks(html, "<ul>", len + 1)) + IF "<ul>" = y THEN 1 ELSE 0
          /\ Cardinality(Marks(html, "<ul>", len + 1)) \in Nat
      BY <1>1, <2>1, MarksGrow DEF more, len
    <2>3. /\ Cardinality(Marks(more, "</ul>", len + 2))
               = Cardinality(Marks(html, "</ul>", len + 1)) + IF "</ul>" = y THEN 1 ELSE 0
          /\ Cardinality(Marks(html, "</ul>", len + 1)) \in Nat
      BY <1>1, <2>1, MarksGrow DEF more, len
    <2> QED  BY <2>2, <2>3, ListOpenIs
  <1>6. ListOpen(more, Len(more) + 1) = IF b THEN 1 ELSE 0
    <2>1. Len(more) + 1 = len + 2
      BY <1>1, <1>2
    <2> QED  BY <1>3, <1>5, <2>1 DEF Markup
  <1>7. ASSUME NEW n \in 1..Len(more)
        PROVE  ListOpen(more, n) = IF more[n] \in {"li", "</ul>"} THEN 1 ELSE 0
    <2>1. n \in 1..len \/ n = len + 1
      BY <1>1, <1>2
    <2>2. n \in 1..(len + 1)
      BY <1>2
    <2> QED  BY <1>2, <1>3, <1>4, <2>1, <2>2
  <1>8. [out |-> more, inList |-> b] \in Framed
    BY <1>2, <1>6, <1>7 DEF Framed
  <1> QED  BY <1>8 DEF more, html

\* Closing the list, if one is open, leaves none open.
LEMMA FramedClose ==
    ASSUME NEW st \in Framed
    PROVE  Close(st) \in Framed /\ ~Close(st).inList /\ Close(st).inList \in BOOLEAN
  <1>1. st.inList \in BOOLEAN /\ "</ul>" \in Markup
    BY DEF Framed, Markup
  <1>2. CASE st.inList
    <2>1. [out |-> Append(st.out, "</ul>"), inList |-> FALSE] \in Framed
      BY <1>1, <1>2, MarkFits
    <2> QED  BY <1>2, <2>1 DEF Close
  <1>3. CASE ~st.inList
    BY <1>1, <1>3 DEF Close
  <1> QED  BY <1>2, <1>3

\* Opening a list, if none is open, leaves one open.
LEMMA FramedOpen ==
    ASSUME NEW st \in Framed
    PROVE  Open(st) \in Framed /\ Open(st).inList
  <1>1. st.inList \in BOOLEAN /\ "<ul>" \in Markup
    BY DEF Framed, Markup
  <1>2. CASE ~st.inList
    <2>1. [out |-> Append(st.out, "<ul>"), inList |-> TRUE] \in Framed
      BY <1>1, <1>2, MarkFits
    <2> QED  BY <1>2, <2>1 DEF Open
  <1>3. CASE st.inList
    BY <1>1, <1>3 DEF Open
  <1> QED  BY <1>2, <1>3

\* A mark that leaves the list open or closed, as it is.
LEMMA MarkPut ==
    ASSUME NEW st \in Framed, NEW y \in {"li", "br", "p"}, st.inList <=> y = "li"
    PROVE  [st EXCEPT !.out = Append(@, y)] \in Framed
  <1>1. st.inList \in BOOLEAN /\ st = [out |-> st.out, inList |-> st.inList] /\ y \in Markup
    BY DEF Framed, Markup
  <1>2. [out |-> Append(st.out, y), inList |-> st.inList] \in Framed
    BY <1>1, MarkFits
  <1>3. [st EXCEPT !.out = Append(@, y)] = [out |-> Append(st.out, y), inList |-> st.inList]
    BY <1>1
  <1> QED  BY <1>2, <1>3

\* Every line keeps the markup framed (reader_text_to_html).
LEMMA RenderFramed ==
    ASSUME NEW st \in Framed, NEW line \in Line
    PROVE  RenderReader(st, line) \in Framed
  <1>1. line.k \in {"text", "item", "blank", "open", "close"}
    BY DEF Line
  <1>2. CASE line.k = "open"
    BY <1>2, FramedOpen DEF RenderReader, RenderLine
  <1>3. CASE line.k = "close"
    BY <1>3, FramedClose DEF RenderReader, RenderLine
  <1>4. CASE line.k = "item"
    <2> DEFINE o == Open(st)
    <2>1. o \in Framed /\ o.inList
      BY FramedOpen
    <2>2. RenderReader(st, line) = [o EXCEPT !.out = Append(@, "li")]
      BY <1>4 DEF RenderReader, RenderLine
    <2> HIDE DEF o
    <2> QED  BY <2>1, <2>2, MarkPut
  <1>5. CASE line.k = "blank"
    <2>1. RenderReader(st, line) = IF st.inList THEN st ELSE [st EXCEPT !.out = Append(@, "br")]
      BY <1>5 DEF RenderReader, RenderLine
    <2>2. CASE ~st.inList
      BY <2>1, <2>2, MarkPut
    <2> QED  BY <2>1, <2>2
  <1>6. CASE line.k = "text"
    <2> DEFINE c == Close(st)
    <2>1. c \in Framed /\ ~c.inList
      BY FramedClose
    <2>2. RenderReader(st, line) = [c EXCEPT !.out = Append(@, "p")]
      BY <1>6 DEF RenderReader, RenderLine
    <2> HIDE DEF c
    <2> QED  BY <2>1, <2>2, MarkPut
  <1> QED  BY <1>1, <1>2, <1>3, <1>4, <1>5, <1>6

\* So do all of them.
LEMMA RenderedFramed ==
    ASSUME NEW lines \in Seq(Line)
    PROVE  FoldLeft(RenderReader, [out |-> << >>, inList |-> FALSE], lines) \in Framed
  <1> DEFINE n == Len(lines)
             start == [out |-> << >>, inList |-> FALSE]
             G == [p \in Framed \X (1..n) |-> RenderReader(p[1], lines[p[2]])]
  <1>1. n \in Nat /\ DOMAIN lines = 1..n /\ \A k \in 1..n : lines[k] \in Line
    OBVIOUS
  <1>2. start \in Framed
    <2>1. Marks(<< >>, "<ul>", 1) = {} /\ Marks(<< >>, "</ul>", 1) = {}
      BY DEF Marks
    <2>2. ListOpen(<< >>, 1) = 0
      <3>1. Cardinality(Marks(<< >>, "<ul>", 1)) = 0 /\ Cardinality(Marks(<< >>, "</ul>", 1)) = 0
        BY <2>1, FS_EmptySet
      <3>2. ListOpen(<< >>, 1)
              = Cardinality(Marks(<< >>, "<ul>", 1)) - Cardinality(Marks(<< >>, "</ul>", 1))
        BY ListOpenIs
      <3> QED  BY <3>1, <3>2
    <2>3. << >> \in Seq(Markup) /\ Len(<< >>) = 0
      OBVIOUS
    <2> QED  BY <2>2, <2>3 DEF Framed
  <1>3. PICK it : IsFold(it, Framed, G, start, n)
    <2>1. \A x \in Framed \X (1..n) : RenderReader(x[1], lines[x[2]]) \in Framed
      BY <1>1, RenderFramed
    <2>2. G \in [Framed \X (1..n) -> Framed]
      BY <2>1
    <2> HIDE DEF G, start
    <2> QED  BY <1>1, <1>2, <2>2, FoldsExist
  <1> DEFINE Solves(f) ==
               f = [s \in SUBSET (1..n) |->
                      IF s = {} THEN start ELSE RenderReader(f[s \ {Top(s)}], lines[Top(s)])]
             sol == CHOOSE f : Solves(f)
  <1>4. FoldLeft(RenderReader, start, lines) = sol[1..n]
    BY <1>1 DEF FoldLeft, MapThenFoldSet, Max, Top
  <1> HIDE DEF start
  <1>5. ASSUME NEW s \in SUBSET (1..n)
        PROVE  it[s] = IF s = {} THEN start ELSE RenderReader(it[s \ {Top(s)}], lines[Top(s)])
    <2>1. CASE s = {}
      BY <1>3, <2>1 DEF IsFold
    <2>2. CASE s # {}
      <3>1. Top(s) \in 1..n
        BY <1>1, <2>2, TopIsIn
      <3>2. it[s \ {Top(s)}] \in Framed
        BY <1>3 DEF IsFold
      <3>3. it[s] = G[<<it[s \ {Top(s)}], Top(s)>>]
        BY <1>3, <2>2 DEF IsFold
      <3> QED  BY <2>2, <3>1, <3>2, <3>3
    <2> QED  BY <2>1, <2>2
  <1>6. Solves(it)
    <2>1. it \in [SUBSET (1..n) -> Framed]
      BY <1>3 DEF IsFold
    <2> QED  BY <1>5, <2>1
  <1>7. Solves(sol)
    BY <1>6
  <1> HIDE DEF sol
  <1> DEFINE Bad == {j \in Nat : j <= n /\ sol[1..j] \notin Framed}
  <1>8. CASE Bad # {}
    <2>1. PICK j \in Bad : \A i \in Bad : j <= i
      <3>1. Bad \subseteq Nat
        OBVIOUS
      <3> HIDE DEF Bad
      <3> QED  BY <1>8, <3>1, LeastNumber
    <2>2. j # 0
      <3>1. 1..0 = {} /\ {} \in SUBSET (1..n)
        OBVIOUS
      <3>2. sol[1..0] = start
        BY <1>7, <3>1
      <3> QED  BY <1>2, <2>1, <3>2
    <2>3. j \in 1..n /\ j - 1 \in Nat /\ j - 1 <= n /\ ~ (j <= j - 1)
      BY <1>1, <2>1, <2>2
    <2>4. 1..j \in SUBSET (1..n) /\ 1..j # {} /\ j \in 1..j /\ (1..j) \ {j} = 1..(j - 1)
      <3>1. \A i \in 1..j : i \in 1..n
        BY <1>1, <2>3
      <3>2. (1..j) \ {j} = 1..(j - 1) /\ j \in 1..j
        BY <2>3
      <3> QED  BY <3>1, <3>2
    <2>5. Top(1..j) = j
      BY <2>1, <2>4, TopIs
    <2>6. sol[1..j] = RenderReader(sol[1..(j - 1)], lines[j])
      BY <1>7, <2>4, <2>5
    <2>7. sol[1..(j - 1)] \in Framed
      BY <2>1, <2>3
    <2>8. sol[1..j] \in Framed
      BY <1>1, <2>3, <2>6, <2>7, RenderFramed
    <2> QED  BY <2>1, <2>8
  <1>9. CASE Bad = {}
    <2>1. n \notin Bad /\ n \in Nat
      BY <1>1, <1>9
    <2>2. sol[1..n] \in Framed
      BY <2>1
    <2> QED  BY <1>4, <2>2 DEF start
  <1> QED  BY <1>8, <1>9

\* The reader view is well formed (reader_text_to_html, clean_reader_text).
LEMMA ReaderIsFramed ==
    ASSUME NEW lines \in Seq(Line)
    PROVE  /\ CleanReaderText(CleanReaderText(lines)) = CleanReaderText(lines)
           /\ LET html == ReaderHtml(lines)
              IN  /\ ListOpen(html, Len(html) + 1) = 0
                  /\ \A n \in DOMAIN html :
                       ListOpen(html, n) = IF html[n] \in {"li", "</ul>"} THEN 1 ELSE 0
  <1> DEFINE clean == CleanReaderText(lines)
             html == ReaderHtml(lines)
  <1>1. clean \in Seq(Line) /\ Neat(clean)
    BY CleanIsNeat
  <1> HIDE DEF clean
  <1>2. CleanReaderText(clean) = clean
    BY <1>1, NeatStays
  <1> DEFINE end == FoldLeft(RenderReader, [out |-> << >>, inList |-> FALSE], clean)
  <1>3. end \in Framed
    BY <1>1, RenderedFramed
  <1>4. html = Close(end).out
    BY DEF ReaderHtml, clean
  <1> HIDE DEF end, html
  <1>5. Close(end) \in Framed /\ ~Close(end).inList
    BY <1>3, FramedClose
  <1>6. /\ html \in Seq(Markup) /\ ListOpen(html, Len(html) + 1) = 0
        /\ \A n \in 1..Len(html) : ListOpen(html, n) = IF html[n] \in {"li", "</ul>"} THEN 1 ELSE 0
    BY <1>4, <1>5 DEF Framed
  <1>7. DOMAIN html = 1..Len(html)
    BY <1>6
  <1> QED  BY <1>2, <1>6, <1>7 DEF clean, html

(***************************************************************************)
(* The HTML body: elements that are dropped.                               *)
(***************************************************************************)
\* Dropped elements that start and end from i to n, and how many more start.
StartsIn(tokens, i, n) == {m \in i..n : tokens[m].k = "start" /\ tokens[m].tag \in Dropped}
EndsIn(tokens, i, n) == {m \in i..n : tokens[m].k = "end" /\ tokens[m].tag \in Dropped}
Depth(tokens, i, n) == Cardinality(StartsIn(tokens, i, n)) - Cardinality(EndsIn(tokens, i, n))

\* An element is closed where its depth is first back at 0.
LEMMA ClosesIs ==
    ASSUME NEW tokens, NEW i, NEW j
    PROVE  Closes(tokens, i, j) <=>
             /\ i < j /\ tokens[j].tag = tokens[i].tag
             /\ tokens[i].k = "start" /\ tokens[j].k = "end"
             /\ Depth(tokens, i, j) = 0 /\ \A n \in i..(j - 1) : Depth(tokens, i, n) > 0
  <1>1. \A n : Depth(tokens, i, n) =
          Cardinality({m \in i..n : tokens[m].k = "start" /\ tokens[m].tag \in Dropped})
          - Cardinality({m \in i..n : tokens[m].k = "end" /\ tokens[m].tag \in Dropped})
    BY DEF Depth, StartsIn, EndsIn
  <1> QED  BY <1>1 DEF Closes

\* Counts add up over two stretches that follow one another.
Within(T, a, b) == {m \in a..b : m \in T}

\* The count of a stretch is that of its two parts, ...
LEMMA CountsAdd ==
    ASSUME NEW i \in Nat, NEW j \in Nat, NEW n \in Nat, i <= j, j <= n, NEW T
    PROVE  Cardinality(Within(T, i, n))
             = Cardinality(Within(T, i, j - 1)) + Cardinality(Within(T, j, n))
  <1>1. IsFiniteSet(Within(T, i, j - 1)) /\ IsFiniteSet(Within(T, j, n))
    <2>1. IsFiniteSet(i..(j - 1)) /\ IsFiniteSet(j..n)
      BY FS_Interval
    <2> QED  BY <2>1, FS_Subset DEF Within
  <1>2. Within(T, i, n) = Within(T, i, j - 1) \cup Within(T, j, n)
    <2>1. \A m : m \in i..n <=> m \in i..(j - 1) \/ m \in j..n
      OBVIOUS
    <2> QED  BY <2>1 DEF Within
  <1>3. Within(T, i, j - 1) \cap Within(T, j, n) = {}
    BY DEF Within
  <1>4. Cardinality(Within(T, i, n))
          = Cardinality(Within(T, i, j - 1)) + Cardinality(Within(T, j, n)) - Cardinality({})
    BY <1>1, <1>2, <1>3, FS_Union
  <1>5. /\ Cardinality(Within(T, i, j - 1)) \in Nat
        /\ Cardinality(Within(T, j, n)) \in Nat /\ Cardinality({}) = 0
    BY <1>1, FS_CardinalityType, FS_EmptySet
  <1> QED  BY <1>4, <1>5

\* ... and so is its depth.
LEMMA DepthsAdd ==
    ASSUME NEW tokens, NEW i \in Nat, NEW j \in Nat, NEW n \in Nat, i <= j, j <= n
    PROVE  /\ Depth(tokens, i, n) = Depth(tokens, i, j - 1) + Depth(tokens, j, n)
           /\ Depth(tokens, i, j - 1) \in Int /\ Depth(tokens, j, n) \in Int
  <1> DEFINE T == {m \in Nat : tokens[m].k = "start" /\ tokens[m].tag \in Dropped}
             U == {m \in Nat : tokens[m].k = "end" /\ tokens[m].tag \in Dropped}
  <1>1. ASSUME NEW a \in Nat, NEW b \in Int
        PROVE  /\ Depth(tokens, a, b) = Cardinality(Within(T, a, b)) - Cardinality(Within(U, a, b))
               /\ Cardinality(Within(T, a, b)) \in Nat /\ Cardinality(Within(U, a, b)) \in Nat
    <2>1. StartsIn(tokens, a, b) = Within(T, a, b) /\ EndsIn(tokens, a, b) = Within(U, a, b)
      <3>1. \A m \in a..b : m \in Nat
        OBVIOUS
      <3> QED  BY <3>1 DEF StartsIn, EndsIn, Within
    <2>2. IsFiniteSet(a..b) /\ Within(T, a, b) \subseteq a..b /\ Within(U, a, b) \subseteq a..b
      BY FS_Interval DEF Within
    <2>3. Cardinality(Within(T, a, b)) \in Nat /\ Cardinality(Within(U, a, b)) \in Nat
      BY <2>2, FS_Subset, FS_CardinalityType
    <2> QED  BY <2>1, <2>3 DEF Depth
  <1> HIDE DEF T, U
  <1>2. Cardinality(Within(T, i, n)) = Cardinality(Within(T, i, j - 1)) + Cardinality(Within(T, j, n))
    BY CountsAdd
  <1>3. Cardinality(Within(U, i, n)) = Cardinality(Within(U, i, j - 1)) + Cardinality(Within(U, j, n))
    BY CountsAdd
  <1>4. n \in Int /\ j - 1 \in Int
    OBVIOUS
  <1>5. /\ Depth(tokens, i, n) = Cardinality(Within(T, i, n)) - Cardinality(Within(U, i, n))
        /\ Depth(tokens, i, j - 1) = Cardinality(Within(T, i, j - 1)) - Cardinality(Within(U, i, j - 1))
        /\ Depth(tokens, j, n) = Cardinality(Within(T, j, n)) - Cardinality(Within(U, j, n))
        /\ Cardinality(Within(T, i, j - 1)) \in Nat /\ Cardinality(Within(U, i, j - 1)) \in Nat
        /\ Cardinality(Within(T, j, n)) \in Nat /\ Cardinality(Within(U, j, n)) \in Nat
    BY <1>1, <1>4
  <1> QED  BY <1>2, <1>3, <1>5

\* Elements that are closed are nested: one that starts within another ends before it.
LEMMA Nested ==
    ASSUME NEW tokens, NEW i \in Nat, NEW j \in Nat, NEW i2 \in Nat, NEW j2 \in Nat,
           Closes(tokens, i, j), Closes(tokens, i2, j2), i < i2, i2 < j
    PROVE  j2 < j
  <1> SUFFICES ASSUME j <= j2 PROVE FALSE
    OBVIOUS
  <1>1. Depth(tokens, i, j) = 0 /\ \A n \in i..(j - 1) : Depth(tokens, i, n) > 0
    BY ClosesIs
  <1>2. Depth(tokens, i2, j2) = 0 /\ \A n \in i2..(j2 - 1) : Depth(tokens, i2, n) > 0
    BY ClosesIs
  <1>3. i2 - 1 \in i..(j - 1) /\ (j = j2 \/ j \in i2..(j2 - 1)) /\ i <= i2 /\ i2 <= j
    OBVIOUS
  <1>4. /\ Depth(tokens, i, j) = Depth(tokens, i, i2 - 1) + Depth(tokens, i2, j)
        /\ Depth(tokens, i, i2 - 1) \in Int /\ Depth(tokens, i2, j) \in Int
    BY <1>3, DepthsAdd
  <1>5. Depth(tokens, i, i2 - 1) > 0 /\ (Depth(tokens, i2, j) = 0 \/ Depth(tokens, i2, j) > 0)
    BY <1>1, <1>2, <1>3
  <1> QED  BY <1>1, <1>4, <1>5

\* and each ends once.
LEMMA ClosedOnce ==
    ASSUME NEW tokens, NEW i \in Nat, NEW j \in Nat, NEW j2 \in Nat,
           Closes(tokens, i, j), Closes(tokens, i, j2)
    PROVE  j = j2
  <1>1. /\ i < j /\ Depth(tokens, i, j) = 0 /\ \A n \in i..(j - 1) : Depth(tokens, i, n) > 0
        /\ i < j2 /\ Depth(tokens, i, j2) = 0 /\ \A n \in i..(j2 - 1) : Depth(tokens, i, n) > 0
    BY ClosesIs
  <1>2. CASE j < j2
    <2>1. j \in i..(j2 - 1)
      BY <1>1, <1>2
    <2> QED  BY <1>1, <2>1
  <1>3. CASE j2 < j
    <2>1. j2 \in i..(j - 1)
      BY <1>1, <1>3
    <2> QED  BY <1>1, <2>1
  <1> QED  BY <1>2, <1>3

\* Skipping, token by token.
SkipStates == [skip : Seq(Dropped), kept : SUBSET Nat]
NothingSkipped == [skip |-> << >>, kept |-> {}]
SkipRun(at, tokens) ==
    /\ at \in [0..Len(tokens) -> SkipStates] /\ at[0] = NothingSkipped
    /\ \A k \in 1..Len(tokens) : at[k] = HandleToken(at[k - 1], tokens[k], k)

\* What a token does to what is skipped and kept.
TokenDoes(st, t, i, to) ==
    /\ t.k = "start" /\ t.tag \in Dropped =>
         to.skip = Append(st.skip, t.tag) /\ to.kept = st.kept
    /\ t.k = "end" /\ st.skip # << >> /\ t.tag = st.skip[Len(st.skip)] =>
         to.skip = SubSeq(st.skip, 1, Len(st.skip) - 1) /\ to.kept = st.kept
    /\ t.k = "text" =>
         to.skip = st.skip /\ to.kept = IF st.skip = << >> THEN st.kept \cup {i} ELSE st.kept
    /\ t.k = "both" \/ (t.k \in {"start", "end"} /\ t.tag \notin Dropped) => to = st

\* What HandleToken does with a token, kind by kind.
LEMMA TokenIsHandled ==
    ASSUME NEW st \in SkipStates, NEW t \in Token, NEW i \in Nat
    PROVE  HandleToken(st, t, i) \in SkipStates /\ TokenDoes(st, t, i, HandleToken(st, t, i))
  <1> DEFINE to == HandleToken(st, t, i)
  <1>1. /\ st.skip \in Seq(Dropped) /\ st.kept \in SUBSET Nat
        /\ st = [skip |-> st.skip, kept |-> st.kept]
    BY DEF SkipStates
  <1>2. \A s \in Seq(Dropped), ks \in SUBSET Nat : [skip |-> s, kept |-> ks] \in SkipStates
    BY DEF SkipStates
  <1>3. st.skip # << >> =>
          /\ st.skip[Len(st.skip)] \in Dropped
          /\ SubSeq(st.skip, 1, Len(st.skip) - 1) \in Seq(Dropped)
    <2>1. ASSUME st.skip # << >>
          PROVE  Len(st.skip) \in 1..Len(st.skip) /\ \A m \in 1..(Len(st.skip) - 1) : m \in 1..Len(st.skip)
      BY <1>1, <2>1
    <2> QED  BY <1>1, <2>1
  <1>4. CASE t.k = "start" /\ t.tag \in Dropped
    <2>1. to = [st EXCEPT !.skip = Append(@, t.tag)]
      BY <1>4 DEF HandleToken, SkipStep
    <2>2. to = [skip |-> Append(st.skip, t.tag), kept |-> st.kept]
      BY <1>1, <2>1
    <2> HIDE DEF to
    <2>3. Append(st.skip, t.tag) \in Seq(Dropped)
      BY <1>1, <1>4
    <2>9. to \in SkipStates /\ TokenDoes(st, t, i, to)
      BY <1>1, <1>2, <1>4, <2>2, <2>3 DEF TokenDoes
    <2> QED  BY <2>9 DEF to
  <1>5. CASE t.k = "end" /\ st.skip # << >> /\ t.tag = st.skip[Len(st.skip)]
    <2>1. to = [st EXCEPT !.skip = Front(@)]
      BY <1>5 DEF HandleToken, SkipStep
    <2>2. to = [skip |-> SubSeq(st.skip, 1, Len(st.skip) - 1), kept |-> st.kept]
      BY <1>1, <2>1 DEF Front
    <2> HIDE DEF to
    <2>9. to \in SkipStates /\ TokenDoes(st, t, i, to)
      BY <1>1, <1>2, <1>3, <1>5, <2>2 DEF TokenDoes
    <2> QED  BY <2>9 DEF to
  <1>6. CASE t.k = "text" /\ st.skip = << >>
    <2>1. to = [st EXCEPT !.kept = @ \cup {i}]
      BY <1>6 DEF HandleToken, SkipStep
    <2>2. to = [skip |-> st.skip, kept |-> st.kept \cup {i}]
      BY <1>1, <2>1
    <2> HIDE DEF to
    <2>3. st.kept \cup {i} \in SUBSET Nat
      BY <1>1
    <2>9. to \in SkipStates /\ TokenDoes(st, t, i, to)
      BY <1>1, <1>2, <1>6, <2>2, <2>3 DEF TokenDoes
    <2> QED  BY <2>9 DEF to
  <1>7. CASE /\ ~(t.k = "start" /\ t.tag \in Dropped)
             /\ ~(t.k = "end" /\ st.skip # << >> /\ t.tag = st.skip[Len(st.skip)])
             /\ ~(t.k = "text" /\ st.skip = << >>)
    <2>1. to = st
      BY <1>7 DEF HandleToken, SkipStep
    <2> HIDE DEF to
    <2>9. to \in SkipStates /\ TokenDoes(st, t, i, to)
      BY <1>3, <1>7, <2>1 DEF TokenDoes
    <2> QED  BY <2>9 DEF to
  <1> QED  BY <1>4, <1>5, <1>6, <1>7

\* EmailHtmlSanitizer and EmailTextExtractor pass from token to token.
LEMMA SkipSteps ==
    ASSUME NEW tokens \in Seq(Token)
    PROVE  \E at : SkipRun(at, tokens) /\ TextsKept(tokens) = at[Len(tokens)].kept
  <1> DEFINE n == Len(tokens)
             G == [p \in SkipStates \X (1..n) |-> HandleToken(p[1], tokens[p[2]], p[2])]
             places == [i \in DOMAIN tokens |-> i]
  <1>1. n \in Nat /\ DOMAIN tokens = 1..n /\ \A k \in 1..n : tokens[k] \in Token
    OBVIOUS
  <1>2. G \in [SkipStates \X (1..n) -> SkipStates] /\ NothingSkipped \in SkipStates
    <2>1. NothingSkipped \in SkipStates
      BY DEF SkipStates, NothingSkipped
    <2>2. \A x \in SkipStates \X (1..n) : HandleToken(x[1], tokens[x[2]], x[2]) \in SkipStates
      <3> SUFFICES ASSUME NEW st \in SkipStates, NEW k \in 1..n
                   PROVE  HandleToken(st, tokens[k], k) \in SkipStates
        OBVIOUS
      <3>1. k \in Nat /\ tokens[k] \in Token
        BY <1>1
      <3> QED  BY <3>1, TokenIsHandled
    <2> QED  BY <2>1, <2>2
  <1>3. PICK it : IsFold(it, SkipStates, G, NothingSkipped, n)
    <2> HIDE DEF G
    <2> QED  BY <1>1, <1>2, FoldsExist
  <1> DEFINE Solves(f) ==
               f = [s \in SUBSET (1..n) |->
                      IF s = {} THEN NothingSkipped
                      ELSE HandleToken(f[s \ {Top(s)}], tokens[places[Top(s)]], places[Top(s)])]
             sol == CHOOSE f : Solves(f)
  <1>4. TextsKept(tokens) = sol[1..n].kept
    <2>1. DOMAIN places = 1..n
      BY <1>1
    <2>2. TextsKept(tokens) =
            FoldLeft(LAMBDA st, i : HandleToken(st, tokens[i], i), NothingSkipped, places).kept
      BY DEF TextsKept, FoldLeftDomain, NothingSkipped
    <2> HIDE DEF places
    <2> QED  BY <2>1, <2>2 DEF FoldLeft, MapThenFoldSet, Max, Top
  <1>a. \A k \in 1..n : places[k] = k
    BY <1>1
  <1> HIDE DEF places
  <1>5. ASSUME NEW s \in SUBSET (1..n)
        PROVE  it[s] = IF s = {} THEN NothingSkipped
                       ELSE HandleToken(it[s \ {Top(s)}], tokens[places[Top(s)]], places[Top(s)])
    <2>1. CASE s = {}
      BY <1>3, <2>1 DEF IsFold
    <2>2. CASE s # {}
      <3>1. Top(s) \in 1..n
        BY <1>1, <2>2, TopIsIn
      <3>2. it[s \ {Top(s)}] \in SkipStates
        BY <1>3 DEF IsFold
      <3>3. it[s] = G[<<it[s \ {Top(s)}], Top(s)>>]
        BY <1>3, <2>2 DEF IsFold
      <3> QED  BY <1>a, <2>2, <3>1, <3>2, <3>3
    <2> QED  BY <2>1, <2>2
  <1>6. Solves(it)
    <2>1. it \in [SUBSET (1..n) -> SkipStates]
      BY <1>3 DEF IsFold
    <2> QED  BY <1>5, <2>1
  <1>7. Solves(sol)
    BY <1>6
  <1> DEFINE at == [k \in 0..n |-> sol[1..k]]
  <1> HIDE DEF sol
  <1>8. at[0] = NothingSkipped
    <2>1. 1..0 = {} /\ 0 \in 0..n /\ {} \in SUBSET (1..n)
      BY <1>1
    <2> QED  BY <1>7, <2>1
  <1>9. ASSUME NEW k \in 1..n PROVE at[k] = HandleToken(at[k - 1], tokens[k], k)
    <2>1. /\ 1..k \in SUBSET (1..n) /\ 1..k # {} /\ k \in 1..k /\ k \in Nat
          /\ (1..k) \ {k} = 1..(k - 1) /\ k \in 0..n /\ k - 1 \in 0..n
      <3>1. k \in Nat /\ 1 <= k /\ k <= n
        BY <1>1
      <3>2. (1..k) \ {k} = 1..(k - 1)
        BY <3>1
      <3>3. \A i \in 1..k : i \in 1..n
        BY <3>1
      <3>4. k \in 1..k /\ k \in 0..n /\ k - 1 \in 0..n
        BY <3>1
      <3> QED  BY <1>1, <3>1, <3>2, <3>3, <3>4
    <2>2. Top(1..k) = k
      BY <2>1, TopIs
    <2>3. sol[1..k] = HandleToken(sol[1..(k - 1)], tokens[places[k]], places[k])
      BY <1>7, <2>1, <2>2
    <2>4. at[k] = sol[1..k] /\ at[k - 1] = sol[1..(k - 1)] /\ places[k] = k
      BY <1>a, <2>1
    <2> HIDE DEF at
    <2> QED  BY <2>3, <2>4
  <1>10. at[n] = sol[1..n]
    BY <1>1
  <1>11. ASSUME NEW k \in 0..n PROVE at[k] \in SkipStates
    <2> DEFINE Bad == {j \in Nat : j <= n /\ at[j] \notin SkipStates}
    <2>1. CASE Bad # {}
      <3>1. PICK j \in Bad : \A i \in Bad : j <= i
        <4>1. Bad \subseteq Nat
          OBVIOUS
        <4> HIDE DEF Bad
        <4> QED  BY <2>1, <4>1, LeastNumber
      <3>2. j # 0
        BY <1>2, <1>8, <3>1
      <3>3. j \in 1..n /\ j - 1 \in Nat /\ j - 1 <= n /\ ~ (j <= j - 1) /\ j \in Nat
        BY <1>1, <3>1, <3>2
      <3>4. at[j - 1] \in SkipStates
        BY <3>1, <3>3
      <3>5. at[j] \in SkipStates
        <4>1. at[j] = HandleToken(at[j - 1], tokens[j], j) /\ tokens[j] \in Token
          BY <1>1, <1>9, <3>3
        <4> HIDE DEF at
        <4> QED  BY <3>3, <3>4, <4>1, TokenIsHandled
      <3> QED  BY <3>1, <3>5
    <2> QED  BY <1>1, <2>1
  <1>12. SkipRun(at, tokens)
    BY <1>8, <1>9, <1>11 DEF SkipRun
  <1> HIDE DEF at
  <1> QED  BY <1>4, <1>10, <1>12

\* The dropped elements that are open after k tokens; what is kept of these.
Pending(tokens, k) ==
    {i \in 1..k : /\ tokens[i].tag \in Dropped
                  /\ \E j \in DOMAIN tokens : j > k /\ Closes(tokens, i, j)}
Shut(tokens, t) ==
    \E i, j \in DOMAIN tokens : /\ i < t /\ t < j
                                /\ tokens[i].tag \in Dropped /\ Closes(tokens, i, j)
KeptOf(tokens, k) == {t \in 1..k : tokens[t].k = "text" /\ ~Shut(tokens, t)}

\* idx has the places where the elements skipped start, in order.
Opened(tokens, k, skip, idx) ==
    /\ idx \in Seq(Nat) /\ Len(idx) = Len(skip)
    /\ \A m \in 1..Len(idx) : idx[m] \in Pending(tokens, k) /\ skip[m] = tokens[idx[m]].tag
    /\ \A i \in Pending(tokens, k) : \E m \in 1..Len(idx) : idx[m] = i
    /\ \A m, l \in 1..Len(idx) : m < l => idx[m] < idx[l]
Carried(tokens, k, st) ==
    (\E idx : Opened(tokens, k, st.skip, idx)) /\ st.kept = KeptOf(tokens, k)

\* What is open after a token.
LEMMA PendingMoves ==
    ASSUME NEW tokens \in Seq(Token), NEW k \in 1..Len(tokens)
    PROVE  /\ \A i \in Pending(tokens, k - 1) :
                i \in Pending(tokens, k) <=> ~Closes(tokens, i, k)
           /\ \A i \in Pending(tokens, k) : i \in Pending(tokens, k - 1) \/ i = k
           /\ k \in Pending(tokens, k) =>
                tokens[k].k = "start" /\ tokens[k].tag \in Dropped
           /\ \A i \in Pending(tokens, k - 1) : i \in Nat /\ i < k
  <1>1. k \in Nat /\ k \in DOMAIN tokens /\ DOMAIN tokens \subseteq Nat
    OBVIOUS
  <1>2. \A i : i \in 1..k <=> i \in 1..(k - 1) \/ i = k
    BY <1>1
  <1>3. \A j \in DOMAIN tokens : j > k - 1 <=> j > k \/ j = k
    BY <1>1
  <1>4. ASSUME NEW i \in Pending(tokens, k - 1)
        PROVE  i \in Pending(tokens, k) <=> ~Closes(tokens, i, k)
    <2>1. /\ i \in 1..(k - 1) /\ i \in Nat /\ tokens[i].tag \in Dropped
          /\ \E j \in DOMAIN tokens : j > k - 1 /\ Closes(tokens, i, j)
      BY <1>1 DEF Pending
    <2>2. PICK j \in DOMAIN tokens : j > k - 1 /\ Closes(tokens, i, j)
      BY <2>1
    <2>3. ASSUME ~Closes(tokens, i, k) PROVE i \in Pending(tokens, k)
      BY <1>2, <1>3, <2>1, <2>2, <2>3 DEF Pending
    <2>4. ASSUME Closes(tokens, i, k), i \in Pending(tokens, k) PROVE FALSE
      <3>1. PICK l \in DOMAIN tokens : l > k /\ Closes(tokens, i, l)
        BY <2>4 DEF Pending
      <3>2. l \in Nat /\ l # k
        BY <1>1, <3>1
      <3> QED  BY <1>1, <2>1, <2>4, <3>1, <3>2, ClosedOnce
    <2> QED  BY <2>3, <2>4
  <1>5. ASSUME NEW i \in Pending(tokens, k) PROVE i \in Pending(tokens, k - 1) \/ i = k
    BY <1>2, <1>3 DEF Pending
  <1>6. ASSUME k \in Pending(tokens, k)
        PROVE  tokens[k].k = "start" /\ tokens[k].tag \in Dropped
    BY <1>6, ClosesIs DEF Pending
  <1>7. \A i \in Pending(tokens, k - 1) : i \in Nat /\ i < k
    BY <1>1 DEF Pending
  <1> QED  BY <1>4, <1>5, <1>6, <1>7

\* Every token keeps the stack of skipped tags that of the elements that are open.
LEMMA CarriedStep ==
    ASSUME NEW tokens \in Seq(Token), WellClosed(tokens), NEW k \in 1..Len(tokens),
           NEW st \in SkipStates, Carried(tokens, k - 1, st),
           NEW to, to \in SkipStates, TokenDoes(st, tokens[k], k, to)
    PROVE  Carried(tokens, k, to)
  <1> DEFINE t == tokens[k]
             P == Pending(tokens, k - 1)
             Q == Pending(tokens, k)
  <1>1. PICK idx : Opened(tokens, k - 1, st.skip, idx)
    BY DEF Carried
  <1>2. /\ k \in Nat /\ k \in DOMAIN tokens /\ t \in Token /\ DOMAIN tokens \subseteq Nat
        /\ k - 1 \in Nat
    OBVIOUS
  <1>3. /\ \A i \in P : i \in Q <=> ~Closes(tokens, i, k)
        /\ \A i \in Q : i \in P \/ i = k
        /\ k \in Q => t.k = "start" /\ t.tag \in Dropped
        /\ \A i \in P : i \in Nat /\ i < k
    BY PendingMoves
  <1>4. /\ idx \in Seq(Nat) /\ Len(idx) = Len(st.skip) /\ Len(idx) \in Nat
        /\ \A m \in 1..Len(idx) : idx[m] \in P /\ st.skip[m] = tokens[idx[m]].tag
        /\ \A i \in P : \E m \in 1..Len(idx) : idx[m] = i
        /\ \A m, l \in 1..Len(idx) : m < l => idx[m] < idx[l]
    <2> HIDE DEF P
    <2>1. Len(idx) \in Nat
      BY <1>1 DEF Opened
    <2> QED  BY <1>1, <2>1 DEF Opened, P
  <1>5. st.skip \in Seq(Dropped) /\ to.skip \in Seq(Dropped) /\ st.kept = KeptOf(tokens, k - 1)
    BY DEF SkipStates, Carried
  <1>6. KeptOf(tokens, k) = KeptOf(tokens, k - 1) \cup
                             (IF t.k = "text" /\ ~Shut(tokens, k) THEN {k} ELSE {})
    <2>1. \A i : i \in 1..k <=> i \in 1..(k - 1) \/ i = k
      BY <1>2
    <2> QED  BY <2>1 DEF KeptOf
  <1> HIDE DEF P, Q
  <1>7. CASE t.k = "start" /\ t.tag \in Dropped
    <2>1. to.skip = Append(st.skip, t.tag) /\ to.kept = st.kept
      BY <1>7 DEF TokenDoes
    <2>2. k \in Q
      <3>1. PICK j \in DOMAIN tokens : Closes(tokens, k, j)
        BY <1>2, <1>7 DEF WellClosed
      <3>2. j > k
        BY <1>2, <3>1, ClosesIs
      <3> QED  BY <1>2, <1>7, <3>1, <3>2 DEF Q, Pending
    <2>3. \A i \in P : i \in Q
      BY <1>3, <1>7, ClosesIs
    <2> DEFINE more == Append(idx, k)
    <2>4. /\ more \in Seq(Nat) /\ Len(more) = Len(idx) + 1 /\ more[Len(idx) + 1] = k
          /\ \A m \in 1..Len(idx) : more[m] = idx[m]
      BY <1>2, <1>4
    <2>5. /\ Len(to.skip) = Len(idx) + 1 /\ to.skip[Len(idx) + 1] = t.tag
          /\ \A m \in 1..Len(idx) : to.skip[m] = st.skip[m]
      BY <1>4, <1>5, <1>7, <2>1
    <2> HIDE DEF more
    <2>6. \A m \in 1..Len(more) : m \in 1..Len(idx) \/ m = Len(idx) + 1
      BY <1>4, <2>4
    <2>7. Len(idx) + 1 \in 1..Len(more) /\ \A m \in 1..Len(idx) : m \in 1..Len(more) /\ m < Len(idx) + 1
      <3> DEFINE l == Len(idx)
      <3>1. l \in Nat /\ Len(more) = l + 1
        BY <1>4, <2>4
      <3> HIDE DEF l
      <3>2. l + 1 \in 1..(l + 1) /\ \A m \in 1..l : m \in 1..(l + 1) /\ m < l + 1
        BY <3>1
      <3> QED  BY <3>1, <3>2 DEF l
    <2>8. \A m \in 1..Len(more) : more[m] \in Q /\ to.skip[m] = tokens[more[m]].tag
      BY <1>4, <2>2, <2>3, <2>4, <2>5, <2>6
    <2>9. \A i \in Q : \E m \in 1..Len(more) : more[m] = i
      <3> SUFFICES ASSUME NEW i \in Q PROVE \E m \in 1..Len(more) : more[m] = i
        OBVIOUS
      <3>1. CASE i \in P
        BY <1>4, <2>4, <2>7, <3>1
      <3>2. CASE i = k
        BY <2>4, <2>7, <3>2
      <3> QED  BY <1>3, <3>1, <3>2
    <2>10. ASSUME NEW m \in 1..Len(more), NEW l \in 1..Len(more), m < l PROVE more[m] < more[l]
      <3>1. m \in 1..Len(idx)
        BY <1>4, <2>4, <2>10
      <3>2. CASE l \in 1..Len(idx)
        BY <1>4, <2>4, <2>10, <3>1, <3>2
      <3>3. CASE l = Len(idx) + 1
        <4>1. idx[m] < k
          BY <1>3, <1>4, <3>1
        <4> QED  BY <2>4, <3>1, <3>3, <4>1
      <3> QED  BY <2>6, <3>2, <3>3
    <2>11. Opened(tokens, k, to.skip, more)
      BY <2>4, <2>5, <2>8, <2>9, <2>10 DEF Opened, Q
    <2>12. to.kept = KeptOf(tokens, k)
      BY <1>5, <1>6, <1>7, <2>1
    <2> QED  BY <2>11, <2>12 DEF Carried
  <1>8. CASE t.k = "end" /\ t.tag \in Dropped
    <2>1. PICK i \in DOMAIN tokens : Closes(tokens, i, k)
      BY <1>2, <1>8 DEF WellClosed
    <2>2. i \in Nat /\ i < k /\ i \in 1..(k - 1) /\ tokens[i].tag = t.tag
      BY <1>2, <2>1, ClosesIs
    <2>3. i \in P
      <3>1. k > k - 1
        BY <1>2
      <3> QED  BY <1>2, <1>8, <2>1, <2>2, <3>1 DEF P, Pending
    <2>4. ASSUME NEW o \in P, i < o PROVE FALSE
      <3>1. PICK j \in DOMAIN tokens : j > k - 1 /\ Closes(tokens, o, j)
        BY DEF P, Pending
      <3>2. o \in Nat /\ o < k /\ j \in Nat /\ ~ (j < k)
        BY <1>2, <1>3, <3>1
      <3>3. j < k
        BY <1>2, <2>1, <2>2, <2>4, <3>1, <3>2, Nested
      <3> QED  BY <3>2, <3>3
    <2>5. ASSUME NEW o \in P, Closes(tokens, o, k) PROVE o = i
      <3>1. o \in Nat /\ o < k
        BY <1>3
      <3>2. CASE o < i
        <4>1. k < k
          BY <1>2, <2>1, <2>2, <2>5, <3>1, <3>2, Nested
        <4> QED  BY <1>2, <4>1
      <3>3. CASE i < o
        BY <2>4, <3>3
      <3> QED  BY <2>2, <3>1, <3>2, <3>3
    <2>6. \A o : o \in Q <=> o \in P /\ o # i
      BY <1>3, <1>8, <2>1, <2>3, <2>5
    <2> DEFINE len == Len(idx)
    <2>7. len \in 1..len /\ idx[len] = i
      <3>1. PICK m \in 1..len : idx[m] = i
        BY <1>4, <2>3
      <3>2. len \in Nat /\ len \in 1..len /\ m \in Nat
        BY <1>4, <3>1
      <3>3. CASE m < len
        BY <1>4, <2>4, <3>1, <3>2, <3>3
      <3>4. CASE m = len
        BY <3>1, <3>2, <3>4
      <3> QED  BY <3>1, <3>2, <3>3, <3>4
    <2>8. st.skip # << >> /\ st.skip[Len(st.skip)] = t.tag
      BY <1>4, <1>5, <2>2, <2>7
    <2>9. to.skip = SubSeq(st.skip, 1, Len(st.skip) - 1) /\ to.kept = st.kept
      BY <1>8, <2>8 DEF TokenDoes
    <2> DEFINE less == SubSeq(idx, 1, len - 1)
               last == len - 1
    <2>10. /\ last \in Nat /\ last <= len /\ len \in Nat /\ less = SubSeq(idx, 1, last)
           /\ \A m \in 1..last : m \in 1..len /\ m < len
      BY <1>4, <2>7
    <2> HIDE DEF last
    <2>11. less \in Seq(Nat) /\ Len(less) = last /\ \A m \in 1..last : less[m] = idx[m]
      <3>1. \A m \in 1..last : idx[m] \in Nat
        BY <1>3, <1>4, <2>10
      <3>2. SubSeq(idx, 1, last) \in Seq(Nat)
        BY <1>4, <2>10, <3>1
      <3>3. Len(SubSeq(idx, 1, last)) = last /\ \A m \in 1..last : SubSeq(idx, 1, last)[m] = idx[m]
        BY <1>4, <2>10
      <3> HIDE DEF less
      <3> QED  BY <2>10, <3>2, <3>3
    <2>12. Len(to.skip) = last /\ \A m \in 1..last : to.skip[m] = st.skip[m]
      <3>1. to.skip = SubSeq(st.skip, 1, last)
        BY <1>4, <2>9 DEF last
      <3> QED  BY <1>4, <1>5, <2>10, <3>1
    <2> HIDE DEF less
    <2>13. \A m \in 1..Len(less) : less[m] \in Q /\ to.skip[m] = tokens[less[m]].tag
      <3> SUFFICES ASSUME NEW m \in 1..last
                   PROVE  less[m] \in Q /\ to.skip[m] = tokens[less[m]].tag
        BY <2>11
      <3>1. idx[m] \in P /\ st.skip[m] = tokens[idx[m]].tag /\ idx[m] < idx[len]
        BY <1>4, <2>7, <2>10
      <3>2. idx[m] \in Nat /\ idx[m] # i
        BY <1>3, <2>2, <2>7, <3>1
      <3> QED  BY <2>6, <2>11, <2>12, <3>1, <3>2
    <2>14. \A o \in Q : \E m \in 1..Len(less) : less[m] = o
      <3> SUFFICES ASSUME NEW o \in Q PROVE \E m \in 1..last : less[m] = o
        BY <2>11
      <3>1. PICK m \in 1..len : idx[m] = o
        BY <1>4, <2>6
      <3>2. m # len
        BY <2>6, <2>7, <3>1
      <3>3. m \in 1..last
        BY <2>10, <3>1, <3>2 DEF last
      <3> QED  BY <2>11, <3>1, <3>3
    <2>15. \A m, l \in 1..Len(less) : m < l => less[m] < less[l]
      BY <1>4, <2>10, <2>11
    <2>16. Opened(tokens, k, to.skip, less)
      BY <2>11, <2>12, <2>13, <2>14, <2>15 DEF Opened, Q
    <2>17. to.kept = KeptOf(tokens, k)
      BY <1>5, <1>6, <1>8, <2>9
    <2> QED  BY <2>16, <2>17 DEF Carried
  <1>9. CASE t.k \notin {"start", "end"} \/ t.tag \notin Dropped
    <2>1. \A i \in P : ~Closes(tokens, i, k)
      <3> SUFFICES ASSUME NEW i \in P, Closes(tokens, i, k) PROVE FALSE
        OBVIOUS
      <3>1. t.k = "end" /\ t.tag = tokens[i].tag
        BY ClosesIs
      <3>2. tokens[i].tag \in Dropped
        BY DEF P, Pending
      <3> QED  BY <1>9, <3>1, <3>2
    <2>2. \A i : i \in Q <=> i \in P
      BY <1>3, <1>9, <2>1
    <2>3. P = Q
      BY <2>2
    <2>4. to.skip = st.skip
      BY <1>2, <1>9 DEF TokenDoes, Token
    <2>5. Opened(tokens, k, to.skip, idx)
      BY <1>1, <2>3, <2>4 DEF Opened, P, Q
    <2>6. CASE t.k # "text"
      <3>1. to.kept = st.kept
        BY <1>2, <1>9, <2>6 DEF TokenDoes, Token
      <3> QED  BY <1>5, <1>6, <2>5, <2>6, <3>1 DEF Carried
    <2>7. CASE t.k = "text"
      <3>1. to.kept = IF st.skip = << >> THEN st.kept \cup {k} ELSE st.kept
        BY <2>7 DEF TokenDoes
      <3>2. st.skip = << >> <=> P = {}
        <4>1. st.skip = << >> <=> Len(idx) = 0
          BY <1>4, <1>5
        <4>2. Len(idx) = 0 => P = {}
          BY <1>4
        <4>3. Len(idx) # 0 => idx[1] \in P
          BY <1>4
        <4> QED  BY <4>1, <4>2, <4>3
      <3>3. Shut(tokens, k) <=> P # {}
        <4>1. ASSUME Shut(tokens, k) PROVE P # {}
          <5>1. PICK i, j \in DOMAIN tokens :
                  i < k /\ k < j /\ tokens[i].tag \in Dropped /\ Closes(tokens, i, j)
            BY <4>1 DEF Shut
          <5>2. i \in 1..(k - 1) /\ j > k - 1
            BY <1>2, <5>1
          <5>3. i \in P
            BY <5>1, <5>2 DEF P, Pending
          <5> QED  BY <5>3
        <4>2. ASSUME NEW i \in P PROVE Shut(tokens, k)
          <5>1. PICK j \in DOMAIN tokens : j > k - 1 /\ Closes(tokens, i, j)
            BY DEF P, Pending
          <5>2. tokens[i].tag \in Dropped /\ i \in DOMAIN tokens /\ i < k /\ j \in Nat
            BY <1>2, <1>3 DEF P, Pending
          <5>3. j # k
            BY <2>7, <5>1, ClosesIs
          <5>4. k < j
            BY <1>2, <5>1, <5>2, <5>3
          <5> QED  BY <5>1, <5>2, <5>4 DEF Shut
        <4> QED  BY <4>1, <4>2
      <3> QED  BY <1>5, <1>6, <2>5, <2>7, <3>1, <3>2, <3>3 DEF Carried
    <2> QED  BY <2>6, <2>7
  <1> QED  BY <1>7, <1>8, <1>9

\* The texts kept are those outside what is dropped (EmailHtmlSanitizer, EmailTextExtractor).
LEMMA TextsAreKept ==
    ASSUME NEW tokens \in Seq(Token), WellClosed(tokens)
    PROVE  TextsKept(tokens) = Outside(tokens)
  <1> DEFINE n == Len(tokens)
  <1>1. PICK at : SkipRun(at, tokens) /\ TextsKept(tokens) = at[n].kept
    BY SkipSteps
  <1>2. n \in Nat /\ DOMAIN tokens = 1..n /\ \A k \in 1..n : tokens[k] \in Token
    OBVIOUS
  <1> DEFINE Bad == {j \in Nat : j <= n /\ ~Carried(tokens, j, at[j])}
  <1>3. CASE Bad # {}
    <2>1. PICK j \in Bad : \A i \in Bad : j <= i
      <3>1. Bad \subseteq Nat
        OBVIOUS
      <3> HIDE DEF Bad
      <3> QED  BY <1>3, <3>1, LeastNumber
    <2>2. j # 0
      <3>1. Pending(tokens, 0) = {} /\ KeptOf(tokens, 0) = {}
        BY DEF Pending, KeptOf
      <3>2. Opened(tokens, 0, << >>, << >>)
        BY <3>1 DEF Opened
      <3>3. Carried(tokens, 0, NothingSkipped)
        BY <3>1, <3>2 DEF Carried, NothingSkipped
      <3> QED  BY <1>1, <2>1, <3>3 DEF SkipRun
    <2>3. j \in 1..n /\ j - 1 \in 0..n /\ ~ (j <= j - 1) /\ j \in Nat /\ j \in 0..n
      BY <1>2, <2>1, <2>2
    <2>4. Carried(tokens, j - 1, at[j - 1])
      BY <2>1, <2>3
    <2>5. /\ at[j - 1] \in SkipStates /\ at[j] \in SkipStates
          /\ at[j] = HandleToken(at[j - 1], tokens[j], j)
      BY <1>1, <2>3 DEF SkipRun
    <2>6. TokenDoes(at[j - 1], tokens[j], j, at[j])
      BY <1>2, <2>3, <2>5, TokenIsHandled
    <2>7. Carried(tokens, j, at[j])
      BY <2>3, <2>4, <2>5, <2>6, CarriedStep
    <2> QED  BY <2>1, <2>7
  <1>4. CASE Bad = {}
    <2>1. n \in Nat /\ n \notin Bad
      BY <1>2, <1>4
    <2>2. at[n].kept = KeptOf(tokens, n)
      BY <2>1 DEF Carried
    <2>3. KeptOf(tokens, n) = Outside(tokens)
      BY <1>2 DEF KeptOf, Shut, Outside
    <2> QED  BY <1>1, <2>2, <2>3
  <1> QED  BY <1>3, <1>4

(***************************************************************************)
(* Saved copies.                                                           *)
(***************************************************************************)
\* A saved message that reading its page leaves as it is.
Settled(m) == Upgrade(m) = m

\* A reader view with its own text as its body is settled.
LEMMA ReaderSettles ==
    ASSUME NEW n \in Nat
    PROVE  Settled([mode |-> "reader", body |-> n, html |-> AsReader(n), shown |-> "text"])
  BY DEF Settled, Upgrade, AsReader, Larger

\* A reader view is one after it is read once.
LEMMA ReaderUpgrades ==
    ASSUME NEW m, m.mode = "reader" \/ m.html.kind = "escaped",
           m.body \in Nat, m.html.chars \in Nat
    PROVE  Settled(Upgrade(m))
  <1> DEFINE n == Larger(m.body, m.html.chars)
  <1>1. n \in Nat
    BY DEF Larger
  <1>2. Upgrade(m) = [mode |-> "reader", body |-> n, html |-> AsReader(n), shown |-> "text"]
    BY DEF Upgrade
  <1> HIDE DEF n
  <1> QED  BY <1>1, <1>2, ReaderSettles

\* Two readings settle a saved message.
LEMMA UpgradesSettle ==
    ASSUME NEW m \in Saved
    PROVE  Settled(Upgrade(Upgrade(m)))
  <1>1. /\ m.body \in Nat /\ m.html.chars \in Nat /\ m.html \in Html
        /\ m = [mode |-> m.mode, body |-> m.body, html |-> m.html, shown |-> m.shown]
        /\ m.html = [kind |-> m.html.kind, chars |-> m.html.chars, wraps |-> m.html.wraps]
        /\ m.html.wraps \in 0..1
    <2>1. /\ m = [mode |-> m.mode, body |-> m.body, html |-> m.html, shown |-> m.shown]
          /\ m.body \in 0..3 /\ m.html \in Html
      BY DEF Saved
    <2>2. \A h \in Html : /\ h = [kind |-> h.kind, chars |-> h.chars, wraps |-> h.wraps]
                              /\ h.chars \in 0..3 /\ h.wraps \in 0..1
      BY DEF Html, NoHtml
    <2> QED  BY <2>1, <2>2
  <1> DEFINE u == Upgrade(m)
  <1>2. CASE m.mode = "reader" \/ m.html.kind = "escaped"
    <2>1. Settled(u)
      BY <1>1, <1>2, ReaderUpgrades
    <2> HIDE DEF u
    <2>2. Settled(Upgrade(u))
      BY <2>1 DEF Settled
    <2> QED  BY <2>2 DEF u
  <1>3. CASE ~(m.mode = "reader" \/ m.html.kind = "escaped") /\ m.html.kind = "heavy"
    <2> DEFINE b == IF m.body < 2 THEN Larger(m.body, m.html.chars) ELSE m.body
    <2>1. u = [mode |-> "reader", html |-> AsReader(m.html.chars), shown |-> "text", body |-> b]
      BY <1>3 DEF Upgrade
    <2>2. b \in Nat
      BY <1>1 DEF Larger
    <2> HIDE DEF u, b
    <2>3. u.mode = "reader" /\ u.body \in Nat /\ u.html.chars \in Nat
      BY <1>1, <2>1, <2>2 DEF AsReader
    <2>4. Settled(Upgrade(u))
      BY <2>3, ReaderUpgrades
    <2> QED  BY <2>4 DEF u
  <1>4. CASE ~(m.mode = "reader" \/ m.html.kind = "escaped") /\ m.html.kind \notin {"heavy", "none"}
    <2> DEFINE h == [kind |-> m.html.kind, chars |-> m.html.chars, wraps |-> 1]
    <2>1. CenteredHtml(m.html) = h
      BY <1>1 DEF CenteredHtml, Centered
    <2>2. u = [m EXCEPT !.html = CenteredHtml(@), !.mode = "html", !.shown = "html"]
      BY <1>4 DEF Upgrade
    <2>3. u = [mode |-> "html", body |-> m.body, html |-> h, shown |-> "html"]
      BY <1>1, <2>1, <2>2
    <2> HIDE DEF u
    <2>4. CenteredHtml(h) = h
      BY DEF CenteredHtml, Centered
    <2>5. Upgrade(u) = [u EXCEPT !.html = CenteredHtml(@), !.mode = "html", !.shown = "html"]
      BY <1>4, <2>3 DEF Upgrade
    <2>6. Upgrade(u) = u
      BY <2>3, <2>4, <2>5
    <2>7. Settled(Upgrade(u))
      BY <2>6 DEF Settled
    <2> QED  BY <2>7 DEF u
  <1>5. CASE ~(m.mode = "reader" \/ m.html.kind = "escaped") /\ m.html.kind = "none"
    <2> DEFINE mode == IF m.mode = "" THEN "plain" ELSE m.mode
    <2>1. u = [m EXCEPT !.mode = IF @ = "" THEN "plain" ELSE @]
      BY <1>5 DEF Upgrade
    <2>2. u = [mode |-> mode, body |-> m.body, html |-> m.html, shown |-> m.shown]
      BY <1>1, <2>1
    <2>3. mode # "" /\ mode # "reader"
      BY <1>5
    <2> HIDE DEF u, mode
    <2>4. Upgrade(u) = [u EXCEPT !.mode = IF @ = "" THEN "plain" ELSE @]
      BY <1>5, <2>2, <2>3 DEF Upgrade
    <2>5. Upgrade(u) = u
      BY <2>2, <2>3, <2>4
    <2>6. Settled(Upgrade(u))
      BY <2>5 DEF Settled
    <2> QED  BY <2>6 DEF u
  <1> QED  BY <1>2, <1>3, <1>4, <1>5

\* A fetched message is saved as it will be read back.
LEMMA FreshIsSettled ==
    ASSUME NEW n, NEW before, before.kind # "heavy", NEW after \in Html,
           after.kind \in {"none", "light"}
    PROVE  Settled(Fresh(n, before, after))
  <1> DEFINE m == Fresh(n, before, after)
  <1>1. /\ after = [kind |-> after.kind, chars |-> after.chars, wraps |-> after.wraps]
        /\ after.wraps \in 0..1
    BY DEF Html, NoHtml
  <1>2. CASE after.kind = "none"
    <2>1. m = [mode |-> "plain", body |-> n, html |-> NoHtml, shown |-> "html"]
      BY <1>2 DEF Fresh
    <2> HIDE DEF m
    <2>2. Upgrade(m) = [m EXCEPT !.mode = IF @ = "" THEN "plain" ELSE @]
      BY <2>1 DEF Upgrade, NoHtml
    <2>3. Upgrade(m) = m
      BY <2>1, <2>2
    <2> QED  BY <2>3 DEF Settled, m
  <1>3. CASE after.kind = "light"
    <2> DEFINE h == [kind |-> "light", chars |-> after.chars, wraps |-> 1]
    <2>1. Centered(after) = h
      BY <1>1, <1>3 DEF Centered
    <2>2. m = [mode |-> "html", body |-> n, html |-> h, shown |-> "html"]
      BY <1>3, <2>1 DEF Fresh
    <2>3. CenteredHtml(h) = h
      BY DEF CenteredHtml, Centered
    <2> HIDE DEF m
    <2>4. Upgrade(m) = [m EXCEPT !.html = CenteredHtml(@), !.mode = "html", !.shown = "html"]
      BY <2>2 DEF Upgrade
    <2>5. Upgrade(m) = m
      BY <2>2, <2>3, <2>4
    <2> QED  BY <2>5 DEF Settled, m
  <1> QED  BY <1>2, <1>3

\* A list of at most n elements is a list.
LEMMA BoundedSeqs ==
    ASSUME NEW S, NEW n \in Nat, NEW s \in SeqOf(S, n)
    PROVE  s \in Seq(S)
  <1>1. PICK m \in 0..n : s \in [1..m -> S]
    BY DEF SeqOf
  <1> QED  BY <1>1

\* The bounds on the length of a body are numbers.
BodiesAreBounded == {MaxTokens, MaxLines} \subseteq Nat

\* The message of a behaviour is one of those a mailbox can hold.
BodyInv == mail \in MailCases

\* Texts outside what is dropped are kept, the reader view is well formed, and reading
\* settles, whatever the lengths of a body (gmail.py).
LEMMA BodiesAreRight ==
    ASSUME BodiesAreBounded, BodyInv
    PROVE  TextsOutsideAreKept /\ ReaderIsWellFormed /\ UpgradeSettles
  <1>1. /\ mail.kind = "tokens" => mail.tokens \in SeqOf(Token, MaxTokens)
        /\ mail.kind = "lines" => mail.lines \in SeqOf(Line, MaxLines)
        /\ mail.kind = "saved" => mail.saved \in Saved
        /\ mail.kind = "fresh" => mail.after \in Html
    BY DEF BodyInv, MailCases
  <1>2. TextsOutsideAreKept
    <2>1. mail.kind = "tokens" => mail.tokens \in Seq(Token)
      BY <1>1, BoundedSeqs DEF BodiesAreBounded
    <2> QED  BY <2>1, TextsAreKept DEF TextsOutsideAreKept
  <1>3. ReaderIsWellFormed
    <2>1. mail.kind = "lines" => mail.lines \in Seq(Line)
      BY <1>1, BoundedSeqs DEF BodiesAreBounded
    <2> QED  BY <2>1, ReaderIsFramed DEF ReaderIsWellFormed
  <1>4. UpgradeSettles
    <2>1. mail.kind = "saved" =>
            Upgrade(Upgrade(Upgrade(mail.saved))) = Upgrade(Upgrade(mail.saved))
      BY <1>1, UpgradesSettle DEF Settled
    <2>2. mail.kind = "fresh" /\ mail.before.kind # "heavy" /\ mail.after.kind \in {"none", "light"} =>
            Settled(Fresh(mail.body, mail.before, mail.after))
      BY <1>1, FreshIsSettled
    <2> QED  BY <2>1, <2>2 DEF UpgradeSettles, Settled
  <1> QED  BY <1>2, <1>3, <1>4
(***************************************************************************)
(* Listings of networks: rows that are sorted.                             *)
(***************************************************************************)
\* The strengths of signals are numbers.
SignalsCount == Signals \cup {MaxPoints, MaxField} \subseteq Nat

\* What a listing is made of.
Rows == [ssid : Networks, signal : Signals, active : BOOLEAN]

\* Of some rows one comes last, before none of the others.
LEMMA LastRow ==
    ASSUME SignalsCount, NEW rows \in SUBSET Rows, rows # {}
    PROVE  \E m \in rows : \A r \in rows : ~Before(m, r)
  <1>1. \A r \in rows : r.signal \in Nat /\ r.active \in BOOLEAN
    BY DEF SignalsCount, Rows
  <1>2. ASSUME NEW some \in SUBSET rows, some # {}
        PROVE  \E m \in some : \A r \in some : m.signal <= r.signal
    <2> DEFINE N == {r.signal : r \in some}
    <2>1. N \subseteq Nat /\ N # {}
      BY <1>1, <1>2
    <2>2. PICK n \in N : \A k \in N : n <= k
      <3> HIDE DEF N
      <3> QED  BY <2>1, LeastNumber
    <2> QED  BY <2>2
  <1> DEFINE idle == {r \in rows : ~r.active}
  <1>3. CASE idle = {}
    <2>1. PICK m \in rows : \A r \in rows : m.signal <= r.signal
      BY <1>2
    <2> QED  BY <1>1, <1>3, <2>1 DEF Before
  <1>4. CASE idle # {}
    <2>1. PICK m \in idle : \A r \in idle : m.signal <= r.signal
      BY <1>2, <1>4
    <2> QED  BY <1>1, <2>1 DEF Before
  <1> QED  BY <1>3, <1>4

\* The lists that are the rows in order.
InOrder(list, rows) ==
    /\ list \in [1..Cardinality(rows) -> rows]
    /\ ToSet(list) = rows
    /\ \A i, k \in DOMAIN list : i < k => ~Before(list[k], list[i])

\* Any rows can be put in order.
LEMMA SortedExists ==
    ASSUME SignalsCount, NEW rows \in SUBSET Rows, IsFiniteSet(rows)
    PROVE  \E list : InOrder(list, rows)
  <1> DEFINE Bad == {s \in SUBSET rows : ~ \E list : InOrder(list, s)}
  <1> SUFFICES ASSUME Bad # {} PROVE FALSE
    OBVIOUS
  <1>1. PICK s \in Bad : \A x \in s : s \ {x} \notin Bad
    <2>1. Bad \subseteq SUBSET rows
      OBVIOUS
    <2> HIDE DEF Bad
    <2> QED  BY <2>1, SmallestSet
  <1>2. s \in SUBSET rows /\ s \in SUBSET Rows /\ IsFiniteSet(s) /\ Cardinality(s) \in Nat
    BY FS_Subset, FS_CardinalityType
  <1>3. CASE s = {}
    <2>1. Cardinality(s) = 0 /\ 1..0 = {}
      BY <1>3, FS_EmptySet
    <2>2. InOrder([i \in 1..0 |-> 0], s)
      BY <1>3, <2>1 DEF InOrder, ToSet
    <2> QED  BY <1>1, <2>2
  <1>4. CASE s # {}
    <2>1. PICK m \in s : \A r \in s : ~Before(m, r)
      BY <1>2, <1>4, LastRow
    <2> DEFINE t == s \ {m}
               n == Cardinality(t)
    <2>2. n \in Nat /\ Cardinality(s) = n + 1
      BY <1>2, FS_RemoveElement, FS_CardinalityType, FS_Subset
    <2>3. PICK list : InOrder(list, t)
      BY <1>1, <1>2
    <2> HIDE DEF n
    <2> DEFINE more == [i \in 1..(n + 1) |-> IF i = n + 1 THEN m ELSE list[i]]
    <2>4. list \in [1..n -> t] /\ (\A r \in t : \E i \in 1..n : list[i] = r)
          /\ \A i, k \in 1..n : i < k => ~Before(list[k], list[i])
      BY <2>3 DEF InOrder, ToSet, n
    <2>5. more[n + 1] = m /\ \A i \in 1..n : more[i] = list[i] /\ i \in 1..(n + 1)
      BY <2>2
    <2>6. \A i \in 1..(n + 1) : i = n + 1 \/ i \in 1..n
      BY <2>2
    <2>7. more \in [1..(n + 1) -> s]
      BY <2>4, <2>6
    <2> HIDE DEF more
    <2>8. \A r \in s : \E i \in 1..(n + 1) : more[i] = r
      BY <2>2, <2>4, <2>5
    <2>9. ASSUME NEW i \in 1..(n + 1), NEW k \in 1..(n + 1), i < k PROVE ~Before(more[k], more[i])
      <3>1. i \in 1..n
        BY <2>2, <2>9
      <3>2. CASE k = n + 1
        BY <2>1, <2>4, <2>5, <3>1, <3>2
      <3>3. CASE k \in 1..n
        BY <2>4, <2>5, <2>9, <3>1, <3>3
      <3> QED  BY <2>6, <3>2, <3>3
    <2>10. ToSet(more) = s
      BY <2>7, <2>8 DEF ToSet
    <2>11. InOrder(more, s)
      BY <2>2, <2>7, <2>9, <2>10 DEF InOrder
    <2> QED  BY <1>1, <2>11
  <1> QED  BY <1>3, <1>4

\* The listing has each row once, and in order.
LEMMA SortedIs ==
    ASSUME SignalsCount, NEW rows \in SUBSET Rows, IsFiniteSet(rows)
    PROVE  /\ InOrder(Sorted(rows), rows)
           /\ \A i, k \in DOMAIN Sorted(rows) : Sorted(rows)[i] = Sorted(rows)[k] => i = k
  <1> DEFINE list == Sorted(rows)
  <1>1. InOrder(list, rows)
    <2>1. list = CHOOSE l : l \in [1..Cardinality(rows) -> rows] /\ InOrder(l, rows)
      BY DEF Sorted, InOrder
    <2>2. \E l : l \in [1..Cardinality(rows) -> rows] /\ InOrder(l, rows)
      BY SortedExists DEF InOrder
    <2> HIDE DEF list
    <2> QED  BY <2>1, <2>2
  <1> HIDE DEF list
  <1>2. Cardinality(rows) \in Nat
    BY FS_CardinalityType
  <1>3. list \in Surjection(1..Cardinality(rows), rows)
    BY <1>1 DEF InOrder, ToSet, Surjection
  <1>4. IsFiniteSet(1..Cardinality(rows)) /\ Cardinality(1..Cardinality(rows)) = Cardinality(rows)
    BY <1>2, FS_Interval
  <1>5. list \in Injection(1..Cardinality(rows), rows)
    BY <1>3, <1>4, FS_Surjection
  <1>6. \A i, k \in DOMAIN list : list[i] = list[k] => i = k
    BY <1>1, <1>5 DEF Injection, IsInjective, InOrder
  <1> QED  BY <1>1, <1>6 DEF list

\* _parse_wifi_networks row by row: the rows kept so far.
KeepRun(at, now) ==
    /\ at \in [0..Len(air) -> SUBSET Rows] /\ at[0] = {}
    /\ \A k \in 1..Len(air) : at[k] = KeepRow(at[k - 1], Row(k, now))

\* The access points in reach are a list.
LEMMA AirIsList ==
    ASSUME SignalsCount, air \in Airs
    PROVE  /\ Len(air) \in Nat /\ DOMAIN air = 1..Len(air)
           /\ \A i \in DOMAIN air : air[i].ssid \in Networks /\ air[i].signal \in Signals
           /\ \A i \in DOMAIN air : air[i].signal \in Nat
           /\ \A now : \A i \in DOMAIN air : Row(i, now) \in Rows
  <1>1. PICK n \in 0..MaxPoints : air \in [1..n -> AccessPoints]
    BY DEF Airs
  <1>2. n \in Nat /\ Len(air) = n /\ DOMAIN air = 1..n
    BY <1>1 DEF SignalsCount
  <1>3. \A i \in DOMAIN air : air[i].ssid \in Networks /\ air[i].signal \in Signals
    BY <1>1, <1>2 DEF AccessPoints
  <1>4. \A now : \A i \in DOMAIN air : Row(i, now) \in Rows
    BY <1>3 DEF Row, Rows
  <1> QED  BY <1>2, <1>3, <1>4 DEF SignalsCount

\* One more row leaves rows.
LEMMA KeepRowType ==
    ASSUME NEW kept \in SUBSET Rows, NEW row \in Rows PROVE KeepRow(kept, row) \in SUBSET Rows
  BY DEF KeepRow

\* The rows kept are what the last step leaves.
LEMMA KeepSteps ==
    ASSUME SignalsCount, air \in Airs, NEW now
    PROVE  \E at : /\ KeepRun(at, now)
                   /\ ParseNetworks(now) = Sorted(at[Len(air)])
  <1> DEFINE n == Len(air)
             row == [i \in DOMAIN air |-> Row(i, now)]
             S == SUBSET Rows
             G == [p \in S \X (1..n) |-> KeepRow(p[1], row[p[2]])]
  <1>1. n \in Nat /\ DOMAIN row = 1..n /\ DOMAIN air = 1..n /\ \A k \in 1..n : row[k] \in Rows
    BY AirIsList
  <1>2. G \in [S \X (1..n) -> S] /\ {} \in S
    <2>1. \A kept \in S, r \in Rows : KeepRow(kept, r) \in S
      BY KeepRowType
    <2>2. \A x \in S \X (1..n) : KeepRow(x[1], row[x[2]]) \in S
      <3> HIDE DEF S, row
      <3> QED  BY <1>1, <2>1
    <2> QED  BY <2>2
  <1> HIDE DEF n, row, S
  <1>3. PICK it : IsFold(it, S, G, {}, n)
    <2> HIDE DEF G
    <2> QED  BY <1>1, <1>2, FoldsExist
  <1> DEFINE Solves(f) ==
               f = [s \in SUBSET (1..n) |->
                      IF s = {} THEN {} ELSE KeepRow(f[s \ {Top(s)}], row[Top(s)])]
             sol == CHOOSE f : Solves(f)
  <1>5. FoldLeft(KeepRow, {}, row) = sol[1..n]
    BY <1>1 DEF FoldLeft, MapThenFoldSet, Max, Top
  <1>6. ASSUME NEW s \in SUBSET (1..n)
        PROVE  it[s] = IF s = {} THEN {} ELSE KeepRow(it[s \ {Top(s)}], row[Top(s)])
    <2>1. CASE s = {}
      BY <1>3, <2>1 DEF IsFold
    <2>2. CASE s # {}
      <3>1. Top(s) \in 1..n
        BY <1>1, <2>2, TopIsIn
      <3>2. it[s \ {Top(s)}] \in S
        BY <1>3 DEF IsFold
      <3>3. it[s] = G[<<it[s \ {Top(s)}], Top(s)>>]
        BY <1>3, <2>2 DEF IsFold
      <3> QED  BY <2>2, <3>1, <3>2, <3>3
    <2> QED  BY <2>1, <2>2
  <1>7. Solves(it)
    <2>1. it \in [SUBSET (1..n) -> S]
      BY <1>3 DEF IsFold
    <2> QED  BY <1>6, <2>1
  <1>8. Solves(sol)
    BY <1>7
  <1> DEFINE at == [k \in 0..n |-> sol[1..k]]
  <1> HIDE DEF sol
  <1>9. at[0] = {}
    <2>1. 1..0 = {} /\ 0 \in 0..n /\ {} \in SUBSET (1..n)
      BY <1>1
    <2> QED  BY <1>8, <2>1
  <1>10. ASSUME NEW k \in 1..n PROVE at[k] = KeepRow(at[k - 1], row[k])
    <2>1. /\ 1..k \in SUBSET (1..n) /\ 1..k # {} /\ k \in 1..k /\ k \in Nat
          /\ (1..k) \ {k} = 1..(k - 1) /\ k \in 0..n /\ k - 1 \in 0..n
      <3>1. k \in Nat /\ 1 <= k /\ k <= n
        BY <1>1
      <3>2. (1..k) \ {k} = 1..(k - 1)
        BY <3>1
      <3>3. \A i \in 1..k : i \in 1..n
        BY <1>1, <3>1
      <3>4. k \in 1..k /\ k \in 0..n /\ k - 1 \in 0..n
        BY <1>1, <3>1
      <3> QED  BY <3>1, <3>2, <3>3, <3>4
    <2>2. Top(1..k) = k
      BY <2>1, TopIs
    <2> QED  BY <1>8, <2>1, <2>2
  <1>11. at[n] = sol[1..n]
    BY <1>1
  <1>12. ASSUME NEW k \in 0..n PROVE at[k] \in S
    <2> DEFINE Bad == {j \in Nat : j <= n /\ at[j] \notin S}
    <2>1. CASE Bad # {}
      <3>1. PICK j \in Bad : \A i \in Bad : j <= i
        <4>1. Bad \subseteq Nat
          OBVIOUS
        <4> HIDE DEF Bad
        <4> QED  BY <2>1, <4>1, LeastNumber
      <3>2. j # 0
        BY <1>2, <1>9, <3>1
      <3>3. j \in 1..n /\ j - 1 \in Nat /\ j - 1 <= n /\ ~ (j <= j - 1)
        BY <1>1, <3>1, <3>2
      <3>4. at[j - 1] \in S /\ row[j] \in Rows
        BY <1>1, <3>1, <3>3
      <3>5. at[j] = KeepRow(at[j - 1], row[j])
        BY <1>10, <3>3
      <3> HIDE DEF at
      <3>6. at[j] \in S
        BY <3>4, <3>5, KeepRowType DEF S
      <3> QED  BY <3>1, <3>6
    <2> QED  BY <1>1, <2>1
  <1>13. \A k \in 1..n : row[k] = Row(k, now)
    BY <1>1 DEF row
  <1>14. KeepRun(at, now)
    BY <1>9, <1>10, <1>12, <1>13 DEF KeepRun, S, n
  <1>15. ParseNetworks(now) = Sorted(at[n])
    BY <1>5, <1>11 DEF ParseNetworks, row
  <1> HIDE DEF at
  <1> QED  BY <1>14, <1>15 DEF n

\* What is kept of the first k rows: of each name one row, at the strongest signal unless the
\* network is the one joined; and the row joined, as long as none replaced it.
Best(rows, k, now) ==
    /\ \A r \in rows : \E i \in 1..k : r = Row(i, now)
    /\ \A r, q \in rows : r.ssid = q.ssid => r = q
    /\ \A i \in 1..k : \E r \in rows : r.ssid = air[i].ssid
    /\ \A r \in rows :
         \/ now \in 1..k /\ air[now].ssid = r.ssid
         \/ \A i \in 1..k : air[i].ssid = r.ssid => air[i].signal <= r.signal
    /\ \/ now \notin 1..k \/ Row(now, now) \in rows
       \/ \E i \in 1..k : i > now /\ air[i].ssid = air[now].ssid /\ air[i].signal > air[now].signal

\* A row that comes and replaces another, or does not, leaves the best ones.
LEMMA BestStep ==
    ASSUME SignalsCount, air \in Airs, NEW now, NEW k \in 1..Len(air),
           NEW rows \in SUBSET Rows, Best(rows, k - 1, now)
    PROVE  Best(KeepRow(rows, Row(k, now)), k, now)
  <1> DEFINE new == Row(k, now)
             kept == KeepRow(rows, new)
  <1>1. /\ k \in Nat /\ k - 1 \in Nat /\ \A i \in 1..(k - 1) : i \in 1..k
        /\ \A i \in 1..k : i \in DOMAIN air /\ (i = k \/ i \in 1..(k - 1)) /\ air[i].signal \in Nat
        /\ k \in 1..k
    BY AirIsList
  <1>2. /\ new.ssid = air[k].ssid /\ new.signal = air[k].signal /\ new.active = (k = now)
        /\ \A r \in rows : r.signal \in Nat
        /\ new.signal \in Nat
    BY <1>1 DEF Row, Rows, SignalsCount
  <1>3. CASE \E q \in rows : q.ssid = new.ssid /\ ~new.active /\ new.signal <= q.signal
    <2>1. kept = rows
      BY <1>3 DEF KeepRow
    <2>2. PICK q \in rows : q.ssid = new.ssid /\ ~new.active /\ new.signal <= q.signal
      BY <1>3
    <2>3. k # now /\ (now \in 1..k => now \in 1..(k - 1))
      BY <1>1, <1>2, <2>2
    <2>4. \A r \in rows : r.ssid = new.ssid => r = q
      BY <2>2 DEF Best
    <2> HIDE DEF new, kept
    <2>5. \A i \in 1..k : \E r \in rows : r.ssid = air[i].ssid
      BY <1>1, <1>2, <2>2 DEF Best
    <2>6. ASSUME NEW r \in rows
          PROVE  \/ now \in 1..k /\ air[now].ssid = r.ssid
                 \/ \A i \in 1..k : air[i].ssid = r.ssid => air[i].signal <= r.signal
      <3>1. CASE now \in 1..(k - 1) /\ air[now].ssid = r.ssid
        BY <1>1, <3>1
      <3>2. CASE \A i \in 1..(k - 1) : air[i].ssid = r.ssid => air[i].signal <= r.signal
        BY <1>1, <1>2, <2>2, <2>4, <3>2
      <3> QED  BY <3>1, <3>2 DEF Best
    <2>7. \/ now \notin 1..k \/ Row(now, now) \in rows
          \/ \E i \in 1..k : i > now /\ air[i].ssid = air[now].ssid /\ air[i].signal > air[now].signal
      BY <1>1, <2>3 DEF Best
    <2>8. \A r \in rows : \E i \in 1..k : r = Row(i, now)
      BY <1>1 DEF Best
    <2>9. \A r, s \in rows : r.ssid = s.ssid => r = s
      BY DEF Best
    <2>10. Best(rows, k, now)
      BY <2>5, <2>6, <2>7, <2>8, <2>9 DEF Best
    <2> QED  BY <2>1, <2>10 DEF kept, new
  <1>4. CASE \A q \in rows : q.ssid = new.ssid => new.active \/ new.signal > q.signal
    <2>1. kept = {r \in rows : r.ssid # new.ssid} \cup {new}
      BY <1>2, <1>4 DEF KeepRow
    <2>2. new = Row(k, now)
      OBVIOUS
    <2> HIDE DEF new, kept
    <2>3. \A r \in kept : r = new \/ (r \in rows /\ r.ssid # new.ssid)
      BY <2>1
    <2>4. \A r \in kept : \E i \in 1..k : r = Row(i, now)
      BY <1>1, <2>2, <2>3 DEF Best
    <2>5. \A r, q \in kept : r.ssid = q.ssid => r = q
      BY <2>3 DEF Best
    <2>6. ASSUME NEW i \in 1..k PROVE \E r \in kept : r.ssid = air[i].ssid
      <3>1. CASE air[i].ssid = new.ssid
        BY <2>1, <3>1
      <3>2. CASE air[i].ssid # new.ssid
        BY <1>1, <1>2, <2>1, <3>2 DEF Best
      <3> QED  BY <3>1, <3>2
    <2>7. ASSUME NEW r \in kept
          PROVE  \/ now \in 1..k /\ air[now].ssid = r.ssid
                 \/ \A i \in 1..k : air[i].ssid = r.ssid => air[i].signal <= r.signal
      <3>1. CASE r \in rows /\ r.ssid # new.ssid
        <4>1. CASE now \in 1..(k - 1) /\ air[now].ssid = r.ssid
          BY <1>1, <4>1
        <4>2. CASE \A i \in 1..(k - 1) : air[i].ssid = r.ssid => air[i].signal <= r.signal
          BY <1>1, <1>2, <3>1, <4>2
        <4> QED  BY <3>1, <4>1, <4>2 DEF Best
      <3>2. CASE r = new /\ k = now
        BY <1>1, <1>2, <3>2
      <3>3. CASE r = new /\ k # now
        <4> SUFFICES ASSUME ~ (now \in 1..k /\ air[now].ssid = r.ssid),
                            NEW i \in 1..(k - 1), air[i].ssid = r.ssid
                     PROVE  air[i].signal <= r.signal
          BY <1>1, <1>2, <3>3
        <4>1. PICK q \in rows : q.ssid = air[i].ssid
          BY DEF Best
        <4>2. new.signal > q.signal
          BY <1>2, <1>4, <3>3, <4>1
        <4>3. \A j \in 1..(k - 1) : air[j].ssid = q.ssid => air[j].signal <= q.signal
          BY <1>1, <3>3, <4>1 DEF Best
        <4> QED  BY <1>1, <1>2, <3>3, <4>1, <4>2, <4>3
      <3> QED  BY <2>3, <3>1, <3>2, <3>3
    <2>8. \/ now \notin 1..k \/ Row(now, now) \in kept
          \/ \E i \in 1..k : i > now /\ air[i].ssid = air[now].ssid /\ air[i].signal > air[now].signal
      <3>1. CASE k = now
        BY <2>1, <2>2, <3>1
      <3>2. CASE k # now /\ now \in 1..k
        <4>1. now \in 1..(k - 1) /\ k > now
          BY <1>1, <3>2
        <4>2. CASE Row(now, now) \in rows
          <5>1. Row(now, now).ssid = air[now].ssid /\ Row(now, now).signal = air[now].signal
            BY DEF Row
          <5>2. CASE air[now].ssid = new.ssid
            <6>1. new.signal > air[now].signal
              BY <1>2, <1>4, <3>2, <4>2, <5>1, <5>2
            <6> QED  BY <1>1, <1>2, <4>1, <5>2, <6>1
          <5>3. CASE air[now].ssid # new.ssid
            BY <2>1, <4>2, <5>1, <5>3
          <5> QED  BY <5>2, <5>3
        <4> QED  BY <1>1, <4>1, <4>2 DEF Best
      <3> QED  BY <3>1, <3>2
    <2>9. Best(kept, k, now)
      BY <2>4, <2>5, <2>6, <2>7, <2>8 DEF Best
    <2> QED  BY <2>9 DEF kept, new
  <1>5. (\E q \in rows : q.ssid = new.ssid /\ ~new.active /\ new.signal <= q.signal)
        \/ \A q \in rows : q.ssid = new.ssid => new.active \/ new.signal > q.signal
    BY <1>2
  <1> QED  BY <1>3, <1>4, <1>5

\* The rows listed are the best of all.
LEMMA ListingIs ==
    ASSUME SignalsCount, air \in Airs, NEW now
    PROVE  \E rows \in SUBSET Rows :
             /\ Best(rows, Len(air), now)
             /\ InOrder(ParseNetworks(now), rows)
             /\ \A i, k \in DOMAIN ParseNetworks(now) :
                  ParseNetworks(now)[i] = ParseNetworks(now)[k] => i = k
  <1> DEFINE n == Len(air)
  <1>1. n \in Nat
    BY AirIsList
  <1>2. PICK at : KeepRun(at, now) /\ ParseNetworks(now) = Sorted(at[n])
    BY KeepSteps
  <1> DEFINE Bad == {k \in Nat : k <= n /\ ~Best(at[k], k, now)}
  <1>3. Bad = {}
    <2> SUFFICES ASSUME Bad # {} PROVE FALSE
      OBVIOUS
    <2>1. PICK k \in Bad : \A j \in Bad : k <= j
      <3>1. Bad \subseteq Nat
        OBVIOUS
      <3> HIDE DEF Bad
      <3> QED  BY <3>1, LeastNumber
    <2>2. Best({}, 0, now)
      BY DEF Best
    <2>3. at[0] = {}
      BY <1>2 DEF KeepRun
    <2>4. k # 0 /\ k \in Nat /\ k <= n
      BY <2>1, <2>2, <2>3
    <2>5. k \in 1..n /\ k - 1 \in Nat /\ k - 1 <= n /\ ~ (k <= k - 1) /\ k - 1 \in 0..n
      BY <1>1, <2>4
    <2>6. Best(at[k - 1], k - 1, now)
      BY <2>1, <2>5
    <2>7. at[k] = KeepRow(at[k - 1], Row(k, now)) /\ at[k - 1] \in SUBSET Rows
      BY <1>2, <2>5 DEF KeepRun
    <2>8. Best(at[k], k, now)
      BY <2>5, <2>6, <2>7, BestStep
    <2> QED  BY <2>1, <2>8
  <1>4. Best(at[n], n, now) /\ at[n] \in SUBSET Rows
    BY <1>1, <1>2, <1>3 DEF KeepRun
  <1>5. IsFiniteSet(at[n])
    <2> DEFINE f == [i \in 1..n |-> Row(i, now)]
               all == {f[i] : i \in 1..n}
    <2>1. IsFiniteSet(1..n)
      BY <1>1, FS_Interval
    <2>2. f \in Surjection(1..n, all)
      BY DEF Surjection
    <2>3. at[n] \subseteq all
      BY <1>4 DEF Best
    <2> HIDE DEF all, f
    <2> QED  BY <2>1, <2>2, <2>3, FS_Surjection, FS_Subset
  <1> QED  BY <1>2, <1>4, <1>5, SortedIs

\* A listing, of the network joined now or another: it is right ...
ListedRight(list, now) ==
    \A i \in DOMAIN list :
      LET points == {k \in DOMAIN air : air[k].ssid = list[i].ssid}
      IN /\ \A k \in DOMAIN list : k > i => list[k].ssid # list[i].ssid /\ ~Before(list[k], list[i])
         /\ \E k \in points : list[i] = Row(k, now)
         /\ now \notin points => \A k \in points : air[k].signal <= list[i].signal

\* ... and has the row joined unless a stronger one comes later.
LEMMA ListingTold ==
    ASSUME SignalsCount, air \in Airs, NEW now
    PROVE  /\ ListedRight(ParseNetworks(now), now)
           /\ DOMAIN ParseNetworks(now) \in SUBSET Nat
           /\ \A i \in DOMAIN ParseNetworks(now) :
                \E k \in DOMAIN air : ParseNetworks(now)[i] = Row(k, now)
           /\ \/ now \notin DOMAIN air
              \/ \E i \in DOMAIN air :
                   i > now /\ air[i].ssid = air[now].ssid /\ air[i].signal > air[now].signal
              \/ \E i \in DOMAIN ParseNetworks(now) : ParseNetworks(now)[i] = Row(now, now)
  <1> DEFINE n == Len(air)
             list == ParseNetworks(now)
  <1>1. n \in Nat /\ DOMAIN air = 1..n /\ \A i \in DOMAIN air : air[i].signal \in Nat
    BY AirIsList
  <1>2. PICK rows \in SUBSET Rows :
          /\ Best(rows, n, now) /\ InOrder(list, rows)
          /\ \A i, k \in DOMAIN list : list[i] = list[k] => i = k
    BY ListingIs
  <1> HIDE DEF n, list
  <1>3. /\ list \in [1..Cardinality(rows) -> rows] /\ (\A r \in rows : \E i \in DOMAIN list : list[i] = r)
        /\ \A i, k \in DOMAIN list : i < k => ~Before(list[k], list[i])
    BY <1>2 DEF InOrder, ToSet
  <1>4. DOMAIN list \subseteq Nat
    <2>1. \A c : 1..c \subseteq Nat
      OBVIOUS
    <2> QED  BY <1>3, <2>1
  <1>5. \A i \in DOMAIN list : list[i] \in rows
    BY <1>3
  <1>6. ASSUME NEW i \in DOMAIN list
        PROVE  /\ \A k \in DOMAIN list :
                    k > i => list[k].ssid # list[i].ssid /\ ~Before(list[k], list[i])
               /\ \E k \in DOMAIN air : air[k].ssid = list[i].ssid /\ list[i] = Row(k, now)
               /\ \/ now \in DOMAIN air /\ air[now].ssid = list[i].ssid
                  \/ \A k \in DOMAIN air : air[k].ssid = list[i].ssid => air[k].signal <= list[i].signal
    <2>1. ASSUME NEW k \in DOMAIN list, k > i
          PROVE  list[k].ssid # list[i].ssid /\ ~Before(list[k], list[i])
      <3>1. k # i /\ i < k
        BY <1>4, <2>1
      <3>2. list[k].ssid # list[i].ssid
        BY <1>2, <1>5, <3>1 DEF Best
      <3> QED  BY <1>3, <3>1, <3>2
    <2>2. PICK k \in 1..n : list[i] = Row(k, now)
      BY <1>2, <1>5 DEF Best
    <2>3. Row(k, now).ssid = air[k].ssid
      BY DEF Row
    <2>4. \/ now \in 1..n /\ air[now].ssid = list[i].ssid
          \/ \A j \in 1..n : air[j].ssid = list[i].ssid => air[j].signal <= list[i].signal
      BY <1>2, <1>5 DEF Best
    <2> QED  BY <1>1, <2>1, <2>2, <2>3, <2>4
  <1>7. ListedRight(list, now)
    BY <1>6 DEF ListedRight
  <1>8. \/ now \notin DOMAIN air
        \/ \E i \in DOMAIN air :
             i > now /\ air[i].ssid = air[now].ssid /\ air[i].signal > air[now].signal
        \/ \E i \in DOMAIN list : list[i] = Row(now, now)
    BY <1>1, <1>2, <1>3 DEF Best
  <1> QED  BY <1>4, <1>6, <1>7, <1>8 DEF list

\* What a command that shows the networks says of the network joined.
ToldOf(list, connected, now) ==
    /\ ListedRight(list, now)
    /\ now \in DOMAIN air /\ list # <<>> =>
         \/ connected = air[now].ssid
         \/ \E i \in DOMAIN air :
              i > now /\ air[i].ssid = air[now].ssid /\ air[i].signal > air[now].signal
    /\ now \notin DOMAIN air => connected = None

\* It is right of the network joined (_wifi_payload).
LEMMA PayloadIs ==
    ASSUME SignalsCount, air \in Airs, NEW listed, NEW on, NEW now, NEW list, NEW connected,
           list = IF on /\ listed THEN ParseNetworks(now) ELSE <<>>,
           connected = IF {i \in DOMAIN list : list[i].active} = {} THEN None
                       ELSE list[Min({i \in DOMAIN list : list[i].active})].ssid
    PROVE  ToldOf(list, connected, now)
  <1> DEFINE active == {i \in DOMAIN list : list[i].active}
  <1>1. CASE ~(on /\ listed)
    <2>1. list = <<>> /\ DOMAIN list = {} /\ active = {}
      BY <1>1
    <2>2. ListedRight(list, now)
      BY <2>1 DEF ListedRight
    <2> QED  BY <2>1, <2>2 DEF ToldOf
  <1>2. CASE on /\ listed
    <2>1. list = ParseNetworks(now)
      BY <1>2
    <2>2. /\ ListedRight(list, now) /\ DOMAIN list \in SUBSET Nat
          /\ \A i \in DOMAIN list : \E k \in DOMAIN air : list[i] = Row(k, now)
          /\ \/ now \notin DOMAIN air
             \/ \E i \in DOMAIN air :
                  i > now /\ air[i].ssid = air[now].ssid /\ air[i].signal > air[now].signal
             \/ \E i \in DOMAIN list : list[i] = Row(now, now)
      BY <2>1, ListingTold
    <2>3. \A k : Row(k, now).active = (k = now) /\ Row(k, now).ssid = air[k].ssid
      BY DEF Row
    <2>4. ASSUME NEW i \in active PROVE now \in DOMAIN air /\ list[i].ssid = air[now].ssid
      <3>1. PICK k \in DOMAIN air : list[i] = Row(k, now)
        BY <2>2
      <3>2. k = now
        BY <2>3, <3>1
      <3> QED  BY <2>3, <3>1, <3>2
    <2>5. active # {} => Min(active) \in active
      <3>1. active \subseteq Nat
        BY <2>2
      <3> HIDE DEF active
      <3> QED  BY <3>1, LeastNumber DEF Min
    <2>6. \A i \in DOMAIN list : list[i] = Row(now, now) => i \in active
      BY <2>3
    <2> HIDE DEF active
    <2>7. now \notin DOMAIN air => active = {}
      BY <2>4
    <2>8. \/ now \notin DOMAIN air
          \/ \E i \in DOMAIN air :
               i > now /\ air[i].ssid = air[now].ssid /\ air[i].signal > air[now].signal
          \/ active # {} /\ list[Min(active)].ssid = air[now].ssid
      BY <2>2, <2>4, <2>5, <2>6
    <2> QED  BY <2>2, <2>7, <2>8 DEF active, ToldOf
  <1> QED  BY <1>1, <1>2

\* The commands on Wi-Fi: what their answers say.
Answered ==
    /\ air' = air /\ dns' = dns
    /\ \/ answer'.success = FALSE /\ answer'.networks = <<>>
       \/ /\ answer'.success = TRUE
          /\ ToldOf(answer'.networks, answer'.connected, joined')
          /\ \/ answer'.asked = "connect" /\ joined' \in DOMAIN air /\ air[joined'].ssid = answer'.arg
             \/ answer'.asked = "disconnect" /\ joined' = 0
             \/ answer'.asked = "radio_off" /\ joined' = 0 /\ answer'.networks = <<>>
             \/ answer'.asked = "radio_on"

\* What the payload is, in the new state.
LEMMA AnswerIs ==
    ASSUME SignalsCount, air \in Airs, air' = air, NEW asked, NEW arg, NEW listed,
           answer' = WifiPayload(asked, arg, TRUE, listed)
    PROVE  /\ answer'.success = TRUE /\ answer'.asked = asked /\ answer'.arg = arg
           /\ ToldOf(answer'.networks, answer'.connected, joined')
           /\ ~radio' => answer'.networks = <<>>
  <1>1. /\ answer'.success = TRUE /\ answer'.asked = asked /\ answer'.arg = arg
        /\ answer'.networks = IF radio' /\ listed THEN ParseNetworks(joined') ELSE <<>>
        /\ answer'.connected =
             IF {i \in DOMAIN answer'.networks : answer'.networks[i].active} = {} THEN None
             ELSE answer'.networks[Min({i \in DOMAIN answer'.networks :
                                          answer'.networks[i].active})].ssid
    BY DEF WifiPayload
  <1>2. ToldOf(answer'.networks, answer'.connected, joined')
    BY <1>1, PayloadIs
  <1> QED  BY <1>1, <1>2

\* ... and so it is with the commands on Wi-Fi.
LEMMA WifiAnswers ==
    ASSUME SignalsCount, air \in Airs,
           \/ \E ssid \in Networks : WifiConnect(ssid)
           \/ WifiDisconnect
           \/ \E on \in BOOLEAN : WifiSetEnabled(on)
    PROVE  Answered
  <1>1. \A asked, arg : /\ Failed(asked, arg).success = FALSE
                        /\ Failed(asked, arg).networks = <<>>
    BY DEF Failed, NoAnswer
  <1>2. DOMAIN air \subseteq Nat \ {0}
    BY AirIsList
  <1>3. ASSUME NEW ssid \in Networks, WifiConnect(ssid) PROVE Answered
    <2>1. CASE answer' = Failed("connect", ssid)
      BY <1>1, <1>3, <2>1 DEF Answered, WifiConnect
    <2>2. CASE \E i \in DOMAIN air : /\ air[i].ssid = ssid /\ joined' = i
                                     /\ \E listed \in BOOLEAN :
                                          answer' = WifiPayload("connect", ssid, TRUE, listed)
      BY <1>3, <2>2, AnswerIs DEF Answered, WifiConnect
    <2> QED  BY <1>3, <2>1, <2>2 DEF WifiConnect
  <1>4. CASE WifiDisconnect
    <2>1. CASE answer' = Failed("disconnect", None)
      BY <1>1, <1>4, <2>1 DEF Answered, WifiDisconnect
    <2>2. CASE /\ joined' = 0
               /\ \E listed \in BOOLEAN : answer' = WifiPayload("disconnect", None, TRUE, listed)
      BY <1>4, <2>2, AnswerIs DEF Answered, WifiDisconnect
    <2> QED  BY <1>4, <2>1, <2>2 DEF WifiDisconnect
  <1>5. ASSUME NEW on \in BOOLEAN, WifiSetEnabled(on) PROVE Answered
    <2>1. CASE answer' = Failed("radio", None)
      BY <1>1, <1>5, <2>1 DEF Answered, WifiSetEnabled
    <2>2. CASE /\ radio' = on /\ joined' = IF on THEN joined ELSE 0
               /\ \E listed \in BOOLEAN :
                    answer' = WifiPayload(IF on THEN "radio_on" ELSE "radio_off", None, TRUE, listed)
      <3>1. CASE on
        BY <1>5, <2>2, <3>1, AnswerIs DEF Answered, WifiSetEnabled
      <3>2. CASE ~on
        BY <1>5, <2>2, <3>2, AnswerIs DEF Answered, WifiSetEnabled
      <3> QED  BY <3>1, <3>2
    <2> QED  BY <1>5, <2>1, <2>2 DEF WifiSetEnabled
  <1> QED  BY <1>3, <1>4, <1>5

\* Such an answer is right.
LEMMA AnsweredIsRight ==
    ASSUME SignalsCount, NetInv, Answered
    PROVE  NetInv'
  <1>1. air' = air /\ NetTypeOK'
    BY DEF NetInv, NetTypeOK, Answered
  <1>2. ListingIsRight'
    <2>1. CASE answer'.networks = <<>>
      BY <2>1 DEF ListingIsRight
    <2>2. CASE ListedRight(answer'.networks, joined')
      BY <1>1, <2>2 DEF ListingIsRight, ListedRight, Row
    <2> QED  BY <2>1, <2>2 DEF Answered, ToldOf
  <1>3. SuccessIsShown'
    <2>1. CASE answer'.success = FALSE
      BY <2>1 DEF SuccessIsShown
    <2>2. CASE answer'.asked = "connect" /\ joined' \in DOMAIN air
               /\ air[joined'].ssid = answer'.arg
               /\ ToldOf(answer'.networks, answer'.connected, joined')
      <3>1. joined' # 0
        BY <2>2, AirIsList DEF NetInv, NetTypeOK
      <3>2. \/ Outshone' \/ answer'.networks = <<>> \/ answer'.connected = answer'.arg
        BY <1>1, <2>2, <3>1 DEF ToldOf, Outshone
      <3> QED  BY <2>2, <3>2 DEF SuccessIsShown
    <2>3. CASE /\ answer'.asked = "disconnect" /\ joined' = 0
               /\ ToldOf(answer'.networks, answer'.connected, joined')
      <3>1. joined' \notin DOMAIN air
        BY <2>3, AirIsList DEF NetInv, NetTypeOK
      <3> QED  BY <2>3, <3>1 DEF SuccessIsShown, ToldOf
    <2>4. CASE answer'.asked = "radio_off" /\ joined' = 0 /\ answer'.networks = <<>>
      BY <2>4 DEF SuccessIsShown
    <2>5. CASE answer'.asked = "radio_on"
      BY <2>5 DEF SuccessIsShown
    <2> QED  BY <2>1, <2>2, <2>3, <2>4, <2>5 DEF Answered
  <1> QED  BY <1>1, <1>2, <1>3 DEF NetInv

\* The other commands list no networks.
LEMMA NoListing ==
    ASSUME answer'.networks = <<>> PROVE ListingIsRight'
  BY DEF ListingIsRight

\* The commands on DNS servers: what is chosen is what is reported.
LEMMA DnsStep ==
    ASSUME NetInv, NEW servers \in {None} \cup SUBSET Servers, SetDns(servers) PROVE NetInv'
  <1> DEFINE profile == IF servers = None THEN {} ELSE servers
             live == IF servers = None THEN {"auto"} ELSE servers
             changed == [dns EXCEPT !.profile = profile, !.ignoreAuto = servers # None]
             up == [changed EXCEPT !.live = live]
  <1>1. air' = air /\ answer'.networks = <<>>
    BY DEF SetDns, Failed, NoAnswer
  <1>2. profile \in SUBSET Servers /\ live \in SUBSET (Servers \cup {"auto"})
    OBVIOUS
  <1> HIDE DEF profile, live
  <1> DEFINE Dns == [profile : SUBSET Servers, ignoreAuto : BOOLEAN,
                     live : SUBSET (Servers \cup {"auto"})]
  <1>3. /\ changed \in Dns
        /\ up \in Dns /\ up.profile = profile /\ up.ignoreAuto = (servers # None) /\ up.live = live
    <2>1. dns \in Dns
      BY DEF NetInv, NetTypeOK
    <2>2. (servers # None) \in BOOLEAN
      OBVIOUS
    <2>3. changed \in Dns /\ changed.profile = profile /\ changed.ignoreAuto = (servers # None)
      BY <1>2, <2>1, <2>2
    <2> HIDE DEF changed
    <2> QED  BY <1>2, <2>3
  <1>4. \/ dns' = up /\ answer' = [NoAnswer EXCEPT !.asked = "dns", !.arg = servers]
        \/ dns' \in {dns, changed} /\ answer' = Failed("dns", servers)
    BY DEF SetDns, profile, live
  <1>5. NetTypeOK'
    <2>1. dns' \in Dns
      <3>1. dns \in Dns
        BY DEF NetInv, NetTypeOK
      <3> HIDE DEF changed, up, Dns
      <3> QED  BY <1>3, <1>4, <3>1
    <2> QED  BY <1>1, <2>1 DEF NetInv, NetTypeOK
  <1>6. SuccessIsShown'
    <2>1. CASE answer' = Failed("dns", servers)
      BY <2>1 DEF SuccessIsShown, Failed, NoAnswer
    <2>2. CASE dns' = up /\ answer' = [NoAnswer EXCEPT !.asked = "dns", !.arg = servers]
      <3>1. answer'.asked = "dns" /\ answer'.arg = servers
        BY <2>2 DEF NoAnswer
      <3>2. dns'.live = live /\ dns'.profile = profile /\ dns'.ignoreAuto = (servers # None)
        <4> HIDE DEF up
        <4> QED  BY <1>3, <2>2
      <3>3. DnsInfo' = [dns |-> IF servers = None THEN {"auto"} ELSE servers, auto |-> servers = None]
        BY <3>2 DEF DnsInfo, live, profile
      <3> QED  BY <3>1, <3>3 DEF SuccessIsShown
    <2> QED  BY <1>4, <2>1, <2>2
  <1> QED  BY <1>1, <1>5, <1>6, NoListing DEF NetInv

\* The commands on WARP: a success means that the tunnel, or the service, is as asked.
LEMMA WarpStep ==
    ASSUME NetInv, WarpStop \/ \E asked \in {"warp_on", "warp_restart"} : WarpStart(asked)
    PROVE  NetInv'
  <1>1. CASE WarpStop
    <2>1. PICK stopped, cut \in BOOLEAN :
            /\ \E up \in Service(FALSE, stopped) :
                 warp' = [service |-> up, tunnel |-> up /\ ~cut /\ warp.tunnel]
            /\ answer' = [NoAnswer EXCEPT !.asked = "warp_off", !.success = stopped]
            /\ UNCHANGED <<air, radio, joined, dns>>
      BY <1>1 DEF WarpStop
    <2>2. answer'.networks = <<>> /\ answer'.asked = "warp_off" /\ answer'.success = stopped
      BY <2>1 DEF NoAnswer
    <2>3. ASSUME stopped PROVE ~warp'.service /\ ~warp'.tunnel
      <3>1. warp' = [service |-> FALSE, tunnel |-> FALSE]
        BY <2>1, <2>3 DEF Service
      <3> QED  BY <3>1
    <2>4. SuccessIsShown'
      BY <2>2, <2>3 DEF SuccessIsShown
    <2> QED  BY <2>1, <2>2, <2>4, NoListing DEF NetInv, NetTypeOK
  <1>2. ASSUME NEW asked \in {"warp_on", "warp_restart"}, WarpStart(asked) PROVE NetInv'
    <2>1. PICK started, tunnelled \in BOOLEAN :
            /\ \E up \in Service(TRUE, started) :
               \E tunnel \in IF started THEN Connected(up, tunnelled) ELSE {up /\ warp.tunnel} :
                 warp' = [service |-> up, tunnel |-> tunnel]
            /\ answer' = [NoAnswer EXCEPT !.asked = asked, !.success = started /\ tunnelled]
            /\ UNCHANGED <<air, radio, joined, dns>>
      BY <1>2 DEF WarpStart
    <2>2. answer'.networks = <<>> /\ answer'.asked = asked /\ answer'.success = (started /\ tunnelled)
      BY <2>1 DEF NoAnswer
    <2>3. started /\ tunnelled => warp'.service /\ warp'.tunnel
      BY <2>1 DEF Service, Connected
    <2>4. SuccessIsShown'
      BY <2>2, <2>3 DEF SuccessIsShown
    <2> QED  BY <2>1, <2>2, <2>4, NoListing DEF NetInv, NetTypeOK
  <1> QED  BY <1>1, <1>2

\* The surroundings stay within the bound.
LEMMA AirStep ==
    ASSUME SignalsCount, NetInv, AirChanges PROVE NetInv'
  <1>1. PICK n \in 0..MaxPoints : air \in [1..n -> AccessPoints]
    BY DEF NetInv, NetTypeOK, Airs
  <1>2. n \in Nat /\ air \in Seq(AccessPoints) /\ Len(air) = n /\ MaxPoints \in Nat
    BY <1>1 DEF SignalsCount
  <1>3. ASSUME NEW s \in Seq(AccessPoints), Len(s) <= MaxPoints PROVE s \in Airs
    BY <1>2, <1>3 DEF Airs
  <1>4. ASSUME NEW point \in AccessPoints, Len(air) < MaxPoints, air' = Append(air, point)
        PROVE  air' \in Airs
    <2>1. Append(air, point) \in Seq(AccessPoints) /\ Len(Append(air, point)) = n + 1
      BY <1>2
    <2>2. n + 1 <= MaxPoints
      BY <1>2, <1>4
    <2>3. Append(air, point) \in Airs
      BY <1>3, <2>1, <2>2
    <2> QED  BY <1>4, <2>3
  <1>5. ASSUME NEW i \in DOMAIN air, air' = RemoveAt(air, i) PROVE air' \in Airs
    <2>1. i \in 1..n /\ i \in Nat
      BY <1>1, <1>2
    <2>2. SubSeq(air, 1, i - 1) \in Seq(AccessPoints) /\ Len(SubSeq(air, 1, i - 1)) = i - 1
      BY <1>2, <2>1
    <2>3. SubSeq(air, i + 1, n) \in Seq(AccessPoints) /\ Len(SubSeq(air, i + 1, n)) = n - i
      BY <1>2, <2>1
    <2>4. /\ air' \in Seq(AccessPoints)
          /\ Len(air') = (i - 1) + (n - i)
      BY <1>2, <1>5, <2>2, <2>3, ConcatProperties DEF RemoveAt
    <2> QED  BY <1>1, <1>2, <1>3, <2>1, <2>4
  <1>6. answer' = NoAnswer /\ air' \in Airs
    BY <1>4, <1>5 DEF AirChanges
  <1>7. answer'.networks = <<>> /\ answer'.asked = "nothing"
    BY <1>6 DEF NoAnswer
  <1>8. SuccessIsShown'
    BY <1>7 DEF SuccessIsShown
  <1>9. dns' = dns
    BY DEF AirChanges
  <1> QED  BY <1>6, <1>7, <1>8, <1>9, NoListing DEF NetInv, NetTypeOK

\* Nothing is asked before the first command.
LEMMA NetAtStart == ASSUME NetInit PROVE NetInv
  BY DEF NetInit, NetInv, NetTypeOK, SuccessIsShown, ListingIsRight, NoAnswer

\* Every command's answer is right.
LEMMA NetStep == ASSUME SignalsCount, NetInv, NetNext PROVE NetInv'
  <1>1. ASSUME Answered PROVE NetInv'
    BY <1>1, AnsweredIsRight
  <1> QED  BY <1>1, WifiAnswers, DnsStep, WarpStep, AirStep DEF NetNext, NetInv, NetTypeOK

(***************************************************************************)
(* Fields that nmcli escapes and _split_nmcli_fields reads back.           *)
(***************************************************************************)
\* Where a reader of a line is: the fields read, the one being read, and whether the last
\* character was a backslash.
Readings == [fields : Seq(Seq(Chars)), buf : Seq(Chars), escaped : BOOLEAN]
At(f, b, e) == [fields |-> f, buf |-> b, escaped |-> e]

\* A reader is at its three parts.
LEMMA ReadingIs ==
    ASSUME NEW st \in Readings PROVE st = At(st.fields, st.buf, st.escaped)
  BY DEF Readings, At

\* What one character does.
LEMMA SplitStepIs ==
    ASSUME NEW f \in Seq(Seq(Chars)), NEW b \in Seq(Chars), NEW c \in Chars
    PROVE  /\ At(f, b, TRUE) \in Readings /\ At(f, b, FALSE) \in Readings
           /\ SplitStep(At(f, b, TRUE), c) = At(f, Append(b, c), FALSE)
           /\ c = "\\" => SplitStep(At(f, b, FALSE), c) = At(f, b, TRUE)
           /\ c = ":" => SplitStep(At(f, b, FALSE), c) = At(Append(f, b), <<>>, FALSE)
           /\ c = "x" => SplitStep(At(f, b, FALSE), c) = At(f, Append(b, c), FALSE)
  <1>1. /\ At(f, b, TRUE) \in Readings /\ At(f, b, FALSE) \in Readings
    BY DEF Readings, At
  <1>2. Append(b, c) \in Seq(Chars) /\ Append(f, b) \in Seq(Seq(Chars)) /\ <<>> \in Seq(Chars)
    OBVIOUS
  <1>3. SplitStep(At(f, b, TRUE), c) = At(f, Append(b, c), FALSE)
    BY <1>1, <1>2 DEF SplitStep, At
  <1>4. c = "\\" => SplitStep(At(f, b, FALSE), c) = At(f, b, TRUE)
    BY <1>1, <1>2 DEF SplitStep, At
  <1>5. c = ":" => SplitStep(At(f, b, FALSE), c) = At(Append(f, b), <<>>, FALSE)
    BY <1>1, <1>2 DEF SplitStep, At
  <1>6. c = "x" => SplitStep(At(f, b, FALSE), c) = At(f, Append(b, c), FALSE)
    BY <1>1, <1>2 DEF SplitStep, At
  <1> QED  BY <1>1, <1>3, <1>4, <1>5, <1>6

\* A reader stays one.
LEMMA SplitStepType ==
    ASSUME NEW st \in Readings, NEW c \in Chars PROVE SplitStep(st, c) \in Readings
  <1>1. /\ st.fields \in Seq(Seq(Chars)) /\ st.buf \in Seq(Chars) /\ st.escaped \in BOOLEAN
        /\ st = At(st.fields, st.buf, st.escaped)
    BY ReadingIs DEF Readings
  <1>2. Append(st.buf, c) \in Seq(Chars) /\ Append(st.fields, st.buf) \in Seq(Seq(Chars))
        /\ <<>> \in Seq(Chars)
    BY <1>1
  <1>3. \A f \in Seq(Seq(Chars)), b \in Seq(Chars), e \in BOOLEAN : At(f, b, e) \in Readings
    BY DEF At, Readings
  <1>4. c \in {"x", ":", "\\"}
    BY DEF Chars
  <1>5. CASE st.escaped
    <2>1. SplitStep(At(st.fields, st.buf, TRUE), c) = At(st.fields, Append(st.buf, c), FALSE)
      BY <1>1, SplitStepIs
    <2> QED  BY <1>1, <1>2, <1>3, <1>5, <2>1
  <1>6. CASE ~st.escaped
    <2>1. st = At(st.fields, st.buf, FALSE)
      BY <1>1, <1>6
    <2>2. \/ SplitStep(At(st.fields, st.buf, FALSE), c) = At(st.fields, st.buf, TRUE)
          \/ SplitStep(At(st.fields, st.buf, FALSE), c) = At(Append(st.fields, st.buf), <<>>, FALSE)
          \/ SplitStep(At(st.fields, st.buf, FALSE), c) = At(st.fields, Append(st.buf, c), FALSE)
      BY <1>1, <1>4, SplitStepIs
    <2> QED  BY <1>1, <1>2, <1>3, <2>1, <2>2
  <1> QED  BY <1>1, <1>5, <1>6

\* Reading the characters w from st on ends at end.
SplitRun(at, st, w) ==
    /\ at \in [0..Len(w) -> Readings] /\ at[0] = st
    /\ \A k \in 1..Len(w) : at[k] = SplitStep(at[k - 1], w[k])
Reads(st, w, end) == \E at : SplitRun(at, st, w) /\ at[Len(w)] = end

\* There is one end, ...
LEMMA ReadsOnce ==
    ASSUME NEW st, NEW w \in Seq(Chars), NEW e1, NEW e2, Reads(st, w, e1), Reads(st, w, e2)
    PROVE  e1 = e2
  <1>1. PICK at : SplitRun(at, st, w) /\ at[Len(w)] = e1
    BY DEF Reads
  <1>2. PICK other : SplitRun(other, st, w) /\ other[Len(w)] = e2
    BY DEF Reads
  <1> DEFINE Bad == {k \in Nat : k <= Len(w) /\ at[k] # other[k]}
  <1>3. CASE Bad # {}
    <2>1. PICK k \in Bad : \A j \in Bad : k <= j
      <3>1. Bad \subseteq Nat
        OBVIOUS
      <3> HIDE DEF Bad
      <3> QED  BY <1>3, <3>1, LeastNumber
    <2>2. k # 0
      BY <1>1, <1>2, <2>1 DEF SplitRun
    <2>3. k \in 1..Len(w) /\ k - 1 \in Nat /\ k - 1 <= Len(w) /\ ~ (k <= k - 1)
      BY <2>1, <2>2
    <2>4. at[k - 1] = other[k - 1]
      BY <2>1, <2>3
    <2>5. at[k] = other[k]
      BY <1>1, <1>2, <2>3, <2>4 DEF SplitRun
    <2> QED  BY <2>1, <2>5
  <1>4. CASE Bad = {}
    BY <1>1, <1>2, <1>4
  <1> QED  BY <1>3, <1>4

\* ... which is a reader's state, ...
LEMMA ReadsType ==
    ASSUME NEW st, NEW w \in Seq(Chars), NEW end, Reads(st, w, end) PROVE end \in Readings
  BY DEF Reads, SplitRun

\* ... nothing is read from nothing, ...
LEMMA ReadsNothing == ASSUME NEW st \in Readings PROVE Reads(st, <<>>, st)
  <1>1. SplitRun([k \in 0..0 |-> st], st, <<>>)
    BY DEF SplitRun
  <1> QED  BY <1>1 DEF Reads

\* ... one character is one step, ...
LEMMA ReadsOne ==
    ASSUME NEW st \in Readings, NEW c \in Chars PROVE Reads(st, <<c>>, SplitStep(st, c))
  <1> DEFINE at == [k \in 0..1 |-> IF k = 0 THEN st ELSE SplitStep(st, c)]
  <1>1. at \in [0..1 -> Readings]
    BY SplitStepType
  <1>2. at[0] = st /\ at[1] = SplitStep(st, c) /\ Len(<<c>>) = 1 /\ <<c>>[1] = c
    OBVIOUS
  <1>3. \A k \in 1..1 : k = 1 /\ k - 1 = 0
    OBVIOUS
  <1> HIDE DEF at
  <1>4. SplitRun(at, st, <<c>>)
    BY <1>1, <1>2, <1>3 DEF SplitRun
  <1> QED  BY <1>2, <1>4 DEF Reads

\* ... and what follows is read from where one is.
LEMMA ReadsBoth ==
    ASSUME NEW st, NEW w \in Seq(Chars), NEW v \in Seq(Chars), NEW mid, NEW end,
           Reads(st, w, mid), Reads(mid, v, end)
    PROVE  Reads(st, w \o v, end)
  <1> DEFINE n == Len(w)
             m == Len(v)
  <1>1. PICK at : SplitRun(at, st, w) /\ at[n] = mid
    BY DEF Reads
  <1>2. PICK then : SplitRun(then, mid, v) /\ then[m] = end
    BY DEF Reads
  <1>3. /\ n \in Nat /\ m \in Nat /\ w \o v \in Seq(Chars) /\ Len(w \o v) = n + m
        /\ \A k \in 1..n : (w \o v)[k] = w[k]
        /\ \A k \in 1..(n + m) : k > n => (w \o v)[k] = v[k - n]
    BY ConcatProperties
  <1> DEFINE both == [k \in 0..(n + m) |-> IF k <= n THEN at[k] ELSE then[k - n]]
  <1>4. ASSUME NEW k \in 0..(n + m) PROVE both[k] \in Readings
    <2>1. CASE k <= n
      <3>1. k \in 0..n
        BY <1>3, <2>1
      <3> QED  BY <1>1, <2>1, <3>1 DEF SplitRun
    <2>2. CASE ~ (k <= n)
      <3>1. k - n \in 0..m
        BY <1>3, <2>2
      <3> QED  BY <1>2, <2>2, <3>1 DEF SplitRun
    <2> QED  BY <2>1, <2>2
  <1>5. both \in [0..(n + m) -> Readings] /\ both[0] = st
    BY <1>1, <1>3, <1>4 DEF SplitRun
  <1>6. ASSUME NEW k \in 1..(n + m) PROVE both[k] = SplitStep(both[k - 1], (w \o v)[k])
    <2>1. CASE k <= n
      <3>1. k \in 1..n /\ k - 1 <= n /\ k \in 0..(n + m) /\ k - 1 \in 0..(n + m)
        BY <1>3, <2>1
      <3>2. both[k] = at[k] /\ both[k - 1] = at[k - 1]
        BY <2>1, <3>1
      <3> HIDE DEF both
      <3> QED  BY <1>1, <1>3, <3>1, <3>2 DEF SplitRun
    <2>2. CASE k > n
      <3>1. k - n \in 1..m /\ k \in 0..(n + m) /\ k - 1 \in 0..(n + m) /\ ~ (k <= n)
        BY <1>3, <2>2
      <3>2. both[k] = then[k - n]
        BY <3>1
      <3>3. both[k - 1] = then[(k - n) - 1]
        <4>1. CASE k - 1 = n
          <5>1. (k - n) - 1 = 0 /\ k - 1 <= n
            BY <1>3, <3>1, <4>1
          <5> QED  BY <1>1, <1>2, <3>1, <4>1, <5>1 DEF SplitRun
        <4>2. CASE k - 1 # n
          <5>1. ~ (k - 1 <= n) /\ (k - 1) - n = (k - n) - 1
            BY <1>3, <3>1, <4>2
          <5> QED  BY <3>1, <5>1
        <4> QED  BY <4>1, <4>2
      <3>4. then[k - n] = SplitStep(then[(k - n) - 1], v[k - n])
        BY <1>2, <3>1 DEF SplitRun
      <3> HIDE DEF both
      <3> QED  BY <1>3, <2>2, <3>2, <3>3, <3>4
    <2> QED  BY <1>3, <2>1, <2>2
  <1>7. both[n + m] = end
    <2>1. CASE m = 0
      <3>1. n + m = n /\ n + m <= n /\ n + m \in 0..(n + m)
        BY <1>3, <2>1
      <3>2. mid = end
        BY <1>2, <2>1 DEF SplitRun
      <3> QED  BY <1>1, <3>1, <3>2
    <2>2. CASE m # 0
      <3>1. ~ (n + m <= n) /\ (n + m) - n = m /\ n + m \in 0..(n + m)
        BY <1>3, <2>2
      <3> QED  BY <1>2, <3>1
    <2> QED  BY <2>1, <2>2
  <1> HIDE DEF both
  <1>8. SplitRun(both, st, w \o v)
    BY <1>3, <1>5, <1>6 DEF SplitRun
  <1> QED  BY <1>3, <1>7, <1>8 DEF Reads

\* _split_nmcli_fields passes from character to character.
LEMMA ReadsIsFold ==
    ASSUME NEW line \in Seq(Chars), NEW st \in Readings
    PROVE  Reads(st, line, FoldLeft(SplitStep, st, line))
  <1> DEFINE n == Len(line)
             G == [p \in Readings \X (1..n) |-> SplitStep(p[1], line[p[2]])]
  <1>1. n \in Nat /\ DOMAIN line = 1..n /\ \A k \in 1..n : line[k] \in Chars
    OBVIOUS
  <1>2. G \in [Readings \X (1..n) -> Readings]
    <2>1. \A x \in Readings \X (1..n) : SplitStep(x[1], line[x[2]]) \in Readings
      BY <1>1, SplitStepType
    <2> QED  BY <2>1
  <1>3. PICK it : IsFold(it, Readings, G, st, n)
    <2> HIDE DEF G
    <2> QED  BY <1>1, <1>2, FoldsExist
  <1> DEFINE Solves(f) ==
               f = [s \in SUBSET (1..n) |->
                      IF s = {} THEN st ELSE SplitStep(f[s \ {Top(s)}], line[Top(s)])]
             sol == CHOOSE f : Solves(f)
  <1>5. FoldLeft(SplitStep, st, line) = sol[1..n]
    BY <1>1 DEF FoldLeft, MapThenFoldSet, Max, Top
  <1>6. ASSUME NEW s \in SUBSET (1..n)
        PROVE  it[s] = IF s = {} THEN st ELSE SplitStep(it[s \ {Top(s)}], line[Top(s)])
    <2>1. CASE s = {}
      BY <1>3, <2>1 DEF IsFold
    <2>2. CASE s # {}
      <3>1. Top(s) \in 1..n
        BY <1>1, <2>2, TopIsIn
      <3>2. it[s \ {Top(s)}] \in Readings
        BY <1>3 DEF IsFold
      <3>3. it[s] = G[<<it[s \ {Top(s)}], Top(s)>>]
        BY <1>3, <2>2 DEF IsFold
      <3> QED  BY <2>2, <3>1, <3>2, <3>3
    <2> QED  BY <2>1, <2>2
  <1>7. Solves(it)
    <2>1. it \in [SUBSET (1..n) -> Readings]
      BY <1>3 DEF IsFold
    <2> QED  BY <1>6, <2>1
  <1>8. Solves(sol)
    BY <1>7
  <1> DEFINE at == [k \in 0..n |-> sol[1..k]]
  <1> HIDE DEF sol
  <1>9. at[0] = st
    <2>1. 1..0 = {} /\ 0 \in 0..n /\ {} \in SUBSET (1..n)
      BY <1>1
    <2> QED  BY <1>8, <2>1
  <1>10. ASSUME NEW k \in 1..n PROVE at[k] = SplitStep(at[k - 1], line[k])
    <2>1. /\ 1..k \in SUBSET (1..n) /\ 1..k # {} /\ k \in 1..k /\ k \in Nat
          /\ (1..k) \ {k} = 1..(k - 1) /\ k \in 0..n /\ k - 1 \in 0..n
      <3>1. k \in Nat /\ 1 <= k /\ k <= n
        BY <1>1
      <3>2. (1..k) \ {k} = 1..(k - 1)
        BY <3>1
      <3>3. \A i \in 1..k : i \in 1..n
        BY <1>1, <3>1
      <3>4. k \in 1..k /\ k \in 0..n /\ k - 1 \in 0..n
        BY <1>1, <3>1
      <3> QED  BY <3>1, <3>2, <3>3, <3>4
    <2>2. Top(1..k) = k
      BY <2>1, TopIs
    <2> QED  BY <1>8, <2>1, <2>2
  <1>11. at[n] = sol[1..n]
    BY <1>1
  <1>12. ASSUME NEW k \in 0..n PROVE at[k] \in Readings
    <2> DEFINE Bad == {j \in Nat : j <= n /\ at[j] \notin Readings}
    <2>1. CASE Bad # {}
      <3>1. PICK j \in Bad : \A i \in Bad : j <= i
        <4>1. Bad \subseteq Nat
          OBVIOUS
        <4> HIDE DEF Bad
        <4> QED  BY <2>1, <4>1, LeastNumber
      <3>2. j # 0
        BY <1>9, <3>1
      <3>3. j \in 1..n /\ j - 1 \in Nat /\ j - 1 <= n /\ ~ (j <= j - 1)
        BY <1>1, <3>1, <3>2
      <3>4. at[j - 1] \in Readings /\ line[j] \in Chars
        BY <1>1, <3>1, <3>3
      <3>5. at[j] = SplitStep(at[j - 1], line[j])
        BY <1>10, <3>3
      <3> HIDE DEF at
      <3>6. at[j] \in Readings
        BY <3>4, <3>5, SplitStepType
      <3> QED  BY <3>1, <3>6
    <2> QED  BY <1>1, <2>1
  <1>13. at \in [0..n -> Readings]
    BY <1>12
  <1> HIDE DEF at
  <1>14. SplitRun(at, st, line)
    BY <1>9, <1>10, <1>13 DEF SplitRun
  <1> QED  BY <1>5, <1>11, <1>14 DEF Reads

\* FlattenSeq appends list after list.
Flattens(at, lists) ==
    /\ at[1] = lists[1]
    /\ \A k \in 1..Len(lists) : k > 1 => at[k] = at[k - 1] \o lists[k]

\* ... and what it returns is the last of what it has then.
LEMMA FlattenIs ==
    ASSUME NEW S, NEW lists \in Seq(Seq(S)), lists # <<>>
    PROVE  \E at \in [1..Len(lists) -> Seq(S)] :
             Flattens(at, lists) /\ FlattenSeq(lists) = at[Len(lists)]
  <1> DEFINE n == Len(lists)
             Solves(f) == f = [i \in 1..n |-> IF i = 1 THEN lists[i] ELSE f[i - 1] \o lists[i]]
             sol == CHOOSE f : Solves(f)
             Upto(f, m) == /\ f \in [1..m -> Seq(S)]
                           /\ \A i \in 1..m : f[i] = IF i = 1 THEN lists[i] ELSE f[i - 1] \o lists[i]
             Bad == {m \in Nat : m <= n /\ ~ \E f : Upto(f, m)}
  <1>1. n \in Nat /\ n # 0 /\ \A i \in 1..n : lists[i] \in Seq(S)
    OBVIOUS
  <1>2. FlattenSeq(lists) = sol[n]
    BY <1>1 DEF FlattenSeq
  <1>3. Bad = {}
    <2> SUFFICES ASSUME Bad # {} PROVE FALSE
      OBVIOUS
    <2>1. PICK m \in Bad : \A j \in Bad : m <= j
      <3>1. Bad \subseteq Nat
        OBVIOUS
      <3> HIDE DEF Bad
      <3> QED  BY <3>1, LeastNumber
    <2>2. m # 0
      <3>1. Upto([i \in 1..0 |-> <<>>], 0)
        BY DEF Upto
      <3> QED  BY <2>1, <3>1
    <2>3. m \in 1..n /\ m - 1 \in Nat /\ m - 1 <= n /\ ~ (m <= m - 1) /\ m \in Nat
      BY <1>1, <2>1, <2>2
    <2>4. PICK f : Upto(f, m - 1)
      BY <2>1, <2>3
    <2> DEFINE more == [i \in 1..m |-> IF i = m THEN (IF m = 1 THEN lists[m] ELSE f[m - 1] \o lists[m])
                                       ELSE f[i]]
    <2>5. /\ \A i \in 1..m : i # m => i \in 1..(m - 1) /\ i - 1 # m
          /\ m # 1 => m - 1 \in 1..(m - 1) /\ m - 1 # m /\ m - 1 \in 1..m
          /\ \A i \in 1..m : i # 1 => i - 1 \in 1..m
          /\ m \in 1..m
      BY <2>3
    <2>6. ASSUME NEW i \in 1..m PROVE more[i] \in Seq(S)
      <3>1. CASE i # m
        BY <2>4, <2>5, <3>1
      <3>2. CASE i = m /\ m = 1
        BY <1>1, <2>3, <3>2
      <3>3. CASE i = m /\ m # 1
        <4>1. f[m - 1] \in Seq(S) /\ lists[m] \in Seq(S)
          BY <1>1, <2>3, <2>4, <2>5, <3>3
        <4> QED  BY <3>3, <4>1, ConcatProperties
      <3> QED  BY <3>1, <3>2, <3>3
    <2>7. ASSUME NEW i \in 1..m
          PROVE  more[i] = IF i = 1 THEN lists[i] ELSE more[i - 1] \o lists[i]
      <3>1. CASE i # m
        <4>1. f[i] = IF i = 1 THEN lists[i] ELSE f[i - 1] \o lists[i]
          BY <2>4, <2>5, <3>1
        <4>2. more[i] = f[i] /\ (i # 1 => more[i - 1] = f[i - 1])
          BY <2>5, <3>1
        <4> HIDE DEF more
        <4> QED  BY <4>1, <4>2
      <3>2. CASE i = m
        BY <2>5, <3>2
      <3> QED  BY <3>1, <3>2
    <2>8. more \in [1..m -> Seq(S)]
      BY <2>6
    <2> HIDE DEF more
    <2>9. Upto(more, m)
      BY <2>7, <2>8
    <2> QED  BY <2>1, <2>9
  <1>4. PICK f : Upto(f, n)
    <2>1. n <= n
      BY <1>1
    <2> HIDE DEF Upto
    <2> QED  BY <1>1, <1>3, <2>1
  <1>5. Solves(f)
    BY <1>4
  <1>6. Solves(sol)
    BY <1>5
  <1> HIDE DEF sol
  <1>7. \A i \in 1..n : sol[i] = IF i = 1 THEN lists[i] ELSE sol[i - 1] \o lists[i]
    BY <1>6
  <1>8. Flattens(sol, lists)
    <2>1. 1 \in 1..n /\ \A k \in 1..n : k > 1 => k # 1
      BY <1>1
    <2> QED  BY <1>7, <2>1 DEF Flattens
  <1>9. ASSUME NEW k \in 1..n PROVE sol[k] \in Seq(S)
    <2> DEFINE Bad2 == {m \in Nat : m \in 1..n /\ sol[m] \notin Seq(S)}
    <2>1. CASE Bad2 # {}
      <3>1. PICK m \in Bad2 : \A j \in Bad2 : m <= j
        <4>1. Bad2 \subseteq Nat
          OBVIOUS
        <4> HIDE DEF Bad2
        <4> QED  BY <2>1, <4>1, LeastNumber
      <3>2. m # 1
        BY <1>1, <1>7, <3>1
      <3>3. m - 1 \in 1..n /\ m - 1 \in Nat /\ ~ (m <= m - 1)
        BY <1>1, <3>1, <3>2
      <3>4. sol[m - 1] \in Seq(S) /\ lists[m] \in Seq(S) /\ sol[m] = sol[m - 1] \o lists[m]
        BY <1>1, <1>7, <3>1, <3>2, <3>3
      <3>5. sol[m] \in Seq(S)
        BY <3>4, ConcatProperties
      <3> QED  BY <3>1, <3>5
    <2>2. CASE Bad2 = {}
      <3>1. k \in Nat
        BY <1>1
      <3> QED  BY <2>2, <3>1
    <2> QED  BY <2>1, <2>2
  <1>10. sol \in [1..n -> Seq(S)]
    <2>1. sol = [i \in 1..n |-> sol[i]]
      BY <1>6
    <2> QED  BY <1>9, <2>1
  <1> QED  BY <1>2, <1>8, <1>10

\* A character that is escaped is read back, ...
LEMMA CharIsRead ==
    ASSUME NEW f \in Seq(Seq(Chars)), NEW b \in Seq(Chars), NEW c \in Chars
    PROVE  /\ Escaped(c) \in Seq(Chars)
           /\ Reads(At(f, b, FALSE), Escaped(c), At(f, Append(b, c), FALSE))
  <1>1. "\\" \in Chars /\ Append(b, c) \in Seq(Chars)
    BY DEF Chars
  <1>2. CASE c \in {":", "\\"}
    <2>1. Escaped(c) = <<"\\", c>>
      BY <1>2 DEF Escaped
    <2>2. <<"\\">> \in Seq(Chars) /\ <<c>> \in Seq(Chars) /\ <<"\\", c>> = <<"\\">> \o <<c>>
      BY <1>1
    <2>3. Reads(At(f, b, FALSE), <<"\\">>, At(f, b, TRUE))
      BY <1>1, SplitStepIs, ReadsOne
    <2>4. Reads(At(f, b, TRUE), <<c>>, At(f, Append(b, c), FALSE))
      BY SplitStepIs, ReadsOne
    <2>5. Reads(At(f, b, FALSE), <<"\\">> \o <<c>>, At(f, Append(b, c), FALSE))
      BY <2>2, <2>3, <2>4, ReadsBoth
    <2>6. Escaped(c) \in Seq(Chars)
      BY <1>1, <2>1, <2>2
    <2>7. Escaped(c) = <<"\\">> \o <<c>>
      BY <2>1, <2>2
    <2> QED  BY Zenon, <2>5, <2>6, <2>7
  <1>3. CASE c \notin {":", "\\"}
    <2>1. Escaped(c) = <<c>> /\ c = "x"
      BY <1>3 DEF Escaped, Chars
    <2>2. Reads(At(f, b, FALSE), <<c>>, At(f, Append(b, c), FALSE))
      BY <2>1, SplitStepIs, ReadsOne
    <2>3. Escaped(c) \in Seq(Chars)
      BY <2>1
    <2> QED  BY Zenon, <2>1, <2>2, <2>3
  <1> QED  BY <1>2, <1>3

\* ... and so is a field, of any length.
LEMMA FieldIsRead ==
    ASSUME NEW f \in Seq(Seq(Chars)), NEW field \in Seq(Chars)
    PROVE  /\ EscapeField(field) \in Seq(Chars)
           /\ Reads(At(f, <<>>, FALSE), EscapeField(field), At(f, field, FALSE))
  <1> DEFINE n == Len(field)
             lists == [i \in DOMAIN field |-> Escaped(field[i])]
  <1>1. n \in Nat /\ DOMAIN field = 1..n /\ \A i \in 1..n : field[i] \in Chars
    OBVIOUS
  <1>2. \A i \in 1..n : Escaped(field[i]) \in Seq(Chars)
    BY <1>1, CharIsRead DEF Escaped, Chars
  <1>3. lists \in Seq(Seq(Chars)) /\ Len(lists) = n /\ \A i \in 1..n : lists[i] = Escaped(field[i])
    BY <1>1, <1>2
  <1>4. EscapeField(field) = FlattenSeq(lists)
    BY DEF EscapeField
  <1> HIDE DEF lists
  <1>5. CASE n = 0
    <2>1. lists = <<>> /\ field = <<>>
      BY <1>1, <1>3, <1>5
    <2>2. EscapeField(field) = <<>>
      BY <1>4, <2>1 DEF FlattenSeq
    <2>3. At(f, <<>>, FALSE) \in Readings
      BY DEF At, Readings
    <2> QED  BY <2>1, <2>2, <2>3, ReadsNothing
  <1>6. CASE n # 0
    <2>1. lists # <<>>
      BY <1>1, <1>3, <1>6
    <2>2. PICK at \in [1..n -> Seq(Chars)] : Flattens(at, lists) /\ FlattenSeq(lists) = at[n]
      BY <1>3, <2>1, FlattenIs
    <2> DEFINE Bad == {k \in Nat : k \in 1..n /\
                         ~ Reads(At(f, <<>>, FALSE), at[k], At(f, SubSeq(field, 1, k), FALSE))}
    <2>3. CASE Bad # {}
      <3>1. PICK k \in Bad : \A j \in Bad : k <= j
        <4>1. Bad \subseteq Nat
          OBVIOUS
        <4> HIDE DEF Bad
        <4> QED  BY <2>3, <4>1, LeastNumber
      <3>2. k \in Nat /\ k \in 1..n
        BY <3>1
      <3>3. CASE k = 1
        <4>1. at[1] = Escaped(field[1]) /\ field[1] \in Chars
          BY <1>1, <1>3, <2>2, <3>2, <3>3 DEF Flattens
        <4>2. SubSeq(field, 1, 1) = Append(<<>>, field[1])
          <5>1. n >= 1 /\ 1 \in 1..n /\ field[1] \in Chars
            BY <1>1, <3>2, <3>3
          <5>2. SubSeq(field, 1, 1) = <<field[1]>>
            <6> DEFINE first == SubSeq(field, 1, 1)
            <6>1. first \in Seq(Chars) /\ Len(first) = 1 /\ first[1] = field[1]
              BY <5>1
            <6> HIDE DEF first
            <6>2. first = <<field[1]>>
              BY <6>1
            <6> QED  BY <6>2 DEF first
          <5>3. Append(<<>>, field[1]) = <<field[1]>>
            OBVIOUS
          <5> QED  BY <5>2, <5>3
        <4>3. Reads(At(f, <<>>, FALSE), Escaped(field[1]), At(f, Append(<<>>, field[1]), FALSE))
          <5>1. <<>> \in Seq(Chars)
            OBVIOUS
          <5> QED  BY <4>1, <5>1, CharIsRead
        <4> QED  BY <3>1, <3>3, <4>1, <4>2, <4>3
      <3>4. CASE k # 1
        <4>1. k - 1 \in Nat /\ k - 1 \in 1..n /\ ~ (k <= k - 1) /\ k > 1
          BY <1>1, <3>2, <3>4
        <4>2. Reads(At(f, <<>>, FALSE), at[k - 1], At(f, SubSeq(field, 1, k - 1), FALSE))
          BY <3>1, <4>1
        <4>3. at[k] = at[k - 1] \o Escaped(field[k]) /\ field[k] \in Chars
          BY <1>1, <1>3, <2>2, <3>2, <4>1 DEF Flattens
        <4>4. SubSeq(field, 1, k - 1) \in Seq(Chars)
              /\ SubSeq(field, 1, k) = Append(SubSeq(field, 1, k - 1), field[k])
          BY <1>1, <3>2, <4>1
        <4>5. Reads(At(f, SubSeq(field, 1, k - 1), FALSE), Escaped(field[k]),
                    At(f, SubSeq(field, 1, k), FALSE))
          BY <4>3, <4>4, CharIsRead
        <4>6. at[k - 1] \in Seq(Chars) /\ Escaped(field[k]) \in Seq(Chars)
          BY <1>2, <2>2, <3>2, <4>1
        <4>7. Reads(At(f, <<>>, FALSE), at[k], At(f, SubSeq(field, 1, k), FALSE))
          BY <4>2, <4>3, <4>5, <4>6, ReadsBoth
        <4> QED  BY <3>1, <4>7
      <3> QED  BY <3>3, <3>4
    <2>4. CASE Bad = {}
      <3>1. n \in 1..n /\ SubSeq(field, 1, n) = field /\ at[n] \in Seq(Chars)
        BY <1>1, <1>6, <2>2
      <3>2. Reads(At(f, <<>>, FALSE), at[n], At(f, SubSeq(field, 1, n), FALSE))
        BY <1>1, <2>4, <3>1
      <3> QED  BY <1>4, <2>2, <3>1, <3>2
    <2> QED  BY <2>3, <2>4
  <1> QED  BY <1>5, <1>6

\* A line of two fields is read back as these.
LEMMA LineIsRead ==
    ASSUME NEW a \in Seq(Chars), NEW b \in Seq(Chars)
    PROVE  SplitFields(TerseLine(<<a, b>>)) = <<a, b>>
  <1> DEFINE colon == <<":">>
             start == At(<<>>, <<>>, FALSE)
             lists == <<EscapeField(a), colon \o EscapeField(b)>>
             line == EscapeField(a) \o (colon \o EscapeField(b))
  <1>1. EscapeField(a) \in Seq(Chars) /\ EscapeField(b) \in Seq(Chars) /\ colon \in Seq(Chars)
        /\ colon \o EscapeField(b) \in Seq(Chars) /\ line \in Seq(Chars)
    <2>1. <<>> \in Seq(Seq(Chars)) /\ colon \in Seq(Chars)
      BY DEF Chars
    <2>2. EscapeField(a) \in Seq(Chars) /\ EscapeField(b) \in Seq(Chars)
      BY <2>1, FieldIsRead
    <2> QED  BY <2>1, <2>2, ConcatProperties
  <1>2. TerseLine(<<a, b>>) = line
    <2>1. TerseLine(<<a, b>>) = FlattenSeq(lists)
      <3>1. DOMAIN <<a, b>> = 1..2 /\ <<a, b>>[1] = a /\ <<a, b>>[2] = b
        OBVIOUS
      <3>2. [i \in 1..2 |-> IF i = 1 THEN EscapeField(<<a, b>>[i])
                             ELSE colon \o EscapeField(<<a, b>>[i])] = lists
        OBVIOUS
      <3> QED  BY <3>1, <3>2 DEF TerseLine
    <2>2. lists \in Seq(Seq(Chars)) /\ Len(lists) = 2 /\ lists # <<>>
          /\ lists[1] = EscapeField(a) /\ lists[2] = colon \o EscapeField(b)
      BY <1>1
    <2> HIDE DEF lists
    <2>3. PICK at \in [1..2 -> Seq(Chars)] : Flattens(at, lists) /\ FlattenSeq(lists) = at[2]
      BY <2>2, FlattenIs
    <2>4. at[2] = at[1] \o lists[2] /\ at[1] = lists[1]
      <3>1. 2 \in 1..Len(lists) /\ 2 > 1 /\ 2 - 1 = 1
        BY <2>2
      <3> QED  BY <2>3, <3>1 DEF Flattens
    <2> QED  BY <2>1, <2>2, <2>3, <2>4
  <1> HIDE DEF line
  <1>3. Reads(start, line, At(<<a>>, b, FALSE))
    <2>1. <<>> \in Seq(Seq(Chars)) /\ <<>> \in Seq(Chars) /\ <<a>> \in Seq(Seq(Chars))
          /\ ":" \in Chars /\ Append(<<>>, a) = <<a>>
      BY DEF Chars
    <2>2. Reads(start, EscapeField(a), At(<<>>, a, FALSE))
      BY <2>1, FieldIsRead
    <2>3. Reads(At(<<>>, a, FALSE), colon, At(<<a>>, <<>>, FALSE))
      <3>1. /\ At(<<>>, a, FALSE) \in Readings
            /\ SplitStep(At(<<>>, a, FALSE), ":") = At(Append(<<>>, a), <<>>, FALSE)
        BY <2>1, SplitStepIs
      <3>2. Reads(At(<<>>, a, FALSE), <<":">>, SplitStep(At(<<>>, a, FALSE), ":"))
        BY <2>1, <3>1, ReadsOne
      <3>3. SplitStep(At(<<>>, a, FALSE), ":") = At(<<a>>, <<>>, FALSE)
        BY Zenon, <2>1, <3>1
      <3> QED  BY Zenon, <3>2, <3>3
    <2>4. Reads(At(<<a>>, <<>>, FALSE), EscapeField(b), At(<<a>>, b, FALSE))
      BY <2>1, FieldIsRead
    <2>5. Reads(At(<<>>, a, FALSE), colon \o EscapeField(b), At(<<a>>, b, FALSE))
      BY <1>1, <2>3, <2>4, ReadsBoth
    <2> QED  BY <1>1, <2>2, <2>5, ReadsBoth DEF line
  <1>4. start \in Readings
    BY DEF At, Readings
  <1>5. FoldLeft(SplitStep, start, line) = At(<<a>>, b, FALSE)
    <2>1. Reads(start, line, FoldLeft(SplitStep, start, line))
      BY <1>1, <1>4, ReadsIsFold
    <2> HIDE DEF start
    <2> DEFINE read == FoldLeft(SplitStep, start, line)
    <2>2. Reads(start, line, read)
      BY <2>1
    <2> HIDE DEF read
    <2>3. read = At(<<a>>, b, FALSE)
      BY <1>1, <1>3, <2>2, ReadsOnce
    <2> QED  BY <2>3 DEF read
  <1>6. FoldLeft(SplitStep, [fields |-> <<>>, buf |-> <<>>, escaped |-> FALSE], line)
          = [fields |-> <<a>>, buf |-> b, escaped |-> FALSE]
    BY <1>5 DEF At
  <1>7. SplitFields(line) = Append(<<a>>, b)
    <2> DEFINE end == [fields |-> <<a>>, buf |-> b, escaped |-> FALSE]
    <2>1. SplitFields(line)
            = Append(end.fields, IF end.escaped THEN Append(end.buf, "\\") ELSE end.buf)
      BY <1>6 DEF SplitFields
    <2>2. end.fields = <<a>> /\ end.buf = b /\ ~end.escaped
      OBVIOUS
    <2> QED  BY <2>1, <2>2
  <1> QED  BY <1>2, <1>7

\* So it is with the fields of any length (_split_nmcli_fields).
LEMMA FieldsRead == ASSUME SignalsCount PROVE FieldsAreReadBack
  <1>1. ASSUME NEW n \in 0..MaxField, NEW s \in [1..n -> Chars] PROVE s \in Seq(Chars)
    BY <1>1 DEF SignalsCount
  <1> QED  BY <1>1, LineIsRead DEF FieldsAreReadBack

(***************************************************************************)
(* Recent files: the passes over their sources.                            *)
(***************************************************************************)
\* Times, limits and bounds are numbers, and there are finitely many desktop files.
QueriesCount ==
    /\ Times \cup Limits \cup {MaxOwn, MaxBookmarks, MaxLaunches, MaxDirs} \subseteq Nat
    /\ IsFiniteSet(DesktopIds)

\* One more record, one more access: the lists stay lists of accesses.
LEMMA AddLaunchType ==
    ASSUME NEW items \in Seq(Access), NEW r \in Launch, NEW present, NEW limit
    PROVE  AddLaunch(items, r, present, limit) \in Seq(Access)
  <1>1. [path |-> r.path, ts |-> r.ts] \in Access
    BY DEF Launch, Access
  <1>2. Append(items, [path |-> r.path, ts |-> r.ts]) \in Seq(Access)
    BY <1>1
  <1> QED  BY <1>2 DEF AddLaunch

\* One more access leaves a list of accesses.
LEMMA AddAccessType ==
    ASSUME NEW merged \in Seq(Access), NEW x \in Access
    PROVE  AddAccess(merged, x) \in Seq(Access)
  <1> DEFINE n == Len(merged)
             other == [i \in 1..n |-> IF merged[i].path = x.path /\ merged[i].ts <= x.ts THEN x
                                      ELSE merged[i]]
  <1>1. n \in Nat /\ DOMAIN merged = 1..n /\ \A i \in 1..n : merged[i] \in Access
    OBVIOUS
  <1>2. other \in Seq(Access)
    BY <1>1
  <1>3. Append(merged, x) \in Seq(Access)
    OBVIOUS
  <1>4. AddAccess(merged, x) = IF Listed(merged, x.path) THEN other ELSE Append(merged, x)
    BY <1>1 DEF AddAccess
  <1> HIDE DEF other
  <1> QED  BY <1>2, <1>3, <1>4

\* A run of _iter_launch_history_items record by record, from the last one.
LaunchRun(at, history, present, limit) ==
    /\ at \in [0..Len(history) -> Seq(Access)]
    /\ at[0] = <<>> /\ at[Len(history)] = LaunchItems(history, present, limit)
    /\ \A k \in 1..Len(history) :
         at[k] = AddLaunch(at[k - 1], Reverse(history)[k], present, limit)

\* There is one.
LEMMA LaunchSteps ==
    ASSUME NEW history \in Seq(Launch), NEW present, NEW limit
    PROVE  \E at : LaunchRun(at, history, present, limit)
  <1> DEFINE n == Len(history)
             row == Reverse(history)
             S == Seq(Access)
             G == [p \in S \X (1..n) |-> AddLaunch(p[1], row[p[2]], present, limit)]
  <1>1. n \in Nat /\ DOMAIN row = 1..n /\ \A k \in 1..n : row[k] \in Launch
    BY DEF Reverse
  <1>2. G \in [S \X (1..n) -> S] /\ <<>> \in S
    <2>1. \A x \in S, r \in Launch : AddLaunch(x, r, present, limit) \in S
      BY AddLaunchType
    <2>2. \A p \in S \X (1..n) : AddLaunch(p[1], row[p[2]], present, limit) \in S
      <3> HIDE DEF S, row
      <3> QED  BY <1>1, <2>1
    <2> QED  BY <2>2
  <1> HIDE DEF n, row, S
  <1>3. PICK it : IsFold(it, S, G, <<>>, n)
    <2> HIDE DEF G
    <2> QED  BY <1>1, <1>2, FoldsExist
  <1> DEFINE Solves(f) ==
               f = [s \in SUBSET (1..n) |->
                      IF s = {} THEN <<>>
                      ELSE AddLaunch(f[s \ {Top(s)}], row[Top(s)], present, limit)]
             sol == CHOOSE f : Solves(f)
  <1>4. FoldLeft(LAMBDA items, r : AddLaunch(items, r, present, limit), <<>>, row) = sol[1..n]
    BY <1>1 DEF FoldLeft, MapThenFoldSet, Max, Top
  <1>5. ASSUME NEW s \in SUBSET (1..n)
        PROVE  it[s] = IF s = {} THEN <<>>
                       ELSE AddLaunch(it[s \ {Top(s)}], row[Top(s)], present, limit)
    <2>1. CASE s = {}
      BY <1>3, <2>1 DEF IsFold
    <2>2. CASE s # {}
      <3>1. Top(s) \in 1..n
        BY <1>1, <2>2, TopIsIn
      <3>2. it[s \ {Top(s)}] \in S
        BY <1>3 DEF IsFold
      <3>3. it[s] = G[<<it[s \ {Top(s)}], Top(s)>>]
        BY <1>3, <2>2 DEF IsFold
      <3> QED  BY <2>2, <3>1, <3>2, <3>3
    <2> QED  BY <2>1, <2>2
  <1>6. Solves(it)
    <2>1. it \in [SUBSET (1..n) -> S]
      BY <1>3 DEF IsFold
    <2> QED  BY <1>5, <2>1
  <1>7. Solves(sol)
    BY <1>6
  <1> DEFINE at == [k \in 0..n |-> sol[1..k]]
  <1> HIDE DEF sol
  <1>8. at[0] = <<>>
    <2>1. 1..0 = {} /\ 0 \in 0..n /\ {} \in SUBSET (1..n)
      BY <1>1
    <2> QED  BY <1>7, <2>1
  <1>9. ASSUME NEW k \in 1..n PROVE at[k] = AddLaunch(at[k - 1], row[k], present, limit)
    <2>1. /\ 1..k \in SUBSET (1..n) /\ 1..k # {} /\ k \in 1..k /\ k \in Nat
          /\ (1..k) \ {k} = 1..(k - 1) /\ k \in 0..n /\ k - 1 \in 0..n
      <3>1. k \in Nat /\ 1 <= k /\ k <= n
        BY <1>1
      <3>2. (1..k) \ {k} = 1..(k - 1)
        BY <3>1
      <3>3. \A i \in 1..k : i \in 1..n
        BY <1>1, <3>1
      <3>4. k \in 1..k /\ k \in 0..n /\ k - 1 \in 0..n
        BY <1>1, <3>1
      <3> QED  BY <3>1, <3>2, <3>3, <3>4
    <2>2. Top(1..k) = k
      BY <2>1, TopIs
    <2> QED  BY <1>7, <2>1, <2>2
  <1>10. at[n] = sol[1..n]
    BY <1>1
  <1>11. ASSUME NEW k \in 0..n PROVE at[k] \in S
    <2> DEFINE Bad == {j \in Nat : j <= n /\ at[j] \notin S}
    <2>1. CASE Bad # {}
      <3>1. PICK j \in Bad : \A i \in Bad : j <= i
        <4>1. Bad \subseteq Nat
          OBVIOUS
        <4> HIDE DEF Bad
        <4> QED  BY <2>1, <4>1, LeastNumber
      <3>2. j # 0
        BY <1>2, <1>8, <3>1
      <3>3. j \in 1..n /\ j - 1 \in Nat /\ j - 1 <= n /\ ~ (j <= j - 1)
        BY <1>1, <3>1, <3>2
      <3>4. at[j - 1] \in S /\ row[j] \in Launch
        BY <1>1, <3>1, <3>3
      <3>5. at[j] = AddLaunch(at[j - 1], row[j], present, limit)
        BY <1>9, <3>3
      <3> HIDE DEF at
      <3>6. at[j] \in S
        BY <3>4, <3>5, AddLaunchType DEF S
      <3> QED  BY <3>1, <3>6
    <2>2. CASE Bad = {}
      <3>1. k \in Nat /\ k <= n
        BY <1>1
      <3> HIDE DEF at, S
      <3>2. k \notin Bad
        <4> HIDE DEF Bad
        <4> QED  BY <2>2
      <3> QED  BY <3>1, <3>2
    <2> QED  BY <2>1, <2>2
  <1>12. at \in [0..n -> S]
    BY <1>11
  <1>13. at[n] = LaunchItems(history, present, limit)
    BY <1>4, <1>10 DEF row, LaunchItems
  <1> HIDE DEF at
  <1> QED  BY <1>8, <1>9, <1>12, <1>13 DEF n, S, row, LaunchRun

\* _merge_recent_items item by item.
LEMMA MergeSteps ==
    ASSUME NEW items \in Seq(Access)
    PROVE  \E at \in [0..Len(items) -> Seq(Access)] :
             /\ at[0] = <<>> /\ at[Len(items)] = FoldLeft(AddAccess, <<>>, items)
             /\ \A k \in 1..Len(items) : at[k] = AddAccess(at[k - 1], items[k])
  <1> DEFINE n == Len(items)
             row == items
             S == Seq(Access)
             G == [p \in S \X (1..n) |-> AddAccess(p[1], row[p[2]])]
  <1>1. n \in Nat /\ DOMAIN row = 1..n /\ \A k \in 1..n : row[k] \in Access
    OBVIOUS
  <1>2. G \in [S \X (1..n) -> S] /\ <<>> \in S
    <2>1. \A x \in S, r \in Access : AddAccess(x, r) \in S
      BY AddAccessType
    <2>2. \A p \in S \X (1..n) : AddAccess(p[1], row[p[2]]) \in S
      <3> HIDE DEF S, row
      <3> QED  BY <1>1, <2>1
    <2> QED  BY <2>2
  <1> HIDE DEF n, row, S
  <1>3. PICK it : IsFold(it, S, G, <<>>, n)
    <2> HIDE DEF G
    <2> QED  BY <1>1, <1>2, FoldsExist
  <1> DEFINE Solves(f) ==
               f = [s \in SUBSET (1..n) |->
                      IF s = {} THEN <<>>
                      ELSE AddAccess(f[s \ {Top(s)}], row[Top(s)])]
             sol == CHOOSE f : Solves(f)
  <1>4. FoldLeft(AddAccess, <<>>, row) = sol[1..n]
    BY <1>1 DEF FoldLeft, MapThenFoldSet, Max, Top
  <1>5. ASSUME NEW s \in SUBSET (1..n)
        PROVE  it[s] = IF s = {} THEN <<>>
                       ELSE AddAccess(it[s \ {Top(s)}], row[Top(s)])
    <2>1. CASE s = {}
      BY <1>3, <2>1 DEF IsFold
    <2>2. CASE s # {}
      <3>1. Top(s) \in 1..n
        BY <1>1, <2>2, TopIsIn
      <3>2. it[s \ {Top(s)}] \in S
        BY <1>3 DEF IsFold
      <3>3. it[s] = G[<<it[s \ {Top(s)}], Top(s)>>]
        BY <1>3, <2>2 DEF IsFold
      <3> QED  BY <2>2, <3>1, <3>2, <3>3
    <2> QED  BY <2>1, <2>2
  <1>6. Solves(it)
    <2>1. it \in [SUBSET (1..n) -> S]
      BY <1>3 DEF IsFold
    <2> QED  BY <1>5, <2>1
  <1>7. Solves(sol)
    BY <1>6
  <1> DEFINE at == [k \in 0..n |-> sol[1..k]]
  <1> HIDE DEF sol
  <1>8. at[0] = <<>>
    <2>1. 1..0 = {} /\ 0 \in 0..n /\ {} \in SUBSET (1..n)
      BY <1>1
    <2> QED  BY <1>7, <2>1
  <1>9. ASSUME NEW k \in 1..n PROVE at[k] = AddAccess(at[k - 1], row[k])
    <2>1. /\ 1..k \in SUBSET (1..n) /\ 1..k # {} /\ k \in 1..k /\ k \in Nat
          /\ (1..k) \ {k} = 1..(k - 1) /\ k \in 0..n /\ k - 1 \in 0..n
      <3>1. k \in Nat /\ 1 <= k /\ k <= n
        BY <1>1
      <3>2. (1..k) \ {k} = 1..(k - 1)
        BY <3>1
      <3>3. \A i \in 1..k : i \in 1..n
        BY <1>1, <3>1
      <3>4. k \in 1..k /\ k \in 0..n /\ k - 1 \in 0..n
        BY <1>1, <3>1
      <3> QED  BY <3>1, <3>2, <3>3, <3>4
    <2>2. Top(1..k) = k
      BY <2>1, TopIs
    <2> QED  BY <1>7, <2>1, <2>2
  <1>10. at[n] = sol[1..n]
    BY <1>1
  <1>11. ASSUME NEW k \in 0..n PROVE at[k] \in S
    <2> DEFINE Bad == {j \in Nat : j <= n /\ at[j] \notin S}
    <2>1. CASE Bad # {}
      <3>1. PICK j \in Bad : \A i \in Bad : j <= i
        <4>1. Bad \subseteq Nat
          OBVIOUS
        <4> HIDE DEF Bad
        <4> QED  BY <2>1, <4>1, LeastNumber
      <3>2. j # 0
        BY <1>2, <1>8, <3>1
      <3>3. j \in 1..n /\ j - 1 \in Nat /\ j - 1 <= n /\ ~ (j <= j - 1)
        BY <1>1, <3>1, <3>2
      <3>4. at[j - 1] \in S /\ row[j] \in Access
        BY <1>1, <3>1, <3>3
      <3>5. at[j] = AddAccess(at[j - 1], row[j])
        BY <1>9, <3>3
      <3> HIDE DEF at
      <3>6. at[j] \in S
        BY <3>4, <3>5, AddAccessType DEF S
      <3> QED  BY <3>1, <3>6
    <2>2. CASE Bad = {}
      <3>1. k \in Nat /\ k <= n
        BY <1>1
      <3> HIDE DEF at, S
      <3>2. k \notin Bad
        <4> HIDE DEF Bad
        <4> QED  BY <2>2
      <3> QED  BY <3>1, <3>2
    <2> QED  BY <2>1, <2>2
  <1>12. at \in [0..n -> S]
    BY <1>11
  <1>13. at[n] = FoldLeft(AddAccess, <<>>, items)
    BY <1>4, <1>10 DEF row
  <1> HIDE DEF at
  <1> QED  BY <1>8, <1>9, <1>12, <1>13 DEF n, S, row

(***************************************************************************)
(* Recent files: lists that are sorted and cut.                            *)
(***************************************************************************)
\* Of some accesses of a list one comes last: the oldest, the last of these.
LEMMA OldestPlace ==
    ASSUME QueriesCount, NEW s \in Seq(Access), NEW places \in SUBSET (1..Len(s)), places # {}
    PROVE  \E m \in places : \A r \in places : ~Older(s, r, m)
  <1> DEFINE n == Len(s)
  <1>1. n \in Nat /\ \A i \in places : i \in Nat /\ n - i \in Nat /\ s[i].ts \in Nat
    <2>1. \A i \in 1..n : s[i] \in Access
      OBVIOUS
    <2> QED  BY <2>1 DEF QueriesCount, Access
  <1> HIDE DEF n
  <1>2. PICK t \in {s[i].ts : i \in places} : \A u \in {s[i].ts : i \in places} : t <= u
    <2>1. {s[i].ts : i \in places} \subseteq Nat /\ {s[i].ts : i \in places} # {}
      BY <1>1
    <2> QED  BY <2>1, LeastNumber
  <1> DEFINE D == {n - i : i \in {j \in places : s[j].ts = t}}
  <1>3. PICK d \in D : \A e \in D : d <= e
    <2>1. D \subseteq Nat /\ D # {}
      BY <1>1, <1>2
    <2> HIDE DEF D
    <2> QED  BY <2>1, LeastNumber
  <1>4. PICK m \in places : s[m].ts = t /\ d = n - m
    BY <1>3
  <1>5. ASSUME NEW r \in places PROVE ~Older(s, r, m)
    <2>1. t <= s[r].ts /\ s[r].ts \in Nat /\ t \in Nat
      BY <1>1, <1>2, <1>4
    <2>2. s[r].ts = t => n - m <= n - r
      BY <1>3, <1>4
    <2>3. s[r].ts = t => ~(r > m)
      BY <1>1, <2>2
    <2> QED  BY <1>4, <2>1, <2>3 DEF Older
  <1> QED  BY <1>5

\* The lists that have these accesses in order.
Sorts(order, s, places) ==
    /\ order \in [1..Cardinality(places) -> places]
    /\ ToSet(order) = places
    /\ \A i, k \in DOMAIN order : i < k => ~Older(s, order[i], order[k])

\* Any accesses can be put in order, ...
LEMMA OrderExists ==
    ASSUME QueriesCount, NEW s \in Seq(Access), NEW places \in SUBSET (1..Len(s)),
           IsFiniteSet(places)
    PROVE  \E order : Sorts(order, s, places)
  <1> DEFINE Bad == {t \in SUBSET places : ~ \E order : Sorts(order, s, t)}
  <1> SUFFICES ASSUME Bad # {} PROVE FALSE
    OBVIOUS
  <1>1. PICK t \in Bad : \A x \in t : t \ {x} \notin Bad
    <2>1. Bad \subseteq SUBSET places
      OBVIOUS
    <2> HIDE DEF Bad
    <2> QED  BY <2>1, SmallestSet
  <1>2. t \in SUBSET places /\ t \in SUBSET (1..Len(s)) /\ IsFiniteSet(t) /\ Cardinality(t) \in Nat
    BY FS_Subset, FS_CardinalityType
  <1>3. CASE t = {}
    <2>1. Cardinality(t) = 0 /\ 1..0 = {}
      BY <1>3, FS_EmptySet
    <2>2. Sorts([i \in 1..0 |-> 0], s, t)
      BY <1>3, <2>1 DEF Sorts, ToSet
    <2> QED  BY <1>1, <2>2
  <1>4. CASE t # {}
    <2>1. PICK m \in t : \A r \in t : ~Older(s, r, m)
      BY <1>2, <1>4, OldestPlace
    <2> DEFINE rest == t \ {m}
               n == Cardinality(rest)
    <2>2. n \in Nat /\ Cardinality(t) = n + 1
      BY <1>2, FS_RemoveElement, FS_CardinalityType, FS_Subset
    <2>3. PICK order : Sorts(order, s, rest)
      BY <1>1, <1>2
    <2> HIDE DEF n
    <2> DEFINE more == [i \in 1..(n + 1) |-> IF i = n + 1 THEN m ELSE order[i]]
    <2>4. order \in [1..n -> rest] /\ (\A r \in rest : \E i \in 1..n : order[i] = r)
          /\ \A i, k \in 1..n : i < k => ~Older(s, order[i], order[k])
      BY <2>3 DEF Sorts, ToSet, n
    <2>5. more[n + 1] = m /\ \A i \in 1..n : more[i] = order[i] /\ i \in 1..(n + 1)
      BY <2>2
    <2>6. \A i \in 1..(n + 1) : i = n + 1 \/ i \in 1..n
      BY <2>2
    <2>7. more \in [1..(n + 1) -> t]
      BY <2>4, <2>6
    <2> HIDE DEF more
    <2>8. \A r \in t : \E i \in 1..(n + 1) : more[i] = r
      BY <2>2, <2>4, <2>5
    <2>9. ASSUME NEW i \in 1..(n + 1), NEW k \in 1..(n + 1), i < k
          PROVE  ~Older(s, more[i], more[k])
      <3>1. i \in 1..n
        BY <2>2, <2>9
      <3>2. CASE k = n + 1
        BY <2>1, <2>4, <2>5, <3>1, <3>2
      <3>3. CASE k \in 1..n
        BY <2>4, <2>5, <2>9, <3>1, <3>3
      <3> QED  BY <2>6, <3>2, <3>3
    <2>10. ToSet(more) = t
      BY <2>7, <2>8 DEF ToSet
    <2>11. Sorts(more, s, t)
      BY <2>2, <2>7, <2>9, <2>10 DEF Sorts
    <2> QED  BY <1>1, <2>11
  <1> QED  BY <1>3, <1>4

\* ... and each is in it once.
LEMMA NewestFirstIs ==
    ASSUME QueriesCount, NEW s \in Seq(Access), NEW places \in SUBSET (1..Len(s))
    PROVE  /\ IsFiniteSet(places) /\ Cardinality(places) \in Nat
           /\ Sorts(NewestFirst(s, places), s, places)
           /\ \A i, k \in 1..Cardinality(places) :
                NewestFirst(s, places)[i] = NewestFirst(s, places)[k] => i = k
  <1> DEFINE list == NewestFirst(s, places)
             n == Cardinality(places)
  <1>1. IsFiniteSet(places) /\ n \in Nat
    <2>1. IsFiniteSet(1..Len(s))
      BY FS_Interval
    <2> QED  BY <2>1, FS_Subset, FS_CardinalityType
  <1>2. Sorts(list, s, places)
    <2>1. list = CHOOSE order : order \in [1..n -> places] /\ Sorts(order, s, places)
      BY DEF NewestFirst, Sorts
    <2>2. \E order : order \in [1..n -> places] /\ Sorts(order, s, places)
      BY <1>1, OrderExists DEF Sorts
    <2> HIDE DEF list
    <2> QED  BY <2>1, <2>2
  <1> HIDE DEF list
  <1>3. list \in Surjection(1..n, places)
    BY <1>2 DEF Sorts, ToSet, Surjection
  <1>4. IsFiniteSet(1..n) /\ Cardinality(1..n) = Cardinality(places)
    BY <1>1, FS_Interval
  <1>5. list \in Injection(1..n, places)
    BY <1>3, <1>4, FS_Surjection
  <1>6. \A i, k \in 1..n : list[i] = list[k] => i = k
    BY <1>2, <1>5 DEF Injection, IsInjective, Sorts
  <1> QED  BY <1>1, <1>2, <1>6 DEF list

\* What is cut off a sorted list is no newer than what is left of it.
Newest(out, s, places, limit) ==
    /\ out \in Seq(Access)
    /\ Len(out) = IF Cardinality(places) < limit THEN Cardinality(places) ELSE limit
    /\ \A i \in DOMAIN out : \E p \in places : out[i] = s[p]
    /\ \A i, k \in DOMAIN out : i < k => out[i].ts >= out[k].ts
    /\ \A p \in places :
         \/ \E i \in DOMAIN out : out[i] = s[p]
         \/ /\ Len(out) = limit /\ limit < Cardinality(places)
            /\ \A i \in DOMAIN out : out[i].ts >= s[p].ts
    /\ (\A p, r \in places : s[p].path = s[r].path => p = r) =>
         \A i, k \in DOMAIN out : out[i].path = out[k].path => i = k

\* What _iter_xbel_recent_items and _merge_recent_items keep is the newest.
LEMMA LatestIs ==
    ASSUME QueriesCount, NEW s \in Seq(Access), NEW places \in SUBSET (1..Len(s)),
           NEW limit \in Nat
    PROVE  Newest(Latest(s, places, limit), s, places, limit)
  <1> DEFINE order == NewestFirst(s, places)
             n == Cardinality(places)
             m == IF n < limit THEN n ELSE limit
             out == Latest(s, places, limit)
  <1>1. /\ n \in Nat /\ order \in [1..n -> places]
        /\ \A p \in places : \E i \in 1..n : order[i] = p
        /\ \A i, k \in 1..n : i < k => ~Older(s, order[i], order[k])
        /\ \A i, k \in 1..n : order[i] = order[k] => i = k
    BY NewestFirstIs DEF Sorts, ToSet
  <1>2. /\ m \in Nat /\ m <= n /\ m <= limit /\ \A i \in 1..m : i \in 1..n
        /\ \A i \in 1..n : i \in 1..m \/ (m = limit /\ limit < n /\ i > m)
    BY <1>1
  <1>3. \A p \in places : s[p] \in Access /\ s[p].ts \in Nat
    <2>1. \A p \in 1..Len(s) : s[p] \in Access
      OBVIOUS
    <2> QED  BY <2>1 DEF QueriesCount, Access
  <1>4. Len(order) = n
    BY <1>1
  <1>5. out = [i \in 1..m |-> s[order[i]]]
    BY <1>4 DEF Latest
  <1> HIDE DEF out, order, m, n
  <1>6. /\ out \in Seq(Access) /\ Len(out) = m /\ DOMAIN out = 1..m
        /\ \A i \in 1..m : out[i] = s[order[i]] /\ order[i] \in places
    <2>1. \A i \in 1..m : order[i] \in places
      BY <1>1, <1>2
    <2>2. \A i \in 1..m : out[i] = s[order[i]] /\ out[i] \in Access
      BY <1>3, <1>5, <2>1
    <2>3. out = [i \in 1..m |-> out[i]]
      BY <1>5
    <2>4. out \in [1..m -> Access]
      BY <2>2, <2>3
    <2>5. out \in Seq(Access) /\ DOMAIN out = 1..m
      BY <1>2, <2>4
    <2>6. Len(out) = m
      BY <1>2, <2>5
    <2> QED  BY <2>1, <2>2, <2>5, <2>6
  <1>7. ASSUME NEW i \in 1..n, NEW k \in 1..n, i < k PROVE s[order[i]].ts >= s[order[k]].ts
    <2>1. ~Older(s, order[i], order[k]) /\ order[i] \in places /\ order[k] \in places
      BY <1>1, <1>7
    <2>2. s[order[i]].ts \in Nat /\ s[order[k]].ts \in Nat
      BY <1>3, <2>1
    <2>3. ~(s[order[i]].ts < s[order[k]].ts)
      BY <2>1 DEF Older
    <2> QED  BY <2>2, <2>3
  <1>8. ASSUME NEW i \in DOMAIN out, NEW k \in DOMAIN out, i < k PROVE out[i].ts >= out[k].ts
    BY <1>2, <1>6, <1>7, <1>8
  <1>9. ASSUME NEW p \in places
        PROVE  \/ \E i \in DOMAIN out : out[i] = s[p]
               \/ /\ Len(out) = limit /\ limit < n
                  /\ \A i \in DOMAIN out : out[i].ts >= s[p].ts
    <2>1. PICK k \in 1..n : order[k] = p
      BY <1>1
    <2>2. CASE k \in 1..m
      BY <1>6, <2>1, <2>2
    <2>3. CASE m = limit /\ limit < n /\ k > m
      <3>1. ASSUME NEW i \in 1..m PROVE out[i].ts >= s[p].ts
        <4>1. i \in 1..n /\ i < k
          BY <1>1, <1>2, <2>3
        <4> QED  BY <1>6, <1>7, <2>1, <4>1
      <3> QED  BY <1>6, <2>3, <3>1
    <2> QED  BY <1>2, <2>2, <2>3
  <1>10. ASSUME \A p, r \in places : s[p].path = s[r].path => p = r,
                NEW i \in DOMAIN out, NEW k \in DOMAIN out, out[i].path = out[k].path
         PROVE  i = k
    <2>1. /\ i \in 1..m /\ k \in 1..m /\ order[i] \in places /\ order[k] \in places
          /\ s[order[i]].path = s[order[k]].path
      BY <1>6, <1>10
    <2>2. order[i] = order[k]
      BY <1>10, <2>1
    <2> QED  BY <1>1, <1>2, <2>1, <2>2
  <1> QED  BY <1>6, <1>8, <1>9, <1>10 DEF Newest, out, m, n

(***************************************************************************)
(* Recent files: what the passes leave.                                    *)
(***************************************************************************)
\* No file is twice in a list.
Apart(s) == \A i, k \in DOMAIN s : s[i].path = s[k].path => i = k

\* A list has an access of this file, and none before it.
Covered(s, path, t) == \E i \in DOMAIN s : s[i].path = path /\ s[i].ts >= t

\* The first k items merged.
MergedUpTo(M, items, k) ==
    /\ M \in Seq(Access) /\ Apart(M)
    /\ \A i \in DOMAIN M : \E j \in DOMAIN items : M[i] = items[j]
    /\ \A j \in 1..k : Covered(M, items[j].path, items[j].ts)

\* One more item is merged.
LEMMA MergeOne ==
    ASSUME QueriesCount, NEW items \in Seq(Access), NEW k \in 1..Len(items), NEW M,
           MergedUpTo(M, items, k - 1)
    PROVE  MergedUpTo(AddAccess(M, items[k]), items, k)
  <1> DEFINE x == items[k]
             n == Len(M)
             after == AddAccess(M, x)
  <1>1. /\ M \in Seq(Access) /\ n \in Nat /\ DOMAIN M = 1..n
        /\ \A i \in 1..n : M[i] \in Access
    BY DEF MergedUpTo
  <1>2. /\ x \in Access /\ k \in DOMAIN items /\ Len(items) \in Nat
        /\ \A j \in 1..k : j = k \/ j \in 1..(k - 1)
        /\ \A j \in 1..k : items[j] \in Access
    <2>1. \A j \in 1..Len(items) : items[j] \in Access
      OBVIOUS
    <2> QED  BY <2>1
  <1>3. after \in Seq(Access)
    BY <1>1, <1>2, AddAccessType
  <1>4. \A y \in Access : y.ts \in Nat
    BY DEF Access, QueriesCount
  <1>5. /\ Apart(M) /\ \A i \in 1..n : \E j \in DOMAIN items : M[i] = items[j]
        /\ \A j \in 1..(k - 1) : Covered(M, items[j].path, items[j].ts)
    BY <1>1 DEF MergedUpTo
  <1>6. CASE Listed(M, x.path)
    <2>1. after = [i \in 1..n |-> IF M[i].path = x.path /\ M[i].ts <= x.ts THEN x ELSE M[i]]
      BY <1>1, <1>6 DEF AddAccess
    <2> HIDE DEF after, x, n
    <2>2. DOMAIN after = 1..n /\ \A i \in 1..n : /\ after[i] = M[i] \/ after[i] = x
                                                 /\ after[i].path = M[i].path
      BY <2>1
    <2>3. \A i \in 1..n : after[i].ts >= M[i].ts /\ (M[i].path = x.path => after[i].ts >= x.ts)
      BY <1>1, <1>2, <1>4, <2>1
    <2>4. Apart(after)
      BY <1>1, <1>5, <2>2 DEF Apart
    <2>5. \A i \in DOMAIN after : \E j \in DOMAIN items : after[i] = items[j]
      BY <1>2, <1>5, <2>2 DEF x
    <2>6. Covered(after, x.path, x.ts)
      BY <1>1, <1>6, <2>2, <2>3 DEF Covered, Listed
    <2>7. ASSUME NEW j \in 1..(k - 1) PROVE Covered(after, items[j].path, items[j].ts)
      <3>1. PICK i \in 1..n : M[i].path = items[j].path /\ M[i].ts >= items[j].ts
        BY <1>1, <1>5 DEF Covered
      <3>2. /\ after[i].path = items[j].path /\ after[i].ts >= M[i].ts
            /\ after[i] \in Access /\ M[i] \in Access /\ items[j] \in Access
        BY <1>1, <1>2, <2>2, <2>3, <3>1
      <3>3. after[i].ts >= items[j].ts
        BY <1>4, <3>1, <3>2
      <3> QED  BY <2>2, <3>2, <3>3 DEF Covered
    <2> QED  BY <1>2, <1>3, <2>4, <2>5, <2>6, <2>7 DEF MergedUpTo, x, after
  <1>7. CASE ~Listed(M, x.path)
    <2>1. after = Append(M, x)
      BY <1>7 DEF AddAccess
    <2> HIDE DEF after, x
    <2>2. /\ DOMAIN after = 1..(n + 1) /\ after[n + 1] = x
          /\ \A i \in 1..n : after[i] = M[i]
      BY <1>1, <1>2, <2>1
    <2> HIDE DEF n
    <2>3. \A i \in 1..(n + 1) : i = n + 1 \/ i \in 1..n
      BY <1>1
    <2>4. \A i \in 1..n : M[i].path # x.path /\ i \in 1..(n + 1)
      BY <1>1, <1>7 DEF Listed
    <2>5. Apart(after)
      BY <1>1, <1>5, <2>2, <2>3, <2>4 DEF Apart
    <2>6. \A i \in DOMAIN after : \E j \in DOMAIN items : after[i] = items[j]
      BY <1>2, <1>5, <2>2, <2>3 DEF x
    <2>7. Covered(after, x.path, x.ts)
      <3>1. n + 1 \in DOMAIN after
        BY <1>1, <2>2
      <3>2. \A v \in Int : v >= v
        OBVIOUS
      <3>3. x.ts \in Int
        BY <1>2, <1>4
      <3>4. x.ts >= x.ts
        BY <3>2, <3>3
      <3>5. after[n + 1].path = x.path /\ after[n + 1].ts >= x.ts
        BY <2>2, <3>4
      <3> QED  BY <3>1, <3>5 DEF Covered
    <2>8. ASSUME NEW j \in 1..(k - 1) PROVE Covered(after, items[j].path, items[j].ts)
      BY <1>1, <1>5, <2>2, <2>4 DEF Covered
    <2> QED  BY <1>2, <1>3, <2>5, <2>6, <2>7, <2>8 DEF MergedUpTo, x, after
  <1> QED  BY <1>6, <1>7

\* All of them merged.
LEMMA MergeIs ==
    ASSUME QueriesCount, NEW items \in Seq(Access)
    PROVE  MergedUpTo(FoldLeft(AddAccess, <<>>, items), items, Len(items))
  <1> DEFINE n == Len(items)
  <1>1. PICK at \in [0..n -> Seq(Access)] :
          /\ at[0] = <<>> /\ at[n] = FoldLeft(AddAccess, <<>>, items)
          /\ \A k \in 1..n : at[k] = AddAccess(at[k - 1], items[k])
    BY MergeSteps
  <1>2. n \in Nat
    OBVIOUS
  <1> HIDE DEF n
  <1> DEFINE Bad == {j \in Nat : j <= n /\ ~MergedUpTo(at[j], items, j)}
  <1>3. MergedUpTo(at[0], items, 0)
    <2>1. at[0] \in Seq(Access) /\ DOMAIN at[0] = {} /\ 1..0 = {}
      BY <1>1
    <2> QED  BY <2>1 DEF MergedUpTo, Apart
  <1>4. CASE Bad # {}
    <2>1. PICK j \in Bad : \A i \in Bad : j <= i
      <3>1. Bad \subseteq Nat
        OBVIOUS
      <3> HIDE DEF Bad
      <3> QED  BY <1>4, <3>1, LeastNumber
    <2>2. j # 0 /\ j \in Nat /\ j <= n
      BY <1>3, <2>1
    <2>3. j \in 1..n /\ j - 1 \in Nat /\ j - 1 <= n /\ ~ (j <= j - 1)
      BY <1>2, <2>2
    <2>4. MergedUpTo(at[j - 1], items, j - 1)
      BY <2>1, <2>3
    <2>5. at[j] = AddAccess(at[j - 1], items[j])
      BY <1>1, <2>3
    <2>6. MergedUpTo(at[j], items, j)
      BY <2>3, <2>4, <2>5, MergeOne DEF n
    <2> QED  BY <2>1, <2>6
  <1>5. CASE Bad = {}
    <2> HIDE DEF n
    <2>1. n \in Nat /\ n <= n
      BY <1>2
    <2>2. MergedUpTo(at[n], items, n)
      BY <1>5, <2>1
    <2> QED  BY <1>1, <2>2 DEF n
  <1> QED  BY <1>4, <1>5

\* The launches of the first k records of the history read backwards.
Opens(r, present) == r.ok /\ r.path \in present
LaunchedUpTo(L, row, present, limit, k) ==
    /\ L \in Seq(Access) /\ Apart(L) /\ Len(L) <= limit
    /\ \A i \in DOMAIN L : \E j \in 1..k : /\ Opens(row[j], present)
                                           /\ L[i] = [path |-> row[j].path, ts |-> row[j].ts]
    /\ \A j \in 1..k : Opens(row[j], present) =>
         \/ Covered(L, row[j].path, row[j].ts)
         \/ Len(L) = limit /\ \A i \in DOMAIN L : L[i].ts >= row[j].ts

\* One more record of the history is read.
LEMMA LaunchOne ==
    ASSUME QueriesCount, NEW present, NEW limit \in Nat, NEW n \in Nat,
           NEW row \in [1..n -> Launch], \A i, j \in 1..n : i < j => row[i].ts >= row[j].ts,
           NEW k \in 1..n, NEW L, LaunchedUpTo(L, row, present, limit, k - 1)
    PROVE  LaunchedUpTo(AddLaunch(L, row[k], present, limit), row, present, limit, k)
  <1> DEFINE r == row[k]
             m == Len(L)
             x == [path |-> r.path, ts |-> r.ts]
             after == AddLaunch(L, r, present, limit)
  <1>1. /\ L \in Seq(Access) /\ m \in Nat /\ DOMAIN L = 1..m /\ m <= limit
        /\ \A i \in 1..m : L[i] \in Access
    BY DEF LaunchedUpTo
  <1>2. /\ k \in 1..k /\ \A j \in 1..k : j = k \/ (j \in 1..(k - 1) /\ j < k /\ j \in 1..n)
        /\ \A j \in 1..(k - 1) : j < k /\ j \in 1..n /\ j \in 1..k
    OBVIOUS
  <1>3. \A j \in 1..n : row[j] \in Launch /\ row[j].ts \in Nat
    BY DEF Launch, QueriesCount
  <1>4. x \in Access /\ x.path = r.path /\ x.ts = r.ts /\ r.ts \in Nat
    BY <1>3 DEF Launch, Access
  <1>5. /\ Apart(L)
        /\ \A i \in 1..m : \E j \in 1..(k - 1) :
             Opens(row[j], present) /\ L[i] = [path |-> row[j].path, ts |-> row[j].ts]
        /\ \A j \in 1..(k - 1) : Opens(row[j], present) =>
             \/ Covered(L, row[j].path, row[j].ts)
             \/ Len(L) = limit /\ \A i \in DOMAIN L : L[i].ts >= row[j].ts
    BY <1>1 DEF LaunchedUpTo
  <1>6. ASSUME NEW i \in 1..m PROVE L[i].ts >= r.ts
    <2>1. PICK j \in 1..(k - 1) : L[i] = [path |-> row[j].path, ts |-> row[j].ts]
      BY <1>5
    <2>2. row[j].ts >= row[k].ts
      BY <1>2, <2>1
    <2> QED  BY <2>1, <2>2
  <1> HIDE DEF r, x
  <1>7. CASE m < limit /\ Opens(r, present) /\ ~Listed(L, r.path)
    <2>1. after = Append(L, x)
      BY <1>7 DEF AddLaunch, Opens, x
    <2> HIDE DEF after
    <2>2. /\ DOMAIN after = 1..(m + 1) /\ after[m + 1] = x /\ after \in Seq(Access)
          /\ Len(after) = m + 1 /\ \A i \in 1..m : after[i] = L[i]
      BY <1>1, <1>4, <2>1
    <2> HIDE DEF m
    <2>3. (\A i \in 1..(m + 1) : i = m + 1 \/ i \in 1..m) /\ m + 1 <= limit
      BY <1>1, <1>7
    <2>4. \A i \in 1..m : L[i].path # x.path /\ i \in 1..(m + 1)
      BY <1>1, <1>4, <1>7 DEF Listed
    <2>5. Apart(after)
      BY <1>1, <1>5, <2>2, <2>3, <2>4 DEF Apart
    <2>6. ASSUME NEW i \in DOMAIN after
          PROVE  \E j \in 1..k : Opens(row[j], present)
                                   /\ after[i] = [path |-> row[j].path, ts |-> row[j].ts]
      <3>1. CASE i = m + 1
        BY <1>2, <1>7, <2>2, <3>1 DEF r, x
      <3>2. CASE i \in 1..m
        BY <1>2, <1>5, <2>2, <3>2
      <3> QED  BY <2>2, <2>3, <3>1, <3>2
    <2>7. Covered(after, r.path, r.ts)
      BY <1>1, <1>4, <2>2 DEF Covered
    <2>8. ASSUME NEW j \in 1..(k - 1), Opens(row[j], present)
          PROVE  Covered(after, row[j].path, row[j].ts)
      <3>1. Len(L) # limit
        <4>1. m # limit
          BY <1>1, <1>7
        <4> QED  BY <4>1 DEF m
      <3>2. Covered(L, row[j].path, row[j].ts)
        BY <1>5, <2>8, <3>1
      <3> QED  BY <1>1, <2>2, <2>4, <3>2 DEF Covered
    <2>9. \A j \in 1..k : Opens(row[j], present) => Covered(after, row[j].path, row[j].ts)
      BY <1>2, <2>7, <2>8 DEF r
    <2> QED  BY <2>2, <2>3, <2>5, <2>6, <2>9 DEF LaunchedUpTo, after, r
  <1>8. CASE ~(m < limit /\ Opens(r, present) /\ ~Listed(L, r.path))
    <2>1. after = L
      BY <1>8 DEF AddLaunch, Opens
    <2> HIDE DEF after, m
    <2>2. Opens(r, present) => \/ Covered(L, r.path, r.ts)
                               \/ m = limit /\ \A i \in DOMAIN L : L[i].ts >= r.ts
      <3>1. CASE m < limit
        BY <1>1, <1>6, <1>8, <3>1 DEF Listed, Covered
      <3>2. CASE ~(m < limit)
        BY <1>1, <1>6, <3>2
      <3> QED  BY <3>1, <3>2
    <2>3. \A i \in DOMAIN L : \E j \in 1..k :
             Opens(row[j], present) /\ L[i] = [path |-> row[j].path, ts |-> row[j].ts]
      BY <1>1, <1>2, <1>5
    <2>4. \A j \in 1..k : Opens(row[j], present) =>
            \/ Covered(L, row[j].path, row[j].ts)
            \/ Len(L) = limit /\ \A i \in DOMAIN L : L[i].ts >= row[j].ts
      BY <1>2, <1>5, <2>2 DEF r, m
    <2>5. Len(L) <= limit
      BY <1>1 DEF m
    <2> QED  BY <1>1, <1>5, <2>1, <2>3, <2>4, <2>5 DEF LaunchedUpTo, after, r
  <1> QED  BY <1>7, <1>8

\* The launches of the whole history.
LaunchesOf(L, history, present, limit) ==
    /\ L \in Seq(Access) /\ Apart(L) /\ Len(L) <= limit
    /\ \A i \in DOMAIN L : \E j \in DOMAIN history :
         Opens(history[j], present) /\ L[i] = [path |-> history[j].path, ts |-> history[j].ts]
    /\ \A j \in DOMAIN history : Opens(history[j], present) =>
         \/ Covered(L, history[j].path, history[j].ts)
         \/ Len(L) = limit /\ \A i \in DOMAIN L : L[i].ts >= history[j].ts

\* _iter_launch_history_items keeps the latest launches.
LEMMA LaunchIs ==
    ASSUME QueriesCount, NEW history \in Seq(Launch), NEW present, NEW limit \in Nat,
           \A i, j \in DOMAIN history : i < j => history[i].ts <= history[j].ts
    PROVE  LaunchesOf(LaunchItems(history, present, limit), history, present, limit)
  <1> DEFINE n == Len(history)
             row == Reverse(history)
             L == LaunchItems(history, present, limit)
  <1>1. PICK at : /\ at \in [0..n -> Seq(Access)] /\ at[0] = <<>> /\ at[n] = L
                  /\ \A k \in 1..n : at[k] = AddLaunch(at[k - 1], row[k], present, limit)
    <2>1. PICK at : LaunchRun(at, history, present, limit)
      BY LaunchSteps
    <2> QED  BY <2>1 DEF LaunchRun
  <1>2. n \in Nat /\ DOMAIN history = 1..n /\ \A i \in 1..n : history[i] \in Launch
    OBVIOUS
  <1>3. row = [k \in 1..n |-> history[n - k + 1]]
    BY DEF Reverse
  <1> HIDE DEF n, row, L
  <1>4. \A k \in 1..n : n - k + 1 \in 1..n /\ n - (n - k + 1) + 1 = k
    BY <1>2
  <1>5. row \in [1..n -> Launch] /\ \A k \in 1..n : row[k] = history[n - k + 1]
    BY <1>2, <1>3, <1>4
  <1>6. ASSUME NEW i \in 1..n, NEW j \in 1..n, i < j PROVE row[i].ts >= row[j].ts
    <2>1. n - j + 1 < n - i + 1
      BY <1>2, <1>6
    <2>2. history[n - j + 1].ts <= history[n - i + 1].ts
      BY <1>2, <1>4, <2>1
    <2>3. \A k \in 1..n : history[k].ts \in Nat
      BY <1>2 DEF Launch, QueriesCount
    <2> QED  BY <1>4, <1>5, <2>2, <2>3
  <1> DEFINE Bad == {j \in Nat : j <= n /\ ~LaunchedUpTo(at[j], row, present, limit, j)}
  <1>7. LaunchedUpTo(at[0], row, present, limit, 0)
    <2>1. at[0] \in Seq(Access) /\ DOMAIN at[0] = {} /\ 1..0 = {} /\ Len(at[0]) = 0
      BY <1>1
    <2> QED  BY <2>1 DEF LaunchedUpTo, Apart
  <1>8. CASE Bad # {}
    <2>1. PICK j \in Bad : \A i \in Bad : j <= i
      <3>1. Bad \subseteq Nat
        OBVIOUS
      <3> HIDE DEF Bad
      <3> QED  BY <1>8, <3>1, LeastNumber
    <2>2. j # 0 /\ j \in Nat /\ j <= n
      BY <1>7, <2>1
    <2>3. j \in 1..n /\ j - 1 \in Nat /\ j - 1 <= n /\ ~ (j <= j - 1)
      BY <1>2, <2>2
    <2>4. LaunchedUpTo(at[j - 1], row, present, limit, j - 1)
      BY <2>1, <2>3
    <2>5. at[j] = AddLaunch(at[j - 1], row[j], present, limit)
      BY <1>1, <2>3
    <2>6. LaunchedUpTo(at[j], row, present, limit, j)
      BY <1>2, <1>5, <1>6, <2>3, <2>4, <2>5, LaunchOne
    <2> QED  BY <2>1, <2>6
  <1>9. CASE Bad = {}
    <2>1. LaunchedUpTo(L, row, present, limit, n)
      <3>1. n \notin Bad /\ n \in Nat /\ n <= n
        BY <1>2, <1>9
      <3>2. LaunchedUpTo(at[n], row, present, limit, n)
        BY <3>1
      <3> QED  BY <1>1, <3>2
    <2>2. /\ L \in Seq(Access) /\ Apart(L) /\ Len(L) <= limit
          /\ \A i \in DOMAIN L : \E j \in 1..n :
               Opens(row[j], present) /\ L[i] = [path |-> row[j].path, ts |-> row[j].ts]
          /\ \A j \in 1..n : Opens(row[j], present) =>
               \/ Covered(L, row[j].path, row[j].ts)
               \/ Len(L) = limit /\ \A i \in DOMAIN L : L[i].ts >= row[j].ts
      BY <2>1 DEF LaunchedUpTo
    <2>3. \A i \in DOMAIN L : \E j \in 1..n :
             Opens(history[j], present) /\ L[i] = [path |-> history[j].path, ts |-> history[j].ts]
      BY <1>4, <1>5, <2>2
    <2>4. \A j \in 1..n : n - j + 1 \in 1..n /\ row[n - j + 1] = history[j]
      BY <1>4, <1>5
    <2>5. \A j \in 1..n : Opens(history[j], present) =>
             \/ Covered(L, history[j].path, history[j].ts)
             \/ Len(L) = limit /\ \A i \in DOMAIN L : L[i].ts >= history[j].ts
      <3>1. ASSUME NEW j \in 1..n, Opens(history[j], present)
            PROVE  \/ Covered(L, history[j].path, history[j].ts)
                   \/ Len(L) = limit /\ \A i \in DOMAIN L : L[i].ts >= history[j].ts
        <4>1. n - j + 1 \in 1..n /\ row[n - j + 1] = history[j]
          BY <2>4
        <4> DEFINE h == history[j]
                   p == n - j + 1
        <4>2. p \in 1..n /\ row[p] = h /\ Opens(h, present)
          BY <3>1, <4>1
        <4> HIDE DEF h, p
        <4>3. \/ Covered(L, h.path, h.ts)
              \/ Len(L) = limit /\ \A i \in DOMAIN L : L[i].ts >= h.ts
          BY <2>2, <4>2
        <4> QED  BY <4>3 DEF h
      <3> QED  BY <3>1
    <2> QED  BY <1>2, <2>2, <2>3, <2>5 DEF LaunchesOf, L
  <1> QED  BY <1>8, <1>9

(***************************************************************************)
(* Recent files: what is cut off is older.                                 *)
(***************************************************************************)
\* The numbers up to n are n.
LEMMA CountTo == ASSUME NEW n \in Nat PROVE IsFiniteSet(1..n) /\ Cardinality(1..n) = n
  <1>1. IsFiniteSet(1..n) /\ Cardinality(1..n) = IF 1 > n THEN 0 ELSE n - 1 + 1
    BY FS_Interval
  <1> QED  BY <1>1

\* A list has as many accesses as are shown, of as many files, and none before a time.
Full(s, limit, t) ==
    \E f \in [1..limit -> DOMAIN s] :
      /\ \A i, k \in 1..limit : s[f[i]].path = s[f[k]].path => i = k
      /\ \A i \in 1..limit : s[f[i]].ts >= t

\* A list has a file as late as this, or leaves it no room.
Covers(s, limit, x) == Covered(s, x.path, x.ts) \/ Full(s, limit, x.ts)

\* So has a list of different files that is as long as that.
LEMMA FullList ==
    ASSUME NEW limit \in Nat, NEW s \in Seq(Access), Len(s) = limit, Apart(s), NEW t,
           \A i \in DOMAIN s : s[i].ts >= t
    PROVE  Full(s, limit, t)
  <1>1. DOMAIN s = 1..limit
    OBVIOUS
  <1> DEFINE f == [i \in 1..limit |-> i]
  <1>2. f \in [1..limit -> DOMAIN s] /\ \A i \in 1..limit : f[i] = i
    BY <1>1
  <1> HIDE DEF f
  <1> QED  BY <1>1, <1>2 DEF Full, Apart

\* What a list covers, a list that holds it covers.
LEMMA CoversMore ==
    ASSUME NEW s \in Seq(Access), NEW limit, NEW x, Covers(s, limit, x), NEW u \in Seq(Access),
           NEW d \in Nat, \A i \in DOMAIN s : i + d \in DOMAIN u /\ u[i + d] = s[i]
    PROVE  Covers(u, limit, x)
  <1>1. CASE Covered(s, x.path, x.ts)
    BY <1>1 DEF Covered, Covers
  <1>2. CASE Full(s, limit, x.ts)
    <2>1. PICK f \in [1..limit -> DOMAIN s] :
            /\ \A i, k \in 1..limit : s[f[i]].path = s[f[k]].path => i = k
            /\ \A i \in 1..limit : s[f[i]].ts >= x.ts
      BY <1>2 DEF Full
    <2> DEFINE g == [i \in 1..limit |-> f[i] + d]
    <2>2. \A i \in 1..limit : f[i] \in DOMAIN s
      BY <2>1
    <2>3. \A i \in 1..limit : g[i] \in DOMAIN u /\ u[g[i]] = s[f[i]]
      BY <2>2
    <2>4. g \in [1..limit -> DOMAIN u]
      BY <2>3
    <2> HIDE DEF g
    <2>5. /\ \A i, k \in 1..limit : u[g[i]].path = u[g[k]].path => i = k
          /\ \A i \in 1..limit : u[g[i]].ts >= x.ts
      BY <2>1, <2>3
    <2>6. Full(u, limit, x.ts)
      BY <2>4, <2>5 DEF Full
    <2> QED  BY <2>6 DEF Covers
  <1> QED  BY <1>1, <1>2 DEF Covers

\* Merging keeps what is covered.
LEMMA MergeCovers ==
    ASSUME QueriesCount, NEW items \in Seq(Access), NEW limit \in Nat, NEW x \in Access,
           Covers(items, limit, x), NEW M, MergedUpTo(M, items, Len(items))
    PROVE  Covers(M, limit, x)
  <1>1. /\ DOMAIN items = 1..Len(items) /\ M \in Seq(Access) /\ x.ts \in Nat
        /\ \A j \in DOMAIN items : items[j] \in Access
        /\ \A j \in DOMAIN items : Covered(M, items[j].path, items[j].ts)
    <2>1. DOMAIN items = 1..Len(items) /\ \A j \in DOMAIN items : items[j] \in Access
      OBVIOUS
    <2>2. x.ts \in Nat
      BY DEF Access, QueriesCount
    <2>3. M \in Seq(Access) /\ \A j \in DOMAIN items : Covered(M, items[j].path, items[j].ts)
      BY <2>1 DEF MergedUpTo
    <2> QED  BY <2>1, <2>2, <2>3
  <1>2. \A i \in DOMAIN M : M[i] \in Access
    BY <1>1
  <1>3. \A y \in Access : y.ts \in Nat
    BY DEF Access, QueriesCount
  <1>4. ASSUME NEW j \in DOMAIN items, NEW t \in Nat, items[j].ts >= t
        PROVE  \E m \in DOMAIN M : M[m].path = items[j].path /\ M[m].ts >= t
    <2>1. PICK m \in DOMAIN M : M[m].path = items[j].path /\ M[m].ts >= items[j].ts
      BY <1>1 DEF Covered
    <2>2. M[m].ts \in Nat /\ items[j].ts \in Nat
      BY <1>1, <1>2, <1>3
    <2>3. M[m].ts >= t
      BY <1>4, <2>1, <2>2
    <2> QED  BY <2>1, <2>3
  <1>5. CASE Covered(items, x.path, x.ts)
    <2>1. PICK j \in DOMAIN items : items[j].path = x.path /\ items[j].ts >= x.ts
      BY <1>5 DEF Covered
    <2>2. PICK m \in DOMAIN M : M[m].path = items[j].path /\ M[m].ts >= x.ts
      BY <1>1, <1>4, <2>1
    <2> QED  BY <2>1, <2>2 DEF Covers, Covered
  <1>6. CASE Full(items, limit, x.ts)
    <2>1. PICK f \in [1..limit -> DOMAIN items] :
            /\ \A i, k \in 1..limit : items[f[i]].path = items[f[k]].path => i = k
            /\ \A i \in 1..limit : items[f[i]].ts >= x.ts
      BY <1>6 DEF Full
    <2> DEFINE g == [i \in 1..limit |->
                      CHOOSE m \in DOMAIN M : M[m].path = items[f[i]].path /\ M[m].ts >= x.ts]
    <2>2. ASSUME NEW i \in 1..limit
          PROVE  g[i] \in DOMAIN M /\ M[g[i]].path = items[f[i]].path /\ M[g[i]].ts >= x.ts
      <3>1. f[i] \in DOMAIN items /\ items[f[i]].ts >= x.ts
        BY <2>1
      <3>2. \E m \in DOMAIN M : M[m].path = items[f[i]].path /\ M[m].ts >= x.ts
        BY <1>1, <1>4, <3>1
      <3> QED  BY <3>2
    <2>3. g \in [1..limit -> DOMAIN M]
      BY <2>2
    <2> HIDE DEF g
    <2>4. \A i, k \in 1..limit : M[g[i]].path = M[g[k]].path => i = k
      BY <2>1, <2>2
    <2>5. Full(M, limit, x.ts)
      BY <2>2, <2>3, <2>4 DEF Full
    <2> QED  BY <2>5 DEF Covers
  <1> QED  BY <1>5, <1>6 DEF Covers

\* When a list of different files leaves no room, the newest of it are as late.
LEMMA FullStays ==
    ASSUME QueriesCount, NEW M \in Seq(Access), Apart(M), NEW limit \in Nat, NEW t \in Nat,
           Full(M, limit, t), NEW A, Newest(A, M, DOMAIN M, limit)
    PROVE  Len(A) = limit /\ \A k \in DOMAIN A : A[k].ts >= t
  <1>1. /\ A \in Seq(Access) /\ Len(A) \in Nat /\ DOMAIN A = 1..Len(A)
        /\ \A i \in DOMAIN A : A[i].ts \in Nat
    <2>1. A \in Seq(Access)
      BY DEF Newest
    <2>2. \A i \in DOMAIN A : A[i] \in Access
      BY <2>1
    <2> QED  BY <2>1, <2>2 DEF Access, QueriesCount
  <1>2. DOMAIN M = 1..Len(M) /\ IsFiniteSet(DOMAIN M) /\ Cardinality(DOMAIN M) = Len(M)
        /\ Len(M) \in Nat /\ \A m \in DOMAIN M : M[m].ts \in Nat
    <2>1. DOMAIN M = 1..Len(M) /\ Len(M) \in Nat /\ \A m \in DOMAIN M : M[m] \in Access
      OBVIOUS
    <2>2. IsFiniteSet(1..Len(M)) /\ Cardinality(1..Len(M)) = Len(M)
      BY <2>1, CountTo
    <2>3. \A m \in DOMAIN M : M[m].ts \in Nat
      BY <2>1 DEF Access, QueriesCount
    <2> QED  BY <2>1, <2>2, <2>3
  <1>3. PICK f \in [1..limit -> DOMAIN M] :
          /\ \A i, k \in 1..limit : M[f[i]].path = M[f[k]].path => i = k
          /\ \A i \in 1..limit : M[f[i]].ts >= t
    BY DEF Full
  <1>4. IsFiniteSet(1..limit) /\ Cardinality(1..limit) = limit
    BY CountTo
  <1>5. limit <= Len(M)
    <2>1. f \in Injection(1..limit, DOMAIN M)
      BY <1>3 DEF Injection, IsInjective
    <2>2. Cardinality(1..limit) <= Cardinality(DOMAIN M)
      BY <1>2, <2>1, FS_Injection
    <2> QED  BY <1>2, <1>4, <2>2
  <1>6. /\ Len(A) = limit
        /\ \A i, k \in DOMAIN A : i < k => A[i].ts >= A[k].ts
        /\ \A p \in DOMAIN M : \/ \E i \in DOMAIN A : A[i] = M[p]
                               \/ \A i \in DOMAIN A : A[i].ts >= M[p].ts
    <2>1. Len(A) = IF Cardinality(DOMAIN M) < limit THEN Cardinality(DOMAIN M) ELSE limit
      BY DEF Newest
    <2>2. Len(A) = limit
      BY <1>2, <1>5, <2>1
    <2> QED  BY <2>2 DEF Newest
  <1>7. ASSUME NEW k \in DOMAIN A, ~(A[k].ts >= t) PROVE FALSE
    <2>1. k \in Nat /\ k >= 1 /\ k <= limit /\ A[k].ts \in Nat
      BY <1>1, <1>6
    <2> DEFINE h == [i \in 1..limit |-> CHOOSE j \in DOMAIN A : A[j] = M[f[i]]]
    <2>2. ASSUME NEW i \in 1..limit
          PROVE  h[i] \in 1..(k - 1) /\ A[h[i]] = M[f[i]]
      <3>1. f[i] \in DOMAIN M /\ M[f[i]].ts >= t /\ M[f[i]].ts \in Nat
        BY <1>2, <1>3
      <3>2. ~ (A[k].ts >= M[f[i]].ts)
        BY <1>7, <2>1, <3>1
      <3>3. \E j \in DOMAIN A : A[j] = M[f[i]]
        BY <1>6, <3>1, <3>2
      <3>4. h[i] \in DOMAIN A /\ A[h[i]] = M[f[i]]
        BY <3>3
      <3> HIDE DEF h
      <3>5. h[i] # k /\ ~(k < h[i])
        <4>1. h[i] # k
          BY <1>1, <3>1, <3>2, <3>4
        <4>2. ~(k < h[i])
          <5>1. k < h[i] => A[k].ts >= A[h[i]].ts
            BY <1>6, <3>4
          <5> QED  BY <3>2, <3>4, <5>1
        <4> QED  BY <4>1, <4>2
      <3> QED  BY <1>1, <2>1, <3>4, <3>5
    <2>3. h \in [1..limit -> 1..(k - 1)]
      BY <2>2
    <2> HIDE DEF h
    <2>4. ASSUME NEW i \in 1..limit, NEW j \in 1..limit, h[i] = h[j] PROVE i = j
      <3>1. M[f[i]] = M[f[j]]
        BY <2>2, <2>4
      <3> QED  BY <1>3, <3>1
    <2>5. h \in Injection(1..limit, 1..(k - 1))
      BY <2>3, <2>4 DEF Injection, IsInjective
    <2>6. IsFiniteSet(1..(k - 1)) /\ Cardinality(1..(k - 1)) = k - 1
      <3>1. k - 1 \in Nat
        BY <2>1
      <3> QED  BY <3>1, CountTo
    <2>7. limit <= k - 1
      BY <1>4, <2>5, <2>6, FS_Injection
    <2> QED  BY <2>1, <2>7
  <1> QED  BY <1>6, <1>7

\* The answer is a list of different files, the latest first, of the files that are known;
\* what is not in it, or later, is older than all of it.
Shows(A, known, limit) ==
    /\ A \in Seq(Access) /\ Apart(A) /\ Len(A) <= limit
    /\ \A i \in DOMAIN A : A[i] \in known
    /\ \A i, k \in DOMAIN A : i < k => A[i].ts >= A[k].ts
    /\ \A x \in known : \/ Covered(A, x.path, x.ts)
                        \/ Len(A) = limit /\ \A i \in DOMAIN A : A[i].ts >= x.ts

\* _merge_recent_items makes such an answer of items that cover what is known.
LEMMA MergeShows ==
    ASSUME QueriesCount, NEW items \in Seq(Access), NEW limit \in Nat, NEW known \in SUBSET Access,
           \A i \in DOMAIN items : items[i] \in known, \A x \in known : Covers(items, limit, x)
    PROVE  Shows(Merge(items, limit), known, limit)
  <1> DEFINE M == FoldLeft(AddAccess, <<>>, items)
             A == Latest(M, DOMAIN M, limit)
  <1>1. MergedUpTo(M, items, Len(items))
    BY MergeIs
  <1>2. Merge(items, limit) = A
    BY DEF Merge
  <1> HIDE DEF M, A
  <1>3. /\ M \in Seq(Access) /\ Apart(M) /\ DOMAIN M \in SUBSET (1..Len(M))
        /\ Len(M) \in Nat /\ IsFiniteSet(DOMAIN M) /\ Cardinality(DOMAIN M) = Len(M)
        /\ \A i \in DOMAIN M : M[i] \in known
    <2>1. M \in Seq(Access) /\ Apart(M) /\ \A i \in DOMAIN M : \E j \in DOMAIN items : M[i] = items[j]
      BY <1>1 DEF MergedUpTo
    <2>2. DOMAIN M = 1..Len(M) /\ Len(M) \in Nat
      BY <2>1
    <2>3. IsFiniteSet(1..Len(M)) /\ Cardinality(1..Len(M)) = Len(M)
      BY <2>2, CountTo
    <2> QED  BY <2>1, <2>2, <2>3
  <1>4. Newest(A, M, DOMAIN M, limit)
    BY <1>3, LatestIs DEF A
  <1>5. /\ A \in Seq(Access)
        /\ Len(A) = IF Cardinality(DOMAIN M) < limit THEN Cardinality(DOMAIN M) ELSE limit
        /\ \A i \in DOMAIN A : \E p \in DOMAIN M : A[i] = M[p]
        /\ \A i, k \in DOMAIN A : i < k => A[i].ts >= A[k].ts
        /\ \A p \in DOMAIN M :
             \/ \E i \in DOMAIN A : A[i] = M[p]
             \/ Len(A) = limit /\ \A i \in DOMAIN A : A[i].ts >= M[p].ts
        /\ (\A p, r \in DOMAIN M : M[p].path = M[r].path => p = r) =>
             \A i, k \in DOMAIN A : A[i].path = A[k].path => i = k
    BY <1>4 DEF Newest
  <1>6. Apart(A) /\ Len(A) <= limit
    BY <1>3, <1>5 DEF Apart
  <1>7. \A i \in DOMAIN A : A[i] \in known
    BY <1>3, <1>5
  <1>8. ASSUME NEW x \in known
        PROVE  \/ Covered(A, x.path, x.ts)
               \/ Len(A) = limit /\ \A i \in DOMAIN A : A[i].ts >= x.ts
    <2>1. x \in Access /\ x.ts \in Nat /\ Covers(M, limit, x)
      BY <1>1, <1>8, MergeCovers DEF Access, QueriesCount
    <2>2. CASE Full(M, limit, x.ts)
      BY <1>3, <1>4, <2>1, <2>2, FullStays
    <2>3. CASE Covered(M, x.path, x.ts)
      <3>1. PICK p \in DOMAIN M : M[p].path = x.path /\ M[p].ts >= x.ts
        BY <2>3 DEF Covered
      <3>2. CASE \E i \in DOMAIN A : A[i] = M[p]
        BY <3>1, <3>2 DEF Covered
      <3>3. CASE Len(A) = limit /\ \A i \in DOMAIN A : A[i].ts >= M[p].ts
        <4>1. \A y \in known : y.ts \in Nat
          BY DEF Access, QueriesCount
        <4>2. ASSUME NEW i \in DOMAIN A PROVE A[i].ts >= x.ts
          <5>1. A[i].ts \in Nat /\ M[p].ts \in Nat /\ A[i].ts >= M[p].ts
            BY <1>3, <1>7, <3>3, <4>1
          <5> QED  BY <2>1, <3>1, <5>1
        <4> QED  BY <3>3, <4>2
      <3> QED  BY <1>5, <3>2, <3>3
    <2> QED  BY <2>1, <2>2, <2>3 DEF Covers
  <1> QED  BY <1>2, <1>5, <1>6, <1>7, <1>8 DEF Shows

\* The bookmarks that are read, unless they crowd.
LEMMA BookmarksCover ==
    ASSUME QueriesCount, NEW bookmarks \in Seq(Access), NEW present, NEW limit \in Nat,
           \/ ~(limit < Cardinality(OnDisk(bookmarks, present)))
           \/ \A i, k \in OnDisk(bookmarks, present) : bookmarks[i].path = bookmarks[k].path => i = k,
           NEW j \in OnDisk(bookmarks, present)
    PROVE  Covers(XbelItems(bookmarks, present, limit), limit, bookmarks[j])
  <1> DEFINE places == OnDisk(bookmarks, present)
             X == XbelItems(bookmarks, present, limit)
  <1>1. places \in SUBSET (1..Len(bookmarks)) /\ j \in places
    BY DEF OnDisk
  <1>2. X = Latest(bookmarks, places, limit)
    BY DEF XbelItems
  <1> HIDE DEF places, X
  <1>3. Newest(X, bookmarks, places, limit)
    BY <1>1, <1>2, LatestIs
  <1>4. bookmarks[j] \in Access /\ bookmarks[j].ts \in Nat
    <2>1. j \in 1..Len(bookmarks)
      BY <1>1
    <2>2. bookmarks[j] \in Access
      BY <2>1
    <2> QED  BY <2>2 DEF Access, QueriesCount
  <1>5. CASE \E i \in DOMAIN X : X[i] = bookmarks[j]
    BY <1>4, <1>5 DEF Covers, Covered, X
  <1>6. CASE /\ Len(X) = limit /\ limit < Cardinality(places)
             /\ \A i \in DOMAIN X : X[i].ts >= bookmarks[j].ts
    <2>1. \A p, r \in places : bookmarks[p].path = bookmarks[r].path => p = r
      BY <1>6 DEF places
    <2>2. X \in Seq(Access) /\ \A i, k \in DOMAIN X : X[i].path = X[k].path => i = k
      BY <1>3, <2>1 DEF Newest
    <2>3. Full(X, limit, bookmarks[j].ts)
      BY <1>6, <2>2, FullList DEF Apart
    <2> QED  BY <2>3 DEF Covers, X
  <1>7. \/ \E i \in DOMAIN X : X[i] = bookmarks[j]
        \/ /\ Len(X) = limit /\ limit < Cardinality(places)
           /\ \A i \in DOMAIN X : X[i].ts >= bookmarks[j].ts
    BY <1>1, <1>3 DEF Newest
  <1> QED  BY <1>5, <1>6, <1>7

\* What is read of the bookmarks are bookmarks.
LEMMA BookmarksAre ==
    ASSUME QueriesCount, NEW bookmarks \in Seq(Access), NEW present, NEW limit \in Nat
    PROVE  /\ XbelItems(bookmarks, present, limit) \in Seq(Access)
           /\ \A i \in DOMAIN XbelItems(bookmarks, present, limit) :
                \E p \in OnDisk(bookmarks, present) :
                  XbelItems(bookmarks, present, limit)[i] = bookmarks[p]
  <1> DEFINE places == OnDisk(bookmarks, present)
             X == XbelItems(bookmarks, present, limit)
  <1>1. places \in SUBSET (1..Len(bookmarks))
    BY DEF OnDisk
  <1>2. X = Latest(bookmarks, places, limit)
    BY DEF XbelItems
  <1> HIDE DEF places, X
  <1>3. Newest(X, bookmarks, places, limit)
    BY <1>1, <1>2, LatestIs
  <1>4. X \in Seq(Access) /\ \A i \in DOMAIN X : \E p \in places : X[i] = bookmarks[p]
    BY <1>3 DEF Newest
  <1> QED  BY <1>4 DEF X, places

\* The three sources hold what is known, and leave room for it.
AllItems(q) ==
    q.finder \o LaunchItems(q.launch, q.present, q.limit) \o XbelItems(q.xbel, q.present, q.limit)

\* What a question about the recent files holds.
LEMMA QueryFields ==
    ASSUME QueriesCount, NEW q \in RecentQueries
    PROVE  /\ q.limit \in Nat /\ q.what = "recents"
           /\ q.finder \in Seq(Access) /\ q.xbel \in Seq(Access) /\ q.launch \in Seq(Launch)
           /\ \A i, j \in DOMAIN q.launch : i < j => q.launch[i].ts <= q.launch[j].ts
  <1>1. /\ q.limit \in Limits /\ q.what = "recents"
        /\ q.finder \in SeqOf(Access, MaxOwn) /\ q.xbel \in SeqOf(Access, MaxBookmarks)
        /\ q.launch \in SeqOf(Launch, MaxLaunches)
        /\ \A i, j \in DOMAIN q.launch : i < j => q.launch[i].ts <= q.launch[j].ts
    BY DEF RecentQueries, BoundedSeq
  <1> QED  BY <1>1, BoundedSeqs DEF QueriesCount

\* The accesses that are known are those of the three sources.
LEMMA KnownIs ==
    ASSUME NEW q
    PROVE  /\ \A i \in DOMAIN q.finder : q.finder[i] \in Accesses(q)
           /\ \A j \in DOMAIN q.launch : Opens(q.launch[j], q.present) =>
                [path |-> q.launch[j].path, ts |-> q.launch[j].ts] \in Accesses(q)
           /\ \A p \in OnDisk(q.xbel, q.present) : q.xbel[p] \in Accesses(q)
           /\ \A x \in Accesses(q) :
                \/ \E i \in DOMAIN q.finder : x = q.finder[i]
                \/ \E j \in DOMAIN q.launch :
                     /\ Opens(q.launch[j], q.present)
                     /\ x = [path |-> q.launch[j].path, ts |-> q.launch[j].ts]
                \/ \E p \in OnDisk(q.xbel, q.present) : x = q.xbel[p]
  <1>1. \A i \in DOMAIN q.finder : q.finder[i] \in Accesses(q)
    BY DEF Accesses, ToSet
  <1>2. ASSUME NEW j \in DOMAIN q.launch, Opens(q.launch[j], q.present)
        PROVE  [path |-> q.launch[j].path, ts |-> q.launch[j].ts] \in Accesses(q)
    <2>1. q.launch[j] \in {s \in ToSet(q.launch) : s.ok} /\ q.launch[j].path \in q.present
      BY <1>2 DEF Opens, ToSet
    <2> QED  BY <2>1 DEF Accesses
  <1>3. \A p \in OnDisk(q.xbel, q.present) : q.xbel[p] \in Accesses(q)
    BY DEF Accesses, ToSet, OnDisk
  <1>4. ASSUME NEW x \in Accesses(q)
        PROVE  \/ \E i \in DOMAIN q.finder : x = q.finder[i]
               \/ \E j \in DOMAIN q.launch :
                     /\ Opens(q.launch[j], q.present)
                     /\ x = [path |-> q.launch[j].path, ts |-> q.launch[j].ts]
               \/ \E p \in OnDisk(q.xbel, q.present) : x = q.xbel[p]
    <2>1. CASE x \in ToSet(q.finder)
      BY <2>1 DEF ToSet
    <2>2. CASE x \in {[path |-> r.path, ts |-> r.ts] : r \in {s \in ToSet(q.launch) : s.ok}}
               /\ x.path \in q.present
      <3>1. PICK r \in ToSet(q.launch) : r.ok /\ x = [path |-> r.path, ts |-> r.ts]
        BY <2>2
      <3>2. PICK j \in DOMAIN q.launch : q.launch[j] = r
        BY <3>1 DEF ToSet
      <3> QED  BY <2>2, <3>1, <3>2 DEF Opens
    <2>3. CASE x \in ToSet(q.xbel) /\ x.path \in q.present
      BY <2>3 DEF ToSet, OnDisk
    <2> QED  BY <2>1, <2>2, <2>3 DEF Accesses
  <1> QED  BY <1>1, <1>2, <1>3, <1>4

\* Where the items of two lists stand in the one list they make.
LEMMA JoinIs ==
    ASSUME NEW S, NEW A \in Seq(S), NEW B \in Seq(S)
    PROVE  /\ A \o B \in Seq(S) /\ Len(A \o B) = Len(A) + Len(B)
           /\ Len(A) \in Nat /\ Len(B) \in Nat
           /\ \A i \in DOMAIN A : i \in DOMAIN (A \o B) /\ (A \o B)[i] = A[i]
           /\ \A i \in DOMAIN B : i + Len(A) \in DOMAIN (A \o B) /\ (A \o B)[i + Len(A)] = B[i]
  <1>1. A \o B \in Seq(S) /\ Len(A \o B) = Len(A) + Len(B) /\ Len(A) \in Nat /\ Len(B) \in Nat
    OBVIOUS
  <1>2. ASSUME NEW i \in DOMAIN A
        PROVE  i \in DOMAIN (A \o B) /\ (A \o B)[i] = A[i]
    BY <1>2
  <1>3. ASSUME NEW i \in DOMAIN B
        PROVE  i + Len(A) \in DOMAIN (A \o B) /\ (A \o B)[i + Len(A)] = B[i]
    BY <1>3
  <1> QED  BY <1>1, <1>2, <1>3

\* Their items are known, and cover what is.
LEMMA SourcesCover ==
    ASSUME QueriesCount, NEW q \in RecentQueries
    PROVE  /\ AllItems(q) \in Seq(Access) /\ Accesses(q) \in SUBSET Access
           /\ \A i \in DOMAIN AllItems(q) : AllItems(q)[i] \in Accesses(q)
           /\ ~Crowded(q) => \A x \in Accesses(q) : Covers(AllItems(q), q.limit, x)
  <1> DEFINE F == q.finder
             L == LaunchItems(q.launch, q.present, q.limit)
             X == XbelItems(q.xbel, q.present, q.limit)
             limit == q.limit
             items == AllItems(q)
             d == Len(F)
             e == Len(F) + Len(L)
  <1>1. /\ limit \in Nat /\ F \in Seq(Access) /\ q.xbel \in Seq(Access) /\ q.launch \in Seq(Launch)
        /\ LaunchesOf(L, q.launch, q.present, limit)
    BY QueryFields, LaunchIs
  <1>2. /\ X \in Seq(Access)
        /\ \A i \in DOMAIN X : \E p \in OnDisk(q.xbel, q.present) : X[i] = q.xbel[p]
    BY <1>1, BookmarksAre
  <1>3. L \in Seq(Access)
    BY <1>1 DEF LaunchesOf
  <1>4. items = F \o L \o X
    BY DEF AllItems
  <1> HIDE DEF items, L, X
  <1>5. /\ items \in Seq(Access) /\ d \in Nat /\ e \in Nat
        /\ \A i \in DOMAIN F : i + 0 \in DOMAIN items /\ items[i + 0] = F[i]
        /\ \A i \in DOMAIN L : i + d \in DOMAIN items /\ items[i + d] = L[i]
        /\ \A i \in DOMAIN X : i + e \in DOMAIN items /\ items[i + e] = X[i]
        /\ \A i \in DOMAIN items : \/ i \in DOMAIN F
                                   \/ \E k \in DOMAIN L : i = k + d
                                   \/ \E k \in DOMAIN X : i = k + e
    <2>1. items \in Seq(Access) /\ d \in Nat /\ e \in Nat
      BY <1>1, <1>2, <1>3, <1>4
    <2>2. DOMAIN F = 1..d /\ DOMAIN L = 1..Len(L) /\ DOMAIN X = 1..Len(X) /\ Len(L) \in Nat
          /\ Len(X) \in Nat /\ DOMAIN items = 1..(e + Len(X)) /\ e = d + Len(L)
      BY <1>1, <1>2, <1>3, <1>4
    <2> DEFINE FL == F \o L
    <2>3. /\ FL \in Seq(Access) /\ Len(FL) = e
          /\ \A i \in DOMAIN F : i \in DOMAIN FL /\ FL[i] = F[i]
          /\ \A i \in DOMAIN L : i + d \in DOMAIN FL /\ FL[i + d] = L[i]
      BY <1>1, <1>3, JoinIs
    <2>4. items = FL \o X
      BY <1>1, <1>2, <1>3, <1>4
    <2> HIDE DEF FL
    <2>5. /\ \A i \in DOMAIN FL : i \in DOMAIN items /\ items[i] = FL[i]
          /\ \A i \in DOMAIN X : i + Len(FL) \in DOMAIN items /\ items[i + Len(FL)] = X[i]
      <3>1. FL \in Seq(Access) /\ X \in Seq(Access)
        BY <1>2, <2>3
      <3>2. /\ \A i \in DOMAIN FL : i \in DOMAIN (FL \o X) /\ (FL \o X)[i] = FL[i]
            /\ \A i \in DOMAIN X : i + Len(FL) \in DOMAIN (FL \o X) /\ (FL \o X)[i + Len(FL)] = X[i]
        BY <3>1, JoinIs
      <3>3. \A i \in DOMAIN FL : i \in DOMAIN items /\ items[i] = FL[i]
        BY <2>4, <3>2
      <3>4. \A i \in DOMAIN X : i + Len(FL) \in DOMAIN items /\ items[i + Len(FL)] = X[i]
        BY <2>4, <3>2
      <3> QED  BY <3>3, <3>4
    <2>6. ASSUME NEW i \in DOMAIN F
          PROVE  i + 0 \in DOMAIN items /\ items[i + 0] = F[i]
      <3>1. i \in DOMAIN items /\ items[i] = F[i]
        BY <2>3, <2>5, <2>6
      <3>2. i + 0 = i
        BY <2>1, <2>2, <2>6
      <3> QED  BY <3>1, <3>2
    <2>7. ASSUME NEW i \in DOMAIN L
          PROVE  i + d \in DOMAIN items /\ items[i + d] = L[i]
      <3>1. i + d \in DOMAIN FL /\ FL[i + d] = L[i]
        BY <2>3, <2>7
      <3> QED  BY <2>5, <3>1
    <2>8. ASSUME NEW i \in DOMAIN X
          PROVE  i + e \in DOMAIN items /\ items[i + e] = X[i]
      <3>1. Len(FL) = e
        BY <2>3
      <3> HIDE DEF e
      <3> QED  BY <2>5, <2>8, <3>1
    <2>9. ASSUME NEW i \in DOMAIN items
          PROVE  i \in DOMAIN F \/ (\E k \in DOMAIN L : i = k + d) \/ \E k \in DOMAIN X : i = k + e
      <3> HIDE DEF d, e, F
      <3> DEFINE l == Len(L)
                 m == Len(X)
      <3>1. i \in 1..(e + m) /\ e = d + l /\ l \in Nat /\ m \in Nat /\ d \in Nat
        BY <2>1, <2>2, <2>9
      <3> HIDE DEF l, m
      <3>2. i \in 1..d \/ i - d \in 1..l \/ i - e \in 1..m
        BY <3>1
      <3>3. i = (i - d) + d /\ i = (i - e) + e
        BY <3>1
      <3>4. i \in 1..d \/ (i - d \in 1..Len(L) /\ i = (i - d) + d)
              \/ (i - e \in 1..Len(X) /\ i = (i - e) + e)
        BY <3>2, <3>3 DEF l, m
      <3> QED  BY <2>2, <3>4
    <2> QED  BY <2>1, <2>6, <2>7, <2>8, <2>9
  <1>6. Accesses(q) \in SUBSET Access
    <2>1. ASSUME NEW x \in Accesses(q) PROVE x \in Access
      <3>1. CASE \E i \in DOMAIN F : x = F[i]
        BY <1>1, <3>1
      <3>2. CASE \E j \in DOMAIN q.launch : x = [path |-> q.launch[j].path, ts |-> q.launch[j].ts]
        <4>1. PICK j \in DOMAIN q.launch : x = [path |-> q.launch[j].path, ts |-> q.launch[j].ts]
          BY <3>2
        <4>2. q.launch[j] \in Launch
          BY <1>1
        <4> QED  BY <4>1, <4>2 DEF Launch, Access
      <3>3. CASE \E p \in OnDisk(q.xbel, q.present) : x = q.xbel[p]
        <4>1. PICK p \in DOMAIN q.xbel : x = q.xbel[p]
          BY <3>3 DEF OnDisk
        <4> QED  BY <1>1, <4>1
      <3> QED  BY <3>1, <3>2, <3>3, KnownIs
    <2> QED  BY <2>1
  <1>7. \A i \in DOMAIN L : \E j \in DOMAIN q.launch :
          Opens(q.launch[j], q.present) /\ L[i] = [path |-> q.launch[j].path, ts |-> q.launch[j].ts]
    BY <1>1 DEF LaunchesOf
  <1>8. ASSUME NEW i \in DOMAIN items PROVE items[i] \in Accesses(q)
    <2> HIDE DEF d, e
    <2>1. CASE i \in DOMAIN F
      <3>1. i + 0 = i
        BY <1>1, <2>1
      <3>2. items[i] = F[i]
        BY <1>5, <2>1, <3>1
      <3> QED  BY <2>1, <3>2, KnownIs
    <2>2. CASE \E k \in DOMAIN L : i = k + d
      <3>1. PICK k \in DOMAIN L : i = k + d
        BY <2>2
      <3>2. items[i] = L[k]
        BY <1>5, <3>1
      <3>3. L[k] \in Accesses(q)
        BY <1>7, KnownIs
      <3> QED  BY <3>2, <3>3
    <2>3. CASE \E k \in DOMAIN X : i = k + e
      <3>1. PICK k \in DOMAIN X : i = k + e
        BY <2>3
      <3>2. items[i] = X[k]
        BY <1>5, <3>1
      <3>3. X[k] \in Accesses(q)
        BY <1>2, KnownIs
      <3> QED  BY <3>2, <3>3
    <2> QED  BY <1>5, <2>1, <2>2, <2>3
  <1>9. ASSUME ~Crowded(q), NEW x \in Accesses(q) PROVE Covers(items, limit, x)
    <2> HIDE DEF d, e, F, limit
    <2>1. x \in Access /\ x.ts \in Nat
      BY <1>6 DEF Access, QueriesCount
    <2>2. CASE \E i \in DOMAIN F : x = F[i]
      <3>1. Covers(F, limit, x)
        BY <2>1, <2>2 DEF Covers, Covered
      <3>2. 0 \in Nat
        OBVIOUS
      <3> QED  BY <1>1, <1>5, <3>1, <3>2, CoversMore
    <2>3. CASE \E j \in DOMAIN q.launch :
                 /\ Opens(q.launch[j], q.present)
                 /\ x = [path |-> q.launch[j].path, ts |-> q.launch[j].ts]
      <3>1. PICK j \in DOMAIN q.launch :
                 /\ Opens(q.launch[j], q.present)
                 /\ x = [path |-> q.launch[j].path, ts |-> q.launch[j].ts]
        BY <2>3
      <3>2. \/ Covered(L, q.launch[j].path, q.launch[j].ts)
            \/ Len(L) = limit /\ \A i \in DOMAIN L : L[i].ts >= q.launch[j].ts
        BY <1>1, <3>1 DEF LaunchesOf
      <3>3. x.path = q.launch[j].path /\ x.ts = q.launch[j].ts
        BY <3>1
      <3>4. Apart(L)
        BY <1>1 DEF LaunchesOf
      <3>5. Covered(L, x.path, x.ts) \/ Full(L, limit, x.ts)
        BY <1>1, <1>3, <3>2, <3>3, <3>4, FullList
      <3>6. Covers(L, limit, x)
        BY <3>5 DEF Covers
      <3> QED  BY <1>3, <1>5, <3>6, CoversMore
    <2>4. CASE \E p \in OnDisk(q.xbel, q.present) : x = q.xbel[p]
      <3>1. PICK p \in OnDisk(q.xbel, q.present) : x = q.xbel[p]
        BY <2>4
      <3>2. \/ ~(limit < Cardinality(OnDisk(q.xbel, q.present)))
            \/ \A i, k \in OnDisk(q.xbel, q.present) : q.xbel[i].path = q.xbel[k].path => i = k
        BY <1>9 DEF Crowded, limit
      <3>3. Covers(X, limit, x)
        BY <1>1, <3>1, <3>2, BookmarksCover DEF X, limit
      <3> QED  BY <1>2, <1>5, <3>3, CoversMore
    <2> QED  BY <2>2, <2>3, <2>4, KnownIs DEF F
  <1> QED  BY <1>5, <1>6, <1>8, <1>9 DEF items

\* Numbers up to a bound have a greatest.
LEMMA GreatestNumber ==
    ASSUME NEW b \in Nat, NEW S, S \subseteq Nat, S # {}, \A e \in S : e <= b
    PROVE  \E d \in S : \A e \in S : e <= d
  <1> DEFINE below == {b - e : e \in S}
  <1>1. below \subseteq Nat /\ below # {}
    <2>1. \A e \in S : e \in Nat /\ b - e \in Nat
      OBVIOUS
    <2> QED  BY <2>1
  <1>2. PICK r \in below : \A u \in below : r <= u
    <2> HIDE DEF below
    <2> QED  BY <1>1, LeastNumber
  <1>3. PICK d \in S : r = b - d
    BY <1>2
  <1>4. ASSUME NEW e \in S PROVE e <= d
    <2>1. b - e \in below /\ d \in Nat /\ e \in Nat
      OBVIOUS
    <2>2. b - d <= b - e
      BY <1>2, <1>3, <2>1
    <2> QED  BY <2>1, <2>2
  <1> QED  BY <1>4

\* The latest access of a file is the one that no other is later than.
LEMMA LastTimeIs ==
    ASSUME QueriesCount, NEW q, Accesses(q) \subseteq Access, NEW x \in Accesses(q),
           \A y \in Accesses(q) : y.path = x.path => y.ts <= x.ts
    PROVE  LastTime(q, x.path) = x.ts
  <1> DEFINE IsLast(t) == /\ [path |-> x.path, ts |-> t] \in Accesses(q)
                        /\ \A y \in Accesses(q) : y.path = x.path => y.ts <= t
  <1>1. x = [path |-> x.path, ts |-> x.ts] /\ x.ts \in Times
    BY DEF Access
  <1>2. IsLast(x.ts)
    BY <1>1
  <1>3. ASSUME NEW t \in Times, IsLast(t) PROVE t = x.ts
    <2>1. t \in Nat /\ x.ts \in Nat
      BY <1>1 DEF QueriesCount
    <2> DEFINE z == [path |-> x.path, ts |-> t]
    <2>2. z \in Accesses(q) /\ z.path = x.path /\ z.ts = t
      BY <1>3
    <2>3. t <= x.ts
      BY <2>2
    <2>4. x.ts <= t
      BY <1>3
    <2> QED  BY <2>1, <2>3, <2>4
  <1>4. LastTime(q, x.path) = CHOOSE t \in Times : IsLast(t)
    BY DEF LastTime
  <1> HIDE DEF IsLast
  <1> QED  BY <1>1, <1>2, <1>3, <1>4

\* Finitely many files are known.
LEMMA PathsOfList ==
    ASSUME NEW s \in Seq(Access)
    PROVE  /\ IsFiniteSet({s[i].path : i \in DOMAIN s})
           /\ Apart(s) => Cardinality({s[i].path : i \in DOMAIN s}) = Len(s)
  <1> DEFINE P == {s[i].path : i \in DOMAIN s}
             f == [i \in 1..Len(s) |-> s[i].path]
  <1>1. DOMAIN s = 1..Len(s) /\ Len(s) \in Nat
    OBVIOUS
  <1>2. f \in Surjection(1..Len(s), P)
    BY <1>1 DEF Surjection
  <1>3. IsFiniteSet(1..Len(s)) /\ Cardinality(1..Len(s)) = Len(s)
    BY <1>1, CountTo
  <1>4. IsFiniteSet(P) /\ (f \in Injection(1..Len(s), P) => Cardinality(P) = Len(s))
    <2> HIDE DEF f, P
    <2> QED  BY <1>2, <1>3, FS_Surjection
  <1>5. Apart(s) => f \in Injection(1..Len(s), P)
    <2>1. f \in [1..Len(s) -> P]
      BY <1>2 DEF Surjection
    <2> QED  BY <1>1, <2>1 DEF Apart, Injection, IsInjective
  <1> QED  BY <1>4, <1>5

\* So the known files are finitely many.
LEMMA PathsAreFinite ==
    ASSUME QueriesCount, NEW q \in RecentQueries
    PROVE  IsFiniteSet({x.path : x \in Accesses(q)})
  <1> DEFINE L == [j \in 1..Len(q.launch) |-> [path |-> q.launch[j].path, ts |-> q.launch[j].ts]]
             P(s) == {s[i].path : i \in DOMAIN s}
  <1>1. /\ q.finder \in Seq(Access) /\ q.xbel \in Seq(Access) /\ q.launch \in Seq(Launch)
    BY QueryFields
  <1>2. L \in Seq(Access) /\ DOMAIN L = 1..Len(q.launch)
    <2>1. Len(q.launch) \in Nat /\ \A j \in 1..Len(q.launch) : q.launch[j] \in Launch
      BY <1>1
    <2>2. \A j \in 1..Len(q.launch) :
            [path |-> q.launch[j].path, ts |-> q.launch[j].ts] \in Access
      BY <2>1 DEF Launch, Access
    <2> QED  BY <2>1, <2>2
  <1>3. IsFiniteSet(P(q.finder)) /\ IsFiniteSet(P(q.xbel)) /\ IsFiniteSet(P(L))
    <2> HIDE DEF L
    <2> QED  BY <1>1, <1>2, PathsOfList
  <1>4. IsFiniteSet(P(q.finder) \cup P(q.xbel) \cup P(L))
    <2> HIDE DEF P, L
    <2> QED  BY <1>3, FS_Union
  <1>5. ASSUME NEW x \in Accesses(q) PROVE x.path \in P(q.finder) \cup P(q.xbel) \cup P(L)
    <2>1. CASE \E i \in DOMAIN q.finder : x = q.finder[i]
      BY <2>1
    <2>2. CASE \E j \in DOMAIN q.launch :
                 x = [path |-> q.launch[j].path, ts |-> q.launch[j].ts]
      <3>1. PICK j \in DOMAIN q.launch : x = [path |-> q.launch[j].path, ts |-> q.launch[j].ts]
        BY <2>2
      <3>2. j \in DOMAIN L /\ L[j] = x
        BY <1>1, <1>2, <3>1
      <3> HIDE DEF L
      <3>3. x.path \in P(L)
        BY <3>2
      <3> QED  BY <3>3
    <2>3. CASE \E p \in OnDisk(q.xbel, q.present) : x = q.xbel[p]
      BY <2>3 DEF OnDisk
    <2> QED  BY <2>1, <2>2, <2>3, KnownIs
  <1>6. {x.path : x \in Accesses(q)} \subseteq P(q.finder) \cup P(q.xbel) \cup P(L)
    BY <1>5
  <1> HIDE DEF P, L
  <1> QED  BY <1>4, <1>6, FS_Subset

\* What RecentsAreTheLatest says of an answer.
LatestOf(A, q) ==
    LET shown == {A[i].path : i \in DOMAIN A}
        known == {x.path : x \in Accesses(q)}
    IN /\ Cardinality(shown) = Len(A)
       /\ Len(A) = IF Cardinality(known) < q.limit THEN Cardinality(known) ELSE q.limit
       /\ \A i \in DOMAIN A : A[i].ts = LastTime(q, A[i].path)
       /\ \A i, k \in DOMAIN A : i < k => A[i].ts >= A[k].ts
       /\ \A p \in known \ shown, s \in shown : LastTime(q, p) <= LastTime(q, s)

\* The recent files are the latest (explorer_helper.py:401-412).
LEMMA RecentsRight ==
    ASSUME QueriesCount, NEW q \in RecentQueries, ~Crowded(q), NEW A, A = Recents(q)
    PROVE  LatestOf(A, q)
  <1> DEFINE shown == {A[i].path : i \in DOMAIN A}
             all == Accesses(q)
             known == {x.path : x \in all}
             limit == q.limit
  <1>1. /\ AllItems(q) \in Seq(Access) /\ all \in SUBSET Access /\ limit \in Nat
        /\ \A i \in DOMAIN AllItems(q) : AllItems(q)[i] \in all
        /\ \A x \in all : Covers(AllItems(q), limit, x)
    <2>1. limit \in Nat
      BY QueryFields
    <2> HIDE DEF all
    <2> QED  BY <2>1, SourcesCover DEF all
  <1>2. A = Merge(AllItems(q), limit)
    BY DEF Recents, AllItems
  <1> HIDE DEF all, limit
  <1>3. Shows(A, all, limit)
    BY <1>1, <1>2, MergeShows
  <1>4. /\ A \in Seq(Access) /\ Apart(A) /\ Len(A) <= limit /\ Len(A) \in Nat
        /\ \A i \in DOMAIN A : A[i] \in all
        /\ \A i, k \in DOMAIN A : i < k => A[i].ts >= A[k].ts
        /\ \A x \in all : \/ Covered(A, x.path, x.ts)
                          \/ Len(A) = limit /\ \A i \in DOMAIN A : A[i].ts >= x.ts
    <2>1. A \in Seq(Access)
      BY <1>3 DEF Shows
    <2> QED  BY <1>3, <2>1 DEF Shows
  <1>5. \A x \in all : x.ts \in Nat
    BY <1>1 DEF Access, QueriesCount
  <1>6. IsFiniteSet(known)
    BY PathsAreFinite DEF all
  <1>7. Cardinality(shown) = Len(A)
    BY <1>4, PathsOfList
  <1>8. shown \subseteq known
    BY <1>4
  <1>9. Len(A) = IF Cardinality(known) < limit THEN Cardinality(known) ELSE limit
    <2>1. Cardinality(shown) <= Cardinality(known) /\ Cardinality(known) \in Nat
      <3> HIDE DEF shown, known
      <3> QED  BY <1>6, <1>8, FS_Subset, FS_CardinalityType
    <2>2. CASE Len(A) = limit
      BY <1>1, <1>4, <1>7, <2>1, <2>2
    <2>3. CASE Len(A) # limit
      <3>1. ASSUME NEW x \in all PROVE x.path \in shown
        BY <1>4, <2>3 DEF Covered
      <3>2. known = shown
        BY <1>8, <3>1
      <3>3. Len(A) < limit
        BY <1>1, <1>4, <2>3
      <3> QED  BY <1>7, <3>2, <3>3
    <2> QED  BY <2>2, <2>3
  <1>10. ASSUME NEW i \in DOMAIN A PROVE A[i].ts = LastTime(q, A[i].path)
    <2>1. ASSUME NEW y \in all, y.path = A[i].path PROVE y.ts <= A[i].ts
      <3>1. A[i].ts \in Nat /\ y.ts \in Nat
        BY <1>4, <1>5
      <3>2. CASE Covered(A, y.path, y.ts)
        <4>1. PICK k \in DOMAIN A : A[k].path = y.path /\ A[k].ts >= y.ts
          BY <3>2 DEF Covered
        <4>2. k = i
          BY <1>4, <2>1, <4>1 DEF Apart
        <4> QED  BY <3>1, <4>1, <4>2
      <3>3. CASE \A k \in DOMAIN A : A[k].ts >= y.ts
        BY <3>1, <3>3
      <3> QED  BY <1>4, <3>2, <3>3
    <2>2. A[i] \in all
      BY <1>4
    <2> QED  BY <1>1, <2>1, <2>2, LastTimeIs DEF all
  <1>11. ASSUME NEW p \in known \ shown, NEW s \in shown PROVE LastTime(q, p) <= LastTime(q, s)
    <2>1. PICK k \in DOMAIN A : A[k].path = s
      BY <1>11
    <2>2. LastTime(q, s) = A[k].ts /\ A[k].ts \in Nat
      BY <1>4, <1>5, <1>10, <2>1
    <2>3. ASSUME NEW x \in all, x.path = p PROVE x.ts <= A[k].ts
      <3>1. ~Covered(A, x.path, x.ts)
        BY <1>11, <2>3 DEF Covered
      <3>2. A[k].ts >= x.ts
        BY <1>4, <3>1
      <3> QED  BY <1>5, <2>2, <3>2
    <2> DEFINE T == {x.ts : x \in {y \in all : y.path = p}}
    <2>4. T \subseteq Nat /\ T # {} /\ \A t \in T : t <= A[k].ts
      BY <1>5, <1>11, <2>3
    <2>5. PICK t \in T : \A u \in T : u <= t
      <3> HIDE DEF T
      <3> QED  BY <2>2, <2>4, GreatestNumber
    <2>6. PICK x \in all : x.path = p /\ x.ts = t
      BY <2>5
    <2>7. \A y \in all : y.path = x.path => y.ts <= x.ts
      BY <2>5, <2>6
    <2>8. LastTime(q, p) = x.ts
      BY <1>1, <2>6, <2>7, LastTimeIs DEF all
    <2> QED  BY <2>2, <2>3, <2>6, <2>8
  <1> QED  BY <1>4, <1>7, <1>9, <1>10, <1>11 DEF all, limit, LatestOf

(***************************************************************************)
(* Open With: the applications, the default first and none twice.          *)
(***************************************************************************)
\* What the list may hold.
Candidates == [id : DesktopIds, entry : Entry, isDefault : BOOLEAN]

\* One more application leaves a list of them.
LEMMA AddAppType ==
    ASSUME NEW unique \in Seq(Candidates), NEW app \in Candidates PROVE AddApp(unique, app) \in Seq(Candidates)
  BY DEF AddApp

\* _dedupe_desktop_apps application by application.
LEMMA DedupeSteps ==
    ASSUME NEW list \in Seq(Candidates)
    PROVE  \E at \in [0..Len(list) -> Seq(Candidates)] :
             /\ at[0] = <<>> /\ at[Len(list)] = Dedupe(list)
             /\ \A k \in 1..Len(list) : at[k] = AddApp(at[k - 1], list[k])
  <1> DEFINE n == Len(list)
             row == list
             S == Seq(Candidates)
             G == [p \in S \X (1..n) |-> AddApp(p[1], row[p[2]])]
  <1>1. n \in Nat /\ DOMAIN row = 1..n /\ \A k \in 1..n : row[k] \in Candidates
    OBVIOUS
  <1>2. G \in [S \X (1..n) -> S] /\ <<>> \in S
    <2>1. \A x \in S, r \in Candidates : AddApp(x, r) \in S
      BY AddAppType
    <2>2. \A p \in S \X (1..n) : AddApp(p[1], row[p[2]]) \in S
      <3> HIDE DEF S, row
      <3> QED  BY <1>1, <2>1
    <2> QED  BY <2>2
  <1> HIDE DEF n, row, S
  <1>3. PICK it : IsFold(it, S, G, <<>>, n)
    <2> HIDE DEF G
    <2> QED  BY <1>1, <1>2, FoldsExist
  <1> DEFINE Solves(f) ==
               f = [s \in SUBSET (1..n) |->
                      IF s = {} THEN <<>>
                      ELSE AddApp(f[s \ {Top(s)}], row[Top(s)])]
             sol == CHOOSE f : Solves(f)
  <1>4. FoldLeft(AddApp, <<>>, row) = sol[1..n]
    BY <1>1 DEF FoldLeft, MapThenFoldSet, Max, Top
  <1>5. ASSUME NEW s \in SUBSET (1..n)
        PROVE  it[s] = IF s = {} THEN <<>>
                       ELSE AddApp(it[s \ {Top(s)}], row[Top(s)])
    <2>1. CASE s = {}
      BY <1>3, <2>1 DEF IsFold
    <2>2. CASE s # {}
      <3>1. Top(s) \in 1..n
        BY <1>1, <2>2, TopIsIn
      <3>2. it[s \ {Top(s)}] \in S
        BY <1>3 DEF IsFold
      <3>3. it[s] = G[<<it[s \ {Top(s)}], Top(s)>>]
        BY <1>3, <2>2 DEF IsFold
      <3> QED  BY <2>2, <3>1, <3>2, <3>3
    <2> QED  BY <2>1, <2>2
  <1>6. Solves(it)
    <2>1. it \in [SUBSET (1..n) -> S]
      BY <1>3 DEF IsFold
    <2> QED  BY <1>5, <2>1
  <1>7. Solves(sol)
    BY <1>6
  <1> DEFINE at == [k \in 0..n |-> sol[1..k]]
  <1> HIDE DEF sol
  <1>8. at[0] = <<>>
    <2>1. 1..0 = {} /\ 0 \in 0..n /\ {} \in SUBSET (1..n)
      BY <1>1
    <2> QED  BY <1>7, <2>1
  <1>9. ASSUME NEW k \in 1..n PROVE at[k] = AddApp(at[k - 1], row[k])
    <2>1. /\ 1..k \in SUBSET (1..n) /\ 1..k # {} /\ k \in 1..k /\ k \in Nat
          /\ (1..k) \ {k} = 1..(k - 1) /\ k \in 0..n /\ k - 1 \in 0..n
      <3>1. k \in Nat /\ 1 <= k /\ k <= n
        BY <1>1
      <3>2. (1..k) \ {k} = 1..(k - 1)
        BY <3>1
      <3>3. \A i \in 1..k : i \in 1..n
        BY <1>1, <3>1
      <3>4. k \in 1..k /\ k \in 0..n /\ k - 1 \in 0..n
        BY <1>1, <3>1
      <3> QED  BY <3>1, <3>2, <3>3, <3>4
    <2>2. Top(1..k) = k
      BY <2>1, TopIs
    <2> QED  BY <1>7, <2>1, <2>2
  <1>10. at[n] = sol[1..n]
    BY <1>1
  <1>11. ASSUME NEW k \in 0..n PROVE at[k] \in S
    <2> DEFINE Bad == {j \in Nat : j <= n /\ at[j] \notin S}
    <2>1. CASE Bad # {}
      <3>1. PICK j \in Bad : \A i \in Bad : j <= i
        <4>1. Bad \subseteq Nat
          OBVIOUS
        <4> HIDE DEF Bad
        <4> QED  BY <2>1, <4>1, LeastNumber
      <3>2. j # 0
        BY <1>2, <1>8, <3>1
      <3>3. j \in 1..n /\ j - 1 \in Nat /\ j - 1 <= n /\ ~ (j <= j - 1)
        BY <1>1, <3>1, <3>2
      <3>4. at[j - 1] \in S /\ row[j] \in Candidates
        BY <1>1, <3>1, <3>3
      <3>5. at[j] = AddApp(at[j - 1], row[j])
        BY <1>9, <3>3
      <3> HIDE DEF at
      <3>6. at[j] \in S
        BY <3>4, <3>5, AddAppType DEF S
      <3> QED  BY <3>1, <3>6
    <2>2. CASE Bad = {}
      <3>1. k \in Nat /\ k <= n
        BY <1>1
      <3> HIDE DEF at, S
      <3>2. k \notin Bad
        <4> HIDE DEF Bad
        <4> QED  BY <2>2
      <3> QED  BY <3>1, <3>2
    <2> QED  BY <2>1, <2>2
  <1>12. at \in [0..n -> S]
    BY <1>11
  <1>13. at[n] = Dedupe(list)
    BY <1>4, <1>10 DEF row, Dedupe
  <1> HIDE DEF at
  <1> QED  BY <1>8, <1>9, <1>12, <1>13 DEF n, S, row

\* None of a name twice, each of the first k by its name, and the first of them first.
DedupedUpTo(U, list, k) ==
    /\ U \in Seq(Candidates)
    /\ \A i, j \in DOMAIN U : U[i].entry.name = U[j].entry.name => i = j
    /\ \A i \in 1..k : \E j \in DOMAIN U : U[j].entry.name = list[i].entry.name
    /\ k = 0 => Len(U) = 0
    /\ k > 0 => Len(U) > 0 /\ U[1] = list[1]

\* One more application is taken or left.
LEMMA DedupeOne ==
    ASSUME NEW list \in Seq(Candidates), NEW k \in 1..Len(list), NEW U,
           DedupedUpTo(U, list, k - 1)
    PROVE  DedupedUpTo(AddApp(U, list[k]), list, k)
  <1> DEFINE app == list[k]
             n == Len(U)
             after == AddApp(U, app)
  <1>1. /\ U \in Seq(Candidates) /\ n \in Nat /\ DOMAIN U = 1..n
        /\ \A i, j \in 1..n : U[i].entry.name = U[j].entry.name => i = j
        /\ \A i \in 1..(k - 1) : \E j \in 1..n : U[j].entry.name = list[i].entry.name
        /\ k - 1 = 0 => n = 0
        /\ k - 1 > 0 => n > 0 /\ U[1] = list[1]
    <2>1. U \in Seq(Candidates)
      BY DEF DedupedUpTo
    <2>2. n \in Nat /\ DOMAIN U = 1..n
      BY <2>1
    <2> QED  BY <2>1, <2>2 DEF DedupedUpTo
  <1>2. /\ app \in Candidates /\ k \in Nat /\ k > 0 /\ (k - 1 > 0 \/ k = 1)
        /\ \A i \in 1..k : i = k \/ i \in 1..(k - 1)
    <2>1. Len(list) \in Nat /\ \A i \in 1..Len(list) : list[i] \in Candidates
      OBVIOUS
    <2> QED  BY <2>1
  <1>3. after \in Seq(Candidates)
    BY <1>1, <1>2, AddAppType
  <1>4. CASE \E i \in DOMAIN U : U[i].entry.name = app.entry.name
    <2>1. after = U
      BY <1>4 DEF AddApp
    <2> HIDE DEF after
    <2>2. \A i \in 1..k : \E j \in DOMAIN U : U[j].entry.name = list[i].entry.name
      BY <1>1, <1>2, <1>4
    <2>3. n > 0 /\ U[1] = list[1]
      <3>1. CASE k - 1 > 0
        BY <1>1, <3>1
      <3>2. CASE k = 1
        <4>1. n = 0
          BY <1>1, <3>2
        <4> QED  BY <1>1, <1>4, <4>1
      <3> QED  BY <1>2, <3>1, <3>2
    <2> QED  BY <1>1, <1>2, <2>1, <2>2, <2>3 DEF DedupedUpTo, after, n
  <1>5. CASE ~ \E i \in DOMAIN U : U[i].entry.name = app.entry.name
    <2>1. after = Append(U, app)
      BY <1>5 DEF AddApp
    <2> HIDE DEF after
    <2>2. /\ DOMAIN after = 1..(n + 1) /\ after[n + 1] = app /\ Len(after) = n + 1
          /\ \A i \in 1..n : after[i] = U[i]
      BY <1>1, <1>2, <2>1
    <2> HIDE DEF n
    <2>3. \A i \in 1..(n + 1) : i = n + 1 \/ i \in 1..n
      BY <1>1
    <2>4. \A i \in 1..n : U[i].entry.name # app.entry.name /\ i \in 1..(n + 1)
      BY <1>1, <1>5
    <2>5. \A i, j \in DOMAIN after : after[i].entry.name = after[j].entry.name => i = j
      BY <1>1, <2>2, <2>3, <2>4
    <2>6. \A i \in 1..k : \E j \in DOMAIN after : after[j].entry.name = list[i].entry.name
      <3>1. \E j \in DOMAIN after : after[j].entry.name = list[k].entry.name
        BY <1>1, <2>2
      <3>2. ASSUME NEW i \in 1..(k - 1)
            PROVE  \E j \in DOMAIN after : after[j].entry.name = list[i].entry.name
        <4>1. PICK j \in 1..n : U[j].entry.name = list[i].entry.name
          BY <1>1
        <4>2. j \in DOMAIN after /\ after[j] = U[j]
          BY <2>2, <2>4
        <4> QED  BY <4>1, <4>2
      <3> QED  BY <1>2, <3>1, <3>2
    <2>7. Len(after) > 0
      BY <1>1, <2>2
    <2>8. after[1] = list[1]
      <3>1. CASE k - 1 > 0
        <4>1. n > 0 /\ U[1] = list[1] /\ 1 \in 1..n
          BY <1>1, <3>1
        <4> QED  BY <2>2, <4>1
      <3>2. CASE k = 1
        <4>1. n = 0
          BY <1>1, <3>2
        <4>2. after[0 + 1] = app
          BY <2>2, <4>1
        <4> QED  BY <3>2, <4>2
      <3> QED  BY <1>2, <3>1, <3>2
    <2> QED  BY <1>2, <1>3, <2>5, <2>6, <2>7, <2>8 DEF DedupedUpTo, after
  <1> QED  BY <1>4, <1>5

\* All of them.
LEMMA DedupeIs ==
    ASSUME NEW list \in Seq(Candidates)
    PROVE  DedupedUpTo(Dedupe(list), list, Len(list))
  <1> DEFINE n == Len(list)
  <1>1. PICK at \in [0..n -> Seq(Candidates)] :
          /\ at[0] = <<>> /\ at[n] = Dedupe(list)
          /\ \A k \in 1..n : at[k] = AddApp(at[k - 1], list[k])
    BY DedupeSteps
  <1>2. n \in Nat
    OBVIOUS
  <1> HIDE DEF n
  <1> DEFINE Bad == {j \in Nat : j <= n /\ ~DedupedUpTo(at[j], list, j)}
  <1>3. DedupedUpTo(at[0], list, 0)
    <2>1. at[0] \in Seq(Candidates) /\ DOMAIN at[0] = {} /\ 1..0 = {} /\ Len(at[0]) = 0
      BY <1>1
    <2> QED  BY <2>1 DEF DedupedUpTo
  <1>4. CASE Bad # {}
    <2>1. PICK j \in Bad : \A i \in Bad : j <= i
      <3>1. Bad \subseteq Nat
        OBVIOUS
      <3> HIDE DEF Bad
      <3> QED  BY <1>4, <3>1, LeastNumber
    <2>2. j # 0 /\ j \in Nat /\ j <= n
      BY <1>3, <2>1
    <2>3. j \in 1..n /\ j - 1 \in Nat /\ j - 1 <= n /\ ~ (j <= j - 1)
      BY <1>2, <2>2
    <2>4. DedupedUpTo(at[j - 1], list, j - 1)
      BY <2>1, <2>3
    <2>5. at[j] = AddApp(at[j - 1], list[j])
      BY <1>1, <2>3
    <2>6. DedupedUpTo(at[j], list, j)
      BY <2>3, <2>4, <2>5, DedupeOne DEF n
    <2> QED  BY <2>1, <2>6
  <1>5. CASE Bad = {}
    <2> HIDE DEF n
    <2>1. n \in Nat /\ n <= n
      BY <1>2
    <2>2. DedupedUpTo(at[n], list, n)
      BY <1>5, <2>1
    <2> QED  BY <1>1, <2>2 DEF n
  <1> QED  BY <1>4, <1>5

\* Of applications one of which at most is the default, a list can be made, that one first.
Leads(list, apps) ==
    /\ list \in [1..Cardinality(apps) -> apps]
    /\ ToSet(list) = apps
    /\ \A i \in DOMAIN list : list[i].isDefault => i = 1

\* The elements of a finite set can be listed, ...
LEMMA SomeList ==
    ASSUME NEW apps, IsFiniteSet(apps)
    PROVE  \E list \in [1..Cardinality(apps) -> apps] :
             \A a \in apps : \E i \in 1..Cardinality(apps) : list[i] = a
  <1>1. Cardinality(apps) \in Nat
    BY FS_CardinalityType
  <1>2. ExistsBijection(1..Cardinality(apps), apps)
    <2>1. IsFiniteSet(1..Cardinality(apps))
          /\ Cardinality(1..Cardinality(apps)) = Cardinality(apps)
      BY <1>1, CountTo
    <2> QED  BY <2>1, FS_SameCardinalityBij
  <1> QED  BY <1>2 DEF ExistsBijection, Bijection, Surjection, Injection

\* ... the default first ...
LEMMA LeaderExists ==
    ASSUME NEW apps, IsFiniteSet(apps),
           \A a \in apps, b \in apps : a.isDefault /\ b.isDefault => a = b
    PROVE  \E list : Leads(list, apps)
  <1>1. CASE \A a \in apps : ~a.isDefault
    <2>1. PICK list \in [1..Cardinality(apps) -> apps] :
            \A a \in apps : \E i \in 1..Cardinality(apps) : list[i] = a
      BY SomeList
    <2>2. Leads(list, apps)
      BY <1>1, <2>1 DEF Leads, ToSet
    <2> QED  BY <2>2
  <1>2. CASE \E a \in apps : a.isDefault
    <2>1. PICK d \in apps : d.isDefault
      BY <1>2
    <2> DEFINE rest == apps \ {d}
               n == Cardinality(rest)
    <2>2. IsFiniteSet(rest) /\ n \in Nat /\ Cardinality(apps) = n + 1
      BY FS_RemoveElement, FS_CardinalityType, FS_Subset
    <2>3. PICK g \in [1..n -> rest] : \A a \in rest : \E i \in 1..n : g[i] = a
      BY <2>2, SomeList
    <2>4. \A i \in 1..n : g[i] \in rest /\ ~g[i].isDefault
      BY <2>1, <2>3
    <2> HIDE DEF n
    <2> DEFINE list == [i \in 1..(n + 1) |-> IF i = 1 THEN d ELSE g[i - 1]]
    <2>5. \A i \in 1..(n + 1) : i = 1 \/ (i - 1 \in 1..n /\ i # 1)
      BY <2>2
    <2>6. list \in [1..(n + 1) -> apps]
      BY <2>4, <2>5
    <2>7. ASSUME NEW i \in 1..(n + 1), list[i].isDefault PROVE i = 1
      BY <2>4, <2>5, <2>7
    <2>8. \A i \in 1..n : i + 1 \in 1..(n + 1) /\ list[i + 1] = g[i]
      <3>1. ASSUME NEW i \in 1..n PROVE i + 1 \in 1..(n + 1) /\ list[i + 1] = g[i]
        <4>1. i + 1 \in 1..(n + 1) /\ i + 1 # 1 /\ (i + 1) - 1 = i
          BY <2>2
        <4> QED  BY <4>1
      <3> QED  BY <3>1
    <2>9. 1 \in 1..(n + 1) /\ list[1] = d
      BY <2>2
    <2> HIDE DEF list
    <2>10. \A a \in apps : \E i \in 1..(n + 1) : list[i] = a
      <3>1. ASSUME NEW a \in apps PROVE \E i \in 1..(n + 1) : list[i] = a
        <4>1. CASE a = d
          BY <2>9, <4>1
        <4>2. CASE a \in rest
          BY <2>3, <2>8, <4>2
        <4> QED  BY <4>1, <4>2
      <3> QED  BY <3>1
    <2>11. ToSet(list) = apps
      BY <2>6, <2>10 DEF ToSet
    <2>12. Leads(list, apps)
      BY <2>2, <2>6, <2>7, <2>11 DEF Leads
    <2> QED  BY <2>12
  <1> QED  BY <1>1, <1>2

\* ... and so they are.
LEMMA DefaultFirstIs ==
    ASSUME NEW apps, IsFiniteSet(apps),
           \A a \in apps, b \in apps : a.isDefault /\ b.isDefault => a = b
    PROVE  Leads(DefaultFirst(apps), apps)
  <1> DEFINE S == [1..Cardinality(apps) -> apps]
  <1>1. PICK list : Leads(list, apps)
    BY LeaderExists
  <1>2. list \in S
    BY <1>1 DEF Leads
  <1>3. DefaultFirst(apps) = CHOOSE l \in S : Leads(l, apps)
    BY DEF DefaultFirst, Leads
  <1> HIDE DEF S
  <1> QED  BY <1>1, <1>2, <1>3

\* The entry that is found is one of those of the directories.
LEMMA FoundIs ==
    ASSUME QueriesCount, NEW dirs \in [1..MaxDirs -> [DesktopIds -> Entry]], NEW id \in DesktopIds
    PROVE  Found(dirs, id) \in Entry
  <1> DEFINE has == {i \in DOMAIN dirs : dirs[i][id] # NoEntry}
  <1>1. CASE has = {}
    <2>1. Found(dirs, id) = NoEntry
      BY <1>1 DEF Found
    <2> QED  BY <2>1 DEF NoEntry, Entry
  <1>2. CASE has # {}
    <2>1. has \subseteq 1..MaxDirs /\ has \subseteq Nat
      OBVIOUS
    <2>2. PICK m \in has : \A j \in has : m <= j
      <3> HIDE DEF has
      <3> QED  BY <1>2, <2>1, LeastNumber
    <2> DEFINE i == CHOOSE i \in has : \A j \in has : i <= j
    <2>3. i \in has
      BY <2>2
    <2>4. Found(dirs, id) = dirs[i][id]
      BY <1>2 DEF Found
    <2> HIDE DEF i, has
    <2>5. dirs[i] \in [DesktopIds -> Entry]
      BY <2>1, <2>3
    <2> QED  BY <2>4, <2>5
  <1> QED  BY <1>1, <1>2

\* The applications of a file: finitely many, and one default at most.
Fitting(dirs, default) ==
    {i \in DesktopIds : IsApp(Found(dirs, i)) /\ (i = default \/ Found(dirs, i).fits)}

\* Those of the directories are such applications.
LEMMA RecommendedIs ==
    ASSUME QueriesCount, NEW dirs \in [1..MaxDirs -> [DesktopIds -> Entry]], NEW default
    PROVE  /\ IsFiniteSet(Recommended(dirs, default))
           /\ Recommended(dirs, default) \subseteq Candidates
           /\ \A a \in Recommended(dirs, default), b \in Recommended(dirs, default) :
                a.isDefault /\ b.isDefault => a = b
           /\ \A id \in Fitting(dirs, default) :
                Record(dirs, id, default) \in Recommended(dirs, default)
           /\ \A a \in Recommended(dirs, default) : a.isDefault => a.id = default
  <1> DEFINE T == Fitting(dirs, default)
             R == Recommended(dirs, default)
             f == [id \in T |-> Record(dirs, id, default)]
  <1>1. R = {Record(dirs, id, default) : id \in T}
    BY DEF Recommended, Fitting
  <1>2. T \subseteq DesktopIds /\ IsFiniteSet(T)
    <2>1. T \subseteq DesktopIds
      BY DEF Fitting
    <2> HIDE DEF T
    <2> QED  BY <2>1, FS_Subset DEF QueriesCount
  <1> HIDE DEF T, R
  <1>3. f \in Surjection(T, R)
    BY <1>1 DEF Surjection
  <1>4. IsFiniteSet(R)
    <2> HIDE DEF f
    <2> QED  BY <1>2, <1>3, FS_Surjection
  <1>5. ASSUME NEW id \in T PROVE Record(dirs, id, default) \in Candidates
    <2>1. id \in DesktopIds /\ Found(dirs, id) \in Entry
      BY <1>2, FoundIs
    <2>2. (id = default) \in BOOLEAN
      OBVIOUS
    <2> QED  BY <2>1, <2>2, Zenon DEF Record, Candidates
  <1>6. \A a \in R : \E id \in T : a = Record(dirs, id, default)
    BY <1>1
  <1>7. \A id \in T : /\ Record(dirs, id, default).id = id
                      /\ Record(dirs, id, default).isDefault <=> id = default
    BY Zenon DEF Record
  <1>8. ASSUME NEW a \in R, NEW b \in R, a.isDefault, b.isDefault PROVE a = b
    <2>1. PICK i \in T : a = Record(dirs, i, default)
      BY <1>6
    <2>2. PICK j \in T : b = Record(dirs, j, default)
      BY <1>6
    <2>3. i = default /\ j = default
      BY <1>7, <1>8, <2>1, <2>2, Zenon
    <2> QED  BY <2>1, <2>2, <2>3
  <1>9. ASSUME NEW a \in R, a.isDefault PROVE a.id = default
    <2>1. PICK i \in T : a = Record(dirs, i, default)
      BY <1>6
    <2> QED  BY <1>7, <1>9, <2>1, Zenon
  <1>10. R \subseteq Candidates
    BY <1>5, <1>6
  <1>11. \A id \in T : Record(dirs, id, default) \in R
    BY <1>1
  <1> QED  BY <1>4, <1>8, <1>9, <1>10, <1>11, Zenon DEF R, T

\* What OpenWithIsComplete says of an answer.
CompleteOf(A, q) ==
    LET found(id) == Found(q.dirs, id)
        usable == {id \in DesktopIds : IsApp(found(id)) /\ (id = q.default \/ found(id).fits)}
    IN /\ q.default \in usable => A[1].id = q.default
       /\ \A id \in usable : \E i \in DOMAIN A : A[i].entry.name = found(id).name
       /\ \A i, j \in DOMAIN A : A[i].entry.name = A[j].entry.name => i = j

\* Open With is complete (explorer_helper.py:499-562).
LEMMA OpenRight ==
    ASSUME QueriesCount, NEW q \in OpenQueries, NEW A, A = OpenWith(q)
    PROVE  CompleteOf(A, q)
  <1> DEFINE T == Fitting(q.dirs, q.default)
             R == Recommended(q.dirs, q.default)
             rec(id) == Record(q.dirs, id, q.default)
             n == Cardinality(R)
             list == DefaultFirst(R)
  <1>1. q.dirs \in [1..MaxDirs -> [DesktopIds -> Entry]]
    BY DEF OpenQueries
  <1>2. /\ IsFiniteSet(R) /\ R \subseteq Candidates /\ n \in Nat
        /\ \A a \in R, b \in R : a.isDefault /\ b.isDefault => a = b
        /\ \A id \in T : rec(id) \in R
        /\ \A a \in R : a.isDefault => a.id = q.default
    <2>1. /\ IsFiniteSet(R) /\ R \subseteq Candidates
          /\ \A a \in R, b \in R : a.isDefault /\ b.isDefault => a = b
          /\ \A id \in T : rec(id) \in R
          /\ \A a \in R : a.isDefault => a.id = q.default
      BY <1>1, RecommendedIs
    <2>2. n \in Nat
      <3> HIDE DEF R
      <3> QED  BY <2>1, FS_CardinalityType
    <2> QED  BY <2>1, <2>2
  <1> HIDE DEF R
  <1>3. Leads(list, R)
    BY <1>2, DefaultFirstIs
  <1> HIDE DEF list, n
  <1>4. /\ list \in Seq(Candidates) /\ DOMAIN list = 1..n /\ Len(list) = n
        /\ \A a \in R : \E i \in 1..n : list[i] = a
        /\ \A i \in 1..n : list[i].isDefault => i = 1
    <2>1. list \in [1..n -> R] /\ ToSet(list) = R /\ \A i \in DOMAIN list : list[i].isDefault => i = 1
      BY <1>3 DEF Leads, n
    <2>2. list \in [1..n -> Candidates] /\ DOMAIN list = 1..n
      BY <1>2, <2>1
    <2>3. list \in Seq(Candidates) /\ Len(list) = n
      BY <1>2, <2>2
    <2> QED  BY <2>1, <2>2, <2>3 DEF ToSet
  <1>5. A = Dedupe(list)
    BY DEF OpenWith, list, R
  <1>6. DedupedUpTo(A, list, n)
    BY <1>4, <1>5, DedupeIs
  <1>7. /\ \A i, j \in DOMAIN A : A[i].entry.name = A[j].entry.name => i = j
        /\ \A i \in 1..n : \E j \in DOMAIN A : A[j].entry.name = list[i].entry.name
        /\ n > 0 => A[1] = list[1]
    BY <1>6 DEF DedupedUpTo
  <1>8. \A id : rec(id).entry = Found(q.dirs, id) /\ (id = q.default => rec(id).isDefault)
    BY Zenon DEF Record
  <1>9. ASSUME NEW id \in T PROVE \E i \in DOMAIN A : A[i].entry.name = Found(q.dirs, id).name
    <2>1. PICK i \in 1..n : list[i] = rec(id)
      BY <1>2, <1>4
    <2>2. PICK j \in DOMAIN A : A[j].entry.name = list[i].entry.name
      BY <1>7
    <2> QED  BY <1>8, <2>1, <2>2
  <1>10. ASSUME q.default \in T PROVE A[1].id = q.default
    <2>1. rec(q.default) \in R
      BY <1>2, <1>10
    <2>2. PICK i \in 1..n : list[i] = rec(q.default)
      BY <1>4, <2>1
    <2>3. rec(q.default).isDefault
      BY <1>8
    <2>4. i = 1 /\ n > 0
      BY <1>2, <1>4, <2>2, <2>3
    <2>5. A[1] = rec(q.default)
      BY <1>7, <2>2, <2>4
    <2> QED  BY <1>2, <2>1, <2>3, <2>5
  <1>11. T = {id \in DesktopIds :
               IsApp(Found(q.dirs, id)) /\ (id = q.default \/ Found(q.dirs, id).fits)}
    BY DEF Fitting
  <1> HIDE DEF T
  <1> QED  BY <1>7, <1>9, <1>10, <1>11 DEF CompleteOf

(***************************************************************************)
(* What is printed.                                                        *)
(***************************************************************************)
\* The policies fit the conflict (explorer_helper.py).
LEMMA PoliciesRight ==
    ASSUME NEW q \in ConflictQueries, NEW A, A = Policies(q)
    PROVE  /\ A \cap {"overwrite", "merge", "rename"} # {} =>
                q.where # "same" /\ q.source = q.target /\ q.source \in {"file", "directory"}
           /\ q.source = "directory" /\ q.where = "inside" => A = {"skip"}
           /\ q.target # "missing" => "skip" \in A
  <1>1. q.source \in Types /\ q.target \in Types /\ q.where \in {"same", "inside", "elsewhere"}
    BY DEF ConflictQueries
  <1> DEFINE kind == Kind(q)
  <1>2. A = PoliciesOf(kind)
    BY DEF Policies
  <1>3. /\ kind = "directory-merge" => q.source = "directory" /\ q.target = "directory"
        /\ kind = "file-replace" => q.source = "file" /\ q.target = "file"
        /\ kind \in {"directory-merge", "file-replace"} => q.where # "same" /\ q.target # "missing"
        /\ q.source = "directory" /\ q.where = "inside" => kind = "directory-into-self"
        /\ kind = "none" => q.target = "missing"
    BY <1>1 DEF Kind
  <1> HIDE DEF kind
  <1>4. A \cap {"overwrite", "merge", "rename"} # {} => kind \in {"directory-merge", "file-replace"}
    BY <1>2 DEF PoliciesOf
  <1>5. kind # "none" => "skip" \in A
    BY <1>2 DEF PoliciesOf
  <1>6. kind = "directory-into-self" => A = {"skip"}
    BY <1>2 DEF PoliciesOf
  <1> QED  BY <1>3, <1>4, <1>5, <1>6

\* Nothing is printed at first, and then the answer.
LEMMA QueriesAtStart == ASSUME QInit PROVE QInv
  BY DEF QInit, QInv

\* A question is asked, or answered.
LEMMA QueriesStep == ASSUME QInv, QNext PROVE QInv'
  <1>1. CASE Ask
    BY <1>1 DEF Ask, QInv
  <1>2. CASE Reply
    BY <1>2 DEF Reply, QInv
  <1> QED  BY <1>1, <1>2 DEF QNext

\* What is printed is what it is shown as: the latest files, the applications that open a
\* file, the policies of a conflict (explorer_helper.py).
LEMMA QueriesRight ==
    ASSUME QueriesCount, QInv
    PROVE  RecentsAreTheLatest /\ OpenWithIsComplete /\ PoliciesFit
  <1>1. RecentsAreTheLatest
    <2> SUFFICES ASSUME Replied("recents"), ~Crowded(query) PROVE LatestOf(reply, query)
      BY DEF RecentsAreTheLatest, LatestOf
    <2>1. query \in RecentQueries /\ reply = Recents(query)
      BY DEF Replied, QInv, Answer, RecentQueries, OpenQueries, ConflictQueries
    <2> QED  BY <2>1, RecentsRight
  <1>2. OpenWithIsComplete
    <2> SUFFICES ASSUME Replied("openWith") PROVE CompleteOf(reply, query)
      BY DEF OpenWithIsComplete, CompleteOf
    <2>1. query \in OpenQueries /\ reply = OpenWith(query)
      BY DEF Replied, QInv, Answer, RecentQueries, OpenQueries, ConflictQueries
    <2> QED  BY <2>1, OpenRight
  <1>3. PoliciesFit
    <2> SUFFICES ASSUME Replied("conflict")
                 PROVE  /\ reply \cap {"overwrite", "merge", "rename"} # {} =>
                             /\ query.where # "same" /\ query.source = query.target
                             /\ query.source \in {"file", "directory"}
                        /\ query.source = "directory" /\ query.where = "inside" => reply = {"skip"}
                        /\ query.target # "missing" => "skip" \in reply
      BY DEF PoliciesFit
    <2>1. query \in ConflictQueries /\ reply = Policies(query)
      BY DEF Replied, QInv, Answer, RecentQueries, OpenQueries, ConflictQueries
    <2> QED  BY <2>1, PoliciesRight
  <1> QED  BY <1>1, <1>2, <1>3
=============================================================================
