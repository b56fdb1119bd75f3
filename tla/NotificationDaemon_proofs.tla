--------------------- MODULE NotificationDaemon_proofs ---------------------
(***************************************************************************)
(* Proofs about NotificationDaemon for any events, collapse keys, limits,  *)
(* ids and numbers of calls.                                               *)
(*                                                                         *)
(* The inductive invariant is DaemonInv: the memory and the file are three *)
(* maps whose entries have ranks of their own, the indexes and timers fit  *)
(* the maps, and a call is in progress exactly while the daemon writes.    *)
(* One lemma for each method says what it keeps of MemoryOK; one for each  *)
(* call says what it does to banners, history and deliveries.  FreshInv,   *)
(* TellInv and Remembered then add what each of the properties needs.      *)
(***************************************************************************)
EXTENDS NotificationOverlay, FiniteSetTheorems, WellFoundedInduction, TLAPS

(***************************************************************************)
(* Recency maps, for any keys and any records with a rank: what the        *)
(* operators of RecencyMap keep of a map whose entries have ranks of their *)
(* own, how many entries a bound on the ranks leaves, and that the oldest  *)
(* and the youngest of some entries exist.                                 *)
(***************************************************************************)
IsMap(f, K, V) ==
  /\ f = [x \in DOMAIN f |-> f[x]]
  /\ DOMAIN f \subseteq K
  /\ \A x \in DOMAIN f : f[x] \in V
  /\ \A x, y \in DOMAIN f : f[x].rank = f[y].rank => x = y

Below(f, n) == \A x \in DOMAIN f : f[x].rank < n

WithRank(v, n) == [v EXCEPT !.rank = n]

IsEntry(V) ==
  \A v \in V : /\ v.rank \in Nat
               /\ v = WithRank(v, v.rank)
               /\ \A n \in Nat : /\ WithRank(v, n) \in V
                                 /\ WithRank(v, n).rank = n
                                 /\ \A p \in Nat : WithRank(WithRank(v, n), p) = WithRank(v, p)

Renumbers(g, f, S) == \A x \in S : \E n \in Nat : g[x] = WithRank(f[x], n)

\* What pop leaves: the older entries move up by one.
LEMMA DropIs ==
  ASSUME NEW f, NEW k
  PROVE  /\ DOMAIN Drop(f, k) = DOMAIN f \ {k}
         /\ Drop(f, k) = [x \in DOMAIN f \ {k} |-> Drop(f, k)[x]]
         /\ \A x \in DOMAIN f \ {k} :
              Drop(f, k)[x] = IF k \in DOMAIN f /\ f[x].rank > f[k].rank
                                THEN WithRank(f[x], f[x].rank - 1) ELSE f[x]
BY DEF Drop, WithRank

\* What reinserting a key leaves: it is the youngest, the others move down by one.
LEMMA TouchIs ==
  \A f, k, v :
         /\ DOMAIN Touch(f, k, v) = DOMAIN f \cup {k}
         /\ Touch(f, k, v) = [x \in DOMAIN f \cup {k} |-> Touch(f, k, v)[x]]
         /\ Touch(f, k, v)[k] = WithRank(v, 0)
         /\ \A x \in DOMAIN f \ {k} :
              Touch(f, k, v)[x] = WithRank(Drop(f, k)[x], Drop(f, k)[x].rank + 1)
BY DEF Touch, WithRank

\* pop keeps ranks distinct and leaves the rest of every other entry alone.
LEMMA DropMap ==
  ASSUME NEW K, NEW V, IsEntry(V), NEW f, IsMap(f, K, V), NEW k
  PROVE  /\ IsMap(Drop(f, k), K, V)
         /\ DOMAIN Drop(f, k) = DOMAIN f \ {k}
         /\ Renumbers(Drop(f, k), f, DOMAIN f \ {k})
         /\ \A n \in Nat : Below(f, n) => Below(Drop(f, k), n)
<1> DEFINE g == Drop(f, k)
<1>1. DOMAIN g = DOMAIN f \ {k} /\ g = [x \in DOMAIN g |-> g[x]]
  BY DropIs
<1>2. ASSUME NEW x \in DOMAIN f \ {k}
      PROVE  g[x] = WithRank(f[x], IF k \in DOMAIN f /\ f[x].rank > f[k].rank
                                            THEN f[x].rank - 1 ELSE f[x].rank)
  <2>1. f[x] = WithRank(f[x], f[x].rank)
    BY DEF IsMap, IsEntry
  <2>2. QED BY <2>1, DropIs
<1>3. ASSUME NEW x \in DOMAIN f \ {k}
      PROVE  /\ f[x].rank \in Nat /\ (k \in DOMAIN f => f[k].rank \in Nat)
             /\ k \in DOMAIN f => f[x].rank # f[k].rank
             /\ \E n \in Nat : g[x] = WithRank(f[x], n)
             /\ g[x] \in V
             /\ g[x].rank = IF k \in DOMAIN f /\ f[x].rank > f[k].rank
                              THEN f[x].rank - 1 ELSE f[x].rank
  <2>1. f[x].rank \in Nat /\ (k \in DOMAIN f => f[k].rank \in Nat /\ f[x].rank # f[k].rank)
    BY DEF IsMap, IsEntry
  <2>2. PICK n \in Nat : n = IF k \in DOMAIN f /\ f[x].rank > f[k].rank
                              THEN f[x].rank - 1 ELSE f[x].rank
    BY <2>1
  <2>3. g[x] = WithRank(f[x], n)
    BY <1>2, <2>2
  <2>4. QED BY <2>1, <2>2, <2>3 DEF IsMap, IsEntry
<1>4. ASSUME NEW x \in DOMAIN f \ {k}, NEW y \in DOMAIN f \ {k}, g[x].rank = g[y].rank
      PROVE  x = y
  <2>1. f[x].rank = f[y].rank
    BY <1>3, <1>4
  <2>2. QED BY <2>1 DEF IsMap
<1> HIDE DEF g
<1>5. IsMap(g, K, V)
  BY <1>1, <1>3, <1>4 DEF IsMap
<1>6. ASSUME NEW n \in Nat, Below(f, n) PROVE Below(g, n)
  BY <1>1, <1>3, <1>6 DEF Below
<1>7. QED BY <1>1, <1>3, <1>5, <1>6 DEF g, Renumbers

Dense(f) == IsFiniteSet(DOMAIN f) /\ Below(f, Cardinality(DOMAIN f))

\* pop leaves no gap in the ranks.
LEMMA DropDense ==
  ASSUME NEW K, NEW V, IsEntry(V), NEW f, IsMap(f, K, V), Dense(f), NEW k
  PROVE  Dense(Drop(f, k))
<1> DEFINE g == Drop(f, k)
<1>1. DOMAIN g = DOMAIN f \ {k}
  BY DropMap
<1>2. /\ IsFiniteSet(DOMAIN g) /\ Cardinality(DOMAIN f) \in Nat
      /\ Cardinality(DOMAIN g) = IF k \in DOMAIN f THEN Cardinality(DOMAIN f) - 1
                                                   ELSE Cardinality(DOMAIN f)
  BY <1>1, FS_RemoveElement, FS_CardinalityType DEF Dense
<1>3. ASSUME NEW x \in DOMAIN g PROVE g[x].rank < Cardinality(DOMAIN g)
  <2>1. /\ f[x] \in V /\ f[x].rank \in Nat /\ f[x].rank < Cardinality(DOMAIN f)
        /\ k \in DOMAIN f => /\ f[k].rank \in Nat /\ f[x].rank # f[k].rank
                             /\ f[k].rank < Cardinality(DOMAIN f)
    BY <1>1 DEF IsMap, IsEntry, Dense, Below
  <2>2. g[x].rank = IF k \in DOMAIN f /\ f[x].rank > f[k].rank THEN f[x].rank - 1 ELSE f[x].rank
    <3>1. g[x] = IF k \in DOMAIN f /\ f[x].rank > f[k].rank
                   THEN WithRank(f[x], f[x].rank - 1) ELSE f[x]
      BY <1>1, DropIs
    <3>2. CASE k \in DOMAIN f /\ f[x].rank > f[k].rank
      <4>1. PICK n \in Nat : n = f[x].rank - 1
        BY <2>1, <3>2
      <4>2. QED BY <2>1, <3>1, <3>2, <4>1 DEF IsEntry
    <3>3. QED BY <3>1, <3>2
  <2>3. QED BY <1>2, <2>1, <2>2
<1>4. QED BY <1>2, <1>3 DEF Dense, Below

\* Reinserting a key keeps ranks distinct and the rest of the other entries.
LEMMA TouchMap ==
  ASSUME NEW K, NEW V, IsEntry(V), NEW f, IsMap(f, K, V), NEW k \in K, NEW v \in V
  PROVE  /\ IsMap(Touch(f, k, v), K, V)
         /\ DOMAIN Touch(f, k, v) = DOMAIN f \cup {k}
         /\ Touch(f, k, v)[k] = WithRank(v, 0)
         /\ Renumbers(Touch(f, k, v), f, DOMAIN f \ {k})
         /\ \A n \in Nat : Below(Drop(f, k), n) => Below(Touch(f, k, v), n + 1)
<1> DEFINE rest == Drop(f, k)
           g == Touch(f, k, v)
<1>1. /\ IsMap(rest, K, V) /\ DOMAIN rest = DOMAIN f \ {k} /\ Renumbers(rest, f, DOMAIN f \ {k})
  BY DropMap
<1>2. /\ DOMAIN g = DOMAIN f \cup {k} /\ g = [x \in DOMAIN g |-> g[x]]
      /\ g[k] = WithRank(v, 0)
      /\ \A x \in DOMAIN f \ {k} : g[x] = WithRank(rest[x], rest[x].rank + 1)
  <2>1. DOMAIN g = DOMAIN f \cup {k}
    BY TouchIs
  <2>2. g[k] = WithRank(v, 0)
    BY TouchIs
  <2>3. g = [x \in DOMAIN f \cup {k} |-> g[x]]
    BY TouchIs
  <2>4. \A x \in DOMAIN f \ {k} : g[x] = WithRank(rest[x], rest[x].rank + 1)
    BY TouchIs
  <2>5. QED BY <2>1, <2>2, <2>3, <2>4
<1> HIDE DEF rest, g
<1>3. g[k] \in V /\ g[k].rank = 0
  BY <1>2 DEF IsEntry
<1>4. ASSUME NEW x \in DOMAIN f \ {k}
      PROVE  /\ g[x] \in V /\ rest[x].rank \in Nat /\ g[x].rank = rest[x].rank + 1
             /\ \E n \in Nat : g[x] = WithRank(f[x], n)
  <2>1. rest[x] \in V /\ f[x] \in V /\ rest[x].rank \in Nat
    BY <1>1 DEF IsMap, IsEntry
  <2>2. PICK n \in Nat : rest[x] = WithRank(f[x], n)
    BY <1>1 DEF Renumbers
  <2>3. PICK p \in Nat : p = rest[x].rank + 1
    BY <2>1
  <2>4. g[x] = WithRank(rest[x], p)
    BY <1>2, <2>3
  <2>5. g[x] = WithRank(f[x], p)
    BY <2>1, <2>2, <2>4 DEF IsEntry
  <2>6. g[x] \in V /\ g[x].rank = p
    BY <2>1, <2>4 DEF IsEntry
  <2>7. QED BY <2>1, <2>3, <2>5, <2>6
<1>5. ASSUME NEW x \in DOMAIN g, NEW y \in DOMAIN g, g[x].rank = g[y].rank PROVE x = y
  <2>1. CASE x # k /\ y # k
    BY <1>1, <1>2, <1>4, <1>5, <2>1 DEF IsMap
  <2>2. QED BY <1>2, <1>3, <1>4, <1>5, <2>1
<1>6. IsMap(g, K, V)
  BY <1>2, <1>3, <1>4, <1>5 DEF IsMap
<1>7. ASSUME NEW n \in Nat, Below(rest, n) PROVE Below(g, n + 1)
  BY <1>1, <1>2, <1>3, <1>4, <1>7 DEF Below
<1>8. QED BY <1>2, <1>4, <1>6, <1>7 DEF g, rest, Renumbers

\* Reinserting a key leaves no gap in the ranks.
LEMMA TouchDense ==
  ASSUME NEW K, NEW V, IsEntry(V), NEW f, IsMap(f, K, V), Dense(f), NEW k \in K, NEW v \in V
  PROVE  Dense(Touch(f, k, v))
<1>1. Dense(Drop(f, k)) /\ DOMAIN Drop(f, k) = DOMAIN f \ {k}
  BY DropDense, DropMap
<1>2. DOMAIN Touch(f, k, v) = (DOMAIN f \ {k}) \cup {k}
  <2>1. DOMAIN Touch(f, k, v) = DOMAIN f \cup {k}
    BY TouchIs
  <2>2. QED BY <2>1
<1>3. /\ IsFiniteSet(DOMAIN Touch(f, k, v)) /\ Cardinality(DOMAIN f \ {k}) \in Nat
      /\ Cardinality(DOMAIN Touch(f, k, v)) = Cardinality(DOMAIN f \ {k}) + 1
  BY <1>1, <1>2, FS_AddElement, FS_CardinalityType DEF Dense
<1>4. \A n \in Nat : Below(Drop(f, k), n) => Below(Touch(f, k, v), n + 1)
  BY TouchMap
<1>5. QED BY <1>1, <1>3, <1>4 DEF Dense

\* Assigning to a key keeps ranks distinct and without a gap, and leaves the rest of
\* the other entries alone.
LEMMA AssignMap ==
  ASSUME NEW K, NEW V, IsEntry(V), NEW f, IsMap(f, K, V), Dense(f), NEW k \in K, NEW v \in V
  PROVE  /\ IsMap(Assign(f, k, v), K, V) /\ Dense(Assign(f, k, v))
         /\ DOMAIN Assign(f, k, v) = DOMAIN f \cup {k}
         /\ \E n \in Nat : Assign(f, k, v)[k] = WithRank(v, n)
         /\ Renumbers(Assign(f, k, v), f, DOMAIN f \ {k})
<1> DEFINE g == Assign(f, k, v)
<1>1. CASE k \notin DOMAIN f
  <2>1. g = Touch(f, k, v)
    BY <1>1 DEF Assign
  <2>2. IsMap(Touch(f, k, v), K, V) /\ Renumbers(Touch(f, k, v), f, DOMAIN f \ {k})
    BY TouchMap
  <2>3. Dense(Touch(f, k, v))
    BY TouchDense
  <2>4. DOMAIN Touch(f, k, v) = DOMAIN f \cup {k}
    BY TouchIs
  <2>5. Touch(f, k, v)[k] = WithRank(v, 0)
    BY TouchIs
  <2>6. QED BY <2>1, <2>2, <2>3, <2>4, <2>5
<1>2. CASE k \in DOMAIN f
  <2>1. /\ DOMAIN g = DOMAIN f /\ g = [x \in DOMAIN g |-> g[x]]
        /\ g[k] = WithRank(v, f[k].rank)
        /\ \A x \in DOMAIN f \ {k} : g[x] = f[x]
    BY <1>2 DEF Assign, IsMap, WithRank
  <2> HIDE DEF g
  <2>2. f[k].rank \in Nat /\ g[k] \in V /\ g[k].rank = f[k].rank
    BY <1>2, <2>1 DEF IsMap, IsEntry
  <2>3. \A x \in DOMAIN f : g[x] \in V /\ g[x].rank = f[x].rank
    BY <2>1, <2>2 DEF IsMap
  <2>4. IsMap(g, K, V) /\ Dense(g)
    BY <2>1, <2>3 DEF IsMap, Dense, Below
  <2>5. \A x \in DOMAIN f \ {k} : f[x].rank \in Nat /\ g[x] = WithRank(f[x], f[x].rank)
    BY <2>1 DEF IsMap, IsEntry
  <2>6. QED BY <1>2, <2>1, <2>2, <2>4, <2>5 DEF g, Renumbers
<1>3. QED BY <1>1, <1>2

\* Evicting the oldest leaves the youngest as they are, and a map that fits alone.
LEMMA NewestMap ==
  ASSUME NEW K, NEW V, IsEntry(V), NEW f, IsMap(f, K, V), NEW n \in Nat
  PROVE  /\ IsMap(Newest(f, n), K, V) /\ Below(Newest(f, n), n)
         /\ DOMAIN Newest(f, n) = {x \in DOMAIN f : f[x].rank < n}
         /\ \A x \in DOMAIN Newest(f, n) : Newest(f, n)[x] = f[x]
         /\ Below(f, n) => Newest(f, n) = f
<1>1. /\ DOMAIN Newest(f, n) = {x \in DOMAIN f : f[x].rank < n}
      /\ \A x \in DOMAIN Newest(f, n) : Newest(f, n)[x] = f[x]
      /\ Newest(f, n) = [x \in DOMAIN Newest(f, n) |-> f[x]]
  BY DEF Newest, Keep
<1>2. IsMap(Newest(f, n), K, V) /\ Below(Newest(f, n), n)
  BY <1>1 DEF IsMap, Below
<1>3. ASSUME Below(f, n) PROVE Newest(f, n) = f
  <2>1. DOMAIN Newest(f, n) = DOMAIN f
    BY <1>1, <1>3 DEF Below
  <2>2. QED BY <1>1, <2>1 DEF IsMap
<1>4. QED BY <1>1, <1>2, <1>3

\* Ranks are distinct, so that a map holds as many entries as it has ranks.
LEMMA BelowFinite ==
  ASSUME NEW K, NEW V, IsEntry(V), NEW f, IsMap(f, K, V), NEW n \in Nat, Below(f, n)
  PROVE  IsFiniteSet(DOMAIN f) /\ Cardinality(DOMAIN f) <= n
<1> DEFINE r == [x \in DOMAIN f |-> f[x].rank]
           T == 0..(n - 1)
<1>1. \A x \in DOMAIN f : f[x].rank \in T
  BY DEF IsMap, IsEntry, Below
<1>2. r \in Injection(DOMAIN f, T)
  BY <1>1 DEF Injection, IsInjective, IsMap
<1>3. IsFiniteSet(T) /\ Cardinality(T) = n
  BY FS_Interval
<1> HIDE DEF r, T
<1>4. QED BY <1>2, <1>3, FS_Injection

\* A set of naturals has a least element,
LEMMA LeastOf ==
  ASSUME NEW S \in SUBSET Nat, S # {}
  PROVE  \E n \in S : \A m \in S : n <= m
<1> DEFINE R == {p \in Nat \X Nat : p[1] < p[2]}
<1>1. IsWellFoundedOn(R, Nat)
  BY NatLessThanWellFounded, Zenon DEF OpToRel
<1>2. IsWellFoundedOn(R, Nat) => \E x \in S : \A y \in S : ~ (<<y, x>> \in R)
  <2> HIDE DEF R
  <2> QED BY <1>1, WFMin, Zenon
<1>3. \A x, y \in Nat : x < y => <<x, y>> \in R
  OBVIOUS
<1>4. PICK n \in S : \A m \in S : ~ (<<m, n>> \in R)
  BY <1>1, <1>2
<1> HIDE DEF R
<1>5. ASSUME NEW m \in S PROVE n <= m
  <2>1. m \in Nat /\ n \in Nat /\ ~ (<<m, n>> \in R)
    BY <1>4
  <2>2. ~ (m < n)
    BY <2>1, <1>3
  <2>3. QED BY <2>1, <2>2
<1>6. QED BY <1>5

\* and, when it is bounded, a greatest one.
LEMMA GreatestOf ==
  ASSUME NEW S \in SUBSET Nat, S # {}, NEW n \in Nat, \A m \in S : m <= n
  PROVE  \E m \in S : \A k \in S : k <= m
<1> DEFINE T == {n - m : m \in S}
<1>1. T \in SUBSET Nat /\ T # {}
  <2>1. \A m \in S : n - m \in Nat
    OBVIOUS
  <2>2. QED BY <2>1
<1>2. PICK t \in T : \A k \in T : t <= k
  BY <1>1, LeastOf
<1>3. PICK m \in S : t = n - m
  BY <1>2
<1>4. ASSUME NEW k \in S PROVE k <= m
  <2>1. n - k \in T /\ k \in Nat /\ m \in Nat
    OBVIOUS
  <2>2. n - m <= n - k
    BY <1>2, <1>3, <2>1
  <2>3. QED BY <2>1, <2>2
<1>5. QED BY <1>4

\* Of some entries of a map, one has the lowest rank.
LEMMA YoungestIn ==
  ASSUME NEW K, NEW V, IsEntry(V), NEW f, IsMap(f, K, V), NEW S \in SUBSET DOMAIN f, S # {}
  PROVE  Youngest(f, S) \in S
<1> DEFINE R == {f[x].rank : x \in S}
<1>1. R \in SUBSET Nat /\ R # {}
  BY DEF IsMap, IsEntry
<1>2. PICK r \in R : \A q \in R : r <= q
  BY <1>1, LeastOf
<1>3. \E x \in S : \A y \in S : f[x].rank <= f[y].rank
  BY <1>2
<1>4. QED BY <1>3 DEF Youngest

\* Of some entries of a bounded map, one has the highest rank.
LEMMA OldestIn ==
  ASSUME NEW K, NEW V, IsEntry(V), NEW f, IsMap(f, K, V), NEW n \in Nat, Below(f, n),
         NEW S \in SUBSET DOMAIN f, S # {}
  PROVE  Oldest(f, S) \in S
<1> DEFINE R == {f[x].rank : x \in S}
<1>1. R \in SUBSET Nat /\ R # {} /\ \A r \in R : r <= n
  BY DEF IsMap, IsEntry, Below
<1>2. PICK r \in R : \A q \in R : q <= r
  BY <1>1, GreatestOf
<1>3. \E x \in S : \A y \in S : f[x].rank >= f[y].rank
  <2>1. PICK x \in S : r = f[x].rank
    BY <1>2
  <2>2. ASSUME NEW y \in S PROVE f[x].rank >= f[y].rank
    BY <1>1, <1>2, <2>1
  <2>3. QED BY <2>2
<1>4. QED BY <1>3 DEF Oldest

\* Numbering things by how many are younger gives each a number of its own.
LEMMA RanksByAge ==
  ASSUME NEW S, NEW age \in [S -> Nat], \A x, y \in S : age[x] = age[y] => x = y
  PROVE  LET r(x) == Cardinality({y \in S : age[y] < age[x]})
         IN  /\ \A x \in S : r(x) \in Nat
             /\ \A x, y \in S : r(x) = r(y) => x = y
             /\ IsFiniteSet(S) => \A x \in S : r(x) < Cardinality(S)
<1> DEFINE L(x) == {y \in S : age[y] < age[x]}
<1>1. ASSUME NEW x \in S PROVE IsFiniteSet(L(x)) /\ Cardinality(L(x)) \in Nat
  <2> DEFINE T == 0..age[x]
             g == [y \in L(x) |-> age[y]]
  <2>1. g \in Injection(L(x), T)
    BY DEF Injection, IsInjective
  <2>2. IsFiniteSet(T)
    BY FS_Interval
  <2> HIDE DEF g, T, L
  <2>3. IsFiniteSet(L(x))
    BY <2>1, <2>2, FS_Injection
  <2>4. QED BY <2>3, FS_CardinalityType
<1>2. ASSUME NEW x \in S, NEW y \in S, age[x] < age[y]
      PROVE  Cardinality(L(x)) < Cardinality(L(y))
  <2>1. L(x) \subseteq L(y) /\ x \in L(y) /\ x \notin L(x)
    BY <1>2
  <2> HIDE DEF L
  <2>2. /\ Cardinality(L(x)) <= Cardinality(L(y))
        /\ Cardinality(L(y)) = Cardinality(L(x)) => L(y) = L(x)
    BY <1>1, <2>1, FS_Subset
  <2>3. QED BY <1>1, <2>1, <2>2
<1>3. ASSUME NEW x \in S, NEW y \in S, Cardinality(L(x)) = Cardinality(L(y)) PROVE x = y
  <2>1. age[x] \in Nat /\ age[y] \in Nat /\ Cardinality(L(x)) \in Nat
    BY <1>1
  <2>2. ~(age[x] < age[y]) /\ ~(age[y] < age[x])
    <3> HIDE DEF L
    <3> QED BY <1>1, <1>2, <1>3, <2>1
  <2>3. QED BY <2>1, <2>2
<1>4. ASSUME IsFiniteSet(S), NEW x \in S PROVE Cardinality(L(x)) < Cardinality(S)
  <2>1. L(x) \subseteq S /\ x \notin L(x)
    OBVIOUS
  <2> HIDE DEF L
  <2>2. /\ Cardinality(L(x)) <= Cardinality(S)
        /\ Cardinality(S) = Cardinality(L(x)) => S = L(x)
    BY <1>4, <2>1, FS_Subset
  <2>3. Cardinality(S) \in Nat
    BY <1>4, FS_CardinalityType
  <2>4. QED BY <1>1, <2>1, <2>2, <2>3
<1>5. QED BY <1>1, <1>3, <1>4

------------------------------------------------------------------------------

(* What the maps hold *)

HistoryEntry   == [event : Events \cup {NoEvent}, rank : Nat]
ActiveEntry    == [event : Events \cup {NoEvent}, key : Keys \cup {NoKey}, rank : Nat]
DeliveredEntry == [id : Ids, rank : Nat]

IsMemory(m) ==
  m = [nextId |-> m.nextId, active |-> m.active, history |-> m.history,
       delivered |-> m.delivered, eventIdx |-> m.eventIdx, keyIdx |-> m.keyIdx,
       histIdx |-> m.histIdx, timeouts |-> m.timeouts, sources |-> m.sources, idle |-> m.idle]

Active(a)    == IsMap(a, Ids, ActiveEntry) /\ Dense(a)
History(h)   == IsMap(h, Ids, HistoryEntry) /\ Below(h, MaxHistory)
Delivered(l) == IsMap(l, Events, DeliveredEntry) /\ Below(l, MaxDelivered)

EventIndex(idx, items) ==
  /\ idx \in [Events -> IdsOrNone]
  /\ \A e \in Events : idx[e] # 0 => idx[e] \in DOMAIN items /\ items[idx[e]].event = e
KeyIndex(idx, items) ==
  /\ idx \in [Keys -> IdsOrNone]
  /\ \A k \in Keys : idx[k] # 0 => idx[k] \in DOMAIN items /\ items[idx[k]].key = k

Timers(timeouts, sources, ids) ==
  /\ timeouts \subseteq ids
  /\ sources = [i \in Ids |-> IF i \in timeouts THEN 1 ELSE 0]

MemoryOK(m) ==
  /\ IsMemory(m)
  /\ m.nextId \in 1..(MaxId + 1) /\ m.idle \in BOOLEAN
  /\ Active(m.active) /\ History(m.history) /\ Delivered(m.delivered)
  /\ EventIndex(m.eventIdx, m.active) /\ EventIndex(m.histIdx, m.history)
  /\ KeyIndex(m.keyIdx, m.active)
  /\ Timers(m.timeouts, m.sources, DOMAIN m.active)

USE NotificationAssumption

\* All three kinds of entry carry a rank.
LEMMA EntryTypes == IsEntry(HistoryEntry) /\ IsEntry(ActiveEntry) /\ IsEntry(DeliveredEntry)
BY DEF IsEntry, WithRank, HistoryEntry, ActiveEntry, DeliveredEntry

\* A new rank leaves the rest of an entry alone.
LEMMA RankOnly ==
  /\ \A v \in HistoryEntry, n \in Nat : WithRank(v, n).event = v.event
  /\ \A v \in ActiveEntry, n \in Nat :
       WithRank(v, n).event = v.event /\ WithRank(v, n).key = v.key
BY DEF WithRank, HistoryEntry, ActiveEntry

(* Indexes *)

\* Dropping the entry of an item leaves none in the event index that names it,
LEMMA EventIndexDropped ==
  ASSUME NEW idx, NEW items, EventIndex(idx, items), NEW id \in Ids
  PROVE  /\ id \in DOMAIN items =>
              /\ EventIndex(DropIndex(idx, items[id].event, id), items)
              /\ \A e \in Events : DropIndex(idx, items[id].event, id)[e] # id
         /\ id \notin DOMAIN items => \A e \in Events : idx[e] # id
BY DEF EventIndex, DropIndex, Ids, IdsOrNone

\* and none in the key index.
LEMMA KeyIndexDropped ==
  ASSUME NEW idx, NEW items, KeyIndex(idx, items), NEW id \in Ids
  PROVE  /\ id \in DOMAIN items =>
              /\ KeyIndex(DropIndex(idx, items[id].key, id), items)
              /\ \A k \in Keys : DropIndex(idx, items[id].key, id)[k] # id
         /\ id \notin DOMAIN items => \A k \in Keys : idx[k] # id
BY DEF KeyIndex, DropIndex, Ids, IdsOrNone

\* An index entry may be set to 0 or to an item of its event,
LEMMA EventIndexSet ==
  ASSUME NEW idx, NEW items, EventIndex(idx, items), DOMAIN items \subseteq Ids,
         NEW e, NEW id, id = 0 \/ (id \in DOMAIN items /\ items[id].event = e)
  PROVE  EventIndex(SetIndex(idx, e, id), items)
BY DEF EventIndex, SetIndex, IdsOrNone

\* or to an item of its key.
LEMMA KeyIndexSet ==
  ASSUME NEW idx, NEW items, KeyIndex(idx, items), DOMAIN items \subseteq Ids,
         NEW k, NEW id, id = 0 \/ (id \in DOMAIN items /\ items[id].key = k)
  PROVE  KeyIndex(SetIndex(idx, k, id), items)
BY DEF KeyIndex, SetIndex, IdsOrNone

(* Timers *)

\* _cancel_expiry takes the source with the entry.
LEMMA CancelExpiryOK ==
  ASSUME NEW m, MemoryOK(m), NEW id \in Ids
  PROVE  LET n == CancelExpiry(m, id)
         IN  /\ MemoryOK(n) /\ id \notin n.timeouts
             /\ n.nextId = m.nextId /\ n.active = m.active /\ n.history = m.history
             /\ n.delivered = m.delivered /\ n.idle = m.idle
<1> DEFINE n == CancelExpiry(m, id)
<1>1. /\ IsMemory(n)
      /\ n.nextId = m.nextId /\ n.active = m.active /\ n.history = m.history
      /\ n.delivered = m.delivered /\ n.idle = m.idle
      /\ n.eventIdx = m.eventIdx /\ n.keyIdx = m.keyIdx /\ n.histIdx = m.histIdx
      /\ n.timeouts = m.timeouts \ {id}
      /\ n.sources = IF id \in m.timeouts THEN [m.sources EXCEPT ![id] = @ - 1] ELSE m.sources
  BY DEF CancelExpiry, MemoryOK, IsMemory
<1> HIDE DEF n
<1>2. Timers(n.timeouts, n.sources, DOMAIN n.active)
  BY <1>1 DEF Timers, MemoryOK
<1>3. QED BY <1>1, <1>2 DEF MemoryOK, n

\* _schedule_idle_exit arms the idle timer when no banner is up.
LEMMA ScheduleIdleOK ==
  ASSUME NEW m, MemoryOK(m)
  PROVE  LET n == ScheduleIdle(m)
         IN  /\ MemoryOK(n)
             /\ n.nextId = m.nextId /\ n.active = m.active /\ n.history = m.history
             /\ n.delivered = m.delivered
             /\ n.idle = (m.idle \/ m.active = EmptyMap)
BY DEF ScheduleIdle, MemoryOK, IsMemory

\* _schedule_expiry leaves a banner one source or none.
LEMMA ScheduleExpiryOK ==
  ASSUME NEW m, MemoryOK(m), NEW id \in DOMAIN m.active, NEW timed \in BOOLEAN
  PROVE  LET n == ScheduleExpiry(m, id, timed)
         IN  /\ MemoryOK(n)
             /\ n.nextId = m.nextId /\ n.active = m.active /\ n.history = m.history
             /\ n.delivered = m.delivered /\ n.idle = m.idle
<1> DEFINE c == CancelExpiry(m, id)
           n == ScheduleExpiry(m, id, timed)
<1>1. id \in Ids
  BY DEF MemoryOK, Active, IsMap
<1>2. /\ MemoryOK(c) /\ id \notin c.timeouts
      /\ c.nextId = m.nextId /\ c.active = m.active /\ c.history = m.history
      /\ c.delivered = m.delivered /\ c.idle = m.idle
  BY <1>1, CancelExpiryOK
<1>3. n = IF timed THEN [c EXCEPT !.timeouts = @ \cup {id}, !.sources[id] = @ + 1] ELSE c
  BY DEF ScheduleExpiry
<1> HIDE DEF c, n
<1>4. CASE timed
  <2>1. /\ IsMemory(n)
        /\ n.nextId = c.nextId /\ n.active = c.active /\ n.history = c.history
        /\ n.delivered = c.delivered /\ n.idle = c.idle
        /\ n.eventIdx = c.eventIdx /\ n.keyIdx = c.keyIdx /\ n.histIdx = c.histIdx
        /\ n.timeouts = c.timeouts \cup {id} /\ n.sources = [c.sources EXCEPT ![id] = @ + 1]
    BY <1>2, <1>3, <1>4 DEF MemoryOK, IsMemory
  <2>2. Timers(n.timeouts, n.sources, DOMAIN n.active)
    BY <1>1, <1>2, <2>1 DEF Timers, MemoryOK
  <2>3. QED BY <1>2, <2>1, <2>2 DEF MemoryOK, n
<1>5. QED BY <1>2, <1>3, <1>4 DEF n

(* Active banners *)

\* _drop_active_indexes leaves no index entry that names the banner.
LEMMA DropActiveIndexesOK ==
  ASSUME NEW m, MemoryOK(m), NEW id \in Ids
  PROVE  LET n == DropActiveIndexes(m, id)
         IN  /\ MemoryOK(n)
             /\ \A e \in Events : n.eventIdx[e] # id
             /\ \A k \in Keys : n.keyIdx[k] # id
             /\ n.nextId = m.nextId /\ n.active = m.active /\ n.history = m.history
             /\ n.delivered = m.delivered /\ n.histIdx = m.histIdx
             /\ n.timeouts = m.timeouts /\ n.sources = m.sources /\ n.idle = m.idle
<1> DEFINE n == DropActiveIndexes(m, id)
<1>1. CASE id \in DOMAIN m.active
  <2>1. /\ IsMemory(n)
        /\ n.nextId = m.nextId /\ n.active = m.active /\ n.history = m.history
        /\ n.delivered = m.delivered /\ n.histIdx = m.histIdx
        /\ n.timeouts = m.timeouts /\ n.sources = m.sources /\ n.idle = m.idle
        /\ n.eventIdx = DropIndex(m.eventIdx, m.active[id].event, id)
        /\ n.keyIdx = DropIndex(m.keyIdx, m.active[id].key, id)
    BY <1>1 DEF DropActiveIndexes, MemoryOK, IsMemory
  <2> HIDE DEF n
  <2>2. EventIndex(n.eventIdx, n.active) /\ \A e \in Events : n.eventIdx[e] # id
    BY <1>1, <2>1, EventIndexDropped DEF MemoryOK
  <2>3. KeyIndex(n.keyIdx, n.active) /\ \A k \in Keys : n.keyIdx[k] # id
    BY <1>1, <2>1, KeyIndexDropped DEF MemoryOK
  <2>4. QED BY <2>1, <2>2, <2>3 DEF MemoryOK, n
<1>2. CASE id \notin DOMAIN m.active
  <2>1. n = m
    BY <1>2 DEF DropActiveIndexes
  <2>2. \A e \in Events : m.eventIdx[e] # id
    BY <1>2, EventIndexDropped DEF MemoryOK
  <2>3. \A k \in Keys : m.keyIdx[k] # id
    BY <1>2, KeyIndexDropped DEF MemoryOK
  <2>4. QED BY <2>1, <2>2, <2>3
<1>3. QED BY <1>1, <1>2

\* _remove_active_notification takes the banner out of the indexes, too.
LEMMA RemoveActiveOK ==
  ASSUME NEW m, MemoryOK(m), NEW id \in Ids, id \notin m.timeouts
  PROVE  LET n == RemoveActive(m, id)
         IN  /\ MemoryOK(n)
             /\ n.nextId = m.nextId /\ n.active = Drop(m.active, id) /\ n.history = m.history
             /\ n.delivered = m.delivered /\ n.idle = m.idle
             /\ DOMAIN n.active = DOMAIN m.active \ {id}
             /\ \A x \in DOMAIN n.active : n.active[x].event = m.active[x].event
<1> DEFINE c == DropActiveIndexes(m, id)
           n == RemoveActive(m, id)
<1>1. /\ MemoryOK(c)
      /\ \A e \in Events : c.eventIdx[e] # id
      /\ \A k \in Keys : c.keyIdx[k] # id
      /\ c.nextId = m.nextId /\ c.active = m.active /\ c.history = m.history
      /\ c.delivered = m.delivered /\ c.histIdx = m.histIdx
      /\ c.timeouts = m.timeouts /\ c.sources = m.sources /\ c.idle = m.idle
  BY DropActiveIndexesOK
<1>2. n = [c EXCEPT !.active = Drop(@, id)]
  BY DEF RemoveActive
<1> HIDE DEF c, n
<1>3. /\ IsMemory(n) /\ n.active = Drop(c.active, id)
      /\ n.nextId = c.nextId /\ n.history = c.history
      /\ n.delivered = c.delivered /\ n.histIdx = c.histIdx
      /\ n.eventIdx = c.eventIdx /\ n.keyIdx = c.keyIdx
      /\ n.timeouts = c.timeouts /\ n.sources = c.sources /\ n.idle = c.idle
  BY <1>1, <1>2 DEF MemoryOK, IsMemory
<1>4. IsMap(c.active, Ids, ActiveEntry) /\ Dense(c.active)
  BY <1>1 DEF MemoryOK, Active
<1>5. /\ IsMap(n.active, Ids, ActiveEntry)
      /\ DOMAIN n.active = DOMAIN c.active \ {id}
      /\ Renumbers(n.active, c.active, DOMAIN c.active \ {id})
  BY <1>3, <1>4, EntryTypes, DropMap
<1>6. Active(n.active)
  BY <1>3, <1>4, <1>5, EntryTypes, DropDense DEF Active
<1>7. \A x \in DOMAIN c.active \ {id} : /\ x \in DOMAIN n.active
                                        /\ n.active[x].event = c.active[x].event
                                        /\ n.active[x].key = c.active[x].key
  BY <1>4, <1>5, RankOnly DEF Renumbers, IsMap
<1>8. EventIndex(n.eventIdx, n.active)
  <2>1. EventIndex(n.eventIdx, c.active) /\ \A x \in Events : n.eventIdx[x] # id
    BY <1>1, <1>3 DEF MemoryOK
  <2>2. QED BY <2>1, <1>7 DEF EventIndex
<1>9. KeyIndex(n.keyIdx, n.active)
  <2>1. KeyIndex(n.keyIdx, c.active) /\ \A x \in Keys : n.keyIdx[x] # id
    BY <1>1, <1>3 DEF MemoryOK
  <2>2. QED BY <2>1, <1>7 DEF KeyIndex
<1>10. Timers(n.timeouts, n.sources, DOMAIN n.active)
  BY <1>1, <1>3, <1>5 DEF MemoryOK, Timers
<1>11. MemoryOK(n)
  BY <1>1, <1>3, <1>6, <1>8, <1>9, <1>10 DEF MemoryOK
<1>12. QED BY <1>1, <1>3, <1>5, <1>7, <1>11 DEF n

\* _store_active_notification makes both indexes name the banner.
LEMMA StoreActiveOK ==
  ASSUME NEW m, MemoryOK(m), NEW id \in Ids, NEW e \in Events \cup {NoEvent},
         NEW k \in Keys \cup {NoKey}
  PROVE  LET n == StoreActive(m, id, e, k)
         IN  /\ MemoryOK(n)
             /\ n.nextId = m.nextId /\ n.history = m.history
             /\ n.delivered = m.delivered /\ n.idle = m.idle
             /\ DOMAIN n.active = DOMAIN m.active \cup {id}
             /\ n.active[id].event = e
             /\ \A x \in DOMAIN m.active \ {id} : n.active[x].event = m.active[x].event
<1> DEFINE c == DropActiveIndexes(m, id)
           v == [event |-> e, key |-> k, rank |-> 0]
           n == StoreActive(m, id, e, k)
<1>1. /\ MemoryOK(c)
      /\ \A x \in Events : c.eventIdx[x] # id
      /\ \A x \in Keys : c.keyIdx[x] # id
      /\ c.nextId = m.nextId /\ c.active = m.active /\ c.history = m.history
      /\ c.delivered = m.delivered /\ c.histIdx = m.histIdx
      /\ c.timeouts = m.timeouts /\ c.sources = m.sources /\ c.idle = m.idle
  BY DropActiveIndexesOK
<1>2. n = [c EXCEPT !.active = Assign(@, id, v), !.eventIdx = SetIndex(@, e, id),
                    !.keyIdx = SetIndex(@, k, id)]
  BY DEF StoreActive
<1>3. v \in ActiveEntry /\ v.event = e /\ v.key = k
  BY DEF ActiveEntry
<1> HIDE DEF c, n, v
<1>4. /\ IsMemory(n) /\ n.active = Assign(c.active, id, v)
      /\ n.nextId = c.nextId /\ n.history = c.history
      /\ n.delivered = c.delivered /\ n.histIdx = c.histIdx
      /\ n.eventIdx = SetIndex(c.eventIdx, e, id) /\ n.keyIdx = SetIndex(c.keyIdx, k, id)
      /\ n.timeouts = c.timeouts /\ n.sources = c.sources /\ n.idle = c.idle
  BY <1>1, <1>2 DEF MemoryOK, IsMemory
<1>5. IsMap(c.active, Ids, ActiveEntry) /\ Dense(c.active)
  BY <1>1 DEF MemoryOK, Active
<1>6. /\ IsMap(n.active, Ids, ActiveEntry) /\ Dense(n.active)
      /\ DOMAIN n.active = DOMAIN c.active \cup {id}
      /\ \E r \in Nat : n.active[id] = WithRank(v, r)
      /\ Renumbers(n.active, c.active, DOMAIN c.active \ {id})
  BY <1>3, <1>4, <1>5, EntryTypes, AssignMap
<1>7. n.active[id].event = e /\ n.active[id].key = k
  BY <1>3, <1>6, RankOnly
<1>8. \A x \in DOMAIN c.active \ {id} : /\ x \in DOMAIN n.active
                                        /\ n.active[x].event = c.active[x].event
                                        /\ n.active[x].key = c.active[x].key
  BY <1>5, <1>6, RankOnly DEF Renumbers, IsMap
<1>9. EventIndex(c.eventIdx, n.active)
  <2>1. EventIndex(c.eventIdx, c.active)
    BY <1>1 DEF MemoryOK
  <2>2. QED BY <2>1, <1>1, <1>8 DEF EventIndex
<1>10. KeyIndex(c.keyIdx, n.active)
  <2>1. KeyIndex(c.keyIdx, c.active)
    BY <1>1 DEF MemoryOK
  <2>2. QED BY <2>1, <1>1, <1>8 DEF KeyIndex
<1>11. DOMAIN n.active \subseteq Ids /\ id \in DOMAIN n.active
  BY <1>6 DEF IsMap
<1>12. EventIndex(n.eventIdx, n.active)
  BY <1>4, <1>7, <1>9, <1>11, EventIndexSet
<1>13. KeyIndex(n.keyIdx, n.active)
  BY <1>4, <1>7, <1>10, <1>11, KeyIndexSet
<1>14. Timers(n.timeouts, n.sources, DOMAIN n.active)
  BY <1>1, <1>4, <1>6 DEF MemoryOK, Timers
<1>15. MemoryOK(n)
  BY <1>1, <1>4, <1>6, <1>12, <1>13, <1>14 DEF MemoryOK, Active
<1>16. QED BY <1>1, <1>4, <1>6, <1>7, <1>8, <1>15 DEF n

(* History and deliveries *)

\* The record of delivered events has room for all of them.
Roomy == IsFiniteSet(Events) /\ Cardinality(Events) <= MaxDelivered

\* With room for every event, recording a delivery evicts none.
LEMMA TouchDelivered ==
  ASSUME NEW l, Delivered(l), NEW e \in Events, NEW id \in Ids
  PROVE  LET t == Touch(l, e, [id |-> id, rank |-> 0])
         IN  /\ Delivered(Newest(t, MaxDelivered))
             /\ Roomy /\ Dense(l) => /\ Dense(Newest(t, MaxDelivered))
                                     /\ DOMAIN Newest(t, MaxDelivered) = DOMAIN l \cup {e}
<1> DEFINE v == [id |-> id, rank |-> 0]
           t == Touch(l, e, v)
<1>1. v \in DeliveredEntry
  BY DEF DeliveredEntry
<1> HIDE DEF v
<1>2. IsMap(l, Events, DeliveredEntry)
  BY DEF Delivered
<1>3. IsMap(t, Events, DeliveredEntry)
  BY <1>1, <1>2, EntryTypes, TouchMap
<1>4. DOMAIN t = DOMAIN l \cup {e}
  BY TouchIs
<1> HIDE DEF t
<1>5. /\ IsMap(Newest(t, MaxDelivered), Events, DeliveredEntry)
      /\ Below(Newest(t, MaxDelivered), MaxDelivered)
      /\ Below(t, MaxDelivered) => Newest(t, MaxDelivered) = t
  BY <1>3, EntryTypes, NewestMap
<1>6. ASSUME Roomy, Dense(l)
      PROVE  Dense(Newest(t, MaxDelivered)) /\ DOMAIN Newest(t, MaxDelivered) = DOMAIN l \cup {e}
  <2>1. Dense(t)
    BY <1>1, <1>2, <1>6, EntryTypes, TouchDense DEF t
  <2>2. DOMAIN t \in SUBSET Events
    BY <1>3 DEF IsMap
  <2>3. /\ Cardinality(DOMAIN t) <= Cardinality(Events)
        /\ Cardinality(DOMAIN t) \in Nat /\ Cardinality(Events) \in Nat
    BY <2>2, <1>6, FS_Subset, FS_CardinalityType DEF Roomy
  <2>4. \A x \in DOMAIN t : t[x].rank \in Nat
    BY <1>3, EntryTypes DEF IsMap, IsEntry
  <2>5. Below(t, MaxDelivered)
    BY <2>1, <2>3, <2>4, <1>6 DEF Dense, Below, Roomy
  <2>6. QED BY <1>4, <1>5, <2>1, <2>5
<1>7. QED BY <1>5, <1>6 DEF Delivered, t, v

\* _remember_event_delivery records the event and touches nothing else.
LEMMA RememberDeliveryOK ==
  ASSUME NEW m, IsMemory(m), Delivered(m.delivered), NEW e \in Events \cup {NoEvent},
         NEW id \in Ids
  PROVE  LET n == RememberDelivery(m, e, id)
         IN  /\ IsMemory(n) /\ Delivered(n.delivered)
             /\ n.nextId = m.nextId /\ n.active = m.active /\ n.history = m.history
             /\ n.eventIdx = m.eventIdx /\ n.keyIdx = m.keyIdx /\ n.histIdx = m.histIdx
             /\ n.timeouts = m.timeouts /\ n.sources = m.sources /\ n.idle = m.idle
             /\ Roomy /\ Dense(m.delivered) =>
                  /\ Dense(n.delivered)
                  /\ DOMAIN n.delivered = DOMAIN m.delivered \cup ({e} \cap Events)
<1> DEFINE t == Touch(m.delivered, e, [id |-> id, rank |-> 0])
           n == RememberDelivery(m, e, id)
<1>1. CASE e = NoEvent
  BY <1>1 DEF RememberDelivery
<1>2. CASE e \in Events
  <2>1. n = [m EXCEPT !.delivered = Newest(t, MaxDelivered)]
    BY <1>2 DEF RememberDelivery
  <2>3. /\ Delivered(Newest(t, MaxDelivered))
        /\ Roomy /\ Dense(m.delivered) =>
             /\ Dense(Newest(t, MaxDelivered))
             /\ DOMAIN Newest(t, MaxDelivered) = DOMAIN m.delivered \cup {e}
    BY <1>2, TouchDelivered
  <2> HIDE DEF n, t
  <2>4. /\ IsMemory(n) /\ n.delivered = Newest(t, MaxDelivered)
        /\ n.nextId = m.nextId /\ n.active = m.active /\ n.history = m.history
        /\ n.eventIdx = m.eventIdx /\ n.keyIdx = m.keyIdx /\ n.histIdx = m.histIdx
        /\ n.timeouts = m.timeouts /\ n.sources = m.sources /\ n.idle = m.idle
    BY <2>1 DEF IsMemory
  <2>6. DOMAIN m.delivered \cup {e} = DOMAIN m.delivered \cup ({e} \cap Events)
    BY <1>2
  <2>7. QED BY <2>3, <2>4, <2>6 DEF n
<1>3. QED BY <1>1, <1>2

\* _drop_history_indexes leaves no index entry that names the item.
LEMMA DropHistoryIndexesOK ==
  ASSUME NEW m, MemoryOK(m), NEW id \in Ids
  PROVE  LET n == DropHistoryIndexes(m, id)
         IN  /\ MemoryOK(n)
             /\ \A e \in Events : n.histIdx[e] # id
             /\ n.nextId = m.nextId /\ n.active = m.active /\ n.history = m.history
             /\ n.delivered = m.delivered /\ n.eventIdx = m.eventIdx /\ n.keyIdx = m.keyIdx
             /\ n.timeouts = m.timeouts /\ n.sources = m.sources /\ n.idle = m.idle
<1> DEFINE n == DropHistoryIndexes(m, id)
<1>1. CASE id \in DOMAIN m.history
  <2>1. /\ IsMemory(n)
        /\ n.nextId = m.nextId /\ n.active = m.active /\ n.history = m.history
        /\ n.delivered = m.delivered /\ n.eventIdx = m.eventIdx /\ n.keyIdx = m.keyIdx
        /\ n.timeouts = m.timeouts /\ n.sources = m.sources /\ n.idle = m.idle
        /\ n.histIdx = DropIndex(m.histIdx, m.history[id].event, id)
    BY <1>1 DEF DropHistoryIndexes, MemoryOK, IsMemory
  <2> HIDE DEF n
  <2>2. EventIndex(n.histIdx, n.history) /\ \A e \in Events : n.histIdx[e] # id
    BY <1>1, <2>1, EventIndexDropped DEF MemoryOK
  <2>3. QED BY <2>1, <2>2 DEF MemoryOK, n
<1>2. CASE id \notin DOMAIN m.history
  <2>1. n = m
    BY <1>2 DEF DropHistoryIndexes
  <2>2. \A e \in Events : m.histIdx[e] # id
    BY <1>2, EventIndexDropped DEF MemoryOK
  <2>3. QED BY <2>1, <2>2
<1>3. QED BY <1>1, <1>2

\* _remember_history leaves the index sound although the history is one entry too
\* long before the eviction.
LEMMA RememberHistoryOK ==
  ASSUME NEW m, MemoryOK(m), NEW id \in Ids, NEW e \in Events \cup {NoEvent}
  PROVE  LET n == RememberHistory(m, id, e)
         IN  /\ MemoryOK(n)
             /\ n.nextId = m.nextId /\ n.active = m.active /\ n.idle = m.idle
             /\ n.timeouts = m.timeouts
             /\ DOMAIN n.history \subseteq DOMAIN m.history \cup {id}
             /\ Roomy /\ Dense(m.delivered) =>
                  /\ Dense(n.delivered)
                  /\ DOMAIN n.delivered = DOMAIN m.delivered \cup ({e} \cap Events)
<1> DEFINE c == DropHistoryIndexes(m, id)
           v == [event |-> e, rank |-> 0]
           touched == Touch(c.history, id, v)
           set == SetIndex(c.histIdx, e, id)
           x1 == [c EXCEPT !.history = touched, !.histIdx = set]
           x2 == RememberDelivery(x1, e, id)
           evicted == {i \in DOMAIN x2.history : x2.history[i].rank >= MaxHistory}
           stale == {x \in Events : x2.histIdx[x] \in evicted
                                    /\ x2.history[x2.histIdx[x]].event = x}
           kept == [x \in Events |-> IF x \in stale THEN 0 ELSE x2.histIdx[x]]
           n == RememberHistory(m, id, e)
<1>1. /\ MemoryOK(c)
      /\ \A x \in Events : c.histIdx[x] # id
      /\ c.nextId = m.nextId /\ c.active = m.active /\ c.history = m.history
      /\ c.delivered = m.delivered /\ c.timeouts = m.timeouts /\ c.idle = m.idle
  BY DropHistoryIndexesOK
<1>2. n = [x2 EXCEPT !.history = Newest(@, MaxHistory), !.histIdx = kept]
  BY DEF RememberHistory
<1>3. v \in HistoryEntry /\ v.event = e
  BY DEF HistoryEntry
<1> HIDE DEF c, v
<1>4. IsMap(c.history, Ids, HistoryEntry) /\ EventIndex(c.histIdx, c.history)
  BY <1>1 DEF MemoryOK, History
<1>5. /\ IsMap(touched, Ids, HistoryEntry)
      /\ Renumbers(touched, c.history, DOMAIN c.history \ {id})
  BY <1>3, <1>4, EntryTypes, TouchMap
<1>6. DOMAIN touched = DOMAIN c.history \cup {id}
  BY TouchIs
<1>7. touched[id] = WithRank(v, 0)
  BY TouchIs
<1> HIDE DEF touched
<1>8. touched[id].event = e
  BY <1>3, <1>7, RankOnly
<1>9. \A x \in DOMAIN c.history \ {id} : /\ x \in DOMAIN touched
                                         /\ touched[x].event = c.history[x].event
  BY <1>4, <1>5, <1>6, RankOnly DEF Renumbers, IsMap
<1>10. EventIndex(c.histIdx, touched)
  BY <1>1, <1>4, <1>9 DEF EventIndex
<1>11. EventIndex(set, touched)
  <2>1. DOMAIN touched \subseteq Ids
    BY <1>5 DEF IsMap
  <2>2. QED BY <1>6, <1>8, <1>10, <2>1, EventIndexSet
<1> HIDE DEF set
<1>12. x1 = [c EXCEPT !.history = touched, !.histIdx = set]
  OBVIOUS
<1> HIDE DEF x1
<1>13. /\ IsMemory(x1) /\ x1.history = touched /\ x1.histIdx = set
       /\ x1.nextId = c.nextId /\ x1.active = c.active /\ x1.delivered = c.delivered
       /\ x1.eventIdx = c.eventIdx /\ x1.keyIdx = c.keyIdx
       /\ x1.timeouts = c.timeouts /\ x1.sources = c.sources /\ x1.idle = c.idle
  BY <1>1, <1>12 DEF MemoryOK, IsMemory
<1>14. Delivered(x1.delivered)
  BY <1>1, <1>13 DEF MemoryOK
<1>15. /\ IsMemory(x2) /\ Delivered(x2.delivered)
       /\ x2.nextId = x1.nextId /\ x2.active = x1.active /\ x2.history = x1.history
       /\ x2.eventIdx = x1.eventIdx /\ x2.keyIdx = x1.keyIdx /\ x2.histIdx = x1.histIdx
       /\ x2.timeouts = x1.timeouts /\ x2.sources = x1.sources /\ x2.idle = x1.idle
       /\ Roomy /\ Dense(x1.delivered) =>
            /\ Dense(x2.delivered)
            /\ DOMAIN x2.delivered = DOMAIN x1.delivered \cup ({e} \cap Events)
  BY <1>13, <1>14, RememberDeliveryOK
<1>16. n = [x2 EXCEPT !.history = Newest(@, MaxHistory), !.histIdx = kept]
  BY <1>2
<1> HIDE DEF x2, n, kept
<1>17. /\ IsMemory(n) /\ n.history = Newest(x2.history, MaxHistory) /\ n.histIdx = kept
       /\ n.nextId = x2.nextId /\ n.active = x2.active /\ n.delivered = x2.delivered
       /\ n.eventIdx = x2.eventIdx /\ n.keyIdx = x2.keyIdx
       /\ n.timeouts = x2.timeouts /\ n.sources = x2.sources /\ n.idle = x2.idle
  BY <1>15, <1>16 DEF IsMemory
<1>18. /\ History(n.history)
       /\ DOMAIN n.history = {x \in DOMAIN touched : touched[x].rank < MaxHistory}
       /\ \A x \in DOMAIN n.history : n.history[x] = touched[x]
  <2>1. n.history = Newest(touched, MaxHistory)
    BY <1>13, <1>15, <1>17
  <2>2. /\ IsMap(Newest(touched, MaxHistory), Ids, HistoryEntry)
        /\ Below(Newest(touched, MaxHistory), MaxHistory)
    BY <1>5, EntryTypes, NewestMap
  <2>3. /\ DOMAIN n.history = {x \in DOMAIN touched : touched[x].rank < MaxHistory}
        /\ \A x \in DOMAIN n.history : n.history[x] = touched[x]
    BY <2>1 DEF Newest, Keep
  <2>4. QED BY <2>1, <2>2, <2>3 DEF History
<1>19. EventIndex(n.histIdx, n.history)
  <2>1. \A x \in DOMAIN touched : touched[x].rank \in Nat
    BY <1>5, EntryTypes DEF IsMap, IsEntry
  <2>2. \A x \in Events : x2.histIdx[x] # 0 /\ x \notin stale
                            => x2.histIdx[x] \in DOMAIN n.history
    BY <1>11, <1>13, <1>15, <1>18, <2>1 DEF EventIndex
  <2>3. n.histIdx = [x \in Events |-> IF x \in stale THEN 0 ELSE x2.histIdx[x]]
    BY <1>17 DEF kept
  <2> HIDE DEF stale
  <2>4. QED BY <1>11, <1>13, <1>15, <1>18, <2>2, <2>3 DEF EventIndex, IdsOrNone
<1>20. MemoryOK(n)
  BY <1>1, <1>13, <1>15, <1>17, <1>18, <1>19 DEF MemoryOK
<1>21. DOMAIN n.history \subseteq DOMAIN m.history \cup {id}
  BY <1>1, <1>6, <1>18
<1>22. QED BY <1>1, <1>13, <1>15, <1>17, <1>20, <1>21 DEF n

(* Resolving a request *)

\* A lookup finds one of the matches, whatever the index says.
LEMMA LookupIn ==
  ASSUME NEW K, NEW V, IsEntry(V), NEW items, IsMap(items, K, V), NEW n \in Nat, Below(items, n),
         NEW S \in SUBSET DOMAIN items, NEW idx, NEW v
  PROVE  /\ Lookup(idx, v, S, items) = 0 \/ Lookup(idx, v, S, items) \in S
         /\ v \in DOMAIN idx /\ S # {} => Lookup(idx, v, S, items) \in S
<1>1. S # {} => Oldest(items, S) \in S
  BY OldestIn
<1>2. QED BY <1>1 DEF Lookup

\* 0 is no id: it stands for none.
LEMMA IdsArePositive == Ids \subseteq Nat \ {0} /\ 0 \notin Ids /\ IsFiniteSet(Ids)
BY FS_Interval DEF Ids

\* What the three lookups of _resolve_notification_request find.
LEMMA LookupsOK ==
  ASSUME NEW m, MemoryOK(m), NEW e, NEW k
  PROVE  LET byEvent == Lookup(m.eventIdx, e, WithEvent(m.active, e), m.active)
             byHistory == Lookup(m.histIdx, e, WithEvent(m.history, e), m.history)
             byKey == Lookup(m.keyIdx, k, WithKey(m.active, k), m.active)
         IN  /\ byEvent = 0 \/ byEvent \in WithEvent(m.active, e)
             /\ byHistory = 0 \/ byHistory \in WithEvent(m.history, e)
             /\ byKey = 0 \/ byKey \in WithKey(m.active, k)
             /\ e \in Events /\ WithEvent(m.active, e) # {} => byEvent \in WithEvent(m.active, e)
<1>1. /\ IsMap(m.active, Ids, ActiveEntry) /\ Dense(m.active)
      /\ IsMap(m.history, Ids, HistoryEntry) /\ Below(m.history, MaxHistory)
  BY DEF MemoryOK, Active, History
<1>2. Cardinality(DOMAIN m.active) \in Nat /\ Below(m.active, Cardinality(DOMAIN m.active))
  BY <1>1, FS_CardinalityType DEF Dense
<1>3. /\ WithEvent(m.active, e) \in SUBSET DOMAIN m.active
      /\ WithKey(m.active, k) \in SUBSET DOMAIN m.active
      /\ WithEvent(m.history, e) \in SUBSET DOMAIN m.history
  BY DEF WithEvent, WithKey
<1>4. e \in Events => e \in DOMAIN m.eventIdx
  BY DEF MemoryOK, EventIndex
<1>5. QED BY <1>1, <1>2, <1>3, <1>4, EntryTypes, LookupIn

\* Repairing an index with what was found, or with 0, leaves the memory sound.
LEMMA RepairedOK ==
  ASSUME NEW m, MemoryOK(m), NEW e, NEW k, NEW i, NEW j, NEW l,
         i = 0 \/ i \in WithEvent(m.active, e),
         j = 0 \/ j \in WithEvent(m.history, e),
         l = 0 \/ l \in WithKey(m.active, k)
  PROVE  /\ MemoryOK([m EXCEPT !.eventIdx = SetIndex(@, e, i)])
         /\ MemoryOK([m EXCEPT !.histIdx = SetIndex(@, e, j)])
         /\ MemoryOK([m EXCEPT !.keyIdx = SetIndex(@, k, l)])
<1>1. /\ EventIndex(m.eventIdx, m.active) /\ DOMAIN m.active \subseteq Ids
      /\ EventIndex(m.histIdx, m.history) /\ DOMAIN m.history \subseteq Ids
      /\ KeyIndex(m.keyIdx, m.active)
  BY DEF MemoryOK, Active, History, IsMap
<1>2. /\ EventIndex(SetIndex(m.eventIdx, e, i), m.active)
      /\ EventIndex(SetIndex(m.histIdx, e, j), m.history)
      /\ KeyIndex(SetIndex(m.keyIdx, k, l), m.active)
  BY <1>1, EventIndexSet, KeyIndexSet DEF WithEvent, WithKey
<1>3. MemoryOK([m EXCEPT !.eventIdx = SetIndex(@, e, i)])
  BY <1>2 DEF MemoryOK, IsMemory
<1>4. MemoryOK([m EXCEPT !.histIdx = SetIndex(@, e, j)])
  BY <1>2 DEF MemoryOK, IsMemory
<1>5. MemoryOK([m EXCEPT !.keyIdx = SetIndex(@, k, l)])
  BY <1>2 DEF MemoryOK, IsMemory
<1>6. QED BY <1>3, <1>4, <1>5

SameButIndexes(m, n) ==
  /\ n.active = m.active /\ n.history = m.history /\ n.delivered = m.delivered
  /\ n.idle = m.idle /\ n.timeouts = m.timeouts

\* _resolve_notification_request: the memory stays sound, and which id it answers with.
LEMMA ResolveOK ==
  ASSUME MemoryOK(d), NEW r \in Requests, Resolve(r).id <= MaxId
  PROVE  LET to == Resolve(r)
         IN  /\ MemoryOK(to.m) /\ to.id \in Ids /\ SameButIndexes(d, to.m)
             /\ to.only \in BOOLEAN /\ to.m.nextId >= d.nextId
             /\ r.replaces # 0 => to.id = r.replaces /\ ~to.only
             /\ r.replaces = 0 /\ ~to.only =>
                  \/ to.id \in DOMAIN d.active
                  \/ to.id < to.m.nextId /\ to.id = d.nextId
             /\ r.replaces = 0 /\ r.event \in Events /\ WithEvent(d.active, r.event) # {} =>
                  ~to.only /\ to.id \in WithEvent(d.active, r.event)
             /\ r.replaces = 0 /\ r.event \in DOMAIN d.delivered
                  /\ WithEvent(d.active, r.event) = {} => to.only
<1> DEFINE byEvent == Lookup(d.eventIdx, r.event, WithEvent(d.active, r.event), d.active)
           m1 == [d EXCEPT !.eventIdx = SetIndex(@, r.event, byEvent)]
           byHistory == Lookup(d.histIdx, r.event, WithEvent(d.history, r.event), d.history)
           m2 == [m1 EXCEPT !.histIdx = SetIndex(@, r.event, byHistory)]
           byKey == Lookup(d.keyIdx, r.key, WithKey(d.active, r.key), d.active)
           m3 == [m2 EXCEPT !.keyIdx = SetIndex(@, r.key, byKey)]
           m4 == [m3 EXCEPT !.nextId = @ + 1]
           to == Resolve(r)
<1>0. to = CASE r.replaces # 0 -> [id |-> r.replaces, only |-> FALSE, m |-> d]
             [] r.replaces = 0 /\ byEvent # 0 -> [id |-> byEvent, only |-> FALSE, m |-> m1]
             [] r.replaces = 0 /\ byEvent = 0 /\ r.event \in DOMAIN d.delivered ->
                  [id |-> d.delivered[r.event].id, only |-> TRUE, m |-> m1]
             [] OTHER ->
                  IF byHistory # 0 THEN [id |-> byHistory, only |-> TRUE, m |-> m2]
                  ELSE IF byKey # 0 THEN [id |-> byKey, only |-> FALSE, m |-> m3]
                  ELSE [id |-> d.nextId, only |-> FALSE, m |-> m4]
  BY DEF Resolve
<1>2. /\ byEvent = 0 \/ byEvent \in WithEvent(d.active, r.event)
      /\ byHistory = 0 \/ byHistory \in WithEvent(d.history, r.event)
      /\ byKey = 0 \/ byKey \in WithKey(d.active, r.key)
      /\ r.event \in Events /\ WithEvent(d.active, r.event) # {} =>
           byEvent \in WithEvent(d.active, r.event)
  BY LookupsOK
<1> HIDE DEF byEvent, byHistory, byKey, m1, m2, m3, m4, to
<1>1. \/ r.replaces # 0 /\ to = [id |-> r.replaces, only |-> FALSE, m |-> d]
      \/ r.replaces = 0 /\ byEvent # 0 /\ to = [id |-> byEvent, only |-> FALSE, m |-> m1]
      \/ /\ r.replaces = 0 /\ byEvent = 0 /\ r.event \in DOMAIN d.delivered
         /\ to = [id |-> d.delivered[r.event].id, only |-> TRUE, m |-> m1]
      \/ /\ r.replaces = 0 /\ byEvent = 0 /\ r.event \notin DOMAIN d.delivered
         /\ byHistory # 0 /\ to = [id |-> byHistory, only |-> TRUE, m |-> m2]
      \/ /\ r.replaces = 0 /\ byEvent = 0 /\ r.event \notin DOMAIN d.delivered
         /\ byKey # 0 /\ to = [id |-> byKey, only |-> FALSE, m |-> m3]
      \/ /\ r.replaces = 0 /\ byEvent = 0 /\ r.event \notin DOMAIN d.delivered
         /\ to = [id |-> d.nextId, only |-> FALSE, m |-> m4]
  BY <1>0
<1>3. MemoryOK(m1) /\ SameButIndexes(d, m1) /\ m1.nextId = d.nextId
  <2>1. MemoryOK(m1)
    BY <1>2, RepairedOK DEF m1
  <2>2. QED BY <2>1 DEF m1, SameButIndexes, MemoryOK, IsMemory
<1>4. MemoryOK(m2) /\ SameButIndexes(d, m2) /\ m2.nextId = d.nextId
  <2>1. MemoryOK(m2)
    BY <1>2, <1>3, RepairedOK DEF m2, SameButIndexes
  <2>2. QED BY <1>3, <2>1 DEF m2, SameButIndexes, MemoryOK, IsMemory
<1>5. MemoryOK(m3) /\ SameButIndexes(d, m3) /\ m3.nextId = d.nextId
  <2>1. MemoryOK(m3)
    BY <1>2, <1>4, RepairedOK DEF m3, SameButIndexes
  <2>2. QED BY <1>4, <2>1 DEF m3, SameButIndexes, MemoryOK, IsMemory
<1>6. d.nextId <= MaxId => MemoryOK(m4) /\ SameButIndexes(d, m4) /\ m4.nextId = d.nextId + 1
  <2>1. d.nextId \in 1..(MaxId + 1)
    BY DEF MemoryOK
  <2>2. IsMemory(m3)
    BY <1>5 DEF MemoryOK
  <2>3. /\ IsMemory(m4) /\ m4.nextId = d.nextId + 1 /\ SameButIndexes(m3, m4)
        /\ m4.eventIdx = m3.eventIdx /\ m4.histIdx = m3.histIdx /\ m4.keyIdx = m3.keyIdx
        /\ m4.sources = m3.sources
    BY <1>5, <2>2 DEF m4, SameButIndexes, IsMemory
  <2>4. QED BY <1>5, <2>1, <2>3 DEF MemoryOK, SameButIndexes
<1>7. /\ DOMAIN d.active \subseteq Ids /\ DOMAIN d.history \subseteq Ids
      /\ DOMAIN d.delivered \subseteq Events
      /\ \A e \in DOMAIN d.delivered : d.delivered[e].id \in Ids
      /\ d.nextId \in Nat \ {0}
  BY DEF MemoryOK, Active, History, Delivered, IsMap, DeliveredEntry
<1>8. /\ r.replaces \in Ids \cup {0}
      /\ WithEvent(d.active, r.event) \subseteq DOMAIN d.active
      /\ WithEvent(d.history, r.event) \subseteq DOMAIN d.history
      /\ WithKey(d.active, r.key) \subseteq DOMAIN d.active
  BY DEF Requests, WithEvent, WithKey
<1>9. SameButIndexes(d, d)
  BY DEF SameButIndexes
<1>10. CASE r.replaces # 0 /\ to = [id |-> r.replaces, only |-> FALSE, m |-> d]
  BY <1>7, <1>8, <1>9, <1>10 DEF to
<1>11. CASE r.replaces = 0 /\ byEvent # 0 /\ to = [id |-> byEvent, only |-> FALSE, m |-> m1]
  BY <1>2, <1>3, <1>7, <1>8, <1>11 DEF to
<1>12. CASE /\ r.replaces = 0 /\ byEvent = 0 /\ r.event \in DOMAIN d.delivered
            /\ to = [id |-> d.delivered[r.event].id, only |-> TRUE, m |-> m1]
  BY <1>2, <1>3, <1>7, <1>8, <1>12, IdsArePositive DEF to
<1>13. CASE /\ r.replaces = 0 /\ byEvent = 0 /\ r.event \notin DOMAIN d.delivered
            /\ byHistory # 0 /\ to = [id |-> byHistory, only |-> TRUE, m |-> m2]
  BY <1>2, <1>4, <1>7, <1>8, <1>13, IdsArePositive DEF to
<1>14. CASE /\ r.replaces = 0 /\ byEvent = 0 /\ r.event \notin DOMAIN d.delivered
            /\ byKey # 0 /\ to = [id |-> byKey, only |-> FALSE, m |-> m3]
  BY <1>2, <1>5, <1>7, <1>8, <1>14, IdsArePositive DEF to
<1>15. CASE /\ r.replaces = 0 /\ byEvent = 0 /\ r.event \notin DOMAIN d.delivered
            /\ to = [id |-> d.nextId, only |-> FALSE, m |-> m4]
  <2>1. d.nextId \in Ids
    BY <1>7, <1>15 DEF to, Ids
  <2>2. MemoryOK(m4) /\ SameButIndexes(d, m4) /\ m4.nextId = d.nextId + 1
    BY <1>6, <1>7, <1>15 DEF to
  <2>3. QED BY <1>2, <1>7, <1>8, <1>15, <2>1, <2>2, IdsArePositive DEF to
<1>16. QED BY <1>1, <1>10, <1>11, <1>12, <1>13, <1>14, <1>15

(* Starting *)

Fresh(m) == \A id \in DOMAIN m.history \cup DOMAIN m.active : id < m.nextId

\* An empty map is a map of any keys and entries.
LEMMA EmptyMapOK ==
  /\ DOMAIN EmptyMap = {}
  /\ \A K, V : IsMap(EmptyMap, K, V) /\ Dense(EmptyMap) /\ \A n : Below(EmptyMap, n)
BY FS_EmptySet DEF EmptyMap, IsMap, Dense, Below

\* A map without keys is the empty map.
LEMMA NoKeysIsEmpty ==
  ASSUME NEW f, NEW K, NEW V, IsMap(f, K, V), DOMAIN f = {} PROVE f = EmptyMap
<1>1. f = [x \in {} |-> f[x]]
  BY DEF IsMap
<1>2. QED BY <1>1 DEF EmptyMap

\* A new daemon's memory is sound.
LEMMA BlankOK == MemoryOK(Blank) /\ Blank.active = EmptyMap /\ Blank.delivered = EmptyMap
                 /\ Blank.history = EmptyMap /\ Blank.idle = FALSE
<1>1. /\ IsMemory(Blank) /\ Blank.nextId = 1 /\ Blank.idle = FALSE
      /\ Blank.active = EmptyMap /\ Blank.history = EmptyMap /\ Blank.delivered = EmptyMap
      /\ Blank.eventIdx = [e \in Events |-> 0] /\ Blank.keyIdx = [k \in Keys |-> 0]
      /\ Blank.histIdx = [e \in Events |-> 0]
      /\ Blank.timeouts = {} /\ Blank.sources = [i \in Ids |-> 0]
  BY DEF Blank, IsMemory, NoIds
<1>2. Active(EmptyMap) /\ History(EmptyMap) /\ Delivered(EmptyMap)
  BY EmptyMapOK DEF Active, History, Delivered
<1>3. /\ EventIndex([e \in Events |-> 0], EmptyMap)
      /\ KeyIndex([k \in Keys |-> 0], EmptyMap)
  BY DEF EventIndex, KeyIndex, IdsOrNone
<1>4. Timers({}, [i \in Ids |-> 0], {})
  BY DEF Timers
<1>5. DOMAIN EmptyMap = {}
  BY EmptyMapOK
<1>6. Blank.nextId \in 1..(MaxId + 1)
  BY <1>1
<1>7. MemoryOK(Blank)
  BY <1>1, <1>2, <1>3, <1>4, <1>5, <1>6 DEF MemoryOK
<1>8. QED BY <1>1, <1>7

\* The next id after a start is above all ids of the history.
LEMMA NextAfterOK ==
  ASSUME NEW S \in SUBSET Ids
  PROVE  NextAfter(S) \in 1..(MaxId + 1) /\ \A i \in S : i < NextAfter(S)
<1>1. CASE S = {}
  BY <1>1 DEF NextAfter
<1>2. CASE S # {}
  <2>1. S \in SUBSET Nat /\ \A i \in S : i <= MaxId
    BY DEF Ids
  <2>2. \E i \in S : \A j \in S : j <= i
    BY <1>2, <2>1, GreatestOf
  <2>3. PICK i \in S : /\ i = CHOOSE x \in S : \A j \in S : j <= x
                       /\ \A j \in S : j <= i
    BY <2>2
  <2>4. NextAfter(S) = 1 + i
    BY <1>2, <2>3 DEF NextAfter
  <2>5. i \in 1..MaxId /\ \A j \in S : j \in Nat
    BY <2>1 DEF Ids
  <2>6. NextAfter(S) \in 1..(MaxId + 1)
    BY <2>4, <2>5
  <2>7. \A j \in S : j < 1 + i
    BY <2>3, <2>5
  <2>8. QED BY <2>4, <2>6, <2>7
<1>3. QED BY <1>1, <1>2

\* What _load_state takes as the history.
LoadedItems(f) ==
  IF f.history # EmptyMap THEN f.history
  ELSE [i \in DOMAIN f.active |-> [event |-> f.active[i].event, rank |-> f.active[i].rank]]

\* The history that is loaded is sound, also when active banners stand in for it.
LEMMA LoadedItemsOK ==
  ASSUME NEW f, Active(f.active), History(f.history)
  PROVE  /\ IsMap(LoadedItems(f), Ids, HistoryEntry)
         /\ History(Newest(LoadedItems(f), MaxHistory))
<1> DEFINE items == LoadedItems(f)
           upItems == [i \in DOMAIN f.active |->
                       [event |-> f.active[i].event, rank |-> f.active[i].rank]]
<1>1. IsMap(upItems, Ids, HistoryEntry)
  BY DEF Active, IsMap, ActiveEntry, HistoryEntry
<1>2. IsMap(items, Ids, HistoryEntry)
  BY <1>1 DEF LoadedItems, History
<1> HIDE DEF items
<1>3. /\ IsMap(Newest(items, MaxHistory), Ids, HistoryEntry)
      /\ Below(Newest(items, MaxHistory), MaxHistory)
  BY <1>2, EntryTypes, NewestMap
<1>4. QED BY <1>2, <1>3 DEF History, items

\* The delivered events are numbered anew: first those of the history, youngest
\* first, then the others as they were.
LEMMA LoadedDeliveriesOK ==
  ASSUME NEW saved, History(saved), NEW old, Delivered(old)
  PROVE  LET last(e) == Youngest(saved, WithEvent(saved, e))
             inHistory == {e \in Events : WithEvent(saved, e) # {}}
             known == inHistory \cup DOMAIN old
             age(e) == IF e \in inHistory THEN saved[last(e)].rank ELSE MaxHistory + old[e].rank
             l == Newest([e \in known |->
                    [id   |-> IF e \in inHistory THEN last(e) ELSE old[e].id,
                     rank |-> Cardinality({x \in known : age(x) < age(e)})]], MaxDelivered)
         IN  /\ Delivered(l)
             /\ Roomy => Dense(l) /\ DOMAIN l = known
<1> DEFINE last(e) == Youngest(saved, WithEvent(saved, e))
           inHistory == {e \in Events : WithEvent(saved, e) # {}}
           known == inHistory \cup DOMAIN old
           age(e) == IF e \in inHistory THEN saved[last(e)].rank ELSE MaxHistory + old[e].rank
           r(e) == Cardinality({x \in known : age(x) < age(e)})
           t == [e \in known |-> [id   |-> IF e \in inHistory THEN last(e) ELSE old[e].id,
                                  rank |-> r(e)]]
           l == Newest(t, MaxDelivered)
<1>1. /\ IsMap(saved, Ids, HistoryEntry) /\ Below(saved, MaxHistory)
      /\ IsMap(old, Events, DeliveredEntry)
  BY DEF History, Delivered
<1>2. ASSUME NEW e \in inHistory
      PROVE  last(e) \in DOMAIN saved /\ saved[last(e)].event = e
  <2>1. WithEvent(saved, e) \in SUBSET DOMAIN saved /\ WithEvent(saved, e) # {}
    BY DEF WithEvent
  <2>2. last(e) \in WithEvent(saved, e)
    BY <1>1, <2>1, EntryTypes, YoungestIn
  <2>3. QED BY <2>2 DEF WithEvent
<1>3. known \subseteq Events
  BY <1>1 DEF IsMap
<1>4. ASSUME NEW e \in inHistory PROVE age(e) \in Nat /\ age(e) < MaxHistory
  <2> HIDE DEF last
  <2>1. saved[last(e)].rank \in Nat /\ saved[last(e)].rank < MaxHistory
    BY <1>1, <1>2, EntryTypes DEF IsMap, Below, IsEntry
  <2>2. QED BY <2>1
<1>5. ASSUME NEW e \in known \ inHistory
      PROVE  /\ age(e) = MaxHistory + old[e].rank /\ old[e].rank \in Nat
             /\ age(e) \in Nat /\ age(e) >= MaxHistory
  <2>1. e \in DOMAIN old /\ old[e].rank \in Nat
    BY <1>1, EntryTypes DEF IsMap, IsEntry
  <2>2. age(e) = MaxHistory + old[e].rank
    OBVIOUS
  <2> HIDE DEF age
  <2>3. QED BY <2>1, <2>2
<1>6. ASSUME NEW e \in known, NEW g \in known, age(e) = age(g) PROVE e = g
  <2>1. CASE e \in inHistory /\ g \in inHistory
    <3>1. saved[last(e)].rank = saved[last(g)].rank
      BY <1>6, <2>1
    <3> HIDE DEF last
    <3>2. last(e) = last(g)
      BY <1>1, <1>2, <2>1, <3>1 DEF IsMap
    <3>3. QED BY <1>2, <2>1, <3>2
  <2>2. CASE e \notin inHistory /\ g \notin inHistory
    <3>1. /\ age(e) = MaxHistory + old[e].rank /\ old[e].rank \in Nat
          /\ age(g) = MaxHistory + old[g].rank /\ old[g].rank \in Nat
      BY <1>5, <2>2
    <3>2. old[e].rank = old[g].rank
      <4>1. age(e) = age(g)
        BY <1>6
      <4> HIDE DEF age
      <4>2. MaxHistory + old[e].rank = MaxHistory + old[g].rank
        BY <3>1, <4>1
      <4>3. QED BY <3>1, <4>2
    <3>3. e \in DOMAIN old /\ g \in DOMAIN old
      BY <2>2
    <3>4. QED BY <1>1, <3>2, <3>3 DEF IsMap
  <2>3. CASE e \in inHistory /\ g \notin inHistory
    <3> HIDE DEF age, inHistory
    <3> QED BY <1>4, <1>5, <1>6, <2>3
  <2>4. CASE e \notin inHistory /\ g \in inHistory
    <3> HIDE DEF age, inHistory
    <3> QED BY <1>4, <1>5, <1>6, <2>4
  <2>5. QED BY <2>1, <2>2, <2>3, <2>4
<1>7. ASSUME NEW e \in known PROVE age(e) \in Nat
  <2> HIDE DEF age
  <2> QED BY <1>4, <1>5
<1>8. /\ \A x \in known : r(x) \in Nat
      /\ \A x, y \in known : r(x) = r(y) => x = y
      /\ IsFiniteSet(known) => \A x \in known : r(x) < Cardinality(known)
  <2> DEFINE a == [x \in known |-> age(x)]
             q(x) == Cardinality({y \in known : a[y] < a[x]})
  <2>1. a \in [known -> Nat] /\ \A x, y \in known : a[x] = a[y] => x = y
    <3> HIDE DEF age, known
    <3> QED BY <1>6, <1>7
  <2>2. /\ \A x \in known : q(x) \in Nat
        /\ \A x, y \in known : q(x) = q(y) => x = y
        /\ IsFiniteSet(known) => \A x \in known : q(x) < Cardinality(known)
    <3> HIDE DEF a, known
    <3> QED BY <2>1, RanksByAge
  <2>3. \A x \in known : {y \in known : a[y] < a[x]} = {y \in known : age(y) < age(x)}
    <3> HIDE DEF age, known
    <3> QED OBVIOUS
  <2>4. \A x \in known : q(x) = r(x)
    <3> HIDE DEF age, known, a
    <3> QED BY <2>3
  <2> HIDE DEF q, r, known
  <2>5. QED BY <2>2, <2>4
<1>9. \A e \in known : (IF e \in inHistory THEN last(e) ELSE old[e].id) \in Ids
  <2>1. \A e \in DOMAIN old : old[e].id \in Ids
    BY <1>1 DEF IsMap, DeliveredEntry
  <2>2. DOMAIN saved \subseteq Ids
    BY <1>1 DEF IsMap
  <2> HIDE DEF last
  <2>3. QED BY <1>2, <2>1, <2>2
<1>10. IsMap(t, Events, DeliveredEntry)
  <2>1. DOMAIN t = known /\ t = [e \in DOMAIN t |-> t[e]]
    OBVIOUS
  <2>2. \A e \in known : t[e] \in DeliveredEntry /\ t[e].rank = r(e)
    <3> HIDE DEF r, known, inHistory, last
    <3> QED BY <1>8, <1>9 DEF DeliveredEntry
  <2> HIDE DEF t, r, known
  <2>3. QED BY <1>3, <1>8, <2>1, <2>2 DEF IsMap
<1>11. DOMAIN t = known /\ \A e \in known : t[e].rank = r(e)
  <2> HIDE DEF r, known, inHistory, last
  <2> QED OBVIOUS
<1> HIDE DEF t, r, known
<1>12. Delivered(l) /\ (Below(t, MaxDelivered) => l = t)
  BY <1>10, EntryTypes, NewestMap DEF Delivered
<1>13. ASSUME Roomy PROVE Dense(l) /\ DOMAIN l = known
  <2>1. /\ IsFiniteSet(known) /\ Cardinality(known) <= Cardinality(Events)
        /\ Cardinality(known) \in Nat /\ Cardinality(Events) \in Nat
    BY <1>3, <1>13, FS_Subset, FS_CardinalityType DEF Roomy
  <2>2. Dense(t)
    BY <1>8, <1>11, <2>1 DEF Dense, Below
  <2>3. Below(t, MaxDelivered)
    BY <1>8, <1>11, <1>13, <2>1 DEF Below, Roomy
  <2>4. QED BY <1>11, <1>12, <2>2, <2>3
<1>14. QED BY <1>12, <1>13 DEF t, r, known

\* _load_state makes a sound memory of a sound file, and forgets no delivery for which
\* there is room.
LEMMA LoadOK ==
  ASSUME NEW f, Active(f.active), History(f.history), Delivered(f.delivered)
  PROVE  LET n == Load(f)
         IN  /\ MemoryOK(n) /\ Fresh(n) /\ n.active = EmptyMap /\ n.idle = FALSE
             /\ Roomy => Dense(n.delivered) /\ DOMAIN f.delivered \subseteq DOMAIN n.delivered
<1> DEFINE saved == Newest(LoadedItems(f), MaxHistory)
           last(e) == Youngest(saved, WithEvent(saved, e))
           inHistory == {e \in Events : WithEvent(saved, e) # {}}
           idx == [e \in Events |-> IF e \in inHistory THEN last(e) ELSE 0]
           known == inHistory \cup DOMAIN f.delivered
           age(e) == IF e \in inHistory THEN saved[last(e)].rank
                                        ELSE MaxHistory + f.delivered[e].rank
           l == Newest([e \in known |->
                  [id   |-> IF e \in inHistory THEN last(e) ELSE f.delivered[e].id,
                   rank |-> Cardinality({x \in known : age(x) < age(e)})]], MaxDelivered)
           n == Load(f)
<1>1. n = [Blank EXCEPT !.history = saved, !.histIdx = idx, !.delivered = l,
                        !.nextId = NextAfter(DOMAIN saved)]
  BY DEF Load, LoadedItems
<1>2. History(saved)
  BY LoadedItemsOK
<1>3. Delivered(l) /\ (Roomy => Dense(l) /\ DOMAIN l = known)
  <2> HIDE DEF saved
  <2> QED BY <1>2, LoadedDeliveriesOK
<1>4. EventIndex(idx, saved)
  <2> HIDE DEF saved
  <2>1. IsMap(saved, Ids, HistoryEntry)
    BY <1>2 DEF History
  <2>2. ASSUME NEW e \in inHistory
        PROVE  last(e) \in Ids /\ last(e) \in DOMAIN saved /\ saved[last(e)].event = e
    <3>1. WithEvent(saved, e) \in SUBSET DOMAIN saved /\ WithEvent(saved, e) # {}
      BY DEF WithEvent
    <3>2. last(e) \in WithEvent(saved, e)
      BY <2>1, <3>1, EntryTypes, YoungestIn
    <3>3. QED BY <2>1, <3>2 DEF WithEvent, IsMap
  <2> HIDE DEF last, inHistory
  <2>3. QED BY <2>2 DEF EventIndex, IdsOrNone
<1> HIDE DEF n, saved, idx, l
<1>5. /\ IsMemory(n) /\ n.history = saved /\ n.histIdx = idx /\ n.delivered = l
      /\ n.nextId = NextAfter(DOMAIN saved) /\ n.active = Blank.active
      /\ n.eventIdx = Blank.eventIdx /\ n.keyIdx = Blank.keyIdx
      /\ n.timeouts = Blank.timeouts /\ n.sources = Blank.sources /\ n.idle = Blank.idle
  BY <1>1 DEF Blank, IsMemory
<1>6. /\ NextAfter(DOMAIN saved) \in 1..(MaxId + 1)
      /\ \A i \in DOMAIN saved : i < NextAfter(DOMAIN saved)
  BY <1>2, NextAfterOK DEF History, IsMap
<1>7. MemoryOK(n)
  BY <1>2, <1>3, <1>4, <1>5, <1>6, BlankOK DEF MemoryOK
<1>8. Fresh(n)
  BY <1>5, <1>6, BlankOK, EmptyMapOK DEF Fresh
<1>9. QED BY <1>3, <1>5, <1>7, <1>8, BlankOK DEF n

(* What the calls do to the memory *)

IdleSound == d.idle <=> d.active = EmptyMap

\* No banner of now carries another event than before.
FewerBanners(m, n) ==
  /\ DOMAIN n.active \subseteq DOMAIN m.active
  /\ \A x \in DOMAIN n.active : n.active[x].event = m.active[x].event

\* Notify: what becomes of banners, history and deliveries in each of its three ends.
LEMMA NotifyEffect ==
  ASSUME MemoryOK(d), IdleSound, NEW r \in Requests, Notify(r)
  PROVE  LET to == Resolve(r)
         IN  /\ MemoryOK(d') /\ IdleSound' /\ to.id \in Ids /\ to.id <= MaxId
             /\ d'.nextId = to.m.nextId
             /\ to.only => /\ d'.active = d.active /\ d'.history = d.history
                           /\ d'.delivered = d.delivered
             /\ ~to.only /\ r.banner =>
                  /\ DOMAIN d'.active = DOMAIN d.active \cup {to.id}
                  /\ d'.active[to.id].event = r.event
                  /\ \A x \in DOMAIN d.active \ {to.id} : d'.active[x].event = d.active[x].event
             /\ ~to.only /\ ~r.banner =>
                  /\ FewerBanners(d, d')
                  /\ DOMAIN d'.active = DOMAIN d.active \ {to.id}
             /\ ~to.only =>
                  /\ DOMAIN d'.history \subseteq DOMAIN d.history \cup {to.id}
                  /\ Roomy /\ Dense(d.delivered) =>
                       /\ Dense(d'.delivered)
                       /\ DOMAIN d'.delivered = DOMAIN d.delivered \cup ({r.event} \cap Events)
<1> DEFINE to == Resolve(r)
           remembered == RememberHistory(to.m, to.id, r.event)
<1>1. /\ to.id <= MaxId
      /\ d' = IF to.only THEN ScheduleIdle(to.m)
              ELSE IF r.banner
                THEN ScheduleExpiry([StoreActive(remembered, to.id, r.event, r.key)
                                       EXCEPT !.idle = FALSE], to.id, r.timed)
                ELSE ScheduleIdle(RemoveActive(CancelExpiry(remembered, to.id), to.id))
  BY DEF Notify
<1>2. /\ r.event \in Events \cup {NoEvent} /\ r.key \in Keys \cup {NoKey}
      /\ r.banner \in BOOLEAN /\ r.timed \in BOOLEAN
  BY DEF Requests
<1>3. MemoryOK(to.m) /\ to.id \in Ids /\ SameButIndexes(d, to.m)
  BY <1>1, ResolveOK
<1> HIDE DEF to
<1>4. CASE to.only
  <2>1. d' = ScheduleIdle(to.m)
    BY <1>1, <1>4
  <2>2. /\ MemoryOK(d') /\ d'.nextId = to.m.nextId /\ d'.active = to.m.active
        /\ d'.history = to.m.history /\ d'.delivered = to.m.delivered
        /\ d'.idle = (to.m.idle \/ to.m.active = EmptyMap)
    BY <1>3, <2>1, ScheduleIdleOK
  <2>3. QED BY <1>1, <1>3, <1>4, <2>2 DEF SameButIndexes, IdleSound, to
<1>5. /\ MemoryOK(remembered)
      /\ remembered.nextId = to.m.nextId /\ remembered.active = d.active
      /\ remembered.idle = d.idle
      /\ DOMAIN remembered.history \subseteq DOMAIN d.history \cup {to.id}
      /\ Roomy /\ Dense(d.delivered) =>
           /\ Dense(remembered.delivered)
           /\ DOMAIN remembered.delivered = DOMAIN d.delivered \cup ({r.event} \cap Events)
  BY <1>2, <1>3, RememberHistoryOK DEF SameButIndexes
<1> HIDE DEF remembered
<1>6. CASE ~to.only /\ r.banner
  <2> DEFINE s == StoreActive(remembered, to.id, r.event, r.key)
             up == [s EXCEPT !.idle = FALSE]
  <2>1. d' = ScheduleExpiry(up, to.id, r.timed)
    BY <1>1, <1>6
  <2>2. /\ MemoryOK(s)
        /\ s.nextId = remembered.nextId /\ s.history = remembered.history
        /\ s.delivered = remembered.delivered
        /\ DOMAIN s.active = DOMAIN remembered.active \cup {to.id}
        /\ s.active[to.id].event = r.event
        /\ \A x \in DOMAIN remembered.active \ {to.id} :
             s.active[x].event = remembered.active[x].event
    BY <1>2, <1>3, <1>5, StoreActiveOK
  <2> HIDE DEF s
  <2>3. up = [s EXCEPT !.idle = FALSE]
    OBVIOUS
  <2> HIDE DEF up
  <2>4. /\ IsMemory(up) /\ up.idle = FALSE /\ up.active = s.active /\ up.nextId = s.nextId
        /\ up.history = s.history /\ up.delivered = s.delivered
        /\ up.eventIdx = s.eventIdx /\ up.keyIdx = s.keyIdx /\ up.histIdx = s.histIdx
        /\ up.timeouts = s.timeouts /\ up.sources = s.sources
    BY <2>2, <2>3 DEF MemoryOK, IsMemory
  <2>5. MemoryOK(up)
    BY <2>2, <2>4 DEF MemoryOK
  <2>6. /\ MemoryOK(d') /\ d'.nextId = up.nextId /\ d'.active = up.active
        /\ d'.history = up.history /\ d'.delivered = up.delivered /\ d'.idle = up.idle
    <3>1. to.id \in DOMAIN up.active
      BY <2>2, <2>4
    <3>2. QED BY <1>2, <2>1, <2>5, <3>1, ScheduleExpiryOK
  <2>7. /\ d'.nextId = to.m.nextId
        /\ DOMAIN d'.active = DOMAIN d.active \cup {to.id}
        /\ d'.active[to.id].event = r.event
        /\ \A x \in DOMAIN d.active \ {to.id} : d'.active[x].event = d.active[x].event
        /\ DOMAIN d'.history \subseteq DOMAIN d.history \cup {to.id}
        /\ d'.delivered = remembered.delivered /\ d'.idle = FALSE
    BY <1>5, <2>2, <2>4, <2>6
  <2>8. IdleSound'
    BY <2>7, EmptyMapOK DEF IdleSound
  <2>9. QED BY <1>1, <1>3, <1>5, <1>6, <2>6, <2>7, <2>8 DEF to
<1>7. CASE ~to.only /\ ~r.banner
  <2> DEFINE c == CancelExpiry(remembered, to.id)
             s == RemoveActive(c, to.id)
  <2>1. d' = ScheduleIdle(s)
    BY <1>1, <1>7
  <2>2. /\ MemoryOK(c) /\ to.id \notin c.timeouts
        /\ c.nextId = remembered.nextId /\ c.active = remembered.active
        /\ c.history = remembered.history /\ c.delivered = remembered.delivered
        /\ c.idle = remembered.idle
    BY <1>3, <1>5, CancelExpiryOK
  <2> HIDE DEF c
  <2>3. /\ MemoryOK(s)
        /\ s.nextId = c.nextId /\ s.active = Drop(c.active, to.id) /\ s.history = c.history
        /\ s.delivered = c.delivered /\ s.idle = c.idle
        /\ DOMAIN s.active = DOMAIN c.active \ {to.id}
        /\ \A x \in DOMAIN s.active : s.active[x].event = c.active[x].event
    BY <1>3, <2>2, RemoveActiveOK
  <2> HIDE DEF s
  <2>4. /\ MemoryOK(d') /\ d'.nextId = s.nextId /\ d'.active = s.active
        /\ d'.history = s.history /\ d'.delivered = s.delivered
        /\ d'.idle = (s.idle \/ s.active = EmptyMap)
    BY <2>1, <2>3, ScheduleIdleOK
  <2>5. IdleSound'
    <3>1. d.active = EmptyMap => DOMAIN s.active = {}
      BY <1>5, <2>2, <2>3, EmptyMapOK
    <3>2. IsMap(s.active, Ids, ActiveEntry)
      BY <2>3 DEF MemoryOK, Active
    <3>3. d.active = EmptyMap => s.active = EmptyMap
      BY <3>1, <3>2, NoKeysIsEmpty
    <3>4. QED BY <1>5, <2>2, <2>3, <2>4, <3>3 DEF IdleSound
  <2>6. QED BY <1>1, <1>3, <1>5, <1>7, <2>2, <2>3, <2>4, <2>5 DEF FewerBanners, to
<1>8. QED BY <1>4, <1>6, <1>7

\* Closing a banner that is up.
LEMMA CloseEffect ==
  ASSUME NEW m, MemoryOK(m), NEW id \in DOMAIN m.active, id \notin m.timeouts,
         m.idle <=> m.active = EmptyMap, NEW n, n = ScheduleIdle(RemoveActive(m, id))
  PROVE  /\ MemoryOK(n) /\ (n.idle <=> n.active = EmptyMap)
         /\ n.nextId = m.nextId /\ n.history = m.history /\ n.delivered = m.delivered
         /\ FewerBanners(m, n) /\ DOMAIN n.active = DOMAIN m.active \ {id}
<1> DEFINE s == RemoveActive(m, id)
<1>1. id \in Ids
  BY DEF MemoryOK, Active, IsMap
<1>2. /\ MemoryOK(s)
      /\ s.nextId = m.nextId /\ s.active = Drop(m.active, id) /\ s.history = m.history
      /\ s.delivered = m.delivered /\ s.idle = m.idle
      /\ DOMAIN s.active = DOMAIN m.active \ {id}
      /\ \A x \in DOMAIN s.active : s.active[x].event = m.active[x].event
  BY <1>1, RemoveActiveOK
<1> HIDE DEF s
<1>3. /\ MemoryOK(n) /\ n.nextId = s.nextId /\ n.active = s.active
      /\ n.history = s.history /\ n.delivered = s.delivered
      /\ n.idle = (s.idle \/ s.active = EmptyMap)
  BY <1>2, ScheduleIdleOK DEF s
<1>4. m.idle = FALSE
  BY EmptyMapOK DEF MemoryOK
<1>5. QED BY <1>2, <1>3, <1>4 DEF FewerBanners

\* CloseNotification takes down the banner, or changes nothing but a timer.
LEMMA CloseNotificationEffect ==
  ASSUME MemoryOK(d), IdleSound, NEW id \in Ids, CloseNotification(id)
  PROVE  /\ MemoryOK(d') /\ IdleSound' /\ FewerBanners(d, d')
         /\ d'.nextId = d.nextId /\ d'.history = d.history /\ d'.delivered = d.delivered
         /\ \/ /\ UNCHANGED <<call, pc>> /\ d'.active = d.active
            \/ /\ call' = [NoCall EXCEPT !.kind = "close", !.id = id] /\ pc' = "writing"
               /\ DOMAIN d'.active = DOMAIN d.active \ {id}
<1> DEFINE m == CancelExpiry(d, id)
<1>1. /\ MemoryOK(m) /\ id \notin m.timeouts
      /\ m.nextId = d.nextId /\ m.active = d.active /\ m.history = d.history
      /\ m.delivered = d.delivered /\ m.idle = d.idle
  BY CancelExpiryOK
<1> HIDE DEF m
<1>2. CASE id \in DOMAIN d.active
  <2>1. /\ d' = ScheduleIdle(RemoveActive(m, id)) /\ pc' = "writing"
        /\ call' = [NoCall EXCEPT !.kind = "close", !.id = id]
    BY <1>2 DEF CloseNotification, BeginClose, m
  <2>2. /\ MemoryOK(d') /\ (d'.idle <=> d'.active = EmptyMap)
        /\ d'.nextId = m.nextId /\ d'.history = m.history /\ d'.delivered = m.delivered
        /\ FewerBanners(m, d') /\ DOMAIN d'.active = DOMAIN m.active \ {id}
    BY <1>1, <1>2, <2>1, CloseEffect DEF IdleSound
  <2>3. QED BY <1>1, <2>1, <2>2 DEF IdleSound, FewerBanners
<1>3. CASE id \notin DOMAIN d.active
  <2>1. d' = m /\ UNCHANGED <<call, pc>>
    BY <1>3 DEF CloseNotification, m
  <2>2. QED BY <1>1, <2>1 DEF IdleSound, FewerBanners
<1>4. QED BY <1>2, <1>3

\* A source that fires is the one of an active banner.
LEMMA ExpireEffect ==
  ASSUME MemoryOK(d), IdleSound, NEW id \in Ids, Expire(id)
  PROVE  /\ MemoryOK(d') /\ IdleSound' /\ FewerBanners(d, d')
         /\ d'.nextId = d.nextId /\ d'.history = d.history /\ d'.delivered = d.delivered
         /\ call' = [NoCall EXCEPT !.kind = "close", !.id = id] /\ pc' = "writing"
         /\ DOMAIN d'.active = DOMAIN d.active \ {id}
<1> DEFINE m == ForgetTimeout([d EXCEPT !.sources[id] = @ - 1], id)
<1>1. Timers(d.timeouts, d.sources, DOMAIN d.active) /\ d.sources[id] > 0
  BY DEF MemoryOK, Expire
<1>2. id \in d.timeouts /\ id \in DOMAIN d.active
  BY <1>1 DEF Timers
<1>3. /\ IsMemory(m)
      /\ m.nextId = d.nextId /\ m.active = d.active /\ m.history = d.history
      /\ m.delivered = d.delivered /\ m.idle = d.idle
      /\ m.eventIdx = d.eventIdx /\ m.keyIdx = d.keyIdx /\ m.histIdx = d.histIdx
      /\ m.timeouts = d.timeouts \ {id} /\ m.sources = [d.sources EXCEPT ![id] = @ - 1]
  <2> DEFINE k == [d EXCEPT !.sources[id] = @ - 1]
  <2>1. /\ IsMemory(k)
        /\ k.nextId = d.nextId /\ k.active = d.active /\ k.history = d.history
        /\ k.delivered = d.delivered /\ k.idle = d.idle
        /\ k.eventIdx = d.eventIdx /\ k.keyIdx = d.keyIdx /\ k.histIdx = d.histIdx
        /\ k.timeouts = d.timeouts /\ k.sources = [d.sources EXCEPT ![id] = @ - 1]
    BY DEF MemoryOK, IsMemory
  <2>2. m = [k EXCEPT !.timeouts = @ \ {id}]
    BY DEF ForgetTimeout
  <2> HIDE DEF k, m
  <2>3. QED BY <2>1, <2>2 DEF IsMemory
<1>4. /\ d' = ScheduleIdle(RemoveActive(m, id)) /\ pc' = "writing"
      /\ call' = [NoCall EXCEPT !.kind = "close", !.id = id]
  BY <1>2 DEF Expire, BeginClose
<1> HIDE DEF m
<1>5. Timers(m.timeouts, m.sources, DOMAIN m.active)
  BY <1>1, <1>2, <1>3 DEF Timers
<1>6. MemoryOK(m)
  BY <1>3, <1>5 DEF MemoryOK
<1>7. /\ MemoryOK(d') /\ (d'.idle <=> d'.active = EmptyMap)
      /\ d'.nextId = m.nextId /\ d'.history = m.history /\ d'.delivered = m.delivered
      /\ FewerBanners(m, d') /\ DOMAIN d'.active = DOMAIN m.active \ {id}
  BY <1>2, <1>3, <1>4, <1>6, CloseEffect DEF IdleSound
<1>8. QED BY <1>3, <1>4, <1>7 DEF IdleSound, FewerBanners

\* ClearHistoryItem forgets an item and, of its event, what was answered for.
LEMMA ClearHistoryItemEffect ==
  ASSUME MemoryOK(d), IdleSound, NEW id \in Ids, ClearHistoryItem(id)
  PROVE  /\ MemoryOK(d') /\ IdleSound' /\ FewerBanners(d, d')
         /\ d'.nextId = d.nextId /\ DOMAIN d'.history = DOMAIN d.history \ {id}
         /\ DOMAIN d'.active = DOMAIN d.active \ {id}
         /\ Dense(d.delivered) => Dense(d'.delivered)
         /\ ackd \subseteq DOMAIN d.delivered => ackd' \subseteq DOMAIN d'.delivered
<1> DEFINE c == CancelExpiry(d, id)
           closed == RemoveActive(c, id)
           event == IF id \in DOMAIN d.history THEN d.history[id].event ELSE NoEvent
           forget == event \in DOMAIN d.delivered /\ d.delivered[event].id = id
           x == DropHistoryIndexes(closed, id)
           left == IF forget THEN Drop(x.delivered, event) ELSE x.delivered
           n == [x EXCEPT !.history = Drop(@, id), !.delivered = left]
<1>1. d' = ScheduleIdle(n) /\ ackd' = ackd \ {event}
  BY DEF ClearHistoryItem
<1>2. /\ MemoryOK(c) /\ id \notin c.timeouts
      /\ c.nextId = d.nextId /\ c.active = d.active /\ c.history = d.history
      /\ c.delivered = d.delivered /\ c.idle = d.idle
  BY CancelExpiryOK
<1> HIDE DEF c
<1>3. /\ MemoryOK(closed)
      /\ closed.nextId = c.nextId /\ closed.active = Drop(c.active, id)
      /\ closed.history = c.history /\ closed.delivered = c.delivered /\ closed.idle = c.idle
      /\ DOMAIN closed.active = DOMAIN c.active \ {id}
      /\ \A y \in DOMAIN closed.active : closed.active[y].event = c.active[y].event
  BY <1>2, RemoveActiveOK
<1> HIDE DEF closed
<1>4. /\ MemoryOK(x) /\ \A e \in Events : x.histIdx[e] # id
      /\ x.nextId = closed.nextId /\ x.active = closed.active /\ x.history = closed.history
      /\ x.delivered = closed.delivered /\ x.idle = closed.idle
  BY <1>3, DropHistoryIndexesOK
<1> HIDE DEF x, event, left
<1>5. n = [x EXCEPT !.history = Drop(@, id), !.delivered = left]
  OBVIOUS
<1> HIDE DEF n
<1>6. /\ IsMemory(n) /\ n.history = Drop(x.history, id) /\ n.delivered = left
      /\ n.nextId = x.nextId /\ n.active = x.active /\ n.idle = x.idle
      /\ n.eventIdx = x.eventIdx /\ n.keyIdx = x.keyIdx /\ n.histIdx = x.histIdx
      /\ n.timeouts = x.timeouts /\ n.sources = x.sources
  BY <1>4, <1>5 DEF MemoryOK, IsMemory
<1>7. /\ IsMap(x.history, Ids, HistoryEntry) /\ Below(x.history, MaxHistory)
      /\ IsMap(x.delivered, Events, DeliveredEntry) /\ Below(x.delivered, MaxDelivered)
  BY <1>4 DEF MemoryOK, History, Delivered
<1>8. /\ IsMap(n.history, Ids, HistoryEntry) /\ Below(n.history, MaxHistory)
      /\ DOMAIN n.history = DOMAIN x.history \ {id}
      /\ Renumbers(n.history, x.history, DOMAIN x.history \ {id})
  BY <1>6, <1>7, EntryTypes, DropMap
<1>9. \A y \in DOMAIN x.history \ {id} : /\ y \in DOMAIN n.history
                                         /\ n.history[y].event = x.history[y].event
  BY <1>7, <1>8, RankOnly DEF Renumbers, IsMap
<1>10. EventIndex(n.histIdx, n.history)
  <2>1. EventIndex(n.histIdx, x.history) /\ \A e \in Events : n.histIdx[e] # id
    BY <1>4, <1>6 DEF MemoryOK
  <2>2. QED BY <2>1, <1>9 DEF EventIndex
<1>11. /\ IsMap(Drop(x.delivered, event), Events, DeliveredEntry)
       /\ Below(Drop(x.delivered, event), MaxDelivered)
       /\ DOMAIN Drop(x.delivered, event) = DOMAIN x.delivered \ {event}
  <2>1. IsMap(Drop(x.delivered, event), Events, DeliveredEntry)
    BY <1>7, EntryTypes, DropMap
  <2>2. \A b \in Nat : Below(x.delivered, b) => Below(Drop(x.delivered, event), b)
    BY <1>7, EntryTypes, DropMap
  <2>3. MaxDelivered \in Nat
    OBVIOUS
  <2>4. Below(Drop(x.delivered, event), MaxDelivered)
    BY <1>7, <2>2, <2>3
  <2>5. DOMAIN Drop(x.delivered, event) = DOMAIN x.delivered \ {event}
    BY DropIs
  <2>6. QED BY <2>1, <2>4, <2>5
<1>12. Dense(x.delivered) => Dense(Drop(x.delivered, event))
  BY <1>7, EntryTypes, DropDense
<1>13. /\ Delivered(left) /\ DOMAIN x.delivered \ {event} \subseteq DOMAIN left
       /\ Dense(x.delivered) => Dense(left)
  BY <1>7, <1>11, <1>12 DEF left, Delivered
<1>14. MemoryOK(n)
  BY <1>4, <1>6, <1>8, <1>10, <1>13 DEF MemoryOK, History
<1>15. /\ MemoryOK(d') /\ d'.nextId = n.nextId /\ d'.active = n.active
       /\ d'.history = n.history /\ d'.delivered = n.delivered
       /\ d'.idle = (n.idle \/ n.active = EmptyMap)
  BY <1>1, <1>14, ScheduleIdleOK
<1>16. /\ d'.nextId = d.nextId /\ DOMAIN d'.history = DOMAIN d.history \ {id}
       /\ DOMAIN d'.active = DOMAIN d.active \ {id} /\ FewerBanners(d, d')
       /\ d'.idle = (d.idle \/ d'.active = EmptyMap)
  BY <1>2, <1>3, <1>4, <1>6, <1>8, <1>15 DEF FewerBanners
<1>17. IdleSound'
  <2>1. d.active = EmptyMap => DOMAIN d'.active = {}
    BY <1>16, EmptyMapOK
  <2>2. IsMap(d'.active, Ids, ActiveEntry)
    BY <1>15 DEF MemoryOK, Active
  <2>3. d.active = EmptyMap => d'.active = EmptyMap
    BY <2>1, <2>2, NoKeysIsEmpty
  <2>4. QED BY <1>16, <2>3 DEF IdleSound
<1>18. d'.delivered = left /\ x.delivered = d.delivered
  BY <1>2, <1>3, <1>4, <1>6, <1>15
<1>19. QED BY <1>1, <1>13, <1>15, <1>16, <1>17, <1>18

\* ClearHistory leaves nothing but the next id.
LEMMA ClearHistoryEffect ==
  ASSUME MemoryOK(d), ClearHistory
  PROVE  /\ MemoryOK(d') /\ IdleSound' /\ d'.active = EmptyMap /\ d'.history = EmptyMap
         /\ d'.delivered = EmptyMap /\ d'.nextId = d.nextId
<1> DEFINE left == [i \in Ids |-> IF i \in d.timeouts THEN d.sources[i] - 1 ELSE d.sources[i]]
           n == [Blank EXCEPT !.nextId = d.nextId, !.idle = d.idle, !.sources = left]
<1>1. d' = ScheduleIdle(n)
  BY DEF ClearHistory
<1>2. left = [i \in Ids |-> 0]
  BY DEF MemoryOK, Timers
<1> HIDE DEF left
<1>3. n = [Blank EXCEPT !.nextId = d.nextId, !.idle = d.idle, !.sources = left]
  OBVIOUS
<1>4. Blank.sources = [i \in Ids |-> 0] /\ IsMemory(Blank)
  BY DEF Blank, NoIds, IsMemory
<1> HIDE DEF n
<1>5. /\ IsMemory(n) /\ n.nextId = d.nextId /\ n.idle = d.idle /\ n.sources = Blank.sources
      /\ n.active = Blank.active /\ n.history = Blank.history /\ n.delivered = Blank.delivered
      /\ n.eventIdx = Blank.eventIdx /\ n.keyIdx = Blank.keyIdx /\ n.histIdx = Blank.histIdx
      /\ n.timeouts = Blank.timeouts
  BY <1>2, <1>3, <1>4 DEF IsMemory
<1>6. MemoryOK(n)
  BY <1>5, BlankOK DEF MemoryOK
<1>7. /\ MemoryOK(d') /\ d'.nextId = n.nextId /\ d'.active = n.active
      /\ d'.history = n.history /\ d'.delivered = n.delivered
      /\ d'.idle = (n.idle \/ n.active = EmptyMap)
  BY <1>1, <1>6, ScheduleIdleOK
<1>8. QED BY <1>5, <1>7, BlankOK DEF IdleSound

FileOK == Active(file.active) /\ History(file.history) /\ Delivered(file.delivered)

\* Starting makes a sound memory of the file.
LEMMA BootEffect ==
  ASSUME FileOK, Boot
  PROVE  /\ MemoryOK(d') /\ IdleSound' /\ Fresh(d') /\ d'.active = EmptyMap
         /\ Roomy => Dense(d'.delivered) /\ DOMAIN file.delivered \subseteq DOMAIN d'.delivered
<1> DEFINE n == Load(file)
<1>1. d' = ScheduleIdle(n)
  BY DEF Boot
<1>2. /\ MemoryOK(n) /\ Fresh(n) /\ n.active = EmptyMap
      /\ Roomy => Dense(n.delivered) /\ DOMAIN file.delivered \subseteq DOMAIN n.delivered
  BY LoadOK DEF FileOK
<1> HIDE DEF n
<1>3. /\ MemoryOK(d') /\ d'.nextId = n.nextId /\ d'.active = n.active
      /\ d'.history = n.history /\ d'.delivered = n.delivered
      /\ d'.idle = (n.idle \/ n.active = EmptyMap)
  BY <1>1, <1>2, ScheduleIdleOK
<1>4. QED BY <1>2, <1>3 DEF IdleSound, Fresh

----------------------------------------------------------------------------

(* The inductive invariant *)

CallOK ==
  /\ call.kind \in {"none", "notify", "suppressed", "close"}
  /\ call.event \in Events \cup {NoEvent}
  /\ call.kind # "none" => call.id \in Ids /\ pc = "writing"

DaemonInv ==
  /\ pc \in {"down", "starting", "serving", "writing"} /\ quitting \in BOOLEAN
  /\ held \subseteq Ids /\ shown \subseteq Ids /\ ackd \subseteq Events /\ budget \in Nat
  /\ CallOK /\ (quitting => pc = "writing")
  /\ MemoryOK(d) /\ FileOK
  /\ pc = "down" => d = Blank
  /\ pc # "down" => IdleSound

\* Between calls there is no call, and a close is a call without an event.
LEMMA NoCallIs ==
  /\ NoCall.kind = "none" /\ NoCall.event = NoEvent
  /\ \A i : LET c == [NoCall EXCEPT !.kind = "close", !.id = i]
            IN  c.kind = "close" /\ c.id = i /\ c.event = NoEvent
BY DEF NoCall

\* What Notify notes of its request.
LEMMA NotifyCall ==
  ASSUME NEW r \in Requests, Notify(r)
  PROVE  /\ pc = "serving" /\ pc' = "writing" /\ MayReplace(r.replaces)
         /\ call'.kind = IF Resolve(r).only THEN "suppressed" ELSE "notify"
         /\ call'.id = Resolve(r).id /\ call'.event = r.event
         /\ call'.replaces = r.replaces /\ call'.banner = r.banner
         /\ UNCHANGED <<quitting, file, held, shown, ackd>>
BY DEF Notify

\* What is written of a sound memory is a sound file.
LEMMA ImageOK ==
  ASSUME NEW m, MemoryOK(m)
  PROVE  /\ Active(Image(m).active) /\ History(Image(m).history) /\ Delivered(Image(m).delivered)
         /\ Image(m).active = m.active /\ Image(m).history = m.history
         /\ Image(m).delivered = m.delivered
BY DEF Image, MemoryOK

\* The invariant holds at first,
LEMMA DaemonInvInit == Init => DaemonInv
<1> SUFFICES ASSUME Init PROVE DaemonInv
  OBVIOUS
<1>2. FileOK
  BY ImageOK, BlankOK DEF Init, FileOK
<1>3. CallOK
  BY NoCallIs DEF Init, CallOK
<1>4. QED BY <1>2, <1>3, BlankOK DEF Init, DaemonInv

\* What the daemon does, whoever counts the calls.
Acts ==
  \/ Boot \/ WriteState \/ IdleExit \/ ClearHistory \/ Stop \/ Crash
  \/ \E r \in Requests : Notify(r)
  \/ \E id \in Ids : CloseNotification(id) \/ Expire(id) \/ ClearHistoryItem(id)

\* The steps of the specification are among them.
LEMMA NextActs ==
  ASSUME DaemonInv, [Next]_vars PROVE (Acts \/ UNCHANGED vars) /\ budget' \in Nat
BY DEF Next, MainLoop, Acts, Spend, vars, DaemonInv

\* Each of them keeps the invariant.
LEMMA ActsKeep ==
  ASSUME DaemonInv, Acts \/ UNCHANGED vars, budget' \in Nat PROVE DaemonInv'
<1>0. /\ MemoryOK(d) /\ FileOK /\ CallOK /\ pc \in {"down", "starting", "serving", "writing"}
      /\ pc # "down" => IdleSound
  BY DEF DaemonInv
<1>1. CASE Boot
  <2>1. MemoryOK(d') /\ IdleSound'
    BY <1>0, <1>1, BootEffect
  <2>2. /\ UNCHANGED <<call, quitting, file, held, ackd>>
        /\ pc = "down" /\ pc' = "starting" /\ shown' = {}
    BY <1>1 DEF Boot
  <2>3. FileOK' /\ CallOK'
    BY <1>0, <2>2 DEF FileOK, CallOK
  <2>4. QED BY <2>1, <2>2, <2>3 DEF DaemonInv
<1>2. ASSUME NEW r \in Requests, Notify(r) PROVE DaemonInv'
  <2>1. /\ pc = "serving" /\ pc' = "writing"
        /\ call'.kind = IF Resolve(r).only THEN "suppressed" ELSE "notify"
        /\ call'.id = Resolve(r).id /\ call'.event = r.event
        /\ UNCHANGED <<quitting, file, held, shown, ackd>>
    BY <1>2, NotifyCall
  <2>2. MemoryOK(d') /\ IdleSound' /\ Resolve(r).id \in Ids
    BY <1>0, <1>2, <2>1, NotifyEffect
  <2>3. FileOK' /\ CallOK'
    BY <1>0, <2>1, <2>2 DEF FileOK, CallOK, Requests
  <2>4. QED BY <2>1, <2>2, <2>3 DEF DaemonInv
<1>3. ASSUME NEW id \in Ids, CloseNotification(id) PROVE DaemonInv'
  <2>1. pc = "serving" /\ UNCHANGED <<quitting, file, held, shown, ackd>>
    BY <1>3 DEF CloseNotification
  <2>2. /\ MemoryOK(d') /\ IdleSound'
        /\ \/ UNCHANGED <<call, pc>>
           \/ call' = [NoCall EXCEPT !.kind = "close", !.id = id] /\ pc' = "writing"
    BY <1>0, <1>3, <2>1, CloseNotificationEffect
  <2>3. FileOK'
    BY <1>0, <2>1 DEF FileOK
  <2>4. CallOK'
    <3>1. CASE UNCHANGED <<call, pc>>
      BY <1>0, <3>1 DEF CallOK
    <3>2. CASE call' = [NoCall EXCEPT !.kind = "close", !.id = id] /\ pc' = "writing"
      <4>1. call'.kind = "close" /\ call'.id = id /\ call'.event = NoEvent
        BY <3>2, NoCallIs
      <4>2. QED BY <3>2, <4>1 DEF CallOK
    <3>3. QED BY <2>2, <3>1, <3>2
  <2>5. QED BY <2>1, <2>2, <2>3, <2>4 DEF DaemonInv
<1>4. ASSUME NEW id \in Ids, Expire(id) PROVE DaemonInv'
  <2>1. pc = "serving" /\ UNCHANGED <<quitting, file, held, shown, ackd>>
    BY <1>4 DEF Expire
  <2>2. /\ MemoryOK(d') /\ IdleSound'
        /\ call' = [NoCall EXCEPT !.kind = "close", !.id = id] /\ pc' = "writing"
    BY <1>0, <1>4, <2>1, ExpireEffect
  <2>3. FileOK'
    BY <1>0, <2>1 DEF FileOK
  <2>4. CallOK'
    <3>1. call'.kind = "close" /\ call'.id = id /\ call'.event = NoEvent
      BY <2>2, NoCallIs
    <3>2. QED BY <2>2, <3>1 DEF CallOK
  <2>5. QED BY <2>1, <2>2, <2>3, <2>4 DEF DaemonInv
<1>5. ASSUME NEW id \in Ids, ClearHistoryItem(id) PROVE DaemonInv'
  <2>1. /\ pc = "serving" /\ pc' = "writing" /\ call' = NoCall
        /\ UNCHANGED <<quitting, file, held>> /\ ackd' \subseteq ackd /\ shown' \subseteq shown
    BY <1>5 DEF ClearHistoryItem, Tell
  <2>2. MemoryOK(d') /\ IdleSound'
    BY <1>0, <1>5, <2>1, ClearHistoryItemEffect
  <2>3. FileOK' /\ CallOK'
    BY <1>0, <2>1, NoCallIs DEF FileOK, CallOK
  <2>4. QED BY <2>1, <2>2, <2>3 DEF DaemonInv
<1>6. CASE ClearHistory
  <2>1. /\ pc = "serving" /\ pc' = "writing" /\ call' = NoCall
        /\ UNCHANGED <<quitting, file, held>> /\ ackd' = {} /\ shown' \subseteq shown
    BY <1>6 DEF ClearHistory, Tell
  <2>2. MemoryOK(d') /\ IdleSound'
    BY <1>0, <1>6, ClearHistoryEffect
  <2>3. FileOK' /\ CallOK'
    BY <1>0, <2>1, NoCallIs DEF FileOK, CallOK
  <2>4. QED BY <2>1, <2>2, <2>3 DEF DaemonInv
<1>7. CASE WriteState
  <2>1. /\ pc \in {"starting", "writing"} /\ file' = Image(d) /\ call' = NoCall
        /\ IF quitting THEN End ELSE pc' = "serving" /\ UNCHANGED <<d, quitting>>
    BY <1>7 DEF WriteState
  <2>2. held' \subseteq Ids /\ shown' \subseteq Ids /\ ackd' \subseteq Events
    BY <1>0, <1>7 DEF WriteState, CallOK, Tell, DaemonInv
  <2>3. FileOK' /\ CallOK'
    BY <1>0, <2>1, NoCallIs, ImageOK DEF FileOK, CallOK
  <2>4. CASE quitting
    BY <1>7, <2>1, <2>2, <2>3, <2>4, BlankOK DEF DaemonInv, End
  <2>5. CASE ~quitting
    BY <1>0, <1>7, <2>1, <2>2, <2>3, <2>5 DEF DaemonInv, IdleSound
  <2>6. QED BY <2>4, <2>5 DEF DaemonInv
<1>8. CASE IdleExit
  <2>1. /\ pc = "serving" /\ UNCHANGED <<call, held, shown, ackd>> /\ d.active = EmptyMap
        /\ End /\ file' = Image(d)
    BY <1>0, <1>8 DEF IdleExit, IdleSound
  <2>2. FileOK' /\ CallOK'
    BY <1>0, <2>1, ImageOK DEF FileOK, CallOK
  <2>3. QED BY <1>8, <2>1, <2>2, BlankOK DEF DaemonInv, End
<1>9. CASE Stop
  <2>1. /\ pc \in {"serving", "writing"} /\ UNCHANGED <<call, held, shown, ackd>>
        /\ file' = Image(d)
        /\ IF pc = "serving" THEN End ELSE quitting' = TRUE /\ UNCHANGED <<pc, d>>
    BY <1>9 DEF Stop
  <2>2. FileOK'
    BY <1>0, <2>1, ImageOK DEF FileOK
  <2>3. CASE pc = "serving"
    <3>1. CallOK'
      BY <1>0, <2>1, <2>3 DEF CallOK
    <3>2. QED BY <2>1, <2>2, <2>3, <3>1, BlankOK DEF DaemonInv, End
  <2>4. CASE pc = "writing"
    <3>1. CallOK'
      BY <1>0, <2>1, <2>4 DEF CallOK
    <3>2. QED BY <1>0, <2>1, <2>2, <2>4, <3>1 DEF DaemonInv, IdleSound
  <2>5. QED BY <2>1, <2>3, <2>4
<1>10. CASE Crash
  <2>1. End /\ call' = NoCall /\ UNCHANGED <<file, held, shown, ackd>>
    BY <1>10 DEF Crash
  <2>2. FileOK' /\ CallOK'
    BY <1>0, <2>1, NoCallIs DEF FileOK, CallOK
  <2>3. QED BY <2>1, <2>2, BlankOK DEF DaemonInv, End
<1>11. CASE UNCHANGED vars
  BY <1>11 DEF vars, DaemonInv, CallOK, FileOK, IdleSound
<1>12. QED
  BY <1>1, <1>2, <1>3, <1>4, <1>5, <1>6, <1>7, <1>8, <1>9, <1>10, <1>11 DEF Acts

\* So every step of the specification keeps it.
LEMMA DaemonInvStep == DaemonInv /\ [Next]_vars => DaemonInv'
BY NextActs, ActsKeep

(***************************************************************************)
(* The memory is sound.  A client that replaces an id it still holds, but  *)
(* the daemon has forgotten, may put back an id that next_id has not       *)
(* reached: fresh ids are fresh as long as clients replace known ids only. *)
(***************************************************************************)

FreshInv == pc # "down" => Fresh(d)

\* Ids below next_id stay so when no other id comes into use.
LEMMA FreshKept ==
  ASSUME NEW m, NEW n, MemoryOK(m), MemoryOK(n), Fresh(m), m.nextId <= n.nextId,
         \A id \in DOMAIN n.history \cup DOMAIN n.active :
           id \in DOMAIN m.history \cup DOMAIN m.active \/ id < n.nextId
  PROVE  Fresh(n)
<1>1. /\ m.nextId \in Nat /\ n.nextId \in Nat
      /\ \A id \in DOMAIN n.history \cup DOMAIN n.active : id \in Nat
  BY DEF MemoryOK, Active, History, IsMap, Ids
<1>2. \A id \in DOMAIN m.history \cup DOMAIN m.active : id < m.nextId
  BY DEF Fresh
<1>3. QED BY <1>1, <1>2 DEF Fresh

\* A request is answered with a fresh id or with one that is in use.
LEMMA NotifyFresh ==
  ASSUME Replaceable # "held", MemoryOK(d), IdleSound, Fresh(d),
         NEW r \in Requests, Notify(r)
  PROVE  Fresh(d')
<1> DEFINE to == Resolve(r)
<1>1. /\ MemoryOK(d') /\ to.id \in Ids /\ to.id <= MaxId /\ d'.nextId = to.m.nextId
      /\ to.only => d'.active = d.active /\ d'.history = d.history
      /\ ~to.only /\ r.banner => DOMAIN d'.active = DOMAIN d.active \cup {to.id}
      /\ ~to.only /\ ~r.banner => DOMAIN d'.active = DOMAIN d.active \ {to.id}
      /\ ~to.only => DOMAIN d'.history \subseteq DOMAIN d.history \cup {to.id}
  BY NotifyEffect
<1>2. /\ to.m.nextId >= d.nextId
      /\ r.replaces # 0 => to.id = r.replaces
      /\ r.replaces = 0 /\ ~to.only => to.id \in DOMAIN d.active \/ to.id < to.m.nextId
  BY <1>1, ResolveOK
<1>3. r.replaces # 0 => r.replaces \in DOMAIN d.history \cup DOMAIN d.active
  BY NotifyCall DEF MayReplace
<1> HIDE DEF to
<1>4. d.nextId <= d'.nextId
  BY <1>1, <1>2 DEF MemoryOK
<1>5. ~to.only => to.id \in DOMAIN d.history \cup DOMAIN d.active \/ to.id < d'.nextId
  BY <1>1, <1>2, <1>3
<1>6. \A id \in DOMAIN d'.history \cup DOMAIN d'.active :
        id \in DOMAIN d.history \cup DOMAIN d.active \/ id < d'.nextId
  BY <1>1, <1>5
<1>7. QED BY <1>1, <1>4, <1>6, FreshKept

\* Every step keeps fresh ids fresh.
LEMMA FreshStep ==
  ASSUME Replaceable # "held", DaemonInv, FreshInv, [Next]_vars PROVE FreshInv'
<1>0. /\ MemoryOK(d) /\ MemoryOK(d') /\ FileOK /\ (pc # "down" => IdleSound /\ Fresh(d))
      /\ d.nextId <= d.nextId
  BY DaemonInvStep DEF DaemonInv, FreshInv, MemoryOK
<1>1. CASE Boot
  BY <1>0, <1>1, BootEffect DEF FreshInv
<1>2. ASSUME NEW r \in Requests, Notify(r) PROVE FreshInv'
  BY <1>0, <1>2, NotifyCall, NotifyFresh DEF FreshInv
<1>3. ASSUME NEW id \in Ids, CloseNotification(id) \/ Expire(id) \/ ClearHistoryItem(id)
      PROVE  FreshInv'
  <2>1. pc = "serving"
    BY <1>3 DEF CloseNotification, Expire, ClearHistoryItem
  <2>2. /\ d'.nextId = d.nextId /\ DOMAIN d'.active \subseteq DOMAIN d.active
        /\ DOMAIN d'.history \subseteq DOMAIN d.history
    <3>1. CASE CloseNotification(id)
      BY <1>0, <2>1, <3>1, CloseNotificationEffect DEF FewerBanners
    <3>2. CASE Expire(id)
      BY <1>0, <2>1, <3>2, ExpireEffect DEF FewerBanners
    <3>3. CASE ClearHistoryItem(id)
      BY <1>0, <2>1, <3>3, ClearHistoryItemEffect DEF FewerBanners
    <3>4. QED BY <1>3, <3>1, <3>2, <3>3
  <2>3. Fresh(d')
    BY <1>0, <2>1, <2>2, FreshKept
  <2>4. QED BY <2>3 DEF FreshInv
<1>4. CASE ClearHistory
  BY <1>0, <1>4, ClearHistoryEffect, EmptyMapOK DEF FreshInv, Fresh
<1>5. CASE End
  BY <1>5 DEF End, FreshInv
<1>6. CASE d' = d /\ pc # "down"
  BY <1>0, <1>6 DEF FreshInv
<1>7. CASE WriteState
  BY <1>5, <1>6, <1>7 DEF WriteState
<1>8. CASE IdleExit
  BY <1>0, <1>5, <1>8 DEF IdleExit, IdleSound
<1>9. CASE Stop
  BY <1>5, <1>6, <1>9 DEF Stop
<1>10. CASE Crash
  BY <1>5, <1>10 DEF Crash
<1>11. CASE UNCHANGED vars
  BY <1>11 DEF vars, FreshInv, Fresh
<1>12. QED
  BY <1>1, <1>2, <1>3, <1>4, <1>7, <1>8, <1>9, <1>10, <1>11 DEF Next, MainLoop

\* The inductive invariant implies all of the property but FreshIdIsFresh.
LEMMA SoundMemory ==
  ASSUME DaemonInv
  PROVE  TypeOK /\ IndexesAreSound /\ TimersBelongToBanners /\ IdleTimerIffNoBanner
<1>1. /\ MemoryOK(d)
      /\ IsMap(d.active, Ids, ActiveEntry) /\ Dense(d.active)
      /\ IsMap(d.history, Ids, HistoryEntry) /\ Below(d.history, MaxHistory)
      /\ IsMap(d.delivered, Events, DeliveredEntry) /\ Below(d.delivered, MaxDelivered)
      /\ Timers(d.timeouts, d.sources, DOMAIN d.active)
  BY DEF DaemonInv, MemoryOK, Active, History, Delivered
<1>2. Cardinality(DOMAIN d.history) <= MaxHistory
  BY <1>1, EntryTypes, BelowFinite
<1>3. Cardinality(DOMAIN d.delivered) <= MaxDelivered
  BY <1>1, EntryTypes, BelowFinite
<1>4. d.timeouts \subseteq Ids /\ d.sources \in [Ids -> Nat]
  BY <1>1 DEF Timers, IsMap
<1>5. TypeOK
  BY <1>1, <1>2, <1>3, <1>4 DEF TypeOK, DaemonInv, MemoryOK, EventIndex, KeyIndex, IsMap
<1>6. IndexesAreSound
  BY <1>1 DEF IndexesAreSound, MemoryOK, EventIndex, KeyIndex, WithEvent, WithKey
<1>7. TimersBelongToBanners
  BY <1>1 DEF TimersBelongToBanners, Timers
<1>8. IdleTimerIffNoBanner
  BY DEF IdleTimerIffNoBanner, DaemonInv, IdleSound
<1>9. QED BY <1>5, <1>6, <1>7, <1>8

\* Indexes, timers and the idle timer agree in every state whatever clients replace:
\* only FreshIdIsFresh of MemoryIsSound needs clients that replace what is known.
THEOREM MemorySoundForAnyClient ==
  Spec => [](TypeOK /\ IndexesAreSound /\ TimersBelongToBanners /\ IdleTimerIffNoBanner)
<1>1. DaemonInv /\ [Next]_vars => DaemonInv'
  BY DaemonInvStep
<1>2. QED BY DaemonInvInit, <1>1, SoundMemory, PTL DEF Spec

\* MemoryIsSound: ids, indexes, timers and the idle timer agree in every state, for
\* any events, keys, limits and number of calls, signals, crashes and restarts, when
\* clients replace only notifications that the daemon knows.
THEOREM MemorySound ==
  ASSUME Replaceable # "held" PROVE Spec => []MemoryIsSound
<1>1. Init => DaemonInv /\ FreshInv
  BY DaemonInvInit DEF Init, FreshInv
<1>2. DaemonInv /\ FreshInv /\ [Next]_vars => (DaemonInv /\ FreshInv)'
  BY DaemonInvStep, FreshStep
<1>3. DaemonInv /\ FreshInv => MemoryIsSound
  BY SoundMemory DEF MemoryIsSound, FreshIdIsFresh, FreshInv, Fresh
<1>4. QED BY <1>1, <1>2, <1>3, PTL DEF Spec

(***************************************************************************)
(* What the file and the clients were told.                                *)
(***************************************************************************)

\* The banner whose end the call being served has yet to report.
Unsaid ==
  IF call.kind = "close" \/ (call.kind = "notify" /\ ~call.banner) THEN {call.id} ELSE {}

TellInv ==
  /\ pc = "starting" => shown = {}
  /\ pc \in {"serving", "writing"} => shown \ Unsaid \subseteq DOMAIN d.active
  /\ pc = "writing" /\ call.kind = "notify" /\ call.banner => call.id \in DOMAIN d.active
  /\ FileMirrorsMemory

\* What the daemon does keeps file and clients informed.
LEMMA ActsTell == ASSUME DaemonInv, TellInv, Acts \/ UNCHANGED vars PROVE TellInv'
<1>0. /\ MemoryOK(d) /\ FileOK /\ (pc # "down" => IdleSound)
      /\ pc # "writing" => call.kind = "none" /\ Unsaid = {} /\ ~quitting
      /\ pc = "serving" => shown \subseteq DOMAIN d.active
  BY DEF DaemonInv, CallOK, Unsaid, TellInv
<1>1. CASE Boot
  BY <1>1 DEF Boot, TellInv, FileMirrorsMemory
<1>2. ASSUME NEW r \in Requests, Notify(r) PROVE TellInv'
  <2>1. /\ pc = "serving" /\ pc' = "writing" /\ shown' = shown
        /\ call'.kind = IF Resolve(r).only THEN "suppressed" ELSE "notify"
        /\ call'.id = Resolve(r).id /\ call'.banner = r.banner
    BY <1>2, NotifyCall
  <2>2. /\ Resolve(r).only => d'.active = d.active
        /\ ~Resolve(r).only /\ r.banner => DOMAIN d'.active = DOMAIN d.active \cup {Resolve(r).id}
        /\ ~Resolve(r).only /\ ~r.banner => DOMAIN d'.active = DOMAIN d.active \ {Resolve(r).id}
    BY <1>0, <1>2, <2>1, NotifyEffect
  <2>3. QED BY <1>0, <2>1, <2>2 DEF TellInv, Unsaid, FileMirrorsMemory
<1>3. ASSUME NEW id \in Ids, CloseNotification(id) PROVE TellInv'
  <2>1. pc = "serving" /\ shown' = shown /\ file' = file
    BY <1>3 DEF CloseNotification
  <2>2. /\ d'.history = d.history /\ d'.delivered = d.delivered
        /\ \/ UNCHANGED <<call, pc>> /\ d'.active = d.active
           \/ /\ call' = [NoCall EXCEPT !.kind = "close", !.id = id] /\ pc' = "writing"
              /\ DOMAIN d'.active = DOMAIN d.active \ {id}
    BY <1>0, <1>3, <2>1, CloseNotificationEffect
  <2>3. CASE UNCHANGED <<call, pc>> /\ d'.active = d.active
    BY <2>1, <2>2, <2>3 DEF TellInv, Unsaid, FileMirrorsMemory
  <2>4. CASE /\ call' = [NoCall EXCEPT !.kind = "close", !.id = id] /\ pc' = "writing"
             /\ DOMAIN d'.active = DOMAIN d.active \ {id}
    BY <1>0, <2>1, <2>4, NoCallIs DEF TellInv, Unsaid, FileMirrorsMemory
  <2>5. QED BY <2>2, <2>3, <2>4
<1>4. ASSUME NEW id \in Ids, Expire(id) PROVE TellInv'
  <2>1. pc = "serving" /\ shown' = shown
    BY <1>4 DEF Expire
  <2>2. /\ call' = [NoCall EXCEPT !.kind = "close", !.id = id] /\ pc' = "writing"
        /\ DOMAIN d'.active = DOMAIN d.active \ {id}
    BY <1>0, <1>4, <2>1, ExpireEffect
  <2>3. QED BY <1>0, <2>1, <2>2, NoCallIs DEF TellInv, Unsaid, FileMirrorsMemory
<1>5. ASSUME NEW id \in Ids, ClearHistoryItem(id) PROVE TellInv'
  <2>1. pc = "serving" /\ shown' = shown \ {id} /\ pc' = "writing" /\ call' = NoCall
    BY <1>5 DEF ClearHistoryItem, Tell
  <2>2. DOMAIN d'.active = DOMAIN d.active \ {id}
    BY <1>0, <1>5, <2>1, ClearHistoryItemEffect
  <2>3. QED BY <1>0, <2>1, <2>2, NoCallIs DEF TellInv, Unsaid, FileMirrorsMemory
<1>6. CASE ClearHistory
  <2>1. /\ pc = "serving" /\ shown' = shown \ DOMAIN d.active /\ pc' = "writing"
        /\ call' = NoCall
    BY <1>6 DEF ClearHistory, Tell
  <2>2. shown' = {}
    BY <1>0, <2>1
  <2>3. QED BY <2>1, <2>2, NoCallIs DEF TellInv, Unsaid, FileMirrorsMemory
<1>7. CASE End
  BY <1>7 DEF End, TellInv, FileMirrorsMemory
<1>8. CASE WriteState
  <2>1. /\ pc \in {"starting", "writing"} /\ file' = Image(d) /\ call' = NoCall
        /\ IF quitting THEN End ELSE pc' = "serving" /\ UNCHANGED <<d, quitting>>
    BY <1>8 DEF WriteState
  <2>2. CASE pc' = "serving" /\ d' = d
    <3>1. shown' \subseteq DOMAIN d.active
      <4>1. CASE pc = "starting"
        BY <1>0, <1>8, <4>1 DEF WriteState, TellInv
      <4>2. CASE pc = "writing"
        BY <1>8, <4>2 DEF WriteState, TellInv, Unsaid, Tell
      <4>3. QED BY <2>1, <4>1, <4>2
    <3>2. FileMirrorsMemory'
      BY <1>0, <2>1, <2>2, ImageOK DEF FileMirrorsMemory
    <3>3. QED BY <2>1, <2>2, <3>1, <3>2 DEF TellInv
  <2>3. QED BY <1>7, <2>1, <2>2
<1>9. CASE IdleExit
  BY <1>0, <1>7, <1>9 DEF IdleExit, IdleSound
<1>10. CASE Stop
  <2>1. CASE pc = "writing"
    BY <1>10, <2>1 DEF Stop, TellInv, Unsaid, FileMirrorsMemory
  <2>2. QED BY <1>7, <1>10, <2>1 DEF Stop
<1>11. CASE Crash
  BY <1>7, <1>11 DEF Crash
<1>12. CASE UNCHANGED vars
  BY <1>12 DEF vars, TellInv, Unsaid, FileMirrorsMemory
<1>13. QED
  BY <1>1, <1>2, <1>3, <1>4, <1>5, <1>6, <1>8, <1>9, <1>10, <1>11, <1>12 DEF Acts

\* So does every step.
LEMMA TellStep == DaemonInv /\ TellInv /\ [Next]_vars => TellInv'
BY NextActs, ActsTell

\* OthersKnow: between calls state.json holds the whole memory, and every banner a
\* client was answered for is up unless its end was reported, whatever clients
\* replace and whenever the daemon is stopped or crashes.
THEOREM OthersAreTold == Spec => []OthersKnow
<1>1. Init => DaemonInv /\ TellInv
  BY DaemonInvInit DEF Init, TellInv, FileMirrorsMemory
<1>2. DaemonInv /\ TellInv /\ [Next]_vars => (DaemonInv /\ TellInv)'
  BY DaemonInvStep, TellStep
<1>3. DaemonInv /\ TellInv => OthersKnow
  BY DEF DaemonInv, CallOK, TellInv, Unsaid, OthersKnow, BannersEndWithSignal
<1>4. QED BY <1>1, <1>2, <1>3, PTL DEF Spec

(***************************************************************************)
(* An event has one banner, as long as the record of delivered events does *)
(* not overflow.                                                           *)
(***************************************************************************)

\* What was answered for is on record, in the file and while the daemon runs.
Remembered ==
  /\ Dense(d.delivered)
  /\ ackd \subseteq DOMAIN file.delivered
  /\ pc # "down" => ackd \subseteq DOMAIN d.delivered
  /\ call.kind = "notify" => {call.event} \cap Events \subseteq DOMAIN d.delivered

\* No step loses what was answered for, except ClearHistoryItem and ClearHistory.
LEMMA RememberedStep ==
  ASSUME Roomy, DaemonInv, Remembered, [Next]_vars PROVE Remembered'
<1>0. /\ MemoryOK(d) /\ FileOK /\ (pc # "down" => IdleSound)
      /\ call.kind # "none" => pc = "writing"
      /\ Image(d).delivered = d.delivered
  BY ImageOK DEF DaemonInv, CallOK
<1>1. CASE Boot
  <2>1. Dense(d'.delivered) /\ DOMAIN file.delivered \subseteq DOMAIN d'.delivered
    BY <1>0, <1>1, BootEffect
  <2>2. UNCHANGED <<call, file, ackd>> /\ pc = "down"
    BY <1>1 DEF Boot
  <2>3. QED BY <1>0, <2>1, <2>2 DEF Remembered
<1>2. ASSUME NEW r \in Requests, Notify(r) PROVE Remembered'
  <2>1. /\ pc = "serving" /\ UNCHANGED <<file, ackd>>
        /\ call'.kind = IF Resolve(r).only THEN "suppressed" ELSE "notify"
        /\ call'.event = r.event
    BY <1>2, NotifyCall
  <2>2. CASE Resolve(r).only
    <3>1. d'.delivered = d.delivered
      BY <1>0, <1>2, <2>1, <2>2, NotifyEffect
    <3>2. QED BY <2>1, <2>2, <3>1 DEF Remembered
  <2>3. CASE ~Resolve(r).only
    <3>1. /\ Dense(d'.delivered)
          /\ DOMAIN d'.delivered = DOMAIN d.delivered \cup ({r.event} \cap Events)
      BY <1>0, <1>2, <2>1, <2>3, NotifyEffect DEF Remembered
    <3>2. QED BY <2>1, <3>1 DEF Remembered
  <2>4. QED BY <2>2, <2>3
<1>3. ASSUME NEW id \in Ids, CloseNotification(id) \/ Expire(id) PROVE Remembered'
  <2>1. pc = "serving" /\ UNCHANGED <<file, ackd>>
    BY <1>3 DEF CloseNotification, Expire
  <2>2. /\ d'.delivered = d.delivered
        /\ call' = call \/ call' = [NoCall EXCEPT !.kind = "close", !.id = id]
    BY <1>0, <1>3, <2>1, CloseNotificationEffect, ExpireEffect
  <2>3. QED BY <1>0, <2>1, <2>2, NoCallIs DEF Remembered
<1>4. ASSUME NEW id \in Ids, ClearHistoryItem(id) PROVE Remembered'
  <2>1. pc = "serving" /\ call' = NoCall /\ file' = file /\ ackd' \subseteq ackd
    BY <1>4 DEF ClearHistoryItem
  <2>2. Dense(d'.delivered) /\ ackd' \subseteq DOMAIN d'.delivered
    BY <1>0, <1>4, <2>1, ClearHistoryItemEffect DEF Remembered
  <2>3. QED BY <2>1, <2>2, NoCallIs DEF Remembered
<1>5. CASE ClearHistory
  <2>1. pc = "serving" /\ call' = NoCall /\ ackd' = {}
    BY <1>5 DEF ClearHistory
  <2>2. d'.delivered = EmptyMap
    BY <1>0, <1>5, ClearHistoryEffect
  <2>3. QED BY <2>1, <2>2, EmptyMapOK, NoCallIs DEF Remembered
<1>6. ASSUME End, call'.kind # "notify", ackd' \subseteq DOMAIN file'.delivered
      PROVE  Remembered'
  BY <1>6, BlankOK, EmptyMapOK DEF End, Remembered
<1>7. CASE WriteState
  <2>1. /\ pc \in {"starting", "writing"} /\ file' = Image(d) /\ call' = NoCall
        /\ IF quitting THEN End ELSE pc' = "serving" /\ UNCHANGED <<d, quitting>>
    BY <1>7 DEF WriteState
  <2>2. ackd' \subseteq DOMAIN d.delivered
    BY <1>7 DEF WriteState, Remembered
  <2>3. CASE End
    BY <1>0, <1>6, <2>1, <2>2, <2>3, NoCallIs
  <2>4. CASE UNCHANGED d
    BY <1>0, <2>1, <2>2, <2>4, NoCallIs DEF Remembered
  <2>5. QED BY <2>1, <2>3, <2>4
<1>8. CASE IdleExit
  <2>1. pc = "serving" /\ End /\ file' = Image(d) /\ UNCHANGED <<call, ackd>>
    BY <1>0, <1>8 DEF IdleExit, IdleSound
  <2>2. QED BY <1>0, <1>6, <2>1 DEF Remembered
<1>9. CASE Stop
  <2>1. /\ pc \in {"serving", "writing"} /\ file' = Image(d) /\ UNCHANGED <<call, ackd>>
        /\ IF pc = "serving" THEN End ELSE UNCHANGED <<pc, d>>
    BY <1>9 DEF Stop
  <2>2. CASE pc = "serving"
    BY <1>0, <1>6, <2>1, <2>2 DEF Remembered
  <2>3. CASE pc = "writing"
    BY <1>0, <2>1, <2>3 DEF Remembered
  <2>4. QED BY <2>1, <2>2, <2>3
<1>10. CASE Crash
  BY <1>6, <1>10, NoCallIs DEF Crash, Remembered
<1>11. CASE UNCHANGED vars
  BY <1>11 DEF vars, Remembered
<1>12. QED
  BY <1>1, <1>2, <1>3, <1>4, <1>5, <1>7, <1>8, <1>9, <1>10, <1>11 DEF Next, MainLoop

\* Of a request for an event, which banner it raises.
LEMMA OneBannerNotify ==
  ASSUME DaemonInv, ackd \subseteq DOMAIN d.delivered, NEW r \in Requests, Notify(r)
  PROVE  ShownOnce /\ UpdatedInPlace
<1>1. /\ pc = "serving" /\ MemoryOK(d) /\ IdleSound
      /\ call'.kind = IF Resolve(r).only THEN "suppressed" ELSE "notify"
      /\ call'.id = Resolve(r).id /\ call'.event = r.event /\ call'.replaces = r.replaces
  BY NotifyCall DEF DaemonInv
<1>2. /\ Resolve(r).id <= MaxId
      /\ Resolve(r).only => d'.active = d.active
      /\ ~Resolve(r).only /\ r.banner =>
           /\ DOMAIN d'.active = DOMAIN d.active \cup {Resolve(r).id}
           /\ d'.active[Resolve(r).id].event = r.event
           /\ \A x \in DOMAIN d.active \ {Resolve(r).id} :
                d'.active[x].event = d.active[x].event
      /\ ~Resolve(r).only /\ ~r.banner => FewerBanners(d, d')
  BY <1>1, NotifyEffect
<1>3. /\ r.replaces = 0 /\ r.event \in Events /\ WithEvent(d.active, r.event) # {} =>
           ~Resolve(r).only /\ Resolve(r).id \in WithEvent(d.active, r.event)
      /\ r.replaces = 0 /\ r.event \in DOMAIN d.delivered
           /\ WithEvent(d.active, r.event) = {} => Resolve(r).only
  BY <1>1, <1>2, ResolveOK
<1>4. UpdatedInPlace
  BY <1>1, <1>3 DEF UpdatedInPlace
<1>5. ASSUME NEW e \in ackd, WithEvent(d.active, e) = {}, WithEvent(d'.active, e) # {},
             r.replaces = 0
      PROVE  FALSE
  <2>1. PICK x \in DOMAIN d'.active : d'.active[x].event = e
    BY <1>5 DEF WithEvent
  <2>2. ~(x \in DOMAIN d.active /\ d.active[x].event = e)
    BY <1>5 DEF WithEvent
  <2>3. r.event = e /\ ~Resolve(r).only
    BY <1>2, <2>1, <2>2 DEF FewerBanners
  <2>4. QED BY <1>3, <1>5, <2>3
<1>6. QED BY <1>1, <1>4, <1>5 DEF ShownOnce

\* Of the steps, only Notify raises a banner.
LEMMA OneBannerStep ==
  ASSUME DaemonInv, Remembered, [Next]_vars PROVE [ShownOnce /\ UpdatedInPlace]_vars
<1>0. /\ MemoryOK(d) /\ FileOK /\ (pc # "down" => IdleSound)
      /\ pc = "serving" => call.kind = "none"
      /\ pc # "down" => ackd \subseteq DOMAIN d.delivered
  BY DEF DaemonInv, CallOK, Remembered
<1>1. ASSUME FewerBanners(d, d') PROVE ShownOnce
  BY <1>1 DEF ShownOnce, FewerBanners, WithEvent
<1>2. ASSUME pc = "serving" => call'.kind \notin {"notify", "suppressed"} PROVE UpdatedInPlace
  BY <1>2 DEF UpdatedInPlace
<1>3. ASSUME DOMAIN d'.active = {} PROVE FewerBanners(d, d')
  BY <1>3 DEF FewerBanners
<1>4. End => DOMAIN d'.active = {}
  BY BlankOK, EmptyMapOK DEF End
<1>5. CASE Boot
  BY <1>0, <1>1, <1>2, <1>3, <1>5, BootEffect, EmptyMapOK DEF Boot
<1>6. ASSUME NEW r \in Requests, Notify(r) PROVE ShownOnce /\ UpdatedInPlace
  BY <1>0, <1>6, NotifyCall, OneBannerNotify
<1>7. ASSUME NEW id \in Ids, CloseNotification(id) \/ Expire(id) PROVE ShownOnce /\ UpdatedInPlace
  <2>1. pc = "serving"
    BY <1>7 DEF CloseNotification, Expire
  <2>2. /\ FewerBanners(d, d')
        /\ call' = call \/ call' = [NoCall EXCEPT !.kind = "close", !.id = id]
    BY <1>0, <1>7, <2>1, CloseNotificationEffect, ExpireEffect
  <2>3. QED BY <1>0, <1>1, <1>2, <2>1, <2>2, NoCallIs
<1>8. ASSUME NEW id \in Ids, ClearHistoryItem(id) PROVE ShownOnce /\ UpdatedInPlace
  <2>1. pc = "serving" /\ call' = NoCall
    BY <1>8 DEF ClearHistoryItem
  <2>2. FewerBanners(d, d')
    BY <1>0, <1>8, <2>1, ClearHistoryItemEffect
  <2>3. QED BY <1>1, <1>2, <2>1, <2>2, NoCallIs
<1>9. CASE ClearHistory
  <2>1. call' = NoCall /\ DOMAIN d'.active = {}
    BY <1>0, <1>9, ClearHistoryEffect, EmptyMapOK DEF ClearHistory
  <2>2. QED BY <1>1, <1>2, <1>3, <2>1, NoCallIs
<1>10. ASSUME d' = d PROVE FewerBanners(d, d')
  BY <1>10 DEF FewerBanners
<1>11. CASE WriteState
  BY <1>1, <1>2, <1>3, <1>4, <1>10, <1>11 DEF WriteState
<1>12. CASE IdleExit
  <2>1. End /\ call' = call
    BY <1>0, <1>12 DEF IdleExit, IdleSound
  <2>2. QED BY <1>0, <1>1, <1>2, <1>3, <1>4, <2>1
<1>13. CASE Stop
  BY <1>0, <1>1, <1>2, <1>3, <1>4, <1>10, <1>13 DEF Stop
<1>14. CASE Crash
  BY <1>1, <1>2, <1>3, <1>4, <1>14, NoCallIs DEF Crash
<1>15. QED
  BY <1>5, <1>6, <1>7, <1>8, <1>9, <1>11, <1>12, <1>13, <1>14 DEF Next, MainLoop

\* EventsHaveOneBanner: an event that was answered for raises no second banner, also
\* across expiry, eviction, crashes and restarts, and its banner is updated in place,
\* for any set of events that the record of deliveries has room for.
THEOREM OneBanner == ASSUME Roomy PROVE Spec => EventsHaveOneBanner
<1>1. Init => DaemonInv /\ Remembered
  BY DaemonInvInit, BlankOK, EmptyMapOK, NoCallIs DEF Init, Remembered
<1>2. DaemonInv /\ Remembered /\ [Next]_vars => (DaemonInv /\ Remembered)'
  BY DaemonInvStep, RememberedStep
<1>3. DaemonInv /\ Remembered /\ [Next]_vars => [ShownOnce /\ UpdatedInPlace]_vars
  BY OneBannerStep
<1>4. QED BY <1>1, <1>2, <1>3, PTL DEF Spec, EventsHaveOneBanner

(***************************************************************************)
(* The overlay on top of the daemon, when close requests do not overlap    *)
(* and clients leave banners alone whose card was dismissed.               *)
(***************************************************************************)

\* No banner comes up but the one that is asked for.
NewBanners == IF \E r \in Requests : Notify(r) THEN {call'.id} ELSE {}

\* Whatever the daemon does, only a request brings up a banner.
LEMMA ActsShow ==
  ASSUME DaemonInv, Acts \/ UNCHANGED vars
  PROVE  DOMAIN d'.active \subseteq DOMAIN d.active \cup NewBanners
<1>0. /\ MemoryOK(d) /\ FileOK /\ (pc # "down" => IdleSound)
  BY DEF DaemonInv
<1>1. CASE Boot
  BY <1>0, <1>1, BootEffect, EmptyMapOK
<1>2. ASSUME NEW r \in Requests, Notify(r) PROVE DOMAIN d'.active \subseteq DOMAIN d.active \cup {call'.id}
  BY <1>0, <1>2, NotifyCall, NotifyEffect
<1>3. ASSUME NEW id \in Ids, CloseNotification(id) \/ Expire(id) \/ ClearHistoryItem(id)
      PROVE  DOMAIN d'.active \subseteq DOMAIN d.active
  <2>1. pc = "serving"
    BY <1>3 DEF CloseNotification, Expire, ClearHistoryItem
  <2>2. CASE CloseNotification(id)
    BY <1>0, <2>1, <2>2, CloseNotificationEffect DEF FewerBanners
  <2>3. CASE Expire(id)
    BY <1>0, <2>1, <2>3, ExpireEffect DEF FewerBanners
  <2>4. CASE ClearHistoryItem(id)
    BY <1>0, <2>1, <2>4, ClearHistoryItemEffect DEF FewerBanners
  <2>5. QED BY <1>3, <2>2, <2>3, <2>4
<1>4. CASE ClearHistory
  BY <1>0, <1>4, ClearHistoryEffect, EmptyMapOK DEF FewerBanners
<1>5. CASE End
  BY <1>5, BlankOK, EmptyMapOK DEF End
<1>6. CASE d' = d
  BY <1>6
<1>7. CASE WriteState
  BY <1>5, <1>6, <1>7 DEF WriteState
<1>8. CASE IdleExit
  BY <1>0, <1>5, <1>8 DEF IdleExit, IdleSound
<1>9. CASE Stop
  BY <1>5, <1>6, <1>9 DEF Stop
<1>10. CASE Crash
  BY <1>5, <1>10 DEF Crash
<1>11. CASE UNCHANGED vars
  BY <1>6, <1>11 DEF vars
<1>12. CASE \E r \in Requests : Notify(r)
  BY <1>2, <1>12 DEF NewBanners
<1>13. QED
  BY <1>1, <1>3, <1>4, <1>7, <1>8, <1>9, <1>10, <1>11, <1>12 DEF Acts

\* The rows are those of the file the overlay loaded, which is the last unless a change
\* is waiting to be read; a card that is gone has its request under way, or no banner.
CardsInv ==
  /\ cards \in [DOMAIN cards -> {"up", "leaving", "gone"}]
  /\ DOMAIN cards \subseteq Ids /\ Cardinality(DOMAIN cards) <= MaxCards
  /\ changed \in BOOLEAN /\ closeProc \in Ids \cup {0}
  /\ ~changed => DOMAIN cards = DOMAIN Newest(file.active, MaxCards)
  /\ \A i \in DOMAIN cards : cards[i] = "gone" => closeProc = i \/ i \notin DOMAIN d.active

OverlayInv == DaemonInv /\ TellInv /\ CardsInv

\* The rows of a file are few, and banners of the file.
LEMMA NewestRows ==
  ASSUME FileOK, MaxCards \in Nat
  PROVE  /\ DOMAIN Newest(file.active, MaxCards) \subseteq Ids
         /\ Cardinality(DOMAIN Newest(file.active, MaxCards)) <= MaxCards
<1> DEFINE rows == Newest(file.active, MaxCards)
<1>1. IsMap(file.active, Ids, ActiveEntry)
  BY DEF FileOK, Active
<1>2. IsMap(rows, Ids, ActiveEntry) /\ Below(rows, MaxCards)
  BY <1>1, EntryTypes, NewestMap
<1>3. Cardinality(DOMAIN rows) <= MaxCards
  BY <1>2, EntryTypes, BelowFinite
<1>4. QED BY <1>2, <1>3 DEF IsMap

\* It holds before the daemon and the overlay start.
LEMMA OverlayAtStart == ASSUME OverlayInit, MaxCards \in Nat PROVE OverlayInv
<1>1. DaemonInv /\ TellInv
  BY DaemonInvInit DEF OverlayInit, Init, TellInv, FileMirrorsMemory
<1>2. DOMAIN Newest(file.active, MaxCards) = {}
  BY BlankOK, EmptyMapOK DEF OverlayInit, Init, Image, Newest, Keep
<1>3. DOMAIN cards = {} /\ Cardinality(DOMAIN cards) = 0
  BY FS_EmptySet DEF OverlayInit, NoCards
<1>4. cards \in [DOMAIN cards -> {"up", "leaving", "gone"}]
  BY DEF OverlayInit, NoCards
<1>5. changed = FALSE /\ closeProc = 0
  BY DEF OverlayInit
<1>6. CardsInv
  <2>1. DOMAIN cards \subseteq Ids /\ Cardinality(DOMAIN cards) <= MaxCards
    BY <1>3
  <2>2. DOMAIN cards = DOMAIN Newest(file.active, MaxCards)
    BY <1>2, <1>3
  <2>3. \A i \in DOMAIN cards : cards[i] = "gone" => closeProc = i \/ i \notin DOMAIN d.active
    BY <1>3
  <2>4. QED BY <1>4, <1>5, <2>1, <2>2, <2>3 DEF CardsInv
<1>7. QED BY <1>1, <1>6 DEF OverlayInv

\* What the daemon does leaves the cards in order, if no dismissed one gets a new banner.
LEMMA CardsUnderDaemon ==
  ASSUME DaemonInv, CardsInv, Acts \/ UNCHANGED vars, Watch, cards' = cards,
         closeProc' = closeProc, NewBanners \cap Dismissed = {}
  PROVE  CardsInv'
<1>1. DOMAIN d'.active \subseteq DOMAIN d.active \cup NewBanners
  BY ActsShow
<1>2. ~changed' => ~changed /\ file' = file
  BY DEF Watch, CardsInv
<1>3. \A i \in DOMAIN cards : cards[i] = "gone" => i \notin NewBanners
  BY DEF Dismissed
<1>4. QED BY <1>1, <1>2, <1>3 DEF CardsInv, Watch

\* Every step of daemon, clients and overlay keeps the invariant.
LEMMA OverlayStep ==
  ASSUME MaxCards \in Nat, ~Overlap, ~Updates, OverlayInv,
         OverlayNext \/ UNCHANGED <<vars, overlayVars>>
  PROVE  OverlayInv'
<1>1. DaemonInv /\ TellInv /\ CardsInv
  BY DEF OverlayInv
<1>2. FileOK /\ closeProc \in Ids \cup {0}
  BY <1>1 DEF DaemonInv, CardsInv
<1>3. CASE Reload
  <2>1. DaemonInv' /\ TellInv'
    BY <1>1, <1>3, ActsKeep, ActsTell DEF Reload, vars, DaemonInv
  <2>2. /\ DOMAIN cards' = DOMAIN Newest(file.active, MaxCards)
        /\ cards' = [i \in DOMAIN cards' |-> IF i \in DOMAIN cards THEN cards[i] ELSE "up"]
        /\ changed' = FALSE /\ UNCHANGED <<file, d, closeProc>>
    BY <1>3 DEF Reload, Sync, vars
  <2>3. /\ DOMAIN Newest(file.active, MaxCards) \subseteq Ids
        /\ Cardinality(DOMAIN Newest(file.active, MaxCards)) <= MaxCards
    BY <1>2, NewestRows
  <2>4. QED BY <1>1, <2>1, <2>2, <2>3 DEF OverlayInv, CardsInv
<1>4. ASSUME NEW i \in DOMAIN cards, Dismiss(i) PROVE OverlayInv'
  <2>1. DaemonInv' /\ TellInv'
    BY <1>1, <1>4, ActsKeep, ActsTell DEF Dismiss, vars, DaemonInv
  <2>2. /\ cards' = [cards EXCEPT ![i] = "leaving"] /\ UNCHANGED <<changed, closeProc, file, d>>
    BY <1>4 DEF Dismiss, vars
  <2>3. QED BY <1>1, <2>1, <2>2 DEF OverlayInv, CardsInv
<1>5. ASSUME NEW i \in DOMAIN cards, CloseRequested(i) PROVE OverlayInv'
  <2>1. DaemonInv' /\ TellInv'
    BY <1>1, <1>5, ActsKeep, ActsTell DEF CloseRequested, vars, DaemonInv
  <2>2. /\ cards' = [cards EXCEPT ![i] = "gone"] /\ closeProc = 0 /\ closeProc' = i
        /\ UNCHANGED <<changed, file, d>>
    BY <1>5 DEF CloseRequested, StartClose, vars
  <2>3. 0 \notin Ids
    BY IdsArePositive
  <2>4. QED BY <1>1, <2>1, <2>2, <2>3 DEF OverlayInv, CardsInv
<1>6. CASE CloseServed
  <2>1. /\ closeProc \in Ids /\ CloseNotification(closeProc) /\ closeProc' = 0 /\ Watch
        /\ UNCHANGED <<cards, budget>>
    BY <1>2, <1>6 DEF CloseServed
  <2>2. Acts
    BY <2>1 DEF Acts
  <2>3. DaemonInv' /\ TellInv'
    BY <1>1, <2>1, <2>2, ActsKeep, ActsTell DEF DaemonInv
  <2>4. DOMAIN d'.active \subseteq DOMAIN d.active /\ closeProc \notin DOMAIN d'.active
    <3>1. MemoryOK(d) /\ IdleSound
      BY <1>1, <2>1 DEF DaemonInv, CloseNotification
    <3>2. /\ FewerBanners(d, d')
          /\ d'.active = d.active \/ DOMAIN d'.active = DOMAIN d.active \ {closeProc}
      BY <2>1, <3>1, CloseNotificationEffect
    <3>3. CASE closeProc \in DOMAIN d.active
      <4>1. pc' = "writing" /\ pc = "serving"
        BY <2>1, <3>3 DEF CloseNotification, BeginClose
      <4>2. DOMAIN d'.active = DOMAIN d.active \ {closeProc}
        BY <2>1, <3>1, <4>1, CloseNotificationEffect
      <4>3. QED BY <4>2
    <3>4. QED BY <3>2, <3>3 DEF FewerBanners
  <2>5. ~changed' => ~changed /\ file' = file
    BY <1>1, <2>1 DEF Watch, CardsInv
  <2>6. CardsInv'
    BY <1>1, <2>1, <2>4, <2>5 DEF CardsInv, Watch
  <2>7. QED BY <2>3, <2>6 DEF OverlayInv
<1>7. ASSUME Acts, Watch, UNCHANGED <<cards, closeProc>>, budget' \in Nat,
             NewBanners \cap Dismissed = {}
      PROVE  OverlayInv'
  BY <1>1, <1>7, ActsKeep, ActsTell, CardsUnderDaemon DEF OverlayInv
<1>8. ASSUME NEW r \in Requests,
             Boot \/ WriteState \/ IdleExit \/ Stop \/ Crash \/ \E id \in Ids : Expire(id)
      PROVE  ~Notify(r)
  <2>1. CASE Boot \/ WriteState
    BY <2>1 DEF Boot, WriteState, Notify
  <2>2. CASE IdleExit \/ Stop \/ Crash
    BY <2>2 DEF IdleExit, Stop, Crash, End, Notify
  <2>3. ASSUME NEW id \in Ids, Expire(id) PROVE ~Notify(r)
    <3>1. pc = "serving"
          /\ (pc' = pc \/ call' = [NoCall EXCEPT !.kind = "close", !.id = id])
      BY <2>3 DEF Expire, BeginClose
    <3>2. pc' = pc \/ call'.kind = "close"
      BY <3>1, NoCallIs
    <3>3. ASSUME Notify(r)
          PROVE  pc' = "writing" /\ call'.kind \in {"suppressed", "notify"}
      BY <3>3, NotifyCall
    <3>4. QED BY <3>1, <3>2, <3>3
  <2>4. QED BY <1>8, <2>1, <2>2, <2>3
<1>9. CASE Activated \/ DaemonRuns \/ DaemonEnds
  <2>1. /\ \/ Boot \/ WriteState \/ IdleExit \/ Stop \/ Crash
           \/ \E id \in Ids : Expire(id)
        /\ Watch /\ UNCHANGED <<cards, closeProc>>
    BY <1>9 DEF Activated, DaemonRuns, MainLoop, DaemonEnds
  <2>2. budget' \in Nat
    BY <1>1, <1>9 DEF Activated, DaemonRuns, MainLoop, DaemonEnds, Spend, DaemonInv
  <2>3. Acts
    BY <2>1 DEF Acts
  <2>4. \A r \in Requests : ~Notify(r)
    BY <1>8, <2>1
  <2>5. NewBanners \cap Dismissed = {}
    BY <2>4 DEF NewBanners
  <2>6. QED BY <1>7, <2>1, <2>2, <2>3, <2>5
<1>10. ASSUME NEW r \in Requests, ClientNotifies(r) PROVE OverlayInv'
  <2>1. Notify(r) /\ call'.id \notin Dismissed /\ Watch /\ UNCHANGED <<cards, closeProc>>
    BY <1>10 DEF ClientNotifies
  <2>2. budget' \in Nat
    BY <1>1, <1>10 DEF ClientNotifies, Spend, DaemonInv
  <2>3. Acts
    BY <2>1 DEF Acts
  <2>4. NewBanners \cap Dismissed = {}
    BY <2>1 DEF NewBanners
  <2>5. QED BY <1>7, <2>1, <2>2, <2>3, <2>4
<1>11. CASE UNCHANGED <<vars, overlayVars>>
  <2>1. DaemonInv' /\ TellInv'
    BY <1>1, <1>11, ActsKeep, ActsTell DEF vars, DaemonInv
  <2>2. UNCHANGED <<cards, changed, closeProc, file, d>>
    BY <1>11 DEF vars, overlayVars
  <2>3. QED BY <1>1, <2>1, <2>2 DEF OverlayInv, CardsInv
<1>12. QED
  BY <1>3, <1>4, <1>5, <1>6, <1>9, <1>10, <1>11 DEF OverlayNext, Overlay

\* The invariant is what is claimed of the cards.
LEMMA CardsHold == ASSUME OverlayInv PROVE CardsAreSound
<1>1. DaemonInv /\ TellInv /\ CardsInv
  BY DEF OverlayInv
<1>2. OverlayTypeOK /\ NoRequestIsLost
  BY <1>1 DEF CardsInv, OverlayTypeOK, NoRequestIsLost
<1>3. ASSUME pc = "serving", ~changed PROVE DOMAIN cards = DOMAIN Newest(d.active, MaxCards)
  BY <1>1, <1>3 DEF CardsInv, TellInv, FileMirrorsMemory, Image
<1>4. QED BY <1>2, <1>3 DEF CardsAreSound, CardsMatchBanners

\* CardsAreSound: while the daemon serves and the overlay has read its last write there is
\* a card for each of the newest banners and for nothing else, and no card that has slid
\* out waits without its close request, whenever the daemon is stopped or crashes.
THEOREM CardsSound ==
  ASSUME MaxCards \in Nat, ~Overlap, ~Updates PROVE OverlaySpec => []CardsAreSound
<1>1. OverlayInit => OverlayInv
  BY OverlayAtStart
<1>2. OverlayInv /\ [OverlayNext]_<<vars, overlayVars>> => OverlayInv'
  BY OverlayStep
<1>3. OverlayInv => CardsAreSound
  BY CardsHold
<1>4. QED BY <1>1, <1>2, <1>3, PTL DEF OverlaySpec
=============================================================================
