---------------------------- MODULE RecencyMap ----------------------------
(***************************************************************************)
(* Python dicts that a program uses for their insertion order.  A map is a *)
(* function to records with a field `rank`: the number of entries inserted *)
(* later than it, so that the oldest entry has the highest rank.           *)
(***************************************************************************)
EXTENDS Naturals

EmptyMap == [x \in {} |-> [rank |-> 0]]

Keep(f, S) == [x \in DOMAIN f \cap S |-> f[x]]

\* d.pop(k, None)
Drop(f, k) ==
  [x \in DOMAIN f \ {k} |->
     IF k \in DOMAIN f /\ f[x].rank > f[k].rank THEN [f[x] EXCEPT !.rank = @ - 1] ELSE f[x]]

\* d.pop(k, None); d[k] = v
Touch(f, k, v) ==
  LET rest == Drop(f, k)
  IN  [x \in DOMAIN f \cup {k} |->
         IF x = k THEN [v EXCEPT !.rank = 0] ELSE [rest[x] EXCEPT !.rank = @ + 1]]

\* d[k] = v, which leaves the place of an entry that exists
Assign(f, k, v) ==
  IF k \in DOMAIN f THEN [f EXCEPT ![k] = [v EXCEPT !.rank = f[k].rank]]
                    ELSE Touch(f, k, v)

\* The n youngest entries: while len(f) > n: f.pop(next(iter(f)))
Newest(f, n) == Keep(f, {x \in DOMAIN f : f[x].rank < n})

\* Of the keys S, those of the oldest and of the youngest entry
Oldest(f, S)   == CHOOSE x \in S : \A y \in S : f[x].rank >= f[y].rank
Youngest(f, S) == CHOOSE x \in S : \A y \in S : f[x].rank <= f[y].rank
=============================================================================
