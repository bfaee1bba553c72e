--------------------------- MODULE QueueFileProofs ---------------------------
(***************************************************************************)
(* The queue file, for any proposals, processes, calls and lines: methods  *)
(* that do not overlap implement the atomic queue, through crashes, full   *)
(* disks and lines cut short; and however methods overlap, every row in a  *)
(* file is a row that some method wrote as a whole.                        *)
(***************************************************************************)
EXTENDS QueueFile, FiniteSetTheorems, FunctionTheorems, SequenceTheorems, TLAPS

Lines == Seq(Line)

\* No id has two rows.
Unique(ls) ==
  \A m, n \in 1..Len(ls) : Parses(ls[m]) /\ Parses(ls[n]) /\ ls[m].id = ls[n].id => m = n

\* Two lists of lines hold the same queue.
SameRows(ls, ms) ==
  \A id \in Ids : /\ HasRow(ls, id) <=> HasRow(ms, id)
                  /\ HasRow(ls, id) => RowOf(ls, id) = RowOf(ms, id)

-----------------------------------------------------------------------------
(* Lists of lines                                                             *)

LEMMA LineCases ==
  ASSUME NEW l \in Line
  PROVE  Parses(l) <=> l \in RowLine
BY LinesAssumption DEF Line, Parses, RowLine

LEMMA HasLeast ==
  ASSUME NEW S \in SUBSET Nat, S # {}
  PROVE  \E x \in S : \A y \in S : x <= y
<1> DEFINE R == {ss \in Nat \X Nat : ss[1] < ss[2]}
<1>1. IsWellFoundedOn(R, Nat)
  BY NatLessThanWellFounded DEF OpToRel
<1>2. \A x, y \in Nat : <<y, x>> \in R <=> y < x
  OBVIOUS
<1> HIDE DEF R
<1>3. PICK x \in S : \A y \in S : ~(<<y, x>> \in R)
  BY <1>1, WFMin
<1>4. ASSUME NEW y \in S PROVE x <= y
  <2>1. x \in Nat /\ y \in Nat /\ ~(y < x)
    BY <1>2, <1>3
  <2> QED BY <2>1
<1> QED BY <1>4

\* The row of an id is that of the first line that parses and has it.
LEMMA FirstRow ==
  ASSUME NEW ls, Len(ls) \in Nat, NEW id, HasRow(ls, id)
  PROVE  /\ First(ls, id) \in 1..Len(ls)
         /\ Parses(ls[First(ls, id)]) /\ ls[First(ls, id)].id = id
         /\ \A m \in 1..(First(ls, id) - 1) : Parses(ls[m]) => ls[m].id # id
<1> DEFINE S == {n \in 1..Len(ls) : Parses(ls[n]) /\ ls[n].id = id}
<1>1. S \subseteq Nat /\ S # {}
  BY DEF HasRow
<1>2. PICK x \in S : \A y \in S : x <= y
  BY <1>1, HasLeast
<1>3. \A m \in 1..(x - 1) : Parses(ls[m]) => ls[m].id # id
  <2> SUFFICES ASSUME NEW m \in 1..(x - 1), Parses(ls[m]), ls[m].id = id PROVE FALSE
    OBVIOUS
  <2>1. m \in S /\ m < x
    BY <1>1, <1>2
  <2> QED BY <1>1, <1>2, <2>1
<1> QED BY <1>2, <1>3 DEF First

\* Who the first is does not depend on how it was found.
LEMMA FirstIs ==
  ASSUME NEW ls, Len(ls) \in Nat, NEW id, NEW n \in 1..Len(ls), Parses(ls[n]), ls[n].id = id,
         \A m \in 1..(n - 1) : Parses(ls[m]) => ls[m].id # id
  PROVE  HasRow(ls, id) /\ First(ls, id) = n
<1>1. HasRow(ls, id)
  BY DEF HasRow
<1>2. /\ First(ls, id) \in 1..Len(ls)
      /\ Parses(ls[First(ls, id)]) /\ ls[First(ls, id)].id = id
      /\ \A m \in 1..(First(ls, id) - 1) : Parses(ls[m]) => ls[m].id # id
  BY <1>1, FirstRow
<1>3. ~(First(ls, id) < n) /\ ~(n < First(ls, id))
  BY <1>2
<1> QED BY <1>1, <1>2, <1>3

\* A longer list that begins with the same ids has the same first rows.
LEMMA SameFirst ==
  ASSUME NEW ls, NEW ms, Len(ls) \in Nat, Len(ms) \in Nat, Len(ls) <= Len(ms),
         NEW id, HasRow(ls, id),
         \A k \in 1..Len(ls) : /\ Parses(ls[k]) <=> Parses(ms[k])
                               /\ Parses(ls[k]) => ls[k].id = ms[k].id
  PROVE  HasRow(ms, id) /\ First(ms, id) = First(ls, id) /\ First(ls, id) \in 1..Len(ls)
<1> PICK n \in 1..Len(ls) : n = First(ls, id)
  BY FirstRow
<1>1. /\ Parses(ls[n]) /\ ls[n].id = id
      /\ \A m \in 1..(n - 1) : Parses(ls[m]) => ls[m].id # id
  BY FirstRow
<1>2. \A m \in 1..(n - 1) : m \in 1..Len(ls)
  OBVIOUS
<1>3. \A m \in 1..(n - 1) : Parses(ms[m]) => ms[m].id # id
  BY <1>1, <1>2
<1>4. n \in 1..Len(ms) /\ Parses(ms[n]) /\ ms[n].id = id
  BY <1>1
<1> QED BY <1>3, <1>4, FirstIs

LEMMA RowTyped ==
  ASSUME NEW ls \in Lines, NEW id, HasRow(ls, id)
  PROVE  ls[First(ls, id)] \in RowLine /\ RowOf(ls, id) \in H!Row
<1>1. Len(ls) \in Nat /\ \A n \in 1..Len(ls) : ls[n] \in Line
  BY DEF Lines
<1>2. First(ls, id) \in 1..Len(ls) /\ Parses(ls[First(ls, id)])
  BY <1>1, FirstRow
<1> QED BY <1>1, <1>2, LineCases DEF RowOf, RowLine

\* A finite set of numbers can be put in order.
LEMMA Ordered ==
  ASSUME NEW k \in Nat, NEW ns \in SUBSET (1..k)
  PROVE  /\ IsFiniteSet(ns) /\ Cardinality(ns) \in Nat
         /\ InOrder(ns) \in [1..Cardinality(ns) -> ns]
         /\ \A i, j \in 1..Cardinality(ns) : i < j => InOrder(ns)[i] < InOrder(ns)[j]
         /\ \A x \in ns : \E i \in 1..Cardinality(ns) : InOrder(ns)[i] = x
<1> DEFINE c == Cardinality(ns)
           upto(x) == {y \in ns : y <= x}
           rank == [x \in ns |-> Cardinality(upto(x))]
<1>1. IsFiniteSet(ns) /\ c \in Nat
  <2>1. IsFiniteSet(1..k)
    BY FS_Interval
  <2>2. IsFiniteSet(ns)
    BY <2>1, FS_Subset
  <2> QED BY <2>2, FS_CardinalityType
<1>0. \A x \in ns : x \in Nat
  OBVIOUS
<1>2. \A x \in ns : upto(x) \in SUBSET ns
  OBVIOUS
<1>3. \A x \in ns : IsFiniteSet(upto(x)) /\ Cardinality(upto(x)) \in 1..c
  <2> SUFFICES ASSUME NEW x \in ns PROVE IsFiniteSet(upto(x)) /\ Cardinality(upto(x)) \in 1..c
    OBVIOUS
  <2>1. IsFiniteSet(upto(x)) /\ Cardinality(upto(x)) <= c
    BY <1>1, <1>2, FS_Subset
  <2>2. Cardinality(upto(x)) \in Nat
    BY <2>1, FS_CardinalityType
  <2>3. x \in upto(x)
    OBVIOUS
  <2>4. Cardinality(upto(x)) # 0
    BY <2>1, <2>3, FS_EmptySet
  <2> HIDE DEF upto, c
  <2> QED BY <1>1, <2>1, <2>2, <2>4
<1>4. ASSUME NEW x \in ns, NEW y \in ns, x < y PROVE rank[x] < rank[y]
  <2>1. upto(x) \in SUBSET upto(y) /\ y \in upto(y) /\ y \notin upto(x)
    <3>1. x \in Nat /\ y \in Nat /\ ~(y <= x) /\ y <= y
      BY <1>0, <1>4
    <3>2. ASSUME NEW z \in ns, z <= x PROVE z <= y
      BY <1>0, <1>4, <3>1, <3>2
    <3> QED BY <3>1, <3>2
  <2>2. IsFiniteSet(upto(y)) /\ Cardinality(upto(x)) \in Nat /\ Cardinality(upto(y)) \in Nat
    BY <1>3
  <2>3. /\ Cardinality(upto(x)) <= Cardinality(upto(y))
        /\ Cardinality(upto(y)) = Cardinality(upto(x)) => upto(x) = upto(y)
    <3> HIDE DEF upto
    <3> QED BY <2>1, <2>2, FS_Subset
  <2>4. Cardinality(upto(x)) < Cardinality(upto(y))
    BY <2>1, <2>2, <2>3
  <2> QED BY <2>4
<1>5. rank \in [ns -> 1..c] /\ \A x, y \in ns : rank[x] = rank[y] => x = y
  <2>1. rank \in [ns -> 1..c]
    BY <1>3
  <2>2. ASSUME NEW x \in ns, NEW y \in ns, rank[x] = rank[y] PROVE x = y
    <3>1. ~(x < y) /\ ~(y < x)
      BY <1>4, <2>1, <2>2
    <3> QED BY <3>1
  <2> HIDE DEF rank
  <2> QED BY <2>1, <2>2
<1> HIDE DEF rank
<1>6. rank \in Injection(ns, 1..c)
  BY <1>5 DEF Injection, IsInjective
<1>7. IsFiniteSet(1..c) /\ Cardinality(1..c) = c
  BY <1>1, FS_Interval
<1>8. rank \in Surjection(ns, 1..c)
  BY <1>6, <1>7, FS_Injection
<1>9. \A i \in 1..c : \E x \in ns : rank[x] = i
  BY <1>8, Fun_SurjectionProperties
<1> DEFINE f == [i \in 1..c |-> CHOOSE x \in ns : rank[x] = i]
<1>10. \A i \in 1..c : f[i] \in ns /\ rank[f[i]] = i
  BY <1>9
<1>11. f \in [1..c -> ns]
  BY <1>10
<1>12. ASSUME NEW i \in 1..c, NEW j \in 1..c, i < j PROVE f[i] < f[j]
  <2>1. f[i] \in ns /\ f[j] \in ns /\ rank[f[i]] = i /\ rank[f[j]] = j
    BY <1>10
  <2> HIDE DEF f
  <2>2. f[i] \in Nat /\ f[j] \in Nat
    BY <1>0, <2>1
  <2>3. ~(f[j] < f[i])
    <3>1. ASSUME f[j] < f[i] PROVE FALSE
      <4>1. rank[f[j]] < rank[f[i]]
        BY <1>4, <2>1, <3>1
      <4> QED BY <1>12, <2>1, <2>2, <4>1
    <3> QED BY <3>1
  <2>4. f[i] # f[j]
    BY <1>12, <2>1, <2>2
  <2> QED BY <2>2, <2>3, <2>4
<1> HIDE DEF f
<1> DEFINE g == InOrder(ns)
<1>13. g \in [1..c -> ns] /\ \A i, j \in DOMAIN g : i < j => g[i] < g[j]
  <2>1. \A i, j \in DOMAIN f : i < j => f[i] < f[j]
    BY <1>11, <1>12
  <2> QED BY <1>11, <2>1 DEF InOrder
<1> HIDE DEF g
<1>14. \A i, j \in 1..c : i < j => g[i] < g[j]
  BY <1>13
<1>15. g \in Injection(1..c, ns)
  <2>1. ASSUME NEW i \in 1..c, NEW j \in 1..c, g[i] = g[j] PROVE i = j
    <3>1. g[i] \in ns
      BY <1>13
    <3>2. g[i] \in Nat
      BY <1>0, <3>1
    <3>3. ~(i < j) /\ ~(j < i)
      BY <1>14, <2>1, <3>2
    <3> QED BY <3>3
  <2> QED BY <1>13, <2>1 DEF Injection, IsInjective
<1>16. g \in Surjection(1..c, ns)
  BY <1>1, <1>7, <1>15, FS_Injection
<1>17. \A x \in ns : \E i \in 1..c : g[i] = x
  BY <1>16 DEF Surjection
<1> QED BY <1>1, <1>13, <1>14, <1>17 DEF g

\* A line that is written anew is the same row.
LEMMA WholeRow ==
  ASSUME NEW l \in RowLine
  PROVE  Whole(l) \in RowLine /\ Parses(Whole(l)) /\ Whole(l).id = l.id /\ Whole(l).row = l.row
<1>1. Whole(l) \in RowLine /\ Whole(l).id = l.id /\ Whole(l).row = l.row
  BY DEF Whole, RowLine
<1>2. Whole(l) \in Line
  BY <1>1 DEF Line
<1> QED BY <1>1, <1>2, LineCases

\* readAllLocked: the rows that parse, in their order, are the same queue.
LEMMA ParsedLines ==
  ASSUME NEW ls \in Lines
  PROVE  /\ Parsed(ls) \in Seq(RowLine)
         /\ \A k \in 1..Len(Parsed(ls)) : \E n \in 1..Len(ls) :
              ls[n] \in RowLine /\ Parsed(ls)[k] = Whole(ls[n])
         /\ SameRows(ls, Parsed(ls))
         /\ Unique(ls) => Unique(Parsed(ls))
<1> DEFINE ns == Parsing(ls)
           c == Cardinality(ns)
           f == InOrder(ns)
           ps == Parsed(ls)
<1>1. Len(ls) \in Nat /\ \A n \in 1..Len(ls) : ls[n] \in Line
  BY DEF Lines
<1>2. ns \in SUBSET (1..Len(ls)) /\ \A n \in 1..Len(ls) : n \in ns <=> Parses(ls[n])
  BY DEF Parsing
<1> HIDE DEF ns
<1>3. /\ c \in Nat /\ f \in [1..c -> ns]
      /\ \A i, j \in 1..c : i < j => f[i] < f[j]
      /\ \A x \in ns : \E i \in 1..c : f[i] = x
  BY <1>1, <1>2, Ordered
<1>4. ps = [k \in 1..c |-> Whole(ls[f[k]])]
  BY DEF Parsed, ns
<1> HIDE DEF c, f, ps
<1>5. \A k \in 1..c : /\ f[k] \in ns /\ f[k] \in 1..Len(ls) /\ Parses(ls[f[k]])
                      /\ ls[f[k]] \in RowLine /\ ps[k] = Whole(ls[f[k]])
                      /\ ps[k] \in RowLine /\ Parses(ps[k])
                      /\ ps[k].id = ls[f[k]].id /\ ps[k].row = ls[f[k]].row
  <2> SUFFICES ASSUME NEW k \in 1..c
               PROVE  /\ f[k] \in ns /\ f[k] \in 1..Len(ls) /\ Parses(ls[f[k]])
                      /\ ls[f[k]] \in RowLine /\ ps[k] = Whole(ls[f[k]])
                      /\ ps[k] \in RowLine /\ Parses(ps[k])
                      /\ ps[k].id = ls[f[k]].id /\ ps[k].row = ls[f[k]].row
    OBVIOUS
  <2>1. f[k] \in ns /\ f[k] \in 1..Len(ls) /\ Parses(ls[f[k]])
    BY <1>2, <1>3
  <2>2. ps[k] = Whole(ls[f[k]]) /\ ls[f[k]] \in RowLine
    BY <1>1, <1>4, <2>1, LineCases
  <2> QED BY <2>1, <2>2, WholeRow
<1>6. ps \in [1..c -> RowLine]
  BY <1>4, <1>5
<1>7. ps \in Seq(RowLine) /\ Len(ps) = c
  BY <1>3, <1>6
<1>8. ASSUME NEW id \in Ids, HasRow(ls, id)
      PROVE  HasRow(ps, id) /\ RowOf(ls, id) = RowOf(ps, id)
  <2> PICK n \in 1..Len(ls) : n = First(ls, id)
    BY <1>1, <1>8, FirstRow
  <2>1. /\ Parses(ls[n]) /\ ls[n].id = id
        /\ \A m \in 1..(n - 1) : Parses(ls[m]) => ls[m].id # id
    BY <1>1, <1>8, FirstRow
  <2>2. PICK k \in 1..c : f[k] = n
    BY <1>2, <1>3, <2>1
  <2>3. \A m \in 1..(k - 1) : Parses(ps[m]) => ps[m].id # id
    <3> SUFFICES ASSUME NEW m \in 1..(k - 1) PROVE ps[m].id # id
      OBVIOUS
    <3>1. m \in 1..c /\ m < k
      BY <1>3
    <3>2. f[m] < n /\ f[m] \in 1..Len(ls)
      BY <1>3, <1>5, <2>2, <3>1
    <3>3. f[m] \in 1..(n - 1)
      BY <1>1, <3>2
    <3> QED BY <1>5, <2>1, <3>1, <3>3
  <2>4. /\ ps[k].row = ls[n].row /\ k \in 1..Len(ps) /\ Len(ps) \in Nat
        /\ Parses(ps[k]) /\ ps[k].id = id
    BY <1>3, <1>5, <1>7, <2>1, <2>2
  <2>5. HasRow(ps, id) /\ First(ps, id) = k
    BY <2>3, <2>4, FirstIs
  <2> QED BY <2>4, <2>5 DEF RowOf
<1>9. ASSUME NEW id \in Ids, HasRow(ps, id) PROVE HasRow(ls, id)
  BY <1>5, <1>7, <1>9 DEF HasRow
<1>10. ASSUME Unique(ls) PROVE Unique(ps)
  <2> SUFFICES ASSUME NEW j \in 1..c, NEW k \in 1..c, ps[j].id = ps[k].id PROVE j = k
    BY <1>7 DEF Unique
  <2>1. f[j] = f[k]
    BY <1>5, <1>10 DEF Unique
  <2>2. f[j] \in Nat /\ j \in Nat /\ k \in Nat
    BY <1>5
  <2>3. ~(f[j] < f[k]) /\ ~(f[k] < f[j])
    BY <2>1, <2>2
  <2>4. ~(j < k) /\ ~(k < j)
    BY <1>3, <2>3
  <2> QED BY <2>2, <2>4
<1> QED BY <1>5, <1>7, <1>8, <1>9, <1>10 DEF SameRows, ps

\* A list in which the first row of an id is another one, and nothing else.
LEMMA OtherRow ==
  ASSUME NEW ps \in Seq(RowLine), NEW id \in Ids, HasRow(ps, id), NEW r \in H!Row,
         NEW new \in Seq(RowLine), Len(new) = Len(ps),
         \A k \in 1..Len(ps) :
           new[k] = IF k = First(ps, id) THEN [ps[k] EXCEPT !.row = r] ELSE ps[k]
  PROVE  /\ \A j \in Ids : /\ HasRow(new, j) <=> HasRow(ps, j)
                           /\ HasRow(ps, j) =>
                                RowOf(new, j) = IF j = id THEN r ELSE RowOf(ps, j)
         /\ Unique(ps) => Unique(new)
<1>1. /\ Len(ps) \in Nat
      /\ \A k \in 1..Len(ps) : ps[k] \in RowLine /\ Parses(ps[k]) /\ Parses(new[k])
  <2>1. \A l \in RowLine : l \in Line
    BY DEF RowLine, Line
  <2> QED BY <2>1, LineCases
<1> PICK n \in 1..Len(ps) : n = First(ps, id)
  BY <1>1, FirstRow
<1>2. ps[n].id = id /\ new[n].id = id /\ new[n].row = r
  <2>1. ps[n].id = id /\ ps[n] \in RowLine
    BY <1>1, FirstRow
  <2>2. new[n] = [ps[n] EXCEPT !.row = r]
    OBVIOUS
  <2> QED BY <2>1, <2>2 DEF RowLine
<1>3. \A k \in 1..Len(ps) : new[k].id = ps[k].id
  BY <1>2
<1>4. \A j \in Ids : HasRow(new, j) <=> HasRow(ps, j)
  BY <1>1, <1>3 DEF HasRow
<1>5. ASSUME NEW j \in Ids, HasRow(ps, j)
      PROVE  RowOf(new, j) = IF j = id THEN r ELSE RowOf(ps, j)
  <2> PICK m \in 1..Len(ps) : m = First(ps, j)
    BY <1>1, <1>5, FirstRow
  <2>1. ps[m].id = j
    BY <1>1, <1>5, FirstRow
  <2>2. First(new, j) = m
    <3>1. /\ Len(ps) \in Nat /\ Len(new) \in Nat /\ Len(ps) <= Len(new)
          /\ \A k \in 1..Len(ps) : /\ Parses(ps[k]) <=> Parses(new[k])
                                   /\ Parses(ps[k]) => ps[k].id = new[k].id
      BY <1>1, <1>3
    <3> QED BY <1>5, <3>1, SameFirst
  <2>3. j = id <=> m = n
    BY <1>2, <2>1
  <2> QED BY <1>2, <2>2, <2>3 DEF RowOf
<1>6. Unique(ps) => Unique(new)
  BY <1>1, <1>3 DEF Unique
<1> QED BY <1>4, <1>5, <1>6

\* A method changes the first row of its id, and nothing else.
Put(ps, id, r) == [ps EXCEPT ![First(ps, id)].row = r]

LEMMA Replaced ==
  ASSUME NEW ps \in Seq(RowLine), NEW id \in Ids, HasRow(ps, id), NEW r \in H!Row
  PROVE  /\ Put(ps, id, r) \in Seq(RowLine) /\ Len(Put(ps, id, r)) = Len(ps)
         /\ \A k \in 1..Len(ps) : Put(ps, id, r)[k] =
              IF k = First(ps, id) THEN [ps[k] EXCEPT !.row = r] ELSE ps[k]
<1> DEFINE new == Put(ps, id, r)
<1>1. Len(ps) \in Nat /\ \A k \in 1..Len(ps) : ps[k] \in RowLine
  OBVIOUS
<1> PICK n \in 1..Len(ps) : n = First(ps, id)
  BY <1>1, FirstRow
<1> DEFINE l == [ps[n] EXCEPT !.row = r]
<1>2. ps[n] \in RowLine
  BY <1>1
<1>3. l \in RowLine
  BY <1>2 DEF RowLine
<1>4. new = [ps EXCEPT ![n] = l]
  BY <1>1, <1>3 DEF Put
<1> HIDE DEF l, new
<1>5. /\ new \in Seq(RowLine) /\ Len(new) = Len(ps)
      /\ \A k \in 1..Len(ps) : new[k] = IF k = n THEN l ELSE ps[k]
  BY <1>3, <1>4
<1> QED BY <1>5 DEF l, new

\* What an append can do to the queue: nothing but leave a line that does not parse;
\* add a row behind those there are; or take away the row of the last line, which has
\* no newline.
LeavesRows(ls, l, new) == SameRows(ls, new) /\ (Ends(l) => new[Len(new)] = Scrap)

AddsRow(ls, l, new) ==
  /\ l \in RowLine
  /\ \A j \in Ids :
       /\ HasRow(new, j) <=> HasRow(ls, j) \/ j = l.id
       /\ HasRow(new, j) => RowOf(new, j) = IF HasRow(ls, j) THEN RowOf(ls, j) ELSE l.row

LosesRow(ls, l, new) ==
  /\ ls # <<>> /\ ls[Len(ls)] \in RowLine /\ ~ls[Len(ls)].ends
  /\ \A j \in Ids :
       /\ HasRow(new, j) <=> HasRow(ls, j) /\ j # ls[Len(ls)].id
       /\ HasRow(new, j) => RowOf(new, j) = RowOf(ls, j)
  /\ Ends(l) => new[Len(new)] = Scrap

LEMMA AppendedRow ==
  ASSUME NEW ls \in Lines, NEW l \in RowLine \cup {Torn}, NEW new, new = Appended(ls, l)
  PROVE  /\ new \in Lines /\ Len(new) \in 1..(Len(ls) + 1)
         /\ \A k \in 1..Len(new) : \/ new[k] \in {l, Torn, Scrap}
                                   \/ \E n \in 1..Len(ls) : new[k] = ls[n]
         /\ LeavesRows(ls, l, new) \/ AddsRow(ls, l, new) \/ LosesRow(ls, l, new)
         /\ Unique(ls) /\ (l = Torn \/ ~HasRow(ls, l.id)) => Unique(new)
<1>0. /\ Len(ls) \in Nat /\ \A n \in 1..Len(ls) : ls[n] \in Line
      /\ ls \in Seq(Line) /\ l \in Line /\ {Torn, Scrap} \subseteq Line
      /\ l = Torn \/ l \in RowLine
      /\ ~Parses(Torn) /\ ~Parses(Scrap) /\ ~Ends(Torn)
  BY LinesAssumption DEF Lines, Line, Parses, Ends
<1>1. CASE ls # <<>> /\ ~Ends(ls[Len(ls)])
  <2> PICK z \in {Torn, Scrap} : z = IF Ends(l) THEN Scrap ELSE Torn
    OBVIOUS
  <2> PICK e \in Nat : e = Len(ls)
    BY <1>0
  <2>1. new = [ls EXCEPT ![e] = z]
    BY <1>1 DEF Appended
  <2>2. e \in 1..e
    BY <1>0, <1>1
  <2>3. /\ new \in Lines /\ Len(new) = e
        /\ \A k \in 1..e : new[k] = IF k = e THEN z ELSE ls[k]
    BY <1>0, <2>1, <2>2, ExceptSeq DEF Lines
  <2>4. \A k \in 1..e : Parses(new[k]) => new[k] = ls[k] /\ k # e
    BY <1>0, <2>3
  <2>5. ASSUME NEW id \in Ids, HasRow(new, id)
        PROVE  HasRow(ls, id) /\ RowOf(new, id) = RowOf(ls, id)
    <3> PICK n \in 1..e : n = First(new, id)
      BY <2>3, <2>5, FirstRow
    <3>1. /\ Parses(new[n]) /\ new[n].id = id
          /\ \A m \in 1..(n - 1) : Parses(new[m]) => new[m].id # id
      BY <2>3, <2>5, FirstRow
    <3>2. n < e /\ new[n] = ls[n]
      BY <2>4, <3>1
    <3>3. \A m \in 1..(n - 1) : m \in 1..e /\ m # e
      BY <3>2
    <3>4. \A m \in 1..(n - 1) : Parses(ls[m]) => ls[m].id # id
      BY <2>3, <3>1, <3>3
    <3>5. HasRow(ls, id) /\ First(ls, id) = n
      BY <3>1, <3>2, <3>4, FirstIs
    <3> QED BY <3>2, <3>5 DEF RowOf
  <2>6. ASSUME NEW id \in Ids, HasRow(ls, id), ~HasRow(new, id)
        PROVE  ls[e] \in RowLine /\ ls[e].id = id
    <3> PICK n \in 1..e : Parses(ls[n]) /\ ls[n].id = id
      BY <2>6 DEF HasRow
    <3>1. n = e
      BY <2>3, <2>6 DEF HasRow
    <3> QED BY <1>0, <2>2, <3>1, LineCases
  <2>7. Unique(ls) => Unique(new)
    BY <2>3, <2>4 DEF Unique
  <2>8. Ends(l) => new[Len(new)] = Scrap
    BY <2>2, <2>3
  <2>9. \A k \in 1..Len(new) : \/ new[k] \in {l, Torn, Scrap}
                               \/ \E n \in 1..Len(ls) : new[k] = ls[n]
    BY <2>3
  <2>10. CASE \A id \in Ids : HasRow(ls, id) => HasRow(new, id)
    <3>1. LeavesRows(ls, l, new)
      BY <2>5, <2>8, <2>10 DEF LeavesRows, SameRows
    <3> QED BY <1>0, <2>2, <2>3, <2>7, <2>9, <3>1
  <2>11. CASE ~\A id \in Ids : HasRow(ls, id) => HasRow(new, id)
    <3> PICK id \in Ids : HasRow(ls, id) /\ ~HasRow(new, id)
      BY <2>11
    <3>1. ls[e] \in RowLine /\ ls[e].id = id
      BY <2>6
    <3>2. ~ls[e].ends
      <4>1. Parses(ls[e])
        BY <1>0, <2>2, <3>1, LineCases
      <4> QED BY <1>1, <4>1 DEF Ends
    <3>3. \A j \in Ids : HasRow(new, j) <=> HasRow(ls, j) /\ j # id
      BY <2>5, <2>6, <3>1
    <3>4. LosesRow(ls, l, new)
      BY <1>1, <2>5, <2>8, <3>1, <3>2, <3>3 DEF LosesRow
    <3> QED BY <1>0, <2>2, <2>3, <2>7, <2>9, <3>4
  <2> QED BY <2>10, <2>11
<1>2. CASE ls = <<>> \/ Ends(ls[Len(ls)])
  <2>1. new = Append(ls, l)
    BY <1>2 DEF Appended
  <2> PICK end \in Nat : end = Len(ls) + 1
    BY <1>0
  <2>2. /\ new \in Lines /\ Len(new) = end /\ new[end] = l
        /\ \A k \in 1..Len(ls) : new[k] = ls[k]
    BY <1>0, <2>1, AppendProperties DEF Lines
  <2>3. 1..end = (1..Len(ls)) \cup {end}
    BY <1>0
  <2>4. \A k \in 1..Len(new) : \/ new[k] \in {l, Torn, Scrap}
                               \/ \E n \in 1..Len(ls) : new[k] = ls[n]
    BY <2>2, <2>3
  <2>5. ASSUME NEW j \in Ids, HasRow(ls, j) PROVE HasRow(new, j) /\ RowOf(new, j) = RowOf(ls, j)
    <3>1. HasRow(new, j) /\ First(new, j) = First(ls, j) /\ First(ls, j) \in 1..Len(ls)
      BY <1>0, <2>2, <2>5, SameFirst
    <3> QED BY <2>2, <3>1 DEF RowOf
  <2>6. CASE l = Torn
    <3>1. \A j \in Ids : HasRow(new, j) => HasRow(ls, j)
      BY <1>0, <2>2, <2>3, <2>6 DEF HasRow
    <3>2. Unique(ls) => Unique(new)
      BY <1>0, <2>2, <2>3, <2>6 DEF Unique
    <3>3. LeavesRows(ls, l, new)
      BY <1>0, <2>5, <2>6, <3>1 DEF SameRows, LeavesRows
    <3> QED BY <1>0, <2>2, <2>4, <2>6, <3>2, <3>3
  <2>7. CASE l \in RowLine
    <3>1. Parses(l) /\ l # Torn
      BY <1>0, <2>7, LineCases DEF Parses
    <3>2. \A j \in Ids : HasRow(new, j) <=> HasRow(ls, j) \/ j = l.id
      <4>1. \A j \in Ids : HasRow(new, j) => HasRow(ls, j) \/ j = l.id
        BY <2>2, <2>3 DEF HasRow
      <4>2. end \in 1..Len(new)
        BY <2>2, <2>3
      <4>3. HasRow(new, l.id)
        BY <2>2, <3>1, <4>2 DEF HasRow
      <4> QED BY <2>5, <4>1, <4>3
    <3>3. ASSUME NEW j \in Ids, HasRow(new, j), ~HasRow(ls, j) PROVE RowOf(new, j) = l.row
      <4>1. j = l.id
        BY <3>2, <3>3
      <4>2. \A m \in 1..(end - 1) : Parses(new[m]) => new[m].id # j
        <5>1. 1..(end - 1) = 1..Len(ls)
          BY <1>0
        <5> QED BY <2>2, <3>3, <5>1 DEF HasRow
      <4>3. end \in 1..Len(new) /\ Len(new) \in Nat
        BY <2>2, <2>3
      <4>4. First(new, j) = end
        BY <2>2, <3>1, <4>1, <4>2, <4>3, FirstIs
      <4> QED BY <2>2, <4>4 DEF RowOf
    <3>4. Unique(ls) /\ ~HasRow(ls, l.id) => Unique(new)
      BY <2>2, <2>3 DEF Unique, HasRow
    <3>5. \A j \in Ids : HasRow(new, j) =>
            RowOf(new, j) = IF HasRow(ls, j) THEN RowOf(ls, j) ELSE l.row
      BY <2>5, <3>3
    <3>6. AddsRow(ls, l, new)
      BY <2>7, <3>2, <3>5 DEF AddsRow
    <3> QED BY <1>0, <2>2, <2>4, <3>1, <3>4, <3>6
  <2> QED BY <1>0, <2>6, <2>7
<1> QED BY <1>1, <1>2

-----------------------------------------------------------------------------
(* What is in the files, however methods overlap                              *)

\* A row that a method wrote as a whole: what is pending has copy, a draft has none.
Sound(r) ==
  /\ r \in H!Row /\ r.status # H!Absent
  /\ r.status = H!Pending => r.body # Blank
  /\ r.status = H!Drafting => r.body = Blank

SoundRow == {l \in RowLine : Sound(l.row)}
SoundLine == SoundRow \cup {Torn, Scrap}

\* What a method holds until it opens its file: the arguments of Add are those of a
\* proposal, and what is to be written is not empty.
HeldInv ==
  /\ \A p \in Procs :
       /\ pc[p] \in {"idle", "append", "create"} => fd[p] = NoFile /\ at[p] = 0
       /\ pc[p] \in {"append", "opened"} => call[p] \in Adds
       /\ pc[p] \in {"create", "write"} => rows[p] # <<>>
  /\ path # NoFile => path # tmp

FilesInv ==
  /\ TypeOK /\ HeldInv
  /\ data \in [Inodes -> Seq(SoundLine)]
  /\ rows \in [Procs -> Seq(SoundRow)]

LEMMA SoundLines ==
  /\ SoundLine \subseteq Line /\ SoundRow \subseteq SoundLine
  /\ SoundRow \subseteq RowLine /\ RowLine \subseteq Line
  /\ Seq(SoundLine) \subseteq Lines /\ Seq(SoundRow) \subseteq Seq(SoundLine)
  /\ Seq(SoundRow) \subseteq Seq(RowLine) /\ Seq(RowLine) \subseteq Lines
  /\ <<>> \in Seq(SoundLine) /\ <<>> \in Seq(SoundRow)
  /\ Torn \in SoundLine /\ Scrap \in SoundLine
<1>1. /\ SoundLine \subseteq Line /\ SoundRow \subseteq SoundLine
      /\ SoundRow \subseteq RowLine /\ RowLine \subseteq Line
      /\ Torn \in SoundLine /\ Scrap \in SoundLine
  BY DEF SoundLine, SoundRow, Line
<1>2. /\ Seq(SoundLine) \subseteq Lines /\ Seq(SoundRow) \subseteq Seq(SoundLine)
      /\ Seq(SoundRow) \subseteq Seq(RowLine) /\ Seq(RowLine) \subseteq Lines
  BY <1>1, SeqMonotonic DEF Lines
<1> QED BY <1>1, <1>2, EmptySeq

LEMMA NewLineSound ==
  ASSUME NEW c \in Adds
  PROVE  NewLine(c) \in SoundRow
BY QueueAssumption DEF Adds, NewLine, SoundRow, RowLine, Sound, H!NewRow, H!Row, H!Statuses,
       H!Decided, H!Approvers, H!Pending, H!Drafting, H!Absent, H!Approved, H!Rejected,
       H!Dispatched

\* What is left of a line that is cut short is no row, or the row without its newline.
LEMMA CutLine ==
  ASSUME NEW m \in SoundRow, NEW l \in CutShort(m)
  PROVE  /\ l \in SoundRow \cup {Torn} /\ l \in SoundLine /\ l \in RowLine \cup {Torn}
         /\ l = Torn \/ (l.id = m.id /\ l.row = m.row)
<1>1. l = Torn \/ (l \in RowLine /\ l.id = m.id /\ l.row = m.row)
  BY DEF CutShort, Unended, SoundRow, RowLine
<1> QED BY <1>1 DEF SoundLine, SoundRow

LEMMA CallKinds ==
  ASSUME NEW c \in Calls
  PROVE  /\ c.id \in Ids
         /\ c.kind = "add" <=> c \in Adds
         /\ c.kind # "add" => \/ c \in Updates /\ c.kind = "update"
                              \/ c \in Attaches /\ c.kind = "relais"
                              \/ c \in Drafts /\ c.kind = "draft"
                              \/ c \in Redrafts /\ c.kind = "redraft"
BY DEF Calls, Adds, Updates, Attaches, Drafts, Redrafts

\* The change a method makes to a row that it accepts leaves a whole row.
LEMMA ChangedSound ==
  ASSUME NEW c \in Calls, c.kind # "add", NEW r, Sound(r), Accepts(c, r)
  PROVE  Sound(Changed(c, r))
<1> USE QueueAssumption DEF Sound, H!Row, H!Statuses, H!Decided, H!Approvers, H!Pending,
        H!Drafting, H!Absent, H!Approved, H!Rejected, H!Dispatched
<1>1. CASE c \in Updates /\ c.kind = "update"
  <2> DEFINE s == Changed(c, r)
  <2>1. s = [r EXCEPT !.status = c.status,
                      !.approver = IF c.status = H!Approved THEN c.by ELSE @,
                      !.dispatched = IF c.status = H!Dispatched THEN TRUE ELSE @]
    BY <1>1 DEF Changed
  <2>2. c.status \in H!Decided /\ c.by \in H!Approvers
    BY <1>1 DEF Updates
  <2> QED BY <2>1, <2>2
<1>2. CASE c \in Attaches /\ c.kind = "relais"
  <2>1. Changed(c, r) = [r EXCEPT !.link = c.link] /\ c.link \in Links
    BY <1>2 DEF Changed, Attaches
  <2> QED BY <2>1
<1>3. CASE c \in Drafts /\ c.kind = "draft"
  <2>1. Changed(c, r) = [r EXCEPT !.body = c.body, !.status = H!Pending] /\ c.body \in Texts
    BY <1>3 DEF Changed, Drafts
  <2>2. Changed(c, r).status = "pending" /\ Changed(c, r).body = c.body
    BY <2>1
  <2>3. Changed(c, r) \in H!Row
    BY <2>1
  <2> QED BY <2>1, <2>2, <2>3
<1>4. CASE c \in Redrafts /\ c.kind = "redraft"
  <2>1. Changed(c, r) = [r EXCEPT !.body = Blank, !.status = H!Drafting]
    BY <1>4 DEF Changed
  <2> QED BY <2>1
<1> QED BY <1>1, <1>2, <1>3, <1>4, CallKinds

\* What a method will write out: the queue it read with its own row changed.
NewRows(c, ls) ==
  [Parsed(ls) EXCEPT ![First(Parsed(ls), c.id)].row = Changed(c, @)]

LEMMA RowsRead ==
  ASSUME NEW ls \in Seq(SoundLine), NEW id \in Ids, HasRow(ls, id)
  PROVE  Sound(RowOf(ls, id))
<1>1. Len(ls) \in Nat /\ \A n \in 1..Len(ls) : ls[n] \in SoundLine
  OBVIOUS
<1>2. First(ls, id) \in 1..Len(ls) /\ Parses(ls[First(ls, id)])
  BY <1>1, FirstRow
<1>3. ls[First(ls, id)] \in SoundRow
  BY <1>1, <1>2 DEF SoundLine, Parses
<1> QED BY <1>3 DEF RowOf, SoundRow

LEMMA NewRowsSound ==
  ASSUME NEW ls \in Seq(SoundLine), NEW c \in Calls, c.kind # "add",
         HasRow(ls, c.id), Accepts(c, RowOf(ls, c.id))
  PROVE  /\ NewRows(c, ls) \in Seq(SoundRow) /\ NewRows(c, ls) # <<>>
         /\ \A j \in Ids :
              /\ HasRow(NewRows(c, ls), j) <=> HasRow(ls, j)
              /\ HasRow(ls, j) =>
                   RowOf(NewRows(c, ls), j) =
                     IF j = c.id THEN Changed(c, RowOf(ls, j)) ELSE RowOf(ls, j)
         /\ Unique(ls) => Unique(NewRows(c, ls))
<1> DEFINE ps == Parsed(ls)
           r == Changed(c, RowOf(ls, c.id))
           new == NewRows(c, ls)
<1>1. /\ ls \in Lines /\ c.id \in Ids
  BY SoundLines, CallKinds
<1>2. /\ ps \in Seq(RowLine) /\ SameRows(ls, ps)
      /\ Unique(ls) => Unique(ps)
  BY <1>1, ParsedLines
<1>3. Sound(r) /\ r \in H!Row
  BY <1>1, RowsRead, ChangedSound DEF Sound
<1>4. HasRow(ps, c.id) /\ RowOf(ps, c.id) = RowOf(ls, c.id)
  BY <1>1, <1>2 DEF SameRows
<1>5. new = Put(ps, c.id, r)
  <2>1. ps[First(ps, c.id)].row = RowOf(ls, c.id)
    BY <1>4 DEF RowOf
  <2> QED BY <2>1 DEF NewRows, Put
<1>6. \A k \in 1..Len(ps) : ps[k] \in SoundRow
  <2> SUFFICES ASSUME NEW k \in 1..Len(ps) PROVE ps[k] \in SoundRow
    OBVIOUS
  <2>1. PICK l \in SoundLine : l \in RowLine /\ ps[k] = Whole(l)
    BY <1>1, ParsedLines
  <2>2. l \in SoundRow
    BY <2>1, LinesAssumption DEF SoundLine
  <2> QED BY <2>1, <2>2, WholeRow DEF SoundRow
<1> HIDE DEF ps, r, new
<1>7. /\ new \in Seq(RowLine) /\ Len(new) = Len(ps)
      /\ \A k \in 1..Len(ps) :
           new[k] = IF k = First(ps, c.id) THEN [ps[k] EXCEPT !.row = r] ELSE ps[k]
  BY <1>1, <1>2, <1>3, <1>4, <1>5, Replaced
<1>8. /\ \A j \in Ids : /\ HasRow(new, j) <=> HasRow(ps, j)
                        /\ HasRow(ps, j) => RowOf(new, j) = IF j = c.id THEN r ELSE RowOf(ps, j)
      /\ Unique(ps) => Unique(new)
  BY <1>1, <1>2, <1>3, <1>4, <1>7, OtherRow
<1>9. new \in Seq(SoundRow) /\ new # <<>>
  <2>1. ASSUME NEW l \in SoundRow PROVE [l EXCEPT !.row = r] \in SoundRow
    BY <1>3, <2>1 DEF SoundRow, RowLine
  <2>2. \A k \in 1..Len(new) : new[k] \in SoundRow
    BY <1>6, <1>7, <2>1
  <2>3. Len(new) \in Nat /\ new \in [1..Len(new) -> SoundRow]
    BY <1>7, <2>2
  <2>4. Len(ps) \in Nat /\ First(ps, c.id) \in 1..Len(ps)
    BY <1>2, <1>4, FirstRow
  <2> QED BY <1>7, <2>3, <2>4
<1>10. \A j \in Ids :
         /\ HasRow(new, j) <=> HasRow(ls, j)
         /\ HasRow(ls, j) => RowOf(new, j) = IF j = c.id THEN Changed(c, RowOf(ls, j)) ELSE RowOf(ls, j)
  BY <1>2, <1>8 DEF SameRows, r
<1> QED BY <1>2, <1>8, <1>9, <1>10 DEF new

\* What a write can leave in a file is made of lines that were there, the line that
\* is written, and scrap.
LEMMA WrittenSound ==
  ASSUME NEW p \in Procs, data[fd[p]] \in Seq(SoundLine), at[p] \in Nat, NEW l \in SoundLine,
         NEW new \in Written(p, l)
  PROVE  new \in Seq(SoundLine)
<1> DEFINE ls == data[fd[p]]
<1>1. ls \in Seq(SoundLine) /\ Len(ls) \in Nat /\ \A n \in 1..Len(ls) : ls[n] \in SoundLine
  OBVIOUS
<1> HIDE DEF ls
<1>2. ASSUME NEW a \in Nat \ {0}, NEW b \in Nat, b <= Len(ls) PROVE SubSeq(ls, a, b) \in Seq(SoundLine)
  <2>1. \A i \in a..b : ls[i] \in SoundLine
    BY <1>1, <1>2
  <2> QED BY <2>1, SubSeqProperties
<1>3. ASSUME NEW k \in Nat, NEW rest \in Beyond(ls, k) PROVE rest \in Seq(SoundLine)
  <2>1. CASE rest = <<>>
    BY <2>1, SoundLines
  <2>2. CASE rest # <<>>
    <3>1. PICK m \in (k + 1)..(Len(ls) + 1), z \in {Torn, Scrap} :
            rest \in {SubSeq(ls, m, Len(ls)), <<z>> \o SubSeq(ls, m, Len(ls))}
      BY <2>2 DEF Beyond
    <3>2. SubSeq(ls, m, Len(ls)) \in Seq(SoundLine)
      <4>1. m \in Nat \ {0} /\ Len(ls) \in Nat
        BY <1>1
      <4> QED BY <1>2, <4>1
    <3>3. <<z>> \in Seq(SoundLine)
      BY SoundLines
    <3> QED BY <3>1, <3>2, <3>3, ConcatProperties
  <2> QED BY <2>1, <2>2
<1>4. PICK k \in 0..Len(ls), m \in {l, Scrap} : new \in PutAt(ls, k, m)
  BY <1>1 DEF Written, ls
<1>40. PICK rest \in Beyond(ls, k + 1) :
        new = SubSeq(ls, 1, k) \o <<IF rest # <<>> /\ ~Ends(m) THEN Scrap ELSE m>> \o rest
  BY <1>4 DEF PutAt
<1> DEFINE z == IF rest # <<>> /\ ~Ends(m) THEN Scrap ELSE m
<1>5. <<z>> \in Seq(SoundLine)
  BY SoundLines
<1>6. SubSeq(ls, 1, k) \in Seq(SoundLine) /\ rest \in Seq(SoundLine)
  BY <1>1, <1>2, <1>3
<1> HIDE DEF z
<1>7. SubSeq(ls, 1, k) \o <<z>> \in Seq(SoundLine)
  BY <1>5, <1>6, ConcatProperties
<1>8. SubSeq(ls, 1, k) \o <<z>> \o rest \in Seq(SoundLine)
  BY <1>6, <1>7, ConcatProperties
<1> QED BY <1>40, <1>8 DEF z

LEMMA AppendedSound ==
  ASSUME NEW ls \in Seq(SoundLine), NEW l \in SoundRow \cup {Torn}
  PROVE  Appended(ls, l) \in Seq(SoundLine)
<1> PICK new : new = Appended(ls, l)
  OBVIOUS
<1>1. ls \in Lines /\ l \in RowLine \cup {Torn}
  BY SoundLines
<1>2. /\ new \in Lines /\ Len(new) \in Nat
      /\ \A k \in 1..Len(new) : \/ new[k] \in {l, Torn, Scrap}
                                \/ \E n \in 1..Len(ls) : new[k] = ls[n]
  BY <1>1, AppendedRow DEF Lines
<1>3. l \in SoundLine /\ \A n \in 1..Len(ls) : ls[n] \in SoundLine
  BY SoundLines
<1>4. \A k \in 1..Len(new) : new[k] \in SoundLine
  BY <1>2, <1>3, SoundLines
<1>5. new \in [1..Len(new) -> SoundLine]
  BY <1>2, <1>4 DEF Lines
<1> QED BY <1>2, <1>5

\* There is always an inode for a new file.
LEMMA FreshFile ==
  ASSUME TypeOK, path = NoFile \/ tmp = NoFile
  PROVE  Fresh \in Inodes /\ Fresh \notin Named
<1>1. fd \in [Procs -> Inodes \cup {NoFile}] /\ path \in Inodes \cup {NoFile} /\ tmp \in Inodes \cup {NoFile}
  BY DEF TypeOK
<1>2. \E j \in Inodes : j # path /\ j # tmp /\ \A p \in Procs : fd[p] # j
  <2>1. CASE path = NoFile
    BY <1>1, <2>1, RoomAssumption, NamesAssumption
  <2>2. CASE tmp = NoFile
    BY <1>1, <2>2, RoomAssumption, NamesAssumption
  <2> QED BY <2>1, <2>2
<1>3. \E j \in Inodes : j \notin Named
  BY <1>2 DEF Named
<1> QED BY <1>3 DEF Fresh

\* Who is about to write has a file open.
LEMMA OpenFile ==
  ASSUME TypeOK, NEW p \in Procs, pc[p] \in {"opened", "write"}
  PROVE  fd[p] \in Inodes /\ at[p] \in Nat
<1>1. fd[p] # NoFile
  BY DEF TypeOK
<1>2. fd[p] \in Inodes \cup {NoFile} /\ at[p] \in Nat
  BY DEF TypeOK
<1> QED BY <1>1, <1>2

\* A method that is over leaves whole rows, if what it leaves on disk is made of them.
LEMMA OverKeeps ==
  ASSUME FilesInv, NEW p \in Procs, NEW d \in [Inodes -> Seq(SoundLine)],
         UNCHANGED <<overlap, path, tmp>>, Over(p, d)
  PROVE  FilesInv'
<1>1. data' \in [Inodes -> Seq(SoundLine)]
  <2>1. \A i \in Inodes : d[i] \in Seq(SoundLine)
    OBVIOUS
  <2>2. \A i \in Inodes : (IF i \in Named' THEN d[i] ELSE <<>>) \in Seq(SoundLine)
    BY <2>1, SoundLines
  <2>3. data' = [i \in Inodes |-> IF i \in Named' THEN d[i] ELSE <<>>]
    BY DEF Over, Reachable
  <2> QED BY <2>2, <2>3
<1>2. data' \in [Inodes -> Seq(Line)]
  BY <1>1, SoundLines DEF Lines
<1>3. rows' \in [Procs -> Seq(SoundRow)] /\ rows' \in [Procs -> Seq(Line)]
  BY SoundLines DEF Over, FilesInv, Lines
<1>4. TypeOK'
  BY <1>2, <1>3 DEF Over, Goto, FilesInv, TypeOK
<1>5. HeldInv'
  BY DEF Over, Goto, FilesInv, TypeOK, HeldInv
<1> QED BY <1>1, <1>3, <1>4, <1>5 DEF FilesInv

LEMMA FilesInit == Init => FilesInv
<1> SUFFICES ASSUME Init PROVE FilesInv
  OBVIOUS
<1>1. /\ data \in [Inodes -> Seq(SoundLine)] /\ data \in [Inodes -> Seq(Line)]
      /\ rows \in [Procs -> Seq(SoundRow)] /\ rows \in [Procs -> Seq(Line)]
  BY SoundLines DEF Init, Lines
<1>2. TypeOK
  BY <1>1 DEF Init, TypeOK
<1>3. HeldInv
  BY DEF Init, HeldInv
<1> QED BY <1>1, <1>2, <1>3 DEF FilesInv

\* What the disk holds is a list of whole rows and of lines that hold none.
LEMMA OnDiskSound == FilesInv => OnDisk \in Seq(SoundLine)
BY SoundLines DEF FilesInv, TypeOK, OnDisk

LEMMA FilesStep ==
  ASSUME FilesInv, [Next]_vars
  PROVE  FilesInv'
<1>1. CASE UNCHANGED vars
  BY <1>1 DEF vars, FilesInv, TypeOK, HeldInv
<1>2. CASE Next
  <2> PICK p \in Procs : Step(p)
    BY <1>2 DEF Next
  <2>0. /\ TypeOK /\ HeldInv /\ data \in [Inodes -> Seq(SoundLine)]
        /\ rows \in [Procs -> Seq(SoundRow)]
    BY DEF FilesInv
  <2>1. ASSUME NEW c \in Inputs[overlap], AddCheck(p, c) PROVE FilesInv'
    <3>1. c \in Calls
      BY <2>0, InputsAssumption DEF TypeOK
    <3>2. c \in Adds
      BY <2>1, <3>1, CallKinds DEF AddCheck
    <3>3. TypeOK'
      BY <2>0, <2>1, <3>1 DEF AddCheck, TypeOK, Goto
    <3>4. HeldInv'
      BY <2>0, <2>1, <3>2 DEF AddCheck, TypeOK, HeldInv, Goto, Free
    <3> QED BY <2>0, <2>1, <3>3, <3>4 DEF AddCheck, FilesInv
  <2>2. ASSUME NEW c \in Inputs[overlap], ReadAll(p, c) PROVE FilesInv'
    <3>1. c \in Calls /\ c.kind # "add"
      BY <2>0, <2>2, InputsAssumption DEF TypeOK, ReadAll
    <3>2. OnDisk \in Seq(SoundLine) /\ OnDisk \in Lines /\ c.id \in Ids
      BY <3>1, OnDiskSound, SoundLines, CallKinds
    <3>3. HasRow(OnDisk, c.id) /\ Accepts(c, RowOf(OnDisk, c.id))
      BY <2>2, <3>2, ParsedLines DEF ReadAll, SameRows
    <3> PICK new \in Seq(SoundRow) : new = NewRows(c, OnDisk) /\ new # <<>>
      BY <3>1, <3>2, <3>3, NewRowsSound
    <3>4. rows' = [rows EXCEPT ![p] = new]
      BY <2>2 DEF ReadAll, NewRows
    <3>5. rows' \in [Procs -> Seq(SoundRow)] /\ rows' \in [Procs -> Seq(Line)]
      BY <2>0, <3>4, SoundLines DEF Lines
    <3>6. TypeOK'
      BY <2>0, <2>2, <3>1, <3>5 DEF ReadAll, TypeOK, Goto
    <3>7. HeldInv'
      BY <2>0, <2>2, <3>4 DEF ReadAll, TypeOK, HeldInv, Goto, Free
    <3> QED BY <2>0, <2>2, <3>5, <3>6, <3>7 DEF ReadAll, FilesInv
  <2>3. CASE AddOpen(p)
    <3>1. CASE path = NoFile
      <4> PICK i \in Inodes : i = Fresh /\ i \notin Named
        BY <2>0, <3>1, FreshFile
      <4>1. /\ path' = i /\ fd' = [fd EXCEPT ![p] = i]
            /\ data' = [data EXCEPT ![i] = <<>>]
            /\ Goto(p, "opened") /\ UNCHANGED <<overlap, tmp, call, rows, at>>
        BY <2>3, <3>1 DEF AddOpen
      <4>2. data' \in [Inodes -> Seq(SoundLine)] /\ data' \in [Inodes -> Seq(Line)]
        BY <2>0, <4>1, SoundLines DEF Lines
      <4>3. i # NoFile /\ i # tmp
        BY NamesAssumption DEF Named
      <4>4. TypeOK'
        BY <2>0, <4>1, <4>2, <4>3 DEF TypeOK, Goto
      <4>5. HeldInv'
        BY <2>0, <2>3, <4>1, <4>3 DEF AddOpen, TypeOK, HeldInv, Goto
      <4> QED BY <2>0, <4>1, <4>2, <4>4, <4>5 DEF FilesInv
    <3>2. CASE path # NoFile
      <4>1. /\ fd' = [fd EXCEPT ![p] = path]
            /\ Goto(p, "opened") /\ UNCHANGED <<overlap, path, data, tmp, call, rows, at>>
        BY <2>3, <3>2 DEF AddOpen
      <4>2. TypeOK'
        BY <2>0, <3>2, <4>1 DEF TypeOK, Goto
      <4>3. HeldInv'
        BY <2>0, <2>3, <4>1 DEF AddOpen, TypeOK, HeldInv, Goto
      <4> QED BY <2>0, <4>1, <4>2, <4>3 DEF FilesInv
    <3> QED BY <3>1, <3>2
  <2>4. CASE AddWrite(p)
    <3>0. pc[p] = "opened"
      BY <2>4 DEF AddWrite
    <3>1. fd[p] \in Inodes /\ call[p] \in Adds
      BY <2>0, <3>0, OpenFile DEF HeldInv
    <3>2. Appended(data[fd[p]], NewLine(call[p])) \in Seq(SoundLine)
      BY <2>0, <3>1, NewLineSound, AppendedSound
    <3>3. data' = [data EXCEPT ![fd[p]] = Appended(data[fd[p]], NewLine(call[p]))]
      BY <2>4 DEF AddWrite
    <3>4. data' \in [Inodes -> Seq(SoundLine)] /\ data' \in [Inodes -> Seq(Line)]
      BY <2>0, <3>1, <3>2, <3>3, SoundLines DEF Lines
    <3>5. TypeOK'
      BY <2>0, <2>4, <3>4 DEF AddWrite, TypeOK, Goto
    <3>6. HeldInv'
      BY <2>0, <2>4 DEF AddWrite, TypeOK, HeldInv, Goto
    <3> QED BY <2>0, <2>4, <3>4, <3>5, <3>6 DEF AddWrite, FilesInv
  <2>5. CASE AddTears(p)
    <3>0. pc[p] = "opened"
      BY <2>5 DEF AddTears
    <3>1. fd[p] \in Inodes /\ NewLine(call[p]) \in SoundRow
      BY <2>0, <3>0, OpenFile, NewLineSound DEF HeldInv
    <3> PICK l \in CutShort(NewLine(call[p])) : Over(p, [data EXCEPT ![fd[p]] = Appended(@, l)])
      BY <2>5 DEF AddTears
    <3>2. Appended(data[fd[p]], l) \in Seq(SoundLine)
      <4>1. l \in SoundRow \cup {Torn}
        BY <3>1, CutLine
      <4> QED BY <2>0, <3>1, <4>1, AppendedSound
    <3> PICK d : d = [data EXCEPT ![fd[p]] = Appended(data[fd[p]], l)]
      OBVIOUS
    <3>3. d \in [Inodes -> Seq(SoundLine)]
      BY <2>0, <3>1, <3>2
    <3>4. UNCHANGED <<overlap, path, tmp>> /\ Over(p, d)
      BY <2>5 DEF AddTears
    <3> QED BY <3>3, <3>4, OverKeeps
  <2>6. CASE CreateTmp(p)
    <3> PICK i : i = IF tmp = NoFile THEN Fresh ELSE tmp
      OBVIOUS
    <3>1. /\ tmp' = i /\ data' = [data EXCEPT ![i] = <<>>] /\ fd' = [fd EXCEPT ![p] = i]
          /\ Goto(p, "write") /\ UNCHANGED <<overlap, path, call, rows, at>>
      BY <2>6 DEF CreateTmp
    <3>2. i \in Inodes /\ i # NoFile /\ (path # NoFile => path # i)
      BY <2>0, FreshFile, NamesAssumption DEF TypeOK, Named, HeldInv
    <3>3. data' \in [Inodes -> Seq(SoundLine)] /\ data' \in [Inodes -> Seq(Line)]
      BY <2>0, <3>1, <3>2, SoundLines DEF Lines
    <3>4. at[p] = 0 /\ rows[p] # <<>> /\ rows[p] \in Seq(Line)
      BY <2>0, <2>6 DEF CreateTmp, HeldInv, TypeOK
    <3>5. at[p] < Len(rows[p])
      BY <3>4
    <3>6. TypeOK'
      BY <2>0, <3>1, <3>2, <3>3, <3>5 DEF TypeOK, Goto
    <3>7. HeldInv'
      BY <2>0, <3>1, <3>2, <3>4 DEF TypeOK, HeldInv, Goto
    <3> QED BY <2>0, <3>1, <3>3, <3>6, <3>7 DEF FilesInv
  <2>7. CASE WriteLine(p)
    <3>0. pc[p] = "write"
      BY <2>7 DEF WriteLine
    <3>1. /\ fd[p] \in Inodes /\ at[p] \in Nat /\ at[p] < Len(rows[p])
          /\ rows[p] \in Seq(SoundRow) /\ data[fd[p]] \in Seq(SoundLine)
      <4>1. fd[p] \in Inodes /\ at[p] \in Nat
        BY <2>0, <3>0, OpenFile
      <4>2. at[p] < Len(rows[p])
        BY <2>0, <3>0 DEF TypeOK
      <4> QED BY <2>0, <4>1, <4>2
    <3>2. rows[p][at[p] + 1] \in SoundRow
      BY <3>1
    <3> PICK ls \in Written(p, rows[p][at[p] + 1]) : data' = [data EXCEPT ![fd[p]] = ls]
      BY <2>7 DEF WriteLine
    <3>3. ls \in Seq(SoundLine)
      BY <3>1, <3>2, WrittenSound, SoundLines
    <3>4. data' \in [Inodes -> Seq(SoundLine)] /\ data' \in [Inodes -> Seq(Line)]
      BY <2>0, <3>1, <3>3, SoundLines DEF Lines
    <3>5. /\ at' = [at EXCEPT ![p] = at[p] + 1] /\ UNCHANGED <<overlap, path, tmp, call, rows, fd>>
          /\ \/ at[p] + 1 = Len(rows[p]) /\ pc' = [pc EXCEPT ![p] = "rename"]
             \/ at[p] + 1 # Len(rows[p]) /\ pc' = pc
      BY <2>7 DEF WriteLine, Goto
    <3>6. at' \in [Procs -> Nat] /\ (pc'[p] = "write" => at'[p] < Len(rows'[p]))
      <4>1. Len(rows[p]) \in Nat /\ at[p] + 1 \in Nat
        BY <3>1
      <4>2. at'[p] = at[p] + 1 /\ (pc'[p] = "write" => at[p] + 1 # Len(rows[p]))
        BY <2>0, <3>5 DEF TypeOK
      <4> QED BY <2>0, <3>1, <3>5, <4>1, <4>2 DEF TypeOK
    <3>7. TypeOK'
      <4>1. \A q \in Procs : /\ pc'[q] \in {"opened", "write"} => fd'[q] # NoFile
                             /\ pc'[q] = "write" => at'[q] < Len(rows'[q])
        <5> SUFFICES ASSUME NEW q \in Procs
                     PROVE  /\ pc'[q] \in {"opened", "write"} => fd'[q] # NoFile
                            /\ pc'[q] = "write" => at'[q] < Len(rows'[q])
          OBVIOUS
        <5>1. CASE q = p
          <6>1. fd'[p] # NoFile
            BY <3>1, <3>5, NamesAssumption
          <6> QED BY <3>6, <5>1, <6>1
        <5>2. CASE q # p
          <6>1. at'[q] = at[q] /\ pc'[q] = pc[q] /\ fd'[q] = fd[q] /\ rows'[q] = rows[q]
            BY <2>0, <3>5, <5>2 DEF TypeOK
          <6> QED BY <2>0, <6>1 DEF TypeOK
        <5> QED BY <5>1, <5>2
      <4> QED BY <2>0, <3>4, <3>5, <3>6, <4>1 DEF TypeOK
    <3>8. HeldInv'
      BY <2>0, <2>7, <3>5 DEF WriteLine, TypeOK, HeldInv
    <3> QED BY <2>0, <3>4, <3>5, <3>7, <3>8 DEF FilesInv
  <2>8. CASE WriteFails(p)
    <3>0. pc[p] = "write"
      BY <2>8 DEF WriteFails
    <3>1. fd[p] \in Inodes /\ at[p] \in Nat /\ data[fd[p]] \in Seq(SoundLine)
      BY <2>0, <3>0, OpenFile
    <3>4. PICK ls : /\ \/ ls = data[fd[p]]
                       \/ \E l \in CutShort(rows[p][at[p] + 1]) : ls \in Written(p, l)
                    /\ Over(p, [data EXCEPT ![fd[p]] = ls])
      BY <2>8 DEF WriteFails
    <3>5. rows[p][at[p] + 1] \in SoundRow
      <4>1. at[p] < Len(rows[p])
        BY <2>0, <3>0 DEF TypeOK
      <4> QED BY <2>0, <3>1, <4>1
    <3>2. ls \in Seq(SoundLine)
      <4>1. ASSUME NEW l \in CutShort(rows[p][at[p] + 1]), ls \in Written(p, l)
            PROVE  ls \in Seq(SoundLine)
        <5>1. l \in SoundLine
          BY <3>5, CutLine
        <5> QED BY <3>1, <4>1, <5>1, WrittenSound
      <4> QED BY <3>1, <3>4, <4>1
    <3>3. [data EXCEPT ![fd[p]] = ls] \in [Inodes -> Seq(SoundLine)]
      BY <2>0, <3>1, <3>2
    <3> QED BY <2>8, <3>3, <3>4, OverKeeps DEF WriteFails
  <2>9. CASE Rename(p)
    <3>1. /\ tmp # NoFile /\ path' = tmp /\ tmp' = NoFile /\ Goto(p, "done")
          /\ UNCHANGED <<overlap, call, rows, at, fd>>
          /\ data' = [i \in Inodes |-> IF i \in Named' THEN data[i] ELSE <<>>]
      BY <2>9 DEF Rename, Reachable
    <3>2. \A i \in Inodes : (IF i \in Named' THEN data[i] ELSE <<>>) \in Seq(SoundLine)
      BY <2>0, SoundLines
    <3>3. data' \in [Inodes -> Seq(SoundLine)]
      BY <3>1, <3>2
    <3>4. data' \in [Inodes -> Seq(Line)]
      BY <3>3, SoundLines DEF Lines
    <3>5. TypeOK'
      BY <2>0, <3>1, <3>4 DEF TypeOK, Goto
    <3>6. HeldInv'
      BY <2>0, <3>1 DEF TypeOK, HeldInv, Goto
    <3> QED BY <2>0, <3>1, <3>3, <3>5, <3>6 DEF FilesInv
  <2>10. CASE RenameFails(p) \/ Return(p) \/ Die(p)
    BY <2>0, <2>10, OverKeeps DEF RenameFails, Return, Die
  <2> QED BY <2>1, <2>2, <2>3, <2>4, <2>5, <2>6, <2>7, <2>8, <2>9, <2>10 DEF Step
<1> QED BY <1>1, <1>2 DEF Next

LEMMA FilesInductive == Spec => []FilesInv
BY FilesInit, FilesStep, PTL DEF Spec

\* However the methods of different processes interleave, whatever they cut short and
\* wherever they die: no row is ever made of parts of two; what asks for a decision
\* has copy, a draft has none (hitl.go:292-310).
THEOREM WholeRows == Spec => []RowsAreWhole
<1>1. FilesInv => RowsAreWhole
  <2> SUFFICES ASSUME FilesInv PROVE TypeOK /\ H!PendingHasBody
    BY DEF RowsAreWhole
  <2>1. ASSUME NEW id \in Ids, HasRow(OnDisk, id) PROVE Sound(Rows[id])
    BY <2>1, OnDiskSound, RowsRead DEF Rows
  <2>2. ASSUME NEW id \in Ids, ~HasRow(OnDisk, id) PROVE Rows[id].status = H!Absent
    BY <2>2 DEF Rows, NoRow, H!Absent
  <2>3. H!PendingHasBody
    BY <2>1, <2>2 DEF H!PendingHasBody, Sound, H!Absent, H!Pending, H!Drafting
  <2> QED BY <2>3 DEF FilesInv
<1> QED BY <1>1, FilesInductive, PTL

-----------------------------------------------------------------------------
(* Methods that do not overlap                                                *)

Unread == "read" \in Faults[FALSE]

\* What a method holds in memory is the queue on disk with its change.
Rewritten(p) ==
  /\ call[p] \in Calls /\ call[p].kind # "add"
  /\ HasRow(OnDisk, call[p].id) /\ Accepts(call[p], RowOf(OnDisk, call[p].id))
  /\ rows[p] = NewRows(call[p], OnDisk)

\* How far the method has got, and what is on disk then.
Stage(p) ==
  /\ pc[p] \in {"append", "opened"} => ~HasRow(OnDisk, call[p].id) \/ Unread
  /\ pc[p] = "opened" => fd[p] = path
  /\ pc[p] \in {"create", "write", "rename"} => Rewritten(p)
  /\ pc[p] = "write" => tmp # NoFile /\ fd[p] = tmp /\ data[tmp] = SubSeq(rows[p], 1, at[p])
  /\ pc[p] = "rename" => tmp # NoFile /\ data[tmp] = rows[p]
  /\ pc[p] = "done" => \/ HasRow(OnDisk, call[p].id) /\ Took(call[p], RowOf(OnDisk, call[p].id))
                       \/ Continued(call[p])

AloneInv ==
  ~overlap => /\ \A p, q \in Procs : pc[p] # "idle" /\ pc[q] # "idle" => p = q
              /\ \A p \in Procs : Stage(p)
              /\ Unread \/ Unique(OnDisk)

\* A step of a process is a step of no other.
LEMMA StepFrame ==
  ASSUME TypeOK, NEW p \in Procs, Step(p)
  PROVE  overlap' = overlap /\ \A q \in Procs : q # p => pc'[q] = pc[q]
<1>0. pc \in [Procs -> {"idle", "append", "opened", "create", "write", "rename", "done"}]
  BY DEF TypeOK
<1>1. ASSUME NEW to, Goto(p, to) PROVE \A q \in Procs : q # p => pc'[q] = pc[q]
  BY <1>0, <1>1 DEF Goto
<1>2. ASSUME NEW d, Over(p, d) PROVE \A q \in Procs : q # p => pc'[q] = pc[q]
  BY <1>1, <1>2 DEF Over
<1>3. CASE \E c \in Inputs[overlap] : AddCheck(p, c) \/ ReadAll(p, c)
  BY <1>1, <1>3 DEF AddCheck, ReadAll
<1>4. CASE AddOpen(p) \/ AddWrite(p) \/ CreateTmp(p) \/ Rename(p)
  BY <1>1, <1>4 DEF AddOpen, AddWrite, CreateTmp, Rename
<1>5. CASE WriteLine(p)
  BY <1>1, <1>5 DEF WriteLine
<1>6. CASE AddTears(p) \/ WriteFails(p) \/ RenameFails(p) \/ Return(p) \/ Die(p)
  BY <1>2, <1>6 DEF AddTears, WriteFails, RenameFails, Return, Die
<1> QED BY <1>3, <1>4, <1>5, <1>6 DEF Step

LEMMA OthersIdle ==
  ASSUME FilesInv, AloneInv, ~overlap, NEW p \in Procs, Step(p)
  PROVE  /\ ~overlap' /\ Stage(p) /\ (Unread \/ Unique(OnDisk))
         /\ \A q \in Procs : q # p => pc[q] = "idle" /\ pc'[q] = "idle"
<1>1. TypeOK
  BY DEF FilesInv
<1>2. \A q \in Procs : q # p => pc[q] = "idle"
  <2>1. CASE pc[p] = "idle"
    <3>1. Free(p)
      BY <2>1 DEF Step, AddCheck, ReadAll, AddOpen, AddWrite, AddTears, CreateTmp, WriteLine,
                  WriteFails, Rename, RenameFails, Return, Die
    <3> QED BY <3>1 DEF Free
  <2>2. CASE pc[p] # "idle"
    BY <2>2 DEF AloneInv
  <2> QED BY <2>1, <2>2
<1> QED BY <1>1, <1>2, StepFrame DEF AloneInv

LEMMA TookChanged ==
  ASSUME NEW c \in Calls, c.kind # "add", NEW r \in H!Row
  PROVE  Took(c, Changed(c, r))
<1> USE DEF H!Row, H!Approved, H!Dispatched, H!Drafting, H!Pending
<1>1. CASE c \in Updates /\ c.kind = "update"
  BY <1>1 DEF Changed, Took
<1>2. CASE c \in Attaches /\ c.kind = "relais"
  BY <1>2 DEF Changed, Took
<1>3. CASE c \in Drafts /\ c.kind = "draft"
  <2>1. Changed(c, r) = [r EXCEPT !.body = c.body, !.status = "pending"]
    BY <1>3 DEF Changed
  <2> QED BY <1>3, <2>1 DEF Took
<1>4. CASE c \in Redrafts /\ c.kind = "redraft"
  <2>1. Changed(c, r) = [r EXCEPT !.body = Blank, !.status = "drafting"]
    BY <1>4 DEF Changed
  <2> QED BY <1>4, <2>1 DEF Took
<1> QED BY <1>1, <1>2, <1>3, <1>4, CallKinds

\* What is left on disk by a method that is over.
LEMMA OverDisk ==
  ASSUME TypeOK, NEW p \in Procs, NEW d, UNCHANGED <<overlap, path, tmp>>, Over(p, d)
  PROVE  /\ OnDisk' = IF path = NoFile THEN <<>> ELSE d[path]
         /\ pc'[p] = "idle"
<1>1. data' = [i \in Inodes |-> IF i \in Named' THEN d[i] ELSE <<>>]
  BY DEF Over, Reachable
<1>2. path \in Named' /\ path \in Inodes \cup {NoFile}
  BY DEF Named, TypeOK
<1>3. pc'[p] = "idle"
  BY DEF Over, Goto, TypeOK
<1> QED BY <1>1, <1>2, <1>3 DEF OnDisk

\* Steps that leave the queue file as it is.
Quiet(p) ==
  \/ \E c \in Inputs[overlap] : AddCheck(p, c) \/ ReadAll(p, c)
  \/ AddOpen(p) \/ CreateTmp(p) \/ WriteLine(p) \/ WriteFails(p)
  \/ RenameFails(p) \/ Return(p) \/ Die(p)

LEMMA QuietDisk ==
  ASSUME FilesInv, NEW p \in Procs, Stage(p), Quiet(p)
  PROVE  OnDisk' = OnDisk
<1>0. TypeOK /\ HeldInv
  BY DEF FilesInv
<1>1. CASE \E c \in Inputs[overlap] : AddCheck(p, c) \/ ReadAll(p, c)
  BY <1>1 DEF AddCheck, ReadAll, OnDisk
<1>2. CASE AddOpen(p)
  <2>1. CASE path = NoFile
    <3>1. Fresh \in Inodes /\ path' = Fresh /\ data' = [data EXCEPT ![Fresh] = <<>>]
      BY <1>0, <1>2, <2>1, FreshFile DEF AddOpen
    <3>2. data'[Fresh] = <<>> /\ Fresh # NoFile
      BY <1>0, <3>1, NamesAssumption DEF TypeOK
    <3> QED BY <2>1, <3>1, <3>2 DEF OnDisk
  <2>2. CASE path # NoFile
    BY <1>2, <2>2 DEF AddOpen, OnDisk
  <2> QED BY <2>1, <2>2
<1>3. CASE CreateTmp(p)
  <2> PICK i : i = IF tmp = NoFile THEN Fresh ELSE tmp
    OBVIOUS
  <2>1. path' = path /\ data' = [data EXCEPT ![i] = <<>>]
    BY <1>3 DEF CreateTmp
  <2>2. path # NoFile => path # i
    BY <1>0, FreshFile DEF HeldInv, Named
  <2> QED BY <1>0, <2>1, <2>2 DEF OnDisk, TypeOK
<1>4. CASE WriteLine(p) \/ WriteFails(p)
  <2>1. pc[p] = "write" /\ path' = path
    BY <1>4 DEF WriteLine, WriteFails
  <2>2. fd[p] = tmp /\ (path # NoFile => path # fd[p])
    BY <1>0, <2>1 DEF Stage, HeldInv
  <2>3. ASSUME NEW ls PROVE path # NoFile => [data EXCEPT ![fd[p]] = ls][path] = data[path]
    BY <1>0, <2>2 DEF TypeOK
  <2>4. CASE WriteLine(p)
    BY <2>1, <2>3, <2>4 DEF WriteLine, OnDisk
  <2>5. CASE WriteFails(p)
    <3> PICK ls : Over(p, [data EXCEPT ![fd[p]] = ls])
      BY <2>5 DEF WriteFails
    <3>1. UNCHANGED <<overlap, path, tmp>>
      BY <2>5 DEF WriteFails
    <3>2. OnDisk' = IF path = NoFile THEN <<>> ELSE [data EXCEPT ![fd[p]] = ls][path]
      BY <1>0, <3>1, OverDisk
    <3> QED BY <2>3, <3>2 DEF OnDisk
  <2> QED BY <1>4, <2>4, <2>5
<1>5. CASE RenameFails(p) \/ Return(p) \/ Die(p)
  <2>1. UNCHANGED <<overlap, path, tmp>> /\ Over(p, data)
    BY <1>5 DEF RenameFails, Return, Die
  <2> QED BY <1>0, <2>1, OverDisk DEF OnDisk
<1> QED BY <1>1, <1>2, <1>3, <1>4, <1>5 DEF Quiet

LEMMA WriteDisk ==
  ASSUME FilesInv, NEW p \in Procs, Stage(p), AddWrite(p)
  PROVE  /\ OnDisk' = Appended(OnDisk, NewLine(call[p]))
         /\ call[p] \in Adds /\ call' = call /\ pc'[p] = "done"
<1>0. TypeOK /\ HeldInv /\ pc[p] = "opened"
  BY DEF FilesInv, AddWrite
<1>1. fd[p] = path /\ path \in Inodes /\ path # NoFile /\ call[p] \in Adds
  BY <1>0, OpenFile, NamesAssumption DEF Stage, HeldInv
<1>2. data'[path] = Appended(data[path], NewLine(call[p]))
  BY <1>0, <1>1 DEF AddWrite, TypeOK
<1> QED BY <1>0, <1>1, <1>2 DEF AddWrite, OnDisk, Goto, TypeOK

LEMMA TearDisk ==
  ASSUME FilesInv, NEW p \in Procs, Stage(p), AddTears(p)
  PROVE  /\ call[p] \in Adds /\ pc'[p] = "idle" /\ pc[p] = "opened"
         /\ \E l \in CutShort(NewLine(call[p])) : OnDisk' = Appended(OnDisk, l)
<1>0. TypeOK /\ HeldInv /\ pc[p] = "opened"
  BY DEF FilesInv, AddTears
<1>1. fd[p] = path /\ path \in Inodes /\ path # NoFile /\ call[p] \in Adds
  BY <1>0, OpenFile, NamesAssumption DEF Stage, HeldInv
<1> PICK l \in CutShort(NewLine(call[p])) : Over(p, [data EXCEPT ![fd[p]] = Appended(@, l)])
  BY DEF AddTears
<1> PICK d : d = [data EXCEPT ![path] = Appended(data[path], l)]
  OBVIOUS
<1>2. UNCHANGED <<overlap, path, tmp>> /\ Over(p, d)
  BY <1>1 DEF AddTears
<1>3. OnDisk' = d[path] /\ pc'[p] = "idle"
  BY <1>0, <1>1, <1>2, OverDisk
<1> QED BY <1>0, <1>1, <1>3 DEF OnDisk, TypeOK

LEMMA RenameDisk ==
  ASSUME FilesInv, NEW p \in Procs, Stage(p), Rename(p)
  PROVE  /\ OnDisk' = NewRows(call[p], OnDisk) /\ Rewritten(p)
         /\ call' = call /\ pc'[p] = "done"
<1>0. TypeOK /\ pc[p] = "rename"
  BY DEF FilesInv, Rename
<1>1. Rewritten(p) /\ tmp # NoFile /\ tmp \in Inodes /\ data[tmp] = rows[p]
  BY <1>0 DEF Stage, TypeOK
<1>2. path' = tmp /\ data' = [i \in Inodes |-> IF i \in Named' THEN data[i] ELSE <<>>]
  BY DEF Rename, Reachable
<1>3. tmp \in Named'
  BY <1>2 DEF Named
<1>4. OnDisk' = rows[p]
  BY <1>1, <1>2, <1>3 DEF OnDisk
<1> QED BY <1>0, <1>1, <1>4 DEF Rename, Goto, TypeOK, Rewritten

\* A line written behind what the method has written so far is the next one.
LEMMA NextLine ==
  ASSUME NEW rs \in Seq(SoundRow), NEW n \in Nat, n < Len(rs)
  PROVE  /\ Len(SubSeq(rs, 1, n)) = n
         /\ SubSeq(SubSeq(rs, 1, n), 1, n) = SubSeq(rs, 1, n)
         /\ (SubSeq(rs, 1, n) \o <<rs[n + 1]>>) \o <<>> = SubSeq(rs, 1, n + 1)
<1> PICK ls : ls = SubSeq(rs, 1, n)
  OBVIOUS
<1>1. \A i \in 1..Len(rs) : rs[i] \in SoundRow
  OBVIOUS
<1>2. ls \in Seq(SoundRow) /\ Len(ls) = n
  <2>1. \A i \in 1..n : rs[i] \in SoundRow
    BY <1>1
  <2> QED BY <2>1, SubSeqProperties
<1>3. SubSeq(ls, 1, n) = ls
  BY <1>2, SubSeqFull
<1>4. SubSeq(rs, 1, n + 1) = ls \o <<rs[n + 1]>>
  <2>1. /\ 1 \in 1..Len(rs) /\ n + 1 \in 1..Len(rs) /\ (n + 1) - 1 = n
    OBVIOUS
  <2> QED BY <2>1, SubSeqRecursiveSecond
<1>5. (ls \o <<rs[n + 1]>>) \o <<>> = ls \o <<rs[n + 1]>>
  <2>1. <<rs[n + 1]>> \in Seq(SoundRow)
    BY <1>1
  <2>2. ls \o <<rs[n + 1]>> \in Seq(SoundRow)
    BY <1>2, <2>1, ConcatProperties
  <2> QED BY <2>2, ConcatEmptySeq
<1> QED BY <1>2, <1>3, <1>4, <1>5

LEMMA WrittenAlone ==
  ASSUME NEW p \in Procs, rows[p] \in Seq(SoundRow), at[p] \in Nat, at[p] < Len(rows[p]),
         data[fd[p]] = SubSeq(rows[p], 1, at[p]),
         NEW new \in Written(p, rows[p][at[p] + 1])
  PROVE  new = SubSeq(rows[p], 1, at[p] + 1)
<1> PICK rs, n, ls : rs = rows[p] /\ n = at[p] /\ ls = data[fd[p]]
  OBVIOUS
<1>0. rs \in Seq(SoundRow) /\ n \in Nat /\ n < Len(rs) /\ ls = SubSeq(rs, 1, n)
  OBVIOUS
<1>1. /\ Len(SubSeq(rs, 1, n)) = n
      /\ SubSeq(SubSeq(rs, 1, n), 1, n) = SubSeq(rs, 1, n)
      /\ (SubSeq(rs, 1, n) \o <<rs[n + 1]>>) \o <<>> = SubSeq(rs, 1, n + 1)
  BY <1>0, NextLine
<1>2. n <= Len(ls) /\ SubSeq(ls, 1, n) = SubSeq(rs, 1, n)
  BY <1>0, <1>1
<1>3. new \in PutAt(ls, n, rs[n + 1])
  BY <1>2 DEF Written
<1>4. Beyond(ls, n + 1) = {<<>>}
  BY <1>0, <1>1 DEF Beyond
<1>5. new = (SubSeq(ls, 1, n) \o <<rs[n + 1]>>) \o <<>>
  BY <1>3, <1>4 DEF PutAt
<1> QED BY <1>0, <1>1, <1>5

LEMMA AloneInit == Init => AloneInv
<1> SUFFICES ASSUME Init PROVE AloneInv
  OBVIOUS
<1>1. OnDisk = <<>> /\ \A p \in Procs : pc[p] = "idle"
  BY DEF Init, OnDisk
<1>2. Unique(OnDisk)
  BY <1>1 DEF Unique
<1> QED BY <1>1, <1>2 DEF AloneInv, Stage

\* Each step of the method takes it to its next stage.
LEMMA StageStep ==
  ASSUME FilesInv, ~overlap, ~overlap', NEW p \in Procs, Stage(p), Step(p)
  PROVE  Stage(p)'
<1>0. TypeOK /\ HeldInv /\ rows \in [Procs -> Seq(SoundRow)]
  BY DEF FilesInv
<1>1. ASSUME NEW to, Goto(p, to) PROVE pc'[p] = to
  BY <1>0, <1>1 DEF Goto, TypeOK
<1>2. OnDisk \in Seq(SoundLine) /\ OnDisk \in Lines
  BY OnDiskSound, SoundLines
<1>3. ASSUME NEW c \in Inputs[overlap], AddCheck(p, c) PROVE Stage(p)'
  <2>1. OnDisk' = OnDisk /\ call'[p] = c /\ c \in Calls /\ c.kind = "add"
    BY <1>0, <1>3, QuietDisk, InputsAssumption DEF AddCheck, Quiet, TypeOK
  <2>2. \/ HasRow(OnDisk, c.id) /\ pc'[p] = "done"
        \/ (~HasRow(OnDisk, c.id) \/ "read" \in Faults[overlap]) /\ pc'[p] = "append"
    BY <1>1, <1>3 DEF AddCheck, MayFail
  <2>3. Took(c, RowOf(OnDisk, c.id))
    BY <2>1 DEF Took
  <2>4. overlap = FALSE
    BY <1>0 DEF TypeOK
  <2> QED BY <2>1, <2>2, <2>3, <2>4 DEF Stage, Unread
<1>4. ASSUME NEW c \in Inputs[overlap], ReadAll(p, c) PROVE Stage(p)'
  <2>1. /\ OnDisk' = OnDisk /\ call'[p] = c /\ c \in Calls /\ c.kind # "add"
        /\ pc'[p] = "create" /\ rows'[p] = NewRows(c, OnDisk)
    BY <1>0, <1>1, <1>4, QuietDisk, InputsAssumption DEF ReadAll, Quiet, TypeOK, NewRows
  <2>2. HasRow(OnDisk, c.id) /\ Accepts(c, RowOf(OnDisk, c.id))
    <3>1. c.id \in Ids
      BY <2>1, CallKinds
    <3> QED BY <1>2, <1>4, <3>1, ParsedLines DEF ReadAll, SameRows
  <2> QED BY <2>1, <2>2 DEF Stage, Rewritten
<1>5. CASE AddOpen(p)
  <2>1. OnDisk' = OnDisk /\ call' = call /\ pc'[p] = "opened" /\ pc[p] = "append"
    BY <1>1, <1>5, QuietDisk DEF AddOpen, Quiet
  <2>2. fd'[p] = path'
    BY <1>0, <1>5 DEF AddOpen, TypeOK
  <2> QED BY <2>1, <2>2 DEF Stage
<1>6. CASE AddWrite(p)
  <2> PICK c \in Adds : c = call[p]
    BY <1>6, WriteDisk
  <2> PICK od : od = OnDisk'
    OBVIOUS
  <2>1. od = Appended(OnDisk, NewLine(c)) /\ call'[p] = c /\ pc'[p] = "done"
    BY <1>6, WriteDisk
  <2>2. NewLine(c) \in RowLine /\ NewLine(c).id = c.id /\ c.id \in Ids /\ c.kind = "add"
    BY NewLineSound DEF Adds, NewLine, SoundRow
  <2>3. Ends(NewLine(c))
    <3>1. NewLine(c) \in Line
      BY <2>2 DEF Line
    <3> QED BY <2>2, <3>1, LineCases DEF Ends, NewLine
  <2>4. \/ od[Len(od)] = Scrap /\ Len(od) \in 1..(Len(OnDisk) + 1)
        \/ HasRow(od, c.id)
    <3>1. Len(od) \in 1..(Len(OnDisk) + 1)
      BY <1>2, <2>1, <2>2, AppendedRow
    <3>2. \/ LeavesRows(OnDisk, NewLine(c), od) \/ AddsRow(OnDisk, NewLine(c), od)
          \/ LosesRow(OnDisk, NewLine(c), od)
      BY <1>2, <2>1, <2>2, AppendedRow
    <3> QED BY <2>2, <2>3, <3>1, <3>2 DEF LeavesRows, AddsRow, LosesRow
  <2>5. od[Len(od)] = Scrap /\ Len(od) \in 1..(Len(OnDisk) + 1) => od # <<>> /\ od[Len(od)] = Scrap
    OBVIOUS
  <2>6. (HasRow(od, c.id) /\ Took(c, RowOf(od, c.id))) \/ (od # <<>> /\ od[Len(od)] = Scrap)
    BY <2>2, <2>4, <2>5 DEF Took
  <2> QED BY <2>1, <2>2, <2>6 DEF Stage, Continued
<1>7. CASE CreateTmp(p)
  <2> PICK i : i = IF tmp = NoFile THEN Fresh ELSE tmp
    OBVIOUS
  <2>1. /\ tmp' = i /\ data' = [data EXCEPT ![i] = <<>>] /\ fd' = [fd EXCEPT ![p] = i]
        /\ UNCHANGED <<call, rows, at>> /\ pc[p] = "create" /\ pc'[p] = "write"
    BY <1>1, <1>7 DEF CreateTmp
  <2>2. OnDisk' = OnDisk
    BY <1>7, QuietDisk DEF Quiet
  <2>3. i \in Inodes /\ i # NoFile /\ at[p] = 0
    BY <1>0, <2>1, FreshFile, NamesAssumption DEF TypeOK, HeldInv
  <2>4. data'[i] = <<>> /\ fd'[p] = i
    BY <1>0, <2>1, <2>3 DEF TypeOK
  <2>5. SubSeq(rows[p], 1, 0) = <<>>
    BY SubSeqEmpty
  <2> QED BY <2>1, <2>2, <2>3, <2>4, <2>5 DEF Stage, Rewritten
<1>8. CASE WriteLine(p)
  <2>0. pc[p] = "write" /\ pc[p] \notin {"append", "opened", "done"}
    BY <1>8 DEF WriteLine
  <2>1. /\ tmp # NoFile /\ fd[p] = tmp /\ data[fd[p]] = SubSeq(rows[p], 1, at[p])
        /\ rows[p] \in Seq(SoundRow) /\ at[p] \in Nat /\ at[p] < Len(rows[p]) /\ fd[p] \in Inodes
    <3>1. tmp # NoFile /\ fd[p] = tmp /\ data[fd[p]] = SubSeq(rows[p], 1, at[p])
      BY <2>0 DEF Stage
    <3>2. at[p] < Len(rows[p])
      BY <1>0, <2>0 DEF TypeOK
    <3> QED BY <1>0, <2>0, <3>1, <3>2, OpenFile
  <2> PICK ls \in Written(p, rows[p][at[p] + 1]) : data' = [data EXCEPT ![fd[p]] = ls]
    BY <1>8 DEF WriteLine
  <2>2. ls = SubSeq(rows[p], 1, at[p] + 1)
    BY <2>1, WrittenAlone
  <2>3. /\ at' = [at EXCEPT ![p] = at[p] + 1] /\ UNCHANGED <<overlap, path, tmp, call, rows, fd>>
        /\ \/ at[p] + 1 = Len(rows[p]) /\ pc' = [pc EXCEPT ![p] = "rename"]
           \/ pc' = pc
    BY <1>8 DEF WriteLine, Goto
  <2>4. data'[tmp] = SubSeq(rows[p], 1, at[p] + 1) /\ at'[p] = at[p] + 1
    BY <1>0, <2>1, <2>2, <2>3 DEF TypeOK
  <2>5. Rewritten(p)'
    <3>1. OnDisk' = OnDisk
      BY <1>8, QuietDisk DEF Quiet
    <3>2. Rewritten(p)
      BY <2>0 DEF Stage
    <3> QED BY <2>3, <3>1, <3>2 DEF Rewritten
  <2>6. CASE pc' = pc
    BY <2>0, <2>1, <2>3, <2>4, <2>5, <2>6 DEF Stage
  <2>7. CASE at[p] + 1 = Len(rows[p]) /\ pc' = [pc EXCEPT ![p] = "rename"]
    <3>1. pc'[p] = "rename"
      BY <1>0, <2>7 DEF TypeOK
    <3>2. data'[tmp] = rows[p]
      BY <2>1, <2>4, <2>7, SubSeqFull
    <3> QED BY <2>1, <2>3, <2>5, <3>1, <3>2 DEF Stage
  <2> QED BY <2>3, <2>6, <2>7
<1>9. CASE Rename(p)
  <2> PICK c, od : c = call[p] /\ od = OnDisk'
    OBVIOUS
  <2>1. od = NewRows(c, OnDisk) /\ call'[p] = c /\ pc'[p] = "done" /\ Rewritten(p)
    BY <1>9, RenameDisk
  <2>2. /\ c \in Calls /\ c.kind # "add" /\ c.id \in Ids
        /\ HasRow(OnDisk, c.id) /\ Accepts(c, RowOf(OnDisk, c.id))
    BY <2>1, CallKinds DEF Rewritten
  <2>3. HasRow(od, c.id) /\ RowOf(od, c.id) = Changed(c, RowOf(OnDisk, c.id))
    BY <1>2, <2>1, <2>2, NewRowsSound
  <2>4. Took(c, RowOf(od, c.id))
    BY <1>2, <2>2, <2>3, RowTyped, TookChanged
  <2> QED BY <2>1, <2>3, <2>4 DEF Stage
<1>10. CASE AddTears(p) \/ WriteFails(p) \/ RenameFails(p) \/ Return(p) \/ Die(p)
  <2>1. \E d : Over(p, d)
    BY <1>10 DEF AddTears, WriteFails, RenameFails, Return, Die
  <2>2. pc'[p] = "idle"
    BY <1>1, <2>1 DEF Over
  <2> QED BY <2>2 DEF Stage
<1> QED BY <1>3, <1>4, <1>5, <1>6, <1>7, <1>8, <1>9, <1>10 DEF Step

LEMMA UniqueStep ==
  ASSUME FilesInv, ~overlap, NEW p \in Procs, Stage(p), Unread \/ Unique(OnDisk), Step(p)
  PROVE  Unread \/ Unique(OnDisk')
<1> SUFFICES ASSUME ~Unread, Unique(OnDisk) PROVE Unique(OnDisk')
  OBVIOUS
<1>0. OnDisk \in Seq(SoundLine) /\ OnDisk \in Lines
  BY OnDiskSound, SoundLines
<1>1. CASE Quiet(p)
  BY <1>1, QuietDisk
<1>2. CASE AddWrite(p)
  <2> PICK c \in Adds : c = call[p]
    BY <1>2, WriteDisk
  <2>1. OnDisk' = Appended(OnDisk, NewLine(c)) /\ ~HasRow(OnDisk, c.id)
    BY <1>2, WriteDisk DEF Stage, AddWrite
  <2>2. NewLine(c) \in RowLine /\ NewLine(c).id = c.id
    BY NewLineSound DEF NewLine, SoundRow
  <2> QED BY <1>0, <2>1, <2>2, AppendedRow
<1>3. CASE AddTears(p)
  <2> PICK c \in Adds : c = call[p]
    BY <1>3, TearDisk
  <2>1. PICK l \in CutShort(NewLine(c)) : OnDisk' = Appended(OnDisk, l)
    BY <1>3, TearDisk
  <2>2. ~HasRow(OnDisk, c.id)
    BY <1>3 DEF Stage, AddTears
  <2>3. l \in RowLine \cup {Torn} /\ (l = Torn \/ l.id = c.id)
    BY NewLineSound, CutLine DEF NewLine
  <2> QED BY <1>0, <2>1, <2>2, <2>3, AppendedRow
<1>4. CASE Rename(p)
  <2> PICK c : c = call[p]
    OBVIOUS
  <2>1. OnDisk' = NewRows(c, OnDisk) /\ Rewritten(p)
    BY <1>4, RenameDisk
  <2>2. /\ c \in Calls /\ c.kind # "add"
        /\ HasRow(OnDisk, c.id) /\ Accepts(c, RowOf(OnDisk, c.id))
    BY <2>1 DEF Rewritten
  <2> QED BY <1>0, <2>1, <2>2, NewRowsSound
<1> QED BY <1>1, <1>2, <1>3, <1>4 DEF Step, Quiet

LEMMA AloneStep ==
  ASSUME FilesInv, AloneInv, [Next]_vars
  PROVE  AloneInv'
<1>1. CASE UNCHANGED vars
  <2>1. OnDisk' = OnDisk
    BY <1>1 DEF vars, OnDisk
  <2> QED BY <1>1, <2>1 DEF vars, AloneInv, Stage, Rewritten, Continued
<1>2. CASE Next
  <2> PICK p \in Procs : Step(p)
    BY <1>2 DEF Next
  <2>1. overlap' = overlap
    BY StepFrame DEF FilesInv
  <2> SUFFICES ASSUME ~overlap
               PROVE  /\ \A q, r \in Procs : pc'[q] # "idle" /\ pc'[r] # "idle" => q = r
                      /\ \A q \in Procs : Stage(q)'
                      /\ Unread \/ Unique(OnDisk')
    BY <2>1 DEF AloneInv
  <2>2. /\ ~overlap' /\ Stage(p) /\ (Unread \/ Unique(OnDisk))
        /\ \A q \in Procs : q # p => pc[q] = "idle" /\ pc'[q] = "idle"
    BY OthersIdle
  <2>3. Stage(p)'
    BY <2>2, StageStep
  <2>4. \A q \in Procs : q # p => Stage(q)'
    BY <2>2 DEF Stage
  <2>5. Unread \/ Unique(OnDisk')
    BY <2>2, UniqueStep
  <2> QED BY <2>2, <2>3, <2>4, <2>5
<1> QED BY <1>1, <1>2

LEMMA AloneInductive == Spec => [](FilesInv /\ AloneInv)
BY FilesInit, FilesStep, AloneInit, AloneStep, PTL DEF Spec

\* A method that answers without an error has done what it was asked, unless an Add
\* continued a line without a newline.
THEOREM AnswersAreTrue == Spec => []AnsweredTookEffect
<1>1. FilesInv /\ AloneInv => AnsweredTookEffect
  BY DEF AloneInv, Stage, AnsweredTookEffect
<1> QED BY <1>1, AloneInductive, PTL

\* While the queue can be read, one process at a time queues no proposal twice
\* (hitl.go:93-97).
THEOREM NeverTwice ==
  ASSUME "read" \notin Faults[FALSE]
  PROVE  Spec => []NoDuplicates
<1>1. FilesInv /\ AloneInv => NoDuplicates
  BY DEF AloneInv, Unread, Unique, NoDuplicates
<1> QED BY <1>1, AloneInductive, PTL

-----------------------------------------------------------------------------
(* The atomic queue                                                           *)

LEMMA QueueRow ==
  ASSUME FilesInv, NEW id \in Ids
  PROVE  /\ HasRow(OnDisk, id) => Rows[id] = RowOf(OnDisk, id) /\ Sound(Rows[id])
         /\ H!Present(id) <=> HasRow(OnDisk, id)
         /\ Rows \in [Ids -> H!Row]
<1>0. ASSUME NEW j \in Ids
      PROVE  /\ HasRow(OnDisk, j) => Rows[j] = RowOf(OnDisk, j) /\ Sound(Rows[j])
             /\ ~HasRow(OnDisk, j) => Rows[j].status = "absent" /\ Rows[j] \in H!Row
  BY OnDiskSound, RowsRead DEF Rows, NoRow, H!Row, H!Statuses, H!Absent, H!Approvers
<1>1. \A j \in Ids : Rows[j] \in H!Row
  BY <1>0 DEF Sound
<1>2. Rows \in [Ids -> H!Row]
  BY <1>1 DEF Rows
<1>3. H!Present(id) <=> HasRow(OnDisk, id)
  BY <1>0 DEF H!Present, H!Absent, Sound
<1> QED BY <1>0, <1>2, <1>3

LEMMA RowsAfter ==
  Rows' = [id \in Ids |-> IF HasRow(OnDisk', id) THEN RowOf(OnDisk', id)
                          ELSE NoRow]
BY DEF Rows

\* The same rows are the same queue.
LEMMA RowsKept ==
  ASSUME SameRows(OnDisk, OnDisk')
  PROVE  Rows' = Rows
<1>1. ASSUME NEW id \in Ids PROVE Rows'[id] = Rows[id]
  BY <1>1, RowsAfter DEF Rows, SameRows
<1> QED BY <1>1, RowsAfter DEF Rows

\* Who appends the row of a new proposal, with its newline or without, adds it, takes
\* away the row it continues, or changes nothing.
LEMMA AppendRefines ==
  ASSUME FilesInv, NEW p \in Procs, AddWrite(p) \/ AddTears(p), NEW c \in Adds,
         NEW l \in RowLine \cup {Torn}, l = Torn \/ (l.id = c.id /\ l.row = NewLine(c).row),
         OnDisk' = Appended(OnDisk, l)
  PROVE  H!Next \/ Rows' = Rows \/ RowVanishes
<1> PICK od : od = OnDisk'
  OBVIOUS
<1>0. OnDisk \in Lines /\ od = Appended(OnDisk, l)
  BY OnDiskSound, SoundLines
<1>1. c.id \in Ids /\ c.body \in Texts \cup {Blank}
  BY DEF Adds
<1>2. CASE LeavesRows(OnDisk, l, od)
  BY <1>2, RowsKept DEF LeavesRows
<1>3. CASE AddsRow(OnDisk, l, od)
  <2>1. l.id = c.id /\ \A j \in Ids :
          /\ HasRow(od, j) <=> HasRow(OnDisk, j) \/ j = c.id
          /\ HasRow(od, j) => RowOf(od, j) = IF HasRow(OnDisk, j) THEN RowOf(OnDisk, j) ELSE l.row
    BY <1>3, LinesAssumption DEF AddsRow
  <2>2. CASE HasRow(OnDisk, c.id)
    BY <1>1, <2>1, <2>2, RowsKept DEF SameRows
  <2>3. CASE ~HasRow(OnDisk, c.id)
    <3>1. ASSUME NEW j \in Ids PROVE Rows'[j] = IF j = c.id THEN l.row ELSE Rows[j]
      BY <1>1, <2>1, <2>3, <3>1, RowsAfter DEF Rows
    <3>2. Rows' = [Rows EXCEPT ![c.id] = l.row]
      BY <3>1, RowsAfter DEF Rows
    <3>3. l.row = H!NewRow(IF c.body = Blank THEN H!Drafting ELSE H!Pending, c.body)
      BY <1>3, LinesAssumption DEF AddsRow, NewLine
    <3>4. ~H!Present(c.id)
      BY <1>1, <2>3, QueueRow
    <3>5. H!Add(c.id, c.body)
      BY <1>1, <3>2, <3>3, <3>4 DEF H!Add
    <3> QED BY <1>1, <3>5 DEF H!Next, H!Step
  <2> QED BY <2>2, <2>3
<1>4. CASE LosesRow(OnDisk, l, od)
  <2> PICK last : last = OnDisk[Len(OnDisk)]
    OBVIOUS
  <2>1. /\ OnDisk # <<>> /\ last \in RowLine /\ ~last.ends
        /\ \A j \in Ids : /\ HasRow(od, j) <=> HasRow(OnDisk, j) /\ j # last.id
                          /\ HasRow(od, j) => RowOf(od, j) = RowOf(OnDisk, j)
    BY <1>4 DEF LosesRow
  <2>2. Parses(last) /\ last.id \in Ids
    BY <2>1, LinesAssumption DEF Parses, RowLine
  <2>3. ASSUME NEW j \in Ids PROVE Rows'[j] = IF j = last.id THEN NoRow ELSE Rows[j]
    BY <2>1, <2>3, RowsAfter DEF Rows
  <2>4. Rows' = [Rows EXCEPT ![last.id] = NoRow]
    BY <2>3, RowsAfter DEF Rows
  <2> QED BY <2>1, <2>2, <2>4 DEF RowVanishes
<1> QED BY <1>0, <1>2, <1>3, <1>4, AppendedRow

LEMMA AddRefines ==
  ASSUME FilesInv, NEW p \in Procs, Stage(p), AddWrite(p) \/ AddTears(p)
  PROVE  H!Next \/ Rows' = Rows \/ RowVanishes
<1> PICK c \in Adds : c = call[p]
  BY WriteDisk, TearDisk
<1>1. NewLine(c) \in SoundRow /\ NewLine(c) \in RowLine /\ NewLine(c).id = c.id
  BY NewLineSound DEF NewLine, SoundRow
<1>2. CASE AddWrite(p)
  <2>1. OnDisk' = Appended(OnDisk, NewLine(c))
    BY <1>2, WriteDisk
  <2> QED BY <1>1, <2>1, AppendRefines
<1>3. CASE AddTears(p)
  <2>1. PICK l \in CutShort(NewLine(c)) : OnDisk' = Appended(OnDisk, l)
    BY <1>3, TearDisk
  <2>2. l \in RowLine \cup {Torn} /\ (l = Torn \/ (l.id = c.id /\ l.row = NewLine(c).row))
    BY <1>1, CutLine
  <2> QED BY <2>1, <2>2, AppendRefines
<1> QED BY <1>2, <1>3

LEMMA RenameRefines ==
  ASSUME FilesInv, NEW p \in Procs, Stage(p), Rename(p)
  PROVE  H!Next
<1> PICK c, od : c = call[p] /\ od = OnDisk'
  OBVIOUS
<1>0. OnDisk \in Seq(SoundLine) /\ od = NewRows(c, OnDisk) /\ Rewritten(p)
  BY OnDiskSound, RenameDisk
<1>1. /\ c \in Calls /\ c.kind # "add" /\ c.id \in Ids
      /\ HasRow(OnDisk, c.id) /\ Accepts(c, RowOf(OnDisk, c.id))
  BY <1>0, CallKinds DEF Rewritten
<1>2. \A j \in Ids :
        /\ HasRow(od, j) <=> HasRow(OnDisk, j)
        /\ HasRow(OnDisk, j) =>
             RowOf(od, j) = IF j = c.id THEN Changed(c, RowOf(OnDisk, j)) ELSE RowOf(OnDisk, j)
  BY <1>0, <1>1, NewRowsSound
<1> PICK id \in Ids, r \in H!Row : id = c.id /\ r = Rows[id]
  BY <1>1, QueueRow
<1>3. H!Present(id) /\ r = RowOf(OnDisk, id) /\ Rows \in [Ids -> H!Row] /\ Accepts(c, r)
  BY <1>1, QueueRow
<1>4. ASSUME NEW j \in Ids PROVE Rows'[j] = IF j = id THEN Changed(c, r) ELSE Rows[j]
  BY <1>1, <1>2, <1>3, <1>4, RowsAfter DEF Rows
<1>5. Rows' = [Rows EXCEPT ![id] = Changed(c, r)]
  BY <1>4, RowsAfter DEF Rows
<1>6. CASE c \in Updates /\ c.kind = "update"
  <2>1. Changed(c, r) = [r EXCEPT !.status = c.status,
                           !.approver = IF c.status = H!Approved THEN c.by ELSE @,
                           !.dispatched = IF c.status = H!Dispatched THEN TRUE ELSE @]
    BY <1>6 DEF Changed
  <2>2. H!UpdateStatus(id, c.status, c.by)
    BY <1>3, <1>5, <2>1 DEF H!UpdateStatus, H!Row
  <2> QED BY <1>6, <2>2 DEF H!Next, H!Step, Updates
<1>7. CASE c \in Attaches /\ c.kind = "relais"
  <2>1. Changed(c, r) = [r EXCEPT !.link = c.link]
    BY <1>7 DEF Changed
  <2>2. H!SetRelais(id, c.link)
    BY <1>3, <1>5, <2>1 DEF H!SetRelais, H!Row
  <2> QED BY <1>7, <2>2 DEF H!Next, H!Step, Attaches
<1>8. CASE c \in Drafts /\ c.kind = "draft"
  <2>1. Changed(c, r) = [r EXCEPT !.body = c.body, !.status = H!Pending]
    BY <1>8 DEF Changed
  <2>2. c.body \in Texts /\ c.body # Blank /\ r.status = H!Drafting
    BY <1>3, <1>8, QueueAssumption DEF Drafts, Accepts
  <2>3. H!SetDraft(id, c.body)
    BY <1>3, <1>5, <2>1, <2>2 DEF H!SetDraft, H!Row
  <2> QED BY <2>2, <2>3 DEF H!Next, H!Step
<1>9. CASE c \in Redrafts /\ c.kind = "redraft"
  <2>1. Changed(c, r) = [r EXCEPT !.body = Blank, !.status = H!Drafting]
    BY <1>9 DEF Changed
  <2>2. r.status = H!Pending
    BY <1>3, <1>9 DEF Accepts
  <2>3. H!Redraft(id)
    BY <1>3, <1>5, <2>1, <2>2 DEF H!Redraft, H!Row
  <2> QED BY <2>3 DEF H!Next, H!Step
<1> QED BY <1>1, <1>6, <1>7, <1>8, <1>9, CallKinds

\* Methods that do not overlap implement the atomic queue of HitlQueue: each takes
\* effect at its append or its rename, or not at all, whether it returns, fails (an Add
\* that fails at its newline has taken effect), or its process dies.  All but one step:
\* the row of such an Add goes when the next one continues its line.
THEOREM ImplementsQueue == Spec => QueueSpec
<1>1. Init => overlap \/ H!Init
  <2> SUFFICES ASSUME Init PROVE H!Init
    OBVIOUS
  <2>1. \A id \in Ids : ~HasRow(OnDisk, id)
    BY DEF Init, OnDisk, HasRow
  <2> QED BY <2>1 DEF Rows, NoRow, H!Init, H!NewRow, H!Absent
<1>2. FilesInv /\ AloneInv /\ [Next]_vars => [overlap \/ H!Next \/ RowVanishes]_Rows
  <2> SUFFICES ASSUME FilesInv, AloneInv, [Next]_vars, ~overlap
               PROVE  H!Next \/ Rows' = Rows \/ RowVanishes
    OBVIOUS
  <2>1. ASSUME OnDisk' = OnDisk PROVE Rows' = Rows
    BY <2>1, RowsKept DEF SameRows
  <2>2. CASE UNCHANGED vars
    BY <2>1, <2>2 DEF vars, OnDisk
  <2>3. ASSUME NEW p \in Procs, Step(p) PROVE H!Next \/ Rows' = Rows \/ RowVanishes
    <3>1. Stage(p)
      BY <2>3, OthersIdle
    <3>2. CASE Quiet(p)
      BY <2>1, <3>1, <3>2, QuietDisk
    <3>3. CASE AddWrite(p) \/ AddTears(p)
      BY <3>1, <3>3, AddRefines
    <3>4. CASE Rename(p)
      BY <3>1, <3>4, RenameRefines
    <3> QED BY <2>3, <3>2, <3>3, <3>4 DEF Step, Quiet
  <2> QED BY <2>2, <2>3 DEF Next
<1> QED BY <1>1, <1>2, AloneInductive, PTL DEF Spec, QueueSpec
=============================================================================
