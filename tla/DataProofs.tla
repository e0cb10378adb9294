----------------------------- MODULE DataProofs -----------------------------
(***************************************************************************)
(* Symbol tables, random numbers and strings, of what MCData checks.       *)
(*                                                                         *)
(* Tables are maps: for any names, symbols, hash functions and sizes, a    *)
(* search finds every symbol after any sequence of additions, removals,    *)
(* doublings, copies and loads, and SymTable implements SymMap.            *)
(*                                                                         *)
(* Random numbers and orders are even: for words of any width, ranges and  *)
(* arrays of any length.                                                   *)
(*                                                                         *)
(* Strings: for texts of any length, what is looked for is found where it  *)
(* comes first, and splitting and decoding keep every character.           *)
(***************************************************************************)
EXTENDS SymTable, Random, Strings, Loops, FiniteSetTheorems, SequenceTheorems, TLAPS

(***************************************************************************)
(* Positions.  Off(n, from, q) is how far q comes after `from', around the *)
(* end of n buckets.                                                       *)
(***************************************************************************)
Off(n, from, q) == IF q >= from THEN q - from ELSE q - from + n

LEMMA AtOff ==
  ASSUME NEW n \in Nat \ {0}, NEW from \in 0..n - 1, NEW d \in 0..n - 1
  PROVE  (from + d) % n \in 0..n - 1 /\ Off(n, from, (from + d) % n) = d
<1>1. (from + d) % n = IF from + d < n THEN from + d ELSE from + d - n
  OBVIOUS
<1> QED BY <1>1 DEF Off

LEMMA Around ==
  ASSUME NEW n \in Nat \ {0}, NEW from \in 0..n - 1, NEW q \in 0..n - 1
  PROVE  Off(n, from, q) \in 0..n - 1 /\ (from + Off(n, from, q)) % n = q
<1>1. Off(n, from, q) \in 0..n - 1
  BY DEF Off
<1>2. (from + Off(n, from, q)) % n =
        IF from + Off(n, from, q) < n THEN from + Off(n, from, q) ELSE from + Off(n, from, q) - n
  <2> DEFINE d == Off(n, from, q)
  <2> HIDE DEF d
  <2>1. d \in 0..n - 1
    BY <1>1 DEF d
  <2>2. (from + d) % n = IF from + d < n THEN from + d ELSE from + d - n
    BY <2>1
  <2> QED BY <2>2 DEF d
<1> QED BY <1>2 DEF Off

LEMMA MinFacts ==
  ASSUME NEW S \in SUBSET Nat, S # {}
  PROVE  Min(S) \in S /\ \A x \in S : Min(S) <= x
BY LeastTurn DEF Min

(***************************************************************************)
(* What a table is                                                         *)
(***************************************************************************)
Slots(n) == [0..n - 1 -> Symbols \cup {NULL}]
Shaped(tb, n) == tb \in [buckets : Slots(n), used : Int, readonly : BOOLEAN]

KeyOf(c, s) == Key(c, NameOf[s])
From(h, c, n, s) == h[KeyOf(c, s)][n]

\* No empty bucket between `from' and i
Open(B, n, from, i) == \A q \in 0..n - 1 : Off(n, from, q) < Off(n, from, i) => B[q] # NULL
AllOpen(h, c, B, n) == \A i \in 0..n - 1 : B[i] # NULL => Open(B, n, From(h, c, n, B[i]), i)
Unique(c, B, n) == \A i, j \in 0..n - 1 :
                     B[i] # NULL /\ B[j] # NULL /\ KeyOf(c, B[i]) = KeyOf(c, B[j]) => i = j

Placed(h, tb, n) == /\ Shaped(tb, n) /\ Unique(is_ctable(tb), tb.buckets, n)
                    /\ AllOpen(h, is_ctable(tb), tb.buckets, n)
Counted(tb) == table_entries(tb) = Cardinality(SymbolsOf(tb))
Roomy(tb, n) == table_entries(tb) = 0 \/ (n % 4 = 0 /\ 4 * table_entries(tb) < 3 * n)
Sound(h, tb, n) == Placed(h, tb, n) /\ Counted(tb) /\ Roomy(tb, n)

LEMMA Positive == \A n \in Sizes : n \in Nat \ {0}
BY Assumptions DEF SizeAssumption

LEMMA KeyFacts ==
  /\ \A c \in BOOLEAN, n \in Names : Key(c, n) \in Names
  /\ \A c \in BOOLEAN, s \in Symbols : KeyOf(c, s) \in Names
  /\ \A h \in Hashes, n \in Names, size \in Sizes : h[n][size] \in 0..size - 1
  /\ \A tb : is_ctable(tb) \in BOOLEAN
BY Assumptions DEF TableAssumption, Key, KeyOf, is_ctable

LEMMA ShapeFacts ==
  ASSUME NEW n \in Nat \ {0}, NEW tb, Shaped(tb, n)
  PROVE  /\ DOMAIN tb.buckets = 0..n - 1 /\ Size(tb) = n
         /\ \A q \in 0..n - 1 : tb.buckets[q] \in Symbols \cup {NULL}
         /\ SymbolsOf(tb) \subseteq Symbols /\ IsFiniteSet(SymbolsOf(tb))
         /\ Cardinality(SymbolsOf(tb)) \in Nat /\ Cardinality(SymbolsOf(tb)) <= n
         /\ \A s : s \in SymbolsOf(tb) <=> s # NULL /\ \E q \in 0..n - 1 : tb.buckets[q] = s
<1>1. DOMAIN tb.buckets = 0..n - 1 /\ tb.buckets \in Slots(n)
  BY DEF Shaped, Slots
<1>2. Size(tb) = n
  <2>1. Cardinality(0..n - 1) = n
    BY FS_Interval
  <2> QED BY <1>1, <2>1 DEF Size
<1>3. \A q \in 0..n - 1 : tb.buckets[q] \in Symbols \cup {NULL}
  BY <1>1 DEF Slots
<1>4. \A s : s \in SymbolsOf(tb) <=> s # NULL /\ \E q \in 0..n - 1 : tb.buckets[q] = s
  BY <1>1 DEF SymbolsOf
<1>5. SymbolsOf(tb) \subseteq Symbols
  BY <1>3, <1>4
<1>6. IsFiniteSet(SymbolsOf(tb)) /\ Cardinality(SymbolsOf(tb)) <= n
  <2> DEFINE All == {tb.buckets[i] : i \in 0..n - 1}
             image == [i \in 0..n - 1 |-> tb.buckets[i]]
  <2>1. IsFiniteSet(0..n - 1) /\ Cardinality(0..n - 1) = n
    BY FS_Interval
  <2>2. image \in Surjection(0..n - 1, All)
    BY DEF Surjection
  <2>3. IsFiniteSet(All) /\ Cardinality(All) <= n
    <3> HIDE DEF All, image
    <3> QED BY <2>1, <2>2, FS_Surjection
  <2>4. SymbolsOf(tb) \subseteq All
    BY <1>1 DEF SymbolsOf
  <2> HIDE DEF All
  <2>5. IsFiniteSet(SymbolsOf(tb)) /\ Cardinality(SymbolsOf(tb)) <= Cardinality(All)
    BY <2>3, <2>4, FS_Subset
  <2>6. Cardinality(SymbolsOf(tb)) \in Nat /\ Cardinality(All) \in Nat
    BY <2>3, <2>5, FS_CardinalityType
  <2> QED BY <2>3, <2>5, <2>6
<1> QED BY <1>1, <1>2, <1>3, <1>4, <1>5, <1>6, FS_CardinalityType

(***************************************************************************)
(* Searching a table                                                       *)
(***************************************************************************)
LEMMA FindFacts ==
  ASSUME NEW n \in Sizes, NEW tb, Shaped(tb, n), NEW h \in Hashes, NEW name \in Names,
         \E q \in 0..n - 1 : tb.buckets[q] = NULL \/ Named(tb, tb.buckets[q], name)
  PROVE  LET p == table_find(h, tb, name)
             from == h[Key(is_ctable(tb), name)][n]
         IN  /\ p \in 0..n - 1 /\ (tb.buckets[p] = NULL \/ Named(tb, tb.buckets[p], name))
             /\ \A q \in 0..n - 1 : Off(n, from, q) < Off(n, from, p) =>
                  tb.buckets[q] # NULL /\ ~Named(tb, tb.buckets[q], name)
<1> DEFINE p == table_find(h, tb, name)
           from == h[Key(is_ctable(tb), name)][n]
           Stop(q) == tb.buckets[q] = NULL \/ Named(tb, tb.buckets[q], name)
           D == Stops(h, tb, name)
<1>1. n \in Nat \ {0} /\ Size(tb) = n /\ from \in 0..n - 1
  BY Positive, ShapeFacts, KeyFacts
<1>2. Start(h, tb, name) = from
  BY <1>1 DEF Start
<1>3. D = {d \in 0..n - 1 : Stop((from + d) % n)}
  BY <1>1, <1>2 DEF Stops
<1>4. PICK q0 \in 0..n - 1 : Stop(q0)
  OBVIOUS
<1> HIDE DEF Stop, from
<1>5. Off(n, from, q0) \in D
  <2>1. Off(n, from, q0) \in 0..n - 1 /\ (from + Off(n, from, q0)) % n = q0
    <3>1. n \in Nat \ {0} /\ from \in 0..n - 1
      BY <1>1
    <3> QED BY <3>1, Around, ZenonT(60)
  <2> HIDE DEF D
  <2> QED BY <1>3, <1>4, <2>1
<1>6. Min(D) \in D /\ \A d \in D : Min(D) <= d
  <2>1. D \in SUBSET Nat /\ D # {}
    BY <1>3, <1>5
  <2> HIDE DEF D
  <2> QED BY <2>1, MinFacts
<1>7. p = (from + Min(D)) % n
  BY <1>1, <1>2 DEF table_find
<1> HIDE DEF D
<1>8. Min(D) \in 0..n - 1 /\ Stop(p)
  BY <1>3, <1>6, <1>7
<1> HIDE DEF p
<1>9. p \in 0..n - 1 /\ Off(n, from, p) = Min(D)
  BY <1>1, <1>7, <1>8, AtOff
<1>10. ASSUME NEW q \in 0..n - 1, Off(n, from, q) < Off(n, from, p) PROVE ~Stop(q)
  <2>1. Off(n, from, q) \in 0..n - 1 /\ (from + Off(n, from, q)) % n = q
    <3>1. n \in Nat \ {0} /\ from \in 0..n - 1
      BY <1>1
    <3> QED BY <3>1, Around, ZenonT(60)
  <2>2. Off(n, from, q) \notin D
    BY <1>6, <1>8, <1>9, <1>10, <2>1
  <2> QED BY <1>3, <2>1, <2>2
<1> QED BY <1>8, <1>9, <1>10 DEF p, from, Stop

\* The symbol in bucket i is found there
LEMMA FindHit ==
  ASSUME NEW n \in Sizes, NEW tb, NEW h \in Hashes, Placed(h, tb, n), NEW name \in Names,
         NEW i \in 0..n - 1, tb.buckets[i] # NULL, Named(tb, tb.buckets[i], name)
  PROVE  table_find(h, tb, name) = i
<1> DEFINE p == table_find(h, tb, name)
           c == is_ctable(tb)
           from == h[Key(c, name)][n]
<1>1. n \in Nat \ {0} /\ Shaped(tb, n) /\ from \in 0..n - 1
  BY Positive, KeyFacts DEF Placed
<1>2. /\ p \in 0..n - 1 /\ (tb.buckets[p] = NULL \/ Named(tb, tb.buckets[p], name))
      /\ \A q \in 0..n - 1 : Off(n, from, q) < Off(n, from, p) =>
           tb.buckets[q] # NULL /\ ~Named(tb, tb.buckets[q], name)
  BY <1>1, FindFacts
<1> HIDE DEF p
<1>3. Key(c, name) = KeyOf(c, tb.buckets[i])
  BY DEF Named, KeyOf
<1>4. Open(tb.buckets, n, from, i)
  BY <1>3 DEF Placed, AllOpen, From
<1>5. Off(n, from, i) \in Int /\ Off(n, from, p) \in Int
  BY <1>1, <1>2 DEF Off
<1>6. ~(Off(n, from, i) < Off(n, from, p))
  BY <1>2
<1>7. CASE Off(n, from, p) < Off(n, from, i)
  <2>1. tb.buckets[p] # NULL
    BY <1>2, <1>4, <1>7 DEF Open
  <2>2. KeyOf(c, tb.buckets[p]) = KeyOf(c, tb.buckets[i])
    BY <1>2, <2>1 DEF Named, KeyOf
  <2> QED BY <1>2, <2>1, <2>2 DEF Placed, Unique, p
<1>8. CASE Off(n, from, p) = Off(n, from, i)
  <2>1. p = i
    BY <1>1, <1>2, <1>8 DEF Off
  <2> QED BY <2>1 DEF p
<1> HIDE DEF from
<1> QED BY <1>5, <1>6, <1>7, <1>8

\* A name that is not there leads to the first empty bucket
LEMMA FindMiss ==
  ASSUME NEW n \in Sizes, NEW tb, NEW h \in Hashes, Shaped(tb, n), NEW name \in Names,
         \A i \in 0..n - 1 : tb.buckets[i] # NULL => ~Named(tb, tb.buckets[i], name),
         \E i \in 0..n - 1 : tb.buckets[i] = NULL
  PROVE  LET p == table_find(h, tb, name)
         IN  /\ p \in 0..n - 1 /\ tb.buckets[p] = NULL
             /\ Open(tb.buckets, n, h[Key(is_ctable(tb), name)][n], p)
<1> DEFINE p == table_find(h, tb, name)
           from == h[Key(is_ctable(tb), name)][n]
<1>1. /\ p \in 0..n - 1 /\ (tb.buckets[p] = NULL \/ Named(tb, tb.buckets[p], name))
      /\ \A q \in 0..n - 1 : Off(n, from, q) < Off(n, from, p) =>
           tb.buckets[q] # NULL /\ ~Named(tb, tb.buckets[q], name)
  BY FindFacts
<1> HIDE DEF p
<1> QED BY <1>1 DEF Open, p

\* A table with fewer symbols than buckets has an empty bucket
LEMMA HasNull ==
  ASSUME NEW n \in Sizes, NEW tb, Shaped(tb, n), Unique(is_ctable(tb), tb.buckets, n),
         Cardinality(SymbolsOf(tb)) < n
  PROVE  \E i \in 0..n - 1 : tb.buckets[i] = NULL
<1> SUFFICES ASSUME \A i \in 0..n - 1 : tb.buckets[i] # NULL PROVE FALSE
  OBVIOUS
<1> DEFINE B == [i \in 0..n - 1 |-> tb.buckets[i]]
<1>1. n \in Nat \ {0}
  BY Positive
<1>2. \A i \in 0..n - 1 : tb.buckets[i] \in SymbolsOf(tb)
  BY <1>1, ShapeFacts
<1>3. \A i, j \in 0..n - 1 : B[i] = B[j] => i = j
  BY DEF Unique
<1>4. B \in Injection(0..n - 1, SymbolsOf(tb))
  BY <1>2, <1>3 DEF Injection, IsInjective
<1>5. IsFiniteSet(SymbolsOf(tb)) /\ Cardinality(SymbolsOf(tb)) \in Nat
  BY <1>1, ShapeFacts
<1>6. Cardinality(0..n - 1) = n
  BY <1>1, FS_Interval
<1> HIDE DEF B
<1>7. n <= Cardinality(SymbolsOf(tb))
  BY <1>4, <1>5, <1>6, FS_Injection
<1> QED BY <1>1, <1>5, <1>7

(***************************************************************************)
(* Adding a symbol whose name is not there                                 *)
(***************************************************************************)
Absent(tb, s) == \A z \in SymbolsOf(tb) : ~Named(tb, z, NameOf[s])
SameKind(new, tb) == is_ctable(new) = is_ctable(tb) /\ new.readonly = tb.readonly

LEMMA StoredFacts ==
  ASSUME NEW n \in Sizes, NEW tb, NEW h \in Hashes, Placed(h, tb, n), Counted(tb),
         NEW s \in Symbols, Absent(tb, s), Cardinality(SymbolsOf(tb)) < n
  PROVE  LET new == Stored(h, tb, s)
         IN  /\ Placed(h, new, n) /\ Counted(new) /\ SameKind(new, tb)
             /\ SymbolsOf(new) = SymbolsOf(tb) \cup {s} /\ s \notin SymbolsOf(tb)
             /\ Cardinality(SymbolsOf(new)) = Cardinality(SymbolsOf(tb)) + 1
<1> DEFINE new == Stored(h, tb, s)
           c == is_ctable(tb)
           p == table_find(h, tb, NameOf[s])
           B == tb.buckets
           C == new.buckets
<1>1. n \in Nat \ {0} /\ Shaped(tb, n) /\ Unique(c, B, n) /\ AllOpen(h, c, B, n) /\ NULL \notin Symbols
      /\ NameOf[s] \in Names
  BY Positive, Assumptions DEF Placed, TableAssumption
<1>2. \A i \in 0..n - 1 : B[i] # NULL => ~Named(tb, B[i], NameOf[s])
  BY <1>1, ShapeFacts DEF Absent
<1>3. p \in 0..n - 1 /\ B[p] = NULL /\ Open(B, n, From(h, c, n, s), p)
  BY <1>1, <1>2, HasNull, FindMiss DEF From, KeyOf
<1>4. B \in Slots(n) /\ tb.used \in Int /\ tb.readonly \in BOOLEAN
  BY <1>1 DEF Shaped
<1>5. new = [buckets |-> [B EXCEPT ![p] = s], used |-> tb.used + used_delta(tb), readonly |-> tb.readonly]
  <2>1. new = [tb EXCEPT !.buckets[p] = s, !.used = @ + used_delta(tb)]
    BY DEF Stored
  <2> HIDE DEF p, new
  <2>2. tb = [buckets |-> B, used |-> tb.used, readonly |-> tb.readonly]
    BY <1>1 DEF Shaped
  <2> QED BY <2>1, <2>2
<1> HIDE DEF p, new
<1>6. C = [B EXCEPT ![p] = s] /\ new.used = tb.used + used_delta(tb) /\ new.readonly = tb.readonly
  BY <1>5
<1>7. is_ctable(new) = c /\ table_entries(new) = table_entries(tb) + 1 /\ new.used \in Int
  BY <1>4, <1>6 DEF is_ctable, used_delta, table_entries
<1>8. C \in Slots(n) /\ C[p] = s /\ \A q \in 0..n - 1 : q # p => C[q] = B[q]
  BY <1>3, <1>4, <1>6 DEF Slots
<1>9. Shaped(new, n)
  BY <1>4, <1>5, <1>6, <1>7, <1>8 DEF Shaped
<1>10. Unique(c, C, n)
  <2>1. \A i \in 0..n - 1 : i # p /\ C[i] # NULL => KeyOf(c, C[i]) # KeyOf(c, s)
    BY <1>2, <1>8 DEF Named, KeyOf
  <2> QED BY <1>1, <1>8, <2>1 DEF Unique
<1>11. AllOpen(h, c, C, n)
  <2>1. \A q \in 0..n - 1 : B[q] # NULL => C[q] # NULL
    BY <1>1, <1>8
  <2> QED BY <1>1, <1>3, <1>8, <2>1 DEF AllOpen, Open
<1>12. SymbolsOf(new) = SymbolsOf(tb) \cup {s}
  <2>1. \A z : z \in SymbolsOf(tb) <=> z # NULL /\ \E q \in 0..n - 1 : B[q] = z
    BY <1>1, ShapeFacts
  <2>2. \A z : z \in SymbolsOf(new) <=> z # NULL /\ \E q \in 0..n - 1 : C[q] = z
    BY <1>1, <1>9, ShapeFacts
  <2> QED BY <1>1, <1>3, <1>8, <2>1, <2>2
<1>13. s \notin SymbolsOf(tb)
  BY DEF Absent, Named
<1>14. Cardinality(SymbolsOf(new)) = Cardinality(SymbolsOf(tb)) + 1
  <2>1. IsFiniteSet(SymbolsOf(tb))
    BY <1>1, ShapeFacts
  <2> QED BY <2>1, <1>12, <1>13, FS_AddElement
<1>15. Placed(h, new, n)
  BY <1>7, <1>9, <1>10, <1>11 DEF Placed
<1>16. Counted(new)
  BY <1>7, <1>14 DEF Counted
<1> QED BY <1>6, <1>7, <1>12, <1>13, <1>14, <1>15, <1>16 DEF SameKind, new

(***************************************************************************)
(* Filling new buckets                                                     *)
(***************************************************************************)
TablesOf(n) == [buckets : Slots(n), used : Int, readonly : BOOLEAN]

LEMMA StoredShaped ==
  ASSUME NEW n, NEW tb, Shaped(tb, n), NEW h, NEW s \in Symbols
  PROVE  Shaped(Stored(h, tb, s), n)
<1> DEFINE p == table_find(h, tb, NameOf[s])
           B == tb.buckets
<1>1. Stored(h, tb, s) = [tb EXCEPT !.buckets[p] = s, !.used = @ + used_delta(tb)]
  BY DEF Stored
<1> HIDE DEF p
<1>2. tb = [buckets |-> B, used |-> tb.used, readonly |-> tb.readonly]
      /\ B \in Slots(n) /\ tb.used \in Int /\ tb.readonly \in BOOLEAN
  BY DEF Shaped
<1>3. Stored(h, tb, s) =
        [buckets |-> [B EXCEPT ![p] = s], used |-> tb.used + used_delta(tb), readonly |-> tb.readonly]
  BY <1>1, <1>2
<1>4. [B EXCEPT ![p] = s] \in Slots(n)
  BY <1>2 DEF Slots
<1>5. tb.used + used_delta(tb) \in Int
  BY <1>2 DEF used_delta
<1> QED BY <1>2, <1>3, <1>4, <1>5 DEF Shaped

RefilledFrom(tb, size) == [alloc_table(is_ctable(tb), size) EXCEPT !.readonly = tb.readonly]

LEMMA Below == \A n \in Nat : IsFiniteSet(0..n - 1) /\ Cardinality(0..n - 1) = n
<1> TAKE n \in Nat
<1>1. IsFiniteSet(0..n - 1)
  BY FS_Interval
<1>2. Cardinality(0..n - 1) = n
  BY FS_Interval
<1> QED BY <1>1, <1>2

LEMMA SizeFacts ==
  ASSUME NEW n \in Nat, NEW tb, Shaped(tb, n)
  PROVE  Size(tb) = n /\ \A k \in 0..n - 1 : tb.buckets[k] \in Symbols \cup {NULL}
<1>1. tb.buckets \in Slots(n)
  BY DEF Shaped
<1>2. Cardinality(0..n - 1) = n
  BY FS_Interval
<1>3. DOMAIN tb.buckets = 0..n - 1
  BY <1>1 DEF Slots
<1> QED BY <1>1, <1>2, <1>3 DEF Size, Slots

LEMMA EmptyShaped ==
  ASSUME NEW n \in Nat, NEW c \in BOOLEAN
  PROVE  Shaped(alloc_table(c, n), n)
<1>1. make_used(c, 0) \in Int
  BY DEF make_used
<1>2. Empty(n) \in Slots(n)
  BY DEF Empty, Slots
<1> QED BY <1>1, <1>2 DEF alloc_table, Shaped

LEMMA EmptyFacts ==
  ASSUME NEW n \in Sizes, NEW c \in BOOLEAN, NEW h
  PROVE  LET tb == alloc_table(c, n)
         IN  /\ Sound(h, tb, n) /\ SymbolsOf(tb) = {} /\ is_ctable(tb) = c /\ tb.readonly = FALSE
             /\ table_entries(tb) = 0
<1> DEFINE tb == alloc_table(c, n)
<1>1. n \in Nat \ {0}
  BY Positive
<1>2. tb = [buckets |-> Empty(n), used |-> make_used(c, 0), readonly |-> FALSE]
  BY DEF alloc_table
<1>3. make_used(c, 0) = IF c THEN -1 ELSE 0
  BY DEF make_used
<1> HIDE DEF tb
<1>4. \A i \in 0..n - 1 : tb.buckets[i] = NULL
  BY <1>2 DEF Empty
<1>5. Shaped(tb, n)
  BY <1>2, <1>3 DEF Shaped, Slots, Empty
<1>6. is_ctable(tb) = c /\ tb.readonly = FALSE /\ table_entries(tb) = 0
  BY <1>2, <1>3 DEF is_ctable, table_entries
<1>7. SymbolsOf(tb) = {}
  BY <1>1, <1>4, <1>5, ShapeFacts
<1>8. Placed(h, tb, n)
  BY <1>4, <1>5 DEF Placed, Unique, AllOpen
<1>9. Counted(tb) /\ Roomy(tb, n)
  BY <1>6, <1>7, FS_EmptySet DEF Counted, Roomy
<1> QED BY <1>6, <1>7, <1>8, <1>9 DEF Sound, tb

LEMMA RefilledLoop ==
  ASSUME NEW n \in Nat, NEW tb, Shaped(tb, n), NEW h, NEW size \in Nat
  PROVE  \E f : /\ f[0] = RefilledFrom(tb, size) /\ Refilled(h, tb, size) = f[n]
                /\ \A k \in 0..n - 1 : f[k + 1] = IF tb.buckets[k] = NULL THEN f[k]
                                                  ELSE Stored(h, f[k], tb.buckets[k])
<1> DEFINE X == TablesOf(size)
           Turn == [p \in (0..n - 1) \X X |->
                      IF tb.buckets[p[1]] = NULL THEN p[2] ELSE Stored(h, p[2], tb.buckets[p[1]])]
           Body(f) == [k \in 0..n |-> IF k = 0 THEN RefilledFrom(tb, size)
                                      ELSE IF tb.buckets[k - 1] = NULL THEN f[k - 1]
                                      ELSE Stored(h, f[k - 1], tb.buckets[k - 1])]
<1>1. Size(tb) = n /\ \A k \in 0..n - 1 : tb.buckets[k] \in Symbols \cup {NULL}
  BY SizeFacts
<1>2. RefilledFrom(tb, size) \in X
  <2>1. Shaped(alloc_table(is_ctable(tb), size), size)
    BY EmptyShaped, KeyFacts
  <2>2. tb.readonly \in BOOLEAN
    BY DEF Shaped
  <2> QED BY <2>1, <2>2 DEF RefilledFrom, TablesOf, Shaped
<1>3. Turn \in Bodies(0..n - 1, X)
  <2> USE DEF Bodies
  <2>1. ASSUME NEW k \in 0..n - 1, NEW t \in X, tb.buckets[k] # NULL
        PROVE  Stored(h, t, tb.buckets[k]) \in X
    BY <2>1, <1>1, StoredShaped DEF Shaped, TablesOf
  <2> HIDE DEF X
  <2> QED BY <2>1
<1>4. PICK f \in [0..n -> X] : IsLoop(f, 0..n - 1, X, RefilledFrom(tb, size), Turn)
  <2> HIDE DEF X, Turn
  <2> QED BY <1>1, <1>2, <1>3, Loop
<1>5. \A k \in 0..n - 1 : f[k + 1] = IF tb.buckets[k] = NULL THEN f[k]
                                     ELSE Stored(h, f[k], tb.buckets[k])
  <2> TAKE k \in 0..n - 1
  <2>1. f[k] \in X /\ f[k + 1] = Turn[<<k, f[k]>>]
    <3> HIDE DEF X, Turn
    <3> QED BY <1>4 DEF IsLoop
  <2> HIDE DEF X
  <2> QED BY <2>1
<1>6. f = Body(f)
  <2>1. \A k \in 0..n : f[k] = IF k = 0 THEN RefilledFrom(tb, size)
                               ELSE IF tb.buckets[k - 1] = NULL THEN f[k - 1]
                               ELSE Stored(h, f[k - 1], tb.buckets[k - 1])
    <3> TAKE k \in 0..n
    <3>1. k = 0 \/ (k - 1 \in 0..n - 1 /\ (k - 1) + 1 = k)
      BY <1>1
    <3> HIDE DEF X, Turn
    <3> QED BY <3>1, <1>4, <1>5 DEF IsLoop
  <2> HIDE DEF X
  <2> QED BY <2>1, <1>4
<1>7. Refilled(h, tb, size) = (CHOOSE g : g = Body(g))[n]
  BY <1>1 DEF Refilled, RefilledFrom
<1> DEFINE new == CHOOSE g : g = Body(g)
<1>8. new = Body(new)
  <2> HIDE DEF Body
  <2> QED BY <1>6
<1> HIDE DEF new
<1>9. new[0] = RefilledFrom(tb, size)
      /\ \A k \in 0..n - 1 : new[k + 1] = IF tb.buckets[k] = NULL THEN new[k]
                                          ELSE Stored(h, new[k], tb.buckets[k])
  <2>1. new[0] = Body(new)[0] /\ \A k \in 0..n - 1 : new[k + 1] = Body(new)[k + 1]
    <3> HIDE DEF Body
    <3> QED BY <1>8
  <2>2. Body(new)[0] = RefilledFrom(tb, size)
    BY <1>1
  <2>3. ASSUME NEW k \in 0..n - 1
        PROVE  Body(new)[k + 1] = IF tb.buckets[k] = NULL THEN new[k]
                                  ELSE Stored(h, new[k], tb.buckets[k])
    <3>1. k + 1 \in 0..n /\ k + 1 # 0 /\ (k + 1) - 1 = k
      BY <1>1
    <3> QED BY <3>1
  <2> HIDE DEF Body
  <2> QED BY <2>1, <2>2, <2>3
<1> QED BY <1>7, <1>9 DEF new

LEMMA RefilledShaped ==
  ASSUME NEW n \in Nat, NEW tb, Shaped(tb, n), NEW h, NEW size \in Nat
  PROVE  Shaped(Refilled(h, tb, size), size)
<1>1. PICK f : /\ f[0] = RefilledFrom(tb, size) /\ Refilled(h, tb, size) = f[n]
               /\ \A k \in 0..n - 1 : f[k + 1] = IF tb.buckets[k] = NULL THEN f[k]
                                                 ELSE Stored(h, f[k], tb.buckets[k])
  BY RefilledLoop
<1> DEFINE T == {k \in 0..n : Shaped(f[k], size)}
<1>2. 0 \in T
  <2>1. Shaped(alloc_table(is_ctable(tb), size), size)
    BY EmptyShaped, KeyFacts
  <2>2. tb.readonly \in BOOLEAN
    BY DEF Shaped
  <2> QED BY <1>1, <2>1, <2>2 DEF RefilledFrom, Shaped
<1>3. ASSUME NEW k \in 0..n - 1, k \in T PROVE k + 1 \in T
  <2>1. tb.buckets[k] \in Symbols \cup {NULL}
    BY SizeFacts
  <2> QED BY <1>1, <1>3, <2>1, StoredShaped
<1>4. n \in T
  <2> HIDE DEF T
  <2> QED BY <1>2, <1>3, InductionUpto
<1> QED BY <1>1, <1>4

\* All the symbols are in the new buckets, and found there
LEMMA RefilledFacts ==
  ASSUME NEW n \in Sizes, NEW tb, Shaped(tb, n), Unique(is_ctable(tb), tb.buckets, n),
         NEW h \in Hashes, NEW size \in Sizes, Cardinality(SymbolsOf(tb)) <= size
  PROVE  LET new == Refilled(h, tb, size)
         IN  /\ Placed(h, new, size) /\ Counted(new) /\ SameKind(new, tb)
             /\ SymbolsOf(new) = SymbolsOf(tb)
<1> DEFINE B == tb.buckets
           c == is_ctable(tb)
           Done(k) == {B[i] : i \in 0..k - 1} \ {NULL}
           Good(new, k) == /\ Placed(h, new, size) /\ Counted(new) /\ SameKind(new, tb)
                           /\ SymbolsOf(new) = Done(k)
<1>1. n \in Nat \ {0} /\ size \in Nat \ {0} /\ \A k \in 0..n - 1 : B[k] \in Symbols \cup {NULL}
  BY Positive, ShapeFacts
<1>2. PICK f : /\ f[0] = RefilledFrom(tb, size) /\ Refilled(h, tb, size) = f[n]
               /\ \A k \in 0..n - 1 : f[k + 1] = IF B[k] = NULL THEN f[k] ELSE Stored(h, f[k], B[k])
  BY <1>1, RefilledLoop
<1>3. Done(n) = SymbolsOf(tb) /\ \A k \in 0..n : Done(k) \subseteq SymbolsOf(tb)
  <2>1. DOMAIN B = 0..n - 1
    BY <1>1, ShapeFacts
  <2>2. \A k \in 0..n : 0..k - 1 \subseteq 0..n - 1
    BY <1>1
  <2> QED BY <2>1, <2>2 DEF SymbolsOf
<1> DEFINE T == {k \in 0..n : Good(f[k], k)}
<1>4. 0 \in T
  <2> DEFINE e == alloc_table(c, size)
  <2>1. Sound(h, e, size) /\ SymbolsOf(e) = {} /\ is_ctable(e) = c
    BY EmptyFacts, KeyFacts
  <2>2. f[0] = [e EXCEPT !.readonly = tb.readonly] /\ tb.readonly \in BOOLEAN
    BY <1>2 DEF RefilledFrom, Shaped
  <2>3. e \in TablesOf(size)
    BY <2>1 DEF Sound, Placed, Shaped, TablesOf
  <2> HIDE DEF e
  <2>4. f[0].buckets = e.buckets /\ f[0].used = e.used /\ f[0].readonly = tb.readonly /\ Shaped(f[0], size)
    BY <2>2, <2>3 DEF Shaped, TablesOf
  <2>5. SymbolsOf(f[0]) = SymbolsOf(e) /\ is_ctable(f[0]) = is_ctable(e)
        /\ table_entries(f[0]) = table_entries(e)
    BY <2>4 DEF SymbolsOf, is_ctable, table_entries
  <2>6. Done(0) = {}
    OBVIOUS
  <2>7. Placed(h, f[0], size) /\ Counted(f[0])
    BY <2>1, <2>4, <2>5 DEF Sound, Placed, Counted
  <2> QED BY <2>1, <2>4, <2>5, <2>6, <2>7, <1>1 DEF SameKind
<1>5. ASSUME NEW k \in 0..n - 1, k \in T PROVE k + 1 \in T
  <2> HIDE DEF Done
  <2>1. k \in 0..n /\ k + 1 \in 0..n /\ Good(f[k], k)
    BY <1>1, <1>5
  <2>2. CASE B[k] = NULL
    <3>1. Done(k + 1) = Done(k)
      BY <2>2, <1>1 DEF Done
    <3>2. f[k + 1] = f[k]
      BY <1>2, <2>2
    <3> QED BY <2>1, <3>1, <3>2
  <2>3. CASE B[k] # NULL
    <3> DEFINE s == B[k]
    <3>1. Done(k + 1) = Done(k) \cup {s}
      <4>1. \A i \in 0..(k + 1) - 1 : i = k \/ i \in 0..k - 1
        OBVIOUS
      <4>2. \A i \in 0..k - 1 : i \in 0..(k + 1) - 1
        OBVIOUS
      <4> QED BY <4>1, <4>2, <2>3 DEF Done
    <3>2. f[k + 1] = Stored(h, f[k], s)
      BY <1>2, <2>3
    <3>3. s \in Symbols /\ s \in SymbolsOf(tb)
      BY <1>1, <2>3, ShapeFacts
    <3>4. ASSUME NEW z \in Done(k) PROVE KeyOf(c, z) # KeyOf(c, s)
      <4>1. PICK i \in 0..k - 1 : z = B[i] /\ z # NULL
        BY DEF Done
      <4>2. i \in 0..n - 1 /\ i # k
        BY <1>1
      <4> QED BY <4>1, <4>2, <2>3 DEF Unique
    <3>5. Absent(f[k], s)
      BY <2>1, <3>4 DEF Absent, Named, SameKind, KeyOf
    <3>6. Cardinality(SymbolsOf(f[k])) < size
      <4>1. Done(k) \subseteq SymbolsOf(tb) /\ s \notin Done(k) /\ IsFiniteSet(SymbolsOf(tb))
        BY <1>1, <1>3, <2>1, <3>4, ShapeFacts
      <4>2. IsFiniteSet(Done(k)) /\ IsFiniteSet(Done(k) \cup {s})
            /\ Cardinality(Done(k) \cup {s}) = Cardinality(Done(k)) + 1
            /\ Cardinality(Done(k) \cup {s}) <= Cardinality(SymbolsOf(tb))
        BY <4>1, <3>3, FS_Subset, FS_AddElement
      <4>3. Cardinality(Done(k)) \in Nat /\ Cardinality(SymbolsOf(tb)) \in Nat
        BY <4>1, <4>2, FS_CardinalityType
      <4> QED BY <2>1, <4>2, <4>3, <1>1
    <3> HIDE DEF s
    <3>7. /\ Placed(h, f[k + 1], size) /\ Counted(f[k + 1]) /\ SameKind(f[k + 1], f[k])
          /\ SymbolsOf(f[k + 1]) = SymbolsOf(f[k]) \cup {s}
      BY <2>1, <3>2, <3>3, <3>5, <3>6, StoredFacts
    <3> QED BY <2>1, <3>1, <3>7 DEF SameKind
  <2> QED BY <2>2, <2>3
<1> HIDE DEF Good
<1>6. n \in T
  <2> HIDE DEF T
  <2> QED BY <1>1, <1>4, <1>5, InductionUpto
<1> QED BY <1>2, <1>3, <1>6 DEF Good

(***************************************************************************)
(* Growing                                                                 *)
(***************************************************************************)
LEMMA SizeKinds ==
  \A n \in Sizes : /\ n \in Nat \ {0} /\ (n = 1 \/ n = 2 \/ n % 4 = 0)
                   /\ n <= MAX_VECTOR_SIZE => 2 * n \in Sizes
BY Assumptions DEF SizeAssumption

LEMMA Threshold ==
  ASSUME NEW n \in Nat \ {0}, NEW e \in Nat
  PROVE  /\ n % 4 = 0 => (e >= n \div 2 + n \div 4 <=> 4 * e >= 3 * n)
         /\ n = 1 => e >= n \div 2 + n \div 4
         /\ n = 2 => (e >= n \div 2 + n \div 4 <=> e >= 1)
OBVIOUS

LEMMA AddFacts ==
  ASSUME NEW n \in Sizes, n <= MAX_VECTOR_SIZE, NEW tb, NEW h \in Hashes, Sound(h, tb, n),
         NEW s \in Symbols, Absent(tb, s)
  PROVE  LET new == table_add_sym_fast(h, tb, s)
         IN  /\ \E m \in Sizes : Sound(h, new, m) /\ (n % 4 = 0 /\ 4 * (table_entries(tb) + 1) < 3 * n => m = n)
             /\ SameKind(new, tb) /\ SymbolsOf(new) = SymbolsOf(tb) \cup {s}
             /\ s \notin SymbolsOf(tb) /\ table_entries(new) = table_entries(tb) + 1
<1> DEFINE one == Stored(h, tb, s)
           two == Refilled(h, one, 2 * n)
           four == Refilled(h, two, 4 * n)
           e == Cardinality(SymbolsOf(tb))
           Held(new) == /\ SameKind(new, tb) /\ SymbolsOf(new) = SymbolsOf(tb) \cup {s}
                        /\ table_entries(new) = e + 1
           limit(m) == m \div 2 + m \div 4
<1>1. n \in Nat \ {0} /\ (n = 1 \/ n = 2 \/ n % 4 = 0) /\ 2 * n \in Sizes
  BY SizeKinds
<1>2. e \in Nat /\ table_entries(tb) = e /\ (e = 0 \/ 4 * e < 3 * n) /\ Shaped(tb, n)
  BY <1>1, ShapeFacts DEF Sound, Placed, Counted, Roomy
<1>3. e < n
  BY <1>1, <1>2
<1>4. /\ Placed(h, one, n) /\ Counted(one) /\ SameKind(one, tb)
      /\ SymbolsOf(one) = SymbolsOf(tb) \cup {s} /\ s \notin SymbolsOf(tb)
      /\ Cardinality(SymbolsOf(one)) = e + 1
  BY <1>3, StoredFacts DEF Sound
<1> HIDE DEF one
<1>5. Held(one) /\ Size(one) = n /\ Size(tb) = n
  BY <1>1, <1>2, <1>4, ShapeFacts DEF Placed, Counted
<1>6. TooFull(one) <=> e + 1 >= limit(n)
  BY <1>5 DEF TooFull
<1>7. /\ Placed(h, two, 2 * n) /\ Counted(two) /\ SameKind(two, one) /\ SymbolsOf(two) = SymbolsOf(one)
  <2>1. Cardinality(SymbolsOf(one)) <= 2 * n
    BY <1>1, <1>2, <1>3, <1>4
  <2>2. Shaped(one, n) /\ Unique(is_ctable(one), one.buckets, n)
    BY <1>4 DEF Placed
  <2> QED BY <1>1, <2>1, <2>2, RefilledFacts
<1> HIDE DEF two
<1>8. Held(two) /\ Size(two) = 2 * n
  BY <1>1, <1>4, <1>7, ShapeFacts DEF Placed, Counted, SameKind
<1>9. TooFull(two) <=> e + 1 >= limit(2 * n)
  BY <1>8 DEF TooFull
<1>10. table_add_sym_fast(h, tb, s) = IF ~TooFull(one) THEN one ELSE IF ~TooFull(two) THEN two ELSE four
  BY <1>5 DEF table_add_sym_fast, one, two
<1>11. CASE ~TooFull(one)
  <2>1. e + 1 < limit(n)
    BY <1>2, <1>1, <1>6, <1>11
  <2>2. n % 4 = 0 /\ 4 * (e + 1) < 3 * n
    BY <1>1, <1>2, <2>1
  <2>3. Sound(h, one, n)
    BY <1>4, <1>5, <2>2 DEF Sound, Roomy
  <2> QED BY <1>2, <1>4, <1>5, <1>10, <1>11, <2>3
<1>12. CASE TooFull(one) /\ ~TooFull(two)
  <2>1. e + 1 < limit(2 * n) /\ e + 1 >= limit(n)
    BY <1>1, <1>2, <1>6, <1>9, <1>12
  <2>2. 4 * (e + 1) < 3 * (2 * n) /\ ~(n % 4 = 0 /\ 4 * (e + 1) < 3 * n)
    BY <1>1, <1>2, <2>1
  <2>3. (2 * n) % 4 = 0
    BY <1>1, <1>2, <2>1
  <2>4. Sound(h, two, 2 * n)
    BY <1>7, <1>8, <2>2, <2>3 DEF Sound, Roomy
  <2> QED BY <1>1, <1>2, <1>4, <1>8, <1>10, <1>12, <2>2, <2>4
<1>13. CASE TooFull(one) /\ TooFull(two)
  <2>1. e + 1 >= limit(2 * n)
    BY <1>9, <1>13
  <2>2. n = 1
    BY <1>1, <1>2, <2>1
  <2>3. e = 0
    BY <1>2, <1>3, <2>2
  <2>4. 2 <= MAX_VECTOR_SIZE
    BY Assumptions DEF TableAssumption
  <2>5. 4 \in Sizes
    BY <1>1, <2>2, <2>4, SizeKinds
  <2>6. /\ Placed(h, four, 4) /\ Counted(four) /\ SameKind(four, two) /\ SymbolsOf(four) = SymbolsOf(two)
    BY <1>1, <2>2, <2>3, <2>5, <1>4, <1>7, RefilledFacts DEF Placed
  <2> HIDE DEF four
  <2>7. Held(four)
    BY <1>4, <1>7, <2>6 DEF Counted, SameKind
  <2>8. Sound(h, four, 4)
    BY <2>3, <2>6, <2>7 DEF Sound, Roomy
  <2> QED BY <1>2, <1>4, <1>10, <1>13, <2>2, <2>5, <2>7, <2>8
<1> QED BY <1>11, <1>12, <1>13

(***************************************************************************)
(* Removing a symbol                                                       *)
(***************************************************************************)
Put(tb, q, v) == [tb EXCEPT !.buckets[q] = v]

LEMMA BucketFacts ==
  ASSUME NEW n \in Nat, NEW tb, Shaped(tb, n), NEW q, NEW v \in Symbols \cup {NULL}
  PROVE  LET new == Put(tb, q, v)
         IN  /\ Shaped(new, n) /\ new.used = tb.used /\ new.readonly = tb.readonly
             /\ q \in 0..n - 1 => new.buckets[q] = v
             /\ \A i \in 0..n - 1 : i # q => new.buckets[i] = tb.buckets[i]
<1> DEFINE B == tb.buckets
<1>1. tb = [buckets |-> B, used |-> tb.used, readonly |-> tb.readonly]
      /\ B \in Slots(n) /\ tb.used \in Int /\ tb.readonly \in BOOLEAN
  BY DEF Shaped
<1>2. Put(tb, q, v) =
        [buckets |-> [B EXCEPT ![q] = v], used |-> tb.used, readonly |-> tb.readonly]
  BY <1>1 DEF Put
<1>3. [B EXCEPT ![q] = v] \in Slots(n)
  BY <1>1 DEF Slots
<1>4. /\ q \in 0..n - 1 => [B EXCEPT ![q] = v][q] = v
      /\ \A i \in 0..n - 1 : i # q => [B EXCEPT ![q] = v][i] = B[i]
  BY <1>1 DEF Slots
<1> QED BY <1>1, <1>2, <1>3, <1>4 DEF Shaped

\* A symbol of the cluster goes to the first empty bucket on its way
LEMMA AgainFacts ==
  ASSUME NEW n \in Sizes, NEW tb, Shaped(tb, n), NEW h \in Hashes,
         NEW q0 \in 0..n - 1, tb.buckets[q0] # NULL
  PROVE  LET new == Again(h, tb, q0)
             s == tb.buckets[q0]
         IN  /\ Shaped(new, n) /\ new.used = tb.used /\ new.readonly = tb.readonly
             /\ \E r \in 0..n - 1 :
                  /\ new.buckets[r] = s /\ Open(new.buckets, n, From(h, is_ctable(tb), n, s), r)
                  /\ r # q0 => tb.buckets[r] = NULL /\ new.buckets[q0] = NULL
                  /\ \A q \in 0..n - 1 : q # r /\ q # q0 => new.buckets[q] = tb.buckets[q]
                  /\ ~(Off(n, From(h, is_ctable(tb), n, s), q0) < Off(n, From(h, is_ctable(tb), n, s), r))
<1> DEFINE s == tb.buckets[q0]
           gap == Put(tb, q0, NULL)
           from == Start(h, tb, NameOf[s])
           Free == {e \in 0..n - 1 : At(gap, from + e) = NULL}
           r == (from + Min(Free)) % n
           new == Put(gap, r, s)
<1>1. n \in Nat \ {0} /\ Size(tb) = n /\ s \in Symbols
  BY Positive, ShapeFacts
<1>2. /\ Shaped(gap, n) /\ gap.used = tb.used /\ gap.readonly = tb.readonly
      /\ gap.buckets[q0] = NULL /\ \A i \in 0..n - 1 : i # q0 => gap.buckets[i] = tb.buckets[i]
  BY <1>1, BucketFacts
<1>3. Size(gap) = n
  BY <1>1, <1>2, SizeFacts
<1>4. from = From(h, is_ctable(tb), n, s) /\ from \in 0..n - 1
  <2>1. from = From(h, is_ctable(tb), n, s)
    BY <1>1 DEF Start, From, KeyOf
  <2>2. From(h, is_ctable(tb), n, s) \in 0..n - 1
    BY <1>1, KeyFacts DEF From
  <2> QED BY <2>1, <2>2
<1>5. Again(h, tb, q0) = new
  BY <1>1 DEF Again, Put
<1> HIDE DEF s, gap, from
<1>6. Free = {e \in 0..n - 1 : gap.buckets[(from + e) % n] = NULL}
  BY <1>3 DEF At
<1>7. Off(n, from, q0) \in Free
  <2>1. Off(n, from, q0) \in 0..n - 1 /\ (from + Off(n, from, q0)) % n = q0
    <3>1. n \in Nat \ {0} /\ from \in 0..n - 1
      BY <1>1, <1>4
    <3> QED BY <3>1, Around, ZenonT(60)
  <2> HIDE DEF Free
  <2> QED BY <2>1, <1>2, <1>6
<1>8. Min(Free) \in Free /\ \A e \in Free : Min(Free) <= e
  <2>1. Free \in SUBSET Nat /\ Free # {}
    BY <1>7
  <2> HIDE DEF Free
  <2> QED BY <2>1, MinFacts
<1> HIDE DEF Free
<1>9. Min(Free) \in 0..n - 1 /\ gap.buckets[r] = NULL
  BY <1>6, <1>8
<1>10. r \in 0..n - 1 /\ Off(n, from, r) = Min(Free)
  <2>1. n \in Nat \ {0} /\ from \in 0..n - 1 /\ Min(Free) \in 0..n - 1
    BY <1>1, <1>4, <1>9
  <2> QED BY <2>1, AtOff, ZenonT(60)
<1> HIDE DEF r
<1>11. ASSUME NEW q \in 0..n - 1, Off(n, from, q) < Off(n, from, r) PROVE gap.buckets[q] # NULL
  <2>1. Off(n, from, q) \in 0..n - 1 /\ (from + Off(n, from, q)) % n = q
    <3>1. n \in Nat \ {0} /\ from \in 0..n - 1
      BY <1>1, <1>4
    <3> QED BY <3>1, Around, ZenonT(60)
  <2>2. Off(n, from, q) \notin Free
    BY <1>8, <1>9, <1>10, <1>11, <2>1
  <2> QED BY <1>6, <2>1, <2>2
<1>12. /\ Shaped(new, n) /\ new.used = gap.used /\ new.readonly = gap.readonly
       /\ new.buckets[r] = s /\ \A i \in 0..n - 1 : i # r => new.buckets[i] = gap.buckets[i]
  <2>1. s \in Symbols \cup {NULL} /\ n \in Nat
    BY <1>1
  <2>2. Shaped(gap, n) /\ r \in 0..n - 1
    BY <1>2, <1>10
  <2> QED BY <2>1, <2>2, BucketFacts
<1> HIDE DEF new
<1>13. Open(new.buckets, n, from, r)
  <2>1. Off(n, from, r) \in Int
    BY <1>9, <1>10
  <2>2. \A q \in 0..n - 1 : Off(n, from, q) < Off(n, from, r) => q # r
    BY <2>1
  <2> QED BY <1>11, <1>12, <2>2 DEF Open
<1>14. r # q0 => tb.buckets[r] = NULL /\ new.buckets[q0] = NULL
  BY <1>2, <1>9, <1>10, <1>12
<1>15. \A q \in 0..n - 1 : q # r /\ q # q0 => new.buckets[q] = tb.buckets[q]
  BY <1>2, <1>12
<1>16. ~(Off(n, from, q0) < Off(n, from, r))
  BY <1>2, <1>11
<1> QED BY <1>2, <1>4, <1>5, <1>10, <1>12, <1>13, <1>14, <1>15, <1>16 DEF s

\* Going from `from' to i past q, one also passes any e between q and i
LEMMA Between ==
  ASSUME NEW n \in Nat \ {0}, NEW pos \in 0..n - 1, NEW from \in 0..n - 1,
         NEW i \in 0..n - 1, NEW q \in 0..n - 1, NEW e \in 0..n - 1,
         Off(n, from, q) < Off(n, from, i), Off(n, pos, q) < Off(n, pos, e),
         Off(n, pos, i) < Off(n, pos, q) \/ Off(n, pos, e) < Off(n, pos, i)
  PROVE  Off(n, from, e) < Off(n, from, i)
BY DEF Off

\* While the cluster after `pos' is placed anew, a search that should end at i
\* meets an empty bucket only where i is still to be placed, and the bucket
\* is one of the first d after `pos'
Holes(h, c, C, n, pos, next, d) ==
  \A i, q \in 0..n - 1 :
    /\ C[i] # NULL /\ C[q] = NULL
    /\ Off(n, From(h, c, n, C[i]), q) < Off(n, From(h, c, n, C[i]), i)
    => d < Off(n, pos, i) /\ Off(n, pos, i) < next /\ Off(n, pos, q) <= d

LEMMA AgainStep ==
  ASSUME NEW n \in Sizes, NEW tb, Shaped(tb, n), NEW h \in Hashes, NEW pos \in 0..n - 1,
         NEW next \in 1..n - 1, NEW d \in 0..next - 2,
         Unique(is_ctable(tb), tb.buckets, n),
         Holes(h, is_ctable(tb), tb.buckets, n, pos, next, d),
         tb.buckets[(pos + (d + 1)) % n] # NULL, tb.buckets[(pos + next) % n] = NULL
  PROVE  LET new == Again(h, tb, (pos + (d + 1)) % n)
         IN  /\ Shaped(new, n) /\ new.used = tb.used /\ new.readonly = tb.readonly
             /\ Unique(is_ctable(tb), new.buckets, n)
             /\ Holes(h, is_ctable(tb), new.buckets, n, pos, next, d + 1)
             /\ SymbolsOf(new) = SymbolsOf(tb)
             /\ \A q \in 0..n - 1 : d + 1 < Off(n, pos, q) => new.buckets[q] = tb.buckets[q]
<1> DEFINE q0 == (pos + (d + 1)) % n
           e == (pos + next) % n
           s == tb.buckets[q0]
           c == is_ctable(tb)
           new == Again(h, tb, q0)
           B == tb.buckets
           C == new.buckets
           from == From(h, c, n, s)
<1>1. /\ n \in Nat \ {0} /\ d \in Nat /\ next \in Nat
      /\ d + 1 \in 0..n - 1 /\ next \in 0..n - 1 /\ d + 1 < next
  <2>1. n \in Nat \ {0}
    BY Positive
  <2> QED BY <2>1
<1>2. /\ q0 \in 0..n - 1 /\ Off(n, pos, q0) = d + 1
      /\ e \in 0..n - 1 /\ Off(n, pos, e) = next
  <2>1. (pos + (d + 1)) % n \in 0..n - 1 /\ Off(n, pos, (pos + (d + 1)) % n) = d + 1
    BY <1>1, AtOff, Zenon
  <2>2. (pos + next) % n \in 0..n - 1 /\ Off(n, pos, (pos + next) % n) = next
    BY <1>1, AtOff, Zenon
  <2> QED BY <2>1, <2>2
<1> HIDE DEF q0, e
<1>3. B[q0] # NULL /\ B[e] = NULL
  BY DEF q0, e
<1>4. /\ Shaped(new, n) /\ new.used = tb.used /\ new.readonly = tb.readonly
      /\ \E r \in 0..n - 1 :
           /\ C[r] = s /\ Open(C, n, from, r)
           /\ r # q0 => B[r] = NULL /\ C[q0] = NULL
           /\ \A q \in 0..n - 1 : q # r /\ q # q0 => C[q] = B[q]
           /\ ~(Off(n, from, q0) < Off(n, from, r))
  BY <1>2, <1>3, AgainFacts
<1>5. PICK r \in 0..n - 1 :
           /\ C[r] = s /\ Open(C, n, from, r)
           /\ r # q0 => B[r] = NULL /\ C[q0] = NULL
           /\ \A q \in 0..n - 1 : q # r /\ q # q0 => C[q] = B[q]
           /\ ~(Off(n, from, q0) < Off(n, from, r))
  BY <1>4
<1> HIDE DEF new
<1>6. s # NULL /\ s \in Symbols
  BY <1>1, <1>2, <1>3, ShapeFacts
<1>7. \A i \in 0..n - 1 : B[i] # NULL => From(h, c, n, B[i]) \in 0..n - 1
  <2> TAKE i \in 0..n - 1
  <2>1. B[i] # NULL => B[i] \in Symbols
    BY <1>1, ShapeFacts
  <2> QED BY <2>1, KeyFacts DEF From
<1>8. \A x, y, z \in 0..n - 1 : Off(n, x, y) \in 0..n - 1 /\ (Off(n, x, y) = Off(n, x, z) => y = z)
  BY <1>1 DEF Off
<1>9. Off(n, pos, r) <= d + 1
  <2>1. CASE r = q0
    BY <2>1, <1>1, <1>2
  <2>2. CASE r # q0
    <3>1. Off(n, from, r) < Off(n, from, q0)
      <4>1. from \in 0..n - 1
        BY <1>2, <1>3, <1>7
      <4>2. Off(n, from, r) \in 0..n - 1 /\ Off(n, from, q0) \in 0..n - 1 /\ Off(n, from, r) # Off(n, from, q0)
        BY <4>1, <1>2, <1>8, <2>2
      <4> QED BY <4>2, <1>5, <1>1
    <3>2. Off(n, pos, r) <= d
      BY <3>1, <2>2, <1>2, <1>3, <1>5 DEF Holes
    <3> QED BY <3>2, <1>1, <1>8
  <2> QED BY <2>1, <2>2
<1>10. \A q \in 0..n - 1 : d + 1 < Off(n, pos, q) => C[q] = B[q]
  <2> TAKE q \in 0..n - 1
  <2> HAVE d + 1 < Off(n, pos, q)
  <2>1. ~(d + 1 < Off(n, pos, q0)) /\ ~(d + 1 < Off(n, pos, r))
    <3>1. Off(n, pos, r) \in Nat
      BY <1>8
    <3> QED BY <3>1, <1>1, <1>2, <1>9
  <2>2. q # r /\ q # q0
    BY <2>1
  <2> QED BY <2>2, <1>5
<1>11. Unique(c, C, n)
  <2>1. \A i \in 0..n - 1 : i # r /\ C[i] # NULL => i # q0 /\ C[i] = B[i]
    BY <1>5
  <2>2. ASSUME NEW i \in 0..n - 1, i # r, C[i] # NULL PROVE KeyOf(c, C[i]) # KeyOf(c, s)
    BY <2>1, <2>2, <1>2, <1>3 DEF Unique
  <2>3. ASSUME NEW i \in 0..n - 1, NEW j \in 0..n - 1, C[i] # NULL, C[j] # NULL,
               KeyOf(c, C[i]) = KeyOf(c, C[j])
        PROVE  i = j
    <3>1. CASE i # r /\ j # r
      BY <3>1, <2>1, <2>3 DEF Unique
    <3>2. CASE i = r \/ j = r
      BY <3>2, <2>2, <2>3, <1>5
    <3> QED BY <3>1, <3>2
  <2> QED BY <2>3 DEF Unique
<1>12. SymbolsOf(new) = SymbolsOf(tb)
  <2>1. \A z : z \in SymbolsOf(tb) <=> z # NULL /\ \E q \in 0..n - 1 : B[q] = z
    BY <1>1, ShapeFacts
  <2>2. \A z : z \in SymbolsOf(new) <=> z # NULL /\ \E q \in 0..n - 1 : C[q] = z
    BY <1>1, <1>4, ShapeFacts
  <2>3. \A q \in 0..n - 1 : B[q] # NULL => \E i \in 0..n - 1 : C[i] = B[q]
    BY <1>5
  <2>4. \A q \in 0..n - 1 : C[q] # NULL => \E i \in 0..n - 1 : B[i] = C[q]
    BY <1>5, <1>2
  <2>5. \A z : z \in SymbolsOf(new) <=> z \in SymbolsOf(tb)
    <3> TAKE z
    <3>1. z \in SymbolsOf(new) => z \in SymbolsOf(tb)
      BY <2>1, <2>2, <2>4
    <3>2. z \in SymbolsOf(tb) => z \in SymbolsOf(new)
      BY <2>1, <2>2, <2>3
    <3> QED BY <3>1, <3>2
  <2> QED BY <2>5
<1>13. ASSUME NEW i \in 0..n - 1, NEW q \in 0..n - 1, C[i] # NULL, C[q] = NULL,
              Off(n, From(h, c, n, C[i]), q) < Off(n, From(h, c, n, C[i]), i)
       PROVE  d + 1 < Off(n, pos, i) /\ Off(n, pos, i) < next /\ Off(n, pos, q) <= d + 1
  <2>1. i # r
    BY <1>5, <1>13 DEF Open
  <2>2. i # q0 /\ C[i] = B[i] /\ q # r
    BY <2>1, <1>5, <1>6, <1>13
  <2>3. Off(n, pos, i) # d + 1 /\ Off(n, pos, i) \in Nat /\ Off(n, pos, q) \in Nat
    BY <1>2, <1>8, <2>2
  <2>4. CASE B[q] = NULL
    <3>1. d < Off(n, pos, i) /\ Off(n, pos, i) < next /\ Off(n, pos, q) <= d
      BY <1>13, <2>2, <2>4 DEF Holes
    <3> QED BY <3>1, <2>3, <1>1
  <2>5. CASE B[q] # NULL
    <3>1. q = q0
      BY <1>5, <1>13, <2>2, <2>5
    <3>2. SUFFICES ASSUME Off(n, pos, i) < d + 1 \/ next < Off(n, pos, i) PROVE FALSE
      <4>1. Off(n, pos, i) # next
        BY <1>2, <1>3, <1>8, <1>13, <2>2
      <4> QED BY <4>1, <3>1, <3>2, <1>1, <1>2, <2>3
    <3> DEFINE f == From(h, c, n, C[i])
    <3>3. f \in 0..n - 1
      BY <1>7, <1>13, <2>2
    <3> HIDE DEF f
    <3>4. Off(n, f, q) < Off(n, f, i)
      BY <1>13 DEF f
    <3>5. Off(n, f, e) < Off(n, f, i)
      BY <1>1, <1>2, <3>1, <3>2, <3>3, <3>4, Between
    <3>6. Off(n, pos, e) <= d
      BY <1>2, <1>3, <1>13, <2>2, <3>5 DEF Holes, f
    <3> QED BY <3>6, <1>1, <1>2
  <2> QED BY <2>4, <2>5
<1>14. Holes(h, c, C, n, pos, next, d + 1)
  BY <1>13 DEF Holes
<1> QED BY <1>4, <1>10, <1>11, <1>12, <1>14 DEF new, q0

LEMMA AgainShaped ==
  ASSUME NEW n \in Nat, NEW tb, Shaped(tb, n), NEW h, NEW q \in 0..n - 1
  PROVE  Shaped(Again(h, tb, q), n)
<1> DEFINE s == tb.buckets[q]
           gap == Put(tb, q, NULL)
           from == Start(h, tb, NameOf[s])
           step == Min({e \in 0..Size(tb) - 1 : At(gap, from + e) = NULL})
           r == (from + step) % Size(tb)
<1>1. Again(h, tb, q) = Put(gap, r, s)
  BY DEF Again, Put
<1>2. s \in Symbols \cup {NULL}
  BY SizeFacts
<1>3. Shaped(gap, n)
  BY BucketFacts
<1> HIDE DEF s, gap, r
<1>4. Shaped(Put(gap, r, s), n)
  BY <1>2, <1>3, BucketFacts
<1> QED BY <1>1, <1>4

\* Where the buckets after `pos' are empty
EmptyAfter(tb, n, pos) == {d \in 1..n : tb.buckets[(pos + d) % n] = NULL}

LEMMA ClosedLoop ==
  ASSUME NEW n \in Nat \ {0}, NEW tb, Shaped(tb, n), NEW h, NEW pos \in 0..n - 1, NEW next \in 1..n,
         next = Min(EmptyAfter(tb, n, pos))
  PROVE  \E f : /\ f[0] = tb /\ Closed(h, tb, pos) = f[next - 1]
                /\ \A k \in 0..next - 2 : f[k + 1] = Again(h, f[k], (pos + (k + 1)) % n)
<1> DEFINE N == next - 1
           X == TablesOf(n)
           Turn == [p \in (0..N - 1) \X X |-> Again(h, p[2], (pos + (p[1] + 1)) % n)]
           Body(f) == [d \in 0..N |-> IF d = 0 THEN tb ELSE Again(h, f[d - 1], (pos + d) % n)]
<1>1. Size(tb) = n /\ N \in Nat
  BY SizeFacts
<1>2. tb \in X
  BY DEF TablesOf, Shaped
<1>3. Turn \in Bodies(0..N - 1, X)
  <2>1. ASSUME NEW k \in 0..N - 1, NEW t \in X PROVE Again(h, t, (pos + (k + 1)) % n) \in X
    <3>1. (pos + (k + 1)) % n \in 0..n - 1
      OBVIOUS
    <3>2. Shaped(t, n)
      BY DEF Shaped, TablesOf
    <3> QED BY <3>1, <3>2, AgainShaped DEF Shaped, TablesOf
  <2> HIDE DEF X, N
  <2> QED BY <2>1 DEF Bodies
<1>4. PICK f \in [0..N -> X] : IsLoop(f, 0..N - 1, X, tb, Turn)
  <2> HIDE DEF X, Turn, N
  <2> QED BY <1>1, <1>2, <1>3, Loop
<1>5. \A k \in 0..N - 1 : f[k + 1] = Again(h, f[k], (pos + (k + 1)) % n)
  <2> TAKE k \in 0..N - 1
  <2>1. f[k] \in X /\ f[k + 1] = Turn[<<k, f[k]>>]
    <3> HIDE DEF X, Turn, N
    <3> QED BY <1>4 DEF IsLoop
  <2> HIDE DEF X, N
  <2> QED BY <2>1
<1> HIDE DEF N
<1>6. f = Body(f)
  <2>1. \A d \in 0..N : f[d] = IF d = 0 THEN tb ELSE Again(h, f[d - 1], (pos + d) % n)
    <3> TAKE d \in 0..N
    <3>1. d = 0 \/ (d - 1 \in 0..N - 1 /\ (d - 1) + 1 = d)
      BY <1>1
    <3> HIDE DEF X, Turn
    <3> QED BY <3>1, <1>4, <1>5 DEF IsLoop
  <2> HIDE DEF X
  <2> QED BY <2>1, <1>4
<1>7. Closed(h, tb, pos) = (CHOOSE g : g = Body(g))[N]
  BY <1>1 DEF Closed, At, N, EmptyAfter
<1> DEFINE new == CHOOSE g : g = Body(g)
<1>8. new = Body(new)
  <2> HIDE DEF Body
  <2> QED BY <1>6
<1> HIDE DEF new
<1>9. new[0] = tb /\ \A k \in 0..N - 1 : new[k + 1] = Again(h, new[k], (pos + (k + 1)) % n)
  <2>1. new[0] = Body(new)[0] /\ \A k \in 0..N - 1 : new[k + 1] = Body(new)[k + 1]
    <3> HIDE DEF Body
    <3> QED BY <1>8
  <2>2. Body(new)[0] = tb
    BY <1>1
  <2>3. ASSUME NEW k \in 0..N - 1
        PROVE  Body(new)[k + 1] = Again(h, new[k], (pos + (k + 1)) % n)
    <3>1. k + 1 \in 0..N /\ k + 1 # 0 /\ (k + 1) - 1 = k
      BY <1>1
    <3> QED BY <3>1
  <2> HIDE DEF Body
  <2> QED BY <2>1, <2>2, <2>3
<1>10. N - 1 = next - 2
  BY DEF N
<1> QED BY <1>7, <1>9, <1>10 DEF new, N

\* The symbols after the removed one are found again, and only it is gone
LEMMA RemoveFacts ==
  ASSUME NEW n \in Sizes, NEW tb, NEW h \in Hashes, Sound(h, tb, n),
         NEW pos \in 0..n - 1, tb.buckets[pos] # NULL
  PROVE  LET new == table_remove_at(h, tb, pos)
         IN  /\ Sound(h, new, n) /\ SameKind(new, tb)
             /\ SymbolsOf(new) = SymbolsOf(tb) \ {tb.buckets[pos]}
<1> DEFINE c == is_ctable(tb)
           B == tb.buckets
           x == B[pos]
           gap == Put(tb, pos, NULL)
           Free == {d \in 1..n : gap.buckets[(pos + d) % n] = NULL}
           next == Min(Free)
           e == (pos + next) % n
<1>1. /\ n \in Nat \ {0} /\ Shaped(tb, n) /\ Unique(c, B, n) /\ AllOpen(h, c, B, n)
      /\ Counted(tb) /\ Roomy(tb, n)
  BY Positive DEF Sound, Placed
<1>2. x \in Symbols /\ x \in SymbolsOf(tb) /\ NULL \notin Symbols
  BY <1>1, ShapeFacts, Assumptions DEF TableAssumption
<1>3. /\ Shaped(gap, n) /\ gap.used = tb.used /\ gap.readonly = tb.readonly
      /\ gap.buckets[pos] = NULL /\ \A i \in 0..n - 1 : i # pos => gap.buckets[i] = B[i]
  BY <1>1, BucketFacts
<1> HIDE DEF gap
<1> DEFINE G == gap.buckets
<1>4. \E q \in 0..n - 1 : B[q] = NULL
  <2>1. Cardinality(SymbolsOf(tb)) \in Nat
    BY <1>1, ShapeFacts
  <2>2. Cardinality(SymbolsOf(tb)) < n
    BY <1>1, <2>1 DEF Counted, Roomy
  <2> QED BY <1>1, <2>2, HasNull
<1>5. /\ next \in 1..n - 1 /\ e \in 0..n - 1 /\ Off(n, pos, e) = next /\ B[e] = NULL /\ G[e] = NULL
      /\ \A d \in 1..next - 1 : G[(pos + d) % n] # NULL
  <2>1. PICK q \in 0..n - 1 : B[q] = NULL
    BY <1>4
  <2>2. Off(n, pos, q) \in 0..n - 1 /\ (pos + Off(n, pos, q)) % n = q
    <3>1. n \in Nat \ {0} /\ pos \in 0..n - 1
      BY <1>1
    <3> QED BY <3>1, Around, ZenonT(60)
  <2>3. Off(n, pos, q) # 0
    BY <2>1, <1>1 DEF Off
  <2>4. G[q] = NULL
    BY <2>1, <1>3
  <2>5. Off(n, pos, q) \in Free
    BY <1>1, <2>2, <2>3, <2>4
  <2>6. next \in Free /\ \A d \in Free : next <= d
    <3>1. Free \in SUBSET Nat /\ Free # {}
      BY <2>5
    <3> HIDE DEF Free
    <3> QED BY <3>1, MinFacts
  <2> HIDE DEF next
  <2>7. next \in 1..n /\ G[e] = NULL
    BY <2>6
  <2>8. next <= Off(n, pos, q)
    BY <2>5, <2>6
  <2>9. next \in 1..n - 1
    BY <1>1, <2>2, <2>7, <2>8
  <2>10. ASSUME NEW d \in 1..next - 1 PROVE G[(pos + d) % n] # NULL
    <3>1. d \in 1..n /\ ~(next <= d)
      BY <1>1, <2>9
    <3>2. d \notin Free
      BY <2>6, <3>1
    <3> QED BY <3>1, <3>2
  <2> HIDE DEF Free
  <2>11. next \in 0..n - 1
    BY <2>9
  <2>12. e \in 0..n - 1 /\ Off(n, pos, e) = next
    BY <1>1, <2>11, AtOff, Zenon
  <2>13. e # pos
    BY <2>9, <2>12, <1>1 DEF Off
  <2> QED BY <1>3, <2>7, <2>9, <2>10, <2>12, <2>13
<1>6. PICK f : /\ f[0] = gap /\ Closed(h, gap, pos) = f[next - 1]
               /\ \A k \in 0..next - 2 : f[k + 1] = Again(h, f[k], (pos + (k + 1)) % n)
  <2>1. next \in 1..n
    BY <1>1, <1>5
  <2>2. next = Min(EmptyAfter(gap, n, pos))
    BY DEF EmptyAfter
  <2> HIDE DEF next
  <2> QED BY <1>1, <1>3, <2>1, <2>2, ClosedLoop
<1> HIDE DEF Free, next, e
<1> DEFINE Good(t, d) == /\ Shaped(t, n) /\ t.used = tb.used /\ t.readonly = tb.readonly
                         /\ Unique(c, t.buckets, n) /\ SymbolsOf(t) = SymbolsOf(tb) \ {x}
                         /\ Holes(h, c, t.buckets, n, pos, next, d)
                         /\ \A q \in 0..n - 1 : d < Off(n, pos, q) => t.buckets[q] = G[q]
           T == {d \in 0..next - 1 : Good(f[d], d)}
<1>7. \A y, z \in 0..n - 1 : Off(n, y, z) \in 0..n - 1
  BY <1>1 DEF Off
<1>8. Good(gap, 0)
  <2>1. Unique(c, G, n)
    BY <1>1, <1>3 DEF Unique
  <2>2. SymbolsOf(gap) = SymbolsOf(tb) \ {x}
    <3>1. \A z : z \in SymbolsOf(tb) <=> z # NULL /\ \E q \in 0..n - 1 : B[q] = z
      BY <1>1, ShapeFacts
    <3>2. \A z : z \in SymbolsOf(gap) <=> z # NULL /\ \E q \in 0..n - 1 : G[q] = z
      BY <1>1, <1>3, ShapeFacts
    <3>3. \A q \in 0..n - 1 : B[q] = x => q = pos
      BY <1>1 DEF Unique
    <3>4. \A z : z \in SymbolsOf(gap) <=> z \in SymbolsOf(tb) \ {x}
      <4> TAKE z
      <4>1. z \in SymbolsOf(gap) => z \in SymbolsOf(tb) \ {x}
        BY <3>1, <3>2, <3>3, <1>3
      <4>2. z \in SymbolsOf(tb) \ {x} => z \in SymbolsOf(gap)
        BY <3>1, <3>2, <1>3
      <4> QED BY <4>1, <4>2
    <3> QED BY <3>4
  <2>3. ASSUME NEW i \in 0..n - 1, NEW q \in 0..n - 1, G[i] # NULL, G[q] = NULL,
               Off(n, From(h, c, n, G[i]), q) < Off(n, From(h, c, n, G[i]), i)
        PROVE  0 < Off(n, pos, i) /\ Off(n, pos, i) < next /\ Off(n, pos, q) <= 0
    <3>1. i # pos /\ G[i] = B[i]
      BY <1>3, <2>3
    <3> DEFINE from == From(h, c, n, B[i])
    <3>2. from \in 0..n - 1
      <4>1. B[i] \in Symbols
        BY <1>1, <2>3, <3>1, ShapeFacts
      <4> QED BY <4>1, KeyFacts DEF From
    <3>3. Open(B, n, from, i)
      BY <1>1, <2>3, <3>1 DEF AllOpen
    <3> HIDE DEF from
    <3>4. Off(n, from, q) < Off(n, from, i)
      BY <2>3, <3>1 DEF from
    <3>5. q = pos
      BY <1>3, <2>3, <3>3, <3>4 DEF Open
    <3>6. Off(n, pos, pos) = 0 /\ Off(n, pos, i) # 0 /\ (Off(n, pos, i) = Off(n, pos, e) => i = e)
      BY <1>1, <1>5, <3>1 DEF Off
    <3>7. ASSUME next < Off(n, pos, i) PROVE FALSE
      <4>1. Off(n, pos, pos) < Off(n, pos, e) /\ Off(n, pos, e) < Off(n, pos, i)
        BY <1>5, <3>6, <3>7
      <4>2. Off(n, from, e) < Off(n, from, i)
        BY <1>1, <1>5, <3>2, <3>4, <3>5, <4>1, Between
      <4> QED BY <1>5, <3>3, <4>2 DEF Open
    <3>8. Off(n, pos, i) # next
      BY <1>5, <2>3, <3>6
    <3>9. Off(n, pos, i) \in 0..n - 1
      BY <1>7
    <3> QED BY <1>1, <1>5, <3>5, <3>6, <3>7, <3>8, <3>9
  <2>4. Holes(h, c, G, n, pos, next, 0)
    BY <2>3 DEF Holes
  <2> QED BY <1>3, <2>1, <2>2, <2>4
<1>9. ASSUME NEW d \in 0..(next - 1) - 1, d \in T PROVE d + 1 \in T
  <2> DEFINE t == f[d]
             q0 == (pos + (d + 1)) % n
  <2>1. d \in 0..next - 2 /\ d \in Nat /\ d + 1 \in 1..next - 1 /\ d + 1 \in 0..n - 1 /\ Good(t, d)
    BY <1>1, <1>5, <1>9
  <2>2. q0 \in 0..n - 1 /\ Off(n, pos, q0) = d + 1
    BY <1>1, <2>1, AtOff
  <2>3. f[d + 1] = Again(h, t, q0)
    BY <1>6, <2>1
  <2>4. t.buckets[q0] # NULL
    <3>1. G[q0] # NULL
      BY <1>5, <2>1
    <3> HIDE DEF t, q0
    <3> QED BY <2>1, <2>2, <3>1
  <2>5. t.buckets[(pos + next) % n] = NULL
    <3>1. t.buckets[e] = NULL
      <4>1. d < Off(n, pos, e)
        BY <1>5, <2>1
      <4> QED BY <1>5, <2>1, <4>1
    <3> QED BY <3>1 DEF e
  <2>6. is_ctable(t) = c
    BY <2>1 DEF is_ctable
  <2> HIDE DEF t
  <2> DEFINE new == Again(h, t, q0)
  <2>7. /\ Shaped(new, n) /\ new.used = t.used /\ new.readonly = t.readonly
        /\ Unique(c, new.buckets, n)
        /\ Holes(h, c, new.buckets, n, pos, next, d + 1)
        /\ SymbolsOf(new) = SymbolsOf(t)
        /\ \A q \in 0..n - 1 : d + 1 < Off(n, pos, q) => new.buckets[q] = t.buckets[q]
    <3>1. Shaped(t, n) /\ next \in 1..n - 1 /\ d \in 0..next - 2
      BY <1>5, <2>1
    <3>2. Unique(is_ctable(t), t.buckets, n) /\ Holes(h, is_ctable(t), t.buckets, n, pos, next, d)
      BY <2>1, <2>6
    <3> HIDE DEF Good
    <3>3. /\ Shaped(new, n) /\ new.used = t.used /\ new.readonly = t.readonly
          /\ Unique(is_ctable(t), new.buckets, n)
          /\ Holes(h, is_ctable(t), new.buckets, n, pos, next, d + 1)
          /\ SymbolsOf(new) = SymbolsOf(t)
          /\ \A q \in 0..n - 1 : d + 1 < Off(n, pos, q) => new.buckets[q] = t.buckets[q]
      BY <3>1, <3>2, <2>4, <2>5, AgainStep
    <3> HIDE DEF new, q0, c
    <3> QED BY <3>3, <2>6 DEF c
  <2> HIDE DEF new, q0
  <2>8. \A q \in 0..n - 1 : d + 1 < Off(n, pos, q) => new.buckets[q] = G[q]
    <3> TAKE q \in 0..n - 1
    <3> HAVE d + 1 < Off(n, pos, q)
    <3>1. d < Off(n, pos, q)
      <4>1. Off(n, pos, q) \in Nat
        BY <1>7
      <4> QED BY <4>1, <2>1
    <3> QED BY <2>1, <2>7, <3>1
  <2>9. Good(new, d + 1)
    BY <2>1, <2>7, <2>8
  <2> QED BY <2>1, <2>3, <2>9 DEF new, q0
<1>10. 0 \in T
  BY <1>5, <1>6, <1>8
<1>11. next - 1 \in T
  <2>1. next - 1 \in Nat
    BY <1>5
  <2> HIDE DEF T
  <2> QED BY <2>1, <1>9, <1>10, InductionUpto
<1> DEFINE t == Closed(h, gap, pos)
           new == [t EXCEPT !.used = removed_count(tb)]
<1>12. Good(t, next - 1)
  BY <1>6, <1>11
<1>13. table_remove_at(h, tb, pos) = new
  BY DEF table_remove_at, gap, Put
<1> HIDE DEF t
<1>14. AllOpen(h, c, t.buckets, n)
  <2>1. ASSUME NEW i \in 0..n - 1, NEW q \in 0..n - 1, t.buckets[i] # NULL, t.buckets[q] = NULL,
               Off(n, From(h, c, n, t.buckets[i]), q) < Off(n, From(h, c, n, t.buckets[i]), i)
        PROVE  FALSE
    <3>1. next - 1 < Off(n, pos, i) /\ Off(n, pos, i) < next
      BY <1>12, <2>1 DEF Holes
    <3>2. Off(n, pos, i) \in Nat /\ next \in Nat
      BY <1>5, <1>7
    <3> QED BY <3>1, <3>2
  <2> QED BY <2>1 DEF AllOpen, Open
<1>15. tb.used \in Int /\ removed_count(tb) \in Int
  BY <1>1 DEF Shaped, removed_count, used_delta
<1>16. new.buckets = t.buckets /\ new.used = removed_count(tb) /\ new.readonly = tb.readonly /\ Shaped(new, n)
  BY <1>12, <1>15 DEF Shaped
<1> HIDE DEF new
<1>17. /\ Cardinality(SymbolsOf(tb)) \in Nat \ {0} /\ IsFiniteSet(SymbolsOf(tb))
       /\ Cardinality(SymbolsOf(tb) \ {x}) = Cardinality(SymbolsOf(tb)) - 1
  <2>1. IsFiniteSet(SymbolsOf(tb)) /\ Cardinality(SymbolsOf(tb)) \in Nat
    BY <1>1, ShapeFacts
  <2>2. Cardinality(SymbolsOf(tb)) # 0
    BY <1>2, <2>1, FS_EmptySet
  <2> QED BY <1>2, <2>1, <2>2, FS_RemoveElement
<1>18. is_ctable(new) = c /\ table_entries(new) = table_entries(tb) - 1
  BY <1>1, <1>15, <1>16, <1>17 DEF Counted, is_ctable, table_entries, removed_count, used_delta
<1>19. SymbolsOf(new) = SymbolsOf(tb) \ {x}
  BY <1>12, <1>16 DEF SymbolsOf
<1>20. Placed(h, new, n)
  BY <1>12, <1>14, <1>16, <1>18 DEF Placed
<1>21. Counted(new)
  BY <1>1, <1>17, <1>18, <1>19 DEF Counted
<1>22. Roomy(new, n)
  BY <1>1, <1>17, <1>18 DEF Roomy, Counted
<1> QED BY <1>13, <1>16, <1>18, <1>19, <1>20, <1>21, <1>22 DEF Sound, SameKind

(***************************************************************************)
(* The sizes tables are made with                                          *)
(***************************************************************************)
LEMMA NextPowerFacts ==
  ASSUME NEW k \in Nat, \E size \in Sizes : k < size
  PROVE  NEXT_POW2(k) \in Sizes /\ k < NEXT_POW2(k) /\ \A z \in Sizes : k < z => NEXT_POW2(k) <= z
<1> DEFINE S == {z \in Sizes : k < z}
<1>1. S \in SUBSET Nat /\ S # {}
  BY SizeKinds
<1>2. PICK m \in S : \A z \in S : m <= z
  <2> HIDE DEF S
  <2> QED BY <1>1, LeastTurn
<1>3. m \in Sizes /\ k < m /\ \A z \in Sizes : k < z => m <= z
  BY <1>2
<1> QED BY <1>3 DEF NEXT_POW2

\* How many symbols are put into new tables
Amounts == 0..MaxVec \cup 0..MAX_TABLE_ENTRIES + 1

LEMMA GoodSizeFacts ==
  /\ \A N \in Amounts : /\ table_good_size(N) \in Sizes /\ 4 * N < 3 * table_good_size(N)
                        /\ N # 0 => table_good_size(N) % 4 = 0
  /\ \A N \in 0..MAX_TABLE_ENTRIES : table_good_size(N) <= MAX_VECTOR_SIZE
<1> DEFINE k(N) == (N * 4 + 2) \div 3
<1>1. MaxVec \in Nat /\ MAX_TABLE_ENTRIES \in Nat /\ MAX_VECTOR_SIZE \in Nat
      /\ table_good_size(MAX_TABLE_ENTRIES) <= MAX_VECTOR_SIZE
  BY Assumptions DEF TableAssumption
<1>2. \A n \in {MaxVec, MAX_TABLE_ENTRIES + 1} : \E size \in Sizes : size > k(n)
  BY Assumptions DEF SizeAssumption
<1>3. ASSUME NEW N \in Amounts
      PROVE  /\ k(N) \in Nat /\ table_good_size(N) \in Sizes /\ k(N) < table_good_size(N)
             /\ \A z \in Sizes : k(N) < z => table_good_size(N) <= z
  <2>1. N \in Nat /\ (N <= MaxVec \/ N <= MAX_TABLE_ENTRIES + 1)
    BY <1>1 DEF Amounts
  <2>2. PICK n \in {MaxVec, MAX_TABLE_ENTRIES + 1} : N <= n
    BY <2>1
  <2>3. n \in Nat
    BY <1>1
  <2>4. k(N) \in Nat /\ k(n) \in Nat /\ k(N) <= k(n)
    BY <2>1, <2>2, <2>3
  <2>5. PICK size \in Sizes : size > k(n)
    BY <1>2
  <2> HIDE DEF k
  <2>6. k(N) < size /\ size \in Nat
    BY <2>4, <2>5, SizeKinds
  <2>7. table_good_size(N) = NEXT_POW2(k(N))
    BY DEF table_good_size, k
  <2> QED BY <2>4, <2>6, <2>7, NextPowerFacts
<1>4. ASSUME NEW N \in Amounts
      PROVE  /\ 4 * N < 3 * table_good_size(N)
             /\ N # 0 => table_good_size(N) % 4 = 0
  <2>1. N \in Nat
    BY <1>1 DEF Amounts
  <2> DEFINE g == table_good_size(N)
  <2>2. g \in Nat \ {0} /\ (g = 1 \/ g = 2 \/ g % 4 = 0) /\ (N * 4 + 2) \div 3 < g
    BY <1>3, SizeKinds
  <2> HIDE DEF g
  <2>3. 4 * N < 3 * g /\ (N # 0 => 2 < g)
    BY <2>1, <2>2
  <2> QED BY <2>2, <2>3 DEF g
<1>5. ASSUME NEW N \in 0..MAX_TABLE_ENTRIES PROVE table_good_size(N) <= MAX_VECTOR_SIZE
  <2> DEFINE M == MAX_TABLE_ENTRIES
  <2>1. N \in Amounts /\ M \in Amounts /\ N \in Nat /\ M \in Nat
    BY <1>1 DEF Amounts
  <2>2. k(N) <= k(M)
    BY <2>1
  <2> HIDE DEF k
  <2>3. k(N) < table_good_size(M)
    BY <1>3, <2>1, <2>2, SizeKinds
  <2>4. table_good_size(N) <= table_good_size(M)
    BY <1>3, <2>1, <2>3
  <2> QED BY <1>1, <1>3, <2>1, <2>4, SizeKinds
<1> QED BY <1>3, <1>4, <1>5

\* rehash_table() changes nothing that can be counted
LEMMA RehashFacts ==
  ASSUME NEW n \in Sizes, NEW tb, NEW g, NEW h \in Hashes, Sound(g, tb, n)
  PROVE  LET new == rehash_table(h, tb)
         IN  /\ Sound(h, new, n) /\ SameKind(new, tb) /\ SymbolsOf(new) = SymbolsOf(tb)
             /\ new.used = tb.used
<1> DEFINE new == rehash_table(h, tb)
<1>1. Shaped(tb, n) /\ Unique(is_ctable(tb), tb.buckets, n) /\ Counted(tb) /\ Roomy(tb, n)
      /\ n \in Nat \ {0}
  BY Positive DEF Sound, Placed
<1>2. Size(tb) = n /\ Cardinality(SymbolsOf(tb)) <= n
  BY <1>1, ShapeFacts
<1>3. new = Refilled(h, tb, n)
  BY <1>2 DEF rehash_table
<1> HIDE DEF new
<1>4. Placed(h, new, n) /\ Counted(new) /\ SameKind(new, tb) /\ SymbolsOf(new) = SymbolsOf(tb)
  BY <1>1, <1>2, <1>3, RefilledFacts
<1>5. table_entries(new) = table_entries(tb) /\ is_ctable(new) = is_ctable(tb)
  BY <1>1, <1>4 DEF Counted, SameKind
<1>6. new.used \in Int /\ tb.used \in Int
  BY <1>1, <1>4 DEF Placed, Shaped
<1>7. new.used = tb.used
  BY <1>5, <1>6 DEF table_entries, is_ctable
<1>8. Roomy(new, n)
  BY <1>1, <1>5 DEF Roomy
<1> QED BY <1>4, <1>7, <1>8 DEF Sound, new

LEMMA NotTooFull ==
  ASSUME NEW n \in Sizes, NEW tb, NEW h, Sound(h, tb, n), SymbolsOf(tb) # {}
  PROVE  ~TooFull(tb)
<1>1. n \in Nat \ {0} /\ Shaped(tb, n) /\ Counted(tb) /\ Roomy(tb, n)
  BY Positive DEF Sound, Placed
<1>2. Size(tb) = n /\ IsFiniteSet(SymbolsOf(tb)) /\ Cardinality(SymbolsOf(tb)) \in Nat
  BY <1>1, ShapeFacts
<1>3. table_entries(tb) \in Nat \ {0}
  BY <1>1, <1>2, FS_EmptySet DEF Counted
<1> DEFINE e == table_entries(tb)
<1>4. e \in Nat \ {0} /\ n % 4 = 0 /\ 4 * e < 3 * n
  BY <1>1, <1>3 DEF Roomy
<1> HIDE DEF e
<1>5. ~(e >= n \div 2 + n \div 4)
  BY <1>1, <1>4, Threshold
<1> QED BY <1>2, <1>5 DEF TooFull, e

(***************************************************************************)
(* Adding many symbols to a new table: W[k] is the symbol of turn k, or    *)
(* NULL if that turn adds none                                             *)
(***************************************************************************)
AnyTable == UNION {TablesOf(n) : n \in Nat}

LEMMA AnyShaped == \A tb : tb \in AnyTable <=> \E n \in Nat : Shaped(tb, n)
BY DEF AnyTable, TablesOf, Shaped

LEMMA AddAny ==
  ASSUME NEW tb \in AnyTable, NEW h, NEW s \in Symbols
  PROVE  table_add_sym_fast(h, tb, s) \in AnyTable
<1> DEFINE one == Stored(h, tb, s)
           two == Refilled(h, one, 2 * Size(tb))
           four == Refilled(h, two, 4 * Size(tb))
<1>1. PICK n \in Nat : Shaped(tb, n)
  BY AnyShaped
<1>2. Size(tb) = n /\ 2 * n \in Nat /\ 4 * n \in Nat
  BY <1>1, SizeFacts
<1>3. Shaped(one, n)
  BY <1>1, StoredShaped
<1> HIDE DEF one
<1>4. Shaped(two, 2 * n)
  BY <1>2, <1>3, RefilledShaped
<1> HIDE DEF two
<1>5. Shaped(four, 4 * n)
  BY <1>2, <1>4, RefilledShaped
<1> HIDE DEF four
<1>6. table_add_sym_fast(h, tb, s) \in {one, two, four}
  BY DEF table_add_sym_fast, one, two, four
<1> QED BY <1>2, <1>3, <1>4, <1>5, <1>6, AnyShaped

Inputs(N, W) == \A k \in 0..N - 1 : W[k] \in Symbols \cup {NULL}
Adds(new, h, c, g, N, W) ==
  /\ new[0] = alloc_table(c, g)
  /\ \A k \in 0..N - 1 : new[k + 1] = IF W[k] = NULL THEN new[k]
                                      ELSE table_add_sym_fast(h, new[k], W[k])

LEMMA AddLoop ==
  ASSUME NEW h, NEW c \in BOOLEAN, NEW g \in Nat, NEW N \in Nat,
         NEW W, Inputs(N, W)
  PROVE  \E f : f = [k \in 0..N |-> f[k]] /\ Adds(f, h, c, g, N, W)
<1> DEFINE Turn == [p \in (0..N - 1) \X AnyTable |->
                      IF W[p[1]] = NULL THEN p[2] ELSE table_add_sym_fast(h, p[2], W[p[1]])]
           a == alloc_table(c, g)
<1>1. a \in AnyTable
  BY EmptyShaped, AnyShaped
<1>2. Turn \in Bodies(0..N - 1, AnyTable)
  <2>1. ASSUME NEW k \in 0..N - 1, NEW t \in AnyTable, W[k] # NULL
        PROVE  table_add_sym_fast(h, t, W[k]) \in AnyTable
    BY <2>1, AddAny DEF Inputs
  <2> QED BY <2>1 DEF Bodies
<1>3. PICK f \in [0..N -> AnyTable] : IsLoop(f, 0..N - 1, AnyTable, a, Turn)
  <2> HIDE DEF Turn, a
  <2> QED BY <1>1, <1>2, Loop
<1>4. ASSUME NEW k \in 0..N - 1
      PROVE  f[k + 1] = IF W[k] = NULL THEN f[k] ELSE table_add_sym_fast(h, f[k], W[k])
  <2>1. f[k] \in AnyTable /\ f[k + 1] = Turn[<<k, f[k]>>]
    <3> HIDE DEF Turn, a
    <3> QED BY <1>3 DEF IsLoop
  <2> QED BY <2>1
<1>5. f[0] = alloc_table(c, g)
  BY <1>3 DEF IsLoop
<1>6. f = [k \in 0..N |-> f[k]]
  BY <1>3
<1> QED BY <1>4, <1>5, <1>6 DEF Adds

AllOf(N, W) == {W[k] : k \in 0..N - 1} \ {NULL}

\* Each symbol is new to the table it is added to
AllNew(new, h, c, g, N, W) ==
  \A k \in 0..N - 1 : /\ W[k] # NULL /\ Sound(h, new[k], g) /\ is_ctable(new[k]) = c
                      /\ SymbolsOf(new[k]) = AllOf(k, W)
                      => Absent(new[k], W[k])

\* g buckets are enough for the symbols in S
Suffices(g, S) == /\ IsFiniteSet(S)
                  /\ \E M \in Nat : Cardinality(S) <= M /\ 4 * M < 3 * g /\ (M # 0 => g % 4 = 0)

Filled(t, h, c, g, S) == Sound(h, t, g) /\ is_ctable(t) = c /\ t.readonly = FALSE /\ SymbolsOf(t) = S

LEMMA AddsFacts ==
  ASSUME NEW h \in Hashes, NEW c \in BOOLEAN, NEW g \in Sizes, g <= MAX_VECTOR_SIZE,
         NEW N \in Nat, NEW W, Inputs(N, W),
         Suffices(g, AllOf(N, W)), NEW new, Adds(new, h, c, g, N, W),
         AllNew(new, h, c, g, N, W)
  PROVE  Filled(new[N], h, c, g, AllOf(N, W))
<1> DEFINE Good(t, k) == Filled(t, h, c, g, AllOf(k, W))
           T == {k \in 0..N : Good(new[k], k)}
<1>1. PICK M \in Nat : /\ IsFiniteSet(AllOf(N, W)) /\ Cardinality(AllOf(N, W)) <= M
                       /\ 4 * M < 3 * g /\ (M # 0 => g % 4 = 0)
  BY DEF Suffices
<1>2. 0 \in T
  <2>1. AllOf(0, W) = {}
    BY DEF AllOf
  <2> DEFINE a == alloc_table(c, g)
  <2>2. new[0] = a
    BY DEF Adds
  <2>3. Sound(h, a, g) /\ SymbolsOf(a) = {} /\ is_ctable(a) = c /\ a.readonly = FALSE
    BY EmptyFacts
  <2> HIDE DEF a
  <2>4. Good(new[0], 0)
    BY <2>1, <2>2, <2>3 DEF Filled
  <2> HIDE DEF Good
  <2> QED BY <2>4
<1> USE DEF Filled
<1>3. ASSUME NEW k \in 0..N - 1, k \in T PROVE k + 1 \in T
  <2>1. Good(new[k], k) /\ k \in 0..N /\ k + 1 \in 0..N
    BY <1>3
  <2>2. CASE W[k] = NULL
    <3>1. AllOf(k + 1, W) = AllOf(k, W)
      <4>1. \A i \in 0..(k + 1) - 1 : i = k \/ i \in 0..k - 1
        OBVIOUS
      <4>2. \A i \in 0..k - 1 : i \in 0..(k + 1) - 1
        OBVIOUS
      <4> QED BY <4>1, <4>2, <2>2 DEF AllOf
    <3>2. new[k + 1] = new[k]
      BY <2>2 DEF Adds
    <3> QED BY <2>1, <3>1, <3>2
  <2>3. CASE W[k] # NULL
    <3> DEFINE s == W[k]
               t == new[k]
    <3>1. s \in Symbols /\ new[k + 1] = table_add_sym_fast(h, t, s) /\ Absent(t, s)
      BY <2>1, <2>3 DEF Adds, Inputs, AllNew
    <3>2. AllOf(k + 1, W) = AllOf(k, W) \cup {s} /\ AllOf(k + 1, W) \subseteq AllOf(N, W)
      <4>1. \A i \in 0..(k + 1) - 1 : i = k \/ i \in 0..k - 1
        OBVIOUS
      <4>2. \A i \in 0..k - 1 : i \in 0..(k + 1) - 1
        OBVIOUS
      <4>3. \A i \in 0..(k + 1) - 1 : i \in 0..N - 1
        OBVIOUS
      <4>4. k \in 0..(k + 1) - 1
        OBVIOUS
      <4> QED BY <4>1, <4>2, <4>3, <4>4, <2>3 DEF AllOf
    <3> HIDE DEF s, t
    <3> DEFINE u == table_add_sym_fast(h, t, s)
    <3>3. /\ \E m \in Sizes : Sound(h, u, m) /\ (g % 4 = 0 /\ 4 * (table_entries(t) + 1) < 3 * g => m = g)
          /\ SameKind(u, t) /\ SymbolsOf(u) = SymbolsOf(t) \cup {s}
          /\ s \notin SymbolsOf(t) /\ table_entries(u) = table_entries(t) + 1
      BY <2>1, <3>1, AddFacts DEF t
    <3> HIDE DEF u
    <3>4. table_entries(t) + 1 <= M /\ table_entries(t) \in Nat
      <4>1. table_entries(t) = Cardinality(AllOf(k, W)) /\ s \notin AllOf(k, W)
        BY <2>1, <3>3 DEF Sound, Counted, t
      <4>2. IsFiniteSet(AllOf(k, W)) /\ IsFiniteSet(AllOf(k + 1, W))
            /\ Cardinality(AllOf(k + 1, W)) <= Cardinality(AllOf(N, W))
        BY <1>1, <3>2, FS_Subset
      <4>3. Cardinality(AllOf(k + 1, W)) = Cardinality(AllOf(k, W)) + 1
        BY <3>2, <4>1, <4>2, FS_AddElement
      <4>4. Cardinality(AllOf(k, W)) \in Nat /\ Cardinality(AllOf(N, W)) \in Nat
        BY <1>1, <4>2, FS_CardinalityType
      <4> QED BY <1>1, <4>1, <4>2, <4>3, <4>4
    <3>5. g % 4 = 0 /\ 4 * (table_entries(t) + 1) < 3 * g
      BY <1>1, <3>4, SizeKinds
    <3>6. Sound(h, u, g)
      BY <3>3, <3>5
    <3>7. Good(u, k + 1)
      BY <2>1, <3>2, <3>3, <3>6 DEF SameKind, t
    <3> QED BY <2>1, <3>1, <3>7 DEF u
  <2> QED BY <2>2, <2>3
<1>4. N \in T
  <2> HIDE DEF T
  <2> QED BY <1>2, <1>3, InductionUpto
<1> QED BY <1>4

LEMMA SearchFacts ==
  ASSUME NEW n \in Sizes, NEW tb, NEW h \in Hashes, Sound(h, tb, n), NEW name \in Names
  PROVE  LET p == table_find(h, tb, name)
             s == tb.buckets[p]
         IN  /\ p \in 0..n - 1
             /\ s = NULL => \A z \in SymbolsOf(tb) : ~Named(tb, z, name)
             /\ s # NULL => /\ s \in Symbols /\ s \in SymbolsOf(tb) /\ Named(tb, s, name)
                            /\ \A z \in SymbolsOf(tb) : Named(tb, z, name) => z = s
<1> DEFINE p == table_find(h, tb, name)
           s == tb.buckets[p]
<1>1. /\ n \in Nat \ {0} /\ Placed(h, tb, n) /\ Shaped(tb, n) /\ Unique(is_ctable(tb), tb.buckets, n)
      /\ Counted(tb) /\ Roomy(tb, n)
  BY Positive DEF Sound, Placed
<1>2. Cardinality(SymbolsOf(tb)) < n
  <2>1. Cardinality(SymbolsOf(tb)) \in Nat
    BY <1>1, ShapeFacts
  <2> QED BY <1>1, <2>1 DEF Counted, Roomy
<1>3. \E q \in 0..n - 1 : tb.buckets[q] = NULL
  BY <1>1, <1>2, HasNull
<1>4. p \in 0..n - 1 /\ (s = NULL \/ Named(tb, s, name))
  BY <1>1, <1>3, FindFacts
<1>5. \A z \in SymbolsOf(tb) : z # NULL /\ \E q \in 0..n - 1 : tb.buckets[q] = z
  BY <1>1, ShapeFacts
<1>6. ASSUME NEW z \in SymbolsOf(tb), Named(tb, z, name) PROVE z = s
  <2>1. PICK q \in 0..n - 1 : tb.buckets[q] = z /\ z # NULL
    BY <1>5
  <2>2. p = q
    BY <1>1, <1>6, <2>1, FindHit
  <2> QED BY <2>1, <2>2
<1>7. s # NULL => s \in SymbolsOf(tb) /\ s \in Symbols
  BY <1>1, <1>4, ShapeFacts
<1> HIDE DEF p
<1>8. s = NULL => \A z \in SymbolsOf(tb) : ~Named(tb, z, name)
  BY <1>5, <1>6
<1> QED BY <1>4, <1>6, <1>7, <1>8 DEF p

-----------------------------------------------------------------------------
(***************************************************************************)
(* The program                                                             *)
(***************************************************************************)
Fine(h, tb) == is_ctable(tb) \in Kinds /\ \E n \in Sizes : n <= MAX_VECTOR_SIZE /\ Sound(h, tb, n)
TablesFine == table = [t \in Tables |-> table[t]] /\ \A t \in Tables : Fine(hash, table[t])
RestFine == /\ data \in [Symbols -> Values] /\ readonly \in [Symbols -> BOOLEAN]
            /\ hash \in Hashes /\ pc \in {"run", "abort"}
IInv == TablesFine /\ RestFine

\* The table of SymMap that a table stands for
Entry(tb) == [ctable |-> is_ctable(tb), readonly |-> tb.readonly, entries |-> SymbolsOf(tb)]
Maps == [t \in Tables |-> Entry(table[t])]

\* One table changes to a sound one
LEMMA OneTable ==
  ASSUME IInv, NEW t \in Tables, NEW new, table' = [table EXCEPT ![t] = new], Fine(hash, new),
         UNCHANGED hash
  PROVE  TablesFine' /\ Maps' = [Maps EXCEPT ![t] = Entry(new)]
<1>1. table = [w \in Tables |-> table[w]] /\ \A w \in Tables : Fine(hash, table[w])
  BY DEF IInv, TablesFine
<1>2. table' = [w \in Tables |-> IF w = t THEN new ELSE table[w]]
  BY <1>1
<1>3. table' = [w \in Tables |-> table'[w]]
      /\ \A w \in Tables : table'[w] = IF w = t THEN new ELSE table[w]
  BY <1>2
<1>4. TablesFine'
  BY <1>1, <1>3 DEF TablesFine
<1>5. Maps' = [Maps EXCEPT ![t] = Entry(new)]
  BY <1>3 DEF Maps
<1> QED BY <1>4, <1>5

LEMMA LookupFacts ==
  ASSUME IInv, NEW t \in Tables, NEW name \in Names
  PROVE  LET tb == table[t]
             p == table_find(hash, tb, name)
             s == table_lookup(tb, name)
         IN  /\ s = tb.buckets[p]
             /\ s = NULL => \A z \in SymbolsOf(tb) : ~Named(tb, z, name)
             /\ s # NULL => /\ s \in Symbols /\ s \in SymbolsOf(tb) /\ Named(tb, s, name)
                            /\ \A z \in SymbolsOf(tb) : Named(tb, z, name) => z = s
<1> DEFINE tb == table[t]
<1>1. PICK n \in Sizes : Sound(hash, tb, n)
  BY DEF IInv, TablesFine, Fine
<1>2. hash \in Hashes
  BY DEF IInv, RestFine
<1> HIDE DEF tb
<1>3. table_lookup(tb, name) = tb.buckets[table_find(hash, tb, name)]
  BY DEF table_lookup
<1> QED BY <1>1, <1>2, <1>3, SearchFacts DEF tb

LEMMA PutInFacts ==
  ASSUME IInv, NEW t \in Tables, NEW s \in Symbols, table_lookup(table[t], NameOf[s]) = NULL,
         PutIn(t, s), UNCHANGED hash
  PROVE  /\ TablesFine' /\ pc' \in {"run", "abort"}
         /\ \/ UNCHANGED table /\ Maps' = Maps
            \/ Maps' = [Maps EXCEPT ![t].entries = @ \cup {s}]
<1> DEFINE tb == table[t]
           new == table_add_sym_fast(hash, tb, s)
<1>1. NameOf[s] \in Names
  BY Assumptions DEF TableAssumption
<1>2. Absent(tb, s)
  BY <1>1, LookupFacts DEF Absent
<1>3. PICK n \in Sizes : n <= MAX_VECTOR_SIZE /\ Sound(hash, tb, n)
  BY DEF IInv, TablesFine, Fine
<1>4. hash \in Hashes /\ is_ctable(tb) \in Kinds /\ pc \in {"run", "abort"}
  BY DEF IInv, RestFine, TablesFine, Fine
<1> HIDE DEF tb
<1>5. /\ \E m \in Sizes : Sound(hash, new, m)
      /\ SameKind(new, tb) /\ SymbolsOf(new) = SymbolsOf(tb) \cup {s}
  BY <1>2, <1>3, <1>4, AddFacts
<1>6. PutIn(t, s) <=> IF Fits(new) THEN table' = [table EXCEPT ![t] = new] /\ UNCHANGED pc
                      ELSE pc' = "abort" /\ UNCHANGED table
  BY DEF PutIn, tb
<1> HIDE DEF new
<1>7. CASE Fits(new)
  <2>1. table' = [table EXCEPT ![t] = new] /\ UNCHANGED pc
    BY <1>6, <1>7
  <2>2. PICK m \in Sizes : Sound(hash, new, m)
    BY <1>5
  <2>3. m <= MAX_VECTOR_SIZE
    <3>1. Size(new) = m
      BY <2>2, Positive, ShapeFacts DEF Sound, Placed
    <3> QED BY <3>1, <1>7 DEF Fits
  <2>4. Fine(hash, new)
    BY <1>4, <1>5, <2>2, <2>3 DEF Fine, SameKind
  <2>5. TablesFine' /\ Maps' = [Maps EXCEPT ![t] = Entry(new)]
    BY <2>1, <2>4, OneTable
  <2>6. Entry(new) = [Maps[t] EXCEPT !.entries = @ \cup {s}]
    BY <1>5, SMTT(30) DEF Entry, Maps, SameKind, tb
  <2>7. [Maps EXCEPT ![t] = Entry(new)] = [Maps EXCEPT ![t].entries = @ \cup {s}]
    BY <2>6
  <2> QED BY <1>4, <2>1, <2>5, <2>7
<1>8. CASE ~Fits(new)
  BY <1>6, <1>8 DEF IInv, TablesFine, Maps
<1> QED BY <1>7, <1>8

(***************************************************************************)
(* What the steps of SymMap are, in terms of Maps                          *)
(***************************************************************************)
LEMMA MapTable ==
  ASSUME NEW t \in Tables
  PROVE  /\ Maps[t] = Entry(table[t]) /\ Maps[t].entries = SymbolsOf(table[t])
         /\ Maps[t].ctable = is_ctable(table[t]) /\ Maps[t].readonly = table[t].readonly
BY DEF Maps, Entry

LEMMA MapFound ==
  ASSUME NEW t \in Tables, NEW n
  PROVE  Map!Found(t, n) = {s \in SymbolsOf(table[t]) : Named(table[t], s, n)}
BY DEF Map!Found, Map!Key, Named, Key

LEMMA MapUsed == Map!Used = UNION {SymbolsOf(table[t]) : t \in Tables}
BY DEF Map!Used

LEMMA MapInsert ==
  \A t \in Tables, s \in Symbols : Maps' = [Maps EXCEPT ![t].entries = @ \cup {s}] => Map!Insert(t, s)
BY DEF Map!Insert, Maps, Entry

LEMMA MapFresh == \A s, v : Fresh(s, v) <=> Map!Fresh(s, v)
BY DEF Map!Fresh, Fresh

LEMMA MapNext ==
  /\ \A t \in Tables : Map!Protect(t) => Map!Next
  /\ \A t \in Tables, n \in Names : Map!Remove(t, n) => Map!Next
  /\ \A t \in Tables, n \in Names, v \in Values : Map!Create(t, n, v) => Map!Next
  /\ \A s \in Symbols : Map!ProtectSymbol(s) => Map!Next
  /\ \A t \in Tables, s \in Symbols : Map!Add(t, s) => Map!Next
  /\ \A s \in Symbols, v \in Values : (Map!Assign(s, v) => Map!Next) /\ (Map!MakeSymbol(s, v) => Map!Next)
  /\ \A t, u \in Tables : t # u /\ Map!Copy(t, u) => Map!Next
BY DEF Map!Next

LEMMA DistinctFacts ==
  ASSUME NEW n \in Sizes, NEW tb, NEW h, Sound(h, tb, n)
  PROVE  Map!Distinct(is_ctable(tb), SymbolsOf(tb)) /\ SymbolsOf(tb) \subseteq Symbols
<1>1. n \in Nat \ {0} /\ Shaped(tb, n) /\ Unique(is_ctable(tb), tb.buckets, n)
  BY Positive DEF Sound, Placed
<1>2. \A s \in SymbolsOf(tb) : s # NULL /\ \E q \in 0..n - 1 : tb.buckets[q] = s
  BY <1>1, ShapeFacts
<1>3. ASSUME NEW s \in SymbolsOf(tb), NEW z \in SymbolsOf(tb), KeyOf(is_ctable(tb), s) = KeyOf(is_ctable(tb), z)
      PROVE  s = z
  BY <1>1, <1>2, <1>3 DEF Unique
<1>4. Map!Distinct(is_ctable(tb), SymbolsOf(tb))
  BY <1>3 DEF Map!Distinct, Map!Key, KeyOf, Key
<1> QED BY <1>1, <1>4, ShapeFacts

LEMMA ReadonlyFacts ==
  ASSUME NEW n, NEW tb, NEW h, Sound(h, tb, n), NEW ro \in BOOLEAN
  PROVE  LET new == [tb EXCEPT !.readonly = ro]
         IN  /\ Sound(h, new, n) /\ is_ctable(new) = is_ctable(tb) /\ SymbolsOf(new) = SymbolsOf(tb)
             /\ new.readonly = ro
<1> DEFINE new == [tb EXCEPT !.readonly = ro]
<1>1. Shaped(tb, n)
  BY DEF Sound, Placed
<1>2. new.buckets = tb.buckets /\ new.used = tb.used /\ new.readonly = ro /\ Shaped(new, n)
  BY <1>1 DEF Shaped
<1> HIDE DEF new
<1>3. is_ctable(new) = is_ctable(tb) /\ SymbolsOf(new) = SymbolsOf(tb)
      /\ table_entries(new) = table_entries(tb)
  BY <1>2 DEF is_ctable, SymbolsOf, table_entries
<1>4. Sound(h, new, n)
  BY <1>2, <1>3 DEF Sound, Placed, Counted, Roomy
<1> QED BY <1>2, <1>3, <1>4 DEF new

\* A table is replaced by another sound one
LEMMA Replaced ==
  ASSUME IInv, NEW t \in Tables, NEW new, table' = [table EXCEPT ![t] = new],
         NEW n \in Sizes, n <= MAX_VECTOR_SIZE, Sound(hash, new, n), is_ctable(new) \in Kinds,
         UNCHANGED <<data, readonly, hash>>, pc' \in {"run", "abort"}
  PROVE  IInv' /\ Map!Next
<1>1. Fine(hash, new)
  BY DEF Fine
<1>2. TablesFine' /\ Maps' = [Maps EXCEPT ![t] = Entry(new)]
  BY <1>1, OneTable
<1>3. IInv'
  BY <1>2 DEF IInv, RestFine
<1>4. Map!Distinct(is_ctable(new), SymbolsOf(new)) /\ SymbolsOf(new) \subseteq Symbols
  BY DistinctFacts
<1>5. is_ctable(new) \in BOOLEAN /\ new.readonly \in BOOLEAN
  BY KeyFacts DEF Sound, Placed, Shaped
<1>6. Map!Make(t, Entry(new))
  BY <1>2, <1>4 DEF Map!Make, Maps, Entry
<1>7. Map!Next
  BY <1>4, <1>5, <1>6 DEF Map!Next, Entry
<1> QED BY <1>3, <1>7

-----------------------------------------------------------------------------
(***************************************************************************)
(* Each operation keeps the invariant and is a step of the map             *)
(***************************************************************************)
LEMMA UnusedFacts ==
  ASSUME NEW n, NEW s \in Unused(n)
  PROVE  s \in Symbols /\ NameOf[s] = n /\ s \notin Map!Used /\ s \in Map!Unused(n)
BY DEF Unused, Map!Used, Map!Unused

\* A new symbol is put in, or left outside when the program aborts
LEMMA CreateStep ==
  ASSUME IInv, NEW t \in Tables, NEW n \in Names, NEW v \in Values, NEW s \in Unused(n),
         table_lookup(table[t], n) = NULL, ~table[t].readonly,
         Fresh(s, v), PutIn(t, s), UNCHANGED hash
  PROVE  IInv' /\ Map!Next
<1>1. s \in Symbols /\ NameOf[s] = n /\ s \notin Map!Used /\ s \in Map!Unused(n)
  BY UnusedFacts
<1>2. /\ TablesFine' /\ pc' \in {"run", "abort"}
      /\ \/ UNCHANGED table /\ Maps' = Maps
         \/ Maps' = [Maps EXCEPT ![t].entries = @ \cup {s}]
  BY <1>1, PutInFacts
<1>3. IInv'
  BY <1>1, <1>2 DEF IInv, RestFine, Fresh
<1>4. Map!Found(t, n) = {}
  BY MapFound, LookupFacts
<1>5. Map!Fresh(s, v)
  BY MapFresh
<1>6. CASE UNCHANGED table
  <2>1. Map!MakeSymbol(s, v)
    BY <1>1, <1>5, <1>6 DEF Map!MakeSymbol
  <2> QED BY <1>1, <1>3, <2>1, MapNext
<1>7. CASE Maps' = [Maps EXCEPT ![t].entries = @ \cup {s}]
  <2>1. Map!Insert(t, s)
    BY <1>1, <1>7, MapInsert
  <2>2. Map!Create(t, n, v)
    BY <1>1, <1>4, <1>5, <2>1, MapTable DEF Map!Create
  <2> QED BY <1>3, <2>2, MapNext
<1> QED BY <1>2, <1>6, <1>7

LEMMA OverwriteStep ==
  ASSUME IInv, NEW s \in Symbols, NEW v \in Values, Overwrite(s, v), UNCHANGED hash
  PROVE  IInv' /\ Map!Next
<1>1. IInv'
  BY DEF IInv, TablesFine, RestFine, Overwrite
<1>2. Map!Assign(s, v)
  BY DEF Map!Assign, Overwrite
<1> QED BY <1>1, <1>2, MapNext

LEMMA SetStep ==
  ASSUME IInv, NEW t \in Tables, NEW n \in Names, NEW v \in Values, table_set(t, n, v)
  PROVE  IInv' /\ Map!Next
<1> DEFINE s == table_lookup(table[t], n)
<1>1. CASE s # NULL /\ Overwrite(s, v)
  <2>1. s \in Symbols
    BY <1>1, LookupFacts
  <2> HIDE DEF s
  <2> QED BY <1>1, <2>1, OverwriteStep DEF table_set, Running
<1>2. CASE s = NULL /\ \E z \in Unused(n) : Fresh(z, v) /\ PutIn(t, z)
  BY <1>2, CreateStep DEF table_set, Running
<1> QED BY <1>1, <1>2 DEF table_set

LEMMA SymbolRefStep ==
  ASSUME IInv, NEW t \in Tables, NEW n \in Names, NEW v \in Values, table_symbol_ref(t, n, v)
  PROVE  IInv' /\ Map!Next
BY CreateStep DEF table_symbol_ref, Running

LEMMA AddSymbolStep ==
  ASSUME IInv, NEW t \in Tables, NEW s \in Symbols, table_add_symbol(t, s)
  PROVE  IInv' /\ (Map!Next \/ UNCHANGED Map!mapvars)
<1>1. NameOf[s] \in Names
  BY Assumptions DEF TableAssumption
<1>2. /\ table_lookup(table[t], NameOf[s]) = NULL /\ ~table[t].readonly
      /\ PutIn(t, s) /\ UNCHANGED <<data, readonly, hash>>
  BY DEF table_add_symbol, Running
<1>3. /\ TablesFine' /\ pc' \in {"run", "abort"}
      /\ \/ UNCHANGED table /\ Maps' = Maps
         \/ Maps' = [Maps EXCEPT ![t].entries = @ \cup {s}]
  BY <1>2, PutInFacts
<1>4. IInv'
  BY <1>2, <1>3 DEF IInv, RestFine
<1>5. CASE Maps' = Maps
  BY <1>2, <1>4, <1>5 DEF Map!mapvars, Maps, Entry
<1>6. CASE Maps' = [Maps EXCEPT ![t].entries = @ \cup {s}]
  <2>1. Map!Found(t, NameOf[s]) = {}
    <3> DEFINE n == NameOf[s]
    <3>1. n \in Names /\ table_lookup(table[t], n) = NULL
      BY <1>1, <1>2
    <3> HIDE DEF n
    <3>2. Map!Found(t, n) = {}
      BY <3>1, MapFound, LookupFacts
    <3> QED BY <3>2 DEF n
  <2>2. Map!Add(t, s)
    BY <1>2, <1>6, <2>1, MapInsert, MapTable DEF Map!Add
  <2> QED BY <1>4, <2>2, MapNext
<1> QED BY <1>3, <1>5, <1>6

LEMMA RemoveStep ==
  ASSUME IInv, NEW t \in Tables, NEW n \in Names, table_remove(t, n)
  PROVE  IInv' /\ Map!Next
<1> DEFINE tb == table[t]
           pos == table_find(hash, tb, n)
           s == tb.buckets[pos]
           new == table_remove_at(hash, tb, pos)
<1>1. /\ ~tb.readonly /\ s # NULL /\ UNCHANGED <<data, readonly, hash, pc>>
      /\ table' = [table EXCEPT ![t] = new]
  BY DEF table_remove, Running
<1>2. PICK m \in Sizes : m <= MAX_VECTOR_SIZE /\ Sound(hash, tb, m)
  BY DEF IInv, TablesFine, Fine
<1>3. hash \in Hashes /\ is_ctable(tb) \in Kinds /\ pc \in {"run", "abort"}
  BY DEF IInv, RestFine, TablesFine, Fine
<1>4. /\ pos \in 0..m - 1 /\ s \in SymbolsOf(tb) /\ Named(tb, s, n)
      /\ \A z \in SymbolsOf(tb) : Named(tb, z, n) => z = s
  <2> HIDE DEF tb
  <2> QED BY <1>1, <1>2, <1>3, SearchFacts
<1> HIDE DEF pos
<1>5. Sound(hash, new, m) /\ SameKind(new, tb) /\ SymbolsOf(new) = SymbolsOf(tb) \ {s}
  <2> HIDE DEF tb
  <2> QED BY <1>1, <1>2, <1>3, <1>4, RemoveFacts
<1>6. Map!Found(t, n) = {s}
  BY <1>4, MapFound
<1> HIDE DEF new, s
<1>7. Fine(hash, new)
  BY <1>2, <1>3, <1>5 DEF Fine, SameKind
<1>8. TablesFine' /\ Maps' = [Maps EXCEPT ![t] = Entry(new)]
  BY <1>1, <1>7, OneTable
<1>9. Entry(new) = [Maps[t] EXCEPT !.entries = @ \ Map!Found(t, n)]
  BY <1>5, <1>6 DEF Entry, Maps, SameKind
<1>10. Map!Remove(t, n)
  <2>1. Maps' = [Maps EXCEPT ![t].entries = @ \ Map!Found(t, n)]
    BY <1>8, <1>9
  <2> QED BY <2>1, <1>1 DEF Map!Remove, Maps, Entry
<1>11. IInv'
  BY <1>1, <1>8 DEF IInv, RestFine
<1> QED BY <1>10, <1>11, MapNext

LEMMA ProtectTableStep ==
  ASSUME IInv, NEW t \in Tables, protect_table(t)
  PROVE  IInv' /\ Map!Next
<1> DEFINE new == [table[t] EXCEPT !.readonly = TRUE]
<1>1. table' = [table EXCEPT ![t] = new] /\ UNCHANGED <<data, readonly, hash, pc>>
  BY DEF protect_table, Running, IInv, TablesFine
<1>2. PICK m \in Sizes : m <= MAX_VECTOR_SIZE /\ Sound(hash, table[t], m)
  BY DEF IInv, TablesFine, Fine
<1>3. is_ctable(table[t]) \in Kinds /\ pc \in {"run", "abort"}
  BY DEF IInv, RestFine, TablesFine, Fine
<1>4. Sound(hash, new, m) /\ is_ctable(new) = is_ctable(table[t])
  BY <1>2, ReadonlyFacts
<1> HIDE DEF new
<1> QED BY <1>1, <1>2, <1>3, <1>4, Replaced

LEMMA MakeTableStep ==
  ASSUME IInv, NEW t \in Tables, NEW c \in Kinds, make_table(t, c)
  PROVE  IInv' /\ Map!Next
<1> DEFINE new == alloc_table(c, DEF_TABLE_SIZE)
<1>1. table' = [table EXCEPT ![t] = new] /\ UNCHANGED <<data, readonly, hash, pc>>
  BY DEF make_table, Running
<1>2. DEF_TABLE_SIZE \in Sizes /\ DEF_TABLE_SIZE <= MAX_VECTOR_SIZE /\ c \in BOOLEAN
  BY Assumptions DEF TableAssumption
<1>3. Sound(hash, new, DEF_TABLE_SIZE) /\ is_ctable(new) = c
  BY <1>2, EmptyFacts
<1> HIDE DEF new
<1>4. pc \in {"run", "abort"}
  BY DEF IInv, RestFine
<1> QED BY <1>1, <1>2, <1>3, <1>4, Replaced

LEMMA ShallowCopyStep ==
  ASSUME IInv, NEW t \in Tables, NEW u \in Tables, table_shallow_copy(t, u)
  PROVE  IInv' /\ Map!Next
<1> DEFINE new == [table[t] EXCEPT !.readonly = FALSE]
<1>1. table' = [table EXCEPT ![u] = new] /\ UNCHANGED <<data, readonly, hash, pc>>
  BY DEF table_shallow_copy, Running
<1>2. PICK m \in Sizes : m <= MAX_VECTOR_SIZE /\ Sound(hash, table[t], m)
  BY DEF IInv, TablesFine, Fine
<1>3. is_ctable(table[t]) \in Kinds /\ pc \in {"run", "abort"}
  BY DEF IInv, RestFine, TablesFine, Fine
<1>4. Sound(hash, new, m) /\ is_ctable(new) = is_ctable(table[t])
  BY <1>2, ReadonlyFacts
<1> HIDE DEF new
<1> QED BY <1>1, <1>2, <1>3, <1>4, Replaced

LEMMA SymbolSteps ==
  ASSUME IInv, NEW s \in Symbols, NEW v \in Values
  PROVE  /\ protect(s) => IInv' /\ Map!Next
         /\ symbol_set(s, v) => IInv' /\ Map!Next
         /\ make_symbol(s, v) => IInv' /\ Map!Next
<1>1. ASSUME protect(s) PROVE IInv' /\ Map!Next
  <2>1. IInv'
    BY <1>1 DEF IInv, TablesFine, RestFine, protect, Running
  <2>2. Map!ProtectSymbol(s)
    BY <1>1 DEF Map!ProtectSymbol, protect
  <2> QED BY <2>1, <2>2, MapNext
<1>2. ASSUME symbol_set(s, v) PROVE IInv' /\ Map!Next
  BY <1>2, OverwriteStep DEF symbol_set, Running
<1>3. ASSUME make_symbol(s, v) PROVE IInv' /\ Map!Next
  <2>1. IInv'
    BY <1>3 DEF IInv, TablesFine, RestFine, make_symbol, Running, Fresh
  <2>2. s \notin Map!Used
    BY <1>3, UnusedFacts DEF make_symbol
  <2>3. Map!Fresh(s, v)
    BY <1>3, MapFresh DEF make_symbol
  <2>4. Map!MakeSymbol(s, v)
    BY <1>3, <2>2, <2>3 DEF Map!MakeSymbol, make_symbol
  <2> QED BY <2>1, <2>4, MapNext
<1> QED BY <1>1, <1>2, <1>3

LEMMA LoadStep ==
  ASSUME IInv, NEW h \in Hashes, gc_load(h)
  PROVE  IInv' /\ UNCHANGED Map!mapvars /\ UNCHANGED pc
<1> DEFINE Abandoned == \E t \in Tables : /\ SymbolsOf(table[t]) # {}
                                          /\ \/ TooFull(table[t])
                                             \/ rehash_table(h, table[t]).used # table[t].used
<1>1. \A t \in Tables : is_ctable(table[t]) \in Kinds
                        /\ \E n \in Sizes : n <= MAX_VECTOR_SIZE /\ Sound(hash, table[t], n)
  BY DEF IInv, TablesFine, Fine
<1>2. ASSUME NEW t \in Tables
      PROVE  LET new == rehash_table(h, table[t])
             IN  Fine(h, new) /\ Entry(new) = Entry(table[t]) /\ new.used = table[t].used
  <2> DEFINE tb == table[t]
             new == rehash_table(h, tb)
  <2>1. PICK n \in Sizes : n <= MAX_VECTOR_SIZE /\ Sound(hash, tb, n)
    BY <1>1
  <2>2. is_ctable(tb) \in Kinds
    BY <1>1
  <2> HIDE DEF tb
  <2>3. Sound(h, new, n) /\ SameKind(new, tb) /\ SymbolsOf(new) = SymbolsOf(tb) /\ new.used = tb.used
    BY <2>1, RehashFacts
  <2> HIDE DEF new
  <2> QED BY <2>1, <2>2, <2>3 DEF Fine, Entry, SameKind, new, tb
<1>3. \A t \in Tables : SymbolsOf(table[t]) # {} => ~TooFull(table[t])
  BY <1>1, NotTooFull
<1>4. ~Abandoned
  BY <1>2, <1>3
<1>5. /\ hash' = h /\ table' = [t \in Tables |-> rehash_table(h, table[t])]
      /\ UNCHANGED <<data, readonly, pc>>
  BY <1>4 DEF gc_load
<1>6. table' = [t \in Tables |-> table'[t]] /\ \A t \in Tables : Fine(h, table'[t])
  BY <1>2, <1>5
<1>7. IInv'
  BY <1>5, <1>6 DEF IInv, TablesFine, RestFine
<1>8. \A t \in Tables : Entry(table'[t]) = Entry(table[t])
  BY <1>2, <1>5
<1>9. Maps' = Maps
  BY <1>8 DEF Maps
<1> QED BY <1>5, <1>7, <1>9 DEF Map!mapvars, Maps, Entry

LEMMA VectorStep ==
  ASSUME IInv, NEW t \in Tables, NEW v \in BoundedSeq(Symbols, MaxVec), NEW c \in Kinds,
         NEW ro \in BOOLEAN, vector_to_table(t, v, c, ro)
  PROVE  IInv' /\ Map!Next
<1> DEFINE N == Len(v)
           g == table_good_size(N)
           W == [k \in 0..N - 1 |-> v[k + 1]]
           Body(f) == [n \in 0..N |-> IF n = 0 THEN alloc_table(c, g)
                                      ELSE table_add_sym_fast(hash, f[n - 1], v[n])]
           new == CHOOSE f : f = Body(f)
           full == [new[N] EXCEPT !.readonly = ro]
<1>1. N \in 0..MaxVec /\ N \in Nat /\ \A k \in 1..N : v[k] \in Symbols
  <2>1. PICK m \in 0..MaxVec : v \in [1..m -> Symbols]
    BY DEF BoundedSeq, SeqOf
  <2>2. MaxVec \in Nat
    BY Assumptions DEF TableAssumption
  <2>3. Len(v) = m
    BY <2>1, <2>2
  <2> QED BY <2>1, <2>2, <2>3
<1>2. /\ g <= MAX_VECTOR_SIZE /\ UNCHANGED <<data, readonly, hash, pc>>
      /\ \A n \in 1..N : table_lookup(new[n - 1], NameOf[v[n]]) = NULL
      /\ table' = [table EXCEPT ![t] = full]
  BY DEF vector_to_table, Running
<1>3. /\ g \in Sizes /\ 4 * N < 3 * g /\ (N # 0 => g % 4 = 0)
      /\ c \in BOOLEAN /\ NULL \notin Symbols /\ \A s \in Symbols : NameOf[s] \in Names
  BY <1>1, GoodSizeFacts, Assumptions DEF Amounts, TableAssumption
<1>4. hash \in Hashes /\ pc \in {"run", "abort"}
  BY DEF IInv, RestFine
<1> HIDE DEF N, g
<1>5. \A k \in 0..N - 1 : W[k] = v[k + 1] /\ W[k] \in Symbols
  <2> TAKE k \in 0..N - 1
  <2>1. k + 1 \in 1..N
    BY <1>1
  <2> QED BY <1>1, <2>1
<1> HIDE DEF W
<1>6. PICK f : f = [k \in 0..N |-> f[k]] /\ Adds(f, hash, c, g, N, W)
  <2>1. g \in Nat /\ Inputs(N, W)
    BY <1>3, <1>5, SizeKinds DEF Inputs
  <2> QED BY <1>1, <1>3, <2>1, AddLoop
<1>7. f = Body(f)
  <2>1. \A n \in 0..N : f[n] = IF n = 0 THEN alloc_table(c, g)
                               ELSE table_add_sym_fast(hash, f[n - 1], v[n])
    <3> TAKE n \in 0..N
    <3>1. n = 0 \/ (n - 1 \in 0..N - 1 /\ (n - 1) + 1 = n)
      BY <1>1
    <3>2. \A k \in 0..N - 1 : f[k + 1] = table_add_sym_fast(hash, f[k], v[k + 1])
      BY <1>3, <1>5, <1>6 DEF Adds
    <3> QED BY <3>1, <3>2, <1>6 DEF Adds
  <2> QED BY <2>1, <1>6
<1>8. new = Body(new)
  <2> HIDE DEF Body
  <2> QED BY <1>7
<1> HIDE DEF new
<1>9. Adds(new, hash, c, g, N, W)
  <2>1. new[0] = Body(new)[0] /\ \A k \in 0..N - 1 : new[k + 1] = Body(new)[k + 1]
    <3> HIDE DEF Body
    <3> QED BY <1>8
  <2>2. Body(new)[0] = alloc_table(c, g)
    BY <1>1
  <2>3. ASSUME NEW k \in 0..N - 1
        PROVE  Body(new)[k + 1] = table_add_sym_fast(hash, new[k], W[k])
    <3>1. k + 1 \in 0..N /\ k + 1 # 0 /\ (k + 1) - 1 = k
      BY <1>1
    <3> QED BY <3>1, <1>5
  <2> HIDE DEF Body
  <2> QED BY <2>1, <2>2, <2>3, <1>3, <1>5 DEF Adds
<1> HIDE DEF Body, full
<1>10. IsFiniteSet(AllOf(N, W)) /\ Cardinality(AllOf(N, W)) <= N
  <2>1. IsFiniteSet(0..N - 1) /\ Cardinality(0..N - 1) = N
    BY <1>1, Below
  <2> DEFINE image == [k \in 0..N - 1 |-> W[k]]
             All == {W[k] : k \in 0..N - 1}
  <2>2. image \in Surjection(0..N - 1, All)
    BY DEF Surjection
  <2>3. AllOf(N, W) = All
    BY <1>3, <1>5 DEF AllOf
  <2> HIDE DEF image, All
  <2> QED BY <2>1, <2>2, <2>3, FS_Surjection
<1>11. ASSUME NEW k \in 0..N - 1, Sound(hash, new[k], g) PROVE Absent(new[k], W[k])
  <2> DEFINE tb == new[k]
             s == W[k]
  <2>1. k + 1 \in 1..N /\ (k + 1) - 1 = k
    BY <1>1
  <2>2. table_lookup(tb, NameOf[s]) = NULL /\ NameOf[s] \in Names
    BY <1>2, <1>3, <1>5, <2>1
  <2>3. Sound(hash, tb, g)
    BY <1>11
  <2> HIDE DEF tb, s
  <2>4. \A z \in SymbolsOf(tb) : ~Named(tb, z, NameOf[s])
    BY <1>3, <1>4, <2>2, <2>3, SearchFacts DEF table_lookup
  <2> QED BY <2>4 DEF Absent, tb, s
<1>12. Sound(hash, new[N], g) /\ is_ctable(new[N]) = c
  <2>1. Inputs(N, W)
    BY <1>5 DEF Inputs
  <2>2. AllNew(new, hash, c, g, N, W)
    BY <1>11 DEF AllNew
  <2>3. N \in Nat /\ hash \in Hashes /\ c \in BOOLEAN /\ g \in Sizes /\ g <= MAX_VECTOR_SIZE
    BY <1>1, <1>2, <1>3, <1>4
  <2>4. Suffices(g, AllOf(N, W))
    BY <1>1, <1>3, <1>10 DEF Suffices
  <2>5. Filled(new[N], hash, c, g, AllOf(N, W))
    BY <1>9, <2>1, <2>2, <2>3, <2>4, AddsFacts
  <2> QED BY <2>5 DEF Filled
<1>13. Sound(hash, full, g) /\ is_ctable(full) = c
  BY <1>12, ReadonlyFacts DEF full
<1> QED BY <1>2, <1>3, <1>4, <1>13, Replaced

Originals(t) == {s \in Maps[t].entries : data[s] # NULL}
Available(u) == Symbols \ UNION {Maps[w].entries : w \in Tables \ {u}}
CopiesOf(f, old, s) == {z \in old : f[z] = s}
\* The copies f get the values of the symbols in old
CopyValues(f, old) ==
  /\ data' = [s \in Symbols |-> IF CopiesOf(f, old, s) = {} THEN data[s]
                                ELSE data[CHOOSE z \in CopiesOf(f, old, s) : TRUE]]
  /\ readonly' = [s \in Symbols |-> CopiesOf(f, old, s) = {} /\ readonly[s]]
CopyEntry(t, f, old) == [ctable |-> Maps[t].ctable, readonly |-> FALSE, entries |-> {f[s] : s \in old}]

LEMMA MapCopy ==
  ASSUME NEW t \in Tables, NEW u \in Tables, NEW f \in [Originals(t) -> Available(u)],
         \A s \in Originals(t) : NameOf[f[s]] = NameOf[s],
         Maps' = [Maps EXCEPT ![u] = CopyEntry(t, f, Originals(t))], CopyValues(f, Originals(t))
  PROVE  Map!Copy(t, u)
<1> DEFINE old == DOMAIN f
<1>1. old = Originals(t)
  OBVIOUS
<1> HIDE DEF old
<1>2. Maps' = [Maps EXCEPT ![u] = [ctable |-> Maps[t].ctable, readonly |-> FALSE, entries |-> {f[s] : s \in old}]]
  BY <1>1 DEF CopyEntry
<1>3. f \in [{s \in Maps[t].entries : data[s] # NULL} -> Symbols \ UNION {Maps[w].entries : w \in Tables \ {u}}]
  BY DEF Originals, Available
<1>4. data' = [s \in Symbols |-> IF {z \in old : f[z] = s} = {} THEN data[s]
                                 ELSE data[CHOOSE z \in {z \in old : f[z] = s} : TRUE]]
  BY <1>1 DEF CopyValues, CopiesOf
<1>5. readonly' = [s \in Symbols |-> {z \in old : f[z] = s} = {} /\ readonly[s]]
  BY <1>1 DEF CopyValues, CopiesOf
<1>6. \A s \in old : NameOf[f[s]] = NameOf[s]
  BY <1>1
<1> QED BY <1>2, <1>3, <1>4, <1>5, <1>6 DEF Map!Copy, Maps, Entry, old

LEMMA CopyStep ==
  ASSUME IInv, NEW t \in Tables, NEW u \in Tables, t # u, table_copy(t, u)
  PROVE  IInv' /\ (Map!Next \/ UNCHANGED Map!mapvars)
<1> DEFINE tb == table[t]
           old == Valued(tb)
           Free == {s \in Symbols : \A w \in Tables \ {u} : s \notin SymbolsOf(table[w])}
           M == Cardinality(old)
           g == table_good_size(M)
           c == is_ctable(tb)
           N == Size(tb)
           B == tb.buckets
<1>1. PICK n \in Sizes : n <= MAX_VECTOR_SIZE /\ Sound(hash, tb, n)
  BY DEF IInv, TablesFine, Fine
<1>2. /\ n \in Nat \ {0} /\ Shaped(tb, n) /\ Unique(c, B, n) /\ c \in Kinds /\ c \in BOOLEAN
      /\ hash \in Hashes /\ pc \in {"run", "abort"}
      /\ data \in [Symbols -> Values] /\ readonly \in [Symbols -> BOOLEAN]
  BY <1>1, Positive, KeyFacts DEF Sound, Placed, IInv, TablesFine, RestFine, Fine
<1>3. /\ N = n /\ SymbolsOf(tb) \subseteq Symbols /\ IsFiniteSet(SymbolsOf(tb))
      /\ \A s : s \in SymbolsOf(tb) <=> s # NULL /\ \E q \in 0..n - 1 : B[q] = s
  BY <1>2, ShapeFacts
<1>4. old = {s \in SymbolsOf(tb) : data[s] # NULL} /\ old \subseteq Symbols /\ NULL \notin Symbols
  BY <1>3, Assumptions DEF Valued, TableAssumption
<1>5. IsFiniteSet(old) /\ M \in Nat
  <2>1. IsFiniteSet(old)
    BY <1>3, <1>4, FS_Subset
  <2> QED BY <2>1, FS_CardinalityType
<1>6. CASE M > MAX_TABLE_ENTRIES
  <2>1. pc' = "abort" /\ UNCHANGED <<table, data, readonly, hash>>
    BY <1>6 DEF table_copy, Abort, Running
  <2> QED BY <2>1 DEF IInv, TablesFine, RestFine, Map!mapvars
<1>7. CASE ~(M > MAX_TABLE_ENTRIES)
  <2> DEFINE Copied(f, s) == {z \in old : f[z] = s}
             Body(f, new) ==
               [k \in 0..N |-> IF k = 0 THEN alloc_table(c, g)
                               ELSE IF B[k - 1] \notin old THEN new[k - 1]
                               ELSE table_add_sym_fast(hash, new[k - 1], f[B[k - 1]])]
  <2>1. PICK f \in [old -> Free] :
          /\ \A s \in old : NameOf[f[s]] = NameOf[s]
          /\ table' = [table EXCEPT ![u] = (CHOOSE new : new = Body(f, new))[N]]
          /\ data' = [s \in Symbols |-> IF Copied(f, s) = {} THEN data[s]
                                        ELSE data[CHOOSE z \in Copied(f, s) : TRUE]]
          /\ readonly' = [s \in Symbols |-> Copied(f, s) = {} /\ readonly[s]]
          /\ UNCHANGED <<pc, hash>>
    BY <1>7 DEF table_copy, Running
  <2> DEFINE W == [k \in 0..N - 1 |-> IF B[k] \in old THEN f[B[k]] ELSE NULL]
             new == CHOOSE nw : nw = Body(f, nw)
             full == new[N]
  <2>2. /\ g \in Sizes /\ g <= MAX_VECTOR_SIZE /\ 4 * M < 3 * g /\ (M # 0 => g % 4 = 0) /\ g \in Nat
    <3>1. MAX_TABLE_ENTRIES \in Nat
      BY Assumptions DEF TableAssumption
    <3>2. M \in 0..MAX_TABLE_ENTRIES /\ M \in Amounts
      BY <3>1, <1>5, <1>7 DEF Amounts
    <3> HIDE DEF M
    <3> QED BY <3>2, GoodSizeFacts, SizeKinds
  <2> HIDE DEF g, M, tb
  <2>3. \A s \in old : f[s] \in Free /\ f[s] \in Symbols /\ f[s] # NULL
    BY <1>4
  <2> HIDE DEF Free, old
  <2>4. \A k \in 0..N - 1 : W[k] = IF B[k] \in old THEN f[B[k]] ELSE NULL
    OBVIOUS
  <2> HIDE DEF W
  <2>5. Inputs(N, W)
    BY <2>3, <2>4 DEF Inputs
  <2>6. N \in Nat
    BY <1>2, <1>3
  <2> HIDE DEF N
  <2>7. PICK loop : loop = [k \in 0..N |-> loop[k]] /\ Adds(loop, hash, c, g, N, W)
    BY <1>2, <2>2, <2>5, <2>6, AddLoop
  <2>8. loop = Body(f, loop)
    <3>1. \A k \in 0..N - 1 : loop[k + 1] = IF B[k] \notin old THEN loop[k]
                                            ELSE table_add_sym_fast(hash, loop[k], f[B[k]])
      <4> TAKE k \in 0..N - 1
      <4>1. W[k] = NULL <=> B[k] \notin old
        BY <2>3, <2>4
      <4> QED BY <4>1, <2>4, <2>7 DEF Adds
    <3>2. \A k \in 0..N : loop[k] = IF k = 0 THEN alloc_table(c, g)
                                    ELSE IF B[k - 1] \notin old THEN loop[k - 1]
                                    ELSE table_add_sym_fast(hash, loop[k - 1], f[B[k - 1]])
      <4> TAKE k \in 0..N
      <4>1. k = 0 \/ (k - 1 \in 0..N - 1 /\ (k - 1) + 1 = k)
        BY <2>6
      <4> QED BY <4>1, <3>1, <2>7 DEF Adds
    <3> QED BY <3>2, <2>7
  <2>9. new = Body(f, new)
    <3> HIDE DEF Body
    <3> QED BY <2>8
  <2> HIDE DEF new
  <2>10. Adds(new, hash, c, g, N, W)
    <3>1. new[0] = Body(f, new)[0] /\ \A k \in 0..N - 1 : new[k + 1] = Body(f, new)[k + 1]
      <4> HIDE DEF Body
      <4> QED BY <2>9
    <3>2. Body(f, new)[0] = alloc_table(c, g)
      BY <2>6
    <3>3. ASSUME NEW k \in 0..N - 1
          PROVE  Body(f, new)[k + 1] = IF W[k] = NULL THEN new[k]
                                       ELSE table_add_sym_fast(hash, new[k], W[k])
      <4>1. k + 1 \in 0..N /\ k + 1 # 0 /\ (k + 1) - 1 = k
        BY <2>6
      <4>2. W[k] = NULL <=> B[k] \notin old
        BY <2>3, <2>4
      <4> QED BY <4>1, <4>2, <2>4
    <3> HIDE DEF Body
    <3> QED BY <3>1, <3>2, <3>3 DEF Adds
  <2> HIDE DEF Body
  <2> DEFINE All == {f[s] : s \in old}
  <2>11. AllOf(N, W) = All
    <3>1. \A k \in 0..N - 1 : W[k] # NULL => W[k] \in All
      BY <2>4
    <3>2. ASSUME NEW s \in old PROVE \E k \in 0..N - 1 : W[k] = f[s] /\ W[k] # NULL
      <4>1. PICK k \in 0..N - 1 : B[k] = s
        BY <1>3, <1>4
      <4> QED BY <4>1, <2>3, <2>4
    <3> QED BY <3>1, <3>2, <2>3 DEF AllOf
  <2>12. IsFiniteSet(All) /\ Cardinality(All) <= M
    <3> DEFINE image == [s \in old |-> f[s]]
    <3>1. image \in Surjection(old, All)
      BY DEF Surjection
    <3> HIDE DEF image, All
    <3> QED BY <1>5, <3>1, FS_Surjection DEF M
  <2>13. AllNew(new, hash, c, g, N, W)
    <3>1. ASSUME NEW k \in 0..N - 1, W[k] # NULL, is_ctable(new[k]) = c,
                 SymbolsOf(new[k]) = AllOf(k, W), NEW z \in SymbolsOf(new[k])
          PROVE  ~Named(new[k], z, NameOf[W[k]])
      <4>1. PICK i \in 0..k - 1 : z = W[i] /\ W[i] # NULL
        BY <3>1 DEF AllOf
      <4>2. i \in 0..N - 1 /\ i # k
        BY <2>6
      <4>3. B[i] \in old /\ B[k] \in old /\ W[i] = f[B[i]] /\ W[k] = f[B[k]]
        BY <2>4, <3>1, <4>1, <4>2
      <4>4. NameOf[W[i]] = NameOf[B[i]] /\ NameOf[W[k]] = NameOf[B[k]]
        BY <2>1, <4>3
      <4>5. B[i] # NULL /\ B[k] # NULL
        BY <1>4, <4>3
      <4>6. KeyOf(c, B[i]) # KeyOf(c, B[k])
        BY <1>2, <1>3, <4>2, <4>5 DEF Unique, N
      <4> QED BY <3>1, <4>1, <4>4, <4>6 DEF Named, KeyOf
    <3> QED BY <3>1 DEF AllNew, Absent
  <2>14. /\ Sound(hash, full, g) /\ is_ctable(full) = c /\ full.readonly = FALSE
         /\ SymbolsOf(full) = All
    <3> HIDE DEF All, c, B, Copied, full
    <3>1. IsFiniteSet(AllOf(N, W)) /\ Cardinality(AllOf(N, W)) <= M
      BY <2>11, <2>12
    <3>2. N \in Nat /\ hash \in Hashes /\ c \in BOOLEAN /\ g \in Sizes /\ g <= MAX_VECTOR_SIZE
      BY <1>2, <2>2, <2>6
    <3>4. Suffices(g, AllOf(N, W))
      <4>1. M \in Nat
        BY <1>5 DEF M
      <4> QED BY <2>2, <3>1, <4>1 DEF Suffices
    <3>3. Filled(new[N], hash, c, g, AllOf(N, W))
      BY <2>5, <2>10, <2>13, <3>2, <3>4, AddsFacts
    <3> QED BY <2>11, <3>3 DEF full, Filled
  <2>15. table' = [table EXCEPT ![u] = full]
    BY <2>1 DEF new
  <2> HIDE DEF full
  <2>16. TablesFine' /\ Maps' = [Maps EXCEPT ![u] = Entry(full)]
    <3>1. Fine(hash, full)
      BY <1>2, <2>2, <2>14 DEF Fine
    <3> QED BY <2>1, <2>15, <3>1, OneTable
  <2>17. data' \in [Symbols -> Values] /\ readonly' \in [Symbols -> BOOLEAN]
    <3>1. ASSUME NEW s \in Symbols PROVE data'[s] \in Values /\ readonly'[s] \in BOOLEAN
      <4>1. Copied(f, s) # {} => (CHOOSE z \in Copied(f, s) : TRUE) \in Symbols
        BY <1>4
      <4> QED BY <4>1, <1>2, <2>1
    <3> QED BY <3>1, <2>1
  <2>18. IInv'
    BY <1>2, <2>1, <2>16, <2>17 DEF IInv, RestFine
  <2>19. Map!Copy(t, u)
    <3>1. old = Originals(t)
      BY <1>4, MapTable DEF tb, Originals
    <3>2. Free = Available(u)
      BY MapTable DEF Free, Available
    <3>3. Entry(full) = CopyEntry(t, f, old)
      BY <2>14, MapTable DEF Entry, tb, CopyEntry
    <3>4. CopyValues(f, old) /\ f \in [old -> Free] /\ \A s \in old : NameOf[f[s]] = NameOf[s]
      BY <2>1 DEF CopyValues, CopiesOf
    <3> QED BY <2>16, <3>1, <3>2, <3>3, <3>4, MapCopy
  <2> QED BY <2>18, <2>19, MapNext
<1> QED BY <1>6, <1>7

(***************************************************************************)
(* The theorems                                                            *)
(***************************************************************************)
LEMMA InitialStates ==
  ASSUME Init
  PROVE  IInv /\ Map!Init
<1>1. PICK kind \in [Tables -> Kinds] : table = [t \in Tables |-> alloc_table(kind[t], DEF_TABLE_SIZE)]
  BY DEF Init
<1>2. /\ data = [s \in Symbols |-> NULL] /\ readonly = [s \in Symbols |-> FALSE]
      /\ hash \in Hashes /\ pc = "run"
  BY DEF Init
<1>3. /\ DEF_TABLE_SIZE \in Sizes /\ DEF_TABLE_SIZE <= MAX_VECTOR_SIZE /\ NULL \in Values
      /\ Kinds \subseteq BOOLEAN
  BY Assumptions DEF TableAssumption
<1>4. ASSUME NEW t \in Tables
      PROVE  /\ Fine(hash, table[t])
             /\ Entry(table[t]) = [ctable |-> kind[t], readonly |-> FALSE, entries |-> {}]
  <2> DEFINE c == kind[t]
             tb == alloc_table(c, DEF_TABLE_SIZE)
  <2>1. c \in Kinds /\ c \in BOOLEAN /\ table[t] = tb
    BY <1>1, <1>3
  <2> HIDE DEF c
  <2>2. Sound(hash, tb, DEF_TABLE_SIZE) /\ SymbolsOf(tb) = {} /\ is_ctable(tb) = c /\ tb.readonly = FALSE
    BY <1>3, <2>1, EmptyFacts
  <2> HIDE DEF tb
  <2> QED BY <1>3, <2>1, <2>2 DEF Fine, Entry, c
<1>5. table = [t \in Tables |-> table[t]]
  BY <1>1
<1>6. IInv
  BY <1>2, <1>3, <1>4, <1>5 DEF IInv, TablesFine, RestFine
<1>7. Map!Init
  <2>1. Maps = [t \in Tables |-> [ctable |-> kind[t], readonly |-> FALSE, entries |-> {}]]
    BY <1>4 DEF Maps
  <2>2. kind \in [Tables -> BOOLEAN]
    BY <1>3
  <2> QED BY <1>2, <2>1, <2>2 DEF Map!Init, Maps, Entry
<1> QED BY <1>6, <1>7

\* A step of the program keeps the invariant, and is one of the map or none
LEMMA Step ==
  ASSUME IInv, [Next]_vars
  PROVE  IInv' /\ [Map!Next]_(Map!mapvars)
<1>1. CASE UNCHANGED vars
  BY <1>1 DEF vars, IInv, TablesFine, RestFine, Map!mapvars
<1>2. ASSUME NEW t \in Tables, protect_table(t) \/ \E c \in Kinds : make_table(t, c)
      PROVE  IInv' /\ Map!Next
  BY <1>2, ProtectTableStep, MakeTableStep
<1>3. ASSUME NEW t \in Tables, NEW n \in Names,
             \/ table_remove(t, n)
             \/ \E v \in Values : table_set(t, n, v) \/ table_symbol_ref(t, n, v)
      PROVE  IInv' /\ Map!Next
  BY <1>3, RemoveStep, SetStep, SymbolRefStep
<1>4. ASSUME NEW s \in Symbols, protect(s) \/ \E v \in Values : symbol_set(s, v) \/ make_symbol(s, v)
      PROVE  IInv' /\ Map!Next
  <2>1. NULL \in Values
    BY Assumptions DEF TableAssumption
  <2> QED BY <1>4, <2>1, SymbolSteps
<1>5. ASSUME NEW s \in Symbols, NEW t \in Tables, table_add_symbol(t, s)
      PROVE  IInv' /\ [Map!Next]_(Map!mapvars)
  BY <1>5, AddSymbolStep
<1>6. ASSUME NEW t \in Tables, NEW u \in Tables, t # u, table_copy(t, u) \/ table_shallow_copy(t, u)
      PROVE  IInv' /\ [Map!Next]_(Map!mapvars)
  BY <1>6, CopyStep, ShallowCopyStep
<1>7. ASSUME NEW t \in Tables, NEW v \in BoundedSeq(Symbols, MaxVec), NEW c \in Kinds,
             NEW ro \in BOOLEAN, vector_to_table(t, v, c, ro)
      PROVE  IInv' /\ Map!Next
  BY <1>7, VectorStep
<1>8. ASSUME NEW h \in Hashes, gc_load(h)
      PROVE  IInv' /\ [Map!Next]_(Map!mapvars)
  BY <1>8, LoadStep
<1>9. CASE Next
  BY <1>2, <1>3, <1>4, <1>5, <1>6, <1>7, <1>8, <1>9 DEF Next
<1> QED BY <1>1, <1>9

\* Every reachable state satisfies the invariant: each table has no two
\* symbols of a name, no search for one of its symbols meets an empty bucket
\* first, and its count is right
THEOREM Inductive == Spec => []IInv
<1>1. Init => IInv
  BY InitialStates
<1>2. IInv /\ [Next]_vars => IInv'
  BY Step
<1> QED BY <1>1, <1>2, PTL DEF Spec

\* Tables keep their shape, whatever is done to them
THEOREM TypeCorrect == Spec => []TypeOK
<1>1. IInv => TypeOK
  <2> SUFFICES ASSUME IInv PROVE TypeOK
    OBVIOUS
  <2>1. ASSUME NEW t \in Tables
        PROVE  /\ DOMAIN table[t] = {"buckets", "used", "readonly"}
               /\ \E size \in Sizes : DOMAIN table[t].buckets = 0..size - 1
               /\ \A i \in DOMAIN table[t].buckets : table[t].buckets[i] \in Symbols \cup {NULL}
               /\ table[t].used \in Int /\ table[t].readonly \in BOOLEAN
               /\ is_ctable(table[t]) \in Kinds
    <3> DEFINE tb == table[t]
    <3>1. PICK n \in Sizes : Sound(hash, tb, n)
      BY DEF IInv, TablesFine, Fine
    <3>2. is_ctable(tb) \in Kinds
      BY DEF IInv, TablesFine, Fine
    <3> HIDE DEF tb
    <3>3. Shaped(tb, n)
      BY <3>1 DEF Sound, Placed
    <3>4. tb \in [buckets : Slots(n), used : Int, readonly : BOOLEAN]
      BY <3>3 DEF Shaped
    <3>5. DOMAIN tb = {"buckets", "used", "readonly"} /\ tb.used \in Int /\ tb.readonly \in BOOLEAN
      BY <3>4
    <3>6. DOMAIN tb.buckets = 0..n - 1 /\ \A q \in 0..n - 1 : tb.buckets[q] \in Symbols \cup {NULL}
      BY <3>3, Positive, ShapeFacts
    <3> QED BY <3>2, <3>5, <3>6 DEF tb
  <2>2. /\ data \in [Symbols -> Values] /\ readonly \in [Symbols -> BOOLEAN]
        /\ hash \in Hashes /\ pc \in {"run", "abort"}
    BY DEF IInv, RestFine
  <2> QED BY <2>1, <2>2 DEF TypeOK
<1> QED BY <1>1, Inductive, PTL

\* table_find() finds every symbol where it is: no removal, doubling, copy or
\* load leaves an empty bucket or a symbol of the same name on its way
THEOREM SymbolsFound == Spec => []Findable
<1>1. IInv => Findable
  <2> SUFFICES ASSUME IInv, NEW t \in Tables, NEW i \in DOMAIN table[t].buckets,
                      table[t].buckets[i] # NULL
               PROVE  table_find(hash, table[t], NameOf[table[t].buckets[i]]) = i
    BY DEF Findable
  <2> DEFINE tb == table[t]
             s == tb.buckets[i]
  <2>1. PICK n \in Sizes : Sound(hash, tb, n)
    BY DEF IInv, TablesFine, Fine
  <2>2. hash \in Hashes
    BY DEF IInv, RestFine
  <2> HIDE DEF tb
  <2>3. n \in Nat \ {0} /\ Placed(hash, tb, n) /\ Shaped(tb, n)
    BY <2>1, Positive DEF Sound, Placed
  <2>4. i \in 0..n - 1 /\ s # NULL /\ s \in Symbols /\ NameOf[s] \in Names
    <3>1. DOMAIN tb.buckets = 0..n - 1
      BY <2>3, ShapeFacts
    <3>2. i \in 0..n - 1 /\ s # NULL
      BY <3>1 DEF tb
    <3>3. s \in Symbols
      BY <2>3, <3>2, ShapeFacts
    <3> QED BY <3>2, <3>3, Assumptions DEF TableAssumption
  <2>5. Named(tb, s, NameOf[s])
    BY DEF Named
  <2>6. table_find(hash, tb, NameOf[s]) = i
    BY <2>2, <2>3, <2>4, <2>5, FindHit
  <2> QED BY <2>6 DEF tb
<1> QED BY <1>1, Inductive, PTL

\* The signed count of a table is that of its symbols, and below the three
\* quarters at which table_add_sym_fast() doubles the buckets
THEOREM CountsAreKept == Spec => []CountsKept
<1>1. IInv => CountsKept
  <2> SUFFICES ASSUME IInv, NEW t \in Tables
               PROVE  /\ table_entries(table[t]) = Cardinality(SymbolsOf(table[t]))
                      /\ \/ table_entries(table[t]) = 0
                         \/ 4 * table_entries(table[t]) < 3 * Size(table[t])
    BY DEF CountsKept
  <2> DEFINE tb == table[t]
  <2>1. PICK n \in Sizes : Sound(hash, tb, n)
    BY DEF IInv, TablesFine, Fine
  <2> HIDE DEF tb
  <2>2. Size(tb) = n
    BY <2>1, Positive, ShapeFacts DEF Sound, Placed
  <2>3. Counted(tb) /\ Roomy(tb, n)
    BY <2>1 DEF Sound
  <2> QED BY <2>2, <2>3 DEF Counted, Roomy, tb
<1> QED BY <1>1, Inductive, PTL

\* Loading data saved by a build with another hash function never fails: the
\* assertions of gc_load() about the growth and the count of a table hold
THEOREM LoadSucceeds == Spec => [][\A h \in Hashes : gc_load(h) => UNCHANGED pc]_vars
<1>1. IInv => [\A h \in Hashes : gc_load(h) => UNCHANGED pc]_vars
  BY LoadStep
<1> QED BY <1>1, Inductive, PTL

\* The tables are the maps that runtime/symbol.c promises: every operation is
\* one of SymMap on the set of symbols of the table, or changes no set
THEOREM Refinement == Spec => ImplementsMap
<1>1. Init => Map!Init
  BY InitialStates
<1>2. IInv /\ [Next]_vars => [Map!Next]_(Map!mapvars)
  BY Step
<1> QED BY <1>1, <1>2, Inductive, PTL DEF Spec, ImplementsMap, Map!Spec

(***************************************************************************)
(* Random numbers.  There are as many words as the square of the halves.   *)
(***************************************************************************)
LEMMA Powers ==
  /\ PowerOf2[0] = 1
  /\ \A k \in Nat : PowerOf2[k] \in Nat \ {0} /\ PowerOf2[k + 1] = 2 * PowerOf2[k]
<1> DEFINE Turn == [p \in Nat \X Nat |-> 2 * p[2]]
           Is(g) == g = [k \in Nat |-> IF k = 0 THEN 1 ELSE 2 * g[k - 1]]
<1>1. Turn \in Bodies(Nat, Nat)
  BY DEF Bodies
<1>2. \A n \in Nat, m \in Nat : Turn[<<n, m>>] = 2 * m
  OBVIOUS
<1> HIDE DEF Turn
<1>3. PICK g : IsLoop(g, Nat, Nat, 1, Turn)
  BY <1>1, LoopExists
<1>4. g[0] = 1 /\ \A n \in Nat : g[n] \in Nat /\ g[n + 1] = 2 * g[n]
  BY <1>2, <1>3 DEF IsLoop
<1> DEFINE f == [n \in Nat |-> g[n]]
<1>5. Is(f)
  <2>1. ASSUME NEW n \in Nat PROVE f[n] = IF n = 0 THEN 1 ELSE 2 * f[n - 1]
    <3>1. n = 0 \/ (n - 1 \in Nat /\ (n - 1) + 1 = n)
      OBVIOUS
    <3> QED BY <1>4, <3>1
  <2> QED BY <2>1
<1>6. PowerOf2 = CHOOSE h : Is(h)
  BY DEF PowerOf2
<1> HIDE DEF f
<1>7. Is(PowerOf2)
  <2> HIDE DEF Is
  <2> QED BY <1>5, <1>6
<1>8. \A k \in Nat : PowerOf2[k] = IF k = 0 THEN 1 ELSE 2 * PowerOf2[k - 1]
  BY <1>7
<1> HIDE DEF Is
<1> DEFINE T == {k \in Nat : PowerOf2[k] \in Nat \ {0}}
<1>9. ASSUME NEW k \in Nat PROVE PowerOf2[k + 1] = 2 * PowerOf2[k]
  <2>1. k + 1 # 0 /\ (k + 1) - 1 = k /\ k + 1 \in Nat
    OBVIOUS
  <2> QED BY <1>8, <2>1
<1>10. Nat \subseteq T
  <2>1. 0 \in T
    BY <1>8
  <2>2. ASSUME NEW n \in Nat, n \in T PROVE n + 1 \in T
    BY <2>2, <1>9
  <2> HIDE DEF T
  <2> QED BY <2>1, <2>2, Induction
<1> QED BY <1>8, <1>9, <1>10

LEMMA PowerOfSum ==
  ASSUME NEW m \in Nat, NEW n \in Nat
  PROVE  PowerOf2[m + n] = PowerOf2[m] * PowerOf2[n]
<1> DEFINE T == {k \in Nat : PowerOf2[m + k] = PowerOf2[m] * PowerOf2[k]}
<1>1. 0 \in T
  BY Powers
<1>2. ASSUME NEW k \in Nat, k \in T PROVE k + 1 \in T
  <2>1. PowerOf2[(m + k) + 1] = 2 * (PowerOf2[m] * PowerOf2[k])
    BY <1>2, Powers
  <2>2. PowerOf2[k + 1] = 2 * PowerOf2[k] /\ PowerOf2[k] \in Nat /\ PowerOf2[m] \in Nat
    BY Powers
  <2>3. (m + k) + 1 = m + (k + 1)
    OBVIOUS
  <2>4. 2 * (PowerOf2[m] * PowerOf2[k]) = PowerOf2[m] * (2 * PowerOf2[k])
    BY <2>2
  <2> QED BY <2>1, <2>2, <2>3, <2>4
<1> HIDE DEF T
<1>3. n \in T
  BY <1>1, <1>2, Induction
<1> QED BY <1>3 DEF T

LEMMA WordsAreHalves ==
  ASSUME RandomAssumptions
  PROVE  HALVES \in Nat \ {0} /\ WORDS = HALVES * HALVES /\ WORDS \in Nat \ {0}
<1>1. BITS \div 2 \in Nat /\ BITS \div 2 + BITS \div 2 = BITS
  BY DEF RandomAssumptions
<1>2. BITS \in Nat
  BY DEF RandomAssumptions
<1> DEFINE h == BITS \div 2
<1> HIDE DEF h
<1>3. h \in Nat /\ h + h = BITS
  BY <1>1 DEF h
<1>4. PowerOf2[h + h] = PowerOf2[h] * PowerOf2[h]
  BY <1>3, PowerOfSum
<1>5. PowerOf2[h] \in Nat \ {0} /\ PowerOf2[BITS] \in Nat \ {0}
  BY <1>2, <1>3, Powers
<1>6. WORDS = PowerOf2[BITS] /\ HALVES = PowerOf2[h]
  BY DEF WORDS, HALVES, h
<1> QED BY <1>3, <1>4, <1>5, <1>6

(***************************************************************************)
(* Products                                                                *)
(***************************************************************************)
LEMMA Division ==
  ASSUME NEW x \in Nat, NEW d \in Nat \ {0}
  PROVE  x \div d \in Nat /\ x % d \in 0..d - 1 /\ x = (x \div d) * d + (x % d)
<1>1. x \div d \in Nat
  OBVIOUS
<1>2. x % d \in 0..d - 1
  OBVIOUS
<1>3. x = (x \div d) * d + (x % d)
  OBVIOUS
<1> QED BY <1>1, <1>2, <1>3

LEMMA Ordered ==
  ASSUME NEW a \in Nat, NEW b \in Nat, NEW n \in Nat, a <= b
  PROVE  a * n <= b * n
OBVIOUS

\* An interval of d numbers has one multiple of d at most
LEMMA OneMultiple ==
  ASSUME NEW d \in Nat \ {0}, NEW p \in Nat, NEW q \in Nat, p < q
  PROVE  p * d + d <= q * d
<1>1. p + 1 \in Nat /\ p + 1 <= q
  OBVIOUS
<1>2. (p + 1) * d <= q * d
  BY <1>1, Ordered
<1>3. (p + 1) * d = p * d + d
  OBVIOUS
<1> QED BY <1>2, <1>3

LEMMA UniqueDivision ==
  ASSUME NEW d \in Nat \ {0}, NEW q \in Nat, NEW r \in 0..d - 1
  PROVE  (q * d + r) \div d = q /\ (q * d + r) % d = r
<1> DEFINE y == q * d + r
<1>1. y \in Nat /\ y = q * d + r
  OBVIOUS
<1> HIDE DEF y
<1> DEFINE p == y \div d
           s == y % d
<1>2. p \in Nat /\ s \in 0..d - 1 /\ y = p * d + s
  BY <1>1, Division
<1> HIDE DEF p, s
<1>3. ~(p < q)
  <2> SUFFICES ASSUME p < q PROVE FALSE
    OBVIOUS
  <2>1. p * d + d <= q * d
    BY <1>2, OneMultiple
  <2>2. p * d \in Nat /\ q * d \in Nat
    BY <1>2
  <2> QED BY <1>1, <1>2, <2>1, <2>2
<1>4. ~(q < p)
  <2> SUFFICES ASSUME q < p PROVE FALSE
    OBVIOUS
  <2>1. q * d + d <= p * d
    BY <1>2, OneMultiple
  <2>2. p * d \in Nat /\ q * d \in Nat
    BY <1>2
  <2> QED BY <1>1, <1>2, <2>1, <2>2
<1>5. p = q
  BY <1>2, <1>3, <1>4
<1>6. s = r
  BY <1>1, <1>2, <1>5
<1> QED BY <1>5, <1>6 DEF p, s, y

LEMMA ProductExact ==
  ASSUME RandomAssumptions, NEW a \in RawWords, NEW b \in RawWords
  PROVE  /\ mul_u64(a, b).h \in Nat /\ mul_u64(a, b).l \in 0..WORDS - 1
         /\ a * b = mul_u64(a, b).h * WORDS + mul_u64(a, b).l
<1> DEFINE H == HALVES
           a1 == Upper(a)
           a0 == Half(a)
           b1 == Upper(b)
           b0 == Half(b)
           p == a0 * b0
           p1 == Upper(p)
           p0 == Half(p)
           s == a0 * b1 + p1
           s1 == Upper(s)
           s0 == Half(s)
           t == a1 * b0 + s0
           t1 == Upper(t)
           t0 == Half(t)
           h == a1 * b1 + s1 + t1
           l == t0 * H + p0
<1>1. H \in Nat \ {0} /\ WORDS = H * H /\ WORDS \in Nat \ {0}
  BY WordsAreHalves
<1>2. \A x \in Nat : Upper(x) \in Nat /\ Half(x) \in 0..H - 1 /\ x = Upper(x) * H + Half(x)
  BY <1>1, Division DEF Upper, Half
<1>3. a \in Nat /\ b \in Nat /\ a < WORDS /\ b < WORDS
  BY <1>1 DEF RawWords
<1>4. a1 \in Nat /\ a0 \in Nat /\ a = a1 * H + a0
  BY <1>2, <1>3
<1>5. b1 \in Nat /\ b0 \in Nat /\ b = b1 * H + b0
  BY <1>2, <1>3
<1> HIDE DEF H, a1, a0, b1, b0
<1>6. p \in Nat
  BY <1>4, <1>5
<1>7. p1 \in Nat /\ p0 \in 0..H - 1 /\ p = p1 * H + p0
  BY <1>2, <1>6
<1> HIDE DEF p1, p0
<1>8. s \in Nat
  BY <1>4, <1>5, <1>7
<1>9. s1 \in Nat /\ s0 \in 0..H - 1 /\ s = s1 * H + s0
  BY <1>2, <1>8
<1> HIDE DEF s1, s0
<1>10. t \in Nat
  BY <1>4, <1>5, <1>9
<1>11. t1 \in Nat /\ t0 \in 0..H - 1 /\ t = t1 * H + t0
  BY <1>2, <1>10
<1> HIDE DEF t1, t0
<1>12. h \in Nat /\ l \in 0..WORDS - 1
  <2>1. h \in Nat
    BY <1>4, <1>5, <1>9, <1>11
  <2>2. t0 * H + H <= H * H
    BY <1>1, <1>11, OneMultiple
  <2>3. t0 * H \in Nat
    BY <1>1, <1>11
  <2>4. l \in Nat /\ l < WORDS
    BY <1>1, <1>7, <2>2, <2>3
  <2> QED BY <1>1, <2>1, <2>4
<1>13. a * b = h * WORDS + l
  <2>1. a * b = (a1 * b1) * (H * H) + (a0 * b1 + a1 * b0) * H + p
    BY <1>1, <1>4, <1>5
  <2>2. (a0 * b1 + a1 * b0) * H + p = (s + a1 * b0) * H + p0
    BY <1>1, <1>4, <1>5, <1>7
  <2>3. (s + a1 * b0) * H = s1 * (H * H) + t * H
    BY <1>1, <1>4, <1>5, <1>9
  <2>4. t * H = t1 * (H * H) + t0 * H
    BY <1>1, <1>11
  <2>5. h * (H * H) = (a1 * b1) * (H * H) + s1 * (H * H) + t1 * (H * H)
    BY <1>1, <1>4, <1>5, <1>9, <1>11
  <2> DEFINE hh == H * H
             x1 == (a1 * b1) * hh
             x2 == (a0 * b1 + a1 * b0) * H
             x3 == (s + a1 * b0) * H
             x4 == s1 * hh
             x5 == t * H
             x6 == t1 * hh
             x7 == t0 * H
  <2>6. /\ x1 \in Nat /\ x2 \in Nat /\ x3 \in Nat /\ x4 \in Nat /\ x5 \in Nat /\ x6 \in Nat /\ x7 \in Nat
        /\ p0 \in Nat
    BY <1>1, <1>4, <1>5, <1>7, <1>8, <1>9, <1>10, <1>11
  <2>7. /\ a * b = x1 + x2 + p /\ x2 + p = x3 + p0 /\ x3 = x4 + x5 /\ x5 = x6 + x7
        /\ h * hh = x1 + x4 + x6 /\ l = x7 + p0 /\ WORDS = hh
    BY <1>1, <2>1, <2>2, <2>3, <2>4, <2>5
  <2> HIDE DEF x1, x2, x3, x4, x5, x6, x7, hh, h, l
  <2> QED BY <1>6, <2>6, <2>7
<1>14. h < WORDS
  <2> SUFFICES ASSUME WORDS <= h PROVE FALSE
    BY <1>1, <1>12
  <2> HIDE DEF h, l
  <2>1. WORDS * WORDS <= h * WORDS
    BY <1>1, <1>12, Ordered
  <2>2. a * b <= WORDS * b
    BY <1>1, <1>3, Ordered
  <2>3. b * WORDS + WORDS <= WORDS * WORDS
    BY <1>1, <1>3, OneMultiple
  <2>4. WORDS * b = b * WORDS /\ b * WORDS \in Nat /\ WORDS * WORDS \in Nat /\ h * WORDS \in Nat /\ a * b \in Nat
    BY <1>1, <1>3, <1>12
  <2> QED BY <1>1, <1>12, <1>13, <2>1, <2>2, <2>3, <2>4
<1>15. mul_u64(a, b) = [l |-> (p0 + t * H) % WORDS, h |-> h % WORDS]
  BY DEF mul_u64, p0, t, H, s0, p1, s1, t1, a0, a1, b0, b1
<1>16. (p0 + t * H) % WORDS = l
  <2>1. t * H = t1 * (H * H) + t0 * H
    BY <1>1, <1>11
  <2>2. p0 + t * H = t1 * WORDS + l
    <3>1. t * H \in Nat /\ t1 * (H * H) \in Nat /\ t0 * H \in Nat
      BY <1>1, <1>10, <1>11
    <3> HIDE DEF t
    <3> QED BY <1>1, <1>7, <2>1, <3>1
  <2> HIDE DEF t, l
  <2> QED BY <1>1, <1>11, <1>12, <2>2, UniqueDivision
<1>17. h % WORDS = h
  <2> HIDE DEF h
  <2> QED BY <1>1, <1>12, <1>14
<1> HIDE DEF h, l, t
<1>18. mul_u64(a, b).l = l /\ mul_u64(a, b).h = h
  BY <1>15, <1>16, <1>17
<1> QED BY <1>12, <1>13, <1>18

(***************************************************************************)
(* Numbers.  For n of the range, WORDS = quota * n + extra, and the        *)
(* products that give v are the multiples of n from v * WORDS + extra up   *)
(* to the next multiple of WORDS.                                          *)
(***************************************************************************)
quota(n) == WORDS \div n
extra(n) == WORDS % n

LEMMA Quota ==
  ASSUME RandomAssumptions, NEW n \in 1..WORDS
  PROVE  quota(n) \in Nat /\ extra(n) \in 0..n - 1 /\ WORDS = quota(n) * n + extra(n)
<1>1. WORDS \in Nat /\ n \in Nat \ {0}
  BY WordsAreHalves
<1> QED BY <1>1, Division DEF quota, extra

\* The remainder that the code computes
LEMMA LeastAccepted ==
  ASSUME RandomAssumptions, NEW n \in 1..WORDS
  PROVE  (WORDS - n) % n = extra(n)
<1>1. WORDS \in Nat /\ n \in Nat \ {0} /\ n <= WORDS
  BY WordsAreHalves
<1>2. quota(n) \in Nat /\ extra(n) \in 0..n - 1 /\ WORDS = quota(n) * n + extra(n)
  BY Quota
<1> DEFINE q == quota(n)
           r == extra(n)
<1> HIDE DEF q, r
<1>3. q \in Nat /\ r \in 0..n - 1 /\ WORDS = q * n + r
  BY <1>2 DEF q, r
<1>4. q # 0
  BY <1>1, <1>3
<1>5. q - 1 \in Nat /\ (q - 1) * n = q * n - n
  BY <1>1, <1>3, <1>4
<1>6. WORDS - n = (q - 1) * n + r
  <2>1. q * n \in Nat
    BY <1>1, <1>3
  <2> QED BY <1>1, <1>3, <1>5, <2>1
<1>7. ((q - 1) * n + r) % n = r
  BY <1>1, <1>3, <1>5, UniqueDivision
<1> QED BY <1>6, <1>7 DEF r

LEMMA Chosen ==
  ASSUME RandomAssumptions, NEW n \in 1..WORDS - 1, NEW v \in 0..n - 1, NEW x \in RawWords
  PROVE  Accepted(x, n) /\ mul_u64(x, n).h = v <=>
           v * WORDS + extra(n) <= x * n /\ x * n < v * WORDS + WORDS
<1> DEFINE l == mul_u64(x, n).l
           h == mul_u64(x, n).h
           r == extra(n)
<1>1. WORDS \in Nat /\ n \in 1..WORDS /\ n \in RawWords /\ x \in Nat /\ v \in Nat
  BY WordsAreHalves DEF RawWords
<1>2. h \in Nat /\ l \in 0..WORDS - 1 /\ x * n = h * WORDS + l
  BY <1>1, ProductExact
<1>3. r \in 0..n - 1
  BY <1>1, Quota
<1>4. Accepted(x, n) <=> l >= n \/ l >= r
  BY <1>1, LeastAccepted DEF Accepted
<1> HIDE DEF l, h, r
<1>5. Accepted(x, n) <=> l >= r
  BY <1>2, <1>3, <1>4
<1>6. CASE h = v
  <2>1. v * WORDS \in Nat
    BY <1>1
  <2> QED BY <1>1, <1>2, <1>3, <1>5, <1>6, <2>1 DEF h, r
<1>7. CASE h < v
  <2>1. h * WORDS + WORDS <= v * WORDS
    BY <1>1, <1>2, <1>7, OneMultiple
  <2>2. h * WORDS \in Nat /\ v * WORDS \in Nat
    BY <1>1, <1>2
  <2>3. x * n < v * WORDS
    BY <1>1, <1>2, <2>1, <2>2
  <2>4. x * n \in Nat
    BY <1>1
  <2> QED BY <1>1, <1>2, <1>3, <1>7, <2>2, <2>3, <2>4 DEF h, r
<1>8. CASE v < h
  <2>1. v * WORDS + WORDS <= h * WORDS
    BY <1>1, <1>2, <1>8, OneMultiple
  <2>2. h * WORDS \in Nat /\ v * WORDS \in Nat
    BY <1>1, <1>2
  <2>3. x * n >= v * WORDS + WORDS
    BY <1>1, <1>2, <2>1, <2>2
  <2>4. x * n \in Nat
    BY <1>1
  <2> QED BY <1>1, <1>2, <1>8, <2>2, <2>3, <2>4 DEF h
<1> QED BY <1>1, <1>2, <1>6, <1>7, <1>8

\* quota(n) words give v: those from the first that is large enough
LEMMA EveryNumberEvenly ==
  ASSUME RandomAssumptions, NEW n \in 1..WORDS - 1, NEW v \in 0..n - 1
  PROVE  Cardinality({x \in RawWords : Accepted(x, n) /\ mul_u64(x, n).h = v}) = quota(n)
<1> DEFINE W == WORDS
           q == quota(n)
           r == extra(n)
           a == v * W + r
           first == (a + (n - 1)) \div n
           rest == (a + (n - 1)) % n
           S == {x \in RawWords : Accepted(x, n) /\ mul_u64(x, n).h = v}
<1>1. W \in Nat /\ n \in Nat \ {0} /\ v \in Nat /\ n \in 1..WORDS /\ n < W
  BY WordsAreHalves
<1>2. q \in Nat /\ r \in 0..n - 1 /\ W = q * n + r
  BY <1>1, Quota
<1> HIDE DEF q, r
<1>3. a \in Nat /\ v * W \in Nat
  BY <1>1, <1>2
<1>4. a + (n - 1) \in Nat
  BY <1>1, <1>3
<1>5. first \in Nat /\ rest \in 0..n - 1 /\ a + (n - 1) = first * n + rest
  BY <1>1, <1>4, Division
<1> HIDE DEF first, rest
<1>6. a <= first * n /\ first * n < a + n
  <2>1. first * n \in Nat
    BY <1>1, <1>5
  <2> HIDE DEF a
  <2> QED BY <1>1, <1>3, <1>5, <2>1
<1>7. v * W + W = a + q * n
  <2>1. q * n \in Nat
    BY <1>1, <1>2
  <2> HIDE DEF W
  <2> QED BY <1>1, <1>2, <1>3, <2>1
<1>8. v * W + W <= n * W
  BY <1>1, OneMultiple
<1>9. S = first..first + (q - 1)
  <2>1. ASSUME NEW x \in Nat
        PROVE  a <= x * n /\ x * n < v * W + W <=> x \in first..first + (q - 1)
    <3>1. x * n \in Nat /\ first * n \in Nat /\ q * n \in Nat
      BY <1>1, <1>2, <1>5
    <3>2. ASSUME x < first PROVE x * n < a
      <4>1. x * n + n <= first * n
        BY <1>1, <1>5, <3>2, OneMultiple
      <4> HIDE DEF a
      <4> QED BY <1>1, <1>3, <1>6, <3>1, <4>1
    <3>3. ASSUME first <= x PROVE a <= x * n
      <4>1. first * n <= x * n
        BY <1>1, <1>5, <3>3, Ordered
      <4> HIDE DEF a
      <4> QED BY <1>3, <1>6, <3>1, <4>1
    <3>4. ASSUME first + q <= x PROVE x * n >= v * W + W
      <4>1. (first + q) * n <= x * n
        BY <1>1, <1>2, <1>5, <3>4, Ordered
      <4>2. (first + q) * n = first * n + q * n
        BY <1>1, <1>2, <1>5
      <4> HIDE DEF a, W
      <4> QED BY <1>1, <1>3, <1>6, <1>7, <3>1, <4>1, <4>2
    <3>5. ASSUME x < first + q PROVE x * n < v * W + W
      <4>1. x * n + n <= (first + q) * n
        BY <1>1, <1>2, <1>5, <3>5, OneMultiple
      <4>2. (first + q) * n = first * n + q * n
        BY <1>1, <1>2, <1>5
      <4> HIDE DEF a, W
      <4> QED BY <1>1, <1>3, <1>6, <1>7, <3>1, <4>1, <4>2
    <3> HIDE DEF a, W
    <3> QED BY <1>1, <1>2, <1>3, <1>5, <3>1, <3>2, <3>3, <3>4, <3>5
  <2>2. ASSUME NEW x \in Nat, x * n < v * W + W PROVE x \in RawWords
    <3>1. n * W = W * n
      BY <1>1
    <3>2. ~(W <= x)
      <4> SUFFICES ASSUME W <= x PROVE FALSE
        OBVIOUS
      <4>1. W * n <= x * n
        BY <1>1, Ordered
      <4>2. x * n \in Nat /\ W * n \in Nat
        BY <1>1
      <4> HIDE DEF W
      <4> QED BY <1>1, <1>3, <1>8, <2>2, <3>1, <4>1, <4>2
    <3> QED BY <1>1, <3>2 DEF RawWords
  <2>3. ASSUME NEW x \in RawWords
        PROVE  Accepted(x, n) /\ mul_u64(x, n).h = v <=> a <= x * n /\ x * n < v * W + W
    BY Chosen DEF r
  <2>4. \A x \in RawWords : x \in Nat
    BY WordsAreHalves DEF RawWords
  <2>5. \A x \in first..first + (q - 1) : x \in Nat
    BY <1>2, <1>5
  <2>6. S \subseteq first..first + (q - 1)
    <3> HIDE DEF a, W
    <3> QED BY <2>1, <2>3, <2>4
  <2>7. first..first + (q - 1) \subseteq S
    <3> HIDE DEF a, W
    <3> QED BY <2>1, <2>2, <2>3, <2>5
  <2> QED BY <2>6, <2>7
<1>10. Cardinality(first..first + (q - 1)) = q
  <2> DEFINE last == first + (q - 1)
  <2>1. first \in Int /\ last \in Int /\ last = first + (q - 1)
    BY <1>2, <1>5
  <2> HIDE DEF last
  <2>2. Cardinality(first..last) = IF first > last THEN 0 ELSE last - first + 1
    BY <2>1, FS_Interval
  <2>3. Cardinality(first..last) = q
    BY <1>2, <1>5, <2>1, <2>2
  <2> QED BY <2>3 DEF last
<1> QED BY <1>9, <1>10 DEF q

(***************************************************************************)
(* Orders                                                                  *)
(***************************************************************************)
\* The array after each of the choices
Positions(c, n) ==
  CHOOSE p : p = [k \in 0..Len(c) |-> IF k = 0 THEN Sorted(n) ELSE Swapped(p[k - 1], k, c[k])]
Allowed(c, n) == c \in Seq(1..n) /\ Len(c) <= n /\ \A k \in 1..Len(c) : c[k] \in k..n

LEMMA SwapFacts ==
  ASSUME NEW n \in Nat, NEW a \in Orders(n), NEW j \in 1..n, NEW k \in 1..n
  PROVE  /\ Swapped(a, j, k) \in Orders(n)
         /\ Swapped(a, j, k)[j] = a[k]
         /\ \A x \in 1..n : x # j /\ x # k => Swapped(a, j, k)[x] = a[x]
<1> DEFINE b == Swapped(a, j, k)
<1>1. b = [x \in 1..n |-> IF x = k THEN a[j] ELSE IF x = j THEN a[k] ELSE a[x]]
  BY DEF Swapped, Orders
<1>2. a \in [1..n -> 1..n] /\ \A x, y \in 1..n : x # y => a[x] # a[y]
  BY DEF Orders
<1>3. b \in [1..n -> 1..n]
  BY <1>1, <1>2
<1>4. \A x \in 1..n : b[x] = IF x = k THEN a[j] ELSE IF x = j THEN a[k] ELSE a[x]
  BY <1>1
<1> HIDE DEF b
<1>5. \A x, y \in 1..n : x # y => b[x] # b[y]
  BY <1>2, <1>4
<1>6. b \in Orders(n)
  BY <1>3, <1>5 DEF Orders
<1> QED BY <1>4, <1>6 DEF b

LEMMA SortedIsOrder ==
  ASSUME NEW n \in Nat
  PROVE  Sorted(n) \in Orders(n)
BY DEF Sorted, Orders

\* p is the array after each choice
Steps(p, c, n) == /\ p[0] = Sorted(n)
                  /\ \A k \in 0..Len(c) : p[k] \in Orders(n)
                  /\ \A k \in 0..Len(c) - 1 : p[k + 1] = Swapped(p[k], k + 1, c[k + 1])

LEMMA Shuffling ==
  ASSUME NEW n \in Nat, NEW c, Allowed(c, n)
  PROVE  Shuffled(c, n) = Positions(c, n)[Len(c)] /\ Steps(Positions(c, n), c, n)
<1> DEFINE X == Orders(n)
           Turn == [t \in Nat \X X |-> IF t[1] < Len(c) THEN Swapped(t[2], t[1] + 1, c[t[1] + 1]) ELSE t[2]]
           Is(h) == h = [k \in 0..Len(c) |-> IF k = 0 THEN Sorted(n) ELSE Swapped(h[k - 1], k, c[k])]
<1>1. Len(c) \in Nat /\ Len(c) <= n /\ \A k \in 1..Len(c) : c[k] \in 1..n
  BY DEF Allowed
<1>2. \A k \in Nat, a \in X : k < Len(c) => Swapped(a, k + 1, c[k + 1]) \in X
  <2> TAKE k \in Nat, a \in X
  <2> HAVE k < Len(c)
  <2>1. k + 1 \in 1..n /\ k + 1 \in 1..Len(c)
    BY <1>1
  <2> QED BY <1>1, <2>1, SwapFacts
<1>3. Turn \in Bodies(Nat, X)
  <2> HIDE DEF X
  <2> QED BY <1>2 DEF Bodies
<1>4. \A k \in Nat, a \in X : k < Len(c) => Turn[<<k, a>>] = Swapped(a, k + 1, c[k + 1])
  <2> HIDE DEF X
  <2> QED OBVIOUS
<1>5. Sorted(n) \in X
  BY SortedIsOrder
<1> HIDE DEF X, Turn
<1>6. PICK g : IsLoop(g, Nat, X, Sorted(n), Turn)
  BY <1>3, <1>5, LoopExists
<1>7. g[0] = Sorted(n) /\ \A k \in Nat : g[k] \in X
  BY <1>6 DEF IsLoop
<1>8. \A k \in 0..Len(c) - 1 : g[k + 1] = Swapped(g[k], k + 1, c[k + 1])
  <2> TAKE k \in 0..Len(c) - 1
  <2>1. k \in Nat /\ k < Len(c)
    BY <1>1
  <2>2. g[k + 1] = Turn[<<k, g[k]>>]
    BY <1>6, <2>1 DEF IsLoop
  <2> QED BY <1>4, <1>7, <2>1, <2>2
<1> DEFINE f == [k \in 0..Len(c) |-> g[k]]
<1>9. Is(f)
  <2>1. ASSUME NEW k \in 0..Len(c) PROVE f[k] = IF k = 0 THEN Sorted(n) ELSE Swapped(f[k - 1], k, c[k])
    <3>1. k = 0 \/ (k - 1 \in 0..Len(c) - 1 /\ k - 1 \in 0..Len(c) /\ (k - 1) + 1 = k)
      BY <1>1
    <3> QED BY <1>7, <1>8, <3>1
  <2> QED BY <2>1
<1> HIDE DEF f
<1> DEFINE p == Positions(c, n)
<1>10. p = CHOOSE h : Is(h)
  BY DEF Positions
<1>11. Shuffled(c, n) = (CHOOSE h : Is(h))[Len(c)]
  BY DEF Shuffled
<1>12. Is(p)
  <2> HIDE DEF Is, p
  <2> QED BY <1>9, <1>10
<1> HIDE DEF p
<1>13. \A k \in 0..Len(c) : p[k] = IF k = 0 THEN Sorted(n) ELSE Swapped(p[k - 1], k, c[k])
  BY <1>12
<1> HIDE DEF Is
<1>14. p[0] = Sorted(n)
  BY <1>1, <1>13
<1>15. \A k \in 0..Len(c) - 1 : p[k + 1] = Swapped(p[k], k + 1, c[k + 1])
  <2> TAKE k \in 0..Len(c) - 1
  <2>1. k + 1 \in 0..Len(c) /\ k + 1 # 0 /\ (k + 1) - 1 = k
    BY <1>1
  <2> QED BY <1>13, <2>1
<1> DEFINE T == {k \in 0..Len(c) : p[k] \in X}
<1>16. \A k \in 0..Len(c) : k \in T
  <2>1. 0 \in T
    BY <1>1, <1>5, <1>14
  <2>2. ASSUME NEW k \in 0..Len(c) - 1, k \in T PROVE k + 1 \in T
    <3>1. k \in Nat /\ k < Len(c) /\ k + 1 \in 0..Len(c)
      BY <1>1
    <3>2. p[k] \in X
      BY <2>2
    <3>3. p[k + 1] \in X
      BY <1>2, <1>15, <3>1, <3>2
    <3> QED BY <3>1, <3>3
  <2> HIDE DEF T
  <2> QED BY <1>1, <2>1, <2>2, InductionUpto
<1>17. Steps(p, c, n)
  BY <1>14, <1>15, <1>16 DEF Steps, X
<1> QED BY <1>10, <1>11, <1>17 DEF p

\* What was placed stays
LEMMA PlacedStays ==
  ASSUME NEW n \in Nat, NEW c, Allowed(c, n), NEW p, Steps(p, c, n)
  PROVE  \A k \in 0..Len(c) : \A x \in 1..k : p[Len(c)][x] = p[k][x]
<1> DEFINE T == {m \in 0..Len(c) : \A k \in 0..m : \A x \in 1..k : p[m][x] = p[k][x]}
<1>1. Len(c) \in Nat /\ Len(c) <= n
  BY DEF Allowed
<1>2. 0 \in T
  BY <1>1
<1>3. ASSUME NEW m \in 0..Len(c) - 1, m \in T PROVE m + 1 \in T
  <2>1. m + 1 \in 1..Len(c) /\ m + 1 \in 0..Len(c) /\ m + 1 \in 1..n /\ m \in 0..Len(c)
    BY <1>1
  <2>2. c[m + 1] \in m + 1..n /\ c[m + 1] \in 1..n
    BY <2>1 DEF Allowed
  <2>3. p[m] \in Orders(n) /\ p[m + 1] = Swapped(p[m], m + 1, c[m + 1])
    BY <2>1 DEF Steps
  <2>4. \A x \in 1..n : x # m + 1 /\ x # c[m + 1] => p[m + 1][x] = p[m][x]
    <3> DEFINE j == m + 1
               d == c[m + 1]
               a == p[m]
    <3>1. j \in 1..n /\ d \in 1..n /\ a \in Orders(n)
      BY <2>1, <2>2, <2>3
    <3>2. p[m + 1] = Swapped(a, j, d)
      BY <2>3
    <3> HIDE DEF j, d, a
    <3>3. \A x \in 1..n : x # j /\ x # d => Swapped(a, j, d)[x] = a[x]
      BY <3>1, SwapFacts
    <3> QED BY <3>2, <3>3 DEF j, d, a
  <2>5. ASSUME NEW k \in 0..m + 1, NEW x \in 1..k PROVE p[m + 1][x] = p[k][x]
    <3>1. CASE k = m + 1
      BY <3>1
    <3>2. CASE k # m + 1
      <4>1. k \in 0..m /\ x \in 1..n /\ x # m + 1 /\ x # c[m + 1]
        BY <2>1, <2>2, <3>2
      <4> QED BY <1>3, <2>4, <4>1
    <3> QED BY <3>1, <3>2
  <2> QED BY <2>1, <2>5
<1>4. \A m \in 0..Len(c) : m \in T
  <2> HIDE DEF T
  <2> QED BY <1>1, <1>2, <1>3, InductionUpto
<1>5. Len(c) \in T
  BY <1>1, <1>4
<1> QED BY <1>1, <1>5

LEMMA ChoicesAllowed ==
  ASSUME NEW n \in Nat, n > 1, NEW c \in ChoicesOf(n)
  PROVE  Allowed(c, n) /\ Len(c) = n - 1 /\ c \in [1..n - 1 -> 1..n]
<1>1. c \in [1..n - 1 -> 1..n] /\ \A k \in 1..n - 1 : c[k] \in k..n
  BY DEF ChoicesOf, Candidates
<1>2. n - 1 \in Nat
  OBVIOUS
<1>3. c \in Seq(1..n) /\ Len(c) = n - 1
  BY <1>1, <1>2
<1> QED BY <1>1, <1>3 DEF Allowed

\* Other choices, another order: at the first difference, different elements
\* are placed.
LEMMA ChoicesDiffer ==
  ASSUME NEW n \in Nat, n > 1, NEW c \in ChoicesOf(n), NEW d \in ChoicesOf(n),
         Shuffled(c, n) = Shuffled(d, n)
  PROVE  c = d
<1> DEFINE p == Positions(c, n)
           q == Positions(d, n)
           T == {m \in 0..n - 1 : p[m] = q[m] /\ \A k \in 1..m : c[k] = d[k]}
<1>1. Allowed(c, n) /\ Len(c) = n - 1 /\ c \in [1..n - 1 -> 1..n]
  BY ChoicesAllowed
<1>2. Allowed(d, n) /\ Len(d) = n - 1 /\ d \in [1..n - 1 -> 1..n]
  BY ChoicesAllowed
<1>3. Steps(p, c, n) /\ Shuffled(c, n) = p[n - 1]
  BY <1>1, Shuffling
<1>4. Steps(q, d, n) /\ Shuffled(d, n) = q[n - 1]
  BY <1>2, Shuffling
<1> HIDE DEF p, q
<1>5. \A k \in 0..n - 1 : \A x \in 1..k : p[n - 1][x] = p[k][x]
  BY <1>1, <1>3, PlacedStays
<1>6. \A k \in 0..n - 1 : \A x \in 1..k : q[n - 1][x] = q[k][x]
  BY <1>2, <1>4, PlacedStays
<1>7. p[n - 1] = q[n - 1]
  BY <1>3, <1>4
<1>8. 0 \in T
  BY <1>3, <1>4 DEF Steps
<1>9. ASSUME NEW m \in 0..(n - 1) - 1, m \in T PROVE m + 1 \in T
  <2> DEFINE j == m + 1
             e == c[j]
             f == d[j]
             a == p[m]
  <2>1. j \in 1..n - 1 /\ j \in 0..n - 1 /\ j \in 1..n /\ m \in 0..n - 1 /\ j \in 1..j
    OBVIOUS
  <2>2. p[m] = q[m] /\ \A k \in 1..m : c[k] = d[k]
    BY <1>9
  <2>3. a \in Orders(n) /\ p[j] = Swapped(a, j, e)
    BY <1>1, <1>3, <2>1 DEF Steps
  <2>4. q[j] = Swapped(a, j, f)
    BY <1>2, <1>4, <2>1, <2>2 DEF Steps
  <2>5. e \in 1..n /\ f \in 1..n
    BY <1>1, <1>2, <2>1
  <2>6. p[j][j] = q[j][j]
    BY <1>5, <1>6, <1>7, <2>1
  <2> HIDE DEF j, e, f, a
  <2>7. Swapped(a, j, e)[j] = a[e]
    BY <2>1, <2>3, <2>5, SwapFacts
  <2>8. Swapped(a, j, f)[j] = a[f]
    BY <2>1, <2>3, <2>5, SwapFacts
  <2>9. a[e] = a[f]
    BY <2>3, <2>4, <2>6, <2>7, <2>8
  <2>10. e = f
    BY <2>3, <2>5, <2>9 DEF Orders
  <2>11. p[j] = q[j]
    BY <2>3, <2>4, <2>10
  <2>12. \A k \in 1..j : c[k] = d[k]
    <3> TAKE k \in 1..j
    <3>1. k = j \/ k \in 1..m
      BY DEF j
    <3> QED BY <2>2, <2>10, <3>1 DEF e, f
  <2>13. j \in T
    BY <2>1, <2>11, <2>12
  <2> QED BY <2>13 DEF j
<1>10. \A m \in 0..n - 1 : m \in T
  <2>1. n - 1 \in Nat
    OBVIOUS
  <2> HIDE DEF T
  <2> QED BY <1>8, <1>9, <2>1, InductionUpto
<1>11. n - 1 \in T
  BY <1>10
<1>12. \A k \in 1..n - 1 : c[k] = d[k]
  BY <1>11
<1> QED BY <1>1, <1>2, <1>12

\* The first k elements are those of o
Begins(a, o, k) == \A x \in 1..k : a[x] = o[x]

\* What comes next in o is not placed yet
LEMMA NextUnplaced ==
  ASSUME NEW n \in Nat, NEW a \in Orders(n), NEW o \in Orders(n), NEW k \in 0..n - 1, Begins(a, o, k)
  PROVE  \E j \in k + 1..n : a[j] = o[k + 1]
<1>1. a \in Injection(1..n, 1..n)
  BY DEF Orders, Injection, IsInjective
<1>2. IsFiniteSet(1..n)
  BY FS_Interval
<1>3. a \in Surjection(1..n, 1..n)
  BY <1>1, <1>2, FS_Injection
<1>4. k + 1 \in 1..n /\ o[k + 1] \in 1..n
  BY DEF Orders
<1>5. PICK j \in 1..n : a[j] = o[k + 1]
  BY <1>3, <1>4 DEF Surjection
<1>6. j \notin 1..k
  <2> SUFFICES ASSUME j \in 1..k PROVE FALSE
    OBVIOUS
  <2>1. o[j] = o[k + 1] /\ j # k + 1
    BY <1>5 DEF Begins
  <2> QED BY <1>4, <2>1 DEF Orders
<1>7. j \in k + 1..n
  BY <1>6
<1> QED BY <1>5, <1>7

\* The choices that lead to o: each places what comes next
Place(a, k, o, n) == CHOOSE j \in k..n : a[j] = o[k]
Closer(a, k, o, n) == Swapped(a, k, Place(a, k, o, n))

LEMMA PlaceNext ==
  ASSUME NEW n \in Nat, NEW a \in Orders(n), NEW o \in Orders(n), NEW k \in 0..n - 1, Begins(a, o, k)
  PROVE  /\ Place(a, k + 1, o, n) \in k + 1..n
         /\ Closer(a, k + 1, o, n) \in Orders(n)
         /\ Begins(Closer(a, k + 1, o, n), o, k + 1)
<1> DEFINE m == k + 1
           j == Place(a, m, o, n)
<1>1. m \in 1..n
  OBVIOUS
<1>2. \E i \in m..n : a[i] = o[m]
  BY NextUnplaced
<1> HIDE DEF m
<1>3. j \in m..n /\ a[j] = o[m]
  BY <1>2 DEF Place
<1> HIDE DEF j
<1>4. j \in 1..n
  BY <1>1, <1>3
<1>5. /\ Swapped(a, m, j) \in Orders(n)
      /\ Swapped(a, m, j)[m] = a[j]
      /\ \A x \in 1..n : x # m /\ x # j => Swapped(a, m, j)[x] = a[x]
  BY <1>1, <1>4, SwapFacts
<1>6. Begins(Swapped(a, m, j), o, m)
  <2> SUFFICES ASSUME NEW x \in 1..m PROVE Swapped(a, m, j)[x] = o[x]
    BY DEF Begins
  <2>1. CASE x = m
    BY <1>3, <1>5, <2>1
  <2>2. CASE x # m
    <3>1. x \in 1..k /\ x \in 1..n /\ x # j
      BY <1>1, <1>3, <2>2 DEF m
    <3> QED BY <1>5, <2>2, <3>1 DEF Begins
  <2> QED BY <2>1, <2>2
<1>7. Closer(a, m, o, n) = Swapped(a, m, j)
  BY DEF Closer, j
<1> QED BY <1>3, <1>5, <1>6, <1>7 DEF j, m

LEMMA BeginsAll ==
  ASSUME NEW n \in Nat, NEW a \in Orders(n), NEW o \in Orders(n), n > 0, Begins(a, o, n - 1)
  PROVE  a = o
<1>1. n - 1 \in 0..n - 1 /\ (n - 1) + 1 = n
  OBVIOUS
<1>2. PICK j \in n..n : a[j] = o[n]
  BY <1>1, NextUnplaced
<1>3. a[n] = o[n]
  BY <1>2
<1>4. \A x \in 1..n : x = n \/ x \in 1..n - 1
  OBVIOUS
<1>5. \A x \in 1..n : a[x] = o[x]
  BY <1>3, <1>4 DEF Begins
<1> QED BY <1>5 DEF Orders

LEMMA EveryOrderReached ==
  ASSUME NEW n \in Nat, n > 1, NEW o \in Orders(n)
  PROVE  \E c \in ChoicesOf(n) : Shuffled(c, n) = o
<1> DEFINE X == Orders(n)
           Turn == [t \in Nat \X X |-> IF t[1] < n /\ Begins(t[2], o, t[1])
                                      THEN Closer(t[2], t[1] + 1, o, n) ELSE t[2]]
<1>1. \A k \in Nat, a \in X : k < n /\ Begins(a, o, k) => Closer(a, k + 1, o, n) \in X
  <2> TAKE k \in Nat, a \in X
  <2> HAVE k < n /\ Begins(a, o, k)
  <2>1. k \in 0..n - 1
    OBVIOUS
  <2> QED BY <2>1, PlaceNext
<1>2. Turn \in Bodies(Nat, X)
  <2> HIDE DEF X
  <2> QED BY <1>1 DEF Bodies
<1>3. \A k \in Nat, a \in X : k < n /\ Begins(a, o, k) => Turn[<<k, a>>] = Closer(a, k + 1, o, n)
  <2> HIDE DEF X
  <2> QED OBVIOUS
<1>4. Sorted(n) \in X
  BY SortedIsOrder
<1> HIDE DEF Turn
<1>5. PICK g : IsLoop(g, Nat, X, Sorted(n), Turn)
  <2> HIDE DEF X
  <2> QED BY <1>2, <1>4, LoopExists
<1>6. g[0] = Sorted(n) /\ \A k \in Nat : g[k] \in X /\ g[k + 1] = Turn[<<k, g[k]>>]
  BY <1>5 DEF IsLoop
<1> HIDE DEF X
<1> DEFINE T == {k \in 0..n - 1 : Begins(g[k], o, k)}
<1>7. \A k \in 0..n - 1 : k \in T
  <2>1. 0 \in T
    BY DEF Begins
  <2>2. ASSUME NEW k \in 0..(n - 1) - 1, k \in T PROVE k + 1 \in T
    <3>1. k \in Nat /\ k < n /\ k \in 0..n - 1 /\ k + 1 \in 0..n - 1
      OBVIOUS
    <3>2. g[k + 1] = Closer(g[k], k + 1, o, n)
      BY <1>3, <1>6, <2>2, <3>1
    <3>3. g[k] \in Orders(n) /\ Begins(g[k], o, k)
      BY <1>6, <2>2, <3>1 DEF X
    <3>4. Begins(Closer(g[k], k + 1, o, n), o, k + 1)
      <4> DEFINE a == g[k]
      <4> HIDE DEF a
      <4>1. a \in Orders(n) /\ Begins(a, o, k)
        BY <3>3 DEF a
      <4>2. Begins(Closer(a, k + 1, o, n), o, k + 1)
        BY <3>1, <4>1, PlaceNext
      <4> QED BY <4>2 DEF a
    <3> QED BY <3>1, <3>2, <3>4
  <2>3. n - 1 \in Nat
    OBVIOUS
  <2> HIDE DEF T
  <2> QED BY <2>1, <2>2, <2>3, InductionUpto
<1> DEFINE c == [k \in 1..n - 1 |-> Place(g[k - 1], k, o, n)]
<1>8. \A k \in 0..n - 2 : Place(g[k], k + 1, o, n) \in k + 1..n
  <2> TAKE k \in 0..n - 2
  <2>1. k \in 0..n - 1 /\ k \in Nat
    OBVIOUS
  <2>2. g[k] \in Orders(n) /\ Begins(g[k], o, k)
    BY <1>6, <1>7, <2>1 DEF X
  <2> DEFINE a == g[k]
  <2> HIDE DEF a
  <2>3. a \in Orders(n) /\ Begins(a, o, k)
    BY <2>2 DEF a
  <2>4. Place(a, k + 1, o, n) \in k + 1..n
    BY <2>1, <2>3, PlaceNext
  <2> QED BY <2>4 DEF a
<1>9. \A k \in 1..n - 1 : c[k] = Place(g[k - 1], k, o, n) /\ c[k] \in k..n
  <2> TAKE k \in 1..n - 1
  <2>1. k - 1 \in 0..n - 2 /\ (k - 1) + 1 = k
    OBVIOUS
  <2>2. c[k] = Place(g[k - 1], k, o, n)
    OBVIOUS
  <2>3. Place(g[k - 1], (k - 1) + 1, o, n) \in (k - 1) + 1..n
    BY <1>8, <2>1
  <2> QED BY <2>1, <2>2, <2>3
<1>10. c \in ChoicesOf(n)
  <2>1. DOMAIN c = 1..n - 1 /\ c = [k \in 1..n - 1 |-> c[k]]
    OBVIOUS
  <2> HIDE DEF c
  <2>2. c \in [1..(n - 1) -> 1..n]
    BY <1>9, <2>1
  <2> QED BY <1>9, <2>2 DEF ChoicesOf, Candidates
<1> HIDE DEF c
<1>11. Allowed(c, n) /\ Len(c) = n - 1
  BY <1>10, ChoicesAllowed
<1> DEFINE p == Positions(c, n)
<1>12. Steps(p, c, n) /\ Shuffled(c, n) = p[n - 1]
  BY <1>11, Shuffling
<1> HIDE DEF p
<1> DEFINE U == {k \in 0..n - 1 : p[k] = g[k]}
<1>13. \A k \in 0..n - 1 : k \in U
  <2>1. 0 \in U
    BY <1>6, <1>12 DEF Steps
  <2>2. ASSUME NEW k \in 0..(n - 1) - 1, k \in U PROVE k + 1 \in U
    <3>1. k \in Nat /\ k < n /\ k \in 0..n - 1 /\ k + 1 \in 0..n - 1 /\ k + 1 \in 1..n - 1 /\ (k + 1) - 1 = k
      OBVIOUS
    <3>2. p[k + 1] = Swapped(p[k], k + 1, c[k + 1])
      BY <1>11, <1>12 DEF Steps
    <3>3. c[k + 1] = Place(g[k], k + 1, o, n)
      BY <1>9, <3>1
    <3>4. g[k + 1] = Closer(g[k], k + 1, o, n)
      BY <1>3, <1>6, <1>7, <3>1
    <3>5. p[k] = g[k]
      BY <2>2
    <3> QED BY <3>1, <3>2, <3>3, <3>4, <3>5 DEF Closer
  <2>3. n - 1 \in Nat
    OBVIOUS
  <2> HIDE DEF U
  <2> QED BY <2>1, <2>2, <2>3, InductionUpto
<1>14. n - 1 \in 0..n - 1 /\ n - 1 \in Nat
  OBVIOUS
<1>15. g[n - 1] = o
  <2> DEFINE a == g[n - 1]
  <2>1. a \in Orders(n) /\ Begins(a, o, n - 1)
    BY <1>6, <1>7, <1>14 DEF X
  <2> HIDE DEF a
  <2>2. a = o
    BY <2>1, BeginsAll
  <2> QED BY <2>2 DEF a
<1>16. Shuffled(c, n) = o
  BY <1>12, <1>13, <1>14, <1>15
<1> QED BY <1>10, <1>16

LEMMA EveryOrderOnce ==
  ASSUME NEW n \in Nat, n > 1, NEW o \in Orders(n)
  PROVE  Cardinality({c \in ChoicesOf(n) : Shuffled(c, n) = o}) = 1
<1>1. PICK d \in ChoicesOf(n) : Shuffled(d, n) = o
  BY EveryOrderReached
<1>2. \A c \in ChoicesOf(n) : Shuffled(c, n) = o => c = d
  BY <1>1, ChoicesDiffer
<1>3. {c \in ChoicesOf(n) : Shuffled(c, n) = o} = {d}
  BY <1>1, <1>2
<1> QED BY <1>3, FS_Singleton

(***************************************************************************)
(* The program                                                             *)
(***************************************************************************)
RangeInv == /\ range \in 0..WORDS
            /\ doing = "draw" => range # 0
            /\ doing = "shuffle" => range = 0
            /\ number \in Nat
            /\ doing = "idle" /\ range # 0 => number < range
ShuffleInv == /\ array \in Orders(Len(array)) /\ Len(array) \in Nat
              /\ Allowed(choices, Len(array))
              /\ array = Shuffled(choices, Len(array))
              /\ doing = "shuffle" => at = Len(choices) + 1 /\ at < Len(array)
RandomInv == RangeInv /\ ShuffleInv

\* An order is a sequence
LEMMA OrderLength ==
  ASSUME NEW n \in Nat, NEW a \in Orders(n)
  PROVE  Len(a) = n
BY DEF Orders

LEMMA NoChoices ==
  ASSUME NEW n \in Nat
  PROVE  /\ Sorted(n) \in Orders(n) /\ Len(Sorted(n)) = n
         /\ Allowed(<<>>, n) /\ Shuffled(<<>>, n) = Sorted(n)
<1>1. Sorted(n) \in Orders(n)
  BY SortedIsOrder
<1>2. Allowed(<<>>, n) /\ Len(<<>>) = 0
  BY DEF Allowed
<1>3. Shuffled(<<>>, n) = Positions(<<>>, n)[0] /\ Positions(<<>>, n)[0] = Sorted(n)
  BY <1>2, Shuffling DEF Steps
<1> QED BY <1>1, <1>2, <1>3, OrderLength

LEMMA NothingShuffled ==
  ASSUME array = <<>>, choices = <<>>, doing # "shuffle"
  PROVE  ShuffleInv
<1>1. <<>> = Sorted(0) /\ Len(<<>>) = 0
  BY DEF Sorted
<1> QED BY <1>1, NoChoices DEF ShuffleInv

LEMMA OneMore ==
  ASSUME NEW n \in Nat, NEW c, Allowed(c, n), Len(c) < n, NEW j \in Len(c) + 1..n
  PROVE  Allowed(Append(c, j), n) /\ Shuffled(Append(c, j), n) = Swapped(Shuffled(c, n), Len(c) + 1, j)
<1> DEFINE d == Append(c, j)
           p == Positions(c, n)
           q == Positions(d, n)
           m == Len(c)
<1>1. c \in Seq(1..n) /\ m \in Nat /\ m < n /\ \A k \in 1..m : c[k] \in k..n
  BY DEF Allowed
<1>2. j \in 1..n
  BY <1>1
<1>3. d \in Seq(1..n) /\ Len(d) = m + 1 /\ d[m + 1] = j /\ \A k \in 1..m : d[k] = c[k]
  BY <1>1, <1>2
<1> HIDE DEF d, m
<1>4. Allowed(d, n)
  <2>1. \A k \in 1..m + 1 : d[k] \in k..n
    <3> TAKE k \in 1..m + 1
    <3>1. k = m + 1 \/ k \in 1..m
      BY <1>1
    <3> QED BY <1>1, <1>3, <3>1 DEF m
  <2>2. m + 1 <= n
    BY <1>1
  <2> QED BY <1>3, <2>1, <2>2 DEF Allowed
<1>5. Steps(p, c, n) /\ Shuffled(c, n) = p[m]
  BY Shuffling DEF m
<1>6. Steps(q, d, n) /\ Shuffled(d, n) = q[m + 1]
  BY <1>3, <1>4, Shuffling
<1> HIDE DEF p, q
<1> DEFINE U == {k \in 0..m : p[k] = q[k]}
<1>7. \A k \in 0..m : k \in U
  <2>1. 0 \in U
    BY <1>1, <1>5, <1>6 DEF Steps
  <2>2. ASSUME NEW k \in 0..m - 1, k \in U PROVE k + 1 \in U
    <3>1. k \in 0..(m + 1) - 1 /\ k + 1 \in 1..m /\ k + 1 \in 0..m
      BY <1>1
    <3>2. p[k + 1] = Swapped(p[k], k + 1, c[k + 1])
      BY <1>5 DEF Steps, m
    <3>3. q[k + 1] = Swapped(q[k], k + 1, d[k + 1])
      BY <1>3, <1>6, <3>1 DEF Steps
    <3>4. p[k] = q[k] /\ d[k + 1] = c[k + 1]
      BY <1>3, <2>2, <3>1
    <3> QED BY <3>1, <3>2, <3>3, <3>4
  <2> HIDE DEF U
  <2> QED BY <1>1, <2>1, <2>2, InductionUpto
<1>8. p[m] = q[m]
  BY <1>1, <1>7
<1>9. q[m + 1] = Swapped(q[m], m + 1, d[m + 1])
  <2>1. m \in 0..(m + 1) - 1
    BY <1>1
  <2> QED BY <1>3, <1>6, <2>1 DEF Steps
<1> QED BY <1>3, <1>4, <1>5, <1>6, <1>8, <1>9 DEF d, m

LEMMA RandomInvInit ==
  RandomAssumptions /\ RandomInit => RandomInv
<1> SUFFICES ASSUME RandomAssumptions, RandomInit PROVE RandomInv
  OBVIOUS
<1>1. RangeInv
  BY WordsAreHalves DEF RandomInit, RangeInv
<1>2. ShuffleInv
  BY NothingShuffled DEF RandomInit
<1> QED BY <1>1, <1>2 DEF RandomInv

LEMMA RandomRangeStep ==
  ASSUME RandomAssumptions, RandomInv, NEW n \in 1..WORDS, random_range(n)
  PROVE  RandomInv'
<1>1. RangeInv'
  BY WordsAreHalves DEF random_range, RangeInv
<1>2. array' = <<>> /\ choices' = <<>> /\ doing' # "shuffle"
  BY DEF random_range
<1>3. ShuffleInv'
  <2>1. <<>> = Sorted(0) /\ Len(<<>>) = 0
    BY DEF Sorted
  <2>2. <<>> \in Orders(0) /\ Allowed(<<>>, 0) /\ <<>> = Shuffled(<<>>, 0)
    BY <2>1, NoChoices
  <2> QED BY <1>2, <2>1, <2>2 DEF ShuffleInv
<1> QED BY <1>1, <1>3 DEF RandomInv

\* What is drawn is in the range
LEMMA HighInRange ==
  ASSUME RandomAssumptions, NEW n \in 1..WORDS - 1, NEW x \in RawWords
  PROVE  mul_u64(x, n).h \in 0..n - 1
<1> DEFINE h == mul_u64(x, n).h
           l == mul_u64(x, n).l
<1>1. WORDS \in Nat /\ n \in RawWords /\ x \in Nat /\ x < WORDS /\ n \in Nat
  BY WordsAreHalves DEF RawWords
<1>2. h \in Nat /\ l \in 0..WORDS - 1 /\ x * n = h * WORDS + l
  BY <1>1, ProductExact
<1> HIDE DEF h, l
<1>3. ~(n <= h)
  <2> SUFFICES ASSUME n <= h PROVE FALSE
    OBVIOUS
  <2>1. n * WORDS <= h * WORDS
    BY <1>1, <1>2, Ordered
  <2>2. x * n + n <= WORDS * n
    BY <1>1, OneMultiple
  <2>3. n * WORDS = WORDS * n /\ n * WORDS \in Nat /\ h * WORDS \in Nat /\ x * n \in Nat
    BY <1>1, <1>2
  <2> QED BY <1>1, <1>2, <2>1, <2>2, <2>3
<1> QED BY <1>1, <1>2, <1>3 DEF h

LEMMA DrawStep ==
  ASSUME RandomAssumptions, RandomInv, NEW x \in RawWords, draw(x)
  PROVE  RandomInv'
<1>1. WORDS \in Nat /\ x \in Nat /\ x < WORDS
  BY WordsAreHalves DEF RawWords
<1>2. range \in 1..WORDS /\ range' = range /\ doing = "draw"
  BY <1>1 DEF RandomInv, RangeInv, draw
<1>3. doing' \in {"idle", "draw"} /\ number' \in Nat /\ (doing' = "idle" => number' < range)
  <2>1. CASE range = WORDS
    BY <1>1, <2>1 DEF draw
  <2>2. CASE range # WORDS /\ Accepted(x, range)
    <3>1. range \in 1..WORDS - 1
      BY <1>1, <1>2, <2>2
    <3>2. mul_u64(x, range).h \in 0..range - 1
      BY <3>1, HighInRange
    <3>3. doing' = "idle" /\ number' = mul_u64(x, range).h
      BY <2>2 DEF draw
    <3> QED BY <1>2, <3>2, <3>3
  <2>3. CASE range # WORDS /\ ~Accepted(x, range)
    BY <1>2, <2>3 DEF draw, RandomInv, RangeInv
  <2> QED BY <2>1, <2>2, <2>3
<1>4. RangeInv'
  BY <1>1, <1>2, <1>3 DEF RangeInv
<1>5. ShuffleInv'
  BY <1>3 DEF draw, RandomInv, ShuffleInv
<1> QED BY <1>4, <1>5 DEF RandomInv

LEMMA RandomizeStep ==
  ASSUME RandomAssumptions, RandomInv, NEW n \in 0..MaxLength, randomize_array(n)
  PROVE  RandomInv'
<1>1. RangeInv'
  BY WordsAreHalves DEF randomize_array, RangeInv
<1>2. n \in Nat
  BY DEF RandomAssumptions
<1>3. /\ Sorted(n) \in Orders(n) /\ Len(Sorted(n)) = n
      /\ Allowed(<<>>, n) /\ Shuffled(<<>>, n) = Sorted(n)
  BY <1>2, NoChoices
<1>4. array' = Sorted(n) /\ choices' = <<>> /\ at' = 1 /\ (doing' = "shuffle" => 1 < n)
  BY <1>2 DEF randomize_array
<1>5. Len(<<>>) + 1 = 1
  OBVIOUS
<1>6. ShuffleInv'
  BY <1>2, <1>3, <1>4, <1>5 DEF ShuffleInv
<1> QED BY <1>1, <1>6 DEF RandomInv

LEMMA SwapStep ==
  ASSUME RandomAssumptions, RandomInv, NEW j \in Candidates(at, Len(array)), swap(j)
  PROVE  RandomInv'
<1> DEFINE n == Len(array)
<1>1. /\ n \in Nat /\ array \in Orders(n) /\ Allowed(choices, n) /\ array = Shuffled(choices, n)
      /\ at = Len(choices) + 1 /\ at < n
  BY DEF RandomInv, ShuffleInv, swap
<1>2. Len(choices) \in Nat /\ Len(choices) < n
  BY <1>1 DEF Allowed
<1>3. j \in Len(choices) + 1..n
  BY <1>1 DEF Candidates
<1>4. at \in 1..n /\ j \in 1..n
  BY <1>1, <1>2, <1>3
<1>5. array' = Swapped(array, at, j) /\ choices' = Append(choices, j) /\ at' = at + 1
      /\ (doing' = "shuffle" => at' < Len(array'))
  <2>1. /\ array' = Swapped(array, at, j) /\ choices' = Append(choices, j) /\ at' = at + 1
        /\ (doing' = "shuffle" => at' < n)
    BY DEF swap
  <2>2. Len(array') = n
    <3> DEFINE a == array
    <3>1. a \in Orders(n)
      BY <1>1
    <3> HIDE DEF a, n
    <3>2. Swapped(a, at, j) \in Orders(n)
      BY <1>1, <1>4, <3>1, SwapFacts
    <3> QED BY <1>1, <2>1, <3>2, OrderLength DEF a
  <2> QED BY <2>1, <2>2
<1>6. array' \in Orders(n)
  <2> HIDE DEF n
  <2> QED BY <1>1, <1>4, <1>5, SwapFacts
<1>7. Len(array') = n
  <2> HIDE DEF n
  <2> QED BY <1>1, <1>6, OrderLength
<1>8. Allowed(choices', n) /\ array' = Shuffled(choices', n)
  <2> HIDE DEF n
  <2> QED BY <1>1, <1>2, <1>3, <1>5, OneMore
<1>9. Len(choices') = Len(choices) + 1
  BY <1>1, <1>4, <1>5 DEF Allowed
<1> HIDE DEF n
<1>10. ShuffleInv'
  BY <1>1, <1>5, <1>6, <1>7, <1>8, <1>9 DEF ShuffleInv
<1>11. RangeInv'
  BY DEF RandomInv, RangeInv, swap
<1> QED BY <1>10, <1>11 DEF RandomInv

LEMMA RandomInvInductive ==
  ASSUME RandomAssumptions, RandomInv, [RandomNext]_random_vars
  PROVE  RandomInv'
<1>1. CASE UNCHANGED random_vars
  BY <1>1 DEF random_vars, RandomInv, RangeInv, ShuffleInv
<1>2. CASE RandomNext
  BY <1>2, RandomRangeStep, DrawStep, RandomizeStep, SwapStep DEF RandomNext
<1> QED BY <1>1, <1>2

LEMMA NumbersEven ==
  ASSUME RandomAssumptions, RandomInv
  PROVE  EvenNumbers
<1> SUFFICES ASSUME range # 0
             PROVE  /\ \A v \in 0..(range - 1) : Cardinality(WordsFor(v)) = WORDS \div range
                    /\ doing = "idle" => number < range
  BY DEF EvenNumbers
<1>1. WORDS \in Nat \ {0} /\ range \in 1..WORDS
  BY WordsAreHalves DEF RandomInv, RangeInv
<1>2. ASSUME NEW v \in 0..(range - 1) PROVE Cardinality(WordsFor(v)) = WORDS \div range
  <2>1. CASE range = WORDS
    <3>1. WordsFor(v) = {v}
      BY <1>1, <2>1 DEF WordsFor, RawWords
    <3>2. (1 * WORDS + 0) \div WORDS = 1
      BY <1>1, UniqueDivision
    <3>3. WORDS \div range = 1
      BY <1>1, <2>1, <3>2
    <3> QED BY <3>1, <3>3, FS_Singleton
  <2>2. CASE range # WORDS
    <3>1. range \in 1..WORDS - 1
      BY <1>1, <2>2
    <3>2. WordsFor(v) = {x \in RawWords : Accepted(x, range) /\ mul_u64(x, range).h = v}
      BY <2>2 DEF WordsFor
    <3> QED BY <3>1, <3>2, EveryNumberEvenly DEF quota
  <2> QED BY <2>1, <2>2
<1>3. doing = "idle" => number < range
  BY DEF RandomInv, RangeInv
<1> QED BY <1>2, <1>3

LEMMA OrdersEven ==
  ASSUME RandomInv
  PROVE  EvenOrders
<1> DEFINE n == Len(array)
<1>1. n \in Nat /\ array = Shuffled(choices, n)
  BY DEF RandomInv, ShuffleInv
<1>2. n > 1 => \A o \in Orders(n) : Cardinality({c \in ChoicesOf(n) : Shuffled(c, n) = o}) = 1
  <2> HIDE DEF n
  <2> QED BY <1>1, EveryOrderOnce
<1> HIDE DEF n
<1>3. /\ array = Shuffled(choices, n)
      /\ doing = "idle" /\ n > 1 =>
           \A o \in Orders(n) : Cardinality({c \in ChoicesOf(n) : Shuffled(c, n) = o}) = 1
  BY <1>1, <1>2
<1> QED BY <1>3 DEF EvenOrders, n

\* Whatever the width of a word: each number of any range comes from the same
\* number of words, the product of two words is exact though it is computed
\* from halves, no number is outside the range, and each order of an array of
\* any length comes from exactly one sequence of choices (random.c).
THEOREM RandomEven == RandomAssumptions => (RandomSpec => []EvenChances)
<1> SUFFICES ASSUME RandomAssumptions PROVE RandomSpec => []EvenChances
  OBVIOUS
<1>1. RandomInit => RandomInv
  BY RandomInvInit
<1>2. RandomInv /\ [RandomNext]_random_vars => RandomInv'
  BY RandomInvInductive
<1>3. RandomInv => EvenChances
  BY NumbersEven, OrdersEven DEF EvenChances
<1> QED BY <1>1, <1>2, <1>3, PTL DEF RandomSpec

LEMMA MinIs ==
  ASSUME NEW S \in SUBSET Nat, NEW m \in S, \A x \in S : m <= x
  PROVE  Min(S) = m
<1>1. Min(S) \in S /\ \A x \in S : Min(S) <= x
  BY MinFacts
<1>2. Min(S) \in Nat /\ m \in Nat
  BY <1>1
<1> QED BY <1>1, <1>2

(***************************************************************************)
(* Strings: looking for something                                          *)
(***************************************************************************)
LEMMA CanonFacts ==
  ASSUME NEW fold \in BOOLEAN
  PROVE  Canon(fold) \in [Letters -> Letters]
BY DEF Canon, Lower, Unchanged, Letters

\* A match ends at e, counting from 0
EndsAt(t, s, e, canon) == EqualAt(t, e - (Len(s) - 1), s, Len(s), canon)

\* A step is no longer than the way to a previous occurrence of the last
\* character
LEMMA StepFacts ==
  ASSUME NEW s \in Seq(Letters), s # <<>>, NEW canon
  PROVE  /\ steplen(s, canon) \in 1..Len(s)
         /\ \A j \in 1..Len(s) - 1 : canon[s[j]] = canon[Last(s)] => steplen(s, canon) <= Len(s) - j
<1> DEFINE S == {Len(s)} \cup {Len(s) - j : j \in {k \in 1..(Len(s) - 1) : canon[s[k]] = canon[Last(s)]}}
<1>1. Len(s) \in Nat /\ Len(s) > 0
  OBVIOUS
<1>2. S \in SUBSET Nat /\ S # {} /\ S \subseteq 1..Len(s)
  BY <1>1
<1>3. \A j \in 1..Len(s) - 1 : canon[s[j]] = canon[Last(s)] => Len(s) - j \in S
  OBVIOUS
<1>4. steplen(s, canon) = Min(S)
  BY DEF steplen
<1> HIDE DEF S
<1>5. Min(S) \in S /\ \A x \in S : Min(S) <= x
  BY <1>2, MinFacts
<1> QED BY <1>2, <1>3, <1>4, <1>5

\* A match ends with its last character
LEMMA MatchEnds ==
  ASSUME NEW s \in Seq(Letters), s # <<>>, NEW t \in Seq(Letters), NEW canon, NEW e \in Len(s) - 1..Len(t) - 1
  PROVE  EndsAt(t, s, e, canon) <=>
           /\ canon[t[e + 1]] = canon[Last(s)]
           /\ EqualAt(t, e - (Len(s) - 1), s, Len(s) - 1, canon)
<1> DEFINE n == Len(s)
           b == e - (n - 1)
<1>1. n \in Nat /\ n > 0 /\ b \in Nat /\ b + n = e + 1
  OBVIOUS
<1>2. Last(s) = s[n]
  BY DEF Last
<1> HIDE DEF n, b
<1>3. \A k \in 1..n : k = n \/ k \in 1..n - 1
  BY <1>1
<1>4. n \in 1..n /\ \A k \in 1..n - 1 : k \in 1..n
  BY <1>1
<1>5. (\A k \in 1..n : canon[t[b + k]] = canon[s[k]]) <=>
        canon[t[e + 1]] = canon[Last(s)] /\ \A k \in 1..n - 1 : canon[t[b + k]] = canon[s[k]]
  BY <1>1, <1>2, <1>3, <1>4
<1> QED BY <1>5 DEF EndsAt, EqualAt, n, b

\* No match ends from i up to where the next turn begins, but at the place
\* where a turn looks
LEMMA TurnSkipsNothing ==
  ASSUME NEW s \in Seq(Letters), s # <<>>, NEW t \in Seq(Letters), NEW canon,
         NEW i \in Len(s) - 1..Len(t) - 1, LastAt(t, s, i, canon) # {}
  PROVE  LET p == Min(LastAt(t, s, i, canon)) IN
         /\ p \in i..Len(t) - 1 /\ canon[t[p + 1]] = canon[Last(s)]
         /\ \A e \in i..p - 1 : ~EndsAt(t, s, e, canon)
         /\ ~Ended(t, s, i, canon) => \A e \in i..Len(t) - 1 : e < i + steplen(s, canon) => ~EndsAt(t, s, e, canon)
         /\ Ended(t, s, i, canon) => EndsAt(t, s, p, canon)
<1> DEFINE S == LastAt(t, s, i, canon)
           p == Min(S)
           n == Len(s)
           step == steplen(s, canon)
<1>1. n \in Nat /\ n > 0 /\ Len(t) \in Nat /\ i \in Nat
  OBVIOUS
<1>2. S \in SUBSET Nat /\ S # {} /\ \A k \in i..Len(t) - 1 : k \in S <=> canon[t[k + 1]] = canon[Last(s)]
  BY <1>1 DEF LastAt
<1>3. p \in S /\ \A x \in S : p <= x
  <2> HIDE DEF S
  <2> QED BY <1>2, MinFacts
<1>4. p \in i..Len(t) - 1
  BY <1>3 DEF LastAt
<1>5. \A e \in i..p - 1 : canon[t[e + 1]] # canon[Last(s)]
  <2> HIDE DEF S, p
  <2> TAKE e \in i..p - 1
  <2>1. e \in i..Len(t) - 1 /\ ~(p <= e)
    BY <1>1, <1>4
  <2>2. e \notin S
    BY <1>3, <2>1
  <2> QED BY <1>2, <2>1, <2>2
<1> HIDE DEF S, p, n, step
<1>6. ASSUME NEW e \in i..p - 1 PROVE ~EndsAt(t, s, e, canon)
  <2>1. e \in Len(s) - 1..Len(t) - 1
    BY <1>1, <1>4
  <2> QED BY <1>5, <2>1, MatchEnds
<1>7. p \in Len(s) - 1..Len(t) - 1 /\ canon[t[p + 1]] = canon[Last(s)]
  BY <1>1, <1>2, <1>3, <1>4
<1>8. EndsAt(t, s, p, canon) <=> EqualAt(t, check_start(t, s, i, canon), s, Len(s) - 1, canon)
  BY <1>7, MatchEnds DEF check_start, p, S
<1>9. Ended(t, s, i, canon) <=> EndsAt(t, s, p, canon)
  BY <1>8 DEF Ended
<1>10. step \in 1..n /\ \A j \in 1..n - 1 : canon[s[j]] = canon[Last(s)] => step <= n - j
  BY StepFacts DEF step, n
<1>11. ASSUME ~Ended(t, s, i, canon), NEW e \in i..Len(t) - 1, e < i + step PROVE ~EndsAt(t, s, e, canon)
  <2>1. CASE e < p
    BY <1>1, <1>4, <1>6, <2>1
  <2>2. CASE e = p
    BY <1>9, <1>11, <2>2
  <2>3. CASE e > p
    <3> SUFFICES ASSUME EndsAt(t, s, e, canon) PROVE FALSE
      OBVIOUS
    <3> DEFINE j == n - (e - p)
    <3>1. j \in 1..n - 1 /\ n - j < step
      BY <1>1, <1>4, <1>10, <1>11, <2>3
    <3>2. (e - (n - 1)) + j = p + 1 /\ j \in 1..n
      BY <1>1, <1>4, <3>1
    <3>3. canon[t[(e - (n - 1)) + j]] = canon[s[j]]
      BY <3>2 DEF EndsAt, EqualAt, n
    <3> HIDE DEF j
    <3>4. canon[s[j]] = canon[Last(s)]
      BY <1>7, <3>2, <3>3
    <3>5. step <= n - j
      BY <1>10, <3>1, <3>4
    <3> QED BY <1>1, <1>10, <3>1, <3>5
  <2> QED BY <1>1, <1>4, <2>1, <2>2, <2>3
<1> QED BY <1>4, <1>6, <1>7, <1>9, <1>11 DEF p, S, step

Ends(t, s, canon) == {e \in Len(s) - 1..Len(t) - 1 : EndsAt(t, s, e, canon)}
SearchesFrom(s, turn, canon) == Len(s) - 1 + turn * steplen(s, canon)

LEMMA FromFacts ==
  ASSUME NEW s \in Seq(Letters), s # <<>>, NEW canon, NEW k \in Nat
  PROVE  /\ SearchesFrom(s, k, canon) \in Nat /\ SearchesFrom(s, k, canon) >= Len(s) - 1 /\ SearchesFrom(s, k, canon) >= k
         /\ SearchesFrom(s, 0, canon) = Len(s) - 1
         /\ SearchesFrom(s, k + 1, canon) = SearchesFrom(s, k, canon) + steplen(s, canon)
<1> DEFINE step == steplen(s, canon)
           n == Len(s)
<1>1. step \in 1..n /\ n \in Nat
  BY StepFacts
<1> HIDE DEF step, n
<1>2. k * step \in Nat /\ (k + 1) * step = k * step + step /\ 0 * step = 0
  BY <1>1
<1>3. k * 1 <= k * step
  <2>1. step - 1 \in Nat /\ k * (step - 1) \in Nat /\ k * (step - 1) = k * step - k
    BY <1>1
  <2> QED BY <1>2, <2>1
<1>4. n - 1 \in Nat
  BY <1>1
<1>5. SearchesFrom(s, k, canon) = n - 1 + k * step
  BY DEF SearchesFrom, n, step
<1>6. SearchesFrom(s, k + 1, canon) = n - 1 + (k + 1) * step
  BY DEF SearchesFrom, n, step
<1>7. SearchesFrom(s, 0, canon) = n - 1 + 0 * step
  BY DEF SearchesFrom, n, step
<1> DEFINE ks == k * step
<1>8. ks \in Nat /\ k <= ks
  BY <1>2, <1>3
<1>9. SearchesFrom(s, k, canon) = n - 1 + ks /\ SearchesFrom(s, k + 1, canon) = n - 1 + ks + step /\ SearchesFrom(s, 0, canon) = n - 1
  BY <1>1, <1>2, <1>5, <1>6, <1>7
<1> HIDE DEF ks
<1>10. SearchesFrom(s, k, canon) \in Nat /\ SearchesFrom(s, k, canon) >= n - 1 /\ SearchesFrom(s, k, canon) >= k
  BY <1>1, <1>4, <1>8, <1>9
<1>11. SearchesFrom(s, k + 1, canon) = SearchesFrom(s, k, canon) + step
  BY <1>1, <1>8, <1>9
<1> QED BY <1>9, <1>10, <1>11 DEF n, step

\* Turns that do not end the search leave no match behind
LEMMA NoneBefore ==
  ASSUME NEW s \in Seq(Letters), s # <<>>, NEW t \in Seq(Letters), NEW canon, NEW m \in Nat,
         \A k \in 0..m - 1 : SearchesFrom(s, k, canon) < Len(t) => ~Ended(t, s, SearchesFrom(s, k, canon), canon)
  PROVE  \A e \in Len(s) - 1..Len(t) - 1 : e < SearchesFrom(s, m, canon) => ~EndsAt(t, s, e, canon)
<1> DEFINE T == {k \in 0..m : \A e \in Len(s) - 1..Len(t) - 1 :
                               e < SearchesFrom(s, k, canon) => ~EndsAt(t, s, e, canon)}
<1>1. Len(s) \in Nat /\ Len(t) \in Nat /\ Len(s) > 0
  OBVIOUS
<1>2. 0 \in T
  <2>1. SearchesFrom(s, 0, canon) = Len(s) - 1
    BY FromFacts
  <2> QED BY <1>1, <2>1
<1>3. ASSUME NEW k \in 0..m - 1, k \in T PROVE k + 1 \in T
  <2> DEFINE i == SearchesFrom(s, k, canon)
             j == SearchesFrom(s, k + 1, canon)
             step == steplen(s, canon)
  <2>1. i \in Nat /\ i >= Len(s) - 1 /\ j = i + step
    BY FromFacts
  <2>2. \A e \in Len(s) - 1..Len(t) - 1 : e < i => ~EndsAt(t, s, e, canon)
    BY <1>3
  <2>3. i < Len(t) => ~Ended(t, s, i, canon)
    OBVIOUS
  <2>4. step \in 1..Len(s)
    BY StepFacts
  <2> HIDE DEF i, j, step
  <2>5. ASSUME NEW e \in Len(s) - 1..Len(t) - 1, e < j PROVE ~EndsAt(t, s, e, canon)
    <3>1. CASE e < i
      BY <2>2, <3>1
    <3>2. CASE i <= e
      <4>1. i \in Len(s) - 1..Len(t) - 1 /\ e \in i..Len(t) - 1 /\ e < i + step /\ i < Len(t)
        BY <1>1, <2>1, <2>4, <2>5, <3>2
      <4>2. ~Ended(t, s, i, canon) /\ LastAt(t, s, i, canon) # {}
        BY <2>3, <4>1 DEF Ended
      <4> QED BY <4>1, <4>2, TurnSkipsNothing DEF step
    <3> QED BY <2>1, <3>1, <3>2
  <2>6. \A e \in Len(s) - 1..Len(t) - 1 : e < SearchesFrom(s, k + 1, canon) => ~EndsAt(t, s, e, canon)
    BY <2>5 DEF j
  <2> QED BY <2>6
<1>4. \A k \in 0..m : k \in T
  <2> HIDE DEF T
  <2> QED BY <1>2, <1>3, InductionUpto
<1>5. m \in T
  BY <1>4
<1> QED BY <1>5

\* The loop of string_search()
LEMMA SearchFinds ==
  ASSUME NEW s \in Seq(Letters), s # <<>>, NEW t \in Seq(Letters), NEW canon
  PROVE  /\ Ends(t, s, canon) = {} => SearchFrom(t, s, canon) = -1
         /\ Ends(t, s, canon) # {} => SearchFrom(t, s, canon) = Min(Ends(t, s, canon)) - (Len(s) - 1)
<1> DEFINE last == {k \in 0..Len(t) : SearchesFrom(s, k, canon) < Len(t) /\ Ended(t, s, SearchesFrom(s, k, canon), canon)}
           m == Min(last)
           i == SearchesFrom(s, m, canon)
           p == Min(LastAt(t, s, i, canon))
           M == Ends(t, s, canon)
<1>1. Len(s) \in Nat /\ Len(t) \in Nat /\ Len(s) > 0
  OBVIOUS
<1>2. SearchFrom(t, s, canon) =
        IF last = {} \/ LastAt(t, s, i, canon) = {} THEN -1 ELSE check_start(t, s, i, canon)
  BY DEF SearchFrom, SearchesFrom
<1>3. CASE last = {}
  <2>1. \A k \in 0..Len(t) - 1 : SearchesFrom(s, k, canon) < Len(t) => ~Ended(t, s, SearchesFrom(s, k, canon), canon)
    BY <1>1, <1>3
  <2> HIDE DEF last, m, i, p
  <2>2. \A e \in Len(s) - 1..Len(t) - 1 : e < SearchesFrom(s, Len(t), canon) => ~EndsAt(t, s, e, canon)
    BY <1>1, <2>1, NoneBefore
  <2>3. SearchesFrom(s, Len(t), canon) \in Nat /\ SearchesFrom(s, Len(t), canon) >= Len(t)
    BY <1>1, FromFacts
  <2>4. Ends(t, s, canon) = {}
    BY <1>1, <2>2, <2>3 DEF Ends
  <2> QED BY <1>2, <1>3, <2>4
<1>4. CASE last # {}
  <2>1. last \in SUBSET Nat
    BY <1>1
  <2>2. m \in last /\ \A k \in last : m <= k
    <3> HIDE DEF last
    <3> QED BY <1>4, <2>1, MinFacts
  <2> HIDE DEF m
  <2>3. m \in 0..Len(t) /\ i < Len(t) /\ Ended(t, s, i, canon)
    BY <2>2
  <2>4. \A k \in 0..m - 1 : SearchesFrom(s, k, canon) < Len(t) => ~Ended(t, s, SearchesFrom(s, k, canon), canon)
    <3> TAKE k \in 0..m - 1
    <3>1. k \in 0..Len(t) /\ ~(m <= k)
      BY <1>1, <2>3
    <3> QED BY <2>2, <3>1
  <2> HIDE DEF last
  <2>5. \A e \in Len(s) - 1..Len(t) - 1 : e < i => ~EndsAt(t, s, e, canon)
    BY <1>1, <2>3, <2>4, NoneBefore
  <2>6. i \in Nat /\ i >= Len(s) - 1
    BY <1>1, <2>3, FromFacts
  <2> HIDE DEF i
  <2>7. i \in Len(s) - 1..Len(t) - 1
    BY <1>1, <2>3, <2>6
  <2>8. CASE LastAt(t, s, i, canon) = {}
    <3>1. \A e \in Len(s) - 1..Len(t) - 1 : i <= e => ~EndsAt(t, s, e, canon)
      <4> TAKE e \in Len(s) - 1..Len(t) - 1
      <4> HAVE i <= e
      <4>1. e \in i..Len(t) - 1
        BY <1>1, <2>6
      <4>2. canon[t[e + 1]] # canon[Last(s)]
        BY <2>8, <4>1 DEF LastAt
      <4> QED BY <4>2, MatchEnds
    <3>2. Ends(t, s, canon) = {}
      BY <1>1, <2>5, <2>6, <3>1 DEF Ends
    <3> QED BY <1>2, <2>8, <3>2
  <2>9. CASE LastAt(t, s, i, canon) # {}
    <3>1. /\ p \in i..Len(t) - 1
          /\ \A e \in i..p - 1 : ~EndsAt(t, s, e, canon)
          /\ EndsAt(t, s, p, canon)
      BY <2>3, <2>7, <2>9, TurnSkipsNothing
    <3>2. check_start(t, s, i, canon) = p - (Len(s) - 1)
      BY DEF check_start
    <3> HIDE DEF p
    <3>3. p \in M
      BY <1>1, <2>7, <3>1 DEF Ends
    <3>4. \A e \in M : p <= e
      <4> TAKE e \in M
      <4>1. e \in Len(s) - 1..Len(t) - 1 /\ EndsAt(t, s, e, canon)
        BY DEF Ends
      <4> QED BY <1>1, <2>5, <2>7, <3>1, <4>1
    <3>5. M \in SUBSET Nat
      BY <1>1 DEF Ends
    <3>6. Min(M) = p
      <4> HIDE DEF M
      <4> QED BY <3>3, <3>4, <3>5, MinIs
    <3> QED BY <1>2, <1>4, <2>9, <3>2, <3>3, <3>6
  <2> QED BY <2>8, <2>9
<1> QED BY <1>3, <1>4

\* string_search() finds the first match from the offset on
LEMMA SearchLeftmost ==
  ASSUME NEW s1 \in Seq(Letters), NEW s2 \in Seq(Letters), NEW offset \in Int, NEW fold \in BOOLEAN,
         NEW q, q.s1 = s1, q.s2 = s2, q.ofs = offset, q.fold = fold, s2 # <<>>,
         string_search(s1, s2, offset, fold).error = "none"
  PROVE  FirstMatch(q, string_search(s1, s2, offset, fold))
<1> DEFINE ofs == FromEnd(offset, s1)
           t == SubSeq(s1, ofs + 1, Len(s1))
           canon == Canon(fold)
           n == Len(s2)
           found == SearchFrom(t, s2, canon)
           r == string_search(s1, s2, offset, fold)
           M == Ends(t, s2, canon)
           S == Matches(q)
<1>1. n \in Nat /\ n > 0 /\ Len(s1) \in Nat
  OBVIOUS
<1>2. ofs \in 0..Len(s1)
  <2>1. CASE ofs < 0 \/ ofs > Len(s1)
    <3>1. r = Throw("bad_value")
      BY <2>1 DEF string_search, FromEnd
    <3> QED BY <3>1 DEF Throw
  <2>2. ofs \in Int
    BY DEF FromEnd
  <2> QED BY <1>1, <2>1, <2>2
<1>3. r = IF n > Len(t) \/ found = -1 THEN Ok(-1) ELSE Ok(found + ofs)
  <2>1. ~(ofs < 0 \/ ofs > Len(s1))
    BY <1>1, <1>2
  <2> QED BY <2>1 DEF string_search, FromEnd
<1>4. S = {k \in ofs..(Len(s1) - n) : EqualAt(s1, k, s2, n, canon)}
  BY DEF Matches
<1> HIDE DEF ofs
<1>5. t \in Seq(Letters) /\ Len(t) = Len(s1) - ofs /\ \A k \in 1..Len(s1) - ofs : t[k] = s1[k + ofs]
  BY <1>1, <1>2
<1> HIDE DEF t
<1>6. ASSUME NEW e \in n - 1..Len(t) - 1
      PROVE  EndsAt(t, s2, e, canon) <=> EqualAt(s1, e - (n - 1) + ofs, s2, n, canon)
  <2>1. \A k \in 1..n : t[(e - (n - 1)) + k] = s1[(e - (n - 1) + ofs) + k]
    <3> TAKE k \in 1..n
    <3>1. (e - (n - 1)) + k \in 1..Len(s1) - ofs
      BY <1>1, <1>2, <1>5
    <3>2. ((e - (n - 1)) + k) + ofs = (e - (n - 1) + ofs) + k
      BY <1>1, <1>2
    <3> QED BY <1>5, <3>1, <3>2
  <2> HIDE DEF canon
  <2> QED BY <2>1 DEF EndsAt, EqualAt
<1>7. \A e \in M : e \in n - 1..Len(t) - 1 /\ e - (n - 1) + ofs \in S
  <2> TAKE e \in M
  <2>1. e \in n - 1..Len(t) - 1 /\ EndsAt(t, s2, e, canon)
    BY DEF Ends
  <2>2. e - (n - 1) + ofs \in ofs..(Len(s1) - n)
    BY <1>1, <1>2, <1>5, <2>1
  <2> HIDE DEF S
  <2> QED BY <1>4, <1>6, <2>1, <2>2
<1>8. \A k \in S : k \in Nat /\ k - ofs + (n - 1) \in M
  <2> TAKE k \in S
  <2> HIDE DEF S
  <2>1. k \in ofs..(Len(s1) - n) /\ EqualAt(s1, k, s2, n, canon)
    BY <1>4
  <2> DEFINE e == k - ofs + (n - 1)
  <2>2. e \in n - 1..Len(t) - 1 /\ e - (n - 1) + ofs = k
    BY <1>1, <1>2, <1>5, <2>1
  <2>3. k \in Nat
    BY <1>1, <1>2, <2>1
  <2> HIDE DEF e, canon
  <2>4. EndsAt(t, s2, e, canon)
    BY <1>6, <2>1, <2>2
  <2>5. e \in M
    BY <2>2, <2>4 DEF Ends
  <2> QED BY <2>3, <2>5 DEF e
<1>9. /\ M = {} => found = -1
      /\ M # {} => found = Min(M) - (n - 1)
  BY <1>5, SearchFinds
<1>10. r.value = IF S = {} THEN -1 ELSE Min(S)
  <2>1. CASE S = {}
    <3>1. M = {}
      <4> HIDE DEF M, S
      <4> QED BY <1>7, <2>1
    <3> HIDE DEF r, M, S, found
    <3>2. r = Ok(-1)
      BY <1>3, <1>9, <3>1
    <3> QED BY <2>1, <3>2 DEF Ok
  <2>2. CASE S # {}
    <3> HIDE DEF r, M, S, found, n
    <3>1. M # {} /\ M \subseteq Nat
      <4>1. \A e \in M : e \in Nat
        BY <1>1, <1>7
      <4> QED BY <1>8, <2>2, <4>1
    <3>2. Min(M) \in M /\ \A e \in M : Min(M) <= e
      BY <3>1, MinFacts
    <3> DEFINE k == Min(M) - (n - 1) + ofs
    <3>3. Min(M) \in n - 1..Len(t) - 1 /\ k \in S
      BY <1>7, <3>2
    <3>4. \A x \in S : k <= x
      <4> TAKE x \in S
      <4>1. x \in Nat /\ Min(M) <= x - ofs + (n - 1)
        BY <1>8, <3>2
      <4> QED BY <1>1, <1>2, <3>3, <4>1
    <3>5. S \in SUBSET Nat
      BY <1>8
    <3> HIDE DEF k
    <3>6. Min(S) = k
      BY <3>3, <3>4, <3>5, MinIs
    <3>7. found = Min(M) - (n - 1) /\ found # -1 /\ ~(n > Len(t))
      BY <1>1, <1>5, <1>2, <1>9, <3>1, <3>3
    <3>8. r = Ok(found + ofs)
      BY <1>3, <3>7
    <3> QED BY <2>2, <3>6, <3>7, <3>8 DEF Ok, k
  <2> QED BY <2>1, <2>2
<1> QED BY <1>10 DEF FirstMatch

\* Indices from the end
LEMMA IndexFacts ==
  ASSUME NEW idx \in Int, NEW s, NEW A, s \in Seq(A), ct_string_index(idx, s, 1) # -1
  PROVE  /\ ct_string_index(idx, s, 1) = FromEnd(idx, s)
         /\ FromEnd(idx, s) \in 0..Len(s)
BY DEF ct_string_index, FromEnd

LEMMA IndexLeftmost ==
  ASSUME NEW s \in Seq(Letters), NEW c \in Letters, NEW offset \in Int,
         NEW q, q.s1 = s, q.s2 = <<c>>, q.ofs = offset, q.fold = FALSE,
         string_index(s, c, offset).error = "none"
  PROVE  FirstMatch(q, string_index(s, c, offset))
<1> DEFINE ofs == ct_string_index(offset, s, 1)
           found == {k \in ofs..(Len(s) - 1) : s[k + 1] = c}
           r == string_index(s, c, offset)
<1>1. r = IF ofs = -1 THEN Throw("bad_index") ELSE Ok(IF found = {} THEN -1 ELSE Min(found))
  BY DEF string_index
<1>2. ofs # -1
  BY <1>1 DEF Throw
<1>3. ofs = FromEnd(offset, s) /\ ofs \in 0..Len(s)
  BY <1>2, IndexFacts
<1> HIDE DEF ofs
<1>4. \A k \in ofs..(Len(s) - 1) : EqualAt(s, k, <<c>>, 1, Canon(FALSE)) <=> s[k + 1] = c
  <2> TAKE k \in ofs..(Len(s) - 1)
  <2>1. s[k + 1] \in Letters
    BY <1>3
  <2>2. Canon(FALSE)[s[k + 1]] = s[k + 1] /\ Canon(FALSE)[c] = c
    BY <2>1 DEF Canon, Unchanged
  <2>3. EqualAt(s, k, <<c>>, 1, Canon(FALSE)) <=> Canon(FALSE)[s[k + 1]] = Canon(FALSE)[c]
    BY DEF EqualAt
  <2> QED BY <2>2, <2>3
<1>5. Matches(q) = found
  <2>1. Matches(q) = {k \in ofs..(Len(s) - 1) : EqualAt(s, k, <<c>>, 1, Canon(FALSE))}
    BY <1>3 DEF Matches
  <2> QED BY <1>4, <2>1
<1>6. r.value = IF found = {} THEN -1 ELSE Min(found)
  <2> HIDE DEF found, r
  <2> QED BY <1>1, <1>2 DEF Ok
<1> HIDE DEF found
<1> QED BY <1>5, <1>6 DEF FirstMatch

LEMMA SpanLongest ==
  ASSUME NEW s \in Seq(Letters), NEW offset \in Int, NEW max \in Int, NEW filter \in Seq(Letters),
         NEW accept \in BOOLEAN,
         NEW q, q.s = s, q.ofs = offset, q.max = max, q.filter = filter, q.accept = accept,
         string_xspan(s, offset, max, filter, accept).error = "none"
  PROVE  LongestSpan(q, string_xspan(s, offset, max, filter, accept).value)
<1> DEFINE ofs == ct_string_index(offset, s, 1)
           end == IF max + ofs > Len(s) THEN Len(s) ELSE max + ofs
           stops == [c \in Letters |-> (c \in ToSet(filter)) # accept]
           S == {end} \cup {k \in ofs..(end - 1) : stops[s[k + 1]]}
           m == Min(S)
           r == string_xspan(s, offset, max, filter, accept)
           belongs(k) == (s[k] \in ToSet(filter)) = accept
<1>1. r = IF ofs = -1 THEN Throw("bad_index") ELSE IF max < 0 THEN Throw("bad_range") ELSE Ok(m - ofs)
  BY DEF string_xspan, SpanTo
<1>2. ofs # -1 /\ ~(max < 0)
  BY <1>1 DEF Throw
<1>3. r.value = m - ofs
  BY <1>1, <1>2 DEF Ok
<1>4. ofs = FromEnd(offset, s) /\ ofs \in 0..Len(s)
  BY <1>2, IndexFacts
<1> HIDE DEF r, ofs
<1>5. end \in Nat /\ ofs <= end /\ end <= Len(s) /\ end <= ofs + max /\ (end < ofs + max => end = Len(s))
  BY <1>2, <1>4
<1>6. \A k \in ofs..(end - 1) : stops[s[k + 1]] <=> ~belongs(k + 1)
  <2> TAKE k \in ofs..(end - 1)
  <2>1. s[k + 1] \in Letters
    BY <1>4, <1>5
  <2> QED BY <2>1
<1> HIDE DEF end, stops, belongs
<1>7. S \in SUBSET Nat /\ S # {} /\ end \in S
  BY <1>4, <1>5
<1>8. m \in S /\ \A x \in S : m <= x
  <2> HIDE DEF S
  <2> QED BY <1>7, MinFacts
<1>9. m \in ofs..end /\ (m < end => ~belongs(m + 1))
  BY <1>4, <1>5, <1>6, <1>8
<1>10. \A k \in (ofs + 1)..m : belongs(k)
  <2> TAKE k \in (ofs + 1)..m
  <2> HIDE DEF m
  <2>1. k - 1 \in ofs..(end - 1) /\ ~(m <= k - 1) /\ (k - 1) + 1 = k
    BY <1>4, <1>5, <1>9
  <2>2. k - 1 \notin S
    BY <1>8, <2>1
  <2> QED BY <1>6, <2>1, <2>2
<1> HIDE DEF m, S
<1>11. m - ofs \in 0..max /\ ofs + (m - ofs) = m /\ m <= Len(s)
  BY <1>2, <1>4, <1>5, <1>9
<1>12. m - ofs < max /\ m < Len(s) => m < end
  BY <1>2, <1>4, <1>5, <1>9
<1> DEFINE n == m - ofs
<1>13. m = ofs + n /\ n \in 0..max /\ m <= Len(s)
  BY <1>4, <1>9, <1>11
<1>14. n < max /\ m < Len(s) => ~belongs(m + 1)
  BY <1>9, <1>12
<1> HIDE DEF n
<1>15. LongestSpan(q, n)
  <2>1. \A k \in (ofs + 1)..(ofs + n) : belongs(k)
    BY <1>10, <1>13
  <2>2. n < max /\ ofs + n < Len(s) => ~belongs(ofs + n + 1)
    BY <1>13, <1>14
  <2> QED BY <1>4, <1>13, <2>1, <2>2 DEF LongestSpan, belongs
<1> QED BY <1>3, <1>15 DEF n, r

\* The loop over the groups of a regular expression stops at the first one
\* that matched, or has come around to the whole match
WrappedAt(n, x) == IF x >= n THEN 0 ELSE x
NextGroup(ov, x) == IF ov[x + 1] = -1 THEN WrappedAt(Len(ov), x + 1) ELSE x
GroupLoop(i, n, ov) == /\ submatch(ov) = Ok(<<i[n], ov[i[n] + 1]>>)
                       /\ i[0] = WrappedAt(n, 1)
                       /\ \A k \in 0..n - 1 : i[k + 1] = NextGroup(ov, i[k])

LEMMA GroupTurns ==
  ASSUME NEW n \in Nat \ {0}, NEW ov, Len(ov) = n, \A x \in 0..n - 1 : NextGroup(ov, x) \in 0..n - 1
  PROVE  \E i : GroupLoop(i, n, ov)
<1> DEFINE X == 0..n - 1
           Turn == [p \in (0..n - 1) \X X |-> NextGroup(ov, p[2])]
           Is(g) == g = [k \in 0..n |-> IF k = 0 THEN WrappedAt(n, 1) ELSE NextGroup(ov, g[k - 1])]
<1>1. PICK i : i = CHOOSE g : Is(g)
  OBVIOUS
<1>2. submatch(ov) = Ok(<<i[n], ov[i[n] + 1]>>)
  BY <1>1 DEF submatch, WrappedAt, NextGroup
<1>3. WrappedAt(n, 1) \in X
  BY DEF WrappedAt
<1> HIDE DEF X
<1>4. Turn \in Bodies(0..n - 1, X)
  BY DEF Bodies, X
<1>5. \A k \in 0..n - 1, x \in X : Turn[<<k, x>>] = NextGroup(ov, x)
  OBVIOUS
<1> HIDE DEF Turn
<1>6. PICK f \in [0..n -> X] : IsLoop(f, 0..n - 1, X, WrappedAt(n, 1), Turn)
  BY <1>3, <1>4, Loop
<1>7. f[0] = WrappedAt(n, 1) /\ \A k \in 0..n - 1 : f[k + 1] = NextGroup(ov, f[k])
  BY <1>5, <1>6 DEF IsLoop
<1>8. Is(f)
  <2>1. \A k \in 0..n : f[k] = IF k = 0 THEN WrappedAt(n, 1) ELSE NextGroup(ov, f[k - 1])
    <3> TAKE k \in 0..n
    <3>1. k = 0 \/ (k - 1 \in 0..n - 1 /\ (k - 1) + 1 = k)
      OBVIOUS
    <3> QED BY <1>7, <3>1
  <2> QED BY <1>6, <2>1
<1>9. Is(i)
  <2> HIDE DEF Is
  <2> QED BY <1>1, <1>8
<1>10. ASSUME NEW k \in 0..n PROVE i[k] = IF k = 0 THEN WrappedAt(n, 1) ELSE NextGroup(ov, i[k - 1])
  <2> DEFINE body(h, m) == IF m = 0 THEN WrappedAt(n, 1) ELSE NextGroup(ov, h[m - 1])
  <2>1. i = [m \in 0..n |-> body(i, m)]
    BY <1>9
  <2> HIDE DEF body
  <2>2. i[k] = body(i, k)
    BY <2>1
  <2> QED BY <2>2 DEF body
<1> HIDE DEF Is
<1>11. ASSUME NEW k \in 0..n - 1 PROVE i[k + 1] = NextGroup(ov, i[k])
  <2>1. k + 1 \in 0..n /\ k + 1 # 0 /\ (k + 1) - 1 = k
    OBVIOUS
  <2> QED BY <1>10, <2>1
<1>12. i[0] = WrappedAt(n, 1)
  BY <1>10
<1>13. GroupLoop(i, n, ov)
  BY <1>2, <1>11, <1>12 DEF GroupLoop
<1> QED BY <1>13

\* The walk over the groups ends at the first that matched, or at group 0
LEMMA SubmatchFirst ==
  ASSUME NEW n \in Nat \ {0}, NEW ov \in [1..n -> {-1, 0, 1}], ov[1] # -1
  PROVE  /\ submatch(ov).error = "none"
         /\ FirstGroup(ov, submatch(ov).value[1])
<1> DEFINE X == 0..n - 1
           First(k, x) == IF x = 0 THEN \A j \in 1..n - 1 : ov[j + 1] = -1
                          ELSE /\ x \in 1..n - 1 /\ \A j \in 1..x - 1 : ov[j + 1] = -1
                               /\ ov[x + 1] # -1 \/ x >= k + 1
<1>1. Len(ov) = n
  OBVIOUS
<1>3. \A x \in X : NextGroup(ov, x) \in X
  BY <1>1 DEF NextGroup, WrappedAt
<1>16. PICK i : GroupLoop(i, n, ov)
  BY <1>1, <1>3, GroupTurns
<1>2. submatch(ov) = Ok(<<i[n], ov[i[n] + 1]>>)
  BY <1>16 DEF GroupLoop
<1>10. i[0] = WrappedAt(n, 1) /\ \A k \in 0..n - 1 : i[k + 1] = NextGroup(ov, i[k])
  BY <1>16 DEF GroupLoop
<1> DEFINE T == {k \in 0..n : i[k] \in X /\ First(k, i[k])}
<1>11. 0 \in T
  <2>1. CASE n = 1
    BY <1>10, <2>1 DEF WrappedAt
  <2>2. CASE n # 1
    BY <1>10, <2>2 DEF WrappedAt
  <2> QED BY <2>1, <2>2
<1>12. ASSUME NEW k \in 0..n - 1, k \in T PROVE k + 1 \in T
  <2> DEFINE x == i[k]
             y == i[k + 1]
  <2>1. x \in X /\ First(k, x) /\ y = NextGroup(ov, x)
    BY <1>10, <1>12
  <2> HIDE DEF x, y
  <2>2. y \in X /\ First(k + 1, y)
    <3>1. CASE x = 0
      <4>1. y = 0
        BY <1>1, <2>1, <3>1 DEF NextGroup
      <4> QED BY <2>1, <3>1, <4>1
    <3>2. CASE x # 0 /\ ov[x + 1] # -1
      <4>1. y = x
        BY <2>1, <3>2 DEF NextGroup
      <4> QED BY <2>1, <3>2, <4>1
    <3>3. CASE x # 0 /\ ov[x + 1] = -1
      <4>1. \A j \in 1..x : ov[j + 1] = -1
        <5>1. \A j \in 1..x : j = x \/ j \in 1..x - 1
          BY <2>1
        <5> QED BY <2>1, <3>3, <5>1
      <4>2. x \in 1..n - 1 /\ x >= k + 1
        BY <2>1, <3>3
      <4>3. CASE x + 1 >= n
        <5>1. y = 0 /\ x = n - 1
          BY <1>1, <2>1, <3>3, <4>2, <4>3 DEF NextGroup, WrappedAt
        <5> QED BY <4>1, <5>1
      <4>4. CASE x + 1 < n
        <5>1. y = x + 1
          BY <1>1, <2>1, <3>3, <4>2, <4>4 DEF NextGroup, WrappedAt
        <5> QED BY <4>1, <4>2, <4>4, <5>1
      <4> QED BY <4>2, <4>3, <4>4
    <3> QED BY <3>1, <3>2, <3>3
  <2> QED BY <2>2 DEF y
<1>13. i[n] \in X /\ First(n, i[n])
  <2>1. \A k \in 0..n : k \in T
    <3> HIDE DEF T
    <3> QED BY <1>11, <1>12, InductionUpto
  <2> QED BY <2>1
<1> DEFINE group == i[n]
<1> HIDE DEF group, X
<1>14. FirstGroup(ov, group)
  <2> DEFINE set == {j \in 1..(Len(ov) - 1) : ov[j + 1] # -1}
  <2>1. set \in SUBSET Nat
    BY <1>1
  <2>2. CASE group = 0
    <3>1. set = {}
      BY <1>1, <1>13, <2>2 DEF group
    <3> QED BY <2>2, <3>1 DEF FirstGroup
  <2>3. CASE group # 0
    <3>1. group \in 1..n - 1 /\ (\A j \in 1..group - 1 : ov[j + 1] = -1) /\ ov[group + 1] # -1
      BY <1>13, <2>3 DEF group, X
    <3>2. group \in set
      BY <1>1, <3>1
    <3>3. \A j \in set : group <= j
      <4> TAKE j \in set
      <4>1. j \in 1..n - 1 /\ ov[j + 1] # -1
        BY <1>1
      <4> QED BY <3>1, <4>1
    <3>4. Min(set) = group
      <4> HIDE DEF set
      <4> QED BY <2>1, <3>2, <3>3, MinIs
    <3> QED BY <3>2, <3>4 DEF FirstGroup
  <2> QED BY <2>2, <2>3
<1>15. submatch(ov).value[1] = group
  BY <1>2 DEF Ok, group
<1> QED BY <1>2, <1>14, <1>15 DEF Ok

LEMMA CodeFacts ==
  ASSUME NEW c \in Letters, NEW d \in Letters
  PROVE  Code[c] \in Nat /\ (Code[c] = Code[d] <=> c = d)
BY DEF Code, Letters

\* What orders two strings that differ at m, and not before
LEMMA Precedes ==
  ASSUME NEW s \in Seq(Letters), NEW t \in Seq(Letters), NEW m \in 1..Len(s) \cap 1..Len(t),
         \A j \in 1..m - 1 : s[j] = t[j], Code[s[m]] < Code[t[m]]
  PROVE  Before(s, t) /\ ~Before(t, s)
<1>1. Before(s, t)
  BY DEF Before
<1>2. Len(s) \in Nat /\ Len(t) \in Nat /\ m \in Nat
  OBVIOUS
<1>3. s[m] \in Letters /\ t[m] \in Letters
  OBVIOUS
<1>4. s[m] # t[m]
  BY <1>3, CodeFacts
<1>5. ~IsPrefixOf(t, s)
  <2> SUFFICES ASSUME Len(t) <= Len(s), SubSeq(s, 1, Len(t)) = t PROVE FALSE
    BY DEF IsPrefixOf
  <2>1. SubSeq(s, 1, Len(t))[m] = s[m]
    BY <1>2
  <2> QED BY <1>4, <2>1
<1>6. ASSUME NEW k \in 1..Len(t) \cap 1..Len(s), \A j \in 1..k - 1 : t[j] = s[j], Code[t[k]] < Code[s[k]]
      PROVE  FALSE
  <2>1. t[k] \in Letters /\ s[k] \in Letters
    OBVIOUS
  <2>2. Code[t[k]] \in Nat /\ Code[s[k]] \in Nat /\ Code[t[m]] \in Nat /\ Code[s[m]] \in Nat
    BY <1>3, <2>1, CodeFacts
  <2>3. CASE k < m
    <3>1. s[k] = t[k]
      BY <1>2, <2>3
    <3> QED BY <1>6, <2>2, <3>1
  <2>4. CASE k = m
    BY <1>6, <2>2, <2>4
  <2>5. CASE k > m
    <3>1. m \in 1..k - 1
      BY <1>2, <2>5
    <3> QED BY <1>4, <1>6, <3>1
  <2> QED BY <1>2, <2>3, <2>4, <2>5
<1> QED BY <1>1, <1>5, <1>6 DEF Before

\* What orders two strings one of which begins with the other
LEMMA PrefixPrecedes ==
  ASSUME NEW s \in Seq(Letters), NEW t \in Seq(Letters),
         \A j \in 1..Len(s) \cap 1..Len(t) : s[j] = t[j]
  PROVE  Before(s, t) <=> Len(s) < Len(t)
<1>1. Len(s) \in Nat /\ Len(t) \in Nat
  OBVIOUS
<1>2. ASSUME NEW k \in 1..Len(s) \cap 1..Len(t), Code[s[k]] < Code[t[k]] PROVE FALSE
  <2>1. s[k] = t[k] /\ s[k] \in Letters
    OBVIOUS
  <2>2. Code[s[k]] \in Nat /\ Code[s[k]] = Code[t[k]]
    BY <2>1, CodeFacts
  <2> QED BY <1>2, <2>2
<1>3. IsPrefixOf(s, t) <=> Len(s) <= Len(t)
  <2> SUFFICES ASSUME Len(s) <= Len(t) PROVE SubSeq(t, 1, Len(s)) = s
    BY DEF IsPrefixOf
  <2>1. SubSeq(t, 1, Len(s)) \in Seq(Letters) /\ Len(SubSeq(t, 1, Len(s))) = Len(s)
    BY <1>1
  <2>2. ASSUME NEW j \in 1..Len(s) PROVE SubSeq(t, 1, Len(s))[j] = s[j]
    <3>1. j \in 1..Len(t) /\ SubSeq(t, 1, Len(s))[j] = t[j]
      BY <1>1
    <3> QED BY <3>1
  <2> DEFINE u == SubSeq(t, 1, Len(s))
  <2> HIDE DEF u
  <2>3. u = s
    BY <2>1, <2>2 DEF u
  <2> QED BY <2>3 DEF u
<1>4. Len(s) = Len(t) => s = t
  <2> SUFFICES ASSUME Len(s) = Len(t) PROVE s = t
    OBVIOUS
  <2>1. \A j \in 1..Len(s) : s[j] = t[j]
    OBVIOUS
  <2> QED BY <2>1
<1>5. s = t => Len(s) = Len(t)
  OBVIOUS
<1> QED BY <1>1, <1>2, <1>3, <1>4, <1>5 DEF Before

\* The first character that differs decides; without one, the length
LEMMA ComparedOrders ==
  ASSUME NEW a \in Seq(Letters), NEW b \in Seq(Letters), NEW canon \in [Letters -> Letters]
  PROVE  Compared(a, b, canon) = IF Before(Canonical(a, canon), Canonical(b, canon)) THEN -1
                                 ELSE IF Before(Canonical(b, canon), Canonical(a, canon)) THEN 1 ELSE 0
<1> DEFINE s == Canonical(a, canon)
           t == Canonical(b, canon)
           minlen == Min({Len(a), Len(b)})
           diff(i) == CMP(Code[canon[a[i]]], Code[canon[b[i]]])
           differ == {i \in 1..minlen : diff(i) # 0}
<1>1. /\ s \in Seq(Letters) /\ Len(s) = Len(a) /\ \A i \in 1..Len(a) : s[i] = canon[a[i]]
      /\ t \in Seq(Letters) /\ Len(t) = Len(b) /\ \A i \in 1..Len(b) : t[i] = canon[b[i]]
  BY DEF Canonical
<1>2. Len(a) \in Nat /\ Len(b) \in Nat
  OBVIOUS
<1>3. minlen \in Nat /\ minlen <= Len(a) /\ minlen <= Len(b) /\ (minlen = Len(a) \/ minlen = Len(b))
  <2> DEFINE S == {Len(a), Len(b)}
  <2>1. S \in SUBSET Nat /\ S # {} /\ \A x \in S : x = Len(a) \/ x = Len(b)
    BY <1>2
  <2>2. Len(a) \in S /\ Len(b) \in S
    OBVIOUS
  <2> HIDE DEF S
  <2>3. Min(S) \in S /\ \A x \in S : Min(S) <= x
    BY <2>1, MinFacts
  <2>4. minlen = Min(S)
    BY DEF S
  <2> HIDE DEF minlen
  <2> QED BY <1>2, <2>1, <2>2, <2>3, <2>4
<1> HIDE DEF s, t, minlen
<1>4. \A i \in 1..minlen : i \in 1..Len(s) \cap 1..Len(t) /\ s[i] = canon[a[i]] /\ t[i] = canon[b[i]]
  BY <1>1, <1>2, <1>3
<1>5. \A i \in 1..Len(s) \cap 1..Len(t) : i \in 1..minlen
  BY <1>1, <1>2, <1>3
<1>6. \A i \in 1..minlen : diff(i) = CMP(Code[s[i]], Code[t[i]])
  BY <1>4
<1> HIDE DEF diff
<1>7. \A i \in 1..minlen : s[i] \in Letters /\ t[i] \in Letters
  BY <1>1, <1>4
<1>8. \A i \in 1..minlen : Code[s[i]] \in Nat /\ Code[t[i]] \in Nat /\ (Code[s[i]] = Code[t[i]] <=> s[i] = t[i])
  BY <1>7, CodeFacts
<1>9. \A i \in 1..minlen : /\ diff(i) = 0 <=> s[i] = t[i]
                           /\ diff(i) = -1 <=> Code[s[i]] < Code[t[i]]
                           /\ diff(i) = 1 <=> Code[t[i]] < Code[s[i]]
                           /\ diff(i) \in {-1, 0, 1}
  BY <1>6, <1>8 DEF CMP
<1>10. Compared(a, b, canon) = IF differ = {} THEN CMP(Len(a), Len(b)) ELSE diff(Min(differ))
  BY DEF Compared, minlen, diff
<1>11. CASE differ = {}
  <2>1. \A i \in 1..Len(s) \cap 1..Len(t) : s[i] = t[i]
    BY <1>5, <1>9, <1>11
  <2>2. Before(s, t) <=> Len(s) < Len(t)
    BY <1>1, <2>1, PrefixPrecedes
  <2>3. Before(t, s) <=> Len(t) < Len(s)
    BY <1>1, <2>1, PrefixPrecedes
  <2>4. Compared(a, b, canon) = CMP(Len(a), Len(b))
    BY <1>10, <1>11
  <2> HIDE DEF differ
  <2>5. CMP(Len(a), Len(b)) = IF Before(s, t) THEN -1 ELSE IF Before(t, s) THEN 1 ELSE 0
    BY <1>1, <1>2, <2>2, <2>3 DEF CMP
  <2> QED BY <2>4, <2>5 DEF s, t
<1>12. CASE differ # {}
  <2> DEFINE m == Min(differ)
  <2>1. differ \in SUBSET Nat
    BY <1>3
  <2>2. m \in differ /\ \A i \in differ : m <= i
    <3> HIDE DEF differ
    <3> QED BY <1>12, <2>1, MinFacts
  <2>3. Compared(a, b, canon) = diff(m)
    BY <1>10, <1>12
  <2> HIDE DEF m
  <2>4. m \in 1..minlen /\ diff(m) # 0
    BY <2>2
  <2>5. \A j \in 1..m - 1 : s[j] = t[j]
    <3> TAKE j \in 1..m - 1
    <3>1. j \in 1..minlen /\ ~(m <= j)
      BY <1>3, <2>4
    <3> QED BY <1>9, <2>2, <3>1
  <2> HIDE DEF differ
  <2>6. m \in 1..Len(s) \cap 1..Len(t) /\ m \in 1..Len(t) \cap 1..Len(s)
    BY <1>4, <2>4
  <2>7. CASE diff(m) = -1
    <3>1. Before(s, t)
      BY <1>1, <1>9, <2>4, <2>5, <2>6, <2>7, Precedes
    <3> QED BY <2>3, <2>7, <3>1 DEF s, t
  <2>8. CASE diff(m) = 1
    <3>1. Code[t[m]] < Code[s[m]] /\ \A j \in 1..m - 1 : t[j] = s[j]
      BY <1>9, <2>4, <2>5, <2>8
    <3>2. Before(t, s) /\ ~Before(s, t)
      BY <1>1, <2>6, <3>1, Precedes
    <3> QED BY <2>3, <2>8, <3>2 DEF s, t
  <2> QED BY <1>9, <2>4, <2>7, <2>8
<1> QED BY <1>11, <1>12

LEMMA CutFacts ==
  ASSUME NEW s \in Seq(Letters), NEW max \in Nat
  PROVE  Cut(s, max) \in Seq(Letters)
<1> DEFINE S == {Len(s), max}
<1>1. S \in SUBSET Nat /\ S # {} /\ Len(s) \in S
  OBVIOUS
<1> HIDE DEF S
<1>2. Min(S) \in Nat /\ Min(S) <= Len(s)
  BY <1>1, MinFacts
<1>3. Cut(s, max) = SubSeq(s, 1, Min(S))
  BY DEF Cut, S
<1> QED BY <1>2, <1>3

LEMMA CompareInOrder ==
  ASSUME NEW s1 \in Seq(Letters), NEW s2 \in Seq(Letters), NEW max \in Int, NEW fold \in BOOLEAN,
         NEW q, q.s1 = s1, q.s2 = s2, q.max = max, q.fold = fold,
         string_ncmp(s1, s2, max, fold).error = "none"
  PROVE  TellsOrder(q, string_ncmp(s1, s2, max, fold))
<1>1. max \in Nat /\ string_ncmp(s1, s2, max, fold) = Ok(Compared(Cut(s1, max), Cut(s2, max), Canon(fold)))
  <2>1. CASE max < 0
    <3>1. string_ncmp(s1, s2, max, fold) = Throw("bad_range")
      BY <2>1 DEF string_ncmp
    <3> QED BY <3>1 DEF Throw
  <2>2. CASE ~(max < 0)
    BY <2>2 DEF string_ncmp
  <2> QED BY <2>1, <2>2
<1> DEFINE a == Cut(s1, max)
           b == Cut(s2, max)
           canon == Canon(fold)
<1>2. a \in Seq(Letters) /\ b \in Seq(Letters) /\ canon \in [Letters -> Letters]
  BY <1>1, CutFacts, CanonFacts
<1> HIDE DEF a, b, canon
<1>3. Compared(a, b, canon) = IF Before(Canonical(a, canon), Canonical(b, canon)) THEN -1
                              ELSE IF Before(Canonical(b, canon), Canonical(a, canon)) THEN 1 ELSE 0
  BY <1>2, ComparedOrders
<1>4. string_ncmp(s1, s2, max, fold).value = Compared(a, b, canon)
  BY <1>1 DEF Ok, a, b, canon
<1> QED BY <1>3, <1>4 DEF TellsOrder, a, b, canon

(***************************************************************************)
(* What is left of a string                                                *)
(***************************************************************************)
Kept(chars, kept, x) == IF x \in chars THEN Append(kept, x) ELSE kept

OnlyLoop(g, A, chars, s) == /\ Only(chars, s) = g[Len(s)] /\ g[0] = <<>>
                            /\ \A k \in 0..Len(s) : g[k] \in Seq(A)
                            /\ \A k \in 0..Len(s) - 1 : g[k + 1] = Kept(chars, g[k], s[k + 1])

LEMMA OnlyTurns ==
  ASSUME NEW A, NEW s \in Seq(A), NEW chars
  PROVE  \E g : OnlyLoop(g, A, chars, s)
<1> DEFINE N == Len(s)
           X == Seq(A)
           Turn == [p \in (0..N - 1) \X X |-> Kept(chars, p[2], s[p[1] + 1])]
           Is(g) == g = [k \in 0..N |-> IF k = 0 THEN <<>> ELSE Kept(chars, g[k - 1], s[k])]
<1>1. PICK g : g = CHOOSE h : Is(h)
  OBVIOUS
<1>2. Only(chars, s) = g[N]
  BY <1>1 DEF Only, Kept
<1>3. N \in Nat /\ <<>> \in X
  OBVIOUS
<1>4. \A k \in 0..N - 1, x \in X : Kept(chars, x, s[k + 1]) \in X
  <2> TAKE k \in 0..N - 1, x \in X
  <2>1. s[k + 1] \in A
    OBVIOUS
  <2> QED BY <2>1 DEF Kept
<1> HIDE DEF X, N
<1>5. Turn \in Bodies(0..N - 1, X) /\ \A k \in 0..N - 1, x \in X : Turn[<<k, x>>] = Kept(chars, x, s[k + 1])
  BY <1>4 DEF Bodies
<1> HIDE DEF Turn
<1>6. PICK f \in [0..N -> X] : IsLoop(f, 0..N - 1, X, <<>>, Turn)
  BY <1>3, <1>5, Loop
<1>7. f[0] = <<>> /\ \A k \in 0..N - 1 : f[k + 1] = Kept(chars, f[k], s[k + 1])
  BY <1>5, <1>6 DEF IsLoop
<1>8. Is(f)
  <2>1. \A k \in 0..N : f[k] = IF k = 0 THEN <<>> ELSE Kept(chars, f[k - 1], s[k])
    <3> TAKE k \in 0..N
    <3>1. k = 0 \/ (k - 1 \in 0..N - 1 /\ (k - 1) + 1 = k)
      BY <1>3
    <3> QED BY <1>7, <3>1
  <2> QED BY <1>6, <2>1
<1>9. Is(g)
  <2> HIDE DEF Is
  <2> QED BY <1>1, <1>8
<1>10. ASSUME NEW k \in 0..N PROVE g[k] = IF k = 0 THEN <<>> ELSE Kept(chars, g[k - 1], s[k])
  <2> DEFINE body(h, m) == IF m = 0 THEN <<>> ELSE Kept(chars, h[m - 1], s[m])
  <2>1. g = [m \in 0..N |-> body(g, m)]
    BY <1>9
  <2> HIDE DEF body
  <2>2. g[k] = body(g, k)
    BY <2>1
  <2> QED BY <2>2 DEF body
<1> HIDE DEF Is
<1>11. ASSUME NEW k \in 0..N - 1 PROVE g[k + 1] = Kept(chars, g[k], s[k + 1])
  <2>1. k + 1 \in 0..N /\ k + 1 # 0 /\ (k + 1) - 1 = k
    BY <1>3
  <2> QED BY <1>10, <2>1
<1>12. g[0] = <<>>
  BY <1>3, <1>10
<1> DEFINE T == {k \in 0..N : g[k] \in X}
<1>13. 0 \in T
  BY <1>3, <1>12
<1>14. ASSUME NEW k \in 0..N - 1, k \in T PROVE k + 1 \in T
  <2>1. g[k + 1] \in X /\ k + 1 \in 0..N
    BY <1>3, <1>4, <1>11, <1>14
  <2> QED BY <2>1
<1>15. \A k \in 0..N : k \in T
  <2> HIDE DEF T
  <2> QED BY <1>3, <1>13, <1>14, InductionUpto
<1>16. \A k \in 0..N : g[k] \in X
  BY <1>15
<1> HIDE DEF T
<1>17. OnlyLoop(g, A, chars, s)
  BY <1>2, <1>11, <1>12, <1>16 DEF N, X, OnlyLoop
<1> QED BY <1>17

LEMMA OnlyIn ==
  ASSUME NEW A, NEW s \in Seq(A), NEW chars
  PROVE  Only(chars, s) \in Seq(A)
<1>1. Len(s) \in 0..Len(s)
  OBVIOUS
<1>2. PICK g : OnlyLoop(g, A, chars, s)
  BY OnlyTurns
<1> QED BY <1>1, <1>2 DEF OnlyLoop

LEMMA OnlyEmpty ==
  ASSUME NEW chars
  PROVE  Only(chars, <<>>) = <<>>
<1>1. <<>> \in Seq({}) /\ Len(<<>>) = 0
  OBVIOUS
<1>2. PICK g : OnlyLoop(g, {}, chars, <<>>)
  BY <1>1, OnlyTurns
<1> QED BY <1>1, <1>2 DEF OnlyLoop

LEMMA OnlyAppend ==
  ASSUME NEW A, NEW s \in Seq(A), NEW x \in A, NEW chars
  PROVE  Only(chars, Append(s, x)) = Kept(chars, Only(chars, s), x)
<1> DEFINE N == Len(s)
           u == Append(s, x)
<1>1. N \in Nat /\ u \in Seq(A) /\ Len(u) = N + 1 /\ u[N + 1] = x /\ \A k \in 1..N : u[k] = s[k]
  OBVIOUS
<1> HIDE DEF u
<1>9. PICK g : OnlyLoop(g, A, chars, s)
  BY OnlyTurns
<1>10. PICK h : OnlyLoop(h, A, chars, u)
  BY <1>1, OnlyTurns
<1>2. /\ Only(chars, s) = g[N] /\ g[0] = <<>>
      /\ \A k \in 0..N - 1 : g[k + 1] = Kept(chars, g[k], s[k + 1])
  BY <1>9 DEF OnlyLoop
<1>3. /\ Only(chars, u) = h[Len(u)] /\ h[0] = <<>>
      /\ \A k \in 0..Len(u) - 1 : h[k + 1] = Kept(chars, h[k], u[k + 1])
  BY <1>10 DEF OnlyLoop
<1> HIDE DEF N
<1> DEFINE T == {k \in 0..N : g[k] = h[k]}
<1>4. 0 \in T
  BY <1>1, <1>2, <1>3
<1>5. ASSUME NEW k \in 0..N - 1, k \in T PROVE k + 1 \in T
  <2>1. k + 1 \in 0..N /\ k + 1 \in 1..N /\ k \in 0..Len(u) - 1 /\ g[k] = h[k]
    BY <1>1, <1>5
  <2>2. u[k + 1] = s[k + 1]
    BY <1>1, <2>1
  <2>3. g[k + 1] = h[k + 1]
    BY <1>2, <1>3, <2>1, <2>2
  <2> QED BY <2>1, <2>3
<1>6. g[N] = h[N]
  <2>1. \A k \in 0..N : k \in T
    <3> HIDE DEF T
    <3> QED BY <1>1, <1>4, <1>5, InductionUpto
  <2> QED BY <1>1, <2>1
<1>7. N \in 0..Len(u) - 1
  BY <1>1
<1>8. h[N + 1] = Kept(chars, h[N], u[N + 1])
  BY <1>3, <1>7
<1> QED BY <1>1, <1>2, <1>3, <1>6, <1>8 DEF u

LEMMA ConcatAppend ==
  ASSUME NEW A, NEW s \in Seq(A), NEW t \in Seq(A), NEW x \in A
  PROVE  Append(s \o t, x) = s \o Append(t, x)
<1>1. s \o t \in Seq(A) /\ <<x>> \in Seq(A)
  OBVIOUS
<1>2. Append(s \o t, x) = (s \o t) \o <<x>> /\ Append(t, x) = t \o <<x>>
  BY <1>1, AppendIsConcat
<1> QED BY <1>1, <1>2, ConcatAssociative

LEMMA KeptConcat ==
  ASSUME NEW A, NEW s \in Seq(A), NEW t \in Seq(A), NEW x \in A, NEW chars
  PROVE  Kept(chars, s \o t, x) = s \o Kept(chars, t, x)
<1>1. CASE x \in chars
  <2>1. Kept(chars, s \o t, x) = Append(s \o t, x) /\ Kept(chars, t, x) = Append(t, x)
    BY <1>1 DEF Kept
  <2>2. s \o t \in Seq(A) /\ <<x>> \in Seq(A)
    OBVIOUS
  <2>3. Append(s \o t, x) = (s \o t) \o <<x>> /\ Append(t, x) = t \o <<x>>
    BY <2>2, AppendIsConcat
  <2>4. (s \o t) \o <<x>> = s \o (t \o <<x>>)
    BY <2>2, ConcatAssociative
  <2> QED BY <2>1, <2>3, <2>4
<1>2. CASE x \notin chars
  BY <1>2 DEF Kept
<1> QED BY <1>1, <1>2

\* What is left of two strings, one after the other
LEMMA OnlyConcat ==
  ASSUME NEW A, NEW s \in Seq(A), NEW t \in Seq(A), NEW chars
  PROVE  Only(chars, s \o t) = Only(chars, s) \o Only(chars, t)
<1> DEFINE part(k) == SubSeq(t, 1, k)
           T == {k \in 0..Len(t) : Only(chars, s \o part(k)) = Only(chars, s) \o Only(chars, part(k))}
<1>1. Only(chars, s) \in Seq(A) /\ \A k \in 0..Len(t) : part(k) \in Seq(A)
  BY OnlyIn
<1>2. 0 \in T
  <2>1. part(0) = <<>> /\ s \o <<>> = s
    OBVIOUS
  <2>2. Only(chars, s) \o <<>> = Only(chars, s)
    BY <1>1
  <2>3. Only(chars, part(0)) = <<>>
    BY <2>1, OnlyEmpty
  <2>4. Only(chars, s \o part(0)) = Only(chars, s) \o Only(chars, part(0))
    <3> HIDE DEF part
    <3> QED BY <2>1, <2>2, <2>3
  <2> QED BY <2>4
<1>3. ASSUME NEW k \in 0..Len(t) - 1, k \in T PROVE k + 1 \in T
  <2> DEFINE p == part(k)
             x == t[k + 1]
  <2>1. p \in Seq(A) /\ x \in A /\ k + 1 \in 0..Len(t) /\ part(k + 1) = Append(p, x)
    OBVIOUS
  <2>2. Only(chars, s \o p) = Only(chars, s) \o Only(chars, p)
    BY <1>3
  <2> HIDE DEF p, x
  <2>3. s \o Append(p, x) = Append(s \o p, x) /\ s \o p \in Seq(A)
    BY <2>1, ConcatAppend
  <2>4. Only(chars, Append(s \o p, x)) = Kept(chars, Only(chars, s \o p), x)
    BY <2>1, <2>3, OnlyAppend
  <2>5. Only(chars, Append(p, x)) = Kept(chars, Only(chars, p), x)
    BY <2>1, OnlyAppend
  <2>6. Only(chars, s) \in Seq(A) /\ Only(chars, p) \in Seq(A)
    BY <2>1, OnlyIn
  <2>7. Kept(chars, Only(chars, s) \o Only(chars, p), x) = Only(chars, s) \o Kept(chars, Only(chars, p), x)
    BY <2>1, <2>6, KeptConcat
  <2>8. Only(chars, s \o part(k + 1)) = Only(chars, s) \o Only(chars, part(k + 1))
    <3> HIDE DEF part
    <3> QED BY <2>1, <2>2, <2>3, <2>4, <2>5, <2>7
  <2> QED BY <2>1, <2>8
<1>4. Len(t) \in Nat /\ part(Len(t)) = t
  OBVIOUS
<1>5. \A k \in 0..Len(t) : k \in T
  <2> HIDE DEF T
  <2> QED BY <1>2, <1>3, <1>4, InductionUpto
<1>6. Only(chars, s \o part(Len(t))) = Only(chars, s) \o Only(chars, part(Len(t)))
  BY <1>4, <1>5
<1> HIDE DEF part
<1> QED BY <1>4, <1>6

LEMMA AppendFacts ==
  ASSUME NEW A, NEW s \in Seq(A), NEW x \in A
  PROVE  LET u == Append(s, x) IN
         /\ Len(s) \in Nat /\ u \in Seq(A) /\ Len(u) = Len(s) + 1 /\ u[Len(s) + 1] = x /\ u # <<>>
         /\ \A k \in 1..Len(s) : u[k] = s[k]
OBVIOUS

\* Joining words
Joined(g, A, words) == /\ FlattenSeq(words) = g[Len(words)] /\ g[1] = words[1]
                       /\ \A k \in 1..Len(words) : g[k] \in Seq(A)
                       /\ \A k \in 1..Len(words) - 1 : g[k + 1] = g[k] \o words[k + 1]

LEMMA JoinTurns ==
  ASSUME NEW A, NEW words \in Seq(Seq(A)), words # <<>>
  PROVE  \E g : Joined(g, A, words)
<1> DEFINE N == Len(words)
           X == Seq(A)
           Turn == [p \in (0..(N - 1) - 1) \X X |-> p[2] \o words[p[1] + 2]]
           Is(g) == g = [k \in 1..N |-> IF k = 1 THEN words[k] ELSE g[k - 1] \o words[k]]
<1>1. PICK g : g = CHOOSE h : Is(h)
  OBVIOUS
<1>2. FlattenSeq(words) = g[N]
  BY <1>1 DEF FlattenSeq
<1>3. N \in Nat /\ N > 0 /\ N - 1 \in Nat /\ \A k \in 1..N : words[k] \in X
  OBVIOUS
<1>4. \A x \in X, y \in X : x \o y \in X
  OBVIOUS
<1> HIDE DEF X, N
<1>5. /\ Turn \in Bodies(0..(N - 1) - 1, X)
      /\ \A k \in 0..(N - 1) - 1, x \in X : Turn[<<k, x>>] = x \o words[k + 2]
  <2>1. \A k \in 0..(N - 1) - 1 : words[k + 2] \in X
    <3> TAKE k \in 0..(N - 1) - 1
    <3>1. k + 2 \in 1..N
      BY <1>3
    <3> QED BY <1>3, <3>1
  <2> QED BY <1>4, <2>1 DEF Bodies
<1> HIDE DEF Turn
<1>6. PICK f \in [0..N - 1 -> X] : IsLoop(f, 0..(N - 1) - 1, X, words[1], Turn)
  <2>1. words[1] \in X
    BY <1>3
  <2> QED BY <1>3, <1>5, <2>1, Loop
<1>7. f[0] = words[1] /\ \A k \in 0..(N - 1) - 1 : f[k] \in X /\ f[k + 1] = f[k] \o words[k + 2]
  BY <1>5, <1>6 DEF IsLoop
<1> DEFINE h == [k \in 1..N |-> f[k - 1]]
<1>8. Is(h)
  <2>1. \A k \in 1..N : h[k] = IF k = 1 THEN words[k] ELSE h[k - 1] \o words[k]
    <3> TAKE k \in 1..N
    <3>1. CASE k = 1
      BY <1>3, <1>7, <3>1
    <3>2. CASE k # 1
      <4>1. k - 2 \in 0..(N - 1) - 1 /\ (k - 2) + 1 = k - 1 /\ (k - 2) + 2 = k /\ k - 1 \in 1..N
        BY <1>3, <3>2
      <4>2. f[k - 1] = f[k - 2] \o words[k]
        BY <1>7, <4>1
      <4>3. h[k] = f[k - 1] /\ h[k - 1] = f[k - 2]
        BY <4>1
      <4> HIDE DEF h
      <4> QED BY <3>2, <4>2, <4>3
    <3> QED BY <3>1, <3>2
  <2> QED BY <2>1
<1> HIDE DEF h
<1>9. Is(g)
  <2> HIDE DEF Is
  <2> QED BY <1>1, <1>8
<1>10. ASSUME NEW k \in 1..N PROVE g[k] = IF k = 1 THEN words[k] ELSE g[k - 1] \o words[k]
  <2> DEFINE body(e, m) == IF m = 1 THEN words[m] ELSE e[m - 1] \o words[m]
  <2>1. g = [m \in 1..N |-> body(g, m)]
    BY <1>9
  <2> HIDE DEF body
  <2>2. g[k] = body(g, k)
    BY <2>1
  <2> QED BY <2>2 DEF body
<1> HIDE DEF Is
<1>11. g[1] = words[1]
  BY <1>3, <1>10
<1>12. ASSUME NEW k \in 1..N - 1 PROVE g[k + 1] = g[k] \o words[k + 1]
  <2>1. k + 1 \in 1..N /\ k + 1 # 1 /\ (k + 1) - 1 = k
    BY <1>3
  <2> QED BY <1>10, <2>1
<1> DEFINE T == {k \in 0..N - 1 : g[k + 1] \in X}
<1>13. 0 \in T
  BY <1>3, <1>11
<1>14. ASSUME NEW k \in 0..(N - 1) - 1, k \in T PROVE k + 1 \in T
  <2>1. k + 1 \in 1..N - 1 /\ k + 2 \in 1..N /\ (k + 1) + 1 = k + 2 /\ k + 1 \in 0..N - 1
    BY <1>3
  <2>2. g[k + 2] = g[k + 1] \o words[k + 2]
    BY <1>12, <2>1
  <2>3. g[k + 1] \in X /\ words[k + 2] \in X
    BY <1>3, <1>14, <2>1
  <2>4. g[(k + 1) + 1] \in X
    BY <1>4, <2>1, <2>2, <2>3
  <2> QED BY <2>1, <2>4
<1>15. \A k \in 0..N - 1 : k \in T
  <2> HIDE DEF T
  <2> QED BY <1>3, <1>13, <1>14, InductionUpto
<1>16. \A k \in 1..N : g[k] \in X
  <2> TAKE k \in 1..N
  <2>1. k - 1 \in 0..N - 1 /\ (k - 1) + 1 = k
    BY <1>3
  <2> QED BY <1>15, <2>1
<1> HIDE DEF T
<1>17. Joined(g, A, words)
  BY <1>2, <1>11, <1>12, <1>16 DEF N, X, Joined
<1> QED BY <1>17

LEMMA JoinAppend ==
  ASSUME NEW A, NEW words \in Seq(Seq(A)), NEW w \in Seq(A)
  PROVE  /\ FlattenSeq(words) \in Seq(A)
         /\ FlattenSeq(Append(words, w)) = FlattenSeq(words) \o w
<1> DEFINE N == Len(words)
           u == Append(words, w)
<1>1. /\ N \in Nat /\ u \in Seq(Seq(A)) /\ Len(u) = N + 1 /\ u[N + 1] = w /\ u # <<>>
      /\ \A k \in 1..N : u[k] = words[k]
  BY AppendFacts
<1> HIDE DEF u
<1>2. PICK h : Joined(h, A, u)
  <2>1. u \in Seq(Seq(A))
    BY <1>1
  <2>2. u # <<>>
    BY <1>1
  <2> QED BY <2>1, <2>2, JoinTurns
<1>3. /\ FlattenSeq(u) = h[N + 1] /\ h[1] = u[1]
      /\ \A k \in 1..N : h[k + 1] = h[k] \o u[k + 1]
  <2>1. Len(u) = N + 1 /\ Len(u) - 1 = N
    BY <1>1
  <2> HIDE DEF N
  <2> QED BY <1>2, <2>1 DEF Joined
<1>4. CASE words = <<>>
  <2>1. N = 0 /\ FlattenSeq(words) = <<>>
    BY <1>4 DEF FlattenSeq
  <2>2. FlattenSeq(u) = w
    BY <1>1, <1>3, <2>1
  <2>3. <<>> \o w = w /\ <<>> \in Seq(A)
    OBVIOUS
  <2> QED BY <2>1, <2>2, <2>3 DEF u
<1>5. CASE words # <<>>
  <2>1. PICK g : Joined(g, A, words)
    BY <1>5, JoinTurns
  <2>2. /\ FlattenSeq(words) = g[N] /\ g[1] = words[1]
        /\ \A k \in 1..N : g[k] \in Seq(A)
        /\ \A k \in 1..N - 1 : g[k + 1] = g[k] \o words[k + 1]
    BY <2>1 DEF Joined
  <2>3. N > 0
    BY <1>5
  <2> HIDE DEF N
  <2> DEFINE T == {k \in 0..N - 1 : h[k + 1] = g[k + 1]}
  <2>4. 0 \in T
    BY <1>1, <1>3, <2>2, <2>3
  <2>5. ASSUME NEW k \in 0..(N - 1) - 1, k \in T PROVE k + 1 \in T
    <3>1. k + 1 \in 1..N - 1 /\ k + 1 \in 1..N /\ (k + 1) + 1 \in 1..N /\ k + 1 \in 0..N - 1
      BY <1>1, <2>3
    <3>2. u[(k + 1) + 1] = words[(k + 1) + 1] /\ h[k + 1] = g[k + 1]
      BY <1>1, <2>5, <3>1
    <3>3. h[(k + 1) + 1] = g[(k + 1) + 1]
      BY <1>3, <2>2, <3>1, <3>2
    <3> QED BY <3>1, <3>3
  <2>6. h[N] = g[N]
    <3>1. \A k \in 0..N - 1 : k \in T
      <4>1. N - 1 \in Nat
        BY <1>1, <2>3
      <4> HIDE DEF T
      <4> QED BY <2>4, <2>5, <4>1, InductionUpto
    <3>2. N - 1 \in 0..N - 1 /\ (N - 1) + 1 = N
      BY <1>1, <2>3
    <3> QED BY <3>1, <3>2
  <2>7. N \in 1..N
    BY <1>1, <2>3
  <2>8. h[N + 1] = h[N] \o w
    BY <1>1, <1>3, <2>7
  <2> QED BY <1>3, <2>2, <2>6, <2>7, <2>8 DEF u
<1> QED BY <1>4, <1>5

(***************************************************************************)
(* Strings: splitting                                                      *)
(***************************************************************************)
LineChars == {"x", "blank", "single", "double"}
IsWord(w) == /\ w # <<>> /\ Head(w) # "blank"
             /\ "blank" \in ToSet(w) => IsQuote(Head(w)) /\ Last(w) = Head(w)

\* A word is not empty, begins with no blank, and has one only between quotes
LEMMA WordFacts ==
  ASSUME NEW s \in Seq(LineChars), NEW idx \in 0..Len(s) - 1, s[idx + 1] # "blank"
  PROVE  /\ WordEnd(s, idx) \in idx + 1..Len(s)
         /\ SubSeq(s, idx + 1, WordEnd(s, idx)) \in Seq(LineChars)
         /\ IsWord(SubSeq(s, idx + 1, WordEnd(s, idx)))
<1> DEFINE quotes == {k \in (idx + 1)..(Len(s) - 1) : s[k + 1] = s[idx + 1]}
           blanks == {k \in (idx + 1)..(Len(s) - 1) : s[k + 1] = "blank"}
           end == WordEnd(s, idx)
           w == SubSeq(s, idx + 1, end)
<1>1. Len(s) \in Nat /\ idx \in Nat /\ idx < Len(s)
  OBVIOUS
<1>2. end = IF IsQuote(s[idx + 1]) /\ quotes # {} THEN Min(quotes) + 1
            ELSE IF blanks = {} THEN Len(s) ELSE Min(blanks)
  BY DEF WordEnd
<1>3. quotes # {} => Min(quotes) \in (idx + 1)..(Len(s) - 1) /\ s[Min(quotes) + 1] = s[idx + 1]
  <2> SUFFICES ASSUME quotes # {} PROVE Min(quotes) \in quotes
    OBVIOUS
  <2>1. quotes \in SUBSET Nat
    BY <1>1
  <2> HIDE DEF quotes
  <2> QED BY <2>1, MinFacts
<1>4. blanks # {} => /\ Min(blanks) \in (idx + 1)..(Len(s) - 1)
                     /\ \A k \in (idx + 1)..(Min(blanks) - 1) : s[k + 1] # "blank"
  <2> SUFFICES ASSUME blanks # {}
               PROVE  /\ Min(blanks) \in (idx + 1)..(Len(s) - 1)
                      /\ \A k \in (idx + 1)..(Min(blanks) - 1) : s[k + 1] # "blank"
    OBVIOUS
  <2>1. blanks \in SUBSET Nat
    BY <1>1
  <2> DEFINE m == Min(blanks)
  <2>2. m \in blanks /\ \A k \in blanks : m <= k
    <3> HIDE DEF blanks
    <3> QED BY <2>1, MinFacts
  <2> HIDE DEF m
  <2>3. m \in (idx + 1)..(Len(s) - 1)
    BY <2>2
  <2>4. ASSUME NEW k \in (idx + 1)..(m - 1) PROVE s[k + 1] # "blank"
    <3>1. k \in (idx + 1)..(Len(s) - 1) /\ ~(m <= k)
      BY <1>1, <2>3
    <3> QED BY <2>2, <3>1
  <2> QED BY <2>3, <2>4 DEF m
<1>5. blanks = {} => \A k \in (idx + 1)..(Len(s) - 1) : s[k + 1] # "blank"
  OBVIOUS
<1> HIDE DEF quotes, blanks, end
<1>6. end \in idx + 1..Len(s)
  BY <1>1, <1>2, <1>3, <1>4
<1>7. /\ w \in Seq(LineChars) /\ Len(w) = end - idx
      /\ \A j \in 1..end - idx : w[j] = s[idx + j]
  <2>1. /\ idx + 1 \in Int /\ end \in Int /\ \A j \in idx + 1..end : s[j] \in LineChars
    BY <1>1, <1>6
  <2>2. /\ w \in Seq(LineChars) /\ Len(w) = end - (idx + 1) + 1
        /\ \A j \in 1..end - (idx + 1) + 1 : w[j] = s[idx + 1 + j - 1]
    BY <1>6, <2>1, SubSeqProperties
  <2>3. end - (idx + 1) + 1 = end - idx /\ \A j \in 1..end - idx : idx + 1 + j - 1 = idx + j
    BY <1>1, <1>6
  <2> HIDE DEF w
  <2> QED BY <2>2, <2>3
<1> HIDE DEF w
<1>8. w # <<>> /\ Head(w) = s[idx + 1] /\ Last(w) = s[end] /\ Len(w) \in Nat
  <2>1. 1 \in 1..end - idx /\ end - idx \in 1..end - idx /\ idx + (end - idx) = end /\ end - idx \in Nat /\ end - idx # 0
    BY <1>1, <1>6
  <2>2. w[1] = s[idx + 1] /\ w[Len(w)] = s[end] /\ Len(w) # 0
    BY <1>7, <2>1
  <2>3. w # <<>>
    BY <2>2
  <2>4. Head(w) = w[1]
    BY <1>7, <2>3
  <2> QED BY <1>7, <2>1, <2>2, <2>3, <2>4 DEF Last
<1>9. IsWord(w)
  <2>1. CASE IsQuote(s[idx + 1]) /\ quotes # {}
    <3>1. Last(w) = Head(w) /\ IsQuote(Head(w))
      BY <1>2, <1>3, <1>8, <2>1
    <3> QED BY <1>8, <3>1 DEF IsWord
  <2>2. CASE ~(IsQuote(s[idx + 1]) /\ quotes # {})
    <3>1. \A k \in (idx + 1)..(end - 1) : s[k + 1] # "blank"
      BY <1>2, <1>4, <1>5, <2>2
    <3>2. \A j \in 1..end - idx : w[j] # "blank"
      <4> TAKE j \in 1..end - idx
      <4>1. CASE j = 1
        BY <1>7, <4>1
      <4>2. CASE j # 1
        <5>1. idx + j - 1 \in (idx + 1)..(end - 1) /\ (idx + j - 1) + 1 = idx + j
          BY <1>1, <1>6, <4>2
        <5> QED BY <1>7, <3>1, <5>1
      <4> QED BY <4>1, <4>2
    <3>3. DOMAIN w = 1..end - idx
      BY <1>7
    <3>4. "blank" \notin ToSet(w)
      BY <3>2, <3>3 DEF ToSet
    <3> QED BY <1>8, <3>4 DEF IsWord
  <2> QED BY <2>1, <2>2
<1> QED BY <1>6, <1>7, <1>9 DEF end, w

SplitStates(s) == [idx : 0..Len(s), words : Seq(Seq(LineChars))]
SplitSound(s, k, st) ==
  /\ Unblanked(FlattenSeq(st.words)) = Unblanked(SubSeq(s, 1, st.idx))
  /\ \A w \in ToSet(st.words) : IsWord(w)
  /\ st.idx = Len(s) \/ st.idx >= k

LEMMA ToSetAppend ==
  ASSUME NEW A, NEW s \in Seq(A), NEW x \in A
  PROVE  ToSet(Append(s, x)) = ToSet(s) \cup {x}
<1> DEFINE u == Append(s, x)
           n == Len(s)
<1>1. n \in Nat /\ Len(u) = n + 1 /\ u[n + 1] = x /\ \A k \in 1..n : u[k] = s[k]
  BY AppendFacts
<1>2. DOMAIN s = 1..n /\ DOMAIN u = 1..n + 1
  OBVIOUS
<1> HIDE DEF u, n
<1>3. \A k \in 1..n + 1 : k = n + 1 \/ k \in 1..n
  BY <1>1
<1>4. n + 1 \in 1..n + 1 /\ \A k \in 1..n : k \in 1..n + 1
  BY <1>1
<1>5. ToSet(u) = {u[k] : k \in 1..n + 1} /\ ToSet(s) = {s[k] : k \in 1..n}
  BY <1>2 DEF ToSet
<1>6. \A y \in ToSet(u) : y \in ToSet(s) \cup {x}
  BY <1>1, <1>3, <1>5
<1>7. \A y \in ToSet(s) : y \in ToSet(u)
  BY <1>1, <1>4, <1>5
<1>8. x \in ToSet(u)
  BY <1>1, <1>4, <1>5
<1>9. ToSet(u) = ToSet(s) \cup {x}
  BY <1>6, <1>7, <1>8
<1> QED BY <1>9 DEF u

LEMMA SubSeqExtends ==
  ASSUME NEW A, NEW s \in Seq(A), NEW k \in 0..Len(s), NEW n \in k..Len(s)
  PROVE  /\ SubSeq(s, 1, n) = SubSeq(s, 1, k) \o SubSeq(s, k + 1, n)
         /\ SubSeq(s, 1, k) \in Seq(A) /\ SubSeq(s, k + 1, n) \in Seq(A)
<1>1. 1 \in 1..Len(s) + 1 /\ k \in 1 - 1..Len(s)
  OBVIOUS
<1>2. SubSeq(s, 1, k) \o SubSeq(s, k + 1, n) = SubSeq(s, 1, n)
  BY <1>1, ConcatAdjacentSubSeq
<1> QED BY <1>2

LEMMA SubSeqNext ==
  ASSUME NEW A, NEW s \in Seq(A), NEW k \in 0..Len(s) - 1
  PROVE  /\ SubSeq(s, 1, k + 1) = Append(SubSeq(s, 1, k), s[k + 1])
         /\ SubSeq(s, 1, k) \in Seq(A) /\ s[k + 1] \in A
OBVIOUS

\* What a turn of split_words() keeps
LEMMA SplitTurnSound ==
  ASSUME NEW s \in Seq(LineChars), NEW k \in Nat, NEW st \in SplitStates(s)
  PROVE  /\ SplitTurn(s, st) \in SplitStates(s)
         /\ SplitSound(s, k, st) => SplitSound(s, k + 1, SplitTurn(s, st))
<1> DEFINE idx == st.idx
           words == st.words
           new == SplitTurn(s, st)
<1>1. idx \in 0..Len(s) /\ words \in Seq(Seq(LineChars)) /\ st = [idx |-> idx, words |-> words]
  BY DEF SplitStates
<1>2. Len(s) \in Nat
  OBVIOUS
<1>3. CASE idx = Len(s)
  <2>1. new = st
    BY <1>3 DEF SplitTurn
  <2> QED BY <1>3, <2>1 DEF SplitSound
<1>4. CASE idx # Len(s) /\ s[idx + 1] = "blank"
  <2>1. new = [idx |-> idx + 1, words |-> words]
    BY <1>1, <1>4 DEF SplitTurn
  <2> HIDE DEF idx, words, new
  <2>2. new \in SplitStates(s)
    BY <1>1, <1>2, <1>4, <2>1 DEF SplitStates
  <2>3. idx \in 0..Len(s) - 1
    BY <1>1, <1>2, <1>4
  <2>4. /\ SubSeq(s, 1, idx + 1) = Append(SubSeq(s, 1, idx), "blank")
        /\ SubSeq(s, 1, idx) \in Seq(LineChars) /\ "blank" \in LineChars
    BY <1>4, <2>3, SubSeqNext
  <2>5. Unblanked(SubSeq(s, 1, idx + 1)) = Unblanked(SubSeq(s, 1, idx))
    <3>1. Only({"x", "single", "double"}, Append(SubSeq(s, 1, idx), "blank"))
            = Kept({"x", "single", "double"}, Only({"x", "single", "double"}, SubSeq(s, 1, idx)), "blank")
      BY <2>4, OnlyAppend
    <3>2. "blank" \notin {"x", "single", "double"}
      OBVIOUS
    <3> QED BY <2>4, <3>1, <3>2 DEF Unblanked, Kept
  <2>6. new.words = words /\ new.idx = idx + 1
    BY <2>1
  <2>7. SplitSound(s, k, st) => SplitSound(s, k + 1, new)
    <3> SUFFICES ASSUME SplitSound(s, k, st) PROVE SplitSound(s, k + 1, new)
      OBVIOUS
    <3>1. /\ Unblanked(FlattenSeq(words)) = Unblanked(SubSeq(s, 1, idx))
          /\ \A w \in ToSet(words) : IsWord(w)
          /\ idx >= k
      BY <1>4 DEF SplitSound, idx, words
    <3>2. idx + 1 >= k + 1
      BY <2>3, <3>1
    <3> QED BY <2>5, <2>6, <3>1, <3>2 DEF SplitSound
  <2> QED BY <2>2, <2>7 DEF new
<1>5. CASE idx # Len(s) /\ s[idx + 1] # "blank"
  <2> DEFINE end == WordEnd(s, idx)
             w == SubSeq(s, idx + 1, end)
  <2>1. new = [idx |-> end, words |-> Append(words, w)]
    BY <1>5 DEF SplitTurn
  <2> HIDE DEF idx, words, new
  <2>2. idx \in 0..Len(s) - 1
    BY <1>1, <1>2, <1>5
  <2>3. end \in idx + 1..Len(s) /\ w \in Seq(LineChars) /\ IsWord(w)
    BY <1>5, <2>2, WordFacts
  <2> HIDE DEF end
  <2>4. SubSeq(s, 1, end) = SubSeq(s, 1, idx) \o w /\ SubSeq(s, 1, idx) \in Seq(LineChars)
    <3>1. end \in idx..Len(s) /\ idx \in 0..Len(s)
      BY <1>1, <1>2, <2>3
    <3> QED BY <3>1, SubSeqExtends
  <2> HIDE DEF w
  <2>5. /\ Append(words, w) \in Seq(Seq(LineChars))
        /\ ToSet(Append(words, w)) = ToSet(words) \cup {w}
    BY <1>1, <2>3, AppendFacts, ToSetAppend
  <2>6. FlattenSeq(words) \in Seq(LineChars) /\ FlattenSeq(Append(words, w)) = FlattenSeq(words) \o w
    BY <1>1, <2>3, JoinAppend
  <2>7. Unblanked(FlattenSeq(Append(words, w))) = Unblanked(FlattenSeq(words)) \o Unblanked(w)
    BY <2>3, <2>6, OnlyConcat DEF Unblanked
  <2>8. Unblanked(SubSeq(s, 1, end)) = Unblanked(SubSeq(s, 1, idx)) \o Unblanked(w)
    <3>1. Unblanked(SubSeq(s, 1, idx) \o w) = Unblanked(SubSeq(s, 1, idx)) \o Unblanked(w)
      BY <2>3, <2>4, OnlyConcat DEF Unblanked
    <3> QED BY <2>4, <3>1
  <2>9. new.words = Append(words, w) /\ new.idx = end
    BY <2>1
  <2>10. new \in SplitStates(s)
    <3>1. end \in 0..Len(s)
      BY <1>2, <2>2, <2>3
    <3> QED BY <2>1, <2>5, <3>1 DEF SplitStates
  <2>11. SplitSound(s, k, st) => SplitSound(s, k + 1, new)
    <3> SUFFICES ASSUME SplitSound(s, k, st) PROVE SplitSound(s, k + 1, new)
      OBVIOUS
    <3>1. /\ Unblanked(FlattenSeq(words)) = Unblanked(SubSeq(s, 1, idx))
          /\ \A v \in ToSet(words) : IsWord(v)
          /\ idx >= k
      BY <1>5 DEF SplitSound, idx, words
    <3>2. end >= k + 1
      BY <2>2, <2>3, <3>1
    <3>3. \A v \in ToSet(new.words) : IsWord(v)
      BY <2>3, <2>5, <2>9, <3>1
    <3>4. Unblanked(FlattenSeq(new.words)) = Unblanked(SubSeq(s, 1, new.idx))
      BY <2>7, <2>8, <2>9, <3>1
    <3> QED BY <2>9, <3>2, <3>3, <3>4 DEF SplitSound
  <2> QED BY <2>10, <2>11 DEF new
<1> QED BY <1>3, <1>4, <1>5

LEMMA SplitKeepsAll ==
  ASSUME NEW s \in Seq(LineChars)
  PROVE  SplitKeeps(s, split_words(s).value)
<1> DEFINE N == Len(s)
           X == SplitStates(s)
           a == [idx |-> 0, words |-> <<>>]
           Turn == [p \in (0..N - 1) \X X |-> SplitTurn(s, p[2])]
           Is(g) == g = [k \in 0..N |-> IF k = 0 THEN [idx |-> 0, words |-> <<>>] ELSE SplitTurn(s, g[k - 1])]
<1>1. PICK g : g = CHOOSE h : Is(h)
  OBVIOUS
<1>2. split_words(s) = Ok(g[N].words)
  BY <1>1 DEF split_words
<1>3. N \in Nat /\ a \in X
  <2>1. <<>> \in Seq(Seq(LineChars)) /\ N \in Nat
    OBVIOUS
  <2> QED BY <2>1 DEF SplitStates
<1>4. \A k \in Nat, x \in X : /\ SplitTurn(s, x) \in X
                              /\ SplitSound(s, k, x) => SplitSound(s, k + 1, SplitTurn(s, x))
  BY SplitTurnSound
<1> HIDE DEF X, N
<1>5. Turn \in Bodies(0..N - 1, X) /\ \A k \in 0..N - 1, x \in X : Turn[<<k, x>>] = SplitTurn(s, x)
  BY <1>4 DEF Bodies
<1> HIDE DEF Turn
<1> HIDE DEF a
<1>6. PICK f \in [0..N -> X] : IsLoop(f, 0..N - 1, X, a, Turn)
  BY <1>3, <1>5, Loop
<1>7. f[0] = a /\ \A k \in 0..N - 1 : f[k + 1] = SplitTurn(s, f[k])
  BY <1>5, <1>6 DEF IsLoop
<1>8. Is(f)
  <2>1. \A k \in 0..N : f[k] = IF k = 0 THEN a ELSE SplitTurn(s, f[k - 1])
    <3> TAKE k \in 0..N
    <3>1. k = 0 \/ (k - 1 \in 0..N - 1 /\ (k - 1) + 1 = k)
      BY <1>3
    <3> QED BY <1>7, <3>1
  <2> QED BY <1>6, <2>1 DEF a
<1>9. Is(g)
  <2> HIDE DEF Is
  <2> QED BY <1>1, <1>8
<1>10. ASSUME NEW k \in 0..N PROVE g[k] = IF k = 0 THEN a ELSE SplitTurn(s, g[k - 1])
  <2> DEFINE body(h, m) == IF m = 0 THEN [idx |-> 0, words |-> <<>>] ELSE SplitTurn(s, h[m - 1])
  <2>1. g = [m \in 0..N |-> body(g, m)]
    BY <1>9
  <2> HIDE DEF body
  <2>2. g[k] = body(g, k)
    BY <2>1
  <2> QED BY <2>2 DEF body, a
<1> HIDE DEF Is
<1>11. ASSUME NEW k \in 0..N - 1 PROVE g[k + 1] = SplitTurn(s, g[k])
  <2>1. k + 1 \in 0..N /\ k + 1 # 0 /\ (k + 1) - 1 = k
    BY <1>3
  <2> QED BY <1>10, <2>1
<1>12. g[0] = a
  BY <1>3, <1>10
<1> DEFINE T == {k \in 0..N : g[k] \in X /\ SplitSound(s, k, g[k])}
<1>13. 0 \in T
  <2>1. a.idx = 0 /\ a.words = <<>> /\ ToSet(<<>>) = {} /\ FlattenSeq(<<>>) = <<>> /\ SubSeq(s, 1, 0) = <<>>
    BY DEF a, ToSet, FlattenSeq
  <2>2. SplitSound(s, 0, a)
    BY <1>3, <2>1 DEF SplitSound, N
  <2> QED BY <1>3, <1>12, <2>2
<1>14. ASSUME NEW k \in 0..N - 1, k \in T PROVE k + 1 \in T
  <2>1. g[k] \in X /\ SplitSound(s, k, g[k]) /\ k + 1 \in 0..N /\ k \in Nat
    BY <1>3, <1>14
  <2>2. g[k + 1] \in X /\ SplitSound(s, k + 1, g[k + 1])
    BY <1>4, <1>11, <2>1
  <2> QED BY <2>1, <2>2
<1>15. g[N] \in X /\ SplitSound(s, N, g[N])
  <2>1. \A k \in 0..N : k \in T
    <3> HIDE DEF T
    <3> QED BY <1>3, <1>13, <1>14, InductionUpto
  <2> QED BY <1>3, <2>1
<1>16. g[N].idx = Len(s)
  <2>1. g[N].idx \in 0..Len(s) /\ (g[N].idx = Len(s) \/ g[N].idx >= Len(s))
    BY <1>15 DEF X, SplitStates, SplitSound, N
  <2> QED BY <2>1
<1>17. SubSeq(s, 1, Len(s)) = s
  OBVIOUS
<1>18. split_words(s).value = g[N].words
  BY <1>2 DEF Ok
<1>19. SplitKeeps(s, g[N].words)
  BY <1>15, <1>16, <1>17 DEF SplitSound, SplitKeeps, IsWord
<1> QED BY <1>18, <1>19

(***************************************************************************)
(* Strings: decoding                                                       *)
(***************************************************************************)
CodeUnits == {"v", "u", "i"}
Decoded == {"v", "u", "i", "replaced"}
Unmappable(c, mode) == c = "i" \/ (c = "u" /\ mode = 0)

IconvStates(s) == [pos : 0..Len(s), out : Seq(Decoded), r : {"more", "done", "EILSEQ", "E2BIG"}]
IconvTook(s, pos, mode, n, p, out, r) ==
  /\ p >= pos /\ Len(out) <= BUFSIZ /\ Len(out) <= p - pos
  /\ Only({"v"}, out) = Only({"v"}, SubSeq(s, pos + 1, p))
  /\ r = "more" => p >= pos + n
  /\ r = "done" => p = Len(s)
  /\ r = "EILSEQ" => p < Len(s) /\ Unmappable(s[p + 1], mode)
  /\ r = "E2BIG" => Len(out) = BUFSIZ
IconvSound(s, pos, mode, n, st) == IconvTook(s, pos, mode, n, st.pos, st.out, st.r)

LEMMA SubSeqNextFrom ==
  ASSUME NEW A, NEW s \in Seq(A), NEW pos \in 0..Len(s), NEW k \in pos..Len(s) - 1
  PROVE  /\ SubSeq(s, pos + 1, k + 1) = Append(SubSeq(s, pos + 1, k), s[k + 1])
         /\ SubSeq(s, pos + 1, k) \in Seq(A) /\ s[k + 1] \in A
<1>1. pos + 1 \in 1..Len(s) /\ k + 1 \in pos + 1..Len(s) /\ (k + 1) - 1 = k
  OBVIOUS
<1>2. SubSeq(s, pos + 1, k + 1) = SubSeq(s, pos + 1, k) \o <<s[k + 1]>>
  BY <1>1, SubSeqRecursiveSecond
<1>3. SubSeq(s, pos + 1, k) \in Seq(A) /\ s[k + 1] \in A
  OBVIOUS
<1>4. Append(SubSeq(s, pos + 1, k), s[k + 1]) = SubSeq(s, pos + 1, k) \o <<s[k + 1]>>
  BY <1>3, AppendIsConcat
<1> QED BY <1>2, <1>3, <1>4

LEMMA IconvMore ==
  ASSUME NEW s, NEW pos \in Nat, NEW mode, NEW n \in Nat, NEW p \in Nat, NEW out,
         p >= pos, Len(out) <= BUFSIZ, Len(out) <= p - pos, p >= pos + n,
         Only({"v"}, out) = Only({"v"}, SubSeq(s, pos + 1, p))
  PROVE  IconvTook(s, pos, mode, n, p, out, "more")
BY DEF IconvTook

\* What a character more in iconv() keeps
LEMMA IconvCharSound ==
  ASSUME StringsAssumptions, NEW s \in Seq(CodeUnits), NEW pos \in 0..Len(s), NEW mode \in 0..3,
         NEW n \in Nat, NEW st \in IconvStates(s)
  PROVE  IconvSound(s, pos, mode, n, st) =>
           /\ iconv_char(s, mode, st) \in IconvStates(s)
           /\ IconvSound(s, pos, mode, n + 1, iconv_char(s, mode, st))
<1> DEFINE p == st.pos
           out == st.out
           c == s[p + 1]
           new == iconv_char(s, mode, st)
<1> SUFFICES ASSUME IconvSound(s, pos, mode, n, st)
             PROVE  new \in IconvStates(s) /\ IconvSound(s, pos, mode, n + 1, new)
  OBVIOUS
<1>1. /\ p \in 0..Len(s) /\ out \in Seq(Decoded) /\ st.r \in {"more", "done", "EILSEQ", "E2BIG"}
      /\ st = [pos |-> p, out |-> out, r |-> st.r]
  BY DEF IconvStates
<1>2. BUFSIZ \in Nat \ {0} /\ Len(s) \in Nat /\ Len(out) \in Nat
  BY <1>1 DEF StringsAssumptions
<1>3. /\ p >= pos /\ Len(out) <= BUFSIZ /\ Len(out) <= p - pos
      /\ Only({"v"}, out) = Only({"v"}, SubSeq(s, pos + 1, p))
      /\ st.r = "more" => p >= pos + n
  BY DEF IconvSound, IconvTook
<1>4. CASE st.r # "more"
  <2>1. new = st
    BY <1>4 DEF iconv_char
  <2> HIDE DEF new
  <2>2. IconvSound(s, pos, mode, n + 1, st)
    BY <1>4 DEF IconvSound, IconvTook
  <2> QED BY <2>1, <2>2
<1>5. CASE st.r = "more" /\ p = Len(s)
  <2>1. new = [pos |-> p, out |-> out, r |-> "done"]
    BY <1>1, <1>5 DEF iconv_char
  <2> HIDE DEF new, p, out
  <2>2. new.pos = p /\ new.out = out /\ new.r = "done"
    BY <2>1
  <2>3. new \in IconvStates(s)
    BY <1>1, <2>1 DEF IconvStates
  <2>20. IconvTook(s, pos, mode, n + 1, p, out, "done")
    BY <1>3, <1>5, <2>2, <2>3 DEF IconvTook
  <2> QED BY <2>2, <2>3, <2>20 DEF IconvSound
<1>6. CASE st.r = "more" /\ p # Len(s) /\ Unmappable(c, mode)
  <2>1. new = [pos |-> p, out |-> out, r |-> "EILSEQ"]
    BY <1>1, <1>6 DEF iconv_char, Unmappable
  <2> HIDE DEF new, p, out
  <2>2. new.pos = p /\ new.out = out /\ new.r = "EILSEQ"
    BY <2>1
  <2>3. new \in IconvStates(s) /\ p < Len(s)
    BY <1>1, <1>2, <1>6, <2>1 DEF IconvStates
  <2>20. IconvTook(s, pos, mode, n + 1, p, out, "EILSEQ")
    BY <1>3, <1>6, <2>2, <2>3 DEF IconvTook
  <2> QED BY <2>2, <2>3, <2>20 DEF IconvSound
<1> DEFINE Read == st.r = "more" /\ p # Len(s) /\ ~Unmappable(c, mode)
<1>7. ASSUME Read
      PROVE  /\ p + 1 \in 0..Len(s) /\ p + 1 >= pos + (n + 1)
             /\ Only({"v"}, SubSeq(s, pos + 1, p + 1)) = Kept({"v"}, Only({"v"}, out), c)
             /\ c \in {"v", "u"}
  <2> HIDE DEF p, out
  <2>1. p \in pos..Len(s) - 1
    BY <1>1, <1>2, <1>3, <1>7
  <2>2. /\ SubSeq(s, pos + 1, p + 1) = Append(SubSeq(s, pos + 1, p), c)
        /\ SubSeq(s, pos + 1, p) \in Seq(CodeUnits) /\ c \in CodeUnits
    BY <2>1, SubSeqNextFrom
  <2>3. Only({"v"}, Append(SubSeq(s, pos + 1, p), c)) = Kept({"v"}, Only({"v"}, SubSeq(s, pos + 1, p)), c)
    <3> HIDE DEF c
    <3> QED BY <2>2, OnlyAppend
  <2>4. c \in {"v", "u"}
    BY <1>7, <2>2 DEF CodeUnits, Unmappable
  <2> HIDE DEF c
  <2>5. p + 1 \in 0..Len(s) /\ p + 1 >= pos + (n + 1)
    BY <1>2, <1>3, <1>7, <2>1
  <2> QED BY <1>3, <2>2, <2>3, <2>4, <2>5
<1>8. CASE Read /\ c = "u" /\ mode = 3
  <2>1. new = [pos |-> p + 1, out |-> out, r |-> "more"]
    BY <1>1, <1>8 DEF iconv_char, Unmappable
  <2>2. Only({"v"}, SubSeq(s, pos + 1, p + 1)) = Kept({"v"}, Only({"v"}, out), c)
    BY <1>7, <1>8
  <2>7. p + 1 \in 0..Len(s) /\ p + 1 >= pos + (n + 1)
    BY <1>7, <1>8
  <2>3. Kept({"v"}, Only({"v"}, out), c) = Only({"v"}, out)
    BY <1>8 DEF Kept
  <2> HIDE DEF new, p, out, c
  <2>4. new.pos = p + 1 /\ new.out = out /\ new.r = "more"
    BY <2>1
  <2>5. new \in IconvStates(s)
    BY <1>1, <2>1, <2>7 DEF IconvStates
  <2>6. p + 1 >= pos /\ Len(out) <= (p + 1) - pos
    BY <1>1, <1>2, <1>3
  <2>20. IconvTook(s, pos, mode, n + 1, p + 1, out, "more")
    <3>1. Only({"v"}, out) = Only({"v"}, SubSeq(s, pos + 1, p + 1))
      BY <2>2, <2>3
    <3> DEFINE q == p + 1
    <3>6. q \in Nat /\ q >= pos + (n + 1)
      BY <2>7
    <3>7. q >= pos /\ Len(out) <= q - pos
      BY <2>6
    <3>8. Len(out) <= BUFSIZ
      BY <1>3
    <3>2. q \in Nat /\ q >= pos + (n + 1) /\ q >= pos /\ Len(out) <= q - pos /\ Len(out) <= BUFSIZ
      <4> HIDE DEF q
      <4> QED BY <3>6, <3>7, <3>8
    <3>3. Only({"v"}, out) = Only({"v"}, SubSeq(s, pos + 1, q))
      BY <3>1
    <3>4. pos \in Nat /\ n + 1 \in Nat
      OBVIOUS
    <3> HIDE DEF q
    <3>5. IconvTook(s, pos, mode, n + 1, q, out, "more")
      BY <3>2, <3>3, <3>4, IconvMore
    <3> QED BY <3>5 DEF q
  <2> QED BY <2>4, <2>5, <2>20 DEF IconvSound
<1>9. CASE Read /\ ~(c = "u" /\ mode = 3) /\ Len(out) = BUFSIZ
  <2>1. new = [pos |-> p, out |-> out, r |-> "E2BIG"]
    BY <1>1, <1>9 DEF iconv_char, Unmappable
  <2> HIDE DEF new, p, out
  <2>2. new.pos = p /\ new.out = out /\ new.r = "E2BIG"
    BY <2>1
  <2>3. new \in IconvStates(s)
    BY <1>1, <2>1 DEF IconvStates
  <2>20. IconvTook(s, pos, mode, n + 1, p, out, "E2BIG")
    BY <1>3, <1>9, <2>2, <2>3 DEF IconvTook
  <2> QED BY <2>2, <2>3, <2>20 DEF IconvSound
<1>10. CASE Read /\ ~(c = "u" /\ mode = 3) /\ Len(out) # BUFSIZ
  <2> DEFINE d == IF c = "u" THEN "replaced" ELSE c
  <2>1. new = [pos |-> p + 1, out |-> Append(out, d), r |-> "more"]
    BY <1>1, <1>10 DEF iconv_char, Unmappable
  <2>2. /\ c \in {"v", "u"}
        /\ Only({"v"}, SubSeq(s, pos + 1, p + 1)) = Kept({"v"}, Only({"v"}, out), c)
    BY <1>7, <1>10
  <2>11. p + 1 \in 0..Len(s) /\ p + 1 >= pos + (n + 1)
    BY <1>7, <1>10
  <2> HIDE DEF new, p, out, c
  <2>3. d \in Decoded /\ (d \in {"v"} <=> c \in {"v"}) /\ (c \in {"v"} => d = c)
    BY <2>2 DEF Decoded
  <2> HIDE DEF d
  <2>4. Only({"v"}, Append(out, d)) = Kept({"v"}, Only({"v"}, out), d)
    BY <1>1, <2>3, OnlyAppend
  <2>5. Kept({"v"}, Only({"v"}, out), d) = Kept({"v"}, Only({"v"}, out), c)
    BY <2>3 DEF Kept
  <2>6. Append(out, d) \in Seq(Decoded) /\ Len(Append(out, d)) = Len(out) + 1
    BY <1>1, <2>3, AppendFacts
  <2>7. new.pos = p + 1 /\ new.out = Append(out, d) /\ new.r = "more"
    BY <2>1
  <2>8. new \in IconvStates(s)
    BY <2>1, <2>6, <2>11 DEF IconvStates
  <2>9. Len(out) + 1 <= BUFSIZ /\ Len(out) + 1 <= (p + 1) - pos /\ p + 1 >= pos
    BY <1>1, <1>2, <1>3, <1>10
  <2>20. IconvTook(s, pos, mode, n + 1, p + 1, Append(out, d), "more")
    <3> DEFINE u == Append(out, d)
    <3>1. Only({"v"}, u) = Only({"v"}, SubSeq(s, pos + 1, p + 1))
      BY <2>2, <2>4, <2>5
    <3>2. Len(u) <= BUFSIZ /\ Len(u) <= (p + 1) - pos
      BY <2>6, <2>9
    <3> DEFINE q == p + 1
    <3>4. Only({"v"}, u) = Only({"v"}, SubSeq(s, pos + 1, q))
      BY <3>1
    <3> HIDE DEF u
    <3>5. q \in Nat /\ q >= pos + (n + 1) /\ q >= pos /\ Len(u) <= q - pos /\ Len(u) <= BUFSIZ
      BY <2>9, <2>11, <3>2
    <3>6. pos \in Nat /\ n + 1 \in Nat
      OBVIOUS
    <3> HIDE DEF q
    <3>7. IconvTook(s, pos, mode, n + 1, q, u, "more")
      BY <3>4, <3>5, <3>6, IconvMore
    <3> QED BY <3>7 DEF q, u
  <2> QED BY <2>7, <2>8, <2>20 DEF IconvSound
<1> QED BY <1>4, <1>5, <1>6, <1>8, <1>9, <1>10

\* A call of iconv() ends, and what it took is in its output
LEMMA IconvKeeps ==
  ASSUME StringsAssumptions, NEW s \in Seq(CodeUnits), NEW pos \in 0..Len(s), NEW mode \in 0..3
  PROVE  LET r == iconv(s, pos, mode) IN
         r \in IconvStates(s) /\ r.r # "more" /\ IconvSound(s, pos, mode, Len(s) + 1, r)
<1> DEFINE N == Len(s) + 1
           a == [pos |-> pos, out |-> <<>>, r |-> "more"]
           X == {st \in IconvStates(s) : \E n \in Nat : IconvSound(s, pos, mode, n, st)}
           Turn == [q \in (0..N - 1) \X X |-> iconv_char(s, mode, q[2])]
           Is(g) == g = [k \in 0..N |-> IF k = 0 THEN [pos |-> pos, out |-> <<>>, r |-> "more"]
                                        ELSE iconv_char(s, mode, g[k - 1])]
<1>1. PICK g : g = CHOOSE h : Is(h)
  OBVIOUS
<1>2. iconv(s, pos, mode) = g[N]
  BY <1>1 DEF iconv
<1>3. N \in Nat
  OBVIOUS
<1>4. a \in IconvStates(s) /\ IconvSound(s, pos, mode, 0, a)
  <2>1. <<>> \in Seq(Decoded) /\ Len(<<>>) = 0 /\ SubSeq(s, pos + 1, pos) = <<>> /\ BUFSIZ \in Nat
    BY DEF StringsAssumptions
  <2>2. a.pos = pos /\ a.out = <<>> /\ a.r = "more"
    OBVIOUS
  <2>3. a \in IconvStates(s)
    BY <2>1 DEF IconvStates
  <2>4. IconvTook(s, pos, mode, 0, pos, <<>>, "more")
    <3> DEFINE e == <<>>
    <3>4. pos \in Nat /\ pos >= pos /\ pos >= pos + 0 /\ 0 <= pos - pos
      OBVIOUS
    <3>5. Len(e) = 0 /\ 0 <= BUFSIZ
      BY <2>1
    <3>1. /\ pos \in Nat /\ pos >= pos /\ pos >= pos + 0
          /\ Len(e) <= BUFSIZ /\ Len(e) <= pos - pos
      <4> HIDE DEF e
      <4> QED BY <3>4, <3>5
    <3>2. Only({"v"}, e) = Only({"v"}, SubSeq(s, pos + 1, pos))
      BY <2>1
    <3> HIDE DEF e
    <3>3. IconvTook(s, pos, mode, 0, pos, e, "more")
      BY <3>1, <3>2, IconvMore
    <3> QED BY <3>3 DEF e
  <2> HIDE DEF a
  <2> QED BY <2>2, <2>3, <2>4 DEF IconvSound
<1>5. a \in X
  BY <1>4
<1>6. \A n \in Nat, st \in IconvStates(s) : IconvSound(s, pos, mode, n, st) =>
        iconv_char(s, mode, st) \in IconvStates(s) /\ IconvSound(s, pos, mode, n + 1, iconv_char(s, mode, st))
  BY IconvCharSound
<1>7. \A x \in X : iconv_char(s, mode, x) \in X
  <2> TAKE x \in X
  <2>1. PICK n \in Nat : IconvSound(s, pos, mode, n, x)
    OBVIOUS
  <2>2. iconv_char(s, mode, x) \in IconvStates(s) /\ IconvSound(s, pos, mode, n + 1, iconv_char(s, mode, x)) /\ n + 1 \in Nat
    BY <1>6, <2>1
  <2> QED BY <2>2
<1> HIDE DEF X, N
<1>8. Turn \in Bodies(0..N - 1, X) /\ \A k \in 0..N - 1, x \in X : Turn[<<k, x>>] = iconv_char(s, mode, x)
  BY <1>7 DEF Bodies
<1> HIDE DEF Turn, a
<1>9. PICK f \in [0..N -> X] : IsLoop(f, 0..N - 1, X, a, Turn)
  BY <1>3, <1>5, <1>8, Loop
<1>10. f[0] = a /\ \A k \in 0..N - 1 : f[k + 1] = iconv_char(s, mode, f[k])
  BY <1>8, <1>9 DEF IsLoop
<1>11. Is(f)
  <2>1. \A k \in 0..N : f[k] = IF k = 0 THEN a ELSE iconv_char(s, mode, f[k - 1])
    <3> TAKE k \in 0..N
    <3>1. k = 0 \/ (k - 1 \in 0..N - 1 /\ (k - 1) + 1 = k)
      BY <1>3
    <3> QED BY <1>10, <3>1
  <2> QED BY <1>9, <2>1 DEF a
<1>12. Is(g)
  <2> HIDE DEF Is
  <2> QED BY <1>1, <1>11
<1>13. ASSUME NEW k \in 0..N PROVE g[k] = IF k = 0 THEN a ELSE iconv_char(s, mode, g[k - 1])
  <2> DEFINE body(h, m) == IF m = 0 THEN [pos |-> pos, out |-> <<>>, r |-> "more"]
                           ELSE iconv_char(s, mode, h[m - 1])
  <2>1. g = [m \in 0..N |-> body(g, m)]
    BY <1>12
  <2> HIDE DEF body
  <2>2. g[k] = body(g, k)
    BY <2>1
  <2> QED BY <2>2 DEF body, a
<1> HIDE DEF Is
<1>14. ASSUME NEW k \in 0..N - 1 PROVE g[k + 1] = iconv_char(s, mode, g[k])
  <2>1. k + 1 \in 0..N /\ k + 1 # 0 /\ (k + 1) - 1 = k
    BY <1>3
  <2> QED BY <1>13, <2>1
<1>15. g[0] = a
  BY <1>3, <1>13
<1> DEFINE T == {k \in 0..N : g[k] \in IconvStates(s) /\ IconvSound(s, pos, mode, k, g[k])}
<1>16. 0 \in T
  BY <1>3, <1>4, <1>15
<1>17. ASSUME NEW k \in 0..N - 1, k \in T PROVE k + 1 \in T
  <2>1. g[k] \in IconvStates(s) /\ IconvSound(s, pos, mode, k, g[k]) /\ k + 1 \in 0..N /\ k \in Nat
    BY <1>3, <1>17
  <2>2. g[k + 1] \in IconvStates(s) /\ IconvSound(s, pos, mode, k + 1, g[k + 1])
    BY <1>6, <1>14, <2>1
  <2> QED BY <2>1, <2>2
<1>18. g[N] \in IconvStates(s) /\ IconvSound(s, pos, mode, N, g[N])
  <2>1. \A k \in 0..N : k \in T
    <3> HIDE DEF T
    <3> QED BY <1>3, <1>16, <1>17, InductionUpto
  <2> QED BY <1>3, <2>1
<1>19. g[N].r # "more"
  <2>1. g[N].pos \in 0..Len(s) /\ (g[N].r = "more" => g[N].pos >= pos + N)
    BY <1>18 DEF IconvStates, IconvSound, IconvTook
  <2> QED BY <2>1 DEF N
<1> QED BY <1>2, <1>18, <1>19 DEF N

Utf8States(s) == [inpos : 0..Len(s), op : Seq(Decoded), end : {"more", "done", "bad_value"}]
Refused(s, mode) == mode < 2 /\ ToSet(s) \cap (IF mode = 0 THEN {"i", "u"} ELSE {"i"}) # {}
Utf8Took(s, mode, k, inpos, op, end) ==
  /\ Only({"v"}, op) = Only({"v"}, SubSeq(s, 1, inpos))
  /\ end = "more" => inpos >= k
  /\ end = "done" => inpos = Len(s)
  /\ end = "bad_value" => Refused(s, mode)
Utf8Sound(s, mode, k, st) == Utf8Took(s, mode, k, st.inpos, st.op, st.end)

\* A turn of string_from_utf8() takes a character or ends the loop
LEMMA Utf8TurnSound ==
  ASSUME StringsAssumptions, NEW s \in Seq(CodeUnits), NEW mode \in 0..3,
         NEW k \in Nat, NEW st \in Utf8States(s), Utf8Sound(s, mode, k, st)
  PROVE  /\ Utf8Turn(s, mode, st) \in Utf8States(s)
         /\ Utf8Sound(s, mode, k + 1, Utf8Turn(s, mode, st))
<1> DEFINE inpos == st.inpos
           op == st.op
           r == iconv(s, inpos, mode)
           fails == r.r = "EILSEQ" /\ r.pos < Len(s)
           next == IF fails THEN r.pos + 1 ELSE r.pos
           new == Utf8Turn(s, mode, st)
<1>1. /\ inpos \in 0..Len(s) /\ op \in Seq(Decoded) /\ st.end \in {"more", "done", "bad_value"}
      /\ st = [inpos |-> inpos, op |-> op, end |-> st.end]
  BY DEF Utf8States
<1>2. Len(s) \in Nat /\ BUFSIZ \in Nat \ {0}
  BY DEF StringsAssumptions
<1>3. /\ Only({"v"}, op) = Only({"v"}, SubSeq(s, 1, inpos))
      /\ st.end = "more" => inpos >= k
  BY DEF Utf8Sound, Utf8Took
<1>4. CASE st.end # "more"
  <2>1. new = st
    BY <1>4 DEF Utf8Turn
  <2>2. Utf8Sound(s, mode, k + 1, st)
    BY <1>4 DEF Utf8Sound, Utf8Took
  <2> HIDE DEF new
  <2>3. new \in Utf8States(s) /\ Utf8Sound(s, mode, k + 1, new)
    BY <2>1, <2>2
  <2> QED BY <2>3 DEF new
<1>5. CASE st.end = "more"
  <2>1. r \in IconvStates(s) /\ r.r # "more" /\ IconvSound(s, inpos, mode, Len(s) + 1, r)
    <3> HIDE DEF inpos
    <3> QED BY <1>1, IconvKeeps
  <2>2. new = IF fails /\ mode < 2 THEN [st EXCEPT !.end = "bad_value"]
              ELSE [inpos |-> next, op |-> op \o r.out, end |-> IF next = Len(s) THEN "done" ELSE "more"]
    BY <1>5 DEF Utf8Turn
  <2> HIDE DEF r, inpos, op, new
  <2>3. r.pos \in 0..Len(s) /\ r.out \in Seq(Decoded) /\ r.r \in {"done", "EILSEQ", "E2BIG"}
    BY <2>1 DEF IconvStates
  <2>4. /\ r.pos >= inpos /\ Len(r.out) <= r.pos - inpos
        /\ r.r = "done" => r.pos = Len(s)
        /\ r.r = "E2BIG" => Len(r.out) = BUFSIZ
    BY <2>1 DEF IconvSound, IconvTook
  <2>5. /\ Only({"v"}, r.out) = Only({"v"}, SubSeq(s, inpos + 1, r.pos))
        /\ r.r = "EILSEQ" => r.pos < Len(s) /\ Unmappable(s[r.pos + 1], mode)
    BY <2>1 DEF IconvSound, IconvTook
  <2>6. CASE fails /\ mode < 2
    <3>1. new = [inpos |-> inpos, op |-> op, end |-> "bad_value"]
      BY <1>1, <2>2, <2>6
    <3>2. Unmappable(s[r.pos + 1], mode) /\ r.pos + 1 \in 1..Len(s)
      BY <1>2, <2>3, <2>5, <2>6
    <3>3. s[r.pos + 1] \in ToSet(s)
      BY <3>2 DEF ToSet
    <3>4. Refused(s, mode)
      BY <2>6, <3>2, <3>3 DEF Refused, Unmappable
    <3>5. new.inpos = inpos /\ new.op = op /\ new.end = "bad_value"
      BY <3>1
    <3>6. new \in Utf8States(s)
      BY <1>1, <3>1 DEF Utf8States
    <3>7. Utf8Took(s, mode, k + 1, inpos, op, "bad_value")
      BY <1>3, <3>4 DEF Utf8Took
    <3>8. Utf8Sound(s, mode, k + 1, new)
      BY <3>5, <3>7 DEF Utf8Sound
    <3> QED BY <3>6, <3>8 DEF new
  <2>7. CASE ~(fails /\ mode < 2)
    <3> DEFINE all == op \o r.out
               end == IF next = Len(s) THEN "done" ELSE "more"
    <3>1. new = [inpos |-> next, op |-> all, end |-> end]
      BY <2>2, <2>7
    <3>2. SubSeq(s, 1, r.pos) = SubSeq(s, 1, inpos) \o SubSeq(s, inpos + 1, r.pos)
          /\ SubSeq(s, 1, inpos) \in Seq(CodeUnits) /\ SubSeq(s, inpos + 1, r.pos) \in Seq(CodeUnits)
      <4>1. r.pos \in inpos..Len(s)
        BY <1>1, <2>3, <2>4
      <4> QED BY <1>1, <4>1, SubSeqExtends
    <3>3. Only({"v"}, all) = Only({"v"}, op) \o Only({"v"}, r.out)
      BY <1>1, <2>3, OnlyConcat
    <3>4. Only({"v"}, SubSeq(s, 1, inpos) \o SubSeq(s, inpos + 1, r.pos))
            = Only({"v"}, SubSeq(s, 1, inpos)) \o Only({"v"}, SubSeq(s, inpos + 1, r.pos))
      BY <3>2, OnlyConcat
    <3>5. Only({"v"}, all) = Only({"v"}, SubSeq(s, 1, r.pos))
      BY <1>3, <2>5, <3>2, <3>3, <3>4
    <3>6. all \in Seq(Decoded)
      BY <1>1, <2>3
    <3> HIDE DEF all
    <3>7. Only({"v"}, SubSeq(s, 1, next)) = Only({"v"}, SubSeq(s, 1, r.pos))
      <4>1. CASE fails
        <5> DEFINE c == s[r.pos + 1]
        <5>1. r.pos \in 0..Len(s) - 1
          BY <1>2, <2>3, <4>1
        <5>2. SubSeq(s, 1, r.pos + 1) = Append(SubSeq(s, 1, r.pos), c) /\ SubSeq(s, 1, r.pos) \in Seq(CodeUnits)
              /\ c \in CodeUnits
          BY <5>1, SubSeqNext
        <5>3. c # "v"
          BY <2>5, <4>1 DEF Unmappable
        <5> HIDE DEF c
        <5>4. Only({"v"}, Append(SubSeq(s, 1, r.pos), c)) = Kept({"v"}, Only({"v"}, SubSeq(s, 1, r.pos)), c)
          BY <5>2, OnlyAppend
        <5>5. Kept({"v"}, Only({"v"}, SubSeq(s, 1, r.pos)), c) = Only({"v"}, SubSeq(s, 1, r.pos))
          BY <5>3 DEF Kept
        <5>6. next = r.pos + 1
          BY <4>1
        <5> HIDE DEF next
        <5> QED BY <5>2, <5>4, <5>5, <5>6
      <4>2. CASE ~fails
        BY <4>2
      <4> QED BY <4>1, <4>2
    <3>8. next \in 0..Len(s) /\ (next # Len(s) => next >= inpos + 1)
      <4>1. CASE fails
        BY <1>1, <1>2, <2>3, <2>4, <4>1
      <4>2. CASE ~fails
        <5>1. next = r.pos
          BY <4>2
        <5>2. CASE r.r = "done"
          BY <2>3, <2>4, <5>1, <5>2
        <5>3. CASE r.r = "E2BIG"
          BY <1>1, <1>2, <2>3, <2>4, <5>1, <5>3
        <5>4. r.r # "EILSEQ"
          BY <2>5, <4>2
        <5> QED BY <2>3, <5>2, <5>3, <5>4
      <4> QED BY <4>1, <4>2
    <3> HIDE DEF next
    <3>9. end \in {"more", "done", "bad_value"} /\ (end = "done" => next = Len(s))
          /\ (end = "more" => next >= k + 1) /\ end # "bad_value"
      BY <1>1, <1>3, <1>5, <3>8
    <3> HIDE DEF end
    <3>10. new \in Utf8States(s)
      BY <3>1, <3>6, <3>8, <3>9 DEF Utf8States
    <3>11. Utf8Took(s, mode, k + 1, next, all, end)
      BY <3>5, <3>7, <3>9 DEF Utf8Took
    <3>12. new.inpos = next /\ new.op = all /\ new.end = end
      BY <3>1
    <3>13. Utf8Sound(s, mode, k + 1, new)
      BY <3>11, <3>12 DEF Utf8Sound
    <3> QED BY <3>10, <3>13 DEF new
  <2> QED BY <2>6, <2>7
<1> QED BY <1>4, <1>5

LEMMA Utf8KeepsAll ==
  ASSUME StringsAssumptions, NEW s \in Seq(CodeUnits), NEW mode \in 0..3
  PROVE  Utf8Keeps(s, mode, string_from_utf8(s, mode))
<1> DEFINE N == Len(s) + 1
           a == [inpos |-> 0, op |-> <<>>, end |-> "more"]
           X == {st \in Utf8States(s) : \E n \in Nat : Utf8Sound(s, mode, n, st)}
           Turn == [q \in (0..N - 1) \X X |-> Utf8Turn(s, mode, q[2])]
           Is(g) == g = [k \in 0..N |-> IF k = 0 THEN [inpos |-> 0, op |-> <<>>, end |-> "more"]
                                        ELSE Utf8Turn(s, mode, g[k - 1])]
<1>1. PICK g : g = CHOOSE h : Is(h)
  OBVIOUS
<1>2. string_from_utf8(s, mode) = IF g[N].end = "bad_value" THEN Throw("bad_value") ELSE Ok(g[N].op)
  BY <1>1 DEF string_from_utf8
<1>3. N \in Nat
  OBVIOUS
<1>4. a \in Utf8States(s) /\ Utf8Sound(s, mode, 0, a)
  <2>1. <<>> \in Seq(Decoded) /\ SubSeq(s, 1, 0) = <<>> /\ 0 \in 0..Len(s)
    OBVIOUS
  <2>2. a.inpos = 0 /\ a.op = <<>> /\ a.end = "more"
    OBVIOUS
  <2>3. a \in Utf8States(s)
    BY <2>1 DEF Utf8States
  <2> HIDE DEF a
  <2> DEFINE e == <<>>
  <2>4. e = SubSeq(s, 1, 0)
    BY <2>1
  <2> HIDE DEF e
  <2>5. Only({"v"}, e) = Only({"v"}, SubSeq(s, 1, 0))
    BY <2>4
  <2>6. Utf8Took(s, mode, 0, 0, e, "more")
    BY <2>5 DEF Utf8Took
  <2>7. a.op = e
    BY <2>2 DEF e
  <2> QED BY <2>2, <2>3, <2>6, <2>7 DEF Utf8Sound
<1>5. a \in X
  BY <1>4
<1>6. \A n \in Nat, st \in Utf8States(s) : Utf8Sound(s, mode, n, st) =>
        Utf8Turn(s, mode, st) \in Utf8States(s) /\ Utf8Sound(s, mode, n + 1, Utf8Turn(s, mode, st))
  BY Utf8TurnSound
<1>7. \A x \in X : Utf8Turn(s, mode, x) \in X
  <2> TAKE x \in X
  <2>1. PICK n \in Nat : Utf8Sound(s, mode, n, x)
    OBVIOUS
  <2>2. Utf8Turn(s, mode, x) \in Utf8States(s) /\ Utf8Sound(s, mode, n + 1, Utf8Turn(s, mode, x)) /\ n + 1 \in Nat
    BY <1>6, <2>1
  <2> QED BY <2>2
<1> HIDE DEF X, N
<1>8. Turn \in Bodies(0..N - 1, X) /\ \A k \in 0..N - 1, x \in X : Turn[<<k, x>>] = Utf8Turn(s, mode, x)
  BY <1>7 DEF Bodies
<1> HIDE DEF Turn, a
<1>9. PICK f \in [0..N -> X] : IsLoop(f, 0..N - 1, X, a, Turn)
  BY <1>3, <1>5, <1>8, Loop
<1>10. f[0] = a /\ \A k \in 0..N - 1 : f[k + 1] = Utf8Turn(s, mode, f[k])
  BY <1>8, <1>9 DEF IsLoop
<1>11. Is(f)
  <2>1. \A k \in 0..N : f[k] = IF k = 0 THEN a ELSE Utf8Turn(s, mode, f[k - 1])
    <3> TAKE k \in 0..N
    <3>1. k = 0 \/ (k - 1 \in 0..N - 1 /\ (k - 1) + 1 = k)
      BY <1>3
    <3> QED BY <1>10, <3>1
  <2> QED BY <1>9, <2>1 DEF a
<1>12. Is(g)
  <2> HIDE DEF Is
  <2> QED BY <1>1, <1>11
<1>13. ASSUME NEW k \in 0..N PROVE g[k] = IF k = 0 THEN a ELSE Utf8Turn(s, mode, g[k - 1])
  <2> DEFINE body(h, m) == IF m = 0 THEN [inpos |-> 0, op |-> <<>>, end |-> "more"]
                           ELSE Utf8Turn(s, mode, h[m - 1])
  <2>1. g = [m \in 0..N |-> body(g, m)]
    BY <1>12
  <2> HIDE DEF body
  <2>2. g[k] = body(g, k)
    BY <2>1
  <2> QED BY <2>2 DEF body, a
<1> HIDE DEF Is
<1>14. ASSUME NEW k \in 0..N - 1 PROVE g[k + 1] = Utf8Turn(s, mode, g[k])
  <2>1. k + 1 \in 0..N /\ k + 1 # 0 /\ (k + 1) - 1 = k
    BY <1>3
  <2> QED BY <1>13, <2>1
<1>15. g[0] = a
  BY <1>3, <1>13
<1> DEFINE T == {k \in 0..N : g[k] \in Utf8States(s) /\ Utf8Sound(s, mode, k, g[k])}
<1>16. 0 \in T
  BY <1>3, <1>4, <1>15
<1>17. ASSUME NEW k \in 0..N - 1, k \in T PROVE k + 1 \in T
  <2>1. g[k] \in Utf8States(s) /\ Utf8Sound(s, mode, k, g[k]) /\ k + 1 \in 0..N /\ k \in Nat
    BY <1>3, <1>17
  <2>2. g[k + 1] \in Utf8States(s) /\ Utf8Sound(s, mode, k + 1, g[k + 1])
    BY <1>6, <1>14, <2>1
  <2> QED BY <2>1, <2>2
<1>18. g[N] \in Utf8States(s) /\ Utf8Sound(s, mode, N, g[N])
  <2>1. \A k \in 0..N : k \in T
    <3> HIDE DEF T
    <3> QED BY <1>3, <1>16, <1>17, InductionUpto
  <2> QED BY <1>3, <2>1
<1> DEFINE st == g[N]
<1>19. st.inpos \in 0..Len(s) /\ st.end \in {"more", "done", "bad_value"}
  BY <1>18 DEF Utf8States
<1>20. /\ Only({"v"}, st.op) = Only({"v"}, SubSeq(s, 1, st.inpos))
       /\ st.end = "more" => st.inpos >= Len(s) + 1
       /\ st.end = "done" => st.inpos = Len(s)
       /\ st.end = "bad_value" => Refused(s, mode)
  BY <1>18 DEF Utf8Sound, Utf8Took, N
<1> HIDE DEF st
<1>21. string_from_utf8(s, mode) = IF st.end = "bad_value" THEN Throw("bad_value") ELSE Ok(st.op)
  BY <1>2 DEF st
<1>22. CASE st.end = "bad_value"
  <2>1. string_from_utf8(s, mode).error = "bad_value"
    BY <1>21, <1>22 DEF Throw
  <2>2. Refused(s, mode)
    BY <1>20, <1>22
  <2> DEFINE r == string_from_utf8(s, mode)
  <2>3. r.error # "none"
    BY <2>1
  <2> HIDE DEF r
  <2>4. Utf8Keeps(s, mode, r)
    BY <2>2, <2>3 DEF Utf8Keeps, Refused
  <2> QED BY <2>4 DEF r
<1>23. CASE st.end # "bad_value"
  <2>1. st.inpos = Len(s)
    <3>1. st.end = "done"
      BY <1>19, <1>20, <1>23
    <3> QED BY <1>20, <3>1
  <2>2. SubSeq(s, 1, Len(s)) = s
    OBVIOUS
  <2>3. string_from_utf8(s, mode).error = "none" /\ string_from_utf8(s, mode).value = st.op
    BY <1>21, <1>23 DEF Ok
  <2>4. Only({"v"}, st.op) = Only({"v"}, s)
    BY <1>20, <2>1, <2>2
  <2> QED BY <2>3, <2>4 DEF Utf8Keeps
<1> QED BY <1>22, <1>23

(***************************************************************************)
(* Strings: the program                                                    *)
(***************************************************************************)
Answered(q, a) ==
  /\ a.error = "none" =>
       /\ q.op \in {"search", "index"} => q.s2 = <<>> \/ FirstMatch(q, a)
       /\ q.op = "span" => LongestSpan(q, a.value)
       /\ q.op = "submatch" => FirstGroup(q.ov, a.value[1])
       /\ q.op = "compare" => TellsOrder(q, a)
  /\ q.op = "split" => SplitKeeps(q.s, a.value)
  /\ q.op = "utf8" => Utf8Keeps(q.s, q.mode, a)

LEMMA AnsweredIs == FindsFirst <=> Answered(query, answer)
BY DEF FindsFirst, Leftmost, KeepsAll, Answered

LEMMA StringStep == StringsAssumptions /\ FindsFirst /\ [StringsNext]_strings_vars => FindsFirst'
<1> SUFFICES ASSUME StringsAssumptions, FindsFirst, [StringsNext]_strings_vars PROVE FindsFirst'
  OBVIOUS
<1>1. SUFFICES Answered(query', answer')
  BY DEF FindsFirst, Leftmost, KeepsAll, Answered
<1>2. /\ Haystacks \subseteq Seq(Letters) /\ Needles \subseteq Seq(Letters) /\ Offsets \subseteq Int
      /\ Lines \subseteq Seq(LineChars) /\ Encoded \subseteq Seq(CodeUnits)
  BY DEF StringsAssumptions, LineChars, CodeUnits
<1>3. CASE search
  <2>1. PICK s1 \in Haystacks, s2 \in Needles, ofs \in Offsets, fold \in BOOLEAN :
               /\ query' = [op |-> "search", s1 |-> s1, s2 |-> s2, ofs |-> ofs, fold |-> fold]
               /\ answer' = string_search(s1, s2, ofs, fold)
    BY <1>3 DEF search, Answer
  <2>2. s1 \in Seq(Letters) /\ s2 \in Seq(Letters) /\ ofs \in Int
    BY <1>2
  <2> DEFINE q == [op |-> "search", s1 |-> s1, s2 |-> s2, ofs |-> ofs, fold |-> fold]
  <2>3. q.op = "search" /\ q.s1 = s1 /\ q.s2 = s2 /\ q.ofs = ofs /\ q.fold = fold
    OBVIOUS
  <2> HIDE DEF q
  <2>4. string_search(s1, s2, ofs, fold).error = "none" /\ s2 # <<>> => FirstMatch(q, string_search(s1, s2, ofs, fold))
    BY <2>2, <2>3, SearchLeftmost
  <2>5. Answered(q, string_search(s1, s2, ofs, fold))
    BY <2>3, <2>4 DEF Answered
  <2> QED BY <2>1, <2>5 DEF q
<1>4. CASE index
  <2>1. PICK s \in Haystacks, c \in {"a", "b"}, ofs \in Offsets :
               /\ query' = [op |-> "index", s1 |-> s, s2 |-> <<c>>, ofs |-> ofs, fold |-> FALSE]
               /\ answer' = string_index(s, c, ofs)
    BY <1>4 DEF index, Answer
  <2>2. s \in Seq(Letters) /\ c \in Letters /\ ofs \in Int
    BY <1>2 DEF Letters
  <2> DEFINE q == [op |-> "index", s1 |-> s, s2 |-> <<c>>, ofs |-> ofs, fold |-> FALSE]
  <2>3. q.op = "index" /\ q.s1 = s /\ q.s2 = <<c>> /\ q.ofs = ofs /\ q.fold = FALSE
    OBVIOUS
  <2> HIDE DEF q
  <2>4. string_index(s, c, ofs).error = "none" => FirstMatch(q, string_index(s, c, ofs))
    BY <2>2, <2>3, IndexLeftmost
  <2>5. Answered(q, string_index(s, c, ofs))
    BY <2>3, <2>4 DEF Answered
  <2> QED BY <2>1, <2>5 DEF q
<1>5. CASE span
  <2>1. PICK s \in Haystacks, ofs \in Offsets, max \in Offsets, filter \in Needles, accept \in BOOLEAN :
               /\ query' = [op |-> "span", s |-> s, ofs |-> ofs, max |-> max, filter |-> filter, accept |-> accept]
               /\ answer' = string_xspan(s, ofs, max, filter, accept)
    BY <1>5 DEF span, Answer
  <2>2. s \in Seq(Letters) /\ filter \in Seq(Letters) /\ ofs \in Int /\ max \in Int
    BY <1>2
  <2> DEFINE q == [op |-> "span", s |-> s, ofs |-> ofs, max |-> max, filter |-> filter, accept |-> accept]
  <2>3. q.op = "span" /\ q.s = s /\ q.ofs = ofs /\ q.max = max /\ q.filter = filter /\ q.accept = accept
    OBVIOUS
  <2> HIDE DEF q
  <2>4. string_xspan(s, ofs, max, filter, accept).error = "none"
          => LongestSpan(q, string_xspan(s, ofs, max, filter, accept).value)
    BY <2>2, <2>3, SpanLongest
  <2>5. Answered(q, string_xspan(s, ofs, max, filter, accept))
    BY <2>3, <2>4 DEF Answered
  <2> QED BY <2>1, <2>5 DEF q
<1>6. CASE compare
  <2>1. PICK s1 \in Needles, s2 \in Needles, max \in Offsets, fold \in BOOLEAN :
               /\ query' = [op |-> "compare", s1 |-> s1, s2 |-> s2, max |-> max, fold |-> fold]
               /\ answer' = string_ncmp(s1, s2, max, fold)
    BY <1>6 DEF compare, Answer
  <2>2. s1 \in Seq(Letters) /\ s2 \in Seq(Letters) /\ max \in Int
    BY <1>2
  <2> DEFINE q == [op |-> "compare", s1 |-> s1, s2 |-> s2, max |-> max, fold |-> fold]
  <2>3. q.op = "compare" /\ q.s1 = s1 /\ q.s2 = s2 /\ q.max = max /\ q.fold = fold
    OBVIOUS
  <2> HIDE DEF q
  <2>4. string_ncmp(s1, s2, max, fold).error = "none" => TellsOrder(q, string_ncmp(s1, s2, max, fold))
    BY <2>2, <2>3, CompareInOrder
  <2>5. Answered(q, string_ncmp(s1, s2, max, fold))
    BY <2>3, <2>4 DEF Answered
  <2> QED BY <2>1, <2>5 DEF q
<1>7. CASE Sub \/ concat \/ delete \/ Return \/ UNCHANGED strings_vars
  <2>1. CASE UNCHANGED strings_vars
    BY <2>1, AnsweredIs DEF strings_vars
  <2>2. CASE Sub \/ concat \/ delete \/ Return
    <3>1. CASE Sub
      BY <3>1 DEF Sub, Answer, Answered
    <3>2. CASE concat
      BY <3>2 DEF concat, Answer, Answered
    <3>3. CASE delete
      BY <3>3 DEF delete, Answer, Answered
    <3>4. CASE Return
      <4>1. query'.op = "none"
        BY <3>4 DEF Return, NoQuery
      <4> QED BY <4>1 DEF Answered
    <3> QED BY <2>2, <3>1, <3>2, <3>3, <3>4
  <2> QED BY <1>7, <2>1, <2>2
<1>8. CASE split
  <2>1. PICK s \in Lines : query' = [op |-> "split", s |-> s] /\ answer' = split_words(s)
    BY <1>8 DEF split, Answer
  <2>2. SplitKeeps(s, split_words(s).value)
    BY <1>2, SplitKeepsAll
  <2>3. query'.op = "split" /\ query'.s = s
    BY <2>1
  <2> QED BY <2>1, <2>2, <2>3 DEF Answered
<1>9. CASE utf8
  <2>1. PICK s \in Encoded, mode \in 0..3 :
               /\ query' = [op |-> "utf8", s |-> s, mode |-> mode]
               /\ answer' = string_from_utf8(s, mode)
    BY <1>9 DEF utf8, Answer
  <2>2. Utf8Keeps(s, mode, string_from_utf8(s, mode))
    BY <1>2, Utf8KeepsAll
  <2>3. query'.op = "utf8" /\ query'.s = s /\ query'.mode = mode
    BY <2>1
  <2> QED BY <2>1, <2>2, <2>3 DEF Answered
<1>10. CASE regexp
  <2>1. PICK n \in 1..Fields : \E ov \in [1..n -> {-1, 0, 1}] :
               ov[1] # -1 /\ query' = [op |-> "submatch", ov |-> ov] /\ answer' = submatch(ov)
    BY <1>10 DEF regexp, Answer
  <2>2. PICK ov \in [1..n -> {-1, 0, 1}] :
               ov[1] # -1 /\ query' = [op |-> "submatch", ov |-> ov] /\ answer' = submatch(ov)
    BY <2>1
  <2>3. n \in Nat \ {0}
    BY DEF StringsAssumptions
  <2>4. FirstGroup(ov, submatch(ov).value[1])
    BY <2>2, <2>3, SubmatchFirst
  <2>5. query'.op = "submatch" /\ query'.ov = ov
    BY <2>2
  <2> QED BY <2>2, <2>4, <2>5 DEF Answered
<1> QED BY <1>3, <1>4, <1>5, <1>6, <1>7, <1>8, <1>9, <1>10 DEF StringsNext

\* Whatever is looked for, what string_search(), string_index(), the spans,
\* the comparisons and the submatches find is the first there is; splitting
\* and decoding keep every character (mudlle-string.c)
THEOREM StringsFindFirst == StringsAssumptions => (StringsSpec => []FindsFirst)
<1> SUFFICES ASSUME StringsAssumptions PROVE StringsSpec => []FindsFirst
  OBVIOUS
<1>1. StringsInit => FindsFirst
  <2> SUFFICES ASSUME StringsInit PROVE FindsFirst
    OBVIOUS
  <2>1. query.op = "none"
    BY DEF StringsInit, NoQuery
  <2> QED BY <2>1, AnsweredIs DEF Answered
<1>2. FindsFirst /\ [StringsNext]_strings_vars => FindsFirst'
  BY StringStep
<1> QED BY <1>1, <1>2, PTL DEF StringsSpec
=============================================================================
