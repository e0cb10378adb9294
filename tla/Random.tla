------------------------------- MODULE Random -------------------------------
(***************************************************************************)
(* Random numbers of a range and random orders (random.c).  The generator  *)
(* is a source of words of BITS bits, each as likely as any other; a       *)
(* number of 0..range is the high half of the product of such a word and   *)
(* range + 1, where words are thrown away until the low half is large      *)
(* enough.                                                                 *)
(***************************************************************************)
EXTENDS Integers, Sequences, FiniteSets

CONSTANTS BITS,     \* bits of a word, even; 32 and 64 in the code
          MaxLength \* bound on the length of an array

RandomAssumptions == BITS \in Nat \ {0} /\ BITS % 2 = 0 /\ MaxLength \in Nat

VARIABLES doing,    \* "idle", "draw" or "shuffle"
          range,    \* how many numbers there are to draw from
          number,   \* the number drawn
          array, at, \* the array that is shuffled, and how far
          choices   \* history: the numbers drawn for it

random_vars == <<doing, range, number, array, at, choices>>

\* How many words there are, and halves of words
PowerOf2[k \in Nat] == IF k = 0 THEN 1 ELSE 2 * PowerOf2[k - 1]
WORDS == PowerOf2[BITS]
HALVES == PowerOf2[BITS \div 2]
RawWords == 0..(WORDS - 1)

\* The product of two words, high half and low half, from products of halves
\* of words.
Half(x) == x % HALVES
Upper(x) == x \div HALVES
mul_u64(a, b) ==
  LET s == Half(a) * Upper(b) + Upper(Half(a) * Half(b))
      t == Upper(a) * Half(b) + Half(s)
  IN  [l |-> (Half(Half(a) * Half(b)) + t * HALVES) % WORDS,
       h |-> (Upper(a) * Upper(b) + Upper(s) + Upper(t)) % WORDS]

\* The words for which the low half is large enough: the first comparison
\* saves the division of the second
\* Mutant: one word too many is thrown away
Accepted_Strict(x, n) == LET l == mul_u64(x, n).l IN l >= n \/ l > (WORDS - n) % n
Accepted(x, n) == LET l == mul_u64(x, n).l IN l >= n \/ l >= (WORDS - n) % n

RandomInit == /\ doing = "idle" /\ range = 0 /\ number = 0
              /\ array = <<>> /\ at = 0 /\ choices = <<>>

random_range(n) ==
  /\ doing = "idle"
  /\ doing' = "draw" /\ range' = n /\ number' = 0
  /\ array' = <<>> /\ at' = 0 /\ choices' = <<>>

\* A word is drawn; the loop ends when it is accepted.  The whole range needs
\* no product.
draw(x) ==
  /\ doing = "draw"
  /\ IF range = WORDS THEN doing' = "idle" /\ number' = x
     ELSE IF Accepted(x, range) THEN doing' = "idle" /\ number' = mul_u64(x, range).h
     ELSE UNCHANGED <<doing, number>>
  /\ UNCHANGED <<range, array, at, choices>>

\* An array of n different elements
Sorted(n) == [j \in 1..n |-> j]
randomize_array(n) ==
  /\ doing = "idle"
  /\ array' = Sorted(n) /\ at' = 1 /\ choices' = <<>>
  /\ doing' = IF n < 2 THEN "idle" ELSE "shuffle"
  /\ range' = 0 /\ number' = 0

Swapped(a, j, k) == [a EXCEPT ![j] = a[k], ![k] = a[j]]

\* random_range32() gives one of the elements not yet placed
Candidates(k, n) == k..n
swap(j) ==
  /\ doing = "shuffle"
  /\ array' = Swapped(array, at, j) /\ at' = at + 1 /\ choices' = Append(choices, j)
  /\ doing' = IF at' < Len(array) THEN "shuffle" ELSE "idle"
  /\ UNCHANGED <<range, number>>

RandomNext == \/ \E n \in 1..WORDS : random_range(n)
              \/ \E x \in RawWords : draw(x)
              \/ \E n \in 0..MaxLength : randomize_array(n)
              \/ \E j \in Candidates(at, Len(array)) : swap(j)
RandomSpec == RandomInit /\ [][RandomNext]_random_vars

(***************************************************************************)
(* Properties                                                              *)
(***************************************************************************)
\* The words that give the number v
WordsFor(v) == {x \in RawWords : IF range = WORDS THEN x = v
                                 ELSE Accepted(x, range) /\ mul_u64(x, range).h = v}

\* Every number of the range is given by as many words as any other, no word
\* is thrown away that need not be, and nothing else is ever drawn
\* (random.c:113 "returns a number in [0..range]")
EvenNumbers ==
  range # 0 => /\ \A v \in 0..(range - 1) : Cardinality(WordsFor(v)) = WORDS \div range
               /\ doing = "idle" => number < range

\* Every order of an array is reached by as many sequences of choices as any
\* other, by exactly one (random.c:178-192)
Shuffled(c, n) ==
  LET p[k \in 0..Len(c)] == IF k = 0 THEN Sorted(n) ELSE Swapped(p[k - 1], k, c[k])
  IN  p[Len(c)]
ChoicesOf(n) == {c \in [1..(n - 1) -> 1..n] : \A k \in 1..(n - 1) : c[k] \in Candidates(k, n)}
Orders(n) == {o \in [1..n -> 1..n] : \A j, k \in 1..n : j # k => o[j] # o[k]}
EvenOrders ==
  LET n == Len(array) IN
  /\ array = Shuffled(choices, n)
  /\ doing = "idle" /\ n > 1 =>
       \A o \in Orders(n) : Cardinality({c \in ChoicesOf(n) : Shuffled(c, n) = o}) = 1

EvenChances == EvenNumbers /\ EvenOrders
=============================================================================
