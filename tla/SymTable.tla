------------------------------ MODULE SymTable ------------------------------
(***************************************************************************)
(* mudlle's tables (table.c, runtime/symbol.c): open hashing with linear   *)
(* probing over a vector of buckets whose size is a power of 2.  A removal *)
(* puts the symbols that follow in the cluster back where a search finds   *)
(* them; a table three quarters full doubles its buckets; data saved by    *)
(* a build with another hash function is rehashed in place when loaded.    *)
(***************************************************************************)
EXTENDS Integers, Sequences, SequencesExt

CONSTANTS Tables, Names, Symbols, NameOf, Folded, Values, NULL,
          DEF_TABLE_SIZE,
          MAX_VECTOR_SIZE,
          MAX_TABLE_ENTRIES,
          Hashes,        \* hash functions, as [name -> [size -> position]]
          Sizes,         \* powers of 2, up to twice the largest vector
          MaxVec,        \* bound on the vectors made into tables
          Kinds          \* which of ctables (TRUE) and tables (FALSE) are made

NEXT_POW2(n) == CHOOSE size \in Sizes : n < size /\ \A z \in Sizes : n < z => size <= z

table_good_size(entries) == NEXT_POW2((entries * 4 + 2) \div 3)

TableAssumption ==
         /\ NULL \in Values /\ NULL \notin Symbols
         /\ NameOf \in [Symbols -> Names]
         /\ Folded \in [Names -> Names]
         /\ \A n \in Names : Folded[Folded[n]] = Folded[n]
         /\ MaxVec \in Nat /\ MAX_VECTOR_SIZE \in Nat /\ MAX_TABLE_ENTRIES \in Nat
         /\ DEF_TABLE_SIZE \in Sizes /\ DEF_TABLE_SIZE \in 4..MAX_VECTOR_SIZE
         /\ table_good_size(MAX_TABLE_ENTRIES) <= MAX_VECTOR_SIZE
         /\ table_good_size(MAX_TABLE_ENTRIES + 1) > MAX_VECTOR_SIZE
         /\ \A h \in Hashes, n \in Names, size \in Sizes : h[n][size] \in 0..size - 1
         /\ Kinds \subseteq BOOLEAN
\* What the algorithm needs of the powers of 2: they double as far as there
\* are vectors, and there is one for each number of entries
SizeAssumption ==
         /\ Sizes \subseteq Nat \ {0}
         /\ \A size \in Sizes : size \in {1, 2} \/ size % 4 = 0
         /\ \A size \in Sizes : size <= MAX_VECTOR_SIZE => 2 * size \in Sizes
         /\ \A n \in {MaxVec, MAX_TABLE_ENTRIES + 1} :
              \E size \in Sizes : size > (n * 4 + 2) \div 3
ASSUME Assumptions == TableAssumption /\ SizeAssumption

VARIABLES table,      \* [buckets, used, readonly] of each table; the sign of
                      \* used tells ctables from tables
          data,       \* the value of each symbol
          readonly,   \* whether each symbol is read-only
          hash,       \* the hash function of this build
          pc          \* "run", or "abort" after a failed assertion

vars == <<table, data, readonly, hash, pc>>

(***************************************************************************)
(* Words and positions                                                     *)
(***************************************************************************)
is_ctable(tb) == tb.used < 0

make_used(ctable, n) == IF ctable THEN -n - 1 ELSE n
used_delta(tb) == IF is_ctable(tb) THEN -1 ELSE 1
table_entries(tb) == IF tb.used < 0 THEN -tb.used - 1 ELSE tb.used

Size(tb) == Cardinality(DOMAIN tb.buckets)
Empty(size) == [i \in 0..size - 1 |-> NULL]
Key(ctable, n) == IF ctable THEN n ELSE Folded[n]
Start(h, tb, n) == h[Key(is_ctable(tb), n)][Size(tb)]
Named(tb, s, n) == Key(is_ctable(tb), NameOf[s]) = Key(is_ctable(tb), n)
SymbolsOf(tb) == {tb.buckets[i] : i \in DOMAIN tb.buckets} \ {NULL}

\* How far from the start of its search table_find() may stop for name n
Stops(h, tb, n) ==
  LET size == Size(tb)
      start == Start(h, tb, n)
  IN {d \in 0..size - 1 : LET s == tb.buckets[(start + d) % size]
                          IN s = NULL \/ Named(tb, s, n)}

\* table_find(): the position of n, or the position where it would be added
table_find(h, tb, n) == (Start(h, tb, n) + Min(Stops(h, tb, n))) % Size(tb)

table_lookup(tb, n) == tb.buckets[table_find(hash, tb, n)]

(***************************************************************************)
(* Adding and removing                                                     *)
(***************************************************************************)
Stored(h, tb, s) ==
  [tb EXCEPT !.buckets[table_find(h, tb, NameOf[s])] = s, !.used = @ + used_delta(tb)]

alloc_table(ctable, size) ==
  [buckets |-> Empty(size), used |-> make_used(ctable, 0), readonly |-> FALSE]

\* The symbols of tb added, in the order of their buckets, to an empty table
Refilled(h, tb, size) ==
  LET new[n \in 0..Size(tb)] ==
        IF n = 0 THEN [alloc_table(is_ctable(tb), size) EXCEPT !.readonly = tb.readonly]
        ELSE IF tb.buckets[n - 1] = NULL THEN new[n - 1]
        ELSE Stored(h, new[n - 1], tb.buckets[n - 1])
  IN  new[Size(tb)]

\* Mutant: the table grows when it is full
TooFull_Late(tb) == table_entries(tb) >= Size(tb)

TooFull(tb) == table_entries(tb) >= Size(tb) \div 2 + Size(tb) \div 4

\* table_add_sym_fast(): one doubling is enough but for a table of size 1
table_add_sym_fast(h, tb, s) ==
  LET one == Stored(h, tb, s)
      two == Refilled(h, one, 2 * Size(tb))
  IN IF ~TooFull(one) THEN one
     ELSE IF ~TooFull(two) THEN two ELSE Refilled(h, two, 4 * Size(tb))

\* Whether every vector allocated on the way is one that can be
Fits(tb) == Size(tb) <= MAX_VECTOR_SIZE

At(tb, i) == tb.buckets[i % Size(tb)]

\* Mutant: the symbols after the removed one stay where they are
Closed_Stays(h, tb, pos) == tb

\* The bucket at pos was emptied: the rest of its cluster is placed anew, one
\* symbol at a time
Again(h, tb, pos) ==
  LET s == tb.buckets[pos]
      gap == [tb EXCEPT !.buckets[pos] = NULL]
      from == Start(h, tb, NameOf[s])
      step == Min({e \in 0..Size(tb) - 1 : At(gap, from + e) = NULL})
  IN  [gap EXCEPT !.buckets[(from + step) % Size(tb)] = s]
Closed(h, tb, pos) ==
  LET next == Min({d \in 1..Size(tb) : At(tb, pos + d) = NULL})
      new[d \in 0..next - 1] == IF d = 0 THEN tb ELSE Again(h, new[d - 1], (pos + d) % Size(tb))
  IN  new[next - 1]

\* Mutant: the count is that of a table, whatever the table is
removed_count_Table(tb) == tb.used - 1

removed_count(tb) == tb.used - used_delta(tb)

table_remove_at(h, tb, pos) ==
  [Closed(h, [tb EXCEPT !.buckets[pos] = NULL], pos) EXCEPT !.used = removed_count(tb)]

(***************************************************************************)
(* The program                                                             *)
(***************************************************************************)
Init == /\ \E kind \in [Tables -> Kinds] :
             table = [t \in Tables |-> alloc_table(kind[t], DEF_TABLE_SIZE)]
        /\ data = [s \in Symbols |-> NULL]
        /\ readonly = [s \in Symbols |-> FALSE]
        /\ hash \in Hashes
        /\ pc = "run"

Running == pc = "run" /\ UNCHANGED hash
Abort == pc' = "abort" /\ UNCHANGED <<table, data, readonly>>

Unused(n) == {s \in Symbols : /\ NameOf[s] = n
                              /\ \A t \in Tables : s \notin SymbolsOf(table[t])}

Fresh(s, v) == /\ data' = [data EXCEPT ![s] = v]
               /\ readonly' = [readonly EXCEPT ![s] = FALSE]

\* gc_allocate() aborts the program when the grown buckets are too large
PutIn(t, s) ==
  LET new == table_add_sym_fast(hash, table[t], s)
  IN IF Fits(new) THEN /\ table' = [table EXCEPT ![t] = new]
                       /\ UNCHANGED pc
     ELSE pc' = "abort" /\ UNCHANGED table

Overwrite(s, v) == /\ ~readonly[s]
                   /\ data' = [data EXCEPT ![s] = v]
                   /\ UNCHANGED <<table, readonly, pc>>

\* safe_table_mset(); a null value is not added
table_set(t, n, v) ==
  LET s == table_lookup(table[t], n)
  IN /\ Running /\ ~table[t].readonly
     /\ \/ s # NULL /\ Overwrite(s, v)
        \/ /\ s = NULL /\ v # NULL
           /\ table_entries(table[t]) < MAX_TABLE_ENTRIES
           /\ \E z \in Unused(n) : Fresh(z, v) /\ PutIn(t, z)

\* Mutant: a read-only table is not looked for
table_symbol_ref_Unchecked(t, n, v) ==
  /\ Running
  /\ table_lookup(table[t], n) = NULL
  /\ \E s \in Unused(n) : Fresh(s, v) /\ PutIn(t, s)

\* table_symbol_ref() adds the name, with a null value too, whatever the count
table_symbol_ref(t, n, v) ==
  /\ Running
  /\ table_lookup(table[t], n) = NULL
  /\ ~table[t].readonly
  /\ \E s \in Unused(n) : Fresh(s, v) /\ PutIn(t, s)

table_add_symbol(t, s) ==
  /\ Running
  /\ table_lookup(table[t], NameOf[s]) = NULL
  /\ ~table[t].readonly
  /\ PutIn(t, s) /\ UNCHANGED <<data, readonly>>

table_remove(t, n) ==
  LET pos == table_find(hash, table[t], n)
  IN /\ Running /\ ~table[t].readonly
     /\ table[t].buckets[pos] # NULL
     /\ table' = [table EXCEPT ![t] = table_remove_at(hash, @, pos)]
     /\ UNCHANGED <<data, readonly, pc>>

protect_table(t) == /\ Running
                    /\ table' = [table EXCEPT ![t].readonly = TRUE]
                    /\ UNCHANGED <<data, readonly, pc>>

symbol_set(s, v) == Running /\ Overwrite(s, v)

\* protect() of a symbol
protect(s) == /\ Running
              /\ readonly' = [readonly EXCEPT ![s] = TRUE]
              /\ UNCHANGED <<table, data, pc>>

make_symbol(s, v) == /\ Running
                     /\ s \in Unused(NameOf[s])
                     /\ Fresh(s, v) /\ UNCHANGED <<table, pc>>

\* The program drops the table it held in t for a new one
make_table(t, ctable) ==
  /\ Running
  /\ table' = [table EXCEPT ![t] = alloc_table(ctable, DEF_TABLE_SIZE)]
  /\ UNCHANGED <<data, readonly, pc>>

\* vector_to_table(), of any kind; symbols in conflict are an error
vector_to_table(t, v, ctable, ro) ==
  LET size == table_good_size(Len(v))
      new[n \in 0..Len(v)] == IF n = 0 THEN alloc_table(ctable, size)
                              ELSE table_add_sym_fast(hash, new[n - 1], v[n])
  IN /\ Running
     /\ size <= MAX_VECTOR_SIZE
     /\ \A n \in 1..Len(v) : table_lookup(new[n - 1], NameOf[v[n]]) = NULL
     /\ table' = [table EXCEPT ![t] = [new[Len(v)] EXCEPT !.readonly = ro]]
     /\ UNCHANGED <<data, readonly, pc>>

table_shallow_copy(t, u) ==
  /\ Running
  /\ table' = [table EXCEPT ![u] = [table[t] EXCEPT !.readonly = FALSE]]
  /\ UNCHANGED <<data, readonly, pc>>

\* table_copy(): each symbol with a value is copied, in the order of the
\* buckets, to a table of the size that holds them
Valued(tb) == {s \in SymbolsOf(tb) : data[s] # NULL}
table_copy(t, u) ==
  LET tb == table[t]
      old == Valued(tb)
      Free == {s \in Symbols : \A w \in Tables \ {u} : s \notin SymbolsOf(table[w])}
  IN /\ Running
     /\ IF Cardinality(old) > MAX_TABLE_ENTRIES THEN Abort
        ELSE \E f \in [old -> Free] :
               LET New(s) == {z \in old : f[z] = s}
                   new[n \in 0..Size(tb)] ==
                     IF n = 0 THEN alloc_table(is_ctable(tb), table_good_size(Cardinality(old)))
                     ELSE IF tb.buckets[n - 1] \notin old THEN new[n - 1]
                     ELSE table_add_sym_fast(hash, new[n - 1], f[tb.buckets[n - 1]])
               IN /\ \A s \in old : NameOf[f[s]] = NameOf[s]
                  /\ table' = [table EXCEPT ![u] = new[Size(tb)]]
                  /\ data' = [s \in Symbols |-> IF New(s) = {} THEN data[s]
                                                ELSE data[CHOOSE z \in New(s) : TRUE]]
                  /\ readonly' = [s \in Symbols |-> New(s) = {} /\ readonly[s]]
                  /\ UNCHANGED pc

\* rehash_table(): in place, and with the table writable meanwhile
rehash_table(h, tb) == Refilled(h, tb, Size(tb))

\* gc_load(): what a build with another hash function saved is loaded.  It
\* aborts if a table grows or a count changes.
gc_load(h) ==
  /\ pc = "run" /\ hash' = h
  /\ IF \E t \in Tables : /\ SymbolsOf(table[t]) # {}
                          /\ \/ TooFull(table[t])
                             \/ rehash_table(h, table[t]).used # table[t].used
     THEN Abort
     ELSE /\ table' = [t \in Tables |-> rehash_table(h, table[t])]
          /\ UNCHANGED <<data, readonly, pc>>

Next == \/ \E t \in Tables : \/ protect_table(t)
                            \/ \E c \in Kinds : make_table(t, c)
        \/ \E t \in Tables, n \in Names :
             \/ table_remove(t, n)
             \/ \E v \in Values : table_set(t, n, v) \/ table_symbol_ref(t, n, v)
        \/ \E s \in Symbols : \/ protect(s)
                              \/ \E t \in Tables : table_add_symbol(t, s)
                              \/ \E v \in Values : symbol_set(s, v) \/ make_symbol(s, v)
        \/ \E t, u \in Tables : t # u /\ (table_copy(t, u) \/ table_shallow_copy(t, u))
        \/ \E t \in Tables, v \in BoundedSeq(Symbols, MaxVec), c \in Kinds, ro \in BOOLEAN :
             vector_to_table(t, v, c, ro)
        \/ \E h \in Hashes : gc_load(h)

Spec == Init /\ [][Next]_vars

(***************************************************************************)
(* Properties                                                              *)
(***************************************************************************)
TypeOK == /\ \A t \in Tables :
               /\ DOMAIN table[t] = {"buckets", "used", "readonly"}
               /\ \E size \in Sizes : DOMAIN table[t].buckets = 0..size - 1
               /\ \A i \in DOMAIN table[t].buckets :
                    table[t].buckets[i] \in Symbols \cup {NULL}
               /\ table[t].used \in Int /\ table[t].readonly \in BOOLEAN
               /\ is_ctable(table[t]) \in Kinds
          /\ data \in [Symbols -> Values]
          /\ readonly \in [Symbols -> BOOLEAN]
          /\ hash \in Hashes /\ pc \in {"run", "abort"}

\* table_find() finds every symbol where it is: no removal, doubling, copy or
\* load leaves an empty bucket or a symbol of the same name on its way
Findable == \A t \in Tables : \A i \in DOMAIN table[t].buckets :
              LET s == table[t].buckets[i]
              IN s = NULL \/ table_find(hash, table[t], NameOf[s]) = i

\* The signed count is that of the symbols, and below the three quarters at
\* which the table grows, so that table_find() always meets an empty bucket
\* ("The table is never allowed to be full", table.c).  No assertion about the
\* count fails: rehash_table() never grows a table and a copy always fits.
CountsKept == \A t \in Tables :
  /\ table_entries(table[t]) = Cardinality(SymbolsOf(table[t]))
  /\ table_entries(table[t]) = 0 \/ 4 * table_entries(table[t]) < 3 * Size(table[t])
NeverFull == pc = "run" /\ CountsKept

\* The tables are the maps that the primitives promise
Map == INSTANCE SymMap WITH
         table <- [t \in Tables |-> [ctable |-> is_ctable(table[t]),
                                     readonly |-> table[t].readonly,
                                     entries |-> SymbolsOf(table[t])]]
ImplementsMap == Map!Spec
=============================================================================
