------------------------------- MODULE MCData -------------------------------
(***************************************************************************)
(* What programs do with data: symbol tables, arithmetic and numbers in    *)
(* text, random numbers, strings, calls and their arguments, and saved     *)
(* data.  These parts do not meet in the models; each behaviour is one of  *)
(* the part that is chosen at its start, and the others stay as they were. *)
(* Arithmetic, strings and saved data use the same variables.              *)
(***************************************************************************)
EXTENDS SymTable, Calls, Random, Strings, TLC

CONSTANTS Parts,
          ReadBases,     \* bases of the numbers that are read from text
          GONE

VARIABLES part,
          tables, cdata, creadonly, chash, cpc,
          v1, v2, v3, v4, v5, v6, v7, v8, v9, v10, v11, v12, v13, v14, v15, v16
copy_vars == <<tables, cdata, creadonly, chash, cpc>>
data_vars == <<part, vars, copy_vars, call_vars, random_vars, strings_vars,
               v1, v2, v3, v4, v5, v6, v7, v8, v9, v10, v11, v12, v13, v14, v15, v16>>

\* The variables a part has no use for
Zero4 == /\ v4 = 0 /\ v5 = 0 /\ v6 = 0 /\ v7 = 0 /\ v8 = 0 /\ v9 = 0 /\ v10 = 0
         /\ v11 = 0 /\ v12 = 0 /\ v13 = 0 /\ v14 = 0 /\ v15 = 0 /\ v16 = 0
Zero3 == v3 = 0 /\ Zero4
Keep4 == UNCHANGED <<v4, v5, v6, v7, v8, v9, v10, v11, v12, v13, v14, v15, v16>>
Keep3 == UNCHANGED v3 /\ Keep4

(***************************************************************************)
(* One table with five names, which collide and wrap around under two hash *)
(* functions; and two tables of either kind with two names that differ by  *)
(* case, of which the same one has two symbols.                            *)
(* fold_hash(): the code and its high bits, cut to the size of the table   *)
(***************************************************************************)
Fold(code, size) == (code + code \div size) % size
PowersOf2 == {2^k : k \in 0..5}
HashOf(codes) == [n \in DOMAIN codes |-> [size \in PowersOf2 |-> Fold(codes[n], size)]]
FiveNames == {"a", "b", "c", "d", "e"}
FiveHashes == {HashOf([a |-> 7, b |-> 7, c |-> 6, d |-> 0, e |-> 5]),
               HashOf([a |-> 6, b |-> 5, c |-> 13, d |-> 14, e |-> 6])}
Same == [n \in FiveNames |-> n]
JustNull == {NULL}
Copies == INSTANCE SymTable WITH
  table <- tables, data <- cdata, readonly <- creadonly, hash <- chash, pc <- cpc,
  Tables <- {"t", "u"}, Names <- {"x", "X"}, Symbols <- {"x1", "x2"},
  NameOf <- [s \in {"x1", "x2"} |-> "x"], Folded <- [n \in {"x", "X"} |-> "x"],
  Values <- {NULL, "v"}, Hashes <- {HashOf([x |-> 3, X |-> 6])}, MaxVec <- 2, Kinds <- BOOLEAN
ASSUME Copies!Assumptions

(***************************************************************************)
(* Words of eight bits about the limits, and the texts of such numbers.    *)
(***************************************************************************)
Edges == {-64, -63, -62, -33, -32, -31, -9, -8, -7, -3, -2, -1, 0, 1, 2, 3, 6, 7, 8, 9,
          16, 31, 32, 33, 62, 63}
Words == {2 * i + 1 : i \in Edges} \cup {0, 8, -8, 126, -128}
Numeral == INSTANCE Arith WITH
  call <- v1, result <- v2, compiled <- v3, W <- 8, Words <- {}, Texts <- {}, Bases <- {}, Numbers <- {}
Quantities == {0, 1, 2, 7, 62, 63, 64, 65, 126, 127, 128, 129, 130, 200, 255, 256}
Texts ==
  {sign \o prefix \o Numeral!ulongtostr(base, n) :
     sign \in {<<>>, <<Numeral!PlusSign>>, <<Numeral!MinusSign>>, <<Numeral!Blank, Numeral!MinusSign>>},
     prefix \in {<<>>, <<0>>, <<0, Numeral!LetterX>>, <<0, Numeral!LetterB>>},
     base \in ReadBases \ {0}, n \in Quantities}
  \cup UNION {[1..n -> {0, 1, 9, Numeral!LetterB, Numeral!LetterX, Numeral!MinusSign, Numeral!Blank}] :
                n \in 0..3}
Arith == INSTANCE Arith WITH
  call <- v1, result <- v2, compiled <- v3, W <- 8, Bases <- ReadBases, Numbers <- -64..63

ASSUME RandomAssumptions

Upto(S, n) == UNION {[1..k -> S] : k \in 0..n}
MCHaystacks == Upto(Letters, 3) \cup [1..5 -> {"a", "b"}] \cup {<<"a", "A">> \o s : s \in [1..4 -> {"a", "b"}]}
MCNeedles == Upto(Letters, 2) \cup [1..3 -> {"a", "b"}] \cup {<<"a", "b", "a", "b">>, <<"b", "a", "b", "b">>}
MCOffsets == {-2, 0, 1, 7}
MCLines == Upto({"x", "blank", "single", "double"}, 5)
MCEncoded == Upto({"v", "u", "i"}, 5)
ASSUME StringsAssumptions

(***************************************************************************)
(* Functions with every combination of required and optional parameters    *)
(* and one that takes the rest, and primitives of every kind.              *)
(***************************************************************************)
Function(kind, params, n, seclevel, copy) ==
  [kind |-> kind, params |-> params, n |-> n, seclevel |-> seclevel, copy |-> copy]
Lists == {[i \in 1..r |-> "req"] \o [i \in 1..o |-> "opt"] \o rest :
            r \in 0..2, o \in 0..2, rest \in {<<>>, <<"rest">>}}
AllFunctions ==
  {Function("closure", p, 0, 0, FALSE) : p \in {q \in Lists : Len(q) <= 4}}
  \cup {Function("primitive", <<>>, n, 0, FALSE) : n \in 0..2}
  \cup {Function("secure", <<>>, 1, level, FALSE) : level \in 0..2}
  \cup {Function("varargs", <<>>, n, 0, copies) : n \in 0..3, copies \in BOOLEAN}
  \cup {Function("other", <<>>, 0, 0, FALSE)}
ASSUME CallsAssumptions

\* Three objects, of all kinds that are saved in different ways
Save == INSTANCE SaveLoad WITH
  kind <- v1, fields <- v2, immutable <- v3, host <- v4, header <- v5,
  static_data <- v6, op <- v7, phase <- v8, area <- v9, gcsize <- v10,
  newpos <- v11, save_hwm <- v12, sizes <- v13, loaded <- v14, round <- v15, root <- v16,
  Obj <- {"a", "b", "c"}, Root <- "a",
  KindsOf <- [a |-> {"record"}, b |-> {"record", "closure"}, c |-> {"static", "string", "primitive"}],
  Length <- [a |-> 2, b |-> 2, c |-> 2], StringBytes <- 5, Immutables <- {{}, {"c"}},
  Words <- {4, 8}, DEF_SAVE_SIZE <- 32

DataInit ==
  /\ part \in Parts
  /\ Init /\ (part # "table" => hash = CHOOSE h \in Hashes : TRUE)
  /\ CallInit /\ RandomInit /\ StringsInit
  /\ Copies!Init /\ (part # "copy" => \A t \in DOMAIN tables : ~Copies!is_ctable(tables[t]))
  /\ CASE part = "arith" -> Arith!Init /\ Zero4
       [] part = "save" -> Save!Init
       [] OTHER -> v1 = 0 /\ v2 = 0 /\ Zero3

DataNext ==
  /\ UNCHANGED part
  /\ \/ part = "table" /\ Next /\ UNCHANGED <<copy_vars, call_vars, random_vars, strings_vars, v1, v2>> /\ Keep3
     \/ part = "copy" /\ Copies!Next /\ UNCHANGED <<vars, call_vars, random_vars, strings_vars, v1, v2>> /\ Keep3
     \/ part = "calls" /\ CallNext /\ UNCHANGED <<vars, copy_vars, random_vars, strings_vars, v1, v2>> /\ Keep3
     \/ part = "random" /\ RandomNext /\ UNCHANGED <<vars, copy_vars, call_vars, strings_vars, v1, v2>> /\ Keep3
     \/ part = "strings" /\ StringsNext /\ UNCHANGED <<vars, copy_vars, call_vars, random_vars, v1, v2>> /\ Keep3
     \/ /\ UNCHANGED <<vars, copy_vars, call_vars, random_vars, strings_vars>>
        /\ \/ part = "arith" /\ Arith!Next /\ Keep4
           \/ part = "save" /\ Save!Next

DataSpec == DataInit /\ [][DataNext]_data_vars

\* The two tables of either kind are the maps that the primitives promise, as
\* Findable, CountsKept and ImplementsMap say of the one; and neither
\* the copying of a table nor the loading of one under another hash function
\* ends the process because the table grows or its count changes (table.c:572, 575).
TablesSound == /\ Copies!ImplementsMap
               /\ [](pc = "run" /\ (part = "copy" => Copies!Findable /\ Copies!NeverFull))

\* Arithmetic on tagged words is arithmetic on integers modulo 2^(W-1), the
\* checked operations fail exactly when the result does not fit, and compiled
\* code and the primitives agree (arith.c, ins.c, x64builtins.S).  A text is
\* read as the number that it is written for, or refused when it is none or does
\* not fit, "On over/underflow or illegal characters, it returns false"
\* (types.c:408).
ArithExact == part = "arith" => /\ Arith!WrapsOrFails /\ Arith!CompiledAgrees
                                /\ Arith!ReadsExactly

\* What load_data() reads of what save_data() wrote is the same data, with the
\* same sharing; saving leaves the live heap as it was, also when the area was
\* too small, and size_data() counts each object once (alloc.c:2192).
RoundTrip == part = "save" => Save!RoundTrip /\ Save!HeapRestored /\ Save!SizeCounted

=============================================================================
