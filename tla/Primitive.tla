----------------------------- MODULE Primitive ------------------------------
(***************************************************************************)
(* What compiled code shares with the rest of the system: memory, and the  *)
(* functions written in C that it calls.                                   *)
(*                                                                         *)
(* A memory mem has the cells of variables and mutable vectors, the user's *)
(* global variables, the cells of static variables, and what the function  *)
(* log() was given, in order.                                              *)
(***************************************************************************)
EXTENDS Tree, TLC

CONSTANT UserGlobals

EmptyMemory == [cells |-> <<>>, globals |-> [n \in UserGlobals |-> Null],
                statics |-> [n \in {} |-> 0], log |-> <<>>]

\* One more cell for each value; the new ones are the last
Alloc(mem, values) == [mem EXCEPT !.cells = @ \o values]
NewCells(mem, n) == [i \in 1..n |-> Len(mem.cells) + i]
Store(mem, cell, v) == [mem EXCEPT !.cells[cell] = v]

(* Vectors: the constants of the program are immutable and kept by value. *)
IsConstVector(v) == "e" \in DOMAIN v
VectorLen(v) == IF IsConstVector(v) THEN Len(v.e) ELSE Len(v.at)
VectorRef(mem, v, i) == IF IsConstVector(v) THEN v.e[i] ELSE mem.cells[v.at[i]]
\* The index an integer stands for: negative ones count from the end
VectorIndex(v, i) == IF i < 0 THEN VectorLen(v) + i + 1 ELSE i + 1
InVector(v, i) == v.t = "vector" /\ i.t = "integer" /\ VectorIndex(v, i.i) \in 1..VectorLen(v)
NewVector(mem, values) ==
  IF values = <<>> THEN [v |-> Vec(<<>>), mem |-> mem]
  ELSE [v |-> [t |-> "vector", at |-> NewCells(mem, Len(values))], mem |-> Alloc(mem, values)]

RECURSIVE Plain(_, _)
\* A value without its identity, for comparisons
Plain(mem, v) ==
  CASE v.t = "vector" -> Vec([i \in 1..VectorLen(v) |-> Plain(mem, VectorRef(mem, v, i))])
    [] v.t = "pair" -> Pair(Plain(mem, v.car), Plain(mem, v.cdr))
    [] v.t \in {"closure", "symbol"} -> [t |-> v.t]
    [] OTHER -> v

\* The same word: integers, null and pointers to one object
SameObject(v, w) ==
  /\ v.t = w.t
  /\ \/ v.t \in {"null", "integer"} /\ v = w
     \/ v.t = "vector" /\ VectorLen(v) = 0 /\ VectorLen(w) = 0

(***************************************************************************)
(* The operators of the language.                                          *)
(***************************************************************************)
Ok(v, mem) == [ok |-> TRUE, v |-> v, mem |-> mem]
Failed(mem) == [ok |-> FALSE, v |-> Null, mem |-> mem]

Arithmetic == {"lt", "le", "gt", "ge", "add", "subtract"}
IntegerOp(op, a, b) ==
  CASE op = "lt" -> MakeBool(a < b)
    [] op = "le" -> MakeBool(a <= b)
    [] op = "gt" -> MakeBool(a > b)
    [] op = "ge" -> MakeBool(a >= b)
    [] op = "add" -> MakeInt(a + b)
    [] op = "subtract" -> MakeInt(a - b)

Operator(op, args, mem) ==
  LET a == args[1] IN
  CASE op \in Arithmetic ->
         IF a.t = "integer" /\ args[2].t = "integer"
         THEN Ok(IntegerOp(op, a.i, args[2].i), mem) ELSE Failed(mem)
    [] op = "eq" -> Ok(MakeBool(SameObject(a, args[2])), mem)
    [] op = "ne" -> Ok(MakeBool(~SameObject(a, args[2])), mem)
    [] op = "not" -> Ok(MakeBool(~IsTrue(a)), mem)
    [] op = "car" -> IF a.t = "pair" THEN Ok(a.car, mem) ELSE Failed(mem)
    [] op = "cdr" -> IF a.t = "pair" THEN Ok(a.cdr, mem) ELSE Failed(mem)
    [] op = "ref" -> IF InVector(a, args[2])
                     THEN Ok(VectorRef(mem, a, VectorIndex(a, args[2].i)), mem) ELSE Failed(mem)
    [] op = "set" -> IF InVector(a, args[2]) /\ ~IsConstVector(a)
                     THEN Ok(args[3], Store(mem, a.at[VectorIndex(a, args[2].i)], args[3]))
                     ELSE Failed(mem)

(***************************************************************************)
(* Functions written in C, given arguments of the right number.            *)
(***************************************************************************)
PrimitiveArgs ==
  ("@log" :> 1) @@ ("@equal?" :> 2) @@ ("@vlength" :> 1) @@ ("@vector?" :> 1) @@ ("@pair?" :> 1)
  @@ ("@list?" :> 1) @@ ("@function?" :> 1) @@ ("@integer?" :> 1) @@ ("@car" :> 1) @@ ("@cdr" :> 1)
  @@ ("@pcons" :> 2) @@ ("@fail_no_match" :> 1) @@ ("@sequence" :> -1) @@ ("@iadd" :> 2)
  @@ ("@*" :> 2) @@ ("@count3" :> 3) @@ ("@c:get_static" :> 1) @@ ("@symbol_get" :> 1)
  @@ ("@symbol_set!" :> 2)

GetStatic(s, mem) ==
  IF s \in DOMAIN mem.statics THEN Ok([t |-> "symbol", cell |-> mem.statics[s]], mem)
  ELSE LET cell == Len(mem.cells) + 1
       IN Ok([t |-> "symbol", cell |-> cell],
             [Alloc(mem, <<Null>>) EXCEPT !.statics = @ @@ (s :> cell)])

call_primitive(name, args, mem) ==
  LET a == args[1]
      Is(typeset) == Ok(MakeBool(IsTypeset(a, typeset)), mem)
      Ints == a.t = "integer" /\ args[2].t = "integer"
  IN CASE name = "@log" -> Ok(a, [mem EXCEPT !.log = Append(@, Plain(mem, a))])
       [] name = "@equal?" -> Ok(MakeBool(Plain(mem, a) = Plain(mem, args[2])), mem)
       [] name = "@vlength" -> IF a.t = "vector" THEN Ok(MakeInt(VectorLen(a)), mem) ELSE Failed(mem)
       [] name = "@vector?" -> Is({"vector"})
       [] name = "@pair?" -> Is({"pair"})
       [] name = "@list?" -> Is(ListTypes)
       [] name = "@function?" -> Is(FunctionTypes)
       [] name = "@integer?" -> Is({"integer"})
       [] name \in {"@car", "@cdr"} -> Operator(IF name = "@car" THEN "car" ELSE "cdr", args, mem)
       [] name = "@pcons" -> Ok(Pair(a, args[2]), mem)
       [] name = "@fail_no_match" -> Failed(mem)
       [] name = "@sequence" -> LET new == NewVector(mem, args) IN Ok(new.v, new.mem)
       [] name = "@iadd" -> IF Ints THEN Ok(MakeInt(a.i + args[2].i), mem) ELSE Failed(mem)
       [] name = "@*" -> IF Ints THEN Ok(MakeInt(a.i * args[2].i), mem) ELSE Failed(mem)
       [] name = "@count3" -> Ok(MakeInt(3), mem)
       [] name = "@c:get_static" -> GetStatic(a.s, mem)
       [] name = "@symbol_get" -> Ok(mem.cells[a.cell], mem)
       [] name = "@symbol_set!" -> Ok(args[2], Store(mem, a.cell, args[2]))
=============================================================================
