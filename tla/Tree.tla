-------------------------------- MODULE Tree --------------------------------
(***************************************************************************)
(* Values, and the syntax trees the parser builds (tree.h, tree.c).        *)
(* Values and components are records told apart by their tag; a name is a  *)
(* string.  Names that start with "@" stand for GLOBAL_ENV_PREFIX: they    *)
(* are global whatever local variables there are.                          *)
(***************************************************************************)
EXTENDS Integers, Sequences, SequencesExt

(* Values *)
Null == [t |-> "null"]
MakeInt(i) == [t |-> "integer", i |-> i]
MakeBool(b) == MakeInt(IF b THEN 1 ELSE 0)
Vec(e) == [t |-> "vector", e |-> e]
Pair(a, d) == [t |-> "pair", car |-> a, cdr |-> d]
IsTrue(v) == v # MakeBool(FALSE)

(* Sets of types; "false" is the one value of TYPESET_FALSE *)
Types == {"null", "integer", "vector", "pair", "closure", "primitive", "symbol"}
ListTypes == {"null", "pair"}
FunctionTypes == {"closure", "primitive"}
IsTypeset(v, typeset) == v.t \in typeset \/ (~IsTrue(v) /\ "false" \in typeset)

(***************************************************************************)
(* Constants: literals may hold expressions, which make them dynamic.      *)
(***************************************************************************)
IntConst(i) == [k |-> "int", i |-> i]
NullConst == [k |-> "null"]
ListConst(items) == [k |-> "list", items |-> items]    \* the last one is the tail
ArrayConst(items) == [k |-> "array", items |-> items]
ExprConst(e) == [k |-> "expression", e |-> e]

RECURSIVE IsDynamic(_)
IsDynamic(c) ==
  \/ c.k = "expression"
  \/ c.k \in {"list", "array"} /\ \E i \in DOMAIN c.items : IsDynamic(c.items[i])

RECURSIVE constant_to_mudlle(_)
constant_to_mudlle(c) ==
  CASE c.k = "int" -> MakeInt(c.i)
    [] c.k = "null" -> Null
    [] c.k = "array" -> Vec([i \in DOMAIN c.items |-> constant_to_mudlle(c.items[i])])
    [] c.k = "list" -> FoldRight(LAMBDA x, rest : Pair(constant_to_mudlle(x), rest),
                                 Front(c.items), constant_to_mudlle(Last(c.items)))

(* Components *)
Const(c) == [c |-> "constant", cst |-> c]
Recall(n) == [c |-> "recall", name |-> n]
Assign(n, e) == [c |-> "assign", name |-> n, value |-> e]
Block(vars, seq) == [c |-> "block", vars |-> vars, statics |-> FALSE, seq |-> seq]
Statics(vars, seq) == [c |-> "block", vars |-> vars, statics |-> TRUE, seq |-> seq]
Closure(args, e) == [c |-> "closure", args |-> args, returns |-> Types, value |-> e]
Execute(f, args) == [c |-> "execute", f |-> f, args |-> args]
Builtin(fn, args) == [c |-> "builtin", fn |-> fn, mode |-> "default", args |-> args]
Labeled(n, e) == [c |-> "labeled", name |-> n, e |-> e]
Exit(n, e) == [c |-> "exit", name |-> n, e |-> e]
Match(force, e, nodes) == [c |-> "match", force |-> force, e |-> e, nodes |-> nodes]
PatternAssign(p, e) == [c |-> "pattern", pat |-> p, e |-> e]
Modify(fn, dst, mod, postfix) ==
  [c |-> "modify", fn |-> fn, mode |-> "default", dst |-> dst, mod |-> mod, postfix |-> postfix]
For(vars, init, exit, loop, e) ==
  [c |-> "for", vars |-> vars, init |-> init, exit |-> exit, loop |-> loop, e |-> e]
NoComponent == [c |-> "none"]

component_true == Const(IntConst(1))
component_false == Const(IntConst(0))
component_undefined == Const(IntConst(42))

(* Parameters of functions.  An optional one has a default value, a vararg  *)
(* one has none; exactly one of name and pat is given.                      *)
Arg(n, typeset) == [name |-> n, typeset |-> typeset, pat |-> NoComponent,
                    default |-> NoComponent, vararg |-> FALSE]
OptArg(n, e) == [Arg(n, Types) EXCEPT !.default = e]
VarArg(n) == [Arg(n, Types) EXCEPT !.vararg = TRUE]
PatArg(p) == [Arg("", Types) EXCEPT !.pat = p]
IsOptional(arg) == arg.default # NoComponent

(* Patterns *)
PConst(c) == [p |-> "const", cst |-> c]
PVar(n, typeset) == [p |-> "variable", name |-> n, typeset |-> typeset]
PSink(typeset) == [p |-> "sink", typeset |-> typeset]
PArray(pats, ellipsis, tail) ==
  [p |-> "array", pats |-> pats, ellipsis |-> ellipsis, tail |-> tail]
PList(pats, tail) == [p |-> "list", pats |-> pats, tail |-> tail]
PExpr(e) == [p |-> "expr", e |-> e]
PAnd(p, cond) == [p |-> "and", pat |-> p, cond |-> cond]
POr(l, r) == [p |-> "or", lhs |-> l, rhs |-> r]
NoPattern == [p |-> "none"]

RECURSIVE PatternVars(_)
\* The variables a pattern assigns to (pattern_has_collisions())
PatternVars(p) ==
  CASE p.p = "variable" -> <<p.name>>
    [] p.p = "array" -> FlattenSeq([i \in DOMAIN p.pats |-> PatternVars(p.pats[i])])
                        \o FlattenSeq([i \in DOMAIN p.tail |-> PatternVars(p.tail[i])])
    [] p.p = "list" -> FlattenSeq([i \in DOMAIN p.pats |-> PatternVars(p.pats[i])])
                       \o (IF p.tail = NoPattern THEN <<>> ELSE PatternVars(p.tail))
    [] p.p = "and" -> PatternVars(p.pat)
    [] p.p = "or" -> PatternVars(p.lhs)
                     \o SelectSeq(PatternVars(p.rhs),
                                  LAMBDA n : n \notin Range(PatternVars(p.lhs)))
    [] OTHER -> <<>>

\* constant_type() of what a pattern may compare with
constant_type(cst) == CASE cst.k = "int" -> "integer"
                        [] cst.k = "null" -> "null"
                        [] cst.k = "list" -> "pair"
                        [] cst.k = "array" -> "vector"

RECURSIVE pattern_typeset(_)
\* The types of the values that may match a pattern
pattern_typeset(p) ==
  CASE p.p = "const" -> {constant_type(p.cst)}
    [] p.p = "list" -> {"pair"}
    [] p.p = "array" -> {"vector"}
    [] p.p = "and" -> pattern_typeset(p.pat)
    [] p.p = "or" -> pattern_typeset(p.lhs) \cup pattern_typeset(p.rhs)
    [] p.p \in {"variable", "sink"} -> p.typeset
    [] p.p = "expr" -> Types
=============================================================================
