------------------------------ MODULE Meaning -------------------------------
(***************************************************************************)
(* What programs mean, as doc/mudlle-ref.doc describes the language: a     *)
(* direct evaluation of the syntax tree, without expansions and code.      *)
(*                                                                         *)
(* A result is a value, an exit of a named block with a value, or an       *)
(* error, with the memory it leaves.  An environment is a function from    *)
(* names to cells.                                                         *)
(***************************************************************************)
EXTENDS Primitive

Value(v, mem) == [k |-> "value", v |-> v, mem |-> mem]
ErrorIn(mem) == [k |-> "error", v |-> Null, mem |-> mem]
ExitOf(name, v, mem) == [k |-> "exit", name |-> name, v |-> v, mem |-> mem]
Lift(r) == IF r.ok THEN Value(r.v, r.mem) ELSE ErrorIn(r.mem)
Bind(r, F(_, _)) == IF r.k = "value" THEN F(r.v, r.mem) ELSE r
\* A block called name ends with the value it is left with
Catch(r, name) == IF r.k = "exit" THEN IF r.name = name THEN Value(r.v, r.mem) ELSE r ELSE r

Undefined == MakeInt(42)

RECURSIVE Eval(_, _, _), EvalSeq(_, _, _), EvalArgs(_, _, _), EvalWhile(_, _, _, _)
RECURSIVE MatchAll(_, _, _, _), MatchPattern(_, _, _, _), MatchNodes(_, _, _, _), EvalConst(_, _, _)
RECURSIVE BindParams(_, _, _, _, _)

WithVars(env, mem, names) ==
  LET cells == NewCells(mem, Len(names))
      At(n) == cells[CHOOSE i \in DOMAIN names : names[i] = n]
  IN [env |-> [n \in Range(names) |-> At(n)] @@ env, mem |-> Alloc(mem, [i \in DOMAIN names |-> Null])]

Read(name, env, mem) ==
  CASE name \in DOMAIN env -> mem.cells[env[name]]
    [] name \notin DOMAIN env /\ name \in DOMAIN PrimitiveArgs -> [t |-> "primitive", name |-> name]
    [] OTHER -> mem.globals[name]
Write(name, env, mem, v) ==
  IF name \in DOMAIN env THEN Store(mem, env[name], v) ELSE [mem EXCEPT !.globals[name] = v]

(***************************************************************************)
(* Calls.                                                                  *)
(***************************************************************************)
\* Parameters from number i on, each in the scope of those before it
BindParams(f, i, args, env, mem) ==
  IF i > Len(f.args) THEN Bind(Eval(f.value, env, mem), LAMBDA v, m : Value(v, m))
  ELSE LET p == f.args[i]
           rest == [j \in 1..(Len(args) - i + 1) |-> args[j + i - 1]]
           given == i <= Len(args)
           value == CASE p.vararg -> LET new == NewVector(mem, IF given THEN rest ELSE <<>>)
                                     IN Value(new.v, new.mem)
                      [] ~p.vararg /\ given ->
                           IF IsTypeset(args[i], p.typeset) THEN Value(args[i], mem) ELSE ErrorIn(mem)
                      [] OTHER -> Eval(p.default, env, mem)
           names == IF p.pat = NoComponent THEN <<p.name>> ELSE PatternVars(p.pat)
           Go(v, m) ==
             LET scope == WithVars(env, m, names) IN
             IF p.pat = NoComponent
             THEN BindParams(f, i + 1, args, scope.env, Store(scope.mem, scope.env[p.name], v))
             ELSE Bind(MatchPattern(p.pat, v, scope.env, scope.mem), LAMBDA matched, m2 :
                       IF IsTrue(matched) THEN BindParams(f, i + 1, args, scope.env, m2)
                       ELSE ErrorIn(m2))
       IN Bind(value, Go)

Apply(f, args, mem) ==
  CASE f.t = "closure" ->
         LET params == f.fn.args
             required == Cardinality({i \in DOMAIN params : ~IsOptional(params[i]) /\ ~params[i].vararg})
             many == Len(params) > 0 /\ Last(params).vararg
         IN IF Len(args) < required \/ (Len(args) > Len(params) /\ ~many) THEN ErrorIn(mem)
            ELSE Bind(Catch(BindParams(f.fn, 1, args, f.env, mem), "function"), LAMBDA v, m :
                      IF IsTypeset(v, f.fn.returns) \/ f.fn.returns = Types THEN Value(v, m)
                      ELSE ErrorIn(m))
    [] f.t = "primitive" ->
         IF PrimitiveArgs[f.name] \in {Len(args), -1} THEN Lift(call_primitive(f.name, args, mem))
         ELSE ErrorIn(mem)
    [] OTHER -> ErrorIn(mem)

\* The values of a list of expressions, the last one computed first
EvalArgs(args, env, mem) ==
  IF args = <<>> THEN Value(<<>>, mem)
  ELSE Bind(EvalArgs(Tail(args), env, mem), LAMBDA vs, m :
            Bind(Eval(Head(args), env, m), LAMBDA v, m2 : Value(<<v>> \o vs, m2)))

EvalSeq(seq, env, mem) ==
  Bind(Eval(Head(seq), env, mem), LAMBDA v, m :
       IF Len(seq) = 1 THEN Value(v, m) ELSE EvalSeq(Tail(seq), env, m))

EvalBlock(b, env, mem) ==
  IF b.statics
  THEN LET Add(acc, n) == LET s == GetStatic(n, acc.mem)
                          IN [env |-> (n :> s.v.cell) @@ acc.env, mem |-> s.mem]
           scope == FoldLeft(Add, [env |-> env, mem |-> mem], b.vars)
       IN EvalSeq(b.seq, scope.env, scope.mem)
  ELSE LET scope == WithVars(env, mem, b.vars) IN EvalSeq(b.seq, scope.env, scope.mem)

\* while and for: an iteration is body, then step
EvalWhile(cond, body, env, mem) ==
  Bind(Eval(cond, env, mem), LAMBDA v, m :
       IF ~IsTrue(v) THEN Value(Undefined, m)
       ELSE Bind(Eval(body, env, m), LAMBDA u, m2 : EvalWhile(cond, body, env, m2)))

(***************************************************************************)
(* Patterns: true when the value matches, with the variables assigned.     *)
(***************************************************************************)
MatchAll(pats, values, env, mem) ==
  IF pats = <<>> THEN Value(MakeBool(TRUE), mem)
  ELSE Bind(MatchPattern(Head(pats), Head(values), env, mem), LAMBDA matched, m :
            IF IsTrue(matched) THEN MatchAll(Tail(pats), Tail(values), env, m)
            ELSE Value(matched, m))

MatchPattern(p, v, env, mem) ==
  LET No == Value(MakeBool(FALSE), mem)
      If(test, m) == Value(MakeBool(test), m)
      n == IF v.t = "vector" THEN VectorLen(v) ELSE 0
      Elem(i) == VectorRef(mem, v, i)
  IN CASE p.p = "const" -> If(Plain(mem, v) = Plain(mem, constant_to_mudlle(p.cst)), mem)
       [] p.p = "sink" -> If(IsTypeset(v, p.typeset) \/ p.typeset = Types, mem)
       [] p.p = "variable" ->
            IF IsTypeset(v, p.typeset) \/ p.typeset = Types
            THEN Value(MakeBool(TRUE), Write(p.name, env, mem, v)) ELSE No
       [] p.p = "expr" -> Bind(Eval(p.e, env, mem), LAMBDA w, m : If(Plain(m, v) = Plain(m, w), m))
       [] p.p = "and" -> Bind(MatchPattern(p.pat, v, env, mem), LAMBDA matched, m :
                              IF IsTrue(matched)
                              THEN Bind(Eval(p.cond, env, m), LAMBDA c, m2 : If(IsTrue(c), m2))
                              ELSE Value(matched, m))
       [] p.p = "or" -> Bind(MatchPattern(p.lhs, v, env, mem), LAMBDA matched, m :
                             IF IsTrue(matched) THEN Value(matched, m)
                             ELSE MatchPattern(p.rhs, v, env, m))
       [] p.p = "array" ->
            IF \/ v.t # "vector"
               \/ ~p.ellipsis /\ n # Len(p.pats)
               \/ n < Len(p.pats) + Len(p.tail)
            THEN No
            ELSE MatchAll(p.pats \o p.tail,
                          [i \in 1..(Len(p.pats) + Len(p.tail)) |->
                             IF i <= Len(p.pats) THEN Elem(i)
                             ELSE Elem(n - Len(p.tail) + i - Len(p.pats))], env, mem)
       [] p.p = "list" ->
            IF v.t # "pair" THEN No
            ELSE LET tail == IF p.tail = NoPattern THEN PConst(NullConst) ELSE p.tail
                     rest == IF Len(p.pats) = 1 THEN tail ELSE PList(Tail(p.pats), p.tail)
                 IN MatchAll(<<Head(p.pats), rest>>, <<v.car, v.cdr>>, env, mem)

MatchNodes(c, v, env, mem) ==
  IF c.nodes = <<>>
  THEN IF c.force THEN ErrorIn(mem) ELSE Value(MakeBool(FALSE), mem)
  ELSE LET node == Head(c.nodes)
           scope == WithVars(env, mem, PatternVars(node.pat))
       IN Bind(MatchPattern(node.pat, v, scope.env, scope.mem), LAMBDA matched, m :
               IF IsTrue(matched) THEN Eval(node.e, scope.env, m)
               ELSE MatchNodes([c EXCEPT !.nodes = Tail(@)], v, env, m))

(***************************************************************************)
(* Literals with expressions in them, the last element computed first.     *)
(***************************************************************************)
EvalConst(cst, env, mem) ==
  LET items == [i \in DOMAIN cst.items |-> Const(cst.items[i])] IN
  CASE ~IsDynamic(cst) -> Value(constant_to_mudlle(cst), mem)
    [] IsDynamic(cst) /\ cst.k = "expression" -> Eval(cst.e, env, mem)
    [] OTHER ->
         Bind(EvalArgs(items, env, mem), LAMBDA vs, m :
              IF cst.k = "array" THEN Lift(call_primitive("@sequence", vs, m))
              ELSE Value(FoldRight(Pair, Front(vs), Last(vs)), m))

(***************************************************************************)
(* Operators, increments and the expressions of the language.              *)
(***************************************************************************)
EvalModify(c, env, mem) ==
  LET Combine(old, by, m) ==
        IF c.fn = "multiply" THEN Lift(call_primitive("@*", <<old, by>>, m))
        ELSE Lift(Operator(c.fn, <<old, by>>, m))
      Result(old, new, m) == Value(IF c.postfix THEN old ELSE new, m)
  IN IF c.dst.c = "recall"
     THEN Bind(Eval(c.mod, env, mem), LAMBDA by, m :
            LET old == Read(c.dst.name, env, m)
            IN Bind(Combine(old, by, m), LAMBDA new, m2 :
                    Result(old, new, Write(c.dst.name, env, m2, new))))
     ELSE Bind(Eval(c.dst.args[1], env, mem), LAMBDA a, m1 :
          Bind(Eval(c.dst.args[2], env, m1), LAMBDA i, m2 :
          Bind(Eval(c.mod, env, m2), LAMBDA by, m3 :
          Bind(Lift(Operator("ref", <<a, i>>, m3)), LAMBDA old, m4 :
          Bind(Combine(old, by, m4), LAMBDA new, m5 :
          Bind(Lift(Operator("set", <<a, i, new>>, m5)), LAMBDA v, m6 :
               Result(old, new, m6)))))))

EvalBuiltin(c, env, mem) ==
  LET a == c.args
      Truth(r) == Bind(r, LAMBDA v, m : Value(MakeBool(IsTrue(v)), m))
      dst == a[1]
  IN CASE c.fn = "paren" -> Eval(a[1], env, mem)
       [] c.fn = "if" -> Bind(Eval(a[1], env, mem), LAMBDA v, m :
                              IF IsTrue(v) THEN Bind(Eval(a[2], env, m), LAMBDA u, m2 : Value(Undefined, m2))
                              ELSE Value(Undefined, m))
       [] c.fn = "ifelse" -> Bind(Eval(a[1], env, mem), LAMBDA v, m :
                                  Eval(IF IsTrue(v) THEN a[2] ELSE a[3], env, m))
       [] c.fn = "and" -> Bind(Eval(a[1], env, mem), LAMBDA v, m :
                               IF IsTrue(v) THEN Truth(Eval(a[2], env, m)) ELSE Value(MakeBool(FALSE), m))
       [] c.fn = "or" -> Bind(Eval(a[1], env, mem), LAMBDA v, m :
                              IF IsTrue(v) THEN Value(MakeBool(TRUE), m) ELSE Truth(Eval(a[2], env, m)))
       [] c.fn = "while" -> Catch(EvalWhile(a[1], a[2], env, mem), "")
       [] c.fn = "loop" -> Catch(EvalWhile(component_true, a[1], env, mem), "")
       [] c.fn = "assign" ->
            IF dst.c = "recall"
            THEN Bind(Eval(a[2], env, mem), LAMBDA v, m : Value(v, Write(dst.name, env, m, v)))
            ELSE Bind(EvalArgs(dst.args \o <<a[2]>>, env, mem), LAMBDA vs, m :
                      Lift(Operator("set", vs, m)))
       [] c.fn = "multiply" -> Bind(EvalArgs(a, env, mem), LAMBDA vs, m :
                                    Lift(call_primitive("@*", vs, m)))
       [] OTHER -> Bind(EvalArgs(a, env, mem), LAMBDA vs, m : Lift(Operator(c.fn, vs, m)))

EvalFor(c, env, mem) ==
  LET scope == WithVars(env, mem, c.vars)
      Optional(e, v) == IF e = NoComponent THEN v ELSE e
      body == Block(<<>>, <<Labeled("continue", c.e), Optional(c.loop, component_undefined)>>)
  IN Catch(Bind(Eval(Optional(c.init, component_undefined), scope.env, scope.mem), LAMBDA v, m :
                EvalWhile(Optional(c.exit, component_true), body, scope.env, m)), "break")

Eval(e, env, mem) ==
  CASE e.c = "constant" -> EvalConst(e.cst, env, mem)
    [] e.c = "recall" -> Value(Read(e.name, env, mem), mem)
    [] e.c = "assign" -> Bind(Eval(e.value, env, mem), LAMBDA v, m : Value(v, Write(e.name, env, m, v)))
    [] e.c = "block" -> EvalBlock(e, env, mem)
    [] e.c = "closure" -> Value([t |-> "closure", fn |-> e, env |-> env], mem)
    [] e.c = "execute" -> Bind(EvalArgs(e.args, env, mem), LAMBDA vs, m :
                               Bind(Eval(e.f, env, m), LAMBDA f, m2 : Apply(f, vs, m2)))
    [] e.c = "builtin" -> EvalBuiltin(e, env, mem)
    [] e.c = "labeled" -> Catch(Eval(e.e, env, mem), e.name)
    [] e.c = "exit" -> Bind(Eval(e.e, env, mem), LAMBDA v, m : ExitOf(e.name, v, m))
    [] e.c = "match" -> Bind(Eval(e.e, env, mem), LAMBDA v, m : MatchNodes(e, v, env, m))
    [] e.c = "pattern" -> Bind(Eval(e.e, env, mem), LAMBDA v, m :
                               Bind(MatchPattern(e.pat, v, env, m), LAMBDA matched, m2 :
                                    IF IsTrue(matched) THEN Value(Undefined, m2) ELSE ErrorIn(m2)))
    [] e.c = "modify" -> EvalModify(e, env, mem)
    [] e.c = "for" -> EvalFor(e, env, mem)

EmptyEnv == [n \in {} |-> 0]
Outcome(r) == [status |-> IF r.k = "value" THEN "done" ELSE "error",
               result |-> IF r.k = "value" THEN Plain(r.mem, r.v) ELSE Null,
               log |-> r.mem.log]
MeaningOf(body) == Outcome(Eval(body, EmptyEnv, EmptyMemory))
=============================================================================
