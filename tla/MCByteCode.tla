----------------------------- MODULE MCByteCode -----------------------------
(***************************************************************************)
(* The compiler and the interpreter together: programs are compiled, run   *)
(* one instruction at a time, and compared with what they mean.  Families  *)
(* of programs are named by tuples, and `Family' chooses those of a run.   *)
(***************************************************************************)
EXTENDS ByteCode

CONSTANT Families

(* Trees *)
K(i) == Const(IntConst(i))
Call(f, args) == Execute(Recall(f), args)
Log(e) == Call("@log", <<e>>)
LogK(i) == Log(K(i))
Op2(fn, a, b) == Builtin(fn, <<a, b>>)
R(n) == Recall(n)

(***************************************************************************)
(* Conditions of and, or and not, where the order of evaluation shows.     *)
(***************************************************************************)
Atoms == {<<"k", 0>>, <<"k", 1>>}
Over(S) == {<<"not", a>> : a \in S} \cup {<<fn, a, b>> : fn \in {"and", "or"}, a \in S, b \in S}
RECURSIVE Cond(_)
Cond(id) ==
  CASE id[1] = "k" -> LogK(id[2])
    [] id[1] = "not" -> Builtin("not", <<Cond(id[2])>>)
    [] OTHER -> Op2(id[1], Cond(id[2]), Cond(id[3]))
CondIds == {<<"cond", c, use>> : c \in Over(Atoms \cup Over(Atoms)), use \in {"ifelse", "if", "while", "value"}}
CondProgram(id) ==
  LET c == Cond(id[2]) IN
  CASE id[3] = "ifelse" -> Op2("add", LogK(2), Builtin("ifelse", <<c, LogK(3), LogK(4)>>))
    [] id[3] = "if" -> Block(<<>>, <<Op2("if", c, LogK(3)), K(5)>>)
    [] id[3] = "while" -> Op2("while", c, Exit("", LogK(5)))
    [] id[3] = "value" -> Op2("add", c, K(6))

(***************************************************************************)
(* Leaving blocks and loops from the middle of expressions.                *)
(***************************************************************************)
Inside(ctx, e) ==
  CASE ctx = "left" -> Op2("add", e, LogK(2))
    [] ctx = "right" -> Op2("add", LogK(3), e)
    [] ctx = "arg" -> Call("@count3", <<LogK(1), e, LogK(2)>>)
    [] ctx = "function" -> Execute(Block(<<>>, <<e, R("@log")>>), <<LogK(4)>>)
    [] ctx = "drop" -> Block(<<"v">>, <<e, LogK(5), R("v")>>)
    [] ctx = "assign" -> Block(<<"v">>, <<Assign("v", e), Log(R("v"))>>)
    [] ctx = "cond" -> Builtin("ifelse", <<Op2("or", LogK(0), e), LogK(6), LogK(7)>>)
    [] ctx = "label" -> Labeled("y", Op2("add", LogK(8), e))
    [] ctx = "loop" -> Builtin("loop", <<Block(<<>>, <<e, Exit("", LogK(9))>>)>>)
Leaving(kind) ==
  CASE kind = "value" -> LogK(1)
    [] kind = "exit x" -> Exit("x", LogK(10))
    [] kind = "exit y" -> Exit("y", Op2("add", LogK(3), Exit("x", LogK(11))))
    [] kind = "exit" -> Op2("if", LogK(1), Exit("", LogK(12)))
    [] kind = "return" -> Exit("function", LogK(13))
Contexts == {"left", "right", "arg", "function", "drop", "assign", "cond", "label", "loop"}
Kinds == {"value", "exit x", "exit y", "exit", "return"}
\* An exit needs its block
Leaves(c1, c2, kind) == CASE kind = "exit y" -> "label" \in {c1, c2}
                          [] kind = "exit" -> "loop" \in {c1, c2}
                          [] OTHER -> TRUE
ExitIds == {id \in {"exit"} \X Contexts \X Contexts \X Kinds \X BOOLEAN : Leaves(id[2], id[3], id[4])}
ExitProgram(id) ==
  LET body == Labeled("x", Inside(id[2], Inside(id[3], Leaving(id[4]))))
      f == Closure(<<>>, IF id[5] THEN body ELSE Block(<<>>, <<body, K(14)>>))
  IN Op2("add", LogK(15), Execute(f, <<>>))

(***************************************************************************)
(* Loops: for, with continue and break, and loops in loops, whose          *)
(* variables start anew.                                                   *)
(***************************************************************************)
Less(n, i) == Op2("lt", R(n), K(i))
Inc(n) == Modify("add", R(n), K(1), TRUE)
ForTo(n, e) == For(<<n>>, Assign(n, K(0)), Less(n, 3), Inc(n), e)
LoopBodies == [
  plain |-> Log(R("i")),
  continue |-> Block(<<>>, <<Op2("if", Less("i", 1), Exit("continue", K(0))), Log(R("i"))>>),
  break |-> Op2("if", Log(Op2("eq", R("i"), K(1))), Exit("break", R("i"))),
  fresh |-> Block(<<"f">>, <<Log(R("f")), Assign("f", R("i"))>>),
  nested |-> ForTo("j", Block(<<"f">>, <<Op2("if", Op2("lt", R("i"), R("j")), Exit("break", LogK(2))),
                                         Log(R("f")), Assign("f", R("j"))>>)),
  return |-> Op2("if", Less("i", 2), Exit("function", R("i"))),
  leave |-> Op2("add", K(1), Op2("while", K(1), Exit("", Exit("continue", LogK(5)))))]
LoopIds == {<<"for", b, value>> : b \in DOMAIN LoopBodies, value \in BOOLEAN}
LoopProgram(id) ==
  LET loop == ForTo("i", LoopBodies[id[2]])
      f == Closure(<<>>, IF id[3] THEN loop ELSE Block(<<>>, <<loop, loop, K(9)>>))
  IN Execute(f, <<>>)

(***************************************************************************)
(* Closures: variables of three functions, read and written in all.        *)
(***************************************************************************)
Uses == <<Log(R("a")), Assign("a", K(5)), Log(R("b")), Assign("b", Op2("add", R("a"), K(1))),
          Log(R("c")), Assign("g", R("b"))>>
ClosureIds == {"closure"} \X (1..6) \X (1..6) \X {1, 2, 4} \X BOOLEAN
ClosureProgram(id) ==
  LET Use(i, ok) == IF i \in ok THEN <<Uses[i]>> ELSE <<>>
      h == Closure(<<Arg("c", Types)>>, Block(<<>>, Use(id[2], 1..6) \o <<Uses[id[3]], R("c")>>))
      f == Closure(<<Arg("b", Types)>>, Block(<<"h">>,
             <<Assign("h", h)>> \o (IF id[5] THEN <<Call("h", <<K(3)>>)>> ELSE <<>>)
             \o Use(id[4], {1, 2, 4}) \o <<Call("h", <<R("b")>>), Log(R("b")), R("h")>>))
      main == Block(<<"a", "f", "k">>,
                <<Assign("a", K(1)), Assign("f", f), Assign("k", Call("f", <<K(2)>>)), Log(R("a")),
                  Log(Call("k", <<K(7)>>)), Call("f", <<R("a")>>), Log(R("g")), R("a")>>)
  IN main

(***************************************************************************)
(* Parameters: required, typed, with a pattern, optional, vararg.          *)
(***************************************************************************)
Param(kind, n) ==
  CASE kind = "required" -> Arg(n, Types)
    [] kind = "typed" -> Arg(n, {"integer", "null"})
    [] kind = "function" -> Arg(n, FunctionTypes)
    [] kind = "pattern" -> PatArg(PArray(<<PVar(n, Types), PSink(Types)>>, FALSE, <<>>))
    [] kind = "optional" -> OptArg(n, Log(Op2("add", IF n = "b" THEN R("a") ELSE K(20), K(1))))
    [] kind = "optional pattern" ->
         [PatArg(PArray(<<PVar(n, Types), PSink(Types)>>, FALSE, <<>>)) EXCEPT
            !.default = Const(ArrayConst(<<IntConst(4), IntConst(5)>>))]
    [] kind = "vararg" -> VarArg(n)
Rank == [required |-> 1, typed |-> 1, function |-> 1, pattern |-> 1, optional |-> 2, vararg |-> 3]
ParamKinds == {k \in UNION {[1..n -> DOMAIN Rank] : n \in 0..3} :
                 /\ \A i, j \in DOMAIN k : i < j => Rank[k[i]] <= Rank[k[j]] /\ k[i] # "vararg"
                 /\ (Len(k) > 1 /\ k[2] = "optional") => k[1] \in {"required", "optional"}}
\* Default values of parameters before a vararg one are another family
UsesDefault(k, n) == \E i \in DOMAIN k : i > n /\ k[i] = "optional"
HasVararg(k) == Len(k) > 0 /\ k[Len(k)] = "vararg"
ArgIds == {<<"args", k, n, typed>> : k \in ParamKinds, n \in 0..4, typed \in {"null", "vector"}}
ArgProgram(id) ==
  LET kinds == id[2]
      names == <<"a", "b", "c">>
      params == [i \in DOMAIN kinds |-> Param(kinds[i], names[i])]
      f == Closure(params, Block(<<>>, [i \in DOMAIN kinds |-> Log(R(names[i]))] \o <<K(1)>>))
      value == IF id[4] = "null" THEN Const(NullConst) ELSE Const(ArrayConst(<<IntConst(7), NullConst>>))
      args == <<LogK(1), value, LogK(3), LogK(30)>>
  IN Op2("add", K(2), Execute(f, SubSeq(args, 5 - id[3], 4)))
ArgsBugIds == {id \in ArgIds : HasVararg(id[2]) /\ UsesDefault(id[2], id[3])}
PatternDefault == <<"args", <<"optional pattern">>, 0, "null">>

(***************************************************************************)
(* Patterns against values.                                                *)
(***************************************************************************)
V(n) == PVar(n, Types)
Patterns == <<
  PConst(IntConst(1)), PConst(NullConst), PConst(ArrayConst(<<IntConst(1)>>)), V("x"),
  PVar("x", {"integer", "vector"}), PSink(ListTypes),
  PArray(<<V("x"), PConst(IntConst(2))>>, FALSE, <<>>),
  PArray(<<V("x")>>, TRUE, <<V("y")>>),
  PArray(<<>>, TRUE, <<>>),
  PArray(<<PArray(<<V("x")>>, FALSE, <<>>), PVar("y", {"pair", "integer"})>>, FALSE, <<>>),
  PList(<<V("x"), V("y")>>, NoPattern),
  PList(<<V("x")>>, V("y")),
  PList(<<PArray(<<V("x")>>, TRUE, <<>>), V("y")>>, PConst(IntConst(3))),
  PExpr(Op2("add", LogK(1), K(0))),
  PAnd(V("x"), Log(Op2("eq", R("x"), K(1)))),
  PAnd(PArray(<<V("x")>>, TRUE, <<>>), Op2("eq", R("x"), K(2))),
  POr(PConst(IntConst(1)), V("x")),
  POr(PArray(<<V("x")>>, FALSE, <<>>), PList(<<V("x")>>, V("y"))),
  PArray(<<POr(PAnd(V("x"), Log(K(0))), PConst(IntConst(1)))>>, TRUE, <<V("y")>>) >>
Values == <<
  IntConst(1), NullConst, ArrayConst(<<IntConst(1)>>), ArrayConst(<<IntConst(1), IntConst(2)>>),
  ArrayConst(<<ExprConst(LogK(2)), ExprConst(LogK(3))>>),
  ArrayConst(<<ArrayConst(<<IntConst(1)>>), ExprConst(LogK(2))>>),
  ListConst(<<IntConst(1), IntConst(2), NullConst>>), ListConst(<<IntConst(1), ExprConst(LogK(2))>>),
  ListConst(<<ExprConst(LogK(5)), ArrayConst(<<IntConst(4)>>), IntConst(3)>>),
  ListConst(<<ArrayConst(<<IntConst(4)>>), ExprConst(LogK(5)), IntConst(3)>>) >>
MatchIds == {"match"} \X (1..Len(Patterns)) \X (1..Len(Values)) \X {"match", "match!", "assign", "two", "arg"}
ShowVars(p) == Block(<<>>, [i \in DOMAIN PatternVars(p) |-> Log(R(PatternVars(p)[i]))] \o <<K(8)>>)
MatchProgram(id) ==
  LET p == Patterns[id[2]]
      e == Const(Values[id[3]])
      node == [pat |-> p, e |-> ShowVars(p)]
      other == [pat |-> PArray(<<V("z")>>, TRUE, <<>>), e |-> Log(R("z"))]
  IN CASE id[4] = "match" -> Match(FALSE, e, <<node>>)
       [] id[4] = "match!" -> Op2("add", LogK(1), Match(TRUE, e, <<node>>))
       [] id[4] = "two" -> Match(TRUE, e, <<other, node>>)
       [] id[4] = "arg" -> Execute(Closure(<<PatArg(p)>>, ShowVars(p)), <<e>>)
       [] id[4] = "assign" -> Block(PatternVars(p), <<PatternAssign(p, e), ShowVars(p)>>)

(***************************************************************************)
(* Assignments and increments of variables and elements.                   *)
(***************************************************************************)
Vector3 == Call("@sequence", <<K(1), K(2), LogK(3)>>)
Ref(v, i) == Op2("ref", v, i)
ModifyIds == {"modify"} \X {"add", "subtract", "multiply"} \X {"variable", "global", "static", "closure",
                 "element", "last", "outside", "constant", "nested"} \X BOOLEAN \X {"default", "integer"}
ModifyProgram(id) ==
  LET v == R("v")
      dst == CASE id[3] = "variable" -> R("x")
               [] id[3] = "global" -> R("g")
               [] id[3] = "static" -> R("s")
               [] id[3] = "closure" -> R("x")
               [] id[3] = "element" -> Ref(Log(v), LogK(1))
               [] id[3] = "last" -> Ref(v, Log(K(-1)))
               [] id[3] = "outside" -> Ref(v, LogK(3))
               [] id[3] = "constant" -> Ref(Const(ArrayConst(<<IntConst(1)>>)), LogK(0))
               [] id[3] = "nested" -> Ref(v, Modify("add", Ref(v, K(0)), K(1), TRUE))
      change == [Modify(id[2], dst, LogK(4), id[4]) EXCEPT !.mode = id[5]]
      inner == IF id[3] = "closure" THEN Execute(Closure(<<>>, change), <<>>) ELSE change
      set == Builtin("assign", <<Builtin("ref", <<v, LogK(2)>>), LogK(6)>>)
      begin == <<Assign("x", K(2)), Assign("g", K(3)), Assign("s", K(5)), Assign("v", Vector3)>>
  IN Statics(<<"s">>, <<Block(<<"x", "v">>,
       begin \o <<set, Log(inner), Log(R("x")), Log(R("s")), Log(v), inner, R("g")>>)>>)

(***************************************************************************)
(* A library's own variables, global functions and errors.                 *)
(***************************************************************************)
Library == [plain |-> FALSE, defines |-> {"g"}, reads |-> {"h"}, writes |-> {"w"}]
LibraryIds == {"library"} \X {"define", "early", "call", "number", "many"} \X BOOLEAN
LibraryProgram(id) ==
  LET f == Closure(<<Arg("x", {"integer"})>>,
             IF id[3] THEN [Closure(<<>>, R("x")) EXCEPT !.returns = {"integer", "null"}]
             ELSE Op2("add", R("x"), K(1)))
      define == Builtin("assign", <<R("g"), Builtin("paren", <<f>>)>>)
      call == Call("g", <<LogK(1)>>)
  IN CASE id[2] = "define" -> Block(<<>>, <<define, Assign("w", call), Call("@log", <<R("w")>>)>>)
       [] id[2] = "early" -> Block(<<>>, <<Log(R("h")), call, define>>)
       [] id[2] = "call" -> Block(<<>>, <<define, Execute(call, <<>>)>>)
       [] id[2] = "number" -> Block(<<>>, <<define, Call("g", <<K(1), LogK(2)>>)>>)
       [] id[2] = "many" -> Execute(IF id[3] THEN R("@equal?") ELSE R("@vector?"), <<K(1), K(50), K(60)>>)

Ids == [cond |-> CondIds, exit |-> ExitIds, for |-> LoopIds, closure |-> ClosureIds,
        args |-> ArgIds \ ArgsBugIds, match |-> MatchIds, modify |-> ModifyIds, library |-> LibraryIds,
        args_default |-> ArgsBugIds \cup {PatternDefault}]
MCPrograms == UNION {Ids[f] : f \in Families}
MCBody(id) ==
  CASE id[1] = "cond" -> CondProgram(id)
    [] id[1] = "exit" -> ExitProgram(id)
    [] id[1] = "for" -> LoopProgram(id)
    [] id[1] = "closure" -> ClosureProgram(id)
    [] id[1] = "args" -> ArgProgram(id)
    [] id[1] = "match" -> MatchProgram(id)
    [] id[1] = "modify" -> ModifyProgram(id)
    [] id[1] = "library" -> LibraryProgram(id)
MCFile(id) == IF id[1] = "library" THEN Library ELSE PlainFile
=============================================================================
