------------------------------- MODULE Inline -------------------------------
(***************************************************************************)
(* inline.c: what the parser leaves for the code generator to expand, as   *)
(* trees of simpler components: patterns, match, for, increments, dynamic  *)
(* constants and the patterns of parameters.                               *)
(*                                                                         *)
(* `err' tells what a failed pattern does: leave the block %next, or       *)
(* report the value that has no match.                                     *)
(***************************************************************************)
EXTENDS Tree, TLC

\* make_local_var(): the temporary of a nesting level
Tmp(level) == "%" \o ToString(level)

\* The names that the compiler makes up start with %.
is_safe_recall(e) == e.c = "recall" /\ SubSeq(e.name, 1, 1) = "%"

build_clist(cs) == SelectSeq(cs, LAMBDA c : c # NoComponent)
build_exec(f, args) == Execute(Recall(f), args)
build_if(cond, e) == Builtin("if", <<cond, e>>)
build_unless(cond, e) == build_if(Builtin("not", <<cond>>), e)

build_const_not_equal(cst, e) ==
  IF cst.k \in {"null", "int"} THEN Builtin("ne", <<e, Const(cst)>>)
  ELSE Builtin("not", <<build_exec("@equal?", <<Const(cst), e>>)>>)

\* The test of build_typecheck() for the types one bit or name stands for
build_typecheck(e, typeset) ==
  CASE typeset = {"null"} -> Builtin("eq", <<e, Const(NullConst)>>)
    [] typeset = {"false"} -> Builtin("eq", <<e, component_false>>)
    [] typeset = ListTypes -> build_exec("@list?", <<e>>)
    [] typeset = FunctionTypes -> build_exec("@function?", <<e>>)
    [] OTHER -> build_exec("@" \o (CHOOSE t \in typeset : TRUE) \o "?", <<e>>)

\* Integers first, then the names for several types, null, and the others
CheckOrder == <<{"integer"}, FunctionTypes, ListTypes, {"false"}, {"null"}>>
              \o [i \in 1..5 |-> {<<"vector", "pair", "closure", "primitive", "symbol">>[i]}]

build_typeset_check(e, typeset) ==
  IF typeset = {} THEN component_false
  ELSE LET Check(acc, ts) ==
             IF ts \subseteq acc.left
             THEN [left |-> acc.left \ ts,
                   tc |-> IF acc.tc = NoComponent THEN build_typecheck(e, ts)
                          ELSE Builtin("or", <<acc.tc, build_typecheck(e, ts)>>)]
             ELSE acc
       IN FoldLeft(Check, [left |-> typeset, tc |-> NoComponent], CheckOrder).tc

\* next_error(), cause_no_match_error()
NextError == [k |-> "next"]
NoMatchError(e) == [k |-> "no match", e |-> e]
Err(err) ==
  IF err.k = "next" THEN Exit("%next", component_undefined)
  ELSE build_exec("@fail_no_match", <<err.e>>)

RECURSIVE CanFail(_)
\* Whether build_match_block() called err for the pattern
CanFail(p) ==
  CASE p.p \in {"variable", "sink"} -> p.typeset # Types
    [] p.p = "or" -> CanFail(p.lhs) /\ CanFail(p.rhs)
    [] OTHER -> TRUE

(***************************************************************************)
(* A block that evaluates e once (make_safe_copy()), around code that      *)
(* recalls its value by SafeCopy.                                          *)
(***************************************************************************)
SafeCopy(e, level) == IF is_safe_recall(e) THEN e ELSE Recall(Tmp(level))
SafeBlock(e, level, code) ==
  IF is_safe_recall(e) THEN Block(<<>>, build_clist(code))
  ELSE Block(<<Tmp(level)>>, <<Assign(Tmp(level), e)>> \o build_clist(code))

RECURSIVE build_match_block(_, _, _, _)

build_match_array_block(p, e, level, err) ==
  LET vlen == Len(p.pats)
      tlen == Len(p.tail)
      v == SafeCopy(e, level)
      Elem(q, i) == build_match_block(q, Builtin("ref", <<v, Const(IntConst(i))>>),
                                      level + 1, err)
      LengthCheck ==
        IF p.ellipsis /\ vlen + tlen = 0 THEN NoComponent
        ELSE build_if(Builtin(IF p.ellipsis THEN "lt" ELSE "ne",
                              <<build_exec("@vlength", <<v>>), Const(IntConst(vlen + tlen))>>),
                      Err(err))
  IN SafeBlock(e, level,
       <<build_unless(build_exec("@vector?", <<v>>), Err(err)), LengthCheck>>
       \o [i \in 1..vlen |-> Elem(p.pats[i], i - 1)]
       \o [i \in 1..tlen |-> Elem(p.tail[i], i - 1 - tlen)])

\* One temporary per pair, the first of which may be e itself
build_match_list_block(p, e, level, err) ==
  LET n == Len(p.pats)
      safe == is_safe_recall(e)
      pair(i) == IF i = 1 /\ safe THEN e ELSE Recall(Tmp(level + i - 1))
      Rest(i) ==
        LET cdr == build_exec("@cdr", <<pair(i)>>) IN
        CASE i < n -> Assign(Tmp(level + i), cdr)
          [] i = n /\ p.tail = NoPattern ->
               build_if(build_const_not_equal(NullConst, cdr), Err(err))
          [] OTHER -> build_match_block(p.tail, cdr, level + n, err)
      Elem(i) == <<build_unless(build_exec("@pair?", <<pair(i)>>), Err(err)),
                   build_match_block(p.pats[i], build_exec("@car", <<pair(i)>>),
                                     level + n, err),
                   Rest(i)>>
      first == IF safe THEN 2 ELSE 1
  IN Block([i \in 1..(n - first + 1) |-> Tmp(level + first + i - 2)],
           build_clist((IF safe THEN <<>> ELSE <<Assign(Tmp(level), e)>>)
                       \o FlattenSeq([i \in 1..n |-> Elem(i)])))

build_match_variable_block(p, e, level, err) ==
  LET Set(to) == IF p.p = "sink" THEN NoComponent ELSE Assign(p.name, to)
      v == SafeCopy(e, level)
  IN IF p.typeset = Types THEN Set(e)
     ELSE SafeBlock(e, level, <<build_unless(build_typeset_check(v, p.typeset), Err(err)), Set(v)>>)

build_match_or_block(p, e, level, err) ==
  LET v == SafeCopy(e, level) IN
  Labeled("%found", SafeBlock(e, level,
    <<Labeled("%next",
        Block(<<>>, build_clist(<<build_match_block(p.lhs, v, level + 1, NextError),
                                  Exit("%found", Const(NullConst))>>))),
      IF CanFail(p.lhs) THEN build_match_block(p.rhs, v, level + 1, err)
      ELSE NoComponent>>))

build_match_and_block(p, e, level, err) ==
  Block(<<>>, build_clist(<<build_match_block(p.pat, e, level, err),
                            build_unless(p.cond, Err(err))>>))

build_match_block(p, e, level, err) ==
  CASE p.p = "const" -> build_if(build_const_not_equal(p.cst, e), Err(err))
    [] p.p = "expr" -> build_unless(build_exec("@equal?", <<p.e, e>>), Err(err))
    [] p.p = "array" -> build_match_array_block(p, e, level, err)
    [] p.p = "list" -> build_match_list_block(p, e, level, err)
    [] p.p \in {"variable", "sink"} -> build_match_variable_block(p, e, level, err)
    [] p.p = "or" -> build_match_or_block(p, e, level, err)
    [] p.p = "and" -> build_match_and_block(p, e, level, err)

(***************************************************************************)
(* The expansion of one component.                                         *)
(***************************************************************************)
\* Only the last alternative of match! may report that nothing matches.
parser_expand_match(c) ==
  LET Node(i) ==
        LET n == c.nodes[i]
            force == c.force /\ i = Len(c.nodes)
            code == build_match_block(n.pat, Recall("%exp"), 0,
                                      IF force THEN NoMatchError(Recall("%exp")) ELSE NextError)
            block == Block(PatternVars(n.pat), build_clist(<<code, Exit("%match", n.e)>>))
        IN IF CanFail(n.pat) /\ ~force THEN Labeled("%next", block) ELSE block
  IN Labeled("%match",
       Block(<<"%exp">>, <<Assign("%exp", c.e)>> \o [i \in DOMAIN c.nodes |-> Node(i)] \o <<component_false>>))

parser_expand_pattern(c) ==
  LET v == SafeCopy(c.e, 0) IN
  SafeBlock(c.e, 0, <<build_match_block(c.pat, v, 0, NoMatchError(v)), component_undefined>>)

parser_expand_assign(c) ==
  LET dst == c.args[1] IN
  IF dst.c = "recall" THEN Assign(dst.name, c.args[2])
  ELSE Builtin("set", dst.args \o <<c.args[2]>>)

\* An increment, or an assignment with an operator: the vector and the index
\* of an element are computed once.
parser_expand_modify(c) ==
  LET Old(e) == IF c.postfix THEN Assign("%tmp", e) ELSE e
      New(e) == [Builtin(c.fn, <<Old(e), c.mod>>) EXCEPT !.mode = c.mode]
      tmp == IF c.postfix THEN <<"%tmp">> ELSE <<>>
      result == IF c.postfix THEN <<Recall("%tmp")>> ELSE <<>>
      element == <<Recall("%exp"), Recall("%ref")>>
  IN IF c.dst.c = "recall"
     THEN IF c.postfix THEN Block(tmp, <<Assign(c.dst.name, New(c.dst))>> \o result)
          ELSE Assign(c.dst.name, New(c.dst))
     ELSE Block(<<"%exp", "%ref">> \o tmp,
                <<Assign("%exp", c.dst.args[1]), Assign("%ref", c.dst.args[2]),
                  Builtin("set", Append(element, New(Builtin("ref", element))))>> \o result)

\* Mutant: continue leaves the step out.
parser_expand_for_loop_ContinueSkipsStep(c) ==
  LET leave == IF c.exit = NoComponent THEN NoComponent
               ELSE build_unless(c.exit, Exit("break", component_undefined))
      body == build_clist(<<leave, Labeled("continue", Block(<<>>, build_clist(<<c.e, c.loop>>)))>>)
  IN Labeled("break", Block(c.vars,
       build_clist(<<c.init, Builtin("loop", <<Block(<<>>, body)>>)>>)))

parser_expand_for_loop(c) ==
  LET leave == IF c.exit = NoComponent THEN NoComponent
               ELSE build_unless(c.exit, Exit("break", component_undefined))
      body == build_clist(<<leave, Labeled("continue", c.e), c.loop>>)
  IN Labeled("break", Block(c.vars,
       build_clist(<<c.init, Builtin("loop", <<Block(<<>>, body)>>)>>)))

parser_expand_const_list(cst) ==
  LET items == cst.items
      lastdyn == CHOOSE i \in DOMAIN items :
                   /\ IsDynamic(items[i])
                   /\ \A j \in DOMAIN items : j > i => ~IsDynamic(items[j])
      n == Len(items)
      tail == IF lastdyn >= n - 1 THEN Const(items[n])
              ELSE Const(ListConst(SubSeq(items, lastdyn + 1, n)))
      heads == SubSeq(items, 1, IF lastdyn = n THEN n - 1 ELSE lastdyn)
  IN FoldRight(LAMBDA x, rest : build_exec("@pcons", <<Const(x), rest>>), heads, tail)

parser_expand_const(cst) ==
  CASE cst.k = "expression" -> cst.e
    [] cst.k = "list" -> parser_expand_const_list(cst)
    [] cst.k = "array" -> build_exec("@sequence", [i \in DOMAIN cst.items |-> Const(cst.items[i])])

\* In integer mode, + is a function that refuses strings.
parser_expand_builtin(c) == build_exec("@iadd", c.args)

RECURSIVE parser_expand_component(_)

parser_expand_func_args(c) ==
  LET Expand(i) ==
        LET a == c.args[i]
            name == "%arg" \o ToString(i - 1)
        IN [name |-> IF a.pat = NoComponent THEN a.name ELSE name,
            typeset |-> IF a.pat = NoComponent THEN a.typeset ELSE pattern_typeset(a.pat),
            default |-> IF IsOptional(a) THEN parser_expand_component(a.default) ELSE NoComponent,
            vararg |-> a.vararg,
            pat_vars |-> IF a.pat = NoComponent THEN <<>> ELSE PatternVars(a.pat),
            pat_expr |-> IF a.pat = NoComponent THEN NoComponent
                         ELSE parser_expand_component(
                                build_match_block(a.pat, Recall(name), 0, NoMatchError(Recall(name))))]
  IN [c EXCEPT !.args = [i \in DOMAIN @ |-> Expand(i)]]

parser_expand_component(c) ==
  CASE c.c = "builtin" /\ c.fn = "paren" -> parser_expand_component(c.args[1])
    [] c.c = "builtin" /\ c.fn = "assign" -> parser_expand_component(parser_expand_assign(c))
    [] c.c = "builtin" /\ c.mode = "integer" /\ c.fn = "add" -> parser_expand_builtin(c)
    [] c.c = "modify" -> parser_expand_component(parser_expand_modify(c))
    [] c.c = "constant" /\ IsDynamic(c.cst) -> parser_expand_component(parser_expand_const(c.cst))
    [] c.c = "match" -> parser_expand_match(c)
    [] c.c = "pattern" -> parser_expand_pattern(c)
    [] c.c = "for" -> parser_expand_for_loop(c)
    [] c.c = "closure" -> parser_expand_func_args(c)
    [] OTHER -> c
=============================================================================
