------------------------------ MODULE Compile -------------------------------
(***************************************************************************)
(* compile.c, and the part of mcompile.c that generates code for global    *)
(* variables: the byte code of a syntax tree.                              *)
(*                                                                         *)
(* The compiler's state S has the functions being compiled (`fns', the     *)
(* last one innermost), the finished code objects, whether an error was    *)
(* reported, and the file that is compiled.                                *)
(***************************************************************************)
EXTENDS Inline, Ins, Primitive

IsProtected(name) == name \in DOMAIN PrimitiveArgs
PrimitiveValue(name) == [t |-> "primitive", name |-> name]
CodeValue(id) == [t |-> "code", id |-> id]

\* A file without a module header may use all global variables.
PlainFile == [plain |-> TRUE, defines |-> {}, reads |-> {}, writes |-> {}]

On(S, Op(_)) == [S EXCEPT !.fns[Len(S.fns)] = Op(@)]
Fn(S) == Last(S.fns)
compile_error(S) == [S EXCEPT !.erred = TRUE]
Lookup(S, name) == env_lookup(S.fns, name)
Closed(S, var) == [S EXCEPT !.fns = var.fns]      \* after a Lookup()

Emit0(S, op) == On(S, LAMBDA fn : ins0(fn, op))
Emit1(S, op, arg) == On(S, LAMBDA fn : ins1(fn, op, arg))
Emit2(S, op, arg) == On(S, LAMBDA fn : ins2(fn, op, arg))
Emit12(S, op, arg) == On(S, LAMBDA fn : ins12(fn, op, arg))
EmitConstant(S, v) == On(S, LAMBDA fn : ins_constant(fn, v))
EmitRecall(S, var) == On(S, LAMBDA fn : ins_recall(fn, var))
EmitAssign(S, var) == On(S, LAMBDA fn : ins_assign(fn, var))
EmitBranch(S, op, to) == On(S, LAMBDA fn : branch(fn, op, to))
Adjust(S, by) == On(S, LAMBDA fn : adjust_depth(fn, by))
NewLabel(S) == On(S, new_label)
SetLabel(S, lab) == On(S, LAMBDA fn : set_label(fn, lab))
StartBlock(S, name, leave) == On(S, LAMBDA fn : start_block(fn, name, leave))
One(leave) == IF leave THEN 1 ELSE 0

(***************************************************************************)
(* Global variables.                                                       *)
(***************************************************************************)
Listed(S, name) == name \in S.file.defines \cup S.file.reads \cup S.file.writes
Unreadable(S, name) == ~S.file.plain /\ ~Listed(S, name) /\ ~IsProtected(name)
GlobalVar(name) == [vclass |-> "global", pos |-> name]

mrecall(S, name) ==
  CASE Unreadable(S, name) -> compile_error(S)
    [] ~Listed(S, name) /\ IsProtected(name) -> EmitConstant(S, PrimitiveValue(name))
    [] OTHER -> EmitRecall(S, GlobalVar(name))

\* A call of a global with its arguments on the stack, when nothing is known
ExecuteGlobal(S, name, count) ==
  CASE count = 1 -> Emit2(S, "execute_global_1arg", name)
    [] count = 2 -> Emit2(S, "execute_global_2arg", name)
    [] OTHER -> Emit12(EmitRecall(S, GlobalVar(name)), "execute", count)

\* A call of a primitive of a protected module
ExecutePrimitive(S, name, count) ==
  LET nargs == PrimitiveArgs[name] IN
  CASE nargs < 0 -> Emit12(EmitRecall(S, GlobalVar(name)), "execute_varargs", count)
    [] nargs = count /\ count = 1 ->
         IF name \in {"@car", "@cdr"} THEN Emit0(S, IF name = "@car" THEN "car" ELSE "cdr")
         ELSE Emit2(S, "execute_primitive_1arg", name)
    [] nargs = count /\ count = 2 -> Emit2(S, "execute_primitive_2arg", name)
    [] OTHER -> Emit12(EmitRecall(S, GlobalVar(name)), "execute_primitive", count)

mexecute(S, name, count) ==
  CASE Unreadable(S, name) -> compile_error(S)
    [] ~Listed(S, name) /\ IsProtected(name) -> ExecutePrimitive(S, name, count)
    [] OTHER -> ExecuteGlobal(S, name, count)

mwritable(S, name) == S.file.plain \/ name \in S.file.writes
massign(S, name) ==
  CASE Fn(S).toplevel /\ name \in S.file.defines -> Emit2(S, "define", name)
    [] mwritable(S, name) -> EmitAssign(S, GlobalVar(name))
    [] OTHER -> compile_error(S)

\* The instruction of an operator, or the global function that does it
builtin_ops == {"add", "subtract", "ref", "set", "not", "eq", "ne", "lt", "le", "ge", "gt"}
builtin_functions == [multiply |-> "@*", divide |-> "@/", cons |-> "@cons",
                      remainder |-> "@%", negate |-> "@negate"]

RECURSIVE generate_component(_, _, _)
RECURSIVE generate_condition(_, _, _, _, _, _)

(***************************************************************************)
(* Conditions.  The code for success and failure is described by a record, *)
(* run where the C code calls a function with its data.                    *)
(***************************************************************************)
NoCode == [kind |-> "none"]

ContinueAt(L, code) ==
  CASE code.kind = "andor" ->
         generate_condition(L, code.arg2, code.slab, code.scode, code.flab, code.fcode)
    [] code.kind = "if" ->         \* ifs_code(), iff_code()
         Adjust(EmitBranch(IF code.e = NoComponent THEN L
                           ELSE generate_component(L, code.e, code.leave),
                           "branch", code.endlab), -One(code.leave))
    [] code.kind = "while" ->      \* wmain_code()
         EmitBranch(generate_component(L, code.e, FALSE), "loop", code.looplab)
Continue(S, code, lab) == IF code.kind = "none" THEN S ELSE ContinueAt(SetLabel(S, lab), code)

\* After the value of a condition that is not one of "and", "or" and "not"
TestValue(S, slab, scode, flab, fcode) ==
  CASE scode # NoCode ->
         Continue(Continue(EmitBranch(S, "branch_z", flab), scode, slab), fcode, flab)
    [] scode = NoCode /\ fcode # NoCode -> Continue(EmitBranch(S, "branch_nz", slab), fcode, flab)
    [] OTHER -> EmitBranch(EmitBranch(S, "branch_nz", slab), "branch", flab)
generate_condition(S, cond, slab, scode, flab, fcode) ==
  LET fn == IF cond.c = "builtin" THEN cond.fn ELSE ""
      andor == [kind |-> "andor", arg2 |-> cond.args[2],
                slab |-> slab, scode |-> scode, flab |-> flab, fcode |-> fcode]
      lab == LastLabel(Fn(S)) + 1
  IN CASE fn = "and" -> generate_condition(NewLabel(S), cond.args[1], lab, andor, flab, NoCode)
       [] fn = "or" -> generate_condition(NewLabel(S), cond.args[1], slab, NoCode, lab, andor)
       [] fn = "not" -> generate_condition(S, cond.args[1], flab, fcode, slab, scode)
       [] OTHER -> TestValue(generate_component(S, cond, TRUE), slab, scode, flab, fcode)

generate_if(S, cond, success, failure, leave) ==
  LET endlab == LastLabel(Fn(S)) + 1
      Branch(e) == [kind |-> "if", e |-> e, leave |-> leave, endlab |-> endlab]
  IN Adjust(SetLabel(generate_condition(NewLabel(NewLabel(NewLabel(S))), cond,
                                        endlab + 1, Branch(success), endlab + 2, Branch(failure)),
                     endlab), One(leave))

StartLoop(S, looplab, leave) ==
  StartBlock(SetLabel(On(NewLabel(S), env_start_loop), looplab), "", leave)
EndLoop(S) == On(On(S, end_block), env_end_loop)
LeaveUndefined(S, leave) == IF leave THEN generate_component(S, component_undefined, TRUE) ELSE S

\* endlab is the second of the labels made for the condition
WhileBody(S, cond, iteration, looplab, endlab) ==
  SetLabel(generate_condition(S, cond, endlab - 1,
             [kind |-> "while", e |-> iteration, looplab |-> looplab], endlab, NoCode), endlab)
WhileFrom(S, cond, iteration, looplab) == WhileBody(S, cond, iteration, looplab, LastLabel(Fn(S)))
generate_while(S, cond, iteration, leave) ==
  LET looplab == LastLabel(Fn(S)) + 1
  IN EndLoop(LeaveUndefined(WhileFrom(NewLabel(NewLabel(StartLoop(S, looplab, leave))), cond,
                                      iteration, looplab), leave))

\* Only an exit leaves such a loop, so the stack is in order after it.
generate_loop(S, body, leave) ==
  LET loop == LastLabel(Fn(S)) + 1
  IN Adjust(EndLoop(EmitBranch(generate_component(StartLoop(S, loop, leave), body, FALSE),
                               "loop", loop)), One(leave))

(***************************************************************************)
(* Calls, operators and blocks.                                            *)
(***************************************************************************)
RECURSIVE generate_args(_, _), Sequence(_, _, _)
\* The last argument first
generate_args(S, args) ==
  IF S.erred \/ args = <<>> THEN S
  ELSE generate_args(generate_component(S, Last(args), TRUE), Front(args))

ExecuteVar(S, f, var, count) ==
  IF f.c = "recall" /\ var.vclass = "global" THEN mexecute(S, f.name, count)
  ELSE Emit12(generate_component(S, f, TRUE), "execute", count)
generate_execute(S, f, count) == ExecuteVar(S, f, Lookup(S, f.name).var, count)

enter_block(S, vars, statics) ==
  IF TooManyLocals(Fn(S), vars) THEN compile_error(S)
  ELSE On(S, LAMBDA fn : env_block_push(fn, vars, statics))

\* A static variable is fetched by its name when its block is entered.
FetchStatic(S, name) ==
  LET symbol == ExecuteGlobal(EmitConstant(S, [t |-> "string", s |-> name]), "@c:get_static", 1)
  IN Emit0(EmitAssign(symbol, Lookup(S, name).var), "discard")
Fetched(S, b) == IF b.statics /\ ~S.erred THEN FoldLeft(FetchStatic, S, b.vars) ELSE S
Sequence(S, seq, leave) ==
  IF S.erred \/ seq = <<>> THEN S
  ELSE Sequence(generate_component(S, Head(seq), leave /\ Len(seq) = 1), Tail(seq), leave)
LeaveBlock(S) == IF S.erred THEN S ELSE On(S, env_block_pop)
generate_block(S, b, leave) ==
  LeaveBlock(Sequence(Fetched(enter_block(S, b.vars, b.statics), b), b.seq, leave))

Discard(S, leave) == IF leave THEN S ELSE Emit0(S, "discard")

generate_builtin(S, comp, leave) ==
  LET args == comp.args
      fn == comp.fn
  IN CASE fn = "if" ->
            LeaveUndefined(generate_if(S, args[1], args[2], NoComponent, FALSE), leave)
       [] fn = "ifelse" -> generate_if(S, args[1], args[2], args[3], leave)
       [] fn \in {"and", "or"} -> generate_if(S, comp, component_true, component_false, leave)
       [] fn = "while" -> generate_while(S, args[1], args[2], leave)
       [] fn = "loop" -> generate_loop(S, args[1], leave)
       [] fn \in builtin_ops -> Discard(Emit0(generate_args(S, args), fn), leave)
       [] OTHER -> Discard(ExecuteGlobal(generate_args(S, args), builtin_functions[fn],
                                         Len(args)), leave)

Assigned(S, name, var) ==          \* the value is on the stack
  CASE var.static -> ExecuteGlobal(EmitRecall(S, var.var), "@symbol_set!", 2)
    [] var.var.vclass = "global" -> massign(S, name)
    [] OTHER -> EmitAssign(S, var.var)
AssignValue(S, name, var, leave) == IF S.erred THEN S ELSE Discard(Assigned(S, name, var), leave)
AssignTo(S, comp, var, leave) ==
  AssignValue(generate_component(Closed(S, var), comp.value, TRUE), comp.name, var, leave)
generate_assign(S, comp, leave) == AssignTo(S, comp, Lookup(S, comp.name), leave)

RecallFrom(S, name, var, leave) ==
  CASE var.var.vclass # "global" /\ ~leave -> S
    [] var.var.vclass # "global" /\ leave ->
         IF var.static THEN ExecuteGlobal(EmitRecall(S, var.var), "@symbol_get", 1)
         ELSE EmitRecall(S, var.var)
    [] OTHER -> Discard(mrecall(S, name), leave)
RecallVariable(S, name, var, leave) == RecallFrom(Closed(S, var), name, var, leave)
generate_recall(S, comp, leave) == RecallVariable(S, comp.name, Lookup(S, comp.name), leave)

\* After the branch the code is unreachable; the depth is what is expected.
LeaveTo(S, block, leave) ==
  IF S.erred THEN S
  ELSE Adjust(On(S, LAMBDA fn : exit_block(fn, block)), One(leave) - One(block.leave_result))
ExitTo(S, comp, block, leave) ==
  LeaveTo(generate_component(S, comp.e, block.leave_result), block, leave)
generate_exit(S, comp, leave) ==
  IF ~HasBlock(Fn(S), comp.name) THEN compile_error(S)
  ELSE ExitTo(S, comp, find_block(Fn(S), comp.name), leave)

(***************************************************************************)
(* Functions.                                                              *)
(***************************************************************************)
\* One instruction for the types that have one, a set for the others
generate_typeset_check(S, typeset, argnum, is_return) ==
  LET simple == typeset \in {FunctionTypes, ListTypes, {"false"}} \/ Cardinality(typeset) <= 1 IN
  CASE typeset = Types -> S
    [] typeset # Types /\ simple /\ ~is_return ->
         On(S, LAMBDA fn : add_ins(fn, "typecheck", [typeset |-> typeset, argnum |-> argnum], 2, 0))
    [] OTHER -> Emit1(EmitConstant(S, [t |-> "typeset", typeset |-> typeset]),
                      "typeset_check", argnum)

NameArg(S, i, name) == On(S, LAMBDA fn : [fn EXCEPT !.scopes[1].vars[i] = name])

(***************************************************************************)
(* One parameter: its default value, its type check and its pattern.       *)
(* `next' is the label that the code after the default value branches to,  *)
(* set where the next optional parameter, or the body, begins.             *)
(***************************************************************************)
DefaultTest(S, i, nargs) ==
  Emit0(EmitConstant(EmitRecall(S, [vclass |-> "local", pos |-> nargs]), MakeInt(i - 1)), "lt")
AfterDefault(S, check) ==
  [S |-> SetLabel(EmitBranch(S, "branch", LastLabel(Fn(S))), check), next |-> LastLabel(Fn(S))]
Here(S, next) == IF next = 0 THEN S ELSE SetLabel(S, next)
DefaultBranch(S, next, check, i, nargs) ==
  Here(EmitBranch(NewLabel(DefaultTest(S, i, nargs)), "branch_nz", check), next)
DefaultSet(S, arg, i) ==
  Emit0(EmitAssign(generate_component(S, arg.default, TRUE), [vclass |-> "local", pos |-> i - 1]),
        "discard")
generate_default(acc, arg, i, nargs) ==
  LET check == LastLabel(Fn(acc.S)) + 1
  IN AfterDefault(NewLabel(DefaultSet(DefaultBranch(acc.S, acc.next, check, i, nargs), arg, i)), check)

\* A vararg is copied, so that assigning to it does not change the original.
NamedArg(S, arg, i) ==
  IF ~arg.vararg THEN NameArg(S, i, arg.name)
  ELSE generate_component(enter_block(NameArg(S, i, "%vararg"), <<arg.name>>, FALSE),
                          Assign(arg.name, Recall("%vararg")), FALSE)
CheckedArg(S, arg, i) ==
  IF arg.vararg THEN S ELSE generate_typeset_check(S, arg.typeset, i - 1, FALSE)
PatternEntered(S, arg) ==
  IF arg.pat_vars = <<>> THEN S ELSE enter_block(S, arg.pat_vars, FALSE)
PatternMatched(S, arg) ==
  IF arg.pat_expr = NoComponent THEN S ELSE generate_component(S, arg.pat_expr, FALSE)
Received(acc, arg, i) ==
  [acc EXCEPT !.S = PatternMatched(PatternEntered(NamedArg(CheckedArg(@, arg, i), arg, i), arg), arg)]
generate_arg(acc, arg, i, nargs) ==
  Received(IF IsOptional(arg) THEN generate_default(acc, arg, i, nargs) ELSE acc, arg, i)

\* Checks the number of arguments and copies them to local variables
generate_arg_count(S, f, noptargs) ==
  LET nargs == Len(f.args)
      min == EmitConstant(S, MakeInt(nargs - noptargs))
  IN CASE noptargs = 0 -> Emit1(S, "args_fixed", nargs)
       [] noptargs > 0 /\ Last(f.args).vararg ->
            Emit0(EmitConstant(min, MakeInt(noptargs - 1)), "args_vararg")
       [] OTHER -> Emit0(EmitConstant(min, MakeInt(nargs)), "args_range")

generate_closure(S, closure) ==      \* in the function around it
  FoldLeft(LAMBDA T, var : On(T, LAMBDA fn : ins_closure_var(fn, var)),
           Emit1(S, "closure", Len(closure)), closure)

Arguments(S, f, noptargs) ==
  FoldLeft(LAMBDA acc, i : generate_arg(acc, f.args[i], i, Len(f.args)),
           [S |-> generate_arg_count(S, f, noptargs), next |-> 0], [i \in DOMAIN f.args |-> i])
ArgumentsEnd(acc, f) ==
  LET copied == Here(acc.S, acc.next)
  IN IF f.args = <<>> THEN copied ELSE Emit0(copied, "pop_args")
Entered(S, f, noptargs, toplevel) ==
  StartBlock(ArgumentsEnd(Arguments(S, f, noptargs), f),
             IF toplevel THEN "%toplevel" ELSE "function", TRUE)

\* The variables of the parameters' patterns go, and what is returned is checked.
Returned(S, f) ==
  LET left == On(On(S, LAMBDA fn : [fn EXCEPT !.scopes = <<Head(@)>>]), end_block)
  IN Emit0(generate_typeset_check(left, f.returns, 0, TRUE), "return")
Finished(S, fn) ==
  generate_closure([S EXCEPT !.fns = Front(@),
                             !.codes = Append(@, generate_fncode(fn, peephole(fn))),
                             !.asserted = @ /\ fn.asserted], fn.closure)
Finish(S) == Finished(S, Assert_compiler(Fn(S), Fn(S).current_depth = 1))
EndFunction(S, f, outer) == IF S.erred THEN [S EXCEPT !.fns = outer] ELSE Finish(Returned(S, f))

generate_function(S, f, toplevel) ==
  LET noptargs == Cardinality({i \in DOMAIN f.args : IsOptional(f.args[i]) \/ f.args[i].vararg})
      params == [i \in DOMAIN f.args |-> ""] \o (IF noptargs > 0 THEN <<"%nargs">> ELSE <<>>)
      pushed == [S EXCEPT !.fns = Append(@, new_fncode(toplevel, params))]
  IN EndFunction(generate_component(Entered(pushed, f, noptargs, toplevel), f.value, TRUE),
                 f, S.fns)

CodeLoaded(S, cst) ==
  Emit12(S, "closure_code", constant_index(Fn(S), cst))
CodeConstant(S, cst) == CodeLoaded(On(S, LAMBDA fn : add_constant(fn, cst)), cst)
ClosureMade(S, leave) ==
  IF S.erred THEN S ELSE Discard(CodeConstant(S, CodeValue(Len(S.codes))), leave)
generate_closure_component(S, comp, leave) == ClosureMade(generate_function(S, comp, FALSE), leave)

EndLabeled(S) == IF S.erred THEN S ELSE On(S, end_block)

generate_expanded(S, comp, leave) ==
  CASE S.erred -> S
    [] ~S.erred /\ comp.c = "assign" -> generate_assign(S, comp, leave)
    [] ~S.erred /\ comp.c = "recall" -> generate_recall(S, comp, leave)
    [] ~S.erred /\ comp.c = "constant" ->
         IF leave THEN EmitConstant(S, constant_to_mudlle(comp.cst)) ELSE S
    [] ~S.erred /\ comp.c = "closure" -> generate_closure_component(S, comp, leave)
    [] ~S.erred /\ comp.c = "block" -> generate_block(S, comp, leave)
    [] ~S.erred /\ comp.c = "labeled" ->
         EndLabeled(generate_component(StartBlock(S, comp.name, leave), comp.e, leave))
    [] ~S.erred /\ comp.c = "exit" -> generate_exit(S, comp, leave)
    [] ~S.erred /\ comp.c = "execute" ->
         Discard(generate_execute(generate_args(S, comp.args), comp.f, Len(comp.args)), leave)
    [] ~S.erred /\ comp.c = "builtin" -> generate_builtin(S, comp, leave)
generate_component(S, component, leave) ==
  generate_expanded(S, parser_expand_component(component), leave)

(***************************************************************************)
(* A whole file: a function without parameters, whose code is the last.    *)
(***************************************************************************)
Compiled(S) == [codes |-> S.codes, erred |-> S.erred, asserted |-> S.asserted /\ Fn(S).asserted]
compile_code(file, body) ==
  Compiled(generate_function([fns |-> <<new_fncode(TRUE, <<>>)>>, codes |-> <<>>,
                              erred |-> FALSE, asserted |-> TRUE, file |-> file],
                             parser_expand_component(Closure(<<>>, body)), TRUE))
=============================================================================
