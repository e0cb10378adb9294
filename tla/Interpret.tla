----------------------------- MODULE Interpret ------------------------------
(***************************************************************************)
(* interpret.c: the byte code interpreter, with the value stack of stack.c *)
(* and objenv.c.                                                           *)
(*                                                                         *)
(* One action is one instruction.  A runtime error ends the run; how it is *)
(* caught is the matter of CatchContext.                                   *)
(***************************************************************************)
EXTENDS Primitive

CONSTANT STACK_SIZE

VARIABLES codes,        \* the code objects of the program, its body last
          stack,        \* the values in use, the last one on top
          room,         \* the length of stack->values
          frames,       \* the calls of do_interpret(), the last one running
          mem,          \* the memory
          status        \* "loading", "running", "done", "error"; "erred": not compiled
vars == <<codes, stack, room, frames, mem, status>>

FAST_GET(n) == stack[Len(stack) - n]
Popped(n) == SubSeq(stack, 1, Len(stack) - n)

me == Last(frames)
Code == codes[me.code]
Ins == Code.at[me.pc]
After == me.pc + Ins.size
At(ops) == status = "running" /\ Ins.op \in ops

LOCAL_VAR(n) == me.locals[n + 1]
CLOSURE_VAR(n) == me.vars[n + 1]
Cell(n) == IF Ins.op \in {"recall_local", "assign_local", "clear_local"} THEN LOCAL_VAR(n)
           ELSE CLOSURE_VAR(n)
GVAR(name) == IF name \in DOMAIN PrimitiveArgs THEN [t |-> "primitive", name |-> name]
              ELSE mem.globals[name]

Goto(pc) == frames' = [frames EXCEPT ![Len(frames)].pc = pc]
Next1 == Goto(After)
Error == /\ status' = "error"
         /\ UNCHANGED <<codes, stack, room, frames, mem>>

(***************************************************************************)
(* Values and variables.                                                   *)
(***************************************************************************)
Push ==
  /\ At({"null", "integer", "constant"})
  /\ stack' = Append(stack, CASE Ins.op = "null" -> Null
                              [] Ins.op = "integer" -> MakeInt(Ins.arg)
                              [] Ins.op = "constant" -> Code.csts[Ins.arg + 1])
  /\ Next1
  /\ UNCHANGED <<codes, room, mem, status>>

RECURSIVE ClosureVars(_)
\* The instructions that follow op_closure name the variables, then the code.
ClosureVars(pc) ==
  LET ins == Code.at[pc]
      rest == ClosureVars(pc + ins.size)
  IN CASE ins.op = "closure_code" ->
            [vars |-> <<>>, code |-> Code.csts[ins.arg + 1], pc |-> pc + ins.size]
       [] ins.op = "closure_var_local" -> [rest EXCEPT !.vars = <<LOCAL_VAR(ins.arg)>> \o @]
       [] ins.op = "closure_var_closure" -> [rest EXCEPT !.vars = <<CLOSURE_VAR(ins.arg)>> \o @]

MakeClosure ==
  /\ At({"closure"})
  /\ LET new == ClosureVars(After) IN
     /\ stack' = Append(stack, [t |-> "closure", code |-> new.code.id, vars |-> new.vars])
     /\ Goto(new.pc)
  /\ UNCHANGED <<codes, room, mem, status>>

RecallVar ==
  /\ At({"recall_local", "recall_closure", "recall_global"})
  /\ stack' = Append(stack, IF Ins.op = "recall_global" THEN GVAR(Ins.arg)
                            ELSE mem.cells[Cell(Ins.arg)])
  /\ Next1
  /\ UNCHANGED <<codes, room, mem, status>>

AssignVar ==
  /\ At({"assign_local", "assign_closure", "clear_local", "assign_global", "define"})
  /\ mem' = CASE Ins.op = "clear_local" -> Store(mem, Cell(Ins.arg), Null)
              [] Ins.op \in {"assign_global", "define"} ->
                   [mem EXCEPT !.globals[Ins.arg] = FAST_GET(0)]
              [] OTHER -> Store(mem, Cell(Ins.arg), FAST_GET(0))
  /\ Next1
  /\ UNCHANGED <<codes, stack, room, status>>

Pop ==
  /\ At({"discard", "exit_n", "exit_discard_n", "pop_args"})
  /\ stack' = CASE Ins.op = "discard" -> Popped(1)
                [] Ins.op = "exit_n" -> Append(Popped(1 + Ins.arg), FAST_GET(0))
                [] Ins.op = "exit_discard_n" -> Popped(Ins.arg)
                [] Ins.op = "pop_args" -> Popped(me.nargs)
  /\ Next1
  /\ UNCHANGED <<codes, room, mem, status>>

Branch ==
  /\ At({"branch", "loop", "branch_z", "branch_nz"})
  /\ LET taken == \/ Ins.op \in {"branch", "loop"}
                  \/ Ins.op = "branch_z" /\ ~IsTrue(FAST_GET(0))
                  \/ Ins.op = "branch_nz" /\ IsTrue(FAST_GET(0))
     IN /\ stack' = IF Ins.op \in {"branch", "loop"} THEN stack ELSE Popped(1)
        /\ Goto(IF taken THEN After + Ins.arg ELSE After)
  /\ UNCHANGED <<codes, room, mem, status>>

(***************************************************************************)
(* Operators: the first argument is on top of the stack.                   *)
(***************************************************************************)
Operate ==
  /\ At(Arithmetic \cup {"eq", "ne", "not", "car", "cdr", "ref", "set"})
  /\ LET n == CASE Ins.op = "set" -> 3
                [] Ins.op \in {"not", "car", "cdr"} -> 1
                [] OTHER -> 2
         result == Operator(Ins.op, [i \in 1..n |-> FAST_GET(i - 1)], mem)
     IN IF result.ok
        THEN /\ stack' = Append(Popped(n), result.v)
             /\ mem' = result.mem
             /\ Next1
             /\ UNCHANGED <<codes, room, status>>
        ELSE Error

Typecheck ==
  /\ At({"typecheck", "typeset_check"})
  /\ LET set == Ins.op = "typeset_check"
         typeset == IF set THEN FAST_GET(0).typeset ELSE Ins.arg.typeset
         v == IF set THEN FAST_GET(Ins.arg + 1) ELSE FAST_GET(Ins.arg.argnum)
     IN IF IsTypeset(v, typeset)
        THEN /\ stack' = IF set THEN Popped(1) ELSE stack
             /\ Next1
             /\ UNCHANGED <<codes, room, mem, status>>
        ELSE Error

(***************************************************************************)
(* The arguments of a call, still on the stack, are copied to the first    *)
(* local variables.                                                        *)
(***************************************************************************)
RECURSIVE CopyArgs(_, _, _)
\* Local variables 0 to n - 1, from a stack with skip more values on top
CopyArgs(m, n, skip) ==
  IF n = 0 THEN m ELSE CopyArgs(Store(m, LOCAL_VAR(n - 1), FAST_GET(n - 1 + skip)), n - 1, skip)

ArgsFixed ==
  /\ At({"args_fixed"})
  /\ IF me.nargs # Ins.arg THEN Error
     ELSE /\ mem' = CopyArgs(mem, me.nargs, 0)
          /\ Next1
          /\ UNCHANGED <<codes, stack, room, status>>

ArgsRange ==
  /\ At({"args_range"})
  /\ LET maxargs == FAST_GET(0).i
         minargs == FAST_GET(1).i
     IN IF me.nargs \notin minargs..maxargs THEN Error
        ELSE /\ stack' = Popped(2)
             /\ mem' = Store(CopyArgs(mem, me.nargs, 2), LOCAL_VAR(maxargs), MakeInt(me.nargs))
             /\ Next1
             /\ UNCHANGED <<codes, room, status>>

ArgsVararg ==
  /\ At({"args_vararg"})
  /\ LET nfixed == FAST_GET(0).i + FAST_GET(1).i      \* minargs + optargs
         nvarargs == Max({0, me.nargs - nfixed})
         args == NewVector(mem, [i \in 1..nvarargs |-> FAST_GET(nfixed + i - 1 + 2)])
         vararg == Store(Store(args.mem, LOCAL_VAR(nfixed), args.v),
                         LOCAL_VAR(nfixed + 1), MakeInt(me.nargs))
     IN IF me.nargs < FAST_GET(1).i THEN Error
        ELSE /\ stack' = Popped(2)
             /\ mem' = CopyArgs(vararg, me.nargs - nvarargs, 2)
             /\ Next1
             /\ UNCHANGED <<codes, room, status>>

(***************************************************************************)
(* Calls.  Each instruction finds the function and the number of arguments *)
(* in its own way.                                                         *)
(***************************************************************************)
CallOps == {"execute", "execute_primitive", "execute_varargs"}
GlobalCallOps == {"execute_global_1arg", "execute_global_2arg",
                  "execute_primitive_1arg", "execute_primitive_2arg"}
Called == IF Ins.op \in CallOps THEN FAST_GET(0) ELSE GVAR(Ins.arg)
CallNargs == CASE Ins.op \in CallOps -> Ins.arg
               [] Ins.op \in {"execute_global_1arg", "execute_primitive_1arg"} -> 1
               [] Ins.op \in {"execute_global_2arg", "execute_primitive_2arg"} -> 2
UnderFunction == IF Ins.op \in CallOps THEN 1 ELSE 0

\* env_reserve(), called by stack_reserve() on entry to a function
Reserved(used, n) == IF used + n > room THEN 2 * room + n ELSE room

NewFrame(closure, code, nargs, under) ==
  [code |-> closure.code, vars |-> closure.vars, pc |-> 0, nargs |-> nargs, under |-> under,
   locals |-> NewCells(mem, code.nb_locals)]

CallClosure ==
  /\ At(CallOps \cup GlobalCallOps)
  /\ Called.t = "closure"
  /\ LET code == codes[Called.code]
         used == Len(stack) - UnderFunction
     IN /\ stack' = Popped(UnderFunction)
        /\ room' = Reserved(used, code.stkdepth)
        /\ frames' = Append([frames EXCEPT ![Len(frames)].pc = After],
                            NewFrame(Called, code, CallNargs, used - CallNargs))
        /\ mem' = Alloc(mem, [i \in 1..code.nb_locals |-> Null])
        /\ UNCHANGED <<codes, status>>

\* A varargs primitive gets its arguments as one vector.
CallPrimitive ==
  /\ At(CallOps \cup GlobalCallOps)
  /\ Called.t = "primitive"
  /\ LET nargs == PrimitiveArgs[Called.name]
         args == [i \in 1..CallNargs |-> FAST_GET(UnderFunction + i - 1)]
         result == call_primitive(Called.name, args, mem)
     IN IF nargs \in {CallNargs, -1} /\ result.ok
        THEN /\ stack' = Append(Popped(UnderFunction + CallNargs), result.v)
             /\ mem' = result.mem
             /\ Next1
             /\ UNCHANGED <<codes, room, status>>
        ELSE Error

CallInvalid ==
  /\ At(CallOps \cup GlobalCallOps)
  /\ Called.t \notin {"closure", "primitive"}
  /\ Error

\* The caller goes on with the result on top of its stack.
Return ==
  /\ At({"return"})
  /\ frames' = Front(frames)
  /\ status' = IF Len(frames) = 1 THEN "done" ELSE "running"
  /\ UNCHANGED <<codes, stack, room, mem>>

(***************************************************************************)
(* call0() of the closure that compile_code() made.                        *)
(***************************************************************************)
Idle == stack = <<>> /\ room = STACK_SIZE /\ frames = <<>> /\ mem = EmptyMemory

\* call0() of the last of the code objects
Start(compiled) ==
  LET code == Last(compiled)
      cells == Alloc(mem, [i \in 1..code.nb_locals |-> Null]) IN
  /\ codes' = compiled
  /\ room' = IF code.stkdepth > STACK_SIZE THEN 2 * STACK_SIZE + code.stkdepth ELSE STACK_SIZE
  /\ frames' = <<[code |-> Len(compiled), vars |-> <<>>, pc |-> 0, nargs |-> 0, under |-> 0,
                  locals |-> NewCells(mem, code.nb_locals)]>>
  /\ mem' = cells
  /\ status' = "running"
  /\ UNCHANGED stack

Step == \/ Push \/ MakeClosure \/ RecallVar \/ AssignVar \/ Pop \/ Branch \/ Operate
        \/ Typecheck \/ ArgsFixed \/ ArgsRange \/ ArgsVararg \/ CallClosure \/ CallPrimitive
        \/ CallInvalid \/ Return
=============================================================================
