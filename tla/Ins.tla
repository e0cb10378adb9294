-------------------------------- MODULE Ins ---------------------------------
(***************************************************************************)
(* ins.c and env.c: the code of one function while it is generated, and    *)
(* the local variables of the functions being compiled.                    *)
(*                                                                         *)
(* A record `fn' is a struct fncode with its struct env_stack.  Its code   *)
(* has one item per instruction, which knows its size in bytes; a branch   *)
(* has the label it goes `to', and a label the place of its instruction.   *)
(***************************************************************************)
EXTENDS Tree, FiniteSetsExt

CONSTANTS UINT8_MAX, INT8_MAX, INT16_MAX, MAX_LOCAL_VARS

ASSUME WidthAssumption ==
  {UINT8_MAX, INT8_MAX, INT16_MAX, MAX_LOCAL_VARS} \subseteq Nat

Index(seq, Test(_)) ==
  LET found == {i \in DOMAIN seq : Test(seq[i])}
  IN IF found = {} THEN 0 ELSE Min(found)

\* A sequence, element by element instead of as a rule to compute them
Computed(seq) == <<>> \o seq

new_fncode(toplevel, params) ==
  [ins |-> <<>>, labels |-> <<>>, next_label |-> 0, current_depth |-> 0, max_depth |-> 0,
   csts |-> <<>>, blks |-> <<>>, toplevel |-> toplevel, asserted |-> TRUE,
   scopes |-> <<[index |-> 0, vars |-> params, statics |-> FALSE]>>,
   size |-> Len(params), max_size |-> Len(params), loop_depth |-> 0, closure |-> <<>>]

Assert_compiler(fn, what) == [fn EXCEPT !.asserted = @ /\ what]

adjust_depth(fn, by) ==
  LET depth == fn.current_depth + by
  IN [fn EXCEPT !.current_depth = depth, !.max_depth = Max({@, depth})]

add_ins(fn, op, arg, size, to) ==
  [fn EXCEPT !.ins = Append(@, [op |-> op, arg |-> arg, size |-> size, to |-> to]),
             !.labels = IF fn.next_label = 0 THEN @
                        ELSE [@ EXCEPT ![fn.next_label].ins = Len(fn.ins) + 1],
             !.next_label = 0]

(***************************************************************************)
(* The effect of an instruction on the depth of the stack.                 *)
(***************************************************************************)
ins0(fn, op) ==
  LET by == CASE op = "null" -> 1
              [] op \in {"discard", "eq", "ne", "le", "lt", "ge", "gt", "ref", "add",
                         "subtract"} -> -1
              [] op \in {"set", "args_range", "args_vararg"} -> -2
              [] op \in {"return", "not", "car", "cdr", "pop_args", "c_callback"} -> 0
  IN add_ins(adjust_depth(fn, by), op, 0, 1, 0)

InsDepth(op, arg) ==
  CASE op \in {"recall_local", "recall_closure", "recall_global", "integer", "constant",
               "closure"} -> 1
    [] op \in {"typeset_check", "execute_global_2arg", "execute_primitive_2arg"} -> -1
    [] op \in {"execute", "execute_primitive", "execute_varargs"} -> -arg
    [] op \in {"args_fixed", "assign_closure", "assign_local", "assign_global", "define",
               "clear_local", "closure_code", "closure_var_closure", "closure_var_local",
               "exit_discard_n", "exit_n", "typecheck", "execute_global_1arg",
               "execute_primitive_1arg"} -> 0

\* An operand of one byte
ins1(fn, op, arg) ==
  LET sized == Assert_compiler(fn, arg \in 0..UINT8_MAX)
  IN add_ins(adjust_depth(sized, InsDepth(op, arg)), op, arg, 2, 0)
\* An operand of two bytes
ins2(fn, op, arg) == add_ins(adjust_depth(fn, InsDepth(op, arg)), op, arg, 3, 0)
\* The shortest of the two that can hold a number
ins12(fn, op, n) == IF n <= UINT8_MAX THEN ins1(fn, op, n) ELSE ins2(fn, op, n)

ins_access(fn, base, vclass, pos) ==
  IF vclass = "global" THEN ins2(fn, base \o "_global", pos)
  ELSE ins1(fn, base \o "_" \o vclass, pos)
ins_recall(fn, var) == ins_access(fn, "recall", var.vclass, var.pos)
ins_assign(fn, var) == ins_access(fn, "assign", var.vclass, var.pos)
ins_closure_var(fn, var) == ins_access(fn, "closure_var", var.vclass, var.pos)

\* Constants are counted from 0, and kept once.
add_constant(fn, cst) ==
  IF \E i \in DOMAIN fn.csts : fn.csts[i] = cst THEN fn
  ELSE [fn EXCEPT !.csts = Append(@, cst)]
constant_index(fn, cst) == Index(fn.csts, LAMBDA c : c = cst) - 1

ins_constant(fn, cst) ==
  LET Small(max) == cst.t = "integer" /\ cst.i \in (-max - 1)..max IN
  CASE cst.t = "null" -> ins0(fn, "null")
    [] Small(INT8_MAX) -> add_ins(adjust_depth(fn, 1), "integer", cst.i, 2, 0)
    [] ~Small(INT8_MAX) /\ Small(INT16_MAX) ->
         add_ins(adjust_depth(fn, 1), "integer", cst.i, 3, 0)
    [] OTHER -> LET added == add_constant(fn, cst)
                IN ins12(added, "constant", constant_index(added, cst))

(***************************************************************************)
(* Labels and branches.  A label set where another one waits for its       *)
(* instruction is an alias of that one.                                    *)
(***************************************************************************)
new_label(fn) == [fn EXCEPT !.labels = Append(@, [ins |-> 0, alias |-> 0])]
LastLabel(fn) == Len(fn.labels)          \* the label new_label() made

set_label(fn, lab) ==
  IF fn.next_label # 0 THEN [fn EXCEPT !.labels[lab].alias = fn.next_label]
  ELSE [fn EXCEPT !.next_label = lab]

\* A branch of one byte; peephole() may make it one of two
branch(fn, op, to) ==
  add_ins(adjust_depth(fn, IF op \in {"branch_z", "branch_nz"} THEN -1 ELSE 0), op, 0, 2, to)

(***************************************************************************)
(* peephole(): branches name the label an alias stands for, those to the   *)
(* next instruction go, the last one first, and those too long for one     *)
(* byte grow.                                                              *)
(***************************************************************************)
\* The instruction at a label, or at the one it is an alias of
Target(fn, to) ==
  LET alias == fn.labels[to].alias IN fn.labels[IF alias = 0 THEN to ELSE alias].ins

RECURSIVE Removed(_, _)
\* A branch to the instruction that follows, when those between are removed too
Removed(fn, i) ==
  /\ fn.ins[i].op = "branch"
  /\ Target(fn, fn.ins[i].to) > i
  /\ \A j \in (i + 1)..(Target(fn, fn.ins[i].to) - 1) : Removed(fn, j)

\* The label of a removed instruction goes to the next one.
resolve_labels(fn) ==
  LET kept == SelectSeq([i \in DOMAIN fn.ins |-> i], LAMBDA i : ~Removed(fn, i))
      At(to) == CHOOSE k \in DOMAIN kept : /\ kept[k] >= Target(fn, to)
                                           /\ k > 1 => kept[k - 1] < Target(fn, to)
      Item(item) == [op |-> item.op, arg |-> item.arg, size |-> item.size,
                     to |-> IF item.to = 0 THEN 0 ELSE At(item.to)]
  IN Computed([k \in DOMAIN kept |-> Item(fn.ins[kept[k]])])

\* The address of each instruction, and of the end of the code, half by half
RECURSIVE number_from(_, _)
number_from(code, first) ==
  IF Len(code) = 1 THEN <<first, first + code[1].size>>
  ELSE LET half == Len(code) \div 2
           before == number_from(SubSeq(code, 1, half), first)
       IN Front(before) \o number_from(SubSeq(code, half + 1, Len(code)), Last(before))
number_instructions(code) == number_from(code, 0)

\* The branches of one byte that do not reach their labels
LongBranches(code) ==
  LET addr == number_instructions(code)
  IN {i \in DOMAIN code : /\ code[i].to # 0 /\ code[i].size = 2
                          /\ addr[code[i].to] - addr[i + 1] \notin (-INT8_MAX - 1)..INT8_MAX}

\* Mutant: the distance is counted from the branch, not from what follows it.
ResolveOnce_FromBranch(code) ==
  LET addr == number_instructions(code)
      long == LongBranches(code)
      Item(i) == CASE i \in long -> [code[i] EXCEPT !.size = 3]
                   [] i \notin long /\ code[i].to # 0 ->
                        [code[i] EXCEPT !.arg = addr[code[i].to] - addr[i]]
                   [] OTHER -> code[i]
  IN Computed([i \in DOMAIN code |-> Item(i)])

\* Those grow, and the others get the distance to their labels.
ResolveOnce(code) ==
  LET addr == number_instructions(code)
      long == LongBranches(code)
      Item(i) == CASE i \in long -> [code[i] EXCEPT !.size = 3]
                   [] i \notin long /\ code[i].to # 0 ->
                        [code[i] EXCEPT !.arg = addr[code[i].to] - addr[i + 1]]
                   [] OTHER -> code[i]
  IN Computed([i \in DOMAIN code |-> Item(i)])

RECURSIVE resolve_offsets(_)
resolve_offsets(code) ==
  IF LongBranches(code) = {} THEN ResolveOnce(code) ELSE resolve_offsets(ResolveOnce(code))

peephole(fn) == resolve_offsets(resolve_labels(fn))

\* The code as the interpreter reads it: instructions by their address
generate_fncode(fn, code) ==
  LET addr == number_instructions(code)
      index == [a \in {addr[i] : i \in DOMAIN code} |-> CHOOSE i \in DOMAIN code : addr[i] = a]
      at == [a \in DOMAIN index |-> LET item == code[index[a]]
                                    IN [op |-> item.op, arg |-> item.arg, size |-> item.size]]
  IN [at |-> at, csts |-> fn.csts, stkdepth |-> fn.max_depth, nb_locals |-> fn.max_size]

(***************************************************************************)
(* Named blocks.  The name "" is the block of a loop without a name.       *)
(***************************************************************************)
start_block(fn, name, leave_result) ==
  [new_label(fn) EXCEPT
     !.blks = Append(@, [name |-> name, exitlab |-> LastLabel(fn) + 1,
                         stack_depth |-> fn.current_depth, leave_result |-> leave_result])]
end_block(fn) == [set_label(fn, Last(fn.blks).exitlab) EXCEPT !.blks = Front(@)]

HasBlock(fn, name) == \E i \in DOMAIN fn.blks : fn.blks[i].name = name
find_block(fn, name) ==
  fn.blks[Max({i \in DOMAIN fn.blks : fn.blks[i].name = name})]

\* Mutant: what is on the stack above the block stays there.
exit_block_KeepsStack(fn, block) == branch(fn, "branch", block.exitlab)

exit_block(fn, block) ==
  LET npop == fn.current_depth - block.stack_depth - (IF block.leave_result THEN 1 ELSE 0)
      checked == Assert_compiler(fn, npop >= 0)
      popped == IF npop <= 0 THEN checked
                ELSE ins1(checked, IF block.leave_result THEN "exit_n" ELSE "exit_discard_n", npop)
  IN branch(popped, "branch", block.exitlab)

(***************************************************************************)
(* Local variables.  They are numbered through the whole function; in a    *)
(* loop, and where the number was used before, they are cleared.           *)
(***************************************************************************)
\* Mutant: new numbers are not cleared, also when a loop comes back to them.
env_block_push_NotInLoops(fn, vars, statics) ==
  LET nsize == fn.size + Len(vars)
      last_set == IF fn.max_size < nsize THEN fn.max_size ELSE nsize
      scoped == [fn EXCEPT !.scopes = Append(@, [index |-> fn.size, vars |-> vars,
                                                 statics |-> statics]),
                           !.max_size = Max({@, nsize}), !.size = nsize]
  IN FoldLeft(LAMBDA f, i : ins1(f, "clear_local", i), scoped,
              [k \in 1..Max({0, last_set - fn.size}) |-> fn.size + k - 1])

env_block_push(fn, vars, statics) ==
  LET nsize == fn.size + Len(vars)
      last_set == IF fn.max_size < nsize /\ fn.loop_depth = 0 THEN fn.max_size ELSE nsize
      scoped == [fn EXCEPT !.scopes = Append(@, [index |-> fn.size, vars |-> vars,
                                                 statics |-> statics]),
                           !.max_size = Max({@, nsize}), !.size = nsize]
  IN FoldLeft(LAMBDA f, i : ins1(f, "clear_local", i), scoped,
              [k \in 1..Max({0, last_set - fn.size}) |-> fn.size + k - 1])
env_block_pop(fn) == [fn EXCEPT !.scopes = Front(@)]
TooManyLocals(fn, vars) == fn.size + Len(vars) > MAX_LOCAL_VARS

env_start_loop(fn) == [fn EXCEPT !.loop_depth = @ + 1]
env_end_loop(fn) == [fn EXCEPT !.loop_depth = @ - 1]

\* The innermost variable called name, or none: its position and whether static
Local(fn, name) ==
  LET Has(s) == \E j \in DOMAIN fn.scopes[s].vars : fn.scopes[s].vars[j] = name
      found == {s \in DOMAIN fn.scopes : Has(s)}
  IN IF found = {} THEN [found |-> FALSE]
     ELSE LET s == fn.scopes[Max(found)]
          IN [found |-> TRUE, static |-> s.statics,
              pos |-> s.index + Index(s.vars, LAMBDA v : v = name) - 1]

(***************************************************************************)
(* env_close(): a variable of an outer function is added to the closures   *)
(* of all functions between it and the one that uses it.                   *)
(***************************************************************************)
RECURSIVE env_close(_, _, _)
env_close(fns, level, var) ==
  IF level = Len(fns) THEN [fns |-> fns, var |-> var]
  ELSE LET inner == fns[level + 1].closure
           known == Index(inner, LAMBDA v : v = var)
           closed == IF known > 0 THEN fns
                     ELSE [fns EXCEPT ![level + 1].closure = Append(@, var)]
       IN env_close(closed, level + 1,
                    [vclass |-> "closure",
                     pos |-> (IF known > 0 THEN known ELSE Len(inner) + 1) - 1])

\* The last function of fns is the one being compiled
env_lookup(fns, name) ==
  LET levels == {l \in DOMAIN fns : Local(fns[l], name).found}
  IN IF levels = {}
     THEN [fns |-> fns, var |-> [vclass |-> "global", pos |-> name], static |-> FALSE]
     ELSE LET found == Local(fns[Max(levels)], name)
              closed == env_close(fns, Max(levels), [vclass |-> "local", pos |-> found.pos])
          IN [fns |-> closed.fns, var |-> closed.var, static |-> found.static]
=============================================================================
