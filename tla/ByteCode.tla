------------------------------ MODULE ByteCode ------------------------------
(***************************************************************************)
(* The compiler and the interpreter together: what compiled programs do is *)
(* what the programs mean.                                                 *)
(***************************************************************************)
EXTENDS Compile, Interpret, Meaning

CONSTANTS Programs,      \* the names of the programs
          Body(_),       \* the syntax tree of a program
          File(_)        \* what its file declares

VARIABLES prog,          \* the program that is loaded
          checks         \* whether the compiler's assertions held

Init ==
  /\ prog \in Programs
  /\ codes = <<>> /\ checks = TRUE
  /\ Idle /\ status = "loading"

\* interpret() without the module bookkeeping: compile, then call the closure
Load ==
  /\ status = "loading"
  /\ \E compiled \in {compile_code(File(prog), Body(prog))} :
     /\ checks' = compiled.asserted
     /\ IF compiled.erred
        THEN /\ codes' = compiled.codes /\ status' = "erred"
             /\ UNCHANGED <<stack, room, frames, mem>>
        ELSE Start(compiled.codes)
  /\ UNCHANGED prog

Run == Step /\ UNCHANGED <<prog, checks>>
Ended == status \in {"done", "error", "erred"} /\ UNCHANGED <<vars, prog, checks>>

Next == Load \/ Run \/ Ended
Spec == Init /\ [][Next]_<<vars, prog, checks>> /\ WF_<<vars, prog, checks>>(Run)

\* A program that ends has the result, and has logged the values, that the
\* language promises; or it fails with an error where the language does.
CompileCorrect ==
  status \in {"done", "error"} =>
    LET meaning == MeaningOf(Body(prog)) IN
    /\ status = meaning.status
    /\ mem.log = meaning.log
    /\ status = "done" => Plain(mem, FAST_GET(0)) = meaning.result

\* The interpreter pushes and fetches without looking: what a function reserves
\* when it is entered is enough for it (stkdepth, FAST_PUSH()), and the program
\* counter is always at the first byte of an instruction, also after long and
\* short branches.
WithinBounds == /\ Len(stack) <= room
                /\ status = "running" => me.pc \in DOMAIN Code.at

\* Every function leaves exactly its result in place of its arguments.
ResultForArgs ==
  /\ checks
  /\ At({"return"}) => Len(stack) = me.under + 1
  /\ status = "done" => Len(stack) = 1

\* Programs without endless loops end once they run.
Terminates == status = "running" ~> status \in {"done", "error"}
=============================================================================
