----------------------------- MODULE MCRuntime ------------------------------
(***************************************************************************)
(* What watches over programs as they run: modules, execution limits,      *)
(* profiles, reports of errors, the objects that C code holds, and open    *)
(* files.  These parts do not meet in the models; each behaviour is one of *)
(* the part that is chosen at its start, and the others stay as they were. *)
(***************************************************************************)
EXTENDS ModuleSystem, LoopCount, Profile, Files, CallTrace, Roots, TLC

CONSTANTS Parts

VARIABLE part

(***************************************************************************)
(* Library a requires b; library c defines what b defines and requires a;  *)
(* p is a file without a header that assigns variables of both.            *)
(***************************************************************************)
MCRequires == "a" :> <<"b">> @@ "b" :> <<>> @@ "c" :> <<"a">> @@ "p" :> <<>>
MCDefines == "a" :> {"x"} @@ "b" :> {"y"} @@ "c" :> {"y"} @@ "p" :> {}
MCWrites == "a" :> {"w"} @@ "b" :> {} @@ "c" :> {"x"} @@ "p" :> {"x", "w", "system"}

(***************************************************************************)
(* Interpreted and compiled functions, a primitive, and C code.            *)
(***************************************************************************)
MCFrames == {[type |-> "bytecode", names |-> <<"f">>, op |-> NONE],
             [type |-> "c", names |-> <<>>, op |-> "p"],
             [type |-> "string", names |-> <<"s">>, op |-> NONE],
             [type |-> "compiled", names |-> <<"f">>, op |-> NONE],
             [type |-> "compiled", names |-> <<"g", "f">>, op |-> "p"]}
MCErrs == {"o1", NONE}

\* The one static root
MCRoots == <<"s">>
ASSUME RootsAssumptions

RuntimeInit ==
  /\ part \in Parts
  /\ Init /\ LoopInit /\ ProfileInit /\ FilesInit /\ RootsInit
  /\ TraceInit /\ (part # "trace" => err = NONE)

RuntimeNext ==
  /\ UNCHANGED part
  /\ \/ part = "modules" /\ Next /\ UNCHANGED <<loop_vars, profile_vars, file_vars, trace_vars, root_vars>>
     \/ part = "loops" /\ LoopNext /\ UNCHANGED <<vars, profile_vars, file_vars, trace_vars, root_vars>>
     \/ part = "profile" /\ ProfileNext /\ UNCHANGED <<vars, loop_vars, file_vars, trace_vars, root_vars>>
     \/ part = "files" /\ FilesNext /\ UNCHANGED <<vars, loop_vars, profile_vars, trace_vars, root_vars>>
     \/ part = "trace" /\ TraceNext /\ UNCHANGED <<vars, loop_vars, profile_vars, file_vars, root_vars>>
     \/ part = "roots" /\ RootsNext /\ UNCHANGED <<vars, loop_vars, profile_vars, file_vars, trace_vars>>

RuntimeSpec == RuntimeInit /\
  [][RuntimeNext]_<<part, vars, loop_vars, profile_vars, file_vars, trace_vars, root_vars>>

\* Bounds on the call stack, the catches and the observers together, and on
\* what holds objects
Small == /\ Len(stack) + Len(catches) + Len(targets) <= 5
         /\ Len(locals) + 2 * (Len(gcpro) + Cardinality(Linked)) <= 4
=============================================================================
