---------------------------- MODULE ModuleSystem ----------------------------
(***************************************************************************)
(* Loading files of mudlle code: interpret() (compile.c), mstart(),        *)
(* mprerun() (mcompile.c) and the ownership of global variables            *)
(* (module.c).  A file's body is a program, which may load files itself,   *)
(* unload modules and throw; so may the bodies of the libraries a file     *)
(* requires.  interpret() is thus entered again while it holds, in the C   *)
(* stack and in static variables, what it knew of the modules before.      *)
(*                                                                         *)
(* All code runs at seclevel 1: mudlle-config.h has MAX_SECLEVEL and       *)
(* SECLEVEL_GLOBALS equal to 1, so that the comparisons of seclevels never *)
(* refuse anything and are left out.  No variable is system_mutable (no    *)
(* code of the repository makes one).                                      *)
(***************************************************************************)
EXTENDS Naturals, Sequences, FiniteSets

CONSTANTS Files,      \* file names; a module has the name of its file
          Plain,      \* the files without a header: they have no module
          Vars,       \* global variables
          Requires,   \* the modules each file requires, in order
          Defines,    \* the variables each file's header defines
          Writes,     \* those its header writes, or that a plain file assigns
          SystemVar,  \* a variable that mudlle cannot write
          NULL,
          MaxFrames   \* bound on nested calls of interpret()

Modules == Files \ Plain

ASSUME HeaderAssumption ==
  /\ Plain \subseteq Files /\ SystemVar \in Vars /\ NULL \notin Files
  /\ Requires \in [Files -> Seq(Modules)]
  /\ Defines \in [Files -> SUBSET Vars] /\ Writes \in [Files -> SUBSET Vars]
  /\ \A f \in Plain : Requires[f] = <<>> /\ Defines[f] = {}
  /\ MaxFrames \in Nat
  /\ {"normal", "write", "system_write"} \cap Files = {}

VARIABLES
  status,      \* of each module
  vstatus,     \* mvars: the module that owns a variable, or what it may be used for
  gvar,        \* the file whose code last assigned each variable, or NULL
  frames,      \* the calls of interpret() in progress, innermost last
  erred,       \* an error has been reported since the flag was last cleared
  unexplained, \* history: mstart() has refused a file without an error of its own
  pc           \* "run", or "abort" once the program has aborted

vars == <<status, vstatus, gvar, frames, erred, unexplained, pc>>

Depth == Len(frames)
Top == frames[Depth]
Popped == SubSeq(frames, 1, Depth - 1)
GCONSTANT(v) == vstatus[v] \in Modules \cup {"system_write"}

Init ==
  /\ status = [m \in Modules |-> "unloaded"]
  /\ vstatus = [v \in Vars |-> IF v = SystemVar THEN "system_write" ELSE "normal"]
  /\ gvar = [v \in Vars |-> NULL]
  /\ frames = <<>> /\ erred = FALSE /\ unexplained = FALSE /\ pc = "run"

\* module_set(), for files that have a module.
module_set(f, s) == status' = IF f \in Modules THEN [status EXCEPT ![f] = s] ELSE status

(***************************************************************************)
(* Entering interpret(): from outside, from a body through load(), or      *)
(* through the hook load_library() for a required module.                  *)
(***************************************************************************)
InBody == pc = "run" /\ frames # <<>> /\ Top.phase = "body"
InRequires == pc = "run" /\ frames # <<>> /\ Top.phase = "requires"
Required == Requires[Top.file][Top.next]
\* Mutant: the last required module is not looked at.
AllRequired_ButLast == Top.next >= Len(Requires[Top.file])

AllRequired == Top.next > Len(Requires[Top.file])

MayLoad(f) ==
  \/ pc = "run" /\ frames = <<>>
  \/ InBody
  \/ /\ InRequires /\ ~AllRequired /\ ~Top.asked            \* module_require()
     /\ f = Required /\ status[f] = "unloaded"

Asked == IF frames # <<>> /\ Top.phase = "requires"
           THEN [frames EXCEPT ![Depth].asked = TRUE] ELSE frames

\* Mutant: a protected module is loaded again.
Refuses_Never(f) == FALSE

Refuses(f) == f \in Modules /\ status[f] = "protected"

interpret_starts(f) ==                                      \* mstart()
  /\ MayLoad(f) /\ Depth < MaxFrames /\ ~Refuses(f)
  /\ erred' = FALSE
  /\ module_set(f, "loading")
  /\ frames' = Append(Asked, [file |-> f, phase |-> "requires", next |-> 1, asked |-> FALSE,
                              old |-> IF f \in Modules THEN status[f] ELSE "unloaded"])
  /\ UNCHANGED <<vstatus, gvar, unexplained, pc>>

\* parse() or the first test of mstart() reports an error.
interpret_rejects(f) ==
  /\ MayLoad(f)
  /\ erred' = TRUE /\ frames' = Asked
  /\ UNCHANGED <<status, vstatus, gvar, unexplained, pc>>

\* load_library() is not callable or does not find the file.
library_missing ==
  /\ InRequires /\ ~AllRequired /\ ~Top.asked /\ status[Required] = "unloaded"
  /\ frames' = Asked
  /\ UNCHANGED <<status, vstatus, gvar, erred, unexplained, pc>>

RequireDone == InRequires /\ ~AllRequired /\ (Top.asked \/ status[Required] # "unloaded")

require_succeeds ==
  /\ RequireDone /\ status[Required] \in {"loaded", "protected"}
  /\ frames' = [frames EXCEPT ![Depth].next = @ + 1, ![Depth].asked = FALSE]
  /\ UNCHANGED <<status, vstatus, gvar, erred, unexplained, pc>>

\* Mutant: the module stays marked as loading.
require_fails_StaysLoading ==
  /\ RequireDone /\ status[Required] \notin {"loaded", "protected"}
  /\ erred' = TRUE /\ frames' = Popped
  /\ UNCHANGED <<status, vstatus, gvar, unexplained, pc>>

require_fails ==
  /\ RequireDone /\ status[Required] \notin {"loaded", "protected"}
  /\ erred' = TRUE
  /\ module_set(Top.file, Top.old)
  /\ frames' = Popped
  /\ UNCHANGED <<vstatus, gvar, unexplained, pc>>

(***************************************************************************)
(* The rest of mstart(), compile_code() and mprerun(): no mudlle code runs *)
(* between them.                                                           *)
(***************************************************************************)
\* module_vset() in its dry run.
MayDefine(f, v) == vstatus[v] = f \/ ~GCONSTANT(v)

Conflict(f) ==
  \/ \E v \in Defines[f] : ~MayDefine(f, v)
  \/ f \notin Plain /\ \E v \in Writes[f] : v \in Defines[f] \/ GCONSTANT(v)

Ready == InRequires /\ AllRequired

\* "prevents repeated reload attempts at startup"
mstart_fails ==
  /\ Ready /\ (erred \/ Conflict(Top.file))
  /\ erred' = TRUE
  /\ unexplained' = (unexplained \/ ~Conflict(Top.file))
  /\ module_set(Top.file, IF Top.old = "unloaded" THEN "error" ELSE Top.old)
  /\ frames' = Popped
  /\ UNCHANGED <<vstatus, gvar, pc>>

Proceeds == Ready /\ ~erred /\ ~Conflict(Top.file)

\* mwritable(): an assignment makes the variable writable, if it can be.
Writable(S) == [v \in Vars |-> IF v \in S /\ ~GCONSTANT(v) THEN "write" ELSE vstatus[v]]

compile_fails ==
  /\ Proceeds
  /\ \E S \in SUBSET Writes[Top.file] : vstatus' = Writable(S)
  /\ erred' = TRUE
  /\ module_set(Top.file, Top.old)
  /\ frames' = Popped
  /\ UNCHANGED <<gvar, unexplained, pc>>

\* module_unload(): may it, and what becomes of the variables.
CanUnload(s) == s \in {"unloaded", "error", "loaded"}
Owned(m) == {v \in Vars : vstatus[v] = m}

mprerun_aborts ==
  /\ Proceeds /\ Top.file \in Modules /\ ~CanUnload(Top.old)
  /\ pc' = "abort"
  /\ UNCHANGED <<status, vstatus, gvar, frames, erred, unexplained>>

\* What the module defined before is released, then its header applies.
Released(f) == IF Top.old = "unloaded" THEN {} ELSE Owned(f)

\* Mutant: the module is unloaded after its header has been applied.
Prerun_UnloadsLast(f) ==
  [v \in Vars |-> CASE v \in Released(f) -> "normal"
                    [] v \in Defines[f] -> f
                    [] OTHER -> Writable(Writes[f])[v]]

Prerun(f) ==
  [v \in Vars |-> CASE v \in Defines[f] -> f
                    [] v \in Released(f) \ Defines[f] -> "normal"
                    [] OTHER -> Writable(Writes[f])[v]]

run_body ==
  /\ Proceeds /\ (Top.file \in Plain \/ CanUnload(Top.old))
  /\ vstatus' = Prerun(Top.file)
  /\ gvar' = [v \in Vars |-> IF v \in Released(Top.file) THEN NULL ELSE gvar[v]]
  /\ module_set(Top.file, "loading")
  /\ frames' = [frames EXCEPT ![Depth].phase = "body"]
  /\ UNCHANGED <<erred, unexplained, pc>>

(***************************************************************************)
(* What a body does, besides loading files.                                *)
(***************************************************************************)
\* op_define, which checks nothing.
define(v) ==
  /\ InBody /\ v \in Defines[Top.file]
  /\ gvar' = [gvar EXCEPT ![v] = Top.file]
  /\ UNCHANGED <<status, vstatus, frames, erred, unexplained, pc>>

\* op_assign_global, in the body or in a function it calls.  Any function
\* compiled while v was writable may still be around.
\* Mutant: check_global_write() only protects what belongs to the system.
check_global_write_System(v) == vstatus[v] # "system_write"

check_global_write(v) == ~GCONSTANT(v)

assign(v) ==
  /\ InBody /\ check_global_write(v)
  /\ gvar' = [gvar EXCEPT ![v] = Top.file]
  /\ UNCHANGED <<status, vstatus, frames, erred, unexplained, pc>>

\* Mutant: the variables are cleared but still belong to the module.
module_unload_KeepsOwner(m) ==
  /\ InBody /\ status[m] # "unloaded" /\ CanUnload(status[m])
  /\ module_set(m, "unloaded")
  /\ gvar' = [v \in Vars |-> IF v \in Owned(m) THEN NULL ELSE gvar[v]]
  /\ UNCHANGED <<vstatus, frames, erred, unexplained, pc>>

module_unload(m) ==
  /\ InBody /\ status[m] # "unloaded" /\ CanUnload(status[m])
  /\ module_set(m, "unloaded")
  /\ vstatus' = [v \in Vars |-> IF v \in Owned(m) THEN "normal" ELSE vstatus[v]]
  /\ gvar' = [v \in Vars |-> IF v \in Owned(m) THEN NULL ELSE gvar[v]]
  /\ UNCHANGED <<frames, erred, unexplained, pc>>

protect_compiler_libs ==
  /\ InBody /\ \E m \in Modules : status[m] = "loaded"
  /\ status' = [m \in Modules |-> IF status[m] = "loaded" THEN "protected" ELSE status[m]]
  /\ UNCHANGED <<vstatus, gvar, frames, erred, unexplained, pc>>

\* The body returns or throws; interpret() ends.
body_ends(s) ==
  /\ InBody
  /\ module_set(Top.file, s)
  /\ frames' = Popped
  /\ UNCHANGED <<vstatus, gvar, erred, unexplained, pc>>

Load == \E f \in Files : interpret_starts(f) \/ interpret_rejects(f)
Body == \/ \E v \in Vars : define(v) \/ assign(v)
        \/ \E m \in Modules : module_unload(m)
        \/ protect_compiler_libs
        \/ \E s \in {"loaded", "error"} : body_ends(s)
Header == library_missing \/ require_succeeds \/ require_fails

Next == Load \/ Header \/ mstart_fails \/ compile_fails \/ mprerun_aborts \/ run_body \/ Body

Spec == Init /\ [][Next]_vars

(***************************************************************************)
(* Properties.                                                             *)
(***************************************************************************)
Statuses == {"unloaded", "error", "loading", "loaded", "protected"}
Frame == [file : Files, phase : {"requires", "body"}, next : Nat \ {0},
          asked : BOOLEAN, old : Statuses]

\* Every variable has the type the code relies on; a body only runs once all
\* required modules have been looked at.
TypeOK ==
  /\ status \in [Modules -> Statuses]
  /\ vstatus \in [Vars -> Modules \cup {"normal", "write", "system_write"}]
  /\ gvar \in [Vars -> Files \cup {NULL}]
  /\ frames \in Seq(Frame) /\ Depth <= MaxFrames
  /\ \A i \in 1..Depth : LET required == Len(Requires[frames[i].file]) IN
       /\ frames[i].next <= required + 1
       /\ frames[i].phase = "body" => frames[i].next = required + 1
  /\ erred \in BOOLEAN /\ unexplained \in BOOLEAN /\ pc \in {"run", "abort"}

\* A module is marked as loading exactly while a call of interpret() is
\* loading it, however loads, failures and reloads are nested: each call puts
\* back the status it found, which may be out of date by then
\* (mcompile.c:135-171, compile.c:1123-1129).
LoadingOnStack ==
  \A m \in Modules : status[m] = "loading" <=> \E i \in 1..Depth : frames[i].file = m

\* A variable never belongs to a module that is not there, nor to one that does
\* not define it: nobody could write or define it any more (module.c:97-135).
OwnersThere ==
  \A v \in Vars : vstatus[v] \in Modules =>
    status[vstatus[v]] # "unloaded" /\ v \in Defines[vstatus[v]]

\* Modules are marked as what they are, and variables belong to those there.
OwnerActive == LoadingOnStack /\ OwnersThere

\* While the body of a library runs, what its header defines is its own,
\* whatever the body has loaded or unloaded meanwhile: op_define writes these
\* variables without a check (interpret.c:661).
DefineOwned ==
  \A i \in 1..Depth : frames[i].phase = "body" =>
    \A v \in Defines[frames[i].file] : vstatus[v] = frames[i].file

BodyRuns(m) == \E i \in 1..Depth : frames[i].file = m /\ frames[i].phase = "body"
Settled(m) == status[m] # "unloaded" /\ ~BodyRuns(m)
Untouched(m) == \A v \in Owned(m) : vstatus'[v] = m /\ gvar'[v] = gvar[v]

\* The variables of a library keep owner and value from the end of its body
\* until its body runs again or it is unloaded; a reload that fails before
\* that leaves the old library as it was (mcompile.c:135-290).
KeepsSettled == \A m \in Modules : Settled(m) /\ Settled(m)' => Untouched(m)

\* A protected module stays as it is: the compiler puts the values of its
\* variables into the code (mcompile.c:349-360).
KeepsProtected ==
  \A m \in Modules : status[m] = "protected" => status'[m] = "protected" /\ Untouched(m)

\* What a library defines never changes under the code that was compiled with
\* it, be it settled or protected.
ConstantsKept == [][KeepsSettled /\ KeepsProtected]_vars

\* mstart() "Sends error/warning messages" when it returns false
\* (mcompile.c:127-128).  Does not hold: see the README.
RefusalExplained == ~unexplained
=============================================================================
