--------------------------- MODULE MCModuleSystem ---------------------------
(* Library a requires b; library c defines what b defines and requires a;  *)
(* p is a file without a header that assigns variables of both.            *)
EXTENDS ModuleSystem, TLC

CONSTANTS a, b, c, p, x, y, w, system

MCRequires == a :> <<b>> @@ b :> <<>> @@ c :> <<a>> @@ p :> <<>>
MCDefines == a :> {x} @@ b :> {y} @@ c :> {y} @@ p :> {}
MCWrites == a :> {w} @@ b :> {} @@ c :> {x} @@ p :> {x, w, system}
=============================================================================
