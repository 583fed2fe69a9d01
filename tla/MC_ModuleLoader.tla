--------------------------- MODULE MC_ModuleLoader ---------------------------
(* Model-checking instance of ModuleLoader: two modules, one exporting f1, *)
(* the other f1 and f2, so that a symbol is found in more than one object. *)
EXTENDS ModuleLoader, TLC

CONSTANTS c1, c2, t1, t2, m1, m2, f1, f2

OneCaller == {c1}
TwoCallers == {c1, c2}
TwoNames == {t1, t2}
TwoModules == {m1, m2}
TwoSymbols == {f1, f2}
ExportTable == (m1 :> {f1}) @@ (m2 :> {f1, f2})
=============================================================================
