----------------------------- MODULE MC_Compiler -----------------------------
(* Model-checking instance of Compiler: small sets of model values for the *)
(* callers, name tokens and source codes; a name is a sequence of tokens. *)
EXTENDS Compiler, TLC

CONSTANTS c1, c2, m1, m2, f1, f2, good, bad

OneCaller == {c1}
TwoCallers == {c1, c2}
OneModule == {<<m1>>}
TwoFunctions == {<<f1>>, <<f2>>}
OneFunction == {<<f1>>}
\* "m1" and "m1::f1" as module names, "f2" and "f1::f2" as function names:
\* both ("m1::f1", "f2") and ("m1", "f1::f2") are keyed "m1::f1::f2".
ScopedModules == {<<m1>>, <<m1, Sep, f1>>}
ScopedFunctions == {<<f2>>, <<f1, Sep, f2>>}
SourceCodes == {good, bad}
Accepted == {good}
AnyConfig == {"absent", "complete", "partial", "malformed"}
NoConfig == {"absent"}
=============================================================================
