-------------------------- MODULE MC_DeviceManager --------------------------
(* Model-checking instance of DeviceManager: two device types, one base    *)
(* name, and a requested name that looks like a generated one.            *)
EXTENDS DeviceManager, TLC

CONSTANTS a

TwoTypes == {"Camera", "Telescope"}
OneBase == {a}
RequestedNames == {<<a>>, <<a, 1>>}
=============================================================================
