----------------------------- MODULE AppProcess -----------------------------
(***************************************************************************)
(* A process whose Java side, once it was told that the library came up    *)
(* without errors, hooks methods that its threads call.  Hooks and the     *)
(* rewriting of resources share nothing, so a behaviour has one or the     *)
(* other.                                                                  *)
(***************************************************************************)
EXTENDS BridgeInit, DalvikHook

\* Only XposedBridge's Java code calls hookMethodNative(); calls are of interest where
\* there may be hooks.
BeginHooking ==
  /\ phase = "java"
  /\ told = "no errors" /\ runtime = "dalvik"
  /\ phase' = "hooking"
  /\ UNCHANGED <<main, startVars, bridgeVars, vars>>

ProcessInit == Init /\ BootInit

ProcessNext ==
  \/ BootNext /\ UNCHANGED vars
  \/ BeginHooking
  \/ phase = "hooking" /\ Next /\ UNCHANGED bootVars

ProcessSpec == ProcessInit /\ [][ProcessNext]_<<vars, bootVars>>
=============================================================================
