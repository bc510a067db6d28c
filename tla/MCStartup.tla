----------------------------- MODULE MCStartup -----------------------------
(* Instances of XposedStartup: a device has one primary zygote and, with two ABIs, *)
(* one secondary.                                                                 *)
EXTENDS StartupProperties

CONSTANTS Zygote, Zygote32

OneSecondary == {Zygote32}
=============================================================================
