------------------------------ MODULE MCLogcat -----------------------------
(* Short entries, and long ones whose second piece begins with '-'. *)
EXTENDS LogcatProperties

ShortAndLong == {<<FALSE>>, <<FALSE, TRUE>>}
=============================================================================
