----------------------------- MODULE MCInstaller -----------------------------
(* Instances of Installer: a demo app under two package names, in up to three *)
(* releases whose archives differ, and a system image.                       *)
EXTENDS Installer

CONSTANTS demo_app, demo_new_app, sys_img, demo, v1, v2, v3, i1, so, res

Stems == [p \in Package |-> demo]
Names == [r \in Release |-> CASE r \in {v1, v2} -> demo_app [] r = v3 -> demo_new_app [] OTHER -> sys_img]
Archives == [r \in Release |-> IF r = v1 THEN {so, res} ELSE {so}]
=============================================================================
