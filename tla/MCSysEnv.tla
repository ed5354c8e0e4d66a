------------------------------ MODULE MCSysEnv ------------------------------
(* Instances of SysEnv: two loaders, each with a missing library, that may     *)
(* come first, while initd is started twice; and a boot of a service loader  *)
(* whose modules' start() return.                                            *)
EXTENDS SysEnv, TLC

CONSTANTS service, framework, installer, location, tracker

BothConf == service :> <<installer, tracker>> @@ framework :> <<location, tracker>>
BootConf == service :> <<installer, location>>
=============================================================================
