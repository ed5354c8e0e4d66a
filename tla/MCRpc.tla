------------------------------- MODULE MCRpc --------------------------------
(* Instances of Rpc.  Services: every process has one module, as the loaders *)
(* of services and apps arrange it, and one service is started twice.        *)
(* Framework: one process has two modules, as the framework loader does.     *)
EXTENDS Rpc, TLC

CONSTANTS app, svc, svc2, fw, demo, location, power, appName, svcName, fwName

SvcProc == {app, svc, svc2}
SvcNameOf == app :> appName @@ svc :> svcName @@ svc2 :> svcName
SvcLoad == app :> <<demo>> @@ svc :> <<location>> @@ svc2 :> <<location>>
SvcProvider == demo :> appName @@ location :> svcName

FwNameOf == app :> appName @@ fw :> fwName
FwLoad == app :> <<demo>> @@ fw :> <<location, power>>
FwProvider == demo :> appName @@ location :> fwName @@ power :> fwName
=============================================================================
