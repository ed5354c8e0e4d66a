------------------------------ MODULE MCModules ------------------------------
(* Three libraries with an EXPORT, one without, and one that is missing.  The *)
(* ids of location and tracker fall into one bucket of three; any may be      *)
(* imported, twice too, by the module behind or before it, or by itself.      *)
EXTENDS Modules

MCMethods == [m \in Module |-> CASE m = "location" -> <<"get", "calibrate">>
                               [] m = "power" -> <<"reboot">>
                               [] m = "tracker" -> <<"track">>
                               [] OTHER -> <<>>]
MCHash == [m \in Module |-> CASE m = "power" -> 5 [] m = "absent" -> 1 [] OTHER -> 3]
MCConfs == {<<"location", "absent", "tracker">>, <<"power", "location", "tracker">>}
Lists == {<<>>, <<"location">>, <<"absent">>, <<"location", "location">>, <<"location", "demo">>,
          <<"location", "power">>, <<"location", "tracker">>}
MCImports == {[m \in Module |-> CASE m = "tracker" -> a [] m = "location" -> b [] OTHER -> <<>>] :
                a \in Lists, b \in {<<>>, <<"power">>, <<"location">>}}
==============================================================================
