-------------------------------- MODULE MCGps --------------------------------
(* A short recording: an odd number of messages, the first one without a    *)
(* position, as the 57 of the driver (the positions at 3, 9, .., 51); and the *)
(* sentences of MCNmea.  Scanning one reads nothing of the driver and the     *)
(* driver nothing of a scan (to Gps a message is its kind), so their steps    *)
(* need not be interleaved: a behaviour runs the driver, while the sentence   *)
(* waits, or scans, while the driver waits.                                   *)
EXTENDS Gps, MCNmea

ShortReplay == <<"other", "RMC", "RMC">>

Waiting == Of("GLL", <<None>>, <<>>)
GpsCalls == MCCalls \cup {Waiting}

DriverInit == Init /\ ScanInit
DriverNext ==
    \/ call = Waiting /\ Next /\ UNCHANGED scanning
    \/ call # Waiting /\ ScanNext /\ UNCHANGED vars
DriverSpec == DriverInit /\ [][DriverNext]_<<vars, scanning>> /\ Fairness
==============================================================================
