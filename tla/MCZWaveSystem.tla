--------------------------- MODULE MCZWaveSystem ----------------------------
(* Instances of ZWaveSystem for TLC: requests without funcId ask for node    *)
(* infos, the others send data into the network.                             *)
EXTENDS ZWaveSystem

CONSTANTS info1, info2, send1, send2, report, report2, infoFunction, sendFunction, reportFunction

MCSendRequests == Requests \cap {send1, send2}
MCFunctions    == {infoFunction, sendFunction, reportFunction}
MCFunction     == [r \in Requests |->
                     IF r \in {send1, send2} THEN sendFunction ELSE infoFunction]
MCPayloads     == Requests \cup Reports
=============================================================================
