-------------------------- MODULE MCZWaveProtocol ---------------------------
(* Instances of ZWaveProtocol for TLC: one request without funcId and two    *)
(* that share a FUNCTION and have a funcId.                                  *)
EXTENDS ZWaveProtocol

CONSTANTS plain, send1, send2, info, sendData

MCSendRequests == Requests \cap {send1, send2}
MCFunctions    == {info, sendData}
MCFunction     == [r \in Requests |-> IF r = plain THEN info ELSE sendData]
=============================================================================
