--------------------------- MODULE MCAudioRouting ---------------------------
(***************************************************************************)
(* Two small platforms for TLC.  Both have a media route with SSP FIFO     *)
(* flushing and the external codec route that is enabled when one of its   *)
(* slaves is.  Duplex adds a Bluetooth route that opens its device early   *)
(* and closes it late (LPE platforms), on a port that excludes the codec   *)
(* port, and has an output and an input stream.  Outputs adds the          *)
(* deep-buffer route and has two output streams.                           *)
(***************************************************************************)
EXTENDS AudioRouting

RankIn(R) == [r \in R |-> CASE r = "Media" -> 1 [] r = "Deep" -> 2
                            [] r = "Bt" -> 3 [] r = "Codec" -> 4]
SlavesIn(R) == [r \in R |->
    IF r = "Codec" THEN R \cap {"Media", "Deep"} ELSE {}]
PortsIn(R) == [r \in R |-> CASE r = "Media" -> {"asp"}
                             [] r = "Bt" -> {"btp"}
                             [] OTHER -> {}]
UsesIn(R) == {"out", "in"} \X R
DevicesIn(R) == [u \in UsesIn(R) |->
    IF u = <<"in", "Deep">> THEN {}
    ELSE IF u[2] = "Bt" THEN {"sco"} ELSE {"spk"}]
ModesIn(R) == [u \in UsesIn(R) |->
    IF u[2] = "Bt" THEN {"normal", "incomm"} ELSE {"normal"}]
MasksIn(R) == [u \in UsesIn(R) |->
    CASE u[2] = "Codec" -> {}
      [] u = <<"in", "Deep">> -> {}
      [] u = <<"out", "Deep">> -> {"deep"}
      [] u[1] = "out" -> {"primary"}
      [] OTHER -> {"mic"}]

PortsDef == {"asp", "btp"}
PortGroupsDef == {{"asp", "btp"}}
DevicesDef == {"spk", "sco"}
FlushDef == [d \in {"out", "in"} |-> IF d = "out" THEN {"spk"} ELSE {}]
MasksDef == {"primary", "deep", "mic"}

DuplexRoutes == {"Media", "Bt", "Codec"}
DuplexRank == RankIn(DuplexRoutes)
DuplexSlaves == SlavesIn(DuplexRoutes)
DuplexPorts == PortsIn(DuplexRoutes)
DuplexDevices == DevicesIn(DuplexRoutes)
DuplexModes == ModesIn(DuplexRoutes)
DuplexMasks == MasksIn(DuplexRoutes)
Duplex == {"o1", "i1"}
DuplexDir == [s \in Duplex |-> IF s = "o1" THEN "out" ELSE "in"]
DuplexMask == [s \in Duplex |-> IF s = "o1" THEN "primary" ELSE "none"]

OutputsRoutes == {"Media", "Deep", "Codec"}
OutputsRank == RankIn(OutputsRoutes)
OutputsSlaves == SlavesIn(OutputsRoutes)
OutputsPorts == PortsIn(OutputsRoutes)
OutputsDevices == DevicesIn(OutputsRoutes)
OutputsModes == ModesIn(OutputsRoutes)
OutputsMasks == MasksIn(OutputsRoutes)
Outputs == {"o1", "o2"}
OutputsDir == [s \in Outputs |-> "out"]
\* A primary and a deep-buffer output, or two primary outputs, of which one
\* waits while the other plays.
OutputsMask == [s \in Outputs |-> IF s = "o1" THEN "primary" ELSE "deep"]
RivalsMask == [s \in Outputs |-> "primary"]
=============================================================================
