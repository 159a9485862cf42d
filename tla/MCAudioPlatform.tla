--------------------------- MODULE MCAudioPlatform ---------------------------
(***************************************************************************)
(* Two output devices, so that a second one bars a call; one input device, *)
(* with the VoIP source and no source; one two-valued parameter; at most   *)
(* two direct streams, the second of which raises no event.                *)
(***************************************************************************)
EXTENDS AudioPlatform

DevicesDef == {"earpiece", "speaker"}
InputDevicesDef == {{}, {"mic"}}
SourcesDef == {"none", "voip"}

\* What is not as it was at the start, of what calls, devices and modem do not
\* touch
Away == {x \in {"input", "mute", "direct"} \cup Params :
            CASE x = "input" -> inDevices # {} \/ voipBand # "narrow"
              [] x = "mute" -> micMute
              [] x = "direct" -> directs # 0
              [] OTHER -> params[x]}
\* Bounds: one of it at a time, and none after a refused write
OneAway == Cardinality(Away) <= 1
RefusedAlone == refused => Away = {}
=============================================================================
