--------------------------- MODULE PlatformTables ---------------------------
(***************************************************************************)
(* The route tables of the seven platforms, one per                        *)
(* AudioPlatformHardware_*.cpp, of which a build holds one.  A row keeps    *)
(* what the selection of routes reads: the ports, the devices, masks and   *)
(* modes per direction, and the slave routes.  A rule is the class that    *)
(* createAudioRoute gives to a route: what its isApplicable adds to the    *)
(* row and the events its needReconfiguration looks for.  The ALSA card,   *)
(* the PCM configuration and the channel policy of a row are not kept.     *)
(***************************************************************************)
EXTENDS Naturals, FiniteSets, SequencesExt

Dirs == {"in", "out"}
Both(input, output) == [in |-> input, out |-> output]
Same(x) == Both(x, x)

\* The device masks of AudioPlatformHardware.h; the three SCO outputs are one.
OutMm == {"earpiece", "speaker", "headset", "headphone"}
OutSco == {"sco"}
InBuiltin == {"headsetMic", "backMic", "auxDigital", "builtinMic"}
InSco == {"scoMic"}
InAll == InBuiltin \cup InSco \cup {"voiceCall"}

Quiet == {"normal", "ringtone"}
Talk == Quiet \cup {"incomm"}
AllModes == Talk \cup {"incall"}

-----------------------------------------------------------------------------
(* Rows.  A compressed route takes no stream of the route manager.         *)

Stream(name, ports, devices, masks, modes) ==
    [name |-> name, kind |-> "stream", ports |-> ports, devices |-> devices,
     masks |-> masks, modes |-> modes, slaves |-> {}]
External(name, ports, devices, modes, slaves) ==
    [name |-> name, kind |-> "external", ports |-> ports, devices |-> devices,
     masks |-> Same({}), modes |-> modes, slaves |-> slaves]
Compressed(modes) ==
    [name |-> "CompressedMedia", kind |-> "compressed", ports |-> {},
     devices |-> Both({}, OutMm), masks |-> Both({}, {"offload"}),
     modes |-> Both({}, modes), slaves |-> {}]

\* A media route on the sources and devices most platforms have.
MediaSources == {"default", "mic", "camcorder", "recognition", "voip"}
Media(devices, modes) ==
    Stream("Media", {}, devices, Both(MediaSources, {"primary"}), Same(modes))
Deep(devices, modes) ==
    Stream("DeepMedia", {}, Both({}, devices), Both({}, {"deep"}), Both({}, modes))
ModemMix(ports) ==
    Stream("ModemMix", ports, Both(InAll, OutMm \cup OutSco),
           Both({"uplink", "downlink", "call", "mic", "camcorder", "recognition"},
                {"primary"}),
           Same({"incall"}))
BtComm(ports) ==
    Stream("BtComm", ports, Both(InSco, OutSco),
           Both({"default", "mic", "voip", "recognition"}, {"primary"}),
           Same({"normal", "incomm"}))
MediaSlaves == {"CompressedMedia", "Media", "DeepMedia"}
HwCodecMedia(ports, modes, slaves) ==
    External("HwCodecMedia", ports, Both(InBuiltin, OutMm), Same(modes), slaves)
Csv(name, ports, devices) ==
    External(name, ports, Both({}, devices), Both({}, {"incall"}), {})
Virtual(name) == External(name, {}, Same({}), Same({}), {})

-----------------------------------------------------------------------------
(* Rules.  needs and bars are conditions of the platform state, alone asks *)
(* for at most one selected device, input says whether the input direction *)
(* follows the output one ("output", or "outputInCall"), special names an  *)
(* isApplicable of its own, events are those of needReconfiguration.       *)

Plain == [needs |-> {}, bars |-> {}, alone |-> FALSE, input |-> "own",
          special |-> "none", events |-> Same({})]
ExternalEvents == Both({"inDevices", "inSource"}, {"outDevices"})
PlainExternal == [Plain EXCEPT !.events = ExternalEvents]
DirectRoute == [Plain EXCEPT !.special = "compressed"]

\* Events added to those of the base class.
Adding(base, extra) ==
    [base EXCEPT !.events = Both(@["in"] \cup extra, @["out"] \cup extra)]

\* Saltbay.  HwModeChange is the position of the event in EventName_t, that
\* is 1, and as a mask this is the event AndroidModeChange.
SaltbayCodec == {"hac", "tty", "band", "androidMode"}
HwCodec0IA ==
    [Adding(PlainExternal, SaltbayCodec \cup {"bypassNonLinear"})
        EXCEPT !.special = "HwCodec0IA"]
HwCodec1IA ==
    [Adding(PlainExternal, SaltbayCodec) EXCEPT !.special = "HwCodec1IA"]
ModemIA ==
    [Adding(PlainExternal, {"micMute"}) EXCEPT !.needs = {"modemAudio"},
                                               !.input = "output"]
BtIA == [Plain EXCEPT !.needs = {"bt"}, !.input = "outputInCall"]
FMIA == [PlainExternal EXCEPT !.special = "FMIA"]
ContextAwareness == [PlainExternal EXCEPT !.special = "ContextAwareness"]
AlwaysListening == [PlainExternal EXCEPT !.special = "AlwaysListening"]
LpeCentric == [Plain EXCEPT !.special = "LpeCentric"]
MediaLpeCentric == [Plain EXCEPT !.special = "MediaLpeCentric"]
VoiceLpeCentric == Adding(LpeCentric, {"micMute"})

\* Redhookbay, byt_t_ffrd8, byt_t_crv2, ctp7160, baylake and byt_m_crb.
CodecEvents == Both({"inDevices", "inSource", "hwMode"}, {"outDevices", "hwMode"})
CallEvents == {"outDevices", "inDevices", "hac", "tty", "band"}
HwCodecComm == [Plain EXCEPT !.needs = {"bus"}, !.events = Same({"hac", "tty"})]
BtCommOnBus ==
    [Plain EXCEPT !.needs = {"bus"}, !.alone = TRUE, !.events = Same({"btNrEc"})]
ModemMixRule == [Plain EXCEPT !.needs = {"modemAudio"}]
HwCodecCsv ==
    [Plain EXCEPT !.needs = {"modemAudio"}, !.input = "output",
                  !.events = Same(CallEvents)]
BtCsv == [HwCodecCsv EXCEPT !.events = Same(CallEvents \cup {"btNrEc"})]
MediaCodec == [Plain EXCEPT !.events = CodecEvents]
VirtualAsp == [Plain EXCEPT !.special = "VirtualASP", !.events = Same({"outDevices"})]

Ffrd8BtComm == [BtCommOnBus EXCEPT !.needs = {"bus", "bt", "sco"}]
Ffrd8HwCodecCsv == [HwCodecCsv EXCEPT !.bars = {"sco"}]
Ffrd8BtCsv == [BtCsv EXCEPT !.needs = {"modemAudio", "bt", "sco"}]
BytMediaCodec ==
    [MediaCodec EXCEPT !.events["out"] = @ \cup {"bypassNonLinear", "bypassLinear"}]
Crv2BtComm == [BtCommOnBus EXCEPT !.needs = {"bus", "bt"}]
\* Needed whenever the route stays in use.
CtpHwCodecCsv == [HwCodecCsv EXCEPT !.events = Same({"always"})]
CtpHwCodecBt == [PlainExternal EXCEPT !.input = "outputInCall"]
CtpMediaCodec == Adding(MediaCodec, {"tty"})

-----------------------------------------------------------------------------
(* A platform, with what its tables stand for.                             *)

\* condemnMutualExclusivePort: a route in use blocks its rivals, those that
\* have a port in a group with one of its own.
Excludes(groups, q, r) ==
    \E g \in groups, p \in q.ports, o \in r.ports : p # o /\ {p, o} \subseteq g

\* getPortsUsedByRoute, getPortsUsedByPortGroup, getSlaveRoutes: a name that
\* is not found stands for nothing.
Route(ports, groups, rows, rule, r) ==
    [name |-> r.name, kind |-> r.kind, ports |-> r.ports \cap ports,
     devices |-> r.devices, masks |-> r.masks, modes |-> r.modes,
     slaves |-> {rows[i].name : i \in DOMAIN rows} \cap r.slaves,
     unknown |-> r.ports \ ports, rule |-> rule[r.name],
     rivals |-> {rows[i].name : i \in {i \in DOMAIN rows :
                    Excludes({g \cap ports : g \in groups}, r, rows[i])}},
     sharing |-> {rows[i].name : i \in {i \in DOMAIN rows :
                     rows[i].name # r.name /\ rows[i].ports \cap r.ports # {}}}]

RouteNames == {"Media", "DeepMedia", "CompressedMedia", "Voice", "ModemMix",
    "HwCodecComm", "BtComm", "HwCodec0IA", "HwCodec1IA", "CmeVoice", "ModemIA",
    "BtIA", "FMIA", "ContextAwareness", "AlwaysListening", "HwCodecMedia",
    "HwCodecCSV", "BtCSV", "HwCodecBt", "HwCodecFm", "VirtualASP"}
Platform(ports, groups, rows, rule) ==
    [i \in DOMAIN rows |-> Route(ports, groups, rows, rule, rows[i])]

-----------------------------------------------------------------------------
(* Saltbay.  CmeVoice asks for a mode that is none of AudioSystem's.       *)

SaltbayStreams == <<
    Stream("Media", {},
           Both(InBuiltin \cup InSco \cup {"voiceCall"}, OutMm \cup OutSco),
           Both({"uplink", "downlink", "call", "default", "mic", "camcorder",
                 "recognition"}, {"primary"}),
           Same(Quiet \cup {"incall"})),
    Deep(OutMm \cup OutSco, {"normal"}),
    Stream("Voice", {}, Both(InBuiltin \cup InSco, OutMm \cup OutSco),
           Both({"mic", "voip"}, {"primary"}), Same({"incomm"})),
    Compressed(Quiet)>>
SaltbayCodecs == <<
    External("HwCodec0IA", {},
             Both({"backMic", "auxDigital", "builtinMic"}, {"earpiece", "speaker"}),
             Same(AllModes),
             {"ModemIA", "Voice", "Media", "ContextAwareness", "CompressedMedia",
              "AlwaysListening", "DeepMedia", "FMIA"}),
    External("HwCodec1IA", {}, Both({"headsetMic"}, {"headphone", "headset"}),
             Same(AllModes),
             {"ModemIA", "Voice", "Media", "CompressedMedia", "AlwaysListening",
              "DeepMedia", "FMIA"}),
    External("CmeVoice", {}, Same({}), Same({"cme"}), {})>>
SaltbayLinks == <<
    External("ModemIA", {}, Both({}, OutMm \cup OutSco), Same({"incall"}), {}),
    External("BtIA", {}, Both(InSco, OutSco), Same(AllModes),
             {"ModemIA", "Voice", "Media", "DeepMedia"}),
    External("FMIA", {}, Both({}, OutMm), Same({"normal"}), {})>>
SaltbayVirtual == <<Virtual("ContextAwareness"), Virtual("AlwaysListening")>>
Saltbay ==
    Platform({}, {},
     SaltbayStreams \o SaltbayCodecs \o SaltbayLinks \o SaltbayVirtual,
     [HwCodec0IA |-> HwCodec0IA, HwCodec1IA |-> HwCodec1IA,
               ModemIA |-> ModemIA, BtIA |-> BtIA, FMIA |-> FMIA,
               Media |-> MediaLpeCentric, DeepMedia |-> LpeCentric,
               Voice |-> VoiceLpeCentric, CmeVoice |-> PlainExternal,
               CompressedMedia |-> DirectRoute,
               ContextAwareness |-> ContextAwareness,
               AlwaysListening |-> AlwaysListening])

-----------------------------------------------------------------------------
RedhookbayStreams == <<
    Media(Both(InBuiltin, OutMm), Quiet),
    Deep(OutMm, {"normal"}),
    Compressed(Quiet),
    ModemMix({"IA_I2S0_PORT", "MODEM_I2S2_PORT"})>>
RedhookbayVoice == <<
    Stream("HwCodecComm", {"IA_I2S1_PORT", "HWCODEC_VSP_PORT"},
           Both(InBuiltin, OutMm), Both({"default", "mic", "voip"}, {"primary"}),
           Same({"incomm"})),
    BtComm({"IA_I2S1_PORT", "BT_I2S_PORT"})>>
RedhookbayExternals == <<
    HwCodecMedia({"LPE_I2S3_PORT", "HWCODEC_ASP_PORT"}, Quiet, MediaSlaves),
    Csv("HwCodecCSV", {"MODEM_I2S1_PORT", "HWCODEC_VSP_PORT"}, OutMm),
    Csv("BtCSV", {"MODEM_I2S1_PORT", "BT_I2S_PORT"}, OutSco)>>
RedhookbayVirtual == <<
    External("HwCodecFm", {"FM_I2S_PORT", "LPE_I2S2_PORT"}, Same({}),
             Same({"normal"}), {}),
    Virtual("VirtualASP")>>
RedhookbayPorts ==
    {"LPE_I2S2_PORT", "LPE_I2S3_PORT", "IA_I2S0_PORT", "IA_I2S1_PORT",
     "MODEM_I2S1_PORT", "MODEM_I2S2_PORT", "BT_I2S_PORT", "FM_I2S_PORT",
     "HWCODEC_ASP_PORT", "HWCODEC_VSP_PORT", "HWCODEC_AUX_PORT"}
Redhookbay ==
    Platform(RedhookbayPorts,
     {{"HWCODEC_ASP_PORT", "HWCODEC_VSP_PORT"},
                 {"HWCODEC_VSP_PORT", "BT_I2S_PORT"},
                 {"IA_I2S1_PORT", "MODEM_I2S1_PORT"}},
     RedhookbayStreams \o RedhookbayVoice \o RedhookbayExternals
                  \o RedhookbayVirtual,
     [Media |-> Plain, DeepMedia |-> Plain, CompressedMedia |-> DirectRoute,
               HwCodecFm |-> PlainExternal, ModemMix |-> ModemMixRule,
               HwCodecComm |-> HwCodecComm, BtComm |-> BtCommOnBus,
               HwCodecMedia |-> MediaCodec, HwCodecCSV |-> HwCodecCsv,
               BtCSV |-> BtCsv, VirtualASP |-> VirtualAsp])

-----------------------------------------------------------------------------
(* byt_t_ffrd8.  HwCodecCSV names a port the platform does not have.       *)

Ffrd8Streams == <<
    Media(Both(InBuiltin, OutMm), Talk),
    Deep(OutMm, {"normal", "incomm"}),
    Compressed(Quiet),
    ModemMix({"IA_SSP2_PORT", "MODEM_I2S1_PORT"})>>
Ffrd8BtRow == <<BtComm({"IA_SSP1_PORT", "BT_PCM_PORT"})>>
Ffrd8Externals == <<
    HwCodecMedia({}, Talk, MediaSlaves),
    Csv("HwCodecCSV", {"MODEM_I2S2_PORT", "HWCODEC_PORT_2"}, OutMm),
    Csv("BtCSV", {"MODEM_I2S2_PORT", "BT_PCM_PORT"}, OutSco)>>
Ffrd8 ==
    Platform({"IA_SSP1_PORT", "IA_SSP2_PORT", "MODEM_I2S1_PORT",
                "MODEM_I2S2_PORT", "BT_PCM_PORT", "HWCODEC_PORT2"},
     {{"IA_SSP1_PORT", "MODEM_I2S2_PORT"},
                 {"BT_PCM_PORT", "HWCODEC_PORT2"}},
     Ffrd8Streams \o Ffrd8BtRow \o Ffrd8Externals,
     [Media |-> Plain, DeepMedia |-> Plain, CompressedMedia |-> DirectRoute,
               ModemMix |-> ModemMixRule, BtComm |-> Ffrd8BtComm,
               HwCodecMedia |-> BytMediaCodec, HwCodecCSV |-> Ffrd8HwCodecCsv,
               BtCSV |-> Ffrd8BtCsv])

-----------------------------------------------------------------------------
(* ctp7160 has port groups in its table and their number set to 0.         *)

CtpStreams == <<
    Media(Both(InBuiltin \cup InSco, OutMm \cup OutSco), Talk),
    Deep(OutMm, Talk),
    Compressed(Talk),
    ModemMix({})>>
CtpExternals == <<
    External("HwCodecMedia", {}, Both(InBuiltin \cup InSco, OutMm \cup OutSco),
             Same(Talk), MediaSlaves),
    External("HwCodecBt", {}, Both(InSco, OutSco), Same(AllModes),
             {"HwCodecCSV"} \cup MediaSlaves),
    Csv("HwCodecCSV", {}, OutMm \cup OutSco),
    Virtual("VirtualASP")>>
Ctp7160 ==
    Platform({"IA_SSP0_PORT", "IA_SSP3_PORT", "MODEM_I2S1_PORT",
                "MODEM_I2S2_PORT", "BT_PCM_PORT", "HWCODEC_ASP_PORT",
                "HWCODEC_VSP_PORT", "HWCODEC_XSP_PORT"},
     {},
     CtpStreams \o CtpExternals,
     [Media |-> Plain, DeepMedia |-> Plain, CompressedMedia |-> DirectRoute,
               ModemMix |-> ModemMixRule, HwCodecMedia |-> CtpMediaCodec,
               HwCodecCSV |-> CtpHwCodecCsv, HwCodecBt |-> CtpHwCodecBt,
               VirtualASP |-> VirtualAsp])

-----------------------------------------------------------------------------
(* The platforms without a modem.                                          *)

Crv2Streams == <<
    Media(Both(InBuiltin, OutMm), Talk),
    Deep(OutMm, Talk),
    Compressed(Quiet),
    BtComm({"IA_SSP1_PORT", "BT_PCM_PORT"})>>
Crv2Externals == <<HwCodecMedia({}, Talk, MediaSlaves)>>
Crv2 ==
    Platform({"IA_SSP1_PORT", "IA_SSP2_PORT", "BT_PCM_PORT"}, {},
     Crv2Streams \o Crv2Externals,
     [Media |-> Plain, DeepMedia |-> Plain, CompressedMedia |-> DirectRoute,
               BtComm |-> Crv2BtComm, HwCodecMedia |-> BytMediaCodec])

BaylakeRows == <<
    Media(Both(InBuiltin, OutMm), Talk),
    Deep(OutMm, Talk),
    Compressed(Talk),
    HwCodecMedia({"LPE_I2S3_PORT", "HWCODEC_ASP_PORT"}, Talk, MediaSlaves)>>
BaylakePorts ==
    {"LPE_I2S2_PORT", "LPE_I2S3_PORT", "IA_I2S0_PORT", "IA_I2S1_PORT",
     "HWCODEC_ASP_PORT", "HWCODEC_VSP_PORT", "HWCODEC_AUX_PORT"}
Baylake ==
    Platform(BaylakePorts, {{"HWCODEC_ASP_PORT", "HWCODEC_VSP_PORT"}},
     BaylakeRows,
     [Media |-> Plain, DeepMedia |-> Plain, CompressedMedia |-> DirectRoute,
               HwCodecMedia |-> MediaCodec])

CrbRows == <<
    Media(Both(InBuiltin, OutMm), Talk),
    HwCodecMedia({"LPE_I2S3_PORT", "HWCODEC_ASP_PORT"}, Talk, {"Media"})>>
Crb ==
    Platform(BaylakePorts, {}, CrbRows,
     [Media |-> Plain, HwCodecMedia |-> MediaCodec])

AllPlatforms ==
    [saltbay |-> Saltbay, redhookbay |-> Redhookbay, byt_t_ffrd8 |-> Ffrd8,
     ctp7160 |-> Ctp7160, byt_t_crv2 |-> Crv2, baylake |-> Baylake,
     byt_m_crb |-> Crb]
Boards == DOMAIN AllPlatforms

\* The conditions that a rule reads or watches, and those of a platform.
Reads(rule) ==
    rule.needs \cup rule.bars \cup rule.events["in"] \cup rule.events["out"] \cup
        CASE rule.special \in {"HwCodec0IA", "HwCodec1IA"} -> {"context", "listen"}
          [] rule.special = "FMIA" -> {"fm"}
          [] rule.special = "ContextAwareness" -> {"context"}
          [] rule.special = "AlwaysListening" -> {"listen"}
          [] rule.special = "VirtualASP" -> {"screen"}
          [] rule.special = "compressed" -> {"direct"}
          [] rule.special = "LpeCentric" -> {"bt"}
          [] rule.special = "MediaLpeCentric" -> {"bt", "micMute"}
          [] OTHER -> {}
ReadsOn(routes) == UNION {Reads(r.rule) : r \in Range(routes)}
Conditions ==
    [saltbay |-> ReadsOn(Saltbay), redhookbay |-> ReadsOn(Redhookbay),
     byt_t_ffrd8 |-> ReadsOn(Ffrd8), ctp7160 |-> ReadsOn(Ctp7160),
     byt_t_crv2 |-> ReadsOn(Crv2), baylake |-> ReadsOn(Baylake),
     byt_m_crb |-> ReadsOn(Crb)]

\* The pairs of a slave and its master.
MastersOn(routes) ==
    UNION {{<<name, r.name>> : name \in r.slaves} : r \in Range(routes)}
Masters ==
    [saltbay |-> MastersOn(Saltbay), redhookbay |-> MastersOn(Redhookbay),
     byt_t_ffrd8 |-> MastersOn(Ffrd8), ctp7160 |-> MastersOn(Ctp7160),
     byt_t_crv2 |-> MastersOn(Crv2), baylake |-> MastersOn(Baylake),
     byt_m_crb |-> MastersOn(Crb)]
=============================================================================
