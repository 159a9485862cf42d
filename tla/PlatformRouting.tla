-------------------------- MODULE PlatformRouting --------------------------
(***************************************************************************)
(* What the routing pass selects on the platforms of PlatformTables: the   *)
(* framework, the modem and the parameters change the platform state, a    *)
(* pass prepares the routes of the output and then of the input direction. *)
(* The streams are the primary and the deep-buffer output and one input;   *)
(* AudioRouting models how the selection is then carried out, and streams  *)
(* that compete for a route.                                               *)
(***************************************************************************)
EXTENDS PlatformTables, SequencesExt

CONSTANTS
    OutputChoices,   \* the output devices and modes it selects together
    InputChoices,    \* the input devices and sources it selects together
    StreamChoices,   \* the output streams that play together
    Requests,        \* the kinds of request that occur, of RequestKinds
    Toggled,         \* the conditions that are ever away from rest
    MaxOdd,          \* bound on the conditions away from rest
    MaxChanges       \* bound on the changes between two passes

RequestKinds == {"output", "input", "streams", "modem", "parameters"}
Ttys == {"none", "uplink", "downlink"}
\* The conditions of the platform state that are on or off, and those that
\* only tune the routes in use.
Settings == {"hac", "band", "btNrEc", "bypassLinear", "bypassNonLinear"}
Switches == {"modemAlive", "modemAudio", "bt", "sco", "fm", "context",
             "listen", "screen", "micMute", "direct"} \cup Settings
Idle == [devices |-> {}, source |-> "none"]

ASSUME ChoicesAssumption ==
    /\ \A c \in OutputChoices :
         c.devices \subseteq OutMm \cup OutSco /\ c.mode \in AllModes
    /\ Idle \in InputChoices
    /\ \A c \in InputChoices : c.devices \subseteq InAll
    /\ StreamChoices \subseteq SUBSET {"primary", "deep"}
    /\ Requests \subseteq RequestKinds /\ Toggled \subseteq Switches
    /\ MaxOdd \in Nat /\ MaxChanges \in Nat \ {0}

Codecs == {"HwCodec0IA", "HwCodec1IA", "HwCodecMedia", "HwCodecCSV", "BtCSV"}
CallRoutes == {"ModemIA", "HwCodecCSV", "BtCSV"}

\* What the theorems need to know of a table, which TLC evaluates for all of
\* them.  A row has a name of its own, and rivals are rivals of each other.
\* Who shares a port is a rival, or they are never allowed together.
RowsAreGuarded(rows) ==
    /\ \A r, q \in rows : r.name = q.name => r = q
    /\ \A r, q \in rows : q.name \in r.rivals => r.name \in q.rivals
    /\ \A r \in rows :
         /\ r.name \notin r.rivals \cup r.sharing
         /\ r.rivals # {} => r.rule.special \in {"none", "LpeCentric", "compressed"}
    /\ \A r, q \in rows : q.name \in r.sharing =>
         \/ q.name \in r.rivals
         \/ ((r.rule.bars \cap q.rule.needs) \cup (q.rule.bars \cap r.rule.needs)) \ {"bus"} # {}
\* Two stream routes differ in their masks, their modes, or the devices of which
\* one of them wants no others beside its own; each reads its row.
ReadsItsRow == {"none", "LpeCentric", "MediaLpeCentric"}
StreamsAreApart(rows) ==
    \A r, q \in {r \in rows : r.kind = "stream"} :
        /\ r.rule.special \in ReadsItsRow /\ r.rule.input = "own" /\ r.slaves = {}
        /\ r # q => \A d \in Dirs :
             \/ r.masks[d] \cap q.masks[d] = {} \/ r.modes[d] \cap q.modes[d] = {}
             \/ r.devices[d] \cap q.devices[d] = {} /\ (r.rule.alone \/ q.rule.alone)
\* A codec route looks for the events of its devices, and for those of a call
\* unless it is none for calls.
CodecsAreWatched(rows) ==
    \A r \in {r \in rows : r.name \in Codecs} : \A d \in Dirs :
        LET events == r.rule.events[d]
        IN  /\ {"always", IF d = "out" THEN "outDevices" ELSE "inDevices"} \cap events # {}
            /\ IF r.name = "HwCodecMedia"
               THEN /\ r.rule.special = "none" /\ r.rule.input = "own"
                    /\ "incall" \notin r.modes[d]
               ELSE "always" \in events \/ {"hac", "band", "tty"} \subseteq events

\* The back end q of a stream route r: it takes one of the devices of r in one of
\* its modes, in which it has no rivals, and needs no more than r.
BacksUp(rows, q, r, d, device, m) ==
    /\ q.kind = "external" /\ r.name \in q.slaves
    /\ device \in q.devices[d] /\ m \in q.modes[d]
    /\ q.rule.special \in {"none", "HwCodec0IA", "HwCodec1IA"} /\ q.rule.input # "output"
    /\ q.rule.bars = {} /\ ~q.rule.alone
    /\ q.rule.needs # {} =>
         /\ q.rule.needs = {"bt"} /\ device \in OutSco \cup InSco
         /\ r.rule.special \in {"LpeCentric", "MediaLpeCentric"}
    /\ \A p \in rows : p.name \in q.rivals => \A e \in Dirs : m \notin p.modes[e]
\* A stream route that has back ends comes before one of them for each device and
\* mode, except in a call, where it shares those of the modem's route.
StreamsAreBacked(list) ==
    LET rows == Range(list)
    IN  \A i \in DOMAIN list : LET r == list[i] IN
        r.kind = "stream" /\ (\E q \in rows : r.name \in q.slaves) => \A d \in Dirs :
            /\ \A device \in r.devices[d] \ {"voiceCall"}, m \in r.modes[d] \ {"incall"} :
                  \E j \in DOMAIN list : i < j /\ BacksUp(rows, list[j], r, d, device, m)
            /\ "voiceCall" \in r.devices[d] => d = "in" /\ r.rule.special = "MediaLpeCentric"
            /\ "incall" \in r.modes[d] => \A q \in rows :
                  /\ q.name \in CallRoutes => q.name = "ModemIA"
                  /\ "ModemIA" \in q.slaves => r.name \in q.slaves

\* A call on an output device has a route of its own,
CarriesCall(rows, r, device) ==
    /\ r.kind = "external" /\ device \in r.devices["out"] /\ "incall" \in r.modes["out"]
    /\ r.rule.special = "none" /\ r.rule.input = "output" /\ ~r.rule.alone
    /\ r.rule.needs \subseteq {"modemAudio"} \cup (IF device \in OutSco THEN {"bt", "sco"} ELSE {})
    /\ r.rule.bars \subseteq (IF device \in OutSco THEN {} ELSE {"sco"})
    /\ \A p \in rows : p.name \in r.rivals =>
         "incall" \notin p.modes["in"] /\ ("incall" \in p.modes["out"] => device \notin p.devices["out"])
\* or that of the modem, with a codec for the built-in and one for the wired
\* devices, and the Bluetooth link.
BacksCall(q, special) ==
    /\ q.kind = "external" /\ "ModemIA" \in q.slaves /\ q.rule.special = special
    /\ q.rivals = {} /\ q.rule.bars = {} /\ ~q.rule.alone /\ "incall" \in q.modes["out"]
ModemIsBacked(rows) ==
    /\ \E r \in rows : /\ r.name = "ModemIA" /\ r.slaves = {}
                       /\ \A device \in OutMm \cup OutSco : CarriesCall(rows, r, device)
    /\ \E h, w, b \in rows :
         /\ BacksCall(h, "HwCodec0IA") /\ BacksCall(w, "HwCodec1IA") /\ BacksCall(b, "none")
         /\ \A q \in {h, w} : q.rule.needs = {} /\ q.rule.input = "own"
         /\ b.rule.needs \subseteq {"bt"} /\ b.rule.input = "outputInCall"
         /\ OutMm \subseteq h.devices["out"] \cup w.devices["out"] /\ OutSco \subseteq b.devices["out"]
CallsAreRouted(rows) ==
    \A device \in OutMm \cup OutSco :
        \/ \E r \in rows : /\ r.name \in CallRoutes \ {"ModemIA"} /\ r.slaves = {}
                           /\ CarriesCall(rows, r, device)
        \/ ModemIsBacked(rows)

ASSUME TablesAssumption == \A b \in Boards :
    LET rows == Range(AllPlatforms[b])
    IN  /\ AllPlatforms[b] \in Seq(rows)
        /\ Masters[b] = MastersOn(AllPlatforms[b]) /\ Conditions[b] = ReadsOn(AllPlatforms[b])
        /\ RowsAreGuarded(rows) /\ StreamsAreApart(rows) /\ CodecsAreWatched(rows)
        /\ StreamsAreBacked(AllPlatforms[b])
        /\ "modemAudio" \in Conditions[b] => CallsAreRouted(rows)

VARIABLES
    board,      \* the platform of this build
    mode,       \* _iAndroidMode
    output,     \* the selected output devices
    input,      \* the selected input devices, and the source of the input
    playing,    \* the output streams that are started
    on,         \* the conditions that are on
    tty,        \* _iTtyDirection
    changed,    \* _uiPlatformEventChanged
    pending,    \* the changes since the last pass
    used,       \* used[d]: the routes in use in direction d
    carried,    \* carried[d]: the pairs of a stream and its route
    tuned       \* tuned[d]: what each codec route in use was last set up for

requests == <<board, mode, output, input, playing, on, tty>>
routing == <<used, carried, tuned>>
vars == <<requests, changed, pending, routing>>

\* Does the platform have a modem, and which conditions does it read?
ModemEmbedded == "modemAudio" \in Conditions[board]
Relevant == Conditions[board] \cap Toggled
\* The conditions that are on at rest.
Rest == {"bt"} \cup (IF ModemEmbedded THEN {"modemAlive", "modemAudio"} ELSE {})

-----------------------------------------------------------------------------
(* checkHwMode and isSharedI2SBusAvailable, see AudioPlatform.             *)

CallBarred == Cardinality(output) > 1 \/ ~({"modemAlive", "modemAudio"} \subseteq on)
HwMode ==
    IF \/ mode = "incall" /\ CallBarred
       \/ mode = "incomm" /\ Cardinality(output) > 1
    THEN "normal" ELSE mode
BusAvailable ==
    \/ ~ModemEmbedded
    \/ "modemAlive" \in on /\ ~(mode = "incall" /\ CallBarred)

DevicesOf(d) == IF d = "out" THEN output ELSE input.devices

-----------------------------------------------------------------------------
(* Applicability.  will is the selection this far, by direction.           *)

Blocked_OneDirection(will, r) == r.rivals \cap will["in"] # {}
Blocked(will, r) == r.rivals \cap (will["out"] \cup will["in"]) # {}

\* CAudioRoute::isApplicable
BaseApplicable_AnyMode(will, r, d) ==
    ~Blocked(will, r) /\ r.name \notin will[d] /\ DevicesOf(d) \cap r.devices[d] # {}
BaseApplicable(will, r, d) ==
    /\ ~Blocked(will, r) /\ r.name \notin will[d]
    /\ HwMode \in r.modes[d]
    /\ DevicesOf(d) \cap r.devices[d] # {}

\* The conditions the classes share.
Met(need) == CASE need = "bus" -> BusAvailable
               [] OTHER -> need \in on
Allowed(r, d) ==
    /\ \A need \in r.rule.needs : Met(need)
    /\ r.rule.bars \cap on = {}
    /\ r.rule.alone => Cardinality(DevicesOf(d)) <= 1

\* CAudioExternalRouteHwCodec0IA and HwCodec1IA: the routes of the built-in
\* devices and of the wired ones share a call by TTY direction and headphone.
HwCodecApplicable(will, r, d) ==
    LET builtin == r.rule.special = "HwCodec0IA"
        wired == "headset" \in output
    IN  \/ d = "in" /\ builtin /\ "context" \in on
        \/ d = "in" /\ "listen" \in on /\ (wired # builtin)
        \/ IF HwMode # "incall" THEN BaseApplicable(will, r, d)
           ELSE CASE tty = "uplink" -> builtin <=> d = "out"
                  [] tty = "downlink" -> builtin <=> d = "in"
                  [] OTHER -> IF d = "out" THEN BaseApplicable(will, r, d)
                              ELSE IF "headphone" \in output THEN builtin
                              ELSE r.name \in will["out"]

\* CAudioLPECentricStreamRoute and the Media route of this kind.
LpeAllowed_OutputOnly(r, d) == output \cap OutSco # {} => "bt" \in on
LpeAllowed(r, d) ==
    /\ DevicesOf(d) \cap (OutSco \cup InSco) # {} => "bt" \in on
    /\ r.rule.special = "MediaLpeCentric" /\ d = "in" =>
         /\ "voiceCall" \in input.devices => HwMode = "incall"
         /\ ~("micMute" \in on /\ input.source = "uplink")

SpecialApplicable(will, r, d) ==
    LET special == r.rule.special
    IN  CASE special \in {"HwCodec0IA", "HwCodec1IA"} -> HwCodecApplicable(will, r, d)
          [] special = "FMIA" -> "fm" \in on
          [] special = "ContextAwareness" -> d = "in" /\ "context" \in on
          [] special = "AlwaysListening" ->
               /\ d = "in" /\ "listen" \in on /\ input.devices = {}
               /\ HwMode \in Quiet
          [] special = "VirtualASP" -> d = "out" /\ "screen" \in on
          [] special = "compressed" ->
               d = "out" /\ "direct" \in on /\ BaseApplicable(will, r, d)
          [] special \in {"LpeCentric", "MediaLpeCentric"} ->
               LpeAllowed(r, d) /\ BaseApplicable(will, r, d)
          [] OTHER -> BaseApplicable(will, r, d)

\* Does the input direction of r follow its output direction?
FollowsOutput(r, d) ==
    /\ d = "in"
    /\ \/ r.rule.input = "output"
       \/ r.rule.input = "outputInCall" /\ HwMode = "incall"

Applicable(will, r, d) ==
    /\ Allowed(r, d)
    /\ IF FollowsOutput(r, d) THEN r.name \in will["out"]
       ELSE SpecialApplicable(will, r, d)

-----------------------------------------------------------------------------
(* prepareRouting.  A selection holds will and carried.                    *)

\* The masks of the streams.
Streams(d) == IF d = "out" THEN playing ELSE {input.source} \ {"none"}

\* findApplicableStreamForRoute, for one stream
Takes(will, r, d, s) == s \in r.masks[d] /\ Applicable(will, r, d)

Use(sel, r, d) == [sel EXCEPT !.will[d] = @ \cup {r.name}]
Free(sel, d) == {s \in Streams(d) : \A c \in sel.carried[d] : c[1] # s}

Selected(sel, r, d) ==
    IF r.kind = "stream"
    THEN IF \E s \in Free(sel, d) : Takes(sel.will, r, d, s)
         THEN [Use(sel, r, d) EXCEPT !.carried[d] = @ \cup
                  {<<CHOOSE s \in Free(sel, d) : Takes(sel.will, r, d, s), r.name>>}]
         ELSE sel
    ELSE IF Applicable(sel.will, r, d) THEN Use(sel, r, d) ELSE sel

\* prepareRoute: of a row with slaves these come first, in the order of the list,
\* and one of them must be in use.  No slave has slaves of its own.
SlavesPrepared(rows, selection, r, d) ==
    LET sel[n \in 0..Len(rows)] ==
            IF n = 0 THEN selection
            ELSE IF rows[n].name \in r.slaves THEN Selected(sel[n - 1], rows[n], d)
            ELSE sel[n - 1]
    IN  sel[Len(rows)]
Prepared(rows, selection, r, d) ==
    IF r.slaves = {} THEN Selected(selection, r, d)
    ELSE LET sel == SlavesPrepared(rows, selection, r, d)
         IN  IF r.slaves \cap sel.will[d] = {} THEN sel ELSE Selected(sel, r, d)

\* prepareRouting for one direction
PrepareDirection(rows, selection, d) ==
    LET sel[n \in 0..Len(rows)] ==
            IF n = 0 THEN selection ELSE Prepared(rows, sel[n - 1], rows[n], d)
    IN  sel[Len(rows)]

NoSelection == [will |-> Same({}), carried |-> Same({})]

\* prepareRouting: one direction, then the other, to the one selection there is
PrepareBoth(rows, selection, first, second) ==
    {PrepareDirection(rows, sel, second) : sel \in {PrepareDirection(rows, selection, first)}}
\* Were the input direction prepared first, a capture route that follows the
\* output would see none.
PrepareRouting_InputFirst(rows) == PrepareBoth(rows, NoSelection, "in", "out")
PrepareRouting(rows) == PrepareBoth(rows, NoSelection, "out", "in")

-----------------------------------------------------------------------------
(* What is told to the platform state, and the pass.                       *)

Init ==
    /\ board \in Boards
    /\ mode = "normal" /\ output = {"speaker"} /\ input = Idle
    /\ playing = {} /\ on = Rest /\ tty = "none"
    /\ changed = {} /\ pending = 0
    /\ used = Same({}) /\ carried = Same({})
    /\ tuned = Same([r \in {} |-> Idle])

Odd(conditions, direction) ==
    (conditions \ Rest) \cup (Rest \ conditions)
        \cup (IF direction = "none" THEN {} ELSE {"tty"})

\* A request changes what of the state the parameters name, and raises events.
Change_ModeFirst(kind, events) ==
    /\ kind \in Requests
    /\ pending' = pending + 1
    /\ changed' = IF HwMode' # HwMode THEN {"hwMode"} ELSE changed \cup events
    /\ UNCHANGED <<board, routing>>
Change(kind, events) ==
    /\ kind \in Requests
    /\ pending' = pending + 1
    /\ changed' = changed \cup events \cup (IF HwMode' # HwMode THEN {"hwMode"} ELSE {})
    /\ UNCHANGED <<board, routing>>

\* Were the value assigned before it is compared, no event would be raised.
Differs_TooLate(x, y, event) == {}
Differs(x, y, event) == IF x = y THEN {} ELSE {event}

\* setStreamParameters of an output stream
SelectOutput(choice) ==
    /\ pending < MaxChanges /\ choice # [devices |-> output, mode |-> mode]
    /\ output' = choice.devices /\ mode' = choice.mode
    /\ UNCHANGED <<input, playing, on, tty>>
    /\ Change("output", Differs(output, choice.devices, "outDevices")
                            \cup Differs(mode, choice.mode, "androidMode"))

\* setStreamParameters of an input stream, and its start or stop
SelectInput(choice) ==
    /\ pending < MaxChanges /\ choice # input
    /\ input' = choice
    /\ UNCHANGED <<mode, output, playing, on, tty>>
    /\ Change("input", Differs(input.devices, choice.devices, "inDevices")
                           \cup Differs(input.source, choice.source, "inSource"))

StartStop(streams) ==
    /\ pending < MaxChanges /\ streams # playing
    /\ playing' = streams
    /\ UNCHANGED <<mode, output, input, on, tty>>
    /\ Change("streams", {"stream"})

\* The modem comes up with no audio link and takes the link down with it.
Switch(kind, conditions, direction) ==
    /\ pending < MaxChanges /\ conditions \subseteq Relevant \cup {"modemAlive", "modemAudio"}
    /\ <<conditions, direction>> # <<{}, tty>>
    /\ on' = (on \ conditions) \cup (conditions \ on)
    /\ tty' = direction
    /\ "modemAudio" \in on' => "modemAlive" \in on'
    /\ Cardinality(Odd(on', direction)) <= MaxOdd
    /\ UNCHANGED <<mode, output, input, playing>>
    /\ Change(kind, conditions \cup Differs(tty, direction, "tty"))

SwitchModem ==
    /\ ModemEmbedded
    /\ \E conditions \in SUBSET {"modemAlive", "modemAudio"} :
         Switch("modem", conditions, tty)
SetParameter == \E c \in Relevant \ {"modemAlive", "modemAudio"} :
    Switch("parameters", {c}, tty)
SetTtyDirection ==
    /\ "tty" \in Conditions[board]
    /\ \E direction \in Ttys : Switch("parameters", {}, direction)

\* What a codec route is set up for.
SetUp(d) == [devices |-> DevicesOf(d), tty |-> tty,
             settings |-> on \cap Settings]

\* needReconfiguration, which prepareRoute asks of a route that it has just
\* selected: is it in use, and has an event its class looks for occurred?
NeedReconfiguration(r, d) ==
    r.name \in used[d] /\ (changed \cup {"always"}) \cap r.rule.events[d] # {}
\* The codec routes that stay in use as they are.
Kept(rows, d) ==
    {r.name : r \in {r \in Range(rows) : r.name \in used[d] /\ ~NeedReconfiguration(r, d)}}

Pass ==
    /\ pending > 0
    /\ pending' = 0 /\ changed' = {}
    /\ \E rows \in {AllPlatforms[board]} : \E sel \in PrepareRouting(rows) :
           /\ used' = sel.will /\ carried' = sel.carried
           /\ tuned' = [d \in Dirs |-> [name \in Codecs \cap sel.will[d] |->
                            IF name \in Kept(rows, d) THEN tuned[d][name] ELSE SetUp(d)]]
    /\ UNCHANGED <<board, requests>>

Next ==
    \/ \E choice \in OutputChoices : SelectOutput(choice)
    \/ \E choice \in InputChoices : SelectInput(choice)
    \/ \E streams \in StreamChoices : StartStop(streams)
    \/ SwitchModem
    \/ SetParameter
    \/ SetTtyDirection
    \/ Pass
Spec == Init /\ [][Next]_vars

-----------------------------------------------------------------------------
(* Properties.  Most are about the state that a pass leaves.               *)

Settled == pending = 0

\* "It will automatically condemn all mutual exclusive ports used by this
\* route": two routes in use, in whatever directions, have no ports of one
\* exclusion group and share no port.
ExclusivePorts ==
    Settled => LET busy == used["out"] \cup used["in"] IN
        \A r \in Range(AllPlatforms[board]) :
            r.name \in busy => (r.rivals \cup r.sharing) \cap busy = {}

\* The tables leave no choice to the order of their rows: no started stream
\* fits two routes that are not in use.
OneRoutePerStream ==
    Settled => \A d \in Dirs : \A s \in Streams(d) :
        Cardinality({r \in Range(AllPlatforms[board]) : r.kind = "stream" /\ Takes(Same({}), r, d, s)}) <= 1

\* The framework has Bluetooth on as long as a SCO device is selected, and SCO
\* exactly then.
ScoInStep ==
    /\ output \cap OutSco # {} => "bt" \in on
    /\ "sco" \in Conditions[board] => ("sco" \in on <=> output \cap OutSco # {})

\* A stream is never carried to nowhere: when the platform gives the route of
\* a stream a back end, one of its back ends is in use in that direction.
HasBackEnd(name, d) ==
    \E master \in used[d] : <<name, master>> \in Masters[board]
BackEndServes ==
    Settled /\ ScoInStep => \A d \in Dirs : \A c \in carried[d] :
        (\E name \in RouteNames : <<c[2], name>> \in Masters[board]) => HasBackEnd(c[2], d)

\* A call whose audio link is up is routed in both directions, and its route
\* has its back end in both, on whatever devices it starts and moves to.  
CallIsDuplex ==
    Settled /\ HwMode = "incall" /\ ScoInStep =>
        \A d \in Dirs : \E name \in CallRoutes \cap used[d] :
            name = "ModemIA" => HasBackEnd(name, d)

\* The codec of a route in use was set up for the devices that are selected:
\* no sequence of requests between two passes leaves it on the old ones.
Follows(d, field, value) ==
    \A name \in Codecs \cap used[d] : tuned[d][name][field] = value
CodecFollowsDevices ==
    Settled => \A d \in Dirs : Follows(d, "devices", DevicesOf(d))

\* In a call the routes that carry the voice are set up for the TTY direction,
\* the hearing aid and the band in use.
CallSettings == {"hac", "band"}
CallTuned ==
    Settled /\ HwMode = "incall" => \A d \in Dirs :
        /\ Follows(d, "tty", tty)
        /\ \A name \in Codecs \cap used[d] :
             tuned[d][name].settings \cap CallSettings = on \cap CallSettings

\* A pass that follows a change of the hardware mode, the one the routes are
\* selected with, leaves no codec route as it was.
CodecFollowsMode ==
    [][Settled' /\ ~Settled /\ "hwMode" \in changed => \A d \in Dirs :
          Codecs \cap used'[d] \cap Kept(AllPlatforms[board], d) = {}]_vars

\* Every port and route a table names is one the platform has.
NamesResolve == \A r \in Range(AllPlatforms[board]) : r.unknown = {}
=============================================================================
