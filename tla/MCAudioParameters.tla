------------------------- MODULE MCAudioParameters -------------------------
(***************************************************************************)
(* Three keys that are restored, of the three kinds of decoding, a key     *)
(* that is only stored, and the stream flags, which are not saved.         *)
(***************************************************************************)
EXTENDS AudioParameters

KeyOrderDef == <<"HACSetting", "bt_headset_nrec", "flags", "name", "tty_mode">>
SizeDef == [k \in {"HACSetting", "bt_headset_nrec", "flags", "name", "tty_mode"} |->
              IF k = "name" THEN 480 ELSE 22]
Pair(k, v) == [x \in {k} |-> v]
\* Two clients with parameters of their own; one sends two at once.
OwnCalls(c) ==
    IF c = "phone"
    THEN {Pair("HACSetting", "on"),
          [k \in {"tty_mode", "HACSetting"} |->
             IF k = "tty_mode" THEN "tty_full" ELSE "off"]}
    ELSE {Pair("bt_headset_nrec", "off"), Pair("flags", "direct")}
CallersDef == {"phone", "headset"}
CallsDef == [c \in CallersDef |-> OwnCalls(c)]
\* Two clients that set the same parameter.
SharedCalls == [c \in CallersDef |-> {Pair("HACSetting", "on"), Pair("HACSetting", "off")}]
\* A headset name that fills the buffer the file is read into.
LongCalls == [c \in CallersDef |-> {Pair("name", "headset"), Pair("tty_mode", "tty_vco"),
                                    Pair("HACSetting", "on")}]
=============================================================================
