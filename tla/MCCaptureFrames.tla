-------------------------- MODULE MCCaptureFrames --------------------------
(***************************************************************************)
(* Blocks of two frames, read two or four at a time (the code speaks of    *)
(* 160 frames read and 80 frames processed per cycle), or of three, which  *)
(* no read of four is a multiple of.                                       *)
(***************************************************************************)
EXTENDS CaptureFrames

Setting(requests, block, fails) ==
    [requests |-> requests, block |-> block, fails |-> fails]
SettingsDef == {Setting({2, 4}, 2, {"read"}), Setting({1, 2}, 3, {"read"}),
                Setting({4}, 2, {"read", "effect"})}
\* The settings of the configurations whose property fails, see the README.
UnevenBlocks == {Setting({4}, 3, {})}
FailingEffect == {Setting({2, 4}, 2, {"effect"})}
NoMemory == {Setting({2, 4}, 2, {"memory"})}
=============================================================================
