---------------------------- MODULE CaptureFrames ----------------------------
(***************************************************************************)
(* The frames of an input stream: AudioStreamInALSA::read with software    *)
(* effects.  Frames captured by the hardware go through mProcessingBuffer  *)
(* to the effect library, which works on blocks of its own size and keeps  *)
(* what does not fill a block; a loop calls it until the client's buffer   *)
(* is full or no input is left.  An echo canceller is fed with the frames  *)
(* an output stream has played.  All of it runs in the capture thread,     *)
(* with the stream lock held for reading; effects and routes change        *)
(* between two reads.  A captured frame is its number.                     *)
(***************************************************************************)
EXTENDS Integers, FiniteSets, Sequences, SequencesExt

CONSTANTS
    Settings,   \* the circumstances a stream may meet: records of
                \*   requests: the numbers of frames its client reads
                \*   block: the frames the effect library processes at a time
                \*   fails: what may fail, a subset of {"read", "effect", "memory"}
    MaxFrames   \* bound on the captured frames and on the frames returned

ASSUME CaptureAssumption ==
    /\ \A s \in Settings :
         /\ s.requests \subseteq Nat \ {0} /\ s.requests # {}
         /\ s.block \in Nat \ {0}
         /\ s.fails \subseteq {"read", "effect", "memory"}
    /\ MaxFrames \in Nat

VARIABLES
    setting,   \* the member of Settings this stream meets, which never changes
    routed,    \* isRouteAvailableL()
    wanted,    \* an effect has been asked for: mRequestedEffects is not empty
    effects,   \* mPreprocessorsHandlerList is not empty
    captured,  \* the frames the hardware has delivered
    pc,        \* "idle", or "process" in doProcessFrames
    frames,    \* what the client has asked for
    buffer, framesIn,     \* mProcessingBuffer, mProcessingFramesIn
    size, allocated,      \* mProcessingBufferSizeInFrames, and what realloc gave
    processed, left,      \* processed_frames, processing_frames_in
    out,       \* what the effects have put into the client's buffer
    cache, ready,         \* the effect library: a block being filled, frames done
    refIn, refSize, refAllocated,  \* the same for mReferenceBuffer
    heard,     \* history: the frames all reads have returned
    since,     \* history: how many of them before the chain last changed
    got        \* history: the frames the last read has returned

procVars == <<buffer, framesIn, size, allocated>>
loopVars == <<processed, left, out>>
libVars == <<cache, ready>>
refVars == <<refIn, refSize, refAllocated>>
vars == <<setting, routed, wanted, effects, captured, pc, frames, procVars, loopVars, libVars,
          refVars, heard, since, got>>

Requests == setting.requests
Block == setting.block
MayFail == setting.fails

Fails(what) == IF what \in MayFail THEN BOOLEAN ELSE {FALSE}
Least(a, b) == IF a < b THEN a ELSE b
NewFrames(n) == [i \in 1..n |-> captured + i]

\* buf with the frames s written from position at on, as memcpy and read do
Overwrite(buf, at, s) ==
    [i \in 1..(IF Len(buf) > at + Len(s) THEN Len(buf) ELSE at + Len(s)) |->
        IF i > at /\ i <= at + Len(s) THEN s[i - at]
        ELSE IF i <= Len(buf) THEN buf[i] ELSE 0]
\* n frames of buf from position at on; what was never written is garbage
Frames(buf, at, n) ==
    [i \in 1..n |-> IF at + i <= Len(buf) THEN buf[at + i] ELSE 0]

Init ==
    /\ setting \in Settings
    /\ routed = FALSE /\ wanted = FALSE /\ effects = FALSE
    /\ captured = 0 /\ pc = "idle" /\ frames = 0
    /\ buffer = <<>> /\ framesIn = 0 /\ size = 0 /\ allocated = 0
    /\ processed = 0 /\ left = 0 /\ out = <<>>
    /\ cache = <<>> /\ ready = <<>>
    /\ refIn = 0 /\ refSize = 0 /\ refAllocated = 0
    /\ heard = <<>> /\ since = 0 /\ got = 0

Deliver(s) == heard' = heard \o s /\ got' = Len(s)

-----------------------------------------------------------------------------
(* read.                                                                   *)

\* No route: silence is returned, and nothing is captured.
ReadSilence(n) ==
    /\ pc = "idle" /\ ~routed
    /\ frames' = n /\ got' = n
    /\ UNCHANGED <<setting, routed, wanted, effects, captured, pc, procVars, loopVars, libVars,
                   refVars, heard, since>>

\* readFrames into the client's buffer; a conversion may fail
ReadDirect(n) ==
    /\ pc = "idle" /\ routed /\ ~effects
    /\ captured + n <= MaxFrames
    /\ frames' = n
    /\ captured' = captured + n
    /\ \E fails \in Fails("read") :
         IF fails THEN got' = 0 /\ UNCHANGED heard ELSE Deliver(NewFrames(n))
    /\ UNCHANGED <<setting, routed, wanted, effects, pc, procVars, loopVars, libVars, refVars, since>>

\* allocateProcessingMemory stores the size before it asks for the memory
Allocated(n, fails) == IF fails THEN allocated ELSE n

\* processFrames up to the loop: reload the processing buffer
Missing(n) == n - framesIn

TooSmall_Never(n) == FALSE
TooSmall(n) == size < n

ReadProcessed(n) ==
    LET reload == framesIn < n
        grow == reload /\ TooSmall(n)
    IN  /\ pc = "idle" /\ routed /\ effects
        /\ captured + n <= MaxFrames /\ Len(heard) + n <= MaxFrames
        /\ frames' = n
        /\ \E noMemory \in (IF grow THEN Fails("memory") ELSE {FALSE}),
              noFrames \in (IF reload THEN Fails("read") ELSE {FALSE}) :
             /\ size' = IF grow THEN n ELSE size
             /\ allocated' = IF grow THEN Allocated(n, noMemory) ELSE allocated
             /\ captured' = IF reload /\ ~noMemory THEN captured + Missing(n)
                            ELSE captured
             /\ IF noMemory \/ noFrames
                THEN /\ got' = 0
                     /\ UNCHANGED <<pc, buffer, framesIn, loopVars>>
                ELSE /\ buffer' = IF reload
                                  THEN Overwrite(buffer, framesIn, NewFrames(Missing(n)))
                                  ELSE buffer
                     /\ framesIn' = IF reload THEN framesIn + Missing(n) ELSE framesIn
                     /\ processed' = 0 /\ left' = framesIn' /\ out' = <<>>
                     /\ pc' = "process"
                     /\ UNCHANGED got
        /\ UNCHANGED <<setting, routed, wanted, effects, libVars, refVars, heard, since>>

\* updateEchoReference and pushEchoReference: the reference buffer is filled up
\* to the frames that will be processed, and what process_reverse takes leaves
\* it.  The output stream may have played fewer frames than are asked for.
PushEchoReference ==
    LET grow == refIn < left /\ refSize < left
    IN  \E noMemory \in (IF grow THEN Fails("memory") ELSE {FALSE}) :
          /\ refSize' = IF grow THEN left ELSE refSize
          /\ refAllocated' = IF grow /\ ~noMemory THEN left ELSE refAllocated
          /\ \E n \in {0, Block} :
               refIn' = LET played == IF refIn < left /\ ~noMemory THEN left - refIn
                                      ELSE 0
                        IN  refIn + played - Least(n, refIn + played)

\* Where doProcessFrames lets the library read its input and write its output
InputAt_Start == 0
InputAt == processed

\* The loop ends when the client's buffer is full or no input is left.
LoopEnds_Full == processed >= frames
LoopEnds == processed >= frames \/ left = 0

\* What the library takes of its input, and gives of n frames it has ready:
\* in_buf.frameCount and out_buf.frameCount bound both.
Taken == Least(Block - Len(cache), left)
Given(n) == Least(frames - processed, n)

\* One turn of the loop: the library takes what completes its block and gives
\* what it has ready, as much as the client's buffer still takes.
ProcessBlock ==
    LET taken == Taken
        filled == cache \o Frames(buffer, InputAt, taken)
        full == Len(filled) = Block
        avail == ready \o (IF full THEN filled ELSE <<>>)
        given == Given(Len(avail))
    IN  /\ pc = "process" /\ ~LoopEnds
        /\ PushEchoReference
        /\ cache' = IF full THEN <<>> ELSE filled
        /\ ready' = SubSeq(avail, given + 1, Len(avail))
        /\ out' = out \o SubSeq(avail, 1, given)
        /\ left' = left - taken
        /\ processed' = processed + given
        /\ UNCHANGED <<setting, routed, wanted, effects, captured, pc, frames, procVars, heard, since, got>>

\* The end of processFrames: what the effects left over moves to the front.
Realigned_Lost == buffer
Realigned == Frames(buffer, framesIn - left, left)
LeftOver_Dropped == 0
LeftOver == left

FinishRead ==
    /\ pc = "process" /\ LoopEnds
    /\ buffer' = IF left # 0 THEN Realigned ELSE buffer
    /\ framesIn' = LeftOver
    /\ Deliver(out)
    /\ pc' = "idle"
    /\ UNCHANGED <<setting, routed, wanted, effects, captured, frames, size, allocated, loopVars,
                   libVars, refVars, since>>

\* An effect refuses a block: "at least, it is necessary to return the read HW
\* frames", and the count the loop has reached is kept.
FailRead ==
    /\ pc = "process" /\ ~LoopEnds
    /\ "effect" \in MayFail
    /\ PushEchoReference
    /\ Deliver(Frames(buffer, 0, framesIn))
    /\ framesIn' = left
    /\ pc' = "idle"
    /\ UNCHANGED <<setting, routed, wanted, effects, captured, frames, buffer, size, allocated,
                   loopVars, libVars, since>>

-----------------------------------------------------------------------------
(* Between two reads, with the stream lock held for writing.               *)

\* The library forgets its frames with its last effect.
EndSession == cache' = <<>> /\ ready' = <<>> /\ since' = Len(heard)

\* attachRouteL: the effects asked for are added, the processing buffer and its
\* count are what they were.
AttachRoute ==
    /\ pc = "idle" /\ ~routed
    /\ routed' = TRUE /\ effects' = wanted
    /\ since' = Len(heard)
    /\ UNCHANGED <<setting, wanted, captured, pc, frames, procVars, loopVars, libVars,
                   refVars, heard, got>>

\* detachRouteL
DetachRoute ==
    /\ pc = "idle" /\ routed
    /\ routed' = FALSE /\ effects' = FALSE
    /\ EndSession
    /\ UNCHANGED <<setting, wanted, captured, pc, frames, procVars, loopVars, refVars,
                   heard, got>>

\* addAudioEffect, removeAudioEffect: at once if the stream is routed
AddEffect ==
    /\ pc = "idle" /\ ~wanted
    /\ wanted' = TRUE /\ effects' = routed
    /\ since' = Len(heard)
    /\ UNCHANGED <<setting, routed, captured, pc, frames, procVars, loopVars, libVars,
                   refVars, heard, got>>
RemoveEffect ==
    /\ pc = "idle" /\ wanted
    /\ wanted' = FALSE /\ effects' = FALSE
    /\ EndSession
    /\ UNCHANGED <<setting, routed, captured, pc, frames, procVars, loopVars, refVars,
                   heard, got>>

-----------------------------------------------------------------------------
Next ==
    \/ \E n \in Requests : ReadSilence(n) \/ ReadDirect(n) \/ ReadProcessed(n)
    \/ ProcessBlock \/ FinishRead \/ FailRead
    \/ AttachRoute \/ DetachRoute \/ AddEffect \/ RemoveEffect
Spec == Init /\ [][Next]_vars /\ WF_vars(ProcessBlock \/ FinishRead)

-----------------------------------------------------------------------------
(* Properties.                                                             *)

\* A client hears every captured frame at most once and in the order of
\* capture, across effects that come and go and routes that change, and never
\* hears what was in the buffer before it was filled: if its reads are whole
\* blocks, so that nothing is left over between them, and no effect fails.
InOrder(from) ==
    \A i, j \in DOMAIN heard : from < i /\ i < j => 0 < heard[i] /\ heard[i] < heard[j]
WholeBlocks == \A n \in Requests : n % Block = 0
Unrefused == MayFail \cap {"effect", "memory"} = {}
FramesInOrder == Unrefused /\ WholeBlocks => InOrder(0)

\* The same as long as route and effects stay as they are, also for reads that
\* leave a part of a block with the library from one read to the next, if none
\* asks for more than a block.  A longer read that is no whole number of blocks
\* would be given input from where its output ends: see AlwaysInOrder.
ShortReads == \A n \in Requests : n <= Block
SessionInOrder == Unrefused /\ (WholeBlocks \/ ShortReads) => InOrder(since)

\* The frames counted in a buffer fit into the memory it has, if memory can be
\* had at all.
FitsMemory ==
    "memory" \notin MayFail => framesIn <= allocated /\ refIn <= refAllocated

\* FramesInOrder without its condition, for the settings where it fails.
AlwaysInOrder == InOrder(0)

\* A read returns no more frames than the client has room for, also when an
\* effect fails and the captured frames are copied as they are.
NeverTooMany == pc = "idle" => got <= frames

\* "This variable represents the size in frames of in mProcessingBuffer"
SizeIsMemory == size = allocated

\* A frame that entered the processing chain is neither lost nor made up while
\* it is in work: what the loop takes, holds back, gives and leaves over adds up.
Kept == Len(heard) + Len(ready) + Len(cache)
          + (IF pc = "process" THEN Len(out) + left ELSE framesIn)
NoFrameLost ==
    [][pc = "process" /\ "effect" \notin MayFail => Kept' = Kept]_vars

\* Every read returns: the loop makes progress whatever the library keeps.
ReadReturns == pc = "process" ~> pc = "idle"
=============================================================================
