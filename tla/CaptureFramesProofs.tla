------------------------ MODULE CaptureFramesProofs ------------------------
(***************************************************************************)
(* Theorems about CaptureFrames, for every size of reads and blocks, every *)
(* order of reads, effects and routes, and any number of frames.           *)
(***************************************************************************)
EXTENDS CaptureFrames, SequenceTheorems, TLAPS

-----------------------------------------------------------------------------
(* Sequences of frames.                                                    *)

LEMMA FramesSeq ==
    ASSUME NEW buf \in Seq(Nat), NEW at \in Nat, NEW n \in Nat
    PROVE  Frames(buf, at, n) \in Seq(Nat) /\ Len(Frames(buf, at, n)) = n
BY DEF Frames

LEMMA OverwriteSeq ==
    ASSUME NEW buf \in Seq(Nat), NEW at \in Nat, NEW s \in Seq(Nat)
    PROVE  Overwrite(buf, at, s) \in Seq(Nat)
BY DEF Overwrite

LEMMA LeastIs ==
    ASSUME NEW a \in Nat, NEW b \in Nat
    PROVE  Least(a, b) \in Nat /\ Least(a, b) <= a /\ Least(a, b) <= b
BY DEF Least

-----------------------------------------------------------------------------
(* What is counted.                                                        *)

\* The sequences are sequences; the library holds less than a block back; the
\* loop has room for what it gives; what is left is part of what came in.
CountsOK ==
    /\ setting \in Settings
    /\ pc \in {"idle", "process"}
    /\ captured \in Nat /\ frames \in Nat /\ processed \in Nat
    /\ buffer \in Seq(Nat) /\ out \in Seq(Nat) /\ heard \in Seq(Nat)
    /\ cache \in Seq(Nat) /\ ready \in Seq(Nat) /\ Len(cache) < Block
    /\ framesIn \in Nat /\ left \in Nat
    /\ pc = "process" => left <= framesIn /\ processed <= frames

\* With the memory it asks for, the size of a buffer is what it has, and it is
\* enough for the frames counted in it.
MemoryOK ==
    /\ size \in Nat /\ refIn \in Nat /\ refSize \in Nat
    /\ "memory" \notin MayFail =>
         /\ size = allocated /\ framesIn <= size
         /\ refSize = refAllocated /\ refIn <= refSize

Inv == CountsOK /\ MemoryOK

LEMMA InvInit == Init => Inv
<1> SUFFICES ASSUME Init PROVE Inv
  OBVIOUS
<1>1. setting.block \in Nat \ {0}
  BY CaptureAssumption DEF Init
<1> QED BY <1>1 DEF Init, Inv, CountsOK, MemoryOK, Block

\* The echo reference is filled up to what will be processed, never further.
LEMMA ReferenceFits ==
    ASSUME Inv, PushEchoReference, UNCHANGED setting
    PROVE  /\ refIn' \in Nat /\ refSize' \in Nat
           /\ "memory" \notin MayFail => refSize' = refAllocated' /\ refIn' <= refSize'
<1> DEFINE grow == refIn < left /\ refSize < left
<1>1. Block \in Nat \ {0}
  BY CaptureAssumption DEF Inv, CountsOK, Block
<1>2. PICK noMemory \in (IF grow THEN Fails("memory") ELSE {FALSE}) :
        /\ refSize' = IF grow THEN left ELSE refSize
        /\ refAllocated' = IF grow /\ ~noMemory THEN left ELSE refAllocated
        /\ \E n \in {0, Block} :
             refIn' = refIn + (IF refIn < left /\ ~noMemory THEN left - refIn ELSE 0)
                        - Least(n, refIn + (IF refIn < left /\ ~noMemory
                                            THEN left - refIn ELSE 0))
  BY DEF PushEchoReference
<1> DEFINE full == IF refIn < left /\ ~noMemory THEN left ELSE refIn
<1>3. refIn \in Nat /\ left \in Nat /\ refSize \in Nat
  BY DEF Inv, CountsOK, MemoryOK
<1>4. ASSUME refIn < left /\ ~noMemory
      PROVE  refIn' \in Nat /\ refIn' <= full
  <2>1. \E n \in {0, Block} : refIn' = refIn + (left - refIn) - Least(n, refIn + (left - refIn))
    BY <1>2, <1>4
  <2> QED BY <1>1, <1>3, <1>4, <2>1 DEF Least
<1>5. ASSUME ~(refIn < left /\ ~noMemory)
      PROVE  refIn' \in Nat /\ refIn' <= full
  <2>1. \E n \in {0, Block} : refIn' = refIn + 0 - Least(n, refIn + 0)
    BY <1>2, <1>5
  <2> QED BY <1>1, <1>3, <1>5, <2>1 DEF Least
<1>6. refIn' \in Nat /\ refIn' <= full
  BY <1>4, <1>5
<1>7. refSize' \in Nat
  BY <1>2 DEF Inv, CountsOK, MemoryOK
<1>8. ASSUME "memory" \notin MayFail
      PROVE  refSize' = refAllocated' /\ refIn' <= refSize'
  <2>1. noMemory = FALSE
    BY <1>2, <1>8 DEF Fails
  <2> QED BY <1>2, <1>6, <1>8, <2>1 DEF full, Inv, CountsOK, MemoryOK
<1> QED BY <1>6, <1>7, <1>8

-----------------------------------------------------------------------------
(* One turn of the loop.                                                   *)

\* What the library has in its block once it has taken its input, and what it
\* can give and gives then.
Filled == cache \o Frames(buffer, InputAt, Taken)
Full == Len(Filled) = Block
Avail == ready \o (IF Full THEN Filled ELSE <<>>)
Granted == Given(Len(Avail))

\* It takes all there is or fills the block, and gives all it can or fills the
\* client's buffer.
LEMMA TurnParts ==
    ASSUME Inv, ProcessBlock
    PROVE  /\ Block \in Nat \ {0} /\ Len(cache) \in Nat /\ Len(cache) < Block
           /\ left \in Nat /\ processed \in Nat /\ frames \in Nat /\ framesIn \in Nat
           /\ buffer \in Seq(Nat) /\ cache \in Seq(Nat) /\ ready \in Seq(Nat) /\ out \in Seq(Nat)
           /\ Taken \in Nat /\ Taken <= left /\ Len(cache) + Taken <= Block
           /\ Taken = left \/ Len(cache) + Taken = Block
           /\ Filled \in Seq(Nat) /\ Len(Filled) = Len(cache) + Taken
           /\ Avail \in Seq(Nat)
           /\ Len(Avail) = Len(ready) + (IF Full THEN Len(Filled) ELSE 0)
           /\ Granted \in Nat /\ Granted <= Len(Avail) /\ processed + Granted <= frames
           /\ Granted = Len(Avail) \/ processed + Granted = frames
           /\ cache' = IF Full THEN <<>> ELSE Filled
           /\ ready' = SubSeq(Avail, Granted + 1, Len(Avail))
           /\ out' = out \o SubSeq(Avail, 1, Granted)
           /\ left' = left - Taken
           /\ processed' = processed + Granted
           /\ pc = "process"
<1>0. /\ Block \in Nat \ {0} /\ Len(cache) \in Nat /\ Len(cache) < Block
      /\ left \in Nat /\ processed \in Nat /\ frames \in Nat /\ framesIn \in Nat
      /\ buffer \in Seq(Nat) /\ cache \in Seq(Nat) /\ ready \in Seq(Nat) /\ out \in Seq(Nat)
  BY CaptureAssumption DEF Inv, CountsOK, Block
<1>1. Block - Len(cache) \in Nat
  BY <1>0
<1>2. /\ Taken \in Nat /\ Taken <= left /\ Len(cache) + Taken <= Block
      /\ Taken = left \/ Len(cache) + Taken = Block
  <2>1. Taken = Least(Block - Len(cache), left)
    BY DEF Taken
  <2>2. Taken \in Nat /\ Taken <= left /\ Taken <= Block - Len(cache)
    BY <1>0, <1>1, <2>1, LeastIs
  <2>3. Taken = Block - Len(cache) \/ Taken = left
    BY <2>1 DEF Least
  <2> QED BY <1>0, <2>2, <2>3
<1>3. Filled \in Seq(Nat) /\ Len(Filled) = Len(cache) + Taken
  <2> DEFINE input == Frames(buffer, InputAt, Taken)
  <2>1. input \in Seq(Nat) /\ Len(input) = Taken
    BY <1>0, <1>2, FramesSeq DEF InputAt
  <2> HIDE DEF input
  <2>2. cache \o input \in Seq(Nat) /\ Len(cache \o input) = Len(cache) + Taken
    BY <1>0, <1>2, <2>1, ConcatProperties
  <2> QED BY <2>2 DEF input, Filled
<1>4. /\ cache' = IF Full THEN <<>> ELSE Filled
      /\ ready' = SubSeq(Avail, Granted + 1, Len(Avail))
      /\ out' = out \o SubSeq(Avail, 1, Granted)
      /\ left' = left - Taken
      /\ processed' = processed + Granted
      /\ pc = "process"
  BY DEF ProcessBlock, Filled, Full, Avail, Granted
<1>5. Avail \in Seq(Nat)
      /\ Len(Avail) = Len(ready) + (IF Full THEN Len(Filled) ELSE 0)
  <2>1. CASE Full
    BY <1>0, <1>3, <2>1, ConcatProperties DEF Avail
  <2>2. CASE ~Full
    BY <1>0, <1>3, <2>2, ConcatProperties DEF Avail
  <2> QED BY <2>1, <2>2
<1>6. /\ Granted \in Nat /\ Granted <= Len(Avail) /\ processed + Granted <= frames
      /\ Granted = Len(Avail) \/ processed + Granted = frames
  <2>1. frames - processed \in Nat
    BY <1>0, <1>4 DEF Inv, CountsOK
  <2>2. Granted = Least(frames - processed, Len(Avail)) /\ Len(Avail) \in Nat
    BY <1>5 DEF Granted, Given
  <2>3. Granted \in Nat /\ Granted <= Len(Avail) /\ Granted <= frames - processed
    BY <2>1, <2>2, LeastIs
  <2>4. Granted = Len(Avail) \/ Granted = frames - processed
    BY <2>2 DEF Least
  <2> QED BY <1>0, <2>3, <2>4
<1> QED BY <1>0, <1>2, <1>3, <1>4, <1>5, <1>6

\* What the library is given and gives back: it takes no more than is left, and
\* the frames it holds, has ready and gives are those it had and those it took.
LEMMA TurnOfTheLoop ==
    ASSUME Inv, ProcessBlock
    PROVE  /\ cache' \in Seq(Nat) /\ ready' \in Seq(Nat) /\ out' \in Seq(Nat)
           /\ Len(cache') < Block
           /\ left' \in Nat /\ left' <= left
           /\ processed' \in Nat /\ processed' <= frames
           /\ Len(ready') = Len(Avail) - Granted
           /\ Len(cache') + Len(ready') + Len(out') + left'
                = Len(cache) + Len(ready) + Len(out) + left
<1>0. /\ Block \in Nat \ {0} /\ Len(cache) \in Nat /\ Len(cache) < Block
      /\ left \in Nat /\ processed \in Nat /\ frames \in Nat
      /\ cache \in Seq(Nat) /\ ready \in Seq(Nat) /\ out \in Seq(Nat)
      /\ Taken \in Nat /\ Taken <= left /\ Len(cache) + Taken <= Block
  BY TurnParts
<1>1. /\ Filled \in Seq(Nat) /\ Len(Filled) = Len(cache) + Taken
      /\ Avail \in Seq(Nat)
      /\ Len(Avail) = Len(ready) + (IF Full THEN Len(Filled) ELSE 0)
      /\ Granted \in Nat /\ Granted <= Len(Avail) /\ processed + Granted <= frames
  BY TurnParts
<1>2. /\ cache' = IF Full THEN <<>> ELSE Filled
      /\ ready' = SubSeq(Avail, Granted + 1, Len(Avail))
      /\ out' = out \o SubSeq(Avail, 1, Granted)
      /\ left' = left - Taken
      /\ processed' = processed + Granted
  BY TurnParts
<1>3. ready' \in Seq(Nat) /\ Len(ready') = Len(Avail) - Granted
  <2> DEFINE rest == SubSeq(Avail, Granted + 1, Len(Avail))
  <2>1. Avail \in Seq(Nat) /\ Granted \in Nat /\ Granted <= Len(Avail)
    BY <1>1
  <2>2. rest \in Seq(Nat) /\ Len(rest) = Len(Avail) - Granted
    BY <2>1
  <2> QED BY <1>2, <2>2
<1>4. out' \in Seq(Nat) /\ Len(out') = Len(out) + Granted
  <2> DEFINE put == SubSeq(Avail, 1, Granted)
  <2>1. put \in Seq(Nat) /\ Len(put) = Granted
    BY <1>1
  <2> HIDE DEF put
  <2>2. out \o put \in Seq(Nat) /\ Len(out \o put) = Len(out) + Granted
    BY <1>0, <1>1, <2>1, ConcatProperties
  <2> QED BY <1>2, <2>2 DEF put
<1>5. /\ cache' \in Seq(Nat) /\ Len(cache') < Block
      /\ Len(cache') = Len(Filled) - (IF Full THEN Len(Filled) ELSE 0)
  <2>1. CASE Full
    BY <1>0, <1>1, <1>2, <2>1
  <2>2. CASE ~Full
    BY <1>0, <1>1, <1>2, <2>2 DEF Full
  <2> QED BY <2>1, <2>2
<1>6. /\ left' \in Nat /\ left' <= left
      /\ processed' \in Nat /\ processed' <= frames
  BY <1>0, <1>1, <1>2
<1>7. Len(cache') + Len(ready') + Len(out') + left'
        = Len(cache) + Len(ready) + Len(out) + left
  <2> DEFINE moved == IF Full THEN Len(Filled) ELSE 0
  <2>1. moved \in Nat /\ Len(Filled) \in Nat
    BY <1>1
  <2>2. Len(cache') = Len(Filled) - moved /\ Len(Avail) = Len(ready) + moved
    BY <1>1, <1>5
  <2> HIDE DEF moved
  <2>3. Len(ready) \in Nat /\ Len(out) \in Nat
    BY <1>0
  <2>4. /\ Len(Filled) = Len(cache) + Taken /\ left' = left - Taken
        /\ Len(ready') = Len(Avail) - Granted /\ Len(out') = Len(out) + Granted
    BY <1>1, <1>2, <1>3, <1>4
  <2> QED BY <1>0, <1>1, <2>1, <2>2, <2>3, <2>4
<1> QED BY <1>3, <1>4, <1>5, <1>6, <1>7
-----------------------------------------------------------------------------
(* Every step.                                                             *)

\* A read of n frames with effects: the processing buffer is made large enough
\* before it is filled up to n frames.
LEMMA ReadProcessedInv ==
    ASSUME Inv, NEW n \in Requests, ReadProcessed(n)
    PROVE  Inv'
<1>1. n \in Nat \ {0} /\ setting' = setting
  BY CaptureAssumption DEF Inv, CountsOK, Requests, ReadProcessed
<1> DEFINE reload == framesIn < n
           grow == reload /\ TooSmall(n)
<1>2. PICK noMemory \in (IF grow THEN Fails("memory") ELSE {FALSE}),
           noFrames \in (IF reload THEN Fails("read") ELSE {FALSE}) :
        /\ size' = IF grow THEN n ELSE size
        /\ allocated' = IF grow THEN Allocated(n, noMemory) ELSE allocated
        /\ captured' = IF reload /\ ~noMemory THEN captured + Missing(n) ELSE captured
        /\ IF noMemory \/ noFrames
           THEN /\ got' = 0
                /\ UNCHANGED <<pc, buffer, framesIn, loopVars>>
           ELSE /\ buffer' = IF reload
                             THEN Overwrite(buffer, framesIn, NewFrames(Missing(n)))
                             ELSE buffer
                /\ framesIn' = IF reload THEN framesIn + Missing(n) ELSE framesIn
                /\ processed' = 0 /\ left' = framesIn' /\ out' = <<>>
                /\ pc' = "process"
                /\ UNCHANGED got
  BY DEF ReadProcessed
<1>3. captured \in Nat /\ framesIn \in Nat /\ left \in Nat /\ size \in Nat
      /\ buffer \in Seq(Nat) /\ pc = "idle" /\ frames' = n
  BY DEF Inv, CountsOK, MemoryOK, ReadProcessed
<1>4. reload => Missing(n) \in Nat /\ framesIn + Missing(n) = n
  BY <1>1, <1>3 DEF Missing
<1>5. captured' \in Nat
  BY <1>2, <1>3, <1>4
<1>6. size' \in Nat
  BY <1>1, <1>2, <1>3
<1>7. reload => NewFrames(Missing(n)) \in Seq(Nat)
  BY <1>3, <1>4 DEF NewFrames
<1>8. buffer' \in Seq(Nat)
  BY <1>2, <1>3, <1>7, OverwriteSeq
<1>9. framesIn' \in Nat /\ left' \in Nat
  BY <1>2, <1>3, <1>4, <1>1 DEF loopVars
<1>10. pc' = "process" => left' <= framesIn' /\ processed' <= frames'
  BY <1>1, <1>2, <1>3, <1>9
<1>11. out' \in Seq(Nat) /\ processed' \in Nat /\ pc' \in {"idle", "process"}
  <2>1. out \in Seq(Nat) /\ processed \in Nat /\ <<>> \in Seq(Nat)
    BY DEF Inv, CountsOK
  <2>2. CASE noMemory \/ noFrames
    BY <1>2, <1>3, <2>1, <2>2 DEF loopVars
  <2>3. CASE ~(noMemory \/ noFrames)
    <3>1. processed' = 0 /\ out' = <<>> /\ pc' = "process"
      BY <1>2, <2>3
    <3> QED BY <2>1, <3>1
  <2> QED BY <2>2, <2>3
<1>12. CountsOK'
  BY <1>1, <1>3, <1>5, <1>8, <1>9, <1>10, <1>11
     DEF ReadProcessed, libVars, Inv, CountsOK, Block
<1>13. ASSUME "memory" \notin MayFail
       PROVE  size' = allocated' /\ framesIn' <= size'
  <2>1. noMemory = FALSE /\ size = allocated /\ framesIn <= size
    BY <1>2, <1>13 DEF Fails, Inv, MemoryOK
  <2>2. size' = allocated'
    BY <1>2, <2>1 DEF Allocated
  <2>3. reload => n <= size'
    BY <1>1, <1>2, <1>3 DEF TooSmall
  <2>4. CASE reload
    BY <1>1, <1>2, <1>3, <1>4, <2>1, <2>2, <2>3, <2>4
  <2>5. CASE ~reload
    BY <1>2, <2>1, <2>2, <2>5
  <2> QED BY <2>4, <2>5
<1> QED
  BY <1>1, <1>6, <1>12, <1>13 DEF ReadProcessed, refVars, Inv, MemoryOK, MayFail

LEMMA InvNext ==
    ASSUME Inv, [Next]_vars
    PROVE  Inv'
<1> USE DEF procVars, loopVars, libVars, refVars
<1>0. /\ setting \in Settings /\ Requests \subseteq Nat \ {0}
      /\ Block \in Nat \ {0}
  BY CaptureAssumption DEF Inv, CountsOK, Requests, Block
<1>1. ASSUME NEW n \in Requests, ReadSilence(n)
      PROVE  Inv'
  BY <1>0, <1>1 DEF ReadSilence, Inv, CountsOK, MemoryOK, Block, MayFail
<1>2. ASSUME NEW n \in Requests, ReadDirect(n)
      PROVE  Inv'
  <2>1. NewFrames(n) \in Seq(Nat) /\ captured + n \in Nat
    BY <1>0 DEF NewFrames, Inv, CountsOK
  <2>2. heard' \in Seq(Nat)
    BY <1>2, <2>1, ConcatProperties DEF ReadDirect, Deliver, Inv, CountsOK
  <2> QED BY <1>0, <1>2, <2>1, <2>2
          DEF ReadDirect, Inv, CountsOK, MemoryOK, Block, MayFail
<1>3. ASSUME NEW n \in Requests, ReadProcessed(n)
      PROVE  Inv'
  BY <1>3, ReadProcessedInv
<1>4. CASE ProcessBlock
  <2>1. PushEchoReference /\ UNCHANGED setting
    BY <1>4 DEF ProcessBlock
  <2>2. /\ refIn' \in Nat /\ refSize' \in Nat
        /\ "memory" \notin MayFail => refSize' = refAllocated' /\ refIn' <= refSize'
    BY <2>1, ReferenceFits
  <2>3. /\ cache' \in Seq(Nat) /\ ready' \in Seq(Nat) /\ out' \in Seq(Nat)
        /\ Len(cache') < Block /\ left' \in Nat /\ left' <= left
        /\ processed' \in Nat /\ processed' <= frames
    BY <1>4, TurnOfTheLoop
  <2>4. /\ UNCHANGED <<setting, captured, pc, frames, buffer, framesIn, size, allocated, heard>>
        /\ pc = "process"
    BY <1>4 DEF ProcessBlock
  <2>5. CountsOK'
    BY <2>3, <2>4 DEF Inv, CountsOK, Block
  <2>6. MemoryOK'
    BY <2>2, <2>4 DEF Inv, MemoryOK, MayFail
  <2> QED BY <2>5, <2>6 DEF Inv
<1>5. CASE FinishRead
  <2>1. left \in Nat /\ framesIn \in Nat /\ left <= framesIn /\ framesIn - left \in Nat
    BY <1>5 DEF FinishRead, Inv, CountsOK
  <2>2. buffer' \in Seq(Nat)
    BY <1>5, <2>1, FramesSeq DEF FinishRead, Realigned, Inv, CountsOK
  <2>3. heard' \in Seq(Nat)
    BY <1>5, ConcatProperties DEF FinishRead, Deliver, Inv, CountsOK
  <2> QED BY <1>5, <2>1, <2>2, <2>3
          DEF FinishRead, LeftOver, Inv, CountsOK, MemoryOK, Block, MayFail
<1>6. CASE FailRead
  <2>1. PushEchoReference /\ UNCHANGED setting
    BY <1>6 DEF FailRead
  <2>2. /\ refIn' \in Nat /\ refSize' \in Nat
        /\ "memory" \notin MayFail => refSize' = refAllocated' /\ refIn' <= refSize'
    BY <2>1, ReferenceFits
  <2>3. left \in Nat /\ framesIn \in Nat /\ left <= framesIn
    BY <1>6 DEF FailRead, Inv, CountsOK
  <2>4. Frames(buffer, 0, framesIn) \in Seq(Nat)
    BY <2>3, FramesSeq DEF Inv, CountsOK
  <2>5. heard' \in Seq(Nat)
    BY <1>6, <2>4, ConcatProperties DEF FailRead, Deliver, Inv, CountsOK
  <2>6. CountsOK'
    BY <1>6, <2>3, <2>5 DEF FailRead, Inv, CountsOK, Block
  <2>7. MemoryOK'
    BY <1>6, <2>2, <2>3 DEF FailRead, Inv, MemoryOK, MayFail
  <2> QED BY <2>6, <2>7 DEF Inv
<1>7. CASE AttachRoute
  BY <1>7 DEF AttachRoute, Inv, CountsOK, MemoryOK, Block, MayFail
<1>8. CASE DetachRoute
  BY <1>0, <1>8 DEF DetachRoute, EndSession, Inv, CountsOK, MemoryOK, Block, MayFail
<1>9. CASE AddEffect
  BY <1>9 DEF AddEffect, Inv, CountsOK, MemoryOK, Block, MayFail
<1>10. CASE RemoveEffect
  BY <1>0, <1>10 DEF RemoveEffect, EndSession, Inv, CountsOK, MemoryOK, Block, MayFail
<1>11. CASE UNCHANGED vars
  BY <1>11 DEF vars, Inv, CountsOK, MemoryOK, Block, MayFail
<1> QED
  BY <1>1, <1>2, <1>3, <1>4, <1>5, <1>6, <1>7, <1>8, <1>9, <1>10, <1>11 DEF Next

-----------------------------------------------------------------------------
(* Sequences of frames, in parts.                                          *)

\* What is read out of a buffer, in parts and after it was written.
LEMMA FramesNone ==
    ASSUME NEW buf \in Seq(Nat), NEW at \in Nat
    PROVE  Frames(buf, at, 0) = <<>>
BY DEF Frames

LEMMA FramesSplit ==
    ASSUME NEW buf \in Seq(Nat), NEW at \in Nat, NEW n \in Nat, NEW m \in Nat
    PROVE  Frames(buf, at, n + m) = Frames(buf, at, n) \o Frames(buf, at + n, m)
<1> DEFINE p == Frames(buf, at, n)
           q == Frames(buf, at + n, m)
           w == Frames(buf, at, n + m)
<1>1. /\ w \in Seq(Nat) /\ Len(w) = n + m
      /\ p \in Seq(Nat) /\ Len(p) = n
      /\ q \in Seq(Nat) /\ Len(q) = m
  <2>1. n + m \in Nat /\ at + n \in Nat
    OBVIOUS
  <2> QED BY <2>1, FramesSeq
<1>2. /\ \A i \in 1..(n + m) : w[i] = (IF at + i <= Len(buf) THEN buf[at + i] ELSE 0)
      /\ \A i \in 1..n : p[i] = (IF at + i <= Len(buf) THEN buf[at + i] ELSE 0)
      /\ \A i \in 1..m : q[i] = (IF at + n + i <= Len(buf) THEN buf[at + n + i] ELSE 0)
  BY DEF Frames
<1> HIDE DEF p, q, w
<1>3. /\ p \o q \in Seq(Nat) /\ Len(p \o q) = n + m
      /\ \A i \in 1..(n + m) : (p \o q)[i] = IF i <= n THEN p[i] ELSE q[i - n]
  BY <1>1, ConcatProperties
<1>4. \A i \in 1..(n + m) : w[i] = (p \o q)[i]
  <2> SUFFICES ASSUME NEW i \in 1..(n + m) PROVE w[i] = (p \o q)[i]
    OBVIOUS
  <2>1. CASE i <= n
    BY <1>2, <1>3, <2>1
  <2>2. CASE i > n
    <3>1. i - n \in 1..m /\ at + n + (i - n) = at + i
      BY <2>2
    <3>2. q[i - n] = IF at + n + (i - n) <= Len(buf) THEN buf[at + n + (i - n)] ELSE 0
      BY <1>2, <3>1
    <3>3. (p \o q)[i] = q[i - n]
      BY <1>3, <2>2
    <3>4. w[i] = IF at + i <= Len(buf) THEN buf[at + i] ELSE 0
      BY <1>2
    <3> QED BY <3>1, <3>2, <3>3, <3>4
  <2>3. i <= n \/ i > n
    OBVIOUS
  <2> QED BY <2>1, <2>2, <2>3
<1> QED BY <1>1, <1>3, <1>4, SeqEqual DEF p, q, w

LEMMA FramesOfFrames ==
    ASSUME NEW buf \in Seq(Nat), NEW at \in Nat, NEW n \in Nat
    PROVE  Frames(Frames(buf, at, n), 0, n) = Frames(buf, at, n)
<1> DEFINE p == Frames(buf, at, n)
<1>1. p \in Seq(Nat) /\ Len(p) = n /\ p = [i \in 1..n |-> p[i]]
  BY FramesSeq DEF Frames
<1> HIDE DEF p
<1>2. \A i \in 1..n : (IF 0 + i <= Len(p) THEN p[0 + i] ELSE 0) = p[i]
  BY <1>1
<1>3. Frames(p, 0, n) = [i \in 1..n |-> p[i]]
  BY <1>2 DEF Frames
<1> QED BY <1>1, <1>3 DEF p

LEMMA FramesOfOverwrite ==
    ASSUME NEW buf \in Seq(Nat), NEW at \in Nat, NEW s \in Seq(Nat)
    PROVE  Frames(Overwrite(buf, at, s), 0, at + Len(s)) = Frames(buf, 0, at) \o s
<1> DEFINE b == Overwrite(buf, at, s)
           p == Frames(buf, 0, at)
           w == Frames(b, 0, at + Len(s))
           last == IF Len(buf) > at + Len(s) THEN Len(buf) ELSE at + Len(s)
<1>1. /\ Len(s) \in Nat /\ at + Len(s) \in Nat /\ Len(buf) \in Nat
      /\ b \in Seq(Nat) /\ p \in Seq(Nat) /\ Len(p) = at
      /\ w \in Seq(Nat) /\ Len(w) = at + Len(s)
  <2>1. Len(s) \in Nat /\ at + Len(s) \in Nat /\ Len(buf) \in Nat /\ 0 \in Nat
    OBVIOUS
  <2>2. b \in Seq(Nat)
    BY OverwriteSeq
  <2> QED BY <2>1, <2>2, FramesSeq
<1>2. last \in Nat /\ at + Len(s) <= last
  BY <1>1
<1>3. b = [i \in 1..last |-> IF i > at /\ i <= at + Len(s) THEN s[i - at]
                             ELSE IF i <= Len(buf) THEN buf[i] ELSE 0]
  BY DEF Overwrite
<1>4. Len(b) = last
  BY <1>2, <1>3
<1>5. \A i \in 1..at : p[i] = (IF i <= Len(buf) THEN buf[i] ELSE 0)
  BY DEF Frames
<1>6. \A i \in 1..(at + Len(s)) : w[i] = (IF 0 + i <= Len(b) THEN b[0 + i] ELSE 0)
  BY DEF Frames
<1> HIDE DEF b, p, w, last
<1>7. /\ p \o s \in Seq(Nat) /\ Len(p \o s) = at + Len(s)
      /\ \A i \in 1..(at + Len(s)) : (p \o s)[i] = IF i <= at THEN p[i] ELSE s[i - at]
  BY <1>1, ConcatProperties
<1>8. \A i \in 1..(at + Len(s)) : w[i] = (p \o s)[i]
  <2> SUFFICES ASSUME NEW i \in 1..(at + Len(s)) PROVE w[i] = (p \o s)[i]
    OBVIOUS
  <2>1. i \in 1..last /\ w[i] = b[i]
    BY <1>1, <1>2, <1>4, <1>6
  <2>2. b[i] = IF i > at /\ i <= at + Len(s) THEN s[i - at]
               ELSE IF i <= Len(buf) THEN buf[i] ELSE 0
    BY <1>3, <2>1
  <2>3. CASE i <= at
    BY <1>1, <1>5, <1>7, <2>1, <2>2, <2>3
  <2>4. CASE i > at
    BY <1>1, <1>7, <2>1, <2>2, <2>4
  <2> QED BY <1>1, <2>3, <2>4
<1> QED BY <1>1, <1>7, <1>8, SeqEqual DEF b, p, w

LEMMA Associative ==
    ASSUME NEW s \in Seq(Nat), NEW t \in Seq(Nat), NEW u \in Seq(Nat)
    PROVE  (s \o t) \o u = s \o (t \o u)
BY ConcatAssociative

\* What is taken off the front of a and put behind o leaves their order as it is.
LEMMA Regroup ==
    ASSUME NEW o \in Seq(Nat), NEW a \in Seq(Nat), NEW r \in Seq(Nat), NEW g \in 0..Len(a)
    PROVE  (o \o SubSeq(a, 1, g)) \o (SubSeq(a, g + 1, Len(a)) \o r) = o \o (a \o r)
<1> DEFINE h == SubSeq(a, 1, g)
           t == SubSeq(a, g + 1, Len(a))
<1>1. h \in Seq(Nat) /\ t \in Seq(Nat)
  OBVIOUS
<1>2. h \o t = a
  <2>1. Len(a) \in Nat /\ SubSeq(a, 1, Len(a)) = a
    BY SubSeqFull
  <2>2. 1 \in 1..(Len(a) + 1) /\ g \in (1 - 1)..Len(a) /\ Len(a) \in g..Len(a)
    BY <2>1
  <2> QED BY <2>1, <2>2, ConcatAdjacentSubSeq
<1> HIDE DEF h, t
<1>3. t \o r \in Seq(Nat)
  BY <1>1, ConcatProperties
<1>4. (o \o h) \o (t \o r) = o \o (h \o (t \o r))
  BY <1>1, <1>3, Associative
<1>5. h \o (t \o r) = a \o r
  <2>1. (h \o t) \o r = h \o (t \o r)
    BY <1>1, Associative
  <2> QED BY <1>2, <2>1
<1> QED BY <1>4, <1>5 DEF h, t

\* The frames heard from some point on grow with what is heard.
LEMMA HeardMore ==
    ASSUME NEW q \in Seq(Nat), NEW s \in Seq(Nat), NEW from \in 0..Len(q)
    PROVE  SubSeq(q \o s, from + 1, Len(q \o s)) = SubSeq(q, from + 1, Len(q)) \o s
<1> DEFINE w == SubSeq(q \o s, from + 1, Len(q \o s))
           p == SubSeq(q, from + 1, Len(q))
<1>1. Len(q) \in Nat /\ Len(s) \in Nat /\ from \in Nat /\ from <= Len(q)
  OBVIOUS
<1>2. /\ q \o s \in Seq(Nat) /\ Len(q \o s) = Len(q) + Len(s)
      /\ \A i \in 1..(Len(q) + Len(s)) : (q \o s)[i] = IF i <= Len(q) THEN q[i] ELSE s[i - Len(q)]
  BY ConcatProperties
<1>3. /\ w \in Seq(Nat) /\ Len(w) = Len(q) + Len(s) - from
      /\ \A i \in 1..(Len(q) + Len(s) - from) : w[i] = (q \o s)[from + i]
  <2> DEFINE c == q \o s
  <2>1. c \in Seq(Nat) /\ Len(c) = Len(q) + Len(s)
    BY <1>2
  <2>2. w = SubSeq(c, from + 1, Len(c))
    OBVIOUS
  <2> HIDE DEF c, w
  <2>3. /\ w \in Seq(Nat) /\ Len(w) = Len(c) - from
        /\ \A i \in 1..(Len(c) - from) : w[i] = c[from + i]
    BY <1>1, <2>1, <2>2
  <2> QED BY <2>1, <2>3 DEF c
<1>4. /\ p \in Seq(Nat) /\ Len(p) = Len(q) - from
      /\ \A i \in 1..(Len(q) - from) : p[i] = q[from + i]
  BY <1>1
<1> HIDE DEF w, p
<1>5. /\ p \o s \in Seq(Nat) /\ Len(p \o s) = Len(q) - from + Len(s)
      /\ \A i \in 1..(Len(q) - from + Len(s)) :
            (p \o s)[i] = IF i <= Len(q) - from THEN p[i] ELSE s[i - (Len(q) - from)]
  <2>1. /\ p \o s \in Seq(Nat) /\ Len(p \o s) = Len(p) + Len(s)
        /\ \A i \in 1..(Len(p) + Len(s)) :
              (p \o s)[i] = IF i <= Len(p) THEN p[i] ELSE s[i - Len(p)]
    BY <1>4, ConcatProperties
  <2> QED BY <1>4, <2>1
<1>6. \A i \in 1..(Len(q) + Len(s) - from) : w[i] = (p \o s)[i]
  <2> SUFFICES ASSUME NEW i \in 1..(Len(q) + Len(s) - from) PROVE w[i] = (p \o s)[i]
    OBVIOUS
  <2>1. from + i \in 1..(Len(q) + Len(s)) /\ i \in 1..(Len(q) - from + Len(s))
    BY <1>1
  <2>2. w[i] = IF from + i <= Len(q) THEN q[from + i] ELSE s[from + i - Len(q)]
    BY <1>2, <1>3, <2>1
  <2>3. CASE from + i <= Len(q)
    <3>1. i \in 1..(Len(q) - from)
      BY <1>1, <2>3
    <3> QED BY <1>4, <1>5, <2>1, <2>2, <2>3, <3>1
  <2>4. CASE from + i > Len(q)
    <3>1. ~(i <= Len(q) - from) /\ i - (Len(q) - from) = from + i - Len(q)
      BY <1>1, <2>4
    <3>2. (p \o s)[i] = s[i - (Len(q) - from)]
      BY <1>5, <2>1, <3>1
    <3>3. w[i] = s[from + i - Len(q)]
      BY <1>1, <2>1, <2>2, <2>4
    <3> QED BY <3>1, <3>2, <3>3
  <2>5. from + i <= Len(q) \/ from + i > Len(q)
    BY <1>1
  <2> QED BY <2>3, <2>4, <2>5
<1>7. Len(w) = Len(p \o s)
  BY <1>1, <1>3, <1>5
<1> QED BY <1>3, <1>5, <1>6, <1>7, SeqEqual DEF w, p

LEMMA HeardNone ==
    ASSUME NEW q \in Seq(Nat)
    PROVE  SubSeq(q, Len(q) + 1, Len(q)) = <<>>
<1>1. Len(q) \in Nat /\ Len(q) + 1 \in Int /\ Len(q) \in Int /\ Len(q) < Len(q) + 1
  OBVIOUS
<1> QED BY <1>1, SubSeqEmpty

-----------------------------------------------------------------------------
(* The order of capture.                                                   *)

\* Frames in the order of their capture, none of them twice, none of them
\* captured after frame c.
Rising(q, c) ==
    \A i \in 1..Len(q) :
        q[i] \in 1..c /\ \A j \in 1..Len(q) : i < j => q[i] < q[j]

LEMMA RisingNone == ASSUME NEW c \in Nat PROVE Rising(<<>>, c)
BY DEF Rising

\* They are so after any later frame,
LEMMA RisingLater ==
    ASSUME NEW q \in Seq(Nat), NEW c \in Nat, NEW d \in Nat, c <= d, Rising(q, c)
    PROVE  Rising(q, d)
BY DEF Rising

\* each part of them is in order,
LEMMA RisingParts ==
    ASSUME NEW p \in Seq(Nat), NEW q \in Seq(Nat), NEW c \in Nat, Rising(p \o q, c)
    PROVE  Rising(p, c) /\ Rising(q, c)
<1> DEFINE w == p \o q
<1>1. /\ Len(p) \in Nat /\ Len(q) \in Nat /\ Len(w) = Len(p) + Len(q)
      /\ \A i \in 1..(Len(p) + Len(q)) : w[i] = IF i <= Len(p) THEN p[i] ELSE q[i - Len(p)]
  BY ConcatProperties
<1>2. \A i \in 1..Len(w) : w[i] \in 1..c /\ \A j \in 1..Len(w) : i < j => w[i] < w[j]
  BY DEF Rising
<1> HIDE DEF w
<1>3. \A i \in 1..Len(p) : i \in 1..Len(w) /\ w[i] = p[i]
  BY <1>1
<1>4. \A i \in 1..Len(q) : i + Len(p) \in 1..Len(w) /\ w[i + Len(p)] = q[i]
  <2> SUFFICES ASSUME NEW i \in 1..Len(q)
               PROVE  i + Len(p) \in 1..Len(w) /\ w[i + Len(p)] = q[i]
    OBVIOUS
  <2>1. i + Len(p) \in 1..(Len(p) + Len(q)) /\ ~(i + Len(p) <= Len(p)) /\ i + Len(p) - Len(p) = i
    BY <1>1
  <2> QED BY <1>1, <2>1
<1>5. Rising(p, c)
  BY <1>2, <1>3 DEF Rising
<1>6. Rising(q, c)
  <2> SUFFICES ASSUME NEW i \in 1..Len(q)
               PROVE  q[i] \in 1..c /\ \A j \in 1..Len(q) : i < j => q[i] < q[j]
    BY DEF Rising
  <2>1. q[i] \in 1..c
    BY <1>2, <1>4
  <2>2. ASSUME NEW j \in 1..Len(q), i < j
        PROVE  q[i] < q[j]
    <3>1. i + Len(p) < j + Len(p)
      BY <1>1, <2>2
    <3>2. w[i + Len(p)] < w[j + Len(p)]
      BY <1>2, <1>4, <3>1
    <3> QED BY <1>4, <3>2
  <2> QED BY <2>1, <2>2
<1> QED BY <1>5, <1>6

\* and frames captured now follow all that were captured before.
LEMMA RisingNew ==
    ASSUME NEW q \in Seq(Nat), captured \in Nat, NEW m \in Nat, Rising(q, captured)
    PROVE  /\ NewFrames(m) \in Seq(Nat)
           /\ Rising(q \o NewFrames(m), captured + m)
<1> DEFINE s == NewFrames(m)
           w == q \o s
<1>1. /\ s \in Seq(Nat) /\ Len(s) = m
      /\ \A i \in 1..m : s[i] = captured + i
  BY DEF NewFrames
<1> HIDE DEF s
<1>2. /\ Len(q) \in Nat /\ Len(w) = Len(q) + m
      /\ \A i \in 1..(Len(q) + m) : w[i] = IF i <= Len(q) THEN q[i] ELSE s[i - Len(q)]
  <2>1. /\ Len(w) = Len(q) + Len(s)
        /\ \A i \in 1..(Len(q) + Len(s)) : w[i] = IF i <= Len(q) THEN q[i] ELSE s[i - Len(q)]
    BY <1>1, ConcatProperties
  <2> QED BY <1>1, <2>1
<1>3. \A i \in 1..Len(q) :
        q[i] \in 1..captured /\ \A j \in 1..Len(q) : i < j => q[i] < q[j]
  BY DEF Rising
<1> HIDE DEF w
<1>4. \A i \in 1..Len(w) : i <= Len(q) => w[i] = q[i] /\ i \in 1..Len(q)
  BY <1>2
<1>5. \A i \in 1..Len(w) : i > Len(q) => w[i] = captured + (i - Len(q)) /\ i - Len(q) \in 1..m
  <2> SUFFICES ASSUME NEW i \in 1..Len(w), i > Len(q)
               PROVE  w[i] = captured + (i - Len(q)) /\ i - Len(q) \in 1..m
    OBVIOUS
  <2>1. i - Len(q) \in 1..m /\ ~(i <= Len(q)) /\ i \in 1..(Len(q) + m)
    BY <1>2
  <2> QED BY <1>1, <1>2, <2>1
<1>6. ASSUME NEW i \in 1..Len(w)
      PROVE  w[i] \in 1..(captured + m) /\ \A j \in 1..Len(w) : i < j => w[i] < w[j]
  <2>0. i \in Nat /\ Len(w) \in Nat /\ (i <= Len(q) \/ i > Len(q))
    BY <1>2
  <2>1. CASE i <= Len(q)
    <3>1. w[i] = q[i] /\ w[i] \in 1..captured /\ i \in 1..Len(q)
      BY <1>3, <1>4, <2>1
    <3>2. ASSUME NEW j \in 1..Len(w), i < j
          PROVE  w[i] < w[j]
      <4>1. CASE j <= Len(q)
        BY <1>3, <1>4, <3>1, <3>2, <4>1
      <4>2. CASE j > Len(q)
        BY <1>2, <1>5, <3>1, <4>2
      <4> QED BY <1>2, <4>1, <4>2
    <3> QED BY <3>1, <3>2
  <2>2. CASE i > Len(q)
    <3>1. w[i] = captured + (i - Len(q)) /\ i - Len(q) \in 1..m
      BY <1>5, <2>2
    <3>2. ASSUME NEW j \in 1..Len(w), i < j
          PROVE  w[i] < w[j]
      <4>1. w[j] = captured + (j - Len(q))
        BY <1>2, <1>5, <2>2, <3>2
      <4> QED BY <1>2, <3>1, <3>2, <4>1
    <3> QED BY <3>1, <3>2
  <2> QED BY <2>0, <2>1, <2>2
<1>7. Rising(w, captured + m)
  BY <1>6 DEF Rising
<1> QED BY <1>1, <1>7 DEF w, s


-----------------------------------------------------------------------------
(* What is in work, and its order.                                         *)

\* What has entered the chain and has not been returned, oldest frame first:
\* given out by the effects, ready, in the block being filled, and not yet taken.
Fed == IF pc = "process" THEN out ELSE <<>>
Untaken == IF pc = "process" THEN Frames(buffer, framesIn - left, left)
           ELSE Frames(buffer, 0, framesIn)
Pending == Fed \o (ready \o (cache \o Untaken))
HeardSince == SubSeq(heard, since + 1, Len(heard))

\* The chain of effects and the point it has last changed.
ChainOK ==
    /\ effects \in BOOLEAN /\ routed \in BOOLEAN /\ wanted \in BOOLEAN
    /\ effects <=> routed /\ wanted
    /\ pc = "process" => effects /\ frames \in Requests
    /\ ~effects => ready = <<>> /\ cache = <<>>
    /\ since \in 0..Len(heard)
\* In the loop, the output ends where the input begins: a read of no more than a
\* block takes one turn, and whole blocks are given as they are taken.
ShortOK ==
    Unrefused /\ ShortReads /\ pc = "process" /\ ~LoopEnds => processed = 0 /\ left = framesIn
WholeOK ==
    Unrefused /\ WholeBlocks =>
      /\ ready = <<>> /\ cache = <<>>
      /\ IF pc = "process"
         THEN framesIn = frames /\ processed + left = frames /\ left % Block = 0
         ELSE framesIn = 0
\* While the chain stays, what it holds follows what has been heard; without
\* effects, what was left over stays where it is.
SessionOK ==
    Unrefused /\ (WholeBlocks \/ ShortReads) =>
      IF effects THEN Rising(HeardSince \o Pending, captured)
      ELSE Rising(HeardSince, captured) /\ Rising(Pending, captured)
AllOK == Unrefused /\ WholeBlocks => Rising(heard \o Pending, captured)

OrderInv == Inv /\ ChainOK /\ ShortOK /\ WholeOK /\ SessionOK /\ AllOK

LEMMA PendingSeq ==
    ASSUME Inv, ChainOK
    PROVE  /\ Fed \in Seq(Nat) /\ Untaken \in Seq(Nat) /\ Pending \in Seq(Nat)
           /\ cache \o Untaken \in Seq(Nat) /\ ready \o (cache \o Untaken) \in Seq(Nat)
           /\ HeardSince \in Seq(Nat)
<1>1. /\ buffer \in Seq(Nat) /\ out \in Seq(Nat) /\ heard \in Seq(Nat)
      /\ cache \in Seq(Nat) /\ ready \in Seq(Nat)
      /\ framesIn \in Nat /\ left \in Nat
      /\ pc = "process" => framesIn - left \in Nat
  BY DEF Inv, CountsOK
<1>2. Fed \in Seq(Nat)
  BY <1>1 DEF Fed
<1>3. Untaken \in Seq(Nat)
  BY <1>1, FramesSeq DEF Untaken
<1>4. cache \o Untaken \in Seq(Nat)
  BY <1>1, <1>3, ConcatProperties
<1>5. ready \o (cache \o Untaken) \in Seq(Nat)
  BY <1>1, <1>4, ConcatProperties
<1>6. Pending \in Seq(Nat)
  BY <1>2, <1>5, ConcatProperties DEF Pending
<1>7. HeardSince \in Seq(Nat)
  <2>1. since \in Nat /\ since <= Len(heard) /\ Len(heard) \in Nat
    BY <1>1 DEF ChainOK
  <2> QED BY <1>1, <2>1 DEF HeardSince
<1> QED BY <1>2, <1>3, <1>4, <1>5, <1>6, <1>7

\* A turn of the loop moves frames along the chain and leaves their order as it is.
LEMMA TurnKeepsPending ==
    ASSUME Inv, ProcessBlock, processed = framesIn - left
    PROVE  Pending' = Pending
<1> DEFINE first == Frames(buffer, processed, Taken)
           rest == Frames(buffer, processed + Taken, left - Taken)
<1>1. /\ left \in Nat /\ processed \in Nat /\ framesIn \in Nat
      /\ buffer \in Seq(Nat) /\ cache \in Seq(Nat) /\ ready \in Seq(Nat) /\ out \in Seq(Nat)
      /\ Taken \in Nat /\ Taken <= left /\ pc = "process"
      /\ Filled \in Seq(Nat) /\ Avail \in Seq(Nat)
      /\ Granted \in 0..Len(Avail)
  BY TurnParts
<1>2. /\ cache' = IF Full THEN <<>> ELSE Filled
      /\ ready' = SubSeq(Avail, Granted + 1, Len(Avail))
      /\ out' = out \o SubSeq(Avail, 1, Granted)
      /\ left' = left - Taken
  BY TurnParts
<1>3. UNCHANGED <<pc, buffer, framesIn>>
  BY DEF ProcessBlock, procVars
<1>4. first \in Seq(Nat) /\ rest \in Seq(Nat)
  <2>1. left - Taken \in Nat /\ processed + Taken \in Nat
    BY <1>1
  <2> QED BY <1>1, <2>1, FramesSeq
<1>5. Untaken = first \o rest
  <2>1. Taken + (left - Taken) = left /\ left - Taken \in Nat
    BY <1>1
  <2>2. Frames(buffer, processed, Taken + (left - Taken)) = first \o rest
    <3>1. /\ buffer \in Seq(Nat) /\ processed \in Nat /\ Taken \in Nat
          /\ left - Taken \in Nat
      BY <1>1, <2>1
    <3> QED BY <3>1, FramesSplit, Zenon
  <2> QED BY <1>1, <2>1, <2>2 DEF Untaken
<1>6. Untaken' = rest
  <2>1. framesIn' - left' = processed + Taken
    BY <1>1, <1>2, <1>3
  <2> QED BY <1>1, <1>2, <1>3, <2>1 DEF Untaken
<1>7. Filled = cache \o first
  BY DEF Filled, InputAt
<1> HIDE DEF first, rest
<1>8. cache \o Untaken = Filled \o rest
  <2>1. (cache \o first) \o rest = cache \o (first \o rest)
    <3>1. cache \in Seq(Nat)
      BY <1>1
    <3> QED BY <1>4, <3>1, Associative, Zenon
  <2> QED BY <1>5, <1>7, <2>1
<1>9. Pending = out \o (ready \o (Filled \o rest))
  BY <1>1, <1>8 DEF Pending, Fed
<1>10. Filled \o rest \in Seq(Nat)
  BY <1>1, <1>4, ConcatProperties
<1>11. Pending' = out' \o (ready' \o (cache' \o rest))
  BY <1>1, <1>3, <1>6 DEF Pending, Fed
<1>12. CASE Full
  <2>1. Avail = ready \o Filled
    BY <1>12 DEF Avail
  <2>2. cache' \o rest = rest
    BY <1>2, <1>4, <1>12, ConcatEmptySeq
  <2>3. ready \o (Filled \o rest) = Avail \o rest
    <3>1. ready \in Seq(Nat) /\ Filled \in Seq(Nat)
      BY <1>1
    <3>2. (ready \o Filled) \o rest = ready \o (Filled \o rest)
      BY <1>4, <3>1, Associative, Zenon
    <3> QED BY <2>1, <3>2
  <2>4. Pending' = (out \o SubSeq(Avail, 1, Granted)) \o (SubSeq(Avail, Granted + 1, Len(Avail)) \o rest)
    BY <1>2, <1>11, <2>2
  <2>5. Pending' = out \o (Avail \o rest)
    <3>1. (out \o SubSeq(Avail, 1, Granted)) \o (SubSeq(Avail, Granted + 1, Len(Avail)) \o rest)
            = out \o (Avail \o rest)
      <4>1. out \in Seq(Nat) /\ Avail \in Seq(Nat) /\ Granted \in 0..Len(Avail)
        BY <1>1
      <4> QED BY <1>4, <4>1, Regroup, Zenon
    <3> QED BY <2>4, <3>1
  <2> QED BY <1>9, <2>3, <2>5
<1>13. CASE ~Full
  <2>1. Avail = ready
    BY <1>1, <1>13, ConcatEmptySeq DEF Avail
  <2>2. Pending' = (out \o SubSeq(Avail, 1, Granted))
                     \o (SubSeq(Avail, Granted + 1, Len(Avail)) \o (Filled \o rest))
    BY <1>2, <1>11, <1>13
  <2>3. Pending' = out \o (Avail \o (Filled \o rest))
    BY <1>1, <1>10, <2>2, Regroup
  <2> QED BY <1>9, <2>1, <2>3
<1> QED BY <1>12, <1>13

\* The end of a read returns what the effects have given; what they have not
\* taken is realigned.
LEMMA FinishKeepsPending ==
    ASSUME Inv, FinishRead
    PROVE  /\ heard' = heard \o out /\ Pending = out \o Pending'
           /\ out \in Seq(Nat) /\ Pending' \in Seq(Nat)
<1>1. /\ buffer \in Seq(Nat) /\ out \in Seq(Nat) /\ cache \in Seq(Nat) /\ ready \in Seq(Nat)
      /\ framesIn \in Nat /\ left \in Nat /\ framesIn - left \in Nat
      /\ pc = "process"
  BY DEF Inv, CountsOK, FinishRead
<1>2. /\ buffer' = IF left # 0 THEN Realigned ELSE buffer
      /\ framesIn' = left /\ pc' = "idle" /\ heard' = heard \o out
      /\ UNCHANGED <<cache, ready>>
  BY DEF FinishRead, LeftOver, Deliver, libVars
<1>3. Untaken' = Frames(buffer', 0, left)
  BY <1>2 DEF Untaken
<1>4. Untaken = Frames(buffer, framesIn - left, left)
  BY <1>1 DEF Untaken
<1>5. Untaken' = Untaken
  <2>1. CASE left = 0
    <3>1. Untaken' = <<>>
      BY <1>1, <1>2, <1>3, <2>1, FramesNone
    <3>2. Untaken = <<>>
      BY <1>1, <1>4, <2>1, FramesNone
    <3> QED BY <3>1, <3>2
  <2>2. CASE left # 0
    <3>1. Untaken' = Frames(Frames(buffer, framesIn - left, left), 0, left)
      BY <1>2, <1>3, <2>2 DEF Realigned
    <3> QED BY <1>1, <1>4, <3>1, FramesOfFrames
  <2> QED BY <2>1, <2>2
<1> DEFINE held == ready \o (cache \o Untaken)
<1>6. held \in Seq(Nat)
  <2>1. Untaken \in Seq(Nat)
    BY <1>1, <1>4, FramesSeq
  <2>2. cache \o Untaken \in Seq(Nat)
    BY <1>1, <2>1, ConcatProperties
  <2> QED BY <1>1, <2>2, ConcatProperties
<1>7. Pending' = <<>> \o held
  BY <1>2, <1>5 DEF Pending, Fed
<1>8. Pending = out \o held
  BY <1>1 DEF Pending, Fed
<1> HIDE DEF held
<1>9. Pending' = held
  BY <1>6, <1>7, ConcatEmptySeq
<1> QED BY <1>1, <1>2, <1>6, <1>8, <1>9

\* A read of n frames puts the frames it captures behind all that is in work.
LEMMA ReadAddsToPending ==
    ASSUME Inv, ChainOK, NEW n \in Requests, ReadProcessed(n), "memory" \notin MayFail
    PROVE  /\ heard' = heard /\ frames' = n
           /\ \/ /\ Pending' = Pending /\ captured' \in Nat /\ captured <= captured'
                 /\ pc' = "idle" /\ framesIn' = framesIn
              \/ /\ Pending' = Pending /\ captured' = captured
                 /\ pc' = "process" /\ n <= framesIn
                 /\ processed' = 0 /\ left' = framesIn /\ framesIn' = framesIn
              \/ \E m \in Nat :
                   /\ Pending' = Pending \o NewFrames(m) /\ captured' = captured + m
                   /\ pc' = "process" /\ framesIn < n
                   /\ processed' = 0 /\ left' = n /\ framesIn' = n
<1>1. n \in Nat \ {0}
  BY CaptureAssumption DEF Inv, CountsOK, Requests
<1> DEFINE reload == framesIn < n
           grow == reload /\ TooSmall(n)
<1>2. PICK noMemory \in (IF grow THEN Fails("memory") ELSE {FALSE}),
           noFrames \in (IF reload THEN Fails("read") ELSE {FALSE}) :
        /\ captured' = IF reload /\ ~noMemory THEN captured + Missing(n) ELSE captured
        /\ IF noMemory \/ noFrames
           THEN /\ got' = 0
                /\ UNCHANGED <<pc, buffer, framesIn, loopVars>>
           ELSE /\ buffer' = IF reload
                             THEN Overwrite(buffer, framesIn, NewFrames(Missing(n)))
                             ELSE buffer
                /\ framesIn' = IF reload THEN framesIn + Missing(n) ELSE framesIn
                /\ processed' = 0 /\ left' = framesIn' /\ out' = <<>>
                /\ pc' = "process"
                /\ UNCHANGED got
  BY DEF ReadProcessed
<1>3. /\ captured \in Nat /\ framesIn \in Nat /\ buffer \in Seq(Nat)
      /\ cache \in Seq(Nat) /\ ready \in Seq(Nat)
      /\ pc = "idle" /\ frames' = n /\ heard' = heard
      /\ UNCHANGED <<cache, ready>>
  BY DEF Inv, CountsOK, ReadProcessed, libVars
<1>4. noMemory = FALSE
  BY <1>2 DEF Fails
<1> DEFINE loaded == Frames(buffer, 0, framesIn)
           held == ready \o (cache \o loaded)
<1>5. loaded \in Seq(Nat) /\ cache \o loaded \in Seq(Nat) /\ held \in Seq(Nat)
  <2>1. loaded \in Seq(Nat)
    BY <1>3, FramesSeq
  <2> HIDE DEF loaded
  <2>2. cache \o loaded \in Seq(Nat)
    BY <1>3, <2>1, ConcatProperties
  <2> QED BY <1>3, <2>1, <2>2, ConcatProperties
<1>6. Pending = <<>> \o held
  BY <1>3 DEF Pending, Fed, Untaken
<1> HIDE DEF loaded, held
<1>7. Pending = held
  BY <1>5, <1>6, ConcatEmptySeq
<1>8. CASE noFrames
  <2>1. reload /\ UNCHANGED <<pc, buffer, framesIn>>
    BY <1>2, <1>8
  <2>2. captured' \in Nat /\ captured <= captured'
    BY <1>1, <1>2, <1>3, <1>4, <2>1 DEF Missing
  <2>3. Pending' = Pending
    BY <1>3, <2>1 DEF Pending, Fed, Untaken
  <2> QED BY <1>3, <2>1, <2>2, <2>3
<1>9. CASE ~noFrames /\ ~reload
  <2>1. /\ buffer' = buffer /\ framesIn' = framesIn /\ processed' = 0 /\ left' = framesIn
        /\ out' = <<>> /\ pc' = "process" /\ captured' = captured
    BY <1>2, <1>4, <1>9
  <2>2. framesIn' - left' = 0
    BY <1>3, <2>1
  <2>3. Untaken' = loaded
    BY <2>1, <2>2 DEF Untaken, loaded
  <2>4. Pending' = <<>> \o held
    BY <1>3, <2>1, <2>3 DEF Pending, Fed, held
  <2>5. Pending' = Pending
    BY <1>6, <2>4
  <2>6. n <= framesIn
    BY <1>1, <1>3, <1>9
  <2> QED BY <1>3, <2>1, <2>5, <2>6
<1>10. CASE ~noFrames /\ reload
  <2> DEFINE m == Missing(n)
             new == NewFrames(m)
  <2>1. m \in Nat /\ framesIn + m = n
    BY <1>1, <1>3, <1>10 DEF Missing
  <2>2. new \in Seq(Nat) /\ Len(new) = m
    <3> HIDE DEF m
    <3>1. NewFrames(m) \in Seq(Nat) /\ Len(NewFrames(m)) = m
      BY <1>3, <2>1 DEF NewFrames
    <3> QED BY <3>1
  <2>3. /\ buffer' = Overwrite(buffer, framesIn, new) /\ framesIn' = n
        /\ processed' = 0 /\ left' = n /\ out' = <<>> /\ pc' = "process"
        /\ captured' = captured + m
    BY <1>2, <1>4, <1>10, <2>1
  <2> HIDE DEF m, new
  <2>4. framesIn' - left' = 0
    BY <1>1, <2>3
  <2>5. Untaken' = Frames(Overwrite(buffer, framesIn, new), 0, framesIn + Len(new))
    BY <2>1, <2>2, <2>3, <2>4 DEF Untaken
  <2>6. Untaken' = loaded \o new
    BY <1>3, <2>2, <2>5, FramesOfOverwrite DEF loaded
  <2>7. loaded \o new \in Seq(Nat)
    BY <1>5, <2>2, ConcatProperties
  <2>8. cache \o (loaded \o new) = (cache \o loaded) \o new
    BY <1>3, <1>5, <2>2, Associative
  <2>9. ready \o ((cache \o loaded) \o new) = (ready \o (cache \o loaded)) \o new
    BY <1>3, <1>5, <2>2, Associative
  <2>10. Pending' = <<>> \o (ready \o (cache \o (loaded \o new)))
    BY <1>3, <2>3, <2>6 DEF Pending, Fed
  <2>11. Pending' = <<>> \o (held \o new)
    BY <2>8, <2>9, <2>10 DEF held
  <2>12. held \o new \in Seq(Nat)
    BY <1>5, <2>2, ConcatProperties
  <2>13. Pending' = Pending \o new
    BY <1>7, <2>11, <2>12, ConcatEmptySeq
  <2> QED BY <1>3, <1>10, <2>1, <2>3, <2>13 DEF new
<1> QED BY <1>8, <1>9, <1>10

\* What is left in the processing buffer is in order by itself.
LEMMA UntakenRises ==
    ASSUME Inv, ChainOK, pc = "idle", Rising(Pending, captured)
    PROVE  Untaken \in Seq(Nat) /\ Rising(Untaken, captured)
<1>1. /\ cache \in Seq(Nat) /\ ready \in Seq(Nat) /\ captured \in Nat
  BY DEF Inv, CountsOK
<1>2. /\ Untaken \in Seq(Nat) /\ cache \o Untaken \in Seq(Nat)
      /\ ready \o (cache \o Untaken) \in Seq(Nat)
  BY PendingSeq
<1>3. Pending = <<>> \o (ready \o (cache \o Untaken))
  BY DEF Pending, Fed
<1>4. Pending = ready \o (cache \o Untaken)
  BY <1>2, <1>3, ConcatEmptySeq
<1>5. Rising(ready \o (cache \o Untaken), captured)
  BY <1>4
<1>6. Rising(cache \o Untaken, captured)
  BY <1>1, <1>2, <1>5, RisingParts
<1> QED BY <1>1, <1>2, <1>6, RisingParts

\* A read puts newer frames behind q and the frames in work.
LEMMA ReadRises ==
    ASSUME Inv, ChainOK, NEW n \in Requests, ReadProcessed(n), "memory" \notin MayFail,
           NEW q \in Seq(Nat), Rising(q \o Pending, captured)
    PROVE  Rising(q \o Pending', captured')
<1> DEFINE w == q \o Pending
<1>1. /\ captured \in Nat /\ Pending \in Seq(Nat) /\ w \in Seq(Nat)
  <2>1. captured \in Nat /\ Pending \in Seq(Nat)
    BY PendingSeq DEF Inv, CountsOK
  <2> QED BY <2>1, ConcatProperties
<1>2. CASE Pending' = Pending /\ captured' \in Nat /\ captured <= captured'
  <2>1. Rising(w, captured')
    BY <1>1, <1>2, RisingLater
  <2> QED BY <1>2, <2>1
<1>3. ASSUME NEW m \in Nat, Pending' = Pending \o NewFrames(m), captured' = captured + m
      PROVE  Rising(q \o Pending', captured')
  <2>1. NewFrames(m) \in Seq(Nat) /\ Rising(w \o NewFrames(m), captured + m)
    BY <1>1, RisingNew
  <2>2. w \o NewFrames(m) = q \o (Pending \o NewFrames(m))
    BY <1>1, <2>1, Associative, Zenon
  <2> QED BY <1>3, <2>1, <2>2
<1>4. captured' = captured => captured' \in Nat /\ captured <= captured'
  BY <1>1
<1> QED BY <1>2, <1>3, <1>4, ReadAddsToPending

\* The end of a read moves the frames the effects have given from the frames in
\* work to those heard.
LEMMA FinishRises ==
    ASSUME Inv, FinishRead, NEW q \in Seq(Nat), Rising(q \o Pending, captured)
    PROVE  Rising((q \o out) \o Pending', captured)
<1>1. Pending = out \o Pending' /\ out \in Seq(Nat) /\ Pending' \in Seq(Nat)
  BY FinishKeepsPending
<1>2. (q \o out) \o Pending' = q \o (out \o Pending')
  BY <1>1, Associative, Zenon
<1> QED BY <1>1, <1>2

\* What is left of a whole number of blocks after one of them.
LEMMA Division ==
    ASSUME NEW b \in Nat \ {0}, NEW l \in Nat
    PROVE  l \div b \in Int /\ l = b * (l \div b) + (l % b) /\ l % b \in 0..(b - 1)
OBVIOUS

LEMMA Product ==
    ASSUME NEW b \in Nat, NEW d \in Nat
    PROVE  b * d \in Nat
OBVIOUS

LEMMA WholeRest ==
    ASSUME NEW b \in Nat \ {0}, NEW l \in Nat \ {0}, l % b = 0
    PROVE  l >= b /\ (l - b) % b = 0
<1> DEFINE k == l \div b
<1>1. k \in Int /\ l = b * k
  BY Division
<1> HIDE DEF k
<1>2. k >= 1
  BY <1>1
<1>3. l - b = b * (k - 1)
  BY <1>1
<1>4. b * (k - 1) >= 0
  <2>1. k - 1 \in Nat /\ b \in Nat
    BY <1>1, <1>2
  <2> QED BY <2>1, Product
<1>5. l - b \in Nat
  BY <1>1, <1>3, <1>4
<1> DEFINE j == (l - b) \div b
           r == (l - b) % b
<1>6. j \in Int /\ l - b = b * j + r /\ r \in 0..(b - 1)
  BY <1>5, Division
<1> HIDE DEF j, r
<1>7. b * (k - 1 - j) = r
  BY <1>1, <1>3, <1>6
<1> DEFINE d == k - 1 - j
<1>8. d \in Int /\ b * d = r
  BY <1>1, <1>6, <1>7
<1> HIDE DEF d
<1>9. d <= 0
  <2> SUFFICES ASSUME d >= 1 PROVE FALSE
    BY <1>8
  <2>1. b * (d - 1) \in Nat
    <3>1. d - 1 \in Nat /\ b \in Nat
      BY <1>8
    <3> QED BY <3>1, Product
  <2>2. b * (d - 1) = b * d - b
    BY <1>8
  <2> QED BY <1>6, <1>8, <2>1, <2>2
<1>10. d >= 0
  <2> SUFFICES ASSUME d <= -1 PROVE FALSE
    BY <1>8
  <2>1. b * (-1 - d) \in Nat
    <3>1. -1 - d \in Nat /\ b \in Nat
      BY <1>8
    <3> QED BY <3>1, Product
  <2>2. b * (-1 - d) = -b - b * d
    BY <1>8
  <2> QED BY <1>6, <1>8, <2>1, <2>2
<1>11. r = 0
  BY <1>8, <1>9, <1>10
<1> QED BY <1>5, <1>11 DEF r

\* A read of no more than a block ends after one turn of the loop.
LEMMA ShortTurn ==
    ASSUME Inv, ProcessBlock, frames <= Block
    PROVE  LoopEnds'
<1>1. /\ Block \in Nat \ {0} /\ Len(cache) \in Nat /\ left \in Nat /\ Taken \in Nat
      /\ processed \in Nat /\ frames \in Nat
      /\ Taken = left \/ Len(cache) + Taken = Block
      /\ Len(Filled) = Len(cache) + Taken
      /\ Granted \in Nat
      /\ Granted = Len(Avail) \/ processed + Granted = frames
      /\ left' = left - Taken /\ processed' = processed + Granted
      /\ ready \in Seq(Nat)
      /\ Len(Avail) = Len(ready) + (IF Full THEN Len(Filled) ELSE 0)
  BY TurnParts
<1>2. frames' = frames
  BY DEF ProcessBlock
<1>3. CASE Len(cache) + Taken = Block
  <2>1. Len(Avail) = Len(ready) + Block /\ Len(ready) \in Nat
    BY <1>1, <1>3 DEF Full
  <2>2. processed' >= frames
    BY <1>1, <2>1
  <2> QED BY <1>2, <2>2 DEF LoopEnds
<1>4. CASE Taken = left
  BY <1>1, <1>4 DEF LoopEnds
<1> QED BY <1>1, <1>3, <1>4

\* A whole number of blocks goes through the library block by block.
LEMMA WholeTurn ==
    ASSUME Inv, ProcessBlock, cache = <<>>, ready = <<>>,
           processed + left = frames, left % Block = 0
    PROVE  /\ cache' = <<>> /\ ready' = <<>>
           /\ processed' + left' = frames' /\ left' % Block = 0
<1>1. /\ Block \in Nat \ {0} /\ left \in Nat /\ processed \in Nat /\ frames \in Nat
      /\ Taken \in Nat /\ Taken <= left /\ Len(cache) + Taken <= Block
      /\ Taken = left \/ Len(cache) + Taken = Block
      /\ Filled \in Seq(Nat) /\ Len(Filled) = Len(cache) + Taken
      /\ Avail \in Seq(Nat)
      /\ Len(Avail) = Len(ready) + (IF Full THEN Len(Filled) ELSE 0)
      /\ Granted \in Nat /\ Granted <= Len(Avail) /\ processed + Granted <= frames
      /\ Granted = Len(Avail) \/ processed + Granted = frames
      /\ cache' = IF Full THEN <<>> ELSE Filled
      /\ ready' = SubSeq(Avail, Granted + 1, Len(Avail))
      /\ left' = left - Taken
      /\ processed' = processed + Granted
  BY TurnParts
<1>2. frames' = frames /\ Block' = Block /\ left # 0
  BY DEF ProcessBlock, LoopEnds, Block
<1>3. left >= Block /\ (left - Block) % Block = 0
  BY <1>1, <1>2, WholeRest
<1>4. Len(cache) = 0 /\ Len(ready) = 0
  OBVIOUS
<1>5. Taken = Block /\ Len(Filled) = Block /\ Full
  BY <1>1, <1>3, <1>4 DEF Full
<1>6. Len(Avail) = Block
  BY <1>1, <1>4, <1>5
<1>7. Granted = Block
  BY <1>1, <1>3, <1>6
<1>8. ready' = <<>>
  <2>1. Granted + 1 \in Int /\ Len(Avail) \in Int /\ Len(Avail) < Granted + 1
    BY <1>1, <1>6, <1>7
  <2> QED BY <1>1, <2>1, SubSeqEmpty
<1> QED BY <1>1, <1>2, <1>3, <1>5, <1>7, <1>8

LEMMA OrderInit == Init => OrderInv
<1> SUFFICES ASSUME Init PROVE OrderInv
  OBVIOUS
<1>1. Inv
  BY InvInit
<1>2. /\ pc = "idle" /\ buffer = <<>> /\ framesIn = 0 /\ cache = <<>> /\ ready = <<>>
      /\ heard = <<>> /\ since = 0 /\ captured = 0
      /\ routed = FALSE /\ wanted = FALSE /\ effects = FALSE
  BY DEF Init
<1>3. <<>> \in Seq(Nat) /\ <<>> \o <<>> = <<>> /\ Len(<<>>) = 0
  <2>1. <<>> \in Seq(Nat) /\ Len(<<>>) = 0
    OBVIOUS
  <2> QED BY <2>1, ConcatEmptySeq
<1>4. Untaken = <<>>
  BY <1>2, <1>3, FramesNone DEF Untaken
<1>5. Pending = <<>>
  BY <1>2, <1>3, <1>4 DEF Pending, Fed
<1>6. HeardSince = <<>>
  BY <1>2, <1>3, SubSeqEmpty DEF HeardSince
<1>7. Rising(<<>>, captured)
  BY <1>2, RisingNone
<1>8. ChainOK
  <2>1. since \in 0..Len(heard)
    BY <1>2, <1>3
  <2> QED BY <1>2, <2>1 DEF ChainOK
<1>9. ShortOK /\ WholeOK
  BY <1>2 DEF ShortOK, WholeOK
<1>10. SessionOK /\ AllOK
  BY <1>2, <1>3, <1>5, <1>6, <1>7 DEF SessionOK, AllOK
<1> QED BY <1>1, <1>8, <1>9, <1>10 DEF OrderInv

LEMMA ChainNext ==
    ASSUME Inv, ChainOK, [Next]_vars
    PROVE  ChainOK'
<1> USE DEF procVars, loopVars, libVars, refVars
<1>0. heard \in Seq(Nat) /\ Len(heard) \in Nat
      /\ Requests \subseteq Nat /\ (setting' = setting => Requests' = Requests)
  BY CaptureAssumption DEF Inv, CountsOK, Requests
<1>1. ASSUME NEW s \in Seq(Nat), Deliver(s)
      PROVE  Len(heard') \in Nat /\ Len(heard) <= Len(heard')
  BY <1>0, <1>1, ConcatProperties DEF Deliver
<1>2. ASSUME NEW n \in Requests, ReadSilence(n)
      PROVE  ChainOK'
  BY <1>0, <1>2 DEF ReadSilence, ChainOK
<1>3. ASSUME NEW n \in Requests, ReadDirect(n)
      PROVE  ChainOK'
  <2>1. NewFrames(n) \in Seq(Nat)
    BY <1>0 DEF NewFrames, Inv, CountsOK
  <2>2. Len(heard') \in Nat /\ Len(heard) <= Len(heard')
    BY <1>0, <1>1, <1>3, <2>1 DEF ReadDirect
  <2> QED BY <1>0, <1>3, <2>2 DEF ReadDirect, ChainOK
<1>4. ASSUME NEW n \in Requests, ReadProcessed(n)
      PROVE  ChainOK'
  BY <1>0, <1>4 DEF ReadProcessed, ChainOK
<1>5. CASE ProcessBlock
  BY <1>0, <1>5 DEF ProcessBlock, ChainOK
<1>6. CASE FinishRead
  <2>1. Len(heard') \in Nat /\ Len(heard) <= Len(heard')
    BY <1>0, <1>1, <1>6 DEF FinishRead, Inv, CountsOK
  <2> QED BY <1>0, <1>6, <2>1 DEF FinishRead, ChainOK
<1>7. CASE FailRead
  <2>1. Frames(buffer, 0, framesIn) \in Seq(Nat)
    BY FramesSeq DEF Inv, CountsOK
  <2>2. Len(heard') \in Nat /\ Len(heard) <= Len(heard')
    BY <1>0, <1>1, <1>7, <2>1 DEF FailRead
  <2> QED BY <1>0, <1>7, <2>2 DEF FailRead, ChainOK
<1>8. CASE AttachRoute
  BY <1>0, <1>8 DEF AttachRoute, ChainOK
<1>9. CASE DetachRoute
  <2>1. /\ since' = Len(heard) /\ heard' = heard /\ ready' = <<>> /\ cache' = <<>>
        /\ pc = "idle" /\ pc' = "idle"
    BY <1>9 DEF DetachRoute, EndSession
  <2>2. since' \in 0..Len(heard')
    BY <1>0, <2>1
  <2>3. /\ effects' \in BOOLEAN /\ routed' \in BOOLEAN /\ wanted' \in BOOLEAN
        /\ effects' <=> routed' /\ wanted'
    BY <1>9 DEF DetachRoute, ChainOK
  <2> QED BY <2>1, <2>2, <2>3 DEF ChainOK
<1>10. CASE AddEffect
  BY <1>0, <1>10 DEF AddEffect, ChainOK
<1>11. CASE RemoveEffect
  <2>1. /\ since' = Len(heard) /\ heard' = heard /\ ready' = <<>> /\ cache' = <<>>
        /\ pc = "idle" /\ pc' = "idle"
    BY <1>11 DEF RemoveEffect, EndSession
  <2>2. since' \in 0..Len(heard')
    BY <1>0, <2>1
  <2>3. /\ effects' \in BOOLEAN /\ routed' \in BOOLEAN /\ wanted' \in BOOLEAN
        /\ effects' <=> routed' /\ wanted'
    BY <1>11 DEF RemoveEffect, ChainOK
  <2> QED BY <2>1, <2>2, <2>3 DEF ChainOK
<1>12. CASE UNCHANGED vars
  BY <1>0, <1>12 DEF vars, ChainOK
<1> QED
  BY <1>2, <1>3, <1>4, <1>5, <1>6, <1>7, <1>8, <1>9, <1>10, <1>11, <1>12 DEF Next

\* The setting, and with it what may be read and may fail, stays.
LEMMA SettingStays ==
    ASSUME [Next]_vars
    PROVE  /\ Requests' = Requests /\ Block' = Block /\ MayFail' = MayFail
           /\ WholeBlocks' = WholeBlocks /\ ShortReads' = ShortReads
           /\ Unrefused' = Unrefused
<1>1. setting' = setting
  BY DEF Next, vars, ReadSilence, ReadDirect, ReadProcessed, ProcessBlock, FinishRead, FailRead,
         AttachRoute, DetachRoute, AddEffect, RemoveEffect
<1> QED
  BY <1>1 DEF Requests, Block, MayFail, WholeBlocks, ShortReads, Unrefused

LEMMA ShortNext ==
    ASSUME OrderInv, [Next]_vars
    PROVE  ShortOK'
<1> USE DEF procVars, loopVars, libVars, refVars
<1> SUFFICES ASSUME Unrefused, ShortReads, pc' = "process", ~LoopEnds'
             PROVE  processed' = 0 /\ left' = framesIn'
  BY SettingStays DEF ShortOK
<1>1. Inv /\ ChainOK /\ ShortOK
  BY DEF OrderInv
<1>2. ASSUME NEW n \in Requests, ReadProcessed(n)
      PROVE  processed' = 0 /\ left' = framesIn'
  <2>1. "memory" \notin MayFail
    BY DEF Unrefused
  <2> QED BY <1>1, <1>2, <2>1, ReadAddsToPending
<1>3. CASE ProcessBlock
  <2>1. frames <= Block
    BY <1>1, <1>3 DEF ProcessBlock, ChainOK, ShortReads
  <2> QED BY <1>1, <1>3, <2>1, ShortTurn
<1>4. CASE UNCHANGED vars
  BY <1>1, <1>4 DEF vars, ShortOK, LoopEnds
<1> QED
  BY <1>2, <1>3, <1>4
     DEF Next, ReadSilence, ReadDirect, FinishRead, FailRead, AttachRoute, DetachRoute,
         AddEffect, RemoveEffect

LEMMA WholeNext ==
    ASSUME OrderInv, [Next]_vars
    PROVE  WholeOK'
<1> USE DEF procVars, loopVars, libVars, refVars
<1> SUFFICES ASSUME Unrefused, WholeBlocks
             PROVE  /\ ready' = <<>> /\ cache' = <<>>
                    /\ IF pc' = "process"
                       THEN /\ framesIn' = frames' /\ processed' + left' = frames'
                            /\ left' % Block = 0
                       ELSE framesIn' = 0
  BY SettingStays DEF WholeOK
<1> DEFINE Whole == /\ ready = <<>> /\ cache = <<>>
                    /\ IF pc = "process"
                       THEN /\ framesIn = frames /\ processed + left = frames
                            /\ left % Block = 0
                       ELSE framesIn = 0
<1>1. Inv /\ ChainOK /\ Whole /\ Block' = Block
  BY SettingStays DEF OrderInv, WholeOK
<1>2. ASSUME NEW n \in Requests, ReadProcessed(n)
      PROVE  Whole'
  <2>1. /\ "memory" \notin MayFail /\ pc = "idle" /\ framesIn = 0
        /\ UNCHANGED <<ready, cache>> /\ n % Block = 0
    BY <1>1, <1>2 DEF Unrefused, WholeBlocks, ReadProcessed
  <2>2. n \in Nat \ {0}
    BY <1>1, CaptureAssumption DEF Inv, CountsOK, Requests
  <2>3. /\ frames' = n
        /\ \/ pc' = "idle" /\ framesIn' = framesIn
           \/ n <= framesIn
           \/ pc' = "process" /\ processed' = 0 /\ left' = n /\ framesIn' = n
    BY <1>1, <1>2, <2>1, ReadAddsToPending
  <2> QED BY <1>1, <2>1, <2>2, <2>3
<1>3. CASE ProcessBlock
  <2>1. pc = "process" /\ UNCHANGED <<pc, frames, framesIn>>
    BY <1>3 DEF ProcessBlock
  <2>2. /\ cache' = <<>> /\ ready' = <<>>
        /\ processed' + left' = frames' /\ left' % Block = 0
    BY <1>1, <1>3, <2>1, WholeTurn
  <2> QED BY <1>1, <2>1, <2>2
<1>4. CASE FinishRead
  <2>1. /\ pc = "process" /\ pc' = "idle" /\ framesIn' = left
        /\ processed >= frames \/ left = 0
        /\ UNCHANGED <<ready, cache>>
    BY <1>4 DEF FinishRead, LeftOver, LoopEnds
  <2>2. processed + left = frames /\ processed \in Nat /\ left \in Nat
    BY <1>1, <2>1 DEF Inv, CountsOK
  <2>3. left = 0
    BY <2>1, <2>2
  <2> QED BY <1>1, <2>1, <2>3
<1>5. CASE UNCHANGED <<ready, cache, pc, framesIn>> /\ pc = "idle"
  BY <1>1, <1>5
<1>6. CASE UNCHANGED <<pc, framesIn>> /\ pc = "idle" /\ EndSession
  BY <1>1, <1>6 DEF EndSession
<1>7. CASE UNCHANGED vars
  BY <1>1, <1>7 DEF vars
<1>8. ~FailRead
  BY DEF FailRead, Unrefused
<1>9. ASSUME (\E n \in Requests : ReadSilence(n) \/ ReadDirect(n)) \/ AttachRoute \/ AddEffect
      PROVE  UNCHANGED <<ready, cache, pc, framesIn>> /\ pc = "idle"
  BY <1>9 DEF ReadSilence, ReadDirect, AttachRoute, AddEffect
<1>10. ASSUME DetachRoute \/ RemoveEffect
       PROVE  UNCHANGED <<pc, framesIn>> /\ pc = "idle" /\ EndSession
  BY <1>10 DEF DetachRoute, RemoveEffect
<1>11. CASE \E n \in Requests : ReadProcessed(n)
  BY <1>1, <1>2, <1>11
<1> HIDE DEF Whole
<1>12. \/ \E n \in Requests : ReadProcessed(n)
       \/ (\E n \in Requests : ReadSilence(n) \/ ReadDirect(n)) \/ AttachRoute \/ AddEffect
       \/ ProcessBlock \/ FinishRead \/ DetachRoute \/ RemoveEffect \/ UNCHANGED vars
  BY <1>8 DEF Next
<1> QED BY <1>3, <1>4, <1>5, <1>6, <1>7, <1>9, <1>10, <1>11, <1>12

\* In the loop, the library reads its input from where it has left it.
LEMMA InputFollows ==
    ASSUME OrderInv, Unrefused, WholeBlocks \/ ShortReads, ProcessBlock
    PROVE  processed = framesIn - left
<1>1. /\ pc = "process" /\ ~LoopEnds
      /\ processed \in Nat /\ left \in Nat /\ framesIn \in Nat
  BY DEF ProcessBlock, OrderInv, Inv, CountsOK
<1>2. CASE WholeBlocks
  BY <1>1, <1>2 DEF OrderInv, WholeOK
<1>3. CASE ShortReads
  BY <1>1, <1>3 DEF OrderInv, ShortOK
<1> QED BY <1>2, <1>3

\* What was heard after the chain last changed, when frames are delivered.
LEMMA HeardSinceMore ==
    ASSUME Inv, ChainOK, NEW s \in Seq(Nat), heard' = heard \o s, since' = since
    PROVE  HeardSince' = HeardSince \o s
<1>1. heard \in Seq(Nat) /\ since \in 0..Len(heard)
  BY DEF Inv, CountsOK, ChainOK
<1> QED BY <1>1, HeardMore, Zenon DEF HeardSince

LEMMA SessionNext ==
    ASSUME OrderInv, [Next]_vars
    PROVE  SessionOK'
<1> USE DEF procVars, loopVars, libVars, refVars
<1> DEFINE Session == IF effects THEN Rising(HeardSince \o Pending, captured)
                      ELSE Rising(HeardSince, captured) /\ Rising(Pending, captured)
<1> SUFFICES ASSUME Unrefused, WholeBlocks \/ ShortReads
             PROVE  Session'
  BY SettingStays DEF SessionOK
<1>1. Inv /\ ChainOK /\ Session
  BY DEF OrderInv, SessionOK
<1>2. /\ captured \in Nat /\ heard \in Seq(Nat) /\ HeardSince \in Seq(Nat)
      /\ Pending \in Seq(Nat)
  BY <1>1, PendingSeq DEF Inv, CountsOK
<1>3. Rising(HeardSince, captured) /\ Rising(Pending, captured)
  BY <1>1, <1>2, RisingParts
<1>4. "memory" \notin MayFail /\ ~FailRead
  BY DEF Unrefused, FailRead
<1>5. ASSUME NEW n \in Requests, ReadSilence(n)
      PROVE  Session'
  <2>1. UNCHANGED <<effects, HeardSince, Pending, captured>>
    BY <1>5 DEF ReadSilence, HeardSince, Pending, Fed, Untaken
  <2> QED BY <1>1, <2>1
<1>6. ASSUME NEW n \in Requests, ReadDirect(n)
      PROVE  Session'
  <2>1. n \in Nat
    BY <1>1, CaptureAssumption DEF Inv, CountsOK, Requests
  <2>2. /\ ~effects' /\ Pending' = Pending /\ captured' = captured + n
        /\ since' = since
        /\ heard' = heard \/ heard' = heard \o NewFrames(n)
    BY <1>6 DEF ReadDirect, Deliver, Pending, Fed, Untaken
  <2>3. captured + n \in Nat /\ captured <= captured + n
    BY <1>2, <2>1
  <2>4. Rising(Pending, captured + n) /\ Rising(HeardSince, captured + n)
    BY <1>2, <1>3, <2>3, RisingLater
  <2>5. CASE heard' = heard
    <3>1. HeardSince' = HeardSince
      BY <2>2, <2>5 DEF HeardSince
    <3> QED BY <2>2, <2>4, <3>1
  <2>6. CASE heard' = heard \o NewFrames(n)
    <3>1. NewFrames(n) \in Seq(Nat) /\ Rising(HeardSince \o NewFrames(n), captured + n)
      BY <1>2, <1>3, <2>1, RisingNew
    <3>2. HeardSince' = HeardSince \o NewFrames(n)
      BY <1>1, <2>2, <2>6, <3>1, HeardSinceMore
    <3> QED BY <2>2, <2>4, <3>1, <3>2
  <2> QED BY <2>2, <2>5, <2>6
<1>7. ASSUME NEW n \in Requests, ReadProcessed(n)
      PROVE  Session'
  <2>1. effects /\ effects' = effects /\ HeardSince' = HeardSince
    BY <1>7 DEF ReadProcessed, HeardSince
  <2>2. Rising(HeardSince \o Pending, captured)
    BY <1>1, <2>1
  <2>3. Rising(HeardSince \o Pending', captured')
    BY <1>1, <1>2, <1>4, <1>7, <2>2, ReadRises
  <2> QED BY <2>1, <2>3
<1>8. CASE ProcessBlock
  <2>1. UNCHANGED <<effects, HeardSince, captured>>
    BY <1>8 DEF ProcessBlock, HeardSince
  <2>2. Pending' = Pending
    BY <1>1, <1>8, InputFollows, TurnKeepsPending
  <2> QED BY <1>1, <2>1, <2>2
<1>9. CASE FinishRead
  <2>1. effects /\ UNCHANGED <<effects, captured, since>>
    BY <1>1, <1>9 DEF FinishRead, ChainOK
  <2>2. heard' = heard \o out /\ out \in Seq(Nat)
    BY <1>1, <1>9, FinishKeepsPending
  <2>3. HeardSince' = HeardSince \o out
    BY <1>1, <2>1, <2>2, HeardSinceMore
  <2>4. Rising(HeardSince \o Pending, captured)
    BY <1>1, <2>1
  <2>5. Rising((HeardSince \o out) \o Pending', captured)
    BY <1>1, <1>2, <1>9, <2>4, FinishRises
  <2> QED BY <2>1, <2>3, <2>5
<1>10. ASSUME since' = Len(heard), heard' = heard, captured' = captured
       PROVE  HeardSince' = <<>> /\ Rising(HeardSince', captured')
  <2>1. HeardSince' = <<>>
    BY <1>2, <1>10, HeardNone DEF HeardSince
  <2> QED BY <1>2, <1>10, <2>1, RisingNone
<1>11. CASE AttachRoute \/ AddEffect
  <2>1. since' = Len(heard) /\ UNCHANGED <<heard, captured, Pending>>
    BY <1>11 DEF AttachRoute, AddEffect, Pending, Fed, Untaken
  <2>2. HeardSince' = <<>> /\ Rising(HeardSince', captured')
    BY <1>10, <2>1
  <2>3. HeardSince' \o Pending' = Pending
    BY <1>2, <2>1, <2>2, ConcatEmptySeq
  <2> QED BY <1>3, <2>1, <2>2, <2>3
<1>12. CASE DetachRoute \/ RemoveEffect
  <2>1. /\ pc = "idle" /\ ~effects' /\ since' = Len(heard)
        /\ ready' = <<>> /\ cache' = <<>>
        /\ UNCHANGED <<pc, heard, captured, Untaken>>
    BY <1>12 DEF DetachRoute, RemoveEffect, EndSession, Untaken
  <2>2. HeardSince' = <<>> /\ Rising(HeardSince', captured')
    BY <1>10, <2>1
  <2>3. Untaken \in Seq(Nat) /\ Rising(Untaken, captured)
    BY <1>1, <1>3, <2>1, UntakenRises
  <2>4. Pending' = <<>> \o (<<>> \o (<<>> \o Untaken))
    BY <2>1 DEF Pending, Fed
  <2>5. <<>> \o Untaken = Untaken
    BY <2>3, ConcatEmptySeq
  <2>6. Pending' = Untaken
    BY <2>4, <2>5
  <2> QED BY <2>1, <2>2, <2>3, <2>6
<1>13. CASE UNCHANGED vars
  <2>1. UNCHANGED <<effects, HeardSince, Pending, captured>>
    BY <1>13 DEF vars, HeardSince, Pending, Fed, Untaken
  <2> QED BY <1>1, <2>1
<1> QED
  BY <1>4, <1>5, <1>6, <1>7, <1>8, <1>9, <1>11, <1>12, <1>13 DEF Next

LEMMA AllNext ==
    ASSUME OrderInv, [Next]_vars
    PROVE  AllOK'
<1> USE DEF procVars, loopVars, libVars, refVars
<1> SUFFICES ASSUME Unrefused, WholeBlocks
             PROVE  Rising(heard' \o Pending', captured')
  BY SettingStays DEF AllOK
<1>1. Inv /\ ChainOK /\ Rising(heard \o Pending, captured)
  BY DEF OrderInv, AllOK
<1>2. captured \in Nat /\ heard \in Seq(Nat) /\ Pending \in Seq(Nat)
  BY <1>1, PendingSeq DEF Inv, CountsOK
<1>3. Rising(heard, captured)
  BY <1>1, <1>2, RisingParts
<1>4. "memory" \notin MayFail /\ ~FailRead
  BY DEF Unrefused, FailRead
<1>5. pc = "idle" => Pending = <<>> /\ ready = <<>> /\ cache = <<>> /\ framesIn = 0
  <2> SUFFICES ASSUME pc = "idle"
               PROVE  Pending = <<>> /\ ready = <<>> /\ cache = <<>> /\ framesIn = 0
    OBVIOUS
  <2>1. ready = <<>> /\ cache = <<>> /\ framesIn = 0
    BY DEF OrderInv, WholeOK
  <2>2. Untaken = <<>>
    BY <1>1, <2>1, FramesNone DEF Untaken, Inv, CountsOK
  <2>3. <<>> \o <<>> = <<>>
    OBVIOUS
  <2>4. Pending = <<>>
    BY <2>1, <2>2, <2>3 DEF Pending, Fed
  <2> QED BY <2>1, <2>4
<1>6. ASSUME NEW n \in Requests, ReadDirect(n)
      PROVE  Rising(heard' \o Pending', captured')
  <2>1. n \in Nat
    BY <1>1, CaptureAssumption DEF Inv, CountsOK, Requests
  <2>2. /\ pc = "idle" /\ Pending' = Pending /\ captured' = captured + n
        /\ heard' = heard \/ heard' = heard \o NewFrames(n)
    BY <1>6 DEF ReadDirect, Deliver, Pending, Fed, Untaken
  <2>3. captured + n \in Nat /\ captured <= captured + n
    BY <1>2, <2>1
  <2>4. /\ Rising(heard, captured + n)
        /\ NewFrames(n) \in Seq(Nat) /\ Rising(heard \o NewFrames(n), captured + n)
    BY <1>2, <1>3, <2>1, <2>3, RisingLater, RisingNew
  <2>5. heard' \in Seq(Nat) /\ Rising(heard', captured')
    BY <1>2, <2>2, <2>4, ConcatProperties
  <2>6. heard' \o Pending' = heard'
    BY <1>5, <2>2, <2>5, ConcatEmptySeq
  <2> QED BY <2>5, <2>6
<1>7. ASSUME NEW n \in Requests, ReadProcessed(n)
      PROVE  Rising(heard' \o Pending', captured')
  <2>1. heard' = heard
    BY <1>7 DEF ReadProcessed
  <2>2. Rising(heard \o Pending', captured')
    BY <1>1, <1>2, <1>4, <1>7, ReadRises
  <2> QED BY <2>1, <2>2
<1>8. CASE ProcessBlock
  <2>1. UNCHANGED <<heard, captured>>
    BY <1>8 DEF ProcessBlock
  <2>2. Pending' = Pending
    BY <1>1, <1>8, InputFollows, TurnKeepsPending
  <2> QED BY <1>1, <2>1, <2>2
<1>9. CASE FinishRead
  <2>1. captured' = captured /\ heard' = heard \o out
    BY <1>1, <1>9, FinishKeepsPending DEF FinishRead
  <2>2. Rising((heard \o out) \o Pending', captured)
    BY <1>1, <1>2, <1>9, FinishRises
  <2> QED BY <2>1, <2>2
<1>10. CASE UNCHANGED <<heard, captured, Pending>>
  BY <1>1, <1>10
<1>11. CASE DetachRoute \/ RemoveEffect
  <2>1. /\ pc = "idle" /\ ready' = <<>> /\ cache' = <<>>
        /\ UNCHANGED <<pc, heard, captured, buffer, framesIn>>
    BY <1>11 DEF DetachRoute, RemoveEffect, EndSession
  <2>2. Pending' = Pending
    BY <1>5, <2>1 DEF Pending, Fed, Untaken
  <2> QED BY <1>1, <2>1, <2>2
<1>12. ASSUME (\E n \in Requests : ReadSilence(n)) \/ AttachRoute \/ AddEffect \/ UNCHANGED vars
       PROVE  UNCHANGED <<heard, captured, Pending>>
  BY <1>12 DEF ReadSilence, AttachRoute, AddEffect, vars, Pending, Fed, Untaken
<1> QED
  BY <1>4, <1>6, <1>7, <1>8, <1>9, <1>10, <1>11, <1>12 DEF Next

-----------------------------------------------------------------------------
(* Theorems.                                                               *)

LEMMA AlwaysInv == Spec => []Inv
BY InvInit, InvNext, PTL DEF Spec

\* The processing buffer and the reference buffer have room for the frames that
\* are counted in them, for reads of any sizes in any order, effects that refuse
\* blocks and conversions that fail, as long as memory can be had.
THEOREM BuffersFit == Spec => []FitsMemory
<1>1. Inv => FitsMemory
  BY DEF Inv, CountsOK, MemoryOK, FitsMemory
<1> QED BY AlwaysInv, <1>1, PTL

\* No frame that is in work is lost or made up, whatever the sizes of reads and
\* blocks and however much the library holds back.
THEOREM NoFrameIsLost == Spec => NoFrameLost
<1>1. ASSUME Inv, [Next]_vars, pc = "process", "effect" \notin MayFail
      PROVE  Kept' = Kept
  <2>1. CASE ProcessBlock
    <3>1. Len(cache') + Len(ready') + Len(out') + left'
            = Len(cache) + Len(ready) + Len(out) + left
      BY <1>1, <2>1, TurnOfTheLoop
    <3>2. pc' = pc /\ heard' = heard
      BY <2>1 DEF ProcessBlock
    <3>3. /\ cache' \in Seq(Nat) /\ ready' \in Seq(Nat) /\ out' \in Seq(Nat) /\ left' \in Nat
          /\ cache \in Seq(Nat) /\ ready \in Seq(Nat) /\ out \in Seq(Nat) /\ left \in Nat
          /\ heard \in Seq(Nat)
      BY <1>1, <2>1, TurnOfTheLoop DEF Inv, CountsOK
    <3>4. /\ Len(cache') \in Nat /\ Len(ready') \in Nat /\ Len(out') \in Nat
          /\ Len(cache) \in Nat /\ Len(ready) \in Nat /\ Len(out) \in Nat
          /\ Len(heard) \in Nat
      BY <3>3
    <3>5. Kept = Len(heard) + Len(ready) + Len(cache) + (Len(out) + left)
      BY <1>1 DEF Kept
    <3>6. Kept' = Len(heard) + Len(ready') + Len(cache') + (Len(out') + left')
      BY <1>1, <3>2 DEF Kept
    <3> QED BY <3>1, <3>3, <3>4, <3>5, <3>6
  <2>2. CASE FinishRead
    <3>1. /\ pc' = "idle" /\ framesIn' = left /\ heard' = heard \o out
          /\ UNCHANGED <<ready, cache>>
      BY <2>2 DEF FinishRead, LeftOver, Deliver, libVars
    <3>2. /\ heard \in Seq(Nat) /\ out \in Seq(Nat) /\ ready \in Seq(Nat)
          /\ cache \in Seq(Nat) /\ left \in Nat
      BY <1>1 DEF Inv, CountsOK
    <3>3. Len(heard') = Len(heard) + Len(out)
      BY <3>1, <3>2, ConcatProperties
    <3>4. Len(heard) \in Nat /\ Len(out) \in Nat /\ Len(ready) \in Nat /\ Len(cache) \in Nat
      BY <3>2
    <3>5. Kept = Len(heard) + Len(ready) + Len(cache) + (Len(out) + left)
      BY <1>1 DEF Kept
    <3>6. Kept' = Len(heard') + Len(ready) + Len(cache) + left
      BY <3>1 DEF Kept
    <3> QED BY <3>2, <3>3, <3>4, <3>5, <3>6
  <2>3. CASE UNCHANGED vars
    BY <2>3 DEF vars, procVars, loopVars, libVars, Kept
  <2> QED
    BY <1>1, <2>1, <2>2, <2>3
       DEF Next, ReadSilence, ReadDirect, ReadProcessed, FailRead, AttachRoute,
           DetachRoute, AddEffect, RemoveEffect
<1>2. Inv /\ [Next]_vars => [pc = "process" /\ "effect" \notin MayFail => Kept' = Kept]_vars
  BY <1>1
<1> QED BY AlwaysInv, <1>2, PTL DEF Spec, NoFrameLost

LEMMA AlwaysOrderInv == Spec => []OrderInv
<1>1. OrderInv /\ [Next]_vars => OrderInv'
  <2> SUFFICES ASSUME OrderInv, [Next]_vars PROVE OrderInv'
    OBVIOUS
  <2>1. Inv' /\ ChainOK'
    BY InvNext, ChainNext DEF OrderInv
  <2>2. ShortOK' /\ WholeOK'
    BY ShortNext, WholeNext
  <2>3. SessionOK' /\ AllOK'
    BY SessionNext, AllNext
  <2> QED BY <2>1, <2>2, <2>3 DEF OrderInv
<1> QED BY OrderInit, <1>1, PTL DEF Spec

\* As long as route and effects stay as they are, a client hears every captured
\* frame at most once, in the order of capture, and never what was in a buffer
\* before: for reads of any sizes up to a block, or of any numbers of blocks, in
\* any order, whatever the library and the processing buffer keep from one to
\* the next, and reads that fail.
THEOREM SessionsAreInOrder == Spec => []SessionInOrder
<1>1. OrderInv => SessionInOrder
  <2> SUFFICES ASSUME OrderInv, Unrefused, WholeBlocks \/ ShortReads,
                      NEW i \in DOMAIN heard, NEW j \in DOMAIN heard, since < i, i < j
               PROVE  0 < heard[i] /\ heard[i] < heard[j]
    BY DEF SessionInOrder, InOrder
  <2>1. /\ Inv /\ ChainOK /\ captured \in Nat /\ heard \in Seq(Nat)
        /\ HeardSince \in Seq(Nat) /\ Pending \in Seq(Nat)
    BY PendingSeq DEF OrderInv, Inv, CountsOK
  <2>2. Rising(HeardSince, captured)
    BY <2>1, RisingParts DEF OrderInv, SessionOK
  <2>3. since \in 0..Len(heard) /\ Len(heard) \in Nat /\ i \in 1..Len(heard) /\ j \in 1..Len(heard)
    BY <2>1 DEF ChainOK
  <2>4. /\ Len(HeardSince) = Len(heard) - since
        /\ \A k \in 1..(Len(heard) - since) : HeardSince[k] = heard[since + k]
    BY <2>1, <2>3 DEF HeardSince
  <2>5. i - since \in 1..Len(HeardSince) /\ j - since \in 1..Len(HeardSince) /\ i - since < j - since
    BY <2>3, <2>4
  <2>6. HeardSince[i - since] = heard[i] /\ HeardSince[j - since] = heard[j]
    <3>1. since + (i - since) = i /\ since + (j - since) = j
      BY <2>3
    <3> QED BY <2>4, <2>5, <3>1
  <2>7. HeardSince[i - since] \in 1..captured /\ HeardSince[i - since] < HeardSince[j - since]
    BY <2>2, <2>5 DEF Rising
  <2> QED BY <2>1, <2>6, <2>7
<1> QED BY AlwaysOrderInv, <1>1, PTL

\* For reads of whole blocks it is so across all that changes between them:
\* effects that come and go, routes that are attached and detached, conversions
\* that fail.
THEOREM FramesAreInOrder == Spec => []FramesInOrder
<1>1. OrderInv => FramesInOrder
  <2> SUFFICES ASSUME OrderInv, Unrefused, WholeBlocks,
                      NEW i \in DOMAIN heard, NEW j \in DOMAIN heard, i < j
               PROVE  0 < heard[i] /\ heard[i] < heard[j]
    BY DEF FramesInOrder, InOrder
  <2>1. captured \in Nat /\ heard \in Seq(Nat) /\ Pending \in Seq(Nat)
    BY PendingSeq DEF OrderInv, Inv, CountsOK
  <2>2. Rising(heard, captured)
    BY <2>1, RisingParts DEF OrderInv, AllOK
  <2>3. i \in 1..Len(heard) /\ j \in 1..Len(heard)
    BY <2>1
  <2> QED BY <2>1, <2>2, <2>3 DEF Rising
<1> QED BY AlwaysOrderInv, <1>1, PTL
-----------------------------------------------------------------------------
(* How long a read takes, and how much it returns.                         *)

\* A turn of the loop takes at least one of the frames that are left.
TurnTakesFrames == [][ProcessBlock => left \in Nat /\ left' \in Nat /\ left' < left]_vars

\* Each turn of the loop in doProcessFrames takes input, however much the
\* library holds back and whatever it gives: the loop that processFrames begins
\* with framesIn frames ends after at most so many turns, for every size of
\* blocks and reads.
THEOREM LoopMakesProgress == Spec => TurnTakesFrames
<1>1. ASSUME Inv, ProcessBlock
      PROVE  left \in Nat /\ left' \in Nat /\ left' < left
  <2>1. /\ Block \in Nat /\ Len(cache) \in Nat /\ Len(cache) < Block /\ left \in Nat
        /\ Taken \in Nat /\ Taken <= left
        /\ Taken = left \/ Len(cache) + Taken = Block
        /\ left' = left - Taken
    BY <1>1, TurnParts
  <2>2. left # 0
    BY <1>1 DEF ProcessBlock, LoopEnds
  <2>3. Taken # 0
    BY <2>1, <2>2
  <2> QED BY <2>1, <2>3
<1>2. Inv /\ [Next]_vars => [ProcessBlock => left \in Nat /\ left' \in Nat /\ left' < left]_vars
  BY <1>1
<1> QED BY AlwaysInv, <1>2, PTL DEF Spec, TurnTakesFrames

\* What the loop counts as processed is in the client's buffer; a read without
\* refusals returns no more than was asked for.
ReturnsOK ==
    /\ got \in Nat
    /\ pc = "process" => Len(out) = processed
    /\ "effect" \notin MayFail => NeverTooMany

LEMMA ReturnsNext ==
    ASSUME Inv, ReturnsOK, [Next]_vars
    PROVE  ReturnsOK'
<1> USE DEF procVars, loopVars, libVars, refVars
<1>0. /\ Requests \subseteq Nat \ {0} /\ frames \in Nat /\ captured \in Nat
      /\ out \in Seq(Nat) /\ heard \in Seq(Nat) /\ got \in Nat
      /\ pc \in {"idle", "process"} /\ (pc = "process" => processed <= frames)
  BY CaptureAssumption DEF Inv, CountsOK, Requests, ReturnsOK
<1>1. ASSUME NEW n \in Requests, ReadSilence(n)
      PROVE  ReturnsOK'
  BY <1>0, <1>1 DEF ReadSilence, ReturnsOK, NeverTooMany
<1>2. ASSUME NEW n \in Requests, ReadDirect(n)
      PROVE  ReturnsOK'
  <2>1. n \in Nat /\ Len(NewFrames(n)) = n
    BY <1>0 DEF NewFrames
  <2>2. got' \in {0, n} /\ frames' = n /\ pc' = "idle"
    BY <1>2, <2>1 DEF ReadDirect, Deliver
  <2> QED BY <2>1, <2>2 DEF ReturnsOK, NeverTooMany
<1>3. ASSUME NEW n \in Requests, ReadProcessed(n)
      PROVE  ReturnsOK'
  <2>1. n \in Nat /\ frames' = n /\ pc = "idle"
    BY <1>0, <1>3 DEF ReadProcessed
  <2>2. \/ got' = 0 /\ pc' = "idle"
        \/ got' = got /\ pc' = "process" /\ processed' = 0 /\ out' = <<>>
    BY <1>3, <2>1 DEF ReadProcessed
  <2> QED BY <1>0, <2>1, <2>2 DEF ReturnsOK, NeverTooMany
<1>4. CASE ProcessBlock
  <2>1. /\ Avail \in Seq(Nat) /\ Granted \in Nat /\ Granted <= Len(Avail)
        /\ out' = out \o SubSeq(Avail, 1, Granted) /\ processed' = processed + Granted
        /\ pc = "process" /\ pc' = pc /\ got' = got
    BY <1>4, TurnParts DEF ProcessBlock
  <2> DEFINE put == SubSeq(Avail, 1, Granted)
  <2>2. put \in Seq(Nat) /\ Len(put) = Granted
    BY <2>1
  <2> HIDE DEF put
  <2>3. Len(out \o put) = Len(out) + Len(put)
    BY <1>0, <2>2, ConcatProperties
  <2>4. Len(out') = processed'
    BY <2>1, <2>2, <2>3 DEF put, ReturnsOK
  <2> QED BY <1>0, <2>1, <2>4 DEF ReturnsOK, NeverTooMany
<1>5. CASE FinishRead
  <2>1. got' = Len(out) /\ frames' = frames /\ pc' = "idle" /\ pc = "process"
    BY <1>5 DEF FinishRead, Deliver
  <2>2. Len(out) = processed /\ Len(out) \in Nat
    BY <1>0, <2>1 DEF ReturnsOK
  <2> QED BY <1>0, <2>1, <2>2 DEF ReturnsOK, NeverTooMany
<1>6. CASE FailRead
  <2>1. "effect" \in MayFail /\ setting' = setting /\ pc' = "idle"
    BY <1>6 DEF FailRead
  <2>2. Len(Frames(buffer, 0, framesIn)) \in Nat
    BY FramesSeq DEF Inv, CountsOK
  <2> QED BY <1>6, <2>1, <2>2 DEF FailRead, Deliver, ReturnsOK, MayFail
<1>7. CASE AttachRoute \/ DetachRoute \/ AddEffect \/ RemoveEffect \/ UNCHANGED vars
  BY <1>7 DEF AttachRoute, DetachRoute, AddEffect, RemoveEffect, vars, ReturnsOK,
              NeverTooMany, MayFail
<1> QED
  BY <1>1, <1>2, <1>3, <1>4, <1>5, <1>6, <1>7 DEF Next

\* A read never returns more frames than its client has room for, as long as no
\* effect refuses a block: silence, frames read directly, and whatever the
\* library held back from the reads before.  A refused block breaks it.
THEOREM ReadsFitTheClient == Spec => []("effect" \notin MayFail => NeverTooMany)
<1>1. Init => ReturnsOK
  BY DEF Init, ReturnsOK, NeverTooMany
<1>2. Inv /\ ReturnsOK /\ [Next]_vars => ReturnsOK'
  BY ReturnsNext
<1>3. ReturnsOK => ("effect" \notin MayFail => NeverTooMany)
  BY DEF ReturnsOK
<1> QED BY AlwaysInv, <1>1, <1>2, <1>3, PTL DEF Spec
=============================================================================
