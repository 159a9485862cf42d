--------------------------- MODULE AudioConversion ---------------------------
(***************************************************************************)
(* The conversion chain of a stream: AudioConversion with its remapper,    *)
(* reformatter and resampler.  Each time the stream is attached to a route *)
(* the chain is configured again, by the same converter objects; an input  *)
(* stream then asks it for an exact number of frames, and what was         *)
(* converted beyond that stays for the next read.  One thread at a time    *)
(* uses it, with the stream lock held.                                     *)
(***************************************************************************)
EXTENDS Integers, Sequences, SequencesExt, FiniteSetsExt

CONSTANTS
    Clients,       \* the streams: [out |-> direction, spec |-> sample specification]
    OutSpecs, InSpecs, \* the specifications of the routes, playback and capture
    Supported(_, _), \* iaresamplib_supported_conversion
    Requests,      \* the numbers of frames a client reads or writes
    MaxHwFrames,   \* mHwBufferSize, in frames
    MaxFrames,     \* bound on the frames one attachment converts
    MaxAttached,   \* bound on the attachments
    Samples,       \* signed samples to remap
    Words          \* the words of an 8.24 sample: 2^32

Copy == "copy"
Average == "average"
Ignore == "ignore"
S16 == 1   \* AUDIO_FORMAT_PCM_16_BIT
S24 == 4   \* AUDIO_FORMAT_PCM_8_24_BIT
PIVOT_SAMPLE_RATE == 48000
MAX_RATE == 92000
MIN_RATE == 8000
Margin == (MAX_RATE \div MIN_RATE) * 2
Items == {"channels", "format", "rate"}

SampleSpec(format, rate, policy) ==
    [channels |-> Len(policy), format |-> format, rate |-> rate, policy |-> policy]
DefaultSpec == SampleSpec(S16, 48000, <<Copy, Copy>>)

\* The channels with valid audio data
Valid(spec) == {i \in 1..spec.channels : spec.policy[i] # Ignore}

\* No client and no route has channels to ignore only.
IsSpec(s) ==
    /\ s \in [channels : 1..2, format : {S16, S24}, rate : Nat \ {0},
              policy : Seq({Copy, Average, Ignore})]
    /\ Valid(s) # {}

\* The samples of a format, 2^16 and 2^24
Span(format) == IF format = S16 THEN 65536 ELSE 16777216

ASSUME ConversionAssumption ==
    /\ \A c \in Clients : c.out \in BOOLEAN /\ IsSpec(c.spec)
    /\ \A s \in OutSpecs \cup InSpecs : IsSpec(s) /\ s.format = S16
    /\ Requests \subseteq Nat \ {0} /\ {MaxHwFrames, MaxFrames, MaxAttached} \subseteq Nat
    /\ Samples \subseteq Int /\ Words \in Nat \ {0} /\ Words % (2 * Span(S24)) = 0

VARIABLES
    client,    \* the stream
    attached,  \* how often it was attached
    widths,    \* history: the channels there were to resample, at each attachment
    ends,      \* _ssSrc and _ssDst, once configured
    status,    \* "none", or what configure returned: "ok", "error"
    chain,     \* _activeAudioConvList: the converters with their specifications
    resampler, pivot, \* the two Resampler objects of AudioResampler
    size,      \* _convOutBufferSizeInFrames
    frames,    \* _convOutFrames
    index,     \* _convOutBufferIndex, in frames
    buffer,    \* _convOutBuffer: frames by number, 0 what was never written
    made,      \* history: the frames converted since the chain was configured
    want,      \* what getConvertedBuffer was asked for, 0 outside
    missing,   \* framesRequested
    given,     \* history: the frames the last read returned
    heard,     \* history: how many frames the reads before it have returned
    wrote      \* history: the frames of the last write, and what it returned

bufferVars == <<size, frames, index, buffer, made, want, missing, given, heard>>
vars == <<client, attached, widths, ends, status, chain, resampler, pivot, bufferVars, wrote>>

-----------------------------------------------------------------------------
(* Configuring the chain.                                                  *)

\* isSampleSpecItemEqual
ItemEqual(item, s, d) == s[item] = d[item] /\ (item = "channels" => s.policy = d.policy)
Others(item) == Items \ {item}

\* AudioConverter::configure
Convertible(item, s, d) ==
    /\ ~ItemEqual(item, s, d)
    /\ \A other \in Others(item) : ItemEqual(other, s, d)

NoContext == [channels |-> 0, from |-> 0, to |-> 0]
Idle == [src |-> DefaultSpec, dst |-> DefaultSpec, context |-> NoContext]

\* Resampler::configure.  The rates it has already are taken as they are.
Configured_ByDst(r, s, d) == r.dst.rate = d.rate /\ r.context # NoContext
Configured(r, s, d) ==
    r.src.rate = s.rate /\ r.dst.rate = d.rate /\ r.context # NoContext
Resamples(r, s, d) ==
    Configured(r, s, d) \/ (Convertible("rate", s, d) /\ Supported(s.rate, d.rate))
Resampler(r, s, d) ==
    IF Configured(r, s, d) THEN r
    ELSE [src |-> s, dst |-> d, context |->
            IF ~Convertible("rate", s, d) THEN r.context
            ELSE IF Supported(s.rate, d.rate)
            THEN [channels |-> s.channels, from |-> s.rate, to |-> d.rate]
            ELSE NoContext]

\* A configuration in progress: the specification reached, the chain so far,
\* the two resamplers and whether all went well.
Stage(item, s, d, by) == [item |-> item, src |-> s, dst |-> d, by |-> by]
Added(x, item, d, by) ==
    [x EXCEPT !.reached = d, !.chain = Append(@, Stage(item, x.reached, d, by))]

\* AudioResampler::configure: one resampler, or two over the pivot rate
AddResampler(x, d) ==
    LET s == x.reached
        one == Resampler(x.resampler, s, d)
        mid == [d EXCEPT !.rate = PIVOT_SAMPLE_RATE]
        first == Resampler(x.pivot, s, mid)
        last == Resampler(one, mid, d)
    IN  IF Resamples(x.resampler, s, d)
        THEN [Added(x, "rate", d, <<one.context>>) EXCEPT !.resampler = one]
        ELSE IF ~Resamples(x.pivot, s, mid)
        THEN [x EXCEPT !.ok = FALSE, !.resampler = one, !.pivot = first]
        ELSE IF ~Resamples(one, mid, d)
        THEN [x EXCEPT !.ok = FALSE, !.resampler = last, !.pivot = first]
        ELSE [Added(x, "rate", d, <<first.context, last.context>>)
                EXCEPT !.resampler = last, !.pivot = first]

\* AudioRemapper::configure: not between two mono specifications
Remappable(s, d) == {s.channels, d.channels} # {1}

\* doConfigureAndAddConverter
Add(x, item, dst) ==
    LET d == IF item = "channels"
             THEN [x.reached EXCEPT !.channels = dst.channels, !.policy = dst.policy]
             ELSE [x.reached EXCEPT ![item] = dst[item]]
    IN  CASE item = "rate" -> AddResampler(x, d)
          [] item = "channels" /\ ~Remappable(x.reached, d) -> [x EXCEPT !.ok = FALSE]
          [] OTHER -> Added(x, item, d, <<>>)

\* configureAndAddConverter, on the way down and on the way back
Reduce(x, item, dst) ==
    IF x.ok /\ x.reached[item] > dst[item] THEN Add(x, item, dst) ELSE x
Complete(x, item, dst) ==
    IF x.ok /\ ~ItemEqual(item, x.reached, dst) THEN Add(x, item, dst) ELSE x

ConfigureAndAddConverter(x, dst) ==
    LET down == Reduce(Reduce(Reduce(x, "channels", dst), "format", dst), "rate", dst)
    IN  Complete(Complete(Complete(down, "rate", dst), "format", dst), "channels", dst)

\* configure
Configuration(src, dst) ==
    LET start == [reached |-> src, chain |-> <<>>, ok |-> TRUE,
                  resampler |-> resampler, pivot |-> pivot]
    IN  IF src = dst THEN start ELSE ConfigureAndAddConverter(start, dst)

-----------------------------------------------------------------------------
(* Samples.  A 16-bit sample is a signed word; an 8.24 sample is in a word *)
(* that is taken for unsigned.                                             *)

WordOf(s, format) == IF format = S16 THEN s ELSE s % Words
SampleOf(w, format) ==
    LET low == w % Span(format)
    IN  IF 2 * low >= Span(format) THEN low - Span(format) ELSE low

\* What a frame has in some of its channels, of which there are at most two
Total(frame, channels) ==
    (IF 1 \in channels THEN frame[1] ELSE 0) + (IF 2 \in channels THEN frame[2] ELSE 0)

\* getAveragedSrcFrame: an unsigned sum of 64 bits, divided and cut to the word.
\* A negative sum is 2^64 + sum, of which half, cut to the word, is sum \div 2.
Averaged(word, spec) ==
    IF Valid(spec) = {} THEN 0
    ELSE Total(word, Valid(spec)) \div Cardinality(Valid(spec))

\* convertSample
ConvertSample(word, channel, s, d) ==
    CASE d.policy[channel] = Ignore -> 0
      [] d.policy[channel] = Copy /\ s.policy[channel] # Ignore -> word[channel]
      [] OTHER -> Averaged(word, s)

\* convertStereoToMono, convertMonoToStereo (which leaves what is ignored as it
\* finds it), convertChannelsPolicyInStereo
Unwritten == -(2^30)
Remap(word, s, d) ==
    IF d.channels = 1 THEN <<Averaged(word, s)>>
    ELSE IF s.channels = 1
    THEN [i \in 1..2 |-> IF d.policy[i] # Ignore THEN word[1] ELSE Unwritten]
    ELSE [i \in 1..2 |-> ConvertSample(word, i, s, d)]

-----------------------------------------------------------------------------
Init ==
    /\ client \in Clients /\ attached = 0 /\ widths = {}
    /\ ends = <<DefaultSpec, DefaultSpec>> /\ status = "none" /\ chain = <<>>
    /\ resampler = Idle /\ pivot = Idle
    /\ size = 0 /\ frames = 0 /\ index = 0 /\ buffer = <<>> /\ made = 0
    /\ want = 0 /\ missing = 0 /\ given = <<>> /\ heard = 0 /\ wrote = <<0, 0>>

\* ALSAStreamOps::attachRouteL
AttachRoute(hw) ==
    LET src == IF client.out THEN client.spec ELSE hw
        dst == IF client.out THEN hw ELSE client.spec
        x == Configuration(src, dst)
    IN  /\ want = 0 /\ attached < MaxAttached
        /\ attached' = attached + 1
        /\ widths' = widths \cup {Min({src.channels, dst.channels})}
        /\ ends' = <<src, dst>>
        /\ status' = IF x.ok THEN "ok" ELSE "error"
        /\ chain' = x.chain /\ resampler' = x.resampler /\ pivot' = x.pivot
        /\ size' = 0 /\ frames' = 0 /\ index' = 0 /\ buffer' = <<>>
        /\ made' = 0 /\ given' = <<>> /\ heard' = 0
        /\ UNCHANGED <<client, want, missing, wrote>>

-----------------------------------------------------------------------------
(* Converting.                                                             *)

\* AudioUtils::convertSrcToDstInFrames, which rounds up
SrcToDst(n, s, d) == (n * d.rate + s.rate - 1) \div s.rate

\* The frames a chain may make of n: each resampler rounds as it likes.
Resampled(ns, from, to) ==
    {(n * to) \div from : n \in ns} \cup {(n * to + from - 1) \div from : n \in ns}
MadeOf(n) ==
    LET from == ends[1].rate to == ends[2].rate
    IN  IF from = to THEN {n}
        ELSE IF \E i \in DOMAIN chain : Len(chain[i].by) = 2
        THEN Resampled(Resampled({n}, from, PIVOT_SAMPLE_RATE), PIVOT_SAMPLE_RATE, to)
        ELSE Resampled({n}, from, to)

Least(a, b) == IF a < b THEN a ELSE b

\* buf with the frames s written from position at on, in memory for limit frames
Written(buf, at, s, limit) ==
    [i \in 1..Least(limit, IF Len(buf) > at + Len(s) THEN Len(buf) ELSE at + Len(s)) |->
        IF i > at /\ i <= at + Len(s) THEN s[i - at]
        ELSE IF i <= Len(buf) THEN buf[i] ELSE 0]

\* n frames of buf from position at on
Part(buf, at, n) == [i \in 1..n |-> IF at + i <= Len(buf) THEN buf[at + i] ELSE 0]

\* Where what is converted goes: behind what is left from the last read
IndexAfter_Start(n) == 0
IndexAfter(n) == index + n

\* getConvertedBuffer up to its loop
GetConvertedBuffer(n) ==
    LET ready == Least(n, frames)
    IN  /\ ~client.out /\ status = "ok" /\ chain # <<>> /\ want = 0
        /\ made + n <= MaxFrames
        /\ size' = IF size < n THEN n + Margin ELSE size
        /\ want' = n /\ missing' = n - ready
        /\ index' = IF frames # 0 THEN IndexAfter(ready) ELSE index
        /\ UNCHANGED <<client, attached, widths, ends, status, chain, resampler, pivot, frames,
                       buffer, made, given, heard, wrote>>

\* One turn of the loop.  The hardware either delivers or aborts the process.
Convert ==
    LET asked == SrcToDst(missing, ends[2], ends[1])
        n == Least(asked, MaxHwFrames)
    IN  /\ missing # 0
        /\ \E k \in MadeOf(n) :
             /\ buffer' = Written(buffer, index, [i \in 1..k |-> made + i], size)
             /\ made' = made + k
             /\ frames' = frames + k
             /\ index' = index + k
             /\ missing' = missing - Least(missing, k)
        /\ UNCHANGED <<client, attached, widths, ends, status, chain, resampler, pivot, size, want,
                       given, heard, wrote>>

\* What is left moves to the front.
Deliver ==
    /\ want # 0 /\ missing = 0
    /\ heard' = heard + Len(given)
    /\ given' = Part(buffer, 0, want)
    /\ frames' = frames - want
    /\ buffer' = Part(buffer, want, frames - want)
    /\ index' = 0 /\ want' = 0
    /\ UNCHANGED <<client, attached, widths, ends, status, chain, resampler, pivot, size, made,
                   missing, wrote>>

\* AudioStreamOutALSA::write, as far as its frames go: all that was converted
\* is written, and converted back into the frames it returns.
Write(n) ==
    /\ client.out /\ status = "ok"
    /\ \E k \in MadeOf(n) : wrote' = <<n, SrcToDst(k, ends[2], ends[1])>>
    /\ UNCHANGED <<client, attached, widths, ends, status, chain, resampler, pivot, bufferVars>>

Next ==
    \/ \E hw \in (IF client.out THEN OutSpecs ELSE InSpecs) : AttachRoute(hw)
    \/ \E n \in Requests : GetConvertedBuffer(n) \/ Write(n)
    \/ Convert \/ Deliver
Spec == Init /\ [][Next]_vars

-----------------------------------------------------------------------------
(* Properties.                                                             *)

\* What a stage does to a frame, read off the channel policies: "this channel is
\* valid", "contains all valid audio data" (a mean, to the nearest), "does not
\* contain any valid audio data".
IsMean(v, frame, channels) ==
    LET n == Cardinality(channels)
    IN  n * v - Total(frame, channels) \in (1 - n)..(n - 1)
RightSample(v, frame, channel, s, d) ==
    IF d.policy[channel] = Copy /\ d.channels = s.channels /\ channel \in Valid(s)
    THEN v = frame[channel]
    ELSE IsMean(v, frame, Valid(s))
SamplesOf(format) == {x \in Samples : -Span(format) <= 2 * x /\ 2 * x < Span(format)}
RemapsRight(stage) ==
    LET s == stage.src d == stage.dst
    IN  \A frame \in [1..s.channels -> SamplesOf(s.format)] :
          LET out == Remap([i \in DOMAIN frame |-> WordOf(frame[i], s.format)], s, d)
          IN  \A channel \in Valid(d) :
                RightSample(SampleOf(out[channel], s.format), frame, channel, s, d)

\* The resamplers of a stage were made for what they are given: 16-bit samples
\* and rates that lead from its source to its destination; the second works in
\* the buffer of the first, which must be large enough.
ResamplesRight(stage) ==
    /\ stage.src.format = S16
    /\ stage.by[1].from = stage.src.rate /\ Last(stage.by).to = stage.dst.rate
    /\ Len(stage.by) = 2 =>
          stage.by[1].to = stage.by[2].from /\ stage.dst.rate <= stage.by[1].to

\* Whatever routes a stream was attached to before, the chain leads from the
\* source to the destination and every converter changes its own item.  A
\* resampler stands where the samples have as few channels as either end has.
\* It converts between the rates of its stage, and on as many channels as some
\* attachment of this stream had there: those it is given, if all had the same
\* (that it keeps the number of an earlier one is ResamplerFollows).
ChainLeads ==
    status = "ok" /\ ends[1] # ends[2] =>
        /\ chain # <<>> /\ chain[1].src = ends[1] /\ Last(chain).dst = ends[2]
        /\ \A i \in 1..(Len(chain) - 1) : chain[i].dst = chain[i + 1].src
        /\ \A i \in DOMAIN chain :
             /\ Convertible(chain[i].item, chain[i].src, chain[i].dst)
             /\ chain[i].item = "rate" =>
                  /\ ResamplesRight(chain[i])
                  /\ chain[i].src.channels = Min({ends[1].channels, ends[2].channels})
                  /\ \A j \in DOMAIN chain[i].by : chain[i].by[j].channels \in widths
\* The chain leads to the destination, and its remapper makes the right samples of
\* those it was configured for.
ChainConverts ==
    /\ ChainLeads
    /\ status = "ok" => \A i \in DOMAIN chain :
         chain[i].item = "channels" => RemapsRight(chain[i])

\* "First take into account a (number of channels): As a' is higher than a, first
\* performs the remapping", then the sample rate, and "Taking into account b again
\* ... as b' < b, use a reformatter": the order of the example.
ExampleOrder ==
    /\ status = "ok" /\ ends[1].channels < ends[2].channels
    /\ ends[1].format > ends[2].format /\ ends[1].rate # ends[2].rate
    => [i \in DOMAIN chain |-> chain[i].item] = <<"channels", "rate", "format">>

\* A resampler works on as many channels as the samples it is given have.
ResamplerFollows ==
    status = "ok" => \A i \in DOMAIN chain : \A j \in DOMAIN chain[i].by :
        chain[i].by[j].channels = chain[i].src.channels

\* The reads of an input stream return every converted frame once and in order,
\* however much the resampler makes at a time and the last read left over, and
\* nothing is written past the memory there is: unless a read asks for more than
\* one before it and finds the buffer large enough, but without its margin.
MostSurplus == 14  \* converted at once beyond what was asked for, at any rates
SteadyReads ==
    \A a, b \in Requests : b + MostSurplus <= a + Margin \/ a + Margin < b
ConvertedInOrder == SteadyReads => given = [i \in DOMAIN given |-> heard + i]

\* "Destination policy is Ignore, so set to null dest sample"
IgnoredIsNull ==
    \A i \in DOMAIN chain : chain[i].item = "channels" =>
        \A channel \in (1..chain[i].dst.channels) \ Valid(chain[i].dst) :
            Remap([j \in 1..chain[i].src.channels |-> 1], chain[i].src,
                  chain[i].dst)[channel] = 0

\* "Realloc the Output of the conversion if required (with margin of the worst
\* case)": what is converted ends within the buffer.
WithinMargin == index <= size

\* A write returns no more than it was given.
WritesWhatItGot == wrote[2] <= wrote[1]
=============================================================================
