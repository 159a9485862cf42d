-------------------------- MODULE MCAudioConversion --------------------------
(***************************************************************************)
(* The specifications of the platforms' routes, and clients of every       *)
(* channel count and format at three rates.                                *)
(***************************************************************************)
EXTENDS AudioConversion

Mono == <<Copy>>
Stereo == <<Copy, Copy>>
MCClients ==
    [out : BOOLEAN,
     spec : {SampleSpec(format, rate, policy) :
               format \in {S16, S24}, rate \in {8000, 44100, 48000}, policy \in {Mono, Stereo}}]
Common == {SampleSpec(S16, 8000, Mono), SampleSpec(S16, 16000, Stereo),
           SampleSpec(S16, 48000, Stereo)}
MCOutSpecs == Common \cup {SampleSpec(S16, 48000, <<Average, Ignore>>)}
MCInSpecs == Common \cup {SampleSpec(S16, 48000, <<Copy, Ignore>>)}
\* The library converts to and from the pivot rate.
MCSupported(a, b) == a # b /\ PIVOT_SAMPLE_RATE \in {a, b}
MCSamples == {-8388608, -32768, -255, -2, -1, 0, 1, 254, 32767, 8388607}
\* A multiple of 2^25, as 2^32 is, which TLC's integers can hold twice
MCWords == 2^28
=============================================================================
