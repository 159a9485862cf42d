----------------------- MODULE AudioConversionProofs -----------------------
(***************************************************************************)
(* Theorems about AudioConversion: the surplus of a conversion and the     *)
(* order of frames, for every two rates the resampler can be asked to      *)
(* convert between, however it rounds, and any reads; and the chain of     *)
(* converters, for any specifications and any number of attachments.       *)
(***************************************************************************)
EXTENDS AudioConversion, FiniteSetTheorems, TLAPS

-----------------------------------------------------------------------------
(* Numbers.                                                                *)

LEMMA Division ==
    ASSUME NEW a \in Nat, NEW b \in Nat \ {0}
    PROVE  a \div b \in Nat /\ b * (a \div b) <= a
<1>1. a \div b \in Int /\ a = b * (a \div b) + (a % b) /\ a % b \in 0..(b - 1)
  OBVIOUS
<1> DEFINE q == a \div b
<1>2. q \in Int /\ b * q <= a /\ b * q > -b
  BY <1>1
<1> HIDE DEF q
<1>3. q >= 0
  <2> SUFFICES ASSUME q <= -1 PROVE FALSE
    BY <1>2
  <2>1. -1 - q \in Nat
    BY <1>2
  <2>2. b * (-1 - q) >= 0
    BY <2>1
  <2>3. b * (-1 - q) = -b - b * q
    BY <1>2
  <2> QED BY <1>2, <2>2, <2>3
<1> QED BY <1>2, <1>3 DEF q

LEMMA Product ==
    ASSUME NEW a \in Nat, NEW b \in Nat
    PROVE  a * b \in Nat
OBVIOUS

\* Products keep the order of their factors.
LEMMA TimesOrder ==
    ASSUME NEW a \in Int, NEW b \in Int, a <= b, NEW c \in Nat
    PROVE  a * c <= b * c
<1>1. b - a \in Nat
  OBVIOUS
<1>2. (b - a) * c >= 0
  BY <1>1
<1>3. (b - a) * c = b * c - a * c
  OBVIOUS
<1> QED BY <1>2, <1>3

-----------------------------------------------------------------------------
(* The surplus of a conversion.                                            *)

Rates == MIN_RATE..MAX_RATE

\* The rates of clients and routes are those the resampler supports.
RatesSupported ==
    \A s \in {c.spec : c \in Clients} \cup OutSpecs \cup InSpecs : s.rate \in Rates

LEMMA RateIs ==
    \A s \in Rates : s \in Nat /\ s \in Nat \ {0} /\ MIN_RATE <= s /\ s <= MAX_RATE
BY DEF Rates, MIN_RATE, MAX_RATE

\* A resampler may round up or down,
LEMMA ResampledIs ==
    ASSUME NEW ns \in SUBSET Nat, NEW from \in Nat \ {0}, NEW to \in Nat,
           NEW k \in Resampled(ns, from, to)
    PROVE  k \in Nat /\ \E n \in ns : from * k <= n * to + from - 1
<1>2. PICK n \in ns : k = (n * to) \div from \/ k = (n * to + from - 1) \div from
  BY DEF Resampled
<1>3. n \in Nat /\ n * to \in Nat /\ n * to + from - 1 \in Nat
  BY <1>2
<1> DEFINE p == n * to
<1>4. p \in Nat /\ p + from - 1 \in Nat
  BY <1>3
<1>5. k = p \div from \/ k = (p + from - 1) \div from
  BY <1>2
<1> HIDE DEF p
<1>6. k \in Nat /\ from * k <= p + from - 1
  <2>1. CASE k = p \div from
    <3>1. k \in Nat /\ from * k <= p
      BY <1>4, <2>1, Division
    <3> QED BY <1>4, <3>1
  <2>2. CASE k = (p + from - 1) \div from
    <3>1. k \in Nat /\ from * k <= p + from - 1
      BY <1>4, <2>2, Division
    <3> QED BY <3>1
  <2> QED BY <1>5, <2>1, <2>2
<1> QED BY <1>6 DEF p

\* so that of the frames a loop acquires to make m more, one resampler makes
\* no more than the margin allows beyond m,
LEMMA OneResampler ==
    ASSUME NEW s \in Nat, NEW d \in Nat, MIN_RATE <= s, d <= MAX_RATE,
           NEW m \in Nat, NEW n \in Nat, NEW k \in Nat
    PROVE  d * n <= m * s + d - 1 /\ s * k <= n * d + s - 1 => k <= m + MostSurplus
<1> DEFINE ms == m * s
           nd == n * d
           ks == k * s
<1>1. ms \in Nat /\ nd \in Nat /\ ks \in Nat
  BY Product
<1>2. d * n = nd /\ s * k = ks
  OBVIOUS
<1>3. k >= m + 15 => ms + 15 * s <= ks
  <2>1. k >= m + 15 => (m + 15) * s <= k * s
    BY TimesOrder
  <2>2. (m + 15) * s = m * s + 15 * s
    OBVIOUS
  <2> QED BY <2>1, <2>2
<1> HIDE DEF ms, nd, ks
<1>4. ~(k >= m + 15 /\ nd <= ms + d - 1 /\ ks <= nd + s - 1)
  BY <1>1, <1>3 DEF MIN_RATE, MAX_RATE
<1> QED BY <1>2, <1>4 DEF MostSurplus, ms, nd

\* and neither do two over the pivot rate.
LEMMA TwoResamplers ==
    ASSUME NEW s \in Nat, NEW d \in Nat, MIN_RATE <= s, d <= MAX_RATE,
           NEW m \in Nat, NEW n \in Nat, NEW h \in Nat, NEW k \in Nat
    PROVE  /\ d * n <= m * s + d - 1
           /\ s * h <= n * PIVOT_SAMPLE_RATE + s - 1
           /\ PIVOT_SAMPLE_RATE * k <= h * d + PIVOT_SAMPLE_RATE - 1
           => k <= m + MostSurplus
<1> DEFINE ms == m * s
           nd == n * d
           sd == s * d
           shd == (s * h) * d
           ks == k * s
<1>1. s * h \in Nat /\ h * d \in Nat
  BY Product
<1>2. ms \in Nat /\ nd \in Nat /\ sd \in Nat /\ shd \in Nat /\ ks \in Nat
  BY <1>1, Product
<1>3. d * n = nd
  OBVIOUS
<1>4. k >= m + 15 => ms + 15 * s <= ks
  <2>1. k >= m + 15 => (m + 15) * s <= k * s
    BY TimesOrder
  <2>2. (m + 15) * s = m * s + 15 * s
    OBVIOUS
  <2> QED BY <2>1, <2>2
<1>5. s * h <= n * 48000 + s - 1 => shd <= 48000 * nd + sd - d
  <2>1. s * h \in Int /\ n * 48000 + s - 1 \in Int
    BY <1>1
  <2>2. s * h <= n * 48000 + s - 1 => (s * h) * d <= (n * 48000 + s - 1) * d
    BY <2>1, TimesOrder
  <2>3. (n * 48000 + s - 1) * d = 48000 * nd + sd - d
    OBVIOUS
  <2> QED BY <2>2, <2>3
<1>6. 48000 * k <= h * d + 48000 - 1 => 48000 * ks <= shd + 47999 * s
  <2>1. 48000 * k \in Int /\ h * d + 47999 \in Int
    BY <1>1
  <2>2. 48000 * k <= h * d + 47999 => (48000 * k) * s <= (h * d + 47999) * s
    BY <2>1, TimesOrder
  <2>3. (48000 * k) * s = 48000 * ks /\ (h * d + 47999) * s = shd + 47999 * s
    OBVIOUS
  <2>4. h * d + 48000 - 1 = h * d + 47999
    BY <1>1
  <2> QED BY <2>2, <2>3, <2>4
<1>7. sd <= 92000 * s
  <2>1. d * s <= 92000 * s
    BY TimesOrder DEF MAX_RATE
  <2> QED BY <2>1
<1> HIDE DEF ms, nd, sd, shd, ks
<1>8. ~(/\ k >= m + 15 /\ nd <= ms + d - 1
        /\ shd <= 48000 * nd + sd - d /\ 48000 * ks <= shd + 47999 * s)
  BY <1>2, <1>4, <1>7 DEF MIN_RATE, MAX_RATE
<1>9. SUFFICES ASSUME d * n <= m * s + d - 1, s * h <= n * 48000 + s - 1,
                      48000 * k <= h * d + 48000 - 1
               PROVE  ~(k >= m + 15)
  BY DEF MostSurplus, PIVOT_SAMPLE_RATE
<1>10. nd <= ms + d - 1
  BY <1>3, <1>9 DEF ms
<1> QED BY <1>5, <1>6, <1>8, <1>9, <1>10

EndsOK == ends[1].rate \in Rates /\ ends[2].rate \in Rates

\* What one turn of the loop makes when m frames are missing.
LEMMA SurplusIsBounded ==
    ASSUME EndsOK, NEW m \in Nat, NEW n \in Nat, NEW k \in MadeOf(n)
    PROVE  n <= SrcToDst(m, ends[2], ends[1]) => k \in Nat /\ k <= m + MostSurplus
<1> DEFINE s == ends[1].rate
           d == ends[2].rate
<1>1. s \in Nat \ {0} /\ MIN_RATE <= s /\ d \in Nat \ {0} /\ d <= MAX_RATE
  BY RateIs DEF EndsOK
<1>2. \/ s = d /\ k = n
      \/ k \in Resampled({n}, s, d)
      \/ k \in Resampled(Resampled({n}, s, PIVOT_SAMPLE_RATE), PIVOT_SAMPLE_RATE, d)
  BY DEF MadeOf
<1>3. SrcToDst(m, ends[2], ends[1]) = (m * s + d - 1) \div d
  BY DEF SrcToDst
<1> HIDE DEF s, d
<1>4. m * s \in Nat /\ s \in Nat /\ d \in Nat
  BY <1>1
<1>5. n <= (m * s + d - 1) \div d => d * n <= m * s + d - 1
  <2> DEFINE q == (m * s + d - 1) \div d
  <2>1. m * s + d - 1 \in Nat
    BY <1>1, <1>4
  <2>2. q \in Nat /\ d * q <= m * s + d - 1
    BY <1>1, <2>1, Division
  <2> HIDE DEF q
  <2>3. n <= q => n * d <= q * d
    BY <1>4, <2>2, TimesOrder
  <2>4. n * d = d * n /\ q * d = d * q
    BY <1>4, <2>2
  <2>5. n * d \in Nat /\ q * d \in Nat
    BY <1>4, <2>2, Product
  <2> QED BY <1>4, <2>1, <2>2, <2>3, <2>4, <2>5 DEF q
<1>6. CASE s = d /\ k = n
  <2>1. k \in Nat /\ n * d \in Nat /\ s * k = n * d
    BY <1>4, <1>6
  <2>2. s * k <= n * d + s - 1
    BY <1>1, <2>1
  <2>3. d * n <= m * s + d - 1 /\ s * k <= n * d + s - 1 => k <= m + MostSurplus
    BY <1>1, <1>4, <2>1, OneResampler, Zenon
  <2> QED BY <1>3, <1>5, <2>1, <2>2, <2>3
<1>7. CASE k \in Resampled({n}, s, d)
  <2>1. {n} \in SUBSET Nat
    OBVIOUS
  <2>2. k \in Nat /\ \E j \in {n} : s * k <= j * d + s - 1
    BY <1>1, <1>4, <1>7, <2>1, ResampledIs
  <2>3. s * k <= n * d + s - 1
    BY <2>2
  <2>4. d * n <= m * s + d - 1 /\ s * k <= n * d + s - 1 => k <= m + MostSurplus
    BY <1>1, <1>4, <2>2, OneResampler, Zenon
  <2> QED BY <1>3, <1>5, <2>2, <2>3, <2>4
<1>8. CASE k \in Resampled(Resampled({n}, s, PIVOT_SAMPLE_RATE), PIVOT_SAMPLE_RATE, d)
  <2> DEFINE hs == Resampled({n}, s, PIVOT_SAMPLE_RATE)
  <2>1. PIVOT_SAMPLE_RATE \in Nat \ {0} /\ PIVOT_SAMPLE_RATE \in Nat /\ {n} \in SUBSET Nat
    BY DEF PIVOT_SAMPLE_RATE
  <2>2. \A h \in hs : h \in Nat /\ \E j \in {n} : s * h <= j * PIVOT_SAMPLE_RATE + s - 1
    BY <1>1, <2>1, ResampledIs
  <2>3. hs \in SUBSET Nat /\ k \in Resampled(hs, PIVOT_SAMPLE_RATE, d)
    BY <1>8, <2>2
  <2> HIDE DEF hs
  <2>4. k \in Nat
        /\ \E h \in hs : PIVOT_SAMPLE_RATE * k <= h * d + PIVOT_SAMPLE_RATE - 1
    BY <1>4, <2>1, <2>3, ResampledIs
  <2>5. PICK h \in hs : PIVOT_SAMPLE_RATE * k <= h * d + PIVOT_SAMPLE_RATE - 1
    BY <2>4
  <2>6. h \in Nat /\ s * h <= n * PIVOT_SAMPLE_RATE + s - 1
    BY <2>2
  <2>7. /\ d * n <= m * s + d - 1 /\ s * h <= n * PIVOT_SAMPLE_RATE + s - 1
        /\ PIVOT_SAMPLE_RATE * k <= h * d + PIVOT_SAMPLE_RATE - 1
        => k <= m + MostSurplus
    BY <1>1, <1>4, <2>4, <2>6, TwoResamplers, Zenon
  <2> QED BY <1>3, <1>5, <2>4, <2>5, <2>6, <2>7
<1> QED BY <1>2, <1>6, <1>7, <1>8

-----------------------------------------------------------------------------
(* The buffer.                                                             *)

LEMMA LeastIs ==
    ASSUME NEW a \in Nat, NEW b \in Nat
    PROVE  /\ Least(a, b) \in Nat /\ Least(a, b) <= a /\ Least(a, b) <= b
           /\ Least(a, b) = a \/ Least(a, b) = b
BY DEF Least

\* A part of a buffer is as long as asked for, and has its frames in their order.
LEMMA PartIs ==
    ASSUME NEW buf \in Seq(Nat), NEW at \in Nat, NEW n \in Nat
    PROVE  /\ Part(buf, at, n) \in Seq(Nat) /\ Len(Part(buf, at, n)) = n
           /\ \A i \in 1..n : at + i <= Len(buf) => Part(buf, at, n)[i] = buf[at + i]
<1> DEFINE at_(i) == IF at + i <= Len(buf) THEN buf[at + i] ELSE 0
<1>1. Part(buf, at, n) = [i \in 1..n |-> at_(i)]
  BY DEF Part
<1>2. \A i \in 1..n : at_(i) \in Nat /\ (at + i <= Len(buf) => at_(i) = buf[at + i])
  OBVIOUS
<1> HIDE DEF at_
<1> QED BY <1>1, <1>2

\* What is written within the memory is there, behind what was there before.
LEMMA WrittenIs ==
    ASSUME NEW buf \in Seq(Nat), NEW at \in Nat, NEW s \in Seq(Nat), NEW limit \in Nat,
           at <= Len(buf), Len(buf) <= limit, at + Len(s) <= limit
    PROVE  LET w == Written(buf, at, s, limit)
           IN  /\ w \in Seq(Nat) /\ at + Len(s) <= Len(w) /\ Len(w) <= limit
               /\ \A i \in 1..at : w[i] = buf[i]
               /\ \A i \in (at + 1)..(at + Len(s)) : w[i] = s[i - at]
<1> DEFINE long == IF Len(buf) > at + Len(s) THEN Len(buf) ELSE at + Len(s)
           to == Least(limit, long)
           value(i) == IF i > at /\ i <= at + Len(s) THEN s[i - at]
                       ELSE IF i <= Len(buf) THEN buf[i] ELSE 0
<1>1. to \in Nat /\ at + Len(s) <= to /\ to <= limit
  BY DEF Least
<1>2. Written(buf, at, s, limit) = [i \in 1..to |-> value(i)]
  BY DEF Written
<1>3. /\ \A i \in 1..to : value(i) \in Nat
      /\ \A i \in 1..at : value(i) = buf[i]
      /\ \A i \in (at + 1)..(at + Len(s)) : value(i) = s[i - at]
  OBVIOUS
<1> HIDE DEF to, value
<1> DEFINE w == [i \in 1..to |-> value(i)]
<1>4. w \in Seq(Nat) /\ Len(w) = to
  BY <1>1, <1>3
<1>5. /\ \A i \in 1..at : w[i] = buf[i]
      /\ \A i \in (at + 1)..(at + Len(s)) : w[i] = s[i - at]
  BY <1>1, <1>3
<1> HIDE DEF w
<1> QED BY <1>1, <1>2, <1>4, <1>5 DEF w

-----------------------------------------------------------------------------
(* The invariant of the reads.                                             *)

NumbersOK ==
    /\ client \in Clients /\ want \in Requests \cup {0}
    /\ {size, frames, index, made, missing, heard} \subseteq Nat
    /\ buffer \in Seq(Nat) /\ given \in Seq(Nat)

\* The buffer is of the size of a read that found it too small, with the margin.
SizeOK ==
    /\ size = 0 \/ \E a \in Requests : size = a + Margin
    /\ want <= size /\ frames <= Len(buffer) /\ Len(buffer) <= size

\* A read goes on behind what is left, until there is as much as it wants.
ReadOK ==
    /\ want = 0 => missing = 0 /\ index = 0
    /\ missing # 0 => index = frames /\ frames = want - missing
    /\ missing = 0 => want <= frames
    /\ index <= size

\* What is in the buffer follows what was returned.
OrderOK ==
    /\ made = heard + Len(given) + frames
    /\ \A i \in 1..frames : buffer[i] = heard + Len(given) + i
    /\ \A i \in DOMAIN given : given[i] = heard + i

ReadInv == NumbersOK /\ EndsOK /\ SizeOK /\ ReadOK /\ OrderOK

LEMMA RequestsAreNumbers ==
    /\ Requests \subseteq Nat \ {0} /\ MaxHwFrames \in Nat
    /\ Margin = 22
BY ConversionAssumption DEF Margin, MAX_RATE, MIN_RATE

LEMMA ReadInit == RatesSupported /\ Init => ReadInv
<1> SUFFICES ASSUME RatesSupported, Init PROVE ReadInv
  OBVIOUS
<1>1. EndsOK
  <2>1. DefaultSpec.rate = 48000
    BY DEF DefaultSpec, SampleSpec
  <2>2. 48000 \in Rates
    BY DEF Rates, MIN_RATE, MAX_RATE
  <2>3. ends[1] = DefaultSpec /\ ends[2] = DefaultSpec
    BY DEF Init
  <2> QED BY <2>1, <2>2, <2>3 DEF EndsOK
<1>2. NumbersOK /\ SizeOK /\ ReadOK /\ OrderOK
  BY DEF Init, NumbersOK, SizeOK, ReadOK, OrderOK
<1> QED BY <1>1, <1>2 DEF ReadInv

LEMMA ReadAttach ==
    ASSUME RatesSupported, ReadInv,
           NEW hw \in (IF client.out THEN OutSpecs ELSE InSpecs), AttachRoute(hw)
    PROVE  ReadInv'
<1>1. client \in Clients /\ hw \in OutSpecs \cup InSpecs
  BY DEF ReadInv, NumbersOK
<1>2. client.spec.rate \in Rates /\ hw.rate \in Rates
  BY <1>1 DEF RatesSupported
<1>3. ends' = <<client.spec, hw>> \/ ends' = <<hw, client.spec>>
  BY DEF AttachRoute
<1>4. EndsOK'
  BY <1>2, <1>3 DEF EndsOK
<1>5. /\ want = 0 /\ want' = 0 /\ missing' = missing /\ client' = client
      /\ size' = 0 /\ frames' = 0 /\ index' = 0 /\ buffer' = <<>>
      /\ made' = 0 /\ given' = <<>> /\ heard' = 0
  BY DEF AttachRoute
<1>6. NumbersOK' /\ SizeOK' /\ ReadOK' /\ OrderOK'
  BY <1>5 DEF ReadInv, NumbersOK, SizeOK, ReadOK, OrderOK
<1> QED BY <1>4, <1>6 DEF ReadInv

LEMMA ReadGet ==
    ASSUME ReadInv, NEW n \in Requests, GetConvertedBuffer(n)
    PROVE  ReadInv'
<1>1. n \in Nat \ {0} /\ Margin = 22
  BY RequestsAreNumbers
<1> DEFINE ready == Least(n, frames)
<1>2. frames \in Nat /\ ready \in Nat /\ ready <= n /\ ready <= frames
      /\ (ready = n \/ ready = frames)
  BY <1>1, LeastIs DEF ReadInv, NumbersOK
<1>3. /\ want = 0 /\ want' = n /\ missing' = n - ready
      /\ size' = (IF size < n THEN n + Margin ELSE size)
      /\ index' = (IF frames # 0 THEN index + ready ELSE index)
      /\ UNCHANGED <<client, ends, frames, buffer, made, given, heard>>
  BY DEF GetConvertedBuffer, IndexAfter
<1> HIDE DEF ready
<1>4. EndsOK' /\ OrderOK'
  BY <1>3 DEF ReadInv, EndsOK, OrderOK
<1>5. size' \in Nat /\ size <= size' /\ n <= size'
      /\ (size' = 0 \/ \E a \in Requests : size' = a + Margin)
  <2>1. size \in Nat /\ (size = 0 \/ \E a \in Requests : size = a + Margin)
    BY DEF ReadInv, NumbersOK, SizeOK
  <2>2. CASE size < n
    <3>1. size' = n + Margin
      BY <1>3, <2>2
    <3> QED BY <1>1, <2>1, <2>2, <3>1
  <2>3. CASE ~(size < n)
    <3>1. size' = size
      BY <1>3, <2>3
    <3> QED BY <1>1, <2>1, <2>3, <3>1
  <2> QED BY <2>2, <2>3
<1>6. SizeOK'
  <2>1. size \in Nat /\ Len(buffer) \in Nat /\ frames <= Len(buffer) /\ Len(buffer) <= size
    BY DEF ReadInv, NumbersOK, SizeOK
  <2>2. want' = n /\ frames' = frames /\ buffer' = buffer
    BY <1>3
  <2>3. want' <= size' /\ frames' <= Len(buffer') /\ Len(buffer') <= size'
    BY <1>5, <2>1, <2>2
  <2> QED BY <1>5, <2>3 DEF SizeOK
<1>7. missing' \in Nat /\ index = 0 /\ index' = ready
  BY <1>1, <1>2, <1>3 DEF ReadInv, NumbersOK, ReadOK
<1>8. NumbersOK'
  BY <1>1, <1>2, <1>3, <1>5, <1>7 DEF ReadInv, NumbersOK
<1>9. ReadOK'
  <2>1. want' = n /\ missing' = n - ready /\ frames' = frames
    BY <1>3
  <2>2. /\ want' # 0
        /\ missing' # 0 => index' = frames' /\ frames' = want' - missing'
        /\ missing' = 0 => want' <= frames'
    BY <1>1, <1>2, <1>7, <2>1
  <2>3. index' <= size'
    BY <1>1, <1>2, <1>5, <1>7
  <2> QED BY <2>2, <2>3 DEF ReadOK
<1> QED BY <1>4, <1>6, <1>8, <1>9 DEF ReadInv

LEMMA ReadConvert ==
    ASSUME SteadyReads, ReadInv, Convert
    PROVE  ReadInv'
<1>1. /\ size \in Nat /\ frames \in Nat /\ index \in Nat /\ made \in Nat
      /\ missing \in Nat /\ heard \in Nat /\ want \in Nat /\ Len(buffer) \in Nat
      /\ buffer \in Seq(Nat) /\ given \in Seq(Nat) /\ Len(given) \in Nat
  BY RequestsAreNumbers DEF ReadInv, NumbersOK
<1>2. missing # 0 /\ index = frames /\ frames = want - missing /\ want # 0
  BY <1>1 DEF ReadInv, ReadOK, Convert
<1> DEFINE asked == SrcToDst(missing, ends[2], ends[1])
           n == Least(asked, MaxHwFrames)
           new(k) == [i \in 1..k |-> made + i]
<1>3. PICK k \in MadeOf(n) :
        /\ buffer' = Written(buffer, index, new(k), size)
        /\ made' = made + k /\ frames' = frames + k /\ index' = index + k
        /\ missing' = missing - Least(missing, k)
  BY DEF Convert
<1>4. UNCHANGED <<client, ends, size, want, given, heard>>
  BY DEF Convert
<1>5. asked \in Nat
  <2> DEFINE s == ends[1].rate
             d == ends[2].rate
  <2>1. s \in Nat /\ d \in Nat \ {0}
    BY RateIs DEF ReadInv, EndsOK
  <2>2. asked = (missing * s + d - 1) \div d
    BY DEF SrcToDst
  <2> HIDE DEF s, d, asked
  <2>3. missing * s \in Nat
    BY <1>1, <2>1
  <2>4. missing * s + d - 1 \in Nat
    BY <2>1, <2>3
  <2> QED BY <2>1, <2>2, <2>4, Division
<1>6. n \in Nat /\ n <= asked
  BY <1>5, LeastIs, RequestsAreNumbers
<1>7. k \in Nat /\ k <= missing + 14
  BY <1>1, <1>6, SurplusIsBounded DEF ReadInv, MostSurplus
<1> HIDE DEF asked, n
<1>8. frames + k <= size
  <2>1. want \in Requests /\ want <= size
    BY <1>2 DEF ReadInv, NumbersOK, SizeOK
  <2>2. PICK a \in Requests : size = a + Margin
    BY <1>1, <1>2, <2>1 DEF ReadInv, SizeOK
  <2>3. a \in Nat /\ Margin = 22
    BY RequestsAreNumbers
  <2>4. want + 14 <= size
    BY <1>1, <2>1, <2>2, <2>3 DEF SteadyReads, MostSurplus
  <2> QED BY <1>1, <1>2, <1>7, <2>4
<1>9. new(k) \in Seq(Nat) /\ Len(new(k)) = k /\ \A i \in 1..k : new(k)[i] = made + i
  BY <1>1, <1>7
<1> HIDE DEF new
<1>10. frames <= Len(buffer) /\ Len(buffer) <= size
  BY DEF ReadInv, SizeOK
<1>11. /\ buffer' \in Seq(Nat) /\ frames + k <= Len(buffer') /\ Len(buffer') <= size
       /\ \A i \in 1..frames : buffer'[i] = buffer[i]
       /\ \A i \in (frames + 1)..(frames + k) : buffer'[i] = made + (i - frames)
  <2>1. LET w == Written(buffer, frames, new(k), size)
        IN  /\ w \in Seq(Nat) /\ frames + Len(new(k)) <= Len(w) /\ Len(w) <= size
            /\ \A i \in 1..frames : w[i] = buffer[i]
            /\ \A i \in (frames + 1)..(frames + Len(new(k))) : w[i] = new(k)[i - frames]
    <3>1. frames <= Len(buffer) /\ Len(buffer) <= size /\ frames + Len(new(k)) <= size
      BY <1>1, <1>8, <1>9, <1>10
    <3>2. new(k) \in Seq(Nat) /\ size \in Nat /\ frames \in Nat /\ buffer \in Seq(Nat)
      BY <1>1, <1>9
    <3> QED BY <3>1, <3>2, WrittenIs, SMTT(30)
  <2>2. \A i \in (frames + 1)..(frames + k) : i - frames \in 1..k
    BY <1>1, <1>7
  <2> QED BY <1>2, <1>3, <1>9, <2>1, <2>2
<1>12. NumbersOK'
  <2>1. missing' \in Nat /\ frames' \in Nat /\ index' \in Nat /\ made' \in Nat
    <3>1. Least(missing, k) \in Nat /\ Least(missing, k) <= missing
      BY <1>1, <1>7, LeastIs
    <3>2. /\ missing' = missing - Least(missing, k) /\ frames' = frames + k
          /\ index' = index + k /\ made' = made + k
      BY <1>3
    <3> QED BY <1>1, <1>7, <3>1, <3>2
  <2> QED BY <1>4, <1>11, <2>1 DEF ReadInv, NumbersOK
<1>13. EndsOK' /\ SizeOK'
  BY <1>3, <1>4, <1>11 DEF ReadInv, EndsOK, SizeOK
<1>14. ReadOK'
  <2>1. index' <= size' /\ want' # 0 /\ want' = want
    BY <1>1, <1>2, <1>3, <1>4, <1>7, <1>8
  <2>2. CASE k < missing
    <3>1. missing' = missing - k /\ index' = frames + k /\ frames' = frames + k
      BY <1>1, <1>2, <1>3, <1>7, <2>2 DEF Least
    <3>2. missing' # 0 /\ index' = frames' /\ frames' = want' - missing'
      BY <1>1, <1>2, <1>7, <2>1, <2>2, <3>1
    <3> QED BY <2>1, <3>2 DEF ReadOK
  <2>3. CASE ~(k < missing)
    <3>1. missing' = 0 /\ frames' = frames + k
      BY <1>1, <1>3, <1>7, <2>3 DEF Least
    <3>2. want' <= frames'
      BY <1>1, <1>2, <1>7, <2>1, <2>3, <3>1
    <3> QED BY <2>1, <3>1, <3>2 DEF ReadOK
  <2> QED BY <2>2, <2>3
<1>15. OrderOK'
  <2>1. made = heard + Len(given) + frames
    BY DEF ReadInv, OrderOK
  <2>2. heard' = heard /\ given' = given /\ frames' = frames + k /\ made' = made + k
    BY <1>3, <1>4
  <2>3. made' = heard' + Len(given') + frames'
    BY <1>1, <1>7, <2>1, <2>2
  <2>4. \A i \in 1..frames' : buffer'[i] = heard' + Len(given') + i
    <3> SUFFICES ASSUME NEW i \in 1..(frames + k)
                 PROVE  buffer'[i] = heard + Len(given) + i
      BY <2>2
    <3>1. CASE i \in 1..frames
      BY <1>11, <3>1 DEF ReadInv, OrderOK
    <3>2. CASE i \in (frames + 1)..(frames + k)
      <4>1. buffer'[i] = made + (i - frames)
        BY <1>11, <3>2
      <4> QED BY <1>1, <1>7, <2>1, <4>1
    <3> QED BY <1>1, <1>7, <3>1, <3>2
  <2> QED BY <2>2, <2>3, <2>4 DEF ReadInv, OrderOK
<1> QED BY <1>12, <1>13, <1>14, <1>15 DEF ReadInv

LEMMA ReadDeliver ==
    ASSUME ReadInv, Deliver
    PROVE  ReadInv'
<1>1. /\ size \in Nat /\ frames \in Nat /\ made \in Nat /\ heard \in Nat /\ want \in Nat
      /\ Len(buffer) \in Nat /\ buffer \in Seq(Nat)
      /\ given \in Seq(Nat) /\ Len(given) \in Nat
  BY RequestsAreNumbers DEF ReadInv, NumbersOK
<1>2. /\ want # 0 /\ missing = 0 /\ want <= frames
      /\ frames <= Len(buffer) /\ Len(buffer) <= size
  BY DEF ReadInv, ReadOK, SizeOK, Deliver
<1>3. /\ heard' = heard + Len(given) /\ given' = Part(buffer, 0, want)
      /\ frames' = frames - want /\ buffer' = Part(buffer, want, frames - want)
      /\ index' = 0 /\ want' = 0
      /\ UNCHANGED <<client, ends, size, made, missing>>
  BY DEF Deliver
<1>4. frames - want \in Nat
  BY <1>1, <1>2
<1>5. /\ given' \in Seq(Nat) /\ Len(given') = want
      /\ \A i \in 1..want : given'[i] = buffer[i]
  <2>1. /\ given' \in Seq(Nat) /\ Len(given') = want
        /\ \A i \in 1..want : 0 + i <= Len(buffer) => given'[i] = buffer[0 + i]
    <3>1. 0 \in Nat
      OBVIOUS
    <3> QED BY <1>1, <1>3, <3>1, PartIs, Zenon
  <2>2. \A i \in 1..want : 0 + i = i /\ i <= Len(buffer)
    BY <1>1, <1>2
  <2> QED BY <2>1, <2>2
<1>6. /\ buffer' \in Seq(Nat) /\ Len(buffer') = frames - want
      /\ \A i \in 1..(frames - want) : buffer'[i] = buffer[want + i]
  <2>1. /\ buffer' \in Seq(Nat) /\ Len(buffer') = frames - want
        /\ \A i \in 1..(frames - want) :
             want + i <= Len(buffer) => buffer'[i] = buffer[want + i]
    BY <1>1, <1>3, <1>4, PartIs
  <2>2. \A i \in 1..(frames - want) : want + i <= Len(buffer)
    BY <1>1, <1>2
  <2> QED BY <2>1, <2>2
<1>7. NumbersOK'
  <2>1. heard' \in Nat
    BY <1>1, <1>3
  <2> QED BY <1>3, <1>4, <1>5, <1>6, <2>1 DEF ReadInv, NumbersOK
<1>8. EndsOK'
  BY <1>3 DEF ReadInv, EndsOK
<1>9. SizeOK' /\ ReadOK'
  <2>1. /\ want' = 0 /\ missing' = 0 /\ index' = 0 /\ size' = size
        /\ frames' = frames - want /\ Len(buffer') = frames - want
    BY <1>2, <1>3, <1>6
  <2>2. /\ want' <= size' /\ frames' <= Len(buffer') /\ Len(buffer') <= size'
        /\ want' <= frames' /\ index' <= size'
    BY <1>1, <1>2, <1>4, <2>1
  <2> QED BY <2>1, <2>2 DEF ReadInv, SizeOK, ReadOK
<1>10. OrderOK'
  <2>1. made = heard + Len(given) + frames
        /\ \A i \in 1..frames : buffer[i] = heard + Len(given) + i
    BY DEF ReadInv, OrderOK
  <2>2. made' = heard' + Len(given') + frames'
    <3>1. /\ made' = made /\ heard' = heard + Len(given) /\ frames' = frames - want
          /\ Len(given') = want
      BY <1>3, <1>5
    <3> QED BY <1>1, <2>1, <3>1
  <2>3. \A i \in DOMAIN given' : given'[i] = heard' + i
    <3>1. DOMAIN given' = 1..want /\ 1..want \subseteq 1..frames
      BY <1>1, <1>2, <1>5
    <3> QED BY <1>3, <1>5, <2>1, <3>1
  <2>4. \A i \in 1..frames' : buffer'[i] = heard' + Len(given') + i
    <3> SUFFICES ASSUME NEW i \in 1..(frames - want)
                 PROVE  buffer'[i] = heard + Len(given) + want + i
      BY <1>3, <1>5
    <3>1. buffer'[i] = buffer[want + i] /\ want + i \in 1..frames
      BY <1>1, <1>2, <1>6
    <3> QED BY <1>1, <2>1, <3>1
  <2> QED BY <2>2, <2>3, <2>4 DEF OrderOK
<1> QED BY <1>7, <1>8, <1>9, <1>10 DEF ReadInv

LEMMA ReadStep ==
    ASSUME RatesSupported, SteadyReads, ReadInv, [Next]_vars
    PROVE  ReadInv'
<1>1. ASSUME NEW hw \in (IF client.out THEN OutSpecs ELSE InSpecs), AttachRoute(hw)
      PROVE  ReadInv'
  BY <1>1, ReadAttach
<1>2. ASSUME NEW n \in Requests, GetConvertedBuffer(n)
      PROVE  ReadInv'
  BY <1>2, ReadGet
<1>3. ASSUME NEW n \in Requests, Write(n)
      PROVE  ReadInv'
  BY <1>3 DEF Write, bufferVars, ReadInv, NumbersOK, EndsOK, SizeOK, ReadOK, OrderOK
<1>4. CASE Convert
  BY <1>4, ReadConvert
<1>5. CASE Deliver
  BY <1>5, ReadDeliver
<1>6. CASE UNCHANGED vars
  BY <1>6 DEF vars, bufferVars, ReadInv, NumbersOK, EndsOK, SizeOK, ReadOK, OrderOK
<1> QED BY <1>1, <1>2, <1>3, <1>4, <1>5, <1>6 DEF Next

\* The reads of an input stream return what was converted once and in order
\* (AudioConversion::getConvertedBuffer), whatever the rates the resampler
\* supports, however it rounds, and however often the stream changes its route,
\* as long as the margin of one read covers every other that it may serve.
THEOREM ConvertedIsInOrder == RatesSupported => (Spec => []ConvertedInOrder)
<1>1. CASE RatesSupported /\ SteadyReads
  <2>1. Init => ReadInv
    BY <1>1, ReadInit
  <2>2. ReadInv /\ [Next]_vars => ReadInv'
    BY <1>1, ReadStep
  <2>3. ReadInv => ConvertedInOrder
    <3> SUFFICES ASSUME ReadInv PROVE given = [i \in DOMAIN given |-> heard + i]
      BY DEF ConvertedInOrder
    <3>1. given \in Seq(Nat) /\ \A i \in DOMAIN given : given[i] = heard + i
      BY DEF ReadInv, NumbersOK, OrderOK
    <3> QED BY <3>1
  <2> QED BY <2>1, <2>2, <2>3, PTL DEF Spec
<1>2. CASE ~SteadyReads
  <2>1. ConvertedInOrder
    BY <1>2 DEF ConvertedInOrder
  <2> QED BY <2>1, PTL
<1> QED BY <1>1, <1>2

\* Under the same conditions nothing that is converted ends beyond the buffer:
\* "with margin of the worst case" is then enough.
THEOREM ConversionFits == RatesSupported /\ SteadyReads => (Spec => []WithinMargin)
<1> SUFFICES ASSUME RatesSupported, SteadyReads PROVE Spec => []WithinMargin
  OBVIOUS
<1>1. Init => ReadInv
  BY ReadInit
<1>2. ReadInv /\ [Next]_vars => ReadInv'
  BY ReadStep
<1>3. ReadInv => WithinMargin
  BY DEF ReadInv, ReadOK, WithinMargin
<1> QED BY <1>1, <1>2, <1>3, PTL DEF Spec

-----------------------------------------------------------------------------
(* Remapping.                                                              *)

Specs == {s \in [channels : 1..2, format : {S16, S24}, rate : Nat \ {0},
                 policy : Seq({Copy, Average, Ignore})] : Valid(s) # {}}


\* A word has the low bits of its sample, whatever is above them.
LEMMA WordIs ==
    ASSUME NEW format \in {S16, S24}, NEW x \in Int
    PROVE  \E a \in Int : WordOf(x, format) = x + 2 * (Span(format) * a)
<1>1. CASE format = S16
  <2>1. WordOf(x, format) = x + 2 * (Span(format) * 0)
    BY <1>1 DEF WordOf, Span
  <2> QED BY <2>1
<1>2. CASE format = S24
  <2>1. Span(format) = 16777216 /\ Words \in Nat \ {0} /\ Words % 33554432 = 0
    BY <1>2, ConversionAssumption DEF Span, S16, S24
  <2> DEFINE k == Words \div 33554432
             q == x \div Words
  <2>2. k \in Int /\ Words = 33554432 * k
    BY <2>1
  <2>3. q \in Int /\ x = Words * q + (x % Words)
    BY <2>1
  <2>4. k * q \in Int
    BY <2>2, <2>3
  <2> HIDE DEF k, q
  <2>5. Words * q = 33554432 * (k * q)
    BY <2>2, <2>3
  <2> DEFINE kq == k * q
  <2>6. kq \in Int /\ x = 33554432 * kq + (x % Words)
    BY <2>3, <2>4, <2>5
  <2> HIDE DEF kq
  <2>7. x % Words \in Int
    BY <2>1
  <2>8. PICK a \in Int : a = -kq
    BY <2>6
  <2>9. x % Words = x + 2 * (16777216 * a)
    BY <2>6, <2>7, <2>8
  <2>10. WordOf(x, format) = x % Words
    BY <1>2 DEF WordOf, S16, S24
  <2> QED BY <2>1, <2>9, <2>10
<1> QED BY <1>1, <1>2

\* A sample that fits its format is read back from the low bits.
LEMMA SampleIs ==
    ASSUME NEW format \in {S16, S24}, NEW v \in Int, NEW w \in Int, NEW a \in Int,
           -Span(format) <= 2 * v, 2 * v < Span(format), w = v + Span(format) * a
    PROVE  SampleOf(w, format) = v
<1> DEFINE low == w % Span(format)
           q == w \div Span(format)
<1>1. Span(format) = 65536 \/ Span(format) = 16777216
  BY DEF Span
<1>2. q \in Int /\ low \in Int /\ 0 <= low /\ low < Span(format) /\ w = Span(format) * q + low
  BY <1>1
<1>3. SampleOf(w, format) = IF 2 * low >= Span(format) THEN low - Span(format) ELSE low
  BY DEF SampleOf
<1> HIDE DEF low, q
<1>4. CASE Span(format) = 65536
  BY <1>2, <1>3, <1>4
<1>5. CASE Span(format) = 16777216
  BY <1>2, <1>3, <1>5
<1> QED BY <1>1, <1>4, <1>5

LEMMA FitsIs ==
    ASSUME NEW format, NEW x \in SamplesOf(format)
    PROVE  x \in Int /\ -Span(format) <= 2 * x /\ 2 * x < Span(format)
BY ConversionAssumption DEF SamplesOf

\* A sample survives as a word, and the half of two words is that of their samples.
LEMMA WordKeepsSample ==
    ASSUME NEW format \in {S16, S24}, NEW x \in SamplesOf(format)
    PROVE  /\ WordOf(x, format) \in Int
           /\ SampleOf(WordOf(x, format), format) = x
<1>1. x \in Int /\ -Span(format) <= 2 * x /\ 2 * x < Span(format)
  BY FitsIs
<1>2. PICK a \in Int : WordOf(x, format) = x + 2 * (Span(format) * a)
  BY <1>1, WordIs
<1>3. Span(format) \in Int
  BY DEF Span
<1>4. WordOf(x, format) \in Int /\ 2 * a \in Int
      /\ WordOf(x, format) = x + Span(format) * (2 * a)
  BY <1>1, <1>2, <1>3
<1> QED BY <1>1, <1>4, SampleIs

LEMMA HalfKeepsMean ==
    ASSUME NEW format \in {S16, S24}, NEW x \in SamplesOf(format), NEW y \in SamplesOf(format)
    PROVE  SampleOf((WordOf(x, format) + WordOf(y, format)) \div 2, format) = (x + y) \div 2
<1> DEFINE v == (x + y) \div 2
           w == (WordOf(x, format) + WordOf(y, format)) \div 2
<1>1. /\ x \in Int /\ -Span(format) <= 2 * x /\ 2 * x < Span(format)
      /\ y \in Int /\ -Span(format) <= 2 * y /\ 2 * y < Span(format)
  BY FitsIs
<1>2. PICK a \in Int : WordOf(x, format) = x + 2 * (Span(format) * a)
  BY <1>1, WordIs
<1>3. PICK b \in Int : WordOf(y, format) = y + 2 * (Span(format) * b)
  BY <1>1, WordIs
<1>4. Span(format) = 65536 \/ Span(format) = 16777216
  BY DEF Span
<1>5. v \in Int /\ -Span(format) <= 2 * v /\ 2 * v < Span(format)
  BY <1>1, <1>4
<1>6. a + b \in Int /\ w \in Int /\ w = v + Span(format) * (a + b)
  <2>1. CASE Span(format) = 65536
    BY <1>1, <1>2, <1>3, <2>1
  <2>2. CASE Span(format) = 16777216
    BY <1>1, <1>2, <1>3, <2>2
  <2> QED BY <1>4, <2>1, <2>2
<1> HIDE DEF v, w
<1>7. SampleOf(w, format) = v
  BY <1>5, <1>6, SampleIs
<1> QED BY <1>7 DEF v, w

\* The channels that may be valid, and how many they are.
LEMMA ValidIs ==
    ASSUME NEW s \in Specs
    PROVE  /\ Valid(s) \subseteq 1..s.channels /\ s.channels \in 1..2
           /\ Valid(s) \in {{1}, {2}, {1, 2}}
           /\ s.channels = 1 => Valid(s) = {1}
<1>1. s.channels \in 1..2 /\ Valid(s) # {} /\ Valid(s) \subseteq 1..s.channels
  BY DEF Specs, Valid
<1> QED BY <1>1

LEMMA HowMany ==
    Cardinality({1}) = 1 /\ Cardinality({2}) = 1 /\ Cardinality({1, 2}) = 2
<1>1. \A x : Cardinality({x}) = 1 /\ IsFiniteSet({x})
  BY FS_Singleton
<1>2. Cardinality({1} \cup {2}) = Cardinality({1}) + 1
  <2>1. 2 \notin {1}
    OBVIOUS
  <2> QED BY <1>1, <2>1, FS_AddElement
<1>3. {1} \cup {2} = {1, 2}
  OBVIOUS
<1> QED BY <1>1, <1>2, <1>3

\* The average of the words of a frame is a mean of its valid samples.
LEMMA AveragedIsMean ==
    ASSUME NEW s \in Specs, NEW frame \in [1..s.channels -> SamplesOf(s.format)],
           NEW word, word = [i \in DOMAIN frame |-> WordOf(frame[i], s.format)]
    PROVE  IsMean(SampleOf(Averaged(word, s), s.format), frame, Valid(s))
<1>1. /\ Valid(s) \subseteq 1..s.channels /\ s.format \in {S16, S24}
      /\ Valid(s) \in {{1}, {2}, {1, 2}}
  BY ValidIs DEF Specs
<1>2. \A i \in 1..s.channels : /\ frame[i] \in SamplesOf(s.format) /\ frame[i] \in Int
                               /\ word[i] = WordOf(frame[i], s.format) /\ word[i] \in Int
  BY <1>1, FitsIs, WordKeepsSample
<1>3. ASSUME NEW c \in {1, 2}, Valid(s) = {c} 
      PROVE  IsMean(SampleOf(Averaged(word, s), s.format), frame, Valid(s))
  <2>1. c \in 1..s.channels /\ Cardinality({c}) = 1
    BY <1>1, <1>3, HowMany
  <2>2. Total(frame, {c}) = frame[c] /\ Total(word, {c}) = word[c]
    <3>1. frame[c] \in Int /\ word[c] \in Int
      BY <1>2, <2>1
    <3>2. c = 1 \/ c = 2
      OBVIOUS
    <3>3. \A g : g[c] \in Int => Total(g, {c}) = g[c]
      <4>1. \A g : Total(g, {1}) = g[1] + 0 /\ Total(g, {2}) = 0 + g[2]
        BY DEF Total
      <4>2. \A i \in Int : i + 0 = i /\ 0 + i = i
        OBVIOUS
      <4> QED BY <3>2, <4>1, <4>2, Zenon
    <3> QED BY <3>1, <3>3
  <2>3. Averaged(word, s) = word[c]
    BY <1>2, <1>3, <2>1, <2>2 DEF Averaged
  <2>4. SampleOf(Averaged(word, s), s.format) = frame[c] /\ frame[c] \in Int
    BY <1>1, <1>2, <2>1, <2>3, WordKeepsSample
  <2> QED BY <1>3, <2>1, <2>2, <2>4 DEF IsMean
<1>4. CASE Valid(s) = {1, 2}
  <2>1. 1 \in 1..s.channels /\ 2 \in 1..s.channels /\ Cardinality(Valid(s)) = 2
    BY <1>1, <1>4, HowMany
  <2>2. /\ Total(frame, Valid(s)) = frame[1] + frame[2]
        /\ Total(word, Valid(s)) = word[1] + word[2]
    BY <1>2, <1>4, <2>1 DEF Total
  <2>3. Averaged(word, s) = (WordOf(frame[1], s.format) + WordOf(frame[2], s.format)) \div 2
    BY <1>2, <1>4, <2>1, <2>2 DEF Averaged
  <2>4. SampleOf(Averaged(word, s), s.format) = (frame[1] + frame[2]) \div 2
    BY <1>1, <1>2, <2>1, <2>3, HalfKeepsMean
  <2>5. frame[1] \in Int /\ frame[2] \in Int
    BY <1>2, <2>1
  <2> DEFINE v == SampleOf(Averaged(word, s), s.format)
  <2>6. 2 * v - (frame[1] + frame[2]) \in -1..0
    BY <2>4, <2>5
  <2> HIDE DEF v
  <2>7. IsMean(v, frame, Valid(s))
    BY <2>1, <2>2, <2>5, <2>6 DEF IsMean
  <2> QED BY <2>7 DEF v
<1> QED BY <1>1, <1>3, <1>4

\* The remapper makes the right samples between any two specifications it is
\* configured for.
LEMMA RemapperIsRight ==
    ASSUME NEW s \in Specs, NEW d \in Specs, Remappable(s, d), NEW stage,
           stage.src = s, stage.dst = d
    PROVE  RemapsRight(stage)
<1> SUFFICES ASSUME NEW frame \in [1..s.channels -> SamplesOf(s.format)],
                    NEW channel \in Valid(d)
             PROVE  RightSample(
                      SampleOf(Remap([i \in DOMAIN frame |-> WordOf(frame[i], s.format)],
                                     s, d)[channel], s.format), frame, channel, s, d)
  BY DEF RemapsRight
<1> DEFINE word == [i \in DOMAIN frame |-> WordOf(frame[i], s.format)]
           out == Remap(word, s, d)
<1>1. /\ s.format \in {S16, S24} /\ s.channels \in 1..2 /\ d.channels \in 1..2
      /\ channel \in 1..d.channels /\ d.policy[channel] # Ignore
      /\ (d.channels = 1 => channel = 1) /\ (s.channels = 1 => Valid(s) = {1})
  BY ValidIs DEF Specs, Valid
<1>2. \A i \in 1..s.channels : /\ frame[i] \in SamplesOf(s.format) /\ frame[i] \in Int
                               /\ word[i] = WordOf(frame[i], s.format)
                               /\ SampleOf(word[i], s.format) = frame[i]
  BY <1>1, FitsIs, WordKeepsSample
<1>3. IsMean(SampleOf(Averaged(word, s), s.format), frame, Valid(s))
  BY AveragedIsMean
<1> HIDE DEF word
<1>4. CASE d.channels = 1
  <2>1. out[channel] = Averaged(word, s) /\ d.channels # s.channels
    BY <1>1, <1>4 DEF Remap, Remappable
  <2> QED BY <1>3, <2>1 DEF RightSample, word
<1>5. CASE d.channels # 1 /\ s.channels = 1
  <2>1. out[channel] = word[1] /\ Valid(s) = {1} /\ d.channels # s.channels
    BY <1>1, <1>5 DEF Remap
  <2>2. SampleOf(out[channel], s.format) = frame[1] /\ frame[1] \in Int
    BY <1>1, <1>2, <2>1
  <2>3. IsMean(frame[1], frame, {1})
    <3>1. Total(frame, {1}) = frame[1]
      BY <2>2 DEF Total
    <3> QED BY <2>2, <3>1, HowMany DEF IsMean
  <2> QED BY <2>1, <2>2, <2>3 DEF RightSample, word
<1>6. CASE d.channels # 1 /\ s.channels # 1
  <2>1. d.channels = s.channels /\ channel \in 1..2 /\ channel \in 1..s.channels
    BY <1>1, <1>6
  <2>2. out[channel] = ConvertSample(word, channel, s, d)
    BY <1>6, <2>1 DEF Remap
  <2>3. channel \in Valid(s) <=> s.policy[channel] # Ignore
    BY <2>1 DEF Valid
  <2>4. CASE d.policy[channel] = Copy /\ s.policy[channel] # Ignore
    <3>1. out[channel] = word[channel]
      BY <1>1, <2>2, <2>4 DEF ConvertSample
    <3> QED BY <1>2, <2>1, <2>3, <2>4, <3>1 DEF RightSample, word
  <2>5. CASE ~(d.policy[channel] = Copy /\ s.policy[channel] # Ignore)
    <3>1. out[channel] = Averaged(word, s)
      BY <1>1, <2>2, <2>5 DEF ConvertSample
    <3> QED BY <1>3, <2>3, <2>5, <3>1 DEF RightSample, word
  <2> QED BY <2>4, <2>5
<1> QED BY <1>4, <1>5, <1>6

-----------------------------------------------------------------------------
(* The chain.  Rates, formats and channels are reduced before and completed *)
(* after; the resamplers are those of earlier attachments.                 *)

\* The resampling library converts what the pivot rate would not fit.
PivotSuffices ==
    \A s, d \in {c.spec : c \in Clients} \cup OutSpecs \cup InSpecs :
        s.rate = d.rate \/ Supported(s.rate, d.rate) \/ d.rate <= PIVOT_SAMPLE_RATE

\* A resampler that has a context and two rates has the context of these rates.
ResamplerOK(r) ==
    r.context # NoContext /\ r.src.rate # r.dst.rate =>
        /\ r.context.from = r.src.rate /\ r.context.to = r.dst.rate
        /\ Supported(r.src.rate, r.dst.rate)

\* The context is for as many channels as some attachment had to resample.
Sized(r, seen) == r.context # NoContext => r.context.channels \in seen

\* It keeps that whatever it is asked for, and when it says that it resamples, it does.
LEMMA ResamplerKeeps ==
    ASSUME NEW r, ResamplerOK(r), NEW s, NEW d, NEW seen, Sized(r, seen),
           s.channels \in seen, \A other \in Others("rate") : ItemEqual(other, s, d)
    PROVE  /\ ResamplerOK(Resampler(r, s, d)) /\ Sized(Resampler(r, s, d), seen)
           /\ Resamples(r, s, d) /\ s.rate # d.rate =>
                /\ Resampler(r, s, d).context.from = s.rate
                /\ Resampler(r, s, d).context.to = d.rate
                /\ Resampler(r, s, d).context.channels \in seen
           /\ ~Resamples(r, s, d) /\ s.rate # d.rate =>
                /\ Resampler(r, s, d).context = NoContext
                /\ ~Supported(s.rate, d.rate)
<1>1. Convertible("rate", s, d) <=> s.rate # d.rate
  BY DEF Convertible, ItemEqual
<1>2. CASE Configured(r, s, d)
  BY <1>2 DEF Configured, Resampler, Resamples, ResamplerOK, Sized, Sized
<1>3. CASE ~Configured(r, s, d) /\ s.rate = d.rate
  BY <1>1, <1>3 DEF Resampler, Resamples, ResamplerOK, Sized
<1>4. CASE ~Configured(r, s, d) /\ s.rate # d.rate /\ Supported(s.rate, d.rate)
  <2>1. Resampler(r, s, d) = [src |-> s, dst |-> d,
           context |-> [channels |-> s.channels, from |-> s.rate, to |-> d.rate]]
    BY <1>1, <1>4 DEF Resampler
  <2> QED BY <1>1, <1>4, <2>1 DEF Resamples, ResamplerOK, Sized
<1>5. CASE ~Configured(r, s, d) /\ s.rate # d.rate /\ ~Supported(s.rate, d.rate)
  <2>1. Resampler(r, s, d) = [src |-> s, dst |-> d, context |-> NoContext]
    BY <1>1, <1>5 DEF Resampler
  <2> QED BY <1>1, <1>5, <2>1 DEF Resamples, ResamplerOK, Sized
<1> QED BY <1>2, <1>3, <1>4, <1>5

\* What a converter between two ends has to be like.
StageOK(stage, src, dst, seen) ==
    /\ Convertible(stage.item, stage.src, stage.dst)
    /\ stage.item = "rate" =>
         /\ ResamplesRight(stage) /\ stage.src.channels = Min({src.channels, dst.channels})
         /\ \A j \in DOMAIN stage.by : stage.by[j].channels \in seen
    /\ stage.item = "channels" => RemapsRight(stage)

\* A chain from src that has reached a specification.
Leads(list, reached, src, dst, seen) ==
    /\ \E S : list \in Seq(S)
    /\ IF list = <<>> THEN reached = src
       ELSE list[1].src = src /\ list[Len(list)].dst = reached
    /\ \A i \in 1..(Len(list) - 1) : list[i].dst = list[i + 1].src
    /\ \A i \in 1..Len(list) : StageOK(list[i], src, dst, seen)

LEMMA OneMoreStage ==
    ASSUME NEW list, NEW reached, NEW src, NEW dst, NEW seen,
           Leads(list, reached, src, dst, seen),
           NEW stage, StageOK(stage, src, dst, seen), stage.src = reached
    PROVE  Leads(Append(list, stage), stage.dst, src, dst, seen)
<1>1. PICK S : list \in Seq(S)
  BY DEF Leads
<1> DEFINE T == S \cup {stage}
           longer == Append(list, stage)
<1>2. /\ list \in Seq(T) /\ stage \in T /\ Len(list) \in Nat
      /\ longer \in Seq(T) /\ Len(longer) = Len(list) + 1
      /\ longer[Len(list) + 1] = stage /\ \A i \in 1..Len(list) : longer[i] = list[i]
  BY <1>1
<1> HIDE DEF longer, T
<1>3. longer # <<>> /\ longer[Len(longer)] = stage
  BY <1>2
<1>4. longer[1].src = src
  <2>1. CASE list = <<>>
    BY <1>2, <2>1 DEF Leads
  <2>2. CASE list # <<>>
    <3>1. Len(list) # 0
      BY <1>1, <2>2
    <3> QED BY <1>2, <2>2, <3>1 DEF Leads
  <2> QED BY <2>1, <2>2
<1>5. ASSUME NEW i \in 1..(Len(longer) - 1) PROVE longer[i].dst = longer[i + 1].src
  <2>1. CASE i < Len(list)
    <3>1. i \in 1..(Len(list) - 1) /\ i \in 1..Len(list) /\ i + 1 \in 1..Len(list)
      BY <1>2, <2>1
    <3> QED BY <1>2, <3>1 DEF Leads
  <2>2. CASE i = Len(list)
    <3>1. list # <<>> /\ longer[i] = list[i] /\ longer[i + 1] = stage
      BY <1>1, <1>2, <2>2
    <3> QED BY <2>2, <3>1 DEF Leads
  <2> QED BY <1>2, <1>5, <2>1, <2>2
<1>6. ASSUME NEW i \in 1..Len(longer) PROVE StageOK(longer[i], src, dst, seen)
  <2>1. CASE i \in 1..Len(list)
    BY <1>2, <2>1 DEF Leads
  <2>2. CASE i = Len(list) + 1
    BY <1>2, <2>2
  <2> QED BY <1>2, <2>1, <2>2
<1>7. Leads(longer, stage.dst, src, dst, seen)
  BY <1>2, <1>3, <1>4, <1>5, <1>6 DEF Leads
<1> QED BY <1>7 DEF longer

\* A configuration in progress, between two ends: the resamplers stay in order,
\* and as long as all goes well the chain leads to what is reached.
Progress(x, src, dst, seen) ==
    /\ x = [reached |-> x.reached, chain |-> x.chain, ok |-> x.ok,
            resampler |-> x.resampler, pivot |-> x.pivot]
    /\ x.ok \in BOOLEAN
    /\ ResamplerOK(x.resampler) /\ ResamplerOK(x.pivot)
    /\ Sized(x.resampler, seen) /\ Sized(x.pivot, seen)
    /\ x.ok => x.reached \in Specs /\ Leads(x.chain, x.reached, src, dst, seen)

\* Specifications with one item changed, or with two.
LEMMA SpecIs ==
    ASSUME NEW s \in Specs
    PROVE  /\ s.channels \in 1..2 /\ s.format \in {S16, S24} /\ s.rate \in Nat
           /\ s = [channels |-> s.channels, format |-> s.format,
                   rate |-> s.rate, policy |-> s.policy]
BY DEF Specs, S16, S24

LEMMA SpecOf ==
    ASSUME NEW s \in Specs, NEW format \in {S16, S24}, NEW rate \in Nat \ {0}
    PROVE  [channels |-> s.channels, format |-> format, rate |-> rate, policy |-> s.policy]
             \in Specs
<1> DEFINE d == [channels |-> s.channels, format |-> format, rate |-> rate, policy |-> s.policy]
<1>1. /\ d.channels = s.channels /\ d.policy = s.policy
      /\ d \in [channels : 1..2, format : {S16, S24}, rate : Nat \ {0},
               policy : Seq({Copy, Average, Ignore})]
  BY DEF Specs
<1> HIDE DEF d
<1>2. Valid(d) = Valid(s) /\ Valid(s) # {}
  BY <1>1 DEF Valid, Specs
<1>3. d \in Specs
  BY <1>1, <1>2 DEF Specs
<1> QED BY <1>3 DEF d

LEMMA WithRate ==
    ASSUME NEW s \in Specs, NEW rate
    PROVE  [s EXCEPT !.rate = rate] =
             [channels |-> s.channels, format |-> s.format, rate |-> rate, policy |-> s.policy]
BY DEF Specs

LEMMA WithFormat ==
    ASSUME NEW s \in Specs, NEW format
    PROVE  [s EXCEPT !.format = format] =
             [channels |-> s.channels, format |-> format, rate |-> s.rate, policy |-> s.policy]
BY DEF Specs

LEMMA SameSpec ==
    ASSUME NEW s \in Specs, NEW t \in Specs, s.channels = t.channels, s.format = t.format,
           s.rate = t.rate, s.policy = t.policy
    PROVE  s = t
<1>1. /\ s = [channels |-> s.channels, format |-> s.format, rate |-> s.rate, policy |-> s.policy]
      /\ t = [channels |-> t.channels, format |-> t.format, rate |-> t.rate, policy |-> t.policy]
  BY SpecIs
<1>2. [channels |-> s.channels, format |-> s.format, rate |-> s.rate, policy |-> s.policy]
        = [channels |-> t.channels, format |-> t.format, rate |-> t.rate, policy |-> t.policy]
  OBVIOUS
<1> QED BY <1>1, <1>2, Zenon

LEMMA WithChannels ==
    ASSUME NEW s \in Specs, NEW dst \in Specs
    PROVE  LET d == [s EXCEPT !.channels = dst.channels, !.policy = dst.policy]
           IN  /\ d \in Specs /\ d.channels = dst.channels /\ d.policy = dst.policy
               /\ d.format = s.format /\ d.rate = s.rate
<1> DEFINE d == [s EXCEPT !.channels = dst.channels, !.policy = dst.policy]
           Shape == [channels : 1..2, format : {S16, S24}, rate : Nat \ {0},
                     policy : Seq({Copy, Average, Ignore})]
<1>1. s \in Shape /\ dst \in Shape /\ Valid(dst) # {}
  BY DEF Specs
<1>2. /\ d \in Shape /\ d.channels = dst.channels /\ d.policy = dst.policy
      /\ d.format = s.format /\ d.rate = s.rate
  BY <1>1
<1> HIDE DEF d
<1>3. d \in Specs
  BY <1>1, <1>2 DEF Specs, Valid
<1> QED BY <1>2, <1>3 DEF d

\* Resampling, with one resampler or two.  Two are used between rates that are
\* not the pivot's only: else the second would convert what the first did not.
LEMMA ResamplerAdded ==
    ASSUME NEW src, NEW dst, NEW seen, NEW x, Progress(x, src, dst, seen), x.ok,
           NEW rate \in Nat \ {0}, rate # x.reached.rate,
           x.reached.format = S16, x.reached.channels = Min({src.channels, dst.channels}),
           x.reached.channels \in seen,
           Supported(x.reached.rate, rate) \/ rate <= PIVOT_SAMPLE_RATE
    PROVE  LET d == [x.reached EXCEPT !.rate = rate]
               y == AddResampler(x, d)
           IN  Progress(y, src, dst, seen) /\ (y.ok => y.reached = d)
<1> DEFINE s == x.reached
           d == [s EXCEPT !.rate = rate]
           y == AddResampler(x, d)
           mid == [d EXCEPT !.rate = PIVOT_SAMPLE_RATE]
           one == Resampler(x.resampler, s, d)
           first == Resampler(x.pivot, s, mid)
           last == Resampler(one, mid, d)
<1>1. /\ s \in Specs /\ d \in Specs /\ d.rate = rate /\ mid.rate = PIVOT_SAMPLE_RATE
      /\ \A other \in Others("rate") : ItemEqual(other, s, d) /\ ItemEqual(other, s, mid)
                                          /\ ItemEqual(other, mid, d)
      /\ s.channels \in seen /\ mid.channels \in seen
  <2>1. s \in Specs
    BY DEF Progress
  <2>2. d = [channels |-> s.channels, format |-> s.format, rate |-> rate, policy |-> s.policy]
    BY <2>1, WithRate
  <2>3. d \in Specs
    <3>1. s.format \in {S16, S24}
      BY <2>1 DEF Specs
    <3> QED BY <2>1, <2>2, <3>1, SpecOf
  <2> HIDE DEF d
  <2>4. mid = [channels |-> d.channels, format |-> d.format, rate |-> PIVOT_SAMPLE_RATE,
               policy |-> d.policy]
    BY <2>3, WithRate
  <2> HIDE DEF mid
  <2> QED BY <2>1, <2>2, <2>3, <2>4 DEF Others, Items, ItemEqual
<1> HIDE DEF d, mid, one, first, last
<1>2. /\ ResamplerOK(x.resampler) /\ ResamplerOK(x.pivot) /\ ResamplerOK(one)
      /\ ResamplerOK(first) /\ ResamplerOK(last)
      /\ Sized(x.resampler, seen) /\ Sized(x.pivot, seen) /\ Sized(one, seen)
      /\ Sized(first, seen) /\ Sized(last, seen)
  BY <1>1, ResamplerKeeps DEF Progress, one, first, last
<1>3. CASE Resamples(x.resampler, s, d)
  <2> DEFINE stage == Stage("rate", s, d, <<one.context>>)
  <2>1. y = [reached |-> d, chain |-> Append(x.chain, stage), ok |-> x.ok,
             resampler |-> one, pivot |-> x.pivot]
    BY <1>3 DEF AddResampler, Added, one, Progress
  <2>2. one.context.from = s.rate /\ one.context.to = d.rate /\ one.context.channels \in seen
    BY <1>1, <1>3, ResamplerKeeps DEF Progress, one
  <2>3. StageOK(stage, src, dst, seen)
    BY <1>1, <2>2 DEF StageOK, Stage, Convertible, ResamplesRight, Last, ItemEqual
  <2>4. Leads(Append(x.chain, stage), d, src, dst, seen)
    BY <2>3, OneMoreStage DEF Progress, Stage
  <2> HIDE DEF y, stage
  <2>5. Progress(y, src, dst, seen) /\ y.reached = d
    BY <1>1, <1>2, <2>1, <2>4 DEF Progress
  <2> QED BY <2>5 DEF y, d
<1>4. CASE /\ ~Resamples(x.resampler, s, d)
           /\ Resamples(x.pivot, s, mid) /\ Resamples(one, mid, d)
  <2> DEFINE stage == Stage("rate", s, d, <<first.context, last.context>>)
  <2>1. y = [reached |-> d, chain |-> Append(x.chain, stage), ok |-> x.ok,
             resampler |-> last, pivot |-> first]
    BY <1>4 DEF AddResampler, Added, mid, one, first, last, Progress
  <2>2. one.context = NoContext /\ ~Supported(s.rate, d.rate)
    BY <1>1, <1>4, ResamplerKeeps DEF Progress, one
  <2>3. Supported(mid.rate, d.rate) /\ mid.rate # d.rate
    BY <1>4, <2>2 DEF Resamples, Configured, Convertible, ItemEqual
  <2>4. s.rate # mid.rate
    BY <2>2, <2>3
  <2>5. /\ first.context.from = s.rate /\ first.context.to = mid.rate
        /\ last.context.from = mid.rate /\ last.context.to = d.rate
        /\ first.context.channels \in seen /\ last.context.channels \in seen
    BY <1>1, <1>2, <1>4, <2>3, <2>4, ResamplerKeeps DEF first, last
  <2>6. d.rate <= mid.rate
    BY <1>1, <2>2
  <2>7. StageOK(stage, src, dst, seen)
    BY <1>1, <2>5, <2>6 DEF StageOK, Stage, Convertible, ResamplesRight, Last, ItemEqual
  <2>8. Leads(Append(x.chain, stage), d, src, dst, seen)
    BY <2>7, OneMoreStage DEF Progress, Stage
  <2> HIDE DEF y, stage
  <2>9. Progress(y, src, dst, seen) /\ y.reached = d
    BY <1>1, <1>2, <2>1, <2>8 DEF Progress
  <2> QED BY <2>9 DEF y, d
<1>5. CASE /\ ~Resamples(x.resampler, s, d)
           /\ ~(Resamples(x.pivot, s, mid) /\ Resamples(one, mid, d))
  <2>1. \E r \in {one, last} :
          y = [reached |-> s, chain |-> x.chain, ok |-> FALSE, resampler |-> r, pivot |-> first]
    BY <1>5 DEF AddResampler, mid, one, first, last, Progress
  <2> HIDE DEF y
  <2>2. Progress(y, src, dst, seen) /\ ~y.ok
    BY <1>2, <2>1 DEF Progress
  <2> QED BY <2>2 DEF y, d
<1> QED BY <1>3, <1>4, <1>5 DEF d

\* The other converters keep what they do not change.
LEMMA ConverterAdded ==
    ASSUME NEW src, NEW dst, NEW seen, NEW x, Progress(x, src, dst, seen), x.ok,
           NEW item \in Items \ {"rate"}, NEW d \in Specs, Convertible(item, x.reached, d),
           item = "channels" => Remappable(x.reached, d)
    PROVE  LET y == Added(x, item, d, <<>>)
           IN  Progress(y, src, dst, seen) /\ y.reached = d
<1> DEFINE stage == Stage(item, x.reached, d, <<>>)
           y == Added(x, item, d, <<>>)
<1>1. y = [reached |-> d, chain |-> Append(x.chain, stage), ok |-> x.ok,
           resampler |-> x.resampler, pivot |-> x.pivot]
  <2>1. x = [reached |-> x.reached, chain |-> x.chain, ok |-> x.ok,
             resampler |-> x.resampler, pivot |-> x.pivot]
    BY DEF Progress
  <2> HIDE DEF stage
  <2>2. y = [x EXCEPT !.reached = d, !.chain = Append(x.chain, stage)]
    BY DEF Added, stage
  <2> QED BY <2>1, <2>2
<1>2. stage.item = item /\ stage.src = x.reached /\ stage.dst = d /\ x.reached \in Specs
  BY DEF Stage, Progress
<1> HIDE DEF stage
<1>5. item = "channels" => RemapsRight(stage)
  BY <1>2, RemapperIsRight
<1>6. StageOK(stage, src, dst, seen)
  BY <1>2, <1>5 DEF StageOK
<1>3. Leads(Append(x.chain, stage), d, src, dst, seen)
  BY <1>2, <1>6, OneMoreStage DEF Progress
<1> HIDE DEF y
<1>4. Progress(y, src, dst, seen) /\ y.reached = d
  BY <1>1, <1>3 DEF Progress
<1> QED BY <1>4 DEF y

LEMMA FormatAdded ==
    ASSUME NEW src, NEW dst \in Specs, NEW seen, NEW x, Progress(x, src, dst, seen), x.ok,
           x.reached.format # dst.format
    PROVE  LET y == Add(x, "format", dst)
           IN  /\ Progress(y, src, dst, seen)
               /\ y.reached.format = dst.format
               /\ y.reached.channels = x.reached.channels /\ y.reached.rate = x.reached.rate
<1> DEFINE s == x.reached
           d == [s EXCEPT !.format = dst.format]
<1>1. s \in Specs
  BY DEF Progress
<1>2. d = [channels |-> s.channels, format |-> dst.format, rate |-> s.rate, policy |-> s.policy]
  BY <1>1, WithFormat
<1>3. d \in Specs /\ Convertible("format", s, d)
  <2>1. dst.format \in {S16, S24} /\ s.rate \in Nat \ {0}
    BY <1>1 DEF Specs
  <2>2. d \in Specs
    BY <1>1, <1>2, <2>1, SpecOf
  <2> QED BY <1>2, <2>2 DEF Convertible, Others, Items, ItemEqual
<1>4. Add(x, "format", dst) = Added(x, "format", d, <<>>)
  BY DEF Add
<1>5. Progress(Added(x, "format", d, <<>>), src, dst, seen) /\ Added(x, "format", d, <<>>).reached = d
  BY <1>3, ConverterAdded DEF Items
<1>6. d.format = dst.format /\ d.channels = s.channels /\ d.rate = s.rate
  BY <1>2
<1> QED BY <1>4, <1>5, <1>6

LEMMA ChannelsAdded ==
    ASSUME NEW src, NEW dst \in Specs, NEW seen, NEW x, Progress(x, src, dst, seen), x.ok,
           ~ItemEqual("channels", x.reached, dst)
    PROVE  LET y == Add(x, "channels", dst)
           IN  /\ Progress(y, src, dst, seen)
               /\ y.ok => /\ y.reached.channels = dst.channels
                          /\ y.reached.policy = dst.policy
                          /\ y.reached.format = x.reached.format
                          /\ y.reached.rate = x.reached.rate
<1> DEFINE s == x.reached
           d == [s EXCEPT !.channels = dst.channels, !.policy = dst.policy]
           y == Add(x, "channels", dst)
<1>1. s \in Specs
  BY DEF Progress
<1>2. /\ d \in Specs /\ d.channels = dst.channels /\ d.policy = dst.policy
      /\ d.format = s.format /\ d.rate = s.rate
  BY <1>1, WithChannels
<1>3. Convertible("channels", s, d)
  BY <1>2 DEF Convertible, Others, Items, ItemEqual
<1>4. y = IF Remappable(s, d) THEN Added(x, "channels", d, <<>>) ELSE [x EXCEPT !.ok = FALSE]
  BY DEF Add
<1> HIDE DEF d
<1>5. CASE Remappable(s, d)
  <2>1. Progress(Added(x, "channels", d, <<>>), src, dst, seen)
        /\ Added(x, "channels", d, <<>>).reached = d
    BY <1>2, <1>3, <1>5, ConverterAdded DEF Items
  <2> HIDE DEF y
  <2>2. y.reached = d /\ Progress(y, src, dst, seen)
    BY <1>4, <1>5, <2>1
  <2>3. /\ Progress(y, src, dst, seen)
        /\ y.reached.channels = dst.channels /\ y.reached.policy = dst.policy
        /\ y.reached.format = s.format /\ y.reached.rate = s.rate
    BY <1>2, <2>2
  <2> QED BY <2>3 DEF y
<1>6. CASE ~Remappable(s, d)
  <2>1. y = [reached |-> s, chain |-> x.chain, ok |-> FALSE,
             resampler |-> x.resampler, pivot |-> x.pivot]
    BY <1>4, <1>6 DEF Progress
  <2> HIDE DEF y
  <2>2. Progress(y, src, dst, seen) /\ ~y.ok
    BY <2>1 DEF Progress
  <2> QED BY <2>2 DEF y
<1> QED BY <1>5, <1>6

LEMMA RateAdded ==
    ASSUME NEW src, NEW dst \in Specs, NEW seen, NEW x, Progress(x, src, dst, seen), x.ok,
           x.reached.rate # dst.rate,
           x.reached.format = S16, x.reached.channels = Min({src.channels, dst.channels}),
           x.reached.channels \in seen,
           Supported(x.reached.rate, dst.rate) \/ dst.rate <= PIVOT_SAMPLE_RATE
    PROVE  LET y == Add(x, "rate", dst)
           IN  /\ Progress(y, src, dst, seen)
               /\ y.ok => /\ y.reached.rate = dst.rate
                          /\ y.reached.format = x.reached.format
                          /\ y.reached.channels = x.reached.channels
<1> DEFINE d == [x.reached EXCEPT !.rate = dst.rate]
<1>1. Add(x, "rate", dst) = AddResampler(x, [x.reached EXCEPT !.rate = dst.rate])
  BY DEF Add
<1>2. dst.rate \in Nat \ {0} /\ x.reached \in Specs
  BY DEF Specs, Progress
<1>3. d.rate = dst.rate /\ d.format = x.reached.format /\ d.channels = x.reached.channels
  BY <1>2 DEF Specs
<1>4. /\ Progress(AddResampler(x, d), src, dst, seen)
      /\ AddResampler(x, d).ok => AddResampler(x, d).reached = d
  BY <1>2, ResamplerAdded
<1> HIDE DEF d
<1>5. Add(x, "rate", dst) = AddResampler(x, d)
  BY <1>1 DEF d
<1> QED BY <1>3, <1>4, <1>5

\* The six steps.
Configurable(src, dst) ==
    /\ src \in Specs /\ dst \in Specs /\ S16 \in {src.format, dst.format}
    /\ src.rate = dst.rate \/ Supported(src.rate, dst.rate) \/ dst.rate <= PIVOT_SAMPLE_RATE

LEMMA LeastChannels ==
    ASSUME NEW a \in 1..2, NEW b \in 1..2
    PROVE  Min({a, b}) = IF a > b THEN b ELSE a
<1>1. \A x \in {a, b} : (\A y \in {a, b} : x <= y) <=> x = IF a > b THEN b ELSE a
  OBVIOUS
<1>2. \E x \in {a, b} : \A y \in {a, b} : x <= y
  OBVIOUS
<1> QED BY <1>1, <1>2 DEF Min

LEMMA ChainIsBuilt ==
    ASSUME NEW src, NEW dst, Configurable(src, dst), NEW seen,
           Min({src.channels, dst.channels}) \in seen, NEW x, Progress(x, src, dst, seen),
           x.ok, x.reached = src
    PROVE  LET y == ConfigureAndAddConverter(x, dst)
           IN  Progress(y, src, dst, seen) /\ (y.ok => y.reached = dst)
<1> DEFINE a == Reduce(x, "channels", dst)
           b == Reduce(a, "format", dst)
           c == Reduce(b, "rate", dst)
           d == Complete(c, "rate", dst)
           e == Complete(d, "format", dst)
           f == Complete(e, "channels", dst)
           least == Min({src.channels, dst.channels})
<1>0. /\ src \in Specs /\ dst \in Specs /\ S16 \in {src.format, dst.format}
      /\ \A s \in Specs : s.channels \in 1..2 /\ s.format \in {S16, S24} /\ s.rate \in Nat
      /\ least \in seen
      /\ least = IF src.channels > dst.channels THEN dst.channels ELSE src.channels
  BY SpecIs, LeastChannels DEF Configurable
<1>1. /\ Progress(a, src, dst, seen)
      /\ a.ok => /\ a.reached.channels = least /\ a.reached.format = src.format
                 /\ a.reached.rate = src.rate
  <2>1. CASE src.channels > dst.channels
    <3>1. a = Add(x, "channels", dst) /\ ~ItemEqual("channels", x.reached, dst)
      BY <1>0, <2>1 DEF Reduce, ItemEqual
    <3>2. /\ Progress(a, src, dst, seen)
          /\ a.ok => /\ a.reached.channels = dst.channels
                     /\ a.reached.format = src.format /\ a.reached.rate = src.rate
      BY <1>0, <3>1, ChannelsAdded
    <3> HIDE DEF a
    <3> QED BY <1>0, <2>1, <3>2
  <2>2. CASE ~(src.channels > dst.channels)
    BY <1>0, <2>2 DEF Reduce
  <2> QED BY <2>1, <2>2
<1> HIDE DEF a
<1>2. /\ Progress(b, src, dst, seen)
      /\ b.ok => /\ b.reached.channels = least /\ b.reached.format = S16
                 /\ b.reached.rate = src.rate
  <2>1. CASE a.ok /\ a.reached.format > dst.format
    <3>1. b = Add(a, "format", dst) /\ a.reached \in Specs
      BY <1>1, <2>1 DEF Reduce, Progress
    <3>2. a.reached.format # dst.format /\ dst.format = S16
      BY <1>0, <1>1, <2>1 DEF S16, S24
    <3>3. /\ Progress(b, src, dst, seen) /\ b.reached.format = dst.format
          /\ b.reached.channels = a.reached.channels /\ b.reached.rate = a.reached.rate
      BY <1>0, <1>1, <2>1, <3>1, <3>2, FormatAdded
    <3> HIDE DEF b
    <3> QED BY <1>0, <1>1, <2>1, <3>1, <3>2, <3>3
  <2>2. CASE ~(a.ok /\ a.reached.format > dst.format)
    <3>1. b = a
      BY <2>2 DEF Reduce
    <3>2. a.ok => a.reached.format = S16
      BY <1>0, <1>1, <2>2 DEF S16, S24
    <3> HIDE DEF b
    <3> QED BY <1>1, <3>1, <3>2
  <2> QED BY <2>1, <2>2
<1> HIDE DEF b
<1>3. ASSUME NEW z, Progress(z, src, dst, seen), z.ok, z.reached.rate # dst.rate,
             z.reached.channels = least, z.reached.format = S16, z.reached.rate = src.rate
      PROVE  /\ Progress(Add(z, "rate", dst), src, dst, seen)
             /\ Add(z, "rate", dst).ok =>
                  /\ Add(z, "rate", dst).reached.rate = dst.rate
                  /\ Add(z, "rate", dst).reached.format = S16
                  /\ Add(z, "rate", dst).reached.channels = least
  BY <1>0, <1>3, RateAdded DEF Configurable
<1>4. /\ Progress(c, src, dst, seen)
      /\ c.ok => /\ c.reached.channels = least /\ c.reached.format = S16
                 /\ c.reached.rate \in {src.rate, dst.rate}
  <2>1. CASE b.ok /\ b.reached.rate > dst.rate
    <3>1. c = Add(b, "rate", dst) /\ b.reached \in Specs
      BY <1>2, <2>1 DEF Reduce, Progress
    <3>2. b.reached.rate # dst.rate
      BY <1>0, <2>1, <3>1
    <3>3. /\ Progress(c, src, dst, seen)
          /\ c.ok => /\ c.reached.rate = dst.rate /\ c.reached.format = S16
                     /\ c.reached.channels = least
      BY <1>2, <1>3, <2>1, <3>1, <3>2
    <3> HIDE DEF c
    <3> QED BY <1>0, <1>2, <2>1, <3>1, <3>3
  <2>2. CASE ~(b.ok /\ b.reached.rate > dst.rate)
    BY <1>2, <2>2 DEF Reduce
  <2> QED BY <2>1, <2>2
<1> HIDE DEF c
<1>5. /\ Progress(d, src, dst, seen)
      /\ d.ok => /\ d.reached.channels = least /\ d.reached.format = S16
                 /\ d.reached.rate = dst.rate
  <2>1. CASE c.ok /\ c.reached.rate # dst.rate
    <3>1. d = Add(c, "rate", dst) /\ c.reached \in Specs
      BY <1>4, <2>1 DEF Complete, ItemEqual, Progress
    <3>2. /\ Progress(d, src, dst, seen)
          /\ d.ok => /\ d.reached.rate = dst.rate /\ d.reached.format = S16
                     /\ d.reached.channels = least
      BY <1>3, <1>4, <2>1, <3>1
    <3> HIDE DEF d
    <3> QED BY <1>0, <1>4, <2>1, <3>1, <3>2
  <2>2. CASE ~(c.ok /\ c.reached.rate # dst.rate)
    BY <1>4, <2>2 DEF Complete, ItemEqual
  <2> QED BY <2>1, <2>2
<1> HIDE DEF d
<1>6. /\ Progress(e, src, dst, seen)
      /\ e.ok => e.reached.format = dst.format /\ e.reached.rate = dst.rate
  <2>1. CASE d.ok /\ d.reached.format # dst.format
    <3>1. e = Add(d, "format", dst) /\ d.reached \in Specs
      BY <1>5, <2>1 DEF Complete, ItemEqual, Progress
    <3>2. /\ Progress(e, src, dst, seen)
          /\ e.reached.format = dst.format /\ e.reached.rate = d.reached.rate
      BY <1>0, <1>5, <2>1, <3>1, FormatAdded
    <3> HIDE DEF e
    <3> QED BY <1>0, <1>5, <2>1, <3>1, <3>2
  <2>2. CASE ~(d.ok /\ d.reached.format # dst.format)
    BY <1>5, <2>2 DEF Complete, ItemEqual
  <2> QED BY <2>1, <2>2
<1> HIDE DEF e
<1>7. Progress(f, src, dst, seen) /\ (f.ok => f.reached = dst)
  <2>1. CASE e.ok /\ ~ItemEqual("channels", e.reached, dst)
    <3>1. f = Add(e, "channels", dst) /\ e.reached \in Specs
      BY <1>6, <2>1 DEF Complete, Progress
    <3>2. /\ Progress(f, src, dst, seen)
          /\ f.ok => /\ f.reached.channels = dst.channels /\ f.reached.policy = dst.policy
                     /\ f.reached.format = dst.format /\ f.reached.rate = dst.rate
      BY <1>0, <1>6, <2>1, <3>1, ChannelsAdded
    <3> HIDE DEF f
    <3>3. f.ok => f.reached \in Specs
      BY <3>2 DEF Progress
    <3> QED BY <1>0, <3>2, <3>3, SameSpec
  <2>2. CASE ~(e.ok /\ ~ItemEqual("channels", e.reached, dst))
    <3>1. f = e
      BY <2>2 DEF Complete
    <3>2. e.ok => e.reached \in Specs /\ e.reached.channels = dst.channels
                    /\ e.reached.policy = dst.policy
      BY <1>6, <2>2 DEF ItemEqual, Progress
    <3> HIDE DEF f
    <3> QED BY <1>0, <1>6, <3>1, <3>2, SameSpec
  <2> QED BY <2>1, <2>2
<1>8. ConfigureAndAddConverter(x, dst) = f
  BY DEF ConfigureAndAddConverter, a, b, c, d, e
<1> QED BY <1>7, <1>8

ChainInv ==
    /\ client \in Clients
    /\ ResamplerOK(resampler) /\ ResamplerOK(pivot)
    /\ Sized(resampler, widths) /\ Sized(pivot, widths)
    /\ ChainConverts

LEMMA ChainInit == Init => ChainInv
<1> SUFFICES ASSUME Init PROVE ChainInv
  OBVIOUS
<1>1. ResamplerOK(Idle) /\ Sized(Idle, widths)
  BY DEF ResamplerOK, Sized, Idle
<1>2. ChainConverts
  BY DEF Init, ChainConverts, ChainLeads
<1> QED BY <1>1, <1>2 DEF Init, ChainInv

LEMMA ChainAttach ==
    ASSUME PivotSuffices, ChainInv,
           NEW hw \in (IF client.out THEN OutSpecs ELSE InSpecs), AttachRoute(hw)
    PROVE  ChainInv'
<1> DEFINE src == IF client.out THEN client.spec ELSE hw
           dst == IF client.out THEN hw ELSE client.spec
           x == Configuration(src, dst)
           start == [reached |-> src, chain |-> <<>>, ok |-> TRUE,
                     resampler |-> resampler, pivot |-> pivot]
           seen == widths \cup {Min({src.channels, dst.channels})}
<1>0. Min({src.channels, dst.channels}) \in seen
  OBVIOUS
<1>1. Configurable(src, dst)
  <2>1. client \in Clients /\ client.out \in BOOLEAN /\ IsSpec(client.spec)
        /\ hw \in OutSpecs \cup InSpecs /\ IsSpec(hw) /\ hw.format = S16
    BY ConversionAssumption DEF ChainInv
  <2>2. src \in Specs /\ dst \in Specs /\ S16 \in {src.format, dst.format}
    BY <2>1 DEF IsSpec, Specs
  <2>3. src.rate = dst.rate \/ Supported(src.rate, dst.rate) \/ dst.rate <= PIVOT_SAMPLE_RATE
    BY <2>1 DEF PivotSuffices
  <2> QED BY <2>2, <2>3 DEF Configurable
<1>2. /\ ends' = <<src, dst>> /\ status' = (IF x.ok THEN "ok" ELSE "error")
      /\ chain' = x.chain /\ resampler' = x.resampler /\ pivot' = x.pivot /\ client' = client
      /\ widths' = seen
  BY DEF AttachRoute
<1>3. Progress(start, src, dst, seen)
  BY <1>1 DEF Progress, Leads, ChainInv, Configurable, Sized
<1>4. x = IF src = dst THEN start ELSE ConfigureAndAddConverter(start, dst)
  BY DEF Configuration
<1> HIDE DEF x
<1> HIDE DEF src, dst, seen
<1>5. Progress(x, src, dst, seen) /\ (x.ok => x.reached = dst)
  <2>1. start.ok /\ start.reached = src
    OBVIOUS
  <2> HIDE DEF start
  <2> QED BY <1>0, <1>1, <1>3, <1>4, <2>1, ChainIsBuilt
<1>6. ASSUME x.ok, src # dst
      PROVE  /\ x.chain # <<>> /\ x.chain[1].src = src /\ Last(x.chain).dst = dst
             /\ \A i \in 1..(Len(x.chain) - 1) : x.chain[i].dst = x.chain[i + 1].src
             /\ DOMAIN x.chain = 1..Len(x.chain)
             /\ \A i \in 1..Len(x.chain) : StageOK(x.chain[i], src, dst, seen)
  BY <1>5, <1>6 DEF Progress, Leads, Last
<1>7. ChainLeads'
  <2> SUFFICES ASSUME status' = "ok", ends'[1] # ends'[2] 
      PROVE /\ chain' # <<>> /\ chain'[1].src = ends'[1] /\ Last(chain').dst = ends'[2]
            /\ \A i \in 1..(Len(chain') - 1) : chain'[i].dst = chain'[i + 1].src
            /\ \A i \in DOMAIN chain' :
                 /\ Convertible(chain'[i].item, chain'[i].src, chain'[i].dst)
                 /\ chain'[i].item = "rate" =>
                      /\ ResamplesRight(chain'[i])
                      /\ chain'[i].src.channels = Min({ends'[1].channels, ends'[2].channels})
                      /\ \A j \in DOMAIN chain'[i].by : chain'[i].by[j].channels \in widths'
    BY DEF ChainLeads
  <2>1. x.ok /\ ends'[1] = src /\ ends'[2] = dst /\ src # dst
    BY <1>2
  <2> QED BY <1>2, <1>6, <2>1 DEF StageOK
<1>8. ASSUME status' = "ok", NEW i \in DOMAIN chain', chain'[i].item = "channels"
      PROVE  RemapsRight(chain'[i])
  <2>1. CASE src = dst
    <3>1. chain' = <<>>
      BY <1>2, <1>4, <2>1
    <3> QED BY <1>8, <3>1
  <2>2. CASE src # dst
    <3>1. x.ok
      BY <1>2, <1>8
    <3> QED BY <1>2, <1>6, <1>8, <2>2, <3>1 DEF StageOK
  <2> QED BY <2>1, <2>2
<1>9. ChainConverts'
  BY <1>7, <1>8 DEF ChainConverts
<1> QED BY <1>2, <1>5, <1>9 DEF ChainInv, Progress

\* Whatever routes a stream was attached to before, the chain of converters leads
\* from the source to the destination and each changes its own item.  The
\* resamplers, which keep their configuration from one attachment to the next,
\* stand where samples are of 16 bits and have as few channels as either end has,
\* convert between the rates of their stage, and are made for as many channels as
\* some attachment of the stream had there.  The remapper makes of every frame of
\* its samples what the policies of the channels say, a copy or a mean, in 8.24
\* words taken for unsigned as well as in signed ones.
THEOREM ChainIsRight == PivotSuffices => (Spec => []ChainConverts)
<1> SUFFICES ASSUME PivotSuffices PROVE Spec => []ChainConverts
  OBVIOUS
<1>1. ChainInv /\ [Next]_vars => ChainInv'
  <2> SUFFICES ASSUME ChainInv, [Next]_vars PROVE ChainInv'
    OBVIOUS
  <2>1. CASE UNCHANGED <<client, widths, ends, status, chain, resampler, pivot>>
    BY <2>1 DEF ChainInv, ChainConverts, ChainLeads
  <2>2. ASSUME NEW n \in Requests, GetConvertedBuffer(n) \/ Write(n) PROVE ChainInv'
    BY <2>1, <2>2 DEF GetConvertedBuffer, Write
  <2>3. CASE Convert \/ Deliver
    BY <2>1, <2>3 DEF Convert, Deliver
  <2>4. CASE UNCHANGED vars
    BY <2>1, <2>4 DEF vars
  <2>5. ASSUME NEW hw \in (IF client.out THEN OutSpecs ELSE InSpecs), AttachRoute(hw)
        PROVE  ChainInv'
    BY <2>5, ChainAttach
  <2> QED BY <2>2, <2>3, <2>4, <2>5 DEF Next
<1>2. ChainInv => ChainConverts
  BY DEF ChainInv
<1> QED BY <1>1, <1>2, ChainInit, PTL DEF Spec
=============================================================================
