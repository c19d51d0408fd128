------------------------- MODULE PacketReaderProofs -------------------------
(***************************************************************************)
(* What the search for a packet (analyze_tpms2.c) keeps, for every capture, *)
(* every number of files and every size of its constants that leaves room  *)
(* for a packet in the cache.                                              *)
(*                                                                         *)
(* The properties need to know how far a bit can lie from where the        *)
(* estimate puts it: the transition that ends a bit is looked for in the   *)
(* last quarter of a buffer a tenth longer than the bit, the next bit      *)
(* starts there, and so the drift adds up over the symbols.  Pace bounds   *)
(* it, Close bounds how far the cache is ahead of the bit in a first       *)
(* attempt, Mirror says what the cache holds and Control where the static  *)
(* variables are in step with the search.                                  *)
(***************************************************************************)
EXTENDS PacketReader, SequenceTheorems, TLAPS

\* A packet read up to symbol s lies within this many twentieths of a sample of
\* the prelude's end, wherever the transitions were.
Limit(s) == 11 * est * (2 * s - 3)

\* Where the search is and what the statics say there.
Control ==
    /\ end <= total + FileLen
    /\ pc = "search" => ~rd /\ turn = 0 /\ ~torn
    /\ pc \in Reading \cup {"try", "next", "found"} => orig >= MinSps
    /\ pc = "try" => (rd <=> turn > 0) /\ (turn = 0 => total = sync /\ ~torn)
    /\ pc \in Reading => est \in MinSps..MaxSps
    /\ pc \in Reading \cup {"next", "found"} \/ (pc = "try" /\ turn > 0) => base = sync
    /\ pc \in Reading /\ ~rd => pc = "second" /\ turn = 0 /\ loc = 0 /\ total = base
    /\ pc = "second" /\ turn = 0 => ~rd
    /\ pc = "next" /\ orig <= MaxSps => rd
    /\ BreaksOnlyAtEndOrFull

\* From the first attempt on the cache holds the file from the prelude's end.
Mirror ==
    pc \in Reading \cup {"try", "next", "found"} /\ rd /\ orig <= MaxSps /\ base < end =>
        /\ total = base + Len(cache)
        /\ \A i \in 1..Len(cache) : cache[i] = base + i

\* How far the bits can have drifted.
Pace ==
    /\ pc = "first" =>
          /\ sym \in 2..(Symbols - 1) /\ sync <= abe
          /\ 20 * (abe + 1 - sync) <= Limit(sym)
    /\ pc = "last" =>
          /\ sym \in 2..(Symbols - 1) /\ sync <= symStart
          /\ 20 * (symStart - sync) <= Limit(sym)
          /\ symStart <= abe /\ 20 * (abe - symStart + 1) <= 11 * est
          /\ 2 * est <= 5 * (abe - symStart + 3)

\* In a first attempt the cache is never far ahead of the bit, and cache_loc
\* never behind its start.
Close ==
    /\ pc \in {"first", "last"} /\ turn = 0 /\ base < end =>
          /\ base + loc <= abe
          /\ 5 * (base + Len(cache) - abe) <= est + 15
    /\ pc \in {"first", "last"} /\ turn = 0 /\ base = end => torn
    /\ FirstAttemptFits
    /\ FirstAttemptInPlace

\* The inductive invariant.
IInv == TypeOK /\ Control /\ Mirror /\ Pace /\ Close

-----------------------------------------------------------------------------
(* Numbers.                                                                *)

\* est / 2, as get_second_symbol and get_symbol cut it.
LEMMA Halves ==
    ASSUME NEW e \in Nat, e >= 20
    PROVE  /\ e \div 2 \in Nat
           /\ 2 * (e \div 2) <= e
           /\ e <= 2 * (e \div 2) + 1
  OBVIOUS

\* num_samples * 1.1, cut to a whole number.
LEMMA Tenth ==
    ASSUME NEW n \in Nat
    PROVE  /\ (11 * n) \div 10 \in Nat
           /\ 10 * ((11 * n) \div 10) <= 11 * n
           /\ 11 * n <= 10 * ((11 * n) \div 10) + 9
  OBVIOUS

\* One more symbol adds two bits with their margins.
LEMMA Steps ==
    ASSUME NEW e \in Nat, NEW s \in Nat
    PROVE  /\ 11 * e * (2 * s - 3) \in Int
           /\ 11 * e * (2 * (s + 1) - 3) = 11 * e * (2 * s - 3) + 22 * e
           /\ 11 * e * (2 * 2 - 3) = 11 * e
  OBVIOUS

\* The bound of every symbol of a packet stays below the cache.
LEMMA Room ==
    ASSUME NEW e \in Nat, NEW s \in Nat, e <= MaxSps, 2 <= s, s <= Symbols
    PROVE  11 * e * (2 * s - 3) < 20 * CacheSize
<1>1. DEFINE k == 2 * s - 3
             K == 2 * Symbols - 3
<1>2. k \in Nat /\ K \in Nat /\ k <= K /\ MaxSps \in Nat
  BY ReaderAssumption
<1> HIDE DEF k, K
<1>3. e * k <= MaxSps * k
  BY <1>2
<1>4. MaxSps * k <= MaxSps * K
  BY <1>2
<1>5. 11 * e * k <= 11 * K * MaxSps
  BY <1>2, <1>3, <1>4
<1> QED
  BY <1>5, ReaderAssumption DEF k, K

\* Where a bit of n samples may end, d, and how far cache_loc goes back.
LEMMA BitEnd ==
    ASSUME NEW n \in Nat, n >= 10,
           NEW B \in Nat, 10 * B <= 11 * n, 11 * n <= 10 * B + 9,
           NEW d \in Int,
           d = n - 1 \/ \E t \in ((3 * B) \div 4)..(B - 1) : d = t - 1,
           NEW b \in Int,
           b = (11 * n - 10 * d + 9) \div 10
             \/ /\ 10 * ((11 * n - 10 * d + 9) \div 10) = 11 * n - 10 * d
                /\ b = (11 * n - 10 * d + 9) \div 10 + 1
    PROVE  /\ d \in Nat /\ d <= B - 1 /\ 3 * B <= 4 * (d + 2)
           /\ 1 <= b /\ B - b <= d /\ b <= n
<1>1. d \in Nat /\ d <= B - 1 /\ 3 * B <= 4 * (d + 2)
  <2>1. CASE d = n - 1
    BY <2>1
  <2>2. CASE \E t \in ((3 * B) \div 4)..(B - 1) : d = t - 1
    <3>1. PICK t \in ((3 * B) \div 4)..(B - 1) : d = t - 1
      BY <2>2
    <3> DEFINE q == (3 * B) \div 4
    <3>2. q \in Nat /\ 4 * q <= 3 * B /\ 3 * B <= 4 * q + 3
      OBVIOUS
    <3>3. t \in Int /\ q <= t /\ t <= B - 1
      BY <3>1, <3>2
    <3> HIDE DEF q
    <3> QED
      BY <3>1, <3>2, <3>3
  <2> QED
    BY <2>1, <2>2
<1>2. DEFINE x == 11 * n - 10 * d
             c == (x + 9) \div 10
<1>3. x \in Nat /\ x >= 10
  BY <1>1
<1>4. c \in Nat /\ 10 * c <= x + 9 /\ x <= 10 * c
  <2> HIDE DEF x
  <2> QED
    BY <1>3
<1>5. b = c \/ (10 * c = x /\ b = c + 1)
  OBVIOUS
<1>6. 10 * c = 11 * n - 10 * d \/ 10 * c /= 11 * n - 10 * d
  OBVIOUS
<1>7. x = 11 * n - 10 * d
  OBVIOUS
<1> HIDE DEF c, x
<1>8. 1 <= c /\ B - c <= d
  BY <1>1, <1>3, <1>4, <1>7
<1>9. b >= c /\ 10 * b <= x + 10
  BY <1>4, <1>5, <1>3
<1>10. b <= n
  BY <1>1, <1>9, <1>7, <1>3
<1> QED
  BY <1>1, <1>8, <1>9, <1>10, <1>4

-----------------------------------------------------------------------------
(* One bit: its span, what is read for it, where it ends.                   *)

\* The estimate of the first attempt is the one of the prelude.
LEMMA EstType ==
    ASSUME TypeOK
    PROVE  est \in Int /\ (turn = 0 => est = orig)
<1>1. orig \in Nat /\ turn \in Nat /\ Width \in Nat
  <2>1. orig \in Nat
    BY ReaderAssumption DEF TypeOK
  <2>2. Width \in Nat
    BY <2>1 DEF Width
  <2> QED
    BY <2>1, <2>2 DEF TypeOK
<1> QED
  BY <1>1 DEF est

\* The length of a bit and where it starts.
LEMMA Spans ==
    ASSUME TypeOK, Control, Pace, pc \in Reading
    PROVE  /\ est \in Nat /\ 20 <= est /\ est <= MaxSps
           /\ bit_start \in Nat /\ sync <= bit_start
           /\ num_samples \in Nat /\ 10 <= num_samples
           /\ 9 * est <= 20 * num_samples /\ 5 * num_samples <= 3 * est + 15
           /\ bit_end = bit_start + num_samples - 1
           /\ pc \in {"second", "first"} =>
                 2 * num_samples <= est /\ est <= 2 * num_samples + 1
           /\ pc = "last" => num_samples = est - (abe - symStart)
<1>1. est \in Nat /\ 20 <= est /\ est <= MaxSps
  BY EstType, ReaderAssumption DEF Control
<1>2. sync \in Nat /\ abe \in Nat /\ symStart \in Nat
  BY DEF TypeOK
<1>3. /\ est \div 2 \in Nat
      /\ 2 * (est \div 2) <= est
      /\ est <= 2 * (est \div 2) + 1
  BY <1>1, Halves
<1> DEFINE h == est \div 2
<1> HIDE DEF h
<1>h. h \in Nat /\ 2 * h <= est /\ est <= 2 * h + 1
  BY <1>3 DEF h
<1>4. CASE pc = "second"
  <2>1. bit_start = sync /\ bit_end = sync + h - 1
    BY <1>4 DEF bit_start, bit_end, h
  <2>2. num_samples = h
    BY <2>1, <1>2, <1>h DEF num_samples
  <2> QED
    BY <2>1, <2>2, <1>1, <1>2, <1>h, <1>4
<1>5. CASE pc = "first"
  <2>1. bit_start = abe + 1 /\ bit_end = abe + h
    BY <1>5 DEF bit_start, bit_end, h
  <2>2. num_samples = h
    BY <2>1, <1>2, <1>h DEF num_samples
  <2>3. sync <= abe
    BY <1>5 DEF Pace
  <2> QED
    BY <2>1, <2>2, <2>3, <1>1, <1>2, <1>h, <1>5
<1>6. CASE pc = "last"
  <2>1. bit_start = abe /\ bit_end = symStart + est - 1
    BY <1>6 DEF bit_start, bit_end
  <2>2. num_samples = est - (abe - symStart)
    BY <2>1, <1>2, <1>1 DEF num_samples
  <2>3. /\ sync <= symStart
        /\ symStart <= abe /\ 20 * (abe - symStart + 1) <= 11 * est
        /\ 2 * est <= 5 * (abe - symStart + 3)
    BY <1>6 DEF Pace
  <2> QED
    BY <2>1, <2>2, <2>3, <1>1, <1>2, <1>6
<1> QED
  BY <1>4, <1>5, <1>6 DEF Reading

\* The buffer is about a tenth longer than the bit.
LEMMA Margin ==
    ASSUME TypeOK, Control, Pace, pc \in Reading
    PROVE  /\ Buffer \in Nat /\ 11 <= Buffer
           /\ 10 * Buffer <= 11 * num_samples
           /\ 11 * num_samples <= 10 * Buffer + 9
<1>1. num_samples \in Nat /\ 10 <= num_samples
  BY Spans
<1> HIDE DEF num_samples
<1>2. /\ Buffer \in Nat
      /\ 10 * Buffer <= 11 * num_samples
      /\ 11 * num_samples <= 10 * Buffer + 9
  BY <1>1, Tenth DEF Buffer
<1> QED
  BY <1>1, <1>2

\* The buffer of a bit never lies further from the prelude than the cache is long.
LEMMA BufferFits ==
    ASSUME TypeOK, Control, Pace, pc \in Reading
    PROVE  bit_start + Buffer - sync < CacheSize
<1>1. /\ est \in Nat /\ 20 <= est /\ est <= MaxSps
      /\ bit_start \in Nat
      /\ num_samples \in Nat
      /\ pc \in {"second", "first"} => 2 * num_samples <= est
      /\ pc = "last" => num_samples = est - (abe - symStart)
  BY Spans
<1>2. Buffer \in Nat /\ 10 * Buffer <= 11 * num_samples
  BY Margin
<1>3. sync \in Nat /\ abe \in Nat /\ symStart \in Nat /\ sym \in Nat /\ CacheSize \in Nat
      /\ Symbols \in Nat /\ Symbols >= 3
  BY ReaderAssumption DEF TypeOK
<1>4. CASE pc = "second"
  <2>1. bit_start = sync
    BY <1>4 DEF bit_start
  <2>2. 11 * est < 20 * CacheSize
    BY <1>1, <1>3, Room, Steps, 2 \in Nat
  <2> QED
    BY <2>1, <2>2, <1>1, <1>2, <1>3, <1>4
<1>5. CASE pc = "first"
  <2>1. bit_start = abe + 1
    BY <1>5 DEF bit_start
  <2>2. sym \in 2..(Symbols - 1) /\ 20 * (abe + 1 - sync) <= 11 * est * (2 * sym - 3)
    BY <1>5 DEF Pace, Limit
  <2>3. sym + 1 \in Nat /\ 2 <= sym + 1 /\ sym + 1 <= Symbols
    BY <2>2, <1>3
  <2>4. 11 * est * (2 * (sym + 1) - 3) < 20 * CacheSize
    BY <2>3, <1>1, Room
  <2>5. /\ 11 * est * (2 * sym - 3) \in Int
        /\ 11 * est * (2 * (sym + 1) - 3) = 11 * est * (2 * sym - 3) + 22 * est
    BY <1>1, <1>3, Steps
  <2> DEFINE l == 11 * est * (2 * sym - 3)
  <2>6. l \in Int /\ 20 * (abe + 1 - sync) <= l /\ l + 22 * est < 20 * CacheSize
    BY <2>2, <2>4, <2>5
  <2> HIDE DEF l
  <2> QED
    BY <2>1, <2>6, <1>1, <1>2, <1>3, <1>5
<1>6. CASE pc = "last"
  <2>1. bit_start = abe
    BY <1>6 DEF bit_start
  <2>2. /\ sym \in 2..(Symbols - 1) /\ 20 * (symStart - sync) <= 11 * est * (2 * sym - 3)
        /\ symStart <= abe
    BY <1>6 DEF Pace, Limit
  <2>3. sym + 1 \in Nat /\ 2 <= sym + 1 /\ sym + 1 <= Symbols
    BY <2>2, <1>3
  <2>4. 11 * est * (2 * (sym + 1) - 3) < 20 * CacheSize
    BY <2>3, <1>1, Room
  <2>5. /\ 11 * est * (2 * sym - 3) \in Int
        /\ 11 * est * (2 * (sym + 1) - 3) = 11 * est * (2 * sym - 3) + 22 * est
    BY <1>1, <1>3, Steps
  <2> DEFINE l == 11 * est * (2 * sym - 3)
  <2>6. l \in Int /\ 20 * (symStart - sync) <= l /\ l + 22 * est < 20 * CacheSize
    BY <2>2, <2>4, <2>5
  <2> HIDE DEF l
  <2> QED
    BY <2>1, <2>2, <2>6, <1>1, <1>2, <1>3, <1>6
<1> QED
  BY <1>4, <1>5, <1>6 DEF Reading

\* What the reading begins with, and where in it the bit starts.
LEMMA Begin ==
    ASSUME TypeOK, Control, Pace, pc \in Reading
    PROVE  /\ Kept \in Seq(1..end)
           /\ Len(Kept) \in Nat
           /\ First \in Nat /\ UpTo \in Nat /\ UpTo = First + Buffer
           /\ base = sync
           /\ rd => Kept = cache /\ First = Most(loc, bit_start - base)
           /\ ~rd => /\ Kept = <<>> /\ Len(Kept) = 0 /\ First = 0 /\ loc = 0
                     /\ bit_start = base /\ total = base
<1>1. /\ base \in Nat /\ total \in Nat /\ end \in Nat /\ cache \in Seq(1..end)
      /\ loc \in Int /\ Len(cache) \in Nat /\ rd \in BOOLEAN
  <2>1. /\ base \in Nat /\ total \in Nat /\ end \in Nat /\ cache \in Seq(1..end)
        /\ rd \in BOOLEAN
    BY DEF TypeOK
  <2>2. Len(cache) \in Nat
    BY <2>1, LenProperties
  <2> QED
    BY <2>1, <2>2, ReaderAssumption DEF TypeOK
<1>2. bit_start \in Nat /\ sync <= bit_start /\ Buffer \in Nat
  BY Spans, Margin
<1>3. base = sync
  BY DEF Control
<1>4. CASE rd
  <2>1. Kept = cache
    BY <1>4 DEF Kept
  <2>2. First = loc + Most(0, bit_start - (base + loc))
    BY <1>4 DEF First, ReadLoc
  <2>3. First = Most(loc, bit_start - base) /\ First \in Nat
    BY <2>2, <1>1, <1>2, <1>3 DEF Most
  <2>4. UpTo \in Nat /\ UpTo = First + Buffer
    BY <2>3, <1>2 DEF UpTo
  <2> QED
    BY <1>1, <1>3, <1>4, <2>1, <2>3, <2>4
<1>5. CASE ~rd
  <2>1. pc = "second" /\ loc = 0 /\ total = base
    BY <1>5 DEF Control
  <2>2. bit_start = base
    BY <2>1, <1>3 DEF bit_start
  <2>3. First = 0
    BY <2>1, <2>2, <1>5, <1>1 DEF First, ReadLoc, Most
  <2>4. Kept = SubSeq(cache, 1, 0)
    BY <2>1, <1>5 DEF Kept
  <2>5. Kept = <<>>
    BY <2>4, <1>1, SubSeqProperties
  <2>5a. Len(Kept) = 0
    BY <2>5
  <2>6. UpTo \in Nat /\ UpTo = First + Buffer
    BY <2>3, <1>2 DEF UpTo
  <2>7. Kept \in Seq(1..end)
    BY <2>5
  <2> QED
    BY <1>3, <1>5, <2>1, <2>2, <2>3, <2>5, <2>5a, <2>6, <2>7
<1> QED
  BY <1>1, <1>4, <1>5

\* The cache has room for a sample.
LEMMA Nonempty == CacheSize > 0
<1>1. 2 \in Nat /\ MinSps \in Nat /\ MinSps <= MaxSps /\ 2 <= Symbols /\ CacheSize \in Nat
  BY ReaderAssumption
<1>2. 11 * MinSps * (2 * 2 - 3) < 20 * CacheSize
  BY <1>1, Room
<1> QED
  BY <1>1, <1>2

\* What the reading takes from the file and leaves in the cache.
LEMMA Reads ==
    ASSUME TypeOK, Control, Pace, pc \in Reading
    PROVE  /\ Got \in Nat /\ total + Got <= end
           /\ Read \in Seq(1..end) /\ Len(Read) \in Nat
           /\ Got = 0 => Read = cache
           /\ Got > 0 => Len(Read) = Len(Kept) + Got
           /\ Got > 0 => \A i \in 1..Len(Kept) : Read[i] = Kept[i]
           /\ Got > 0 => \A i \in 1..Got : Read[Len(Kept) + i] = total + i
           /\ ~rd => (Got = 0 <=> total = end)
           /\ Len(Read) <= CacheSize
<1>1. /\ total \in Nat /\ end \in Nat /\ total <= end /\ cache \in Seq(1..end)
      /\ CacheSize \in Nat /\ CacheSize > 0 /\ rd \in BOOLEAN /\ Len(cache) <= CacheSize
  BY Nonempty, ReaderAssumption DEF TypeOK
<1>2. /\ Kept \in Seq(1..end) /\ Len(Kept) \in Nat /\ UpTo \in Nat
      /\ UpTo = First + Buffer /\ First \in Nat
      /\ rd => Kept = cache
      /\ ~rd => Len(Kept) = 0
  BY Begin
<1>3. Buffer \in Nat /\ Buffer >= 11
  BY Margin
<1>3a. Len(Kept) <= CacheSize
  BY <1>1, <1>2
<1>4. Got \in Nat /\ Got <= end - total /\ Got <= CacheSize - Len(Kept)
  BY <1>1, <1>2, <1>3a DEF Got, Least, Most
<1>5. ~rd => (Got = 0 <=> total = end)
  <2> SUFFICES ASSUME ~rd
               PROVE  Got = 0 <=> total = end
    OBVIOUS
  <2>1. Most(0, UpTo - Len(Kept)) \in Nat \ {0}
    BY <1>2, <1>3 DEF Most
  <2>2. CacheSize - Len(Kept) \in Nat \ {0}
    BY <1>1, <1>2
  <2>3. end - total \in Nat
    BY <1>1
  <2> QED
    BY <2>1, <2>2, <2>3, <1>1 DEF Got, Least
<1>6. CASE Got = 0
  <2>1. Read = cache
    BY <1>6 DEF Read
  <2>2. Len(Read) \in Nat
    BY <2>1, <1>1, LenProperties
  <2>3. Read \in Seq(1..end)
    BY <2>1, <1>1
  <2>4. total + Got <= end
    BY <1>1, <1>4
  <2>5. ~(Got > 0)
    BY <1>6
  <2>6. Len(Read) <= CacheSize
    BY <2>1, <1>1
  <2> QED
    BY <1>4, <1>5, <2>1, <2>2, <2>3, <2>4, <2>5, <2>6
<1>7. CASE Got /= 0
  <2> DEFINE new == [i \in 1..Got |-> total + i]
  <2>1. Read = Kept \o new
    BY <1>7 DEF Read
  <2>2. new \in Seq(1..end) /\ Len(new) = Got /\ \A i \in 1..Got : new[i] = total + i
    <3>1. \A i \in 1..Got : total + i \in 1..end
      BY <1>1, <1>4
    <3>2. new \in [1..Got -> 1..end]
      BY <3>1
    <3> QED
      BY <3>2, <1>4
  <2> HIDE DEF new
  <2>3. /\ Read \in Seq(1..end) /\ Len(Read) = Len(Kept) + Got
        /\ \A i \in 1..Len(Kept) : Read[i] = Kept[i]
        /\ \A i \in 1..Got : Read[Len(Kept) + i] = new[i]
    <3>1. Read \in Seq(1..end)
      BY <2>1, <2>2, <1>2, ConcatProperties
    <3>2. Len(Read) = Len(Kept) + Got
      BY <2>1, <2>2, <1>2, ConcatProperties
    <3>3. \A i \in 1..(Len(Kept) + Len(new)) :
             Read[i] = IF i <= Len(Kept) THEN Kept[i] ELSE new[i - Len(Kept)]
      BY <2>1, <2>2, <1>2, ConcatProperties
    <3>4. \A i \in 1..Len(Kept) : Read[i] = Kept[i]
      BY <3>3, <2>2, <1>2, <1>4
    <3>5. ASSUME NEW i \in 1..Got
          PROVE  Read[Len(Kept) + i] = new[i]
      <4>1. Len(Kept) + i \in 1..(Len(Kept) + Len(new)) /\ ~(Len(Kept) + i <= Len(Kept))
            /\ (Len(Kept) + i) - Len(Kept) = i
        BY <2>2, <1>2, <1>4
      <4> QED
        BY <4>1, <3>3
    <3> QED
      BY <3>1, <3>2, <3>4, <3>5
  <2>4. Len(Read) \in Nat
    BY <2>3, <1>2, <1>4
  <2>5. total + Got <= end
    BY <1>1, <1>4
  <2>6. \A i \in 1..Got : Read[Len(Kept) + i] = total + i
    BY <2>2, <2>3
  <2>7. /\ Read \in Seq(1..end) /\ Len(Read) = Len(Kept) + Got
        /\ \A i \in 1..Len(Kept) : Read[i] = Kept[i]
    BY <2>3
  <2>8. Len(Read) <= CacheSize
    BY <2>3, <1>1, <1>2, <1>4
  <2> QED
    BY <1>4, <1>5, <1>7, <2>4, <2>5, <2>6, <2>7, <2>8
<1> QED
  BY <1>6, <1>7

\* Where a bit ends and where cache_loc goes then.
LEMMA Moved ==
    ASSUME TypeOK, Control, Pace, pc \in Reading, GetBit
    PROVE  /\ abe' \in Nat /\ bit_start <= abe' /\ abe' + 1 <= bit_start + Buffer
           /\ 3 * Buffer <= 4 * (abe' - bit_start + 2)
           /\ loc' \in Int /\ -MaxSps <= loc' /\ loc' <= Len(Read)
           /\ bit_start + Buffer - (Len(Read) - loc') <= abe'
<1>1. /\ num_samples \in Nat /\ 10 <= num_samples /\ num_samples <= MaxSps
      /\ bit_start \in Nat /\ bit_end = bit_start + num_samples - 1 /\ MaxSps \in Nat
  BY Spans, ReaderAssumption
<1>2. /\ Buffer \in Nat
      /\ 10 * Buffer <= 11 * num_samples
      /\ 11 * num_samples <= 10 * Buffer + 9
  BY Margin
<1>3. Len(Read) \in Nat
  BY Reads
<1>4. PICK t \in Transitions : abe' = IF t = -1 THEN bit_end ELSE t - 1 + bit_start
  BY DEF GetBit
<1> DEFINE d == abe' - bit_start
           c == (11 * num_samples - 10 * d + 9) \div 10
<1>5. PICK b \in Back(d) : loc' = Len(Read) - b
  BY DEF GetBit
<1>6. t = -1 \/ t \in ((3 * Buffer) \div 4)..(Buffer - 1)
  BY DEF Transitions
<1>7. /\ d \in Int /\ abe' = bit_start + d
      /\ d = num_samples - 1 \/ \E u \in ((3 * Buffer) \div 4)..(Buffer - 1) : d = u - 1
  <2>1. CASE t = -1
    <3>1. abe' = bit_end
      BY <1>4, <2>1
    <3> QED
      BY <3>1, <1>1
  <2>2. CASE t \in ((3 * Buffer) \div 4)..(Buffer - 1) /\ t /= -1
    <3>1. abe' = t - 1 + bit_start /\ t \in Int
      BY <1>4, <2>2, <1>2
    <3>2. d = t - 1 /\ d \in Int /\ abe' = bit_start + d
      BY <3>1, <1>1
    <3> QED
      BY <3>2, <2>2
  <2> QED
    BY <1>6, <2>1, <2>2
<1>8. b = c \/ (10 * c = 11 * num_samples - 10 * d /\ b = c + 1)
  BY <1>5 DEF Back
<1>9. c \in Int
  BY <1>7, <1>1
<1>10. b \in Int
  BY <1>8, <1>9
<1>11. /\ d \in Nat /\ d <= Buffer - 1 /\ 3 * Buffer <= 4 * (d + 2)
       /\ 1 <= b /\ Buffer - b <= d /\ b <= num_samples
  <2> HIDE DEF d
  <2> QED
    BY <1>1, <1>2, <1>7, <1>8, <1>10, BitEnd
<1> HIDE DEF d, c
<1>12. abe' - bit_start = d
  BY <1>7, <1>1
<1> QED
  BY <1>11, <1>12, <1>7, <1>5, <1>10, <1>1, <1>2, <1>3

\* A sample that came back is one of the cache.
LEMMA Placed ==
    ASSUME TypeOK, Control, Pace, pc \in Reading
    PROVE  /\ Reached \in Int
           /\ Reached > First => First + 1 \in 1..Len(Read) /\ (rd \/ Got > 0)
<1>1. /\ Len(Kept) \in Nat /\ First \in Nat /\ UpTo \in Nat
      /\ rd => Kept = cache
      /\ ~rd => Len(Kept) = 0
  BY Begin
<1>2. /\ Got \in Nat /\ Len(Read) \in Nat
      /\ Got = 0 => Read = cache
      /\ Got > 0 => Len(Read) = Len(Kept) + Got
  BY Reads
<1>3. Reached \in Int /\ Reached <= Len(Kept) + Got
  BY <1>1, <1>2 DEF Reached, Least
<1>4. ASSUME Reached > First
      PROVE  First + 1 \in 1..Len(Read) /\ (rd \/ Got > 0)
  <2>1. First < Len(Kept) + Got
    BY <1>1, <1>2, <1>3, <1>4
  <2>2. CASE Got > 0
    BY <2>1, <2>2, <1>1, <1>2
  <2>3. CASE Got = 0
    <3>1. rd
      BY <2>1, <2>3, <1>1
    <3>2. Len(Read) = Len(Kept)
      BY <3>1, <2>3, <1>1, <1>2
    <3> QED
      BY <2>1, <2>3, <3>1, <3>2, <1>1, <1>2
  <2> QED
    BY <2>2, <2>3, <1>2
<1> QED
  BY <1>3, <1>4

\* In a first attempt a bit is read at its start, and the cache ends with its
\* buffer at the latest.
LEMMA Ahead ==
    ASSUME TypeOK, Control, Pace, Close, pc \in Reading, turn = 0, base < end
    PROVE  /\ First = bit_start - base
           /\ base + UpTo = bit_start + Buffer
           /\ base + Len(Read) <= bit_start + Buffer
           /\ Len(Read) < CacheSize
<1>1. /\ base \in Nat /\ total \in Nat /\ end \in Nat /\ abe \in Nat
      /\ loc \in Int /\ Len(cache) \in Nat /\ rd \in BOOLEAN /\ CacheSize \in Nat
  <2>1. cache \in Seq(1..end)
    BY DEF TypeOK
  <2>2. Len(cache) \in Nat
    BY <2>1, LenProperties
  <2> QED
    BY <2>2, ReaderAssumption DEF TypeOK
<1>2. /\ est \in Nat /\ 20 <= est
      /\ bit_start \in Nat /\ num_samples \in Nat
      /\ 9 * est <= 20 * num_samples
      /\ pc \in {"second", "first"} => est <= 2 * num_samples + 1
  BY Spans
<1>3. Buffer \in Nat /\ 11 * num_samples <= 10 * Buffer + 9
  BY Margin
<1>4. /\ Len(Kept) \in Nat /\ First \in Nat /\ UpTo \in Nat /\ UpTo = First + Buffer
      /\ base = sync
      /\ rd => Kept = cache /\ First = Most(loc, bit_start - base)
      /\ ~rd => /\ Len(Kept) = 0 /\ First = 0
                /\ bit_start = base /\ total = base
  BY Begin
<1>5. /\ Got \in Nat /\ Len(Read) \in Nat
      /\ Got = 0 => Read = cache
      /\ Got > 0 => Len(Read) = Len(Kept) + Got
      /\ ~rd => (Got = 0 <=> total = end)
  BY Reads
<1>6. First = bit_start - base /\ base + Len(Kept) <= bit_start + Buffer
  <2>1. CASE ~rd
    BY <2>1, <1>1, <1>3, <1>4
  <2>2. CASE rd
    <3>1. pc \in {"first", "last"}
      BY <2>2 DEF Control, Reading
    <3>2. /\ base + loc <= abe
          /\ 5 * (base + Len(cache) - abe) <= est + 15
      BY <3>1 DEF Close
    <3>3. abe <= bit_start /\ (pc = "first" => bit_start = abe + 1)
      BY <3>1, <1>1 DEF bit_start
    <3>4. First = bit_start - base
      BY <3>2, <3>3, <2>2, <1>1, <1>2, <1>4 DEF Most
    <3>5. Len(Kept) = Len(cache)
      BY <2>2, <1>4
    <3>6. base + Len(cache) <= bit_start + Buffer
      BY <3>2, <3>3, <1>1, <1>2, <1>3
    <3> QED
      BY <3>4, <3>5, <3>6
  <2> QED
    BY <2>1, <2>2, <1>1
<1>7. base + UpTo = bit_start + Buffer
  BY <1>6, <1>4, <1>1, <1>2, <1>3
<1>8. base + Len(Read) <= bit_start + Buffer
  <2>1. CASE Got = 0
    <3>1. rd
      BY <2>1, <1>5, <1>4, <1>1
    <3>2. Len(Read) = Len(Kept)
      BY <3>1, <2>1, <1>4, <1>5
    <3> QED
      BY <3>2, <1>6
  <2>2. CASE Got > 0
    <3>1. Got <= Most(0, UpTo - Len(Kept))
      <4>1. Most(0, UpTo - Len(Kept)) \in Int
        BY <1>4 DEF Most
      <4>2. Least(end - total, CacheSize - Len(Kept)) \in Int
        BY <1>1, <1>4 DEF Least
      <4> QED
        BY <4>1, <4>2 DEF Got, Least
    <3>2. Got <= UpTo - Len(Kept)
      BY <3>1, <2>2, <1>4, <1>5 DEF Most
    <3> QED
      BY <3>2, <2>2, <1>5, <1>4, <1>7, <1>1, <1>2, <1>3
  <2> QED
    BY <2>1, <2>2, <1>5
<1>9. bit_start + Buffer - sync < CacheSize
  BY BufferFits
<1> QED
  BY <1>6, <1>7, <1>8, <1>9, <1>4, <1>1, <1>2, <1>3, <1>5

\* Reading on keeps the cache a copy of the file.
LEMMA Copied ==
    ASSUME TypeOK, Control, Pace, Mirror, pc \in Reading, orig <= MaxSps, base < end
    PROVE  /\ total + Got = base + Len(Read)
           /\ \A i \in 1..Len(Read) : Read[i] = base + i
<1>1. /\ base \in Nat /\ total \in Nat /\ end \in Nat /\ rd \in BOOLEAN
  BY DEF TypeOK
<1>2. /\ Len(Kept) \in Nat
      /\ rd => Kept = cache
      /\ ~rd => Len(Kept) = 0 /\ total = base
  BY Begin
<1>3. /\ Got \in Nat /\ Len(Read) \in Nat
      /\ Got = 0 => Read = cache
      /\ Got > 0 => Len(Read) = Len(Kept) + Got
      /\ Got > 0 => \A i \in 1..Len(Kept) : Read[i] = Kept[i]
      /\ Got > 0 => \A i \in 1..Got : Read[Len(Kept) + i] = total + i
      /\ ~rd => (Got = 0 <=> total = end)
  BY Reads
<1>4. /\ total = base + Len(Kept)
      /\ \A i \in 1..Len(Kept) : Kept[i] = base + i
  <2>1. CASE rd
    <3>1. /\ total = base + Len(cache)
          /\ \A i \in 1..Len(cache) : cache[i] = base + i
      BY <2>1 DEF Mirror
    <3> QED
      BY <3>1, <2>1, <1>2
  <2>2. CASE ~rd
    BY <2>2, <1>1, <1>2
  <2> QED
    BY <2>1, <2>2
<1>5. CASE Got = 0
  <2>1. rd
    BY <1>5, <1>1, <1>2, <1>3
  <2>2. Read = Kept
    BY <2>1, <1>2, <1>3, <1>5
  <2>3. total + Got = base + Len(Read)
    BY <2>2, <1>4, <1>5, <1>1
  <2> QED
    BY <2>2, <2>3, <1>4
<1>6. CASE Got > 0
  <2>1. total + Got = base + Len(Read)
    BY <1>6, <1>1, <1>2, <1>3, <1>4
  <2>2. ASSUME NEW i \in 1..Len(Read)
        PROVE  Read[i] = base + i
    <3>1. CASE i <= Len(Kept)
      <4>1. i \in 1..Len(Kept)
        BY <3>1, <1>2, <1>3
      <4> QED
        BY <4>1, <1>4, <1>3, <1>6
    <3>2. CASE i > Len(Kept)
      <4> DEFINE j == i - Len(Kept)
      <4>1. j \in 1..Got /\ Len(Kept) + j = i /\ total + j = base + i
        BY <3>2, <1>6, <1>1, <1>2, <1>3, <1>4
      <4>2. Read[Len(Kept) + j] = total + j
        BY <4>1, <1>3, <1>6
      <4> QED
        BY <4>1, <4>2
    <3> QED
      BY <3>1, <3>2, <1>2, <1>3
  <2> QED
    BY <2>1, <2>2
<1> QED
  BY <1>5, <1>6, <1>3

\* A bit whose start is not reached was asked for behind the end of the file.
LEMMA Lost ==
    ASSUME TypeOK, Control, Pace, pc \in Reading, ~Overruns, Reached < First
    PROVE  total + Got = end
<1>1. /\ base \in Nat /\ total \in Nat /\ end \in Nat /\ total <= end
      /\ loc \in Int /\ loc <= Len(cache) /\ Len(cache) \in Nat /\ CacheSize \in Nat
      /\ rd \in BOOLEAN
  <2>1. cache \in Seq(1..end)
    BY DEF TypeOK
  <2>2. Len(cache) \in Nat
    BY <2>1, LenProperties
  <2> QED
    BY <2>2, ReaderAssumption DEF TypeOK
<1>2. /\ Len(Kept) \in Nat /\ First \in Nat /\ UpTo \in Nat /\ UpTo = First + Buffer
      /\ base = sync
      /\ rd => Kept = cache /\ First = Most(loc, bit_start - base)
      /\ ~rd => Len(Kept) = 0 /\ First = 0
  BY Begin
<1>3. Got \in Nat /\ total + Got <= end /\ Len(Read) \in Nat
      /\ (Got > 0 => Len(Read) = Len(Kept) + Got)
  BY Reads
<1>4. Buffer \in Nat /\ Buffer >= 11 /\ bit_start \in Nat
  BY Margin, Spans
<1>5. bit_start + Buffer - base < CacheSize
  BY BufferFits, <1>2
<1>6. First <= Len(Kept) \/ First < CacheSize
  <2>1. CASE rd
    <3>1. Len(Kept) = Len(cache)
      BY <2>1, <1>2
    <3>2. First = loc \/ First = bit_start - base
      BY <2>1, <1>2 DEF Most
    <3> QED
      BY <3>1, <3>2, <1>1, <1>2, <1>4, <1>5
  <2>2. CASE ~rd
    BY <2>2, <1>2
  <2> QED
    BY <2>1, <2>2, <1>1
<1> SUFFICES ASSUME total + Got < end
             PROVE  FALSE
  BY <1>1, <1>3
<1>7. Got = Least(Most(0, UpTo - Len(Kept)), CacheSize - Len(Kept))
  <2>1. Most(0, UpTo - Len(Kept)) \in Int /\ CacheSize - Len(Kept) \in Int
    BY <1>1, <1>2 DEF Most
  <2> QED
    BY <2>1, <1>1, <1>3 DEF Got, Least
<1>7a. UpTo <= Len(Kept) \/ Len(Kept) < CacheSize
  <2>1. total < end
    BY <1>1, <1>3
  <2> QED
    BY <2>1, <1>1, <1>2 DEF Overruns
<1>8. Reached < UpTo
  BY <1>2, <1>4, Placed
<1>9. CASE Got = 0
  <2>1. UpTo <= Len(Kept)
    BY <1>7, <1>7a, <1>9, <1>1, <1>2 DEF Least, Most
  <2>2. ~Full
    BY <1>9 DEF Full
  <2>3. Reached = UpTo
    BY <2>1, <2>2, <1>9, <1>2 DEF Reached, Least
  <2> QED
    BY <2>3, <1>8, <1>2
<1>10. CASE Got > 0
  <2>1. Reached >= Least(UpTo, Len(Kept) + Got - 1)
    BY <1>2, <1>3 DEF Reached, Least
  <2>2. Len(Kept) + Got - 1 < First
    BY <2>1, <1>2, <1>3, <1>4 DEF Least, Reached
  <2>3. Got = UpTo - Len(Kept) \/ Got = CacheSize - Len(Kept)
    BY <1>7, <1>10, <1>2, <1>3 DEF Least, Most
  <2>4. CASE Got = UpTo - Len(Kept)
    BY <2>2, <2>4, <1>2, <1>4
  <2>5. CASE Got = CacheSize - Len(Kept)
    <3>1. Len(Kept) + Got >= CacheSize
      BY <2>5, <1>1, <1>2
    <3> QED
      BY <3>1, <2>2, <1>6, <1>1, <1>2, <1>3, <1>10
  <2> QED
    BY <2>3, <2>4, <2>5
<1> QED
  BY <1>9, <1>10, <1>3

LEMMA InitInv == Init => IInv
<1> SUFFICES ASSUME Init
             PROVE  IInv
  OBVIOUS
<1>1. cache \in Seq(1..end) /\ Len(cache) = 0 /\ Len(cache) <= CacheSize
  BY ReaderAssumption DEF Init
<1>2. orig \in 0..MaxOrig /\ turn \in 0..(2 * Width)
  BY ReaderAssumption DEF Init, Width
<1>3. TypeOK
  <2>1. /\ files \in 0..MaxFiles /\ end \in Nat /\ total \in 0..end
        /\ loc \in (-MaxSps)..Len(cache) /\ base \in 0..total /\ sync \in 0..total
        /\ sym \in 0..Symbols /\ symStart \in Nat /\ abe \in Nat /\ skew \in Int
    BY <1>1, ReaderAssumption DEF Init
  <2>2. /\ pc \in Ended \cup Reading \cup {"search", "try", "next"}
        /\ rd \in BOOLEAN /\ valid \in BOOLEAN /\ torn \in BOOLEAN
    BY DEF Init, Ended
  <2> QED
    BY <1>1, <1>2, <2>1, <2>2 DEF TypeOK
<1>4. Control
  BY ReaderAssumption DEF Control, Init, Reading, BreaksOnlyAtEndOrFull
<1>5. Mirror /\ Pace
  BY DEF Mirror, Pace, Init, Reading
<1>6. Close
  BY DEF Close, FirstAttemptFits, FirstAttemptInPlace, CacheInUse, Init, Reading
<1> QED
  BY <1>3, <1>4, <1>5, <1>6 DEF IInv

LEMMA StutterInv == IInv /\ UNCHANGED vars => IInv'
  BY DEF IInv, TypeOK, Control, Mirror, Pace, Close, FirstAttemptFits,
         FirstAttemptInPlace, BreaksOnlyAtEndOrFull, CacheInUse, Limit, est, Width,
         vars, fileVars,
         estVars, cacheVars, bitVars, ghostVars

\* Numbers behind the type invariant, as the steps use them.
LEMMA Numbers ==
    ASSUME TypeOK
    PROVE  /\ end \in Nat /\ total \in Nat /\ total <= end
           /\ base \in Nat /\ base <= total /\ sync \in Nat /\ sync <= total
           /\ cache \in Seq(1..end) /\ Len(cache) \in Nat /\ Len(cache) <= CacheSize
           /\ loc \in Int /\ -MaxSps <= loc /\ loc <= Len(cache)
           /\ orig \in Nat /\ turn \in Nat /\ Width \in Nat /\ sym \in Nat
<1>1. cache \in Seq(1..end)
  BY DEF TypeOK
<1>2. Len(cache) \in Nat
  BY <1>1, LenProperties
<1>3. orig \in Nat
  BY DEF TypeOK
<1>4. Width \in Nat
  BY <1>3 DEF Width
<1> QED
  BY <1>1, <1>2, <1>3, <1>4, ReaderAssumption DEF TypeOK

-----------------------------------------------------------------------------
(* The search keeps the invariant.                                         *)

LEMMA OpenInv == IInv /\ Open => IInv'
<1> SUFFICES ASSUME IInv, Open
             PROVE  IInv'
  OBVIOUS
<1>0. TypeOK /\ Control
  BY DEF IInv
<1>1. /\ pc' = "search" /\ files' = files + 1 /\ end' = total + FileLen /\ rd' = FALSE
      /\ total' = total /\ cache' = cache /\ loc' = loc /\ base' = base /\ valid' = valid
      /\ files < MaxFiles
  BY DEF Open
<1>2. /\ sync' = 0 /\ orig' = 0 /\ turn' = 0 /\ sym' = 0 /\ symStart' = 0 /\ abe' = 0
      /\ torn' = FALSE /\ skew' = 0
  BY DEF Open, Forget
<1>3. end <= end'
  BY <1>1, <1>0 DEF Control
<1>4. cache \in Seq(1..end')
  <2>1. cache \in Seq(1..end) /\ end \in Nat /\ end' \in Nat
    BY <1>0, <1>1, ReaderAssumption DEF TypeOK
  <2>2. 1..end \subseteq 1..end'
    BY <2>1, <1>3
  <2> QED
    BY <2>1, <2>2, SeqMonotonic
<1>5. turn' \in 0..(2 * Width')
  BY <1>2 DEF Width
<1>6. TypeOK'
  <2>1. pc' \in Ended \cup Reading \cup {"search", "try", "next"} /\ files' \in 0..MaxFiles
    BY <1>0, <1>1, ReaderAssumption DEF TypeOK
  <2>2. end' \in Nat /\ total' \in 0..end' /\ base' \in 0..total' /\ sync' \in 0..total'
    BY <1>0, <1>1, <1>2, ReaderAssumption DEF TypeOK
  <2>3. loc' \in (-MaxSps)..Len(cache') /\ Len(cache') <= CacheSize
    BY <1>0, <1>1 DEF TypeOK
  <2>4. rd' \in BOOLEAN /\ valid' \in BOOLEAN /\ torn' \in BOOLEAN
    BY <1>0, <1>1, <1>2 DEF TypeOK
  <2>5. /\ orig' \in 0..MaxOrig /\ sym' \in 0..Symbols
        /\ symStart' \in Nat /\ abe' \in Nat /\ skew' \in Int
    BY <1>2, ReaderAssumption
  <2>6. cache' \in Seq(1..end')
    BY <1>1, <1>4
  <2> QED
    BY <1>5, <2>1, <2>2, <2>3, <2>4, <2>5, <2>6 DEF TypeOK
<1>7. Control'
  <2>1. end' <= total' + FileLen
    BY <1>1, <1>0, Numbers, ReaderAssumption
  <2> QED
    BY <2>1, <1>1, <1>2 DEF Control, Reading, BreaksOnlyAtEndOrFull
<1>8. Mirror' /\ Pace'
  BY <1>1 DEF Mirror, Pace, Reading
<1>9. Close'
  BY <1>1, <1>2 DEF Close, FirstAttemptFits, FirstAttemptInPlace, CacheInUse, Reading
<1> QED
  BY <1>6, <1>7, <1>8, <1>9 DEF IInv

\* The steps of the search that find no packet.
LEMMA SkippedInv ==
    ASSUME IInv, NEW to \in Nat, NEW next \in {"search", "done", "dead"},
           Skipped(to, next), total <= to, to <= end, next = "dead" => to = end
    PROVE  IInv'
<1>0. TypeOK /\ Control /\ Close
  BY DEF IInv
<1>1. /\ pc = "search" /\ pc' = next /\ total' = to
      /\ files' = files /\ end' = end /\ cache' = cache /\ loc' = loc /\ base' = base
      /\ rd' = rd /\ valid' = valid /\ sync' = sync /\ orig' = orig /\ turn' = turn
      /\ sym' = sym /\ symStart' = symStart /\ abe' = abe /\ torn' = torn /\ skew' = skew
  BY DEF Skipped, fileVars, cacheVars, estVars, bitVars, ghostVars
<1>2. TypeOK'
  <2>1. Width' = Width
    BY <1>1 DEF Width
  <2>2. pc' \in Ended \cup Reading \cup {"search", "try", "next"}
    BY <1>1 DEF Ended
  <2>3. total' \in 0..end' /\ base' \in 0..total' /\ sync' \in 0..total'
    BY <1>0, <1>1, Numbers
  <2> QED
    BY <1>0, <1>1, <2>1, <2>2, <2>3 DEF TypeOK
<1>3. Control'
  <2>1. end' <= total' + FileLen
    BY <1>1, <1>0, Numbers, ReaderAssumption DEF Control
  <2>2. ~rd /\ turn = 0 /\ ~torn
    BY <1>0, <1>1 DEF Control
  <2>3. BreaksOnlyAtEndOrFull'
    BY <1>1 DEF BreaksOnlyAtEndOrFull
  <2> QED
    BY <2>1, <2>2, <2>3, <1>1 DEF Control, Reading
<1>4. Mirror' /\ Pace'
  BY <1>1 DEF Mirror, Pace, Reading
<1>5. Close'
  <2>1. FirstAttemptInPlace'
    BY <1>0, <1>1 DEF Close, FirstAttemptInPlace
  <2> QED
    BY <1>1, <2>1 DEF Close, FirstAttemptFits, CacheInUse, Reading
<1> QED
  BY <1>2, <1>3, <1>4, <1>5 DEF IInv

LEMMA NoPreludeInv == IInv /\ NoPrelude => IInv'
<1> SUFFICES ASSUME IInv, NoPrelude
             PROVE  IInv'
  OBVIOUS
<1>1. end \in Nat /\ total <= end
  BY Numbers DEF IInv
<1> QED
  BY <1>1, SkippedInv DEF NoPrelude

LEMMA BadPreludeInv == IInv /\ BadPrelude => IInv'
<1> SUFFICES ASSUME IInv, BadPrelude
             PROVE  IInv'
  OBVIOUS
<1>1. end \in Nat /\ total \in Nat /\ total <= end
  BY Numbers DEF IInv
<1>2. PICK skip \in 0..MaxSkip :
         Skipped(Least(total + skip + 1 + Prelude, end), "search")
  BY DEF BadPrelude
<1> DEFINE to == Least(total + skip + 1 + Prelude, end)
<1>3. to \in Nat /\ total <= to /\ to <= end
  BY <1>1, ReaderAssumption DEF Least
<1> HIDE DEF to
<1>4. Skipped(to, "search")
  BY <1>2 DEF to
<1> QED
  BY <1>3, <1>4, SkippedInv

LEMMA PreludeAtEndInv == IInv /\ PreludeAtEnd => IInv'
<1> SUFFICES ASSUME IInv, PreludeAtEnd
             PROVE  IInv'
  OBVIOUS
<1>1. end \in Nat /\ total <= end
  BY Numbers DEF IInv
<1> QED
  BY <1>1, SkippedInv DEF PreludeAtEnd

LEMMA GoodPreludeInv == IInv /\ GoodPrelude => IInv'
<1> SUFFICES ASSUME IInv, GoodPrelude
             PROVE  IInv'
  OBVIOUS
<1>0. TypeOK /\ Control /\ Close
  BY DEF IInv
<1>1. /\ pc = "search" /\ pc' = "try" /\ turn' = 0
      /\ files' = files /\ end' = end /\ cache' = cache /\ loc' = loc /\ base' = base
      /\ rd' = rd /\ valid' = valid
      /\ sym' = sym /\ symStart' = symStart /\ abe' = abe /\ torn' = torn /\ skew' = skew
  BY DEF GoodPrelude, fileVars, cacheVars, bitVars, ghostVars
<1>2. PICK o \in MinSps..MaxOrig, skip \in 0..MaxSkip :
         /\ total' = total + skip + 1 + Prelude + o
         /\ total' <= end /\ sync' = total' /\ orig' = o
  BY DEF GoodPrelude
<1>3. total' \in Nat /\ total <= total' /\ orig' \in Nat /\ orig' >= MinSps
      /\ orig' \in 0..MaxOrig
  <2>1. total \in Nat
    BY <1>0, Numbers
  <2>2. o \in Nat /\ skip \in Nat /\ Prelude \in Nat /\ MinSps <= o /\ o <= MaxOrig
        /\ MaxOrig \in Nat
    BY ReaderAssumption
  <2>3. orig' = o /\ total' = total + skip + 1 + Prelude + o
    BY <1>2
  <2> QED
    BY <2>1, <2>2, <2>3
<1>4. ~rd /\ turn = 0 /\ ~torn
  BY <1>0, <1>1 DEF Control
<1>5. turn' \in 0..(2 * Width')
  <2>1. ASSUME NEW w \in Nat
        PROVE  0 \in 0..(2 * ((5 * w) \div 100))
    OBVIOUS
  <2>2. 0 \in 0..(2 * ((5 * orig') \div 100))
    BY <2>1, <1>3
  <2> QED
    BY <2>2, <1>1 DEF Width
<1>6. TypeOK'
  <2>1. pc' \in Ended \cup Reading \cup {"search", "try", "next"}
    BY <1>1
  <2>2. total' \in 0..end' /\ base' \in 0..total' /\ sync' \in 0..total'
    BY SMTT(30), <1>0, <1>1, <1>2, <1>3, Numbers
  <2> QED
    BY <1>0, <1>1, <1>3, <1>5, <2>1, <2>2 DEF TypeOK
<1>7. Control'
  <2>1. end' <= total' + FileLen
    BY SMTT(30), <1>1, <1>3, <1>0, Numbers, ReaderAssumption DEF Control
  <2> QED
    BY <2>1, <1>1, <1>2, <1>3, <1>4 DEF Control, Reading, BreaksOnlyAtEndOrFull
<1>8. Mirror' /\ Pace'
  BY <1>1, <1>4 DEF Mirror, Pace, Reading
<1>9. Close'
  <2>1. FirstAttemptInPlace'
    BY <1>0, <1>1, <1>4 DEF Close, FirstAttemptInPlace
  <2> QED
    BY <1>1, <2>1 DEF Close, FirstAttemptFits, CacheInUse, Reading
<1> QED
  BY <1>6, <1>7, <1>8, <1>9 DEF IInv

-----------------------------------------------------------------------------
(* So do the loops over the estimates.                                     *)

LEMMA TryInv == IInv /\ Try => IInv'
<1> SUFFICES ASSUME IInv, Try
             PROVE  IInv'
  OBVIOUS
<1>0. TypeOK /\ Control /\ Mirror /\ Close
  BY DEF IInv
<1>1. /\ pc = "try" /\ loc' = 0 /\ valid' = TRUE /\ torn' = FALSE /\ skew' = 0
      /\ base' = IF rd THEN base ELSE total
      /\ pc' = IF est \in MinSps..MaxSps THEN "second" ELSE "next"
      /\ files' = files /\ end' = end /\ total' = total /\ cache' = cache /\ rd' = rd
      /\ sync' = sync /\ orig' = orig /\ turn' = turn
      /\ sym' = sym /\ symStart' = symStart /\ abe' = abe
  BY DEF Try, fileVars, estVars, bitVars
<1>2. est' = est /\ Width' = Width
  BY <1>1 DEF est, Width
<1>3. /\ rd \in BOOLEAN /\ orig >= MinSps
      /\ rd => turn > 0 /\ base = sync
      /\ ~rd => turn = 0 /\ total = sync
  BY <1>0, <1>1, Numbers DEF Control, TypeOK
<1>4. base' = sync
  BY <1>1, <1>3
<1>5. TypeOK'
  <2>1. pc' \in Ended \cup Reading \cup {"search", "try", "next"}
    BY <1>1 DEF Reading
  <2>2. base' \in 0..total'
    BY <1>0, <1>1, <1>4, Numbers
  <2>3. loc' \in (-MaxSps)..Len(cache') /\ Len(cache') <= CacheSize
    BY <1>0, <1>1, Numbers, ReaderAssumption
  <2>4. rd' \in BOOLEAN /\ valid' \in BOOLEAN /\ torn' \in BOOLEAN
    BY <1>1, <1>3
  <2>5. /\ files' \in 0..MaxFiles /\ end' \in Nat /\ total' \in 0..end'
        /\ cache' \in Seq(1..end') /\ sync' \in 0..total'
        /\ orig' \in 0..MaxOrig /\ turn' \in 0..(2 * Width')
        /\ sym' \in 0..Symbols /\ symStart' \in Nat /\ abe' \in Nat /\ skew' \in Int
    BY <1>0, <1>1, <1>2 DEF TypeOK
  <2> QED
    BY <2>1, <2>2, <2>3, <2>4, <2>5 DEF TypeOK
<1>6. Control'
  <2>1. end' <= total' + FileLen
    BY <1>0, <1>1 DEF Control
  <2>2. pc' \in {"second", "next"} /\ (pc' = "second" => est' \in MinSps..MaxSps)
    BY <1>1, <1>2
  <2>3. pc' = "next" /\ orig' <= MaxSps => rd'
    <3> SUFFICES ASSUME pc' = "next", orig <= MaxSps, ~rd
                 PROVE  FALSE
      BY <1>1
    <3>1. est = orig
      BY <1>0, <1>3, EstType
    <3>2. est \in MinSps..MaxSps
      BY <3>1, <1>3, <1>0, Numbers, ReaderAssumption
    <3> QED
      BY <3>2, <1>1
  <2>4. ~rd' => turn' = 0 /\ loc' = 0 /\ total' = base'
    BY <1>1, <1>3
  <2>5. turn' = 0 => ~rd'
    BY <1>1, <1>3
  <2>6. base' = sync' /\ orig' >= MinSps
    BY <1>1, <1>3, <1>4
  <2>7. BreaksOnlyAtEndOrFull'
    BY <2>2 DEF BreaksOnlyAtEndOrFull
  <2> QED
    BY <2>1, <2>2, <2>3, <2>4, <2>5, <2>6, <2>7 DEF Control, Reading
<1>7. Mirror'
  <2> SUFFICES ASSUME rd', orig' <= MaxSps, base' < end'
               PROVE  /\ total' = base' + Len(cache')
                      /\ \A i \in 1..Len(cache') : cache'[i] = base' + i
    BY DEF Mirror
  <2>1. base' = base /\ rd
    BY <1>1
  <2> QED
    BY <2>1, <1>0, <1>1 DEF Mirror
<1>8. Pace'
  BY <1>1 DEF Pace
<1>9. Close'
  <2>1. FirstAttemptInPlace'
    BY <1>1 DEF FirstAttemptInPlace
  <2>2. FirstAttemptFits'
    <3>1. ~(rd' /\ turn' = 0)
      BY <1>1, <1>3
    <3> QED
      BY <3>1 DEF FirstAttemptFits, CacheInUse
  <2> QED
    BY <1>1, <2>1, <2>2 DEF Close
<1> QED
  BY <1>5, <1>6, <1>7, <1>8, <1>9 DEF IInv

LEMMA RetryInv == IInv /\ Retry => IInv'
<1> SUFFICES ASSUME IInv, Retry
             PROVE  IInv'
  OBVIOUS
<1>0. TypeOK /\ Control /\ Mirror /\ Close
  BY DEF IInv
<1>1. /\ pc = "next" /\ turn < 2 * Width /\ turn' = turn + 1 /\ rd' = TRUE /\ pc' = "try"
      /\ files' = files /\ end' = end /\ total' = total /\ cache' = cache /\ loc' = loc
      /\ base' = base /\ valid' = valid /\ sync' = sync /\ orig' = orig
      /\ sym' = sym /\ symStart' = symStart /\ abe' = abe /\ torn' = torn /\ skew' = skew
  BY DEF Retry, fileVars, bitVars, ghostVars
<1>2. Width' = Width
  BY <1>1 DEF Width
<1>3. turn' \in 0..(2 * Width') /\ turn' > 0
  BY SMTT(30), <1>0, <1>1, <1>2, Numbers
<1>4. TypeOK'
  <2>1. pc' \in Ended \cup Reading \cup {"search", "try", "next"} /\ rd' \in BOOLEAN
    BY <1>1
  <2> QED
    BY <1>0, <1>1, <1>2, <1>3, <2>1 DEF TypeOK
<1>5. Control'
  <2>1. end' <= total' + FileLen /\ orig' >= MinSps /\ base' = sync'
    BY <1>0, <1>1 DEF Control
  <2>2. turn' /= 0
    BY <1>3
  <2> QED
    BY <1>1, <1>3, <2>1, <2>2 DEF Control, Reading, BreaksOnlyAtEndOrFull
<1>6. Mirror'
  <2> SUFFICES ASSUME orig' <= MaxSps, base' < end'
               PROVE  /\ total' = base' + Len(cache')
                      /\ \A i \in 1..Len(cache') : cache'[i] = base' + i
    BY DEF Mirror
  <2>1. rd
    BY <1>0, <1>1 DEF Control
  <2> QED
    BY <2>1, <1>0, <1>1 DEF Mirror
<1>7. Pace'
  BY <1>1 DEF Pace
<1>8. Close'
  <2>1. turn' /= 0
    BY <1>3
  <2> QED
    BY <2>1 DEF Close, FirstAttemptInPlace, FirstAttemptFits
<1> QED
  BY <1>4, <1>5, <1>6, <1>7, <1>8 DEF IInv

LEMMA GiveUpInv == IInv /\ GiveUp => IInv'
<1> SUFFICES ASSUME IInv, GiveUp
             PROVE  IInv'
  OBVIOUS
<1>0. TypeOK /\ Control
  BY DEF IInv
<1>1. /\ pc' = "search" /\ rd' = FALSE /\ files' = files /\ end' = end
      /\ total' = total /\ cache' = cache /\ loc' = loc /\ base' = base /\ valid' = valid
  BY DEF GiveUp, fileVars
<1>2. /\ sync' = 0 /\ orig' = 0 /\ turn' = 0 /\ sym' = 0 /\ symStart' = 0 /\ abe' = 0
      /\ torn' = FALSE /\ skew' = 0
  BY DEF GiveUp, Forget
<1>3. turn' \in 0..(2 * Width')
  BY <1>2 DEF Width
<1>4. TypeOK'
  <2>1. pc' \in Ended \cup Reading \cup {"search", "try", "next"} /\ sync' \in 0..total'
    BY <1>0, <1>1, <1>2, Numbers
  <2>2. rd' \in BOOLEAN /\ valid' \in BOOLEAN /\ torn' \in BOOLEAN
    BY <1>0, <1>1, <1>2 DEF TypeOK
  <2>3. /\ files' \in 0..MaxFiles /\ end' \in Nat /\ total' \in 0..end'
        /\ cache' \in Seq(1..end') /\ Len(cache') <= CacheSize
        /\ loc' \in (-MaxSps)..Len(cache') /\ base' \in 0..total'
    BY <1>0, <1>1 DEF TypeOK
  <2>4. /\ orig' \in 0..MaxOrig /\ sym' \in 0..Symbols
        /\ symStart' \in Nat /\ abe' \in Nat /\ skew' \in Int
    BY <1>2, ReaderAssumption
  <2> QED
    BY <1>3, <2>1, <2>2, <2>3, <2>4 DEF TypeOK
<1>5. Control'
  BY <1>0, <1>1, <1>2 DEF Control, Reading, BreaksOnlyAtEndOrFull
<1>6. Mirror' /\ Pace'
  BY <1>1 DEF Mirror, Pace, Reading
<1>7. Close'
  BY <1>1, <1>2 DEF Close, FirstAttemptFits, FirstAttemptInPlace, CacheInUse, Reading
<1> QED
  BY <1>4, <1>5, <1>6, <1>7 DEF IInv

-----------------------------------------------------------------------------
(* So does every bit that is read.                                         *)

LEMMA BitLostInv == IInv /\ BitLost => IInv'
<1> SUFFICES ASSUME IInv, BitLost
             PROVE  IInv'
  OBVIOUS
<1>0. TypeOK /\ Control /\ Pace /\ Close
  BY DEF IInv
<1>1. /\ pc \in Reading /\ ~Overruns /\ Reached < First
      /\ cache' = Read /\ total' = total + Got /\ pc' = "dead"
      /\ files' = files /\ end' = end /\ loc' = loc /\ base' = base /\ rd' = rd
      /\ valid' = valid /\ sync' = sync /\ orig' = orig /\ turn' = turn
      /\ sym' = sym /\ symStart' = symStart /\ abe' = abe /\ torn' = torn /\ skew' = skew
  BY DEF BitLost, fileVars, estVars, bitVars, ghostVars
<1>2. total' = end'
  BY <1>0, <1>1, Lost
<1>3. /\ end \in Nat /\ total \in Nat /\ total <= end /\ Len(cache) \in Nat
      /\ base \in Nat /\ base <= total /\ sync \in Nat /\ sync <= total
      /\ loc \in Int /\ -MaxSps <= loc /\ loc <= Len(cache) /\ MaxSps \in Nat
  BY <1>0, Numbers, ReaderAssumption
<1>4. Len(Kept) \in Nat /\ (rd => Kept = cache) /\ (~rd => loc = 0)
  BY <1>0, <1>1, Begin
<1>5. /\ Got \in Nat /\ Read \in Seq(1..end) /\ Len(Read) \in Nat
      /\ Got = 0 => Read = cache
      /\ Got > 0 => Len(Read) = Len(Kept) + Got
      /\ Len(Read) <= CacheSize
  BY <1>0, <1>1, Reads
<1>6. loc <= Len(Read)
  <2>1. CASE rd
    <3>1. Len(Kept) = Len(cache)
      BY <2>1, <1>4
    <3> QED
      BY <3>1, <1>3, <1>5
  <2>2. CASE ~rd
    BY <2>2, <1>4, <1>5
  <2> QED
    BY <2>1, <2>2
<1>7. TypeOK'
  <2>1. pc' \in Ended \cup Reading \cup {"search", "try", "next"}
    BY <1>1 DEF Ended
  <2>2. Width' = Width
    BY <1>1 DEF Width
  <2>3. total' \in 0..end' /\ base' \in 0..total' /\ sync' \in 0..total'
    BY <1>1, <1>2, <1>3
  <2>4. cache' \in Seq(1..end') /\ loc' \in (-MaxSps)..Len(cache') /\ Len(cache') <= CacheSize
    BY <1>1, <1>3, <1>5, <1>6
  <2>5. rd' \in BOOLEAN /\ valid' \in BOOLEAN /\ torn' \in BOOLEAN
    BY <1>0, <1>1 DEF TypeOK
  <2>6. /\ files' \in 0..MaxFiles /\ end' \in Nat
        /\ orig' \in 0..MaxOrig /\ turn' \in 0..(2 * Width')
        /\ sym' \in 0..Symbols /\ symStart' \in Nat /\ abe' \in Nat /\ skew' \in Int
    BY <1>0, <1>1, <2>2 DEF TypeOK
  <2> QED
    BY <2>1, <2>3, <2>4, <2>5, <2>6 DEF TypeOK
<1>8. Control'
  <2>1. end' <= total' + FileLen
    BY <1>1, <1>2, <1>3, ReaderAssumption
  <2> QED
    BY <2>1, <1>1, <1>2 DEF Control, Reading, BreaksOnlyAtEndOrFull
<1>9. Mirror' /\ Pace'
  BY <1>1 DEF Mirror, Pace, Reading
<1>10. Close'
  <2>1. FirstAttemptInPlace'
    BY <1>0, <1>1 DEF Close, FirstAttemptInPlace
  <2> QED
    BY <1>1, <2>1 DEF Close, FirstAttemptFits, CacheInUse, Reading
<1> QED
  BY <1>7, <1>8, <1>9, <1>10 DEF IInv

LEMMA OverrunInv == IInv /\ Overrun => IInv'
<1> SUFFICES ASSUME IInv, Overrun
             PROVE  IInv'
  OBVIOUS
<1>0. TypeOK /\ Control /\ Pace /\ Close
  BY DEF IInv
<1>1. /\ pc \in Reading /\ Overruns /\ pc' = "wild"
      /\ files' = files /\ end' = end /\ total' = total /\ cache' = cache /\ loc' = loc
      /\ base' = base /\ rd' = rd /\ valid' = valid /\ sync' = sync /\ orig' = orig
      /\ turn' = turn /\ sym' = sym /\ symStart' = symStart /\ abe' = abe
      /\ torn' = torn /\ skew' = skew
  BY DEF Overrun, fileVars, cacheVars, estVars, bitVars, ghostVars
<1>2. Len(Kept) >= CacheSize /\ total < end
  BY <1>1 DEF Overruns
<1>3. rd /\ Kept = cache
  <2>1. rd \/ Len(Kept) = 0
    BY <1>0, <1>1, Begin
  <2>2. rd
    BY <2>1, <1>2, Nonempty, ReaderAssumption
  <2> QED
    BY <2>2, <1>0, <1>1, Begin
<1>4. Len(cache) = CacheSize
  BY <1>0, <1>2, <1>3, Numbers, ReaderAssumption
<1>5. turn > 0
  <2> SUFFICES ASSUME turn = 0
               PROVE  FALSE
    BY <1>0, Numbers
  <2>1. base < end
    BY <1>0, <1>2, Numbers
  <2>2. Len(cache) < CacheSize
    BY <2>1, <1>0, <1>1, <1>3 DEF Close, FirstAttemptFits, CacheInUse
  <2> QED
    BY <2>2, <1>4, ReaderAssumption
<1>6. TypeOK'
  <2>1. Width' = Width /\ pc' \in Ended \cup Reading \cup {"search", "try", "next"}
    BY <1>1 DEF Width, Ended
  <2> QED
    BY <1>0, <1>1, <2>1 DEF TypeOK
<1>7. Control'
  <2>1. end' <= total' + FileLen
    BY <1>0, <1>1 DEF Control
  <2>2. BreaksOnlyAtEndOrFull'
    BY <1>1, <1>2, <1>4, <1>5 DEF BreaksOnlyAtEndOrFull
  <2> QED
    BY <2>1, <2>2, <1>1 DEF Control, Reading
<1>8. Mirror' /\ Pace'
  BY <1>1 DEF Mirror, Pace, Reading
<1>9. Close'
  <2>1. FirstAttemptInPlace'
    BY <1>0, <1>1 DEF Close, FirstAttemptInPlace
  <2> QED
    BY <1>1, <2>1 DEF Close, FirstAttemptFits, CacheInUse, Reading
<1> QED
  BY <1>6, <1>7, <1>8, <1>9 DEF IInv

\* The sums of the steps: s is bit_start, a the new actual_bit_end, B the buffer
\* and n the samples of the bit.
LEMMA CloseSum ==
    ASSUME NEW s \in Nat, NEW a \in Nat, NEW B \in Nat, NEW n \in Nat, NEW e \in Nat,
           NEW len \in Int, NEW l \in Int,
           3 * B <= 4 * (a - s + 2), 10 * B <= 11 * n, 5 * n <= 3 * e + 15,
           len <= s + B, s + B - (len - l) <= a
    PROVE  l <= a /\ 5 * (len - a) <= e + 15
  OBVIOUS

LEMMA HalfSum ==
    ASSUME NEW s \in Nat, NEW a \in Nat, NEW B \in Nat, NEW n \in Nat, NEW e \in Nat,
           s <= a, a + 1 <= s + B, 10 * B <= 11 * n, 2 * n <= e
    PROVE  20 * (a + 1 - s) <= 11 * e
  OBVIOUS

LEMMA WholeSum ==
    ASSUME NEW y \in Nat, NEW x \in Nat, NEW s \in Nat, NEW a \in Nat, NEW B \in Nat,
           NEW e \in Nat, NEW l \in Int,
           y <= x, x <= s, s <= a, a + 1 <= s + B, 10 * B <= 11 * (e - (s - x)),
           20 * (x - y) <= l
    PROVE  y <= a /\ 20 * (a + 1 - y) <= l + 22 * e
  OBVIOUS

\* What every bit that was read leaves of the invariant, wherever the symbol
\* goes on.
LEMMA BitRead ==
    ASSUME IInv, pc \in Reading, GetBit
    PROVE  /\ total' \in 0..end' /\ base' \in 0..total' /\ sync' \in 0..total'
           /\ cache' \in Seq(1..end') /\ loc' \in (-MaxSps)..Len(cache')
           /\ Len(cache') <= CacheSize
           /\ rd' = TRUE /\ torn' \in BOOLEAN /\ skew' \in Int /\ abe' \in Nat
           /\ files' = files /\ end' = end /\ base' = base
           /\ sync' = sync /\ orig' = orig /\ turn' = turn /\ est' = est /\ Width' = Width
           /\ end' <= total' + FileLen /\ orig >= MinSps /\ base = sync
           /\ est \in MinSps..MaxSps
           /\ orig' <= MaxSps /\ base' < end' =>
                 /\ total' = base' + Len(cache')
                 /\ \A i \in 1..Len(cache') : cache'[i] = base' + i
           /\ turn' = 0 /\ base' < end' =>
                 /\ base' + loc' <= abe'
                 /\ 5 * (base' + Len(cache') - abe') <= est' + 15
                 /\ Len(cache') < CacheSize
           /\ turn' = 0 /\ base' = end' => torn'
           /\ FirstAttemptInPlace'
<1>0. TypeOK /\ Control /\ Mirror /\ Pace /\ Close
  BY DEF IInv
<1>1. /\ cache' = Read /\ total' = total + Got /\ rd' = TRUE
      /\ torn' = (torn \/ Reached < UpTo)
      /\ skew' = IF Reached > First THEN Read[First + 1] - (bit_start + 1) ELSE 0
      /\ files' = files /\ end' = end /\ base' = base
      /\ sync' = sync /\ orig' = orig /\ turn' = turn
  BY DEF GetBit, fileVars, estVars
<1>2. est' = est /\ Width' = Width
  BY <1>1 DEF est, Width
<1>3. /\ end \in Nat /\ total \in Nat /\ total <= end /\ Len(cache) \in Nat
      /\ base \in Nat /\ base <= total /\ sync \in Nat /\ sync <= total
      /\ MaxSps \in Nat /\ FileLen \in Nat /\ CacheSize \in Nat
  BY <1>0, Numbers, ReaderAssumption
<1>4. orig >= MinSps /\ base = sync /\ est \in MinSps..MaxSps /\ end <= total + FileLen
  BY <1>0 DEF Control
<1>5. /\ Got \in Nat /\ total + Got <= end /\ Read \in Seq(1..end) /\ Len(Read) \in Nat
      /\ ~rd => (Got = 0 <=> total = end)
      /\ Len(Read) <= CacheSize
  BY <1>0, Reads
<1>6. /\ abe' \in Nat /\ bit_start <= abe' /\ abe' + 1 <= bit_start + Buffer
      /\ 3 * Buffer <= 4 * (abe' - bit_start + 2)
      /\ loc' \in Int /\ -MaxSps <= loc' /\ loc' <= Len(Read)
      /\ bit_start + Buffer - (Len(Read) - loc') <= abe'
  BY <1>0, Moved
<1>7. /\ est \in Nat /\ 20 <= est /\ bit_start \in Nat
      /\ num_samples \in Nat /\ 5 * num_samples <= 3 * est + 15
      /\ Buffer \in Nat /\ 10 * Buffer <= 11 * num_samples /\ Buffer >= 11
  BY <1>0, Spans, Margin
<1>8. total' \in 0..end' /\ base' \in 0..total' /\ sync' \in 0..total'
  BY <1>1, <1>3, <1>5
<1>9. cache' \in Seq(1..end') /\ loc' \in (-MaxSps)..Len(cache') /\ Len(cache') <= CacheSize
  BY <1>1, <1>3, <1>5, <1>6
<1>10. torn \in BOOLEAN /\ torn' \in BOOLEAN
  BY <1>0, <1>1 DEF TypeOK
<1>11. /\ Reached \in Int /\ First \in Nat /\ UpTo \in Nat
       /\ Reached > First => First + 1 \in 1..Len(Read) /\ (rd \/ Got > 0)
       /\ ~rd => First = 0 /\ Len(Kept) = 0 /\ total = base
       /\ UpTo = First + Buffer
  BY <1>0, Placed, Begin
<1>12. skew' \in Int
  <2>1. CASE Reached > First
    <3>1. Read[First + 1] \in 1..end
      BY <2>1, <1>5, <1>11, ElementOfSeq
    <3>2. skew' = Read[First + 1] - (bit_start + 1)
      BY <2>1, <1>1
    <3> QED
      BY <3>1, <3>2, <1>3, <1>7
  <2>2. CASE ~(Reached > First)
    BY <2>2, <1>1
  <2> QED
    BY <2>1, <2>2
<1>13. end' <= total' + FileLen
  BY <1>1, <1>3, <1>4, <1>5
<1>14. ASSUME orig' <= MaxSps, base' < end'
       PROVE  /\ total' = base' + Len(cache')
              /\ \A i \in 1..Len(cache') : cache'[i] = base' + i
  <2>1. orig <= MaxSps /\ base < end
    BY <1>14, <1>1
  <2>2. /\ total + Got = base + Len(Read)
        /\ \A i \in 1..Len(Read) : Read[i] = base + i
    BY <2>1, <1>0, Copied
  <2> QED
    BY <2>2, <1>1
<1>15. ASSUME turn' = 0, base' < end'
       PROVE  /\ base' + loc' <= abe'
              /\ 5 * (base' + Len(cache') - abe') <= est' + 15
              /\ Len(cache') < CacheSize
  <2>1. turn = 0 /\ base < end
    BY <1>15, <1>1
  <2>2. base + Len(Read) <= bit_start + Buffer /\ Len(Read) < CacheSize
    BY <2>1, <1>0, Ahead
  <2> DEFINE len == base + Len(Read)
             l == base + loc'
  <2>3. /\ len \in Int /\ l \in Int /\ len - l = Len(Read) - loc'
        /\ len <= bit_start + Buffer
    BY SMTT(30), <2>2, <1>3, <1>5, <1>6
  <2>4. l <= abe' /\ 5 * (len - abe') <= est + 15
    <3> HIDE DEF len, l
    <3>1. bit_start + Buffer - (len - l) <= abe'
      BY <2>3, <1>6
    <3> QED
      BY <2>3, <3>1, <1>6, <1>7, CloseSum
  <2>5. (base + Len(Read)) - abe' = base + Len(Read) - abe'
    BY <1>3, <1>5, <1>6
  <2> QED
    BY <2>2, <2>4, <2>5, <1>1, <1>2
<1>16. ASSUME turn' = 0, base' = end'
       PROVE  torn'
  <2>1. turn = 0 /\ base = end
    BY <1>16, <1>1
  <2>2. CASE rd
    <3>1. pc \in {"first", "last"}
      BY <2>1, <2>2, <1>0 DEF Control, Reading
    <3>2. torn
      BY <3>1, <2>1, <1>0 DEF Close
    <3> QED
      BY <3>2, <1>1
  <2>3. CASE ~rd
    <3>1. Got = 0 /\ Len(Kept) = 0
      BY <2>1, <2>3, <1>3, <1>5, <1>11
    <3>2. Reached < UpTo
      BY <3>1, <2>3, <1>11, <1>7
    <3> QED
      BY <3>2, <1>1
  <2> QED
    BY <2>2, <2>3
<1>17. FirstAttemptInPlace'
  <2> SUFFICES ASSUME turn' = 0, ~torn'
               PROVE  skew' = 0
    BY DEF FirstAttemptInPlace
  <2>1. base < end /\ turn = 0
    BY <1>16, <1>1, <1>3
  <2>2. First = bit_start - base
    BY <2>1, <1>0, Ahead
  <2>3. CASE Reached > First
    <3>1. First + 1 \in 1..Len(Read) /\ skew' = Read[First + 1] - (bit_start + 1)
      BY <2>3, <1>11, <1>1
    <3>2. orig <= MaxSps
      BY <2>1, <1>0, <1>4, EstType, <1>3
    <3>3. \A i \in 1..Len(Read) : Read[i] = base + i
      BY <2>1, <3>2, <1>0, Copied
    <3>4. Read[First + 1] = base + (First + 1)
      BY <3>1, <3>3
    <3> QED
      BY <3>1, <3>4, <2>2, <1>3, <1>7
  <2>4. CASE ~(Reached > First)
    BY <2>4, <1>1
  <2> QED
    BY <2>3, <2>4
<1> QED
  BY <1>1, <1>2, <1>4, <1>6, <1>8, <1>9, <1>10, <1>12, <1>13, <1>14, <1>15, <1>16, <1>17

\* The invariant after a bit, from what BitRead says of it and how far the symbol
\* has come.
LEMMA GoesOn ==
    ASSUME IInv, pc \in Reading, GetBit, valid' \in BOOLEAN,
           pc' \in {"first", "last", "next", "found"},
           sym' \in 0..Symbols, symStart' \in Nat, Pace'
    PROVE  IInv'
<1>1. /\ total' \in 0..end' /\ base' \in 0..total' /\ sync' \in 0..total'
      /\ cache' \in Seq(1..end') /\ loc' \in (-MaxSps)..Len(cache')
      /\ Len(cache') <= CacheSize
      /\ torn' \in BOOLEAN /\ skew' \in Int /\ abe' \in Nat
  BY BitRead
<1>2. /\ rd' = TRUE /\ files' = files /\ end' = end /\ base' = base
      /\ sync' = sync /\ orig' = orig /\ turn' = turn /\ est' = est /\ Width' = Width
  BY BitRead
<1>3. /\ end' <= total' + FileLen /\ orig >= MinSps /\ base = sync
      /\ est \in MinSps..MaxSps
  BY BitRead
<1>4. TypeOK'
  <2>1. pc' \in Ended \cup Reading \cup {"search", "try", "next"} /\ rd' \in BOOLEAN
    BY <1>2 DEF Ended, Reading
  <2>2. /\ files' \in 0..MaxFiles /\ end' \in Nat
        /\ orig' \in 0..MaxOrig /\ turn' \in 0..(2 * Width')
    BY <1>2 DEF IInv, TypeOK
  <2> QED
    BY <1>1, <2>1, <2>2 DEF TypeOK
<1>5. Control'
  <2>1. base' = sync' /\ orig' >= MinSps /\ est' \in MinSps..MaxSps
    BY <1>2, <1>3
  <2> QED
    BY <1>2, <1>3, <2>1 DEF Control, Reading, BreaksOnlyAtEndOrFull
<1>6. Mirror'
  <2>1. orig' <= MaxSps /\ base' < end' =>
           /\ total' = base' + Len(cache')
           /\ \A i \in 1..Len(cache') : cache'[i] = base' + i
    BY BitRead
  <2> QED
    BY <2>1 DEF Mirror
<1>7. Close'
  <2>1. /\ turn' = 0 /\ base' < end' =>
              /\ base' + loc' <= abe'
              /\ 5 * (base' + Len(cache') - abe') <= est' + 15
              /\ Len(cache') < CacheSize
        /\ turn' = 0 /\ base' = end' => torn'
        /\ FirstAttemptInPlace'
    BY BitRead
  <2>2. FirstAttemptFits'
    BY <2>1 DEF FirstAttemptFits
  <2> QED
    BY <2>1, <2>2 DEF Close
<1> QED
  BY <1>4, <1>5, <1>6, <1>7 DEF IInv

LEMMA SecondSymbolInv == IInv /\ SecondSymbol => IInv'
<1> SUFFICES ASSUME IInv, SecondSymbol
             PROVE  IInv'
  OBVIOUS
<1>0. TypeOK /\ Control /\ Pace
  BY DEF IInv
<1>1. /\ pc = "second" /\ GetBit /\ sym' = 2 /\ symStart' = symStart
      /\ pc' = IF valid' THEN "first" ELSE "next"
  BY DEF SecondSymbol
<1>2. pc \in Reading
  BY <1>1 DEF Reading
<1>3. valid' \in BOOLEAN
  BY DEF SecondSymbol
<1>4. pc' \in {"first", "next"}
  BY <1>1
<1>5. /\ sym' \in 0..Symbols /\ symStart' \in Nat /\ sym' \in 2..(Symbols - 1)
  BY <1>0, <1>1, ReaderAssumption DEF TypeOK
<1>6. est' = est /\ sync' = sync /\ est \in Nat
  BY <1>0, <1>1, <1>2, BitRead, Spans
<1>7. /\ bit_start = sync /\ bit_start \in Nat /\ num_samples \in Nat /\ 2 * num_samples <= est
      /\ Buffer \in Nat /\ 10 * Buffer <= 11 * num_samples
  BY <1>0, <1>1, <1>2, Spans, Margin, Numbers DEF bit_start
<1>8. abe' \in Nat /\ bit_start <= abe' /\ abe' + 1 <= bit_start + Buffer
  BY <1>0, <1>1, <1>2, Moved
<1>9. sync <= abe' /\ 20 * (abe' + 1 - sync) <= 11 * est
  <2>1. 20 * (abe' + 1 - bit_start) <= 11 * est
    BY <1>6, <1>7, <1>8, HalfSum
  <2> QED
    BY <2>1, <1>7, <1>8
<1>10. Limit(sym)' = 11 * est
  <2>1. Limit(sym)' = 11 * est * (2 * 2 - 3)
    BY <1>1, <1>6 DEF Limit
  <2> QED
    BY <2>1, <1>6, Steps
<1>11. Pace'
  BY <1>4, <1>5, <1>6, <1>9, <1>10 DEF Pace
<1> QED
  BY <1>1, <1>2, <1>3, <1>4, <1>5, <1>11, GoesOn

LEMMA FirstBitInv == IInv /\ FirstBit => IInv'
<1> SUFFICES ASSUME IInv, FirstBit
             PROVE  IInv'
  OBVIOUS
<1>0. TypeOK /\ Control /\ Pace
  BY DEF IInv
<1>1. /\ pc = "first" /\ GetBit /\ sym' = sym /\ symStart' = bit_start
      /\ pc' = "last" /\ valid' = (valid /\ ~Full)
  BY DEF FirstBit
<1>2. pc \in Reading
  BY <1>1 DEF Reading
<1>3. valid' \in BOOLEAN
  BY <1>0, <1>1 DEF TypeOK
<1>4. /\ sym \in 2..(Symbols - 1) /\ sync <= abe
      /\ 20 * (abe + 1 - sync) <= Limit(sym)
  BY <1>0, <1>1 DEF Pace
<1>5. est' = est /\ sync' = sync /\ est \in Nat /\ 20 <= est
  BY <1>0, <1>1, <1>2, BitRead, Spans
<1>6. /\ bit_start = abe + 1 /\ bit_start \in Nat /\ sync <= bit_start
      /\ num_samples \in Nat /\ 2 * num_samples <= est /\ est <= 2 * num_samples + 1
      /\ Buffer \in Nat /\ 10 * Buffer <= 11 * num_samples
      /\ 11 * num_samples <= 10 * Buffer + 9
  BY <1>0, <1>1, <1>2, Spans, Margin DEF bit_start
<1>7. /\ abe' \in Nat /\ bit_start <= abe' /\ abe' + 1 <= bit_start + Buffer
      /\ 3 * Buffer <= 4 * (abe' - bit_start + 2)
  BY <1>0, <1>1, <1>2, Moved
<1>8. sym' \in 0..Symbols /\ symStart' \in Nat
  BY <1>0, <1>1, <1>6 DEF TypeOK
<1>9. 20 * (abe' - bit_start + 1) <= 11 * est /\ 2 * est <= 5 * (abe' - bit_start + 3)
  BY <1>5, <1>6, <1>7
<1>10. Limit(sym)' = Limit(sym)
  BY <1>1, <1>5 DEF Limit
<1>11. 20 * (bit_start - sync) <= Limit(sym)
  <2>1. bit_start = abe + 1 /\ abe \in Nat /\ sync \in Nat
    BY <1>0, <1>6 DEF TypeOK
  <2>2. bit_start - sync = abe + 1 - sync
    BY <2>1
  <2> QED
    BY <2>2, <1>4
<1>12. Pace'
  BY <1>1, <1>4, <1>5, <1>6, <1>7, <1>9, <1>10, <1>11 DEF Pace
<1> QED
  BY <1>1, <1>2, <1>3, <1>8, <1>12, GoesOn

LEMMA SecondBitInv == IInv /\ SecondBit => IInv'
<1> SUFFICES ASSUME IInv, SecondBit
             PROVE  IInv'
  OBVIOUS
<1>0. TypeOK /\ Control /\ Pace
  BY DEF IInv
<1>1. /\ pc = "last" /\ GetBit /\ sym' = sym + 1 /\ symStart' = symStart
      /\ pc' = IF ~valid' THEN "next" ELSE IF sym' < Symbols THEN "first" ELSE "found"
  BY DEF SecondBit
<1>2. pc \in Reading
  BY <1>1 DEF Reading
<1>3. valid' \in BOOLEAN
  BY DEF SecondBit
<1>4. pc' \in {"first", "next", "found"} /\ (pc' = "first" => sym' < Symbols)
  BY <1>1
<1>5. /\ sym \in 2..(Symbols - 1) /\ sync <= symStart
      /\ 20 * (symStart - sync) <= Limit(sym)
      /\ symStart <= abe
  BY <1>0, <1>1 DEF Pace
<1>6. est' = est /\ sync' = sync /\ est \in Nat
  BY <1>0, <1>1, <1>2, BitRead, Spans
<1>7. /\ bit_start = abe /\ abe \in Nat /\ symStart \in Nat /\ sync \in Nat
      /\ num_samples = est - (abe - symStart)
      /\ Buffer \in Nat /\ 10 * Buffer <= 11 * num_samples
  BY <1>0, <1>1, <1>2, Spans, Margin DEF bit_start, TypeOK
<1>8. abe' \in Nat /\ bit_start <= abe' /\ abe' + 1 <= bit_start + Buffer
  BY <1>0, <1>1, <1>2, Moved
<1>9. sym \in Nat /\ sym' \in 0..Symbols /\ symStart' \in Nat
      /\ (sym' < Symbols => sym' \in 2..(Symbols - 1))
  BY <1>1, <1>5, <1>7, ReaderAssumption
<1>10. Limit(sym)' = Limit(sym) + 22 * est /\ Limit(sym) \in Int
  <2>1. Limit(sym)' = 11 * est * (2 * (sym + 1) - 3)
    BY <1>1, <1>6 DEF Limit
  <2>2. Limit(sym) = 11 * est * (2 * sym - 3)
    BY DEF Limit
  <2> QED
    BY <2>1, <2>2, <1>6, <1>9, Steps
<1>11. sync <= abe' /\ 20 * (abe' + 1 - sync) <= Limit(sym) + 22 * est
  <2>1. Limit(sym) \in Int
    BY <1>10
  <2>2. 10 * Buffer <= 11 * (est - (abe - symStart))
    BY <1>7
  <2>3. abe <= abe' /\ abe' + 1 <= abe + Buffer /\ abe' \in Nat
    BY <1>7, <1>8
  <2> QED
    BY <2>1, <2>2, <2>3, <1>5, <1>6, <1>7, WholeSum
<1>12. Pace'
  BY <1>4, <1>6, <1>9, <1>10, <1>11 DEF Pace
<1> QED
  BY <1>1, <1>2, <1>3, <1>4, <1>9, <1>12, GoesOn

-----------------------------------------------------------------------------
(* Theorems.                                                               *)

\* IInv holds in every reachable state, whatever the capture, the number of
\* files and the sizes of analyze_tpms2.c's constants.
THEOREM Invariance == Spec => []IInv
<1>1. Init => IInv
  BY InitInv
<1>2. IInv /\ [Next]_vars => IInv'
  BY OpenInv, NoPreludeInv, BadPreludeInv, PreludeAtEndInv, GoodPreludeInv, TryInv,
     RetryInv, GiveUpInv, BitLostInv, OverrunInv, SecondSymbolInv, FirstBitInv, SecondBitInv,
     StutterInv
     DEF Next
<1> QED
  BY <1>1, <1>2, PTL DEF Spec

\* The variables of the search keep their types; in particular cache_loc never
\* falls more than MAX_SAMPLES_PER_SYMBOL below the cache, and no more estimates
\* are tried than the loops of get_packet allow.
THEOREM TypeCorrect == Spec => []TypeOK
  BY Invariance, PTL DEF IInv

\* In a first attempt get_bit reads each bit from the sample it was asked to
\* start at, for as long as the file lasts.
THEOREM InPlace == Spec => []FirstAttemptInPlace
<1>1. IInv => FirstAttemptInPlace
  BY DEF IInv, Close
<1> QED
  BY <1>1, Invariance, PTL

\* A first attempt never fills symbol_cache: the longest packet, with the drift of
\* its bits and the margin of its last buffer, is shorter than CACHE_SIZE.
THEOREM Fits == Spec => []FirstAttemptFits
<1>1. IInv => FirstAttemptFits
  BY DEF IInv, Close
<1> QED
  BY <1>1, Invariance, PTL

\* While a packet is being read symbol_cache holds the samples of the file from
\* the prelude on, without a gap, through every retry of get_packet up to the one
\* that writes past its end, if any does.
THEOREM Mirrors == Spec => []CacheMirrorsFile
<1>1. IInv => CacheMirrorsFile
  BY DEF IInv, Mirror, CacheMirrorsFile, CacheInUse
<1> QED
  BY <1>1, Invariance, PTL

\* get_packet uses a sample that is not there only when the file has ended, and
\* writes past symbol_cache only in a retry that finds it full: a first attempt
\* does not, however its bits drift.
THEOREM Breaks == Spec => []BreaksOnlyAtEndOrFull
<1>1. IInv => BreaksOnlyAtEndOrFull
  BY DEF IInv, Control
<1> QED
  BY <1>1, Invariance, PTL
=============================================================================
