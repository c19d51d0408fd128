---------------------------- MODULE PacketReader ----------------------------
(***************************************************************************)
(* The decoder's search for a packet in a capture (analyze_tpms2.c).       *)
(*                                                                         *)
(* The search reads on until it meets a prelude, estimates the samples per *)
(* symbol from it and tries to read a packet; when that fails it tries the *)
(* neighbouring estimates over the same samples, which a cache has kept.   *)
(* All of it is static data of the process and lives on when another file  *)
(* is analysed.                                                            *)
(*                                                                         *)
(* A sample is its number, counted by total_samples_in over all files; the *)
(* cache is the sequence of the samples in it.  What the samples say is    *)
(* left open: where a bit ends, whether two half bits agree and whether a  *)
(* packet validates are free choices.                                      *)
(*                                                                         *)
(* A retry that reads on when the cache is full writes past its end.  What *)
(* such a write does is not defined: pc is then "wild", and the account of *)
(* the process ends.                                                       *)
(***************************************************************************)
EXTENDS Integers, Sequences

CONSTANTS FileLen,      \* samples in a file
          MaxFiles,     \* bound: files analysed by one process
          Symbols,      \* SYMBOLS_PER_MSG (69)
          MinSps,       \* MIN_SAMPLES_PER_SYMBOL (307)
          MaxSps,       \* MAX_SAMPLES_PER_SYMBOL (512)
          MaxOrig,      \* bound: samples_per_sym found in a prelude
          Prelude,      \* least length of its two long phases
          MaxSkip,      \* bound: samples skipped before a prelude or spent in it
          CacheSize     \* CACHE_SIZE (65535)

\* The cache is larger than the longest packet with its margins.
ASSUME ReaderAssumption ==
    /\ FileLen \in Nat /\ MaxFiles \in Nat
    /\ Symbols \in Nat /\ Symbols >= 3
    /\ MinSps \in Nat /\ MinSps >= 20 /\ MaxSps \in Nat /\ MaxOrig \in Nat
    /\ MinSps <= MaxSps
    /\ Prelude \in Nat /\ MaxSkip \in Nat
    /\ CacheSize \in Nat
    /\ 11 * (2 * Symbols - 3) * MaxSps < 20 * CacheSize

VARIABLES pc,           \* where get_packet is
          files,        \* files opened
          end,          \* total_samples_in at the end of the file
          total,        \* total_samples_in
          cache,        \* symbol_cache up to cache_count
          loc,          \* cache_loc
          base,         \* cache_loc_in_file
          rd,           \* read_from_cache; during an attempt write_to_cache is its negation
          valid,        \* valid_pkt
          sync,         \* sync_bits_end
          orig,         \* orig_samples_per_sym
          turn,         \* attempts at this prelude before the current one
          sym,          \* i, the symbol being read
          symStart,     \* sym_start
          abe,          \* actual_bit_end
          torn,         \* a read of this attempt met the end of the file or of the cache
          skew          \* how far from bit_start the last bit was read

fileVars == <<files, end>>
estVars == <<sync, orig, turn>>
cacheVars == <<cache, loc, base, rd>>
bitVars == <<sym, symStart, abe>>
ghostVars == <<torn, skew>>
vars == <<pc, fileVars, total, cacheVars, valid, estVars, bitVars, ghostVars>>

Reading == {"second", "first", "last"}
Ended == {"closed", "done", "found", "dead", "wild"}

Least(a, b) == IF a < b THEN a ELSE b
Most(a, b) == IF a < b THEN b ELSE a

\* How many estimates either side of orig are tried: tolerance is a float a
\* little above 0.05, so an estimate exactly 5% away is one of them.
Width == (5 * orig) \div 100

\* samples_per_sym_est of the attempts in their order: the one of the prelude,
\* then downwards, then upwards.
est == IF turn <= Width THEN orig - turn ELSE orig + (turn - Width)

TypeOK ==
    /\ pc \in Ended \cup Reading \cup {"search", "try", "next"}
    /\ files \in 0..MaxFiles
    /\ end \in Nat /\ total \in 0..end
    /\ cache \in Seq(1..end) /\ Len(cache) <= CacheSize
    /\ loc \in (-MaxSps)..Len(cache)
    /\ base \in 0..total
    /\ rd \in BOOLEAN /\ valid \in BOOLEAN
    /\ sync \in 0..total
    /\ orig \in 0..MaxOrig /\ turn \in 0..(2 * Width)
    /\ sym \in 0..Symbols
    /\ symStart \in Nat /\ abe \in Nat
    /\ torn \in BOOLEAN /\ skew \in Int

Init ==
    /\ pc = "closed" /\ files = 0 /\ end = 0 /\ total = 0
    /\ cache = <<>> /\ loc = 0 /\ base = 0 /\ rd = FALSE
    /\ valid = FALSE
    /\ sync = 0 /\ orig = 0 /\ turn = 0
    /\ sym = 0 /\ symStart = 0 /\ abe = 0
    /\ torn = FALSE /\ skew = 0

-----------------------------------------------------------------------------
(* Looking for a prelude.                                                  *)

\* The locals of get_packet and of the calls it made are gone; actual_bit_end
\* and sync_bits_end are set again before they are used.
Forget ==
    /\ sync' = 0 /\ orig' = 0 /\ turn' = 0
    /\ sym' = 0 /\ symStart' = 0 /\ abe' = 0
    /\ torn' = FALSE /\ skew' = 0

\* analyze_file: the static variables keep what the last file left in them.
Open ==
    /\ pc \in {"closed", "done", "found"} /\ files < MaxFiles
    /\ files' = files + 1
    /\ end' = total + FileLen
    /\ rd' = FALSE
    /\ pc' = "search"
    /\ Forget
    /\ UNCHANGED <<total, cache, loc, base, valid>>

Skipped(to, next) ==
    /\ pc = "search"
    /\ total' = to
    /\ pc' = next
    /\ UNCHANGED <<fileVars, cacheVars, valid, estVars, bitVars, ghostVars>>

\* find_prelude_start comes to the end of the file.
NoPrelude == Skipped(end, "done")

\* is_valid_prelude refuses what looked like one, after its two long phases or
\* because the file ends.
BadPrelude ==
    /\ total < end - 1
    /\ \E skip \in 0..MaxSkip :
          Skipped(Least(total + skip + 1 + Prelude, end), "search")

\* The candidate is the last sample: the next one is NULL and used at once.
PreludeAtEnd == total < end /\ Skipped(end, "dead")

\* samples_per_sym is checked from below only.
GoodPrelude ==
    /\ pc = "search"
    /\ \E o \in MinSps..MaxOrig :
        /\ \E skip \in 0..MaxSkip :
              total' = total + skip + 1 + Prelude + o
        /\ total' <= end /\ sync' = total'
        /\ orig' = o
    /\ turn' = 0
    /\ pc' = "try"
    /\ UNCHANGED <<fileVars, cacheVars, valid, bitVars, ghostVars>>

-----------------------------------------------------------------------------
(* One attempt to read a packet.                                           *)

\* Mutant: cache_loc_in_file is not moved to the new prelude.
TryKeepsBase ==
    /\ pc = "try"
    /\ loc' = 0
    /\ valid' = TRUE
    /\ torn' = FALSE /\ skew' = 0
    /\ pc' = IF est \in MinSps..MaxSps THEN "second" ELSE "next"
    /\ UNCHANGED <<fileVars, total, cache, base, rd, estVars, bitVars>>

\* try_to_get_packet_symbols.  cache_count stays what it was.
Try ==
    /\ pc = "try"
    /\ loc' = 0
    /\ base' = IF rd THEN base ELSE total
    /\ valid' = TRUE
    /\ torn' = FALSE /\ skew' = 0
    /\ pc' = IF est \in MinSps..MaxSps THEN "second" ELSE "next"
    /\ UNCHANGED <<fileVars, total, cache, rd, estVars, bitVars>>

\* Mutant: the estimate is not changed.
RetrySame ==
    /\ pc = "next"
    /\ turn' = turn
    /\ rd' = TRUE
    /\ pc' = "try"
    /\ UNCHANGED <<fileVars, total, cache, loc, base, valid, sync, orig, bitVars,
                   ghostVars>>

\* Mutant: the loop over the larger estimates goes one too far.
RetryOneMore ==
    /\ pc = "next" /\ turn <= 2 * Width
    /\ turn' = turn + 1
    /\ rd' = TRUE
    /\ pc' = "try"
    /\ UNCHANGED <<fileVars, total, cache, loc, base, valid, sync, orig, bitVars,
                   ghostVars>>

\* The loops of get_packet over the other estimates ...
Retry ==
    /\ pc = "next" /\ turn < 2 * Width
    /\ turn' = turn + 1
    /\ rd' = TRUE
    /\ pc' = "try"
    /\ UNCHANGED <<fileVars, total, cache, loc, base, valid, sync, orig, bitVars,
                   ghostVars>>

\* ... and on with the search where the attempts have stopped reading the file.
GiveUp ==
    /\ pc = "next" /\ turn = 2 * Width
    /\ rd' = FALSE
    /\ pc' = "search"
    /\ Forget
    /\ UNCHANGED <<fileVars, total, cache, loc, base, valid>>

-----------------------------------------------------------------------------
(* The samples of one bit.                                                 *)

\* What get_second_symbol and get_symbol ask get_bit for.  The second bit of a
\* symbol starts at actual_bit_end, the first one behind it.
bit_start == CASE pc = "second" -> sync
               [] pc = "first" -> abe + 1
               [] pc = "last" -> abe

bit_end == CASE pc = "second" -> sync + est \div 2 - 1
             [] pc = "first" -> abe + est \div 2
             [] pc = "last" -> symStart + est - 1

num_samples == bit_end - bit_start + 1

\* Mutant: the margin is as long as the bit.
BufferTwice == 2 * num_samples

\* num_samples * 1.1
Buffer == (11 * num_samples) \div 10

\* get_current_read_loc
ReadLoc == IF rd THEN base + loc ELSE total

\* The indices in the cache of the bit's first sample and of its buffer's end.
First == loc + Most(0, bit_start - ReadLoc)
UpTo == First + Buffer

\* The part of the cache the reading begins with; writing starts at cache_loc.
Kept == IF rd THEN cache ELSE SubSeq(cache, 1, loc)

\* The cache is full, the buffer wants more and the file has more: the next
\* sample is written to symbol_cache[CACHE_SIZE] before the size is looked at.
Overruns == Len(Kept) >= CacheSize /\ UpTo > Len(Kept) /\ total < end

\* What get_next_sample, called until UpTo, takes from the file: it stops at the
\* end of the file and with the sample that fills the cache.
Got == Least(Most(0, UpTo - Len(Kept)), Least(end - total, CacheSize - Len(Kept)))

\* The cache afterwards; cache_count moves only with a sample that is written.
Read == IF Got = 0 THEN cache ELSE Kept \o [i \in 1..Got |-> total + i]

\* The last sample taken filled the cache and NULL came in its place.
Full == Got > 0 /\ Len(Read) >= CacheSize

\* The index up to which samples came back.
Reached == Least(UpTo, Len(Kept) + Got - (IF Full THEN 1 ELSE 0))

\* scan_samples_for_eob_transition: none, or one in the buffer's last quarter.
Transitions == {-1} \cup ((3 * Buffer) \div 4)..(Buffer - 1)

\* Mutant: the margin is forgotten.
BackShort(d) == {num_samples - d}

\* How far cache_loc goes back behind cache_count when the bit ended at offset
\* d: a double, cut off towards zero after the subtraction and perhaps a hair
\* too large when it is whole.
Back(d) == LET tenths == 11 * num_samples - 10 * d
               b == (tenths + 9) \div 10
           IN  IF 10 * b = tenths THEN {b, b + 1} ELSE {b}

\* get_bit.  A buffer that is cut short is used as if it were full.  cache_loc
\* may fall below 0 when the file ends early; the next bit skips what it then
\* reads there.
GetBit ==
    /\ ~Overruns
    /\ Reached >= First
    /\ cache' = Read
    /\ total' = total + Got
    /\ rd' = TRUE
    /\ \E t \in Transitions :
          abe' = IF t = -1 THEN bit_end ELSE t - 1 + bit_start
    /\ \E b \in Back(abe' - bit_start) : loc' = Len(Read) - b
    /\ torn' = (torn \/ Reached < UpTo)
    /\ skew' = IF Reached > First THEN Read[First + 1] - (bit_start + 1) ELSE 0
    /\ UNCHANGED <<fileVars, base, estVars>>

\* get_some_samples cannot even skip to the bit's start and returns NULL, which
\* get_bit uses at once.
BitLost ==
    /\ pc \in Reading /\ ~Overruns /\ Reached < First
    /\ cache' = Read
    /\ total' = total + Got
    /\ pc' = "dead"
    /\ UNCHANGED <<fileVars, loc, base, rd, valid, estVars, bitVars, ghostVars>>

\* The write past symbol_cache.  Nothing the program does after it is described.
Overrun ==
    /\ pc \in Reading /\ Overruns
    /\ pc' = "wild"
    /\ UNCHANGED <<fileVars, total, cacheVars, valid, estVars, bitVars, ghostVars>>

-----------------------------------------------------------------------------
(* The symbols of a packet.                                                *)

\* get_second_symbol: its first bit is known.
SecondSymbol ==
    /\ pc = "second"
    /\ GetBit
    /\ \E agree \in BOOLEAN : valid' = (valid /\ ~Full /\ agree)
    /\ sym' = 2
    /\ pc' = IF valid' THEN "first" ELSE "next"
    /\ UNCHANGED symStart

\* get_symbol: valid_pkt is not looked at between its two bits.
FirstBit ==
    /\ pc = "first"
    /\ GetBit
    /\ valid' = (valid /\ ~Full)
    /\ symStart' = bit_start
    /\ pc' = "last"
    /\ UNCHANGED sym

\* After the last symbol validate_packet sets valid_pkt.
SecondBit ==
    /\ pc = "last"
    /\ GetBit
    /\ \E agree \in BOOLEAN : valid' = (valid /\ ~Full /\ agree)
    /\ sym' = sym + 1
    /\ pc' = IF ~valid' THEN "next"
             ELSE IF sym' < Symbols THEN "first" ELSE "found"
    /\ UNCHANGED symStart

Next ==
    \/ Open \/ NoPrelude \/ BadPrelude \/ PreludeAtEnd \/ GoodPrelude
    \/ Try \/ Retry \/ GiveUp
    \/ BitLost \/ Overrun \/ SecondSymbol \/ FirstBit \/ SecondBit

\* One thread of one process: the analysis of an opened file runs on.
Fairness == WF_vars(pc \notin Ended /\ Next)

Spec == Init /\ [][Next]_vars /\ Fairness

-----------------------------------------------------------------------------
(* Properties.                                                             *)

\* In the first attempt at a prelude every bit is read from the sample it was
\* asked to start at, as long as the file lasts.
FirstAttemptInPlace == turn = 0 /\ ~torn => skew = 0

\* What get_bit reports at analyze_tpms2.c:512, "Starting to acquire bit between
\* samples %lu and apx %lu", for every attempt.
BitInPlace == ~torn => skew = 0

\* At least one bit of the current attempt, or of an earlier one at the same
\* prelude, has gone through the cache.
CacheInUse == pc \in Reading \cup {"next", "found"} /\ rd

\* While a packet is being read the cache holds the samples that follow the
\* prelude, all that were read and without a gap, until a sample is written past
\* its end.  Two cases have no such cache, and read what an earlier prelude left
\* in it: an estimate that the first attempt refused, and a file that ends with
\* the prelude.
CacheMirrorsFile ==
    CacheInUse /\ orig <= MaxSps /\ base < end =>
        /\ total = base + Len(cache)
        /\ \A i \in 1..Len(cache) : cache[i] = base + i

\* A first attempt never fills the cache, so it never fails for want of room.
FirstAttemptFits == CacheInUse /\ turn = 0 /\ base < end => Len(cache) < CacheSize

\* The search goes wrong in two places only.  A sample that is not there is used
\* only at the very end of a file (analyze_tpms2.c:245, 514), never because the
\* cache was full; and a sample is written past symbol_cache (line 722) only by a
\* retry, with the cache full and the file not at its end.
BreaksOnlyAtEndOrFull ==
    /\ pc = "dead" => total = end
    /\ pc = "wild" => turn > 0 /\ Len(cache) = CacheSize /\ total < end

\* The analysis of a file comes to an end, with a packet or without, by the death
\* of the process or with a write past the cache.
AnalysisEnds == pc \notin Ended ~> pc \in Ended

=============================================================================
