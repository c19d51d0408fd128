------------------------- MODULE NativeCaptureProofs -------------------------
(***************************************************************************)
(* What holds of rtlsdr_main for every block size and every request that   *)
(* is not a whole number of blocks.                                        *)
(***************************************************************************)
EXTENDS NativeCapture, TLAPS

\* In the loop the file position is a whole number of blocks and, with what is
\* still to be read, makes up the request; so bytes_to_read is never 0 there.
\* Before the loop ends do_exit is set by a signal only.
LoopInv ==
    /\ pc \in {"open", "configure", "file"} => toRead = Request
    /\ pc \in {"loop", "read"} =>
         /\ pos + toRead = Request
         /\ \E k \in 0..Request : pos = k * Block
    /\ pc \in {"loop", "read", "end"} => size <= Request
    /\ (pc \in {"open", "configure", "file", "loop", "read"} /\ doExit) => disturbed
    /\ (pc = "end" /\ ~disturbed) => pos = Request

IInv == TypeOK /\ LoopInv

LEMMA NextBlock ==
  ASSUME NEW k \in 0..Request, k * Block + Block <= Request
  PROVE  /\ k + 1 \in 0..Request
         /\ (k + 1) * Block = k * Block + Block
  BY CaptureAssumption

LEMMA InitIInv == Init => IInv
  <1> SUFFICES ASSUME Init PROVE IInv
    OBVIOUS
  <1>1. TypeOK
    <2>1. /\ wanted \in BOOLEAN /\ adjust \in BOOLEAN
          /\ doExit \in BOOLEAN /\ armed \in BOOLEAN /\ device \in BOOLEAN
          /\ restarts \in BOOLEAN /\ over \in BOOLEAN /\ disturbed \in BOOLEAN
      BY Zenon DEF Init
    <2> QED
      BY <2>1, CaptureAssumption DEF Init, TypeOK
  <1>2. LoopInv
    BY DEF Init, LoopInv
  <1> QED
    BY <1>1, <1>2 DEF IInv

\* In the loop there is always something left to read.
LEMMA NeverUnlimited ==
  ASSUME IInv, pc \in {"loop", "read"}
  PROVE  toRead > 0
  BY CaptureAssumption DEF IInv, TypeOK, LoopInv

LEMMA StoreIInv ==
  ASSUME IInv, Store
  PROVE  IInv'
  <1> USE CaptureAssumption
  <1>1. PICK n \in 0..Block, pegged \in BOOLEAN :
          /\ Write(Cut(n))
          /\ doExit' = (doExit \/ Cut(n) < n)
          /\ toRead' = IF Cut(n) < Block THEN toRead ELSE Remaining(Cut(n))
          /\ pc' = IF Cut(n) < Block THEN "end" ELSE "loop"
          /\ over' = (over \/ pegged)
          /\ disturbed' = (disturbed \/ n < Block)
    BY DEF Store
  <1>2. pc = "read"
    BY DEF Store
  <1>3. toRead > 0
    BY <1>2, NeverUnlimited
  <1>4. /\ toRead \in 0..Request /\ pos \in Nat /\ size \in Nat
        /\ size <= Request /\ pos <= size
        /\ pos + toRead = Request
    BY <1>2 DEF IInv, TypeOK, LoopInv
  <1>5. CASE toRead < n
    <2>1. Cut(n) = toRead
      BY <1>3, <1>5 DEF Cut
    <2>2. pos' = Request /\ size' = Request /\ toRead' = toRead /\ pc' = "end"
      BY <1>1, <1>4, <1>5, <2>1 DEF Write
    <2>3. TypeOK'
      <3>1. /\ doExit' \in BOOLEAN /\ over' \in BOOLEAN /\ disturbed' \in BOOLEAN
        BY <1>1 DEF IInv, TypeOK
      <3> QED
        BY <2>2, <1>4, <3>1 DEF IInv, TypeOK, Store
    <2> QED
      BY <2>2, <2>3 DEF IInv, LoopInv
  <1>6. CASE n <= toRead
    <2>1. Cut(n) = n
      BY <1>3, <1>4, <1>6 DEF Cut
    <2>2. pos' = pos + n /\ size' \in Nat /\ pos' <= size' /\ size' <= Request
      BY <1>1, <1>4, <1>6, <2>1 DEF Write
    <2>3. toRead' \in 0..Request
      BY <1>1, <1>3, <1>4, <1>6, <2>1 DEF Remaining
    <2>4. TypeOK'
      <3>1. /\ doExit' \in BOOLEAN /\ over' \in BOOLEAN /\ disturbed' \in BOOLEAN
        BY <1>1 DEF IInv, TypeOK
      <3> QED
        BY <1>1, <2>2, <2>3, <3>1 DEF IInv, TypeOK, Store
    <2>5. CASE n < Block
      <3>1. pc' = "end" /\ disturbed'
        BY <1>1, <2>1, <2>5
      <3> QED
        BY <3>1, <2>2, <2>4 DEF IInv, LoopInv
    <2>6. CASE n = Block
      <3>1. pc' = "loop" /\ toRead' = toRead - Block /\ pos' = pos + Block
        BY <1>1, <1>3, <1>4, <2>1, <2>2, <2>6 DEF Remaining
      <3>2. \E k \in 0..Request : pos' = k * Block
        <4>1. PICK k \in 0..Request : pos = k * Block
          BY <1>2 DEF IInv, LoopInv
        <4> QED
          BY <1>4, <1>6, <2>6, <3>1, <4>1, NextBlock
      <3>3. doExit' => disturbed'
        <4>1. ~(Cut(n) < n)
          BY <2>1
        <4>2. doExit => disturbed
          BY <1>2 DEF IInv, LoopInv
        <4> QED
          BY <1>1, <4>1, <4>2, Zenon
      <3>4. pos' + toRead' = Request
        BY <1>4, <3>1
      <3>5. LoopInv'
        BY <2>2, <3>1, <3>2, <3>3, <3>4 DEF LoopInv
      <3> QED
        BY <2>4, <3>5 DEF IInv
    <2> QED
      BY <2>5, <2>6
  <1> QED
    BY <1>4, <1>5, <1>6

LEMMA ShortWriteIInv ==
  ASSUME IInv, ShortWrite
  PROVE  IInv'
  <1> USE CaptureAssumption
  <1>1. PICK w \in 0..(Cut(Block) - 1) :
          Write(w) /\ doExit' = (doExit \/ Cut(Block) < Block)
    BY DEF ShortWrite
  <1>2. pc = "read"
    BY DEF ShortWrite
  <1>3. /\ toRead \in 0..Request /\ pos \in Nat /\ size \in Nat
        /\ size <= Request /\ pos <= size
        /\ pos + toRead = Request
    BY <1>2 DEF IInv, TypeOK, LoopInv
  <1>4. Cut(Block) \in Nat /\ Cut(Block) <= toRead
    BY <1>2, <1>3, NeverUnlimited DEF Cut
  <1>5. pos' \in Nat /\ size' \in Nat /\ pos' <= size' /\ size' <= Request
    BY <1>1, <1>3, <1>4 DEF Write
  <1>6. doExit' \in BOOLEAN
    BY <1>1 DEF IInv, TypeOK
  <1>7. TypeOK'
    BY <1>5, <1>6 DEF IInv, TypeOK, ShortWrite
  <1> QED
    BY <1>5, <1>7 DEF IInv, LoopInv, ShortWrite

LEMMA RestartIInv ==
  ASSUME IInv, Restart
  PROVE  IInv'
  <1>1. pos' = 0 /\ toRead' = Request /\ pc' = "loop" /\ pc = "read"
    BY DEF Restart, Rewind
  <1>2. 0 \in 0..Request /\ 0 = 0 * Block
    BY CaptureAssumption
  <1>3. TypeOK'
    BY <1>1, CaptureAssumption DEF IInv, TypeOK, Restart
  <1> QED
    BY <1>1, <1>2, <1>3, CaptureAssumption DEF IInv, TypeOK, LoopInv, Restart

\* The steps before the loop, and those that leave file and count alone.
LEMMA OtherIInv ==
  ASSUME IInv,
         \/ Enter \/ BadDescriptor \/ Prepare \/ OpenDevice \/ OpenDeviceFails
         \/ Configure \/ NotEnoughPower \/ OpenFile \/ OpenFileFails
         \/ LoopTest \/ ReadFails \/ Finish \/ Signal
  PROVE  IInv'
  <1> USE CaptureAssumption DEF IInv
  <1>1. CASE Enter
    BY <1>1 DEF Enter, TypeOK, LoopInv
  <1>2. CASE BadDescriptor \/ OpenDeviceFails \/ NotEnoughPower \/ OpenFileFails
    BY <1>2 DEF BadDescriptor, OpenDeviceFails, NotEnoughPower, OpenFileFails,
                Return, TypeOK, LoopInv
  <1>3. CASE Prepare
    <2>1. adjust' \in BOOLEAN
      BY <1>3 DEF Prepare, ParseFlag
    <2>2. armed' \in BOOLEAN /\ device' \in BOOLEAN /\ doExit' \in BOOLEAN
          /\ disturbed' \in BOOLEAN
      BY <1>3, Zenon DEF Prepare
    <2> QED
      BY <1>3, <2>1, <2>2 DEF Prepare, TypeOK, LoopInv
  <1>4. CASE OpenDevice \/ Configure
    <2>1. device' \in BOOLEAN
      BY <1>4, Zenon DEF OpenDevice, Configure, TypeOK
    <2> QED
      BY <1>4, <2>1 DEF OpenDevice, Configure, TypeOK, LoopInv
  <1>5. CASE OpenFile
    <2>1. pos' = 0 /\ size' = 0 /\ toRead' = Request
      BY <1>5 DEF OpenFile, LoopInv
    <2>2. 0 \in 0..Request /\ 0 = 0 * Block
      OBVIOUS
    <2>3. restarts' \in BOOLEAN /\ over' \in BOOLEAN
      BY <1>5, Zenon DEF OpenFile
    <2>4. TypeOK'
      BY <1>5, <2>1, <2>3 DEF OpenFile, TypeOK
    <2> QED
      BY <1>5, <2>1, <2>2, <2>4 DEF OpenFile, LoopInv
  <1>6. CASE LoopTest
    BY <1>6 DEF LoopTest, TypeOK, LoopInv
  <1>7. CASE ReadFails
    BY <1>7 DEF ReadFails, TypeOK, LoopInv
  <1>8. CASE Finish
    <2>1. device' \in BOOLEAN
      BY <1>8, Zenon DEF Finish
    <2> QED
      BY <1>8, <2>1 DEF Finish, Return, TypeOK, LoopInv
  <1>9. CASE Signal
    BY <1>9 DEF Signal, TypeOK, LoopInv
  <1> QED
    BY <1>1, <1>2, <1>3, <1>4, <1>5, <1>6, <1>7, <1>8, <1>9

LEMMA NextIInv == IInv /\ [Next]_vars => IInv'
  <1> SUFFICES ASSUME IInv, [Next]_vars PROVE IInv'
    OBVIOUS
  <1>1. CASE Next
    BY <1>1, StoreIInv, ShortWriteIInv, RestartIInv, OtherIInv DEF Next, Main
  <1>2. CASE UNCHANGED vars
    BY <1>2 DEF vars, IInv, TypeOK, LoopInv
  <1> QED
    BY <1>1, <1>2

\* Type correctness of rtlsdr_main's state: bytes_to_read, unsigned in the code,
\* never goes below 0 and never above the request.
THEOREM TypeCorrect == Spec => []TypeOK
  <1>1. IInv => TypeOK
    BY DEF IInv
  <1> QED
    BY InitIInv, NextIInv, <1>1, PTL DEF Spec

\* No restart, signal or short read lets the file grow past the request.
THEOREM CaptureNeverTooLong == Spec => []NeverTooLong
  <1>1. IInv => NeverTooLong
    BY DEF IInv, LoopInv, NeverTooLong
  <1> QED
    BY InitIInv, NextIInv, <1>1, PTL DEF Spec

\* A capture that nothing disturbed is whole and of one gain setting.
THEOREM UndisturbedCaptureWhole == Spec => []UndisturbedIsWhole
  <1>1. IInv => UndisturbedIsWhole
    BY CaptureAssumption DEF IInv, TypeOK, LoopInv, UndisturbedIsWhole
  <1> QED
    BY InitIInv, NextIInv, <1>1, PTL DEF Spec
=============================================================================
