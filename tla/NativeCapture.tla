---------------------------- MODULE NativeCapture ----------------------------
(***************************************************************************)
(* rtlsdr_main: one capture of the radio into a file, in native code.      *)
(*                                                                         *)
(* The caller hands over command line text; the function parses it, opens  *)
(* and configures the radio, opens the file and copies blocks of Block     *)
(* bytes until bytes_to_read are written.  A signal handler may ask it to  *)
(* stop at any moment.  bytes_to_read counts down, and 0 means "no limit". *)
(*                                                                         *)
(* The tuner is in automatic mode and its gain reads 0, because no caller  *)
(* passes -g; so rtlsdr_decrease_gain never finds a lower step: it returns *)
(* the lowest gain of the tuner, which is compared with the current one,   *)
(* and the capture restarts when the two differ.                           *)
(***************************************************************************)
EXTENDS Naturals

CONSTANTS Block,        \* out_block_size
          Request,      \* bytes the option -n asks for
          ZeroGain,     \* gains[0] of the tuner is 0 (R82xx), not below (E4000)
          Callers,      \* who writes the command line: "service", "native"
          MaxRuns       \* bound: captures explored

\* No entry of secssendArray (0.25 to 5.0 s at 2048000 samples/s) asks for a
\* whole number of blocks; a request that did would count down to "no limit".
ASSUME CaptureAssumption ==
    /\ Block \in Nat \ {0}
    /\ Request \in Nat
    /\ \A k \in 0..Request : k * Block # Request
    /\ ZeroGain \in BOOLEAN
    /\ Callers \subseteq {"service", "native"}
    /\ MaxRuns \in Nat \ {0}

VARIABLES pc,           \* where rtlsdr_main is
          runs,         \* calls so far
          wanted,       \* the preference gain_adjust of this call
          adjust,       \* autoreduce_gain
          toRead,       \* bytes_to_read
          doExit,       \* do_exit
          armed,        \* the signal handlers are installed
          device,       \* dev is open
          pos,          \* position in the file: bytes since the last rewind
          size,         \* length of the file
          restarts,     \* the capture was restarted with another gain
          over,         \* the file holds a block that was out of range
          disturbed,    \* a read failed or was short, a write failed, a signal came
          code          \* the exit code announced last

vars == <<pc, runs, wanted, adjust, toRead, doExit, armed, device, pos, size,
          restarts, over, disturbed, code>>

TypeOK ==
    /\ pc \in {"idle", "init", "open", "configure", "file", "loop", "read", "end"}
    /\ runs \in 0..MaxRuns
    /\ wanted \in BOOLEAN /\ adjust \in BOOLEAN
    /\ toRead \in 0..Request
    /\ doExit \in BOOLEAN /\ armed \in BOOLEAN /\ device \in BOOLEAN
    /\ pos \in Nat /\ size \in Nat /\ pos <= size
    /\ restarts \in BOOLEAN /\ over \in BOOLEAN /\ disturbed \in BOOLEAN
    /\ code \in {"none", "ok", "fd", "open", "power", "file"}

Init ==
    /\ pc = "idle" /\ runs = 0
    /\ wanted = FALSE /\ adjust = FALSE
    /\ toRead = 0 /\ doExit = FALSE /\ armed = FALSE
    /\ device = FALSE
    /\ pos = 0 /\ size = 0
    /\ restarts = FALSE /\ over = FALSE /\ disturbed = FALSE
    /\ code = "none"

-----------------------------------------------------------------------------
(* The command line.                                                       *)

\* onOptionsItemSelected writes the preference into the URI.
UriFlag(pref) == IF pref THEN "1" ELSE "0"

\* Uri.getBooleanQueryParameter: everything but "false" and "0" is true.
GetBooleanQueryParameter(text) == text \notin {"false", "0"}

\* The service appends the boolean to the argument string.
Flag(caller, pref) ==
    CASE caller = "service" -> IF GetBooleanQueryParameter(UriFlag(pref))
                               THEN "true" ELSE "false"
      [] caller = "native" -> UriFlag(pref)

\* case 'q' of the getopt loop: strcmp(optarg, "1").
ParseFlag(text) == text = "1"

-----------------------------------------------------------------------------
(* rtlsdr_main.                                                            *)

\* is_running is set and the descriptor looked at.
Enter ==
    /\ pc = "idle" /\ runs < MaxRuns
    /\ runs' = runs + 1
    /\ wanted' \in BOOLEAN
    /\ pc' = "init"
    /\ UNCHANGED <<adjust, toRead, doExit, armed, device, pos, size, restarts,
                   over, disturbed, code>>

\* Announce an exit code and return.
Return(c) ==
    /\ code' = c
    /\ pc' = "idle"

BadDescriptor ==
    /\ pc = "init"
    /\ Return("fd")
    /\ UNCHANGED <<runs, wanted, adjust, toRead, doExit, armed, device, pos,
                   size, restarts, over, disturbed>>

\* init_all_variables, the getopt loop and the signal handlers.  dev is set to
\* NULL whatever it was, and a stop asked for before this point is forgotten.
Prepare ==
    /\ pc = "init"
    /\ \E caller \in Callers : adjust' = ParseFlag(Flag(caller, wanted))
    /\ toRead' = Request
    /\ doExit' = FALSE
    /\ armed' = TRUE
    /\ device' = FALSE
    /\ disturbed' = FALSE
    /\ pc' = "open"
    /\ UNCHANGED <<runs, wanted, pos, size, restarts, over, code>>

OpenDevice ==
    /\ pc = "open"
    /\ device' = TRUE
    /\ pc' = "configure"
    /\ UNCHANGED <<runs, wanted, adjust, toRead, doExit, armed, pos, size,
                   restarts, over, disturbed, code>>

OpenDeviceFails ==
    /\ pc = "open"
    /\ Return("open")
    /\ UNCHANGED <<runs, wanted, adjust, toRead, doExit, armed, device, pos,
                   size, restarts, over, disturbed>>

\* Sample rate, frequency, gain mode; only the sample rate may fail the call,
\* and it leaves the device open.
Configure ==
    /\ pc = "configure"
    /\ pc' = "file"
    /\ UNCHANGED <<runs, wanted, adjust, toRead, doExit, armed, device, pos,
                   size, restarts, over, disturbed, code>>

NotEnoughPower ==
    /\ pc = "configure"
    /\ Return("power")
    /\ UNCHANGED <<runs, wanted, adjust, toRead, doExit, armed, device, pos,
                   size, restarts, over, disturbed>>

\* fopen "wb" truncates.
OpenFile ==
    /\ pc = "file"
    /\ pos' = 0 /\ size' = 0
    /\ restarts' = FALSE /\ over' = FALSE
    /\ pc' = "loop"
    /\ UNCHANGED <<runs, wanted, adjust, toRead, doExit, armed, device,
                   disturbed, code>>

OpenFileFails ==
    /\ pc = "file"
    /\ Return("file")
    /\ UNCHANGED <<runs, wanted, adjust, toRead, doExit, armed, device, pos,
                   size, restarts, over, disturbed>>

\* Mutant: the last block is written as it was read.
CutNothing(n) == n

\* n_read is cut to bytes_to_read when less than a block is left.
Cut(n) == IF toRead > 0 /\ toRead < n THEN toRead ELSE n

\* The file after n bytes were written at pos.
Write(n) ==
    /\ pos' = pos + n
    /\ size' = IF pos + n > size THEN pos + n ELSE size

\* bytes_to_read after n bytes were written.
Remaining(n) == IF toRead > 0 THEN toRead - n ELSE 0

\* The loop condition; a stop that comes during the read is seen only here.
LoopTest ==
    /\ pc = "loop"
    /\ pc' = IF doExit THEN "end" ELSE "read"
    /\ UNCHANGED <<runs, wanted, adjust, toRead, doExit, armed, device, pos,
                   size, restarts, over, disturbed, code>>

\* Mutant: the loop goes on after an error of the radio.
ReadFailsContinues ==
    /\ pc = "read"
    /\ disturbed' = TRUE
    /\ pc' = "loop"
    /\ UNCHANGED <<runs, wanted, adjust, toRead, doExit, armed, device, pos,
                   size, restarts, over, code>>

\* rtlsdr_read_sync returned an error: the loop is left.
ReadFails ==
    /\ pc = "read"
    /\ disturbed' = TRUE
    /\ pc' = "end"
    /\ UNCHANGED <<runs, wanted, adjust, toRead, doExit, armed, device, pos,
                   size, restarts, over, code>>

\* Mutant: the file is rewound and bytes_to_read left as it is.
RewindOnly == pos' = 0 /\ UNCHANGED toRead

\* The capture starts over: rewind without truncating.
Rewind == pos' = 0 /\ toRead' = Request

\* A block out of range, and the gain returned differs from the current one.
Restart ==
    /\ pc = "read"
    /\ adjust /\ ~ZeroGain
    /\ Rewind
    /\ restarts' = TRUE
    /\ pc' = "loop"
    /\ UNCHANGED <<runs, wanted, adjust, doExit, armed, device, size, over,
                   disturbed, code>>

\* A block (n bytes of it, out of range or not) goes to the file.  A short read
\* or the last block ends the loop.
Store ==
    /\ pc = "read"
    /\ \E n \in 0..Block, pegged \in BOOLEAN :
        /\ ~(pegged /\ adjust /\ ~ZeroGain)
        /\ LET take == Cut(n)
           IN  /\ Write(take)
               /\ doExit' = (doExit \/ take < n)
               /\ toRead' = IF take < Block THEN toRead ELSE Remaining(take)
               /\ pc' = IF take < Block THEN "end" ELSE "loop"
        /\ over' = (over \/ pegged)
        /\ disturbed' = (disturbed \/ n < Block)
    /\ UNCHANGED <<runs, wanted, adjust, armed, device, restarts, code>>

\* fwrite stores less than it was given.
ShortWrite ==
    /\ pc = "read"
    /\ \E w \in 0..(Cut(Block) - 1) :
        /\ Write(w)
        /\ doExit' = (doExit \/ Cut(Block) < Block)
    /\ disturbed' = TRUE
    /\ pc' = "end"
    /\ UNCHANGED <<runs, wanted, adjust, toRead, armed, device, restarts, over,
                   code>>

\* File and device are closed; EXIT_OK, however the loop ended.
Finish ==
    /\ pc = "end"
    /\ device' = FALSE
    /\ Return("ok")
    /\ UNCHANGED <<runs, wanted, adjust, toRead, doExit, armed, pos, size,
                   restarts, over, disturbed>>

\* sighandler, on another thread's time.
Signal ==
    /\ armed /\ ~doExit /\ pc # "idle"
    /\ doExit' = TRUE
    /\ disturbed' = TRUE
    /\ UNCHANGED <<pc, runs, wanted, adjust, toRead, armed, device, pos, size,
                   restarts, over, code>>

Main == \/ BadDescriptor \/ Prepare \/ OpenDevice \/ OpenDeviceFails
        \/ Configure \/ NotEnoughPower \/ OpenFile \/ OpenFileFails
        \/ LoopTest \/ ReadFails \/ Restart \/ Store \/ ShortWrite \/ Finish

Next == Enter \/ Main \/ Signal

\* The native thread runs, and the radio answers every bulk read.
Spec == Init /\ [][Next]_vars /\ WF_vars(Main)

-----------------------------------------------------------------------------
(* Properties.                                                             *)

\* The file never grows past what was asked for, through restarts, signals and
\* short reads.
NeverTooLong == pc \in {"loop", "read", "end"} => size <= Request

\* A capture nothing disturbed is exactly as long as asked for and holds the
\* data of one gain setting only, although a restart rewinds the file without
\* truncating it.
UndisturbedIsWhole ==
    (pc = "end" /\ ~disturbed) => size = Request /\ pos = size

\* Every call returns: the count of bytes never passes through the 0 that means
\* "no limit" while the loop runs, and an error of the radio leaves the loop.
\* The exception is a gain that can still be lowered: the radio may then be out
\* of range for ever, and each such block starts the capture over.
CaptureEnds == (pc # "idle" /\ ~(adjust /\ ~ZeroGain)) ~> (pc = "idle" \/ (adjust /\ ~ZeroGain))

\* strings_settings.xml on the preference: "Reduce SDR gain and restart signal
\* collection if signal appears to be exceeding measurable dynamic range."
GainIsReduced == (pc = "end" /\ wanted /\ over) => restarts
=============================================================================
