# A verification project for fc-tpms

fc-tpms reads tyre pressure sensors. A phone with a USB radio records a few
seconds of raw signal, decodes it itself or uploads it to a base station, which
decodes it and answers with the sensor's address, temperature and pressure; the
phone then reports the sample to a web site. This directory holds TLA+ models of
the parts of that path where several actors, failures and retries meet, TLC
configurations that check them, and TLAPS proofs of the results that matter most.

Notation for paths: `J/` is
`src/android/remote_tpms/app/src/main/java/com/fleetcents/remote_tpms/fleetcentstpmsremoteclient/`,
`N/` is `src/android/remote_tpms/app/src/main/jni/rtl_tcp_android/`.

## 1. Inventory

| Component | State it keeps | Operations | Talks to |
|---|---|---|---|
| Reading screen, `J/LogActivity.java` | static `activity`; per object `running`, `abort_requested`, `mi_startStop`; error boxes | `onCreate`, `onCreateOptionsMenu`, `onOptionsItemSelected`, `errorModalBox`, `finishWithError`, `FeedbackReceiver.onReceive` | starts `SdrFtpService` with an intent; hears its local broadcasts |
| Service, `J/SdrFtpService.java` | `activity` (copied from the static), `resp`, locals of `onHandleIntent` | `onHandleIntent`, `feedback` | USB helper, native capture, FTP client, decoder, web site |
| USB helper, `J/UsbHelper.java` | none | `findDevice`, `openDevice` (polls for the permission) | Android USB manager |
| Native capture, `N/rtl_sdr_andro.c`, `N/RtlSdr.c` | `dev`, `do_exit`, `bytes_to_read`, `autoreduce_gain`, `is_running` | `rtlsdr_main`, `sighandler`, `init_all_variables`, `rtlsdr_decrease_gain` | radio, file `fc.bin`, Java (`announce_exceptioncode`) |
| `J/RtlSdr.java` start/stop, `N/librtlsdr_andro.c` | listeners, exit code, wait object | `start`, `stop`, `onclose` | native capture; no caller in this application |
| Base station, `src/server/postlogin.c` over vsftpd 3.0.3 | per process: PORT address, restart position; shared: the upload directory | `handle_port`, `handle_upload_common`, `get_unique_filename`, clean-up | FTP client; decoder |
| Decoder, `src/other/analyze_tpms2.c` | static sample cache, symbols, frequencies | `analyze_file`, `get_packet`, `get_bit`, `get_next_sample`, getters | capture file |
| Older decoders and tools, `src/other/` | - | stand-alone programs | - |
| API client, `J/FcQueryService.java`, `J/LoginActivity.java` | static token; Volley's request queue | `callToServer`, `loginToServer`, `logoutOfServer`, listeners | web site; lists (broadcasts) |
| Main screen, log-in form, fleet/vehicle/tyre lists | `serviceCallHandled`, registrations, rows, `mAuthTask`, static `credsProvided` | `onResume`, `onPause`, `handleServerResponse`, `attemptLogin`, `user_logout` | API client |
| Settings, crash reports | preferences | - | - |
| Web site, `src/website/` | samples, sensors, tyres, vehicles, users, tokens | REST controllers, validations, soft deletion | database |
| Older application, `src/android/generic_tpms` | as the reading screen | superseded | - |

Vendored: liquid-dsp, libusb, rtl-sdr, vsftpd (but for the files above), the
web site's assets.

What makes each part correct, and what is hard about it:

* **Reading screen and service.** UI thread, worker thread and user interleave
  freely; the abort flag is polled and never stops the worker; broadcasts outlive
  the activity they were meant for; receivers are never unregistered. Correct
  means: a sample belongs to the press it is reported for; the button comes back;
  the process does not die.
* **Upload.** The retry reuses a half-consumed stream and a control connection
  with an unread reply; the server analyses truncated files too; two processes
  share a directory without locks. Correct means: what the phone takes for a
  reading is the analysis of its whole capture; files are never mixed, never
  deleted by another's clean-up; the upload ends, but for a line lost without notice.
* **Native capture.** A countdown in which 0 means "no limit", a restart that
  rewinds without truncating, a stop that comes at any moment. Correct means: the
  file has the length asked for, and the call returns.
* **Decoder.** Attempts that go back over a sample cache of fixed size.
  Correct means: an attempt sees the samples of the file in order.
* **API client and its screens.** One static token that three threads write, a
  blocking log-in with a time limit, headers read when a request is sent, answers
  that arrive when the list that asked is paused or gone. Correct means: the token
  the phone holds is one the site accepts; nobody waits for ever; a list that asked
  shows its rows.
* **Web site.** Check-then-insert uniqueness without an index, rows found before
  they are written, a deletion that validates, a forward that can fail after the
  insert. Correct means: one sample per sensor and time; the answer says what
  became of the sample; the colour shown is justified by the samples.

`PROJECT.json` lists the hazards at their lines, with the property that covers
each or a note saying why none does.

## 2. Modules

### ReadingSession

The UI thread, the worker of `SdrFtpService` and the user. One action per handler
of `LogActivity` and one per stretch of `onHandleIntent` between two points where
another thread's write can be seen: the abort checks, the broadcasts, the native
call and the network calls. `pc` names the stretch.

* A press of start is a *job*. `fc.bin` is abstracted to the job whose capture
  wrote it (`by`) and the number of presses made when that capture began (`gen`).
  This is what tells a fresh capture from a stale one.
* Activity objects are numbered; `created` is the static field. Broadcasts
  remember how many receivers were registered when they were sent (`upTo`),
  because `LocalBroadcastManager` collects its receivers at that moment.
  `mail` is a set: the looper drains everything pending in one turn, completions
  are idempotent and each failure opens one box per receiver.
* `Crash(cause)` is the end of the process: the client used after an abort
  disconnected it (`"ftp"`), an error box without a window (`"window"`), a broadcast
  before the menu exists (`"menu"`), or the decoder, which runs in the application's
  own process when it decodes itself (`"decoder"`, `DecoderDies`; where in a capture
  that happens is PacketReader's subject). What survives is the file, the samples
  sent and the count of jobs.
* `testing` is the constant `false` of `LogActivity.java:64`, so the branch
  `SdrFtpService.java:130-143` is not modelled.
* The upload appears here only as succeeding, throwing or giving up; its detail is
  FtpUpload. The decoder is a choice between a packet, none and a death.

### FtpUpload

The upload loop of the service around commons-net's `storeUniqueFile`, the
vsftpd process of each phone, and the shared upload directory. The control
connection is two FIFO queues, so a reply belongs to a command only by its place.
The data connection carries numbered pieces of a capture, and a file is the
sequence of pieces written. Server actions follow `handle_upload_common`: stat
and create are separate steps because nothing is held between them. Faults, each
switched by `Faults`: a copy that throws, a lost control connection, a full disk,
a data timeout. The decoder runs inside the vsftpd process and may end it before
the 226 (`Analyse`). commons-net and the network are modelled from how the service
uses them and are marked external in the map.

### NativeCapture

`rtlsdr_main`: parsing of the gain option as the three writers and readers of it
do it, opening, configuring, the copy loop block by block, restart with another
gain, the signal handler. Sizes are integers with `Block` and `Request` as
parameters. Callers: `"service"` is the command line `SdrFtpService` writes,
`"native"` the one `rtlsdr_main` documents and the restart code expects
(`-q 1`). The tuner's gain reads 0 because no caller passes `-g`; whether its
lowest gain is 0 as well depends on the tuner chip (`ZeroGain`).

### UploadPromise

What an upload promises without the FTP dialogue: at most one answer per phone, and
`"reading"` only for a capture that lies whole at the base station, which then
keeps it. FtpUpload instantiates it (`Promise`), mapping a phone's outcome to its
answer and the files in the directory to `kept`; `KeepsPromise` is the whole abstract
specification. It does not promise that an answer comes: that is `UploadEnds`, with
its exception.

### PacketReader

The decoder's search (`get_packet` of `src/other/analyze_tpms2.c`): look for a
prelude, estimate the samples per symbol, try to read a packet, try the estimates
within 5% over the same samples. A sample is its number; `cache` is
`symbol_cache` up to `cache_count`, `base` is `cache_loc_in_file`, `turn` counts
the attempts. One action per attempt and per bit (`get_bit`), because `cache_loc`
is recomputed at each bit. What the samples say is left open: where a bit ends,
whether the two halves of a symbol agree, whether the packet validates. The
reading of a bit's buffer, one sample at a time in the code, is one computation
here (`Got`, `Read`, `Reached`), with the end of the file and the full cache as
its early ends. Two history variables: `torn` (a buffer of this attempt was cut
short) and `skew` (how far from `bit_start` the last bit was read).

Two things break the search. `"dead"` is a NULL sample that is used (`PreludeAtEnd`,
`BitLost`). `"wild"` is a sample written past `symbol_cache`: the code stores before it
looks at the size, so an attempt that reads on after the cache was full (`Overruns`)
writes behind the array. What follows is undefined, so the state is terminal and stands for every
outcome; nothing in the model relies on what happens after it.

### ApiSession

`FcQueryService` and the static token, with the three threads that use it: the
worker of the IntentService (`worker`, `intents`), the serial executor of the
log-in and log-out tasks (`task`, `tasks`), and the main thread with the listeners.
A request is a record in one of `MaxReqs` slots; it passes through queued, sent,
answered or failed. The slots are the model's, so a new request takes any free one
(`FreeSlot`). What Volley does is modelled from how the service uses it and
marked external: it reads the headers at dispatch, tries a request a second time
after a time-out or a refusal, and holds a request back while another of its URL
is under way. `callToServer` is three steps, because the main thread can clear the
token between the check, the log-in and the query. The site is `live`, the set of
tokens it accepts. Tokens are numbered; a number that the phone no longer holds
anywhere is used again, which keeps the model finite without bounding the
log-ins.

The future of a log-in is not the error listener of its request, so a log-in that
fails never wakes the thread that waits for it: `Told` with 0 ends the
waiting for the request and leaves the waiting for the clock.

### FleetScreens

Composes ApiSession with the screens: the main screen, the log-in form and the
three lists. A list is a record with its registrations and the number of
times it has added an answer's rows. A change of screens is two steps, pause and
resume, with answers in between. `UserLogout` includes `recreate`: the new main
screen is resumed like any other and looks at the token again. `DeliverLogoutDies` is the answer to a log-out reaching a
service object that was never attached to a context, with no broadcast manager
made before: an uncaught exception on the main thread.

### TireSamples

The table `tire_samples`, the processes that serve its requests, and the pure
functions from the table to a colour on the phone (`TireSerializer`,
`TireColorizer.getColor`). A request finds its row (update, destroy), validates,
writes, and for the site's own `create` forwards the sample to another site; every
one of these is a step, because other processes commit in between. Validation reads one
snapshot of the database, as MySQL's repeatable read gives it to the transaction
around it. A write sets only the columns that differ from the row as found
(`Merged`). The stamps `seen` and `wrote` and the flag `torn` are history. Pressures are
in tenths of a psi, so that 110% and 90% of a nominal pressure are integers; a
nullable column is a set of at most one element, on which `compact.min` and `||`
read as in the code. The nominal pressure is a number: its column defaults to 0, and
were it null, with no threshold of the tyre or its type, the serializer would raise and
the phone get no list, hence no colour. The attributes that are validated on their own are represented by
the pressure and its limit; permissions are left out.

### The modules of proofs

`ReadingSessionProofs`, `NativeCaptureProofs`, `PacketReaderProofs` and
`TireSamplesProofs` each hold the invariant and the theorems of one module.
FtpUpload takes two: `FtpUploadDialogue` has the parts of the invariant and the
proof of those about types and the control connection, `FtpUploadProofs` the
rest and the theorems. `ApiSessionProofs` has the invariant of the session and
lemmas about each action of ApiSession, `FleetScreensProofs` the theorems about the
composition. Section 5 follows their arguments.

## 3. Runs

| Run | Shows |
|---|---|
| `session_any` | With a user who does anything at any moment: no stale reading, "running" is always accounted for, every job ends unless the worker stands for ever in a call without a time-out. |
| `session_patient` | A user who only starts readings and answers boxes loses the process to the decoder at most; every press is answered by the button, the box or that death, with the same exception. |
| `session_stopped` | **Violation.** "Stopped" on the screen does not mean that the service has stopped. |
| `upload_retry` | One phone, every fault, three attempts: a reading is the analysis of the phone's whole capture; only the first attempt can produce one; failed files are removed, timed-out ones included; the upload ends unless it waits on a lost line; it implements UploadPromise. |
| `upload_race` | Two phones: files are never mixed and never deleted by another's clean-up. |
| `capture_adjust` | With gain restarts: the file is never too long, and exactly as long as asked for when nothing disturbed the capture; the call returns, unless it is the gain restarts that never end. |
| `reader_search` | Two files in one process, with room for a retry that fills the cache: a first attempt reads each bit where it was asked to and fits the cache; the cache holds the samples after the current prelude, but for the two cases the property names; a missing sample is used only where the file ends inside a prelude or a packet, and a sample is written past the cache only by a retry that finds it full; the search ends. |
| `reader_retry` | **Violation.** A retry reads its bits from other samples than those it names. |
| `capture_gain` | **Violation.** The preference for gain reduction has no effect, because `true` is passed where `1` is expected. |
| `fleet_client` | Screens, service, Volley and sessions together, with lost and late answers: the token the phone holds is live as long as nobody logged out; a log-out never reaches the session it is to end; an empty list is waiting, failed, or a fleet list that was paused; a fleet list never shows more than was asked for; queries and log-ins come to an end. |
| `samples_overlap` | Two server processes: two samples of one sensor and time come only from overlapping requests, and cannot be deleted afterwards; answers are wrong only when another request wrote in between; colours are never better than the oldest sample of the sensor allows. |
| `samples_last` | **Violation.** The "last" sample of a tyre is its oldest. |

`OnlyFirstAttemptReads` deserves a word. The retry is useless as written: after a
broken transfer the reply to it is unread, so PORT is answered by it, STOU by the
200 of PORT, and the attempt ends without an upload. That desynchronisation is
also what keeps `ReadingIsOwnWholeCapture` true: the mutant that reads the
left-over reply before the next attempt lets the tail of a capture be uploaded and its analysis be
reported. Whoever repairs the reply handling has to rewind the stream as well.

Deadlock checking is off: each model may come to rest (no more presses, every
upload over, no call pending).

Four properties state what the code achieves where one would wish for more.
`CrashNeedsItsUserAct` does not say that the process lives: it says which act of the
user each death needs, and leaves out the decoder, whose death needs none.
`LogoutMissesItsSession`: the token is cleared before the DELETE is queued and read
when it is sent, so the session stays open on the site. `EmptyListIsAccountedFor` names the one
way in which a list stays empty for good without an error: the fleet list was paused when
its answer came. `TwinsAreNotDeleted`: once a race has made a duplicate, the
validation that was to prevent it keeps both from being deleted; changing the
time of one is the way out.

### Bounds

* ReadingSession: two jobs and two activity objects per life of the process. Every
  property relates at most two jobs (an old capture and a new press, an old
  completion and a new job) or two objects (the rotated one and its successor).
  `MaxTries = 3` is the code's value. The patient user's run has three of each.
* FtpUpload: `retry` has three pieces, so that a broken attempt can consume none,
  some or all of the stream, and three attempts, the code's value. `race` has two
  phones, one piece and two attempts: a name can be freed by a clean-up and taken
  again. `MaxNames` is phones times attempts, so that `Stat` never meets the bound.
* NativeCapture: blocks of 4 and a request of 10, that is two whole blocks and a
  rest; two calls, so that what the first leaves behind meets the second.
* PacketReader: `MinSps` is 20, the smallest value at which 5% is a whole sample,
  so that there is an estimate on either side; `MaxSps` is 21 and `MaxOrig` 22, so
  that an attempt can be refused from below, from above and at once. Three symbols
  are the known one, the half known one and one that is read in full. In `search`
  `CacheSize` is the least the assumption allows (the code has a good deal more),
  and a file of 68 samples lets retries fill it, lets them read on and write past it, and lets the file end at different
  places of a packet. In `retry` the cache is larger: a full one hides where a bit
  is read. `MaxSkip` bounds how far the search skips before a prelude.

* FleetScreens: three lists (one of each kind, or two fleet lists by a rotation),
  one form with any number of attempts up to `MaxActs`, four user acts in all, so
  that a log-in, a list, a log-out and an absence can meet. Four slots are
  two log-ins, a query and a log-out under way together; eight tokens are more than
  can be held in all places at once.
* TireSamples: two processes, three requests and one row that was there before: a
  race for a duplicate and a deletion of it; or a row, a second one and two updates
  that mix their columns. Two sensors and one tyre, so that a sensor can be taken off. Two times, of
  which one is in the far future until the clock ticks, and two pressures, of which
  one is the first refused. Processes and sensors are symmetric.

### Fairness

The code has several calls that may never return. The session and the upload give
them no fairness, and their liveness properties name them as the exception instead;
NativeCapture, which is about one such call, assumes that the radio answers.

* ReadingSession: `WF(~Waiting /\ Worker)`, that is the service's thread runs on unless
  it stands in such a call. `Waiting` lists them: the permission that `openDevice`
  polls for without a limit, the bulk reads of the capture (time-out 0), and every
  FTP call that waits for the base station (connect, log-in, the working directory,
  the upload, the log-out), because `setConnectTimeout` and `setSoTimeout` are
  commented out. `JobsEnd` and `PressIsAnswered` hold unless the worker stays in one
  such call for ever (`Stalls`). `WF(Deliver)`, `WF(DeliverToNobody)`: the main looper
  drains its queue. `WF(DialogOk)`: the user answers an error box.
* FtpUpload: `WF(~Blocked(p) /\ Phone(p))`. While the line is up the replies of the
  server process arrive and its death is seen as an end of file; once it is lost
  without notice the phone may wait in a read for ever (`Blocked`), and `UploadEnds`
  says so. A copy over a broken data socket throws. The server process runs.
  Faults have no fairness.
* The decoder returns or ends its process: `AnalysisEnds` is checked for it in
  PacketReader, and the other modules take it from there.
* NativeCapture: the native thread runs and every bulk read returns. The code uses
  a timeout of 0 (none), so a radio that never answers blocks the call; this is
  outside `CaptureEnds`.
* FleetScreens: `WF(Client)`, that is the threads with the clock of their waits,
  Volley, whose requests end by an answer, an error or its time limit, and the
  looper. Nothing is asked of the user, and no single request is favoured.
* UploadPromise has no fairness: it is a safety specification.
* TireSamples has no liveness property: a process may be killed at any point.
* PacketReader: one thread; once a file is open the analysis is never left alone.

## 4. What disagrees with the code's own statements

The four violation runs, quoted in `PROJECT.json` under `findings`. The traces are
short: (1) start, abort, completion while the worker is on its way to the radio;
(2) the preference is set and a block is out of range; (3) a packet is read and
refused, the next estimate is tried, and its second bit is taken from the end of
the cache; (4) a tyre with a sample gets another one, and the first is still reported.

Two more consequences of the static cache are excluded from `CacheMirrorsFile` by
name, because no statement of the code's speaks of them: when the estimate of a
prelude is above `MAX_SAMPLES_PER_SYMBOL` the first attempt caches nothing, and when
the file ends with the prelude nothing is left to cache; the attempts then read
what an earlier prelude left in the cache.

## 5. Proofs

Every safety property that a passing run checks is also a theorem: type
correctness, the invariants, the two action properties and the refinement. The
theorems hold for every value of the constants that satisfies the named assumption of
the module (`BoundsAssumption`, `UploadAssumption`,
`CaptureAssumption`, `ReaderAssumption`, `SessionAssumption`, `ScreensAssumption`,
`SamplesAssumption`). Most of what these say is that bounds are numbers and that
identifiers are told apart. The rest is this:

* `CaptureAssumption`: the request is not a whole number of blocks (below).
* `ReaderAssumption`: the cache is larger than the longest packet with its drift. With
  the values of the code, 69 symbols of at most 512 samples and a cache of 65535, that
  is 760320 < 1310700. A sample estimate of at least 20 keeps the code's
  integer divisions from eating the margins; the code's least is 307.
* `SamplesAssumption`: no time span reaches back beyond the start of the clock, which in
  the code counts from 1970.

### ReadingSession

`TypeCorrect`, `FreshReadings`, `RunningAccounted`, `CrashCauses`. The inductive
invariant is `TypeOK /\ WorkerInv /\ CaptureInv`. `ReadingsAreFresh` speaks only of
samples already sent; it needs that the capture in the file, and the one the open
stream reads, was begun after the press of every job that can still report it. That
holds because a press deletes the file and a job that is queued later has a larger
number. `CaptureInv` says so, `WorkerInv` says which fields are meaningful at which
step. `RunningIsAccountedFor` is inductive relative to them.

`CrashCauses` assumes nothing of `UserActs`: what it says of a death holds for every set
of acts without the ones that death needs. Each of the two implications has an
invariant of its own on top of the first. Without "stop" no abort flag is ever set
(`NoStopInv`), so no check disconnects the client; that is all the client needs,
because it is connected wherever the worker uses it. For the menu and the window the
user must not turn or leave either, and `PatientInv` is needed: a press needs the button,
and the button comes back only with the last message of the job before, so at any moment there
is at most one intent, worker or message (`pc # "idle" => intents = <<>> /\ mail = {}`).
While there is one, the newest activity is shown, running and has its menu. A
user who closes a box with Back is included.

### FtpUpload

`TypeCorrect`, `NotMixed`, `FailedGone`, `OwnWhole`, `FirstOnly`, `OwnDeleted`,
`Refinement`. The invariant has four parts besides the types.

* `DialogueInv`. A reply belongs to a command only by its place in the queue, so
  nothing can be said of a reply without saying what else is in flight. `First` and
  `Later` list, for each place of the phone, the commands and replies under way and
  where the process can be: in the first attempt they are in step, in a later one the
  phone is one reply behind. That a later attempt never copies and never ends with
  226 is an invariant only together with these lists.
* `FileInv`. A process that has created its file owns the name until it has
  unlinked it; two owners have two names, although `stat` and `open` are two
  steps, because the open is exclusive. The pieces in the file and in flight are the
  owner's, in order.
* `FailedInv`. A name whose upload failed is still in the directory only while its
  process is about to unlink it, or died of the lost connection on the way. A
  time-out is a failure too: it unlinks and marks in one step. The death in the decoder comes after a
  transfer that succeeded, so its file is not one of these.
* `WholeInv`. Until an attempt has thrown, the pieces in the file and in flight are
  the capture up to `pos`, and an orderly close comes after the last of them; so success
  means the whole capture, and so does any reply that reports a packet. After a
  throw this is false, and `FirstOnly` is what saves `OwnWhole`.

`Refinement` maps each step to a step of UploadPromise or a stutter: the last piece
received is `Keep`, a clean-up or a time-out that unlinks a whole file is `Discard`,
and the conclusion is `Answer`. Creating a file and unlinking a partial one change nothing
that the promise sees. The delicate case is `Discard`, which is allowed only to a
phone that was not told "reading": `Answered` says that such a phone's process has ended.

### NativeCapture

`TypeCorrect`, `CaptureNeverTooLong`, `UndisturbedCaptureWhole`. `LoopInv` says that
inside the loop `pos + bytes_to_read` is the request, that `pos` is a whole number
of blocks and that the file never exceeds the request. The assumption that the
request is not a whole number of blocks enters exactly once: it keeps the countdown
from reaching 0. Without it the theorem is false, and so is the code: such a capture
has no end.

### PacketReader

`TypeCorrect`, `InPlace`, `Fits`, `Mirrors`, `Breaks`. That a first attempt reads its
bits in place and never fills the cache depends on how far bits can drift, and the
properties do not say. `Pace` bounds the drift: a bit ends in the last quarter of a
buffer a tenth longer than itself, the next one starts there, so after `s` symbols the
packet is within `11 * est * (2 * s - 3) / 20` samples of its start. `Close` says that
in a first attempt the cache is ahead of the bit by no more than a fifth of a symbol
and three samples, so that `cache_loc` is never behind the bit's start. `Mirror` is
`CacheMirrorsFile` for one more place of the search, the one between two attempts, and `Control` says where the static
variables are in step with the search.

`Breaks` has two halves. A bit that is lost while the file goes on would have to start
behind the end of the cache, and `Pace` says that it does not. An overrun needs a full
cache, and `FirstAttemptFits` says that in a first attempt it is not. For retries there is no such bound: after the second
bit they count from the end of the cache (`reader_retry`), run through it and fill it.

### ApiSession and FleetScreens

`TypeCorrect`, `TokenLive`, `LogoutMisses`, `EmptyList`, `FleetListed`, all of
FleetScreens, which has every action of ApiSession.

ApiSession's part of the invariant is `SessionInv`. `PhoneTokenIsLive` needs that a
session stays live while its token is on the way from the site to the static field
(`Accepted`). `LogoutMissesItsSession` compares the token of a DELETE with the session it is
meant to end, and is kept only because that token is nowhere else on its way into the field:
`OnePlace`. Two threads log in at once, so this needs that they never wait for the
same request (`Threaded`). The actions touch the requests in three manners (queue
one, finish one, change one in place); each manner has its lemma, and the proofs of
the actions use only those.

The screens add who listens (`FormOnMain`, `FleetListens`, `AskersListen`) and whose
the queries are (`OneQuery`, `OwnQuery`). `EmptyListIsAccountedFor` then holds
because an answer goes to every list that listens, and a list that does not is
a fleet list that was paused. `FleetListedOncePerQuery` needs a count: each answer
that a fleet list shows was the end of a query (`Listed`), and a query that has ended
does not come back. The lists whose query has ended are a finite set to which each
answer adds one.

### TireSamples

`TypeCorrect`, `TwinsOverlap`, `Honesty`, `TwinsStay`, `Colours`. The invariant behind
the first two, `IInv`, adds `ValidInv`: a row that has the sensor and time of a
validated request, and is not its own, was written after the validation.
`TwinsComeFromOverlap` alone is not inductive, because it says nothing of the
requests that have not written yet. `HonestInv` keeps, per request, what still
stands as long as no other request has written: a validated one is still valid, a
refused update still invalid, a stored one valid with its own write only. Any other
write makes each of these vacuous, which is why the answers are qualified by the
number of writes since the validation. `TwinsStay` is `ValidInv` applied to a
destroy, whose sensor and time are those of the row as found.

`Colours` is about functions of the table, so it needs no more than `TypeOK`; its
work is in `getColor`. The colour depends on one sample, the one that `Last`
picks, and on thresholds of which any may be missing. `compact.min` is the least of one
or two numbers, so its existence is a case distinction and not an induction.

### Only model-checked

* Liveness (`JobsEnd`, `PressIsAnswered`, `UploadEnds`, `CaptureEnds`,
  `AnalysisEnds`, `ClientSettles`): outside the prover's reach.
* The four violations: a counterexample is an instance.

One definition is worded for the proofs. `FreeSlot` takes any free slot: that a set
of slots has a least element is an induction, and no behaviour depends on the number.

## 6. Not modelled

* Text, logging, layout, preference screens, crash reports.
* The signal processing of the decoder (filters, frequency estimates): numerical.
* vsftpd beyond the commands the phone sends; its log-in.
* `RtlSdr.start`: nobody calls it.
* The web site's companies, users, vehicles and other record forms: plain
  create-read-update without shared state of their own. Permissions and mail.
* The DELETE and POST branches of `callToServer`: no caller. The JSON error of the
  log-in: the site's answer always has the token.
* The vendored libraries, which are most of the repository's lines.
* What happens after a write past the sample cache: undefined in the code.
* How the waits without a time-out might end after all (a refused USB permission,
  a silent radio, a silent base station, a line lost without notice): the models stop
  there.
* A tyre type whose nominal pressure was emptied to null: the serializer raises.

## 7. Plan

In this order:

1. Proofs: what the proofs found out as properties of their own. `OnePlace` (a token
   is never in two places), `Later` (a retry is one reply behind), and the uploads
   seen from UploadPromise: that `Promise!Spec` implies that a phone told
   "reading" finds its capture kept for good.
2. `SdrHandshake`: the wait between `RtlSdr.start` and `onclose`.
3. Composition of ReadingSession and NativeCapture over the file and the device
   handle, for the handle that early returns leave open.
