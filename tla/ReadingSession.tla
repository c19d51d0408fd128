--------------------------- MODULE ReadingSession ---------------------------
(***************************************************************************)
(* One reading of a tyre sensor on the phone.  Three things run side by    *)
(* side in the application's process:                                      *)
(*                                                                         *)
(*   - the UI thread: LogActivity's start/stop item, its error dialog and  *)
(*     its FeedbackReceiver, which drains the local broadcasts;            *)
(*   - the worker thread of SdrFtpService, an IntentService: it takes the  *)
(*     start intents one at a time and runs onHandleIntent to its end;     *)
(*   - the user, who may press, rotate the phone or leave at any moment.   *)
(*                                                                         *)
(* An Activity object is a number: the static LogActivity.activity is the  *)
(* last one created.  Receivers are never unregistered, so an old object   *)
(* goes on hearing broadcasts; a broadcast reaches the receivers that were *)
(* registered when it was sent.                                            *)
(*                                                                         *)
(* A press of start is a job, numbered in order.  The content of fc.bin is *)
(* the job whose radio capture wrote it and how many jobs had been started *)
(* when that capture began.                                                *)
(***************************************************************************)
EXTENDS Naturals, Sequences

CONSTANTS MaxJobs,      \* bound: presses of start explored
          MaxActs,      \* bound: LogActivity objects in one life of the process
          MaxTries,     \* maxTries in SdrFtpService (3)
          UserActs      \* what the user does besides starting when stopped

ASSUME BoundsAssumption ==
    /\ MaxJobs \in Nat \ {0}
    /\ MaxActs \in Nat \ {0}
    /\ MaxTries \in Nat \ {0}
    /\ UserActs \subseteq {"stop", "rotate", "leave", "cancel"}

VARIABLES created,      \* LogActivity objects made; LogActivity.activity is the last
          shown,        \* that last object is on the screen
          menus,        \* objects whose options menu (mi_startStop) exists
          running,      \* running of each object
          abort,        \* abort_requested of each object
          dialogs,      \* error boxes open: the object whose flags OK clears, and why
          cancelled,    \* objects whose error box was dismissed with Back
          starts,       \* jobs started so far
          intents,      \* the service's queue of start intents
          pc,           \* where onHandleIntent is
          job,          \* the intent it handles
          wact,         \* its field activity
          conn,         \* its FTP client has a control connection
          tries,        \* count in the upload loop
          src,          \* the capture its input stream reads
          mail,         \* local broadcasts sent and not yet delivered
          file,         \* fc.bin
          samples,      \* tire_samples/create requests sent
          crashes       \* what killed the process so far

uiVars == <<created, shown, menus, running, abort, dialogs, cancelled>>
workVars == <<pc, job, wact, conn, tries, src>>
vars == <<uiVars, starts, intents, workVars, mail, file, samples, crashes>>

Jobs == 1..MaxJobs
Acts == 1..MaxActs

\* fc.bin does not exist (or no stream is open).
NoCapture == [by |-> 0, gen |-> 0]
Captures == [by : Jobs, gen : Jobs] \cup {NoCapture}

Steps == {"idle", "sleep", "find", "permit", "open", "capturing", "captured",
          "connect", "cwd", "store", "stored", "reply", "report", "noreading",
          "finish"}

Kinds == {"completeok", "failure"}
Mails == [kind : Kinds, job : Jobs, upTo : Acts]

UITypeOK ==
    /\ created \in 0..MaxActs
    /\ shown \in BOOLEAN
    /\ menus \subseteq Acts
    /\ running \in [Acts -> BOOLEAN]
    /\ abort \in [Acts -> BOOLEAN]
    /\ dialogs \subseteq [owner : Acts, job : Jobs]
    /\ cancelled \subseteq Acts

WorkerTypeOK ==
    /\ pc \in Steps
    /\ job \in 0..MaxJobs
    /\ wact \in 0..MaxActs
    /\ conn \in BOOLEAN
    /\ tries \in 0..MaxTries
    /\ src \in Captures

TypeOK ==
    /\ UITypeOK
    /\ WorkerTypeOK
    /\ starts \in 0..MaxJobs
    /\ intents \in Seq(Jobs)
    /\ mail \subseteq Mails
    /\ file \in Captures
    /\ samples \subseteq [job : Jobs, by : Jobs, gen : Jobs]
    /\ crashes \subseteq {"ftp", "menu", "window", "decoder"}

Init ==
    /\ created = 0 /\ shown = FALSE /\ menus = {}
    /\ running = [a \in Acts |-> FALSE]
    /\ abort = [a \in Acts |-> FALSE]
    /\ dialogs = {} /\ cancelled = {}
    /\ starts = 0 /\ intents = <<>>
    /\ pc = "idle" /\ job = 0 /\ wact = 0
    /\ conn = FALSE /\ tries = 0 /\ src = NoCapture
    /\ mail = {} /\ file = NoCapture
    /\ samples = {} /\ crashes = {}

-----------------------------------------------------------------------------
(* LogActivity: the UI thread and the user.                                *)

\* onCreate: a new object takes the static activity field; its receiver is
\* registered and the old ones stay registered.
NewActivity ==
    /\ created < MaxActs
    /\ created' = created + 1
    /\ shown' = TRUE
    /\ menus' = menus \ {created + 1}
    /\ running' = [running EXCEPT ![created + 1] = FALSE]
    /\ abort' = [abort EXCEPT ![created + 1] = FALSE]
    /\ dialogs' = {}
    /\ cancelled' = cancelled \ {created + 1}
    /\ UNCHANGED <<starts, intents, workVars, mail, file, samples, crashes>>

OpenLog == ~shown /\ NewActivity

\* The phone is turned: the activity does not handle configuration changes,
\* so it is destroyed with its dialogs and created again.
Rotate == "rotate" \in UserActs /\ shown /\ NewActivity

Leave ==
    /\ "leave" \in UserActs
    /\ shown /\ dialogs = {}
    /\ shown' = FALSE
    /\ UNCHANGED <<created, menus, running, abort, dialogs, cancelled,
                   starts, intents, workVars, mail, file, samples, crashes>>

\* onCreateOptionsMenu: the system asks for the menu some turns after onCreate.
CreateMenu ==
    /\ shown /\ created \notin menus
    /\ menus' = menus \cup {created}
    /\ UNCHANGED <<created, shown, running, abort, dialogs, cancelled, starts,
                   intents, workVars, mail, file, samples, crashes>>

\* onOptionsItemSelected needs the menu, which a dialog covers.
CanPress == shown /\ created \in menus /\ dialogs = {}

\* Mutant: cacheDir hands out the path without deleting an old file.
cacheDirKeeps == UNCHANGED file

\* cacheDir deletes fc.bin; a stream that is open keeps the deleted file.
cacheDir == file' = NoCapture

\* Stopped, now starting: the flags, the old file and the intent for the service.
PressStart ==
    /\ CanPress
    /\ ~running[created]
    /\ starts < MaxJobs
    /\ running' = [running EXCEPT ![created] = TRUE]
    /\ abort' = [abort EXCEPT ![created] = FALSE]
    /\ cancelled' = cancelled \ {created}
    /\ cacheDir
    /\ starts' = starts + 1
    /\ intents' = Append(intents, starts + 1)
    /\ UNCHANGED <<created, shown, menus, dialogs, workVars, mail, samples, crashes>>

\* Running, requested stop.
PressAbort ==
    /\ "stop" \in UserActs
    /\ CanPress
    /\ running[created] /\ ~abort[created]
    /\ abort' = [abort EXCEPT ![created] = TRUE]
    /\ UNCHANGED <<created, shown, menus, running, dialogs, cancelled, starts,
                   intents, workVars, mail, file, samples, crashes>>

\* Stop requested, now stopping.
PressStop ==
    /\ "stop" \in UserActs
    /\ CanPress
    /\ running[created] /\ abort[created]
    /\ running' = [running EXCEPT ![created] = FALSE]
    /\ abort' = [abort EXCEPT ![created] = FALSE]
    /\ UNCHANGED <<created, shown, menus, dialogs, cancelled, starts, intents,
                   workVars, mail, file, samples, crashes>>

\* The process dies: the UI, the worker and the queued intents go with it
\* (an IntentService does not redeliver); fc.bin and what was sent remain.
Crash(cause) ==
    /\ crashes' = crashes \cup {cause}
    /\ created' = 0 /\ shown' = FALSE /\ menus' = {}
    /\ running' = [a \in Acts |-> FALSE]
    /\ abort' = [a \in Acts |-> FALSE]
    /\ dialogs' = {} /\ cancelled' = {}
    /\ intents' = <<>>
    /\ pc' = "idle" /\ job' = 0 /\ wact' = 0
    /\ conn' = FALSE /\ tries' = 0 /\ src' = NoCapture
    /\ mail' = {}
    /\ UNCHANGED <<starts, file, samples>>

Failures == {m \in mail : m.kind = "failure"}

\* onReceive uses mi_startStop, which is null until the menu exists.
MenuMissing == \E m \in mail : \E a \in 1..m.upTo : a \notin menus

\* The receivers take everything that is pending in one turn of the looper.
\* COMPLETEOK clears running and leaves abort_requested; FAILURE opens one
\* error box per receiver, on the window of the last object.
Deliver ==
    /\ mail # {}
    /\ ~MenuMissing
    /\ Failures # {} => shown
    /\ running' = [a \in Acts |-> running[a] /\ ~\E m \in mail :
                                    m.kind = "completeok" /\ a <= m.upTo]
    /\ dialogs' = dialogs \cup {d \in [owner : Acts, job : Jobs] :
                        \E m \in Failures : d.job = m.job /\ d.owner <= m.upTo}
    /\ mail' = {}
    /\ UNCHANGED <<created, shown, menus, abort, cancelled, starts, intents, workVars,
                   file, samples, crashes>>

\* An error box for an activity that is gone has no window to attach to.
DeliverToNobody ==
    /\ ~MenuMissing
    /\ Failures # {} /\ ~shown
    /\ Crash("window")

DeliverBeforeMenu == MenuMissing /\ Crash("menu")

DialogOk ==
    \E d \in dialogs :
        /\ dialogs' = dialogs \ {d}
        /\ running' = [running EXCEPT ![d.owner] = FALSE]
        /\ abort' = [abort EXCEPT ![d.owner] = FALSE]
        /\ UNCHANGED <<created, shown, menus, cancelled, starts, intents, workVars,
                       mail, file, samples, crashes>>

\* The Back key closes the box without its button's listener.
DialogCancel ==
    /\ "cancel" \in UserActs
    /\ \E d \in dialogs :
        /\ dialogs' = dialogs \ {d}
        /\ cancelled' = cancelled \cup {d.owner}
        /\ UNCHANGED <<created, shown, menus, running, abort, starts, intents,
                       workVars, mail, file, samples, crashes>>

UI == \/ OpenLog \/ Rotate \/ Leave \/ CreateMenu
      \/ PressStart \/ PressAbort \/ PressStop
      \/ Deliver \/ DeliverToNobody \/ DeliverBeforeMenu
      \/ DialogOk \/ DialogCancel

-----------------------------------------------------------------------------
(* SdrFtpService.onHandleIntent: the worker.                               *)

Note(kind) == [kind |-> kind, job |-> job, upTo |-> created]

\* "if (abort_requested()) completeOk();": it announces, and goes on.
AbortCheck ==
    mail' = IF abort[wact] THEN mail \cup {Note("completeok")} ELSE mail

\* Mutant: the client is disconnected whether or not an abort was asked for.
AbortCheckFtpAlways ==
    /\ AbortCheck
    /\ conn' = FALSE

\* The same check where the code also logs out and disconnects first.
AbortCheckFtp ==
    /\ AbortCheck
    /\ conn' = ~abort[wact]

GoTo(step) == pc' = step /\ UNCHANGED <<job, wact>>

\* Mutant: return without telling the activity.
EndSilently ==
    /\ pc' = "idle" /\ job' = 0 /\ wact' = 0
    /\ conn' = FALSE /\ tries' = 0 /\ src' = NoCapture
    /\ UNCHANGED <<uiVars, starts, intents, mail, file, samples, crashes>>

\* errorModalBox(...); return;
Fail ==
    /\ mail' = mail \cup {Note("failure")}
    /\ pc' = "idle" /\ job' = 0 /\ wact' = 0
    /\ conn' = FALSE /\ tries' = 0 /\ src' = NoCapture
    /\ UNCHANGED <<uiVars, starts, intents, file, samples, crashes>>

TakeIntent ==
    /\ pc = "idle" /\ intents # <<>>
    /\ pc' = "sleep"
    /\ job' = Head(intents)
    /\ intents' = Tail(intents)
    /\ UNCHANGED <<uiVars, starts, wact, conn, tries, src, mail, file, samples,
                   crashes>>

\* After the sleep the service picks up the activity and checks for an abort.
Begin ==
    /\ pc = "sleep"
    /\ pc' = "find"
    /\ wact' = created
    /\ mail' = IF abort[created] THEN mail \cup {Note("completeok")} ELSE mail
    /\ UNCHANGED <<uiVars, starts, intents, job, conn, tries, src, file,
                   samples, crashes>>

\* findDevice found the radio; openDevice has the permission or waits for it.
FindDevice ==
    /\ pc = "find"
    /\ pc' \in {"permit", "open"} /\ UNCHANGED <<job, wact>>
    /\ AbortCheck
    /\ UNCHANGED <<uiVars, starts, intents, conn, tries, src, file, samples,
                   crashes>>

NoDevice == pc = "find" /\ Fail

\* openDevice polls hasPermission until the user grants it.
Granted ==
    /\ pc = "permit"
    /\ GoTo("open")
    /\ UNCHANGED <<uiVars, starts, intents, conn, tries, src, mail, file,
                   samples, crashes>>

OpenDeviceFails == pc = "open" /\ Fail

\* An exception whose message is not a resource number (the radio was pulled
\* out under openDevice) makes the handler's own parseInt throw; the outer
\* handler opens an error box on the activity and finishes it.
FinishWithError ==
    /\ pc = "open" /\ shown /\ wact \in menus
    /\ shown' = FALSE
    /\ dialogs' = {}
    /\ pc' = "idle" /\ job' = 0 /\ wact' = 0
    /\ UNCHANGED <<created, menus, running, abort, cancelled, starts, intents,
                   conn, tries, src, mail, file, samples, crashes>>

FinishWithErrorGone ==
    pc = "open" /\ wact \in menus /\ ~shown /\ Crash("window")

FinishWithErrorNoMenu == pc = "open" /\ wact \notin menus /\ Crash("menu")

\* RtlSdr.open: rtlsdr_main opens the file once the radio is configured.
CaptureStart ==
    /\ pc = "open"
    /\ GoTo("capturing")
    /\ AbortCheck
    /\ file' = [by |-> job, gen |-> starts]
    /\ UNCHANGED <<uiVars, starts, intents, conn, tries, src, samples, crashes>>

\* rtlsdr_main gives up before it opens the file: only RtlSdr.onclose hears of
\* it, and open() returns as if the capture were done.
CaptureRefused ==
    /\ pc = "open"
    /\ GoTo("captured")
    /\ AbortCheck
    /\ UNCHANGED <<uiVars, starts, intents, conn, tries, src, file, samples,
                   crashes>>

CaptureEnd ==
    /\ pc = "capturing"
    /\ GoTo("captured")
    /\ AbortCheck
    /\ UNCHANGED <<uiVars, starts, intents, conn, tries, src, file, samples,
                   crashes>>

\* procLocal: the decoder runs in the process; a missing file is no packet.
AnalyseHere ==
    /\ pc = "captured"
    /\ \/ GoTo("noreading") /\ UNCHANGED src
       \/ file # NoCapture /\ GoTo("report") /\ src' = file
    /\ AbortCheck
    /\ UNCHANGED <<uiVars, starts, intents, conn, tries, file, samples, crashes>>

\* A capture that ends in a prelude or a packet, or one that overruns the
\* sample cache, kills the decoder and the application it runs in.
DecoderDies ==
    /\ pc = "captured"
    /\ file # NoCapture
    /\ Crash("decoder")

\* Otherwise look up the server ...
LookUp ==
    /\ pc = "captured"
    /\ GoTo("connect")
    /\ AbortCheck
    /\ UNCHANGED <<uiVars, starts, intents, conn, tries, src, file, samples,
                   crashes>>

\* ... connect and log in.
Connect ==
    /\ pc = "connect"
    /\ GoTo("cwd")
    /\ AbortCheckFtp
    /\ UNCHANGED <<uiVars, starts, intents, tries, src, file, samples, crashes>>

NoServer == pc \in {"captured", "connect"} /\ Fail

\* changeWorkingDirectory, setFileType, and open the capture.
OpenFile ==
    /\ pc = "cwd" /\ conn
    /\ file # NoCapture
    /\ GoTo("store")
    /\ src' = file
    /\ AbortCheckFtp
    /\ UNCHANGED <<uiVars, starts, intents, tries, file, samples, crashes>>

\* The file is gone, or the connection broke.
OpenFileFails == pc = "cwd" /\ conn /\ Fail

\* storeUniqueFile returned, whatever it returned.
Stored ==
    /\ pc = "store" /\ conn
    /\ GoTo("stored")
    /\ UNCHANGED <<uiVars, starts, intents, conn, tries, src, mail, file,
                   samples, crashes>>

\* The abort check after the upload; the stream is closed, the reply read.
CheckStored ==
    /\ pc = "stored"
    /\ GoTo("reply")
    /\ AbortCheckFtp
    /\ UNCHANGED <<uiVars, starts, intents, tries, src, file, samples, crashes>>

\* Mutants: the retry test lets one attempt too many through, and the counter
\* starts again when it reaches the limit.
StoreThrowsOnceMore ==
    /\ pc = "store" /\ conn
    /\ tries <= MaxTries
    /\ tries' = tries + 1
    /\ UNCHANGED <<uiVars, starts, intents, pc, job, wact, conn, src, mail,
                   file, samples, crashes>>
StoreThrowsForEver ==
    /\ pc = "store" /\ conn
    /\ tries' = (tries + 1) % MaxTries
    /\ UNCHANGED <<uiVars, starts, intents, pc, job, wact, conn, src, mail,
                   file, samples, crashes>>

\* storeUniqueFile threw: retry, up to maxTries.
StoreThrows ==
    /\ pc = "store" /\ conn
    /\ tries + 1 < MaxTries
    /\ tries' = tries + 1
    /\ UNCHANGED <<uiVars, starts, intents, pc, job, wact, conn, src, mail,
                   file, samples, crashes>>

StoreGivesUp == pc = "store" /\ conn /\ tries + 1 = MaxTries /\ Fail

\* The reply is read, the client logs out, and the 226 line holds a packet or
\* it does not (another code, or the empty fields of a failed analysis).
ReadReply ==
    /\ pc = "reply" /\ conn
    /\ pc' \in {"report", "noreading"} /\ UNCHANGED <<job, wact>>
    /\ conn' = FALSE
    /\ AbortCheck
    /\ UNCHANGED <<uiVars, starts, intents, tries, src, file, samples, crashes>>

\* Logging out failed: the answer it came after is dropped.
LogoutFails == pc \in {"stored", "reply"} /\ conn /\ Fail

\* A command on a client that an abort has disconnected: its streams are null.
UseDisconnected ==
    /\ pc \in {"cwd", "store", "reply"} /\ ~conn
    /\ Crash("ftp")

\* found == 1: the request to the web site is queued.
SendSample ==
    /\ pc = "report"
    /\ GoTo("finish")
    /\ samples' = samples \cup {[job |-> job, by |-> src.by, gen |-> src.gen]}
    /\ AbortCheck
    /\ UNCHANGED <<uiVars, starts, intents, conn, tries, src, file, crashes>>

NoSample ==
    /\ pc = "noreading"
    /\ GoTo("finish")
    /\ UNCHANGED <<uiVars, starts, intents, conn, tries, src, mail, file,
                   samples, crashes>>

\* Mutant: onHandleIntent returns without the last completeOk.
FinishSilently == pc = "finish" /\ EndSilently

\* The last completeOk, and onHandleIntent returns.
Finish ==
    /\ pc = "finish"
    /\ mail' = mail \cup {Note("completeok")}
    /\ pc' = "idle" /\ job' = 0 /\ wact' = 0
    /\ conn' = FALSE /\ tries' = 0 /\ src' = NoCapture
    /\ UNCHANGED <<uiVars, starts, intents, file, samples, crashes>>

Worker ==
    \/ TakeIntent \/ Begin \/ FindDevice \/ NoDevice \/ OpenDeviceFails
    \/ FinishWithError \/ FinishWithErrorGone \/ FinishWithErrorNoMenu
    \/ CaptureStart \/ CaptureRefused \/ CaptureEnd
    \/ AnalyseHere \/ DecoderDies \/ LookUp \/ Connect \/ NoServer
    \/ OpenFile \/ OpenFileFails
    \/ Stored \/ StoreThrows \/ StoreGivesUp
    \/ CheckStored \/ ReadReply \/ LogoutFails \/ UseDisconnected
    \/ SendSample \/ NoSample \/ Finish

Next == UI \/ Worker \/ Granted

\* The worker stands in a call that somebody else has to end: the user who is
\* asked for the permission, the radio, or the base station (logging out after an
\* abort included).  The FTP client's time-outs are commented out.
Waiting ==
    \/ pc \in {"permit", "capturing", "connect"}
    \/ pc \in {"cwd", "store", "reply"} /\ conn
    \/ pc = "stored" /\ abort[wact]

\* The worker thread runs whenever it does not wait, the looper drains its
\* queue, and the user answers an error box.  Nobody need end the worker's wait.
Fairness ==
    /\ WF_vars(~Waiting /\ Worker)
    /\ WF_vars(Deliver)
    /\ WF_vars(DeliverToNobody)
    /\ WF_vars(DialogOk)

Spec == Init /\ [][Next]_vars /\ Fairness

-----------------------------------------------------------------------------
(* Properties.                                                             *)

\* A sample sent to the web site for a press of start was captured after that
\* press: the deletion of fc.bin in cacheDir keeps every older capture out,
\* however the presses, the worker and a crash interleave.
ReadingsAreFresh == \A s \in samples : s.gen >= s.job

\* The screen says "running" only while something will still change that: an
\* intent or a job of the service, a broadcast on its way to this activity, or
\* an error box of this activity.  The one exception is a box that was closed
\* with the Back key, which skips the listener of its button.
RunningIsAccountedFor ==
    (shown /\ running[created]) =>
        \/ intents # <<>>
        \/ pc # "idle"
        \/ \E m \in mail : created <= m.upTo
        \/ \E d \in dialogs : d.owner = created
        \/ created \in cancelled

\* The worker stands for ever in one call: the permission is never given, the
\* radio delivers nothing more, or the base station has fallen silent.
Stalls == <>[]Waiting /\ <>[][FALSE]_workVars

\* Every start intent is handled to its end, or lost with the process: the
\* upload loop gives up, and no later intent waits behind a job that goes on
\* without getting anywhere.  The exception is one call that never returns, which
\* SdrFtpService leaves without a time-out.
JobsEnd ==
    \/ Stalls
    \/ \A j \in Jobs :
          (starts >= j) ~> (job # j /\ \A i \in DOMAIN intents : intents[i] # j)

\* The three ways a press of start is answered: the activity stops running, it is
\* finished with its error box, or the process has died in the decoder.
Answered ==
    \/ shown /\ ~running[created]
    \/ ~shown /\ created # 0
    \/ created = 0 /\ "decoder" \in crashes

\* A user who only starts readings and answers error boxes gets an answer to
\* every press, unless the worker stands for ever in a call of onHandleIntent
\* that has no time-out.
PressIsAnswered == Stalls \/ ((shown /\ running[created]) ~> Answered)

\* The process dies on the FTP client only if the user may ask to stop, and on a
\* menu or a window that is missing only if he may ask to stop, turn the phone or
\* leave: a user who starts readings and closes error boxes one way or the other
\* can lose the application to the decoder alone.
CrashNeedsItsUserAct ==
    /\ "ftp" \in crashes => "stop" \in UserActs
    /\ crashes \cap {"menu", "window"} # {} =>
          UserActs \cap {"stop", "rotate", "leave"} # {}

\* onOptionsItemSelected: for "running == false" the comment says "Stopped, now
\* starting", so the radio is not (about to be) used for this activity.
StoppedMeansStopped ==
    (shown /\ ~running[created]) =>
        ~(wact = created /\ pc \in {"find", "permit", "open", "capturing"})
=============================================================================
