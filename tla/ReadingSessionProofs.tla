------------------------ MODULE ReadingSessionProofs ------------------------
(***************************************************************************)
(* What holds of ReadingSession for any number of presses, activities and  *)
(* retries, and whatever the user does.                                    *)
(***************************************************************************)
EXTENDS ReadingSession, TLAPS

\* Where the worker is tells what it holds: an intent of a press that was made,
\* an activity, and, from the opening of the file to the report, a capture.
WorkerInv ==
    /\ pc = "idle" <=> job = 0
    /\ job <= starts
    /\ \A i \in DOMAIN intents : intents[i] <= starts
    /\ (pc # "idle" \/ intents # <<>> \/ shown) => created > 0
    /\ pc \in {"store", "stored", "reply", "report"} => src # NoCapture
    /\ pc \in {"idle", "sleep", "find", "permit", "open", "capturing",
               "captured", "connect", "cwd"} => src = NoCapture

\* fc.bin holds nothing, or a capture that began after the last press: a press
\* deletes the file.  What the worker reads began after its own press.
CaptureInv ==
    /\ file # NoCapture => file.gen = starts
    /\ src # NoCapture => src.gen >= job
    /\ ReadingsAreFresh

IInv == TypeOK /\ WorkerInv /\ CaptureInv

USE DEF Jobs, Acts, Captures, Mails, Kinds


\* What the service's queue gives and keeps when an intent is taken.
LEMMA TakeHead ==
  ASSUME NEW S, NEW q \in Seq(S), q # <<>>
  PROVE  /\ Head(q) = q[1]
         /\ 1 \in DOMAIN q
         /\ Head(q) \in S
         /\ Tail(q) \in Seq(S)
         /\ \A i \in DOMAIN Tail(q) : i + 1 \in DOMAIN q /\ Tail(q)[i] = q[i + 1]
  OBVIOUS

LEMMA InitIInv == Init => IInv
  <1> SUFFICES ASSUME Init PROVE IInv
    OBVIOUS
  <1> USE BoundsAssumption DEF Init
  <1>1. TypeOK
    <2>1. UITypeOK
      <3>1. /\ shown \in BOOLEAN
            /\ running \in [Acts -> BOOLEAN]
            /\ abort \in [Acts -> BOOLEAN]
        BY Zenon
      <3> QED
        BY <3>1 DEF UITypeOK
    <2>2. WorkerTypeOK
      <3>1. conn \in BOOLEAN
        BY Zenon
      <3> QED
        BY <3>1 DEF WorkerTypeOK, Steps
    <2> QED
      BY <2>1, <2>2 DEF TypeOK
  <1>2. WorkerInv
    BY DEF WorkerInv
  <1>3. CaptureInv
    BY DEF CaptureInv, ReadingsAreFresh
  <1> QED
    BY <1>1, <1>2, <1>3 DEF IInv

\* The death of the process keeps the invariant: fc.bin and the samples stay.
LEMMA CrashIInv ==
  ASSUME NEW cause \in {"ftp", "menu", "window", "decoder"}, IInv, Crash(cause)
  PROVE  IInv'
  <1> USE BoundsAssumption DEF Crash
  <1>1. TypeOK'
    <2>1. UITypeOK'
      <3>1. /\ shown' \in BOOLEAN
            /\ running' \in [Acts -> BOOLEAN]
            /\ abort' \in [Acts -> BOOLEAN]
        BY Zenon
      <3> QED
        BY <3>1 DEF IInv, TypeOK, UITypeOK
    <2>2. WorkerTypeOK'
      <3>1. conn' \in BOOLEAN
        BY Zenon DEF IInv, TypeOK, WorkerTypeOK
      <3> QED
        BY <3>1 DEF IInv, TypeOK, WorkerTypeOK, Steps
    <2> QED
      BY <2>1, <2>2 DEF IInv, TypeOK
  <1>2. WorkerInv'
    BY DEF IInv, TypeOK, UITypeOK, WorkerTypeOK, WorkerInv
  <1>3. CaptureInv'
    BY DEF IInv, CaptureInv, ReadingsAreFresh
  <1> QED
    BY <1>1, <1>2, <1>3 DEF IInv

\* So does the error return of onHandleIntent.
LEMMA FailIInv ==
  ASSUME IInv, pc # "idle", Fail
  PROVE  IInv'
  <1> USE BoundsAssumption DEF Fail, Note, uiVars
  <1>1. Note("failure") \in Mails
    BY DEF IInv, TypeOK, UITypeOK, WorkerTypeOK, WorkerInv
  <1>2. TypeOK'
    <2>1. UITypeOK'
      BY DEF IInv, TypeOK, UITypeOK
    <2>2. WorkerTypeOK'
      <3>1. conn' \in BOOLEAN
        BY Zenon DEF IInv, TypeOK, WorkerTypeOK
      <3> QED
        BY <3>1 DEF IInv, TypeOK, WorkerTypeOK, Steps
    <2> QED
      BY <1>1, <2>1, <2>2 DEF IInv, TypeOK
  <1>3. WorkerInv'
    BY DEF IInv, TypeOK, UITypeOK, WorkerTypeOK, WorkerInv
  <1>4. CaptureInv'
    BY DEF IInv, CaptureInv, ReadingsAreFresh
  <1> QED
    BY <1>2, <1>3, <1>4 DEF IInv

LEMMA TakeIntentIInv ==
  ASSUME IInv, TakeIntent
  PROVE  IInv'
  <1> USE BoundsAssumption DEF TakeIntent, uiVars
  <1>1. intents \in Seq(Jobs) /\ intents # <<>>
    BY DEF IInv, TypeOK
  <1>2. /\ job' = intents[1]
        /\ 1 \in DOMAIN intents
        /\ job' \in Jobs
        /\ intents' \in Seq(Jobs)
        /\ \A i \in DOMAIN intents' : i + 1 \in DOMAIN intents /\ intents'[i] = intents[i + 1]
    BY <1>1, TakeHead
  <1>3. TypeOK'
    BY <1>2 DEF IInv, TypeOK, UITypeOK, WorkerTypeOK, Steps
  <1>4. WorkerInv'
    <2>1. job' <= starts'
      BY <1>2 DEF IInv, WorkerInv
    <2>2. \A i \in DOMAIN intents' : intents'[i] <= starts'
      BY <1>2 DEF IInv, WorkerInv
    <2>3. src' = NoCapture
      BY DEF IInv, WorkerInv
    <2> QED
      BY <1>2, <2>1, <2>2, <2>3 DEF IInv, TypeOK, UITypeOK, WorkerTypeOK, WorkerInv
  <1>5. CaptureInv'
    BY DEF IInv, WorkerInv, CaptureInv, ReadingsAreFresh
  <1> QED
    BY <1>3, <1>4, <1>5 DEF IInv

\* The steps of the UI thread and of the user.
LEMMA NewActivityIInv == IInv /\ NewActivity => IInv'
  BY BoundsAssumption
  DEF NewActivity, IInv, TypeOK, UITypeOK, WorkerTypeOK, WorkerInv,
      CaptureInv, ReadingsAreFresh, Steps, uiVars, workVars

LEMMA LeaveIInv == IInv /\ Leave => IInv'
  BY ZenonT(60), BoundsAssumption
  DEF Leave, IInv, TypeOK, UITypeOK, WorkerTypeOK, WorkerInv,
      CaptureInv, ReadingsAreFresh, Steps, uiVars, workVars

LEMMA CreateMenuIInv == IInv /\ CreateMenu => IInv'
  BY BoundsAssumption
  DEF CreateMenu, IInv, TypeOK, UITypeOK, WorkerTypeOK, WorkerInv,
      CaptureInv, ReadingsAreFresh, Steps, uiVars, workVars

LEMMA PressStartIInv == IInv /\ PressStart => IInv'
  BY BoundsAssumption
  DEF PressStart, cacheDir, CanPress, IInv, TypeOK, UITypeOK, WorkerTypeOK, WorkerInv,
      CaptureInv, ReadingsAreFresh, Steps, uiVars, workVars

LEMMA PressAbortIInv == IInv /\ PressAbort => IInv'
  BY BoundsAssumption
  DEF PressAbort, CanPress, IInv, TypeOK, UITypeOK, WorkerTypeOK, WorkerInv,
      CaptureInv, ReadingsAreFresh, Steps, uiVars, workVars

LEMMA PressStopIInv == IInv /\ PressStop => IInv'
  BY BoundsAssumption
  DEF PressStop, CanPress, IInv, TypeOK, UITypeOK, WorkerTypeOK, WorkerInv,
      CaptureInv, ReadingsAreFresh, Steps, uiVars, workVars

LEMMA DeliverIInv == IInv /\ Deliver => IInv'
  BY BoundsAssumption
  DEF Deliver, Failures, IInv, TypeOK, UITypeOK, WorkerTypeOK, WorkerInv,
      CaptureInv, ReadingsAreFresh, Steps, uiVars, workVars

LEMMA DialogOkIInv == IInv /\ DialogOk => IInv'
  BY BoundsAssumption
  DEF DialogOk, IInv, TypeOK, UITypeOK, WorkerTypeOK, WorkerInv,
      CaptureInv, ReadingsAreFresh, Steps, uiVars, workVars

LEMMA DialogCancelIInv ==
  ASSUME IInv, DialogCancel
  PROVE  IInv'
  <1> USE BoundsAssumption DEF DialogCancel, uiVars, workVars
  <1>1. TypeOK'
    <2>1. UITypeOK'
      BY DEF IInv, TypeOK, UITypeOK, WorkerTypeOK
    <2>2. WorkerTypeOK'
      <3>1. conn' \in BOOLEAN
        BY Zenon DEF IInv, TypeOK, WorkerTypeOK
      <3> QED
        BY <3>1 DEF IInv, TypeOK, WorkerTypeOK, Steps
    <2>3. (mail \subseteq Mails)'
      BY DEF IInv, TypeOK, UITypeOK, WorkerTypeOK, WorkerInv
    <2> QED
      BY <2>1, <2>2, <2>3 DEF IInv, TypeOK
  <1>2. WorkerInv'
    BY DEF IInv, TypeOK, UITypeOK, WorkerTypeOK, WorkerInv
  <1>3. CaptureInv'
    BY DEF IInv, TypeOK, UITypeOK, WorkerTypeOK, WorkerInv, CaptureInv, ReadingsAreFresh
  <1> QED
    BY <1>1, <1>2, <1>3 DEF IInv

\* The steps of onHandleIntent.
LEMMA BeginIInv == IInv /\ Begin => IInv'
  BY BoundsAssumption
  DEF Begin, Note, IInv, TypeOK, UITypeOK, WorkerTypeOK, WorkerInv,
      CaptureInv, ReadingsAreFresh, Steps, uiVars, workVars

LEMMA FindDeviceIInv == IInv /\ FindDevice => IInv'
  BY BoundsAssumption
  DEF FindDevice, AbortCheck, Note, IInv, TypeOK, UITypeOK, WorkerTypeOK, WorkerInv,
      CaptureInv, ReadingsAreFresh, Steps, uiVars, workVars

LEMMA GrantedIInv == IInv /\ Granted => IInv'
  BY BoundsAssumption
  DEF Granted, GoTo, IInv, TypeOK, UITypeOK, WorkerTypeOK, WorkerInv,
      CaptureInv, ReadingsAreFresh, Steps, uiVars, workVars

LEMMA FinishWithErrorIInv ==
  ASSUME IInv, FinishWithError
  PROVE  IInv'
  <1> USE BoundsAssumption DEF FinishWithError, uiVars, workVars
  <1>1. TypeOK'
    <2>1. UITypeOK'
      BY DEF IInv, TypeOK, UITypeOK, WorkerTypeOK
    <2>2. WorkerTypeOK'
      <3>1. conn' \in BOOLEAN
        BY Zenon DEF IInv, TypeOK, WorkerTypeOK
      <3> QED
        BY <3>1 DEF IInv, TypeOK, WorkerTypeOK, Steps
    <2>3. (mail \subseteq Mails)'
      BY DEF IInv, TypeOK, UITypeOK, WorkerTypeOK, WorkerInv
    <2> QED
      BY <2>1, <2>2, <2>3 DEF IInv, TypeOK
  <1>2. WorkerInv'
    BY DEF IInv, TypeOK, UITypeOK, WorkerTypeOK, WorkerInv
  <1>3. CaptureInv'
    BY DEF IInv, TypeOK, UITypeOK, WorkerTypeOK, WorkerInv, CaptureInv, ReadingsAreFresh
  <1> QED
    BY <1>1, <1>2, <1>3 DEF IInv

LEMMA CaptureStartIInv == IInv /\ CaptureStart => IInv'
  BY SMTT(60), BoundsAssumption
  DEF CaptureStart, GoTo, AbortCheck, Note, IInv, TypeOK, UITypeOK, WorkerTypeOK, WorkerInv,
      CaptureInv, ReadingsAreFresh, Steps, uiVars, workVars

LEMMA CaptureRefusedIInv == IInv /\ CaptureRefused => IInv'
  BY BoundsAssumption
  DEF CaptureRefused, GoTo, AbortCheck, Note, IInv, TypeOK, UITypeOK, WorkerTypeOK, WorkerInv,
      CaptureInv, ReadingsAreFresh, Steps, uiVars, workVars

LEMMA CaptureEndIInv == IInv /\ CaptureEnd => IInv'
  BY BoundsAssumption
  DEF CaptureEnd, GoTo, AbortCheck, Note, IInv, TypeOK, UITypeOK, WorkerTypeOK, WorkerInv,
      CaptureInv, ReadingsAreFresh, Steps, uiVars, workVars

LEMMA AnalyseHereIInv ==
  ASSUME IInv, AnalyseHere
  PROVE  IInv'
  <1> USE BoundsAssumption DEF AnalyseHere, GoTo, AbortCheck, Note, uiVars
  <1>1. TypeOK'
    <2>1. UITypeOK'
      BY DEF IInv, TypeOK, UITypeOK
    <2>2. WorkerTypeOK'
      <3>1. conn' \in BOOLEAN
        BY Zenon DEF IInv, TypeOK, WorkerTypeOK
      <3> QED
        BY <3>1 DEF IInv, TypeOK, WorkerTypeOK, Steps
    <2>3. (mail \subseteq Mails)'
      BY DEF IInv, TypeOK, UITypeOK, WorkerTypeOK, WorkerInv
    <2> QED
      BY <2>1, <2>2, <2>3 DEF IInv, TypeOK
  <1>2. WorkerInv'
    BY DEF IInv, TypeOK, UITypeOK, WorkerTypeOK, WorkerInv
  <1>3. CaptureInv'
    BY DEF IInv, TypeOK, UITypeOK, WorkerTypeOK, WorkerInv, CaptureInv, ReadingsAreFresh
  <1> QED
    BY <1>1, <1>2, <1>3 DEF IInv

LEMMA LookUpIInv == IInv /\ LookUp => IInv'
  BY BoundsAssumption
  DEF LookUp, GoTo, AbortCheck, Note, IInv, TypeOK, UITypeOK, WorkerTypeOK, WorkerInv,
      CaptureInv, ReadingsAreFresh, Steps, uiVars, workVars

LEMMA ConnectIInv == IInv /\ Connect => IInv'
  BY SMTT(30), BoundsAssumption
  DEF Connect, GoTo, AbortCheckFtp, AbortCheck, Note, IInv, TypeOK, UITypeOK, WorkerTypeOK, WorkerInv,
      CaptureInv, ReadingsAreFresh, Steps, uiVars, workVars

LEMMA OpenFileIInv == IInv /\ OpenFile => IInv'
  BY SMTT(30), BoundsAssumption
  DEF OpenFile, GoTo, AbortCheckFtp, AbortCheck, Note, IInv, TypeOK, UITypeOK, WorkerTypeOK, WorkerInv,
      CaptureInv, ReadingsAreFresh, Steps, uiVars, workVars

LEMMA StoredIInv == IInv /\ Stored => IInv'
  BY BoundsAssumption
  DEF Stored, GoTo, IInv, TypeOK, UITypeOK, WorkerTypeOK, WorkerInv,
      CaptureInv, ReadingsAreFresh, Steps, uiVars, workVars

LEMMA StoreThrowsIInv == IInv /\ StoreThrows => IInv'
  BY BoundsAssumption
  DEF StoreThrows, IInv, TypeOK, UITypeOK, WorkerTypeOK, WorkerInv,
      CaptureInv, ReadingsAreFresh, Steps, uiVars, workVars

LEMMA CheckStoredIInv == IInv /\ CheckStored => IInv'
  BY SMTT(30), BoundsAssumption
  DEF CheckStored, GoTo, AbortCheckFtp, AbortCheck, Note, IInv, TypeOK, UITypeOK, WorkerTypeOK, WorkerInv,
      CaptureInv, ReadingsAreFresh, Steps, uiVars, workVars

LEMMA ReadReplyIInv ==
  ASSUME IInv, ReadReply
  PROVE  IInv'
  <1> USE BoundsAssumption DEF ReadReply, AbortCheck, Note, uiVars, workVars
  <1>1. TypeOK'
    <2>1. UITypeOK'
      BY DEF IInv, TypeOK, UITypeOK, WorkerTypeOK
    <2>2. WorkerTypeOK'
      <3>1. conn' \in BOOLEAN
        BY Zenon DEF IInv, TypeOK, WorkerTypeOK
      <3> QED
        BY <3>1 DEF IInv, TypeOK, WorkerTypeOK, Steps
    <2>3. (mail \subseteq Mails)'
      BY DEF IInv, TypeOK, UITypeOK, WorkerTypeOK, WorkerInv
    <2> QED
      BY <2>1, <2>2, <2>3 DEF IInv, TypeOK
  <1>2. WorkerInv'
    BY DEF IInv, TypeOK, UITypeOK, WorkerTypeOK, WorkerInv
  <1>3. CaptureInv'
    BY DEF IInv, TypeOK, UITypeOK, WorkerTypeOK, WorkerInv, CaptureInv, ReadingsAreFresh
  <1> QED
    BY <1>1, <1>2, <1>3 DEF IInv

LEMMA SendSampleIInv == IInv /\ SendSample => IInv'
  BY BoundsAssumption
  DEF SendSample, GoTo, AbortCheck, Note, IInv, TypeOK, UITypeOK, WorkerTypeOK, WorkerInv,
      CaptureInv, ReadingsAreFresh, Steps, uiVars, workVars

LEMMA NoSampleIInv == IInv /\ NoSample => IInv'
  BY BoundsAssumption
  DEF NoSample, GoTo, IInv, TypeOK, UITypeOK, WorkerTypeOK, WorkerInv,
      CaptureInv, ReadingsAreFresh, Steps, uiVars, workVars

LEMMA FinishIInv ==
  ASSUME IInv, Finish
  PROVE  IInv'
  <1> USE BoundsAssumption DEF Finish, Note, uiVars
  <1>1. Note("completeok") \in Mails
    BY DEF IInv, TypeOK, UITypeOK, WorkerTypeOK, WorkerInv
  <1>2. TypeOK'
    <2>1. UITypeOK'
      BY DEF IInv, TypeOK, UITypeOK
    <2>2. WorkerTypeOK'
      <3>1. conn' \in BOOLEAN
        BY Zenon DEF IInv, TypeOK, WorkerTypeOK
      <3> QED
        BY <3>1 DEF IInv, TypeOK, WorkerTypeOK, Steps
    <2> QED
      BY <1>1, <2>1, <2>2 DEF IInv, TypeOK
  <1>3. WorkerInv'
    BY DEF IInv, TypeOK, UITypeOK, WorkerTypeOK, WorkerInv
  <1>4. CaptureInv'
    BY DEF IInv, CaptureInv, ReadingsAreFresh
  <1> QED
    BY <1>2, <1>3, <1>4 DEF IInv

LEMMA NextIInv == IInv /\ [Next]_vars => IInv'
  <1> SUFFICES ASSUME IInv, [Next]_vars PROVE IInv'
    OBVIOUS
  <1>1. CASE UI
    <2>1. CASE OpenLog \/ Rotate
      BY <2>1, NewActivityIInv DEF OpenLog, Rotate
    <2>2. CASE DeliverToNobody \/ DeliverBeforeMenu
      BY <2>2, CrashIInv DEF DeliverToNobody, DeliverBeforeMenu
    <2> QED
      BY <1>1, <2>1, <2>2, LeaveIInv, CreateMenuIInv, PressStartIInv,
         PressAbortIInv, PressStopIInv, DeliverIInv, DialogOkIInv,
         DialogCancelIInv DEF UI
  <1>2. CASE Worker
    <2>1. CASE \/ NoDevice \/ OpenDeviceFails \/ NoServer \/ OpenFileFails
               \/ StoreGivesUp \/ LogoutFails
      BY <2>1, FailIInv
      DEF NoDevice, OpenDeviceFails, NoServer, OpenFileFails, StoreGivesUp,
          LogoutFails
    <2>2. CASE \/ FinishWithErrorGone \/ FinishWithErrorNoMenu
               \/ UseDisconnected \/ DecoderDies
      BY <2>2, CrashIInv
      DEF FinishWithErrorGone, FinishWithErrorNoMenu, UseDisconnected, DecoderDies
    <2> QED
      BY <1>2, <2>1, <2>2, TakeIntentIInv, BeginIInv, FindDeviceIInv,
         FinishWithErrorIInv, CaptureStartIInv, CaptureRefusedIInv,
         CaptureEndIInv, AnalyseHereIInv, LookUpIInv, ConnectIInv,
         OpenFileIInv, StoredIInv, StoreThrowsIInv, CheckStoredIInv,
         ReadReplyIInv, SendSampleIInv, NoSampleIInv, FinishIInv DEF Worker
  <1>3. CASE Granted
    BY <1>3, GrantedIInv
  <1>4. CASE UNCHANGED vars
    BY <1>4 DEF vars, uiVars, workVars, IInv, TypeOK, UITypeOK,
                WorkerTypeOK, WorkerInv, CaptureInv, ReadingsAreFresh
  <1> QED
    BY <1>1, <1>2, <1>3, <1>4 DEF Next

\* The inductive invariant holds in every reachable state.
LEMMA SpecIInv == Spec => []IInv
  BY InitIInv, NextIInv, PTL DEF Spec

\* Every variable keeps its type: in particular the retry counter stays within
\* maxTries and every broadcast names a registered receiver and a real job.
THEOREM TypeCorrect == Spec => []TypeOK
  <1>1. IInv => TypeOK
    BY DEF IInv
  <1> QED
    BY <1>1, SpecIInv, PTL

\* However many presses, activities, retries and crashes there are, a sample
\* sent for a press was captured after that press.
THEOREM FreshReadings == Spec => []ReadingsAreFresh
  <1>1. IInv => ReadingsAreFresh
    BY DEF IInv, CaptureInv
  <1> QED
    BY <1>1, SpecIInv, PTL

-----------------------------------------------------------------------------
(* RunningIsAccountedFor is inductive by itself, on top of IInv.            *)

\* Once the worker has left "idle", a step that does not end the job keeps the
\* job as the reason why the screen says "running".
LEMMA BusyRunning ==
  ASSUME pc' # "idle"
  PROVE  RunningIsAccountedFor'
  BY DEF RunningIsAccountedFor

\* The two ways onHandleIntent ends with a broadcast: it reaches every receiver
\* registered so far, the activity on the screen included.
LEMMA ReportRunning ==
  ASSUME NEW kind \in Kinds, IInv, mail' = mail \cup {Note(kind)},
         UNCHANGED uiVars
  PROVE  RunningIsAccountedFor'
  <1>1. Note(kind) \in mail' /\ Note(kind).upTo = created /\ created' = created
    BY DEF Note, uiVars
  <1>2. created <= created
    BY DEF IInv, TypeOK, UITypeOK
  <1>3. \E m \in mail' : created' <= m.upTo
    BY <1>1, <1>2
  <1> QED
    BY <1>3 DEF RunningIsAccountedFor

\* An activity that left the screen says nothing.
LEMMA HiddenRunning ==
  ASSUME shown' = FALSE
  PROVE  RunningIsAccountedFor'
  BY DEF RunningIsAccountedFor

LEMMA UIRunning ==
  ASSUME IInv, RunningIsAccountedFor, UI
  PROVE  RunningIsAccountedFor'
  <1> USE BoundsAssumption DEF RunningIsAccountedFor, workVars
  <1>1. CASE OpenLog \/ Rotate
    BY <1>1 DEF OpenLog, Rotate, NewActivity, IInv, TypeOK, UITypeOK
  <1>2. CASE Leave
    BY <1>2 DEF Leave
  <1>3. CASE CreateMenu
    BY <1>3 DEF CreateMenu
  <1>4. CASE PressStart
    <2>1. intents' # <<>>
      BY SMTT(30), <1>4 DEF PressStart, cacheDir, IInv, TypeOK
    <2> QED
      BY <2>1
  <1>5. CASE PressAbort
    BY <1>5 DEF PressAbort
  <1>6. CASE PressStop
    BY <1>6 DEF PressStop, IInv, TypeOK, UITypeOK, WorkerInv
  <1>7. CASE Deliver
    <2> SUFFICES ASSUME shown', running'[created']
                 PROVE  \/ intents' # <<>>
                        \/ pc' # "idle"
                        \/ \E d \in dialogs' : d.owner = created'
                        \/ created' \in cancelled'
      OBVIOUS
    <2>1. /\ created \in Acts
          /\ running[created]
          /\ ~\E m \in mail : m.kind = "completeok" /\ created <= m.upTo
      <3>1. created' = created /\ shown
        BY <1>7 DEF Deliver
      <3>2. created \in Acts
        BY <3>1 DEF IInv, TypeOK, UITypeOK, WorkerInv
      <3>3. running'[created] = (running[created] /\ ~\E m \in mail :
                                    m.kind = "completeok" /\ created <= m.upTo)
        BY <1>7, <3>2, Zenon DEF Deliver
      <3> QED
        BY <3>1, <3>2, <3>3
    <2>2. CASE \E m \in mail : created <= m.upTo
      <3>1. PICK m \in mail : created <= m.upTo
        BY <2>2
      <3>2. m.kind = "failure" /\ m.job \in Jobs
        BY <2>1, <3>1 DEF IInv, TypeOK
      <3>3. [owner |-> created, job |-> m.job] \in dialogs'
        BY <1>7, <2>1, <3>1, <3>2 DEF Deliver, Failures
      <3> QED
        BY <1>7, <3>3 DEF Deliver
    <2> QED
      BY <1>7, <2>1, <2>2 DEF Deliver
  <1>8. CASE DeliverToNobody \/ DeliverBeforeMenu
    BY <1>8, HiddenRunning DEF DeliverToNobody, DeliverBeforeMenu, Crash
  <1>9. CASE DialogOk
    <2>1. PICK d \in dialogs :
            /\ dialogs' = dialogs \ {d}
            /\ running' = [running EXCEPT ![d.owner] = FALSE]
      BY <1>9 DEF DialogOk
    <2>2. CASE d.owner = created
      BY <1>9, <2>1, <2>2 DEF DialogOk, IInv, TypeOK, UITypeOK, WorkerInv
    <2>3. CASE d.owner # created
      BY <1>9, <2>1, <2>3 DEF DialogOk, IInv, TypeOK, UITypeOK
    <2> QED
      BY <2>2, <2>3
  <1>10. CASE DialogCancel
    <2>1. PICK d \in dialogs :
            /\ dialogs' = dialogs \ {d}
            /\ cancelled' = cancelled \cup {d.owner}
            /\ UNCHANGED <<created, shown, running, intents, pc, mail>>
      BY <1>10 DEF DialogCancel
    <2> QED
      BY <2>1
  <1> QED
    BY <1>1, <1>2, <1>3, <1>4, <1>5, <1>6, <1>7, <1>8, <1>9, <1>10 DEF UI

LEMMA WorkerRunning ==
  ASSUME IInv, RunningIsAccountedFor, Worker
  PROVE  RunningIsAccountedFor'
  <1>1. CASE \/ NoDevice \/ OpenDeviceFails \/ NoServer \/ OpenFileFails
             \/ StoreGivesUp \/ LogoutFails
    <2>1. Fail
      BY <1>1 DEF NoDevice, OpenDeviceFails, NoServer, OpenFileFails,
                  StoreGivesUp, LogoutFails
    <2> QED
      BY <2>1, ReportRunning DEF Fail
  <1>2. CASE Finish
    BY <1>2, ReportRunning DEF Finish
  <1>3. CASE \/ FinishWithError \/ FinishWithErrorGone
             \/ FinishWithErrorNoMenu \/ UseDisconnected \/ DecoderDies
    BY <1>3, HiddenRunning
    DEF FinishWithError, FinishWithErrorGone, FinishWithErrorNoMenu,
        UseDisconnected, DecoderDies, Crash
  <1>4. CASE \/ TakeIntent \/ Begin \/ FindDevice \/ CaptureStart
             \/ CaptureRefused \/ CaptureEnd \/ AnalyseHere \/ LookUp
    <2>1. pc' # "idle"
      BY <1>4 DEF TakeIntent, Begin, FindDevice, CaptureStart, CaptureRefused,
                  CaptureEnd, AnalyseHere, LookUp, GoTo
    <2> QED
      BY <2>1, BusyRunning
  <1>5. CASE \/ Connect \/ OpenFile \/ Stored \/ StoreThrows \/ CheckStored
             \/ ReadReply \/ SendSample \/ NoSample
    <2>1. pc' # "idle"
      BY <1>5 DEF Connect, OpenFile, Stored, StoreThrows, CheckStored,
                  ReadReply, SendSample, NoSample, GoTo
    <2> QED
      BY <2>1, BusyRunning
  <1> QED
    BY <1>1, <1>2, <1>3, <1>4, <1>5 DEF Worker

\* The button never hangs: whenever the screen says "running", a pending intent,
\* job, broadcast or error box will still change it, or the user closed the box
\* with Back.
THEOREM RunningAccounted == Spec => []RunningIsAccountedFor
  <1>1. Init => RunningIsAccountedFor
    BY DEF Init, RunningIsAccountedFor
  <1>2. IInv /\ RunningIsAccountedFor /\ [Next]_vars => RunningIsAccountedFor'
    <2> SUFFICES ASSUME IInv, RunningIsAccountedFor, [Next]_vars
                 PROVE  RunningIsAccountedFor'
      OBVIOUS
    <2>1. CASE Granted
      BY <2>1, BusyRunning DEF Granted, GoTo
    <2>2. CASE UNCHANGED vars
      BY <2>2 DEF vars, uiVars, workVars, RunningIsAccountedFor
    <2> QED
      BY <2>1, <2>2, UIRunning, WorkerRunning DEF Next
  <1> QED
    BY <1>1, <1>2, SpecIInv, PTL DEF Spec

-----------------------------------------------------------------------------
(* A user who neither stops, turns the phone nor leaves.                   *)

\* A press, a job of the service or a broadcast is on its way.
Busy == intents # <<>> \/ pc # "idle" \/ mail # {}

\* The user does nothing but start readings and close error boxes.
Patient == UserActs \cap {"stop", "rotate", "leave"} = {}

\* What keeps a patient user safe: one thing at a time is on its way, and then
\* the activity that asked for it is on the screen, says so and shows no box;
\* every activity had its menu before it was left; nobody asked to abort, so the
\* client stays connected from the login to the reply.
PatientInv ==
    /\ crashes \subseteq {"decoder"}
    /\ \A a \in Acts : ~abort[a]
    /\ \A a \in Acts : a < created \/ (a = created /\ ~shown) => a \in menus
    /\ Busy => shown /\ running[created] /\ dialogs = {} /\ created \in menus
    /\ pc # "idle" => intents = <<>> /\ mail = {}
    /\ mail # {} => intents = <<>>
    /\ \A m \in mail : m.upTo <= created
    /\ Len(intents) <= 1
    /\ pc \notin {"idle", "sleep"} => wact = created
    /\ pc \in {"cwd", "store", "stored", "reply"} => conn

\* Nobody asked to abort: the checks announce nothing.
LEMMA NoAbort ==
  ASSUME IInv, PatientInv, pc \notin {"idle", "sleep"}
  PROVE  /\ wact = created /\ ~abort[wact]
         /\ AbortCheck => mail' = mail
         /\ AbortCheckFtp => mail' = mail /\ conn' = TRUE
  <1>1. wact = created /\ created \in Acts
    BY DEF IInv, TypeOK, UITypeOK, WorkerInv, PatientInv
  <1>2. ~abort[wact]
    BY <1>1 DEF PatientInv
  <1> QED
    BY <1>1, <1>2 DEF AbortCheck, AbortCheckFtp

\* A step of onHandleIntent that does not end it.
LEMMA WorkOn ==
  ASSUME PatientInv, pc # "idle", pc' # "idle", mail' = mail, intents' = intents,
         crashes' = crashes, UNCHANGED uiVars,
         pc' \notin {"idle", "sleep"} => wact' = created,
         pc' \in {"cwd", "store", "stored", "reply"} => conn'
  PROVE  PatientInv'
  <1>1. /\ created' = created /\ shown' = shown /\ menus' = menus
        /\ running' = running /\ abort' = abort /\ dialogs' = dialogs
    BY DEF uiVars
  <1> QED
    BY <1>1 DEF PatientInv, Busy

\* A step that ends it with a broadcast.
LEMMA WorkEnds ==
  ASSUME PatientInv, pc # "idle", pc' = "idle", intents' = intents,
         crashes' = crashes, UNCHANGED uiVars, IInv,
         NEW kind \in Kinds, mail' = mail \cup {Note(kind)}
  PROVE  PatientInv'
  <1>1. /\ created' = created /\ shown' = shown /\ menus' = menus
        /\ running' = running /\ abort' = abort /\ dialogs' = dialogs
    BY DEF uiVars
  <1>2. \A m \in mail' : m.upTo <= created
    <2>1. Note(kind).upTo <= created
      BY DEF Note, IInv, TypeOK, UITypeOK
    <2> QED
      BY <2>1 DEF PatientInv
  <1> QED
    BY <1>1, <1>2 DEF PatientInv, Busy

LEMMA PatientUI ==
  ASSUME Patient, IInv, PatientInv, UI
  PROVE  PatientInv'
  <1>t. /\ created \in 0..MaxActs /\ running \in [Acts -> BOOLEAN]
        /\ abort \in [Acts -> BOOLEAN] /\ menus \subseteq Acts
        /\ intents \in Seq(Jobs) /\ starts \in Nat /\ MaxActs \in Nat /\ MaxJobs \in Nat
        /\ mail \subseteq Mails
    BY BoundsAssumption DEF IInv, TypeOK, UITypeOK
  <1>1. CASE OpenLog
    <2>1. /\ ~shown /\ created < MaxActs /\ created' = created + 1 /\ shown' = TRUE
          /\ menus' = menus \ {created + 1}
          /\ abort' = [abort EXCEPT ![created + 1] = FALSE]
          /\ dialogs' = {} /\ intents' = intents /\ pc' = pc /\ wact' = wact
          /\ conn' = conn /\ mail' = mail /\ crashes' = crashes
      BY <1>1 DEF OpenLog, NewActivity, workVars
    <2>2. intents = <<>> /\ pc = "idle" /\ mail = {}
      BY <2>1 DEF PatientInv, Busy
    <2>3. \A a \in Acts : ~abort'[a]
      BY <2>1, <1>t DEF PatientInv
    <2>4. \A a \in Acts : a < created' \/ (a = created' /\ ~shown') => a \in menus'
      BY <2>1, <1>t DEF PatientInv
    <2> QED
      BY <2>1, <2>2, <2>3, <2>4 DEF PatientInv, Busy
  <1>2. CASE Rotate \/ Leave \/ PressAbort \/ PressStop
    BY <1>2 DEF Patient, Rotate, Leave, PressAbort, PressStop
  <1>3. CASE CreateMenu
    <2>1. /\ menus' = menus \cup {created} /\ created' = created /\ shown' = shown
          /\ running' = running /\ abort' = abort /\ dialogs' = dialogs
          /\ intents' = intents /\ pc' = pc /\ wact' = wact
          /\ conn' = conn /\ mail' = mail /\ crashes' = crashes
      BY <1>3 DEF CreateMenu, workVars
    <2> QED
      BY <2>1 DEF PatientInv, Busy
  <1>4. CASE PressStart
    <2>1. /\ shown /\ created \in menus /\ dialogs = {} /\ ~running[created]
          /\ running' = [running EXCEPT ![created] = TRUE]
          /\ abort' = [abort EXCEPT ![created] = FALSE]
          /\ intents' = Append(intents, starts + 1)
          /\ created' = created /\ shown' = shown /\ menus' = menus /\ dialogs' = dialogs
          /\ pc' = pc /\ wact' = wact /\ conn' = conn /\ mail' = mail
          /\ crashes' = crashes
      BY <1>4 DEF PressStart, CanPress, workVars
    <2>2. intents = <<>> /\ pc = "idle" /\ mail = {}
      BY <2>1 DEF PatientInv, Busy
    <2>3. intents' # <<>> /\ Len(intents') = 1
      BY <2>1, <2>2
    <2>4. created \in Acts
      BY <2>1, <1>t
    <2>5. running'[created']
      BY <2>1, <2>4, <1>t
    <2>6. \A a \in Acts : ~abort'[a]
      BY <2>1, <1>t DEF PatientInv
    <2> QED
      BY <2>1, <2>2, <2>3, <2>5, <2>6 DEF PatientInv, Busy
  <1>5. CASE Deliver
    <2>1. /\ mail # {} /\ mail' = {} /\ created' = created /\ shown' = shown
          /\ menus' = menus /\ abort' = abort /\ intents' = intents
          /\ pc' = pc /\ wact' = wact /\ conn' = conn /\ crashes' = crashes
      BY <1>5 DEF Deliver, workVars
    <2>2. intents = <<>> /\ pc = "idle"
      BY <2>1 DEF PatientInv
    <2> QED
      BY <2>1, <2>2 DEF PatientInv, Busy
  <1>6. CASE DeliverToNobody
    <2>1. mail # {} /\ ~shown
      BY <1>6 DEF DeliverToNobody, Failures
    <2> QED
      BY <2>1 DEF PatientInv, Busy
  <1>7. CASE DeliverBeforeMenu
    <2>1. PICK m \in mail : \E a \in 1..m.upTo : a \notin menus
      BY <1>7 DEF DeliverBeforeMenu, MenuMissing
    <2>2. PICK a \in 1..m.upTo : a \notin menus
      BY <2>1
    <2>3. m.upTo <= created
      BY DEF PatientInv
    <2>4. a \in Acts /\ a <= created
      BY <2>3, <1>t
    <2>5. created \in menus
      BY DEF PatientInv, Busy
    <2>6. a < created
      BY <2>2, <2>4, <2>5, <1>t
    <2> QED
      BY <2>2, <2>4, <2>6 DEF PatientInv
  <1>8. CASE DialogOk
    <2>1. PICK d \in dialogs :
             /\ running' = [running EXCEPT ![d.owner] = FALSE]
             /\ abort' = [abort EXCEPT ![d.owner] = FALSE]
             /\ created' = created /\ shown' = shown /\ menus' = menus
             /\ intents' = intents /\ pc' = pc /\ wact' = wact
             /\ conn' = conn /\ mail' = mail /\ crashes' = crashes
      BY <1>8 DEF DialogOk, workVars
    <2>2. intents = <<>> /\ pc = "idle" /\ mail = {}
      BY <2>1 DEF PatientInv, Busy
    <2>3. \A a \in Acts : ~abort'[a]
      BY <2>1, <1>t DEF PatientInv
    <2> QED
      BY <2>1, <2>2, <2>3 DEF PatientInv, Busy
  <1>9. CASE DialogCancel
    <2>1. /\ dialogs # {} /\ created' = created /\ shown' = shown
          /\ menus' = menus /\ running' = running /\ abort' = abort
          /\ intents' = intents /\ pc' = pc /\ wact' = wact
          /\ conn' = conn /\ mail' = mail /\ crashes' = crashes
      BY <1>9 DEF DialogCancel, workVars
    <2>2. intents = <<>> /\ pc = "idle" /\ mail = {}
      BY <2>1 DEF PatientInv, Busy
    <2> QED
      BY <2>1, <2>2 DEF PatientInv, Busy
  <1> QED
    BY <1>1, <1>2, <1>3, <1>4, <1>5, <1>6, <1>7, <1>8, <1>9 DEF UI

LEMMA PatientWorker ==
  ASSUME IInv, PatientInv, Worker
  PROVE  PatientInv'
  <1>1. CASE \/ NoDevice \/ OpenDeviceFails \/ NoServer \/ OpenFileFails
             \/ StoreGivesUp \/ LogoutFails
    <2>1. Fail /\ pc # "idle"
      BY <1>1 DEF NoDevice, OpenDeviceFails, NoServer, OpenFileFails,
                  StoreGivesUp, LogoutFails
    <2>2. pc' = "idle" /\ mail' = mail \cup {Note("failure")}
          /\ intents' = intents /\ crashes' = crashes /\ UNCHANGED uiVars
      BY <2>1 DEF Fail
    <2> QED
      BY <2>1, <2>2, WorkEnds
  <1>2. CASE Finish
    <2>1. pc = "finish" /\ pc' = "idle" /\ mail' = mail \cup {Note("completeok")}
          /\ intents' = intents /\ crashes' = crashes /\ UNCHANGED uiVars
      BY <1>2 DEF Finish
    <2> QED
      BY <2>1, WorkEnds
  <1>3. CASE FinishWithError
    <2>1. /\ pc = "open" /\ wact \in menus /\ shown' = FALSE /\ dialogs' = {} /\ pc' = "idle"
          /\ created' = created /\ menus' = menus /\ abort' = abort
          /\ intents' = intents /\ mail' = mail /\ crashes' = crashes
      BY <1>3 DEF FinishWithError
    <2>2. intents = <<>> /\ mail = {} /\ created \in menus
      BY <2>1 DEF PatientInv, Busy
    <2>3. created \in Nat
      BY DEF IInv, TypeOK, UITypeOK
    <2> QED
      BY <2>1, <2>2, <2>3 DEF PatientInv, Busy
  <1>4. CASE FinishWithErrorGone \/ FinishWithErrorNoMenu
    <2>1. pc = "open" /\ (~shown \/ wact \notin menus)
      BY <1>4 DEF FinishWithErrorGone, FinishWithErrorNoMenu
    <2> QED
      BY <2>1 DEF PatientInv, Busy
  <1>5. CASE UseDisconnected
    BY <1>5 DEF UseDisconnected, PatientInv
  <1>6. CASE TakeIntent
    <2>1. /\ pc = "idle" /\ intents # <<>> /\ pc' = "sleep" /\ intents' = Tail(intents)
          /\ mail' = mail /\ crashes' = crashes /\ UNCHANGED uiVars
      BY <1>6 DEF TakeIntent
    <2>2. intents' = <<>>
      <3>1. intents \in Seq(Jobs) /\ Len(intents) <= 1
        BY DEF IInv, TypeOK, PatientInv
      <3> QED
        BY <3>1, <2>1
    <2>3. mail = {}
      BY <2>1 DEF PatientInv
    <2>4. /\ created' = created /\ shown' = shown /\ menus' = menus
          /\ running' = running /\ abort' = abort /\ dialogs' = dialogs
      BY <2>1 DEF uiVars
    <2>5. Len(intents') = 0
      BY <2>2
    <2> QED
      BY <2>1, <2>2, <2>3, <2>4, <2>5 DEF PatientInv, Busy
  <1>7. CASE Begin
    <2>1. /\ pc = "sleep" /\ pc' = "find" /\ wact' = created
          /\ mail' = IF abort[created] THEN mail \cup {Note("completeok")} ELSE mail
          /\ intents' = intents /\ crashes' = crashes /\ UNCHANGED uiVars
      BY <1>7 DEF Begin
    <2>2. created \in Acts
      BY <2>1 DEF IInv, TypeOK, UITypeOK, WorkerInv
    <2>3. mail' = mail
      BY <2>1, <2>2 DEF PatientInv
    <2> QED
      BY <2>1, <2>3, WorkOn
  <1>8. CASE \/ FindDevice \/ CaptureStart \/ CaptureRefused \/ CaptureEnd
             \/ AnalyseHere \/ LookUp \/ SendSample
    <2>1. /\ pc \notin {"idle", "sleep"} /\ AbortCheck /\ wact' = wact
          /\ pc' \notin {"idle", "sleep", "cwd", "store", "stored", "reply"}
          /\ intents' = intents /\ crashes' = crashes /\ UNCHANGED uiVars
      BY <1>8 DEF FindDevice, CaptureStart, CaptureRefused, CaptureEnd,
                  AnalyseHere, LookUp, SendSample, GoTo
    <2> QED
      BY <2>1, NoAbort, WorkOn
  <1>9. CASE Connect \/ OpenFile \/ CheckStored
    <2>1. /\ pc \notin {"idle", "sleep"} /\ AbortCheckFtp /\ wact' = wact
          /\ pc' \notin {"idle", "sleep"}
          /\ intents' = intents /\ crashes' = crashes /\ UNCHANGED uiVars
      BY <1>9 DEF Connect, OpenFile, CheckStored, GoTo
    <2> QED
      BY <2>1, NoAbort, WorkOn
  <1>10. CASE ReadReply
    <2>1. /\ pc \notin {"idle", "sleep"} /\ AbortCheck /\ wact' = wact
          /\ pc' \in {"report", "noreading"}
          /\ intents' = intents /\ crashes' = crashes /\ UNCHANGED uiVars
      BY <1>10 DEF ReadReply
    <2> QED
      BY <2>1, NoAbort, WorkOn
  <1>11. CASE Stored \/ StoreThrows \/ NoSample
    <2>1. /\ pc \notin {"idle", "sleep"} /\ mail' = mail /\ wact' = wact
          /\ pc' \notin {"idle", "sleep"} /\ conn' = conn
          /\ pc' \in {"cwd", "store", "stored", "reply"} => conn
          /\ intents' = intents /\ crashes' = crashes /\ UNCHANGED uiVars
      BY <1>11 DEF Stored, StoreThrows, NoSample, GoTo
    <2>2. wact = created
      BY <2>1 DEF PatientInv
    <2> QED
      BY <2>1, <2>2, WorkOn
  <1>12. CASE DecoderDies
    <2>1. /\ pc' = "idle" /\ intents' = <<>> /\ mail' = {} /\ created' = 0
          /\ shown' = FALSE /\ abort' = [a \in Acts |-> FALSE]
          /\ crashes' = crashes \cup {"decoder"}
      BY <1>12 DEF DecoderDies, Crash
    <2>2. \A a \in Acts : ~abort'[a] /\ ~(a < created') /\ a # created'
      BY <2>1, BoundsAssumption
    <2> QED
      BY <2>1, <2>2 DEF PatientInv, Busy
  <1> QED
    BY <1>1, <1>2, <1>3, <1>4, <1>5, <1>6, <1>7, <1>8, <1>9, <1>10, <1>11, <1>12
    DEF Worker

LEMMA PatientStep ==
  ASSUME Patient, IInv, PatientInv, [Next]_vars
  PROVE  PatientInv'
  <1>1. CASE UI
    BY <1>1, PatientUI
  <1>2. CASE Worker
    BY <1>2, PatientWorker
  <1>3. CASE Granted
    <2>1. /\ pc = "permit" /\ mail' = mail /\ wact' = wact /\ pc' = "open"
          /\ intents' = intents /\ crashes' = crashes /\ UNCHANGED uiVars
      BY <1>3 DEF Granted, GoTo
    <2>2. wact = created
      BY <2>1 DEF PatientInv
    <2> QED
      BY <2>1, <2>2, WorkOn
  <1>4. CASE UNCHANGED vars
    BY <1>4 DEF vars, uiVars, workVars, PatientInv, Busy
  <1> QED
    BY <1>1, <1>2, <1>3, <1>4 DEF Next

-----------------------------------------------------------------------------
(* A user who never asks to stop, whatever else he does.                   *)

\* No flag asks for an abort, so the client that has logged in stays connected
\* until the reply has been read.
NoStopInv ==
    /\ "ftp" \notin crashes
    /\ \A a \in Acts : ~abort[a]
    /\ pc \notin {"idle", "sleep"} => wact \in Acts
    /\ pc \in {"cwd", "store", "stored", "reply"} => conn

\* The death of the process for another reason leaves nothing to disconnect.
LEMMA NoStopCrash ==
  ASSUME NoStopInv, NEW cause \in {"menu", "window", "decoder"}, Crash(cause)
  PROVE  NoStopInv'
  BY DEF NoStopInv, Crash

LEMMA NoStopUI ==
  ASSUME "stop" \notin UserActs, IInv, NoStopInv, UI
  PROVE  NoStopInv'
  <1>t. abort \in [Acts -> BOOLEAN]
    BY DEF IInv, TypeOK, UITypeOK
  <1>1. CASE DeliverToNobody \/ DeliverBeforeMenu
    BY <1>1, NoStopCrash DEF DeliverToNobody, DeliverBeforeMenu
  <1>2. CASE PressAbort \/ PressStop
    BY <1>2 DEF PressAbort, PressStop
  <1>3. CASE OpenLog \/ Rotate
    <2>1. /\ abort' = [abort EXCEPT ![created + 1] = FALSE]
          /\ pc' = pc /\ wact' = wact /\ conn' = conn /\ crashes' = crashes
      BY <1>3 DEF OpenLog, Rotate, NewActivity, workVars
    <2> QED
      BY <1>t, <2>1 DEF NoStopInv
  <1>4. CASE PressStart
    <2>1. /\ abort' = [abort EXCEPT ![created] = FALSE]
          /\ pc' = pc /\ wact' = wact /\ conn' = conn /\ crashes' = crashes
      BY <1>4 DEF PressStart, workVars
    <2> QED
      BY <1>t, <2>1 DEF NoStopInv
  <1>5. CASE DialogOk
    <2>1. PICK d \in dialogs :
             /\ abort' = [abort EXCEPT ![d.owner] = FALSE]
             /\ pc' = pc /\ wact' = wact /\ conn' = conn /\ crashes' = crashes
      BY <1>5 DEF DialogOk, workVars
    <2> QED
      BY <1>t, <2>1 DEF NoStopInv
  <1>6. CASE Leave \/ CreateMenu \/ Deliver \/ DialogCancel
    <2>1. /\ abort' = abort
          /\ pc' = pc /\ wact' = wact /\ conn' = conn /\ crashes' = crashes
      BY <1>6 DEF Leave, CreateMenu, Deliver, DialogCancel, workVars
    <2> QED
      BY <2>1 DEF NoStopInv
  <1> QED
    BY <1>1, <1>2, <1>3, <1>4, <1>5, <1>6 DEF UI

LEMMA NoStopWorker ==
  ASSUME IInv, NoStopInv, Worker \/ Granted
  PROVE  NoStopInv'
  <1>1. CASE FinishWithErrorGone \/ FinishWithErrorNoMenu \/ DecoderDies
    BY <1>1, NoStopCrash
    DEF FinishWithErrorGone, FinishWithErrorNoMenu, DecoderDies
  <1>2. CASE UseDisconnected
    BY <1>2 DEF UseDisconnected, NoStopInv
  <1>3. CASE \/ NoDevice \/ OpenDeviceFails \/ NoServer \/ OpenFileFails
             \/ StoreGivesUp \/ LogoutFails \/ FinishWithError \/ Finish
    <2>1. pc' = "idle" /\ abort' = abort /\ crashes' = crashes
      BY <1>3 DEF NoDevice, OpenDeviceFails, NoServer, OpenFileFails,
                  StoreGivesUp, LogoutFails, Fail, FinishWithError, Finish, uiVars
    <2> QED
      BY <2>1 DEF NoStopInv
  <1>4. CASE TakeIntent
    <2>1. pc' = "sleep" /\ abort' = abort /\ crashes' = crashes
      BY <1>4 DEF TakeIntent, uiVars
    <2> QED
      BY <2>1 DEF NoStopInv
  <1>5. CASE Begin
    <2>1. pc = "sleep" /\ pc' = "find" /\ wact' = created
          /\ abort' = abort /\ crashes' = crashes
      BY <1>5 DEF Begin, uiVars
    <2>2. created \in Acts
      BY <2>1, BoundsAssumption DEF IInv, TypeOK, UITypeOK, WorkerInv
    <2> QED
      BY <2>1, <2>2 DEF NoStopInv
  <1>6. CASE \/ FindDevice \/ Granted \/ CaptureStart \/ CaptureRefused
             \/ CaptureEnd \/ AnalyseHere \/ LookUp \/ ReadReply \/ SendSample
             \/ NoSample
    <2>1. /\ pc \notin {"idle", "sleep"} /\ wact' = wact
          /\ pc' \notin {"cwd", "store", "stored", "reply"}
          /\ abort' = abort /\ crashes' = crashes
      BY <1>6 DEF FindDevice, Granted, CaptureStart, CaptureRefused, CaptureEnd,
                  AnalyseHere, LookUp, ReadReply, SendSample, NoSample, GoTo, uiVars
    <2> QED
      BY <2>1 DEF NoStopInv
  <1>7. CASE Connect \/ OpenFile \/ CheckStored
    <2>1. /\ pc \notin {"idle", "sleep"} /\ wact' = wact /\ AbortCheckFtp
          /\ abort' = abort /\ crashes' = crashes
      BY <1>7 DEF Connect, OpenFile, CheckStored, GoTo, uiVars
    <2>2. wact \in Acts /\ conn' = TRUE
      BY <2>1 DEF NoStopInv, AbortCheckFtp
    <2> QED
      BY <2>1, <2>2 DEF NoStopInv
  <1>8. CASE Stored \/ StoreThrows
    <2>1. /\ pc = "store" /\ wact' = wact /\ conn' = conn
          /\ abort' = abort /\ crashes' = crashes
      BY <1>8 DEF Stored, StoreThrows, GoTo, uiVars
    <2> QED
      BY <2>1 DEF NoStopInv
  <1> QED
    BY <1>1, <1>2, <1>3, <1>4, <1>5, <1>6, <1>7, <1>8 DEF Worker

\* What kills the process needs its cause in what the user does: without a request
\* to stop the FTP client is never used after it was disconnected, and a user who
\* only starts readings and closes error boxes meets no missing menu or window,
\* however often the radio, the network or the server fail.
THEOREM CrashCauses == Spec => []CrashNeedsItsUserAct
  <1> DEFINE CrashInv == /\ "stop" \notin UserActs => NoStopInv
                         /\ Patient => PatientInv
  <1>1. Init => CrashInv
    BY DEF Init, NoStopInv, PatientInv, Busy
  <1>2. IInv /\ CrashInv /\ [Next]_vars => CrashInv'
    <2> SUFFICES ASSUME IInv, CrashInv, [Next]_vars
                 PROVE  CrashInv'
      OBVIOUS
    <2>1. ASSUME Patient PROVE PatientInv'
      BY <2>1, PatientStep
    <2>2. ASSUME "stop" \notin UserActs PROVE NoStopInv'
      <3>1. CASE UNCHANGED vars
        BY <2>2, <3>1 DEF vars, uiVars, workVars, NoStopInv
      <3> QED
        BY <2>2, <3>1, NoStopUI, NoStopWorker DEF Next
    <2> QED
      BY <2>1, <2>2 DEF Patient
  <1>3. CrashInv => CrashNeedsItsUserAct
    BY DEF Patient, NoStopInv, PatientInv, CrashNeedsItsUserAct
  <1> QED
    BY <1>1, <1>2, <1>3, SpecIInv, PTL DEF Spec
=============================================================================
