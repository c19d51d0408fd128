----------------------------- MODULE FleetScreens -----------------------------
(***************************************************************************)
(* The screens of the phone that talk to the web site, on top of the       *)
(* session: the main screen, the log-in form, and the lists of vehicles,   *)
(* tyres and samples.                                                      *)
(*                                                                         *)
(* A list asks once in its life (serviceCallHandled) and gets its rows by a *)
(* local broadcast named after the URL.  The fleet list listens while it is *)
(* in front; the lists of tyres and samples register again whenever they   *)
(* come to the front and never unregister, so a list that was left still   *)
(* receives, and one that came back receives twice.                        *)
(*                                                                         *)
(* Screens change in two steps, as Android does it: what is in front is    *)
(* paused (front is FALSE), then the new top is resumed; answers may arrive *)
(* in between.                                                             *)
(***************************************************************************)
EXTENDS ApiSession, FiniteSets

CONSTANTS MaxScreens,   \* bound: lists opened
          MaxActs       \* bound: lists opened, log-ins, log-outs, absences

ASSUME ScreensAssumption ==
    /\ Urls = {"fleet", "vehicle", "tire"}
    /\ MaxScreens \in Nat /\ MaxActs \in Nat
    /\ Askers = 1..MaxScreens

VARIABLES front,        \* the top of the stack is in front
          buttons,      \* the main screen shows the buttons of a session
          form,         \* log-in forms opened so far
          formUp,       \* the newest form is on top
          busy,         \* its mAuthTask is not null
          creds,        \* the preferences hold a user and a password
          stack,        \* the lists above the main screen
          list,         \* the lists opened so far
          manager,      \* the LocalBroadcastManager exists
          acts          \* lists opened, log-ins, log-outs, absences so far

screenVars == <<front, buttons, form, formUp, busy, creds, stack, list, manager, acts>>
vars == <<sessionVars, screenVars>>

\* A list: its URL, whether it has asked, how often its receiver is registered,
\* how often it has added the rows of an answer, whether it was ever paused.
Lists == [url : Urls, asked : BOOLEAN, regs : Nat, rows : Nat, left : BOOLEAN]

TypeOK ==
    /\ SessionTypeOK
    /\ front \in BOOLEAN /\ buttons \in BOOLEAN /\ formUp \in BOOLEAN
    /\ busy \in BOOLEAN /\ creds \in BOOLEAN /\ manager \in BOOLEAN
    /\ form \in Forms \cup {0}
    /\ list \in Seq(Lists) /\ Len(list) <= MaxScreens
    /\ stack \in Seq(DOMAIN list)
    /\ acts \in 0..MaxActs

Init ==
    /\ SessionInit
    /\ front = FALSE /\ buttons = FALSE
    /\ form = 0 /\ formUp = FALSE /\ busy = FALSE
    /\ creds = FALSE
    /\ stack = <<>> /\ list = <<>>
    /\ manager = FALSE
    /\ acts = 0

-----------------------------------------------------------------------------
(* Coming to the front and leaving it.                                     *)

Top == stack[Len(stack)]
MainUp == front /\ ~formUp /\ stack = <<>>
ListUp == front /\ ~formUp /\ stack # <<>>

Act == acts < MaxActs /\ acts' = acts + 1

\* MainActivity.onResume: the buttons are chosen by the token of this moment.
ResumeMain ==
    /\ ~front /\ ~formUp /\ stack = <<>>
    /\ front' = TRUE
    /\ buttons' = (token # 0)
    /\ UNCHANGED <<sessionVars, form, formUp, busy, creds, stack, list, manager, acts>>

ResumeForm ==
    /\ ~front /\ formUp
    /\ front' = TRUE
    /\ UNCHANGED <<sessionVars, buttons, form, formUp, busy, creds, stack, list,
                   manager, acts>>

\* onResume of a list: register, and ask unless it has asked before or there
\* are no credentials to ask with.
ResumeList ==
    /\ ~front /\ ~formUp /\ stack # <<>>
    /\ front' = TRUE
    /\ manager' = TRUE
    /\ LET asks == creds /\ ~list[Top].asked
       IN  /\ list' = [list EXCEPT ![Top].regs = @ + 1,
                                   ![Top].asked = @ \/ asks]
           /\ IF asks
              THEN StartService([url |-> list[Top].url, by |-> Top])
              ELSE UNCHANGED sessionVars
    /\ UNCHANGED <<buttons, form, formUp, busy, creds, stack, acts>>

\* Mutants: onPause unregisters in every list, or in none.
PausedDeaf(l) == [l EXCEPT !.left = TRUE, !.regs = 0]
PausedListening(l) == [l EXCEPT !.left = TRUE]

\* onPause: only the fleet list unregisters.
Paused(l) == [l EXCEPT !.left = TRUE, !.regs = IF l.url = "fleet" THEN 0 ELSE @]

\* The top list, if a list is on top, is paused.
PauseTop == IF stack = <<>> THEN list ELSE [list EXCEPT ![Top] = Paused(@)]

\* Another application comes to the front for a while.
Leave ==
    /\ front
    /\ Act
    /\ front' = FALSE
    /\ list' = IF formUp THEN list ELSE PauseTop
    /\ UNCHANGED <<sessionVars, buttons, form, formUp, busy, creds, stack, manager>>

\* A new list on top of the stack s, and what is in front paused.
Push(s, url) ==
    /\ Len(list) < MaxScreens
    /\ Act
    /\ list' = Append(PauseTop,
            [url |-> url, asked |-> FALSE, regs |-> 0, rows |-> 0, left |-> FALSE])
    /\ stack' = Append(s, Len(list) + 1)
    /\ front' = FALSE
    /\ UNCHANGED <<sessionVars, buttons, form, formUp, busy, creds, manager>>

\* display_fleet, on a main screen that shows the button.
OpenFleet == MainUp /\ buttons /\ Push(stack, "fleet")

\* What the rows of a list open.
RowOpens == [fleet |-> "vehicle", vehicle |-> "tire"]

\* A row of the list is pressed.
OpenRow ==
    /\ ListUp /\ list[Top].rows > 0
    /\ list[Top].url \in DOMAIN RowOpens
    /\ Push(stack, RowOpens[list[Top].url])

\* The phone is turned: the list is made anew and asks anew.
Rotate ==
    /\ ListUp
    /\ Push(SubSeq(stack, 1, Len(stack) - 1), list[Top].url)

Back ==
    /\ ListUp
    /\ list' = PauseTop
    /\ stack' = SubSeq(stack, 1, Len(stack) - 1)
    /\ front' = FALSE
    /\ UNCHANGED <<sessionVars, buttons, form, formUp, busy, creds, manager, acts>>

-----------------------------------------------------------------------------
(* Logging in and out.                                                     *)

\* set_user_creds
OpenForm ==
    /\ MainUp /\ ~buttons
    /\ form + 1 \in Forms
    /\ form' = form + 1
    /\ formUp' = TRUE /\ busy' = FALSE
    /\ front' = FALSE
    /\ UNCHANGED <<sessionVars, buttons, creds, stack, list, manager, acts>>

\* attemptLogin: one task at a time per form; an empty password is let through.
AttemptLogin ==
    /\ front /\ formUp /\ ~busy
    /\ Act
    /\ creds' \in BOOLEAN
    /\ busy' = TRUE
    /\ Execute([op |-> "login", form |-> form])
    /\ UNCHANGED <<front, buttons, form, formUp, stack, list, manager>>

CloseForm ==
    /\ front /\ formUp
    /\ formUp' = FALSE
    /\ front' = FALSE
    /\ UNCHANGED <<sessionVars, buttons, form, busy, creds, stack, list, manager, acts>>

\* onPostExecute, for the form the task was started from.
PostExecute ==
    /\ posts # <<>>
    /\ posts' = Tail(posts)
    /\ LET mine == formUp /\ Head(posts).form = form
       IN  /\ busy' = (busy /\ Head(posts).form # form)
           /\ formUp' = (formUp /\ ~(mine /\ Head(posts).ok))
           /\ front' = (front /\ ~(mine /\ Head(posts).ok))
    /\ UNCHANGED <<token, live, reqs, intents, worker, tasks, task, failed, loggedOut, buttons, form, creds, stack, list, manager, acts>>

\* user_logout: the task is started and the main screen made anew, which takes
\* the credentials from the preferences again.
UserLogout ==
    /\ MainUp /\ buttons
    /\ Act
    /\ Execute([op |-> "logout", form |-> 0])
    /\ front' = FALSE
    /\ UNCHANGED <<buttons, form, formUp, busy, creds, stack, list, manager>>

-----------------------------------------------------------------------------
(* Answers.                                                                *)

\* handleServerResponse of the service: every registration for the URL is
\* called, whichever list asked.
Broadcast(url) ==
    list' = [i \in DOMAIN list |->
                [list[i] EXCEPT !.rows = IF list[i].url = url THEN @ + list[i].regs ELSE @]]

Deliver(r) ==
    \/ DeliverLogin(r) /\ UNCHANGED screenVars
    \/ DeliverError(r) /\ UNCHANGED screenVars
    \/ /\ DeliverResponse(r)
       /\ reqs[r].op = "sign_out" => manager
       /\ Broadcast(reqs[r].url)
       /\ UNCHANGED <<front, buttons, form, formUp, busy, creds, stack, manager, acts>>

\* The tasks use a service object without a context: if no screen has made the
\* broadcast manager yet, making it for the answer to a log-out throws on the
\* main thread.
DeliverLogoutDies(r) ==
    /\ reqs[r].st = "answered" /\ reqs[r].op = "sign_out" /\ ~manager
    /\ ProcessDies
    /\ front' = FALSE /\ buttons' = FALSE
    /\ formUp' = FALSE /\ busy' = FALSE
    /\ stack' = <<>>
    /\ list' = [i \in DOMAIN list |-> [list[i] EXCEPT !.regs = 0]]
    /\ UNCHANGED <<form, creds, manager, acts>>

-----------------------------------------------------------------------------
User == \/ ResumeMain \/ ResumeForm \/ ResumeList \/ Leave
        \/ OpenFleet \/ OpenRow \/ Rotate \/ Back
        \/ OpenForm \/ AttemptLogin \/ CloseForm \/ UserLogout

Threads == (Worker \/ Executor) /\ UNCHANGED screenVars

Volley(r) == (Dispatch(r) \/ Serve(r)) /\ UNCHANGED screenVars

Looper(r) == Deliver(r) \/ DeliverLogoutDies(r)

\* What runs without the user: the threads with the clock of their waits, Volley
\* with its two tries and time limits, and the looper.
Client == Threads \/ PostExecute \/ \E r \in Slots : Volley(r) \/ Looper(r)

Next == User \/ Client

\* The phone goes on working; nothing is asked of the user.
Spec == Init /\ [][Next]_vars /\ WF_vars(Client)

-----------------------------------------------------------------------------
(* Properties.                                                             *)

\* A list that has asked and shows nothing is still waiting for its answer, or
\* its query failed, or it is the fleet list and was not in front all the time:
\* the fleet list misses an answer that comes while it is paused and never asks
\* again, the other lists miss none.
EmptyListIsAccountedFor ==
    \A i \in DOMAIN list :
        (list[i].asked /\ list[i].rows = 0 /\ i \in {stack[n] : n \in DOMAIN stack}) =>
            \/ Pending(i)
            \/ i \in failed
            \/ list[i].url = "fleet" /\ list[i].left

\* The fleet list never shows the vehicles more often than fleet lists have
\* asked for them, however often it is left and comes back.
FleetListedOncePerQuery ==
    \A i \in DOMAIN list : list[i].url = "fleet" =>
        list[i].rows <= Cardinality({j \in DOMAIN list : list[j].url = "fleet" /\ list[j].asked})

\* The client always comes to rest again, with every query at an end and no
\* log-in form waiting, although nothing tells the waiting thread of a log-in that
\* failed.  (The acts of the user are bounded, so that each query and each attempt
\* has to end by itself.)
ClientSettles ==
    []<>(~(formUp /\ busy) /\ \A i \in 1..MaxScreens : ~Pending(i))
=============================================================================
