-------------------------- MODULE FleetScreensProofs --------------------------
(***************************************************************************)
(* The safety of the screens and their session (FleetScreens): the         *)
(* inductive invariant and the theorems, for any number of requests,       *)
(* sessions, lists, forms and acts of the user.                            *)
(*                                                                         *)
(* The invariant of the session alone is the matter of ApiSessionProofs.   *)
(* What the screens add is who listens, whose the outstanding queries are, *)
(* and that each answer a fleet list has shown was the end of a query.     *)
(***************************************************************************)
EXTENDS FleetScreens, ApiSessionProofs, FiniteSetTheorems

\* A form on top is one of the forms, and lies on the main screen.
FormOnMain == formUp => form \in Forms /\ stack = <<>>

\* Who listens: a fleet list only in front, and once; every other list that has
\* asked and is still on the stack.
FleetListens ==
    \A i \in DOMAIN list : (list[i].url = "fleet" /\ list[i].regs # 0) =>
        /\ front /\ ~formUp /\ stack # <<>>
        /\ i = Top /\ list[i].regs = 1

Stacked == {stack[n] : n \in DOMAIN stack}

AskersListen ==
    \A i \in Stacked :
        list[i].asked => list[i].regs # 0 \/ (list[i].url = "fleet" /\ list[i].left)

\* An outstanding query is the one its list has asked.
Asked(query) ==
    query.by \in DOMAIN list /\ list[query.by].asked /\ list[query.by].url = query.url
OwnQuery == \A query \in Outstanding : Asked(query)

\* The fleet lists that have asked, and those whose query has come to its end.
FleetAskers == {j \in DOMAIN list : list[j].url = "fleet" /\ list[j].asked}
Done == {j \in FleetAskers : \A query \in Outstanding : query.by # j}

\* Every answer that a fleet list shows was the end of a query.
Listed == \A i \in DOMAIN list : list[i].url = "fleet" => list[i].rows <= Cardinality(Done)

IInv ==
    /\ TypeOK
    /\ SessionInv
    /\ FormOnMain
    /\ FleetListens
    /\ AskersListen
    /\ OwnQuery
    /\ Listed
    /\ EmptyListIsAccountedFor

-----------------------------------------------------------------------------
(* Lists and the stack.                                                    *)

LEMMA ListFacts ==
    ASSUME TypeOK
    PROVE  /\ list \in Seq(Lists) /\ Len(list) \in Nat /\ DOMAIN list = 1..Len(list)
           /\ Len(list) <= MaxScreens
           /\ \A i \in DOMAIN list :
                 /\ i # 0 /\ i \in Askers
                 /\ list[i] \in Lists
                 /\ list[i].url \in Urls /\ list[i].asked \in BOOLEAN
                 /\ list[i].regs \in Nat /\ list[i].rows \in Nat /\ list[i].left \in BOOLEAN
           /\ Stacked \subseteq DOMAIN list
  <1>1. list \in Seq(Lists) /\ Len(list) <= MaxScreens /\ stack \in Seq(DOMAIN list)
    BY DEF TypeOK
  <1>2. Len(list) \in Nat /\ DOMAIN list = 1..Len(list)
    BY <1>1
  <1>3. \A i \in DOMAIN list : i # 0 /\ i \in Askers
    BY <1>1, <1>2, ScreensAssumption
  <1>4. \A i \in DOMAIN list : list[i] \in Lists
    BY <1>1
  <1>5. Stacked \subseteq DOMAIN list
    BY <1>1 DEF Stacked
  <1>. QED
    BY <1>1, <1>2, <1>3, <1>4, <1>5 DEF Lists

LEMMA TopFacts ==
    ASSUME TypeOK, stack # <<>>
    PROVE  Top \in DOMAIN list /\ Top \in Stacked
  <1>1. stack \in Seq(DOMAIN list) /\ Len(stack) \in DOMAIN stack
    BY DEF TypeOK
  <1>. QED
    BY <1>1 DEF Top, Stacked

LEMMA DoneFinite ==
    ASSUME TypeOK
    PROVE  /\ IsFiniteSet(FleetAskers) /\ IsFiniteSet(Done)
           /\ Cardinality(FleetAskers) \in Nat /\ Cardinality(Done) \in Nat
           /\ Cardinality(Done) <= Cardinality(FleetAskers)
  <1>1. IsFiniteSet(DOMAIN list)
    BY ListFacts, FS_Interval
  <1>2. IsFiniteSet(FleetAskers)
    BY <1>1, FS_Subset DEF FleetAskers
  <1>3. IsFiniteSet(Done) /\ Cardinality(Done) <= Cardinality(FleetAskers)
    BY <1>2, FS_Subset DEF Done
  <1>. QED
    BY <1>2, <1>3, FS_CardinalityType

\* The same facts, to be used of the state after a step.
DoneIsFinite ==
    /\ IsFiniteSet(Done)
    /\ Cardinality(Done) \in Nat

PendingIsOutstanding == \A i : i # 0 => (Pending(i) <=> \E q \in Outstanding : q.by = i)

LEMMA FactsNow == (TypeOK => DoneIsFinite) /\ (SessionInv => PendingIsOutstanding)
    BY DoneFinite, PendingOutstanding DEF DoneIsFinite, PendingIsOutstanding

LEMMA FactsNext == (TypeOK' => DoneIsFinite') /\ (SessionInv' => PendingIsOutstanding')
    BY FactsNow, PTL

\* What becomes of the lists in most steps: they keep what they ask for, whether
\* they have asked and what they show; a new one has not asked.
ListsKept ==
    /\ DOMAIN list \subseteq DOMAIN list'
    /\ \A i \in DOMAIN list :
          /\ list'[i].url = list[i].url
          /\ list'[i].asked = list[i].asked
          /\ list'[i].rows = list[i].rows
          /\ list[i].left => list'[i].left
    /\ \A i \in DOMAIN list' \ DOMAIN list : ~list'[i].asked /\ list'[i].rows = 0
    /\ Stacked' \cap DOMAIN list \subseteq Stacked

\* A query that comes to its end without an answer leaves its mark in failed.
LEMMA KeptSafe ==
    ASSUME IInv, SessionInv', TypeOK', ListsKept, failed \subseteq failed',
           Outstanding' \subseteq Outstanding,
           \A query \in Outstanding \ Outstanding' : query.by \in failed'
    PROVE  OwnQuery' /\ Listed' /\ EmptyListIsAccountedFor'
  <1>0. TypeOK /\ SessionInv /\ OwnQuery /\ Listed /\ EmptyListIsAccountedFor
    BY DEF IInv
  <1>1. OwnQuery'
    BY <1>0 DEF OwnQuery, Asked, ListsKept
  <1>2. Done \subseteq Done'
    BY DEF Done, FleetAskers, ListsKept
  <1>3. /\ IsFiniteSet(Done') /\ Cardinality(Done) <= Cardinality(Done')
        /\ Cardinality(Done) \in Nat /\ Cardinality(Done') \in Nat
    BY <1>0, <1>2, FactsNow, FactsNext, FS_Subset DEF DoneIsFinite
  <1>4. Listed'
    <2>. SUFFICES ASSUME NEW i \in DOMAIN list', list'[i].url = "fleet"
                  PROVE  list'[i].rows <= Cardinality(Done')
      BY DEF Listed
    <2>1. CASE i \in DOMAIN list
      <3>1. list[i].rows \in Nat /\ list'[i].rows = list[i].rows
            /\ list[i].rows <= Cardinality(Done)
        BY <1>0, <2>1, ListFacts DEF ListsKept, Listed
      <3>. QED
        BY <1>3, <3>1
    <2>2. CASE i \notin DOMAIN list
      BY <1>3, <2>2 DEF ListsKept
    <2>. QED
      BY <2>1, <2>2
  <1>5. EmptyListIsAccountedFor'
    <2>. SUFFICES ASSUME NEW i \in DOMAIN list', list'[i].asked, list'[i].rows = 0,
                         i \in Stacked'
                  PROVE  \/ Pending(i)' \/ i \in failed'
                         \/ list'[i].url = "fleet" /\ list'[i].left
      BY DEF EmptyListIsAccountedFor, Stacked
    <2>1. /\ i \in DOMAIN list /\ list[i].asked /\ list[i].rows = 0 /\ i \in Stacked
          /\ list'[i].url = list[i].url
          /\ list[i].left => list'[i].left
      BY DEF ListsKept
    <2>2. Pending(i) \/ i \in failed \/ (list[i].url = "fleet" /\ list[i].left)
      BY <1>0, <2>1 DEF EmptyListIsAccountedFor, Stacked
    <2>3. ASSUME Pending(i) PROVE Pending(i)' \/ i \in failed'
      <3>0. i # 0
        BY <1>0, <2>1, ListFacts
      <3>1. PICK query \in Outstanding : query.by = i
        BY <1>0, <2>3, <3>0, PendingOutstanding
      <3>2. CASE query \in Outstanding'
        BY <3>0, <3>1, <3>2, FactsNext DEF PendingIsOutstanding
      <3>. QED
        BY <3>1, <3>2
    <2>. QED
      BY <2>1, <2>2, <2>3
  <1>. QED
    BY <1>1, <1>4, <1>5

-----------------------------------------------------------------------------
(* Steps that leave the lists alone.                                       *)

\* The screens' part of the types.
ScreensTyped ==
    /\ front \in BOOLEAN /\ buttons \in BOOLEAN /\ formUp \in BOOLEAN
    /\ busy \in BOOLEAN /\ creds \in BOOLEAN /\ manager \in BOOLEAN
    /\ form \in Forms \cup {0}
    /\ list \in Seq(Lists) /\ Len(list) <= MaxScreens
    /\ stack \in Seq(DOMAIN list)
    /\ acts \in 0..MaxActs

LEMMA TypeParts == TypeOK <=> SessionTypeOK /\ ScreensTyped
    BY DEF TypeOK, ScreensTyped

LEMMA TypePartsNext == TypeOK' <=> SessionTypeOK' /\ ScreensTyped'
    BY TypeParts, PTL

LEMMA ActEffect ==
    ASSUME TypeOK, Act
    PROVE  acts' \in 0..MaxActs
    BY ScreensAssumption DEF TypeOK, Act

\* No fleet list listens while it is not in front.
LEMMA Deaf ==
    ASSUME IInv, formUp \/ ~front \/ stack = <<>>
    PROVE  \A i \in DOMAIN list : list[i].url = "fleet" => list[i].regs = 0
    BY DEF IInv, FleetListens

LEMMA Untouched ==
    ASSUME SessionInv, UNCHANGED sessionVars
    PROVE  SessionInv' /\ Outstanding' = Outstanding /\ failed' = failed
  <1>1. UNCHANGED <<token, live, reqs, intents, worker, tasks, task, posts, failed, loggedOut>>
    BY DEF sessionVars
  <1>2. [op |-> "logout", form |-> 0] \in Jobs
    BY DEF Jobs
  <1>3. SessionInv'
    BY <1>1, <1>2, ExecuteInv
  <1>4. Outstanding' = Outstanding
    BY <1>1, StillEffect, OutstandingKept DEF SessionInv
  <1>. QED
    BY <1>1, <1>3, <1>4

LEMMA SameListsInv ==
    ASSUME IInv, SessionInv', ScreensTyped', list' = list, stack' = stack,
           failed \subseteq failed', Outstanding' \subseteq Outstanding,
           \A query \in Outstanding \ Outstanding' : query.by \in failed',
           FormOnMain',
           \/ front' = front /\ formUp' = formUp
           \/ \A i \in DOMAIN list : list[i].url = "fleet" => list[i].regs = 0
    PROVE  IInv'
  <1>0. TypeOK'
    BY TypePartsNext DEF SessionInv
  <1>1. Stacked' = Stacked
    BY DEF Stacked
  <1>2. ListsKept
    BY <1>1 DEF ListsKept
  <1>3. OwnQuery' /\ Listed' /\ EmptyListIsAccountedFor'
    BY <1>0, <1>2, KeptSafe
  <1>4. FleetListens'
    BY DEF IInv, FleetListens, Top
  <1>5. AskersListen'
    BY <1>1 DEF IInv, AskersListen
  <1>. QED
    BY <1>0, <1>3, <1>4, <1>5 DEF IInv

LEMMA ResumeMainInv ==
    ASSUME IInv, ResumeMain
    PROVE  IInv'
  <1>1. /\ ~front /\ ~formUp /\ front' = TRUE /\ buttons' = (token # 0)
        /\ UNCHANGED <<sessionVars, form, formUp, busy, creds, stack, list, manager, acts>>
    BY DEF ResumeMain
  <1>2. SessionInv' /\ Outstanding' = Outstanding /\ failed' = failed
    BY <1>1, Untouched DEF IInv
  <1>3. ScreensTyped'
    BY <1>1, TypeParts DEF IInv, ScreensTyped
  <1>4. FormOnMain'
    BY <1>1 DEF FormOnMain
  <1>. QED
    BY <1>1, <1>2, <1>3, <1>4, Deaf, SameListsInv

LEMMA ResumeFormInv ==
    ASSUME IInv, ResumeForm
    PROVE  IInv'
  <1>1. /\ ~front /\ formUp /\ front' = TRUE
        /\ UNCHANGED <<sessionVars, buttons, form, formUp, busy, creds, stack, list, manager, acts>>
    BY DEF ResumeForm
  <1>2. SessionInv' /\ Outstanding' = Outstanding /\ failed' = failed
    BY <1>1, Untouched DEF IInv
  <1>3. ScreensTyped'
    BY <1>1, TypeParts DEF IInv, ScreensTyped
  <1>4. FormOnMain'
    BY <1>1 DEF IInv, FormOnMain
  <1>. QED
    BY <1>1, <1>2, <1>3, <1>4, Deaf, SameListsInv

LEMMA OpenFormInv ==
    ASSUME IInv, OpenForm
    PROVE  IInv'
  <1>1. /\ stack = <<>> /\ form + 1 \in Forms /\ form' = form + 1
        /\ formUp' = TRUE /\ busy' = FALSE /\ front' = FALSE
        /\ UNCHANGED <<sessionVars, buttons, creds, stack, list, manager, acts>>
    BY DEF OpenForm, MainUp
  <1>2. SessionInv' /\ Outstanding' = Outstanding /\ failed' = failed
    BY <1>1, Untouched DEF IInv
  <1>3. ScreensTyped'
    BY <1>1, TypeParts DEF IInv, ScreensTyped
  <1>4. FormOnMain'
    BY <1>1 DEF FormOnMain
  <1>. QED
    BY <1>1, <1>2, <1>3, <1>4, Deaf, SameListsInv

LEMMA CloseFormInv ==
    ASSUME IInv, CloseForm
    PROVE  IInv'
  <1>1. /\ formUp /\ formUp' = FALSE /\ front' = FALSE
        /\ UNCHANGED <<sessionVars, buttons, form, busy, creds, stack, list, manager, acts>>
    BY DEF CloseForm
  <1>2. SessionInv' /\ Outstanding' = Outstanding /\ failed' = failed
    BY <1>1, Untouched DEF IInv
  <1>3. ScreensTyped'
    BY <1>1, TypeParts DEF IInv, ScreensTyped
  <1>4. FormOnMain'
    BY <1>1 DEF FormOnMain
  <1>. QED
    BY <1>1, <1>2, <1>3, <1>4, Deaf, SameListsInv

\* A task is started: the queries are left alone.
LEMMA Executes ==
    ASSUME SessionInv, NEW t \in Jobs, t.op = "login" => t.form \in Forms, Execute(t)
    PROVE  SessionInv' /\ Outstanding' = Outstanding /\ failed' = failed
  <1>1. /\ tasks' = Append(tasks, t)
        /\ UNCHANGED <<token, live, reqs, intents, worker, task, posts, failed, loggedOut>>
    BY DEF Execute
  <1>2. SessionInv'
    BY <1>1, ExecuteInv
  <1>3. Outstanding' = Outstanding
    BY <1>1, StillEffect, OutstandingKept DEF SessionInv
  <1>. QED
    BY <1>1, <1>2, <1>3

LEMMA AttemptLoginInv ==
    ASSUME IInv, AttemptLogin
    PROVE  IInv'
  <1>1. /\ formUp /\ Act /\ creds' \in BOOLEAN /\ busy' = TRUE
        /\ Execute([op |-> "login", form |-> form])
        /\ UNCHANGED <<front, buttons, form, formUp, stack, list, manager>>
    BY DEF AttemptLogin
  <1>2. form \in Forms
    BY <1>1 DEF IInv, FormOnMain
  <1>3. SessionInv' /\ Outstanding' = Outstanding /\ failed' = failed
    <2>1. /\ [op |-> "login", form |-> form] \in Jobs
          /\ [op |-> "login", form |-> form].form \in Forms
      BY <1>2 DEF Jobs
    <2>. QED
      BY <1>1, <2>1, Executes DEF IInv
  <1>4. ScreensTyped'
    BY <1>1, TypeParts, ActEffect DEF IInv, ScreensTyped
  <1>5. FormOnMain'
    BY <1>1 DEF IInv, FormOnMain
  <1>. QED
    BY <1>1, <1>3, <1>4, <1>5, SameListsInv

LEMMA UserLogoutInv ==
    ASSUME IInv, UserLogout
    PROVE  IInv'
  <1>1. /\ stack = <<>> /\ ~formUp /\ Act /\ front' = FALSE
        /\ Execute([op |-> "logout", form |-> 0])
        /\ UNCHANGED <<buttons, form, formUp, busy, creds, stack, list, manager>>
    BY DEF UserLogout, MainUp
  <1>2. SessionInv' /\ Outstanding' = Outstanding /\ failed' = failed
    <2>1. /\ [op |-> "logout", form |-> 0] \in Jobs
          /\ [op |-> "logout", form |-> 0].op # "login"
      BY DEF Jobs
    <2>. QED
      BY <1>1, <2>1, Executes DEF IInv
  <1>3. ScreensTyped'
    BY <1>1, TypeParts, ActEffect DEF IInv, ScreensTyped
  <1>4. FormOnMain'
    BY <1>1 DEF FormOnMain
  <1>. QED
    BY <1>1, <1>2, <1>3, <1>4, Deaf, SameListsInv

LEMMA PostExecuteInv ==
    ASSUME IInv, PostExecute
    PROVE  IInv'
  <1>. DEFINE mine == formUp /\ Head(posts).form = form
              closes == mine /\ Head(posts).ok
  <1>1. /\ posts # <<>> /\ posts' = Tail(posts)
        /\ busy' = (busy /\ Head(posts).form # form)
        /\ formUp' = (formUp /\ ~closes) /\ front' = (front /\ ~closes)
        /\ UNCHANGED <<token, live, reqs, intents, worker, tasks, task, failed, loggedOut>>
        /\ UNCHANGED <<buttons, form, creds, stack, list, manager, acts>>
    BY DEF PostExecute
  <1>2. SessionInv' /\ Outstanding' = Outstanding
    <2>1. [op |-> "logout", form |-> 0] \in Jobs
      BY DEF Jobs
    <2>2. SessionInv'
      BY <1>1, <2>1, ExecuteInv DEF IInv
    <2>3. Outstanding' = Outstanding
      BY <1>1, StillEffect, OutstandingKept DEF IInv, SessionInv
    <2>. QED
      BY <2>2, <2>3
  <1>3. front \in BOOLEAN /\ formUp \in BOOLEAN
    BY DEF IInv, TypeOK
  <1>4. ScreensTyped'
    <2>1. busy' \in BOOLEAN /\ formUp' \in BOOLEAN /\ front' \in BOOLEAN
      BY <1>1
    <2>. QED
      BY <1>1, <2>1, TypeParts DEF IInv, ScreensTyped
  <1>5. FormOnMain'
    BY <1>1 DEF IInv, FormOnMain
  <1>6. (front' = front /\ formUp' = formUp) \/ formUp
    BY <1>1, <1>3
  <1>. QED
    BY <1>1, <1>2, <1>4, <1>5, <1>6, Deaf, SameListsInv

-----------------------------------------------------------------------------
(* Steps of the session alone.                                             *)

LEMMA SessionAlone ==
    ASSUME IInv, SessionInv', UNCHANGED screenVars, failed \subseteq failed',
           Outstanding' \subseteq Outstanding,
           \A query \in Outstanding \ Outstanding' : query.by \in failed'
    PROVE  IInv'
  <1>1. UNCHANGED <<front, buttons, form, formUp, busy, creds, stack, list, manager, acts>>
    BY DEF screenVars
  <1>2. ScreensTyped'
    BY <1>1, TypeParts DEF IInv, ScreensTyped
  <1>3. FormOnMain'
    BY <1>1 DEF IInv, FormOnMain
  <1>. QED
    BY <1>1, <1>2, <1>3, SameListsInv

LEMMA WorkerInv ==
    ASSUME IInv, Worker, UNCHANGED screenVars
    PROVE  IInv'
  <1>0. SessionInv /\ SessionTypeOK
    BY DEF IInv, SessionInv
  <1>1. CASE HandleIntent
    <2>1. SessionInv' /\ Outstanding' = Outstanding /\ failed' = failed
      BY <1>0, <1>1, HandleIntentInv, HandleIntentMoves DEF HandleIntent
    <2>. QED
      BY <2>1, SessionAlone
  <1>2. CASE WorkerLoggedIn
    <2>1. SessionInv' /\ failed' = failed /\ intents' = intents /\ Still
      BY <1>0, <1>2, WorkerLoggedInInv, StillEffect DEF WorkerLoggedIn
    <2>2. worker'.query = worker.query
      BY <1>0, <1>2 DEF WorkerLoggedIn, SessionTypeOK
    <2>. QED
      BY <2>1, <2>2, OutstandingKept, SessionAlone
  <1>3. CASE WorkerTimesOut
    <2>1. SessionInv' /\ failed \subseteq failed'
      BY <1>0, <1>3, WorkerTimesOutInv DEF WorkerTimesOut
    <2>2. Over(worker.query.by) /\ worker.query.by \in failed'
      BY <1>0, <1>3, WorkerTimesOutEnds
    <2>. QED
      BY <2>1, <2>2, SessionAlone DEF Over
  <1>4. CASE SendQuery
    <2>1. SessionInv' /\ Outstanding' = Outstanding /\ failed' = failed
      BY <1>0, <1>4, SendQueryInv, SendQueryMoves DEF SendQuery
    <2>. QED
      BY <2>1, SessionAlone
  <1>. QED
    BY <1>1, <1>2, <1>3, <1>4 DEF Worker

LEMMA ExecutorInv ==
    ASSUME IInv, Executor, UNCHANGED screenVars
    PROVE  IInv'
  <1>0. SessionInv /\ SessionTypeOK
    BY DEF IInv, SessionInv
  <1>1. SessionInv'
    BY <1>0, RunLoginInv, TaskLoggedInInv, TaskTimesOutInv, RunLogoutInv DEF Executor
  <1>2. failed' = failed /\ intents' = intents /\ worker' = worker
    BY DEF Executor, RunLogin, TaskLoggedIn, TaskTimesOut, RunLogout
  <1>3. Still \/ LoginQueued \/ LogoutQueued
    <2>1. CASE RunLogin
      BY <1>0, <2>1, QueueLoginEffect DEF RunLogin
    <2>2. CASE TaskLoggedIn \/ TaskTimesOut
      BY <1>0, <2>2, StillEffect DEF TaskLoggedIn, TaskTimesOut
    <2>3. CASE RunLogout
      <3>1. Queue("sign_out", "sign_out", 0, token)
        BY <2>3 DEF RunLogout
      <3>2. Grown(FreeSlot, "sign_out", "sign_out", 0, token)
        BY <1>0, <3>1, TypeFacts, QueueEffect
      <3>. QED
        BY <3>2 DEF Grown, LogoutQueued
    <2>. QED
      BY <2>1, <2>2, <2>3 DEF Executor
  <1>4. Outstanding' = Outstanding
    BY <1>2, <1>3, OutstandingKept
  <1>. QED
    BY <1>1, <1>2, <1>4, SessionAlone

LEMMA VolleyStepInv ==
    ASSUME IInv, NEW r \in Slots, Volley(r)
    PROVE  IInv'
  <1>0. SessionInv /\ SessionTypeOK
    BY DEF IInv, SessionInv
  <1>1. SessionInv'
    BY <1>0, VolleyInv DEF Volley
  <1>2. /\ Retouched(r) \/ Answered(r)
        /\ failed' = failed /\ intents' = intents /\ worker' = worker
    <2>1. CASE Dispatch(r)
      BY <1>0, <2>1, DispatchEffect DEF Dispatch
    <2>2. CASE Serve(r)
      BY <1>0, <2>2, ServeEffect
    <2>. QED
      BY <2>1, <2>2 DEF Volley
  <1>3. Outstanding' = Outstanding
    BY <1>2, OutstandingKept
  <1>4. UNCHANGED screenVars
    BY DEF Volley
  <1>. QED
    BY <1>1, <1>2, <1>3, <1>4, SessionAlone

LEMMA DeliverLoginStepInv ==
    ASSUME IInv, NEW r \in Slots, DeliverLogin(r), UNCHANGED screenVars
    PROVE  IInv'
  <1>0. SessionInv /\ SessionTypeOK
    BY DEF IInv, SessionInv
  <1>1. SessionInv'
    BY <1>0, DeliverLoginInv
  <1>2. Shrunk(r) /\ reqs[r].op # "get"
    BY <1>0, ListenerEffect DEF DeliverLogin
  <1>3. worker'.query = worker.query /\ failed' = failed /\ intents' = intents
    BY <1>0 DEF DeliverLogin, SessionTypeOK
  <1>4. Outstanding' = Outstanding
    BY <1>2, <1>3, OutstandingKept
  <1>. QED
    BY <1>1, <1>3, <1>4, SessionAlone

LEMMA DeliverErrorStepInv ==
    ASSUME IInv, NEW r \in Slots, DeliverError(r), UNCHANGED screenVars
    PROVE  IInv'
  <1>0. SessionInv /\ SessionTypeOK
    BY DEF IInv, SessionInv
  <1>1. SessionInv'
    BY <1>0, DeliverErrorInv
  <1>2. Shrunk(r)
    BY <1>0, ListenerEffect DEF DeliverError
  <1>3. /\ worker'.query = worker.query /\ intents' = intents /\ failed \subseteq failed'
        /\ reqs[r].op = "get" => reqs[r].by \in failed'
    BY <1>0 DEF DeliverError, SessionTypeOK
  <1>4. CASE reqs[r].op # "get"
    BY <1>1, <1>2, <1>3, <1>4, OutstandingKept, SessionAlone
  <1>5. CASE reqs[r].op = "get"
    <2>1. Over(reqs[r].by)
      BY <1>0, <1>2, <1>3, <1>5, QueryEnds
    <2>. QED
      BY <1>1, <1>3, <1>5, <2>1, SessionAlone DEF Over
  <1>. QED
    BY <1>4, <1>5

-----------------------------------------------------------------------------
(* The lists come to the front and leave it.                               *)

LEMMA ExceptEffect ==
    ASSUME NEW S, NEW s \in Seq(S), NEW i \in DOMAIN s, NEW e \in S
    PROVE  /\ [s EXCEPT ![i] = e] \in Seq(S)
           /\ DOMAIN [s EXCEPT ![i] = e] = DOMAIN s
           /\ Len([s EXCEPT ![i] = e]) = Len(s)
           /\ [s EXCEPT ![i] = e][i] = e
           /\ \A j \in DOMAIN s : j # i => [s EXCEPT ![i] = e][j] = s[j]
    OBVIOUS

LEMMA PausedEffect ==
    ASSUME NEW l \in Lists
    PROVE  /\ Paused(l) \in Lists
           /\ Paused(l).url = l.url /\ Paused(l).asked = l.asked /\ Paused(l).rows = l.rows
           /\ Paused(l).left = TRUE
           /\ l.url = "fleet" => Paused(l).regs = 0
           /\ l.url # "fleet" => Paused(l).regs = l.regs
    BY DEF Paused, Lists

\* After the pause no fleet list listens, and nothing else is lost.
LEMMA PauseTopEffect ==
    ASSUME IInv
    PROVE  /\ PauseTop \in Seq(Lists) /\ DOMAIN PauseTop = DOMAIN list
           /\ Len(PauseTop) = Len(list)
           /\ \A i \in DOMAIN list :
                 /\ PauseTop[i].url = list[i].url
                 /\ PauseTop[i].asked = list[i].asked
                 /\ PauseTop[i].rows = list[i].rows
                 /\ list[i].left => PauseTop[i].left
                 /\ list[i].url = "fleet" => PauseTop[i].regs = 0
                 /\ \/ PauseTop[i].regs = list[i].regs
                    \/ list[i].url = "fleet" /\ PauseTop[i].left
  <1>0. TypeOK /\ list \in Seq(Lists) /\ FleetListens
    BY DEF IInv, TypeOK
  <1>1. CASE stack = <<>>
    <2>1. PauseTop = list
      BY <1>1 DEF PauseTop
    <2>. QED
      BY <1>0, <1>1, <2>1, Deaf
  <1>2. CASE stack # <<>>
    <2>. DEFINE e == Paused(list[Top])
    <2>1. Top \in DOMAIN list /\ list[Top] \in Lists
      BY <1>0, <1>2, TopFacts, ListFacts
    <2>2. PauseTop = [list EXCEPT ![Top] = e]
      BY <1>2 DEF PauseTop
    <2>3. /\ e \in Lists /\ e.url = list[Top].url /\ e.asked = list[Top].asked
          /\ e.rows = list[Top].rows /\ e.left = TRUE
          /\ list[Top].url = "fleet" => e.regs = 0
          /\ list[Top].url # "fleet" => e.regs = list[Top].regs
      BY <2>1, PausedEffect
    <2>. HIDE DEF e
    <2>4. /\ PauseTop \in Seq(Lists) /\ DOMAIN PauseTop = DOMAIN list
          /\ Len(PauseTop) = Len(list) /\ PauseTop[Top] = e
          /\ \A i \in DOMAIN list : i # Top => PauseTop[i] = list[i]
      BY <1>0, <2>1, <2>2, <2>3, ExceptEffect
    <2>5. \A i \in DOMAIN list : (list[i].url = "fleet" /\ i # Top) => list[i].regs = 0
      BY <1>0 DEF FleetListens
    <2>. QED
      BY <2>3, <2>4, <2>5
  <1>. QED
    BY <1>1, <1>2

\* A stack without its top.
LEMMA PopEffect ==
    ASSUME NEW S, NEW s \in Seq(S), s # <<>>
    PROVE  /\ SubSeq(s, 1, Len(s) - 1) \in Seq(S)
           /\ \A n \in DOMAIN SubSeq(s, 1, Len(s) - 1) :
                 n \in DOMAIN s /\ SubSeq(s, 1, Len(s) - 1)[n] = s[n]
    OBVIOUS

LEMMA LeaveInv ==
    ASSUME IInv, Leave
    PROVE  IInv'
  <1>0. TypeOK /\ SessionInv /\ FormOnMain /\ AskersListen
    BY DEF IInv
  <1>1. /\ Act /\ front' = FALSE
        /\ list' = IF formUp THEN list ELSE PauseTop
        /\ UNCHANGED <<sessionVars, buttons, form, formUp, busy, creds, stack, manager>>
    BY DEF Leave
  <1>2. SessionInv' /\ Outstanding' = Outstanding /\ failed' = failed
    BY <1>0, <1>1, Untouched
  <1>3. CASE formUp
    <2>1. ScreensTyped'
      BY <1>0, <1>1, <1>3, TypeParts, ActEffect DEF ScreensTyped
    <2>2. FormOnMain'
      BY <1>0, <1>1 DEF FormOnMain
    <2>. QED
      BY <1>1, <1>2, <1>3, <2>1, <2>2, Deaf, SameListsInv
  <1>4. CASE ~formUp
    <2>1. list' = PauseTop
      BY <1>1, <1>4
    <2>2. /\ list' \in Seq(Lists) /\ DOMAIN list' = DOMAIN list /\ Len(list') = Len(list)
          /\ \A i \in DOMAIN list :
                /\ list'[i].url = list[i].url
                /\ list'[i].asked = list[i].asked
                /\ list'[i].rows = list[i].rows
                /\ list[i].left => list'[i].left
                /\ list[i].url = "fleet" => list'[i].regs = 0
                /\ \/ list'[i].regs = list[i].regs
                   \/ list[i].url = "fleet" /\ list'[i].left
      BY <2>1, PauseTopEffect
    <2>3. ScreensTyped'
      BY <1>0, <1>1, <2>2, TypeParts, ActEffect DEF ScreensTyped
    <2>4. TypeOK'
      BY <1>2, <2>3, TypePartsNext DEF SessionInv
    <2>5. Stacked' = Stacked /\ Stacked \subseteq DOMAIN list
      BY <1>0, <1>1, ListFacts DEF Stacked
    <2>6. ListsKept
      BY <2>2, <2>5 DEF ListsKept
    <2>7. OwnQuery' /\ Listed' /\ EmptyListIsAccountedFor'
      BY <1>2, <2>4, <2>6, KeptSafe
    <2>8. FleetListens'
      BY <2>2 DEF FleetListens
    <2>9. AskersListen'
      BY <1>0, <2>2, <2>5 DEF AskersListen
    <2>10. FormOnMain'
      BY <1>0, <1>1 DEF FormOnMain
    <2>. QED
      BY <1>2, <2>4, <2>7, <2>8, <2>9, <2>10 DEF IInv
  <1>. QED
    BY <1>3, <1>4

LEMMA BackInv ==
    ASSUME IInv, Back
    PROVE  IInv'
  <1>0. TypeOK /\ SessionInv /\ FormOnMain /\ AskersListen
    BY DEF IInv
  <1>1. /\ stack # <<>> /\ ~formUp /\ front' = FALSE /\ list' = PauseTop
        /\ stack' = SubSeq(stack, 1, Len(stack) - 1)
        /\ UNCHANGED <<sessionVars, buttons, form, formUp, busy, creds, manager, acts>>
    BY DEF Back, ListUp
  <1>2. SessionInv' /\ Outstanding' = Outstanding /\ failed' = failed
    BY <1>0, <1>1, Untouched
  <1>3. /\ list' \in Seq(Lists) /\ DOMAIN list' = DOMAIN list /\ Len(list') = Len(list)
        /\ \A i \in DOMAIN list :
              /\ list'[i].url = list[i].url
              /\ list'[i].asked = list[i].asked
              /\ list'[i].rows = list[i].rows
              /\ list[i].left => list'[i].left
              /\ list[i].url = "fleet" => list'[i].regs = 0
              /\ \/ list'[i].regs = list[i].regs
                 \/ list[i].url = "fleet" /\ list'[i].left
    BY <1>1, PauseTopEffect
  <1>4. stack \in Seq(DOMAIN list)
    BY <1>0 DEF TypeOK
  <1>5. /\ stack' \in Seq(DOMAIN list)
        /\ \A n \in DOMAIN stack' : n \in DOMAIN stack /\ stack'[n] = stack[n]
    BY <1>1, <1>4, PopEffect
  <1>6. ScreensTyped'
    <2>1. stack' \in Seq(DOMAIN list')
      BY <1>3, <1>5
    <2>. QED
      BY <1>0, <1>1, <1>3, <2>1, TypeParts DEF ScreensTyped
  <1>7. TypeOK'
    BY <1>2, <1>6, TypePartsNext DEF SessionInv
  <1>8. Stacked' \subseteq Stacked /\ Stacked \subseteq DOMAIN list
    BY <1>0, <1>5, ListFacts DEF Stacked
  <1>9. ListsKept
    BY <1>3, <1>8 DEF ListsKept
  <1>10. OwnQuery' /\ Listed' /\ EmptyListIsAccountedFor'
    BY <1>2, <1>7, <1>9, KeptSafe
  <1>11. FleetListens'
    BY <1>3 DEF FleetListens
  <1>12. AskersListen'
    BY <1>0, <1>3, <1>8 DEF AskersListen
  <1>13. FormOnMain'
    BY <1>1 DEF FormOnMain
  <1>. QED
    BY <1>2, <1>7, <1>10, <1>11, <1>12, <1>13 DEF IInv

\* A new list, on a part of the stack.
LEMMA PushInv ==
    ASSUME IInv, ~formUp, NEW s \in Seq(DOMAIN list), NEW url \in Urls,
           \A n \in DOMAIN s : s[n] \in Stacked,
           Push(s, url)
    PROVE  IInv'
  <1>0. TypeOK /\ SessionInv /\ FormOnMain /\ AskersListen
    BY DEF IInv
  <1>. DEFINE new == [url |-> url, asked |-> FALSE, regs |-> 0, rows |-> 0, left |-> FALSE]
              top == Len(list) + 1
  <1>1. /\ Len(list) < MaxScreens /\ Act /\ front' = FALSE
        /\ list' = Append(PauseTop, new) /\ stack' = Append(s, top)
        /\ UNCHANGED <<sessionVars, buttons, form, formUp, busy, creds, manager>>
    BY DEF Push
  <1>2. SessionInv' /\ Outstanding' = Outstanding /\ failed' = failed
    BY <1>0, <1>1, Untouched
  <1>3. /\ new \in Lists /\ new.asked = FALSE /\ new.rows = 0 /\ new.regs = 0
    BY DEF Lists
  <1>. HIDE DEF new
  <1>4. Len(list) \in Nat /\ DOMAIN list = 1..Len(list) /\ MaxScreens \in Nat
    BY <1>0, ListFacts, ScreensAssumption
  <1>5. /\ list' \in Seq(Lists) /\ Len(list') = top
        /\ DOMAIN list' = DOMAIN list \cup {top} /\ top \notin DOMAIN list
        /\ list'[top] = new
        /\ \A i \in DOMAIN list : list'[i] = PauseTop[i]
    <2>1. PauseTop \in Seq(Lists) /\ Len(PauseTop) = Len(list) /\ DOMAIN PauseTop = DOMAIN list
      BY PauseTopEffect
    <2>. QED
      BY <1>1, <1>3, <2>1, AppendEffect
  <1>6. \A i \in DOMAIN list :
            /\ list'[i].url = list[i].url
            /\ list'[i].asked = list[i].asked
            /\ list'[i].rows = list[i].rows
            /\ list[i].left => list'[i].left
            /\ list[i].url = "fleet" => list'[i].regs = 0
            /\ \/ list'[i].regs = list[i].regs
               \/ list[i].url = "fleet" /\ list'[i].left
    BY <1>5, PauseTopEffect
  <1>7. Len(list') <= MaxScreens
    BY <1>1, <1>4, <1>5
  <1>. HIDE DEF top
  <1>8. /\ stack' \in Seq(DOMAIN list')
        /\ Stacked' \subseteq Stacked \cup {top}
    <2>1. s \in Seq(DOMAIN list') /\ top \in DOMAIN list'
      BY <1>5, SeqMonotonic
    <2>2. /\ stack' \in Seq(DOMAIN list')
          /\ \A n \in DOMAIN stack' : stack'[n] = top \/ (n \in DOMAIN s /\ stack'[n] = s[n])
      BY <1>1, <2>1, AppendEffect
    <2>. QED
      BY <2>2 DEF Stacked
  <1>9. ScreensTyped'
    BY <1>0, <1>1, <1>5, <1>7, <1>8, TypeParts, ActEffect DEF ScreensTyped
  <1>10. TypeOK'
    BY <1>2, <1>9, TypePartsNext DEF SessionInv
  <1>11. ListsKept
    BY <1>3, <1>5, <1>6, <1>8 DEF ListsKept
  <1>12. OwnQuery' /\ Listed' /\ EmptyListIsAccountedFor'
    BY <1>2, <1>10, <1>11, KeptSafe
  <1>13. FleetListens'
    BY <1>3, <1>5, <1>6 DEF FleetListens
  <1>14. AskersListen'
    <2>1. Stacked \subseteq DOMAIN list
      BY <1>0, ListFacts
    <2>. QED
      BY <1>0, <1>3, <1>5, <1>6, <1>8, <2>1 DEF AskersListen
  <1>15. FormOnMain'
    BY <1>1 DEF FormOnMain
  <1>. QED
    BY <1>2, <1>10, <1>12, <1>13, <1>14, <1>15 DEF IInv

LEMMA OpensInv ==
    ASSUME IInv, OpenFleet \/ OpenRow \/ Rotate
    PROVE  IInv'
  <1>0. TypeOK /\ stack \in Seq(DOMAIN list)
    BY DEF IInv, TypeOK
  <1>1. \A n \in DOMAIN stack : stack[n] \in Stacked
    BY DEF Stacked
  <1>2. Urls = {"fleet", "vehicle", "tire"}
    BY ScreensAssumption
  <1>3. CASE OpenFleet
    BY <1>0, <1>1, <1>2, <1>3, PushInv DEF OpenFleet, MainUp
  <1>4. CASE OpenRow
    <2>1. RowOpens[list[Top].url] \in Urls
      BY <1>2, <1>4 DEF OpenRow, RowOpens
    <2>. QED
      BY <1>0, <1>1, <1>4, <2>1, PushInv DEF OpenRow, ListUp
  <1>5. CASE Rotate
    <2>. DEFINE s == SubSeq(stack, 1, Len(stack) - 1)
    <2>1. stack # <<>> /\ ~formUp /\ Push(s, list[Top].url)
      BY <1>5 DEF Rotate, ListUp
    <2>2. s \in Seq(DOMAIN list) /\ \A n \in DOMAIN s : n \in DOMAIN stack /\ s[n] = stack[n]
      BY <1>0, <2>1, PopEffect
    <2>3. list[Top].url \in Urls
      BY <1>0, <2>1, TopFacts, ListFacts
    <2>. HIDE DEF s
    <2>. QED
      BY <1>1, <2>1, <2>2, <2>3, PushInv
  <1>. QED
    BY <1>3, <1>4, <1>5

\* Lists that show no more than before, when no query is outstanding again.
LEMMA ListedKept ==
    ASSUME TypeOK, TypeOK', Listed, Done \subseteq Done', DOMAIN list' = DOMAIN list,
           \A i \in DOMAIN list : list'[i].url = list[i].url,
           \A i \in DOMAIN list : list[i].url = "fleet" => list'[i].rows = list[i].rows
    PROVE  Listed'
  <1>1. /\ Cardinality(Done) <= Cardinality(Done')
        /\ Cardinality(Done) \in Nat /\ Cardinality(Done') \in Nat
    BY FactsNow, FactsNext, FS_Subset DEF DoneIsFinite
  <1>2. \A i \in DOMAIN list : list[i].rows \in Nat
    BY ListFacts
  <1>. QED
    BY <1>1, <1>2 DEF Listed

LEMMA ResumeListInv ==
    ASSUME IInv, ResumeList
    PROVE  IInv'
  <1>0. /\ TypeOK /\ SessionInv /\ FormOnMain /\ AskersListen /\ OwnQuery /\ Listed
        /\ EmptyListIsAccountedFor
    BY DEF IInv
  <1>. DEFINE asks == creds /\ ~list[Top].asked
              query == [url |-> list[Top].url, by |-> Top]
              now == list[Top].asked \/ asks
              more == list[Top].regs + 1
              new == [list[Top] EXCEPT !.regs = more, !.asked = now]
  <1>1. /\ ~front /\ ~formUp /\ stack # <<>> /\ front' = TRUE /\ manager' = TRUE
        /\ list' = [list EXCEPT ![Top].regs = @ + 1, ![Top].asked = @ \/ asks]
        /\ \/ asks /\ StartService(query)
           \/ ~asks /\ UNCHANGED sessionVars
        /\ UNCHANGED <<buttons, form, formUp, busy, creds, stack, acts>>
    BY DEF ResumeList
  <1>2. /\ Top \in DOMAIN list /\ list[Top] \in Lists /\ list \in Seq(Lists)
        /\ list[Top].url \in Urls /\ Top \in Askers /\ Top # 0
        /\ list[Top].asked \in BOOLEAN /\ list[Top].regs \in Nat
    BY <1>0, <1>1, TopFacts, ListFacts
  <1>3. list' = [list EXCEPT ![Top] = new]
    BY <1>1, <1>2
  <1>4. /\ new \in Lists
        /\ new.url = list[Top].url /\ new.rows = list[Top].rows /\ new.left = list[Top].left
        /\ new.regs = list[Top].regs + 1
        /\ new.asked = (list[Top].asked \/ asks)
    <2>1. now \in BOOLEAN /\ more \in Nat
      BY <1>2
    <2>. HIDE DEF now, more
    <2>2. /\ new \in Lists
          /\ new.url = list[Top].url /\ new.rows = list[Top].rows /\ new.left = list[Top].left
          /\ new.regs = more /\ new.asked = now
      BY <1>2, <2>1 DEF Lists
    <2>. QED
      BY <2>2 DEF now, more
  <1>. HIDE DEF new
  <1>5. /\ list' \in Seq(Lists) /\ DOMAIN list' = DOMAIN list /\ Len(list') = Len(list)
        /\ list'[Top] = new
        /\ \A i \in DOMAIN list : i # Top => list'[i] = list[i]
    BY <1>2, <1>3, <1>4, ExceptEffect
  <1>6. Stacked' = Stacked /\ Stacked \subseteq DOMAIN list /\ Top' = Top
    BY <1>0, <1>1, ListFacts DEF Stacked, Top
  <1>7. ScreensTyped'
    BY <1>0, <1>1, <1>5, TypeParts DEF ScreensTyped
  <1>8. FormOnMain'
    BY <1>1 DEF FormOnMain
  <1>9. FleetListens'
    <2>1. \A i \in DOMAIN list : list[i].url = "fleet" => list[i].regs = 0
      BY <1>1, Deaf
    <2>2. \A i \in DOMAIN list : (list'[i].url = "fleet" /\ list'[i].regs # 0)
                                     => i = Top /\ list'[i].regs = 1
      BY <1>2, <1>4, <1>5, <2>1
    <2>. QED
      BY <1>1, <1>5, <1>6, <2>2 DEF FleetListens
  <1>10. AskersListen'
    <2>1. new.regs # 0
      BY <1>2, <1>4
    <2>. QED
      BY <1>0, <1>5, <1>6, <2>1 DEF AskersListen
  <1>11. CASE ~asks
    <2>1. SessionInv' /\ Outstanding' = Outstanding /\ failed' = failed
      BY <1>0, <1>1, <1>11, Untouched
    <2>2. TypeOK'
      BY <1>7, <2>1, TypePartsNext DEF SessionInv
    <2>3. new.asked = list[Top].asked
      BY <1>2, <1>4, <1>11
    <2>4. ListsKept
      BY <1>4, <1>5, <1>6, <2>3 DEF ListsKept
    <2>5. OwnQuery' /\ Listed' /\ EmptyListIsAccountedFor'
      BY <2>1, <2>2, <2>4, KeptSafe
    <2>. QED
      BY <1>8, <1>9, <1>10, <2>1, <2>2, <2>5 DEF IInv
  <1>12. CASE asks
    <2>1. query \in Queries /\ query.by = Top /\ query.url = list[Top].url
      BY <1>2 DEF Queries
    <2>2. \A q \in Outstanding : q.by # Top
      BY <1>0, <1>12 DEF OwnQuery, Asked
    <2>3. ~Pending(query.by)
      BY <1>0, <1>2, <2>1, <2>2, PendingOutstanding
    <2>4. StartService(query) /\ failed' = failed
      BY <1>1, <1>12 DEF StartService
    <2>. HIDE DEF query
    <2>5. SessionInv'
      BY <1>0, <2>1, <2>3, <2>4, StartServiceInv
    <2>6. Outstanding' = Outstanding \cup {query}
      BY <1>0, <2>4, StartServiceAsks
    <2>7. TypeOK'
      BY <1>7, <2>5, TypePartsNext DEF SessionInv
    <2>8. \A i \in DOMAIN list : list'[i].url = list[i].url /\ list'[i].rows = list[i].rows
                                 /\ list'[i].left = list[i].left
      BY <1>4, <1>5
    <2>9. /\ list'[Top].asked
          /\ \A i \in DOMAIN list : i # Top => list'[i].asked = list[i].asked
      BY <1>4, <1>5, <1>12
    <2>10. OwnQuery'
      <3>. SUFFICES ASSUME NEW q \in Outstanding'
                    PROVE  /\ q.by \in DOMAIN list' /\ list'[q.by].asked
                           /\ list'[q.by].url = q.url
        BY DEF OwnQuery, Asked
      <3>1. CASE q = query
        BY <1>2, <1>5, <2>1, <2>8, <2>9, <3>1
      <3>2. CASE q \in Outstanding
        BY <1>0, <1>5, <2>2, <2>8, <2>9, <3>2 DEF OwnQuery, Asked
      <3>. QED
        BY <2>6, <3>1, <3>2
    <2>11. Listed'
      <3>1. \A j \in Done : j \in DOMAIN list /\ list[j].url = "fleet" /\ list[j].asked /\ j # Top
                            /\ \A q \in Outstanding : q.by # j
        BY <1>12 DEF Done, FleetAskers
      <3>2. Done \subseteq Done'
        BY <1>5, <2>1, <2>6, <2>8, <2>9, <3>1 DEF Done, FleetAskers
      <3>. QED
        BY <1>0, <1>5, <2>7, <2>8, <3>2, ListedKept
    <2>12. EmptyListIsAccountedFor'
      <3>. SUFFICES ASSUME NEW i \in DOMAIN list', list'[i].asked, list'[i].rows = 0,
                           i \in Stacked'
                    PROVE  \/ Pending(i)' \/ i \in failed'
                           \/ list'[i].url = "fleet" /\ list'[i].left
        BY DEF EmptyListIsAccountedFor, Stacked
      <3>0. i \in DOMAIN list /\ i # 0
        BY <1>0, <1>5, ListFacts
      <3>1. ASSUME NEW q \in Outstanding', q.by = i
            PROVE  Pending(i)'
        BY <2>5, <3>0, <3>1, FactsNext DEF PendingIsOutstanding
      <3>2. CASE i = Top
        BY <2>1, <2>6, <3>1, <3>2
      <3>3. CASE i # Top
        <4>1. Pending(i) \/ i \in failed \/ (list[i].url = "fleet" /\ list[i].left)
          BY <1>0, <1>6, <2>8, <2>9, <3>0, <3>3 DEF EmptyListIsAccountedFor, Stacked
        <4>2. ASSUME Pending(i) PROVE Pending(i)'
          <5>1. PICK q \in Outstanding : q.by = i
            BY <1>0, <3>0, <4>2, PendingOutstanding
          <5>. QED
            BY <2>6, <3>1, <5>1
        <4>. QED
          BY <2>4, <2>8, <3>0, <4>1, <4>2
      <3>. QED
        BY <3>2, <3>3
    <2>. QED
      BY <1>8, <1>9, <1>10, <2>5, <2>7, <2>10, <2>11, <2>12 DEF IInv
  <1>. QED
    BY <1>11, <1>12

-----------------------------------------------------------------------------
(* Answers.                                                                *)

LEMMA BroadcastEffect ==
    ASSUME TypeOK, NEW url, Broadcast(url)
    PROVE  /\ list' \in Seq(Lists) /\ DOMAIN list' = DOMAIN list /\ Len(list') = Len(list)
           /\ \A i \in DOMAIN list :
                 /\ list'[i].url = list[i].url
                 /\ list'[i].asked = list[i].asked
                 /\ list'[i].regs = list[i].regs
                 /\ list'[i].left = list[i].left
                 /\ list[i].url = url => list'[i].rows = list[i].rows + list[i].regs
                 /\ list[i].url # url => list'[i].rows = list[i].rows
  <1>. DEFINE New(i) == [list[i] EXCEPT !.rows =
                            IF list[i].url = url THEN @ + list[i].regs ELSE @]
  <1>1. /\ Len(list) \in Nat /\ DOMAIN list = 1..Len(list)
        /\ \A i \in DOMAIN list : list[i] \in Lists
    BY ListFacts
  <1>2. list' = [i \in DOMAIN list |-> New(i)]
    BY DEF Broadcast
  <1>3. ASSUME NEW i \in DOMAIN list
        PROVE  /\ New(i) \in Lists
               /\ New(i).url = list[i].url /\ New(i).asked = list[i].asked
               /\ New(i).regs = list[i].regs /\ New(i).left = list[i].left
               /\ list[i].url = url => New(i).rows = list[i].rows + list[i].regs
               /\ list[i].url # url => New(i).rows = list[i].rows
    <2>1. list[i] \in Lists
      BY <1>1
    <2>. QED
      BY <2>1 DEF Lists
  <1>. HIDE DEF New
  <1>4. list' \in [1..Len(list) -> Lists]
    BY <1>1, <1>2, <1>3
  <1>5. list' \in Seq(Lists) /\ Len(list') = Len(list) /\ DOMAIN list' = DOMAIN list
    BY <1>1, <1>4
  <1>6. \A i \in DOMAIN list : list'[i] = New(i)
    BY <1>2
  <1>. QED
    BY <1>3, <1>5, <1>6

LEMMA DeliverResponseStepInv ==
    ASSUME IInv, NEW r \in Slots, DeliverResponse(r), Broadcast(reqs[r].url),
           UNCHANGED <<front, buttons, form, formUp, busy, creds, stack, manager, acts>>
    PROVE  IInv'
  <1>0. /\ TypeOK /\ SessionInv /\ FormOnMain /\ FleetListens /\ AskersListen /\ OwnQuery
        /\ Listed /\ EmptyListIsAccountedFor
    BY DEF IInv
  <1>. DEFINE url == reqs[r].url
              asker == reqs[r].by
  <1>1. /\ list' \in Seq(Lists) /\ DOMAIN list' = DOMAIN list /\ Len(list') = Len(list)
        /\ \A i \in DOMAIN list :
              /\ list'[i].url = list[i].url
              /\ list'[i].asked = list[i].asked
              /\ list'[i].regs = list[i].regs
              /\ list'[i].left = list[i].left
              /\ list[i].url = url => list'[i].rows = list[i].rows + list[i].regs
              /\ list[i].url # url => list'[i].rows = list[i].rows
    BY <1>0, BroadcastEffect
  <1>2. /\ SessionInv' /\ reqs[r].op # "sign_in"
        /\ failed' = failed /\ intents' = intents /\ worker' = worker
    BY <1>0, DeliverResponseInv DEF DeliverResponse
  <1>3. r \in UnderWay /\ Shrunk(r)
    BY <1>0, ListenerEffect DEF DeliverResponse
  <1>4. ScreensTyped'
    BY <1>0, <1>1, TypeParts DEF ScreensTyped
  <1>5. TypeOK'
    BY <1>2, <1>4, TypePartsNext DEF SessionInv
  <1>6. Stacked' = Stacked /\ Stacked \subseteq DOMAIN list /\ Top' = Top
    BY <1>0, ListFacts DEF Stacked, Top
  <1>7. FormOnMain'
    BY <1>0 DEF FormOnMain
  <1>8. FleetListens'
    BY <1>0, <1>1, <1>6 DEF FleetListens
  <1>9. AskersListen'
    BY <1>0, <1>1, <1>6 DEF AskersListen
  <1>10. \A i \in DOMAIN list : /\ list[i].url \in Urls /\ list[i].rows \in Nat
                                /\ list[i].regs \in Nat /\ i # 0
    BY <1>0, ListFacts
  <1>11. CASE reqs[r].op # "get"
    <2>1. url \notin Urls
      BY <1>0, <1>3, <1>11 DEF SessionInv, Addressed
    <2>2. ListsKept
      BY <1>1, <1>6, <1>10, <2>1 DEF ListsKept
    <2>3. Outstanding' = Outstanding
      BY <1>2, <1>3, <1>11, OutstandingKept
    <2>4. OwnQuery' /\ Listed' /\ EmptyListIsAccountedFor'
      BY <1>2, <1>5, <2>2, <2>3, KeptSafe
    <2>. QED
      BY <1>2, <1>5, <1>7, <1>8, <1>9, <2>4 DEF IInv
  <1>12. CASE reqs[r].op = "get"
    <2>1. QueryOf(r) \in Outstanding /\ Over(asker)
      BY <1>0, <1>2, <1>3, <1>12, QueryEnds
    <2>2. QueryOf(r).by = asker /\ QueryOf(r).url = url
      BY DEF QueryOf
    <2>. HIDE DEF url, asker
    <2>3. asker \in DOMAIN list /\ list[asker].asked /\ list[asker].url = url
      BY <1>0, <2>1, <2>2 DEF OwnQuery, Asked
    <2>4. \A q \in Outstanding' : q \in Outstanding /\ q.by # asker
      BY <2>1 DEF Over
    <2>5. \A q \in Outstanding : q.by # asker => q \in Outstanding'
      BY <2>1 DEF Over
    <2>6. OwnQuery'
      BY <1>0, <1>1, <2>4 DEF OwnQuery, Asked
    <2>7. Done \subseteq Done' /\ asker \notin Done
      BY <1>1, <2>1, <2>2, <2>4 DEF Done, FleetAskers
    <2>8. Listed'
      <3>1. CASE url # "fleet"
        BY <1>0, <1>1, <1>5, <2>7, <3>1, ListedKept
      <3>2. CASE url = "fleet"
        <4>1. Done \cup {asker} \subseteq Done'
          BY <1>1, <2>3, <2>4, <2>7, <3>2 DEF Done, FleetAskers
        <4>2. /\ IsFiniteSet(Done) /\ Cardinality(Done) \in Nat
              /\ IsFiniteSet(Done') /\ Cardinality(Done') \in Nat
          BY <1>0, <1>5, FactsNow, FactsNext DEF DoneIsFinite
        <4>3. Cardinality(Done \cup {asker}) = Cardinality(Done) + 1
          BY <2>7, <4>2, FS_AddElement
        <4>4. Cardinality(Done \cup {asker}) <= Cardinality(Done')
          BY <4>1, <4>2, FS_Subset
        <4>5. \A i \in DOMAIN list : list[i].url = "fleet" =>
                  list[i].regs <= 1 /\ list[i].rows <= Cardinality(Done)
          BY <1>0 DEF FleetListens, Listed
        <4>6. \A i \in DOMAIN list : list[i].url = "fleet" =>
                  list'[i].rows <= Cardinality(Done')
          <5>. TAKE i \in DOMAIN list
          <5>. HAVE list[i].url = "fleet"
          <5>1. list'[i].rows = list[i].rows + list[i].regs
            BY <1>1, <3>2
          <5>2. list[i].rows \in Nat /\ list[i].regs \in Nat
            BY <1>10
          <5>. QED
            BY <4>2, <4>3, <4>4, <4>5, <5>1, <5>2
        <4>. QED
          BY <1>1, <4>6 DEF Listed
      <3>. QED
        BY <3>1, <3>2
    <2>9. EmptyListIsAccountedFor'
      <3>. SUFFICES ASSUME NEW i \in DOMAIN list', list'[i].asked, list'[i].rows = 0,
                           i \in Stacked'
                    PROVE  \/ Pending(i)' \/ i \in failed'
                           \/ list'[i].url = "fleet" /\ list'[i].left
        BY DEF EmptyListIsAccountedFor, Stacked
      <3>1. /\ i \in DOMAIN list /\ i # 0 /\ i \in Stacked /\ list[i].asked
            /\ list[i].rows \in Nat /\ list[i].regs \in Nat
        BY <1>1, <1>6, <1>10
      <3>2. list[i].rows = 0 /\ (list[i].url = url => list[i].regs = 0)
        BY <1>1, <3>1
      <3>3. CASE i = asker
        <4>1. list[i].regs = 0
          BY <2>3, <3>2, <3>3
        <4>. QED
          BY <1>0, <1>1, <3>1, <4>1 DEF AskersListen
      <3>4. CASE i # asker
        <4>1. Pending(i) \/ i \in failed \/ (list[i].url = "fleet" /\ list[i].left)
          BY <1>0, <3>1, <3>2 DEF EmptyListIsAccountedFor, Stacked
        <4>2. ASSUME Pending(i) PROVE Pending(i)'
          <5>1. PICK q \in Outstanding : q.by = i
            BY <1>0, <3>1, <4>2, PendingOutstanding
          <5>2. q \in Outstanding'
            BY <2>5, <3>4, <5>1
          <5>. QED
            BY <1>2, <3>1, <5>1, <5>2, FactsNext DEF PendingIsOutstanding
        <4>. QED
          BY <1>1, <1>2, <3>1, <4>1, <4>2
      <3>. QED
        BY <3>3, <3>4
    <2>. QED
      BY <1>2, <1>5, <1>7, <1>8, <1>9, <2>6, <2>8, <2>9 DEF IInv
  <1>. QED
    BY <1>11, <1>12

LEMMA DeliverInv ==
    ASSUME IInv, NEW r \in Slots, Deliver(r)
    PROVE  IInv'
    BY DeliverLoginStepInv, DeliverErrorStepInv, DeliverResponseStepInv DEF Deliver

\* When the process dies nothing is outstanding and no list is left.
LEMMA DiesInv ==
    ASSUME IInv, NEW r \in Slots, DeliverLogoutDies(r)
    PROVE  IInv'
  <1>0. TypeOK /\ SessionInv /\ Listed
    BY DEF IInv
  <1>1. /\ ProcessDies
        /\ front' = FALSE /\ buttons' = FALSE /\ formUp' = FALSE /\ busy' = FALSE
        /\ stack' = <<>>
        /\ list' = [i \in DOMAIN list |-> [list[i] EXCEPT !.regs = 0]]
        /\ UNCHANGED <<form, creds, manager, acts>>
    BY DEF DeliverLogoutDies
  <1>2. SessionInv' /\ UnderWay' = {}
    BY <1>0, <1>1, ProcessDiesInv
  <1>3. Outstanding' = {}
    BY <1>1, <1>2, Resting DEF ProcessDies, Outstanding, Waiting, InHand, Sent
  <1>4. /\ list' \in Seq(Lists) /\ DOMAIN list' = DOMAIN list /\ Len(list') = Len(list)
        /\ \A i \in DOMAIN list :
              /\ list'[i].url = list[i].url /\ list'[i].asked = list[i].asked
              /\ list'[i].rows = list[i].rows /\ list'[i].regs = 0
    <2>1. /\ Len(list) \in Nat /\ DOMAIN list = 1..Len(list)
          /\ \A i \in DOMAIN list : list[i] \in Lists
      BY <1>0, ListFacts
    <2>2. \A i \in DOMAIN list : /\ list'[i] \in Lists
                                 /\ list'[i].url = list[i].url
                                 /\ list'[i].asked = list[i].asked
                                 /\ list'[i].rows = list[i].rows /\ list'[i].regs = 0
      BY <1>1, <2>1 DEF Lists
    <2>3. list' \in [1..Len(list) -> Lists]
      BY <1>1, <2>1, <2>2
    <2>. QED
      BY <2>1, <2>2, <2>3
  <1>5. ScreensTyped'
    <2>1. stack' \in Seq(DOMAIN list')
      BY <1>1
    <2>. QED
      BY <1>0, <1>1, <1>4, <2>1, TypeParts DEF ScreensTyped
  <1>6. TypeOK'
    BY <1>2, <1>5, TypePartsNext DEF SessionInv
  <1>7. Stacked' = {}
    BY <1>1 DEF Stacked
  <1>8. FormOnMain' /\ FleetListens' /\ AskersListen'
    BY <1>1, <1>4, <1>7 DEF FormOnMain, FleetListens, AskersListen
  <1>9. OwnQuery'
    BY <1>3 DEF OwnQuery
  <1>10. Listed'
    <2>1. Done \subseteq Done'
      BY <1>3, <1>4 DEF Done, FleetAskers
    <2>. QED
      BY <1>0, <1>4, <1>6, <2>1, ListedKept
  <1>11. EmptyListIsAccountedFor'
    BY <1>7 DEF EmptyListIsAccountedFor, Stacked
  <1>. QED
    BY <1>2, <1>6, <1>8, <1>9, <1>10, <1>11 DEF IInv

-----------------------------------------------------------------------------
(* The invariant of the specification, and what follows from it.           *)

LEMMA Start == Init => IInv
  <1>. SUFFICES ASSUME Init PROVE IInv
    OBVIOUS
  <1>1. /\ front = FALSE /\ buttons = FALSE /\ form = 0 /\ formUp = FALSE /\ busy = FALSE
        /\ creds = FALSE /\ stack = <<>> /\ list = <<>> /\ manager = FALSE /\ acts = 0
    BY DEF Init
  <1>2. SessionInv /\ UnderWay = {}
    BY SessionStart DEF Init
  <1>3. DOMAIN list = {} /\ Stacked = {}
    BY <1>1 DEF Stacked
  <1>4. ScreensTyped
    <2>1. list \in Seq(Lists) /\ Len(list) = 0 /\ stack \in Seq(DOMAIN list)
      BY <1>1
    <2>2. acts \in 0..MaxActs /\ Len(list) <= MaxScreens
      BY <1>1, <2>1, ScreensAssumption
    <2>. QED
      BY <1>1, <2>1, <2>2 DEF ScreensTyped
  <1>5. Outstanding = {}
    BY <1>2, Resting DEF Init, SessionInit, Outstanding, Waiting, InHand, Sent
  <1>6. FormOnMain /\ FleetListens /\ AskersListen
    BY <1>1, <1>3 DEF FormOnMain, FleetListens, AskersListen
  <1>7. OwnQuery /\ Listed /\ EmptyListIsAccountedFor
    BY <1>3, <1>5 DEF OwnQuery, Listed, EmptyListIsAccountedFor
  <1>. QED
    BY <1>2, <1>4, <1>6, <1>7, TypeParts DEF IInv, SessionInv

LEMMA Steps == IInv /\ [Next]_vars => IInv'
  <1>. SUFFICES ASSUME IInv, [Next]_vars PROVE IInv'
    OBVIOUS
  <1>1. CASE UNCHANGED vars
    <2>1. UNCHANGED screenVars /\ UNCHANGED sessionVars
      BY <1>1 DEF vars
    <2>2. SessionInv' /\ Outstanding' = Outstanding /\ failed' = failed
      BY <2>1, Untouched DEF IInv
    <2>. QED
      BY <2>1, <2>2, SessionAlone
  <1>2. CASE User
    <2>1. CASE ResumeMain \/ ResumeForm \/ ResumeList
      BY <2>1, ResumeMainInv, ResumeFormInv, ResumeListInv
    <2>2. CASE Leave \/ Back
      BY <2>2, LeaveInv, BackInv
    <2>3. CASE OpenFleet \/ OpenRow \/ Rotate
      BY <2>3, OpensInv
    <2>4. CASE OpenForm \/ AttemptLogin \/ CloseForm \/ UserLogout
      BY <2>4, OpenFormInv, AttemptLoginInv, CloseFormInv, UserLogoutInv
    <2>. QED
      BY <1>2, <2>1, <2>2, <2>3, <2>4 DEF User
  <1>3. CASE Threads
    BY <1>3, WorkerInv, ExecutorInv DEF Threads
  <1>4. CASE PostExecute
    BY <1>4, PostExecuteInv
  <1>5. CASE \E r \in Slots : Volley(r)
    BY <1>5, VolleyStepInv
  <1>6. CASE \E r \in Slots : Looper(r)
    BY <1>6, DeliverInv, DiesInv DEF Looper
  <1>. QED
    BY <1>1, <1>2, <1>3, <1>4, <1>5, <1>6 DEF Next, Client

\* The inductive invariant holds in every reachable state.
THEOREM Invariance == Spec => []IInv
    BY Start, Steps, PTL DEF Spec

\* TypeOK: the session and the screens stay well typed, for any number of
\* requests, sessions, forms, lists and acts of the user; in particular a query
\* that is dropped by callToServer is always some list's (FcQueryService.java:63-93).
THEOREM TypeCorrect == Spec => []TypeOK
  <1>1. IInv => TypeOK
    BY DEF IInv
  <1>. QED
    BY <1>1, Invariance, PTL

\* PhoneTokenIsLive: as long as nobody logs out, the token in the static field,
\* and in the headers of every query, is one the site accepts, however the
\* log-ins of the worker and of the log-in tasks overlap (FcQueryService.java:137-174).
THEOREM TokenLive == Spec => []PhoneTokenIsLive
  <1>1. IInv => PhoneTokenIsLive
    <2>. SUFFICES ASSUME IInv, ~loggedOut
                  PROVE  /\ token \in live \cup {0}
                         /\ \A r \in UnderWay : reqs[r].op = "get" => reqs[r].hdr \in live \cup {0}
      BY DEF PhoneTokenIsLive
    <2>1. Known \subseteq live \cup {0}
      BY DEF IInv, SessionInv, Accepted
    <2>. QED
      BY <2>1, KnownMembers
  <1>. QED
    BY <1>1, Invariance, PTL

\* LogoutMissesItsSession: no DELETE ever carries the session that it was queued
\* to end, in whatever order the threads and the dispatchers go
\* (logoutOfServer, FcQueryService.java:176-186).
THEOREM LogoutMisses == Spec => []LogoutMissesItsSession
  <1>1. IInv => LogoutMissesItsSession
    BY DEF IInv, SessionInv
  <1>. QED
    BY <1>1, Invariance, PTL

\* EmptyListIsAccountedFor: a list on the stack that has asked and shows nothing
\* has its query pending or failed, or is a fleet list that was paused
\* (onPause, DisplayFleetActivity.java:86-89).
THEOREM EmptyList == Spec => []EmptyListIsAccountedFor
  <1>1. IInv => EmptyListIsAccountedFor
    BY DEF IInv
  <1>. QED
    BY <1>1, Invariance, PTL

\* FleetListedOncePerQuery: a fleet list shows at most as many answers as fleet
\* lists have asked for (handleServerResponse, DisplayFleetActivity.java:91-131).
THEOREM FleetListed == Spec => []FleetListedOncePerQuery
  <1>1. IInv => FleetListedOncePerQuery
    <2>. SUFFICES ASSUME IInv, NEW i \in DOMAIN list, list[i].url = "fleet"
                  PROVE  list[i].rows <= Cardinality(FleetAskers)
      BY DEF FleetListedOncePerQuery, FleetAskers
    <2>1. TypeOK /\ list[i].rows <= Cardinality(Done)
      BY DEF IInv, Listed
    <2>2. /\ Cardinality(Done) <= Cardinality(FleetAskers)
          /\ Cardinality(Done) \in Nat /\ Cardinality(FleetAskers) \in Nat
      BY <2>1, DoneFinite
    <2>3. list[i].rows \in Nat
      BY <2>1, ListFacts
    <2>. QED
      BY <2>1, <2>2, <2>3
  <1>. QED
    BY <1>1, Invariance, PTL
=============================================================================
