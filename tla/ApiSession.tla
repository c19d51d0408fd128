------------------------------ MODULE ApiSession ------------------------------
(***************************************************************************)
(* The session with the web site: FcQueryService and its static token.     *)
(*                                                                         *)
(* Three threads use the service.  The worker of the IntentService takes   *)
(* the screens' queries one by one; the serial executor of AsyncTask runs  *)
(* the log-in and log-out tasks; the main thread runs the listeners of the *)
(* answers.  Requests are carried by Volley: its dispatchers read the      *)
(* headers (and with them the token) when they send a request, not when it *)
(* was queued, and send some requests twice.  The site keeps the set of    *)
(* tokens it accepts.                                                      *)
(*                                                                         *)
(* The token is one static field.  Any error of any request clears it, and *)
(* a log-in that nobody waits for any more is still carried out.           *)
(***************************************************************************)
EXTENDS Naturals, Sequences

CONSTANTS Urls,         \* what the screens ask for
          Askers,       \* the screens
          Forms,        \* the log-in screens
          MaxReqs,      \* bound: requests under way
          MaxSessions   \* bound: tokens told apart

ASSUME SessionAssumption ==
    /\ Askers \subseteq Nat \ {0}
    /\ Forms \subseteq Nat \ {0}
    /\ Urls \cap {"sign_in", "sign_out"} = {}
    /\ MaxReqs \in Nat /\ MaxSessions \in Nat

VARIABLES token,        \* apiToken; 0 is the empty string
          live,         \* the tokens the site accepts
          reqs,         \* the requests under way
          intents,      \* the queries waiting for the worker
          worker,       \* the worker: the query in hand and its log-in
          tasks,        \* the tasks waiting for the serial executor
          task,         \* the executor: the form in hand and its log-in
          posts,        \* results on their way to onPostExecute
          failed,       \* screens whose query came to nothing
          loggedOut     \* the user has logged out

sessionVars == <<token, live, reqs, intents, worker, tasks, task, posts, failed, loggedOut>>

Slots == 1..MaxReqs
Tokens == 1..MaxSessions
MaybeToken == {0} \cup Tokens

\* A request: what it is, the query it is for, whether others of its URL are
\* held back for it, the request it is held back for itself, whether this is
\* its second try, the token in its headers, and tok: for a log-in the token in
\* the answer, for a log-out the session it is to end.
Requests ==
    [op : {"sign_in", "get", "sign_out"}, url : Urls \cup {"sign_in", "sign_out"},
     by : Askers \cup {0}, leads : BOOLEAN, behind : 0..MaxReqs,
     st : {"queued", "sent", "answered", "failed"}, again : BOOLEAN,
     hdr : MaybeToken, tok : MaybeToken]
NoRequest == [st |-> "none"]

Queries == [url : Urls, by : Askers]
NoQuery == [url |-> "none", by |-> 0]

\* A thread in future.get: its request while that is under way, and the token
\* of its answer.
Waits == [on : BOOLEAN, req : 0..MaxReqs, tok : MaybeToken]
NoWait == [on |-> FALSE, req |-> 0, tok |-> 0]

SessionTypeOK ==
    /\ token \in MaybeToken
    /\ live \subseteq Tokens
    /\ reqs \in [Slots -> Requests \cup {NoRequest}]
    /\ intents \in Seq(Queries)
    /\ worker \in [query : Queries \cup {NoQuery}, wait : Waits]
    /\ tasks \in Seq([op : {"login", "logout"}, form : Forms \cup {0}])
    /\ task \in [form : Forms \cup {0}, wait : Waits]
    /\ posts \in Seq([form : Forms, ok : BOOLEAN])
    /\ failed \subseteq Askers
    /\ loggedOut \in BOOLEAN

NoWork == [query |-> NoQuery, wait |-> NoWait]
NoTask == [form |-> 0, wait |-> NoWait]

SessionInit ==
    /\ token = 0 /\ live = {}
    /\ reqs = [r \in Slots |-> NoRequest]
    /\ intents = <<>> /\ tasks = <<>> /\ posts = <<>>
    /\ worker = NoWork /\ task = NoTask
    /\ failed = {} /\ loggedOut = FALSE

-----------------------------------------------------------------------------
(* Calls of the screens.                                                   *)

\* startService with a query.
StartService(query) ==
    /\ intents' = Append(intents, query)
    /\ UNCHANGED <<token, live, reqs, worker, tasks, task, posts, failed, loggedOut>>

\* execute of a UserLoginTask or a UserLogoutTask.
Execute(t) ==
    /\ tasks' = Append(tasks, t)
    /\ UNCHANGED <<token, live, reqs, intents, worker, task, posts, failed, loggedOut>>

-----------------------------------------------------------------------------
(* The request queue.                                                      *)

UnderWay == {r \in Slots : reqs[r] # NoRequest}

\* Where the next request goes: any place that is free.
FreeSlot == CHOOSE r \in Slots : r \notin UnderWay

\* Volley holds a request back while another of its URL leads, to serve it from
\* the cache; those held back are let go together when the leader is over.
Leaders(url) == {r \in UnderWay : reqs[r].url = url /\ reqs[r].leads}

\* queue.add
Queue(op, url, by, tok) ==
    /\ UnderWay # Slots
    /\ reqs' = [reqs EXCEPT ![FreeSlot] =
           [op |-> op, url |-> url, by |-> by,
            leads |-> Leaders(url) = {},
            behind |-> IF Leaders(url) = {} THEN 0 ELSE CHOOSE r \in Leaders(url) : TRUE,
            st |-> "queued", again |-> FALSE, hdr |-> 0, tok |-> tok]]

QueueLogin == Queue("sign_in", "sign_in", 0, 0)
FetchUrl(query) == Queue("get", query.url, query.by, 0)

\* Request.finish
Finish(r) ==
    reqs' = [q \in Slots |->
        CASE q = r -> NoRequest
          [] q # r /\ q \in UnderWay /\ reqs[q].behind = r -> [reqs[q] EXCEPT !.behind = 0]
          [] OTHER -> reqs[q]]

\* handleServerError, whatever the error and whichever session it is about.
HandleServerError == token' = 0

-----------------------------------------------------------------------------
(* loginToServer, on the worker or on the executor: the thread waits for its *)
(* future.  The future is not the error listener of the request, so a failed *)
(* log-in does not wake the thread: only the two seconds do.                 *)

WaitForLogin == [on |-> TRUE, req |-> FreeSlot, tok |-> 0]

\* The wait after request r was answered with tok, or (0) failed.
Told(wait, r, tok) == IF wait.req = r THEN [wait EXCEPT !.req = 0, !.tok = tok] ELSE wait

\* callToServer, on an idle worker: log in first when there is no token.
HandleIntent ==
    /\ worker = NoWork /\ intents # <<>>
    /\ intents' = Tail(intents)
    /\ \/ /\ token # 0
          /\ worker' = [query |-> Head(intents), wait |-> NoWait]
          /\ UNCHANGED reqs
       \/ /\ token = 0
          /\ QueueLogin
          /\ worker' = [query |-> Head(intents), wait |-> WaitForLogin]
    /\ UNCHANGED <<token, live, tasks, task, posts, failed, loggedOut>>

\* The worker's log-in was answered in time.
WorkerLoggedIn ==
    /\ worker.wait.on /\ worker.wait.tok # 0
    /\ token' = worker.wait.tok
    /\ worker' = [worker EXCEPT !.wait = NoWait]
    /\ UNCHANGED <<live, reqs, intents, tasks, task, posts, failed, loggedOut>>

\* The query goes out, whatever became of the token in the meantime.
SendQuery ==
    /\ worker # NoWork /\ ~worker.wait.on
    /\ FetchUrl(worker.query)
    /\ worker' = NoWork
    /\ UNCHANGED <<token, live, intents, tasks, task, posts, failed, loggedOut>>

\* Mutant: the timer runs on after the wait.
WorkerTimerLeftOn ==
    /\ worker.wait.tok = 0
    /\ HandleServerError
    /\ failed' = failed \cup {worker.query.by}
    /\ worker' = NoWork
    /\ UNCHANGED <<live, reqs, intents, tasks, task, posts, loggedOut>>

\* TimeoutException: the query is dropped.
WorkerTimesOut ==
    /\ worker.wait.on /\ worker.wait.tok = 0
    /\ HandleServerError
    /\ failed' = failed \cup {worker.query.by}
    /\ worker' = NoWork
    /\ UNCHANGED <<live, reqs, intents, tasks, task, posts, loggedOut>>

Worker == HandleIntent \/ WorkerLoggedIn \/ WorkerTimesOut \/ SendQuery

-----------------------------------------------------------------------------
(* The serial executor.                                                    *)

Takes(op) == ~task.wait.on /\ tasks # <<>> /\ Head(tasks).op = op /\ tasks' = Tail(tasks)

RunLogin ==
    /\ Takes("login")
    /\ QueueLogin
    /\ task' = [form |-> Head(tasks).form, wait |-> WaitForLogin]
    /\ UNCHANGED <<token, live, intents, worker, posts, failed, loggedOut>>

TaskLoggedIn ==
    /\ task.wait.on /\ task.wait.tok # 0
    /\ token' = task.wait.tok
    /\ posts' = Append(posts, [form |-> task.form, ok |-> TRUE])
    /\ task' = NoTask
    /\ UNCHANGED <<live, reqs, intents, worker, tasks, failed, loggedOut>>

\* Mutant: future.get() without a limit never ends for a log-in that failed.
TaskWaitsForAnswer == UNCHANGED sessionVars

TaskTimesOut ==
    /\ task.wait.on /\ task.wait.tok = 0
    /\ HandleServerError
    /\ posts' = Append(posts, [form |-> task.form, ok |-> FALSE])
    /\ task' = NoTask
    /\ UNCHANGED <<live, reqs, intents, worker, tasks, failed, loggedOut>>

\* Mutant: the DELETE is sent before the token is cleared.
RunLogoutInOrder ==
    /\ Takes("logout")
    /\ UnderWay # Slots
    /\ reqs' = [reqs EXCEPT ![FreeSlot] =
           [op |-> "sign_out", url |-> "sign_out", by |-> 0, leads |-> TRUE, behind |-> 0,
            st |-> "sent", again |-> FALSE, hdr |-> token, tok |-> token]]
    /\ token' = 0 /\ loggedOut' = TRUE
    /\ UNCHANGED <<live, intents, worker, task, posts, failed>>

\* logoutOfServer: the token is cleared, then the DELETE is queued.
RunLogout ==
    /\ Takes("logout")
    /\ token' = 0 /\ loggedOut' = TRUE
    /\ Queue("sign_out", "sign_out", 0, token)
    /\ UNCHANGED <<live, intents, worker, task, posts, failed>>

Executor == RunLogin \/ TaskLoggedIn \/ TaskTimesOut \/ RunLogout

-----------------------------------------------------------------------------
(* The dispatchers and the site.                                           *)

\* getHeaders, when the request is sent.
Dispatch(r) ==
    /\ reqs[r].st = "queued" /\ reqs[r].behind = 0
    /\ reqs' = [reqs EXCEPT ![r].st = "sent",
                            ![r].hdr = IF reqs[r].op = "sign_in" THEN 0 ELSE token]
    /\ UNCHANGED <<token, live, intents, worker, tasks, task, posts, failed, loggedOut>>

\* An error.  Time-outs and refusals are tried once more, on the spot.
Fails(r) ==
    /\ \E st \in {"failed", "queued"} :
          /\ st = "queued" => ~reqs[r].again
          /\ reqs' = [reqs EXCEPT ![r].st = st,
                                  ![r].again = TRUE,
                                  ![r].hdr = 0,
                                  ![r].tok = IF reqs[r].op = "sign_in" THEN 0 ELSE @]
    /\ UNCHANGED <<token, live, intents, worker, tasks, task, posts, failed, loggedOut>>

\* The tokens that the phone still has in some place.  The others can never
\* come back, and their numbers are used again.
Known ==
    {token, worker.wait.tok, task.wait.tok}
        \cup {reqs[r].hdr : r \in UnderWay} \cup {reqs[r].tok : r \in UnderWay}

\* Mutant: a new token takes the place of the earlier ones.
ServeLoginAlone(r) ==
    /\ reqs[r].op = "sign_in"
    /\ \E t \in Tokens \ Known :
          /\ \A u \in Tokens \ Known : t <= u
          /\ live' = {t}
          /\ reqs' = [reqs EXCEPT ![r].st = "answered", ![r].tok = t]
    /\ UNCHANGED <<token, intents, worker, tasks, task, posts, failed, loggedOut>>

\* sessions#create: a new token; earlier ones stay as they are.
ServeLogin(r) ==
    /\ reqs[r].op = "sign_in"
    /\ \E t \in Tokens \ Known :
          /\ \A u \in Tokens \ Known : t <= u
          /\ live' = (live \cap Known) \cup {t}
          /\ reqs' = [reqs EXCEPT ![r].st = "answered", ![r].tok = t]
    /\ UNCHANGED <<token, intents, worker, tasks, task, posts, failed, loggedOut>>

\* A query is answered for a token the site accepts.
ServeGet(r) ==
    /\ reqs[r].op = "get" /\ reqs[r].hdr \in live
    /\ reqs' = [reqs EXCEPT ![r].st = "answered"]
    /\ UNCHANGED <<token, live, intents, worker, tasks, task, posts, failed, loggedOut>>

\* sessions#destroy expires the token in the headers, if the filters before it
\* let the request through; if not, nothing is expired and the phone cannot
\* tell the difference.
ServeLogout(r) ==
    /\ reqs[r].op = "sign_out"
    /\ reqs' = [reqs EXCEPT ![r].st = "answered"]
    /\ live' \in {live, live \ {reqs[r].hdr}}
    /\ UNCHANGED <<token, intents, worker, tasks, task, posts, failed, loggedOut>>

\* The site answers, refuses (bad credentials, a dead token), or the network
\* loses the request or the answer.
Serve(r) ==
    \/ reqs[r].st = "sent" /\ (ServeLogin(r) \/ ServeGet(r) \/ ServeLogout(r) \/ Fails(r))
    \/ reqs[r].st = "answered" /\ Fails(r)

-----------------------------------------------------------------------------
(* The listeners, on the main thread.                                      *)

\* future.onResponse, for whoever still waits.
DeliverLogin(r) ==
    /\ reqs[r].st = "answered" /\ reqs[r].op = "sign_in"
    /\ worker' = [worker EXCEPT !.wait = Told(@, r, reqs[r].tok)]
    /\ task' = [task EXCEPT !.wait = Told(@, r, reqs[r].tok)]
    /\ Finish(r)
    /\ UNCHANGED <<token, live, intents, tasks, posts, failed, loggedOut>>

\* onResponse of fetchUrl; the broadcast is the screens' part.
DeliverResponse(r) ==
    /\ reqs[r].st = "answered" /\ reqs[r].op # "sign_in"
    /\ Finish(r)
    /\ UNCHANGED <<token, live, intents, worker, tasks, task, posts, failed, loggedOut>>

\* onErrorResponse, perhaps long after the thread that asked has given up.
DeliverError(r) ==
    /\ reqs[r].st = "failed"
    /\ HandleServerError
    /\ failed' = IF reqs[r].op = "get" THEN failed \cup {reqs[r].by} ELSE failed
    /\ worker' = [worker EXCEPT !.wait = Told(@, r, 0)]
    /\ task' = [task EXCEPT !.wait = Told(@, r, 0)]
    /\ Finish(r)
    /\ UNCHANGED <<live, intents, tasks, posts, loggedOut>>

\* The process dies and starts anew; the site knows nothing of it.
ProcessDies ==
    /\ token' = 0
    /\ reqs' = [r \in Slots |-> NoRequest]
    /\ intents' = <<>> /\ tasks' = <<>> /\ posts' = <<>>
    /\ worker' = NoWork /\ task' = NoTask
    /\ UNCHANGED <<live, failed, loggedOut>>

-----------------------------------------------------------------------------
(* What is known of a query, and the properties of the session.            *)

\* The query of screen i is still somewhere on its way.
Pending(i) ==
    \/ \E n \in DOMAIN intents : intents[n].by = i
    \/ worker.query.by = i
    \/ \E r \in UnderWay : reqs[r].by = i

\* As long as nobody has logged out, the token the phone holds, and every token
\* a query was sent with, is one the site accepts: the log-ins of both threads may
\* overlap, be answered late and in any order, and none takes another's token
\* away.
PhoneTokenIsLive ==
    ~loggedOut =>
        /\ token \in live \cup {0}
        /\ \A r \in UnderWay : reqs[r].op = "get" => reqs[r].hdr \in live \cup {0}

\* A log-out never reaches the site with the session it is to end: the token is
\* cleared before the DELETE is queued and read when it is sent.  What it may
\* carry, after a quick log-in, is the session that came after.
LogoutMissesItsSession ==
    \A r \in UnderWay :
        (reqs[r].op = "sign_out" /\ reqs[r].tok # 0) => reqs[r].hdr # reqs[r].tok
=============================================================================
