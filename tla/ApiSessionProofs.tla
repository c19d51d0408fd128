--------------------------- MODULE ApiSessionProofs ---------------------------
(***************************************************************************)
(* The inductive invariant of the session (ApiSession), and the lemmas that *)
(* the proofs about the screens (FleetScreensProofs) rest on.              *)
(*                                                                         *)
(* An action touches the requests under way in one of three manners: it    *)
(* queues one, finishes one, or changes one in place.  Each manner has a   *)
(* lemma that says which fields of which requests it leaves alone; every   *)
(* other proof is about those facts and not about the board itself.        *)
(***************************************************************************)
EXTENDS ApiSession, SequenceTheorems, TLAPS

-----------------------------------------------------------------------------
(* The inductive invariant.                                                *)

\* What the threads have in hand: a thread that waits has a query or a form to
\* log in for, the request it waits for is a log-in under way, and the two
\* threads never wait for the same one.
Threaded ==
    /\ worker # NoWork => worker.query \in Queries
    /\ ~worker.wait.on => worker.wait = NoWait
    /\ task.wait.on => task.form \in Forms
    /\ ~task.wait.on => task = NoTask
    /\ \A n \in DOMAIN tasks : tasks[n].op = "login" => tasks[n].form \in Forms
    /\ worker.wait.req # 0 =>
          /\ worker.wait.req \in UnderWay /\ reqs[worker.wait.req].op = "sign_in"
          /\ worker.wait.req # task.wait.req
    /\ task.wait.req # 0 =>
          task.wait.req \in UnderWay /\ reqs[task.wait.req].op = "sign_in"

\* A query is under way for a screen, the other requests for none.
Addressed ==
    \A r \in UnderWay :
        IF reqs[r].op = "get" THEN reqs[r].by \in Askers /\ reqs[r].url \in Urls
                              ELSE reqs[r].by = 0 /\ reqs[r].url \notin Urls

\* As long as nobody logged out the site accepts all the phone knows.
Accepted ==
    ~loggedOut =>
        /\ Known \subseteq live \cup {0}
        /\ \A r \in UnderWay : reqs[r].op # "sign_out"

\* A token is in one place only on its way from the answer of a log-in to the
\* static field, and no log-out is to end it while it is on that way.
OnePlace ==
    /\ worker.wait.tok # 0 => worker.wait.tok # token /\ worker.wait.tok # task.wait.tok
    /\ task.wait.tok # 0 => task.wait.tok # token
    /\ \A r \in UnderWay : reqs[r].tok # 0 =>
          /\ reqs[r].tok # token
          /\ reqs[r].tok # worker.wait.tok /\ reqs[r].tok # task.wait.tok
    /\ \A q, r \in UnderWay :
          (q # r /\ reqs[q].op = "sign_in" /\ reqs[q].tok # 0) => reqs[q].tok # reqs[r].tok

\* A screen's query is in one place only: waiting for the worker, in its hand,
\* or under way.
OneQuery ==
    /\ \A m, n \in DOMAIN intents : intents[m].by = intents[n].by => m = n
    /\ \A m \in DOMAIN intents : intents[m].by # worker.query.by
    /\ \A m \in DOMAIN intents : \A r \in UnderWay : intents[m].by # reqs[r].by
    /\ \A r \in UnderWay : reqs[r].by # 0 => reqs[r].by # worker.query.by
    /\ \A q, r \in UnderWay : (reqs[r].by # 0 /\ reqs[r].by = reqs[q].by) => r = q

SessionInv ==
    /\ SessionTypeOK
    /\ Threaded
    /\ Addressed
    /\ Accepted
    /\ OnePlace
    /\ LogoutMissesItsSession
    /\ OneQuery

-----------------------------------------------------------------------------
(* The board of requests.                                                  *)

Board == [Slots -> Requests \cup {NoRequest}]

\* The step leaves alone what request q is, and the tokens that go with it.
Keeps(q) ==
    /\ reqs'[q].op = reqs[q].op
    /\ reqs'[q].url = reqs[q].url
    /\ reqs'[q].by = reqs[q].by
KeepsTokens(q) ==
    /\ reqs'[q].hdr = reqs[q].hdr
    /\ reqs'[q].tok = reqs[q].tok

\* The step queues the request at s, finishes r, or changes r in place.
Grown(s, op, url, by, tok) ==
    /\ s \in Slots /\ s \notin UnderWay
    /\ reqs' \in Board
    /\ UnderWay' = UnderWay \cup {s}
    /\ \A q \in UnderWay : Keeps(q) /\ KeepsTokens(q)
    /\ reqs'[s].op = op /\ reqs'[s].url = url /\ reqs'[s].by = by
    /\ reqs'[s].hdr = 0 /\ reqs'[s].tok = tok
Shrunk(r) ==
    /\ r \in UnderWay
    /\ reqs' \in Board
    /\ UnderWay' = UnderWay \ {r}
    /\ \A q \in UnderWay \ {r} : Keeps(q) /\ KeepsTokens(q)
Touched(r) ==
    /\ r \in UnderWay
    /\ reqs' \in Board
    /\ UnderWay' = UnderWay
    /\ \A q \in UnderWay : Keeps(q)
    /\ \A q \in UnderWay \ {r} : KeepsTokens(q)

\* A request under way has all its fields; an empty place has none of them.
LEMMA RequestTyped ==
    ASSUME NEW b \in Board, NEW r \in Slots
    PROVE  /\ (b[r] # NoRequest) <=> b[r] \in Requests
           /\ b[r].st \in {"queued", "sent", "answered", "failed"} => b[r] \in Requests
    BY DEF Board, Requests, NoRequest

LEMMA Fields ==
    ASSUME reqs \in Board, NEW r \in UnderWay
    PROVE  /\ r \in Slots /\ reqs[r] \in Requests
           /\ reqs[r].op \in {"sign_in", "get", "sign_out"}
           /\ reqs[r].url \in Urls \cup {"sign_in", "sign_out"}
           /\ reqs[r].by \in Askers \cup {0}
           /\ reqs[r].hdr \in MaybeToken /\ reqs[r].tok \in MaybeToken
  <1>1. r \in Slots /\ reqs[r] \in Requests
    BY RequestTyped DEF UnderWay
  <1>. QED
    BY <1>1 DEF Requests

\* queue.add takes a free place and leaves the others alone.
LEMMA QueueEffect ==
    ASSUME reqs \in Board,
           NEW op \in {"sign_in", "get", "sign_out"},
           NEW url \in Urls \cup {"sign_in", "sign_out"},
           NEW by \in Askers \cup {0}, NEW tok \in MaybeToken,
           Queue(op, url, by, tok)
    PROVE  Grown(FreeSlot, op, url, by, tok)
  <1>. DEFINE s == FreeSlot
              ld == Leaders(url)
              bh == IF ld = {} THEN 0 ELSE CHOOSE r \in ld : TRUE
              new == [op |-> op, url |-> url, by |-> by, leads |-> ld = {}, behind |-> bh,
                      st |-> "queued", again |-> FALSE, hdr |-> 0, tok |-> tok]
  <1>1. s \in Slots /\ s \notin UnderWay
    <2>1. \E r \in Slots : r \notin UnderWay
      BY DEF Queue, UnderWay
    <2>. QED
      BY <2>1 DEF FreeSlot
  <1>2. reqs' = [reqs EXCEPT ![s] = new]
    BY DEF Queue
  <1>3. bh \in 0..MaxReqs
    <2>1. ld \subseteq 1..MaxReqs
      BY DEF Leaders, UnderWay, Slots
    <2>2. 0 \in 0..MaxReqs /\ 1..MaxReqs \subseteq 0..MaxReqs
      BY SessionAssumption
    <2>. HIDE DEF ld
    <2>3. CASE ld = {}
      BY <2>2, <2>3
    <2>4. CASE ld # {}
      <3>1. \E r \in ld : TRUE
        BY <2>4
      <3>2. (CHOOSE r \in ld : TRUE) \in ld
        BY <3>1
      <3>3. bh = CHOOSE r \in ld : TRUE
        BY <2>4
      <3>. QED
        BY <2>1, <2>2, <3>2, <3>3
    <2>. QED
      BY <2>3, <2>4
  <1>4. (ld = {}) \in BOOLEAN
    OBVIOUS
  <1>5. new \in Requests
    <2>. HIDE DEF ld, bh
    <2>1. 0 \in MaybeToken
      BY DEF MaybeToken
    <2>. QED
      BY <1>3, <2>1 DEF Requests
  <1>6. /\ new.op = op /\ new.url = url /\ new.by = by
        /\ new.hdr = 0 /\ new.tok = tok
    OBVIOUS
  <1>. HIDE DEF s, new
  <1>7. reqs' \in Board /\ reqs'[s] = new /\ \A q \in Slots \ {s} : reqs'[q] = reqs[q]
    BY <1>1, <1>2, <1>5 DEF Board
  <1>8. new # NoRequest
    BY <1>5 DEF Requests, NoRequest
  <1>9. UnderWay' = UnderWay \cup {s}
    BY <1>1, <1>7, <1>8 DEF UnderWay
  <1>10. \A q \in UnderWay : Keeps(q) /\ KeepsTokens(q)
    BY <1>1, <1>7 DEF UnderWay, Keeps, KeepsTokens
  <1>. QED
    BY <1>1, <1>6, <1>7, <1>9, <1>10 DEF Grown, s

\* Request.finish frees a place, and lets others go without changing them
\* otherwise.
LEMMA FinishEffect ==
    ASSUME reqs \in Board, NEW r \in UnderWay, Finish(r)
    PROVE  Shrunk(r)
  <1>1. r \in Slots
    BY DEF UnderWay
  <1>2. \A q \in UnderWay : [reqs[q] EXCEPT !.behind = 0] \in Requests
    <2>. TAKE q \in UnderWay
    <2>1. reqs[q] \in Requests
      BY Fields
    <2>2. 0 \in 0..MaxReqs
      BY SessionAssumption
    <2>. QED
      BY <2>1, <2>2 DEF Requests
  <1>3. \A q \in UnderWay : /\ [reqs[q] EXCEPT !.behind = 0].op = reqs[q].op
                            /\ [reqs[q] EXCEPT !.behind = 0].url = reqs[q].url
                            /\ [reqs[q] EXCEPT !.behind = 0].by = reqs[q].by
                            /\ [reqs[q] EXCEPT !.behind = 0].hdr = reqs[q].hdr
                            /\ [reqs[q] EXCEPT !.behind = 0].tok = reqs[q].tok
    <2>. TAKE q \in UnderWay
    <2>1. reqs[q] \in Requests
      BY Fields
    <2>. QED
      BY <2>1 DEF Requests
  <1>4. reqs'[r] = NoRequest
    BY <1>1 DEF Finish
  <1>5. \A q \in Slots \ {r} :
            \/ q \in UnderWay /\ reqs'[q] = [reqs[q] EXCEPT !.behind = 0]
            \/ reqs'[q] = reqs[q]
    BY DEF Finish
  <1>6. \A q \in Slots : reqs'[q] \in Requests \cup {NoRequest}
    BY <1>2, <1>4, <1>5 DEF Board
  <1>7. reqs' \in Board
    BY <1>6 DEF Finish, Board
  <1>8. \A q \in UnderWay \ {r} : reqs'[q] \in Requests
    BY <1>2, <1>5, Fields DEF UnderWay
  <1>9. \A q \in Slots \ UnderWay : reqs'[q] = NoRequest
    BY <1>5 DEF UnderWay
  <1>10. NoRequest \notin Requests
    BY DEF Requests, NoRequest
  <1>11. UnderWay' = UnderWay \ {r}
    BY <1>1, <1>4, <1>8, <1>9, <1>10 DEF UnderWay
  <1>12. \A q \in UnderWay \ {r} : Keeps(q) /\ KeepsTokens(q)
    BY <1>3, <1>5 DEF UnderWay, Keeps, KeepsTokens
  <1>. QED
    BY <1>7, <1>11, <1>12 DEF Shrunk

\* A request changed in place.
LEMMA TouchEffect ==
    ASSUME reqs \in Board, NEW r \in UnderWay, NEW new \in Requests,
           reqs' = [reqs EXCEPT ![r] = new],
           new.op = reqs[r].op, new.url = reqs[r].url, new.by = reqs[r].by
    PROVE  Touched(r) /\ reqs'[r] = new
  <1>1. r \in Slots
    BY DEF UnderWay
  <1>2. reqs' \in Board /\ reqs'[r] = new /\ \A q \in Slots \ {r} : reqs'[q] = reqs[q]
    BY <1>1 DEF Board
  <1>3. NoRequest \notin Requests
    BY DEF Requests, NoRequest
  <1>4. UnderWay' = UnderWay
    BY <1>1, <1>2, <1>3 DEF UnderWay
  <1>5. \A q \in UnderWay : q \in Slots
    BY DEF UnderWay
  <1>. QED
    BY <1>2, <1>4, <1>5 DEF Touched, Keeps, KeepsTokens

\* What a step in place may do to the tokens of a request, unless the request
\* is a log-in that is answered: drop them, or take the phone's for the headers.
Retouched(r) ==
    /\ Touched(r)
    /\ reqs'[r].hdr \in {0, token, reqs[r].hdr}
    /\ reqs'[r].tok \in {0, reqs[r].tok}

LEMMA TypeFacts ==
    ASSUME SessionTypeOK
    PROVE  /\ reqs \in Board
           /\ token \in MaybeToken /\ 0 \in MaybeToken
           /\ Tokens \subseteq MaybeToken /\ 0 \notin Tokens
           /\ 0 \notin Slots
           /\ 0 \notin Askers /\ 0 \notin Forms
           /\ "sign_in" \notin Urls /\ "sign_out" \notin Urls
  <1>1. reqs \in Board /\ token \in MaybeToken
    BY DEF SessionTypeOK, Board
  <1>2. 0 \in MaybeToken /\ Tokens \subseteq MaybeToken
    BY DEF MaybeToken
  <1>3. 0 \notin Tokens /\ 0 \notin Slots
    BY DEF Tokens, Slots
  <1>4. 0 \notin Askers /\ 0 \notin Forms
    BY SessionAssumption
  <1>5. "sign_in" \notin Urls /\ "sign_out" \notin Urls
    BY SessionAssumption
  <1>. QED
    BY <1>1, <1>2, <1>3, <1>4, <1>5

LEMMA DispatchEffect ==
    ASSUME SessionTypeOK, NEW r \in Slots, Dispatch(r)
    PROVE  Retouched(r)
  <1>. DEFINE h == IF reqs[r].op = "sign_in" THEN 0 ELSE token
              new == [reqs[r] EXCEPT !.st = "sent", !.hdr = h]
  <1>0. reqs \in Board
    BY TypeFacts
  <1>1. reqs[r] \in Requests /\ r \in UnderWay
    BY <1>0, RequestTyped DEF Dispatch, UnderWay
  <1>2. h \in {0, token} /\ h \in MaybeToken
    BY TypeFacts
  <1>3. reqs' = [reqs EXCEPT ![r] = new]
    BY <1>0 DEF Dispatch, Board
  <1>. HIDE DEF h
  <1>4. new \in Requests
    BY <1>1, <1>2 DEF Requests
  <1>5. /\ new.op = reqs[r].op /\ new.url = reqs[r].url /\ new.by = reqs[r].by
        /\ new.hdr = h /\ new.tok = reqs[r].tok
    BY <1>1 DEF Requests
  <1>. HIDE DEF new
  <1>6. Touched(r) /\ reqs'[r] = new
    BY <1>0, <1>1, <1>3, <1>4, <1>5, TouchEffect
  <1>. QED
    BY <1>2, <1>5, <1>6 DEF Retouched

LEMMA FailsEffect ==
    ASSUME SessionTypeOK, NEW r \in UnderWay, Fails(r)
    PROVE  Retouched(r)
  <1>0. reqs \in Board
    BY TypeFacts
  <1>1. reqs[r] \in Requests /\ r \in Slots
    BY <1>0, Fields
  <1>. DEFINE k == IF reqs[r].op = "sign_in" THEN 0 ELSE reqs[r].tok
              New(s) == [reqs[r] EXCEPT !.st = s, !.again = TRUE, !.hdr = 0, !.tok = k]
  <1>2. PICK s \in {"failed", "queued"} : reqs' = [reqs EXCEPT ![r] = New(s)]
    <2>1. PICK s \in {"failed", "queued"} :
              reqs' = [reqs EXCEPT ![r].st = s, ![r].again = TRUE, ![r].hdr = 0,
                                   ![r].tok = IF reqs[r].op = "sign_in" THEN 0 ELSE @]
      BY DEF Fails
    <2>2. reqs' = [reqs EXCEPT ![r] = New(s)]
      BY <1>0, <1>1, <2>1 DEF Board
    <2>. QED
      BY <2>2
  <1>3. k \in {0, reqs[r].tok} /\ k \in MaybeToken /\ 0 \in MaybeToken
    BY <1>0, TypeFacts, Fields
  <1>. HIDE DEF k
  <1>4. New(s) \in Requests
    BY <1>1, <1>3 DEF Requests
  <1>5. /\ New(s).op = reqs[r].op /\ New(s).url = reqs[r].url /\ New(s).by = reqs[r].by
        /\ New(s).hdr = 0 /\ New(s).tok = k
    BY <1>1 DEF Requests
  <1>. HIDE DEF New
  <1>6. Touched(r) /\ reqs'[r] = New(s)
    BY <1>0, <1>1, <1>2, <1>4, <1>5, TouchEffect
  <1>. QED
    BY <1>3, <1>5, <1>6 DEF Retouched

LEMMA AnswerEffect ==
    ASSUME SessionTypeOK, NEW r \in UnderWay, NEW t \in MaybeToken,
           \/ reqs' = [reqs EXCEPT ![r].st = "answered", ![r].tok = t]
           \/ reqs' = [reqs EXCEPT ![r].st = "answered"] /\ t = reqs[r].tok
    PROVE  Touched(r) /\ reqs'[r].hdr = reqs[r].hdr /\ reqs'[r].tok = t
  <1>. DEFINE new == [reqs[r] EXCEPT !.st = "answered", !.tok = t]
  <1>0. reqs \in Board
    BY TypeFacts
  <1>1. reqs[r] \in Requests /\ r \in Slots
    BY <1>0, Fields
  <1>2. t = reqs[r].tok => new = [reqs[r] EXCEPT !.st = "answered"]
    BY <1>1 DEF Requests
  <1>3. reqs' = [reqs EXCEPT ![r] = new]
    <2>1. CASE reqs' = [reqs EXCEPT ![r].st = "answered", ![r].tok = t]
      BY <1>0, <1>1, <2>1 DEF Board
    <2>2. CASE reqs' = [reqs EXCEPT ![r].st = "answered"] /\ t = reqs[r].tok
      <3>1. reqs' = [reqs EXCEPT ![r] = [reqs[r] EXCEPT !.st = "answered"]]
        BY <1>0, <1>1, <2>2 DEF Board
      <3>. QED
        BY <1>2, <2>2, <3>1
    <2>. QED
      BY <2>1, <2>2
  <1>4. new \in Requests
    BY <1>1 DEF Requests
  <1>5. /\ new.op = reqs[r].op /\ new.url = reqs[r].url /\ new.by = reqs[r].by
        /\ new.hdr = reqs[r].hdr /\ new.tok = t
    BY <1>1 DEF Requests
  <1>. HIDE DEF new
  <1>6. Touched(r) /\ reqs'[r] = new
    BY <1>0, <1>1, <1>3, <1>4, <1>5, TouchEffect
  <1>. QED
    BY <1>5, <1>6

\* A log-in that is answered brings a token the phone has nowhere.
Answered(r) ==
    \E t \in Tokens \ Known :
        /\ Touched(r)
        /\ reqs[r].op = "sign_in"
        /\ reqs'[r].hdr = reqs[r].hdr
        /\ reqs'[r].tok = t
        /\ live' = (live \cap Known) \cup {t}

LEMMA ServeEffect ==
    ASSUME SessionTypeOK, NEW r \in Slots, Serve(r)
    PROVE  /\ UNCHANGED <<token, intents, worker, tasks, task, posts, failed, loggedOut>>
           /\ \/ Answered(r)
              \/ Retouched(r) /\ live' = live
              \/ /\ Retouched(r) /\ r \in UnderWay /\ reqs[r].op = "sign_out"
                 /\ live' \subseteq live
  <1>0. r \in UnderWay /\ reqs[r].tok \in MaybeToken
    <2>1. reqs \in Board
      BY TypeFacts
    <2>2. r \in UnderWay
      BY <2>1, RequestTyped DEF Serve, UnderWay
    <2>. QED
      BY <2>1, <2>2, Fields
  <1>1. CASE ServeLogin(r)
    <2>1. PICK t \in Tokens \ Known :
              /\ live' = (live \cap Known) \cup {t}
              /\ reqs' = [reqs EXCEPT ![r].st = "answered", ![r].tok = t]
      BY <1>1 DEF ServeLogin
    <2>2. t \in MaybeToken
      BY TypeFacts
    <2>3. Touched(r) /\ reqs'[r].hdr = reqs[r].hdr /\ reqs'[r].tok = t
      BY <1>0, <2>1, <2>2, AnswerEffect
    <2>. QED
      BY <1>1, <2>1, <2>3 DEF Answered, ServeLogin
  <1>2. CASE ServeGet(r)
    <2>1. Touched(r) /\ reqs'[r].hdr = reqs[r].hdr /\ reqs'[r].tok = reqs[r].tok
      BY <1>0, <1>2, AnswerEffect DEF ServeGet
    <2>. QED
      BY <1>2, <2>1 DEF Retouched, ServeGet
  <1>3. CASE ServeLogout(r)
    <2>1. Touched(r) /\ reqs'[r].hdr = reqs[r].hdr /\ reqs'[r].tok = reqs[r].tok
      BY <1>0, <1>3, AnswerEffect DEF ServeLogout
    <2>2. live' \subseteq live
      BY <1>3 DEF ServeLogout
    <2>. QED
      BY <1>0, <1>3, <2>1, <2>2 DEF Retouched, ServeLogout
  <1>4. CASE Fails(r)
    BY <1>0, <1>4, FailsEffect DEF Fails
  <1>. QED
    BY <1>1, <1>2, <1>3, <1>4 DEF Serve

-----------------------------------------------------------------------------
(* What every step does to the board, and what follows for the requests.   *)

Still ==
    /\ reqs' \in Board
    /\ UnderWay' = UnderWay
    /\ \A q \in UnderWay : Keeps(q) /\ KeepsTokens(q)
Cleared == reqs' \in Board /\ UnderWay' = {}

LoginQueued == \E s \in Slots : Grown(s, "sign_in", "sign_in", 0, 0)
LogoutQueued == \E s \in Slots : Grown(s, "sign_out", "sign_out", 0, token)
QueryQueued ==
    \E s \in Slots : \E query \in Queries : Grown(s, "get", query.url, query.by, 0)
LoginAnswered == \E r \in Slots : Answered(r)

\* The steps that bring neither a token nor a query.
Plain ==
    \/ Still
    \/ Cleared
    \/ LoginQueued
    \/ \E r \in Slots : Shrunk(r) \/ Retouched(r)

BoardStep == Plain \/ LogoutQueued \/ QueryQueued \/ LoginAnswered

\* The steps that finish no request.
Lasting ==
    \/ Still \/ LoginQueued \/ LogoutQueued \/ QueryQueued
    \/ \E r \in Slots : Retouched(r) \/ Answered(r)

LEMMA StillEffect ==
    ASSUME SessionTypeOK, UNCHANGED reqs
    PROVE  Still
    BY TypeFacts DEF Still, UnderWay, Keeps, KeepsTokens

\* Whatever the step, the board stays well typed, the requests addressed, and no
\* log-out gets the token it is to end into its headers.
LEMMA BoardSafe ==
    ASSUME SessionInv, BoardStep
    PROVE  reqs' \in Board /\ Addressed' /\ LogoutMissesItsSession'
  <1>. USE DEF SessionInv
  <1>1. CASE Still
    BY <1>1 DEF Still, Keeps, KeepsTokens, Addressed, LogoutMissesItsSession
  <1>2. CASE Cleared
    BY <1>2 DEF Cleared, Addressed, LogoutMissesItsSession
  <1>3. ASSUME NEW r \in Slots, Shrunk(r)
        PROVE  reqs' \in Board /\ Addressed' /\ LogoutMissesItsSession'
    BY <1>3 DEF Shrunk, Keeps, KeepsTokens, Addressed, LogoutMissesItsSession
  <1>4. ASSUME NEW r \in Slots, Retouched(r)
        PROVE  reqs' \in Board /\ Addressed' /\ LogoutMissesItsSession'
    <2>1. reqs' \in Board /\ Addressed'
      BY <1>4 DEF Retouched, Touched, Keeps, Addressed
    <2>2. ASSUME NEW q \in UnderWay, reqs[q].op = "sign_out", reqs'[q].tok # 0
          PROVE  reqs'[q].hdr # reqs'[q].tok
      <3>1. CASE q = r
        BY <1>4, <2>2, <3>1 DEF Retouched, OnePlace, LogoutMissesItsSession
      <3>2. CASE q # r
        BY <1>4, <2>2, <3>2 DEF Retouched, Touched, KeepsTokens, LogoutMissesItsSession
      <3>. QED
        BY <3>1, <3>2
    <2>3. UnderWay' = UnderWay /\ \A q \in UnderWay : reqs'[q].op = reqs[q].op
      BY <1>4 DEF Retouched, Touched, Keeps
    <2>4. LogoutMissesItsSession'
      BY <2>2, <2>3 DEF LogoutMissesItsSession
    <2>. QED
      BY <2>1, <2>4
  <1>5. ASSUME NEW r \in Slots, Answered(r)
        PROVE  reqs' \in Board /\ Addressed' /\ LogoutMissesItsSession'
    BY <1>5 DEF Answered, Touched, Keeps, KeepsTokens, Addressed, LogoutMissesItsSession
  <1>6. ASSUME NEW s \in Slots, NEW op \in {"sign_in", "sign_out"}, NEW tok,
               Grown(s, op, op, 0, tok)
        PROVE  reqs' \in Board /\ Addressed' /\ LogoutMissesItsSession'
    <2>1. op # "get" /\ op \notin Urls
      BY <1>6, TypeFacts
    <2>. QED
      BY <1>6, <2>1 DEF Grown, Keeps, KeepsTokens, Addressed, LogoutMissesItsSession
  <1>7. ASSUME NEW s \in Slots, NEW query \in Queries,
               Grown(s, "get", query.url, query.by, 0)
        PROVE  reqs' \in Board /\ Addressed' /\ LogoutMissesItsSession'
    <2>1. query.url \in Urls /\ query.by \in Askers
      BY DEF Queries
    <2>. QED
      BY <1>7, <2>1 DEF Grown, Keeps, KeepsTokens, Addressed, LogoutMissesItsSession
  <1>. QED
    BY <1>1, <1>2, <1>3, <1>4, <1>5, <1>6, <1>7 DEF BoardStep, Plain, LoginQueued, LogoutQueued, QueryQueued, LoginAnswered

-----------------------------------------------------------------------------
(* The tokens of the phone.                                                *)

LEMMA KnownMembers ==
    /\ token \in Known /\ worker.wait.tok \in Known /\ task.wait.tok \in Known
    /\ \A r \in UnderWay : reqs[r].hdr \in Known /\ reqs[r].tok \in Known
    BY DEF Known

\* The step brings the phone no token it did not have.
NoNews ==
    /\ token' \in Known \cup {0}
    /\ worker'.wait.tok \in Known \cup {0}
    /\ task'.wait.tok \in Known \cup {0}
    /\ \A r \in UnderWay' : reqs'[r].hdr \in Known \cup {0} /\ reqs'[r].tok \in Known \cup {0}

LEMMA BoardNoNews ==
    ASSUME Plain \/ LogoutQueued \/ QueryQueued
    PROVE  \A r \in UnderWay' : reqs'[r].hdr \in Known \cup {0} /\ reqs'[r].tok \in Known \cup {0}
  <1>1. ASSUME NEW q \in UnderWay, Keeps(q) /\ KeepsTokens(q)
        PROVE  reqs'[q].hdr \in Known \cup {0} /\ reqs'[q].tok \in Known \cup {0}
    BY <1>1, KnownMembers DEF KeepsTokens
  <1>2. CASE Still \/ Cleared
    BY <1>1, <1>2 DEF Still, Cleared
  <1>3. CASE \E r \in Slots : Shrunk(r)
    BY <1>1, <1>3 DEF Shrunk
  <1>4. ASSUME NEW r \in Slots, Retouched(r), NEW q \in UnderWay'
        PROVE  reqs'[q].hdr \in Known \cup {0} /\ reqs'[q].tok \in Known \cup {0}
    <2>1. q \in UnderWay
      BY <1>4 DEF Retouched, Touched
    <2>2. CASE q = r
      BY <1>4, <2>1, <2>2, KnownMembers DEF Retouched
    <2>3. CASE q # r
      BY <1>1, <1>4, <2>1, <2>3 DEF Retouched, Touched
    <2>. QED
      BY <2>2, <2>3
  <1>5. ASSUME NEW s \in Slots, NEW op, NEW url, NEW by, NEW tok \in {0, token},
               Grown(s, op, url, by, tok), NEW q \in UnderWay'
        PROVE  reqs'[q].hdr \in Known \cup {0} /\ reqs'[q].tok \in Known \cup {0}
    <2>1. CASE q = s
      BY <1>5, <2>1, KnownMembers DEF Grown
    <2>2. CASE q \in UnderWay
      BY <1>1, <1>5, <2>2 DEF Grown
    <2>. QED
      BY <1>5, <2>1, <2>2 DEF Grown
  <1>. QED
    BY <1>2, <1>3, <1>4, <1>5 DEF BoardStep, Plain, LoginQueued, LogoutQueued, QueryQueued, LoginAnswered

\* A step that brings no token, and takes none away before the log-out, keeps
\* what the site accepts.
LEMMA AcceptedStep ==
    ASSUME Accepted, NoNews,
           ~loggedOut' => /\ ~loggedOut /\ live \subseteq live'
                          /\ \A r \in UnderWay' : reqs'[r].op # "sign_out"
    PROVE  Accepted'
  <1>. SUFFICES ASSUME ~loggedOut'
                PROVE  Known' \subseteq live' \cup {0}
    BY DEF Accepted
  <1>1. Known \subseteq live \cup {0}
    BY DEF Accepted
  <1>2. Known' \subseteq Known \cup {0}
    BY DEF NoNews, Known
  <1>. QED
    BY <1>1, <1>2

\* A log-in does not add a log-out.
LEMMA NoLogout ==
    ASSUME Accepted, ~loggedOut, Plain \/ QueryQueued \/ LoginAnswered
    PROVE  \A r \in UnderWay' : reqs'[r].op # "sign_out"
  <1>1. \A r \in UnderWay : reqs[r].op # "sign_out"
    BY DEF Accepted
  <1>2. CASE Still \/ Cleared
    BY <1>1, <1>2 DEF Still, Cleared, Keeps
  <1>3. CASE \E r \in Slots : Shrunk(r) \/ Retouched(r) \/ Answered(r)
    BY <1>1, <1>3 DEF Shrunk, Retouched, Answered, Touched, Keeps
  <1>4. ASSUME NEW s \in Slots, NEW op, NEW url, NEW by, NEW tok, op # "sign_out",
               Grown(s, op, url, by, tok)
        PROVE  \A r \in UnderWay' : reqs'[r].op # "sign_out"
    BY <1>1, <1>4 DEF Grown, Keeps
  <1>. QED
    BY <1>2, <1>3, <1>4 DEF BoardStep, Plain, LoginQueued, LogoutQueued, QueryQueued, LoginAnswered

-----------------------------------------------------------------------------
(* What the parts of the invariant need of a step.                         *)

\* Where the tokens and the queries of the requests come from.
LEMMA BoardTokens ==
    ASSUME Plain \/ QueryQueued
    PROVE  \A q \in UnderWay' : reqs'[q].tok # 0 =>
               q \in UnderWay /\ reqs'[q].tok = reqs[q].tok /\ reqs'[q].op = reqs[q].op
  <1>2. CASE Still \/ Cleared
    BY <1>2 DEF Still, Cleared, Keeps, KeepsTokens
  <1>3. CASE \E r \in Slots : Shrunk(r)
    BY <1>3 DEF Shrunk, Keeps, KeepsTokens
  <1>4. ASSUME NEW r \in Slots, Retouched(r), NEW q \in UnderWay', reqs'[q].tok # 0
        PROVE  q \in UnderWay /\ reqs'[q].tok = reqs[q].tok /\ reqs'[q].op = reqs[q].op
    <2>1. q \in UnderWay /\ reqs'[q].op = reqs[q].op
      BY <1>4 DEF Retouched, Touched, Keeps
    <2>2. CASE q = r
      BY <1>4, <2>1, <2>2 DEF Retouched
    <2>3. CASE q # r
      BY <1>4, <2>1, <2>3 DEF Retouched, Touched, KeepsTokens
    <2>. QED
      BY <2>2, <2>3
  <1>5. ASSUME NEW s \in Slots, NEW op, NEW url, NEW by, Grown(s, op, url, by, 0)
        PROVE  \A q \in UnderWay' : reqs'[q].tok # 0 =>
               q \in UnderWay /\ reqs'[q].tok = reqs[q].tok /\ reqs'[q].op = reqs[q].op
    BY <1>5 DEF Grown, Keeps, KeepsTokens
  <1>. QED
    BY <1>2, <1>3, <1>4, <1>5 DEF BoardStep, Plain, LoginQueued, LogoutQueued, QueryQueued, LoginAnswered

LEMMA BoardQueries ==
    ASSUME Plain \/ LogoutQueued \/ LoginAnswered
    PROVE  \A q \in UnderWay' : reqs'[q].by # 0 => q \in UnderWay /\ reqs'[q].by = reqs[q].by
  <1>2. CASE Still \/ Cleared
    BY <1>2 DEF Still, Cleared, Keeps
  <1>3. CASE \E r \in Slots : Shrunk(r) \/ Retouched(r) \/ Answered(r)
    BY <1>3 DEF Shrunk, Retouched, Answered, Touched, Keeps
  <1>4. ASSUME NEW s \in Slots, NEW op, NEW tok, Grown(s, op, op, 0, tok)
        PROVE  \A q \in UnderWay' : reqs'[q].by # 0 => q \in UnderWay /\ reqs'[q].by = reqs[q].by
    BY <1>4 DEF Grown, Keeps
  <1>. QED
    BY <1>2, <1>3, <1>4 DEF BoardStep, Plain, LoginQueued, LogoutQueued, QueryQueued, LoginAnswered

\* The places of the tokens may only be emptied.
LEMMA OnePlaceKept ==
    ASSUME OnePlace, Plain \/ QueryQueued,
           token' \in {0, token}, worker'.wait.tok \in {0, worker.wait.tok},
           task'.wait.tok \in {0, task.wait.tok}
    PROVE  OnePlace'
  <1>1. \A q \in UnderWay' : reqs'[q].tok # 0 =>
            q \in UnderWay /\ reqs'[q].tok = reqs[q].tok /\ reqs'[q].op = reqs[q].op
    BY BoardTokens
  <1>2. /\ worker'.wait.tok # 0 =>
              worker'.wait.tok # token' /\ worker'.wait.tok # task'.wait.tok
        /\ task'.wait.tok # 0 => task'.wait.tok # token'
    BY DEF OnePlace
  <1>3. \A r \in UnderWay' : reqs'[r].tok # 0 =>
          /\ reqs'[r].tok # token'
          /\ reqs'[r].tok # worker'.wait.tok /\ reqs'[r].tok # task'.wait.tok
    BY <1>1 DEF OnePlace
  <1>4. \A q, r \in UnderWay' :
          (q # r /\ reqs'[q].op = "sign_in" /\ reqs'[q].tok # 0) => reqs'[q].tok # reqs'[r].tok
    <2>. TAKE q, r \in UnderWay'
    <2>. HAVE q # r /\ reqs'[q].op = "sign_in" /\ reqs'[q].tok # 0
    <2>1. CASE reqs'[r].tok = 0
      BY <2>1
    <2>2. CASE reqs'[r].tok # 0
      BY <1>1, <2>2 DEF OnePlace
    <2>. QED
      BY <2>1, <2>2
  <1>. QED
    BY <1>2, <1>3, <1>4 DEF OnePlace

\* The queries stay where they are, or come to their end.
LEMMA OneQueryKept ==
    ASSUME SessionInv, Plain \/ LogoutQueued \/ LoginAnswered, intents' = intents,
           worker'.query \in {worker.query, NoQuery}
    PROVE  OneQuery'
  <1>1. \A q \in UnderWay' : reqs'[q].by # 0 => q \in UnderWay /\ reqs'[q].by = reqs[q].by
    BY BoardQueries
  <1>2. \A m \in DOMAIN intents : intents[m].by # 0
    <2>1. intents \in Seq(Queries)
      BY DEF SessionInv, SessionTypeOK
    <2>2. \A m \in DOMAIN intents : intents[m] \in Queries
      BY <2>1
    <2>3. 0 \notin Askers
      BY TypeFacts DEF SessionInv
    <2>. QED
      BY <2>2, <2>3 DEF Queries
  <1>3. worker'.query.by \in {worker.query.by, 0}
    BY DEF NoQuery
  <1>. QED
    BY <1>1, <1>2, <1>3 DEF OneQuery, SessionInv

LEMMA ThreadFacts ==
    ASSUME SessionInv
    PROVE  /\ worker.query \in Queries \cup {NoQuery}
           /\ worker.wait \in Waits /\ task.wait \in Waits
           /\ worker.wait.on \in BOOLEAN /\ task.wait.on \in BOOLEAN
           /\ worker.wait.req \in 0..MaxReqs /\ task.wait.req \in 0..MaxReqs
           /\ worker.wait.tok \in MaybeToken /\ task.wait.tok \in MaybeToken
           /\ task.form \in Forms \cup {0}
  <1>1. /\ worker.query \in Queries \cup {NoQuery}
        /\ worker.wait \in Waits /\ task.wait \in Waits
        /\ task.form \in Forms \cup {0}
    BY DEF SessionInv, SessionTypeOK
  <1>. QED
    BY <1>1 DEF Waits

LEMMA Resting ==
    /\ NoWait \in Waits
    /\ NoWait.on = FALSE /\ NoWait.req = 0 /\ NoWait.tok = 0
    /\ NoWork \in [query : Queries \cup {NoQuery}, wait : Waits]
    /\ NoWork.query = NoQuery /\ NoWork.wait = NoWait
    /\ NoTask \in [form : Forms \cup {0}, wait : Waits]
    /\ NoTask.form = 0 /\ NoTask.wait = NoWait
    /\ NoQuery \notin Queries /\ NoQuery.by = 0
  <1>1. 0 \in 0..MaxReqs /\ 0 \in MaybeToken
    BY SessionAssumption DEF MaybeToken
  <1>2. NoWait \in Waits /\ NoWait.on = FALSE /\ NoWait.req = 0 /\ NoWait.tok = 0
    BY <1>1 DEF NoWait, Waits
  <1>3. /\ NoWork \in [query : Queries \cup {NoQuery}, wait : Waits]
        /\ NoWork.query = NoQuery /\ NoWork.wait = NoWait
    BY <1>2 DEF NoWork
  <1>4. /\ NoTask \in [form : Forms \cup {0}, wait : Waits]
        /\ NoTask.form = 0 /\ NoTask.wait = NoWait
    BY <1>2 DEF NoTask
  <1>5. NoQuery \notin Queries /\ NoQuery.by = 0
    BY SessionAssumption DEF NoQuery, Queries
  <1>. QED
    BY <1>2, <1>3, <1>4, <1>5

\* The listener of a request tells the thread that waits for it, and no other.
LEMMA ToldEffect ==
    ASSUME NEW wait \in Waits, NEW r \in Slots, NEW tok \in MaybeToken
    PROVE  /\ Told(wait, r, tok) \in Waits
           /\ Told(wait, r, tok).on = wait.on
           /\ wait.req = r => Told(wait, r, tok).req = 0 /\ Told(wait, r, tok).tok = tok
           /\ wait.req # r => Told(wait, r, tok) = wait
  <1>1. 0 \in 0..MaxReqs
    BY SessionAssumption
  <1>. QED
    BY <1>1 DEF Told, Waits

\* A queue loses its head.
LEMMA TailEffect ==
    ASSUME NEW S, NEW s \in Seq(S), s # <<>>
    PROVE  /\ Tail(s) \in Seq(S) /\ Head(s) = s[1] /\ Head(s) \in S /\ 1 \in DOMAIN s
           /\ \A n \in DOMAIN Tail(s) : n + 1 \in DOMAIN s /\ n + 1 # 1 /\ Tail(s)[n] = s[n + 1]
           /\ \A n \in DOMAIN s : n # 1 => n - 1 \in DOMAIN Tail(s) /\ Tail(s)[n - 1] = s[n]
    OBVIOUS

LEMMA AppendEffect ==
    ASSUME NEW S, NEW s \in Seq(S), NEW e \in S
    PROVE  /\ Append(s, e) \in Seq(S)
           /\ Len(s) \in Nat /\ DOMAIN Append(s, e) = DOMAIN s \cup {Len(s) + 1}
           /\ Len(s) + 1 \notin DOMAIN s
           /\ Append(s, e)[Len(s) + 1] = e
           /\ \A n \in DOMAIN s : Append(s, e)[n] = s[n]
    OBVIOUS

LEMMA WaitKept ==
    ASSUME Lasting, NEW w \in UnderWay, reqs[w].op = "sign_in"
    PROVE  w \in UnderWay' /\ reqs'[w].op = "sign_in"
  <1>1. CASE Still
    BY <1>1 DEF Still, Keeps
  <1>2. CASE \E r \in Slots : Retouched(r) \/ Answered(r)
    BY <1>2 DEF Retouched, Answered, Touched, Keeps
  <1>3. ASSUME NEW s \in Slots, NEW op, NEW url, NEW by, NEW tok, Grown(s, op, url, by, tok)
        PROVE  w \in UnderWay' /\ reqs'[w].op = "sign_in"
    BY <1>3 DEF Grown, Keeps
  <1>. QED
    BY <1>1, <1>2, <1>3 DEF Lasting, LoginQueued, LogoutQueued, QueryQueued

\* The waits of the threads that do not change are still in order, and so is a
\* thread that has stopped waiting.
LEMMA ThreadedKept ==
    ASSUME SessionInv, Lasting, tasks' = tasks,
           worker' \in {worker, NoWork, [worker EXCEPT !.wait = NoWait]},
           task' \in {task, NoTask}
    PROVE  Threaded'
  <1>1. worker' # NoWork => worker'.query \in Queries
    <2>1. worker' # NoWork => worker # NoWork /\ worker'.query = worker.query
      BY Resting DEF SessionInv, SessionTypeOK, NoWork
    <2>. QED
      BY <2>1 DEF SessionInv, Threaded
  <1>2. worker'.wait \in {worker.wait, NoWait}
    BY Resting DEF SessionInv, SessionTypeOK
  <1>3. task'.wait \in {task.wait, NoWait}
    BY Resting
  <1>4. ~worker'.wait.on => worker'.wait = NoWait
    BY <1>2 DEF SessionInv, Threaded
  <1>5. /\ task'.wait.on => task'.form \in Forms
        /\ ~task'.wait.on => task' = NoTask
    BY Resting DEF SessionInv, Threaded
  <1>6. worker'.wait.req # 0 => /\ worker'.wait.req = worker.wait.req
                                /\ worker'.wait.req \in UnderWay'
                                /\ reqs'[worker'.wait.req].op = "sign_in"
    BY <1>2, Resting, WaitKept DEF SessionInv, Threaded
  <1>7. task'.wait.req # 0 => /\ task'.wait.req = task.wait.req
                              /\ task'.wait.req \in UnderWay'
                              /\ reqs'[task'.wait.req].op = "sign_in"
    BY <1>3, Resting, WaitKept DEF SessionInv, Threaded
  <1>8. worker'.wait.req # 0 => worker'.wait.req # task'.wait.req
    BY <1>6, <1>7 DEF SessionInv, Threaded
  <1>9. \A n \in DOMAIN tasks' : tasks'[n].op = "login" => tasks'[n].form \in Forms
    BY DEF SessionInv, Threaded
  <1>. QED
    BY <1>1, <1>4, <1>5, <1>6, <1>7, <1>8, <1>9 DEF Threaded

\* What the parts add up to.
LEMMA Whole ==
    ASSUME SessionInv, BoardStep,
           token' \in MaybeToken, live' \subseteq Tokens,
           intents' \in Seq(Queries),
           worker' \in [query : Queries \cup {NoQuery}, wait : Waits],
           tasks' \in Seq([op : {"login", "logout"}, form : Forms \cup {0}]),
           task' \in [form : Forms \cup {0}, wait : Waits],
           posts' \in Seq([form : Forms, ok : BOOLEAN]),
           failed' \subseteq Askers, loggedOut' \in BOOLEAN,
           Threaded', Accepted', OnePlace', OneQuery'
    PROVE  SessionInv'
  <1>1. reqs' \in Board /\ Addressed' /\ LogoutMissesItsSession'
    BY BoardSafe
  <1>2. reqs' \in [Slots -> Requests \cup {NoRequest}]
    BY <1>1 DEF Board
  <1>3. SessionTypeOK'
    BY <1>2 DEF SessionTypeOK
  <1>. QED
    BY <1>1, <1>3 DEF SessionInv

-----------------------------------------------------------------------------
(* The worker.                                                             *)

\* The log-in of a thread: a request of its own, free before.
LEMMA QueueLoginEffect ==
    ASSUME SessionInv, QueueLogin
    PROVE  /\ Grown(FreeSlot, "sign_in", "sign_in", 0, 0) /\ LoginQueued
           /\ WaitForLogin \in Waits
           /\ WaitForLogin.on = TRUE /\ WaitForLogin.req = FreeSlot /\ WaitForLogin.tok = 0
           /\ FreeSlot # 0 /\ FreeSlot # worker.wait.req /\ FreeSlot # task.wait.req
           /\ FreeSlot \in UnderWay' /\ reqs'[FreeSlot].op = "sign_in"
  <1>0. reqs \in Board /\ 0 \in MaybeToken /\ 0 \notin Slots
    BY TypeFacts DEF SessionInv
  <1>1. Grown(FreeSlot, "sign_in", "sign_in", 0, 0)
    BY <1>0, QueueEffect DEF QueueLogin
  <1>2. FreeSlot \in Slots /\ FreeSlot \notin UnderWay
    BY <1>1 DEF Grown
  <1>3. WaitForLogin \in Waits /\ WaitForLogin.on = TRUE /\ WaitForLogin.req = FreeSlot
        /\ WaitForLogin.tok = 0
    <2>1. FreeSlot \in 0..MaxReqs
      BY <1>2 DEF Slots
    <2>. QED
      BY <1>0, <2>1 DEF WaitForLogin, Waits
  <1>4. FreeSlot # 0 /\ FreeSlot # worker.wait.req /\ FreeSlot # task.wait.req
    BY <1>0, <1>2 DEF SessionInv, Threaded
  <1>. QED
    BY <1>1, <1>2, <1>3, <1>4 DEF Grown, LoginQueued

LEMMA HandleIntentInv ==
    ASSUME SessionInv, HandleIntent
    PROVE  SessionInv'
  <1>. DEFINE q == Head(intents)
  <1>0. SessionTypeOK /\ Threaded /\ Accepted /\ OnePlace /\ OneQuery
    BY DEF SessionInv
  <1>1. /\ worker = NoWork /\ intents # <<>> /\ intents' = Tail(intents)
        /\ UNCHANGED <<token, live, tasks, task, posts, failed, loggedOut>>
    BY DEF HandleIntent
  <1>2. intents \in Seq(Queries)
    BY <1>0 DEF SessionTypeOK
  <1>3. intents' \in Seq(Queries) /\ q \in Queries
    BY <1>1, <1>2, TailEffect
  <1>4. \/ worker' = [query |-> q, wait |-> NoWait] /\ Still
        \/ worker' = [query |-> q, wait |-> WaitForLogin] /\ QueueLogin
    BY <1>0, StillEffect DEF HandleIntent
  <1>. HIDE DEF q
  <1>5. /\ worker'.query = q
        /\ \/ worker'.wait = NoWait /\ Still
           \/ worker'.wait = WaitForLogin /\ QueueLogin
    BY <1>4
  <1>6. worker' \in [query : Queries \cup {NoQuery}, wait : Waits]
    <2>1. QueueLogin => WaitForLogin \in Waits
      BY QueueLoginEffect
    <2>2. NoWait \in Waits
      BY Resting
    <2>3. PICK w \in Waits : worker' = [query |-> q, wait |-> w]
      BY <1>4, <2>1, <2>2
    <2>. QED
      BY <1>3, <2>3
  <1>7. (Still \/ LoginQueued) /\ Plain /\ Lasting /\ BoardStep
    BY <1>5, QueueLoginEffect DEF Plain, Lasting, BoardStep
  <1>8. worker'.wait.tok = 0
    BY <1>5, Resting, QueueLoginEffect
  <1>9. Threaded'
    <2>1. ~worker'.wait.on => worker'.wait = NoWait
      BY <1>5, QueueLoginEffect
    <2>2. worker'.wait.req # 0 =>
             /\ worker'.wait.req \in UnderWay' /\ reqs'[worker'.wait.req].op = "sign_in"
             /\ worker'.wait.req # task.wait.req
      BY <1>5, Resting, QueueLoginEffect
    <2>3. task.wait.req # 0 =>
             task.wait.req \in UnderWay' /\ reqs'[task.wait.req].op = "sign_in"
      BY <1>0, <1>7, WaitKept DEF Threaded
    <2>. QED
      BY <1>0, <1>1, <1>3, <1>5, <2>1, <2>2, <2>3 DEF Threaded
  <1>10. Accepted'
    <2>1. NoNews
      BY <1>1, <1>7, <1>8, BoardNoNews, KnownMembers DEF NoNews
    <2>. QED
      BY <1>0, <1>1, <1>7, <2>1, AcceptedStep, NoLogout
  <1>11. OnePlace'
    BY <1>0, <1>1, <1>7, <1>8, OnePlaceKept
  <1>12. OneQuery'
    <2>1. \A r \in UnderWay' : reqs'[r].by # 0 => r \in UnderWay /\ reqs'[r].by = reqs[r].by
      BY <1>7, BoardQueries
    <2>2. \A n \in DOMAIN intents' :
              /\ n + 1 \in DOMAIN intents /\ n + 1 # 1 /\ intents'[n] = intents[n + 1]
      BY <1>1, <1>2, TailEffect
    <2>3. 1 \in DOMAIN intents /\ q = intents[1]
      BY <1>1, <1>2, TailEffect DEF q
    <2>4. \A n \in DOMAIN intents' : n \in Nat
      BY <1>3
    <2>5. \A n \in DOMAIN intents : intents[n].by # 0
      <3>1. \A n \in DOMAIN intents : intents[n] \in Queries
        BY <1>2
      <3>. QED
        BY <1>0, <3>1, TypeFacts DEF Queries
    <2>6. \A m, n \in DOMAIN intents' : intents'[m].by = intents'[n].by => m = n
      <3>. TAKE m, n \in DOMAIN intents'
      <3>. HAVE intents'[m].by = intents'[n].by
      <3>1. m + 1 = n + 1
        BY <1>0, <2>2 DEF OneQuery
      <3>. QED
        BY <2>4, <3>1
    <2>7. \A m \in DOMAIN intents' : intents'[m].by # worker'.query.by
      BY <1>0, <1>5, <2>2, <2>3 DEF OneQuery
    <2>8. \A m \in DOMAIN intents' : \A r \in UnderWay' : intents'[m].by # reqs'[r].by
      BY <1>0, <2>1, <2>2, <2>5 DEF OneQuery
    <2>9. \A r \in UnderWay' : reqs'[r].by # 0 => reqs'[r].by # worker'.query.by
      BY <1>0, <1>5, <2>1, <2>3 DEF OneQuery
    <2>10. \A p, r \in UnderWay' : (reqs'[r].by # 0 /\ reqs'[r].by = reqs'[p].by) => r = p
      BY <1>0, <2>1 DEF OneQuery
    <2>. QED
      BY <2>6, <2>7, <2>8, <2>9, <2>10 DEF OneQuery
  <1>13. /\ token' \in MaybeToken /\ live' \subseteq Tokens
         /\ tasks' \in Seq([op : {"login", "logout"}, form : Forms \cup {0}])
         /\ task' \in [form : Forms \cup {0}, wait : Waits]
         /\ posts' \in Seq([form : Forms, ok : BOOLEAN])
         /\ failed' \subseteq Askers /\ loggedOut' \in BOOLEAN
    BY <1>0, <1>1 DEF SessionTypeOK
  <1>. QED
    BY <1>3, <1>6, <1>7, <1>9, <1>10, <1>11, <1>12, <1>13, Whole

LEMMA WorkerLoggedInInv ==
    ASSUME SessionInv, WorkerLoggedIn
    PROVE  SessionInv'
  <1>0. SessionTypeOK /\ Threaded /\ Accepted /\ OnePlace /\ OneQuery
    BY DEF SessionInv
  <1>1. /\ worker.wait.on /\ worker.wait.tok # 0
        /\ token' = worker.wait.tok
        /\ worker' = [worker EXCEPT !.wait = NoWait]
        /\ UNCHANGED <<live, reqs, intents, tasks, task, posts, failed, loggedOut>>
    BY DEF WorkerLoggedIn
  <1>2. Still /\ Plain /\ Lasting /\ BoardStep
    BY <1>0, <1>1, StillEffect DEF Plain, Lasting, BoardStep
  <1>3. worker' \in [query : Queries \cup {NoQuery}, wait : Waits]
        /\ worker'.query = worker.query /\ worker'.wait = NoWait
    BY <1>0, <1>1, Resting DEF SessionTypeOK
  <1>4. Threaded'
    BY <1>1, <1>2, ThreadedKept
  <1>5. worker'.wait.tok = 0
    BY <1>3, Resting
  <1>6. Accepted'
    <2>1. NoNews
      BY <1>1, <1>2, <1>5, BoardNoNews, KnownMembers DEF NoNews
    <2>. QED
      BY <1>0, <1>1, <1>2, <2>1, AcceptedStep, NoLogout
  <1>7. OnePlace'
    <2>1. UnderWay' = UnderWay /\ \A r \in UnderWay : reqs'[r] = reqs[r]
      BY <1>1 DEF UnderWay
    <2>. QED
      BY <1>0, <1>1, <1>5, <2>1 DEF OnePlace
  <1>8. OneQuery'
    BY <1>1, <1>2, <1>3, OneQueryKept
  <1>9. /\ token' \in MaybeToken /\ live' \subseteq Tokens
        /\ intents' \in Seq(Queries)
        /\ tasks' \in Seq([op : {"login", "logout"}, form : Forms \cup {0}])
        /\ task' \in [form : Forms \cup {0}, wait : Waits]
        /\ posts' \in Seq([form : Forms, ok : BOOLEAN])
        /\ failed' \subseteq Askers /\ loggedOut' \in BOOLEAN
    BY <1>0, <1>1, ThreadFacts DEF SessionTypeOK
  <1>. QED
    BY <1>2, <1>3, <1>4, <1>6, <1>7, <1>8, <1>9, Whole

LEMMA WorkerTimesOutInv ==
    ASSUME SessionInv, WorkerTimesOut
    PROVE  SessionInv'
  <1>0. SessionTypeOK /\ Threaded /\ Accepted /\ OnePlace /\ OneQuery
    BY DEF SessionInv
  <1>1. /\ worker.wait.on /\ token' = 0 /\ worker' = NoWork
        /\ failed' = failed \cup {worker.query.by}
        /\ UNCHANGED <<live, reqs, intents, tasks, task, posts, loggedOut>>
    BY DEF WorkerTimesOut, HandleServerError
  <1>2. Still /\ Plain /\ Lasting /\ BoardStep
    BY <1>0, <1>1, StillEffect DEF Plain, Lasting, BoardStep
  <1>3. /\ worker' \in [query : Queries \cup {NoQuery}, wait : Waits]
        /\ worker'.query = NoQuery /\ worker'.wait.tok = 0
    BY <1>1, Resting
  <1>4. Threaded'
    BY <1>1, <1>2, ThreadedKept
  <1>5. Accepted'
    <2>1. NoNews
      BY <1>1, <1>2, <1>3, BoardNoNews, KnownMembers DEF NoNews
    <2>. QED
      BY <1>0, <1>1, <1>2, <2>1, AcceptedStep, NoLogout
  <1>6. OnePlace'
    BY <1>0, <1>1, <1>2, <1>3, OnePlaceKept
  <1>7. OneQuery'
    BY <1>1, <1>2, <1>3, OneQueryKept
  <1>8. worker.query.by \in Askers
    <2>1. worker # NoWork
      BY <1>1, Resting
    <2>. QED
      BY <1>0, <2>1 DEF Threaded, Queries
  <1>9. /\ token' \in MaybeToken /\ live' \subseteq Tokens
        /\ intents' \in Seq(Queries)
        /\ tasks' \in Seq([op : {"login", "logout"}, form : Forms \cup {0}])
        /\ task' \in [form : Forms \cup {0}, wait : Waits]
        /\ posts' \in Seq([form : Forms, ok : BOOLEAN])
        /\ failed' \subseteq Askers /\ loggedOut' \in BOOLEAN
    BY <1>0, <1>1, <1>8, TypeFacts DEF SessionTypeOK
  <1>. QED
    BY <1>2, <1>3, <1>4, <1>5, <1>6, <1>7, <1>9, Whole

LEMMA SendQueryInv ==
    ASSUME SessionInv, SendQuery
    PROVE  SessionInv'
  <1>0. SessionTypeOK /\ Threaded /\ Accepted /\ OnePlace /\ OneQuery
    BY DEF SessionInv
  <1>. DEFINE query == worker.query
  <1>1. /\ worker # NoWork /\ worker' = NoWork
        /\ Queue("get", query.url, query.by, 0)
        /\ UNCHANGED <<token, live, intents, tasks, task, posts, failed, loggedOut>>
    BY DEF SendQuery, FetchUrl
  <1>2. query \in Queries /\ query.url \in Urls /\ query.by \in Askers /\ query.by # 0
    BY <1>0, <1>1, TypeFacts DEF Threaded, Queries
  <1>3. Grown(FreeSlot, "get", query.url, query.by, 0)
    BY <1>0, <1>1, <1>2, TypeFacts, QueueEffect
  <1>4. QueryQueued /\ Lasting /\ BoardStep
    BY <1>2, <1>3 DEF Grown, QueryQueued, Lasting, BoardStep
  <1>5. /\ worker' \in [query : Queries \cup {NoQuery}, wait : Waits]
        /\ worker'.query.by = 0 /\ worker'.wait.tok = 0
    BY <1>1, Resting
  <1>6. Threaded'
    BY <1>1, <1>4, ThreadedKept
  <1>7. Accepted'
    <2>1. NoNews
      BY <1>1, <1>4, <1>5, BoardNoNews, KnownMembers DEF NoNews
    <2>. QED
      BY <1>0, <1>1, <1>4, <2>1, AcceptedStep, NoLogout
  <1>8. OnePlace'
    BY <1>0, <1>1, <1>4, <1>5, OnePlaceKept
  <1>. HIDE DEF query
  <1>9. OneQuery'
    <2>1. /\ FreeSlot \notin UnderWay /\ UnderWay' = UnderWay \cup {FreeSlot}
          /\ reqs'[FreeSlot].by = query.by
          /\ \A r \in UnderWay : reqs'[r].by = reqs[r].by
      BY <1>3 DEF Grown, Keeps
    <2>2. \A m \in DOMAIN intents : intents[m].by # query.by
      BY <1>0 DEF OneQuery, query
    <2>3. \A r \in UnderWay : reqs[r].by # query.by
      BY <1>0, <1>2 DEF OneQuery, query
    <2>4. \A m \in DOMAIN intents : intents[m].by # 0
      <3>1. \A n \in DOMAIN intents : intents[n] \in Queries
        BY <1>0 DEF SessionTypeOK
      <3>. QED
        BY <1>0, <3>1, TypeFacts DEF Queries
    <2>5. \A m \in DOMAIN intents' : \A r \in UnderWay' : intents'[m].by # reqs'[r].by
      BY <1>0, <1>1, <2>1, <2>2 DEF OneQuery
    <2>6. \A p, r \in UnderWay' : (reqs'[r].by # 0 /\ reqs'[r].by = reqs'[p].by) => r = p
      BY <1>0, <2>1, <2>3 DEF OneQuery
    <2>. QED
      BY <1>0, <1>1, <1>5, <2>4, <2>5, <2>6 DEF OneQuery
  <1>10. /\ token' \in MaybeToken /\ live' \subseteq Tokens
         /\ intents' \in Seq(Queries)
         /\ tasks' \in Seq([op : {"login", "logout"}, form : Forms \cup {0}])
         /\ task' \in [form : Forms \cup {0}, wait : Waits]
         /\ posts' \in Seq([form : Forms, ok : BOOLEAN])
         /\ failed' \subseteq Askers /\ loggedOut' \in BOOLEAN
    BY <1>0, <1>1 DEF SessionTypeOK
  <1>. QED
    BY <1>4, <1>5, <1>6, <1>7, <1>8, <1>9, <1>10, Whole

-----------------------------------------------------------------------------
(* The executor.                                                           *)

Jobs == [op : {"login", "logout"}, form : Forms \cup {0}]

LEMMA TakesEffect ==
    ASSUME SessionInv, NEW op, Takes(op)
    PROVE  /\ task = NoTask
           /\ tasks' \in Seq(Jobs)
           /\ Head(tasks) \in Jobs /\ Head(tasks).form \in Forms \cup {0}
           /\ op = "login" => Head(tasks).form \in Forms
           /\ \A n \in DOMAIN tasks' : tasks'[n].op = "login" => tasks'[n].form \in Forms
  <1>1. tasks \in Seq(Jobs) /\ tasks # <<>> /\ tasks' = Tail(tasks) /\ Head(tasks).op = op
    BY DEF SessionInv, SessionTypeOK, Takes, Jobs
  <1>2. /\ Tail(tasks) \in Seq(Jobs) /\ Head(tasks) = tasks[1] /\ Head(tasks) \in Jobs
        /\ 1 \in DOMAIN tasks
        /\ \A n \in DOMAIN Tail(tasks) : n + 1 \in DOMAIN tasks /\ Tail(tasks)[n] = tasks[n + 1]
    BY <1>1, TailEffect
  <1>3. task = NoTask
    BY DEF SessionInv, Threaded, Takes
  <1>4. \A n \in DOMAIN tasks : tasks[n].op = "login" => tasks[n].form \in Forms
    BY DEF SessionInv, Threaded
  <1>5. op = "login" => Head(tasks).form \in Forms
    BY <1>1, <1>2, <1>4
  <1>6. \A n \in DOMAIN tasks' : tasks'[n].op = "login" => tasks'[n].form \in Forms
    BY <1>1, <1>2, <1>4
  <1>. QED
    BY <1>1, <1>2, <1>3, <1>5, <1>6 DEF Jobs

LEMMA RunLoginInv ==
    ASSUME SessionInv, RunLogin
    PROVE  SessionInv'
  <1>0. SessionTypeOK /\ Threaded /\ Accepted /\ OnePlace /\ OneQuery
    BY DEF SessionInv
  <1>. DEFINE f == Head(tasks).form
  <1>1. /\ QueueLogin /\ task' = [form |-> f, wait |-> WaitForLogin]
        /\ UNCHANGED <<token, live, intents, worker, posts, failed, loggedOut>>
    BY DEF RunLogin
  <1>2. /\ task = NoTask /\ tasks' \in Seq(Jobs) /\ f \in Forms
        /\ \A n \in DOMAIN tasks' : tasks'[n].op = "login" => tasks'[n].form \in Forms
    BY TakesEffect DEF RunLogin
  <1>. HIDE DEF f
  <1>3. task'.form = f /\ task'.wait = WaitForLogin
    BY <1>1
  <1>4. task' \in [form : Forms \cup {0}, wait : Waits]
    BY <1>1, <1>2, QueueLoginEffect
  <1>5. LoginQueued /\ Plain /\ Lasting /\ BoardStep
    BY <1>1, QueueLoginEffect DEF Plain, Lasting, BoardStep
  <1>6. /\ task'.wait.on = TRUE /\ task'.wait.tok = 0 /\ task'.wait.req # worker.wait.req
        /\ task'.wait.req \in UnderWay' /\ reqs'[task'.wait.req].op = "sign_in"
    BY <1>1, <1>3, QueueLoginEffect
  <1>7. Threaded'
    <2>1. worker.wait.req # 0 =>
              worker.wait.req \in UnderWay' /\ reqs'[worker.wait.req].op = "sign_in"
      BY <1>0, <1>5, WaitKept DEF Threaded
    <2>. QED
      BY <1>0, <1>1, <1>2, <1>3, <1>6, <2>1 DEF Threaded
  <1>8. Accepted'
    <2>1. NoNews
      BY <1>1, <1>5, <1>6, BoardNoNews, KnownMembers DEF NoNews
    <2>. QED
      BY <1>0, <1>1, <1>5, <2>1, AcceptedStep, NoLogout
  <1>9. OnePlace'
    BY <1>0, <1>1, <1>5, <1>6, OnePlaceKept
  <1>10. OneQuery'
    BY <1>1, <1>5, OneQueryKept
  <1>11. /\ token' \in MaybeToken /\ live' \subseteq Tokens
         /\ intents' \in Seq(Queries)
         /\ worker' \in [query : Queries \cup {NoQuery}, wait : Waits]
         /\ posts' \in Seq([form : Forms, ok : BOOLEAN])
         /\ failed' \subseteq Askers /\ loggedOut' \in BOOLEAN
    BY <1>0, <1>1 DEF SessionTypeOK
  <1>. QED
    BY <1>2, <1>4, <1>5, <1>7, <1>8, <1>9, <1>10, <1>11, Whole DEF Jobs

\* The result of a task, on its way to the form.
LEMMA PostEffect ==
    ASSUME SessionInv, task.wait.on, NEW ok \in BOOLEAN,
           posts' = Append(posts, [form |-> task.form, ok |-> ok])
    PROVE  posts' \in Seq([form : Forms, ok : BOOLEAN])
  <1>1. task.form \in Forms /\ posts \in Seq([form : Forms, ok : BOOLEAN])
    BY DEF SessionInv, SessionTypeOK, Threaded
  <1>2. [form |-> task.form, ok |-> ok] \in [form : Forms, ok : BOOLEAN]
    BY <1>1
  <1>. QED
    BY <1>1, <1>2, AppendEffect

LEMMA TaskLoggedInInv ==
    ASSUME SessionInv, TaskLoggedIn
    PROVE  SessionInv'
  <1>0. SessionTypeOK /\ Threaded /\ Accepted /\ OnePlace /\ OneQuery
    BY DEF SessionInv
  <1>1. /\ task.wait.on /\ task.wait.tok # 0 /\ token' = task.wait.tok
        /\ task' = NoTask
        /\ UNCHANGED <<live, reqs, intents, worker, tasks, failed, loggedOut>>
    BY DEF TaskLoggedIn
  <1>2. Still /\ Plain /\ Lasting /\ BoardStep
    BY <1>0, <1>1, StillEffect DEF Plain, Lasting, BoardStep
  <1>3. posts' \in Seq([form : Forms, ok : BOOLEAN])
    BY <1>1, PostEffect DEF TaskLoggedIn
  <1>4. Threaded'
    BY <1>1, <1>2, ThreadedKept
  <1>5. task'.wait.tok = 0 /\ task' \in [form : Forms \cup {0}, wait : Waits]
    BY <1>1, Resting
  <1>6. Accepted'
    <2>1. NoNews
      BY <1>1, <1>2, <1>5, BoardNoNews, KnownMembers DEF NoNews
    <2>. QED
      BY <1>0, <1>1, <1>2, <2>1, AcceptedStep, NoLogout
  <1>7. OnePlace'
    <2>1. UnderWay' = UnderWay /\ \A r \in UnderWay : reqs'[r] = reqs[r]
      BY <1>1 DEF UnderWay
    <2>. QED
      BY <1>0, <1>1, <1>5, <2>1 DEF OnePlace
  <1>8. OneQuery'
    BY <1>1, <1>2, OneQueryKept
  <1>9. /\ token' \in MaybeToken /\ live' \subseteq Tokens
        /\ intents' \in Seq(Queries)
        /\ worker' \in [query : Queries \cup {NoQuery}, wait : Waits]
        /\ tasks' \in Seq([op : {"login", "logout"}, form : Forms \cup {0}])
        /\ failed' \subseteq Askers /\ loggedOut' \in BOOLEAN
    BY <1>0, <1>1, ThreadFacts DEF SessionTypeOK
  <1>. QED
    BY <1>2, <1>3, <1>4, <1>5, <1>6, <1>7, <1>8, <1>9, Whole

LEMMA TaskTimesOutInv ==
    ASSUME SessionInv, TaskTimesOut
    PROVE  SessionInv'
  <1>0. SessionTypeOK /\ Threaded /\ Accepted /\ OnePlace /\ OneQuery
    BY DEF SessionInv
  <1>1. /\ task.wait.on /\ token' = 0 /\ task' = NoTask
        /\ UNCHANGED <<live, reqs, intents, worker, tasks, failed, loggedOut>>
    BY DEF TaskTimesOut, HandleServerError
  <1>2. Still /\ Plain /\ Lasting /\ BoardStep
    BY <1>0, <1>1, StillEffect DEF Plain, Lasting, BoardStep
  <1>3. posts' \in Seq([form : Forms, ok : BOOLEAN])
    BY <1>1, PostEffect DEF TaskTimesOut
  <1>4. Threaded'
    BY <1>1, <1>2, ThreadedKept
  <1>5. task'.wait.tok = 0 /\ task' \in [form : Forms \cup {0}, wait : Waits]
    BY <1>1, Resting
  <1>6. Accepted'
    <2>1. NoNews
      BY <1>1, <1>2, <1>5, BoardNoNews, KnownMembers DEF NoNews
    <2>. QED
      BY <1>0, <1>1, <1>2, <2>1, AcceptedStep, NoLogout
  <1>7. OnePlace'
    BY <1>0, <1>1, <1>2, <1>5, OnePlaceKept
  <1>8. OneQuery'
    BY <1>1, <1>2, OneQueryKept
  <1>9. /\ token' \in MaybeToken /\ live' \subseteq Tokens
        /\ intents' \in Seq(Queries)
        /\ worker' \in [query : Queries \cup {NoQuery}, wait : Waits]
        /\ tasks' \in Seq([op : {"login", "logout"}, form : Forms \cup {0}])
        /\ failed' \subseteq Askers /\ loggedOut' \in BOOLEAN
    BY <1>0, <1>1, TypeFacts DEF SessionTypeOK
  <1>. QED
    BY <1>2, <1>3, <1>4, <1>5, <1>6, <1>7, <1>8, <1>9, Whole

LEMMA RunLogoutInv ==
    ASSUME SessionInv, RunLogout
    PROVE  SessionInv'
  <1>0. SessionTypeOK /\ Threaded /\ Accepted /\ OnePlace /\ OneQuery
    BY DEF SessionInv
  <1>1. /\ token' = 0 /\ loggedOut' = TRUE
        /\ Queue("sign_out", "sign_out", 0, token)
        /\ UNCHANGED <<live, intents, worker, task, posts, failed>>
    BY DEF RunLogout
  <1>2. /\ tasks' \in Seq(Jobs)
        /\ \A n \in DOMAIN tasks' : tasks'[n].op = "login" => tasks'[n].form \in Forms
    BY TakesEffect DEF RunLogout
  <1>3. Grown(FreeSlot, "sign_out", "sign_out", 0, token)
    BY <1>0, <1>1, TypeFacts, QueueEffect
  <1>4. LogoutQueued /\ Lasting /\ BoardStep
    BY <1>3 DEF Grown, LogoutQueued, Lasting, BoardStep
  <1>5. Threaded'
    <2>1. worker.wait.req # 0 =>
              worker.wait.req \in UnderWay' /\ reqs'[worker.wait.req].op = "sign_in"
      BY <1>0, <1>4, WaitKept DEF Threaded
    <2>2. task.wait.req # 0 =>
              task.wait.req \in UnderWay' /\ reqs'[task.wait.req].op = "sign_in"
      BY <1>0, <1>4, WaitKept DEF Threaded
    <2>. QED
      BY <1>0, <1>1, <1>2, <2>1, <2>2 DEF Threaded
  <1>6. Accepted'
    BY <1>1 DEF Accepted
  <1>7. OnePlace'
    <2>1. /\ FreeSlot \notin UnderWay /\ UnderWay' = UnderWay \cup {FreeSlot}
          /\ reqs'[FreeSlot].tok = token /\ reqs'[FreeSlot].op = "sign_out"
          /\ \A r \in UnderWay : reqs'[r].tok = reqs[r].tok /\ reqs'[r].op = reqs[r].op
      BY <1>3 DEF Grown, Keeps, KeepsTokens
    <2>2. \A r \in UnderWay' : reqs'[r].tok # 0 =>
              /\ reqs'[r].tok # token'
              /\ reqs'[r].tok # worker'.wait.tok /\ reqs'[r].tok # task'.wait.tok
      BY <1>0, <1>1, <2>1 DEF OnePlace
    <2>3. \A q, r \in UnderWay' :
              (q # r /\ reqs'[q].op = "sign_in" /\ reqs'[q].tok # 0)
                  => reqs'[q].tok # reqs'[r].tok
      BY <1>0, <2>1 DEF OnePlace
    <2>. QED
      BY <1>0, <1>1, <2>2, <2>3 DEF OnePlace
  <1>8. OneQuery'
    BY <1>1, <1>4, OneQueryKept
  <1>9. /\ token' \in MaybeToken /\ live' \subseteq Tokens
        /\ intents' \in Seq(Queries)
        /\ worker' \in [query : Queries \cup {NoQuery}, wait : Waits]
        /\ task' \in [form : Forms \cup {0}, wait : Waits]
        /\ posts' \in Seq([form : Forms, ok : BOOLEAN])
        /\ failed' \subseteq Askers /\ loggedOut' \in BOOLEAN
    BY <1>0, <1>1, TypeFacts DEF SessionTypeOK
  <1>. QED
    BY <1>2, <1>4, <1>5, <1>6, <1>7, <1>8, <1>9, Whole DEF Jobs

-----------------------------------------------------------------------------
(* The dispatchers and the site.                                           *)

LEMMA RetouchedInv ==
    ASSUME SessionInv, NEW r \in Slots, Retouched(r),
           live' = live \/ (reqs[r].op = "sign_out" /\ live' \subseteq live),
           UNCHANGED <<token, intents, worker, tasks, task, posts, failed, loggedOut>>
    PROVE  SessionInv'
  <1>0. SessionTypeOK /\ Threaded /\ Accepted /\ OnePlace /\ OneQuery
    BY DEF SessionInv
  <1>1. Plain /\ Lasting /\ BoardStep
    BY DEF Plain, Lasting, BoardStep
  <1>2. Threaded'
    BY <1>1, ThreadedKept
  <1>3. Accepted'
    <2>1. NoNews
      BY <1>1, BoardNoNews, KnownMembers DEF NoNews
    <2>2. ~loggedOut => live' = live
      BY <1>0 DEF Accepted, Retouched, Touched
    <2>. QED
      BY <1>0, <1>1, <2>1, <2>2, AcceptedStep, NoLogout
  <1>4. OnePlace'
    BY <1>0, <1>1, OnePlaceKept
  <1>5. OneQuery'
    BY <1>1, OneQueryKept
  <1>6. /\ token' \in MaybeToken /\ live' \subseteq Tokens
        /\ intents' \in Seq(Queries)
        /\ worker' \in [query : Queries \cup {NoQuery}, wait : Waits]
        /\ tasks' \in Seq([op : {"login", "logout"}, form : Forms \cup {0}])
        /\ task' \in [form : Forms \cup {0}, wait : Waits]
        /\ posts' \in Seq([form : Forms, ok : BOOLEAN])
        /\ failed' \subseteq Askers /\ loggedOut' \in BOOLEAN
    BY <1>0 DEF SessionTypeOK
  <1>. QED
    BY <1>1, <1>2, <1>3, <1>4, <1>5, <1>6, Whole

LEMMA AnsweredInv ==
    ASSUME SessionInv, NEW r \in Slots, Answered(r),
           UNCHANGED <<token, intents, worker, tasks, task, posts, failed, loggedOut>>
    PROVE  SessionInv'
  <1>0. SessionTypeOK /\ Threaded /\ Accepted /\ OnePlace /\ OneQuery
    BY DEF SessionInv
  <1>1. LoginAnswered /\ Lasting /\ BoardStep
    BY DEF LoginAnswered, Lasting, BoardStep
  <1>2. Threaded'
    BY <1>1, ThreadedKept
  <1>3. PICK t \in Tokens \ Known :
            /\ Touched(r) /\ reqs[r].op = "sign_in" /\ reqs'[r].hdr = reqs[r].hdr
            /\ reqs'[r].tok = t /\ live' = (live \cap Known) \cup {t}
    BY DEF Answered
  <1>4. /\ r \in UnderWay /\ UnderWay' = UnderWay
        /\ \A q \in UnderWay : reqs'[q].op = reqs[q].op
        /\ \A q \in UnderWay \ {r} : reqs'[q].hdr = reqs[q].hdr /\ reqs'[q].tok = reqs[q].tok
    BY <1>3 DEF Touched, Keeps, KeepsTokens
  <1>5. Accepted'
    <2>. SUFFICES ASSUME ~loggedOut
                  PROVE  Known' \subseteq live' \cup {0}
      BY <1>0, <1>1, NoLogout DEF Accepted
    <2>1. Known' \subseteq Known \cup {t}
      BY <1>3, <1>4 DEF Known
    <2>2. Known \subseteq live \cup {0}
      BY <1>0 DEF Accepted
    <2>. QED
      BY <1>3, <2>1, <2>2
  <1>6. OnePlace'
    <2>1. /\ t # token /\ t # worker.wait.tok /\ t # task.wait.tok
          /\ \A q \in UnderWay : t # reqs[q].tok
      BY <1>3, KnownMembers
    <2>2. \A q \in UnderWay' : reqs'[q].tok # 0 =>
              /\ reqs'[q].tok # token'
              /\ reqs'[q].tok # worker'.wait.tok /\ reqs'[q].tok # task'.wait.tok
      BY <1>0, <1>3, <1>4, <2>1 DEF OnePlace
    <2>3. \A p, q \in UnderWay' :
              (p # q /\ reqs'[p].op = "sign_in" /\ reqs'[p].tok # 0)
                  => reqs'[p].tok # reqs'[q].tok
      BY <1>0, <1>3, <1>4, <2>1 DEF OnePlace
    <2>. QED
      BY <1>0, <2>2, <2>3 DEF OnePlace
  <1>7. OneQuery'
    BY <1>1, OneQueryKept
  <1>8. /\ token' \in MaybeToken /\ live' \subseteq Tokens
        /\ intents' \in Seq(Queries)
        /\ worker' \in [query : Queries \cup {NoQuery}, wait : Waits]
        /\ tasks' \in Seq([op : {"login", "logout"}, form : Forms \cup {0}])
        /\ task' \in [form : Forms \cup {0}, wait : Waits]
        /\ posts' \in Seq([form : Forms, ok : BOOLEAN])
        /\ failed' \subseteq Askers /\ loggedOut' \in BOOLEAN
    BY <1>0, <1>3 DEF SessionTypeOK
  <1>. QED
    BY <1>1, <1>2, <1>5, <1>6, <1>7, <1>8, Whole

LEMMA VolleyInv ==
    ASSUME SessionInv, NEW r \in Slots, Dispatch(r) \/ Serve(r)
    PROVE  SessionInv'
  <1>0. SessionTypeOK
    BY DEF SessionInv
  <1>1. CASE Dispatch(r)
    BY <1>0, <1>1, DispatchEffect, RetouchedInv DEF Dispatch
  <1>2. CASE Serve(r)
    BY <1>0, <1>2, ServeEffect, RetouchedInv, AnsweredInv
  <1>. QED
    BY <1>1, <1>2

-----------------------------------------------------------------------------
(* The listeners, and the calls of the screens.                            *)

\* Request r is over and the thread that waits for it, if any, is told tok.
Tells(r, tok) ==
    /\ worker' = [worker EXCEPT !.wait = Told(@, r, tok)]
    /\ task' = [task EXCEPT !.wait = Told(@, r, tok)]

LEMMA TellsEffect ==
    ASSUME SessionInv, NEW r \in Slots, NEW tok \in MaybeToken, Shrunk(r), Tells(r, tok),
           tasks' = tasks
    PROVE  /\ worker' \in [query : Queries \cup {NoQuery}, wait : Waits]
           /\ task' \in [form : Forms \cup {0}, wait : Waits]
           /\ worker'.query = worker.query
           /\ \/ /\ worker'.wait.tok = tok /\ task'.wait.tok = task.wait.tok
                 /\ worker.wait.req = r
              \/ /\ worker'.wait.tok = worker.wait.tok /\ task'.wait.tok = tok
                 /\ task.wait.req = r
              \/ worker'.wait.tok = worker.wait.tok /\ task'.wait.tok = task.wait.tok
           /\ Threaded'
  <1>. DEFINE ww == Told(worker.wait, r, tok)
              tw == Told(task.wait, r, tok)
  <1>0. SessionTypeOK /\ Threaded
    BY DEF SessionInv
  <1>1. /\ worker.wait \in Waits /\ task.wait \in Waits
        /\ r \in Slots /\ r # 0
    BY <1>0, ThreadFacts, TypeFacts
  <1>2. /\ ww \in Waits /\ ww.on = worker.wait.on
        /\ worker.wait.req = r => ww.req = 0 /\ ww.tok = tok
        /\ worker.wait.req # r => ww = worker.wait
    BY <1>1, ToldEffect
  <1>3. /\ tw \in Waits /\ tw.on = task.wait.on
        /\ task.wait.req = r => tw.req = 0 /\ tw.tok = tok
        /\ task.wait.req # r => tw = task.wait
    BY <1>1, ToldEffect
  <1>4. /\ worker' = [worker EXCEPT !.wait = ww]
        /\ task' = [task EXCEPT !.wait = tw]
    BY DEF Tells
  <1>. HIDE DEF ww, tw
  <1>5. /\ worker' \in [query : Queries \cup {NoQuery}, wait : Waits]
        /\ worker'.query = worker.query /\ worker'.wait = ww
        /\ ww = worker.wait => worker' = worker
    BY <1>0, <1>2, <1>4 DEF SessionTypeOK
  <1>6. /\ task' \in [form : Forms \cup {0}, wait : Waits]
        /\ task'.form = task.form /\ task'.wait = tw
        /\ tw = task.wait => task' = task
    BY <1>0, <1>3, <1>4 DEF SessionTypeOK
  <1>7. worker.wait.req = r => task.wait.req # r
    BY <1>0, <1>1 DEF Threaded
  <1>8. \A w \in UnderWay \ {r} : w \in UnderWay' /\ reqs'[w].op = reqs[w].op
    BY DEF Shrunk, Keeps
  <1>9. Threaded'
    <2>1. worker' # NoWork => worker'.query \in Queries
      <3>1. worker = NoWork => worker' = NoWork
        BY <1>1, <1>2, <1>5, Resting
      <3>. QED
        BY <1>0, <1>5, <3>1 DEF Threaded
    <2>2. ~worker'.wait.on => worker'.wait = NoWait
      <3>1. ~worker.wait.on => worker.wait = NoWait /\ worker.wait.req = 0
        BY <1>0, Resting DEF Threaded
      <3>. QED
        BY <1>1, <1>2, <1>5, <3>1
    <2>3. task'.wait.on => task'.form \in Forms
      BY <1>0, <1>3, <1>6 DEF Threaded
    <2>4. ~task'.wait.on => task' = NoTask
      <3>1. ~task.wait.on => task = NoTask /\ task.wait.req = 0
        BY <1>0, Resting DEF Threaded
      <3>. QED
        BY <1>1, <1>3, <1>6, <3>1
    <2>5. worker'.wait.req # 0 => /\ worker'.wait.req = worker.wait.req
                                  /\ worker'.wait.req \in UnderWay'
                                  /\ reqs'[worker'.wait.req].op = "sign_in"
      BY <1>0, <1>2, <1>5, <1>8 DEF Threaded
    <2>6. task'.wait.req # 0 => /\ task'.wait.req = task.wait.req
                                /\ task'.wait.req \in UnderWay'
                                /\ reqs'[task'.wait.req].op = "sign_in"
      BY <1>0, <1>3, <1>6, <1>8 DEF Threaded
    <2>7. worker'.wait.req # 0 => worker'.wait.req # task'.wait.req
      BY <1>0, <2>5, <2>6 DEF Threaded
    <2>. QED
      BY <1>0, <2>1, <2>2, <2>3, <2>4, <2>5, <2>6, <2>7 DEF Threaded
  <1>. QED
    BY <1>2, <1>3, <1>5, <1>6, <1>7, <1>9

\* A request that has come back is under way, and its listener ends it.
LEMMA ListenerEffect ==
    ASSUME SessionInv, NEW r \in Slots, reqs[r].st \in {"answered", "failed"}, Finish(r)
    PROVE  /\ r \in UnderWay /\ Shrunk(r) /\ Plain /\ BoardStep
           /\ reqs[r].tok \in MaybeToken
           /\ reqs[r].by \in Askers \cup {0}
  <1>0. reqs \in Board
    BY TypeFacts DEF SessionInv
  <1>1. r \in UnderWay
    BY <1>0, RequestTyped DEF UnderWay
  <1>2. Shrunk(r)
    BY <1>0, <1>1, FinishEffect
  <1>. QED
    BY <1>0, <1>1, <1>2, Fields DEF Plain, BoardStep

LEMMA DeliverLoginInv ==
    ASSUME SessionInv, NEW r \in Slots, DeliverLogin(r)
    PROVE  SessionInv'
  <1>0. SessionTypeOK /\ Threaded /\ Accepted /\ OnePlace /\ OneQuery
    BY DEF SessionInv
  <1>. DEFINE tok == reqs[r].tok
  <1>1. /\ reqs[r].op = "sign_in" /\ Tells(r, tok)
        /\ UNCHANGED <<token, live, intents, tasks, posts, failed, loggedOut>>
    BY DEF DeliverLogin, Tells
  <1>2. /\ r \in UnderWay /\ Shrunk(r) /\ Plain /\ BoardStep /\ tok \in MaybeToken
    BY ListenerEffect DEF DeliverLogin
  <1>3. /\ worker' \in [query : Queries \cup {NoQuery}, wait : Waits]
        /\ task' \in [form : Forms \cup {0}, wait : Waits]
        /\ worker'.query = worker.query
        /\ Threaded'
    BY <1>1, <1>2, TellsEffect
  <1>4. \/ worker'.wait.tok = tok /\ task'.wait.tok = task.wait.tok
        \/ worker'.wait.tok = worker.wait.tok /\ task'.wait.tok = tok
        \/ worker'.wait.tok = worker.wait.tok /\ task'.wait.tok = task.wait.tok
    BY <1>1, <1>2, TellsEffect
  <1>5. Accepted'
    <2>1. NoNews
      BY <1>1, <1>2, <1>4, BoardNoNews, KnownMembers DEF NoNews
    <2>. QED
      BY <1>0, <1>1, <1>2, <2>1, AcceptedStep, NoLogout
  <1>6. OnePlace'
    <2>1. /\ UnderWay' = UnderWay \ {r}
          /\ \A q \in UnderWay' : reqs'[q].tok = reqs[q].tok /\ reqs'[q].op = reqs[q].op
      BY <1>2 DEF Shrunk, Keeps, KeepsTokens
    <2>2. tok # 0 => /\ tok # token /\ tok # worker.wait.tok /\ tok # task.wait.tok
                     /\ \A q \in UnderWay' : tok # reqs[q].tok
      BY <1>0, <1>1, <1>2, <2>1 DEF OnePlace
    <2>3. /\ worker'.wait.tok # 0 =>
                worker'.wait.tok # token' /\ worker'.wait.tok # task'.wait.tok
          /\ task'.wait.tok # 0 => task'.wait.tok # token'
      BY <1>0, <1>1, <1>4, <2>2 DEF OnePlace
    <2>4. \A q \in UnderWay' : reqs'[q].tok # 0 =>
              /\ reqs'[q].tok # token'
              /\ reqs'[q].tok # worker'.wait.tok /\ reqs'[q].tok # task'.wait.tok
      BY <1>0, <1>1, <1>4, <2>1, <2>2 DEF OnePlace
    <2>5. \A p, q \in UnderWay' :
              (p # q /\ reqs'[p].op = "sign_in" /\ reqs'[p].tok # 0)
                  => reqs'[p].tok # reqs'[q].tok
      BY <1>0, <2>1 DEF OnePlace
    <2>. QED
      BY <2>3, <2>4, <2>5 DEF OnePlace
  <1>7. OneQuery'
    BY <1>1, <1>2, <1>3, OneQueryKept
  <1>8. /\ token' \in MaybeToken /\ live' \subseteq Tokens
        /\ intents' \in Seq(Queries)
        /\ tasks' \in Seq([op : {"login", "logout"}, form : Forms \cup {0}])
        /\ posts' \in Seq([form : Forms, ok : BOOLEAN])
        /\ failed' \subseteq Askers /\ loggedOut' \in BOOLEAN
    BY <1>0, <1>1 DEF SessionTypeOK
  <1>. QED
    BY <1>2, <1>3, <1>5, <1>6, <1>7, <1>8, Whole

LEMMA DeliverErrorInv ==
    ASSUME SessionInv, NEW r \in Slots, DeliverError(r)
    PROVE  SessionInv'
  <1>0. SessionTypeOK /\ Threaded /\ Accepted /\ OnePlace /\ OneQuery /\ Addressed
    BY DEF SessionInv
  <1>1. /\ token' = 0 /\ Tells(r, 0)
        /\ failed' = IF reqs[r].op = "get" THEN failed \cup {reqs[r].by} ELSE failed
        /\ UNCHANGED <<live, intents, tasks, posts, loggedOut>>
    BY DEF DeliverError, HandleServerError, Tells
  <1>2. /\ r \in UnderWay /\ Shrunk(r) /\ Plain /\ BoardStep
    BY ListenerEffect DEF DeliverError
  <1>3. 0 \in MaybeToken
    BY <1>0, TypeFacts
  <1>4. /\ worker' \in [query : Queries \cup {NoQuery}, wait : Waits]
        /\ task' \in [form : Forms \cup {0}, wait : Waits]
        /\ worker'.query = worker.query
        /\ worker'.wait.tok \in {0, worker.wait.tok} /\ task'.wait.tok \in {0, task.wait.tok}
        /\ Threaded'
    BY <1>1, <1>2, <1>3, TellsEffect
  <1>5. Accepted'
    <2>1. NoNews
      BY <1>1, <1>2, <1>4, BoardNoNews, KnownMembers DEF NoNews
    <2>. QED
      BY <1>0, <1>1, <1>2, <2>1, AcceptedStep, NoLogout
  <1>6. OnePlace'
    BY <1>0, <1>1, <1>2, <1>4, OnePlaceKept
  <1>7. OneQuery'
    BY <1>1, <1>2, <1>4, OneQueryKept
  <1>8. failed' \subseteq Askers
    BY <1>0, <1>1, <1>2 DEF Addressed, SessionTypeOK
  <1>9. /\ token' \in MaybeToken /\ live' \subseteq Tokens
        /\ intents' \in Seq(Queries)
        /\ tasks' \in Seq([op : {"login", "logout"}, form : Forms \cup {0}])
        /\ posts' \in Seq([form : Forms, ok : BOOLEAN])
        /\ loggedOut' \in BOOLEAN
    BY <1>0, <1>1, <1>3 DEF SessionTypeOK
  <1>. QED
    BY <1>2, <1>4, <1>5, <1>6, <1>7, <1>8, <1>9, Whole

LEMMA DeliverResponseInv ==
    ASSUME SessionInv, NEW r \in Slots, DeliverResponse(r)
    PROVE  SessionInv'
  <1>0. SessionTypeOK /\ Threaded /\ Accepted /\ OnePlace /\ OneQuery
    BY DEF SessionInv
  <1>1. /\ reqs[r].op # "sign_in"
        /\ UNCHANGED <<token, live, intents, worker, tasks, task, posts, failed, loggedOut>>
    BY DEF DeliverResponse
  <1>2. /\ r \in UnderWay /\ Shrunk(r) /\ Plain /\ BoardStep
    BY ListenerEffect DEF DeliverResponse
  <1>3. Threaded'
    <2>1. \A w \in UnderWay \ {r} : w \in UnderWay' /\ reqs'[w].op = reqs[w].op
      BY <1>2 DEF Shrunk, Keeps
    <2>2. worker.wait.req # 0 =>
              worker.wait.req \in UnderWay' /\ reqs'[worker.wait.req].op = "sign_in"
      BY <1>0, <1>1, <2>1 DEF Threaded
    <2>3. task.wait.req # 0 =>
              task.wait.req \in UnderWay' /\ reqs'[task.wait.req].op = "sign_in"
      BY <1>0, <1>1, <2>1 DEF Threaded
    <2>. QED
      BY <1>0, <1>1, <2>2, <2>3 DEF Threaded
  <1>4. Accepted'
    <2>1. NoNews
      BY <1>1, <1>2, BoardNoNews, KnownMembers DEF NoNews
    <2>. QED
      BY <1>0, <1>1, <1>2, <2>1, AcceptedStep, NoLogout
  <1>5. OnePlace'
    BY <1>0, <1>1, <1>2, OnePlaceKept
  <1>6. OneQuery'
    BY <1>1, <1>2, OneQueryKept
  <1>7. /\ token' \in MaybeToken /\ live' \subseteq Tokens
        /\ intents' \in Seq(Queries)
        /\ worker' \in [query : Queries \cup {NoQuery}, wait : Waits]
        /\ tasks' \in Seq([op : {"login", "logout"}, form : Forms \cup {0}])
        /\ task' \in [form : Forms \cup {0}, wait : Waits]
        /\ posts' \in Seq([form : Forms, ok : BOOLEAN])
        /\ failed' \subseteq Askers /\ loggedOut' \in BOOLEAN
    BY <1>0, <1>1 DEF SessionTypeOK
  <1>. QED
    BY <1>2, <1>3, <1>4, <1>5, <1>6, <1>7, Whole

LEMMA ProcessDiesInv ==
    ASSUME SessionInv, ProcessDies
    PROVE  SessionInv' /\ UnderWay' = {}
  <1>0. SessionTypeOK /\ Accepted /\ OnePlace /\ OneQuery
    BY DEF SessionInv
  <1>1. /\ token' = 0 /\ reqs' = [r \in Slots |-> NoRequest]
        /\ intents' = <<>> /\ tasks' = <<>> /\ posts' = <<>>
        /\ worker' = NoWork /\ task' = NoTask
        /\ UNCHANGED <<live, failed, loggedOut>>
    BY DEF ProcessDies
  <1>2. UnderWay' = {} /\ reqs' \in Board
    BY <1>1 DEF UnderWay, Board
  <1>3. Plain /\ BoardStep
    BY <1>2 DEF Cleared, Plain, BoardStep
  <1>4. Threaded'
    BY <1>1, Resting DEF Threaded
  <1>5. worker'.wait.tok = 0 /\ task'.wait.tok = 0
    BY <1>1, Resting
  <1>6. Accepted'
    <2>1. NoNews
      BY <1>1, <1>2, <1>5 DEF NoNews
    <2>. QED
      BY <1>0, <1>1, <1>2, <2>1, AcceptedStep
  <1>7. OnePlace'
    BY <1>1, <1>2, <1>5 DEF OnePlace
  <1>8. OneQuery'
    BY <1>1, <1>2 DEF OneQuery
  <1>9. /\ token' \in MaybeToken /\ live' \subseteq Tokens
        /\ intents' \in Seq(Queries)
        /\ worker' \in [query : Queries \cup {NoQuery}, wait : Waits]
        /\ tasks' \in Seq([op : {"login", "logout"}, form : Forms \cup {0}])
        /\ task' \in [form : Forms \cup {0}, wait : Waits]
        /\ posts' \in Seq([form : Forms, ok : BOOLEAN])
        /\ failed' \subseteq Askers /\ loggedOut' \in BOOLEAN
    BY <1>0, <1>1, TypeFacts, Resting DEF SessionTypeOK
  <1>. QED
    BY <1>2, <1>3, <1>4, <1>6, <1>7, <1>8, <1>9, Whole

\* A screen calls the service, with a query it has not asked before.
LEMMA StartServiceInv ==
    ASSUME SessionInv, NEW query \in Queries, ~Pending(query.by), StartService(query)
    PROVE  SessionInv'
  <1>0. SessionTypeOK /\ Threaded /\ Accepted /\ OnePlace /\ OneQuery
    BY DEF SessionInv
  <1>1. /\ intents' = Append(intents, query)
        /\ UNCHANGED <<token, live, reqs, worker, tasks, task, posts, failed, loggedOut>>
    BY DEF StartService
  <1>2. Still /\ Plain /\ Lasting /\ BoardStep
    BY <1>0, <1>1, StillEffect DEF Plain, Lasting, BoardStep
  <1>3. intents \in Seq(Queries)
    BY <1>0 DEF SessionTypeOK
  <1>. DEFINE n0 == Len(intents) + 1
  <1>4. /\ intents' \in Seq(Queries)
        /\ DOMAIN intents' = DOMAIN intents \cup {n0}
        /\ intents'[n0] = query
        /\ \A n \in DOMAIN intents : intents'[n] = intents[n]
    BY <1>1, <1>3, AppendEffect
  <1>. HIDE DEF n0
  <1>5. Threaded'
    BY <1>1, <1>2, ThreadedKept
  <1>6. Accepted'
    <2>1. NoNews
      BY <1>1, <1>2, BoardNoNews, KnownMembers DEF NoNews
    <2>. QED
      BY <1>0, <1>1, <1>2, <2>1, AcceptedStep, NoLogout
  <1>7. OnePlace'
    BY <1>0, <1>1, <1>2, OnePlaceKept
  <1>8. OneQuery'
    <2>1. UnderWay' = UnderWay
      BY <1>1 DEF UnderWay
    <2>2. /\ \A n \in DOMAIN intents : intents[n].by # query.by
          /\ worker.query.by # query.by
          /\ \A r \in UnderWay : reqs[r].by # query.by
      BY DEF Pending
    <2>. QED
      BY <1>0, <1>1, <1>4, <2>1, <2>2 DEF OneQuery
  <1>9. /\ token' \in MaybeToken /\ live' \subseteq Tokens
        /\ worker' \in [query : Queries \cup {NoQuery}, wait : Waits]
        /\ tasks' \in Seq([op : {"login", "logout"}, form : Forms \cup {0}])
        /\ task' \in [form : Forms \cup {0}, wait : Waits]
        /\ posts' \in Seq([form : Forms, ok : BOOLEAN])
        /\ failed' \subseteq Askers /\ loggedOut' \in BOOLEAN
    BY <1>0, <1>1 DEF SessionTypeOK
  <1>. QED
    BY <1>2, <1>4, <1>5, <1>6, <1>7, <1>8, <1>9, Whole

\* A screen starts a task, or takes the result of one, or does nothing to the
\* session.
LEMMA ExecuteInv ==
    ASSUME SessionInv, NEW t \in Jobs, t.op = "login" => t.form \in Forms,
           \/ /\ tasks' = Append(tasks, t) /\ posts' = posts
           \/ /\ tasks' = tasks /\ posts # <<>> /\ posts' = Tail(posts)
           \/ /\ tasks' = tasks /\ posts' = posts,
           UNCHANGED <<token, live, reqs, intents, worker, task, failed, loggedOut>>
    PROVE  SessionInv'
  <1>0. SessionTypeOK /\ Threaded /\ Accepted /\ OnePlace /\ OneQuery
    BY DEF SessionInv
  <1>1. Still /\ Plain /\ Lasting /\ BoardStep
    BY <1>0, StillEffect DEF Plain, Lasting, BoardStep
  <1>2. tasks \in Seq(Jobs) /\ posts \in Seq([form : Forms, ok : BOOLEAN])
    BY <1>0 DEF SessionTypeOK, Jobs
  <1>3. posts' \in Seq([form : Forms, ok : BOOLEAN])
    <2>. DEFINE P == [form : Forms, ok : BOOLEAN]
    <2>. HIDE DEF P
    <2>1. posts \in Seq(P)
      BY <1>2 DEF P
    <2>2. posts' = posts \/ (posts # <<>> /\ posts' = Tail(posts))
      OBVIOUS
    <2>3. posts' \in Seq(P)
      BY <2>1, <2>2, TailEffect
    <2>. QED
      BY <2>3 DEF P
  <1>4. /\ tasks' \in Seq(Jobs)
        /\ \A n \in DOMAIN tasks' : tasks'[n].op = "login" => tasks'[n].form \in Forms
    <2>1. CASE tasks' = tasks
      BY <1>0, <1>2, <2>1 DEF Threaded
    <2>2. CASE tasks' = Append(tasks, t)
      <3>1. /\ tasks' \in Seq(Jobs)
            /\ \A n \in DOMAIN tasks' : n \in DOMAIN tasks \/ tasks'[n] = t
            /\ \A n \in DOMAIN tasks : tasks'[n] = tasks[n]
        BY <1>2, <2>2, AppendEffect
      <3>. QED
        BY <1>0, <3>1 DEF Threaded
    <2>. QED
      BY <2>1, <2>2
  <1>5. Threaded'
    <2>1. worker.wait.req # 0 =>
              worker.wait.req \in UnderWay' /\ reqs'[worker.wait.req].op = "sign_in"
      BY <1>0, <1>1, WaitKept DEF Threaded
    <2>2. task.wait.req # 0 =>
              task.wait.req \in UnderWay' /\ reqs'[task.wait.req].op = "sign_in"
      BY <1>0, <1>1, WaitKept DEF Threaded
    <2>. QED
      BY <1>0, <1>4, <2>1, <2>2 DEF Threaded
  <1>6. Accepted'
    <2>1. NoNews
      BY <1>1, BoardNoNews, KnownMembers DEF NoNews
    <2>. QED
      BY <1>0, <1>1, <2>1, AcceptedStep, NoLogout
  <1>7. OnePlace'
    BY <1>0, <1>1, OnePlaceKept
  <1>8. OneQuery'
    BY <1>1, OneQueryKept
  <1>9. /\ token' \in MaybeToken /\ live' \subseteq Tokens
        /\ intents' \in Seq(Queries)
        /\ worker' \in [query : Queries \cup {NoQuery}, wait : Waits]
        /\ task' \in [form : Forms \cup {0}, wait : Waits]
        /\ failed' \subseteq Askers /\ loggedOut' \in BOOLEAN
    BY <1>0 DEF SessionTypeOK
  <1>. QED
    BY <1>1, <1>3, <1>4, <1>5, <1>6, <1>7, <1>8, <1>9, Whole DEF Jobs

LEMMA SessionStart ==
    ASSUME SessionInit
    PROVE  SessionInv /\ UnderWay = {}
  <1>1. /\ token = 0 /\ live = {} /\ reqs = [r \in Slots |-> NoRequest]
        /\ intents = <<>> /\ tasks = <<>> /\ posts = <<>>
        /\ worker = NoWork /\ task = NoTask /\ failed = {} /\ loggedOut = FALSE
    BY DEF SessionInit
  <1>2. UnderWay = {}
    BY <1>1 DEF UnderWay
  <1>3. reqs \in [Slots -> Requests \cup {NoRequest}]
    BY <1>1
  <1>4. SessionTypeOK
    <2>1. worker \in [query : Queries \cup {NoQuery}, wait : Waits]
      BY <1>1, Resting
    <2>2. task \in [form : Forms \cup {0}, wait : Waits]
      BY <1>1, Resting
    <2>3. /\ intents \in Seq(Queries)
          /\ tasks \in Seq([op : {"login", "logout"}, form : Forms \cup {0}])
          /\ posts \in Seq([form : Forms, ok : BOOLEAN])
      BY <1>1
    <2>4. token \in MaybeToken /\ live \subseteq Tokens /\ failed \subseteq Askers
      BY <1>1 DEF MaybeToken
    <2>. QED
      BY <1>1, <1>3, <2>1, <2>2, <2>3, <2>4 DEF SessionTypeOK
  <1>5. Threaded
    BY <1>1, Resting DEF Threaded
  <1>6. Accepted
    <2>1. Known = {0}
      BY <1>1, <1>2, Resting DEF Known
    <2>. QED
      BY <1>2, <2>1 DEF Accepted
  <1>7. Addressed /\ OnePlace /\ LogoutMissesItsSession /\ OneQuery
    BY <1>1, <1>2, Resting DEF Addressed, OnePlace, LogoutMissesItsSession, OneQuery
  <1>. QED
    BY <1>2, <1>4, <1>5, <1>6, <1>7 DEF SessionInv

-----------------------------------------------------------------------------
(* The queries that have not come to their end: those that wait for the    *)
(* worker, the one in its hand, and those under way.                       *)

Waiting == {intents[n] : n \in DOMAIN intents}
InHand == {worker.query} \cap Queries
QueryOf(r) == [url |-> reqs[r].url, by |-> reqs[r].by]
Sent == {QueryOf(r) : r \in {q \in UnderWay : reqs[q].op = "get"}}
Outstanding == Waiting \cup InHand \cup Sent

\* The query of screen i is over in this step.
Over(i) == Outstanding' = {q \in Outstanding : q.by # i}

LEMMA OutstandingQueries ==
    ASSUME SessionInv
    PROVE  Outstanding \subseteq Queries
  <1>1. Waiting \subseteq Queries
    BY DEF SessionInv, SessionTypeOK, Waiting
  <1>2. Sent \subseteq Queries
    BY DEF SessionInv, Addressed, Sent, QueryOf, Queries
  <1>. QED
    BY <1>1, <1>2 DEF Outstanding, InHand

\* A screen's query is pending exactly when it is outstanding.
LEMMA PendingOutstanding ==
    ASSUME SessionInv, NEW i, i # 0
    PROVE  Pending(i) <=> \E q \in Outstanding : q.by = i
  <1>1. (\E n \in DOMAIN intents : intents[n].by = i) <=> \E q \in Waiting : q.by = i
    BY DEF Waiting
  <1>2. (worker.query.by = i) <=> \E q \in InHand : q.by = i
    BY ThreadFacts, Resting DEF InHand
  <1>3. (\E r \in UnderWay : reqs[r].by = i) <=> \E q \in Sent : q.by = i
    <2>1. \A r \in UnderWay : reqs[r].by = i => reqs[r].op = "get"
      BY DEF SessionInv, Addressed
    <2>2. \A r : QueryOf(r).by = reqs[r].by
      BY DEF QueryOf
    <2>. QED
      BY <2>1, <2>2 DEF Sent
  <1>. QED
    BY <1>1, <1>2, <1>3 DEF Pending, Outstanding

LEMMA SentKept ==
    ASSUME \/ Still \/ LoginQueued \/ LogoutQueued
           \/ \E r \in Slots : \/ Retouched(r) \/ Answered(r)
                               \/ Shrunk(r) /\ reqs[r].op # "get"
    PROVE  Sent' = Sent
  <1>1. ASSUME NEW r \in UnderWay, r \in UnderWay', Keeps(r)
        PROVE  (reqs'[r].op = "get" <=> reqs[r].op = "get") /\ QueryOf(r)' = QueryOf(r)
    BY <1>1 DEF Keeps, QueryOf
  <1>2. CASE Still
    BY <1>1, <1>2 DEF Still, Sent
  <1>3. CASE LoginQueued \/ LogoutQueued
    <2>1. PICK s \in Slots, op \in {"sign_in", "sign_out"}, tok \in {0, token} :
                  Grown(s, op, op, 0, tok)
      BY <1>3 DEF LoginQueued, LogoutQueued
    <2>2. /\ UnderWay' = UnderWay \cup {s} /\ reqs'[s].op # "get"
          /\ \A q \in UnderWay : Keeps(q)
      BY <2>1 DEF Grown
    <2>. QED
      BY <1>1, <2>2 DEF Sent
  <1>4. CASE \E r \in Slots : Retouched(r) \/ Answered(r)
    <2>1. UnderWay' = UnderWay /\ \A q \in UnderWay : Keeps(q)
      BY <1>4 DEF Retouched, Answered, Touched
    <2>. QED
      BY <1>1, <2>1 DEF Sent
  <1>5. CASE \E r \in Slots : Shrunk(r) /\ reqs[r].op # "get"
    <2>1. PICK r \in Slots : Shrunk(r) /\ reqs[r].op # "get"
      BY <1>5
    <2>2. UnderWay' = UnderWay \ {r} /\ \A q \in UnderWay \ {r} : Keeps(q)
      BY <2>1 DEF Shrunk
    <2>. QED
      BY <1>1, <2>1, <2>2 DEF Sent
  <1>. QED
    BY <1>2, <1>3, <1>4, <1>5

LEMMA OutstandingKept ==
    ASSUME intents' = intents, worker'.query = worker.query,
           \/ Still \/ LoginQueued \/ LogoutQueued
           \/ \E r \in Slots : \/ Retouched(r) \/ Answered(r)
                               \/ Shrunk(r) /\ reqs[r].op # "get"
    PROVE  Outstanding' = Outstanding
    BY SentKept DEF Outstanding, Waiting, InHand

\* Taking an intent and sending a query only move it.
LEMMA HandleIntentMoves ==
    ASSUME SessionInv, HandleIntent
    PROVE  Outstanding' = Outstanding
  <1>1. intents \in Seq(Queries) /\ SessionTypeOK
    BY DEF SessionInv, SessionTypeOK
  <1>2. /\ worker = NoWork /\ intents # <<>> /\ intents' = Tail(intents)
        /\ worker'.query = Head(intents)
        /\ UNCHANGED reqs \/ QueueLogin
    BY DEF HandleIntent
  <1>3. Still \/ LoginQueued
    BY <1>1, <1>2, StillEffect, QueueLoginEffect
  <1>4. Sent' = Sent
    BY <1>3, SentKept
  <1>5. InHand' = {Head(intents)} /\ InHand = {}
    BY <1>1, <1>2, TailEffect, Resting DEF InHand
  <1>6. Waiting = Waiting' \cup {Head(intents)}
    <2>1. /\ \A n \in DOMAIN intents' : n + 1 \in DOMAIN intents /\ intents'[n] = intents[n + 1]
          /\ \A n \in DOMAIN intents : n # 1 => n - 1 \in DOMAIN intents'
                                              /\ intents'[n - 1] = intents[n]
          /\ 1 \in DOMAIN intents /\ intents[1] = Head(intents)
      BY <1>1, <1>2, TailEffect
    <2>2. Waiting' \cup {Head(intents)} \subseteq Waiting
      BY <2>1 DEF Waiting
    <2>3. Waiting \subseteq Waiting' \cup {Head(intents)}
      BY <2>1 DEF Waiting
    <2>. QED
      BY <2>2, <2>3
  <1>. QED
    BY <1>4, <1>5, <1>6 DEF Outstanding

LEMMA SendQueryMoves ==
    ASSUME SessionInv, SendQuery
    PROVE  Outstanding' = Outstanding
  <1>. DEFINE query == worker.query
  <1>1. /\ worker # NoWork /\ worker' = NoWork /\ intents' = intents
        /\ Queue("get", query.url, query.by, 0)
    BY DEF SendQuery, FetchUrl
  <1>2. query \in Queries
    BY <1>1 DEF SessionInv, Threaded
  <1>3. query.url \in Urls /\ query.by \in Askers /\ query = [url |-> query.url, by |-> query.by]
    BY <1>2 DEF Queries
  <1>4. PICK s \in Slots : Grown(s, "get", query.url, query.by, 0)
    <2>1. Grown(FreeSlot, "get", query.url, query.by, 0)
      BY <1>1, <1>3, TypeFacts, QueueEffect DEF SessionInv
    <2>. QED
      BY <2>1 DEF Grown
  <1>5. /\ UnderWay' = UnderWay \cup {s}
        /\ reqs'[s].op = "get"
        /\ reqs'[s].url = query.url /\ reqs'[s].by = query.by
        /\ \A q \in UnderWay : reqs'[q].op = reqs[q].op /\ reqs'[q].url = reqs[q].url
                               /\ reqs'[q].by = reqs[q].by
    BY <1>4 DEF Grown, Keeps
  <1>6. /\ QueryOf(s)' = query
        /\ \A q \in UnderWay : QueryOf(q)' = QueryOf(q)
    BY <1>3, <1>5 DEF QueryOf
  <1>7. Sent' = Sent \cup {query}
    <2>1. Sent' \subseteq Sent \cup {query}
      BY <1>5, <1>6 DEF Sent
    <2>2. Sent \cup {query} \subseteq Sent'
      BY <1>5, <1>6 DEF Sent
    <2>. QED
      BY <2>1, <2>2
  <1>8. InHand = {query} /\ InHand' = {}
    BY <1>1, <1>2, Resting DEF InHand
  <1>9. Waiting' = Waiting
    BY <1>1 DEF Waiting
  <1>. QED
    BY <1>7, <1>8, <1>9 DEF Outstanding

\* A query comes to its end when the worker gives up, or its answer or its error
\* is delivered.
LEMMA WorkerTimesOutEnds ==
    ASSUME SessionInv, WorkerTimesOut
    PROVE  /\ worker.query \in Outstanding
           /\ Over(worker.query.by) /\ worker.query.by \in failed'
  <1>1. /\ worker.wait.on /\ worker' = NoWork /\ intents' = intents /\ UNCHANGED reqs
        /\ failed' = failed \cup {worker.query.by}
    BY DEF WorkerTimesOut
  <1>2. worker.query \in Queries
    BY <1>1, Resting DEF SessionInv, Threaded
  <1>3. Sent' = Sent /\ Waiting' = Waiting
    BY <1>1, StillEffect, SentKept DEF Waiting, SessionInv
  <1>4. InHand = {worker.query} /\ InHand' = {}
    BY <1>1, <1>2, Resting DEF InHand
  <1>5. \A q \in Waiting : q.by # worker.query.by
    BY DEF SessionInv, OneQuery, Waiting
  <1>6. \A q \in Sent : q.by # worker.query.by
    <2>1. worker.query.by # 0
      BY <1>2, TypeFacts DEF SessionInv, Queries
    <2>2. \A r : QueryOf(r).by = reqs[r].by
      BY DEF QueryOf
    <2>. QED
      BY <2>1, <2>2 DEF SessionInv, OneQuery, Sent
  <1>. QED
    BY <1>1, <1>3, <1>4, <1>5, <1>6 DEF Over, Outstanding

LEMMA QueryEnds ==
    ASSUME SessionInv, NEW r \in Slots, Shrunk(r), reqs[r].op = "get",
           intents' = intents, worker'.query = worker.query
    PROVE  QueryOf(r) \in Outstanding /\ Over(reqs[r].by)
  <1>1. /\ r \in UnderWay /\ UnderWay' = UnderWay \ {r}
        /\ \A q \in UnderWay \ {r} : reqs'[q].op = reqs[q].op /\ reqs'[q].url = reqs[q].url
                                     /\ reqs'[q].by = reqs[q].by
    BY DEF Shrunk, Keeps
  <1>2. reqs[r].by # 0
    BY <1>1, TypeFacts DEF SessionInv, Addressed
  <1>3. Waiting' = Waiting /\ InHand' = InHand
    BY DEF Waiting, InHand
  <1>4. \A q \in UnderWay \ {r} : reqs[q].by # reqs[r].by
    BY <1>1, <1>2 DEF SessionInv, OneQuery
  <1>5. \A q \in UnderWay \ {r} : QueryOf(q)' = QueryOf(q) /\ QueryOf(q).by # reqs[r].by
    BY <1>1, <1>4 DEF QueryOf
  <1>6. QueryOf(r) \in Sent /\ QueryOf(r).by = reqs[r].by
    BY <1>1 DEF QueryOf, Sent
  <1>7. Sent' = {q \in Sent : q.by # reqs[r].by}
    <2>1. Sent' \subseteq {q \in Sent : q.by # reqs[r].by}
      BY <1>1, <1>5 DEF Sent
    <2>2. {q \in Sent : q.by # reqs[r].by} \subseteq Sent'
      BY <1>1, <1>5, <1>6 DEF Sent
    <2>. QED
      BY <2>1, <2>2
  <1>8. \A q \in Waiting : q.by # reqs[r].by
    BY <1>1 DEF SessionInv, OneQuery, Waiting
  <1>9. \A q \in InHand : q.by # reqs[r].by
    BY <1>1, <1>2 DEF SessionInv, OneQuery, InHand
  <1>. QED
    BY <1>3, <1>6, <1>7, <1>8, <1>9 DEF Over, Outstanding

LEMMA StartServiceAsks ==
    ASSUME SessionInv, NEW query, StartService(query)
    PROVE  Outstanding' = Outstanding \cup {query}
  <1>1. intents' = Append(intents, query) /\ UNCHANGED <<reqs, worker>> /\ intents \in Seq(Queries)
    BY DEF StartService, SessionInv, SessionTypeOK
  <1>2. /\ DOMAIN intents' = DOMAIN intents \cup {Len(intents) + 1}
        /\ intents'[Len(intents) + 1] = query
        /\ \A n \in DOMAIN intents : intents'[n] = intents[n]
    <2>1. intents \in Seq(Queries \cup {query}) /\ query \in Queries \cup {query}
      BY <1>1
    <2>. QED
      BY <1>1, <2>1, AppendEffect
  <1>3. Waiting' = Waiting \cup {query}
    <2>1. Waiting' \subseteq Waiting \cup {query}
      BY <1>2 DEF Waiting
    <2>2. Waiting \cup {query} \subseteq Waiting'
      BY <1>2 DEF Waiting
    <2>. QED
      BY <2>1, <2>2
  <1>4. Sent' = Sent /\ InHand' = InHand
    BY <1>1, StillEffect, SentKept DEF InHand, SessionInv
  <1>. QED
    BY <1>3, <1>4 DEF Outstanding
=============================================================================
