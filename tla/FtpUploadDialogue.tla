-------------------------- MODULE FtpUploadDialogue --------------------------
(***************************************************************************)
(* The inductive invariant of the upload, and the first half of its proof: *)
(* types, and the dialogue on the control connection.  Nothing ties a reply *)
(* to a command but its place in the queue, so the invariant says for each *)
(* place of the phone what is in flight and where the process can be.      *)
(***************************************************************************)
EXTENDS FtpUpload, SequenceTheorems, TLAPS

\* Final replies to a transfer, but for 421.
Final == {226, 426, 451}

\* k replies precede the end of the transfer in the queue: the process is in
\* the transfer, or has said how it ended, or has timed out with 421, or has
\* died in the analysis and says nothing.
Transfer(p, k) ==
    \/ /\ spc[p] \in {"recv", "analyse", "timedout"}
       /\ Len(replies[p]) = k
    \/ /\ spc[p] \in {"cleanup", "cmd"}
       /\ Len(replies[p]) = k + 1
       /\ replies[p][k + 1].code \in Final
       /\ replies[p][k + 1].code = 226 => success[p]
    \/ /\ spc[p] = "gone"
       /\ Len(replies[p]) = k + 1
       /\ replies[p][k + 1].code = 421
    \/ /\ spc[p] = "gone"
       /\ Len(replies[p]) = k

\* The commands in flight are these.
NoCmd(p) == Len(cmds[p]) = 0
OneCmd(p, verb) == Len(cmds[p]) = 1 /\ cmds[p][1][1] = verb

\* The dialogue of the first attempt.
First(p) ==
    \/ cpc[p] = "send" /\ spc[p] = "cmd" /\ NoCmd(p) /\ Len(replies[p]) = 0
    \/ cpc[p] = "port" /\ spc[p] = "cmd" /\ OneCmd(p, "PORT") /\ Len(replies[p]) = 0
    \/ /\ cpc[p] = "port" /\ spc[p] = "cmd" /\ NoCmd(p)
       /\ Len(replies[p]) = 1 /\ replies[p][1].code = 200
    \/ cpc[p] = "stou" /\ spc[p] = "cmd" /\ OneCmd(p, "STOU") /\ Len(replies[p]) = 0
    \/ /\ cpc[p] = "stou" /\ spc[p] \in {"stat", "create", "connect"} /\ NoCmd(p)
       /\ Len(replies[p]) = 0
    \/ /\ cpc[p] = "stou" /\ spc[p] \in {"cleanup", "cmd"} /\ NoCmd(p)
       /\ Len(replies[p]) = 1 /\ replies[p][1].code \in {425, 553}
    \/ /\ cpc[p] = "stou" /\ NoCmd(p)
       /\ Len(replies[p]) >= 1 /\ replies[p][1].code = 150 /\ Transfer(p, 1)
    \/ cpc[p] \in {"copy", "answer"} /\ NoCmd(p) /\ Transfer(p, 0)
    \/ /\ cpc[p] = "end" /\ spc[p] \in {"cleanup", "cmd"} /\ NoCmd(p)
       /\ Len(replies[p]) = 0 /\ (last[p].code = 226 => success[p])
    \/ /\ cpc[p] = "quit" /\ spc[p] \in {"cleanup", "cmd"} /\ OneCmd(p, "QUIT")
       /\ Len(replies[p]) = 0 /\ (last[p].code = 226 => success[p])
    \/ /\ cpc[p] = "quit" /\ spc[p] = "gone"
       /\ Len(replies[p]) = 1 /\ (last[p].code = 226 => success[p])

\* The dialogue of a later attempt: one reply behind, or with nobody there.
Later(p) ==
    \/ cpc[p] = "send" /\ spc[p] = "gone"
    \/ cpc[p] = "send" /\ NoCmd(p) /\ Transfer(p, 0)
    \/ cpc[p] = "port" /\ OneCmd(p, "PORT") /\ Transfer(p, 0)
    \/ /\ cpc[p] = "port" /\ spc[p] = "cmd" /\ NoCmd(p) /\ Len(replies[p]) = 2
       /\ replies[p][1].code \in Final /\ replies[p][2].code = 200
    \/ /\ cpc[p] = "stou" /\ spc[p] \in {"cleanup", "cmd"} /\ Len(replies[p]) = 0
       /\ Len(cmds[p]) = 2 /\ cmds[p][1][1] = "PORT"
    \/ cpc[p] = "stou" /\ Len(replies[p]) >= 1 /\ replies[p][1].code = 200
    \/ cpc[p] \in {"end", "quit"}

\* Until the upload is over: a lost line has no replies in it, and only the
\* first attempt gets as far as the copy or ends with 226 in resp.
Dialogue(p) ==
    cpc[p] # "over" =>
        /\ outcome[p].is = "pending" /\ tries[p] < MaxTries
        /\ line[p] = "lost" => Len(replies[p]) = 0
        /\ tries[p] > 0 => cpc[p] \notin {"copy", "answer"}
        /\ (tries[p] > 0 /\ cpc[p] \in {"end", "quit"}) => last[p].code # 226
        /\ (line[p] = "up" /\ tries[p] = 0) => First(p)
        /\ (line[p] = "up" /\ tries[p] > 0) => Later(p)

DialogueInv == \A p \in Phones : Dialogue(p)

-----------------------------------------------------------------------------
\* The process has a file of its own, or has left one that is complete.
Owner(p) == success[p] \/ spc[p] \in {"connect", "recv", "analyse", "cleanup"}

\* Success comes with the end of file, and an owner's file is in the directory.
Steps(p) ==
    /\ success[p] => spc[p] \in {"analyse", "cleanup", "cmd", "gone"}
    /\ spc[p] = "analyse" => success[p]
    /\ spc[p] \in {"stat", "create"} => name[p] \in Names
    /\ Owner(p) => name[p] \in exists

\* The pieces in flight are the phone's, in order, and no later than pos.
Buffer(p) ==
    \A i \in DOMAIN data[p].buf :
        /\ data[p].buf[i].by = p /\ data[p].buf[i].at <= pos[p]
        /\ \A j \in DOMAIN data[p].buf : i < j => data[p].buf[i].at < data[p].buf[j].at

\* The file holds the phone's pieces only, all before those in flight.
File(p) ==
    /\ Owner(p) => \A i \in DOMAIN content[name[p]] : content[name[p]][i].by = p
    /\ spc[p] = "connect" => Len(content[name[p]]) = 0
    /\ spc[p] = "recv" =>
          \A i \in DOMAIN content[name[p]] :
              /\ content[name[p]][i].at <= pos[p]
              /\ \A j \in DOMAIN data[p].buf : content[name[p]][i].at < data[p].buf[j].at

\* No two processes own one name.
Apart == \A p, q \in Phones : (p # q /\ Owner(p) /\ Owner(q)) => name[p] # name[q]

FileInv ==
    /\ \A p \in Phones : Steps(p) /\ Buffer(p) /\ File(p)
    /\ Apart
    /\ FilesAreNotMixed

\* A process is about to unlink n, or died before it could.
Abandoned(n) ==
    \E q \in Phones : /\ name[q] = n /\ ~success[q]
                      /\ \/ spc[q] = "cleanup"
                         \/ spc[q] = "gone" /\ line[q] = "lost"

FailedInv ==
    /\ \A p \in Phones :
          (success[p] \/ spc[p] \in {"connect", "recv", "analyse"}) => name[p] \notin failed
    /\ \A n \in failed \cap exists : Abandoned(n)

-----------------------------------------------------------------------------
\* What is left to copy, and what an orderly close means.
Stream(p) ==
    /\ cpc[p] \in {"send", "port", "stou"} => pos[p] = 0
    /\ data[p].st = "closed" => pos[p] = Chunks

\* The file and the pieces in flight are the capture so far.
Arriving(p) ==
    spc[p] = "recv" =>
        /\ Len(content[name[p]]) + Len(data[p].buf) = pos[p]
        /\ \A i \in DOMAIN content[name[p]] : content[name[p]][i].at = i
        /\ \A i \in DOMAIN data[p].buf : data[p].buf[i].at = Len(content[name[p]]) + i

Stored(p) == success[p] => content[name[p]] = Capture(p)

\* No reply speaks of another content.
Honest(p) ==
    /\ \A i \in DOMAIN replies[p] : replies[p][i].of \in {<<>>, Capture(p)}
    /\ last[p].of \in {<<>>, Capture(p)}

\* All of that holds only until an attempt has thrown: then pieces are missing
\* and an end of file comes early.
Whole(p) == tries[p] = 0 => Stream(p) /\ Arriving(p) /\ Stored(p) /\ Honest(p)

\* A reading was given for a complete upload of a process that has ended, so
\* nobody is left to unlink its file.
Answered(p) ==
    outcome[p].is = "reading" =>
        /\ cpc[p] = "over" /\ tries[p] = 0 /\ outcome[p].of = Capture(p)
        /\ success[p] /\ spc[p] = "gone"

WholeInv == \A p \in Phones : Whole(p) /\ Answered(p)

\* Replacing one value of a function by another of its range.
LEMMA PutTyped ==
  ASSUME NEW D, NEW S, NEW f \in [D -> S], NEW p \in D, NEW e \in S
  PROVE  [f EXCEPT ![p] = e] \in [D -> S]
  OBVIOUS

\* Adding to one of several queues.
LEMMA AppendTyped ==
  ASSUME NEW D, NEW S, NEW f \in [D -> Seq(S)], NEW p \in D, NEW e \in S
  PROVE  [f EXCEPT ![p] = Append(@, e)] \in [D -> Seq(S)]
  BY AppendProperties

\* Taking from one of several queues.
LEMMA TailTyped ==
  ASSUME NEW D, NEW S, NEW f \in [D -> Seq(S)], NEW p \in D, f[p] # <<>>
  PROVE  [f EXCEPT ![p] = Tail(@)] \in [D -> Seq(S)] /\ Head(f[p]) \in S
  BY HeadTailProperties

\* The replies the server composes are replies.
LEMMA ReplyTyped == \A code \in Codes : Reply(code) \in Replies
  BY EmptySeq DEF Reply, Replies

\* Sending keeps the commands in flight typed.
LEMMA SendTyped ==
  ASSUME TypeOK, NEW p \in Phones, NEW cmd \in Commands, Send(p, cmd)
  PROVE  cmds' \in [Phones -> Seq(Commands)]
  BY AppendTyped DEF TypeOK, Send

\* Reading a reply keeps replies and last typed, and last is the head of the queue.
LEMMA GetReplyTyped ==
  ASSUME TypeOK, NEW p \in Phones, GetReply(p)
  PROVE  /\ replies' \in [Phones -> Seq(Replies)] /\ last' \in [Phones -> Replies]
         /\ last'[p] = Head(replies[p])
  <1>1. replies \in [Phones -> Seq(Replies)] /\ replies[p] # <<>>
    BY DEF TypeOK, GetReply
  <1>2. Head(replies[p]) \in Replies /\ replies' \in [Phones -> Seq(Replies)]
    BY <1>1, TailTyped DEF GetReply
  <1> QED
    BY <1>2 DEF TypeOK, GetReply

\* The answer of a stored capture is a reply, whatever part of the capture it is about.
LEMMA AnswerTyped ==
  ASSUME NEW found \in Seq(Pieces)
  PROVE  [code |-> 226, of |-> found] \in Replies
  <1>1. 226 \in Codes
    BY DEF Codes
  <1> QED
    BY <1>1 DEF Replies

\* vsf_cmdio_write keeps the replies and the place of the process typed.
LEMMA WriteTyped ==
  ASSUME TypeOK, NEW p \in Phones, NEW reply \in Replies, NEW next \in ServerSteps,
         Write(p, reply, next)
  PROVE  replies' \in [Phones -> Seq(Replies)] /\ spc' \in [Phones -> ServerSteps]
  <1>1. replies \in [Phones -> Seq(Replies)] /\ spc \in [Phones -> ServerSteps]
    BY DEF TypeOK
  <1>2. replies' = replies \/ replies' = [replies EXCEPT ![p] = Append(@, reply)]
    BY DEF Write
  <1>3. [replies EXCEPT ![p] = Append(@, reply)] \in [Phones -> Seq(Replies)]
    BY <1>1, AppendTyped
  <1>a. "gone" \in ServerSteps
    BY DEF ServerSteps
  <1>4. PICK s \in ServerSteps : spc' = [spc EXCEPT ![p] = s]
    BY <1>a DEF Write
  <1>5. spc' \in [Phones -> ServerSteps]
    BY <1>1, <1>4, PutTyped
  <1> QED
    BY <1>1, <1>2, <1>3, <1>5

\* An error box is an outcome.
LEMMA OutcomeTyped ==
  ASSUME TypeOK, NEW p \in Phones, outcome' = [outcome EXCEPT ![p].is = "error"]
  PROVE  outcome' \in [Phones -> Outcomes]
  <1>1. outcome \in [Phones -> Outcomes]
    BY DEF TypeOK
  <1>2. [outcome[p] EXCEPT !.is = "error"] \in Outcomes
    BY <1>1 DEF Outcomes
  <1> QED
    BY <1>1, <1>2

\* The catch clauses of the loop, while there is an attempt left.
LEMMA NextAttemptTyped ==
  ASSUME TypeOK, NEW p \in Phones, tries[p] < MaxTries, NextAttempt(p)
  PROVE  /\ tries' \in [Phones -> 0..MaxTries]
         /\ cpc' \in [Phones -> PhoneSteps]
         /\ outcome' \in [Phones -> Outcomes]
  <1>1. tries \in [Phones -> 0..MaxTries] /\ tries[p] \in 0..MaxTries /\ MaxTries \in Nat
    BY UploadAssumption DEF TypeOK
  <1>2. tries[p] + 1 \in 0..MaxTries
    BY <1>1
  <1>3. tries' \in [Phones -> 0..MaxTries]
    BY <1>1, <1>2 DEF NextAttempt
  <1>4. cpc' \in [Phones -> PhoneSteps]
    BY DEF TypeOK, NextAttempt, PhoneSteps
  <1>5. outcome' = outcome \/ outcome' = [outcome EXCEPT ![p].is = "error"]
    BY DEF NextAttempt
  <1>6. outcome' \in [Phones -> Outcomes]
    BY <1>5, OutcomeTyped DEF TypeOK
  <1> QED
    BY <1>3, <1>4, <1>6

\* The ways in which a data connection changes.
LEMMA DataTyped ==
  ASSUME TypeOK, NEW p \in Phones, NEW st \in {"none", "up", "closed", "reset"},
         NEW buf \in Seq(Pieces)
  PROVE  /\ [data EXCEPT ![p] = [st |-> st, buf |-> buf]] \in [Phones -> Connections]
         /\ [data EXCEPT ![p].st = st] \in [Phones -> Connections]
         /\ [data EXCEPT ![p].buf = buf] \in [Phones -> Connections]
         /\ data[p].buf \in Seq(Pieces)
  <1>1. data \in [Phones -> Connections] /\ data[p] \in Connections
    BY DEF TypeOK
  <1>2. /\ [st |-> st, buf |-> buf] \in Connections
        /\ [data[p] EXCEPT !.st = st] \in Connections
        /\ [data[p] EXCEPT !.buf = buf] \in Connections
        /\ data[p].buf \in Seq(Pieces)
    BY <1>1 DEF Connections
  <1> QED
    BY <1>1, <1>2

\* Closing the listening socket keeps the data connection typed.
LEMMA StopListeningTyped ==
  ASSUME TypeOK, NEW p \in Phones, StopListening(p)
  PROVE  data' \in [Phones -> Connections]
  <1>1. <<>> \in Seq(Pieces)
    BY EmptySeq
  <1>2. \/ data' = [data EXCEPT ![p] = [st |-> "reset", buf |-> <<>>]]
        \/ data' = [data EXCEPT ![p] = data[p]]
    BY DEF StopListening
  <1>3. data \in [Phones -> Connections] /\ [data EXCEPT ![p] = data[p]] \in [Phones -> Connections]
    BY DEF TypeOK
  <1>4. [data EXCEPT ![p] = [st |-> "reset", buf |-> <<>>]] \in [Phones -> Connections]
    BY <1>1, DataTyped
  <1> QED
    BY <1>2, <1>3, <1>4

\* A step of the phone keeps every variable in its type.
LEMMA PhoneTyped ==
  ASSUME TypeOK, NEW p \in Phones, Phone(p), cpc[p] # "over" => tries[p] < MaxTries
  PROVE  TypeOK'
  <1>a. \A s \in PhoneSteps : [cpc EXCEPT ![p] = s] \in [Phones -> PhoneSteps]
    BY PutTyped DEF TypeOK
  <1>1. CASE SendPort(p)
    <2>1. tries[p] \in 0..MaxTries /\ tries[p] < MaxTries /\ MaxTries \in Nat
      BY <1>1, UploadAssumption DEF SendPort, TypeOK
    <2>2. Attempt(p) \in 1..MaxTries
      BY <2>1 DEF Attempt
    <2>3. <<"PORT", Attempt(p)>> \in Commands
      BY <2>2 DEF Commands
    <2>4. cmds' \in [Phones -> Seq(Commands)]
      BY <1>1, <2>3, SendTyped DEF SendPort
    <2>5. cpc' \in [Phones -> PhoneSteps]
      BY <1>1, <1>a DEF SendPort, PhoneSteps
    <2> QED
      BY <1>1, <2>4, <2>5 DEF SendPort, TypeOK, serverVars
  <1>2. CASE ReadPort(p)
    <2>1. <<"STOU", 0>> \in Commands
      BY DEF Commands
    <2>2. cmds' = cmds \/ Send(p, <<"STOU", 0>>)
      BY <1>2 DEF ReadPort
    <2>3. cmds' \in [Phones -> Seq(Commands)]
      BY <2>1, <2>2, SendTyped DEF TypeOK
    <2>4. cpc' \in [Phones -> PhoneSteps]
      BY <1>2, <1>a DEF ReadPort, PhoneSteps
    <2>5. replies' \in [Phones -> Seq(Replies)] /\ last' \in [Phones -> Replies]
      BY <1>2, GetReplyTyped DEF ReadPort
    <2> QED
      BY <1>2, <2>3, <2>4, <2>5 DEF ReadPort, TypeOK, serverVars
  <1>3. CASE ReadStou(p)
    <2>1. data' = data \/ StopListening(p)
      BY <1>3 DEF ReadStou
    <2>2. data' \in [Phones -> Connections]
      BY <2>1, StopListeningTyped DEF TypeOK
    <2>3. cpc' \in [Phones -> PhoneSteps]
      BY <1>3, <1>a DEF ReadStou, PhoneSteps
    <2>4. replies' \in [Phones -> Seq(Replies)] /\ last' \in [Phones -> Replies]
      BY <1>3, GetReplyTyped DEF ReadStou
    <2> QED
      BY <1>3, <2>2, <2>3, <2>4 DEF ReadStou, TypeOK, serverVars
  <1>4. CASE CopyPiece(p)
    <2>1. pos[p] \in 0..Chunks /\ pos[p] < Chunks /\ Chunks \in Nat /\ pos \in [Phones -> 0..Chunks]
      BY <1>4, UploadAssumption DEF CopyPiece, TypeOK
    <2>2. pos[p] + 1 \in 1..Chunks /\ pos[p] + 1 \in 0..Chunks
      BY <2>1
    <2>3. [by |-> p, at |-> pos[p] + 1] \in Pieces
      BY <2>2 DEF Pieces
    <2>4. Append(data[p].buf, [by |-> p, at |-> pos[p] + 1]) \in Seq(Pieces)
      BY <2>3, AppendProperties DEF TypeOK, Connections
    <2>5. data' \in [Phones -> Connections]
      BY <1>4, <2>4, DataTyped DEF CopyPiece
    <2>6. pos' \in [Phones -> 0..Chunks]
      BY <1>4, <2>1, <2>2 DEF CopyPiece
    <2> QED
      BY <1>4, <2>5, <2>6 DEF CopyPiece, TypeOK, serverVars
  <1>5. CASE CopyDone(p)
    <2>1. data' \in [Phones -> Connections]
      BY <1>5, DataTyped, EmptySeq DEF CopyDone
    <2>2. cpc' \in [Phones -> PhoneSteps]
      BY <1>5, <1>a DEF CopyDone, PhoneSteps
    <2> QED
      BY <1>5, <2>1, <2>2 DEF CopyDone, TypeOK, serverVars
  <1>6. CASE ReadAnswer(p)
    <2>1. cpc' \in [Phones -> PhoneSteps]
      BY <1>6, <1>a DEF ReadAnswer, PhoneSteps
    <2>2. replies' \in [Phones -> Seq(Replies)] /\ last' \in [Phones -> Replies]
      BY <1>6, GetReplyTyped DEF ReadAnswer
    <2> QED
      BY <1>6, <2>1, <2>2 DEF ReadAnswer, TypeOK, serverVars
  <1>7. CASE ControlThrows(p)
    <2>1. /\ tries' \in [Phones -> 0..MaxTries]
          /\ cpc' \in [Phones -> PhoneSteps]
          /\ outcome' \in [Phones -> Outcomes]
      BY <1>7, NextAttemptTyped DEF ControlThrows
    <2>2. data' \in [Phones -> Connections]
      BY <1>7, StopListeningTyped DEF ControlThrows
    <2> QED
      BY <1>7, <2>1, <2>2 DEF ControlThrows, TypeOK, serverVars
  <1>8. CASE Quit(p)
    <2>1. <<"QUIT", 0>> \in Commands
      BY DEF Commands
    <2>2. cmds' \in [Phones -> Seq(Commands)]
      BY <1>8, <2>1, SendTyped DEF Quit
    <2>3. cpc' \in [Phones -> PhoneSteps]
      BY <1>8, <1>a DEF Quit, PhoneSteps
    <2> QED
      BY <1>8, <2>2, <2>3 DEF Quit, TypeOK, serverVars
  <1>9. CASE Conclude(p)
    <2>1. replies' \in [Phones -> Seq(Replies)]
      BY <1>9, TailTyped DEF Conclude, TypeOK
    <2>2. last[p].of \in Seq(Pieces) /\ <<>> \in Seq(Pieces)
      BY EmptySeq DEF TypeOK, Replies
    <2>a. /\ [is |-> "reading", of |-> last[p].of] \in Outcomes
          /\ [is |-> "nothing", of |-> <<>>] \in Outcomes
      BY <2>2 DEF Outcomes
    <2>3. \/ outcome' = [outcome EXCEPT ![p] = [is |-> "reading", of |-> last[p].of]]
          \/ outcome' = [outcome EXCEPT ![p] = [is |-> "nothing", of |-> <<>>]]
      BY <1>9 DEF Conclude
    <2>4. outcome' \in [Phones -> Outcomes]
      BY <2>3, <2>a DEF TypeOK
    <2>5. cpc' \in [Phones -> PhoneSteps]
      BY <1>9, <1>a DEF Conclude, PhoneSteps
    <2>6. line' \in [Phones -> {"up", "lost"}]
      BY <1>9 DEF Conclude, TypeOK
    <2> QED
      BY <1>9, <2>1, <2>4, <2>5, <2>6 DEF Conclude, TypeOK, serverVars
  <1>10. CASE QuitThrows(p)
    <2>1. outcome' \in [Phones -> Outcomes]
      BY <1>10, OutcomeTyped DEF QuitThrows
    <2>2. cpc' \in [Phones -> PhoneSteps]
      BY <1>10, <1>a DEF QuitThrows, PhoneSteps
    <2> QED
      BY <1>10, <2>1, <2>2 DEF QuitThrows, TypeOK, serverVars
  <1> QED
    BY <1>1, <1>2, <1>3, <1>4, <1>5, <1>6, <1>7, <1>8, <1>9, <1>10 DEF Phone

\* So does a step of the server process, which names a file it has.
LEMMA ServerTyped ==
  ASSUME TypeOK, NEW p \in Phones, Server(p), Steps(p)
  PROVE  TypeOK'
  <1>a. /\ \A s \in ServerSteps : [spc EXCEPT ![p] = s] \in [Phones -> ServerSteps]
        /\ \A n \in 0..MaxTries : [ported EXCEPT ![p] = n] \in [Phones -> 0..MaxTries]
        /\ \A b \in BOOLEAN : [success EXCEPT ![p] = b] \in [Phones -> BOOLEAN]
    BY PutTyped DEF TypeOK
  <1>b. /\ {"cmd", "stat", "create", "connect", "recv", "analyse", "cleanup", "gone"} \subseteq ServerSteps
        /\ \A code \in {150, 200, 221, 421, 425, 426, 553} : Reply(code) \in Replies
    BY ReplyTyped DEF ServerSteps, Codes
  <1>c. ASSUME NEW verb, Command(p, verb)
        PROVE  /\ cmds' \in [Phones -> Seq(Commands)]
               /\ Head(cmds[p]) \in Commands
    BY <1>c, TailTyped DEF Command, TypeOK
  <1>d. 0 \in 0..MaxTries
    BY UploadAssumption
  <1>1. CASE HandlePort(p)
    <2>1. Head(cmds[p]) \in Commands /\ Head(cmds[p])[1] = "PORT" /\ cmds' \in [Phones -> Seq(Commands)]
      BY <1>1, <1>c DEF HandlePort, Command
    <2>2. Head(cmds[p])[2] \in 0..MaxTries
      BY <2>1, UploadAssumption DEF Commands
    <2>3. ported' \in [Phones -> 0..MaxTries]
      BY <1>1, <1>a, <2>2 DEF HandlePort
    <2>4. replies' \in [Phones -> Seq(Replies)] /\ spc' \in [Phones -> ServerSteps]
      BY <1>1, <1>b, WriteTyped DEF HandlePort
    <2> QED
      BY <1>1, <2>1, <2>3, <2>4 DEF HandlePort, Command, TypeOK, phoneVars
  <1>2. CASE HandleStou(p)
    <2>1. cmds' \in [Phones -> Seq(Commands)]
      BY <1>2, <1>c DEF HandleStou
    <2>2. spc' \in [Phones -> ServerSteps] /\ success' \in [Phones -> BOOLEAN]
      BY ZenonT(60), <1>2, <1>a, <1>b DEF HandleStou
    <2>3. name' \in [Phones -> 0..MaxNames]
      BY <1>2, UploadAssumption DEF HandleStou, TypeOK
    <2> QED
      BY <1>2, <2>1, <2>2, <2>3 DEF HandleStou, Command, TypeOK, phoneVars
  <1>3. CASE HandleQuit(p)
    <2>1. cmds' \in [Phones -> Seq(Commands)]
      BY <1>3, <1>c DEF HandleQuit
    <2>2. replies' \in [Phones -> Seq(Replies)] /\ spc' \in [Phones -> ServerSteps]
      BY <1>3, <1>b, WriteTyped DEF HandleQuit
    <2> QED
      BY <1>3, <2>1, <2>2 DEF HandleQuit, Command, TypeOK, phoneVars
  <1>4. CASE EndOfCommands(p)
    <2>1. spc' \in [Phones -> ServerSteps]
      BY <1>4, <1>a, <1>b DEF EndOfCommands
    <2> QED
      BY <1>4, <2>1 DEF EndOfCommands, TypeOK, phoneVars
  <1>5. CASE Stat(p)
    <2>0. spc \in [Phones -> ServerSteps] /\ [spc EXCEPT ![p] = "create"] \in [Phones -> ServerSteps]
      BY <1>a, <1>b DEF TypeOK
    <2>1. spc' \in [Phones -> ServerSteps]
      BY <1>5, <2>0 DEF Stat
    <2>a. name \in [Phones -> 0..MaxNames] /\ name[p] \in 0..MaxNames /\ MaxNames \in Nat
      BY UploadAssumption DEF TypeOK
    <2>b. name' = name \/ (name[p] < MaxNames /\ name' = [name EXCEPT ![p] = name[p] + 1])
      BY <1>5 DEF Stat
    <2>2. name' \in [Phones -> 0..MaxNames]
      BY <2>a, <2>b
    <2> QED
      BY <1>5, <2>1, <2>2 DEF Stat, TypeOK, phoneVars
  <1>6. CASE Create(p)
    <2>1. name[p] \in Names
      BY <1>6 DEF Create, Steps
    <2>a. \/ spc' = [spc EXCEPT ![p] = "connect"] /\ replies' = replies
          \/ Write(p, Reply(553), "cmd")
      BY <1>6 DEF Create
    <2>b. Write(p, Reply(553), "cmd") =>
             replies' \in [Phones -> Seq(Replies)] /\ spc' \in [Phones -> ServerSteps]
      BY <1>b, WriteTyped
    <2>2. replies' \in [Phones -> Seq(Replies)] /\ spc' \in [Phones -> ServerSteps]
      <3>1. /\ [spc EXCEPT ![p] = "connect"] \in [Phones -> ServerSteps]
            /\ replies \in [Phones -> Seq(Replies)]
        BY <1>a, <1>b DEF TypeOK
      <3> QED
        BY <2>a, <2>b, <3>1
    <2>3. content' = content \/ content' = [content EXCEPT ![name[p]] = <<>>]
      BY <1>6 DEF Create
    <2>c. content \in [Names -> Seq(Pieces)] /\ <<>> \in Seq(Pieces)
      BY EmptySeq DEF TypeOK
    <2>4. content' \in [Names -> Seq(Pieces)]
      BY <2>1, <2>3, <2>c
    <2>5. exists' \subseteq Names /\ failed' \subseteq Names
      BY <1>6, <2>1 DEF Create, TypeOK
    <2> QED
      BY <1>6, <2>2, <2>4, <2>5 DEF Create, TypeOK, phoneVars
  <1>7. CASE ConnectData(p)
    <2>1. name[p] \in Names
      BY <1>7 DEF ConnectData, Steps, Owner, TypeOK
    <2>2. replies' \in [Phones -> Seq(Replies)] /\ spc' \in [Phones -> ServerSteps]
      BY <1>7, <1>b, WriteTyped DEF ConnectData
    <2>3. data' = data \/ data' = [data EXCEPT ![p] = [st |-> "up", buf |-> <<>>]]
      BY <1>7 DEF ConnectData
    <2>4. [data EXCEPT ![p] = [st |-> "up", buf |-> <<>>]] \in [Phones -> Connections]
      BY DataTyped, EmptySeq
    <2>5. data' \in [Phones -> Connections] /\ failed' \subseteq Names
      BY <1>7, <2>1, <2>3, <2>4 DEF ConnectData, TypeOK
    <2> QED
      BY <1>7, <2>2, <2>5 DEF ConnectData, TypeOK, phoneVars
  <1>8. CASE Receive(p)
    <2>1. name[p] \in Names
      BY <1>8 DEF Receive, Steps, Owner, TypeOK
    <2>2. data[p].buf \in Seq(Pieces) /\ data[p].buf # <<>>
      BY <1>8 DEF Receive, TypeOK, Connections
    <2>3. Head(data[p].buf) \in Pieces /\ Tail(data[p].buf) \in Seq(Pieces)
      BY <2>2, HeadTailProperties
    <2>4. data' \in [Phones -> Connections]
      BY <1>8, <2>3, DataTyped DEF Receive
    <2>5. content' \in [Names -> Seq(Pieces)]
      BY <1>8, <2>1, <2>3, AppendTyped DEF Receive, TypeOK
    <2> QED
      BY <1>8, <2>4, <2>5 DEF Receive, TypeOK, phoneVars
  <1>9. CASE ReceiveEnd(p)
    <2>1. spc' \in [Phones -> ServerSteps] /\ success' \in [Phones -> BOOLEAN]
      BY ZenonT(60), <1>9, <1>a, <1>b DEF ReceiveEnd
    <2> QED
      BY <1>9, <2>1 DEF ReceiveEnd, TypeOK, phoneVars
  <1>10. CASE ReceiveFails(p)
    <2>1. name[p] \in Names
      BY <1>10 DEF ReceiveFails, Steps, Owner, TypeOK
    <2>2. replies' \in [Phones -> Seq(Replies)] /\ spc' \in [Phones -> ServerSteps]
      BY <1>10, <1>b, WriteTyped DEF ReceiveFails
    <2>3. failed' \subseteq Names
      BY <1>10, <2>1 DEF ReceiveFails, TypeOK
    <2> QED
      BY <1>10, <2>2, <2>3 DEF ReceiveFails, TypeOK, phoneVars
  <1>11. CASE TimedOut(p)
    <2>1. replies' \in [Phones -> Seq(Replies)] /\ spc' \in [Phones -> ServerSteps]
      BY <1>11, <1>b, WriteTyped DEF TimedOut
    <2> QED
      BY <1>11, <2>1 DEF TimedOut, TypeOK, phoneVars
  <1>12. CASE Analyse(p)
    <2>1. name[p] \in Names
      BY <1>12 DEF Analyse, Steps, Owner, TypeOK
    <2>a. content[name[p]] \in Seq(Pieces) /\ <<>> \in Seq(Pieces)
      BY <2>1, EmptySeq DEF TypeOK
    <2>4. \A found \in {<<>>, content[name[p]]} : [code |-> 226, of |-> found] \in Replies
      <3> SUFFICES ASSUME NEW found \in {<<>>, content[name[p]]}
                   PROVE  [code |-> 226, of |-> found] \in Replies
        OBVIOUS
      <3>1. found \in Seq(Pieces)
        BY ZenonT(60), <2>a
      <3> QED
        BY <3>1, AnswerTyped
    <2>5. replies' \in [Phones -> Seq(Replies)] /\ spc' \in [Phones -> ServerSteps]
      <3>1. CASE \E found \in {<<>>, content[name[p]]} :
                    Write(p, [code |-> 226, of |-> found], "cleanup")
        BY <1>b, <2>4, <3>1, WriteTyped
      <3>2. CASE spc' = [spc EXCEPT ![p] = "gone"] /\ UNCHANGED replies
        BY <3>2 DEF TypeOK, ServerSteps
      <3> QED
        BY <1>12, <3>1, <3>2 DEF Analyse
    <2> QED
      BY <1>12, <2>5 DEF Analyse, TypeOK, phoneVars
  <1>13. CASE Cleanup(p)
    <2>1. spc' \in [Phones -> ServerSteps] /\ ported' \in [Phones -> 0..MaxTries]
      BY <1>13, <1>a, <1>b, <1>d DEF Cleanup
    <2>2. exists' \subseteq Names
      BY <1>13 DEF Cleanup, TypeOK
    <2> QED
      BY <1>13, <2>1, <2>2 DEF Cleanup, TypeOK, phoneVars
  <1> QED
    BY <1>1, <1>2, <1>3, <1>4, <1>5, <1>6, <1>7, <1>8, <1>9, <1>10, <1>11, <1>12, <1>13
    DEF Server

\* So does a fault.
LEMMA FaultTyped ==
  ASSUME TypeOK, NEW p \in Phones, Fault(p), Steps(p), cpc[p] # "over" => tries[p] < MaxTries
  PROVE  TypeOK'
  <1>1. CASE CopyFails(p)
    <2>1. PICK taken \in pos[p]..Chunks : pos' = [pos EXCEPT ![p] = taken]
      BY <1>1 DEF CopyFails
    <2>2. pos[p] \in 0..Chunks /\ Chunks \in Nat /\ pos \in [Phones -> 0..Chunks]
      BY UploadAssumption DEF TypeOK
    <2>3. taken \in 0..Chunks
      BY <2>2
    <2>4. pos' \in [Phones -> 0..Chunks]
      BY <2>1, <2>2, <2>3
    <2>5. data[p].buf \in Seq(Pieces) /\ <<>> \in Seq(Pieces)
      BY EmptySeq DEF TypeOK, Connections
    <2>6. \/ data' = [data EXCEPT ![p] = [st |-> "reset", buf |-> <<>>]]
          \/ data' = [data EXCEPT ![p] = [st |-> "closed", buf |-> data[p].buf]]
      BY <1>1 DEF CopyFails
    <2>7. /\ [data EXCEPT ![p] = [st |-> "reset", buf |-> <<>>]] \in [Phones -> Connections]
          /\ [data EXCEPT ![p] = [st |-> "closed", buf |-> data[p].buf]] \in [Phones -> Connections]
      BY <2>5, DataTyped
    <2>8. data' \in [Phones -> Connections]
      BY <2>6, <2>7
    <2>9. /\ tries' \in [Phones -> 0..MaxTries]
          /\ cpc' \in [Phones -> PhoneSteps]
          /\ outcome' \in [Phones -> Outcomes]
      BY <1>1, NextAttemptTyped DEF CopyFails
    <2> QED
      BY <1>1, <2>4, <2>8, <2>9 DEF CopyFails, TypeOK, serverVars
  <1>2. CASE LineLost(p)
    <2>1. cmds' \in [Phones -> Seq(Commands)] /\ replies' \in [Phones -> Seq(Replies)]
      BY <1>2, EmptySeq DEF LineLost, TypeOK
    <2>2. line' \in [Phones -> {"up", "lost"}]
      BY <1>2 DEF LineLost, TypeOK
    <2> QED
      BY <1>2, <2>1, <2>2 DEF LineLost, TypeOK, phoneVars, serverVars
  <1>3. CASE DiskFull(p)
    <2>1. name[p] \in Names
      BY <1>3 DEF DiskFull, Steps, Owner, TypeOK
    <2>2. Reply(451) \in Replies /\ "cleanup" \in ServerSteps
      BY ReplyTyped DEF Codes, ServerSteps
    <2>3. replies' \in [Phones -> Seq(Replies)] /\ spc' \in [Phones -> ServerSteps]
      BY <1>3, <2>2, WriteTyped DEF DiskFull
    <2>4. data' \in [Phones -> Connections]
      BY <1>3, EmptySeq, DataTyped DEF DiskFull
    <2>5. failed' \subseteq Names
      BY <1>3, <2>1 DEF DiskFull, TypeOK
    <2> QED
      BY <1>3, <2>3, <2>4, <2>5 DEF DiskFull, TypeOK, phoneVars
  <1>4. CASE Stalled(p)
    <2>1. data' \in [Phones -> Connections]
      BY <1>4, EmptySeq, DataTyped DEF Stalled
    <2>2. spc' \in [Phones -> ServerSteps]
      BY <1>4 DEF Stalled, TypeOK, ServerSteps
    <2>3. ported' \in [Phones -> 0..MaxTries]
      BY <1>4, UploadAssumption DEF Stalled, TypeOK
    <2>4. exists' \subseteq Names
      BY <1>4 DEF Stalled, TypeOK
    <2>5. failed' \subseteq Names
      BY <1>4 DEF Stalled, Steps, Owner, TypeOK
    <2> QED
      BY <1>4, <2>1, <2>2, <2>3, <2>4, <2>5 DEF Stalled, TypeOK, phoneVars
  <1> QED
    BY <1>1, <1>2, <1>3, <1>4 DEF Fault

-----------------------------------------------------------------------------
Step(p) == Phone(p) \/ Server(p) \/ Fault(p)

\* A step of p's upload leaves the other uploads alone.
OthersKept(p) ==
    \A q \in Phones \ {p} :
        /\ cpc'[q] = cpc[q] /\ tries'[q] = tries[q] /\ pos'[q] = pos[q]
        /\ last'[q] = last[q] /\ outcome'[q] = outcome[q] /\ line'[q] = line[q]
        /\ cmds'[q] = cmds[q] /\ replies'[q] = replies[q] /\ data'[q] = data[q]
        /\ spc'[q] = spc[q] /\ name'[q] = name[q] /\ success'[q] = success[q]

\* Every step is a step of one upload, and its queues, sockets and process are
\* its own: only the directory is shared.
LEMMA Frame ==
  ASSUME TypeOK, NEW p \in Phones, Step(p)
  PROVE  OthersKept(p)
  <1>1. ASSUME NEW q \in Phones \ {p}
        PROVE  /\ cpc'[q] = cpc[q] /\ tries'[q] = tries[q] /\ pos'[q] = pos[q]
               /\ last'[q] = last[q] /\ outcome'[q] = outcome[q] /\ line'[q] = line[q]
               /\ cmds'[q] = cmds[q] /\ replies'[q] = replies[q] /\ data'[q] = data[q]
               /\ spc'[q] = spc[q] /\ name'[q] = name[q] /\ success'[q] = success[q]
    <2> USE <1>1 DEF TypeOK, phoneVars, serverVars, Send, GetReply, StopListening, NextAttempt, Write
    <2>1. CASE Phone(p)
      <3>1. CASE SendPort(p) \/ Quit(p) BY SMTT(30), <3>1 DEF SendPort, Quit
      <3>2. CASE ReadPort(p) BY SMTT(30), <3>2 DEF ReadPort
      <3>3. CASE ReadStou(p) BY SMTT(30), <3>3 DEF ReadStou
      <3>4. CASE CopyPiece(p) \/ CopyDone(p) BY SMTT(30), <3>4 DEF CopyPiece, CopyDone
      <3>5. CASE ReadAnswer(p) BY SMTT(30), <3>5 DEF ReadAnswer
      <3>6. CASE ControlThrows(p) BY SMTT(30), <3>6 DEF ControlThrows
      <3>7. CASE Conclude(p) BY SMTT(30), <3>7 DEF Conclude
      <3>8. CASE QuitThrows(p) BY SMTT(30), <3>8 DEF QuitThrows
      <3> QED BY <2>1, <3>1, <3>2, <3>3, <3>4, <3>5, <3>6, <3>7, <3>8 DEF Phone
    <2>2. CASE Server(p)
      <3>1. CASE HandlePort(p) BY SMTT(30), <3>1 DEF HandlePort, Command
      <3>2. CASE HandleStou(p) BY SMTT(30), <3>2 DEF HandleStou, Command
      <3>3. CASE HandleQuit(p) BY SMTT(30), <3>3 DEF HandleQuit, Command
      <3>4. CASE EndOfCommands(p) BY SMTT(30), <3>4 DEF EndOfCommands
      <3>5. CASE Stat(p) BY SMTT(30), <3>5 DEF Stat
      <3>6. CASE Create(p) BY SMTT(30), <3>6 DEF Create
      <3>7. CASE ConnectData(p) BY SMTT(30), <3>7 DEF ConnectData
      <3>8. CASE Receive(p) \/ ReceiveEnd(p) BY SMTT(30), <3>8 DEF Receive, ReceiveEnd
      <3>9. CASE ReceiveFails(p) BY SMTT(30), <3>9 DEF ReceiveFails
      <3>10. CASE TimedOut(p) BY SMTT(30), <3>10 DEF TimedOut
      <3>11. CASE Analyse(p) BY SMTT(30), <3>11 DEF Analyse
      <3>12. CASE Cleanup(p) BY SMTT(30), <3>12 DEF Cleanup
      <3> QED BY <2>2, <3>1, <3>2, <3>3, <3>4, <3>5, <3>6, <3>7, <3>8, <3>9, <3>10, <3>11, <3>12
              DEF Server
    <2>3. CASE Fault(p)
      <3>1. CASE CopyFails(p) BY SMTT(30), <3>1 DEF CopyFails
      <3>2. CASE LineLost(p) BY SMTT(30), <3>2 DEF LineLost
      <3>3. CASE DiskFull(p) BY SMTT(30), <3>3 DEF DiskFull
      <3>4. CASE Stalled(p) BY SMTT(30), <3>4 DEF Stalled
      <3> QED BY <2>3, <3>1, <3>2, <3>3, <3>4 DEF Fault
    <2> QED BY <2>1, <2>2, <2>3 DEF Step
  <1> QED BY <1>1 DEF OthersKept

-----------------------------------------------------------------------------
\* Append, by length and index.
LEMMA AppendAt ==
  ASSUME NEW S, NEW s \in Seq(S), NEW e \in S
  PROVE  /\ Len(Append(s, e)) = Len(s) + 1 /\ Append(s, e)[Len(s) + 1] = e
         /\ \A i \in 1..Len(s) : Append(s, e)[i] = s[i]
         /\ Len(s) \in Nat
  BY AppendProperties, LenProperties

\* Head and Tail, by length and index.
LEMMA TailAt ==
  ASSUME NEW S, NEW s \in Seq(S), s # <<>>
  PROVE  /\ Len(s) \in Nat /\ Len(s) >= 1
         /\ Head(s) = s[1]
         /\ Len(Tail(s)) = Len(s) - 1
         /\ \A i \in 1..(Len(s) - 1) : Tail(s)[i] = s[i + 1]
  BY HeadTailProperties, LenProperties, EmptySeq

\* What Send does to the commands in flight.
LEMMA SendEffect ==
  ASSUME TypeOK, NEW p \in Phones, NEW cmd \in Commands, Send(p, cmd)
  PROVE  /\ Len(cmds'[p]) = Len(cmds[p]) + 1 /\ cmds'[p][Len(cmds[p]) + 1] = cmd
         /\ \A i \in 1..Len(cmds[p]) : cmds'[p][i] = cmds[p][i]
         /\ Len(cmds[p]) \in Nat
  <1>1. cmds[p] \in Seq(Commands) /\ cmds'[p] = Append(cmds[p], cmd)
    BY DEF TypeOK, Send
  <1> QED
    BY <1>1, AppendAt

\* What the command loop does to them.
LEMMA CommandEffect ==
  ASSUME TypeOK, NEW p \in Phones, NEW verb, Command(p, verb)
  PROVE  /\ Len(cmds[p]) \in Nat /\ Len(cmds[p]) >= 1 /\ cmds[p][1][1] = verb
         /\ Len(cmds'[p]) = Len(cmds[p]) - 1
         /\ \A i \in 1..(Len(cmds[p]) - 1) : cmds'[p][i] = cmds[p][i + 1]
         /\ spc[p] = "cmd"
  <1>1. cmds[p] \in Seq(Commands) /\ cmds[p] # <<>> /\ cmds'[p] = Tail(cmds[p])
        /\ Head(cmds[p])[1] = verb /\ spc[p] = "cmd"
    BY DEF TypeOK, Command
  <1> QED
    BY <1>1, TailAt

\* What is left of the replies when one has been read.
ReadOff(p) ==
    /\ Len(replies[p]) \in Nat /\ Len(replies[p]) >= 1
    /\ Len(replies'[p]) = Len(replies[p]) - 1
    /\ \A i \in 1..(Len(replies[p]) - 1) : replies'[p][i] = replies[p][i + 1]

\* What reading a reply does to the queue and to getReplyString.
LEMMA GetReplyEffect ==
  ASSUME TypeOK, NEW p \in Phones, GetReply(p)
  PROVE  ReadOff(p) /\ last'[p] = replies[p][1]
  <1>1. replies[p] \in Seq(Replies) /\ replies[p] # <<>> /\ replies'[p] = Tail(replies[p])
        /\ last'[p] = Head(replies[p])
    BY DEF TypeOK, GetReply
  <1> QED
    BY <1>1, TailAt DEF ReadOff

\* What vsf_cmdio_write does to the replies and to the process.
Written(p, reply, next) ==
    \/ /\ line[p] = "up"
       /\ Len(replies'[p]) = Len(replies[p]) + 1
       /\ replies'[p][Len(replies[p]) + 1] = reply
       /\ \A i \in 1..Len(replies[p]) : replies'[p][i] = replies[p][i]
       /\ spc'[p] = next
    \/ /\ line[p] = "lost"
       /\ replies'[p] = replies[p]
       /\ spc'[p] \in {next, "gone"}

\* The two outcomes of vsf_cmdio_write.
LEMMA WriteEffect ==
  ASSUME TypeOK, NEW p \in Phones, NEW reply \in Replies, NEW next \in ServerSteps,
         Write(p, reply, next)
  PROVE  Written(p, reply, next) /\ Len(replies[p]) \in Nat
  <1>1. replies[p] \in Seq(Replies)
    BY DEF TypeOK
  <1>2. CASE line[p] = "up"
    <2>1. replies'[p] = Append(replies[p], reply) /\ spc'[p] = next
      BY <1>2 DEF Write, TypeOK
    <2> QED
      BY <1>1, <1>2, <2>1, AppendAt DEF Written
  <1>3. CASE line[p] # "up"
    <2>1. line[p] = "lost" /\ replies' = replies
      BY <1>3 DEF Write
    <2>2. PICK s \in {next, "gone"} : spc' = [spc EXCEPT ![p] = s]
      BY <1>3 DEF Write
    <2>3. spc'[p] = s
      BY <2>2 DEF TypeOK
    <2> QED
      BY <1>1, <2>1, <2>3, LenProperties DEF Written
  <1> QED
    BY <1>2, <1>3

-----------------------------------------------------------------------------
\* A step of one upload leaves the dialogue of another as it was.
LEMMA DialogueOfOthers ==
  ASSUME TypeOK, NEW p \in Phones, Step(p), NEW q \in Phones \ {p}, Dialogue(q)
  PROVE  Dialogue(q)'
  <1>1. /\ cpc'[q] = cpc[q] /\ tries'[q] = tries[q] /\ last'[q] = last[q]
        /\ outcome'[q] = outcome[q] /\ line'[q] = line[q]
        /\ cmds'[q] = cmds[q] /\ replies'[q] = replies[q]
        /\ spc'[q] = spc[q] /\ success'[q] = success[q]
    BY Frame DEF OthersKept
  <1> QED
    BY <1>1 DEF Dialogue, First, Later, Transfer, NoCmd, OneCmd

\* The facts about lengths and counters that the steps below need.
LEMMA QueueLens ==
  ASSUME TypeOK, NEW p \in Phones
  PROVE  /\ Len(cmds[p]) \in Nat /\ Len(replies[p]) \in Nat
         /\ (cmds[p] = <<>>) <=> (Len(cmds[p]) = 0)
         /\ (replies[p] = <<>>) <=> (Len(replies[p]) = 0)
         /\ tries[p] \in Nat /\ MaxTries \in Nat
         /\ line[p] \in {"up", "lost"}
  BY LenProperties, EmptySeq, UploadAssumption DEF TypeOK

\* The phone keeps to the dialogue, one attempt after the other.
LEMMA PhoneDialogue ==
  ASSUME TypeOK, NEW p \in Phones, Phone(p), Dialogue(p)
  PROVE  Dialogue(p)'
  <1> USE QueueLens
  <1>t. cpc[p] \in PhoneSteps
    BY DEF TypeOK
  <1>1. CASE SendPort(p)
    <2>1. /\ cpc[p] = "send" /\ line[p] = "up" /\ spc[p] # "gone"
          /\ cpc'[p] = "port" /\ UNCHANGED <<tries, last, outcome, replies, line, spc, success>>
      BY <1>1 DEF SendPort, TypeOK, serverVars
    <2>2. tries[p] \in 0..MaxTries /\ tries[p] < MaxTries
      BY <2>1 DEF TypeOK, Dialogue
    <2>3. <<"PORT", Attempt(p)>> \in Commands
      BY <2>2 DEF Commands, Attempt
    <2>4. /\ Len(cmds'[p]) = Len(cmds[p]) + 1 /\ cmds'[p][Len(cmds[p]) + 1][1] = "PORT"
      BY <1>1, <2>3, SendEffect DEF SendPort
    <2>5. CASE tries[p] = 0
      <3>1. NoCmd(p) /\ Len(replies[p]) = 0 /\ spc[p] = "cmd"
        BY <2>1, <2>5 DEF Dialogue, First
      <3> QED
        BY <2>1, <2>4, <2>5, <3>1 DEF Dialogue, First, NoCmd, OneCmd
    <2>6. CASE tries[p] > 0
      <3>1. NoCmd(p) /\ Transfer(p, 0)
        BY <2>1, <2>6 DEF Dialogue, Later
      <3>2. OneCmd(p, "PORT")'
        BY <2>4, <3>1 DEF NoCmd, OneCmd
      <3>3. Transfer(p, 0)'
        BY <2>1, <3>1 DEF Transfer
      <3> QED
        BY <2>1, <2>6, <3>2, <3>3 DEF Dialogue, Later
    <2> QED
      BY <2>5, <2>6
  <1>2. CASE ReadPort(p)
    <2>1. /\ cpc[p] = "port" /\ UNCHANGED <<tries, outcome, line, spc, success>>
          /\ ReadOff(p) /\ last'[p] = replies[p][1] /\ replies[p][1].code # 421
      BY <1>2, GetReplyEffect DEF ReadPort, serverVars
    <2>2. line[p] = "up"
      BY <2>1 DEF Dialogue, ReadOff
    <2>3. <<"STOU", 0>> \in Commands
      BY DEF Commands
    <2>a. Send(p, <<"STOU", 0>>) =>
             /\ Len(cmds'[p]) = Len(cmds[p]) + 1 /\ cmds'[p][Len(cmds[p]) + 1][1] = "STOU"
             /\ \A i \in 1..Len(cmds[p]) : cmds'[p][i] = cmds[p][i]
      BY <2>3, SendEffect
    <2>b. \/ replies[p][1].code \in 200..299 /\ Send(p, <<"STOU", 0>>) /\ cpc'[p] = "stou"
          \/ replies[p][1].code \notin 200..299 /\ cpc'[p] = "end" /\ cmds' = cmds
      <3>1. last'[p].code = replies[p][1].code
        BY <2>1
      <3>2. \A s : cpc' = [cpc EXCEPT ![p] = s] => cpc'[p] = s
        BY DEF TypeOK
      <3>3. \/ /\ last'[p].code \in 200..299 /\ Send(p, <<"STOU", 0>>)
               /\ cpc' = [cpc EXCEPT ![p] = "stou"]
            \/ /\ last'[p].code \notin 200..299 /\ cmds' = cmds
               /\ cpc' = [cpc EXCEPT ![p] = "end"]
        BY <1>2 DEF ReadPort
      <3> HIDE DEF Send
      <3> QED
        BY ZenonT(60), <3>1, <3>2, <3>3
    <2>4. \/ /\ replies[p][1].code \in 200..299 /\ cpc'[p] = "stou"
             /\ Len(cmds'[p]) = Len(cmds[p]) + 1 /\ cmds'[p][Len(cmds[p]) + 1][1] = "STOU"
             /\ \A i \in 1..Len(cmds[p]) : cmds'[p][i] = cmds[p][i]
          \/ replies[p][1].code \notin 200..299 /\ cpc'[p] = "end" /\ cmds' = cmds
      BY <2>a, <2>b
    <2>5. CASE tries[p] = 0
      <3>1. First(p)
        BY <2>1, <2>2, <2>5 DEF Dialogue
      <3>2. spc[p] = "cmd" /\ NoCmd(p) /\ Len(replies[p]) = 1 /\ replies[p][1].code = 200
        BY <2>1, <3>1 DEF First, ReadOff
      <3>3. First(p)'
        BY <2>1, <2>4, <3>2 DEF First, ReadOff, NoCmd, OneCmd
      <3> QED
        BY <2>1, <2>2, <2>5, <3>2, <3>3 DEF Dialogue, ReadOff
    <2>6. CASE tries[p] > 0
      <3>1. Later(p)
        BY <2>1, <2>2, <2>6 DEF Dialogue
      <3>2. \/ /\ OneCmd(p, "PORT") /\ Len(replies[p]) = 1 /\ replies[p][1].code \in Final
               /\ spc[p] \in {"cleanup", "cmd"}
            \/ /\ NoCmd(p) /\ Len(replies[p]) = 2 /\ spc[p] = "cmd"
               /\ replies[p][1].code \in Final /\ replies[p][2].code = 200
        BY <2>1, <3>1 DEF Later, Transfer, ReadOff
      <3>3. CASE cpc'[p] = "end"
        <4>1. last'[p].code # 226
          BY <2>1, <2>4, <3>3
        <4> QED
          BY <2>1, <2>2, <2>6, <3>3, <4>1 DEF Dialogue, Later
      <3>4. CASE cpc'[p] = "stou"
        <4>1. \/ /\ Len(replies'[p]) = 0 /\ spc'[p] \in {"cleanup", "cmd"}
                 /\ Len(cmds'[p]) = 2 /\ cmds'[p][1][1] = "PORT"
              \/ Len(replies'[p]) = 1 /\ replies'[p][1].code = 200
          <5>1. CASE /\ OneCmd(p, "PORT") /\ Len(replies[p]) = 1
                     /\ spc[p] \in {"cleanup", "cmd"}
            <6>1. 1 \in 1..Len(cmds[p]) /\ Len(cmds[p]) = 1 /\ cmds[p][1][1] = "PORT"
              BY <5>1 DEF OneCmd
            <6>2. Len(cmds'[p]) = 2 /\ cmds'[p][1] = cmds[p][1]
              BY <2>4, <3>4, <6>1
            <6> QED
              BY <2>1, <5>1, <6>1, <6>2 DEF ReadOff
          <5>2. CASE Len(replies[p]) = 2 /\ replies[p][2].code = 200
            BY <2>1, <5>2 DEF ReadOff
          <5> QED
            BY <3>2, <5>1, <5>2
        <4>2. Later(p)'
          BY <3>4, <4>1 DEF Later
        <4> QED
          BY <2>1, <2>2, <2>6, <3>4, <4>2 DEF Dialogue
      <3> QED
        BY <2>4, <3>3, <3>4
    <2> QED
      BY <2>5, <2>6
  <1>3. CASE ReadStou(p)
    <2>1. /\ cpc[p] = "stou" /\ UNCHANGED <<tries, outcome, cmds, line, spc, success>>
          /\ ReadOff(p) /\ last'[p] = replies[p][1] /\ replies[p][1].code # 421
          /\ \/ replies[p][1].code = 150 /\ cpc'[p] = "copy"
             \/ replies[p][1].code # 150 /\ cpc'[p] = "end"
      BY SMTT(30), <1>3, GetReplyEffect DEF ReadStou, serverVars, TypeOK
    <2>2. line[p] = "up"
      BY <2>1 DEF Dialogue, ReadOff
    <2>3. CASE tries[p] = 0
      <3>1. First(p)
        BY <2>1, <2>2, <2>3 DEF Dialogue
      <3>2. \/ /\ spc[p] \in {"cleanup", "cmd"} /\ NoCmd(p)
               /\ Len(replies[p]) = 1 /\ replies[p][1].code \in {425, 553}
            \/ NoCmd(p) /\ replies[p][1].code = 150 /\ Transfer(p, 1)
        BY <2>1, <3>1 DEF First, ReadOff
      <3>3. Transfer(p, 1) => Transfer(p, 0)'
        <4>1. Len(replies[p]) = 2 => Len(replies'[p]) = 1 /\ replies'[p][1] = replies[p][2]
          BY <2>1 DEF ReadOff
        <4> QED
          BY <2>1, <4>1 DEF Transfer, ReadOff
      <3>4. First(p)'
        BY <2>1, <3>2, <3>3 DEF First, ReadOff, NoCmd
      <3> QED
        BY <2>1, <2>2, <2>3, <3>4 DEF Dialogue
    <2>4. CASE tries[p] > 0
      <3>1. replies[p][1].code = 200
        BY <2>1, <2>2, <2>4 DEF Dialogue, Later, ReadOff
      <3> QED
        BY <2>1, <2>2, <2>4, <3>1 DEF Dialogue, Later
    <2> QED
      BY <2>3, <2>4
  <1>4. CASE CopyPiece(p)
    <2>1. UNCHANGED <<cpc, tries, last, outcome, cmds, replies, line, spc, success>>
      BY <1>4 DEF CopyPiece, serverVars
    <2> QED
      BY <2>1 DEF Dialogue, First, Later, Transfer, NoCmd, OneCmd
  <1>5. CASE CopyDone(p)
    <2>1. cpc[p] = "copy" /\ cpc'[p] = "answer" /\ UNCHANGED <<tries, last, outcome, cmds, replies, line, spc, success>>
      BY <1>5 DEF CopyDone, serverVars, TypeOK
    <2>2. tries[p] = 0
      BY <2>1 DEF Dialogue
    <2>3. Transfer(p, 0) => Transfer(p, 0)'
      BY <2>1 DEF Transfer
    <2>4. First(p) => First(p)'
      BY <2>1, <2>3 DEF First, NoCmd
    <2> QED
      BY <2>1, <2>2, <2>4 DEF Dialogue
  <1>6. CASE ReadAnswer(p)
    <2>1. /\ cpc[p] = "answer" /\ cpc'[p] = "end" /\ UNCHANGED <<tries, outcome, cmds, line, spc, success>>
          /\ ReadOff(p) /\ last'[p] = replies[p][1] /\ replies[p][1].code # 421
      BY SMTT(30), <1>6, GetReplyEffect DEF ReadAnswer, serverVars, TypeOK
    <2>2. line[p] = "up" /\ tries[p] = 0
      BY <2>1 DEF Dialogue, ReadOff
    <2>3. NoCmd(p) /\ Transfer(p, 0)
      BY <2>1, <2>2 DEF Dialogue, First
    <2>4. /\ spc[p] \in {"cleanup", "cmd"} /\ Len(replies[p]) = 1
          /\ replies[p][1].code = 226 => success[p]
      BY <2>1, <2>3 DEF Transfer, ReadOff
    <2> QED
      BY <2>1, <2>2, <2>3, <2>4 DEF Dialogue, First, NoCmd, ReadOff
  <1>7. CASE ControlThrows(p)
    <2>1. /\ cpc[p] \in {"send", "port", "stou", "answer"}
          /\ \/ Len(replies[p]) > 0 /\ replies[p][1].code = 421 /\ cpc[p] # "send"
             \/ (Len(replies[p]) = 0 \/ cpc[p] = "send") /\ (line[p] = "lost" \/ spc[p] = "gone")
          /\ UNCHANGED <<last, cmds, replies, line, spc, success>>
      BY <1>7, TailAt DEF ControlThrows, serverVars, TypeOK
    <2>2. /\ tries'[p] = tries[p] + 1
          /\ (cpc'[p] = "send" /\ tries[p] + 1 < MaxTries /\ outcome' = outcome) \/ cpc'[p] = "over"
      BY <1>7 DEF ControlThrows, NextAttempt, Attempt, TypeOK
    <2>3. CASE line[p] = "lost"
      BY <2>1, <2>2, <2>3 DEF Dialogue
    <2>4. CASE line[p] = "up" /\ cpc'[p] = "send"
      <3>1. spc[p] = "gone"
        <4>1. CASE tries[p] = 0
          <5>1. First(p)
            BY <2>1, <2>4, <4>1 DEF Dialogue
          <5> QED
            BY <2>1, <2>4, <5>1 DEF First, Transfer, Final
        <4>2. CASE tries[p] > 0
          <5>1. Later(p) /\ cpc[p] # "answer"
            BY <2>1, <2>4, <4>2 DEF Dialogue
          <5> QED
            BY <2>1, <2>4, <5>1 DEF Later, Transfer, Final
        <4> QED
          BY <4>1, <4>2
      <3>2. Later(p)'
        BY <2>1, <2>4, <3>1 DEF Later
      <3> QED
        BY <2>1, <2>2, <2>4, <3>2 DEF Dialogue
    <2>5. CASE cpc'[p] = "over"
      BY <2>5 DEF Dialogue
    <2> QED
      BY <2>2, <2>3, <2>4, <2>5
  <1>8. CASE Quit(p)
    <2>1. /\ cpc[p] = "end" /\ line[p] = "up" /\ spc[p] # "gone"
          /\ cpc'[p] = "quit" /\ UNCHANGED <<tries, last, outcome, replies, line, spc, success>>
      BY <1>8 DEF Quit, TypeOK, serverVars
    <2>2. <<"QUIT", 0>> \in Commands
      BY DEF Commands
    <2>3. Len(cmds'[p]) = Len(cmds[p]) + 1 /\ cmds'[p][Len(cmds[p]) + 1][1] = "QUIT"
      BY <1>8, <2>2, SendEffect DEF Quit
    <2>4. CASE tries[p] = 0
      <3>1. First(p)
        BY <2>1, <2>4 DEF Dialogue
      <3>2. First(p)'
        BY <2>1, <2>3, <3>1 DEF First, NoCmd, OneCmd
      <3> QED
        BY <2>1, <2>4, <3>2 DEF Dialogue
    <2>5. CASE tries[p] > 0
      BY <2>1, <2>5 DEF Dialogue, Later
    <2> QED
      BY <2>4, <2>5
  <1>9. CASE Conclude(p)
    BY <1>9 DEF Conclude, Dialogue, TypeOK
  <1>10. CASE QuitThrows(p)
    BY <1>10 DEF QuitThrows, Dialogue, TypeOK
  <1> QED
    BY <1>1, <1>2, <1>3, <1>4, <1>5, <1>6, <1>7, <1>8, <1>9, <1>10 DEF Phone

-----------------------------------------------------------------------------
\* A step of the server or a fault of its own does not touch the phone.
LEMMA DialogueByServer ==
  ASSUME TypeOK, NEW p \in Phones, Dialogue(p),
         UNCHANGED <<cpc, tries, last, outcome, line>>,
         line[p] = "lost" => replies'[p] = replies[p],
         (line[p] = "up" /\ First(p)) => First(p)',
         (line[p] = "up" /\ Later(p)) => Later(p)'
  PROVE  Dialogue(p)'
  BY QueueLens DEF Dialogue

\* The replies the server writes and where it goes on.
LEMMA ServerWrites ==
  /\ {"cmd", "recv", "cleanup", "gone"} \subseteq ServerSteps
  /\ \A code \in {150, 200, 221, 421, 425, 426, 451, 553} :
        Reply(code) \in Replies /\ Reply(code).code = code
  BY ReplyTyped DEF ServerSteps, Codes, Reply

\* The analysis is of a complete upload, and its 226 is a reply.
LEMMA AnalysisTyped ==
  ASSUME TypeOK, NEW p \in Phones, Steps(p), spc[p] = "analyse"
  PROVE  /\ success[p] /\ name[p] \in Names
         /\ \A found \in {<<>>, content[name[p]]} : [code |-> 226, of |-> found] \in Replies
  <1>1. name[p] \in Names /\ success[p]
    BY DEF Steps, Owner, TypeOK
  <1>2. content[name[p]] \in Seq(Pieces) /\ <<>> \in Seq(Pieces)
    BY <1>1, EmptySeq DEF TypeOK
  <1>3. ASSUME NEW found \in {<<>>, content[name[p]]}
        PROVE  [code |-> 226, of |-> found] \in Replies
    <2>1. found \in Seq(Pieces)
      BY ZenonT(60), <1>2
    <2> QED
      BY <2>1, AnswerTyped
  <1> QED
    BY <1>1, <1>3

\* The steps of a transfer, from the data connection to the clean-up.
Transferring(p) == \/ Receive(p) \/ ReceiveEnd(p) \/ ReceiveFails(p) \/ DiskFull(p)
                   \/ Stalled(p) \/ TimedOut(p) \/ Analyse(p) \/ Cleanup(p)

\* A transfer ends with one reply more, and the process in the clean-up or gone.
LEMMA TransferEnds ==
  ASSUME TypeOK, NEW p \in Phones, NEW k \in {0, 1}, Transfer(p, k), line[p] = "up",
         spc[p] \in {"recv", "analyse", "timedout"},
         NEW reply, NEW next, Written(p, reply, next), success' = success,
         \/ next = "cleanup" /\ reply.code \in Final /\ (reply.code = 226 => success[p])
         \/ next = "gone" /\ reply.code = 421
  PROVE  Transfer(p, k)' /\ \A i \in 1..k : replies'[p][i] = replies[p][i]
  <1>1. Len(replies[p]) = k
    BY DEF Transfer
  <1>2. /\ spc'[p] = next /\ Len(replies'[p]) = k + 1 /\ replies'[p][k + 1] = reply
        /\ \A i \in 1..k : replies'[p][i] = replies[p][i]
    BY <1>1 DEF Written
  <1> QED
    BY <1>2 DEF Transfer

\* The steps of a transfer lead through Transfer in order.
LEMMA TransferGoesOn ==
  ASSUME TypeOK, NEW p \in Phones, Steps(p), NEW k \in {0, 1}, Transfer(p, k), line[p] = "up",
         Transferring(p)
  PROVE  Transfer(p, k)' /\ cmds' = cmds /\ \A i \in 1..k : replies'[p][i] = replies[p][i]
  <1>1. CASE Receive(p)
    BY <1>1 DEF Receive, Transfer
  <1>2. CASE ReceiveEnd(p)
    BY <1>2 DEF ReceiveEnd, Transfer, TypeOK
  <1>3. CASE ReceiveFails(p)
    <2>1. Written(p, Reply(426), "cleanup") /\ Reply(426).code = 426
      BY <1>3, ServerWrites, WriteEffect DEF ReceiveFails
    <2> QED
      BY <1>3, <2>1, TransferEnds DEF ReceiveFails, Final
  <1>4. CASE DiskFull(p)
    <2>1. Written(p, Reply(451), "cleanup") /\ Reply(451).code = 451
      BY <1>4, ServerWrites, WriteEffect DEF DiskFull
    <2> QED
      BY <1>4, <2>1, TransferEnds DEF DiskFull, Final
  <1>5. CASE Stalled(p)
    BY <1>5 DEF Stalled, Transfer, TypeOK
  <1>6. CASE TimedOut(p)
    <2>1. Written(p, Reply(421), "gone") /\ Reply(421).code = 421
      BY <1>6, ServerWrites, WriteEffect DEF TimedOut
    <2> QED
      BY <1>6, <2>1, TransferEnds DEF TimedOut
  <1>7. CASE Analyse(p)
    <2>1. CASE \E found \in {<<>>, content[name[p]]} :
                  Write(p, [code |-> 226, of |-> found], "cleanup")
      <3>1. PICK found \in {<<>>, content[name[p]]} :
               Write(p, [code |-> 226, of |-> found], "cleanup")
        BY <2>1
      <3>2. success[p]
        BY <1>7, AnalysisTyped DEF Analyse
      <3>3. [code |-> 226, of |-> found] \in Replies
        BY <1>7, AnalysisTyped DEF Analyse
      <3>4. Written(p, [code |-> 226, of |-> found], "cleanup")
        BY <3>1, <3>3, ServerWrites, WriteEffect
      <3> QED
        BY <1>7, <3>2, <3>4, TransferEnds DEF Analyse, Final
    <2>2. CASE spc' = [spc EXCEPT ![p] = "gone"] /\ UNCHANGED replies
      <3>1. spc[p] = "analyse" /\ spc'[p] = "gone" /\ cmds' = cmds
        BY <1>7, <2>2 DEF Analyse, TypeOK
      <3>2. Len(replies[p]) = k
        BY <3>1 DEF Transfer
      <3> QED
        BY <2>2, <3>1, <3>2 DEF Transfer
    <2> QED
      BY <1>7, <2>1, <2>2 DEF Analyse
  <1>8. CASE Cleanup(p)
    BY <1>8 DEF Cleanup, Transfer, TypeOK
  <1> QED
    BY <1>1, <1>2, <1>3, <1>4, <1>5, <1>6, <1>7, <1>8 DEF Transferring

\* The server only adds to the replies, and says nothing on a lost line.
LEMMA RepliesGrow ==
  ASSUME TypeOK, NEW p \in Phones, Steps(p), Server(p) \/ DiskFull(p) \/ Stalled(p)
  PROVE  /\ UNCHANGED <<cpc, tries, pos, last, outcome, line>>
         /\ line[p] = "lost" => replies'[p] = replies[p]
         /\ Len(replies'[p]) >= Len(replies[p])
         /\ \A i \in 1..Len(replies[p]) : replies'[p][i] = replies[p][i]
  <1>1. UNCHANGED <<cpc, tries, pos, last, outcome, line>>
    BY DEF Server, HandlePort, HandleStou, HandleQuit, Command, EndOfCommands, Stat, Create,
           ConnectData, Receive, ReceiveEnd, ReceiveFails, TimedOut, Analyse, Cleanup, DiskFull,
           Stalled, phoneVars
  <1>2. \/ replies' = replies
        \/ \E reply \in Replies, next \in ServerSteps : Write(p, reply, next)
    <2>1. /\ {"cmd", "recv", "cleanup", "gone"} \subseteq ServerSteps
          /\ \A code \in {150, 200, 221, 421, 425, 426, 451, 553} : Reply(code) \in Replies
      BY ServerWrites
    <2>2. CASE Analyse(p)
      <3>1. \A found \in {<<>>, content[name[p]]} : [code |-> 226, of |-> found] \in Replies
        BY <2>2, AnalysisTyped DEF Analyse
      <3> QED
        BY <2>1, <2>2, <3>1 DEF Analyse
    <2>3. CASE ~ Analyse(p)
      BY <2>1, <2>3 DEF Server, HandlePort, HandleStou, HandleQuit, Command, EndOfCommands, Stat,
         Create, ConnectData, Receive, ReceiveEnd, ReceiveFails, TimedOut, Cleanup, DiskFull, Stalled
    <2> QED
      BY <2>2, <2>3
  <1>3. CASE replies' = replies
    BY <1>1, <1>3, QueueLens
  <1>4. CASE \E reply \in Replies, next \in ServerSteps : Write(p, reply, next)
    <2>1. PICK reply \in Replies, next \in ServerSteps : Write(p, reply, next)
      BY <1>4
    <2>2. Written(p, reply, next)
      BY <2>1, WriteEffect
    <2> QED
      BY <1>1, <2>2, QueueLens DEF Written
  <1> QED
    BY <1>2, <1>3, <1>4

\* Where the first attempt is in a transfer, and where a later one is.
LEMMA TransferDialogue ==
  ASSUME TypeOK, NEW p \in Phones, Steps(p), line[p] = "up", Transferring(p),
         UNCHANGED <<cpc, tries, last, line>>
  PROVE  (First(p) => First(p)') /\ (Later(p) => Later(p)')
  <1> USE QueueLens
  <1>1. spc[p] \in {"recv", "analyse", "timedout", "cleanup"}
    BY DEF Transferring, Receive, ReceiveEnd, ReceiveFails, DiskFull, Stalled, TimedOut, Analyse,
           Cleanup
  <1>5. Server(p) \/ DiskFull(p) \/ Stalled(p)
    BY DEF Transferring, Server
  <1>2. ASSUME spc[p] = "cleanup"
        PROVE  spc'[p] = "cmd" /\ UNCHANGED <<cmds, replies, success>>
    BY <1>2 DEF Transferring, Receive, ReceiveEnd, ReceiveFails, DiskFull, Stalled, TimedOut, Analyse,
           Cleanup, TypeOK
  <1>3. CASE spc[p] = "cleanup"
    BY <1>2, <1>3 DEF First, Later, NoCmd, OneCmd, Transfer
  <1>4. CASE spc[p] # "cleanup"
    <2>1. ASSUME First(p) PROVE First(p)'
      <3>1. \/ /\ cpc[p] = "stou" /\ NoCmd(p)
               /\ Len(replies[p]) >= 1 /\ replies[p][1].code = 150 /\ Transfer(p, 1)
            \/ cpc[p] \in {"copy", "answer"} /\ NoCmd(p) /\ Transfer(p, 0)
        BY <1>1, <1>4, <2>1 DEF First
      <3>2. CASE cpc[p] = "stou"
        <4>1. Transfer(p, 1)' /\ cmds' = cmds /\ replies'[p][1] = replies[p][1]
          BY <3>1, <3>2, TransferGoesOn
        <4>2. Len(replies'[p]) >= 1
          BY <4>1 DEF Transfer
        <4> QED
          BY <3>1, <3>2, <4>1, <4>2 DEF First, NoCmd
      <3>3. CASE cpc[p] # "stou"
        <4>1. Transfer(p, 0)' /\ cmds' = cmds
          BY <3>1, <3>3, TransferGoesOn
        <4> QED
          BY <3>1, <3>3, <4>1 DEF First, NoCmd
      <3> QED
        BY <3>2, <3>3
    <2>2. ASSUME Later(p) PROVE Later(p)'
      <3>1. CASE cpc[p] \in {"send", "port"}
        <4>1. Transfer(p, 0)
          BY <1>1, <1>4, <2>2, <3>1 DEF Later
        <4>2. Transfer(p, 0)' /\ cmds' = cmds
          BY <4>1, TransferGoesOn
        <4> QED
          BY <1>1, <1>4, <2>2, <3>1, <4>2 DEF Later, NoCmd, OneCmd
      <3>2. CASE cpc[p] \in {"end", "quit"}
        BY <3>2 DEF Later
      <3>3. CASE cpc[p] = "stou"
        <4>1. Len(replies[p]) >= 1 /\ replies[p][1].code = 200
          BY <1>1, <1>4, <2>2, <3>3 DEF Later
        <4>2. Len(replies'[p]) >= 1 /\ replies'[p][1] = replies[p][1]
          BY <4>1, RepliesGrow, <1>5
        <4> QED
          BY <3>3, <4>1, <4>2 DEF Later
      <3> QED
        BY <2>2, <3>1, <3>2, <3>3 DEF Later
    <2> QED
      BY <2>1, <2>2
  <1> QED
    BY <1>3, <1>4

\* The server process keeps to the dialogue.
LEMMA ServerDialogue ==
  ASSUME TypeOK, NEW p \in Phones, Server(p), Dialogue(p), Steps(p)
  PROVE  Dialogue(p)'
  <1> USE QueueLens
  <1>a. /\ UNCHANGED <<cpc, tries, last, outcome, line>>
        /\ line[p] = "lost" => replies'[p] = replies[p]
        /\ Len(replies'[p]) >= Len(replies[p])
        /\ \A i \in 1..Len(replies[p]) : replies'[p][i] = replies[p][i]
    BY RepliesGrow
  <1>c. ASSUME line[p] = "up", First(p)
        PROVE  First(p)'
    <2> USE <1>a, <1>c
    <2>1. CASE HandlePort(p)
      <3>1. Written(p, Reply(200), "cmd") /\ success' = success
        BY <2>1, ServerWrites, WriteEffect DEF HandlePort
      <3>2. OneCmd(p, "PORT") /\ NoCmd(p)' /\ spc[p] = "cmd"
        BY <2>1, CommandEffect DEF HandlePort, First, Transfer, NoCmd, OneCmd
      <3>3. cpc[p] = "port" /\ Len(replies[p]) = 0
        BY <3>2 DEF First, NoCmd, OneCmd
      <3>4. Len(replies'[p]) = 1 /\ replies'[p][1].code = 200 /\ spc'[p] = "cmd"
        BY <3>1, <3>3, ServerWrites DEF Written
      <3> QED
        BY <3>2, <3>3, <3>4 DEF First
    <2>2. CASE HandleStou(p)
      <3>a. spc'[p] = "stat" /\ replies' = replies
        BY <2>2 DEF HandleStou, TypeOK
      <3>1. spc[p] = "cmd" /\ OneCmd(p, "STOU") /\ NoCmd(p)'
        BY <2>2, CommandEffect DEF HandleStou, First, Transfer, NoCmd, OneCmd
      <3>2. cpc[p] = "stou" /\ Len(replies[p]) = 0
        BY <3>1 DEF First, NoCmd, OneCmd
      <3> QED
        BY <3>a, <3>1, <3>2 DEF First
    <2>3. CASE HandleQuit(p)
      <3>1. Written(p, Reply(221), "gone") /\ success' = success
        BY <2>3, ServerWrites, WriteEffect DEF HandleQuit
      <3>2. OneCmd(p, "QUIT") /\ NoCmd(p)' /\ spc[p] = "cmd"
        BY <2>3, CommandEffect DEF HandleQuit, First, Transfer, NoCmd, OneCmd
      <3>3. cpc[p] = "quit" /\ Len(replies[p]) = 0 /\ (last[p].code = 226 => success[p])
        BY <3>2 DEF First, NoCmd, OneCmd
      <3> QED
        BY <3>1, <3>2, <3>3 DEF First, Written
    <2>4. CASE EndOfCommands(p)
      BY <2>4 DEF EndOfCommands
    <2>5. CASE Stat(p)
      <3>1. spc[p] = "stat" /\ spc'[p] \in {"stat", "create"} /\ UNCHANGED <<cmds, replies>>
        BY <2>5 DEF Stat, TypeOK
      <3>2. cpc[p] = "stou" /\ NoCmd(p) /\ Len(replies[p]) = 0
        BY <3>1 DEF First, Transfer
      <3> QED
        BY <3>1, <3>2 DEF First, NoCmd
    <2>6. CASE Create(p)
      <3>1. cpc[p] = "stou" /\ NoCmd(p) /\ Len(replies[p]) = 0 /\ UNCHANGED <<cmds>>
        BY <2>6 DEF Create, First, Transfer
      <3>2. \/ spc'[p] = "connect" /\ replies' = replies
            \/ Write(p, Reply(553), "cmd")
        BY <2>6 DEF Create, TypeOK
      <3>3. Write(p, Reply(553), "cmd") => Written(p, Reply(553), "cmd")
        BY ServerWrites, WriteEffect
      <3> QED
        BY <3>1, <3>2, <3>3, ServerWrites DEF First, NoCmd, Written
    <2>7. CASE ConnectData(p)
      <3>1. cpc[p] = "stou" /\ NoCmd(p) /\ Len(replies[p]) = 0 /\ UNCHANGED <<cmds>>
        BY <2>7 DEF ConnectData, First, Transfer
      <3>2. Written(p, Reply(150), "recv") \/ Written(p, Reply(425), "cleanup")
        BY <2>7, ServerWrites, WriteEffect DEF ConnectData
      <3> QED
        BY <3>1, <3>2, ServerWrites DEF First, NoCmd, Written, Transfer
    <2>8. CASE Transferring(p)
      BY <2>8, TransferDialogue
    <2> QED
      BY <2>1, <2>2, <2>3, <2>4, <2>5, <2>6, <2>7, <2>8 DEF Server, Transferring
  <1>d. ASSUME line[p] = "up", Later(p)
        PROVE  Later(p)'
    <2> USE <1>a, <1>d
    <2>1. CASE Transferring(p)
      BY <2>1, TransferDialogue
    <2>2. CASE cpc[p] \in {"end", "quit"}
      BY <2>2 DEF Later
    <2>3. CASE cpc[p] = "stou" /\ Len(replies[p]) >= 1 /\ replies[p][1].code = 200
      <3>1. Len(replies'[p]) >= 1 /\ replies'[p][1] = replies[p][1]
        BY <2>3
      <3> QED
        BY <2>3, <3>1 DEF Later
    <2>4. CASE HandlePort(p) /\ cpc[p] \in {"send", "port"}
      <3>1. Written(p, Reply(200), "cmd") /\ success' = success
        BY <2>4, ServerWrites, WriteEffect DEF HandlePort
      <3>2. spc[p] = "cmd" /\ Len(cmds[p]) >= 1 /\ Len(cmds'[p]) = Len(cmds[p]) - 1
        BY <2>4, CommandEffect DEF HandlePort
      <3>3. /\ cpc[p] = "port" /\ Len(cmds[p]) = 1
            /\ Len(replies[p]) = 1 /\ replies[p][1].code \in Final
        BY <2>4, <3>2 DEF Later, Transfer, NoCmd, OneCmd
      <3>4. /\ Len(replies'[p]) = 2 /\ replies'[p][2].code = 200 /\ spc'[p] = "cmd"
            /\ replies'[p][1] = replies[p][1]
        BY <3>1, <3>3, ServerWrites DEF Written
      <3> QED
        BY <3>2, <3>3, <3>4 DEF Later, NoCmd
    <2>5. CASE HandlePort(p) /\ cpc[p] = "stou" /\ Len(replies[p]) = 0
      <3>1. Written(p, Reply(200), "cmd")
        BY <2>5, ServerWrites, WriteEffect DEF HandlePort
      <3>2. Len(replies'[p]) = 1 /\ replies'[p][1].code = 200
        BY <2>5, <3>1, ServerWrites DEF Written
      <3> QED
        BY <2>5, <3>2 DEF Later
    <2>6. CASE HandleStou(p) \/ HandleQuit(p)
      <3>1. /\ spc[p] = "cmd" /\ Len(cmds[p]) >= 1
            /\ cmds[p][1][1] = "STOU" \/ cmds[p][1][1] = "QUIT"
        BY <2>6, CommandEffect DEF HandleStou, HandleQuit
      <3>2. \/ cpc[p] \in {"end", "quit"}
            \/ cpc[p] = "stou" /\ Len(replies[p]) >= 1 /\ replies[p][1].code = 200
        BY <3>1 DEF Later, Transfer, NoCmd, OneCmd
      <3> QED
        BY <2>2, <2>3, <3>2
    <2>7. CASE EndOfCommands(p)
      BY <2>7 DEF EndOfCommands
    <2>8. CASE Stat(p) \/ Create(p) \/ ConnectData(p)
      <3>1. spc[p] \in {"stat", "create", "connect"}
        BY <2>8 DEF Stat, Create, ConnectData
      <3>2. \/ cpc[p] \in {"end", "quit"}
            \/ cpc[p] = "stou" /\ Len(replies[p]) >= 1 /\ replies[p][1].code = 200
        BY <3>1 DEF Later, Transfer
      <3> QED
        BY <2>2, <2>3, <3>2
    <2>9. \/ cpc[p] \in {"end", "quit", "send", "port"}
          \/ cpc[p] = "stou" /\ Len(replies[p]) >= 1 /\ replies[p][1].code = 200
          \/ cpc[p] = "stou" /\ Len(replies[p]) = 0
      BY DEF Later
    <2> QED
      BY <2>1, <2>2, <2>3, <2>4, <2>5, <2>6, <2>7, <2>8, <2>9 DEF Server, Transferring
  <1> QED
    BY <1>a, <1>c, <1>d, DialogueByServer

\* Faults keep to the dialogue: a copy that breaks off is where a later attempt
\* begins, one reply behind.
LEMMA FaultDialogue ==
  ASSUME TypeOK, NEW p \in Phones, Fault(p), Dialogue(p), Steps(p)
  PROVE  Dialogue(p)'
  <1> USE QueueLens
  <1>1. CASE CopyFails(p)
    <2>1. cpc[p] = "copy" /\ UNCHANGED <<last, cmds, replies, line, spc, success>>
      BY <1>1 DEF CopyFails, serverVars
    <2>2. /\ tries'[p] = tries[p] + 1
          /\ (cpc'[p] = "send" /\ tries[p] + 1 < MaxTries /\ outcome' = outcome) \/ cpc'[p] = "over"
      BY <1>1 DEF CopyFails, NextAttempt, Attempt, TypeOK
    <2>3. tries[p] = 0
      BY <2>1 DEF Dialogue
    <2>4. line[p] = "up" => NoCmd(p) /\ Transfer(p, 0)
      BY <2>1, <2>3 DEF Dialogue, First
    <2>5. line[p] = "up" /\ cpc'[p] = "send" => Later(p)'
      BY <2>1, <2>4 DEF Later, NoCmd, Transfer
    <2> QED
      BY <2>1, <2>2, <2>3, <2>5 DEF Dialogue
  <1>2. CASE LineLost(p)
    <2>1. UNCHANGED <<cpc, tries, last, outcome>> /\ line'[p] = "lost" /\ Len(replies'[p]) = 0
      BY <1>2 DEF LineLost, phoneVars, TypeOK
    <2> QED
      BY <2>1 DEF Dialogue
  <1>3. CASE DiskFull(p) \/ Stalled(p)
    <2>1. Transferring(p)
      BY <1>3 DEF Transferring
    <2>2. /\ UNCHANGED <<cpc, tries, last, outcome, line>>
          /\ line[p] = "lost" => replies'[p] = replies[p]
      BY <1>3, RepliesGrow
    <2> QED
      BY <2>1, <2>2, TransferDialogue, DialogueByServer
  <1> QED
    BY <1>1, <1>2, <1>3 DEF Fault
=============================================================================
