------------------------------ MODULE FtpUpload ------------------------------
(***************************************************************************)
(* The upload of a capture to the base station and the answer to it.       *)
(*                                                                         *)
(* A phone runs the retry loop of SdrFtpService around storeUniqueFile of  *)
(* commons-net: PORT, STOU, copy the stream over the data connection, read *)
(* the closing reply.  The base station runs one vsftpd process per phone; *)
(* the processes share the upload directory.  A process answers an upload  *)
(* with the analysis of the file it has just stored.                       *)
(*                                                                         *)
(* The control connection is two FIFO queues.  A capture is Chunks pieces; *)
(* a stored file is the sequence of pieces written to it, each naming the  *)
(* phone and its place in the capture.  Nothing ties a reply to a command  *)
(* but its place in the queue.                                             *)
(***************************************************************************)
EXTENDS Naturals, Sequences

CONSTANTS Phones,       \* the phones uploading
          MaxNames,     \* bound: suffixes of STOU.n explored
          Chunks,       \* pieces of a capture
          MaxTries,     \* maxTries in SdrFtpService (3)
          Faults        \* which faults happen: "copy", "line", "disk", "stall"

ASSUME UploadAssumption ==
    /\ MaxNames \in Nat \ {0}
    /\ Chunks \in Nat \ {0}
    /\ MaxTries \in Nat \ {0}
    /\ Faults \subseteq {"copy", "line", "disk", "stall"}

VARIABLES cpc,          \* phone: where the upload is
          tries,        \* phone: count, the attempts that threw
          pos,          \* phone: pieces already taken from the input stream
          last,         \* phone: the reply getReplyString would return
          outcome,      \* phone: what the upload came to
          cmds,         \* control connection, to the server
          replies,      \* control connection, to the phone
          line,         \* control connection: "up" or "lost"
          data,         \* data connection: its state and the pieces in flight
          spc,          \* server process: where it is
          ported,       \* server process: the attempt of the PORT in force, 0 if none
          name,         \* server process: the file name it stats or writes
          success,      \* server process: success
          exists,       \* the upload directory: the names there are
          content,      \* ... and what was written under each
          failed        \* names whose upload has failed

phoneVars == <<cpc, tries, pos, last, outcome>>
serverVars == <<spc, ported, name, success, exists, content, failed>>
vars == <<phoneVars, cmds, replies, line, data, serverVars>>

Names == 1..MaxNames
Pieces == [by : Phones, at : 1..Chunks]
Capture(p) == [i \in 1..Chunks |-> [by |-> p, at |-> i]]

\* A reply: its code, and for 226 the content whose packet it reports (empty
\* when the analysis found none).
Reply(code) == [code |-> code, of |-> <<>>]
Codes == {0, 150, 200, 221, 226, 421, 425, 426, 451, 553}
Replies == [code : Codes, of : Seq(Pieces)]

\* A command and, for PORT, the attempt that sent it.
Commands == ({"QUIT", "STOU"} \X {0}) \cup ({"PORT"} \X (1..MaxTries))

NoData == [st |-> "none", buf |-> <<>>]

PhoneSteps == {"send", "port", "stou", "copy", "answer", "end", "quit", "over"}
ServerSteps == {"cmd", "stat", "create", "connect", "recv", "analyse", "cleanup",
                "timedout", "gone"}
Outcomes == [is : {"pending", "reading", "nothing", "error"}, of : Seq(Pieces)]
Connections == [st : {"none", "up", "closed", "reset"}, buf : Seq(Pieces)]

TypeOK ==
    /\ cpc \in [Phones -> PhoneSteps]
    /\ tries \in [Phones -> 0..MaxTries]
    /\ pos \in [Phones -> 0..Chunks]
    /\ last \in [Phones -> Replies]
    /\ outcome \in [Phones -> Outcomes]
    /\ cmds \in [Phones -> Seq(Commands)]
    /\ replies \in [Phones -> Seq(Replies)]
    /\ line \in [Phones -> {"up", "lost"}]
    /\ data \in [Phones -> Connections]
    /\ spc \in [Phones -> ServerSteps]
    /\ ported \in [Phones -> 0..MaxTries]
    /\ name \in [Phones -> 0..MaxNames]
    /\ success \in [Phones -> BOOLEAN]
    /\ exists \subseteq Names
    /\ content \in [Names -> Seq(Pieces)]
    /\ failed \subseteq Names

Init ==
    /\ cpc = [p \in Phones |-> "send"]
    /\ tries = [p \in Phones |-> 0]
    /\ pos = [p \in Phones |-> 0]
    /\ last = [p \in Phones |-> Reply(0)]
    /\ outcome = [p \in Phones |-> [is |-> "pending", of |-> <<>>]]
    /\ cmds = [p \in Phones |-> <<>>]
    /\ replies = [p \in Phones |-> <<>>]
    /\ line = [p \in Phones |-> "up"]
    /\ data = [p \in Phones |-> NoData]
    /\ spc = [p \in Phones |-> "cmd"]
    /\ ported = [p \in Phones |-> 0]
    /\ name = [p \in Phones |-> 0]
    /\ success = [p \in Phones |-> FALSE]
    /\ exists = {}
    /\ content = [n \in Names |-> <<>>]
    /\ failed = {}

-----------------------------------------------------------------------------
(* The phone.                                                              *)

Attempt(p) == tries[p] + 1

Send(p, cmd) == cmds' = [cmds EXCEPT ![p] = Append(@, cmd)]

\* The next reply in the queue, whatever command it answers.
GetReply(p) ==
    /\ replies[p] # <<>>
    /\ last' = [last EXCEPT ![p] = Head(replies[p])]
    /\ replies' = [replies EXCEPT ![p] = Tail(@)]

\* The listening socket is closed; a connection not yet accepted is reset.
StopListening(p) ==
    data' = [data EXCEPT ![p] = IF @.st = "up" THEN [st |-> "reset", buf |-> <<>>] ELSE @]

\* Mutant: the reply to the broken transfer is read before the next attempt.
SendPortInSync(p) ==
    /\ cpc[p] = "send" /\ line[p] = "up" /\ spc[p] = "cmd" /\ cmds[p] = <<>>
    /\ replies' = [replies EXCEPT ![p] = <<>>]
    /\ Send(p, <<"PORT", Attempt(p)>>)
    /\ cpc' = [cpc EXCEPT ![p] = "port"]
    /\ UNCHANGED <<tries, pos, last, outcome, line, data, serverVars>>

\* storeUniqueFile begins: a listening socket and PORT.
SendPort(p) ==
    /\ cpc[p] = "send" /\ line[p] = "up" /\ spc[p] # "gone"
    /\ Send(p, <<"PORT", Attempt(p)>>)
    /\ cpc' = [cpc EXCEPT ![p] = "port"]
    /\ UNCHANGED <<tries, pos, last, outcome, replies, line, data, serverVars>>

\* A positive completion lets STOU follow; anything else ends storeUniqueFile
\* with false, which the loop takes for an upload.
ReadPort(p) ==
    /\ cpc[p] = "port"
    /\ GetReply(p)
    /\ last'[p].code # 421
    /\ \/ /\ last'[p].code \in 200..299
          /\ Send(p, <<"STOU", 0>>)
          /\ cpc' = [cpc EXCEPT ![p] = "stou"]
       \/ /\ last'[p].code \notin 200..299
          /\ cpc' = [cpc EXCEPT ![p] = "end"]
          /\ UNCHANGED cmds
    /\ UNCHANGED <<tries, pos, outcome, line, data, serverVars>>

ReadStou(p) ==
    /\ cpc[p] = "stou"
    /\ GetReply(p)
    /\ last'[p].code # 421
    /\ \/ /\ last'[p].code = 150
          /\ cpc' = [cpc EXCEPT ![p] = "copy"]
          /\ UNCHANGED data
       \/ /\ last'[p].code # 150
          /\ cpc' = [cpc EXCEPT ![p] = "end"]
          /\ StopListening(p)
    /\ UNCHANGED <<tries, pos, outcome, cmds, line, serverVars>>

\* Util.copyStream takes a piece from buffIn and sends it.
CopyPiece(p) ==
    /\ cpc[p] = "copy" /\ data[p].st = "up" /\ pos[p] < Chunks
    /\ pos' = [pos EXCEPT ![p] = @ + 1]
    /\ data' = [data EXCEPT ![p].buf = Append(@, [by |-> p, at |-> pos[p] + 1])]
    /\ UNCHANGED <<cpc, tries, last, outcome, cmds, replies, line, serverVars>>

\* The stream is at its end: close the data connection, wait for the reply.
CopyDone(p) ==
    /\ cpc[p] = "copy" /\ data[p].st = "up" /\ pos[p] = Chunks
    /\ data' = [data EXCEPT ![p].st = "closed"]
    /\ cpc' = [cpc EXCEPT ![p] = "answer"]
    /\ UNCHANGED <<tries, pos, last, outcome, cmds, replies, line, serverVars>>

\* Mutant: one attempt more than maxTries.
NextAttemptOnceMore(p) ==
    /\ tries' = [tries EXCEPT ![p] = @ + 1]
    /\ IF tries[p] <= MaxTries
       THEN cpc' = [cpc EXCEPT ![p] = "send"] /\ UNCHANGED outcome
       ELSE cpc' = [cpc EXCEPT ![p] = "over"]
            /\ outcome' = [outcome EXCEPT ![p].is = "error"]

\* Mutant: an attempt on a client that is no longer connected is not counted.
NextAttemptUncounted(p) ==
    IF line[p] = "up" /\ spc[p] = "gone"
    THEN cpc' = [cpc EXCEPT ![p] = "send"] /\ UNCHANGED <<tries, outcome>>
    ELSE /\ tries' = [tries EXCEPT ![p] = @ + 1]
         /\ IF Attempt(p) < MaxTries
            THEN cpc' = [cpc EXCEPT ![p] = "send"] /\ UNCHANGED outcome
            ELSE cpc' = [cpc EXCEPT ![p] = "over"]
                 /\ outcome' = [outcome EXCEPT ![p].is = "error"]

\* The catch clauses of the loop: count, and either try again on the same
\* client and the same stream or rethrow to the error box.
NextAttempt(p) ==
    /\ tries' = [tries EXCEPT ![p] = @ + 1]
    /\ IF Attempt(p) < MaxTries
       THEN cpc' = [cpc EXCEPT ![p] = "send"] /\ UNCHANGED outcome
       ELSE cpc' = [cpc EXCEPT ![p] = "over"]
            /\ outcome' = [outcome EXCEPT ![p].is = "error"]

\* CopyStreamException: a piece may be lost between the stream and the socket,
\* and the socket is closed, which the server sees as an end of file or, when
\* the network broke it, as an error.
CopyFails(p) ==
    /\ cpc[p] = "copy"
    /\ "copy" \in Faults \/ data[p].st # "up"
    /\ \E taken \in pos[p]..Chunks : taken <= pos[p] + 1 /\ pos' = [pos EXCEPT ![p] = taken]
    /\ \E st \in {"closed", "reset"} :
          data' = [data EXCEPT ![p] = IF st = "reset" THEN [st |-> st, buf |-> <<>>]
                                                      ELSE [st |-> st, buf |-> @.buf]]
    /\ NextAttempt(p)
    /\ UNCHANGED <<last, cmds, replies, line, serverVars>>

ReadAnswer(p) ==
    /\ cpc[p] = "answer"
    /\ GetReply(p)
    /\ last'[p].code # 421
    /\ cpc' = [cpc EXCEPT ![p] = "end"]
    /\ UNCHANGED <<tries, pos, outcome, cmds, line, data, serverVars>>

\* FTPConnectionClosedException or another IOException on the control
\* connection: 421, an end of file, or a failed write.
ControlThrows(p) ==
    /\ cpc[p] \in {"send", "port", "stou", "answer"}
    /\ \/ replies[p] # <<>> /\ Head(replies[p]).code = 421 /\ cpc[p] # "send"
       \/ (replies[p] = <<>> \/ cpc[p] = "send") /\ (line[p] = "lost" \/ spc[p] = "gone")
    /\ NextAttempt(p)
    /\ StopListening(p)
    /\ UNCHANGED <<pos, last, cmds, replies, line, serverVars>>

\* The reply is kept in resp, then the client logs out.
Quit(p) ==
    /\ cpc[p] = "end" /\ line[p] = "up" /\ spc[p] # "gone"
    /\ Send(p, <<"QUIT", 0>>)
    /\ cpc' = [cpc EXCEPT ![p] = "quit"]
    /\ UNCHANGED <<tries, pos, last, outcome, replies, line, data, serverVars>>

\* logout reads one reply, disconnect closes; then resp is looked at: a packet
\* counts only in a 226 reply with its fields filled in.
Conclude(p) ==
    /\ cpc[p] = "quit"
    /\ replies[p] # <<>> /\ Head(replies[p]).code # 421
    /\ replies' = [replies EXCEPT ![p] = Tail(@)]
    /\ outcome' = [outcome EXCEPT ![p] =
            IF last[p].code = 226 /\ last[p].of # <<>>
            THEN [is |-> "reading", of |-> last[p].of]
            ELSE [is |-> "nothing", of |-> <<>>]]
    /\ cpc' = [cpc EXCEPT ![p] = "over"]
    /\ line' = [line EXCEPT ![p] = "lost"]
    /\ UNCHANGED <<tries, pos, last, cmds, data, serverVars>>

\* logout throws: the error box, even when resp holds a packet.
QuitThrows(p) ==
    /\ \/ cpc[p] = "end" /\ (line[p] = "lost" \/ spc[p] = "gone")
       \/ cpc[p] = "quit" /\ replies[p] = <<>> /\ (line[p] = "lost" \/ spc[p] = "gone")
       \/ cpc[p] = "quit" /\ replies[p] # <<>> /\ Head(replies[p]).code = 421
    /\ outcome' = [outcome EXCEPT ![p].is = "error"]
    /\ cpc' = [cpc EXCEPT ![p] = "over"]
    /\ UNCHANGED <<tries, pos, last, cmds, replies, line, data, serverVars>>

\* The network takes the control connection away, and what was in flight.
LineLost(p) ==
    /\ "line" \in Faults
    /\ line[p] = "up" /\ cpc[p] # "over"
    /\ line' = [line EXCEPT ![p] = "lost"]
    /\ cmds' = [cmds EXCEPT ![p] = <<>>]
    /\ replies' = [replies EXCEPT ![p] = <<>>]
    /\ UNCHANGED <<phoneVars, data, serverVars>>

Phone(p) == \/ SendPort(p) \/ ReadPort(p) \/ ReadStou(p)
            \/ CopyPiece(p) \/ CopyDone(p) \/ ReadAnswer(p)
            \/ ControlThrows(p) \/ Quit(p) \/ Conclude(p) \/ QuitThrows(p)

-----------------------------------------------------------------------------
(* The vsftpd process of a phone.                                          *)

\* vsf_cmdio_write, then on to the step next; on a lost connection the write
\* may go unnoticed or end the process (die).
Write(p, reply, next) ==
    \/ /\ line[p] = "up"
       /\ replies' = [replies EXCEPT ![p] = Append(@, reply)]
       /\ spc' = [spc EXCEPT ![p] = next]
    \/ /\ line[p] = "lost"
       /\ UNCHANGED replies
       /\ \E s \in {next, "gone"} : spc' = [spc EXCEPT ![p] = s]

\* The command loop takes the next command.
Command(p, verb) ==
    /\ spc[p] = "cmd" /\ cmds[p] # <<>> /\ Head(cmds[p])[1] = verb
    /\ cmds' = [cmds EXCEPT ![p] = Tail(@)]
    /\ UNCHANGED <<phoneVars, line, data, exists, content, failed>>

HandlePort(p) ==
    /\ Command(p, "PORT")
    /\ ported' = [ported EXCEPT ![p] = Head(cmds[p])[2]]
    /\ Write(p, Reply(200), "cmd")
    /\ UNCHANGED <<name, success>>

HandleStou(p) ==
    /\ Command(p, "STOU")
    /\ spc' = [spc EXCEPT ![p] = "stat"]
    /\ name' = [name EXCEPT ![p] = 1]
    /\ success' = [success EXCEPT ![p] = FALSE]
    /\ UNCHANGED <<ported, replies>>

HandleQuit(p) ==
    /\ Command(p, "QUIT")
    /\ Write(p, Reply(221), "gone")
    /\ UNCHANGED <<ported, name, success>>

\* The phone hung up.
EndOfCommands(p) ==
    /\ spc[p] = "cmd" /\ cmds[p] = <<>> /\ line[p] = "lost"
    /\ spc' = [spc EXCEPT ![p] = "gone"]
    /\ UNCHANGED <<phoneVars, cmds, replies, line, data, ported, name, success,
                   exists, content, failed>>

\* get_unique_filename: one stat per suffix, nothing held in between.
Stat(p) ==
    /\ spc[p] = "stat"
    /\ \/ /\ name[p] \notin exists
          /\ spc' = [spc EXCEPT ![p] = "create"]
          /\ UNCHANGED name
       \/ /\ name[p] \in exists
          /\ name[p] < MaxNames
          /\ name' = [name EXCEPT ![p] = @ + 1]
          /\ UNCHANGED spc
    /\ UNCHANGED <<phoneVars, cmds, replies, line, data, ported, success, exists, content,
                   failed>>

\* Mutant: str_create, which opens a file that is already there.
CreateShared(p) ==
    /\ spc[p] = "create"
    /\ exists' = exists \cup {name[p]}
    /\ content' = [content EXCEPT ![name[p]] = IF name[p] \in exists THEN @ ELSE <<>>]
    /\ failed' = failed \ {name[p]}
    /\ spc' = [spc EXCEPT ![p] = "connect"]
    /\ UNCHANGED <<phoneVars, cmds, replies, line, data, ported, name, success>>

\* Mutant: created is set before the result of the creation is looked at.
CreateLoserCleansUp(p) ==
    /\ spc[p] = "create"
    /\ \/ /\ name[p] \notin exists
          /\ exists' = exists \cup {name[p]}
          /\ content' = [content EXCEPT ![name[p]] = <<>>]
          /\ failed' = failed \ {name[p]}
          /\ spc' = [spc EXCEPT ![p] = "connect"]
          /\ UNCHANGED replies
       \/ /\ name[p] \in exists
          /\ Write(p, Reply(553), "cleanup")
          /\ UNCHANGED <<exists, content, failed>>
    /\ UNCHANGED <<phoneVars, cmds, line, data, ported, name, success>>

\* str_create_exclusive: the loser of a race for a name answers 553.
Create(p) ==
    /\ spc[p] = "create"
    /\ \/ /\ name[p] \notin exists
          /\ exists' = exists \cup {name[p]}
          /\ content' = [content EXCEPT ![name[p]] = <<>>]
          /\ failed' = failed \ {name[p]}
          /\ spc' = [spc EXCEPT ![p] = "connect"]
          /\ UNCHANGED replies
       \/ /\ name[p] \in exists
          /\ Write(p, Reply(553), "cmd")
          /\ UNCHANGED <<exists, content, failed>>
    /\ UNCHANGED <<phoneVars, cmds, line, data, ported, name, success>>

\* The phone still listens on the port of the attempt the PORT named.
Listening(p) == ported[p] = Attempt(p) /\ cpc[p] \in {"port", "stou"}

\* get_remote_transfer_fd: connect to the phone, then 150; or 425.
ConnectData(p) ==
    /\ spc[p] = "connect"
    /\ \/ /\ Listening(p)
          /\ data' = [data EXCEPT ![p] = [st |-> "up", buf |-> <<>>]]
          /\ Write(p, Reply(150), "recv")
          /\ UNCHANGED failed
       \/ /\ Write(p, Reply(425), "cleanup")
          /\ failed' = failed \cup {name[p]}
          /\ UNCHANGED data
    /\ UNCHANGED <<phoneVars, cmds, line, ported, name, success, exists, content>>

\* do_file_recv writes what arrives.
Receive(p) ==
    /\ spc[p] = "recv" /\ data[p].buf # <<>>
    /\ content' = [content EXCEPT ![name[p]] = Append(@, Head(data[p].buf))]
    /\ data' = [data EXCEPT ![p].buf = Tail(@)]
    /\ UNCHANGED <<phoneVars, cmds, replies, line, spc, ported, name, success,
                   exists, failed>>

\* The disk refuses the write: 451.
DiskFull(p) ==
    /\ "disk" \in Faults
    /\ spc[p] = "recv" /\ data[p].buf # <<>>
    /\ data' = [data EXCEPT ![p] = [st |-> "reset", buf |-> <<>>]]
    /\ failed' = failed \cup {name[p]}
    /\ Write(p, Reply(451), "cleanup")
    /\ UNCHANGED <<phoneVars, cmds, line, ported, name, success, exists, content>>

\* End of file is success, wherever in the capture it comes.
ReceiveEnd(p) ==
    /\ spc[p] = "recv" /\ data[p].buf = <<>> /\ data[p].st = "closed"
    /\ spc' = [spc EXCEPT ![p] = "analyse"]
    /\ success' = [success EXCEPT ![p] = TRUE]
    /\ UNCHANGED <<phoneVars, cmds, replies, line, data, ported, name, exists, content,
                   failed>>

ReceiveFails(p) ==
    /\ spc[p] = "recv" /\ data[p].st = "reset"
    /\ failed' = failed \cup {name[p]}
    /\ Write(p, Reply(426), "cleanup")
    /\ UNCHANGED <<phoneVars, cmds, line, data, ported, name, success, exists, content>>

\* Mutant: the clean-up after a time-out is skipped.
StalledKeeps(p) ==
    /\ "stall" \in Faults
    /\ spc[p] = "recv" /\ data[p] = [st |-> "up", buf |-> <<>>]
    /\ data' = [data EXCEPT ![p].st = "reset"]
    /\ ported' = [ported EXCEPT ![p] = 0]
    /\ failed' = failed \cup {name[p]}
    /\ spc' = [spc EXCEPT ![p] = "timedout"]
    /\ UNCHANGED <<phoneVars, cmds, replies, line, name, success, exists, content>>

\* handle_sigalrm: no data for the whole timeout.  The data socket is shut and
\* no 426 is written; after the clean-up the process says 421 and ends.
Stalled(p) ==
    /\ "stall" \in Faults
    /\ spc[p] = "recv" /\ data[p] = [st |-> "up", buf |-> <<>>]
    /\ data' = [data EXCEPT ![p].st = "reset"]
    /\ exists' = exists \ {name[p]}
    /\ failed' = failed \cup {name[p]}
    /\ ported' = [ported EXCEPT ![p] = 0]
    /\ spc' = [spc EXCEPT ![p] = "timedout"]
    /\ UNCHANGED <<phoneVars, cmds, replies, line, name, success, content>>

TimedOut(p) ==
    /\ spc[p] = "timedout"
    /\ Write(p, Reply(421), "gone")
    /\ UNCHANGED <<phoneVars, cmds, line, data, ported, name, success, exists, content,
                   failed>>

\* fleet_analysis of the stored file, and 226 with what it found; or the decoder
\* takes the whole process with it, before the answer and the clean-up.
Analyse(p) ==
    /\ spc[p] = "analyse"
    /\ \/ \E found \in {<<>>, content[name[p]]} :
             Write(p, [code |-> 226, of |-> found], "cleanup")
       \/ spc' = [spc EXCEPT ![p] = "gone"] /\ UNCHANGED replies
    /\ UNCHANGED <<phoneVars, cmds, line, data, ported, name, success, exists, content,
                   failed>>

\* Mutant: delete_failed_uploads is not looked at.
CleanupKeeps(p) ==
    /\ spc[p] = "cleanup"
    /\ ported' = [ported EXCEPT ![p] = 0]
    /\ spc' = [spc EXCEPT ![p] = "cmd"]
    /\ UNCHANGED <<phoneVars, cmds, replies, line, data, name, success, exists, content,
                   failed>>

\* Mutant: the file is unlinked whether or not the upload succeeded.
CleanupAlways(p) ==
    /\ spc[p] = "cleanup"
    /\ ported' = [ported EXCEPT ![p] = 0]
    /\ exists' = exists \ {name[p]}
    /\ spc' = [spc EXCEPT ![p] = "cmd"]
    /\ UNCHANGED <<phoneVars, cmds, replies, line, data, name, success, content,
                   failed>>

\* port_cleanup, and the file of a failed upload is unlinked by name.
Cleanup(p) ==
    /\ spc[p] = "cleanup"
    /\ ported' = [ported EXCEPT ![p] = 0]
    /\ exists' = IF success[p] THEN exists ELSE exists \ {name[p]}
    /\ spc' = [spc EXCEPT ![p] = "cmd"]
    /\ UNCHANGED <<phoneVars, cmds, replies, line, data, name, success, content,
                   failed>>

Server(p) == \/ HandlePort(p) \/ HandleStou(p) \/ HandleQuit(p)
             \/ EndOfCommands(p)
             \/ Stat(p) \/ Create(p) \/ ConnectData(p)
             \/ Receive(p) \/ ReceiveEnd(p) \/ ReceiveFails(p)
             \/ TimedOut(p) \/ Analyse(p) \/ Cleanup(p)

Fault(p) == CopyFails(p) \/ LineLost(p) \/ DiskFull(p) \/ Stalled(p)

Next == \E p \in Phones : Phone(p) \/ Server(p) \/ Fault(p)

\* The phone waits on a control connection that is lost: it has no time-out, so
\* nothing need ever tell it.
Blocked(p) == line[p] = "lost" /\ cpc[p] \notin {"copy", "over"}

\* Both ends make progress over a line that is up, where the death of the server
\* process is seen as an end of file; a copy over a broken socket throws.
Fairness ==
    \A p \in Phones : /\ WF_vars(~Blocked(p) /\ Phone(p))
                      /\ WF_vars(Server(p))
                      /\ WF_vars(data[p].st # "up" /\ CopyFails(p))

Spec == Init /\ [][Next]_vars /\ Fairness

-----------------------------------------------------------------------------
(* Properties.                                                             *)

\* A reading comes from the phone's own capture and from the whole of it: the
\* base station also analyses and answers a transfer that broke off, and that
\* answer must not be taken for the answer to a later attempt.
ReadingIsOwnWholeCapture ==
    \A p \in Phones : outcome[p].is = "reading" => outcome[p].of = Capture(p)

\* Only the first attempt can produce a reading.  After a broken transfer the
\* reply to it is still unread, every later reply is taken for the one before
\* it, and the attempt ends with "200" or "426" in resp.
OnlyFirstAttemptReads ==
    \A p \in Phones : outcome[p].is = "reading" => tries[p] = 0

\* Two processes never write one file, and a process writes the pieces in
\* order: a stored file is a run of one phone's capture.
FilesAreNotMixed ==
    \A n \in exists : \A i, j \in DOMAIN content[n] :
        /\ content[n][i].by = content[n][j].by
        /\ i < j => content[n][i].at < content[n][j].at

\* A process deletes a file only when its own upload failed, and only a file
\* that holds nothing of another phone, although it unlinks by name long after
\* it found that name to be free.
OnlyOwnFileIsDeleted ==
    [][\A n \in Names : (n \in exists /\ n \notin exists') =>
          \E p \in Phones : /\ name[p] = n /\ ~success[p]
                            /\ \A i \in DOMAIN content[n] : content[n][i].by = p
      ]_vars

\* The file of a failed upload is there only while its process is about to
\* unlink it, or where that process died of the lost connection first: an upload
\* that was refused a connection, broke off, met a full disk or timed out leaves
\* none, nor does a process that says 421 or answers QUIT.
FailedUploadLeavesNoFile ==
    \A n \in failed \cap exists :
        \E p \in Phones : /\ name[p] = n /\ ~success[p]
                          /\ \/ spc[p] = "cleanup"
                             \/ spc[p] = "gone" /\ line[p] = "lost"

\* Every upload comes to an end: the attempts are counted whatever threw, so that
\* a server that has died, timed out or answers out of step cannot keep the loop
\* going.  The exception is a wait on a lost line, which has no time-out.
UploadEnds ==
    \A p \in Phones : <>[]Blocked(p) \/ <>(cpc[p] = "over")

\* What the phone was told: a reading of anything but its own whole capture is
\* an answer the promise does not know.
Told(p) ==
    IF outcome[p].is = "reading" /\ outcome[p].of # Capture(p)
    THEN "wrong" ELSE outcome[p].is

Promise == INSTANCE UploadPromise WITH
    answer <- [p \in Phones |-> Told(p)],
    kept <- {p \in Phones : \E n \in exists : content[n] = Capture(p)}

\* The FTP dialogue with its retries and clean-up implements the promise: each
\* phone is answered at most once, and "reading" is said only of a capture that
\* the base station holds whole and does not delete afterwards, although the
\* reply, the file and the unlink are steps of another process.
KeepsPromise == Promise!Spec
=============================================================================
