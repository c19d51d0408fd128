--------------------------- MODULE FtpUploadProofs ---------------------------
(***************************************************************************)
(* What holds of the upload for any number of phones, names, pieces and    *)
(* attempts and any choice of faults: whose files are whose, what becomes of *)
(* a failed upload, what the phone is told, and that all this implements   *)
(* the promise.                                                            *)
(***************************************************************************)
EXTENDS FtpUploadDialogue

\* Only the file of the process that steps is written or unlinked.
FilesKept(p) ==
    \A n \in exists : (n # name[p] \/ ~Owner(p)) => n \in exists' /\ content'[n] = content[n]

\* Receive writes, Cleanup and Stalled unlink, and Create empties, by name.
LEMMA OwnFileOnly ==
  ASSUME TypeOK, NEW p \in Phones, Step(p), Steps(p)
  PROVE  FilesKept(p)
  <1>1. CASE content' = content /\ exists' = exists
    BY <1>1 DEF FilesKept
  <1>2. CASE Create(p)
    BY <1>2 DEF Create, FilesKept, TypeOK
  <1>3. CASE Receive(p)
    BY <1>3 DEF Receive, FilesKept, TypeOK, Owner
  <1>4. CASE Cleanup(p) \/ Stalled(p)
    <2>1. Owner(p)
      BY <1>4 DEF Cleanup, Stalled, Owner
    <2> QED
      BY <1>4, <2>1 DEF Cleanup, Stalled, FilesKept
  <1>5. Phone(p) => content' = content /\ exists' = exists
    BY DEF Phone, SendPort, ReadPort, ReadStou, CopyPiece, CopyDone, ReadAnswer, ControlThrows, Quit,
           Conclude, QuitThrows, serverVars
  <1>6. Fault(p) => Stalled(p) \/ (content' = content /\ exists' = exists)
    BY DEF Fault, CopyFails, LineLost, DiskFull, serverVars
  <1>7. Server(p) => Create(p) \/ Receive(p) \/ Cleanup(p) \/ (content' = content /\ exists' = exists)
    BY DEF Server, HandlePort, HandleStou, HandleQuit, Command, EndOfCommands, Stat, ConnectData,
           ReceiveEnd, ReceiveFails, TimedOut, Analyse
  <1> QED
    BY <1>1, <1>2, <1>3, <1>4, <1>5, <1>6, <1>7 DEF Step

\* The files and the buffers of the other uploads.
LEMMA FilesOfOthers ==
  ASSUME TypeOK, NEW p \in Phones, Step(p), NEW q \in Phones \ {p}, Steps(p), Steps(q), Buffer(q),
         File(q), Apart
  PROVE  Steps(q)' /\ Buffer(q)' /\ File(q)'
  <1>1. /\ pos'[q] = pos[q] /\ data'[q] = data[q] /\ spc'[q] = spc[q] /\ name'[q] = name[q]
        /\ success'[q] = success[q]
    BY Frame DEF OthersKept
  <1>2. Owner(q) => name[q] \in exists' /\ content'[name[q]] = content[name[q]]
    BY OwnFileOnly DEF FilesKept, Apart, Steps
  <1>3. Steps(q)'
    BY <1>1, <1>2 DEF Steps, Owner
  <1>4. Buffer(q)'
    BY <1>1 DEF Buffer
  <1>5. spc[q] \in {"connect", "recv"} => Owner(q)
    BY DEF Owner
  <1>6. File(q)'
    BY <1>1, <1>2, <1>5 DEF File, Owner
  <1> QED
    BY <1>3, <1>4, <1>6

-----------------------------------------------------------------------------
\* Most steps of an upload write no file and take or lose pieces in flight.
Calm(p) ==
    /\ content' = content
    /\ pos'[p] \in pos[p]..Chunks
    /\ data'[p].buf = data[p].buf \/ data'[p].buf = <<>>
    /\ Owner(p)' => Owner(p) /\ name'[p] = name[p]
    /\ spc'[p] \in {"connect", "recv"} => spc'[p] = spc[p]

\* Counters and the listening socket.
LEMMA Stops ==
  ASSUME TypeOK, NEW p \in Phones
  PROVE  /\ pos[p] \in pos[p]..Chunks /\ pos[p] \in Nat /\ Chunks \in Nat
         /\ StopListening(p) => data'[p].buf = data[p].buf \/ data'[p].buf = <<>>
  BY UploadAssumption DEF TypeOK, StopListening

\* All steps but four are calm.
LEMMA CalmSteps ==
  ASSUME TypeOK, NEW p \in Phones, Step(p), Steps(p)
  PROVE  Calm(p) \/ Create(p) \/ ConnectData(p) \/ CopyPiece(p) \/ Receive(p)
  <1>1. CASE Phone(p)
    <2>1. UNCHANGED <<content, spc, name, success>>
      BY <1>1 DEF Phone, SendPort, ReadPort, ReadStou, CopyPiece, CopyDone, ReadAnswer,
         ControlThrows, Quit, Conclude, QuitThrows, serverVars
    <2>2. CopyPiece(p) \/ pos' = pos
      BY <1>1 DEF Phone, SendPort, ReadPort, ReadStou, CopyDone, ReadAnswer,
         ControlThrows, Quit, Conclude, QuitThrows
    <2>3. CopyPiece(p) \/ data'[p].buf = data[p].buf \/ data'[p].buf = <<>>
      <3>1. CASE ReadStou(p) \/ ControlThrows(p)
        BY <3>1, Stops DEF ReadStou, ControlThrows
      <3>2. CASE CopyDone(p)
        BY <3>2 DEF CopyDone, TypeOK, Connections
      <3> QED
        BY <1>1, <3>1, <3>2 DEF Phone, SendPort, ReadPort, ReadAnswer, Quit, Conclude, QuitThrows
    <2> QED
      BY <2>1, <2>2, <2>3, Stops DEF Calm, Owner
  <1>2. CASE Fault(p)
    <2>1. CASE CopyFails(p)
      <3>1. UNCHANGED <<content, spc, name, success>>
        BY <2>1 DEF CopyFails, serverVars
      <3>2. pos'[p] \in pos[p]..Chunks
        BY <2>1 DEF CopyFails, TypeOK
      <3>3. data'[p].buf = data[p].buf \/ data'[p].buf = <<>>
        BY <2>1 DEF CopyFails, TypeOK
      <3> QED
        BY <3>1, <3>2, <3>3 DEF Calm, Owner
    <2>2. CASE LineLost(p)
      BY <2>2, Stops DEF LineLost, phoneVars, serverVars, Calm, Owner
    <2>3. CASE DiskFull(p)
      <3>1. UNCHANGED <<content, pos, name, success>> /\ spc[p] = "recv"
        BY <2>3 DEF DiskFull, phoneVars
      <3>2. spc'[p] \in {"cleanup", "gone"}
        BY <2>3 DEF DiskFull, Write, TypeOK
      <3>3. data'[p].buf = <<>>
        BY <2>3 DEF DiskFull, TypeOK
      <3> QED
        BY <3>1, <3>2, <3>3, Stops DEF Calm, Owner
    <2>4. CASE Stalled(p)
      <3>1. /\ UNCHANGED <<content, pos, name, success>> /\ spc[p] = "recv"
            /\ spc'[p] = "timedout"
        BY <2>4 DEF Stalled, phoneVars, TypeOK
      <3>2. data'[p].buf = data[p].buf
        BY <2>4 DEF Stalled, TypeOK, Connections
      <3> QED
        BY <3>1, <3>2, Stops DEF Calm, Owner
    <2> QED
      BY <1>2, <2>1, <2>2, <2>3, <2>4 DEF Fault
  <1>3. CASE Server(p)
    <2>1. CASE HandlePort(p) \/ HandleQuit(p)
      <3>1. UNCHANGED <<content, pos, data, name, success>> /\ spc[p] = "cmd"
        BY <2>1 DEF HandlePort, HandleQuit, Command, phoneVars
      <3>2. spc'[p] \in {"cmd", "gone"}
        BY <2>1 DEF HandlePort, HandleQuit, Write, TypeOK
      <3> QED
        BY <3>1, <3>2, Stops DEF Calm, Owner
    <2>2. CASE HandleStou(p)
      <3>1. UNCHANGED <<content, pos, data>> /\ spc'[p] = "stat" /\ ~success'[p]
        BY <2>2 DEF HandleStou, Command, phoneVars, TypeOK
      <3> QED
        BY <3>1, Stops DEF Calm, Owner
    <2>3. CASE EndOfCommands(p)
      <3>1. UNCHANGED <<content, pos, data, name, success>> /\ spc'[p] = "gone"
        BY <2>3 DEF EndOfCommands, phoneVars, TypeOK
      <3> QED
        BY <3>1, Stops DEF Calm, Owner
    <2>4. CASE Stat(p)
      <3>1. UNCHANGED <<content, pos, data, success>> /\ spc'[p] \in {"stat", "create"}
            /\ spc[p] = "stat"
        BY <2>4 DEF Stat, phoneVars, TypeOK
      <3> QED
        BY <3>1, Stops DEF Calm, Owner, Steps
    <2>5. CASE ReceiveEnd(p) \/ Cleanup(p)
      <3>1. UNCHANGED <<content, pos, data, name>> /\ spc[p] \in {"recv", "cleanup"}
            /\ spc'[p] \in {"analyse", "cmd"}
        BY <2>5 DEF ReceiveEnd, Cleanup, phoneVars, TypeOK
      <3> QED
        BY <3>1, Stops DEF Calm, Owner
    <2>6. CASE ReceiveFails(p) \/ TimedOut(p) \/ Analyse(p)
      <3>1. UNCHANGED <<content, pos, data, name, success>> /\ spc[p] \in {"recv", "timedout", "analyse"}
        BY <2>6 DEF ReceiveFails, TimedOut, Analyse, phoneVars
      <3>2. /\ spc'[p] \in {"cleanup", "gone"}
            /\ spc[p] = "timedout" => spc'[p] = "gone"
        BY <2>6 DEF ReceiveFails, TimedOut, Analyse, Write, TypeOK
      <3> QED
        BY <3>1, <3>2, Stops DEF Calm, Owner
    <2> QED
      BY <1>3, <2>1, <2>2, <2>3, <2>4, <2>5, <2>6 DEF Server
  <1> QED
    BY <1>1, <1>2, <1>3 DEF Step

\* A piece in a file or a buffer.
LEMMA PieceTyped ==
  ASSUME NEW s \in Seq(Pieces), NEW i \in DOMAIN s
  PROVE  s[i] \in Pieces /\ s[i].at \in Nat /\ s[i].at \in 1..Chunks
  <1>1. s[i] \in Pieces
    OBVIOUS
  <1> QED
    BY <1>1, UploadAssumption DEF Pieces

\* The buffer of a data connection.
LEMMA BufferTyped ==
  ASSUME TypeOK, NEW p \in Phones
  PROVE  data[p] \in Connections /\ data[p].buf \in Seq(Pieces)
  BY DEF TypeOK, Connections

\* A calm step keeps file and buffer in order.
LEMMA CalmFile ==
  ASSUME TypeOK, TypeOK', NEW p \in Phones, Steps(p), Buffer(p), File(p), Calm(p)
  PROVE  Buffer(p)' /\ File(p)'
  <1>a. pos[p] \in Nat /\ pos'[p] \in Nat /\ pos[p] <= pos'[p]
    BY UploadAssumption DEF TypeOK, Calm
  <1>b. \A i \in DOMAIN data[p].buf : data[p].buf[i] \in Pieces /\ data[p].buf[i].at \in Nat
    BY BufferTyped, PieceTyped
  <1>1. Buffer(p)'
    <2>1. CASE data'[p].buf = data[p].buf
      BY <1>a, <1>b, <2>1 DEF Buffer
    <2>2. CASE data'[p].buf = <<>>
      BY <2>2 DEF Buffer
    <2> QED
      BY <2>1, <2>2 DEF Calm
  <1>2. ASSUME Owner(p)'
        PROVE  \A i \in DOMAIN content'[name'[p]] : content'[name'[p]][i].by = p
    BY <1>2 DEF Calm, File
  <1>3. ASSUME spc'[p] = "connect"
        PROVE  Len(content'[name'[p]]) = 0
    BY <1>3 DEF Calm, File, Owner
  <1>4. ASSUME spc'[p] = "recv", NEW i \in DOMAIN content'[name'[p]]
        PROVE  /\ content'[name'[p]][i].at <= pos'[p]
               /\ \A j \in DOMAIN data'[p].buf : content'[name'[p]][i].at < data'[p].buf[j].at
    <2>1. Owner(p) /\ name'[p] = name[p] /\ content' = content /\ spc[p] = "recv"
      BY <1>4 DEF Calm, Owner
    <2>2. name[p] \in Names
      BY <2>1 DEF Steps, TypeOK
    <2>3. content[name[p]][i] \in Pieces
      BY <1>4, <2>1, <2>2 DEF TypeOK
    <2>4. content[name[p]][i].at \in Nat
      BY <2>3 DEF Pieces
    <2>5. /\ content[name[p]][i].at <= pos[p]
          /\ \A j \in DOMAIN data[p].buf : content[name[p]][i].at < data[p].buf[j].at
      BY <1>4, <2>1 DEF File
    <2>6. CASE data'[p].buf = data[p].buf
      BY <1>a, <2>1, <2>4, <2>5, <2>6
    <2>7. CASE data'[p].buf = <<>>
      BY <1>a, <2>1, <2>4, <2>5, <2>7
    <2> QED
      BY <2>6, <2>7 DEF Calm
  <1> QED
    BY <1>1, <1>2, <1>3, <1>4 DEF File

-----------------------------------------------------------------------------
\* Where the process is, whether it succeeded and what it owns go together.
LEMMA StepsKept ==
  ASSUME TypeOK, TypeOK', NEW p \in Phones, Step(p), Steps(p)
  PROVE  Steps(p)'
  <1> USE DEF Steps, Owner
  <1>a. success[p] \in BOOLEAN /\ success'[p] \in BOOLEAN
    BY DEF TypeOK
  <1>1. CASE Phone(p) \/ CopyFails(p) \/ LineLost(p)
    <2>1. UNCHANGED <<spc, name, success, exists>>
      BY <1>1 DEF Phone, SendPort, ReadPort, ReadStou, CopyPiece, CopyDone, ReadAnswer, ControlThrows,
         Quit, Conclude, QuitThrows, CopyFails, LineLost, serverVars
    <2> QED
      BY <2>1
  <1>2. CASE DiskFull(p) \/ ReceiveFails(p) \/ Analyse(p)
    <2>1. UNCHANGED <<name, success, exists>> /\ spc[p] \in {"recv", "analyse"}
      BY <1>2 DEF DiskFull, ReceiveFails, Analyse
    <2>2. spc'[p] \in {"cleanup", "gone"}
      BY <1>2 DEF DiskFull, ReceiveFails, Analyse, Write, TypeOK
    <2> QED
      BY <2>1, <2>2
  <1>3. CASE Stalled(p)
    <2>1. UNCHANGED <<name, success>> /\ spc[p] = "recv" /\ spc'[p] = "timedout"
      BY <1>3 DEF Stalled, TypeOK
    <2> QED
      BY <2>1, <1>a
  <1>4. CASE HandlePort(p) \/ HandleQuit(p) \/ EndOfCommands(p)
    <2>1. UNCHANGED <<name, success, exists>> /\ spc[p] = "cmd"
      BY <1>4 DEF HandlePort, HandleQuit, EndOfCommands, Command
    <2>2. spc'[p] \in {"cmd", "gone"}
      BY <1>4 DEF HandlePort, HandleQuit, EndOfCommands, Write, TypeOK
    <2> QED
      BY <2>1, <2>2
  <1>5. CASE HandleStou(p)
    <2>1. spc'[p] = "stat" /\ name'[p] = 1 /\ ~success'[p]
      BY <1>5 DEF HandleStou, TypeOK
    <2>2. 1 \in Names
      BY UploadAssumption DEF Names
    <2> QED
      BY <2>1, <2>2
  <1>6. CASE Stat(p)
    <2>1. spc[p] = "stat" /\ UNCHANGED <<success, exists>> /\ spc'[p] \in {"stat", "create"}
      BY <1>6 DEF Stat, TypeOK
    <2>2. name[p] \in Names /\ (name'[p] = name[p] \/ (name[p] < MaxNames /\ name'[p] = name[p] + 1))
      BY <1>6 DEF Stat, TypeOK
    <2>3. name'[p] \in Names
      BY <2>2, UploadAssumption DEF Names
    <2> QED
      BY <2>1, <2>3, <1>a
  <1>7. CASE Create(p)
    <2>1. spc[p] = "create" /\ UNCHANGED <<name, success>>
      BY <1>7 DEF Create
    <2>2. \/ spc'[p] = "connect" /\ name[p] \in exists'
          \/ spc'[p] \in {"cmd", "gone"}
      BY <1>7 DEF Create, Write, TypeOK
    <2> QED
      BY <2>1, <2>2, <1>a
  <1>8. CASE ConnectData(p) \/ Receive(p)
    <2>1. spc[p] \in {"connect", "recv"} /\ UNCHANGED <<name, success, exists>>
      BY <1>8 DEF ConnectData, Receive
    <2>2. spc'[p] \in {"recv", "cleanup", "gone"}
      BY <1>8 DEF ConnectData, Receive, Write, TypeOK
    <2> QED
      BY <2>1, <2>2, <1>a
  <1>9. CASE ReceiveEnd(p)
    <2>1. spc[p] = "recv" /\ UNCHANGED <<name, exists>> /\ spc'[p] = "analyse" /\ success'[p]
      BY <1>9 DEF ReceiveEnd, TypeOK
    <2> QED
      BY <2>1
  <1>10. CASE TimedOut(p)
    <2>1. spc[p] = "timedout" /\ UNCHANGED <<name, success, exists>>
      BY <1>10 DEF TimedOut
    <2>2. spc'[p] = "gone"
      BY <1>10 DEF TimedOut, Write, TypeOK
    <2> QED
      BY <2>1, <2>2, <1>a
  <1>11. CASE Cleanup(p)
    <2>1. spc[p] = "cleanup" /\ UNCHANGED <<name, success>> /\ spc'[p] = "cmd"
          /\ (success[p] => exists' = exists)
      BY <1>11 DEF Cleanup, TypeOK
    <2> QED
      BY <2>1, <1>a
  <1> QED
    BY <1>1, <1>2, <1>3, <1>4, <1>5, <1>6, <1>7, <1>8, <1>9, <1>10, <1>11 DEF Step, Server, Fault

\* A new file is empty.
LEMMA CreateFile ==
  ASSUME TypeOK, TypeOK', NEW p \in Phones, Steps(p), Buffer(p), File(p), Create(p)
  PROVE  Buffer(p)' /\ File(p)'
  <1>1. /\ spc[p] = "create" /\ UNCHANGED <<name, success, data, pos>> /\ name[p] \in Names
        /\ ~success[p]
    BY DEF Create, phoneVars, Steps, TypeOK
  <1>2. \/ spc'[p] = "connect" /\ content'[name[p]] = <<>>
        \/ spc'[p] \in {"cmd", "gone"}
    BY <1>1 DEF Create, Write, TypeOK
  <1>3. Buffer(p)'
    BY <1>1 DEF Buffer
  <1>4. File(p)'
    BY <1>1, <1>2 DEF File, Owner
  <1> QED
    BY <1>3, <1>4

\* A new data connection is empty, and so is the file.
LEMMA ConnectFile ==
  ASSUME TypeOK, TypeOK', NEW p \in Phones, Steps(p), Buffer(p), File(p), ConnectData(p)
  PROVE  Buffer(p)' /\ File(p)'
  <1>1. /\ spc[p] = "connect" /\ UNCHANGED <<name, success, pos, content>> /\ name[p] \in Names
        /\ spc'[p] \in {"recv", "cleanup", "gone"} /\ data'[p].buf \in {data[p].buf, <<>>}
    BY DEF ConnectData, phoneVars, Steps, TypeOK, Write, Owner
  <1>2. content[name[p]] = <<>>
    BY <1>1, EmptySeq, LenProperties DEF File, TypeOK
  <1>3. Buffer(p)'
    <2>1. CASE data'[p].buf = data[p].buf
      BY <1>1, <2>1 DEF Buffer
    <2>2. CASE data'[p].buf = <<>>
      BY <2>2 DEF Buffer
    <2> QED
      BY <1>1, <2>1, <2>2
  <1>4. File(p)'
    BY <1>1, <1>2 DEF File, Owner
  <1> QED
    BY <1>3, <1>4

\* A piece that is sent comes after all in flight and all in the file.
LEMMA CopyPieceFile ==
  ASSUME TypeOK, TypeOK', NEW p \in Phones, Steps(p), Buffer(p), File(p), CopyPiece(p)
  PROVE  Buffer(p)' /\ File(p)'
  <1> DEFINE b == data[p].buf
             e == [by |-> p, at |-> pos[p] + 1]
             c == content[name[p]]
  <1>1. /\ UNCHANGED <<spc, name, success, content>> /\ pos'[p] = pos[p] + 1 /\ data'[p].buf = Append(b, e)
        /\ pos[p] \in Nat /\ b \in Seq(Pieces)
    BY SMTT(30), BufferTyped, UploadAssumption DEF CopyPiece, serverVars, TypeOK, Connections
  <1>2. /\ Len(b) \in Nat /\ DOMAIN b = 1..Len(b)
        /\ DOMAIN Append(b, e) = 1..(Len(b) + 1) /\ Append(b, e)[Len(b) + 1] = e
        /\ \A i \in 1..Len(b) : Append(b, e)[i] = b[i]
        /\ e.by = p /\ e.at = pos[p] + 1
    BY <1>1
  <1>3. \A i \in 1..Len(b) : b[i].by = p /\ b[i].at \in Nat /\ b[i].at <= pos[p]
    BY <1>1, <1>2, PieceTyped DEF Buffer
  <1>4. \A i, j \in 1..Len(b) : i < j => b[i].at < b[j].at
    BY <1>2 DEF Buffer
  <1> HIDE DEF b, e
  <1>5. ASSUME NEW i \in 1..(Len(b) + 1)
        PROVE  /\ Append(b, e)[i].by = p /\ Append(b, e)[i].at <= pos[p] + 1
               /\ \A j \in 1..(Len(b) + 1) : i < j => Append(b, e)[i].at < Append(b, e)[j].at
    <2>1. CASE i = Len(b) + 1
      BY <1>1, <1>2, <2>1
    <2>2. CASE i \in 1..Len(b)
      <3>1. Append(b, e)[i] = b[i] /\ b[i].by = p /\ b[i].at \in Nat /\ b[i].at <= pos[p]
        BY <1>2, <1>3, <2>2
      <3>2. ASSUME NEW j \in 1..(Len(b) + 1), i < j
            PROVE  Append(b, e)[i].at < Append(b, e)[j].at
        <4>1. CASE j \in 1..Len(b)
          BY <1>2, <1>4, <2>2, <3>1, <3>2, <4>1
        <4>2. CASE j = Len(b) + 1
          BY <1>1, <1>2, <3>1, <4>2
        <4> QED
          BY <1>2, <4>1, <4>2
      <3> QED
        BY <1>1, <3>1, <3>2
    <2> QED
      BY <1>2, <2>1, <2>2
  <1>6. Buffer(p)'
    BY <1>1, <1>2, <1>5 DEF Buffer
  <1>7. ASSUME spc[p] = "recv", NEW i \in DOMAIN c
        PROVE  /\ c[i].at <= pos[p] + 1
               /\ \A j \in 1..(Len(b) + 1) : c[i].at < Append(b, e)[j].at
    <2>1. name[p] \in Names /\ c[i].at \in Nat
      BY <1>7, PieceTyped DEF Steps, Owner, TypeOK
    <2>2. c[i].at <= pos[p] /\ \A j \in 1..Len(b) : c[i].at < b[j].at
      BY <1>2, <1>7 DEF File, b
    <2> QED
      BY <1>1, <1>2, <1>3, <2>1, <2>2
  <1>8. File(p)'
    BY <1>1, <1>2, <1>7 DEF File, Owner
  <1> QED
    BY <1>6, <1>8

\* A piece that is written comes after all in the file and before all in flight.
LEMMA ReceiveFile ==
  ASSUME TypeOK, TypeOK', NEW p \in Phones, Steps(p), Buffer(p), File(p), Receive(p)
  PROVE  /\ Buffer(p)' /\ File(p)'
         /\ content'[name[p]] = Append(content[name[p]], data[p].buf[1])
         /\ 1 \in DOMAIN data[p].buf /\ data[p].buf[1] \in Pieces /\ spc[p] = "recv"
  <1> DEFINE b == data[p].buf
             c == content[name[p]]
  <1>1. /\ UNCHANGED <<spc, name, success, pos>> /\ name[p] \in Names /\ spc[p] = "recv"
        /\ data'[p].buf = Tail(b) /\ content'[name[p]] = Append(c, Head(b))
        /\ b \in Seq(Pieces) /\ c \in Seq(Pieces) /\ b # <<>> /\ pos[p] \in Nat
    BY SMTT(30), BufferTyped, UploadAssumption DEF Receive, phoneVars, TypeOK, Connections, Steps, Owner
  <1>2. /\ Len(b) \in Nat /\ DOMAIN b = 1..Len(b) /\ Len(b) >= 1 /\ Head(b) = b[1]
        /\ DOMAIN Tail(b) = 1..(Len(b) - 1) /\ \A i \in 1..(Len(b) - 1) : Tail(b)[i] = b[i + 1]
    BY <1>1, TailAt
  <1>3. b[1] \in Pieces
    BY <1>1, <1>2
  <1>4. /\ Len(c) \in Nat /\ DOMAIN c = 1..Len(c) /\ DOMAIN Append(c, b[1]) = 1..(Len(c) + 1)
        /\ Append(c, b[1])[Len(c) + 1] = b[1] /\ \A i \in 1..Len(c) : Append(c, b[1])[i] = c[i]
    BY <1>1, <1>3
  <1>5. \A i \in 1..Len(b) : b[i].by = p /\ b[i].at \in Nat /\ b[i].at <= pos[p]
    BY <1>1, <1>2, PieceTyped DEF Buffer
  <1>6. \A i, j \in 1..Len(b) : i < j => b[i].at < b[j].at
    BY <1>2 DEF Buffer
  <1>7. \A i \in 1..Len(c) : /\ c[i].by = p /\ c[i].at \in Nat /\ c[i].at <= pos[p]
                             /\ \A j \in 1..Len(b) : c[i].at < b[j].at
    BY <1>1, <1>2, <1>4, PieceTyped DEF File, Owner
  <1> HIDE DEF b, c
  <1>8. ASSUME NEW i \in 1..(Len(b) - 1)
        PROVE  /\ Tail(b)[i].by = p /\ Tail(b)[i].at <= pos[p]
               /\ \A j \in 1..(Len(b) - 1) : i < j => Tail(b)[i].at < Tail(b)[j].at
    BY <1>2, <1>5, <1>6
  <1>9. Buffer(p)'
    BY <1>1, <1>2, <1>8 DEF Buffer
  <1>10. ASSUME NEW i \in 1..(Len(c) + 1)
         PROVE  /\ Append(c, b[1])[i].by = p /\ Append(c, b[1])[i].at <= pos[p]
                /\ \A j \in 1..(Len(b) - 1) : Append(c, b[1])[i].at < Tail(b)[j].at
    BY <1>2, <1>4, <1>5, <1>6, <1>7
  <1>11. File(p)'
    BY <1>1, <1>2, <1>4, <1>10 DEF File, Owner
  <1> QED
    BY <1>1, <1>2, <1>3, <1>9, <1>11 DEF b, c

\* The own file, for every step.
LEMMA FileKept ==
  ASSUME TypeOK, TypeOK', NEW p \in Phones, Step(p), Steps(p), Buffer(p), File(p)
  PROVE  Steps(p)' /\ Buffer(p)' /\ File(p)'
  BY StepsKept, CalmSteps, CalmFile, CreateFile, ConnectFile, CopyPieceFile, ReceiveFile

-----------------------------------------------------------------------------
\* A process comes by a file only by creating it.
LEMMA OwnerBorn ==
  ASSUME TypeOK, TypeOK', NEW p \in Phones, Step(p), Steps(p), Owner(p)'
  PROVE  name'[p] = name[p] /\ (Owner(p) \/ (Create(p) /\ name[p] \notin exists))
  <1>1. CASE Calm(p)
    BY <1>1 DEF Calm
  <1>2. CASE Create(p)
    <2>1. name' = name /\ success' = success /\ spc[p] = "create"
      BY <1>2 DEF Create
    <2>2. name[p] \in exists => spc'[p] \in {"cmd", "gone"}
      BY <1>2 DEF Create, Write, TypeOK
    <2> QED
      BY <1>2, <2>1, <2>2 DEF Owner
  <1>3. CASE ConnectData(p) \/ Receive(p)
    BY <1>3 DEF ConnectData, Receive, Owner
  <1>4. CASE CopyPiece(p)
    BY <1>4 DEF CopyPiece, serverVars, Owner
  <1> QED
    BY <1>1, <1>2, <1>3, <1>4, CalmSteps

\* No step makes two processes owners of one name: the exclusive creation is
\* what this rests on.
LEMMA ApartKept ==
  ASSUME TypeOK, TypeOK', NEW p \in Phones, Step(p), \A q \in Phones : Steps(q), Apart
  PROVE  Apart'
  <1>1. ASSUME NEW q \in Phones \ {p}, Owner(p)', Owner(q)'
        PROVE  name'[p] # name'[q]
    <2>1. name'[q] = name[q] /\ Owner(q)
      BY <1>1, Frame DEF OthersKept, Owner
    <2>2. name'[p] = name[p] /\ (Owner(p) \/ name[p] \notin exists)
      BY <1>1, OwnerBorn
    <2>3. name[q] \in exists
      BY <2>1 DEF Steps
    <2> QED
      BY <2>1, <2>2, <2>3 DEF Apart
  <1>2. ASSUME NEW q \in Phones \ {p}, NEW r \in Phones \ {p}, q # r, Owner(q)', Owner(r)'
        PROVE  name'[q] # name'[r]
    <2>1. name'[q] = name[q] /\ Owner(q) /\ name'[r] = name[r] /\ Owner(r)
      BY <1>2, Frame DEF OthersKept, Owner
    <2> QED
      BY <1>2, <2>1 DEF Apart
  <1> QED
    BY <1>1, <1>2 DEF Apart

\* The order of the pieces in every file that is there.
LEMMA NotMixedKept ==
  ASSUME TypeOK, TypeOK', NEW p \in Phones, Step(p), Steps(p), Buffer(p), File(p), File(p)',
         FilesAreNotMixed
  PROVE  FilesAreNotMixed'
  <1>1. CASE Receive(p)
    <2> DEFINE b == data[p].buf
               c == content[name[p]]
    <2>1. /\ content'[name[p]] = Append(c, b[1]) /\ 1 \in DOMAIN b /\ b[1] \in Pieces
          /\ spc[p] = "recv"
      BY <1>1, ReceiveFile
    <2>2. /\ exists' = exists /\ name' = name /\ spc' = spc
          /\ \A n \in Names : n # name[p] => content'[n] = content[n]
      BY <1>1 DEF Receive, TypeOK
    <2>3. name[p] \in exists /\ c \in Seq(Pieces) /\ exists \subseteq Names
      BY <2>1 DEF Steps, Owner, TypeOK
    <2>4. /\ Len(c) \in Nat /\ DOMAIN c = 1..Len(c) /\ DOMAIN Append(c, b[1]) = 1..(Len(c) + 1)
          /\ Append(c, b[1])[Len(c) + 1] = b[1] /\ \A i \in 1..Len(c) : Append(c, b[1])[i] = c[i]
      BY <2>1, <2>3
    <2>5. /\ b[1].by = p
          /\ \A i \in 1..Len(c) : c[i].by = p /\ c[i].at < b[1].at
      BY <2>1, <2>4 DEF Buffer, File, Owner
    <2>6. \A i, j \in 1..Len(c) : i < j => c[i].at < c[j].at
      BY <2>3, <2>4 DEF FilesAreNotMixed
    <2> HIDE DEF b, c
    <2>7. ASSUME NEW i \in 1..(Len(c) + 1), NEW j \in 1..(Len(c) + 1)
          PROVE  /\ Append(c, b[1])[i].by = Append(c, b[1])[j].by
                 /\ i < j => Append(c, b[1])[i].at < Append(c, b[1])[j].at
      BY <2>4, <2>5, <2>6
    <2> QED
      BY SMTT(30), <2>1, <2>2, <2>3, <2>4, <2>7 DEF FilesAreNotMixed
  <1>2. CASE Create(p)
    <2>1. \/ /\ exists' = exists \cup {name[p]} /\ content'[name[p]] = <<>>
             /\ \A n \in Names : n # name[p] => content'[n] = content[n]
          \/ exists' = exists /\ content' = content
      BY <1>2 DEF Create, Steps, TypeOK
    <2>2. exists \subseteq Names
      BY DEF TypeOK
    <2> QED
      BY <2>1, <2>2 DEF FilesAreNotMixed
  <1>3. CASE ~ Receive(p) /\ ~ Create(p)
    <2>1. content' = content
      BY <1>3, CalmSteps DEF Calm, ConnectData, CopyPiece, serverVars
    <2>2. exists' \subseteq exists
      BY ZenonT(60), <1>3 DEF Step, Phone, Server, Fault, SendPort, ReadPort, ReadStou, CopyPiece, CopyDone,
         ReadAnswer, ControlThrows, Quit, Conclude, QuitThrows, serverVars, HandlePort, HandleStou,
         HandleQuit, Command, EndOfCommands, Stat, ConnectData, ReceiveEnd, ReceiveFails, TimedOut,
         Analyse, Cleanup, CopyFails, LineLost, DiskFull, Stalled
    <2> QED
      BY <2>1, <2>2 DEF FilesAreNotMixed
  <1> QED
    BY <1>1, <1>2, <1>3

\* One step of any upload keeps FileInv.
LEMMA FileInvStep ==
  ASSUME TypeOK, TypeOK', FileInv, NEW p \in Phones, Step(p)
  PROVE  FileInv'
  <1>1. Steps(p)' /\ Buffer(p)' /\ File(p)'
    BY FileKept DEF FileInv
  <1>2. ASSUME NEW q \in Phones \ {p}
        PROVE  Steps(q)' /\ Buffer(q)' /\ File(q)'
    BY FilesOfOthers DEF FileInv
  <1>3. Apart'
    BY ApartKept DEF FileInv
  <1>4. FilesAreNotMixed'
    BY <1>1, NotMixedKept DEF FileInv
  <1> QED
    BY <1>1, <1>2, <1>3, <1>4 DEF FileInv

-----------------------------------------------------------------------------
\* What is unlinked is the file of the process that unlinks it, after a failure.
LEMMA Deletes ==
  ASSUME TypeOK, FileInv, NEW p \in Phones, Step(p), NEW n \in exists, n \notin exists'
  PROVE  name[p] = n /\ ~success[p] /\ Owner(p)
  <1>1. name[p] = n /\ Owner(p)
    BY OwnFileOnly DEF FilesKept, FileInv
  <1>2. Cleanup(p) \/ Stalled(p)
    BY ZenonT(60) DEF Step, Phone, Server, Fault, SendPort, ReadPort, ReadStou, CopyPiece, CopyDone,
       ReadAnswer, ControlThrows, Quit, Conclude, QuitThrows, serverVars, HandlePort, HandleStou,
       HandleQuit, Command, EndOfCommands, Stat, Create, ConnectData, Receive, ReceiveEnd,
       ReceiveFails, TimedOut, Analyse, CopyFails, LineLost, DiskFull
  <1>3. ~success[p]
    BY <1>2 DEF Cleanup, Stalled, FileInv, Steps
  <1> QED
    BY <1>1, <1>3

\* A failed file that is still there has somebody who will unlink it, or who
\* died of the lost line.
LEMMA FailedKept ==
  ASSUME TypeOK, TypeOK', FileInv, FailedInv, NEW p \in Phones, Step(p)
  PROVE  FailedInv'
  <1>f. \A q \in Phones \ {p} : /\ spc'[q] = spc[q] /\ name'[q] = name[q]
                                 /\ success'[q] = success[q] /\ line'[q] = line[q]
    BY Frame DEF OthersKept
  <1>k. line[p] = "lost" => line'[p] = "lost"
    <2>t. line \in [Phones -> {"up", "lost"}]
      BY DEF TypeOK
    <2>1. CASE Phone(p)
      BY <2>t, <2>1 DEF Phone, SendPort, ReadPort, ReadStou, CopyPiece, CopyDone, ReadAnswer,
         ControlThrows, Quit, Conclude, QuitThrows, serverVars
    <2>2. CASE Server(p)
      BY <2>t, <2>2 DEF Server, HandlePort, HandleStou, HandleQuit, Command, EndOfCommands, Stat,
         Create, ConnectData, Receive, ReceiveEnd, ReceiveFails, TimedOut, Analyse, Cleanup
    <2>3. CASE Fault(p)
      BY <2>t, <2>3 DEF Fault, CopyFails, LineLost, DiskFull, Stalled
    <2> QED
      BY <2>1, <2>2, <2>3 DEF Step
  <1>s. Steps(p)
    BY DEF FileInv
  <1> DEFINE Live(q) == success[q] \/ spc[q] \in {"connect", "recv", "analyse"}
             Left(q) == /\ ~success[q]
                        /\ \/ spc[q] = "cleanup"
                           \/ spc[q] = "gone" /\ line[q] = "lost"
  <1>l. ASSUME \A q \in Phones : (Live(q))' => name'[q] \notin failed',
               \A n \in failed' \cap exists' : Abandoned(n)'
        PROVE  FailedInv'
    BY <1>l DEF FailedInv
  <1>o. /\ \A q \in Phones : Live(q) => Owner(q) /\ name[q] \notin failed
        /\ \A n \in failed \cap exists :
              \E q \in Phones : name[q] = n /\ Left(q)
    BY DEF FailedInv, Owner, Abandoned
  <1>1. CASE Create(p)
    <2>1. UNCHANGED <<name, success>> /\ spc[p] = "create" /\ ~success[p]
      BY <1>1, <1>s DEF Create, Steps, TypeOK
    <2>2. CASE name[p] \notin exists
      <3>1. exists' = exists \cup {name[p]} /\ failed' = failed \ {name[p]} /\ spc'[p] = "connect"
        BY <1>1, <2>2 DEF Create, TypeOK
      <3>2. ASSUME NEW q \in Phones, (Live(q))' PROVE name'[q] \notin failed'
        BY <1>f, <1>o, <2>1, <3>1, <3>2
      <3>3. ASSUME NEW n \in failed' \cap exists' PROVE Abandoned(n)'
        <4>1. PICK q \in Phones : name[q] = n /\ Left(q)
          BY <1>o, <3>1, <3>3
        <4> QED
          BY <1>f, <2>1, <4>1 DEF Abandoned
      <3> QED
        BY <1>l, <3>2, <3>3
    <2>3. CASE name[p] \in exists
      <3>1. exists' = exists /\ failed' = failed /\ spc'[p] \in {"cmd", "gone"}
        BY <1>1, <2>3 DEF Create, Write, TypeOK
      <3>2. ASSUME NEW q \in Phones, (Live(q))' PROVE name'[q] \notin failed'
        BY <1>f, <1>o, <2>1, <3>1, <3>2
      <3>3. ASSUME NEW n \in failed' \cap exists' PROVE Abandoned(n)'
        <4>1. PICK q \in Phones : name[q] = n /\ Left(q)
          BY <1>o, <3>1, <3>3
        <4> QED
          BY <1>f, <2>1, <4>1 DEF Abandoned
      <3> QED
        BY <1>l, <3>2, <3>3
    <2> QED
      BY <2>2, <2>3
  <1>2. CASE failed' = failed \cup {name[p]} /\ (ConnectData(p) \/ DiskFull(p) \/ ReceiveFails(p))
    <2>1. /\ spc[p] \in {"connect", "recv"} /\ UNCHANGED <<name, success, exists>> /\ ~success[p]
      BY <1>2, <1>s DEF ConnectData, DiskFull, ReceiveFails, Steps, TypeOK
    <2>2. spc'[p] = "cleanup" \/ (spc'[p] = "gone" /\ line'[p] = "lost")
      <3>1. CASE DiskFull(p) \/ ReceiveFails(p)
        BY <3>1 DEF DiskFull, ReceiveFails, Write, TypeOK
      <3>2. CASE ConnectData(p)
        <4>1. name[p] \notin failed
          BY <1>o, <2>1
        <4> QED
          BY <1>2, <3>2, <4>1 DEF ConnectData, Write, TypeOK
      <3> QED
        BY <1>2, <3>1, <3>2
    <2>3. ASSUME NEW q \in Phones, (Live(q))' PROVE name'[q] \notin failed'
      <3>1. q # p
        BY <2>1, <2>2, <2>3
      <3>2. name[q] # name[p]
        <4>1. Owner(p)
          BY <2>1 DEF Owner
        <4>2. Owner(q)
          BY <1>f, <2>3, <3>1 DEF Owner
        <4> QED
          BY <3>1, <4>1, <4>2 DEF FileInv, Apart
      <3> QED
        BY <1>2, <1>f, <1>o, <2>3, <3>1, <3>2
    <2>4. ASSUME NEW n \in failed' \cap exists' PROVE Abandoned(n)'
      <3>1. CASE n = name[p]
        BY <2>1, <2>2, <3>1 DEF Abandoned
      <3>2. CASE n # name[p]
        <4>1. PICK q \in Phones : name[q] = n /\ Left(q)
          BY <1>2, <1>o, <2>1, <2>4, <3>2
        <4> QED
          BY <1>f, <3>2, <4>1 DEF Abandoned
      <3> QED
        BY <3>1, <3>2
    <2> QED
      BY <1>l, <2>3, <2>4
  <1>3. ASSUME failed' = failed, exists' \subseteq exists, (Live(p))' => Live(p) /\ name'[p] = name[p],
               (Left(p) /\ name[p] \in exists') =>
                   spc'[p] = spc[p] /\ name'[p] = name[p] /\ success'[p] = success[p]
        PROVE  FailedInv'
    <2>1. ASSUME NEW q \in Phones, (Live(q))' PROVE name'[q] \notin failed'
      BY <1>3, <1>f, <1>o, <2>1
    <2>2. ASSUME NEW n \in failed' \cap exists' PROVE Abandoned(n)'
      <3>1. PICK q \in Phones : name[q] = n /\ Left(q)
        BY <1>3, <1>o, <2>2
      <3> QED
        BY <1>3, <1>f, <1>k, <2>2, <3>1 DEF Abandoned
    <2> QED
      BY <1>l, <2>1, <2>2
  <1>4. CASE Cleanup(p)
    <2>1. /\ failed' = failed /\ exists' \subseteq exists /\ name' = name /\ success' = success
          /\ spc[p] = "cleanup" /\ spc'[p] = "cmd"
          /\ ~success[p] => exists' = exists \ {name[p]}
      BY <1>4 DEF Cleanup, TypeOK
    <2> QED
      BY <1>3, <2>1
  <1>13. CASE Stalled(p)
    <2>1. /\ failed' = failed \cup {name[p]} /\ exists' = exists \ {name[p]}
          /\ name' = name /\ success' = success /\ ~success[p]
          /\ spc[p] = "recv" /\ spc'[p] = "timedout"
      BY <1>13, <1>s DEF Stalled, Steps, TypeOK
    <2>2. ASSUME NEW q \in Phones, (Live(q))' PROVE name'[q] \notin failed'
      <3>1. q # p
        BY <2>1, <2>2
      <3>2. Owner(p) /\ Owner(q)
        BY <1>f, <2>1, <2>2, <3>1 DEF Owner
      <3>3. name[q] # name[p]
        BY <3>1, <3>2 DEF FileInv, Apart
      <3> QED
        BY <1>f, <1>o, <2>1, <2>2, <3>1, <3>3
    <2>3. ASSUME NEW n \in failed' \cap exists' PROVE Abandoned(n)'
      <3>1. n \in failed \cap exists /\ n # name[p]
        BY <2>1, <2>3
      <3>2. PICK q \in Phones : name[q] = n /\ Left(q)
        BY <1>o, <3>1
      <3> QED
        BY <1>f, <3>1, <3>2 DEF Abandoned
    <2> QED
      BY <1>l, <2>2, <2>3
  <1>5. CASE ConnectData(p) /\ failed' = failed
    <2>1. /\ UNCHANGED <<name, success, exists>> /\ spc[p] = "connect"
      BY <1>5 DEF ConnectData
    <2> QED
      BY <1>3, <1>5, <2>1
  <1>6. CASE Phone(p) \/ CopyFails(p) \/ LineLost(p) \/ Receive(p)
    <2>1. UNCHANGED <<name, success, exists, failed, spc>>
      BY <1>6 DEF Phone, SendPort, ReadPort, ReadStou, CopyPiece, CopyDone,
         ReadAnswer, ControlThrows, Quit, Conclude, QuitThrows, serverVars, CopyFails, LineLost, Receive
    <2> QED
      BY <1>3, <2>1
  <1>7. CASE HandlePort(p) \/ HandleQuit(p) \/ EndOfCommands(p) \/ TimedOut(p) \/ Analyse(p)
    <2>1. UNCHANGED <<name, success, exists, failed>> /\ spc[p] \in {"cmd", "timedout", "analyse"}
      BY <1>7 DEF HandlePort, HandleQuit, Command, EndOfCommands, TimedOut, Analyse
    <2>2. spc'[p] \in {"cmd", "gone", "cleanup"}
      BY <1>7 DEF HandlePort, HandleQuit, EndOfCommands, TimedOut, Analyse, Write, TypeOK
    <2> QED
      BY <1>3, <2>1, <2>2
  <1>8. CASE HandleStou(p)
    <2>1. /\ UNCHANGED <<exists, failed>> /\ spc[p] = "cmd" /\ spc'[p] = "stat" /\ ~success'[p]
      BY <1>8 DEF HandleStou, Command, TypeOK
    <2> QED
      BY <1>3, <2>1
  <1>9. CASE Stat(p)
    <2>1. /\ UNCHANGED <<exists, failed, success>> /\ spc[p] = "stat" /\ spc'[p] \in {"stat", "create"}
          /\ ~success[p]
      BY <1>9, <1>s DEF Stat, TypeOK, Steps
    <2> QED
      BY <1>3, <2>1
  <1>10. CASE ReceiveEnd(p)
    <2>1. /\ UNCHANGED <<exists, failed, name>> /\ spc[p] = "recv"
      BY <1>10 DEF ReceiveEnd
    <2> QED
      BY <1>3, <2>1
  <1>11. DiskFull(p) \/ ReceiveFails(p) => failed' = failed \cup {name[p]}
    BY DEF DiskFull, ReceiveFails
  <1>12. ConnectData(p) => failed' = failed \/ failed' = failed \cup {name[p]}
    BY DEF ConnectData
  <1> QED
    BY <1>1, <1>2, <1>4, <1>5, <1>6, <1>7, <1>8, <1>9, <1>10, <1>11, <1>12, <1>13
    DEF Step, Server, Fault

-----------------------------------------------------------------------------
\* What the other phones sent, stored and were told is left alone.
LEMMA WholeOfOthers ==
  ASSUME TypeOK, FileInv, NEW p \in Phones, Step(p), NEW q \in Phones \ {p}, Whole(q), Answered(q)
  PROVE  Whole(q)' /\ Answered(q)'
  <1>1. /\ cpc'[q] = cpc[q] /\ tries'[q] = tries[q] /\ pos'[q] = pos[q]
        /\ last'[q] = last[q] /\ outcome'[q] = outcome[q]
        /\ replies'[q] = replies[q] /\ data'[q] = data[q]
        /\ spc'[q] = spc[q] /\ name'[q] = name[q] /\ success'[q] = success[q]
    BY Frame DEF OthersKept
  <1>2. Owner(q) => content'[name[q]] = content[name[q]]
    BY OwnFileOnly DEF FilesKept, Apart, Steps, FileInv
  <1>3. success[q] \/ spc[q] = "recv" => Owner(q)
    BY DEF Owner
  <1>4. Whole(q)'
    BY <1>1, <1>2, <1>3 DEF Whole, Stream, Arriving, Stored, Honest
  <1>5. Answered(q)'
    BY <1>1 DEF Answered
  <1> QED
    BY <1>4, <1>5

\* The input stream: nothing is taken before the copy, and only the whole of it
\* is followed by an orderly close on the first attempt.
LEMMA StreamKept ==
  ASSUME TypeOK, TypeOK', NEW p \in Phones, Step(p), Dialogue(p), tries[p] = 0, tries'[p] = 0, Stream(p)
  PROVE  Stream(p)'
  <1> USE DEF Stream
  <1>0. data[p] \in Connections
    BY BufferTyped
  <1>1. CASE SendPort(p)
    BY <1>1 DEF SendPort, TypeOK
  <1>2. CASE ReadPort(p)
    BY <1>2 DEF ReadPort, TypeOK
  <1>3. CASE ReadStou(p)
    <2>1. data'[p].st = "closed" => data[p].st = "closed"
      BY <1>3 DEF ReadStou, StopListening, TypeOK
    <2>2. pos' = pos /\ cpc[p] = "stou"
      BY <1>3 DEF ReadStou
    <2> QED
      BY <2>1, <2>2
  <1>4. CASE CopyPiece(p)
    <2>1. cpc' = cpc /\ cpc[p] = "copy" /\ data[p].st = "up"
      BY <1>4 DEF CopyPiece
    <2>2. data'[p].st = data[p].st
      BY <1>4, <1>0 DEF CopyPiece, TypeOK, Connections
    <2> QED
      BY <2>1, <2>2
  <1>5. CASE CopyDone(p)
    BY <1>5 DEF CopyDone, TypeOK
  <1>6. CASE ReadAnswer(p) \/ Quit(p) \/ Conclude(p) \/ QuitThrows(p)
    <2>1. pos' = pos /\ data' = data /\ cpc'[p] \in {"end", "quit", "over"}
      BY <1>6 DEF ReadAnswer, Quit, Conclude, QuitThrows, TypeOK
    <2> QED
      BY <2>1
  <1>7. CASE ControlThrows(p) \/ CopyFails(p)
    <2>1. tries'[p] = tries[p] + 1
      BY <1>7 DEF ControlThrows, CopyFails, NextAttempt, TypeOK
    <2> QED
      BY <2>1
  <1>8. CASE Server(p) \/ LineLost(p) \/ DiskFull(p) \/ Stalled(p)
    <2>1. UNCHANGED <<cpc, pos>>
      BY <1>8 DEF LineLost, DiskFull, Stalled, Server, HandlePort, HandleStou, HandleQuit, Command,
         EndOfCommands, Stat, Create, ConnectData, Receive, ReceiveEnd, ReceiveFails, TimedOut, Analyse,
         Cleanup, phoneVars
    <2>2. data'[p].st = "closed" => data[p].st = "closed"
      <3>1. CASE ConnectData(p) BY <3>1 DEF ConnectData, TypeOK
      <3>2. CASE Receive(p) BY <3>2, <1>0 DEF Receive, TypeOK, Connections
      <3>3. CASE DiskFull(p) BY <3>3 DEF DiskFull, TypeOK
      <3>4. CASE Stalled(p) BY <3>4, <1>0 DEF Stalled, TypeOK, Connections
      <3>5. CASE UNCHANGED data BY <3>5
      <3> QED
        BY <1>8, <3>1, <3>2, <3>3, <3>4, <3>5 DEF LineLost, Server, HandlePort, HandleStou, HandleQuit,
           Command, EndOfCommands, Stat, Create, ReceiveEnd, ReceiveFails, TimedOut, Analyse, Cleanup
    <2> QED
      BY <2>1, <2>2
  <1> QED
    BY <1>1, <1>2, <1>3, <1>4, <1>5, <1>6, <1>7, <1>8 DEF Step, Phone, Fault

\* On the first attempt the file and the pieces in flight are the capture so far.
LEMMA ArrivingKept ==
  ASSUME TypeOK, TypeOK', NEW p \in Phones, Step(p), Dialogue(p), Steps(p), File(p),
         tries[p] = 0, tries'[p] = 0, Stream(p), Arriving(p)
  PROVE  Arriving(p)'
  <1> DEFINE b == data[p].buf
             c == content[name[p]]
  <1>0. b \in Seq(Pieces)
    BY BufferTyped
  <1>t. spc[p] \in {"connect", "recv"} => name[p] \in Names /\ c \in Seq(Pieces)
    BY DEF Steps, Owner, TypeOK
  <1>1. CASE ConnectData(p)
    <2>1. UNCHANGED <<content, name, pos, cpc>> /\ spc[p] = "connect"
      BY <1>1 DEF ConnectData, phoneVars
    <2>2. spc'[p] = "recv" => cpc[p] \in {"port", "stou"} /\ data'[p].buf = <<>>
      BY <1>1 DEF ConnectData, Write, TypeOK, Listening
    <2>3. c = <<>> /\ Len(c) = 0
      BY <1>t, <2>1, EmptySeq, LenProperties DEF File
    <2>4. cpc[p] \in {"port", "stou"} => pos[p] = 0
      BY DEF Stream
    <2> QED
      BY <2>1, <2>2, <2>3, <2>4 DEF Arriving
  <1>2. CASE CopyPiece(p)
    <2> DEFINE e == [by |-> p, at |-> pos[p] + 1]
    <2>1. /\ UNCHANGED <<spc, name, content>> /\ pos'[p] = pos[p] + 1 /\ data'[p].buf = Append(b, e)
          /\ pos[p] \in Nat
      BY SMTT(30), <1>2, <1>0, UploadAssumption DEF CopyPiece, serverVars, TypeOK, Connections
    <2>2. /\ Len(b) \in Nat /\ DOMAIN b = 1..Len(b) /\ Len(Append(b, e)) = Len(b) + 1
          /\ DOMAIN Append(b, e) = 1..(Len(b) + 1) /\ Append(b, e)[Len(b) + 1] = e
          /\ \A i \in 1..Len(b) : Append(b, e)[i] = b[i]
          /\ e.at = pos[p] + 1
      BY <1>0
    <2>3. CASE spc[p] = "recv"
      <3>1. Len(c) \in Nat
        BY <1>t, <2>3, LenProperties
      <3>2. /\ Len(c) + Len(b) = pos[p]
            /\ \A i \in DOMAIN c : c[i].at = i
            /\ \A i \in 1..Len(b) : b[i].at = Len(c) + i
        BY <2>2, <2>3 DEF Arriving
      <3> HIDE DEF b, c, e
      <3>3. ASSUME NEW i \in 1..(Len(b) + 1)
            PROVE  Append(b, e)[i].at = Len(c) + i
        <4>1. CASE i = Len(b) + 1
          BY <2>1, <2>2, <3>1, <3>2, <4>1
        <4>2. CASE i \in 1..Len(b)
          BY <2>2, <3>2, <4>2
        <4> QED
          BY <2>2, <4>1, <4>2
      <3>4. Len(c) + (Len(b) + 1) = pos[p] + 1
        BY <2>1, <2>2, <3>1, <3>2
      <3> QED
        BY <2>1, <2>2, <3>2, <3>3, <3>4 DEF Arriving, c
    <2>4. CASE spc[p] # "recv"
      BY <2>1, <2>4 DEF Arriving
    <2> QED
      BY <2>3, <2>4
  <1>3. CASE Receive(p)
    <2>1. /\ UNCHANGED <<spc, name, pos>> /\ spc[p] = "recv" /\ data'[p].buf = Tail(b) /\ b # <<>>
          /\ content'[name[p]] = Append(c, Head(b)) /\ c \in Seq(Pieces)
      BY <1>3, <1>0, <1>t DEF Receive, phoneVars, TypeOK, Connections
    <2>2. /\ Len(b) \in Nat /\ DOMAIN b = 1..Len(b) /\ Len(b) >= 1 /\ Head(b) = b[1]
          /\ Len(Tail(b)) = Len(b) - 1
          /\ DOMAIN Tail(b) = 1..(Len(b) - 1) /\ \A i \in 1..(Len(b) - 1) : Tail(b)[i] = b[i + 1]
      BY <1>0, <2>1, TailAt
    <2>3. b[1] \in Pieces
      BY <1>0, <2>2
    <2>4. /\ Len(c) \in Nat /\ DOMAIN c = 1..Len(c) /\ DOMAIN Append(c, b[1]) = 1..(Len(c) + 1)
          /\ Len(Append(c, b[1])) = Len(c) + 1
          /\ Append(c, b[1])[Len(c) + 1] = b[1] /\ \A i \in 1..Len(c) : Append(c, b[1])[i] = c[i]
      BY <2>1, <2>3
    <2>5. /\ Len(c) + Len(b) = pos[p]
          /\ \A i \in 1..Len(c) : c[i].at = i
          /\ \A i \in 1..Len(b) : b[i].at = Len(c) + i
      BY <2>1, <2>2, <2>4 DEF Arriving
    <2> HIDE DEF b, c
    <2>6. ASSUME NEW i \in 1..(Len(c) + 1) PROVE Append(c, b[1])[i].at = i
      <3>1. CASE i = Len(c) + 1
        BY <2>2, <2>4, <2>5, <3>1
      <3>2. CASE i \in 1..Len(c)
        BY <2>4, <2>5, <3>2
      <3> QED
        BY <2>4, <3>1, <3>2
    <2>7. ASSUME NEW i \in 1..(Len(b) - 1) PROVE Tail(b)[i].at = (Len(c) + 1) + i
      BY <2>2, <2>4, <2>5
    <2>8. (Len(c) + 1) + (Len(b) - 1) = pos[p]
      BY <2>2, <2>4, <2>5
    <2> QED
      BY <2>1, <2>2, <2>4, <2>6, <2>7, <2>8 DEF Arriving
  <1>4. CASE Create(p)
    <2>1. spc'[p] \in {"connect", "cmd", "gone"}
      BY <1>4 DEF Create, Write, TypeOK
    <2> QED
      BY <2>1 DEF Arriving
  <1>5. CASE ReadStou(p)
    <2>1. /\ cpc[p] = "stou" /\ UNCHANGED <<pos, line, spc, name, content>>
          /\ ReadOff(p) /\ last'[p] = replies[p][1]
          /\ replies[p][1].code = 150 => data' = data
      BY <1>5, GetReplyEffect DEF ReadStou, serverVars
    <2>2. First(p)
      BY <2>1, QueueLens DEF Dialogue, ReadOff
    <2>3. spc[p] = "recv" => replies[p][1].code = 150
      BY <2>1, <2>2 DEF First
    <2> QED
      BY ZenonT(60), <2>1, <2>3 DEF Arriving
  <1>6. CASE ControlThrows(p) \/ CopyFails(p)
    <2>1. tries'[p] = tries[p] + 1
      BY <1>6 DEF ControlThrows, CopyFails, NextAttempt, TypeOK
    <2> QED
      BY <2>1
  <1>7. CASE CopyDone(p)
    <2>1. UNCHANGED <<pos, spc, name, content>>
      BY <1>7 DEF CopyDone, serverVars
    <2>2. data'[p].buf = b
      BY <1>7 DEF CopyDone, TypeOK, Connections
    <2> QED
      BY <2>1, <2>2 DEF Arriving
  <1>8. CASE \/ SendPort(p) \/ ReadPort(p) \/ ReadAnswer(p) \/ Quit(p) \/ Conclude(p)
             \/ QuitThrows(p) \/ LineLost(p)
    <2>1. UNCHANGED <<pos, data, spc, name, content>>
      BY <1>8 DEF SendPort, ReadPort, ReadAnswer, Quit, Conclude, QuitThrows, LineLost, phoneVars, serverVars
    <2> QED
      BY <2>1 DEF Arriving
  <1>9. CASE \/ HandlePort(p) \/ HandleStou(p) \/ HandleQuit(p) \/ EndOfCommands(p) \/ Stat(p)
             \/ ReceiveEnd(p) \/ ReceiveFails(p) \/ TimedOut(p) \/ Analyse(p) \/ Cleanup(p)
             \/ DiskFull(p) \/ Stalled(p)
    <2>1. spc'[p] # "recv"
      <3>t. spc \in [Phones -> ServerSteps]
        BY DEF TypeOK
      <3>1. CASE HandlePort(p) \/ HandleStou(p) \/ HandleQuit(p) \/ EndOfCommands(p) \/ Stat(p)
        BY <3>t, <3>1 DEF HandlePort, HandleStou, HandleQuit, EndOfCommands, Stat, Write
      <3>2. CASE ReceiveEnd(p) \/ ReceiveFails(p) \/ TimedOut(p) \/ Cleanup(p)
        BY <3>t, <3>2 DEF ReceiveEnd, ReceiveFails, TimedOut, Cleanup, Write
      <3>3. CASE Analyse(p)
        BY <3>t, <3>3 DEF Analyse, Write
      <3>4. CASE DiskFull(p) \/ Stalled(p)
        BY <3>t, <3>4 DEF DiskFull, Stalled, Write
      <3> QED
        BY <1>9, <3>1, <3>2, <3>3, <3>4
    <2> QED
      BY <2>1 DEF Arriving
  <1> QED
    BY <1>1, <1>2, <1>3, <1>4, <1>5, <1>6, <1>7, <1>8, <1>9 DEF Step, Phone, Server, Fault

\* A successful upload of the first attempt is the whole capture.
LEMMA StoredKept ==
  ASSUME TypeOK, TypeOK', NEW p \in Phones, Step(p), Steps(p), File(p), Stream(p), Arriving(p), Stored(p)
  PROVE  Stored(p)'
  <1>1. CASE ReceiveEnd(p)
    <2> DEFINE c == content[name[p]]
    <2>1. /\ spc[p] = "recv" /\ data[p].buf = <<>> /\ data[p].st = "closed" /\ UNCHANGED <<content, name>>
      BY <1>1 DEF ReceiveEnd
    <2>2. c \in Seq(Pieces) /\ Owner(p)
      BY <2>1 DEF Steps, Owner, TypeOK
    <2>3. Len(data[p].buf) = 0
      BY <2>1
    <2>4. Len(c) = Chunks /\ \A i \in DOMAIN c : c[i].at = i /\ c[i].by = p
      BY <2>1, <2>2, <2>3, LenProperties DEF Stream, Arriving, File
    <2>5. \A i \in 1..Chunks : c[i] \in Pieces /\ c[i].at = i /\ c[i].by = p
      BY <2>2, <2>4
    <2>6. \A i \in 1..Chunks : c[i] = [by |-> p, at |-> i]
      BY <2>5 DEF Pieces
    <2>7. c = [i \in 1..Chunks |-> c[i]]
      BY <2>2, <2>4
    <2> HIDE DEF c
    <2>8. c = Capture(p)
      BY <2>6, <2>7 DEF Capture
    <2> QED
      BY <2>1, <2>8 DEF Stored, c
  <1>2. CASE ~ ReceiveEnd(p)
    <2>1. success'[p] => success[p]
      BY ZenonT(60), <1>2 DEF Step, Phone, SendPort, ReadPort, ReadStou, CopyPiece, CopyDone,
         ReadAnswer, ControlThrows, Quit, Conclude, QuitThrows, serverVars, CopyFails, LineLost,
         DiskFull, Stalled, Fault, Server, HandlePort, HandleStou, HandleQuit, Command, EndOfCommands,
         Stat, Create, ConnectData, Receive, ReceiveFails, TimedOut, Analyse, Cleanup, TypeOK
    <2>2. ASSUME success'[p] PROVE content' = content /\ name'[p] = name[p]
      <3>1. spc[p] \in {"analyse", "cleanup", "cmd", "gone"} /\ Owner(p)'
        BY <2>1, <2>2 DEF Steps, Owner
      <3>2. Calm(p) \/ CopyPiece(p)
        BY <3>1, CalmSteps DEF Create, ConnectData, Receive
      <3> QED
        BY <3>1, <3>2 DEF Calm, CopyPiece, serverVars
    <2> QED
      BY <2>1, <2>2 DEF Stored
  <1> QED
    BY <1>1, <1>2

-----------------------------------------------------------------------------
\* Until an attempt has failed no reply speaks of anything but that capture.
LEMMA HonestKept ==
  ASSUME TypeOK, TypeOK', NEW p \in Phones, Step(p), Steps(p), Stored(p), Honest(p)
  PROVE  Honest(p)'
  <1>d. /\ replies[p] \in Seq(Replies) /\ replies'[p] \in Seq(Replies)
        /\ DOMAIN replies[p] = 1..Len(replies[p]) /\ DOMAIN replies'[p] = 1..Len(replies'[p])
        /\ Len(replies[p]) \in Nat /\ Len(replies'[p]) \in Nat
    BY LenProperties DEF TypeOK
  <1>1. CASE ReadPort(p) \/ ReadStou(p) \/ ReadAnswer(p)
    <2>1. ReadOff(p) /\ last'[p] = replies[p][1]
      BY <1>1, GetReplyEffect DEF ReadPort, ReadStou, ReadAnswer
    <2>2. last'[p].of \in {<<>>, Capture(p)}
      BY <1>d, <2>1 DEF Honest, ReadOff
    <2>3. ASSUME NEW i \in DOMAIN replies'[p] PROVE replies'[p][i].of \in {<<>>, Capture(p)}
      <3>1. i + 1 \in DOMAIN replies[p] /\ replies'[p][i] = replies[p][i + 1]
        BY <1>d, <2>1 DEF ReadOff
      <3> QED
        BY <3>1 DEF Honest
    <2> QED
      BY <2>2, <2>3 DEF Honest
  <1>2. CASE Conclude(p)
    <2>1. replies[p] # <<>> /\ replies'[p] = Tail(replies[p]) /\ last' = last
      BY <1>2 DEF Conclude, TypeOK
    <2>2. /\ Len(replies[p]) >= 1 /\ Len(replies'[p]) = Len(replies[p]) - 1
          /\ \A i \in 1..(Len(replies[p]) - 1) : replies'[p][i] = replies[p][i + 1]
      BY <1>d, <2>1, TailAt
    <2> QED
      BY <1>d, <2>1, <2>2 DEF Honest
  <1>3. CASE LineLost(p)
    <2>1. replies'[p] = <<>> /\ last' = last
      BY <1>3 DEF LineLost, phoneVars, TypeOK
    <2> QED
      BY <2>1 DEF Honest
  <1>4. CASE replies' = replies /\ last' = last
    BY <1>4 DEF Honest
  <1>5. ASSUME NEW reply \in Replies, NEW next \in ServerSteps, Write(p, reply, next), last' = last,
               reply.of \in {<<>>, Capture(p)}
        PROVE  Honest(p)'
    <2>1. Written(p, reply, next)
      BY <1>5, WriteEffect
    <2>2. CASE line[p] = "lost"
      BY <1>5, <2>1, <2>2 DEF Honest, Written
    <2>3. CASE line[p] # "lost"
      <3>1. /\ Len(replies'[p]) = Len(replies[p]) + 1
            /\ replies'[p][Len(replies[p]) + 1] = reply
            /\ \A i \in 1..Len(replies[p]) : replies'[p][i] = replies[p][i]
        BY <2>1, <2>3 DEF Written
      <3>2. ASSUME NEW i \in DOMAIN replies'[p] PROVE replies'[p][i].of \in {<<>>, Capture(p)}
        <4>1. CASE i \in DOMAIN replies[p]
          BY <1>d, <3>1, <4>1 DEF Honest
        <4>2. CASE i = Len(replies[p]) + 1
          BY <1>5, <3>1, <4>2
        <4> QED
          BY <1>d, <3>1, <4>1, <4>2
      <3> QED
        BY <1>5, <3>2 DEF Honest
    <2> QED
      BY <2>2, <2>3
  <1>6. CASE Analyse(p)
    <2>1. spc[p] = "analyse" /\ last' = last
      BY <1>6 DEF Analyse, phoneVars
    <2>2. CASE \E found \in {<<>>, content[name[p]]} :
                  Write(p, [code |-> 226, of |-> found], "cleanup")
      <3>1. PICK found \in {<<>>, content[name[p]]} :
               Write(p, [code |-> 226, of |-> found], "cleanup")
        BY <2>2
      <3>2. [code |-> 226, of |-> found] \in Replies /\ found \in {<<>>, Capture(p)}
        BY ZenonT(60), <2>1, AnalysisTyped DEF Stored
      <3> QED
        BY <1>5, <2>1, <3>1, <3>2, ServerWrites
    <2>3. CASE UNCHANGED replies
      BY <2>1, <2>3 DEF Honest
    <2> QED
      BY <1>6, <2>2, <2>3 DEF Analyse
  <1>7. CASE Server(p) \/ DiskFull(p) \/ Stalled(p)
    <2>1. last' = last
      BY <1>7, RepliesGrow
    <2>2. \/ Analyse(p) \/ replies' = replies
          \/ \E code \in {150, 200, 221, 421, 425, 426, 451, 553},
                next \in {"cmd", "recv", "cleanup", "gone"} : Write(p, Reply(code), next)
      BY <1>7 DEF DiskFull, Stalled, Server, HandlePort, HandleStou, HandleQuit, EndOfCommands, Stat,
         Create, ConnectData, Receive, ReceiveEnd, ReceiveFails, TimedOut, Cleanup
    <2>3. CASE \E code \in {150, 200, 221, 421, 425, 426, 451, 553},
                  next \in {"cmd", "recv", "cleanup", "gone"} : Write(p, Reply(code), next)
      <3>1. PICK code \in {150, 200, 221, 421, 425, 426, 451, 553},
                 next \in {"cmd", "recv", "cleanup", "gone"} : Write(p, Reply(code), next)
        BY <2>3
      <3>2. Reply(code) \in Replies /\ next \in ServerSteps
        BY ServerWrites
      <3>3. Reply(code).of = <<>>
        BY DEF Reply
      <3> QED
        BY <1>5, <2>1, <3>1, <3>2, <3>3
    <2> QED
      BY <1>4, <1>6, <2>1, <2>2, <2>3
  <1>8. CASE \/ SendPort(p) \/ CopyPiece(p) \/ CopyDone(p) \/ ControlThrows(p) \/ Quit(p)
             \/ QuitThrows(p) \/ CopyFails(p)
    BY <1>4, <1>8 DEF SendPort, CopyPiece, CopyDone, ControlThrows, Quit, QuitThrows, CopyFails
  <1> QED
    BY <1>1, <1>2, <1>3, <1>7, <1>8 DEF Step, Phone, Fault

\* What a step does to the count of attempts and to the outcome.
LEMMA OutcomeSteps ==
  ASSUME TypeOK, NEW p \in Phones, Step(p)
  PROVE  /\ tries'[p] = tries[p] \/ tries'[p] = tries[p] + 1
         /\ \/ outcome' = outcome
            \/ cpc[p] # "over" /\ outcome'[p].is = "error"
            \/ Conclude(p)
         /\ cpc[p] = "over" => cpc'[p] = "over" /\ tries'[p] = tries[p]
  <1>1. CASE ControlThrows(p) \/ CopyFails(p)
    <2>1. cpc[p] # "over" /\ NextAttempt(p)
      BY <1>1 DEF ControlThrows, CopyFails
    <2>2. tries'[p] = tries[p] + 1 /\ (outcome' = outcome \/ outcome' = [outcome EXCEPT ![p].is = "error"])
      BY <2>1 DEF NextAttempt, TypeOK
    <2>3. [outcome EXCEPT ![p].is = "error"][p].is = "error"
      BY DEF TypeOK, Outcomes
    <2> QED
      BY <2>1, <2>2, <2>3
  <1>2. CASE QuitThrows(p)
    <2>1. cpc[p] # "over" /\ tries' = tries /\ outcome' = [outcome EXCEPT ![p].is = "error"]
      BY <1>2 DEF QuitThrows
    <2>2. [outcome EXCEPT ![p].is = "error"][p].is = "error"
      BY DEF TypeOK, Outcomes
    <2> QED
      BY <2>1, <2>2
  <1>3. CASE Conclude(p)
    BY <1>3 DEF Conclude
  <1>4. CASE Server(p) \/ LineLost(p) \/ DiskFull(p) \/ Stalled(p)
    BY <1>4 DEF LineLost, DiskFull, Stalled, Server, HandlePort, HandleStou, HandleQuit, Command,
         EndOfCommands, Stat, Create, ConnectData, Receive, ReceiveEnd, ReceiveFails, TimedOut, Analyse,
         Cleanup, phoneVars
  <1>5. CASE \/ SendPort(p) \/ ReadPort(p) \/ ReadStou(p) \/ CopyPiece(p) \/ CopyDone(p)
             \/ ReadAnswer(p) \/ Quit(p)
    BY <1>5 DEF SendPort, ReadPort, ReadStou, CopyPiece, CopyDone, ReadAnswer, Quit
  <1> QED
    BY <1>1, <1>2, <1>3, <1>4, <1>5 DEF Step, Phone, Fault

\* A reading is concluded from the reply of the first attempt, when the process
\* has ended after a complete upload.
LEMMA ConcludeReading ==
  ASSUME TypeOK, NEW p \in Phones, Conclude(p), Dialogue(p), Whole(p), outcome'[p].is = "reading"
  PROVE  /\ tries[p] = 0 /\ outcome'[p].of = Capture(p) /\ success[p] /\ spc[p] = "gone"
         /\ UNCHANGED <<tries, success, spc>> /\ cpc'[p] = "over"
  <1>1. /\ cpc[p] = "quit" /\ UNCHANGED <<tries, success, spc>> /\ cpc'[p] = "over"
        /\ replies[p] # <<>>
    BY DEF Conclude, serverVars, TypeOK
  <1>2. last[p].code = 226 /\ last[p].of # <<>> /\ outcome'[p].of = last[p].of
    BY DEF Conclude, TypeOK
  <1>3. Len(replies[p]) > 0 /\ tries[p] \in Nat /\ line[p] \in {"up", "lost"}
    BY <1>1, QueueLens
  <1>4. line[p] = "up" /\ tries[p] = 0
    BY <1>1, <1>2, <1>3 DEF Dialogue
  <1>5. First(p)
    BY <1>1, <1>4 DEF Dialogue
  <1>6. spc[p] = "gone" /\ success[p]
    BY <1>1, <1>2, <1>3, <1>5 DEF First
  <1>7. last[p].of = Capture(p)
    BY <1>2, <1>4 DEF Whole, Honest
  <1> QED
    BY <1>1, <1>2, <1>4, <1>6, <1>7

\* A reading that was given stays justified.
LEMMA AnsweredKept ==
  ASSUME TypeOK, TypeOK', NEW p \in Phones, Step(p), Steps(p), Dialogue(p), Whole(p), Answered(p)
  PROVE  Answered(p)'
  <1>1. CASE Conclude(p)
    BY <1>1, ConcludeReading DEF Answered
  <1>2. CASE outcome' = outcome
    <2>1. outcome[p].is = "reading" => UNCHANGED <<success, spc>>
      <3>1. ASSUME outcome[p].is = "reading" PROVE cpc[p] = "over" /\ spc[p] = "gone"
        BY <3>1 DEF Answered
      <3>2. CASE Phone(p) \/ CopyFails(p) \/ LineLost(p)
        BY <3>2 DEF Phone, SendPort, ReadPort, ReadStou, CopyPiece, CopyDone, ReadAnswer,
           ControlThrows, Quit, Conclude, QuitThrows, CopyFails, LineLost, serverVars
      <3>3. CASE Server(p) \/ DiskFull(p) \/ Stalled(p)
        BY <3>1, <3>3 DEF DiskFull, Stalled, Server, HandlePort, HandleStou, HandleQuit, Command,
           EndOfCommands, Stat, Create, ConnectData, Receive, ReceiveEnd, ReceiveFails, TimedOut,
           Analyse, Cleanup
      <3> QED
        BY <3>2, <3>3 DEF Step, Fault
    <2>2. cpc[p] = "over" => cpc'[p] = "over" /\ tries'[p] = tries[p]
      BY OutcomeSteps
    <2> QED
      BY <1>2, <2>1, <2>2 DEF Answered
  <1>3. CASE outcome'[p].is = "error"
    BY <1>3 DEF Answered
  <1> QED
    BY <1>1, <1>2, <1>3, OutcomeSteps

\* The own capture, for every step.
LEMMA WholeKept ==
  ASSUME TypeOK, TypeOK', NEW p \in Phones, Step(p), Steps(p), File(p), Dialogue(p), Whole(p)
  PROVE  Whole(p)'
  <1>1. SUFFICES ASSUME tries'[p] = 0
                 PROVE  Stream(p)' /\ Arriving(p)' /\ Stored(p)' /\ Honest(p)'
    BY DEF Whole
  <1>2. tries[p] = 0
    BY <1>1, OutcomeSteps, QueueLens
  <1>3. Stream(p) /\ Arriving(p) /\ Stored(p) /\ Honest(p)
    BY <1>2 DEF Whole
  <1> QED
    BY <1>1, <1>2, <1>3, StreamKept, ArrivingKept, StoredKept, HonestKept

-----------------------------------------------------------------------------
\* The inductive invariant.
IInv == TypeOK /\ DialogueInv /\ FileInv /\ FailedInv /\ WholeInv

\* The invariant holds at the start.
LEMMA InitInv == Init => IInv
  <1> SUFFICES ASSUME Init PROVE IInv
    OBVIOUS
  <1>1. TypeOK
    <2>1. <<>> \in Seq(Commands) /\ <<>> \in Seq(Replies) /\ <<>> \in Seq(Pieces)
      BY EmptySeq
    <2>2. Reply(0) \in Replies /\ [is |-> "pending", of |-> <<>>] \in Outcomes /\ NoData \in Connections
      BY <2>1 DEF Reply, Replies, Codes, Outcomes, NoData, Connections
    <2>3. 0 \in 0..MaxTries /\ 0 \in 0..Chunks /\ 0 \in 0..MaxNames
      BY UploadAssumption
    <2> QED
      BY <2>1, <2>2, <2>3 DEF Init, TypeOK, PhoneSteps, ServerSteps
  <1>2. DialogueInv
    <2>1. \A p \in Phones : /\ cpc[p] = "send" /\ spc[p] = "cmd" /\ tries[p] = 0 /\ line[p] = "up"
                            /\ Len(cmds[p]) = 0 /\ Len(replies[p]) = 0 /\ outcome[p].is = "pending"
      BY DEF Init
    <2> QED
      BY <2>1, UploadAssumption DEF DialogueInv, Dialogue, First, NoCmd
  <1>3. FileInv
    <2>1. \A p \in Phones : spc[p] = "cmd" /\ ~success[p] /\ data[p].buf = <<>>
      BY DEF Init, NoData
    <2>2. exists = {}
      BY DEF Init
    <2> QED
      BY <2>1, <2>2 DEF FileInv, Steps, Buffer, File, Owner, Apart, FilesAreNotMixed
  <1>4. FailedInv
    BY DEF Init, FailedInv
  <1>5. WholeInv
    <2>1. \A p \in Phones : /\ spc[p] = "cmd" /\ ~success[p] /\ data[p].st = "none" /\ pos[p] = 0
                            /\ replies[p] = <<>> /\ last[p].of = <<>> /\ outcome[p].is = "pending"
      BY DEF Init, NoData, Reply
    <2>2. ASSUME NEW p \in Phones PROVE Whole(p)
      <3>1. DOMAIN replies[p] = {}
        BY <2>1
      <3> QED
        BY <2>1, <3>1 DEF Whole, Stream, Arriving, Stored, Honest
    <2> QED
      BY <2>1, <2>2 DEF WholeInv, Answered
  <1> QED
    BY <1>1, <1>2, <1>3, <1>4, <1>5 DEF IInv

\* Every step keeps the invariant.
LEMMA NextInv == IInv /\ [Next]_vars => IInv'
  <1> SUFFICES ASSUME IInv, [Next]_vars PROVE IInv'
    OBVIOUS
  <1>1. CASE UNCHANGED vars
    <2> USE <1>1 DEF vars, phoneVars, serverVars, IInv
    <2>1. TypeOK'
      BY DEF TypeOK
    <2>2. DialogueInv'
      BY DEF DialogueInv, Dialogue, First, Later, Transfer, NoCmd, OneCmd
    <2>3. FileInv'
      BY DEF FileInv, Steps, Owner, Buffer, File, Apart, FilesAreNotMixed
    <2>4. FailedInv'
      BY DEF FailedInv, Abandoned
    <2>5. WholeInv'
      BY DEF WholeInv, Whole, Stream, Arriving, Stored, Honest, Answered
    <2> QED
      BY <2>1, <2>2, <2>3, <2>4, <2>5
  <1>2. ASSUME NEW p \in Phones, Step(p) PROVE IInv'
    <2>1. TypeOK /\ DialogueInv /\ FileInv /\ FailedInv /\ WholeInv
      BY DEF IInv
    <2>2. Dialogue(p) /\ Steps(p) /\ File(p) /\ Whole(p) /\ Answered(p)
      BY <2>1 DEF DialogueInv, FileInv, WholeInv
    <2>3. TypeOK'
      BY <1>2, <2>1, <2>2, PhoneTyped, ServerTyped, FaultTyped DEF Step, Dialogue
    <2>4. Dialogue(p)'
      BY <1>2, <2>1, <2>2, PhoneDialogue, ServerDialogue, FaultDialogue DEF Step
    <2>5. \A q \in Phones \ {p} : Dialogue(q)'
      BY <1>2, <2>1, DialogueOfOthers DEF DialogueInv
    <2>6. DialogueInv'
      BY <2>4, <2>5 DEF DialogueInv
    <2>7. FileInv' /\ FailedInv'
      BY <1>2, <2>1, <2>3, FileInvStep, FailedKept
    <2>8. Whole(p)' /\ Answered(p)'
      BY <1>2, <2>1, <2>2, <2>3, WholeKept, AnsweredKept
    <2>9. \A q \in Phones \ {p} : Whole(q)' /\ Answered(q)'
      BY <1>2, <2>1, WholeOfOthers DEF WholeInv
    <2>10. WholeInv'
      BY <2>8, <2>9 DEF WholeInv
    <2> QED
      BY <2>3, <2>6, <2>7, <2>10 DEF IInv
  <1> QED
    BY <1>1, <1>2 DEF Next, Step

\* The inductive invariant holds of every behaviour of the upload.
THEOREM Invariance == Spec => []IInv
  BY InitInv, NextInv, PTL DEF Spec

\* Every variable keeps its type: in particular count never passes maxTries.
THEOREM TypeCorrect == Spec => []TypeOK
  <1>1. IInv => TypeOK
    BY DEF IInv
  <1> QED
    BY <1>1, Invariance, PTL

\* Two vsftpd processes never mix their pieces in one file of the upload
\* directory, whoever wins the race for the name.
THEOREM NotMixed == Spec => []FilesAreNotMixed
  <1>1. IInv => FilesAreNotMixed
    BY DEF IInv, FileInv
  <1> QED
    BY <1>1, Invariance, PTL

\* delete_failed_uploads leaves no file of a failed upload behind, however the
\* transfer failed, the data time-out included: only a process that died of the
\* lost connection on its way to the unlink does.
THEOREM FailedGone == Spec => []FailedUploadLeavesNoFile
  <1>1. IInv => FailedUploadLeavesNoFile
    BY DEF IInv, FailedInv, Abandoned, FailedUploadLeavesNoFile
  <1> QED
    BY <1>1, Invariance, PTL

\* The packet the phone shows comes from the whole of its own capture.
THEOREM OwnWhole == Spec => []ReadingIsOwnWholeCapture
  <1>1. IInv => ReadingIsOwnWholeCapture
    BY DEF IInv, WholeInv, Answered, ReadingIsOwnWholeCapture
  <1> QED
    BY <1>1, Invariance, PTL

\* After an attempt that threw, no later attempt of the loop yields a reading.
THEOREM FirstOnly == Spec => []OnlyFirstAttemptReads
  <1>1. IInv => OnlyFirstAttemptReads
    BY DEF IInv, WholeInv, Answered, OnlyFirstAttemptReads
  <1> QED
    BY <1>1, Invariance, PTL

\* An unlink by name hits the file of the process that unlinks, whose upload did
\* not succeed.
THEOREM OwnDeleted == Spec => OnlyOwnFileIsDeleted
  <1> DEFINE A == \A n \in Names : (n \in exists /\ n \notin exists') =>
          \E p \in Phones : /\ name[p] = n /\ ~success[p]
                            /\ \A i \in DOMAIN content[n] : content[n][i].by = p
  <1>1. IInv /\ [Next]_vars => [A]_vars
    <2> SUFFICES ASSUME IInv, Next PROVE A
      OBVIOUS
    <2>1. PICK p \in Phones : Step(p)
      BY DEF Next, Step
    <2>2. ASSUME NEW n \in Names, n \in exists, n \notin exists'
          PROVE  \E q \in Phones : /\ name[q] = n /\ ~success[q]
                                   /\ \A i \in DOMAIN content[n] : content[n][i].by = q
      <3>1. name[p] = n /\ ~success[p] /\ Owner(p)
        BY <2>1, <2>2, Deletes DEF IInv
      <3>2. \A i \in DOMAIN content[n] : content[n][i].by = p
        BY <3>1 DEF IInv, FileInv, File
      <3> QED
        BY <3>1, <3>2
    <2> QED
      BY <2>2
  <1>2. OnlyOwnFileIsDeleted <=> [][A]_vars
    BY DEF OnlyOwnFileIsDeleted
  <1> QED
    BY <1>1, <1>2, Invariance, PTL DEF Spec

-----------------------------------------------------------------------------
Kept == {p \in Phones : \E n \in exists : content[n] = Capture(p)}
Answers == [p \in Phones |-> Told(p)]

\* Captures of different phones are different, and no capture is empty.
LEMMA Captures ==
  ASSUME NEW p \in Phones
  PROVE  /\ Capture(p) # <<>> /\ DOMAIN Capture(p) = 1..Chunks /\ 1 \in 1..Chunks /\ Chunks \in 1..Chunks
         /\ \A i \in 1..Chunks : Capture(p)[i].by = p /\ Capture(p)[i].at = i
  <1>1. DOMAIN Capture(p) = 1..Chunks /\ 1 \in 1..Chunks /\ Chunks \in 1..Chunks
    BY UploadAssumption DEF Capture
  <1>2. DOMAIN <<>> = {}
    OBVIOUS
  <1>3. \A i \in 1..Chunks : Capture(p)[i].by = p /\ Capture(p)[i].at = i
    BY DEF Capture
  <1> QED
    BY <1>1, <1>2, <1>3

\* A file of p that is a capture is the capture of p.
LEMMA OwnCapture ==
  ASSUME NEW p \in Phones, NEW q \in Phones, NEW c, \A i \in DOMAIN c : c[i].by = p, c = Capture(q)
  PROVE  p = q
  BY Captures

\* At the start nobody was told anything and nothing is kept.
LEMMA InitPromise == Init => Promise!Init
  <1> SUFFICES ASSUME Init PROVE Promise!Init
    OBVIOUS
  <1>1. \A p \in Phones : Told(p) = "pending"
    BY DEF Init, Told
  <1>2. exists = {}
    BY DEF Init
  <1> QED
    BY <1>1, <1>2 DEF Promise!Init

\* A step of one upload tells the other phones nothing.
LEMMA ToldOfOthers ==
  ASSUME TypeOK, NEW p \in Phones, Step(p), NEW q \in Phones \ {p}
  PROVE  Told(q)' = Told(q)
  BY Frame DEF OthersKept, Told

\* Every step is a step of the promise seen through Told and Kept: Receive may
\* complete a capture, Cleanup and Stalled may throw one away, the end of the
\* dialogue answers, and the rest changes neither.
LEMMA StepPromise ==
  ASSUME IInv, IInv', NEW p \in Phones, Step(p)
  PROVE  \/ UNCHANGED <<Answers, Kept>>
         \/ Kept' = Kept \cup {p} /\ Answers' = Answers
         \/ Answers[p] # "reading" /\ Kept' = Kept \ {p} /\ Answers' = Answers
         \/ /\ Answers[p] = "pending" /\ Kept' = Kept
            /\ \E a \in {"reading", "nothing", "error"} :
                  /\ a = "reading" => p \in Kept
                  /\ Answers' = [Answers EXCEPT ![p] = a]
  <1>t. TypeOK /\ TypeOK' /\ Steps(p) /\ Buffer(p) /\ File(p) /\ Dialogue(p) /\ Whole(p) /\ Answered(p)
        /\ Answered(p)'
    BY DEF IInv, FileInv, WholeInv, DialogueInv
  <1>1. CASE outcome' # outcome
    <2>1. cpc[p] # "over" /\ UNCHANGED <<exists, content>>
          /\ (outcome'[p].is = "error" \/ Conclude(p))
      <3>1. ControlThrows(p) \/ CopyFails(p) \/ QuitThrows(p) \/ Conclude(p)
        BY ZenonT(60), <1>1
        DEF Step, Phone, Fault, SendPort, ReadPort, ReadStou, CopyPiece, CopyDone, ReadAnswer, Quit,
           LineLost, DiskFull, Stalled, Server, HandlePort, HandleStou, HandleQuit, Command,
           EndOfCommands, Stat, Create, ConnectData, Receive, ReceiveEnd, ReceiveFails, TimedOut, Analyse,
           Cleanup, phoneVars
      <3>2. UNCHANGED <<exists, content>> /\ cpc[p] # "over"
        BY <3>1 DEF ControlThrows, CopyFails, QuitThrows, Conclude, serverVars
      <3> QED
        BY <1>t, <1>1, <3>2, OutcomeSteps
    <2>2. Told(p) = "pending"
      BY <1>t, <2>1 DEF Dialogue, Told
    <2>3. Kept' = Kept
      BY <2>1 DEF Kept
    <2>4. Told(p)' \in {"reading", "nothing", "error"} /\ (Told(p)' = "reading" => p \in Kept)
      <3>1. CASE outcome'[p].is = "error"
        BY <3>1 DEF Told
      <3>2. CASE Conclude(p)
        <4>1. outcome'[p].is \in {"reading", "nothing"}
          BY <1>t, <3>2 DEF Conclude, TypeOK
        <4>2. ASSUME outcome'[p].is = "reading" PROVE Told(p)' = "reading" /\ p \in Kept
          <5>1. tries[p] = 0 /\ outcome'[p].of = Capture(p) /\ success[p]
            BY <1>t, <3>2, <4>2, ConcludeReading
          <5>2. content[name[p]] = Capture(p) /\ name[p] \in exists
            BY <1>t, <5>1 DEF Whole, Stored, Steps, Owner
          <5> QED
            BY <4>2, <5>1, <5>2 DEF Told, Kept
        <4>3. ASSUME outcome'[p].is = "nothing" PROVE Told(p)' = "nothing"
          BY <4>3 DEF Told
        <4> QED
          BY <4>1, <4>2, <4>3
      <3> QED
        BY <2>1, <3>1, <3>2
    <2>5. Answers' = [Answers EXCEPT ![p] = Told(p)']
      BY <1>t, ToldOfOthers DEF Answers
    <2>6. Answers[p] = "pending"
      BY <2>2 DEF Answers
    <2> QED
      BY <2>3, <2>4, <2>5, <2>6
  <1>2. CASE outcome' = outcome
    <2>0. Answers' = Answers
      BY <1>2 DEF Answers, Told
    <2>1. CASE Receive(p)
      <3> DEFINE b == data[p].buf
                 c == content[name[p]]
      <3>1. /\ content'[name[p]] = Append(c, b[1]) /\ 1 \in DOMAIN b /\ b[1] \in Pieces
            /\ spc[p] = "recv"
        BY <1>t, <2>1, ReceiveFile
      <3>2. /\ exists' = exists /\ name' = name /\ spc' = spc
            /\ \A n \in Names : n # name[p] => content'[n] = content[n]
        BY <1>t, <2>1 DEF Receive, TypeOK
      <3>3. Owner(p) /\ name[p] \in exists /\ exists \subseteq Names /\ Owner(p)'
        BY <1>t, <3>1, <3>2 DEF Steps, Owner, TypeOK
      <3>4. ASSUME NEW q \in Phones PROVE c # Capture(q)
        <4>1. SUFFICES ASSUME c = Capture(q) PROVE FALSE
          OBVIOUS
        <4>2. p = q
          BY <1>t, <3>3, <4>1, OwnCapture DEF File
        <4>3. Chunks \in DOMAIN c /\ c[Chunks].at = Chunks
          BY <4>1, Captures
        <4>4. c[Chunks].at < b[1].at
          BY <1>t, <3>1, <4>3 DEF File
        <4>5. b[1].at \in 1..Chunks
          BY <3>1 DEF Pieces
        <4> QED
          BY <4>3, <4>4, <4>5, UploadAssumption
      <3>5. \A i \in DOMAIN content'[name[p]] : content'[name[p]][i].by = p
        <4>1. File(p)'
          BY DEF IInv, FileInv
        <4> QED
          BY <3>2, <3>3, <4>1 DEF File
      <3>6. \A q \in Phones \ {p} : content'[name[p]] # Capture(q)
        BY <3>5, OwnCapture
      <3>7. \A q \in Phones \ {p} : q \in Kept' <=> q \in Kept
        BY <3>2, <3>3, <3>4, <3>6 DEF Kept
      <3>8. p \in Kept => p \in Kept'
        BY <3>2, <3>3, <3>4 DEF Kept
      <3>9. Kept' \subseteq Phones /\ Kept \subseteq Phones
        BY DEF Kept
      <3> QED
        BY <2>0, <3>7, <3>8, <3>9
    <2>2. CASE Create(p)
      <3>1. \/ /\ name[p] \notin exists /\ exists' = exists \cup {name[p]} /\ content'[name[p]] = <<>>
               /\ \A n \in Names : n # name[p] => content'[n] = content[n]
            \/ exists' = exists /\ content' = content
        BY <1>t, <2>2 DEF Create, Steps, TypeOK
      <3>2. exists \subseteq Names
        BY <1>t DEF TypeOK
      <3>3. \A q \in Phones : <<>> # Capture(q)
        BY Captures
      <3>4. Kept' = Kept
        BY <3>1, <3>2, <3>3 DEF Kept
      <3> QED
        BY <2>0, <3>4
    <2>3. CASE Cleanup(p) \/ Stalled(p)
      <3>1. /\ content' = content /\ spc[p] \in {"cleanup", "recv"}
            /\ (exists' = exists \/ exists' = exists \ {name[p]})
        BY <2>3 DEF Cleanup, Stalled
      <3>2. Owner(p) /\ Answers[p] # "reading"
        <4>1. outcome[p].is # "reading"
          BY <1>t, <3>1 DEF Answered
        <4> QED
          BY <3>1, <4>1 DEF Owner, Answers, Told
      <3>3. \A q \in Phones \ {p} : content[name[p]] # Capture(q)
        BY <1>t, <3>2, OwnCapture DEF File
      <3>4. \A q \in Phones \ {p} : q \in Kept' <=> q \in Kept
        BY <3>1, <3>3 DEF Kept
      <3>5. Kept' \subseteq Kept /\ Kept \subseteq Phones
        BY <3>1 DEF Kept
      <3> QED
        BY <2>0, <3>2, <3>4, <3>5
    <2>4. CASE UNCHANGED <<exists, content>>
      <3>1. Kept' = Kept
        BY <2>4 DEF Kept
      <3> QED
        BY <2>0, <3>1
    <2>5. Receive(p) \/ Create(p) \/ Cleanup(p) \/ Stalled(p) \/ UNCHANGED <<exists, content>>
      BY ZenonT(60) DEF Step, Phone, Server, Fault, SendPort, ReadPort, ReadStou, CopyPiece, CopyDone,
         ReadAnswer, ControlThrows, Quit, Conclude, QuitThrows, serverVars, HandlePort, HandleStou,
         HandleQuit, Command, EndOfCommands, Stat, ConnectData, ReceiveEnd, ReceiveFails, TimedOut,
         Analyse, CopyFails, LineLost, DiskFull
    <2> QED
      BY <2>1, <2>2, <2>3, <2>4, <2>5
  <1> QED
    BY <1>1, <1>2

\* The same, for the next-state relations.
LEMMA NextPromise == IInv /\ IInv' /\ [Next]_vars => [Promise!Next]_(Promise!vars)
  <1> SUFFICES ASSUME IInv, IInv', [Next]_vars PROVE [Promise!Next]_(Promise!vars)
    OBVIOUS
  <1>1. CASE UNCHANGED vars
    BY <1>1 DEF vars, phoneVars, serverVars, Promise!vars, Told
  <1>2. ASSUME NEW p \in Phones, Step(p) PROVE [Promise!Next]_(Promise!vars)
    <2>1. CASE UNCHANGED <<Answers, Kept>>
      BY <2>1 DEF Promise!vars, Answers, Kept
    <2>2. CASE Kept' = Kept \cup {p} /\ Answers' = Answers
      <3>1. Promise!Keep(p)
        BY <2>2 DEF Promise!Keep, Kept, Answers
      <3> QED
        BY <3>1 DEF Promise!Next
    <2>3. CASE Answers[p] # "reading" /\ Kept' = Kept \ {p} /\ Answers' = Answers
      <3>1. Promise!Discard(p)
        BY <2>3 DEF Promise!Discard, Kept, Answers
      <3> QED
        BY <3>1 DEF Promise!Next
    <2>4. CASE /\ Answers[p] = "pending" /\ Kept' = Kept
               /\ \E a \in {"reading", "nothing", "error"} :
                     /\ a = "reading" => p \in Kept
                     /\ Answers' = [Answers EXCEPT ![p] = a]
      <3>1. Promise!Answer(p)
        BY <2>4 DEF Promise!Answer, Kept, Answers
      <3> QED
        BY <3>1 DEF Promise!Next
    <2> QED
      BY <1>2, <2>1, <2>2, <2>3, <2>4, StepPromise
  <1> QED
    BY <1>1, <1>2 DEF Next, Step

\* The FTP dialogue implements the promise: at most one answer for each phone, and
\* a reading only for a capture that the base station has whole and keeps.
THEOREM Refinement == Spec => KeepsPromise
  BY Invariance, InitPromise, NextPromise, PTL DEF Spec, KeepsPromise, Promise!Spec
=============================================================================
