-------------------------- MODULE TireSamplesProofs --------------------------
(***************************************************************************)
(* What holds of the samples table for any number of processes, requests,  *)
(* sensors and times.                                                      *)
(***************************************************************************)
EXTENDS TireSamples, SequenceTheorems, TLAPS

\* What a validated request may rely on: any row that has its sensor and time
\* by now was written after the validation.
ValidInv ==
    \A w \in Workers : req[w].st = "valid" =>
        /\ req[w].new.psi < PsiLimit
        /\ req[w].op \in Creates => req[w].id = 0
        /\ \A j \in DOMAIN rows :
              (j # req[w].id /\ Key(rows[j].val) = Key(req[w].new)) =>
                  req[w].seen < rows[j].wrote

\* What every request may rely on.
CreateInv ==
    \A w \in Workers : (req[w].st = "found" /\ req[w].op \in Creates) => req[w].id = 0

IInv == TypeOK /\ CreateInv /\ ValidInv /\ TwinsComeFromOverlap

\* The record of a request that is not over.
LEMMA InHand ==
  ASSUME TypeOK, NEW w \in Workers, req[w].st \in {"found", "valid", "forward", "render"}
  PROVE  /\ req[w] \in Requests
         /\ req[w].seen <= writes
         /\ req[w].op \notin Creates => req[w].id \in DOMAIN rows
  <1>1. req[w] \in Requests
    BY DEF TypeOK, Answers, Idle
  <1> QED
    BY <1>1 DEF TypeOK

LEMMA InitIInv == Init => IInv
  <1> SUFFICES ASSUME Init PROVE IInv
    OBVIOUS
  <1> USE SamplesAssumption
  <1>1. PICK n \in 0..MaxOld :
          \E old \in [1..n -> {v \in Values : v.psi < PsiLimit /\ v.time <= Start}] :
              /\ \A i, j \in 1..n : Key(old[i]) = Key(old[j]) => i = j
              /\ rows = [i \in 1..n |->
                            [val |-> old[i], seen |-> 0, wrote |-> 0, torn |-> FALSE]]
    BY DEF Init
  <1>2. PICK old \in [1..n -> {v \in Values : v.psi < PsiLimit /\ v.time <= Start}] :
          rows = [i \in 1..n |-> [val |-> old[i], seen |-> 0, wrote |-> 0, torn |-> FALSE]]
    BY <1>1
  <1>3. rows \in [1..n -> Rows]
    BY <1>2 DEF Rows
  <1>4. rows \in Seq(Rows) /\ DOMAIN rows = 1..n
    BY <1>3, n \in Nat, SeqDef
  <1>5. \A i \in DOMAIN rows : rows[i].val.psi < PsiLimit /\ rows[i].wrote = 0
    BY <1>2, <1>4
  <1>6. \A w \in Workers : req[w] = Idle
    BY DEF Init
  <1>7. TypeOK
    BY <1>4, <1>5, <1>6 DEF Init, TypeOK, Idle, Requests
  <1> QED
    BY <1>5, <1>6, <1>7 DEF IInv, ValidInv, CreateInv, TwinsComeFromOverlap, Idle

\* A step that touches neither the table nor the stamp, and leaves each request
\* either as it was or in a state that relies on nothing.
LEMMA OtherSteps ==
  ASSUME IInv, TypeOK', rows' = rows, 
         \A w \in Workers :
             \/ req'[w] = req[w]
             \/ req'[w].st \notin {"found", "valid"}
  PROVE  IInv'
  BY DEF IInv, ValidInv, CreateInv, TwinsComeFromOverlap, Key

LEMMA BeginIInv ==
  ASSUME IInv, NEW w \in Workers, NEW r \in Requests,
         r.st = "found", r.seen = 0, r.op \in Creates => r.id = 0,
         r.op \notin Creates => r.id \in DOMAIN rows,
         Begin(w, r)
  PROVE  IInv'
  <1> USE SamplesAssumption
  <1>1. req' = [req EXCEPT ![w] = r] /\ rows' = rows /\ writes' = writes
    BY DEF Begin
  <1>2. made' \in 0..MaxRequests
    BY DEF Begin, IInv, TypeOK
  <1>3. TypeOK'
    BY <1>1, <1>2 DEF Begin, IInv, TypeOK
  <1>4. CreateInv' /\ ValidInv' /\ TwinsComeFromOverlap'
    BY <1>1 DEF IInv, TypeOK, ValidInv, CreateInv, TwinsComeFromOverlap, Key
  <1> QED
    BY <1>3, <1>4 DEF IInv

LEMMA RowValues ==
  ASSUME TypeOK, NEW i \in DOMAIN rows
  PROVE  /\ i \in Nat \ {0} /\ i \in 1..Len(rows)
         /\ rows[i] \in Rows /\ rows[i].val \in Values
  <1>1. rows \in Seq(Rows)
    BY DEF TypeOK
  <1>2. i \in 1..Len(rows) /\ Len(rows) \in Nat
    BY <1>1, LenProperties
  <1>3. rows[i] \in Rows
    BY <1>1, <1>2, ElementOfSeq
  <1> QED
    BY <1>2, <1>3 DEF Rows

LEMMA CreateIInv ==
  ASSUME IInv, NEW w \in Workers, Create(w)
  PROVE  IInv'
  <1>1. PICK op \in Creates, new \in Values : Begin(w, Request(op, 0, new, new))
    BY DEF Create
  <1>2. Request(op, 0, new, new) \in Requests
    BY DEF Request, Requests, IInv, TypeOK
  <1> QED
    BY <1>1, <1>2, BeginIInv DEF Request

LEMMA UpdateIInv ==
  ASSUME IInv, NEW w \in Workers, Update(w)
  PROVE  IInv'
  <1>1. PICK id \in DOMAIN rows, new \in Values :
          Begin(w, Request("update", id, rows[id].val, new))
    BY DEF Update
  <1>2. Request("update", id, rows[id].val, new) \in Requests
    BY RowValues DEF Request, Requests, IInv
  <1> QED
    BY <1>1, <1>2, BeginIInv DEF Request, Creates

LEMMA DestroyIInv ==
  ASSUME IInv, NEW w \in Workers, Destroy(w)
  PROVE  IInv'
  <1>1. PICK id \in DOMAIN rows :
          Begin(w, Request("destroy", id, rows[id].val, [rows[id].val EXCEPT !.active = FALSE]))
    BY DEF Destroy
  <1>2. [rows[id].val EXCEPT !.active = FALSE] \in Values
    BY RowValues DEF IInv, Values
  <1>3. Request("destroy", id, rows[id].val, [rows[id].val EXCEPT !.active = FALSE]) \in Requests
    BY <1>2, RowValues DEF Request, Requests, IInv
  <1> QED
    BY <1>1, <1>3, BeginIInv DEF Request, Creates

LEMMA ValidateIInv ==
  ASSUME IInv, NEW w \in Workers, Validate(w)
  PROVE  IInv'
  <1> DEFINE r == [req[w] EXCEPT !.st = "valid", !.seen = writes]
  <1>1. req[w] \in Requests /\ (req[w].op \notin Creates => req[w].id \in DOMAIN rows)
    BY InHand DEF IInv, Validate
  <1>2. r \in Requests /\ r.id = req[w].id /\ r.op = req[w].op /\ r.new = req[w].new
        /\ r.seen = writes /\ r.st = "valid"
    BY <1>1 DEF Requests, IInv, TypeOK
  <1> HIDE DEF r
  <1>3. req' = [req EXCEPT ![w] = r] /\ rows' = rows /\ writes' = writes
    BY DEF Validate, r
  <1>4. TypeOK'
    <2>1. req' \in [Workers -> Requests \cup Answers \cup {Idle}]
      BY <1>2, <1>3 DEF IInv, TypeOK
    <2>2. \A v \in Workers : req'[v] \in Requests =>
             req'[v].seen <= writes /\ (req'[v].op \notin Creates => req'[v].id \in DOMAIN rows)
      BY <1>1, <1>2, <1>3 DEF IInv, TypeOK
    <2> QED
      BY <1>3, <2>1, <2>2 DEF Validate, IInv, TypeOK
  <1>5. \A j \in DOMAIN rows : j # r.id => Key(rows[j].val) # Key(r.new)
    BY <1>2 DEF Validate, Valid, SampleTimeUnique
  <1>6. r.new.psi < PsiLimit
    BY <1>2 DEF Validate, Valid, PsiInRange
  <1>7. r.op \in Creates => r.id = 0
    BY <1>2 DEF Validate, IInv, CreateInv
  <1>8. CreateInv' /\ ValidInv' /\ TwinsComeFromOverlap'
    BY <1>2, <1>3, <1>5, <1>6, <1>7 DEF IInv, TypeOK, ValidInv, CreateInv, TwinsComeFromOverlap, Key
  <1> QED
    BY <1>4, <1>8 DEF IInv

\* An answer is well typed.
LEMMA AnswerTyped ==
  ASSUME TypeOK, NEW w \in Workers, NEW r \in Requests, NEW n \in Nat,
         NEW answer \in {"200", "403", "error", "item", "form", "gone"},
         Answer(w, r, answer, n)
  PROVE  /\ req' \in [Workers -> Requests \cup Answers \cup {Idle}]
         /\ req'[w] \in Answers
         /\ \A v \in Workers : v # w => req'[v] = req[v]
  <1>1. [st |-> "over", stored |-> r.stored, answer |-> answer, since |-> n] \in Answers
    BY DEF Answers, Requests
  <1> QED
    BY <1>1 DEF TypeOK, Answer

\* A request is answered and nothing else happens.
LEMMA AnswerIInv ==
  ASSUME IInv, NEW w \in Workers, NEW r \in Requests, NEW n \in Nat,
         NEW answer \in {"200", "403", "error", "item", "form", "gone"},
         Answer(w, r, answer, n), UNCHANGED <<now, fitted, rows, writes, made>>
  PROVE  IInv'
  <1>1. /\ req' \in [Workers -> Requests \cup Answers \cup {Idle}]
        /\ req'[w] \in Answers /\ req'[w] \notin Requests
        /\ \A v \in Workers : v # w => req'[v] = req[v]
    BY AnswerTyped DEF IInv, Answers, Requests
  <1>2. TypeOK'
    BY <1>1 DEF IInv, TypeOK
  <1>3. req'[w].st = "over"
    BY <1>1 DEF Answers
  <1> QED
    BY <1>1, <1>2, <1>3, OtherSteps

\* A request moves on to a state that relies on nothing, and nothing else happens.
LEMMA MovesOnIInv ==
  ASSUME IInv, NEW w \in Workers, NEW r \in Requests,
         r.st \in {"forward", "render"}, r.seen <= writes,
         r.op \notin Creates => r.id \in DOMAIN rows,
         req' = [req EXCEPT ![w] = r], UNCHANGED <<now, fitted, rows, writes, made>>
  PROVE  IInv'
  <1>1. TypeOK'
    BY DEF IInv, TypeOK
  <1>2. req'[w].st \notin {"found", "valid"} /\ \A v \in Workers : v # w => req'[v] = req[v]
    BY DEF IInv, TypeOK
  <1> QED
    BY <1>1, <1>2, OtherSteps

LEMMA RefuseIInv ==
  ASSUME IInv, NEW w \in Workers, Refuse(w)
  PROVE  IInv'
  <1>1. /\ req[w] \in Requests
        /\ req[w].op \notin Creates => req[w].id \in DOMAIN rows
        /\ UNCHANGED <<now, fitted, rows, writes, made>>
    BY InHand DEF IInv, Refuse
  <1>2. CASE req[w].op = "update" /\ req' = [req EXCEPT ![w].st = "render", ![w].seen = writes]
    <2> DEFINE r == [req[w] EXCEPT !.st = "render", !.seen = writes]
    <2>1. r \in Requests /\ r.id = req[w].id /\ r.op = req[w].op /\ r.seen = writes /\ r.st = "render"
      BY <1>1 DEF Requests, IInv, TypeOK
    <2>2. req' = [req EXCEPT ![w] = r] /\ writes \in Nat
      BY <1>2 DEF IInv, TypeOK
    <2> HIDE DEF r
    <2>3. r.seen <= writes /\ (r.op \notin Creates => r.id \in DOMAIN rows)
      BY <1>1, <2>1, <2>2
    <2> QED
      BY <1>1, <2>1, <2>2, <2>3, MovesOnIInv
  <1>3. CASE req[w].op # "update" /\ Answer(w, req[w], RefusalOf[req[w].op], 0)
    <2>1. RefusalOf[req[w].op] \in {"403", "error"}
      BY <1>1, <1>3 DEF RefusalOf, Requests, Creates
    <2> QED
      BY <1>1, <1>3, <2>1, AnswerIInv
  <1> QED
    BY <1>2, <1>3 DEF Refuse

\* The writes since a validation.
LEMMA SinceIsNat ==
  ASSUME IInv, NEW w \in Workers, req[w].st \in {"valid", "forward", "render"}
  PROVE  Since(req[w]) \in Nat /\ writes + 1 - req[w].seen \in Nat
  <1>1. req[w] \in Requests /\ req[w].seen <= writes /\ writes \in Nat
    BY InHand DEF IInv, TypeOK
  <1> QED
    BY <1>1 DEF Since, Requests

LEMMA ForwardIInv ==
  ASSUME IInv, NEW w \in Workers, Forward(w)
  PROVE  IInv'
  <1>1. /\ req[w] \in Requests /\ req[w].seen <= writes /\ Since(req[w]) \in Nat
        /\ req[w].op \notin Creates => req[w].id \in DOMAIN rows
        /\ UNCHANGED <<now, fitted, rows, writes, made>>
    BY InHand, SinceIsNat DEF IInv, Forward
  <1>2. CASE req' = [req EXCEPT ![w].st = "render"]
    <2> DEFINE r == [req[w] EXCEPT !.st = "render"]
    <2>1. r \in Requests /\ r.id = req[w].id /\ r.op = req[w].op /\ r.seen = req[w].seen /\ r.st = "render"
      BY <1>1 DEF Requests
    <2>2. req' = [req EXCEPT ![w] = r]
      BY <1>2 DEF IInv, TypeOK
    <2> QED
      BY <1>1, <2>1, <2>2, MovesOnIInv
  <1>3. CASE \E answer \in {"error", "200"} : Answer(w, req[w], answer, Since(req[w]))
    BY <1>1, <1>3, AnswerIInv
  <1> QED
    BY <1>2, <1>3 DEF Forward

LEMMA RenderIInv ==
  ASSUME IInv, NEW w \in Workers, Render(w)
  PROVE  IInv'
  <1>1. req[w] \in Requests /\ Since(req[w]) \in Nat
    BY InHand, SinceIsNat DEF IInv, Render
  <1>2. PICK answer \in {"item", "form"} : Answer(w, req[w], answer, Since(req[w]))
    BY DEF Render
  <1> QED
    BY <1>1, <1>2, AnswerIInv DEF Render

\* A committed write of request r of process w: row id is new or has a new key,
\* or no row has; the request then relies on nothing any more.
LEMMA WriteIInv ==
  ASSUME IInv, NEW w \in Workers, req[w].st = "valid",
         NEW id \in Nat,
         rows' \in Seq(Rows), DOMAIN rows \subseteq DOMAIN rows', DOMAIN rows' \subseteq DOMAIN rows \cup {id},
         id \in DOMAIN rows', writes' = writes + 1,
         \A i \in DOMAIN rows : i # id => rows'[i] = rows[i],
         rows'[id].val.psi < PsiLimit,
         \/ /\ id \in DOMAIN rows /\ Key(rows'[id].val) = Key(rows[id].val)
            /\ rows'[id].wrote = rows[id].wrote /\ rows'[id].seen = rows[id].seen
            /\ rows'[id].torn = rows[id].torn
         \/ /\ rows'[id].wrote = writes + 1 /\ rows'[id].seen = req[w].seen
            /\ rows'[id].torn \/ Key(rows'[id].val) = Key(req[w].new)
            /\ req[w].op \in Creates => id \notin DOMAIN rows
            /\ req[w].op \notin Creates => id = req[w].id,
         req' \in [Workers -> Requests \cup Answers \cup {Idle}],
         req'[w].st \notin {"found", "valid"},
         req'[w] \in Requests => req'[w].seen <= writes + 1 /\ (req'[w].op \notin Creates => req'[w].id \in DOMAIN rows'),
         \A v \in Workers : v # w => req'[v] = req[v],
         UNCHANGED <<now, fitted, made>>
  PROVE  IInv'
  <1>1. writes \in Nat /\ \A i \in DOMAIN rows : rows[i] \in Rows /\ rows[i].wrote \in Nat /\ rows[i].wrote <= writes
    BY RowValues DEF IInv, TypeOK, Rows
  <1>2. \A i \in DOMAIN rows' : rows'[i].val.psi < PsiLimit /\ rows'[i].wrote <= writes'
    BY SMTT(30), <1>1 DEF IInv, TypeOK
  <1>3. TypeOK'
    <2>1. \A v \in Workers : req'[v] \in Requests =>
             req'[v].seen <= writes' /\ (req'[v].op \notin Creates => req'[v].id \in DOMAIN rows')
      <3> SUFFICES ASSUME NEW v \in Workers, req'[v] \in Requests
                   PROVE  req'[v].seen <= writes' /\ (req'[v].op \notin Creates => req'[v].id \in DOMAIN rows')
        OBVIOUS
      <3>1. CASE v = w
        BY <3>1
      <3>2. CASE v # w
        <4>1. req[v].seen \in Nat /\ req[v].seen <= writes
          BY <3>2 DEF IInv, TypeOK, Requests
        <4> QED
          BY <1>1, <3>2, <4>1 DEF IInv, TypeOK
      <3> QED
        BY <3>1, <3>2
    <2> QED
      BY <1>1, <1>2, <2>1 DEF IInv, TypeOK
  <1>4. CreateInv'
    BY DEF IInv, CreateInv
  <1>5. ValidInv'
    <2> SUFFICES ASSUME NEW v \in Workers, req'[v].st = "valid"
                 PROVE  /\ req'[v].new.psi < PsiLimit
                        /\ req'[v].op \in Creates => req'[v].id = 0
                        /\ \A j \in DOMAIN rows' :
                              (j # req'[v].id /\ Key(rows'[j].val) = Key(req'[v].new)) =>
                                  req'[v].seen < rows'[j].wrote
      BY DEF ValidInv, Key
    <2>1. v # w /\ req'[v] = req[v]
      OBVIOUS
    <2>2. req[v].seen \in Nat /\ req[v].seen <= writes
      BY <2>1, InHand DEF IInv, Requests
    <2>3. ASSUME NEW j \in DOMAIN rows', j # req[v].id, Key(rows'[j].val) = Key(req[v].new)
          PROVE  req[v].seen < rows'[j].wrote
      <3>1. CASE j \in DOMAIN rows /\ Key(rows'[j].val) = Key(rows[j].val) /\ rows'[j].wrote = rows[j].wrote
        BY <2>1, <2>3, <3>1 DEF IInv, ValidInv
      <3>2. CASE rows'[j].wrote = writes + 1
        BY <1>1, <2>2, <3>2
      <3> QED
        BY <2>3, <3>1, <3>2
    <2> QED
      BY <2>1, <2>3 DEF IInv, ValidInv
  <1>6. TwinsComeFromOverlap'
    <2> SUFFICES ASSUME NEW i \in DOMAIN rows', NEW j \in DOMAIN rows',
                        Key(rows'[i].val) = Key(rows'[j].val), rows'[i].wrote < rows'[j].wrote
                 PROVE  rows'[j].torn \/ rows'[j].seen < rows'[i].wrote
      BY DEF TwinsComeFromOverlap, Key
    <2>1. CASE /\ id \in DOMAIN rows /\ Key(rows'[id].val) = Key(rows[id].val)
               /\ rows'[id].wrote = rows[id].wrote /\ rows'[id].seen = rows[id].seen
               /\ rows'[id].torn = rows[id].torn
      <3>1. \A k \in {i, j} : /\ k \in DOMAIN rows /\ Key(rows'[k].val) = Key(rows[k].val)
                              /\ rows'[k].wrote = rows[k].wrote /\ rows'[k].seen = rows[k].seen
                              /\ rows'[k].torn = rows[k].torn
        BY <2>1
      <3> QED
        BY <3>1 DEF IInv, TwinsComeFromOverlap
    <2>2. CASE /\ rows'[id].wrote = writes + 1 /\ rows'[id].seen = req[w].seen
               /\ rows'[id].torn \/ Key(rows'[id].val) = Key(req[w].new)
               /\ req[w].op \in Creates => id \notin DOMAIN rows
               /\ req[w].op \notin Creates => id = req[w].id
      <3>1. i # id
        <4> SUFFICES ASSUME i = id PROVE FALSE
          OBVIOUS
        <4>1. rows'[j].wrote <= writes + 1 /\ rows'[j].wrote \in Nat
          BY <1>1, <2>2
        <4> QED
          BY <1>1, <2>2, <4>1
      <3>2. i \in DOMAIN rows /\ rows'[i] = rows[i]
        BY <3>1
      <3>3. CASE j # id
        BY <3>2, <3>3 DEF IInv, TwinsComeFromOverlap
      <3>4. CASE j = id /\ ~rows'[id].torn
        <4>1. Key(rows[i].val) = Key(req[w].new)
          BY <2>2, <3>2, <3>4
        <4>2. i # req[w].id
          <5>1. i \in Nat \ {0}
            BY <3>2, RowValues DEF IInv
          <5> QED
            BY <2>2, <3>1, <5>1 DEF IInv, ValidInv
        <4>3. req[w].seen < rows[i].wrote
          BY <3>2, <4>1, <4>2 DEF IInv, ValidInv
        <4> QED
          BY <2>2, <3>2, <3>4, <4>3
      <3> QED
        BY <3>3, <3>4
    <2> QED
      BY <2>1, <2>2
  <1> QED
    BY <1>3, <1>4, <1>5, <1>6 DEF IInv

LEMMA InsertIInv ==
  ASSUME IInv, NEW w \in Workers, Insert(w)
  PROVE  IInv'
  <1> DEFINE row == [val |-> req[w].new, seen |-> req[w].seen, wrote |-> writes + 1, torn |-> FALSE]
             id == Len(rows) + 1
  <1>1. /\ req[w] \in Requests /\ req[w].seen <= writes /\ writes \in Nat
        /\ req[w].st = "valid" /\ req[w].op \in Creates
        /\ writes + 1 - req[w].seen \in Nat
    BY InHand, SinceIsNat DEF IInv, TypeOK, Insert
  <1>2. row \in Rows /\ rows \in Seq(Rows) /\ rows' = Append(rows, row)
    BY <1>1 DEF Rows, Requests, Insert, IInv, TypeOK
  <1>3. /\ rows' \in Seq(Rows) /\ id \in Nat /\ id \in DOMAIN rows' /\ id \notin DOMAIN rows
        /\ DOMAIN rows' = DOMAIN rows \cup {id}
        /\ rows'[id] = row /\ \A i \in DOMAIN rows : rows'[i] = rows[i]
    <2> HIDE DEF row
    <2> QED
      BY <1>2, AppendProperties
  <1>4. row.val = req[w].new /\ row.seen = req[w].seen /\ row.wrote = writes + 1
    OBVIOUS
  <1>5. row.val.psi < PsiLimit
    BY <1>1, <1>4 DEF IInv, ValidInv
  <1>6. /\ req' \in [Workers -> Requests \cup Answers \cup {Idle}]
        /\ req'[w].st \notin {"found", "valid"}
        /\ req'[w] \in Requests => req'[w].seen <= writes + 1 /\ req'[w].op \in Creates
        /\ \A v \in Workers : v # w => req'[v] = req[v]
    <2>1. CASE Answer(w, [req[w] EXCEPT !.stored = TRUE], "200", writes + 1 - req[w].seen)
      <3>1. [req[w] EXCEPT !.stored = TRUE] \in Requests
        BY <1>1 DEF Requests
      <3> QED
        BY <1>1, <2>1, <3>1, AnswerTyped DEF IInv, Answers, Requests
    <2>2. CASE req' = [req EXCEPT ![w].st = "forward", ![w].id = id, ![w].stored = TRUE]
      <3> DEFINE r == [req[w] EXCEPT !.st = "forward", !.id = id, !.stored = TRUE]
      <3>1. r \in Requests /\ r.seen = req[w].seen /\ r.op = req[w].op /\ r.st = "forward"
        BY <1>1, <1>3 DEF Requests
      <3>2. req' = [req EXCEPT ![w] = r] /\ req[w].seen \in Nat
        BY <1>1, <2>2 DEF IInv, TypeOK, Requests
      <3> QED
        BY <1>1, <3>1, <3>2 DEF IInv, TypeOK
    <2> QED
      BY <2>1, <2>2 DEF Insert
  <1>7. writes' = writes + 1 /\ UNCHANGED <<now, fitted, made>>
    BY DEF Insert
  <1> HIDE DEF row, id
  <1> QED
    BY <1>1, <1>3, <1>4, <1>5, <1>6, <1>7, WriteIInv

LEMMA MergedTyped ==
  ASSUME IInv, NEW r \in Requests, r.id \in DOMAIN rows, r.new.psi < PsiLimit
  PROVE  Merged(r) \in Values /\ Merged(r).psi < PsiLimit
  <1>1. rows[r.id].val \in Values /\ rows[r.id].val.psi < PsiLimit
    BY RowValues DEF IInv, TypeOK
  <1>2. r.new \in Values
    BY DEF Requests
  <1> QED
    BY <1>1, <1>2 DEF Merged, Column, Values

LEMMA SaveIInv ==
  ASSUME IInv, NEW w \in Workers, Save(w)
  PROVE  IInv'
  <1> DEFINE r == req[w]
             id == r.id
             old == rows[id]
             row == IF Key(Merged(r)) = Key(old.val)
                    THEN [old EXCEPT !.val = Merged(r)]
                    ELSE [val |-> Merged(r), seen |-> r.seen, wrote |-> writes + 1,
                          torn |-> Key(Merged(r)) # Key(r.new)]
  <1>1. /\ r \in Requests /\ r.seen <= writes /\ writes \in Nat /\ r.seen \in Nat
        /\ r.st = "valid" /\ r.op \notin Creates /\ id \in DOMAIN rows
        /\ writes + 1 - r.seen \in Nat
    BY InHand, SinceIsNat DEF IInv, TypeOK, Save, Requests
  <1>2. Merged(r) \in Values /\ Merged(r).psi < PsiLimit
    BY <1>1, MergedTyped DEF IInv, ValidInv
  <1>3. old \in Rows /\ rows \in Seq(Rows) /\ id \in 1..Len(rows) /\ id \in Nat
    BY <1>1, RowValues DEF IInv, TypeOK
  <1>4. row \in Rows /\ row.val = Merged(r)
    <2> HIDE DEF r, old
    <2>1. [old EXCEPT !.val = Merged(r)] \in Rows /\ [old EXCEPT !.val = Merged(r)].val = Merged(r)
      BY <1>2, <1>3 DEF Rows
    <2>2. (Key(Merged(r)) # Key(r.new)) \in BOOLEAN
      OBVIOUS
    <2>3. [val |-> Merged(r), seen |-> r.seen, wrote |-> writes + 1,
           torn |-> Key(Merged(r)) # Key(r.new)] \in Rows
      BY <1>1, <1>2, <2>2 DEF Rows
    <2> QED
      BY <2>1, <2>3
  <1>5. rows' = [rows EXCEPT ![id] = row]
    BY DEF Save
  <1>6. \/ Key(row.val) = Key(old.val) /\ row.wrote = old.wrote /\ row.seen = old.seen /\ row.torn = old.torn
        \/ row.wrote = writes + 1 /\ row.seen = r.seen /\ (row.torn \/ Key(row.val) = Key(r.new))
    BY <1>3, <1>4 DEF Rows
  <1>7. /\ rows' \in Seq(Rows) /\ DOMAIN rows' = DOMAIN rows
        /\ rows'[id] = row /\ \A i \in DOMAIN rows : i # id => rows'[i] = rows[i]
    <2> HIDE DEF row
    <2> QED
      BY <1>3, <1>4, <1>5, ExceptSeq
  <1>8. /\ req' \in [Workers -> Requests \cup Answers \cup {Idle}]
        /\ req'[w].st \notin {"found", "valid"}
        /\ req'[w] \in Requests => req'[w].seen <= writes + 1 /\ req'[w].id \in DOMAIN rows'
        /\ \A v \in Workers : v # w => req'[v] = req[v]
    <2> HIDE DEF row
    <2>1. CASE Answer(w, [r EXCEPT !.stored = TRUE], "gone", writes + 1 - r.seen)
      <3>1. [r EXCEPT !.stored = TRUE] \in Requests
        BY <1>1 DEF Requests
      <3> QED
        BY <1>1, <2>1, <3>1, AnswerTyped DEF IInv, Answers, Requests
    <2>2. CASE req' = [req EXCEPT ![w].st = "render", ![w].stored = TRUE]
      <3> DEFINE q == [r EXCEPT !.st = "render", !.stored = TRUE]
      <3>1. q \in Requests /\ q.seen = r.seen /\ q.id = r.id /\ q.st = "render"
        BY <1>1 DEF Requests
      <3>2. req' = [req EXCEPT ![w] = q]
        BY <2>2 DEF IInv, TypeOK
      <3> QED
        BY <1>1, <1>7, <3>1, <3>2 DEF IInv, TypeOK
    <2> QED
      BY <2>1, <2>2 DEF Save
  <1>9. writes' = writes + 1 /\ UNCHANGED <<now, fitted, made>>
    BY DEF Save
  <1> HIDE DEF row
  <1>10. rows'[id].val.psi < PsiLimit
    BY <1>2, <1>4, <1>7
  <1> QED
    <2>1. req'[w] \in Requests =>
             req'[w].seen <= writes + 1 /\ (req'[w].op \notin Creates => req'[w].id \in DOMAIN rows')
      BY <1>8
    <2>2. DOMAIN rows \subseteq DOMAIN rows' /\ DOMAIN rows' \subseteq DOMAIN rows \cup {id}
          /\ id \in DOMAIN rows' /\ rows' \in Seq(Rows) /\ id \in Nat
      BY <1>1, <1>3, <1>7
    <2>3. \/ /\ id \in DOMAIN rows /\ Key(rows'[id].val) = Key(rows[id].val)
             /\ rows'[id].wrote = rows[id].wrote /\ rows'[id].seen = rows[id].seen
             /\ rows'[id].torn = rows[id].torn
          \/ /\ rows'[id].wrote = writes + 1 /\ rows'[id].seen = req[w].seen
             /\ rows'[id].torn \/ Key(rows'[id].val) = Key(req[w].new)
             /\ req[w].op \in Creates => id \notin DOMAIN rows
             /\ req[w].op \notin Creates => id = req[w].id
      BY <1>1, <1>6, <1>7
    <2>4. req[w].st = "valid" /\ \A i \in DOMAIN rows : i # id => rows'[i] = rows[i]
      BY <1>1, <1>7
    <2> HIDE DEF id, old, r
    <2> QED
      BY <1>8, <1>9, <1>10, <2>1, <2>2, <2>3, <2>4, WriteIInv

LEMMA NextIInv == IInv /\ [Next]_vars => IInv'
  <1> SUFFICES ASSUME IInv, [Next]_vars PROVE IInv'
    OBVIOUS
  <1>1. CASE Refit
    <2>1. PICK t \in Tires, s \in Sensors : fitted' = [fitted EXCEPT ![t] = s]
      BY <1>1 DEF Refit
    <2>2. made' \in 0..MaxRequests
      BY <1>1, SamplesAssumption DEF Refit, IInv, TypeOK
    <2>3. /\ writes \in Nat /\ writes' = writes + 1 /\ rows' = rows /\ req' = req /\ now' = now
          /\ fitted' \in [Tires -> Sensors]
      BY <1>1, <2>1 DEF Refit, IInv, TypeOK
    <2>4. \A i \in DOMAIN rows : rows[i].wrote \in Nat
      BY RowValues DEF IInv, Rows
    <2>5. \A w \in Workers : req[w] \in Requests => req[w].seen \in Nat
      BY DEF Requests
    <2>6. TypeOK'
      BY <2>2, <2>3, <2>4, <2>5 DEF IInv, TypeOK
    <2> QED
      BY <2>3, <2>6, OtherSteps
  <1>2. CASE Tick
    <2>1. TypeOK'
      BY <1>2, SamplesAssumption DEF Tick, IInv, TypeOK
    <2> QED
      BY <1>2, <2>1, OtherSteps DEF Tick
  <1>3. ASSUME NEW w \in Workers, Serve(w) PROVE IInv'
    BY <1>3, CreateIInv, UpdateIInv, DestroyIInv, ValidateIInv, RefuseIInv, InsertIInv,
       SaveIInv, ForwardIInv, RenderIInv DEF Serve
  <1>4. CASE UNCHANGED vars
    <2>1. TypeOK' /\ rows' = rows /\ req' = req
      BY <1>4 DEF vars, IInv, TypeOK
    <2> QED
      BY <2>1, OtherSteps
  <1> QED
    BY <1>1, <1>2, <1>3, <1>4 DEF Next

LEMMA Invariance == Spec => []IInv
  BY InitIInv, NextIInv, PTL DEF Spec

\* The state of the table and of the requests stays well typed, no pressure at or
\* above the limit is ever stored, and no stamp runs ahead of the count of writes.
THEOREM TypeCorrect == Spec => []TypeOK
  <1>1. IInv => TypeOK
    BY DEF IInv
  <1> QED
    BY <1>1, Invariance, PTL

\* Two samples of one sensor and time come only from requests that overlapped, for
\* any number of processes and requests.
THEOREM TwinsOverlap == Spec => []TwinsComeFromOverlap
  <1>1. IInv => TwinsComeFromOverlap
    BY DEF IInv
  <1> QED
    BY <1>1, Invariance, PTL

-----------------------------------------------------------------------------
(* What the answers tell.                                                  *)

\* Valid(r) of a table T and sensors f.
Consistent(r, T, f) ==
    /\ r.new.psi < PsiLimit
    /\ \A i \in DOMAIN T : i # r.id => Key(T[i].val) # Key(r.new)
    /\ \E t \in Tires : f[t] = r.new.sensor

\* What a request, or its answer, is worth after n writes.  As long as no other
\* request wrote after the validation, its outcome still stands.
Honest(r, n, T, f) ==
    /\ r.st \in {"found", "valid"} =>
          ~r.stored /\ (r.op = "destroy" => Key(r.new) = Key(r.copy))
    /\ (r.st = "valid" /\ r.seen = n) => Consistent(r, T, f)
    /\ r.st = "forward" => r.stored
    /\ (r.st \in {"forward", "render"} /\ r.stored) =>
          r.seen < n /\ (r.seen + 1 = n => Consistent(r, T, f))
    /\ (r.st = "render" /\ ~r.stored /\ r.seen = n) => ~Consistent(r, T, f)
    /\ r.st = "over" =>
          /\ r.answer = "200" => r.stored
          /\ r.answer = "403" => ~r.stored
          /\ r.answer = "item" => r.stored \/ r.since > 0
          /\ r.answer = "form" => ~r.stored \/ r.since > 1

HonestInv == \A w \in Workers : Honest(req[w], writes, rows, fitted)

LEMMA ValidIsConsistent ==
  \A w \in Workers : Valid(req[w]) <=> Consistent(req[w], rows, fitted)
  BY DEF Valid, PsiInRange, SampleTimeUnique, SensorMustBelongToTire, Consistent

\* A step of process w that writes nothing.
LEMMA QuietStep ==
  ASSUME HonestInv, NEW w \in Workers, UNCHANGED <<rows, fitted, writes>>,
         \A v \in Workers : v # w => req'[v] = req[v],
         Honest(req'[w], writes, rows, fitted)
  PROVE  HonestInv'
  <1> SUFFICES ASSUME NEW v \in Workers
               PROVE  Honest(req'[v], writes', rows', fitted')
    BY DEF HonestInv
  <1>1. writes' = writes /\ rows' = rows /\ fitted' = fitted
    OBVIOUS
  <1>2. Honest(req'[v], writes, rows, fitted)
    BY DEF HonestInv
  <1> QED
    BY <1>1, <1>2

\* A write leaves nothing to say of the requests of other processes.
LEMMA OthersStayHonest ==
  ASSUME IInv, HonestInv, NEW v \in Workers, writes' = writes + 1, req'[v] = req[v]
  PROVE  Honest(req'[v], writes', rows', fitted')
  <1> DEFINE r == req[v]
  <1>1. writes \in Nat /\ r \in Requests \cup Answers \cup {Idle}
    BY DEF IInv, TypeOK
  <1>2. Honest(r, writes, rows, fitted)
    BY DEF HonestInv
  <1>3. CASE r \in Requests
    <2>1. r.seen \in Nat /\ r.seen <= writes /\ r.st \in {"found", "valid", "forward", "render"}
      BY <1>3 DEF IInv, TypeOK, Requests
    <2> HIDE DEF r
    <2>2. r.seen # writes + 1 /\ (r.seen < writes => r.seen < writes + 1 /\ r.seen + 1 # writes + 1)
      BY <1>1, <2>1
    <2>3. Honest(r, writes + 1, rows', fitted')
      BY <1>2, <2>1, <2>2 DEF Honest
    <2> QED
      BY <2>3 DEF r
  <1>4. CASE r \notin Requests
    <2>1. r.st \in {"over", "idle"}
      BY <1>1, <1>4 DEF Answers, Idle
    <2> HIDE DEF r
    <2>2. Honest(r, writes + 1, rows', fitted')
      BY <1>2, <2>1 DEF Honest
    <2> QED
      BY <2>2 DEF r
  <1> QED
    BY <1>3, <1>4

LEMMA BeginHonest ==
  ASSUME IInv, HonestInv, NEW w \in Workers, NEW op, NEW id, NEW copy, NEW new,
         Begin(w, Request(op, id, copy, new)), op = "destroy" => Key(new) = Key(copy)
  PROVE  HonestInv'
  <1> DEFINE r == Request(op, id, copy, new)
  <1>1. /\ req'[w] = r /\ (\A v \in Workers : v # w => req'[v] = req[v])
        /\ UNCHANGED <<rows, fitted, writes>>
    BY DEF Begin, IInv, TypeOK
  <1>2. r.st = "found" /\ ~r.stored /\ r.op = op /\ r.new = new /\ r.copy = copy
    BY DEF Request
  <1> HIDE DEF r
  <1>3. Honest(r, writes, rows, fitted)
    BY <1>2 DEF Honest
  <1> QED
    BY <1>1, <1>3, QuietStep

\* A request is answered, and nothing is written.
LEMMA AnswerHonest ==
  ASSUME IInv, HonestInv, NEW w \in Workers, NEW r, NEW answer, NEW n,
         Answer(w, r, answer, n), UNCHANGED <<rows, fitted, writes>>,
         answer = "200" => r.stored, answer = "403" => ~r.stored,
         answer = "item" => r.stored \/ n > 0, answer = "form" => ~r.stored \/ n > 1
  PROVE  HonestInv'
  <1> DEFINE a == [st |-> "over", stored |-> r.stored, answer |-> answer, since |-> n]
  <1>1. req'[w] = a /\ (\A v \in Workers : v # w => req'[v] = req[v])
    BY DEF Answer, IInv, TypeOK
  <1>2. a.st = "over" /\ a.answer = answer /\ a.stored = r.stored /\ a.since = n
    OBVIOUS
  <1> HIDE DEF a
  <1>3. Honest(a, writes, rows, fitted)
    BY <1>2 DEF Honest
  <1> QED
    BY <1>1, <1>3, QuietStep

LEMMA ValidateHonest ==
  ASSUME IInv, HonestInv, NEW w \in Workers, Validate(w)
  PROVE  HonestInv'
  <1> DEFINE q == req[w]
             r == [q EXCEPT !.st = "valid", !.seen = writes]
  <1>1. q \in Requests /\ q.st = "found" /\ Honest(q, writes, rows, fitted)
    BY InHand DEF IInv, Validate, HonestInv
  <1>2. /\ r.id = q.id /\ r.op = q.op /\ r.new = q.new /\ r.copy = q.copy
        /\ r.stored = q.stored /\ r.seen = writes /\ r.st = "valid"
    BY <1>1 DEF Requests
  <1>3. /\ req'[w] = r /\ (\A v \in Workers : v # w => req'[v] = req[v])
        /\ UNCHANGED <<rows, fitted, writes>>
    BY DEF Validate, IInv, TypeOK
  <1>4. Consistent(q, rows, fitted)
    BY ValidIsConsistent DEF Validate
  <1> HIDE DEF q, r
  <1>5. Consistent(r, rows, fitted)
    BY <1>2, <1>4 DEF Consistent
  <1>6. Honest(r, writes, rows, fitted)
    BY <1>1, <1>2, <1>5 DEF Honest
  <1> QED
    BY <1>3, <1>6, QuietStep

LEMMA RefuseHonest ==
  ASSUME IInv, HonestInv, NEW w \in Workers, Refuse(w)
  PROVE  HonestInv'
  <1> DEFINE q == req[w]
  <1>1. /\ q \in Requests /\ q.st = "found" /\ ~q.stored
        /\ UNCHANGED <<rows, fitted, writes>>
    BY InHand DEF IInv, Refuse, HonestInv, Honest
  <1>2. CASE q.op = "update" /\ req' = [req EXCEPT ![w].st = "render", ![w].seen = writes]
    <2> DEFINE r == [q EXCEPT !.st = "render", !.seen = writes]
    <2>1. /\ r.id = q.id /\ r.new = q.new /\ r.stored = q.stored
          /\ r.seen = writes /\ r.st = "render"
      BY <1>1 DEF Requests
    <2>2. req'[w] = r /\ (\A v \in Workers : v # w => req'[v] = req[v])
      BY <1>2 DEF IInv, TypeOK
    <2>3. ~Consistent(q, rows, fitted)
      BY <1>2, ValidIsConsistent DEF Refuse, NotInTheFarFuture, Creates
    <2> HIDE DEF q, r
    <2>4. ~Consistent(r, rows, fitted)
      BY <2>1, <2>3 DEF Consistent
    <2>5. Honest(r, writes, rows, fitted)
      BY <1>1, <2>1, <2>4 DEF Honest
    <2> QED
      BY <1>1, <2>2, <2>5, QuietStep
  <1>3. CASE q.op # "update" /\ Answer(w, q, RefusalOf[q.op], 0)
    <2>1. RefusalOf[q.op] \in {"403", "error"}
      BY <1>1, <1>3 DEF RefusalOf, Requests, Creates
    <2> QED
      BY <1>1, <1>3, <2>1, AnswerHonest
  <1> QED
    BY <1>2, <1>3 DEF Refuse

LEMMA ForwardHonest ==
  ASSUME IInv, HonestInv, NEW w \in Workers, Forward(w)
  PROVE  HonestInv'
  <1> DEFINE q == req[w]
  <1>1. /\ q \in Requests /\ q.st = "forward" /\ q.stored /\ Honest(q, writes, rows, fitted)
        /\ UNCHANGED <<rows, fitted, writes>>
    BY InHand DEF IInv, Forward, HonestInv, Honest
  <1>2. CASE req' = [req EXCEPT ![w].st = "render"]
    <2> DEFINE r == [q EXCEPT !.st = "render"]
    <2>1. /\ r.id = q.id /\ r.new = q.new /\ r.stored = q.stored
          /\ r.seen = q.seen /\ r.st = "render"
      BY <1>1 DEF Requests
    <2>2. req'[w] = r /\ (\A v \in Workers : v # w => req'[v] = req[v])
      BY <1>2 DEF IInv, TypeOK
    <2> HIDE DEF q, r
    <2>3. Consistent(r, rows, fitted) <=> Consistent(q, rows, fitted)
      BY <2>1 DEF Consistent
    <2>4. Honest(r, writes, rows, fitted)
      BY <1>1, <2>1, <2>3 DEF Honest
    <2> QED
      BY <1>1, <2>2, <2>4, QuietStep
  <1>3. CASE \E answer \in {"error", "200"} : Answer(w, q, answer, Since(q))
    BY <1>1, <1>3, AnswerHonest
  <1> QED
    BY <1>2, <1>3 DEF Forward

LEMMA RenderHonest ==
  ASSUME IInv, HonestInv, NEW w \in Workers, Render(w)
  PROVE  HonestInv'
  <1> DEFINE q == req[w]
  <1>1. /\ q \in Requests /\ q.st = "render" /\ Honest(q, writes, rows, fitted)
        /\ q.seen \in Nat /\ q.seen <= writes /\ writes \in Nat /\ Since(q) = writes - q.seen
        /\ UNCHANGED <<rows, fitted, writes>>
    BY InHand DEF IInv, TypeOK, Render, HonestInv, Requests, Since
  <1>2. CASE Consistent(q, rows, fitted)
    <2>1. Answer(w, q, "item", Since(q))
      BY <1>2, ValidIsConsistent DEF Render
    <2> HIDE DEF q
    <2>2. q.stored \/ q.seen # writes
      BY <1>1, <1>2 DEF Honest
    <2>3. q.stored \/ Since(q) > 0
      BY <1>1, <2>2
    <2> QED
      BY <1>1, <2>1, <2>3, AnswerHonest
  <1>3. CASE ~Consistent(q, rows, fitted)
    <2>1. Answer(w, q, "form", Since(q))
      BY <1>3, ValidIsConsistent DEF Render
    <2> HIDE DEF q
    <2>2. ~q.stored \/ (q.seen < writes /\ q.seen + 1 # writes)
      BY <1>1, <1>3 DEF Honest
    <2>3. ~q.stored \/ Since(q) > 1
      BY <1>1, <2>2
    <2> QED
      BY <1>1, <2>1, <2>3, AnswerHonest
  <1> QED
    BY <1>2, <1>3

\* A committed write of process w.
LEMMA WriteStep ==
  ASSUME IInv, HonestInv, NEW w \in Workers, writes' = writes + 1,
         \A v \in Workers : v # w => req'[v] = req[v],
         Honest(req'[w], writes', rows', fitted')
  PROVE  HonestInv'
  <1> SUFFICES ASSUME NEW v \in Workers
               PROVE  Honest(req'[v], writes', rows', fitted')
    BY DEF HonestInv
  <1> QED
    BY OthersStayHonest

LEMMA InsertHonest ==
  ASSUME IInv, HonestInv, NEW w \in Workers, Insert(w)
  PROVE  HonestInv'
  <1> DEFINE q == req[w]
             row == [val |-> q.new, seen |-> q.seen, wrote |-> writes + 1, torn |-> FALSE]
             id == Len(rows) + 1
  <1>1. /\ q \in Requests /\ q.st = "valid" /\ Honest(q, writes, rows, fitted)
        /\ q.seen \in Nat /\ q.seen <= writes /\ writes \in Nat /\ q.op \in Creates
        /\ writes' = writes + 1 /\ fitted' = fitted /\ q.id = 0
    BY InHand DEF IInv, TypeOK, Insert, HonestInv, ValidInv, Requests
  <1>2. CASE Answer(w, [q EXCEPT !.stored = TRUE], "200", writes + 1 - q.seen)
    <2> DEFINE a == [st |-> "over", stored |-> [q EXCEPT !.stored = TRUE].stored, answer |-> "200",
                     since |-> writes + 1 - q.seen]
    <2>1. req'[w] = a /\ (\A v \in Workers : v # w => req'[v] = req[v])
      BY <1>2 DEF Answer, IInv, TypeOK
    <2>2. a.st = "over" /\ a.answer = "200" /\ a.stored
      BY <1>1 DEF Requests
    <2> HIDE DEF a
    <2>3. Honest(a, writes', rows', fitted')
      BY <2>2 DEF Honest
    <2> QED
      BY <1>1, <2>1, <2>3, WriteStep
  <1>3. CASE req' = [req EXCEPT ![w].st = "forward", ![w].id = id, ![w].stored = TRUE]
    <2> DEFINE r == [q EXCEPT !.st = "forward", !.id = id, !.stored = TRUE]
    <2>1. /\ r.id = id /\ r.new = q.new /\ r.stored /\ r.seen = q.seen /\ r.st = "forward"
      BY <1>1 DEF Requests
    <2>2. req'[w] = r /\ (\A v \in Workers : v # w => req'[v] = req[v])
      BY <1>3 DEF IInv, TypeOK
    <2>3. row \in Rows /\ rows \in Seq(Rows) /\ rows' = Append(rows, row)
      BY <1>1 DEF Rows, Requests, Insert, IInv, TypeOK
    <2>4. DOMAIN rows' = DOMAIN rows \cup {id} /\ \A i \in DOMAIN rows : rows'[i] = rows[i]
      <3> HIDE DEF row
      <3> QED
        BY <2>3, AppendProperties
    <2>5. \A i \in DOMAIN rows : i # 0
      BY RowValues DEF IInv
    <2> HIDE DEF q, r, id, row
    <2>6. Consistent(q, rows, fitted) => Consistent(r, rows', fitted')
      BY <1>1, <2>1, <2>4, <2>5 DEF Consistent
    <2>7. q.seen < writes + 1 /\ (q.seen + 1 = writes + 1 => q.seen = writes)
      BY <1>1
    <2>8. q.seen = writes => Consistent(q, rows, fitted)
      BY <1>1 DEF Honest
    <2>9. Honest(r, writes', rows', fitted')
      BY <1>1, <2>1, <2>6, <2>7, <2>8 DEF Honest
    <2> QED
      BY <1>1, <2>2, <2>9, WriteStep
  <1> QED
    BY <1>2, <1>3 DEF Insert

LEMMA SaveHonest ==
  ASSUME IInv, HonestInv, NEW w \in Workers, Save(w)
  PROVE  HonestInv'
  <1> DEFINE q == req[w]
  <1>1. /\ q \in Requests /\ q.st = "valid" /\ Honest(q, writes, rows, fitted)
        /\ q.seen \in Nat /\ q.seen <= writes /\ writes \in Nat
        /\ writes' = writes + 1 /\ fitted' = fitted
    BY InHand DEF IInv, TypeOK, Save, HonestInv, Requests
  <1>2. CASE Answer(w, [q EXCEPT !.stored = TRUE], "gone", writes + 1 - q.seen)
    <2> DEFINE a == [st |-> "over", stored |-> [q EXCEPT !.stored = TRUE].stored, answer |-> "gone",
                     since |-> writes + 1 - q.seen]
    <2>1. req'[w] = a /\ (\A v \in Workers : v # w => req'[v] = req[v])
      BY <1>2 DEF Answer, IInv, TypeOK
    <2>2. a.st = "over" /\ a.answer = "gone"
      OBVIOUS
    <2> HIDE DEF a
    <2>3. Honest(a, writes', rows', fitted')
      BY <2>2 DEF Honest
    <2> QED
      BY <1>1, <2>1, <2>3, WriteStep
  <1>3. CASE req' = [req EXCEPT ![w].st = "render", ![w].stored = TRUE]
    <2> DEFINE r == [q EXCEPT !.st = "render", !.stored = TRUE]
    <2>1. /\ r.id = q.id /\ r.new = q.new /\ r.stored /\ r.seen = q.seen /\ r.st = "render"
      BY <1>1 DEF Requests
    <2>2. req'[w] = r /\ (\A v \in Workers : v # w => req'[v] = req[v])
      BY <1>3 DEF IInv, TypeOK
    <2>3. DOMAIN rows' = DOMAIN rows /\ \A i \in DOMAIN rows : i # q.id => rows'[i] = rows[i]
      BY DEF Save, IInv, TypeOK
    <2> HIDE DEF q, r
    <2>4. Consistent(q, rows, fitted) => Consistent(r, rows', fitted')
      BY <1>1, <2>1, <2>3 DEF Consistent
    <2>5. q.seen < writes + 1 /\ (q.seen + 1 = writes + 1 => q.seen = writes)
      BY <1>1
    <2>6. q.seen = writes => Consistent(q, rows, fitted)
      BY <1>1 DEF Honest
    <2>7. Honest(r, writes', rows', fitted')
      BY <1>1, <2>1, <2>4, <2>5, <2>6 DEF Honest
    <2> QED
      BY <1>1, <2>2, <2>7, WriteStep
  <1> QED
    BY <1>2, <1>3 DEF Save

LEMMA NextHonest == IInv /\ HonestInv /\ [Next]_vars => HonestInv'
  <1> SUFFICES ASSUME IInv, HonestInv, [Next]_vars PROVE HonestInv'
    OBVIOUS
  <1>1. CASE Refit
    <2>1. writes' = writes + 1 /\ req' = req
      BY <1>1 DEF Refit
    <2> QED
      BY <2>1, OthersStayHonest DEF HonestInv
  <1>2. CASE Tick \/ UNCHANGED vars
    BY <1>2 DEF Tick, vars, HonestInv
  <1>3. ASSUME NEW w \in Workers, Create(w) \/ Update(w) \/ Destroy(w) PROVE HonestInv'
    <2>1. CASE Create(w)
      BY <2>1, BeginHonest DEF Create, Creates
    <2>2. CASE Update(w)
      BY <2>2, BeginHonest DEF Update
    <2>3. CASE Destroy(w)
      <3>1. PICK id \in DOMAIN rows :
              Begin(w, Request("destroy", id, rows[id].val, [rows[id].val EXCEPT !.active = FALSE]))
        BY <2>3 DEF Destroy
      <3>2. Key([rows[id].val EXCEPT !.active = FALSE]) = Key(rows[id].val)
        BY RowValues DEF IInv, Values, Key
      <3> QED
        BY <3>1, <3>2, BeginHonest
    <2> QED
      BY <1>3, <2>1, <2>2, <2>3
  <1>4. ASSUME NEW w \in Workers, Serve(w) PROVE HonestInv'
    BY <1>3, <1>4, ValidateHonest, RefuseHonest, InsertHonest, SaveHonest, ForwardHonest,
       RenderHonest DEF Serve
  <1> QED
    BY <1>1, <1>2, <1>4 DEF Next

LEMMA HonestInvariance == Spec => []HonestInv
  <1>1. Init => HonestInv
    BY DEF Init, HonestInv, Honest, Idle
  <1> QED
    BY <1>1, NextHonest, Invariance, PTL DEF Spec

\* What create, update and destroy answer tells what became of the sample, and the
\* page that update or create.js shows is wrong only when another request wrote in
\* between: for any number of processes and requests.
THEOREM Honesty == Spec => []AnswerIsHonest
  <1>1. HonestInv => AnswerIsHonest
    BY DEF HonestInv, Honest, AnswerIsHonest
  <1> QED
    BY <1>1, HonestInvariance, PTL

\* destroy never gets through to one of two samples of one sensor and time, unless
\* it was validated before the other was written or for a time the row has lost.
THEOREM TwinsStay == Spec => TwinsAreNotDeleted
  <1>1. ASSUME IInv, HonestInv, NEW w \in Workers, NEW i \in DOMAIN rows, NEW j \in DOMAIN rows,
               req[w].st = "valid", req[w].op = "destroy", req[w].id = i, i # j,
               Key(rows[i].val) = Key(rows[j].val), Key(req[w].copy) = Key(rows[i].val)
        PROVE  req[w].seen < rows[j].wrote
    <2>1. Key(req[w].new) = Key(req[w].copy)
      BY <1>1 DEF HonestInv, Honest
    <2> QED
      BY <1>1, <2>1 DEF IInv, ValidInv
  <1>2. IInv /\ HonestInv =>
          [\A w \in Workers : \A i, j \in DOMAIN rows :
              (/\ req'[w] # req[w] /\ req[w].st = "valid" /\ req[w].op = "destroy" /\ req[w].id = i
               /\ i # j /\ Key(rows[i].val) = Key(rows[j].val)
               /\ rows[i].val.active /\ ~rows'[i].val.active)
              => Key(req[w].copy) # Key(rows[i].val) \/ req[w].seen < rows[j].wrote]_vars
    BY <1>1
  <1> QED
    BY <1>2, Invariance, HonestInvariance, PTL DEF TwinsAreNotDeleted

-----------------------------------------------------------------------------
(* The colour depends on the table alone.                                  *)

\* The thresholds that are asked: the tyre's and its company's, or else the type's.
Asked(tire, company, type) ==
    IF tire \cup company # {} THEN tire \cup company
    ELSE IF type # {} THEN type ELSE {DefaultSpan}

\* The threshold in force is the shortest of those that are asked.
LEMMA Shortest ==
  ASSUME NEW tire \in Nullable(Spans), NEW company \in Nullable(Spans),
         NEW type \in Nullable(Spans)
  PROVE  /\ TimeThreshold(tire, company, type) \in Asked(tire, company, type)
         /\ \A span \in Asked(tire, company, type) : TimeThreshold(tire, company, type) <= span
         /\ Asked(tire, company, type) \subseteq Spans \cup {DefaultSpan}
  <1> DEFINE spans == Asked(tire, company, type)
  <1>1. Spans \subseteq Nat /\ DefaultSpan \in Nat
    BY SamplesAssumption
  <1>2. CASE tire \cup company # {}
    <2> DEFINE S == tire \cup company
    <2>1. S \subseteq Spans /\ S \subseteq Nat /\ spans = S
      BY <1>1, <1>2 DEF Nullable, Asked
    <2>2. \E x \in S : \A y \in S : x <= y
      <3>1. (tire = {} \/ \E x \in Spans : tire = {x}) /\ (company = {} \/ \E y \in Spans : company = {y})
        BY DEF Nullable
      <3>2. CASE tire = {}
        <4>1. PICK y \in Spans : S = {y}
          BY <3>1, <3>2, <1>2
        <4> QED
          BY <4>1, <1>1
      <3>3. CASE \E x \in Spans : tire = {x}
        <4>1. PICK x \in Spans : tire = {x}
          BY <3>3
        <4>2. CASE company = {}
          <5>1. S = {x}
            BY <4>1, <4>2
          <5> QED
            BY <5>1, <1>1
        <4>3. CASE \E y \in Spans : company = {y}
          <5>1. PICK y \in Spans : company = {y}
            BY <4>3
          <5>2. S = {x, y} /\ x \in Nat /\ y \in Nat
            BY <4>1, <5>1, <1>1
          <5>3. x <= y \/ y <= x
            BY <5>2
          <5> QED
            BY <5>2, <5>3
        <4> QED
          BY <3>1, <4>2, <4>3
      <3> QED
        BY <3>1, <3>2, <3>3
    <2>3. Min(S) \in S /\ \A y \in S : Min(S) <= y
      BY <2>2 DEF Min
    <2>4. TimeThreshold(tire, company, type) = Min(S)
      BY <1>2 DEF TimeThreshold
    <2> HIDE DEF S
    <2> QED
      BY <2>1, <2>3, <2>4
  <1>3. CASE tire \cup company = {} /\ type # {}
    <2>1. PICK x \in Spans : type = {x}
      BY <1>3 DEF Nullable
    <2>2. TimeThreshold(tire, company, type) = CHOOSE y \in {x} : TRUE
      BY <1>3, <2>1 DEF TimeThreshold, OrElse
    <2>3. (CHOOSE y \in {x} : TRUE) = x
      OBVIOUS
    <2>4. spans = {x}
      BY <1>3, <2>1 DEF Asked
    <2>5. x <= x
      BY <1>1
    <2> QED
      BY <2>2, <2>3, <2>4, <2>5
  <1>4. CASE tire \cup company = {} /\ type = {}
    <2>1. TimeThreshold(tire, company, type) = DefaultSpan /\ spans = {DefaultSpan}
      BY <1>4 DEF TimeThreshold, OrElse, Asked
    <2>2. DefaultSpan <= DefaultSpan
      BY <1>1
    <2> QED
      BY <2>1, <2>2
  <1> QED
    BY <1>2, <1>3, <1>4

\* What the phone is told of a tyre is one of its samples, or that there is none.
LEMMA LastIsOne ==
  ASSUME TypeOK, NEW s \in Sensors, NEW last \in Last(s), NEW times, NEW psis,
         times = {rows[i].val.time : i \in SamplesOf(s)},
         psis = {rows[i].val.psi : i \in SamplesOf(s)}
  PROVE  /\ times \subseteq Nat
         /\ times # {} => last.time \in times
         /\ times = {} => last.time = -1
         /\ psis # {} => last.psi \in psis
         /\ psis = {} => last.psi = -10
  <1>1. times \subseteq Nat
    <2>1. \A i \in DOMAIN rows : rows[i].val.time \in Nat
      BY RowValues, SamplesAssumption DEF Values
    <2> QED
      BY <2>1 DEF SamplesOf
  <1>2. CASE SamplesOf(s) = {}
    BY <1>1, <1>2 DEF Last
  <1>3. CASE SamplesOf(s) # {}
    <2>1. PICK i \in SamplesOf(s) : last = [time |-> rows[i].val.time, psi |-> rows[i].val.psi]
      BY <1>3 DEF Last, First
    <2>2. last.time = rows[i].val.time /\ last.psi = rows[i].val.psi
      BY <2>1
    <2>3. last.time \in times /\ last.psi \in psis
      BY <2>2
    <2> QED
      BY <1>1, <2>3
  <1> QED
    BY <1>2, <1>3

\* ColourIsJustified of one tyre and one choice of its thresholds: what the time of
\* the last sample makes of the colour, and what the pressure does.
OfTime(s, last, tire, company, type) ==
    LET times == {rows[i].val.time : i \in SamplesOf(s)}
        colour == GetColor(last.psi, 0, 0, last.time, TimeThreshold(tire, company, type))
        spans == IF tire \cup company # {} THEN tire \cup company
                 ELSE IF type # {} THEN type ELSE {DefaultSpan}
    IN  /\ (\E span \in spans : \A t \in times : t < now - span) => colour = "yellow"
        /\ (times # {} /\ \A span \in spans, t \in times : t >= now - span)
              => colour = "green"

OfPressure(s, last, tire, type, nominal) ==
    LET psis == {rows[i].val.psi : i \in SamplesOf(s)}
        hi == HiPsiThreshold(tire, type, nominal)
        lo == LoPsiThreshold(tire, type, nominal)
        red == GetColor(last.psi, hi, lo, last.time, DefaultSpan) = "red"
        off(psi) == (hi > 0 /\ psi > hi) \/ (lo > 0 /\ psi < lo)
    IN  /\ (psis # {} /\ \A psi \in psis : off(psi)) => red
        /\ (psis # {} /\ \A psi \in psis : ~off(psi)) => ~red
        /\ (psis = {} /\ lo > 0) => red

LEMMA TimeColour ==
  ASSUME TypeOK, NEW s \in Sensors, NEW last \in Last(s),
         NEW tire \in Nullable(Spans), NEW company \in Nullable(Spans),
         NEW type \in Nullable(Spans)
  PROVE  OfTime(s, last, tire, company, type)
  <1> DEFINE times == {rows[i].val.time : i \in SamplesOf(s)}
             colour == GetColor(last.psi, 0, 0, last.time, TimeThreshold(tire, company, type))
             spans == Asked(tire, company, type)
  <1> DEFINE span0 == TimeThreshold(tire, company, type)
  <1>1. /\ span0 \in spans /\ \A span \in spans : span0 <= span
        /\ spans \subseteq Spans \cup {DefaultSpan}
    BY Shortest
  <1>2. /\ times \subseteq Nat
        /\ times # {} => last.time \in times
        /\ times = {} => last.time = -1
    BY LastIsOne
  <1>3. now \in Nat /\ \A span \in spans : span \in Nat /\ span <= now
    <2>1. now \in Nat /\ Start <= now /\ Start \in Nat
      BY SamplesAssumption DEF TypeOK
    <2>2. \A span \in spans : span \in Nat /\ span <= Start
      BY <1>1, SamplesAssumption
    <2> QED
      BY <2>1, <2>2
  <1>4. colour = IF last.time < now - span0 THEN "yellow" ELSE "green"
    BY DEF GetColor
  <1> HIDE DEF span0, times, colour, spans
  <1>5. ASSUME NEW span \in spans, \A t \in times : t < now - span
        PROVE  colour = "yellow"
    <2>1. span0 \in Nat /\ span \in Nat /\ span0 <= span /\ span <= now
      BY <1>1, <1>3
    <2>2. CASE times = {}
      <3>1. last.time = -1
        BY <1>2, <2>2
      <3>2. -1 < now - span0
        BY <2>1, <1>3
      <3> QED
        BY <1>4, <3>1, <3>2
    <2>3. CASE times # {}
      <3>1. last.time \in Nat /\ last.time < now - span
        BY <1>2, <1>5, <2>3
      <3>2. last.time < now - span0
        BY <3>1, <2>1, <1>3
      <3> QED
        BY <1>4, <3>2
    <2> QED
      BY <2>2, <2>3
  <1>6. ASSUME times # {}, \A span \in spans, t \in times : t >= now - span
        PROVE  colour = "green"
    <2>1. last.time \in times /\ last.time \in Nat
      BY <1>2, <1>6
    <2>2. last.time >= now - span0
      BY <2>1, <1>1, <1>6
    <2>3. ~(last.time < now - span0)
      BY <2>1, <2>2, <1>1, <1>3
    <2> QED
      BY <1>4, <2>3
  <1> QED
    BY <1>5, <1>6 DEF OfTime, Asked, times, colour, spans

LEMMA PressureColour ==
  ASSUME TypeOK, NEW s \in Sensors, NEW last \in Last(s),
         NEW tire \in Nullable(Marks), NEW type \in Nullable(Marks),
         NEW nominal \in Nominals
  PROVE  OfPressure(s, last, tire, type, nominal)
  <1> DEFINE psis == {rows[i].val.psi : i \in SamplesOf(s)}
             hi == HiPsiThreshold(tire, type, nominal)
             lo == LoPsiThreshold(tire, type, nominal)
  <1> DEFINE red == GetColor(last.psi, hi, lo, last.time, DefaultSpan) = "red"
             off(psi) == (hi > 0 /\ psi > hi) \/ (lo > 0 /\ psi < lo)
  <1>1. red <=> off(last.psi)
    BY DEF GetColor
  <1>2. /\ psis # {} => last.psi \in psis
        /\ psis = {} => last.psi = -10
    BY LastIsOne
  <1>3. lo \in Nat
    <2>1. 9 * nominal \in Nat /\ Marks \subseteq Nat
      BY SamplesAssumption
    <2>2. ASSUME NEW column \in Nullable(Marks), NEW default \in Nat
          PROVE  OrElse(column, default) \in Nat
      BY <2>1 DEF OrElse, Nullable
    <2> QED
      BY <2>1, <2>2 DEF LoPsiThreshold
  <1>4. (psis = {} /\ lo > 0) => off(last.psi)
    <2> HIDE DEF psis, hi, lo
    <2>1. ASSUME psis = {}, lo > 0
          PROVE  last.psi < lo
      <3>1. last.psi = -10
        BY <2>1, <1>2
      <3>2. -10 < lo
        BY <2>1, <1>3
      <3> QED
        BY <3>1, <3>2
    <2> QED
      BY <2>1
  <1> HIDE DEF psis, hi, lo, off, red
  <1>5. /\ (psis # {} /\ \A psi \in psis : off(psi)) => red
        /\ (psis # {} /\ \A psi \in psis : ~off(psi)) => ~red
        /\ (psis = {} /\ lo > 0) => red
    BY <1>1, <1>2, <1>4
  <1> QED
    BY <1>5 DEF OfPressure, psis, hi, lo, off, red

\* TireColorizer.getColor never shows a tyre better than its samples in the table
\* say, and never worse when they all agree: for every table that the requests can
\* leave and every combination of thresholds, none of them included.
THEOREM Colours == Spec => []ColourIsJustified
  <1>1. TypeOK => ColourIsJustified
    <2> SUFFICES ASSUME TypeOK, NEW s \in Sensors, NEW last \in Last(s)
                 PROVE  /\ \A tire, company, type \in Nullable(Spans) : OfTime(s, last, tire, company, type)
                        /\ \A tire, type \in Nullable(Marks), nominal \in Nominals :
                              OfPressure(s, last, tire, type, nominal)
      BY DEF ColourIsJustified, OfTime, OfPressure
    <2> QED
      BY TimeColour, PressureColour
  <1> QED
    BY <1>1, TypeCorrect, PTL
=============================================================================
