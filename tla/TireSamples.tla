----------------------------- MODULE TireSamples -----------------------------
(***************************************************************************)
(* The samples table of the web site, the processes that serve its         *)
(* requests, and what the phone makes of the table: the last sample of a   *)
(* tyre, its thresholds and its colour.                                    *)
(*                                                                         *)
(* A request finds its row, validates against what the database holds at   *)
(* that moment, and writes later.  Nothing but the validation keeps the    *)
(* times of a sensor apart: there is no unique index.  A write sets only   *)
(* the columns that differ from the row as it was found.  The stamps seen  *)
(* and wrote count the writes made so far; they are not in the code.       *)
(***************************************************************************)
EXTENDS Integers, Sequences, FiniteSetsExt, TLC

CONSTANTS Sensors, Tires,
          Times,        \* sample times
          Psis,         \* pressures asked for, in tenths of a psi
          PsiLimit,     \* the first pressure that is refused
          Ahead,        \* how far a new sample may be in the future
          Start, Stop,  \* bound: the clock
          Workers,      \* the processes of the application server
          MaxOld,       \* bound: rows there at the start
          MaxRequests,  \* bound: requests
          Spans,        \* time thresholds
          DefaultSpan,  \* the threshold when none is given
          Marks,        \* pressure thresholds, in tenths of a psi
          Nominals      \* nominal pressures, in psi

ASSUME SamplesAssumption ==
    /\ Times \subseteq Nat /\ Psis \subseteq Nat /\ Spans \subseteq Nat
    /\ Marks \subseteq Nat /\ Nominals \subseteq Nat
    /\ PsiLimit \in Nat /\ Ahead \in Nat
    /\ Start \in Nat /\ Stop \in Nat /\ Start <= Stop
    /\ MaxOld \in Nat /\ MaxRequests \in Nat /\ DefaultSpan \in Nat
    /\ \A span \in Spans \cup {DefaultSpan} : span <= Start

VARIABLES now,          \* the clock
          fitted,       \* the sensor of each tyre
          rows,         \* the table, by id
          writes,       \* writes committed so far
          made,         \* requests made so far
          req           \* the request each process has in hand

vars == <<now, fitted, rows, writes, made, req>>

\* The columns that matter, and those a request can set.
Values == [sensor : Sensors, time : Times, psi : Psis, active : BOOLEAN]
Key(v) == <<v.sensor, v.time>>

\* A row: its columns, when its sensor and time were validated and written,
\* and whether they came out otherwise than they were validated.
Rows == [val : Values, seen : Nat, wrote : Nat, torn : BOOLEAN]

Creates == {"html", "js", "api"}

\* A request: the row it is for, as it was found (copy) and as it is to be (new).
Requests ==
    [seen : Nat, op : Creates \cup {"update", "destroy"},
     st : {"found", "valid", "forward", "render"},
     id : Nat, copy : Values, new : Values, stored : BOOLEAN]

\* A request that was answered, with the writes made since its validation.
Answers ==
    [st : {"over"}, stored : BOOLEAN,
     answer : {"200", "403", "error", "item", "form", "gone"}, since : Nat]
Idle == [st |-> "idle"]

TypeOK ==
    /\ now \in Start..Stop
    /\ fitted \in [Tires -> Sensors]
    /\ rows \in Seq(Rows)
    /\ writes \in Nat
    /\ made \in 0..MaxRequests
    /\ req \in [Workers -> Requests \cup Answers \cup {Idle}]
    /\ \A i \in DOMAIN rows : rows[i].val.psi < PsiLimit /\ rows[i].wrote <= writes
    /\ \A w \in Workers : req[w] \in Requests =>
           req[w].seen <= writes /\ (req[w].op \notin Creates => req[w].id \in DOMAIN rows)

\* A table that requests made one by one have left.
Init ==
    /\ now = Start
    /\ fitted \in [Tires -> Sensors]
    /\ \E n \in 0..MaxOld :
          \E old \in [1..n -> {v \in Values : v.psi < PsiLimit /\ v.time <= Start}] :
              /\ \A i, j \in 1..n : Key(old[i]) = Key(old[j]) => i = j
              /\ rows = [i \in 1..n |->
                            [val |-> old[i], seen |-> 0, wrote |-> 0, torn |-> FALSE]]
    /\ writes = 0 /\ made = 0
    /\ req = [w \in Workers |-> Idle]

-----------------------------------------------------------------------------
(* Requests.                                                               *)

Begin(w, r) ==
    /\ req[w].st \in {"idle", "over"}
    /\ made < MaxRequests
    /\ made' = made + 1
    /\ req' = [req EXCEPT ![w] = r]
    /\ UNCHANGED <<now, fitted, rows, writes>>

Request(op, id, copy, new) ==
    [seen |-> 0, op |-> op, st |-> "found", id |-> id, copy |-> copy, new |-> new,
     stored |-> FALSE]

\* The request r of process w is answered, after n writes since its validation.
Answer(w, r, answer, n) ==
    req' = [req EXCEPT ![w] =
        [st |-> "over", stored |-> r.stored, answer |-> answer, since |-> n]]

\* create, of the site (from a device or from the form) and of the API.
Create(w) ==
    \E op \in Creates, new \in {v \in Values : v.active} :
        Begin(w, Request(op, 0, new, new))

\* update, after find_tire_sample.
Update(w) ==
    \E id \in DOMAIN rows, new \in Values :
        /\ new.active = rows[id].val.active
        /\ Begin(w, Request("update", id, rows[id].val, new))

\* destroy, after find_tire_sample: active is set to false.
Destroy(w) ==
    \E id \in DOMAIN rows :
        Begin(w, Request("destroy", id, rows[id].val, [rows[id].val EXCEPT !.active = FALSE]))

-----------------------------------------------------------------------------
(* Validation.                                                             *)

\* Mutant: deleted samples do not count.
SampleTimeUniqueAmongActive(r) ==
    \A i \in DOMAIN rows : (i # r.id /\ rows[i].val.active) => Key(rows[i].val) # Key(r.new)

\* validates_uniqueness_of: every other row counts, deleted ones too.
SampleTimeUnique(r) == \A i \in DOMAIN rows : i # r.id => Key(rows[i].val) # Key(r.new)

SensorMustBelongToTire(r) == \E t \in Tires : fitted[t] = r.new.sensor

\* Mutant: one too many.
PsiInRangeOrAt(r) == r.new.psi <= PsiLimit

PsiInRange(r) == r.new.psi < PsiLimit

Valid(r) == PsiInRange(r) /\ SampleTimeUnique(r) /\ SensorMustBelongToTire(r)

\* Only a new sample is measured against the clock.
NotInTheFarFuture(r) == r.op \in Creates => r.new.time <= now + Ahead

\* The answer to a request that is refused.  The API builds its answer from a
\* variable that is not set, and destroy raises.
RefusalOf == [html |-> "403", js |-> "403", api |-> "error", destroy |-> "error"]

\* Mutant: destroy saves without validation.
ValidateUnlessDestroyed(w) ==
    /\ req[w].st = "found"
    /\ req[w].op = "destroy" \/ (Valid(req[w]) /\ NotInTheFarFuture(req[w]))
    /\ req' = [req EXCEPT ![w].st = "valid", ![w].seen = writes]
    /\ UNCHANGED <<now, fitted, rows, writes, made>>

Validate(w) ==
    /\ req[w].st = "found"
    /\ Valid(req[w]) /\ NotInTheFarFuture(req[w])
    /\ req' = [req EXCEPT ![w].st = "valid", ![w].seen = writes]
    /\ UNCHANGED <<now, fitted, rows, writes, made>>

\* errors.any?, a false update_attributes, or RecordInvalid out of save!.
Refuse(w) ==
    /\ req[w].st = "found"
    /\ ~(Valid(req[w]) /\ NotInTheFarFuture(req[w]))
    /\ \/ /\ req[w].op = "update"
          /\ req' = [req EXCEPT ![w].st = "render", ![w].seen = writes]
       \/ /\ req[w].op # "update"
          /\ Answer(w, req[w], RefusalOf[req[w].op], 0)
    /\ UNCHANGED <<now, fitted, rows, writes, made>>

-----------------------------------------------------------------------------
(* Writing.                                                                *)

\* The site's create goes on to forward the sample, the API's answers.
Insert(w) ==
    LET r == req[w]
    IN  /\ r.st = "valid" /\ r.op \in Creates
        /\ rows' = Append(rows, [val |-> r.new, seen |-> r.seen, wrote |-> writes + 1, torn |-> FALSE])
        /\ writes' = writes + 1
        /\ \/ /\ r.op = "api"
              /\ Answer(w, [r EXCEPT !.stored = TRUE], "200", writes + 1 - r.seen)
           \/ /\ r.op # "api"
              /\ req' = [req EXCEPT ![w].st = "forward", ![w].id = Len(rows) + 1,
                                    ![w].stored = TRUE]
        /\ UNCHANGED <<now, fitted, made>>

\* A column after the request: set if the request changes it.
Column(found, new, current) == IF new # found THEN new ELSE current

\* The row after the columns that r changes were set.
Merged(r) ==
    LET v == rows[r.id].val
    IN  [sensor |-> Column(r.copy.sensor, r.new.sensor, v.sensor),
         time |-> Column(r.copy.time, r.new.time, v.time),
         psi |-> Column(r.copy.psi, r.new.psi, v.psi),
         active |-> Column(r.copy.active, r.new.active, v.active)]

Save(w) ==
    LET r == req[w]
    IN  /\ r.st = "valid" /\ r.op \notin Creates
        /\ rows' = [rows EXCEPT ![r.id] =
               IF Key(Merged(r)) = Key(@.val)
               THEN [@ EXCEPT !.val = Merged(r)]
               ELSE [val |-> Merged(r), seen |-> r.seen, wrote |-> writes + 1,
                     torn |-> Key(Merged(r)) # Key(r.new)]]
        /\ writes' = writes + 1
        /\ \/ /\ r.op = "destroy"
              /\ Answer(w, [r EXCEPT !.stored = TRUE], "gone", writes + 1 - r.seen)
           \/ /\ r.op = "update"
              /\ req' = [req EXCEPT ![w].st = "render", ![w].stored = TRUE]
        /\ UNCHANGED <<now, fitted, made>>

Since(r) == writes - r.seen

\* Mutant: whatever goes wrong is answered with 403.
ForwardRescued(w) ==
    /\ req[w].st = "forward"
    /\ \E answer \in {"200", "403"} : Answer(w, req[w], answer, Since(req[w]))
    /\ UNCHANGED <<now, fitted, rows, writes, made>>

\* HTTParty.post to the other site, which may raise; the sample is stored.
Forward(w) ==
    /\ req[w].st = "forward"
    /\ \/ Answer(w, req[w], "error", Since(req[w]))
       \/ req[w].op = "html" /\ Answer(w, req[w], "200", Since(req[w]))
       \/ req[w].op = "js" /\ req' = [req EXCEPT ![w].st = "render"]
    /\ UNCHANGED <<now, fitted, rows, writes, made>>

\* The page asks valid? once more to choose between the item and the form.
Render(w) ==
    /\ req[w].st = "render"
    /\ Answer(w, req[w], IF Valid(req[w]) THEN "item" ELSE "form", Since(req[w]))
    /\ UNCHANGED <<now, fitted, rows, writes, made>>

\* A tyre is given another sensor.
Refit ==
    \E t \in Tires, s \in Sensors :
        /\ fitted[t] # s
        /\ made < MaxRequests
        /\ made' = made + 1
        /\ fitted' = [fitted EXCEPT ![t] = s]
        /\ writes' = writes + 1
        /\ UNCHANGED <<now, rows, req>>

Tick ==
    /\ now < Stop
    /\ now' = now + 1
    /\ UNCHANGED <<fitted, rows, writes, made, req>>

Serve(w) ==
    \/ Create(w) \/ Update(w) \/ Destroy(w)
    \/ Validate(w) \/ Refuse(w) \/ Insert(w) \/ Save(w) \/ Forward(w) \/ Render(w)

Next == Refit \/ Tick \/ \E w \in Workers : Serve(w)

Spec == Init /\ [][Next]_vars

\* The processes are alike, and so are the sensors.
Alike == Permutations(Workers) \cup Permutations(Sensors)

-----------------------------------------------------------------------------
(* What the phone is told of a tyre, and the colour it shows.              *)

SamplesOf(s) == {i \in DOMAIN rows : rows[i].val.sensor = s}

\* The first after the sort; among equal times any.
First(s) == {i \in SamplesOf(s) : \A j \in SamplesOf(s) : rows[i].val.time <= rows[j].val.time}

\* last_sample_time and last_psi.
Last(s) ==
    IF SamplesOf(s) = {}
    THEN {[time |-> -1, psi |-> -10]}
    ELSE {[time |-> rows[i].val.time, psi |-> rows[i].val.psi] : i \in First(s)}

\* A column that may be null is a set with at most one element.
Nullable(S) == {{}} \cup {{x} : x \in S}
OrElse(column, default) == IF column # {} THEN CHOOSE x \in column : TRUE ELSE default

\* Mutant: the larger of the two.
LongestThreshold(tire, company, type) ==
    IF tire \cup company # {} THEN Max(tire \cup company) ELSE OrElse(type, DefaultSpan)

\* time_threshold
TimeThreshold(tire, company, type) ==
    IF tire \cup company # {} THEN Min(tire \cup company) ELSE OrElse(type, DefaultSpan)

\* hi_psi_threshold, lo_psi_threshold: 110% and 90% of the nominal pressure.  It is
\* 0 unless it was set; were the column emptied to null, with no threshold either,
\* the serializer would raise and the tyre get no answer, hence no colour: the
\* nominal pressures here are numbers.
HiPsiThreshold(tire, type, nominal) == OrElse(tire, OrElse(type, 11 * nominal))
LoPsiThreshold(tire, type, nominal) == OrElse(tire, OrElse(type, 9 * nominal))

\* TireColorizer.getColor
GetColor(psi, hi, lo, time, span) ==
    IF (hi > 0 /\ psi > hi) \/ (lo > 0 /\ psi < lo)
    THEN "red"
    ELSE IF time < now - span THEN "yellow" ELSE "green"

-----------------------------------------------------------------------------
(* Properties.                                                             *)

\* Two samples of one sensor and time come from requests that overlapped: the
\* later one was validated before the earlier was written, or its row was
\* changed by another request between its find and its write.
TwinsComeFromOverlap ==
    \A i, j \in DOMAIN rows :
        (Key(rows[i].val) = Key(rows[j].val) /\ rows[i].wrote < rows[j].wrote) =>
            rows[j].torn \/ rows[j].seen < rows[i].wrote

\* Once there are two samples of one sensor and time neither can be deleted:
\* destroy validates, and each is in the way of the other.  Only a destroy that
\* was validated before the second came up, or for a time that the row no longer
\* has, gets through.
TwinsAreNotDeleted ==
    [][\A w \in Workers : \A i, j \in DOMAIN rows :
          (/\ req'[w] # req[w] /\ req[w].st = "valid" /\ req[w].op = "destroy" /\ req[w].id = i
           /\ i # j /\ Key(rows[i].val) = Key(rows[j].val)
           /\ rows[i].val.active /\ ~rows'[i].val.active)
          => Key(req[w].copy) # Key(rows[i].val) \/ req[w].seen < rows[j].wrote]_vars

\* The answer tells what became of the sample: 200 that it is stored, 403 that
\* it is not, the item that the change was saved, the form that it was not.  The
\* pages can be wrong, because they validate again, but only when another request
\* wrote after this one was validated.
AnswerIsHonest ==
    \A w \in Workers : req[w].st = "over" =>
        /\ req[w].answer = "200" => req[w].stored
        /\ req[w].answer = "403" => ~req[w].stored
        /\ req[w].answer = "item" => req[w].stored \/ req[w].since > 0
        /\ req[w].answer = "form" => ~req[w].stored \/ req[w].since > 1

\* The colour of a tyre is never better than its samples: without a sample, or
\* with none that is recent by the tyre's or its company's threshold (or by the
\* type's, or three days, when they have none) it is not green, and it is red
\* when every sample is out of bounds.  When all are recent and within bounds it
\* is green.
ColourIsJustified ==
    \A s \in Sensors :
        LET times == {rows[i].val.time : i \in SamplesOf(s)}
            psis == {rows[i].val.psi : i \in SamplesOf(s)}
        IN \A last \in Last(s) :
            /\ \A tire, company, type \in Nullable(Spans) :
                  LET colour == GetColor(last.psi, 0, 0, last.time, TimeThreshold(tire, company, type))
                      spans == IF tire \cup company # {} THEN tire \cup company
                               ELSE IF type # {} THEN type ELSE {DefaultSpan}
                  IN  /\ (\E span \in spans : \A t \in times : t < now - span) => colour = "yellow"
                      /\ (times # {} /\ \A span \in spans, t \in times : t >= now - span)
                            => colour = "green"
            /\ \A tire, type \in Nullable(Marks), nominal \in Nominals :
                  LET hi == HiPsiThreshold(tire, type, nominal)
                      lo == LoPsiThreshold(tire, type, nominal)
                      red == GetColor(last.psi, hi, lo, last.time, DefaultSpan) = "red"
                      off(psi) == (hi > 0 /\ psi > hi) \/ (lo > 0 /\ psi < lo)
                  IN  /\ (psis # {} /\ \A psi \in psis : off(psi)) => red
                      /\ (psis # {} /\ \A psi \in psis : ~off(psi)) => ~red
                      /\ (psis = {} /\ lo > 0) => red

\* The "last" sample of a tyre is its newest.
LastIsNewest ==
    \A s \in Sensors : \A last \in Last(s) : \A i \in SamplesOf(s) : rows[i].val.time <= last.time
=============================================================================
