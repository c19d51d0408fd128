---------------------------- MODULE UploadPromise ----------------------------
(***************************************************************************)
(* What an upload promises the person who holds the phone, without the FTP *)
(* dialogue: at most one answer per phone; "reading" only for a capture    *)
(* that lies whole at the base station, which then keeps it.               *)
(***************************************************************************)
CONSTANT Phones

VARIABLES answer,       \* phone: what it was told, or "pending"
          kept          \* phones whose whole capture is in the upload directory

vars == <<answer, kept>>

Init ==
    /\ answer = [p \in Phones |-> "pending"]
    /\ kept = {}

\* The base station has the whole capture.
Keep(p) ==
    /\ kept' = kept \cup {p}
    /\ UNCHANGED answer

\* An upload that came whole but failed at its end is thrown away.
Discard(p) ==
    /\ answer[p] # "reading"
    /\ kept' = kept \ {p}
    /\ UNCHANGED answer

Answer(p) ==
    /\ answer[p] = "pending"
    /\ \E a \in {"reading", "nothing", "error"} :
          /\ a = "reading" => p \in kept
          /\ answer' = [answer EXCEPT ![p] = a]
    /\ UNCHANGED kept

Next == \E p \in Phones : Keep(p) \/ Discard(p) \/ Answer(p)

Spec == Init /\ [][Next]_vars
=============================================================================
