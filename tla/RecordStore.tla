---------------------------- MODULE RecordStore ----------------------------
(***************************************************************************)
(* What the persistence service promises the rest of the session host,     *)
(* without queues, classes or a writer: a file per session that never      *)
(* falls behind what was reported of it, callers that hear only of what    *)
(* was reported, and a deletion that is asked for first, happens once and  *)
(* is final.  Of revisions that were never reported the file promises      *)
(* nothing: a write that fails half-way may leave one there, and an older  *)
(* one may take its place.                                                 *)
(***************************************************************************)
EXTENDS Integers

CONSTANT Sessions

VARIABLES
    file,       \* the revision in a session's file, 0 when there is none
    reported,   \* the newest revision reported written
    promised,   \* the newest revision a waiting caller heard Ok of
    closing,    \* sessions whose removal was asked for
    gone        \* sessions whose file was deleted

vars == <<file, reported, promised, closing, gone>>

Init ==
    /\ file = [s \in Sessions |-> 0]
    /\ reported = [s \in Sessions |-> 0]
    /\ promised = [s \in Sessions |-> 0]
    /\ closing = {}
    /\ gone = {}

\* A caller may hear Ok: of what is reported, or of anything once the session
\* is to be removed and nobody will read its file again.
MayTell(s) ==
    \/ UNCHANGED promised
    \/ /\ promised'[s] \in Nat
       /\ promised' = [promised EXCEPT ![s] = promised'[s]]
       /\ promised[s] <= promised'[s]
       /\ promised'[s] <= reported'[s] \/ s \in closing

\* A revision no older than the reported one reaches the file; the write is
\* reported, or it failed half-way and is not.
Land(s) ==
    /\ s \notin gone
    /\ file'[s] \in Nat
    /\ file' = [file EXCEPT ![s] = file'[s]]
    /\ reported[s] <= file'[s]
    /\ \/ reported' = [reported EXCEPT ![s] = file'[s]] /\ MayTell(s)
       \/ UNCHANGED <<reported, promised>>
    /\ UNCHANGED <<closing, gone>>

\* A caller's revision needs no write.
Promise(s) ==
    /\ MayTell(s)
    /\ UNCHANGED <<file, reported, closing, gone>>

\* The removal of a session is asked for.
Close(s) ==
    /\ closing' = closing \cup {s}
    /\ UNCHANGED <<file, reported, promised, gone>>

Delete(s) ==
    /\ s \in closing
    /\ file' = [file EXCEPT ![s] = 0]
    /\ gone' = gone \cup {s}
    /\ UNCHANGED <<reported, promised, closing>>

Next == \E s \in Sessions : Land(s) \/ Promise(s) \/ Close(s) \/ Delete(s)

Spec == Init /\ [][Next]_vars
=============================================================================
