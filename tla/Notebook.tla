------------------------------- MODULE Notebook -------------------------------
(***************************************************************************)
(* What a lecture transcript promises to the student, whatever the speech  *)
(* recogniser does underneath.                                             *)
(*                                                                         *)
(* A recording is heard in segments, one per recognition task, numbered in *)
(* the order they were begun.  A note is the text of one segment; its      *)
(* wording is abstracted to a number.  The only thing that may ever happen *)
(* to the notes is that the newest segment gets a first or a better        *)
(* hypothesis: the text of an earlier segment neither changes nor goes.    *)
(***************************************************************************)
EXTENDS Naturals

CONSTANTS
    Tasks,        \* numbers of the segments
    Hypotheses    \* the texts a segment may be given

VARIABLE notes    \* set of the segments' current texts

Init == notes = {}

\* The recogniser delivers hypothesis k of segment n; no later segment has text.
Revise(n, k) ==
    /\ \A note \in notes : note.task <= n
    /\ notes' = {note \in notes : note.task # n}
                  \cup {[task |-> n, words |-> k]}

Next == \E n \in Tasks, k \in Hypotheses : Revise(n, k)

Spec == Init /\ [][Next]_notes
===============================================================================
