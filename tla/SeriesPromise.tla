---------------------------- MODULE SeriesPromise ----------------------------
(***************************************************************************)
(* What reindexing promises to those who only know the name of a series of *)
(* indices.  The name reaches one index at a time.  It moves along the     *)
(* series an index at a time, by leaving one and arriving at the next, and *)
(* at the index it arrives at they find every document they can rely on.   *)
(* In between the name reaches nothing, and if the process stops there it  *)
(* stays so.  Who moves it, how often they try and how the documents get   *)
(* to the next index is left to the implementation (module Reindex).       *)
(***************************************************************************)
EXTENDS Naturals

CONSTANTS Initially, None

VARIABLES
    at,         \* the index the name reaches, or None
    leaving,    \* the index it has left and not yet replaced, or None
    found,      \* the documents a search by the name finds
    kept        \* those its clients rely on

vars == <<at, leaving, found, kept>>

Init ==
    /\ at = 0
    /\ leaving = None
    /\ found = Initially
    /\ kept = Initially

\* Documents come into the index, and clients rely on some of them.
Write ==
    /\ at # None
    /\ found \subseteq found'
    /\ kept \subseteq kept'
    /\ kept' \subseteq kept \cup found'
    /\ UNCHANGED <<at, leaving>>

Leave ==
    /\ at # None
    /\ at' = None
    /\ leaving' = at
    /\ found' = {}
    /\ UNCHANGED kept

Arrive ==
    /\ leaving # None
    /\ at' = leaving + 1
    /\ leaving' = None
    /\ kept \subseteq found'
    /\ UNCHANGED kept

\* The process stops between the two.
Cut ==
    /\ leaving # None
    /\ leaving' = None
    /\ UNCHANGED <<at, found, kept>>

Next == Write \/ Leave \/ Arrive \/ Cut

Spec == Init /\ [][Next]_vars

\* A search by the name that reaches an index finds what clients rely on, in
\* the middle of a job as well.
NothingMissing == at # None => kept \subseteq found
=============================================================================
