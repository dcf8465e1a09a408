------------------------------ MODULE MCReindex ------------------------------
(* Small instances of Reindex: two jobs on one series of indices.          *)
EXTENDS Reindex

Job(x, d, w, act) == [name |-> x, dest |-> d, wait |-> w, action |-> act]

InPlace == {Job(0, None, w, "all") : w \in BOOLEAN}

\* In place, waiting or not; copies to a destination, which may be the next
\* index of the series; and a job without data.
MenuAll == InPlace \cup {Job(0, 1, TRUE, "all"), Job(0, 2, FALSE, "all"),
                         Job(0, None, TRUE, "mappings")}

MenuAsync == {Job(0, None, FALSE, "all")}
MenuWaiting == {Job(0, None, TRUE, "all")}

\* One that waits, and a copy to a destination that a goroutine follows.
MenuMixed == {Job(0, None, TRUE, "all"), Job(0, 2, FALSE, "all")}

\* Jobs by the name only, whose failures all leave the old index in place.
SafeFaults == {"lookup", "describe", "create", "start", "copy", "poll", "aliases",
               "delete", "discard"}
AllButSwap == SafeFaults \cup {"extras", "vanish", "restart"}

\* Copies that go on after their calls, tasks that vanish or end by an error,
\* and jobs that are cut off.
Outliving == {"unanswered", "abort", "vanish", "discard", "restart"}

\* One of them at a time.
TaskErrors == {"abort"}
Unanswereds == {"unanswered"}
NoFault == {}
=============================================================================
