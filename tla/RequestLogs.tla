----------------------------- MODULE RequestLogs -----------------------------
(***************************************************************************)
(* The diffs of a ReactiveSearch request and its log record                *)
(* (model/requestlogs, querytranslate/middleware.go, logs/middleware.go).  *)
(*                                                                         *)
(* saveRequestToCtx puts a wait group and an unbuffered channel in a map   *)
(* whose entries expire; queryTranslate starts goroutines that send the    *)
(* body before and after the translation; once the request is answered a   *)
(* recorder goroutine receives them, until another goroutine, which waits  *)
(* for the senders, closes the channel, and writes the record to the log   *)
(* file.  The open validate routes run the first two middlewares only.     *)
(***************************************************************************)
EXTENDS Naturals, Sequences

CONSTANTS
    Requests,
    MaxTTL,         \* seconds an entry stays after its last access
    Newline

ASSUME LogsAssumption == MaxTTL \in Nat /\ Newline \notin Requests

VARIABLES
    pc,         \* the handler goroutine
    recorded,   \* the route has the logs recorder, and the path is not skipped
    age,        \* the map: seconds since the last access, Gone without an entry
    rl,         \* queryTranslate got the entry
    wg,         \* LogsDiffing
    closed,     \* Output
    writer,     \* the goroutines that send
    rec,        \* recordResponse
    closer,     \* the goroutine that closes
    got,        \* the results received
    file        \* the log file: records and newlines

vars == <<pc, recorded, age, rl, wg, closed, writer, rec, closer, got, file>>
handler == <<pc, recorded, rl>>
recorder == <<rec, closer, got, file>>

Times == {"before", "after"}
Gone == MaxTTL + 1
Busy == {"sending", "sent"}

Init ==
    /\ pc = [r \in Requests |-> "idle"]
    /\ recorded \in [Requests -> BOOLEAN]
    /\ age = [r \in Requests |-> Gone]
    /\ rl = [r \in Requests |-> FALSE]
    /\ wg = [r \in Requests |-> 0]
    /\ closed = [r \in Requests |-> FALSE]
    /\ writer = [r \in Requests |-> [t \in Times |-> "none"]]
    /\ rec = [r \in Requests |-> "none"]
    /\ closer = [r \in Requests |-> "none"]
    /\ got = [r \in Requests |-> {}]
    /\ file = <<>>

Goto(r, l) == pc' = [pc EXCEPT ![r] = l]

-----------------------------------------------------------------------------
(* The map.                                                                *)

Known(r) == age[r] # Gone

\* Put, and Get of an entry that is there, renew it.
Touch(r) == age' = [age EXCEPT ![r] = 0]

\* The expiry of an entry, a second later.
Older(a) == IF a + 1 > MaxTTL THEN Gone ELSE a + 1

\* The sweep of each second.
Sweep ==
    /\ \E r \in Requests : Known(r)
    /\ age' = [r \in Requests |-> IF Known(r) THEN Older(age[r]) ELSE Gone]
    /\ UNCHANGED <<handler, wg, closed, writer, recorder>>

-----------------------------------------------------------------------------
(* The middlewares of the request.                                         *)

saveRequestToCtx(r) ==
    /\ pc[r] = "idle"
    /\ Touch(r)
    /\ Goto(r, "chain")
    /\ UNCHANGED <<recorded, rl, wg, closed, writer, recorder>>

\* Authentication, limits and validators stand between on the recorded routes.
Refuse(r) ==
    /\ pc[r] = "chain" /\ recorded[r]
    /\ Goto(r, "answered")
    /\ UNCHANGED <<recorded, age, rl, wg, closed, writer, recorder>>

\* Seeded fault: the goroutine is started without Add.
StartUncounted(r, t) ==
    /\ writer' = [writer EXCEPT ![r][t] = "sending"]
    /\ UNCHANGED wg

\* Add(1) and the go statement of a sender.
Start(r, t) ==
    /\ writer' = [writer EXCEPT ![r][t] = "sending"]
    /\ wg' = [wg EXCEPT ![r] = @ + 1]

\* queryTranslate up to the first sender.
Translate(r) ==
    /\ pc[r] = "chain"
    /\ rl' = [rl EXCEPT ![r] = Known(r)]
    /\ IF Known(r) THEN Touch(r) /\ Start(r, "before") ELSE UNCHANGED <<age, wg, writer>>
    /\ Goto(r, "translating")
    /\ UNCHANGED <<recorded, closed, recorder>>

\* The sizes asked for, the translation or the independent requests are refused.
TranslateFails(r) ==
    /\ pc[r] = "translating"
    /\ Goto(r, "answered")
    /\ UNCHANGED <<recorded, age, rl, wg, closed, writer, recorder>>

Translated(r) ==
    /\ pc[r] = "translating"
    /\ IF rl[r] THEN Start(r, "after") ELSE UNCHANGED <<wg, writer>>
    /\ Goto(r, "search")
    /\ UNCHANGED <<recorded, age, rl, closed, recorder>>

\* The handler, of any duration, and the answer to the client.
Answer(r) ==
    /\ pc[r] = "search"
    /\ Goto(r, "answered")
    /\ UNCHANGED <<recorded, age, rl, wg, closed, writer, recorder>>

\* Seeded faults: the deferred call is left out, or made twice.
DoneMissing(r, t) ==
    /\ writer[r][t] = "sent"
    /\ writer' = [writer EXCEPT ![r][t] = "done"]
    /\ UNCHANGED <<handler, age, wg, closed, recorder>>

DoneTwice(r, t) ==
    /\ writer[r][t] = "sent"
    /\ writer' = [writer EXCEPT ![r][t] = "done"]
    /\ wg' = [wg EXCEPT ![r] = @ - 2]
    /\ UNCHANGED <<handler, age, closed, recorder>>

Done(r, t) ==
    /\ writer[r][t] = "sent"
    /\ writer' = [writer EXCEPT ![r][t] = "done"]
    /\ wg' = [wg EXCEPT ![r] = @ - 1]
    /\ UNCHANGED <<handler, age, closed, recorder>>

-----------------------------------------------------------------------------
(* recordResponse.                                                         *)

Record(r) ==
    /\ pc[r] = "answered" /\ recorded[r] /\ rec[r] = "none"
    /\ IF Known(r)
       THEN /\ Touch(r)
            /\ closer' = [closer EXCEPT ![r] = "waiting"]
            /\ rec' = [rec EXCEPT ![r] = "range"]
       ELSE /\ rec' = [rec EXCEPT ![r] = "write"]
            /\ UNCHANGED <<age, closer>>
    /\ UNCHANGED <<handler, wg, closed, writer, got, file>>

\* The channel has no buffer: a send and a receive happen together.
Receive(r, t) ==
    /\ rec[r] = "range" /\ writer[r][t] = "sending" /\ ~ closed[r]
    /\ writer' = [writer EXCEPT ![r][t] = "sent"]
    /\ got' = [got EXCEPT ![r] = @ \cup {t}]
    /\ UNCHANGED <<handler, age, wg, closed, rec, closer, file>>

\* Seeded fault: the channel is closed as soon as one result is there.
CloseEarly(r) ==
    /\ closer[r] = "waiting"
    /\ wg[r] <= 1
    /\ closed' = [closed EXCEPT ![r] = TRUE]
    /\ closer' = [closer EXCEPT ![r] = "done"]
    /\ UNCHANGED <<handler, age, wg, writer, rec, got, file>>

\* Wait and close.
Close(r) ==
    /\ closer[r] = "waiting"
    /\ wg[r] = 0
    /\ closed' = [closed EXCEPT ![r] = TRUE]
    /\ closer' = [closer EXCEPT ![r] = "done"]
    /\ UNCHANGED <<handler, age, wg, writer, rec, got, file>>

EndRange(r) ==
    /\ rec[r] = "range" /\ closed[r]
    /\ rec' = [rec EXCEPT ![r] = "delete"]
    /\ UNCHANGED <<handler, age, wg, closed, writer, closer, got, file>>

Delete(r) ==
    /\ rec[r] = "delete"
    /\ age' = [age EXCEPT ![r] = Gone]
    /\ rec' = [rec EXCEPT ![r] = "write"]
    /\ UNCHANGED <<handler, wg, closed, writer, closer, got, file>>

\* The record and its newline are two writes.  The first may fail, and then
\* there is no newline either.
WriteRecord(r) ==
    /\ rec[r] = "write"
    /\ \/ file' = Append(file, r) /\ rec' = [rec EXCEPT ![r] = "newline"]
       \/ rec' = [rec EXCEPT ![r] = "failed"] /\ UNCHANGED file
    /\ UNCHANGED <<handler, age, wg, closed, writer, closer, got>>

WriteNewline(r) ==
    /\ rec[r] = "newline"
    /\ file' = Append(file, Newline)
    /\ rec' = [rec EXCEPT ![r] = "done"]
    /\ UNCHANGED <<handler, age, wg, closed, writer, closer, got>>

-----------------------------------------------------------------------------
Handle(r) ==
    \/ saveRequestToCtx(r) \/ Refuse(r) \/ Translate(r)
    \/ TranslateFails(r) \/ Translated(r) \/ Answer(r)

Recording(r) ==
    \/ Record(r) \/ EndRange(r) \/ Delete(r) \/ WriteRecord(r) \/ WriteNewline(r)
    \/ \E t \in Times : Receive(r, t)

Next ==
    \/ \E r \in Requests : Handle(r) \/ Recording(r) \/ Close(r)
    \/ \E r \in Requests, t \in Times : Done(r, t)
    \/ Sweep

Spec == Init /\ [][Next]_vars

\* The goroutines are scheduled and the ticker ticks; no client must send.
FairSpec ==
    /\ Spec
    /\ WF_vars(Sweep)
    /\ \A r \in Requests :
          /\ WF_vars(Handle(r) /\ pc[r] # "idle") /\ WF_vars(Recording(r)) /\ WF_vars(Close(r))
          /\ \A t \in Times : WF_vars(Done(r, t))

-----------------------------------------------------------------------------
TypeOK ==
    /\ pc \in [Requests -> {"idle", "chain", "translating", "search", "answered"}]
    /\ recorded \in [Requests -> BOOLEAN]
    /\ age \in [Requests -> 0..Gone]
    /\ rl \in [Requests -> BOOLEAN]
    /\ wg \in [Requests -> 0..2]
    /\ closed \in [Requests -> BOOLEAN]
    /\ writer \in [Requests -> [Times -> {"none", "done"} \cup Busy]]
    /\ rec \in [Requests -> {"none", "range", "delete", "write", "newline", "done", "failed"}]
    /\ closer \in [Requests -> {"none", "waiting", "done"}]
    /\ got \in [Requests -> SUBSET Times]
    /\ file \in Seq(Requests \cup {Newline})

\* A send on a closed channel is a panic outside of any recovery: the channel
\* is not closed while a goroutine has still to send on it, nor before one that
\* has not started yet.
NoSendOnClosed ==
    \A r \in Requests : closed[r] =>
        /\ \A t \in Times : writer[r][t] \notin Busy
        /\ pc[r] = "answered"

\* The record that had the entry of its request has every result that was
\* sent for it: neither the closing nor the expiry of the entry cuts one off.
DiffsComplete ==
    \A r \in Requests :
        closer[r] = "done" => got[r] = {t \in Times : writer[r][t] # "none"}

\* Every request on a recorded route gets its record, with or without diffs:
\* recorder, closer and senders do not wait for each other in a circle.  And
\* entries leave the map, those of the open routes too.
RequestsSettle ==
    \A r \in Requests :
        /\ recorded[r] /\ pc[r] = "answered" ~> rec[r] \in {"done", "failed"}
        /\ Known(r) ~> ~ Known(r)

=============================================================================
