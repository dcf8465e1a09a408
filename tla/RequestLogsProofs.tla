------------------------- MODULE RequestLogsProofs -------------------------
(***************************************************************************)
(* The channel of a request is closed only after its senders, and its      *)
(* record has all they sent, for any number of requests and any lifetime   *)
(* of the entries.  The wait group alone does not show it: the invariant   *)
(* relates it to the senders (Counted) and says that nobody is started     *)
(* once the recorder waits (Phases).                                       *)
(***************************************************************************)
EXTENDS RequestLogs, TLAPS

\* The wait group counts a sender from its start to its Done.
Count(r, t) == IF writer[r][t] \in Busy THEN 1 ELSE 0
Counted == \A r \in Requests : wg[r] = Count(r, "before") + Count(r, "after")

\* What has been received is what has been sent.
Received ==
    \A r \in Requests : got[r] = {t \in Times : writer[r][t] \in {"sent", "done"}}

\* The senders start, and the recorder starts after them.
Phases == \A r \in Requests :
    /\ pc[r] \in {"idle", "chain"} => \A t \in Times : writer[r][t] = "none"
    /\ pc[r] = "translating" => writer[r]["after"] = "none"
    /\ pc[r] # "answered" => rec[r] = "none"
    /\ rec[r] = "none" => closer[r] = "none"
    /\ closed[r] <=> closer[r] = "done"
    /\ closed[r] => wg[r] = 0

\* The inductive invariant.
IInv == TypeOK /\ Counted /\ Received /\ Phases

\* Nothing runs at the start.
LEMMA InitIInv == Init => IInv
<1>. SUFFICES ASSUME Init PROVE IInv
  OBVIOUS
<1>1. TypeOK
  BY LogsAssumption DEF Init, TypeOK, Gone, Busy
<1>2. Counted /\ Received /\ Phases
  BY DEF Init, Counted, Count, Received, Phases, Busy, Times
<1>. QED
  BY <1>1, <1>2 DEF IInv

\* The steps of the handler that start nobody.
LEMMA QuietHandlerStep ==
  ASSUME IInv, NEW r \in Requests,
         saveRequestToCtx(r) \/ Refuse(r) \/ TranslateFails(r) \/ Answer(r)
  PROVE  IInv'
<1>1. TypeOK'
  <2>1. CASE saveRequestToCtx(r)
    <3>1. age' \in [Requests -> 0..Gone]
      BY <2>1, LogsAssumption DEF IInv, TypeOK, saveRequestToCtx, Touch, Gone
    <3>. QED
      BY <2>1, <3>1 DEF IInv, TypeOK, saveRequestToCtx, Goto, recorder
  <2>2. CASE Refuse(r) \/ TranslateFails(r) \/ Answer(r)
    BY <2>2 DEF IInv, TypeOK, Refuse, TranslateFails, Answer, Goto, recorder
  <2>. QED
    BY <2>1, <2>2
<1>2. Counted' /\ Received'
  BY DEF IInv, Counted, Count, Received, saveRequestToCtx, Refuse, TranslateFails, Answer, recorder
<1>3. Phases'
  <2>1. UNCHANGED <<wg, closed, writer, rec, closer>>
    BY DEF saveRequestToCtx, Refuse, TranslateFails, Answer, recorder
  <2>2. \A q \in Requests \ {r} : pc'[q] = pc[q]
    BY DEF IInv, TypeOK, saveRequestToCtx, Refuse, TranslateFails, Answer, Goto
  <2>3. /\ pc[r] # "answered"
        /\ (pc[r] = "idle" /\ pc'[r] = "chain") \/ pc'[r] = "answered"
    BY DEF IInv, TypeOK, saveRequestToCtx, Refuse, TranslateFails, Answer, Goto
  <2>. QED
    BY <2>1, <2>2, <2>3 DEF IInv, Phases
<1>. QED
  BY <1>1, <1>2, <1>3 DEF IInv

\* A sender that has not run is counted when it starts.
LEMMA StartEffect ==
  ASSUME IInv, NEW r \in Requests, NEW t \in Times, writer[r][t] = "none", Start(r, t)
  PROVE  /\ writer' \in [Requests -> [Times -> {"none", "done"} \cup Busy]]
         /\ wg' \in [Requests -> 0..2]
         /\ Counted'
<1>1. writer' \in [Requests -> [Times -> {"none", "done"} \cup Busy]]
  BY DEF IInv, TypeOK, Start, Busy
<1>2. wg'[r] = wg[r] + 1 /\ \A q \in Requests \ {r} : wg'[q] = wg[q] /\ writer'[q] = writer[q]
  BY DEF IInv, TypeOK, Start
<1>3. writer'[r][t] = "sending" /\ \A s \in Times \ {t} : writer'[r][s] = writer[r][s]
  BY DEF IInv, TypeOK, Start
<1>4. Counted'
  BY <1>2, <1>3 DEF IInv, Counted, Count, Times, Busy
<1>5. wg'[r] \in 0..2
  BY <1>4 DEF Counted, Count
<1>6. wg' \in [Requests -> 0..2]
  BY <1>2, <1>5 DEF IInv, TypeOK, Start
<1>. QED
  BY <1>1, <1>4, <1>6

\* queryTranslate starts its senders before the recorder exists.
LEMMA TranslateStep ==
  ASSUME IInv, NEW r \in Requests, Translate(r)
  PROVE  IInv'
<1>1. CASE Known(r)
  <2>1. writer[r]["before"] = "none" /\ Start(r, "before")
    BY <1>1 DEF IInv, Phases, Translate, Times
  <2>2. TypeOK'
    <3>1. age' \in [Requests -> 0..Gone]
      <4>1. Touch(r)
        BY <1>1 DEF Translate
      <4>. QED
        BY <4>1, LogsAssumption DEF IInv, TypeOK, Touch, Gone
    <3>2. rl' \in [Requests -> BOOLEAN]
      BY DEF IInv, TypeOK, Translate, Known
    <3>3. /\ writer' \in [Requests -> [Times -> {"none", "done"} \cup Busy]]
          /\ wg' \in [Requests -> 0..2]
      BY <2>1, StartEffect DEF Times
    <3>. QED
      BY <3>1, <3>2, <3>3 DEF IInv, TypeOK, Translate, Goto, recorder
  <2>3. Counted'
    BY <2>1, StartEffect DEF Times
  <2>4. Received'
    BY <2>1 DEF IInv, TypeOK, Received, Translate, Start, Times, recorder
  <2>5. Phases'
    BY <2>1 DEF IInv, TypeOK, Phases, Translate, Start, Goto, Times, recorder
  <2>. QED
    BY <2>2, <2>3, <2>4, <2>5 DEF IInv
<1>2. CASE ~ Known(r)
  <2>1. TypeOK'
    BY <1>2 DEF IInv, TypeOK, Translate, Goto, Known, recorder
  <2>2. Counted' /\ Received'
    BY <1>2 DEF IInv, Counted, Count, Received, Translate, recorder
  <2>3. Phases'
    BY <1>2 DEF IInv, TypeOK, Phases, Translate, Goto, Times, recorder
  <2>. QED
    BY <2>1, <2>2, <2>3 DEF IInv
<1>. QED
  BY <1>1, <1>2

\* ... the second one too.
LEMMA TranslatedStep ==
  ASSUME IInv, NEW r \in Requests, Translated(r)
  PROVE  IInv'
<1>1. CASE rl[r]
  <2>1. writer[r]["after"] = "none" /\ Start(r, "after")
    BY <1>1 DEF IInv, Phases, Translated
  <2>2. TypeOK'
    BY <1>1, <2>1, StartEffect DEF IInv, TypeOK, Translated, Goto, Times, recorder
  <2>3. Counted'
    BY <2>1, StartEffect DEF Times
  <2>4. Received'
    BY <2>1 DEF IInv, TypeOK, Received, Translated, Start, Times, recorder
  <2>5. Phases'
    BY <2>1 DEF IInv, TypeOK, Phases, Translated, Start, Goto, Times, recorder
  <2>. QED
    BY <2>2, <2>3, <2>4, <2>5 DEF IInv
<1>2. CASE ~ rl[r]
  <2>1. TypeOK'
    BY <1>2 DEF IInv, TypeOK, Translated, Goto, recorder
  <2>2. Counted' /\ Received'
    BY <1>2 DEF IInv, Counted, Count, Received, Translated, recorder
  <2>3. Phases'
    BY <1>2 DEF IInv, TypeOK, Phases, Translated, Goto, recorder
  <2>. QED
    BY <2>1, <2>2, <2>3 DEF IInv
<1>. QED
  BY <1>1, <1>2

\* A sender that has sent is counted until its Done.
LEMMA DoneStep ==
  ASSUME IInv, NEW r \in Requests, NEW t \in Times, Done(r, t)
  PROVE  IInv'
<1>1. wg'[r] = wg[r] - 1 /\ \A q \in Requests \ {r} : wg'[q] = wg[q] /\ writer'[q] = writer[q]
  BY DEF IInv, TypeOK, Done
<1>2. writer[r][t] = "sent" /\ writer'[r][t] = "done" /\ \A s \in Times \ {t} : writer'[r][s] = writer[r][s]
  BY DEF IInv, TypeOK, Done
<1>3. Counted'
  BY <1>1, <1>2 DEF IInv, Counted, Count, Times, Busy
<1>4. wg'[r] \in 0..2
  BY <1>3 DEF Counted, Count
<1>5. TypeOK'
  BY <1>1, <1>4 DEF IInv, TypeOK, Done, handler, recorder, Busy
<1>6. Received'
  BY <1>1, <1>2 DEF IInv, Received, Done, recorder
<1>7. wg[r] # 0
  BY <1>2 DEF IInv, Counted, Count, Times, Busy
<1>8. Phases'
  BY <1>1, <1>2, <1>7 DEF IInv, Phases, Done, handler, recorder, Times
<1>. QED
  BY <1>3, <1>5, <1>6, <1>8 DEF IInv

\* A receive moves a result from its sender to the recorder.
LEMMA ReceiveStep ==
  ASSUME IInv, NEW r \in Requests, NEW t \in Times, Receive(r, t)
  PROVE  IInv'
<1>1. /\ \A q \in Requests \ {r} : got'[q] = got[q] /\ writer'[q] = writer[q]
      /\ got'[r] = got[r] \cup {t}
  BY DEF IInv, TypeOK, Receive
<1>2. writer[r][t] = "sending" /\ writer'[r][t] = "sent" /\ \A s \in Times \ {t} : writer'[r][s] = writer[r][s]
  BY DEF IInv, TypeOK, Receive
<1>3. TypeOK'
  BY DEF IInv, TypeOK, Receive, handler, Busy
<1>4. Counted'
  BY <1>1, <1>2 DEF IInv, Counted, Count, Receive, Times, Busy
<1>5. Received'
  BY <1>1, <1>2 DEF IInv, Received
<1>6. Phases'
  BY <1>1, <1>2 DEF IInv, Phases, Receive, handler, Times
<1>. QED
  BY <1>3, <1>4, <1>5, <1>6 DEF IInv

\* The steps of the recorder and the closer that move no result.
LEMMA RecorderStep ==
  ASSUME IInv, NEW r \in Requests,
         Record(r) \/ Close(r) \/ EndRange(r) \/ Delete(r) \/ WriteRecord(r) \/ WriteNewline(r)
  PROVE  IInv'
<1>1. TypeOK'
  <2>1. CASE Close(r) \/ EndRange(r)
    BY <2>1 DEF IInv, TypeOK, Close, EndRange, handler
  <2>4. CASE Record(r)
    <3>1. age' \in [Requests -> 0..Gone]
      BY <2>4, LogsAssumption DEF IInv, TypeOK, Record, Touch, Gone
    <3>. QED
      BY <2>4, <3>1 DEF IInv, TypeOK, Record, handler
  <2>2. CASE Delete(r)
    BY <2>2, LogsAssumption DEF IInv, TypeOK, Delete, handler, Gone
  <2>3. CASE WriteRecord(r) \/ WriteNewline(r)
    <3>1. file' \in Seq(Requests \cup {Newline})
      <4>1. file \in Seq(Requests \cup {Newline})
        BY DEF IInv, TypeOK
      <4>2. file' \in {file, Append(file, r), Append(file, Newline)}
        BY <2>3 DEF WriteRecord, WriteNewline
      <4>. QED
        BY <4>1, <4>2
    <3>2. rec' \in [Requests -> {"none", "range", "delete", "write", "newline", "done", "failed"}]
      BY <2>3 DEF IInv, TypeOK, WriteRecord, WriteNewline
    <3>. QED
      BY <2>3, <3>1, <3>2 DEF IInv, TypeOK, WriteRecord, WriteNewline, handler
  <2>. QED
    BY <2>1, <2>2, <2>3, <2>4
<1>2. Counted' /\ Received'
  BY DEF IInv, Counted, Count, Received, Record, Close, EndRange, Delete, WriteRecord,
         WriteNewline
<1>3. Phases'
  <2>1. UNCHANGED <<pc, wg, writer>> /\ pc[r] = "answered"
    BY DEF IInv, Phases, Record, Close, EndRange, Delete, WriteRecord, WriteNewline, handler
  <2>2. \A q \in Requests \ {r} :
           rec'[q] = rec[q] /\ closer'[q] = closer[q] /\ closed'[q] = closed[q]
    BY DEF IInv, TypeOK, Record, Close, EndRange, Delete, WriteRecord, WriteNewline
  <2>3. rec'[r] = "none" => rec[r] = "none" /\ closer'[r] = "none"
    BY DEF IInv, TypeOK, Phases, Record, Close, EndRange, Delete, WriteRecord, WriteNewline
  <2>4. (closed'[r] <=> closer'[r] = "done") /\ (closed'[r] => wg[r] = 0)
    BY DEF IInv, TypeOK, Phases, Record, Close, EndRange, Delete, WriteRecord, WriteNewline
  <2>. QED
    BY <2>1, <2>2, <2>3, <2>4 DEF IInv, Phases
<1>. QED
  BY <1>1, <1>2, <1>3 DEF IInv

\* The sweep touches the map only.
LEMMA SweepStep ==
  ASSUME IInv, Sweep
  PROVE  IInv'
<1>1. TypeOK'
  BY LogsAssumption DEF IInv, TypeOK, Sweep, Older, Known, Gone, handler, recorder
<1>2. Counted' /\ Received' /\ Phases'
  BY DEF IInv, Counted, Count, Received, Phases, Sweep, handler, recorder
<1>. QED
  BY <1>1, <1>2 DEF IInv

\* Every action preserves the invariant.
LEMMA NextIInv == IInv /\ [Next]_vars => IInv'
<1>. SUFFICES ASSUME IInv, [Next]_vars PROVE IInv'
  OBVIOUS
<1>1. ASSUME NEW r \in Requests, Handle(r) PROVE IInv'
  BY <1>1, QuietHandlerStep, TranslateStep, TranslatedStep DEF Handle
<1>2. ASSUME NEW r \in Requests, Recording(r) \/ Close(r) PROVE IInv'
  BY <1>2, RecorderStep, ReceiveStep DEF Recording
<1>3. ASSUME NEW r \in Requests, NEW t \in Times, Done(r, t) PROVE IInv'
  BY <1>3, DoneStep
<1>4. CASE Sweep
  BY <1>4, SweepStep
<1>5. CASE UNCHANGED vars
  BY <1>5 DEF vars, IInv, TypeOK, Counted, Count, Received, Phases
<1>. QED
  BY <1>1, <1>2, <1>3, <1>4, <1>5 DEF Next

\* The inductive invariant holds in every state of every execution.
THEOREM Inductive == Spec => []IInv
BY InitIInv, NextIInv, PTL DEF Spec

\* Entries, senders, wait groups and records keep their types; a wait group in
\* particular never goes below zero, which would be a panic.
THEOREM TypeCorrect == Spec => []TypeOK
BY Inductive, PTL DEF IInv

\* recordResponse closes the channel of a request only when every sender of
\* queryTranslate has sent and no other can start, so no send panics.
THEOREM NobodySendsOnClosed == Spec => []NoSendOnClosed
<1>1. IInv => NoSendOnClosed
  <2>. SUFFICES ASSUME IInv, NEW r \in Requests, closed[r]
                PROVE  /\ \A t \in Times : writer[r][t] \notin Busy
                       /\ pc[r] = "answered"
    BY DEF NoSendOnClosed
  <2>1. pc[r] = "answered" /\ wg[r] = 0
    BY DEF IInv, Phases
  <2>2. \A t \in Times : Count(r, t) = 0
    BY <2>1 DEF IInv, Counted, Count, Times
  <2>. QED
    BY <2>1, <2>2 DEF Count
<1>. QED
  BY <1>1, Inductive, PTL

\* The record of a request that still had its entry has every result sent for
\* it, although the map may expire the entry at any moment.
THEOREM RecordsAreComplete == Spec => []DiffsComplete
<1>1. IInv => DiffsComplete
  <2>. SUFFICES ASSUME IInv, NEW r \in Requests, closer[r] = "done"
                PROVE  got[r] = {t \in Times : writer[r][t] # "none"}
    BY DEF DiffsComplete
  <2>1. wg[r] = 0
    BY DEF IInv, Phases
  <2>2. \A t \in Times : writer[r][t] \notin Busy
    BY <2>1 DEF IInv, Counted, Count, Times
  <2>3. \A t \in Times : writer[r][t] \in {"none", "done"}
    BY <2>2 DEF IInv, TypeOK
  <2>. QED
    BY <2>3 DEF IInv, Received
<1>. QED
  BY <1>1, Inductive, PTL
=============================================================================
