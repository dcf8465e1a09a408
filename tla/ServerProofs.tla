---------------------------- MODULE ServerProofs ----------------------------
(***************************************************************************)
(* Proofs about Server: for which causes the process ends and which router *)
(* it serves, for any number of callers, requests, health checks and       *)
(* migrations.                                                             *)
(***************************************************************************)
EXTENDS Server, FiniteSetTheorems, TLAPS

\* Before the main goroutine has listened nobody else does anything.
Before == {"load", "migrate", "script", "build", "listen"}

StartsFirst ==
    /\ pc[Main] \in Stages \ {"idle", "swapped", "shutting", "replace", "failed"}
    /\ pc[Main] \in Before =>
          /\ port = None
          /\ \A a \in Callers : pc[a] = "idle"
          /\ \A c \in Conns : conn[c] = "none"

\* As long as restarts and an interrupt do not overlap, a restart finds the
\* port free and, once it has waited, no request; what listens is known to
\* rs.server, and so is every request; and after an interrupt nothing listens.
OneAtATime ==
    ~ overlapped =>
        /\ \A a, b \in Callers : Restarting(a) /\ Restarting(b) => a = b
        /\ \A a \in Callers : Restarting(a) => signal = "none" /\ port = None
        /\ \A a \in Callers : pc[a] = "replace" => Quiet
        /\ port # None => port.known
        /\ \A c \in Conns : conn[c] # "lost"
        /\ signal # "none" => port = None /\ server.closed
        /\ signal = "done" => Quiet

IInv ==
    /\ pc \in [Actors -> Stages]
    /\ conn \in [Conns -> {"none", "known", "lost"}]
    /\ port = None \/ port \in [by : Actors, known : BOOLEAN]
    /\ built \in [Actors -> Nat \cup {None}] /\ router \in Nat
    /\ server \in [handler : Nat \cup {None}, closed : BOOLEAN]
    /\ StartsFirst
    /\ OneAtATime
    /\ EndsForCause

LEMMA Actors2 ==
  Main \in Actors /\ Main \notin Callers /\ Actors = Callers \cup {Main} /\ None \notin Actors
  BY ServerAssumption DEF Actors

LEMMA InitOK == Init => IInv
<1> SUFFICES ASSUME Init PROVE IInv
  OBVIOUS
<1>1. /\ pc = [a \in Actors |-> IF a = Main THEN "load" ELSE "idle"]
      /\ built = [a \in Actors |-> None] /\ router = 0 /\ server = NewServer /\ port = None
      /\ conn = [c \in Conns |-> "none"] /\ signal = "none" /\ ended = None
  BY DEF Init
<1>2. pc[Main] = "load" /\ \A a \in Callers : pc[a] = "idle"
  BY <1>1, Actors2
<1>3. pc \in [Actors -> Stages]
  BY <1>1 DEF Stages
<1>4. server \in [handler : Nat \cup {None}, closed : BOOLEAN]
  BY <1>1 DEF NewServer
<1>5. StartsFirst
  BY <1>1, <1>2 DEF StartsFirst, Before, Stages
<1>6. OneAtATime
  BY <1>1, <1>2 DEF OneAtATime, Restarting
<1>7. ended \notin {"bind", "race", "interrupt"}
  BY <1>1, ServerAssumption
<1> QED
  BY <1>1, <1>3, <1>4, <1>5, <1>6, <1>7 DEF IInv, EndsForCause

\* Start-up: the main goroutine goes on before it listens.
LEMMA StartUpKeeps == IInv /\ StartUp => IInv'
<1> SUFFICES ASSUME IInv, StartUp PROVE IInv'
  OBVIOUS
<1>1. UNCHANGED <<port, conn, server, built, signal, overlapped>> /\ ended = None
  BY DEF StartUp, LoadPlugin, Loaded, Migrate, RunScript, SetUp, serving, At
<1>2. ended' \in {None, "plugin"} /\ router' \in {router, 1}
  BY <1>1 DEF StartUp, LoadPlugin, Loaded, Migrate, RunScript, SetUp, serving
<1>3. pc[Main] \in Before /\ \E s \in Before : pc' = [pc EXCEPT ![Main] = s]
  BY Actors2 DEF StartUp, LoadPlugin, Loaded, Migrate, RunScript, SetUp, At, Goto, IInv, Before
<1>4. pc' \in [Actors -> Stages] /\ pc'[Main] \in Before /\ \A a \in Callers : pc'[a] = pc[a]
  BY <1>3, Actors2 DEF IInv, Before, Stages
<1> QED
  BY <1>1, <1>2, <1>3, <1>4, Actors2 DEF IInv, StartsFirst, OneAtATime, EndsForCause, Restarting, Quiet,
     Before, Stages

LEMMA RunAsyncScriptKeeps == IInv /\ RunAsyncScript => IInv'
<1> SUFFICES ASSUME IInv, RunAsyncScript PROVE IInv'
  OBVIOUS
<1>1. UNCHANGED <<pc, port, conn, server, built, router, signal, overlapped, ended>>
  BY DEF RunAsyncScript, serving
<1> QED
  BY <1>1 DEF IInv, StartsFirst, OneAtATime, EndsForCause, Restarting, Quiet

\* Nobody but a restart that has waited, or the main goroutine, gets there.
LEMMA BuildKeeps ==
  ASSUME IInv, NEW a \in Actors, BuildHandler(a)
  PROVE  IInv'
<1>1. /\ UNCHANGED <<port, conn, server, router, signal, overlapped, ended>> /\ ended = None
      /\ pc[a] = "build" /\ pc' = [pc EXCEPT ![a] = "listen"] /\ built' = [built EXCEPT ![a] = router]
  BY DEF BuildHandler, At, Goto
<1>2. pc' \in [Actors -> Stages] /\ pc'[a] = "listen" /\ \A b \in Actors \ {a} : pc'[b] = pc[b]
  BY <1>1 DEF IInv, Stages
<1>3. \A b \in Callers : Restarting(b)' = Restarting(b) /\ (pc'[b] = "replace" => pc[b] = "replace")
  BY <1>1, <1>2, Actors2 DEF Restarting
<1>4. StartsFirst'
  BY <1>1, <1>2, Actors2 DEF IInv, StartsFirst, Before, Stages
<1>5. OneAtATime'
  BY <1>1, <1>3 DEF IInv, OneAtATime, Quiet
<1>6. EndsForCause' /\ built' \in [Actors -> Nat \cup {None}]
  BY <1>1 DEF IInv, EndsForCause
<1> QED
  BY <1>1, <1>2, <1>4, <1>5, <1>6 DEF IInv

LEMMA ListenKeeps ==
  ASSUME IInv, NEW a \in Actors, Listen(a)
  PROVE  IInv'
<1>1. /\ UNCHANGED <<conn, built, router, signal, overlapped>>
      /\ pc[a] = "listen" /\ ended = None /\ server' = [server EXCEPT !.handler = built[a]]
  BY DEF Listen, At
<1>2. server' \in [handler : Nat \cup {None}, closed : BOOLEAN] /\ server'.closed = server.closed
  BY <1>1 DEF IInv
<1>3. a \in Callers => Restarting(a)
  BY <1>1 DEF Restarting
<1>4. a = Main => port = None /\ \A b \in Callers : ~ Restarting(b)
  BY <1>1, Actors2 DEF IInv, StartsFirst, Before, Restarting
<1>5. ~ overlapped => port = None /\ (a \in Callers => signal = "none")
                      /\ \A b \in Callers \ {a} : ~ Restarting(b)
  BY <1>3, <1>4, Actors2 DEF IInv, OneAtATime
<1>6. CASE server.closed
  <2>1. pc' = [pc EXCEPT ![a] = "waiting"] /\ UNCHANGED <<port, ended>>
    BY <1>6 DEF Listen, Goto
  <2>2. pc' \in [Actors -> Stages] /\ pc'[a] = "waiting" /\ \A b \in Actors \ {a} : pc'[b] = pc[b]
    BY <2>1 DEF IInv, Stages
  <2>3. \A b \in Callers : (Restarting(b)' => Restarting(b)) /\ (pc'[b] = "replace" => pc[b] = "replace")
    BY <2>2, Actors2 DEF Restarting
  <2>4. StartsFirst'
    BY <1>1, <2>1, <2>2, Actors2 DEF IInv, StartsFirst, Before, Stages
  <2>5. OneAtATime'
    BY <1>1, <1>2, <2>1, <2>3 DEF IInv, OneAtATime, Quiet
  <2> QED
    BY <1>1, <1>2, <2>1, <2>2, <2>4, <2>5 DEF IInv, EndsForCause
<1>7. CASE ~ server.closed /\ port = None
  <2>1. pc' = [pc EXCEPT ![a] = "serving"] /\ port' = [by |-> a, known |-> TRUE] /\ ended' = ended
    BY <1>7 DEF Listen, Goto
  <2>2. pc' \in [Actors -> Stages] /\ pc'[a] = "serving" /\ \A b \in Actors \ {a} : pc'[b] = pc[b]
    BY <2>1 DEF IInv, Stages
  <2>3. \A b \in Callers : (Restarting(b)' => Restarting(b) /\ b # a)
                           /\ (pc'[b] = "replace" => pc[b] = "replace")
    BY <2>2, Actors2 DEF Restarting
  <2>4. StartsFirst'
    BY <1>1, <2>1, <2>2, Actors2 DEF IInv, StartsFirst, Before, Stages
  <2>5. ~ overlapped => signal = "none"
    BY <1>7 DEF IInv, OneAtATime
  <2>6. OneAtATime'
    BY <1>1, <1>2, <1>5, <2>1, <2>3, <2>5 DEF IInv, OneAtATime, Quiet
  <2>7. port' \in [by : Actors, known : BOOLEAN]
    BY <2>1
  <2> QED
    BY <1>1, <1>2, <2>1, <2>2, <2>4, <2>6, <2>7 DEF IInv, EndsForCause
<1>8. CASE ~ server.closed /\ port # None
  <2>1. ended' = "bind" /\ UNCHANGED <<pc, port>>
    BY <1>8 DEF Listen
  <2>2. overlapped
    BY <1>5, <1>8
  <2> QED
    BY <1>1, <1>2, <2>1, <2>2, ServerAssumption DEF IInv, StartsFirst, OneAtATime, EndsForCause
<1>9. server.closed \in BOOLEAN
  BY DEF IInv
<1> QED
  BY <1>6, <1>7, <1>8, <1>9

-----------------------------------------------------------------------------
(* Restarts.                                                               *)

LEMMA SwapKeeps ==
  ASSUME IInv, NEW a \in Callers, Swap(a)
  PROVE  IInv'
<1>1. /\ UNCHANGED <<server, port, conn, signal, ended, overlapped>>
      /\ pc[a] = "idle" /\ pc[Main] \in {"serving", "waiting"} /\ ended = None
      /\ router' = router + 1 /\ built' = [built EXCEPT ![a] = router']
      /\ pc' = [pc EXCEPT ![a] = "swapped"]
  BY DEF Swap, At, Goto
<1>2. pc' \in [Actors -> Stages] /\ pc'[a] = "swapped" /\ \A b \in Actors \ {a} : pc'[b] = pc[b]
  BY <1>1, Actors2 DEF IInv, Stages
<1>3. router' \in Nat /\ built' \in [Actors -> Nat \cup {None}]
  BY <1>1, Actors2 DEF IInv
<1>4. \A b \in Callers : Restarting(b)' = Restarting(b) /\ (pc'[b] = "replace" => pc[b] = "replace")
  BY <1>1, <1>2, Actors2 DEF Restarting
<1>5. StartsFirst'
  BY <1>1, <1>2, Actors2 DEF IInv, StartsFirst, Before, Stages
<1>6. OneAtATime'
  BY <1>1, <1>4 DEF IInv, OneAtATime, Quiet
<1> QED
  BY <1>1, <1>2, <1>3, <1>5, <1>6 DEF IInv, EndsForCause

\* What closing the listener does, for a caller or for an interrupt.
LEMMA ClosesDoes ==
  ASSUME IInv, NEW a \in Callers \cup {None}, NEW s, a = None \/ s \in Stages, Closes(a, s),
         pc[Main] \notin Before \/ port = None
  PROVE  /\ pc' \in [Actors -> Stages]
         /\ a # None => pc'[a] = s
         /\ \A b \in Actors \ {a} : pc'[b] = pc[b] \/ (pc'[b] = "waiting" /\ port # None)
         /\ server' \in [handler : Nat \cup {None}, closed : BOOLEAN] /\ server'.closed
         /\ port' = None \/ port' = port
         /\ port # None /\ port.known => port' = None
<1> DEFINE shut == port # None /\ port.known
<1>1. /\ server' = [server EXCEPT !.closed = TRUE]
      /\ port' = IF shut THEN None ELSE port
      /\ pc' = [b \in Actors |-> IF b = a THEN s
                                ELSE IF shut /\ b = port.by THEN "waiting" ELSE pc[b]]
  BY DEF Closes
<1>2. server' \in [handler : Nat \cup {None}, closed : BOOLEAN] /\ server'.closed
  BY <1>1 DEF IInv
<1>3. \A b \in Actors \ {a} : pc'[b] = pc[b] \/ (pc'[b] = "waiting" /\ port # None)
  BY <1>1
<1>4. a # None => a \in Actors /\ pc'[a] = s
  BY <1>1, Actors2
<1>5. pc \in [Actors -> Stages] /\ "waiting" \in Stages
  BY DEF IInv, Stages
<1>6. \A b \in Actors : pc'[b] \in Stages
  BY <1>3, <1>4, <1>5, Actors2
<1>7. pc' \in [Actors -> Stages]
  BY <1>1, <1>6
<1> QED
  BY <1>1, <1>2, <1>3, <1>4, <1>7

LEMMA ShutdownKeeps ==
  ASSUME IInv, NEW a \in Callers, Shutdown(a)
  PROVE  IInv'
<1>1. /\ UNCHANGED <<built, router, conn, signal, ended>>
      /\ pc[a] = "swapped" /\ ended = None /\ Closes(a, "shutting")
      /\ overlapped' = (overlapped \/ signal # "none" \/ \E b \in Callers : Restarting(b))
  BY DEF Shutdown, At
<1>2. pc[Main] \notin Before
  BY <1>1 DEF IInv, StartsFirst
<1>3. /\ pc' \in [Actors -> Stages] /\ pc'[a] = "shutting"
      /\ \A b \in Actors \ {a} : pc'[b] = pc[b] \/ pc'[b] = "waiting"
      /\ server' \in [handler : Nat \cup {None}, closed : BOOLEAN] /\ server'.closed
      /\ port' = None \/ port' = port
      /\ port # None /\ port.known => port' = None
  BY <1>1, <1>2, Actors2, ClosesDoes DEF Stages
<1>4. StartsFirst'
  BY <1>1, <1>2, <1>3, Actors2 DEF IInv, StartsFirst, Before, Stages
<1>5. ~ overlapped' => ~ overlapped /\ signal = "none" /\ \A b \in Callers : ~ Restarting(b)
  BY <1>1
<1>6. \A b \in Callers \ {a} : Restarting(b)' => Restarting(b)
  BY <1>3, Actors2 DEF Restarting
<1>7. pc'[a] # "replace" /\ \A b \in Callers : pc'[b] = "replace" => pc[b] = "replace"
  BY <1>3, Actors2
<1>8. OneAtATime'
  BY <1>1, <1>3, <1>5, <1>6, <1>7 DEF IInv, OneAtATime, Quiet
<1>9. EndsForCause'
  BY <1>1, ServerAssumption DEF EndsForCause
<1> QED
  BY <1>1, <1>3, <1>4, <1>8, <1>9 DEF IInv

LEMMA ShutdownReturnsKeeps ==
  ASSUME IInv, NEW a \in Callers, ShutdownReturns(a)
  PROVE  IInv'
<1>1. /\ UNCHANGED <<serving, conn, signal, ended, overlapped>>
      /\ pc[a] = "shutting" /\ ended = None /\ Quiet
  BY DEF ShutdownReturns, At
<1>2. PICK s \in {"replace", "failed"} : pc' = [pc EXCEPT ![a] = s]
  BY DEF ShutdownReturns, Goto
<1>3. pc' \in [Actors -> Stages] /\ pc'[a] = s /\ \A b \in Actors \ {a} : pc'[b] = pc[b]
  BY <1>2, Actors2 DEF IInv, Stages
<1>4. StartsFirst'
  BY <1>1, <1>3, Actors2 DEF serving, IInv, StartsFirst, Before, Stages
<1>5. \A b \in Callers : Restarting(b)' => Restarting(b)
  BY <1>1, <1>3, Actors2 DEF Restarting
<1>6. OneAtATime'
  BY <1>1, <1>3, <1>5, Actors2 DEF serving, IInv, OneAtATime, Quiet
<1> QED
  BY <1>1, <1>3, <1>4, <1>6 DEF serving, IInv, EndsForCause

LEMMA ReplaceKeeps ==
  ASSUME IInv, NEW a \in Callers, Replace(a)
  PROVE  IInv'
<1>1. /\ UNCHANGED <<built, router, signal, overlapped>>
      /\ pc[a] = "replace" /\ ended = None /\ server' = NewServer
      /\ port' = IF port = None THEN None ELSE [port EXCEPT !.known = FALSE]
      /\ conn' = [c \in Conns |-> IF conn[c] = "known" THEN "lost" ELSE conn[c]]
      /\ pc' = [pc EXCEPT ![a] = "build"]
  BY DEF Replace, At, Goto
<1>2. pc' \in [Actors -> Stages] /\ pc'[a] = "build" /\ \A b \in Actors \ {a} : pc'[b] = pc[b]
  BY <1>1, Actors2 DEF IInv, Stages
<1>3. server' \in [handler : Nat \cup {None}, closed : BOOLEAN]
  BY <1>1 DEF NewServer
<1>4. conn' \in [Conns -> {"none", "known", "lost"}]
  BY <1>1 DEF IInv
<1>5. port' = None \/ port' \in [by : Actors, known : BOOLEAN]
  BY <1>1 DEF IInv
<1>6. StartsFirst'
  BY <1>1, <1>2, Actors2 DEF IInv, StartsFirst, Before, Stages
<1>7. Restarting(a)
  BY <1>1 DEF Restarting
<1>8. \A b \in Callers : Restarting(b)' => Restarting(b)
  BY <1>1, <1>2, <1>7, Actors2 DEF Restarting
<1>9. ~ overlapped => /\ port = None /\ Quiet /\ signal = "none"
                      /\ \A b \in Callers \ {a} : ~ Restarting(b)
  BY <1>1, <1>7 DEF IInv, OneAtATime
<1>10. ~ overlapped => conn' = conn
  BY <1>1, <1>9 DEF Quiet, IInv
<1>11. OneAtATime'
  <2>1. ~ overlapped => \A b \in Callers : pc'[b] # "replace"
    BY <1>2, <1>9, Actors2 DEF Restarting
  <2> QED
    BY <1>1, <1>8, <1>9, <1>10, <2>1 DEF IInv, OneAtATime, Quiet
<1>12. EndsForCause'
  <2>1. CASE ended' = ended
    BY <1>1, <2>1, ServerAssumption DEF EndsForCause
  <2>2. CASE ended' = "race" /\ (signal = "shutting" \/ \E b \in Callers : At(b, "shutting"))
    <3>1. overlapped
      BY <1>1, <1>9, <2>2 DEF At, Restarting
    <3> QED
      BY <1>1, <2>2, <3>1 DEF EndsForCause
  <2> QED
    BY <2>1, <2>2 DEF Replace
<1> QED
  BY <1>1, <1>2, <1>3, <1>4, <1>5, <1>6, <1>11, <1>12 DEF IInv

-----------------------------------------------------------------------------
(* The interrupt.                                                          *)

LEMMA InterruptKeeps == IInv /\ Interrupt => IInv'
<1> SUFFICES ASSUME IInv, Interrupt PROVE IInv'
  OBVIOUS
<1>1. UNCHANGED <<built, router, conn>> /\ ended = None /\ signal = "none"
  BY DEF Interrupt
<1>2. CASE pc[Main] \in {"listen", "serving", "waiting"}
  <2>1. /\ signal' = "shutting" /\ Closes(None, "") /\ ended' = ended
        /\ overlapped' = (overlapped \/ \E a \in Callers : Restarting(a))
    BY <1>2 DEF Interrupt
  <2>2. pc[Main] \notin Before \/ port = None
    BY DEF IInv, StartsFirst
  <2>3. /\ pc' \in [Actors -> Stages]
        /\ \A b \in Actors : pc'[b] = pc[b] \/ (pc'[b] = "waiting" /\ port # None)
        /\ server' \in [handler : Nat \cup {None}, closed : BOOLEAN] /\ server'.closed
        /\ port' = None \/ port' = port
        /\ port # None /\ port.known => port' = None
    <3>1. None \in Callers \cup {None} /\ \A b \in Actors : b \in Actors \ {None}
      BY Actors2
    <3> QED
      BY <2>1, <2>2, <3>1, ClosesDoes
  <2>4. StartsFirst'
    BY <1>1, <2>3, Actors2 DEF IInv, StartsFirst, Before, Stages
  <2>5. ~ overlapped' => ~ overlapped /\ \A b \in Callers : ~ Restarting(b)
    BY <2>1
  <2>6. \A b \in Callers : (Restarting(b)' => Restarting(b)) /\ (pc'[b] = "replace" => pc[b] = "replace")
    BY <2>3, Actors2 DEF Restarting
  <2>7. OneAtATime'
    BY <1>1, <2>1, <2>3, <2>5, <2>6 DEF IInv, OneAtATime, Quiet
  <2>8. EndsForCause'
    BY <1>1, <2>1, ServerAssumption DEF EndsForCause
  <2> QED
    BY <1>1, <2>3, <2>4, <2>7, <2>8 DEF IInv
<1>3. CASE pc[Main] \notin {"listen", "serving", "waiting"}
  <2>1. ended' = "interrupt" /\ UNCHANGED <<signal, server, port, pc, overlapped>>
    BY <1>3 DEF Interrupt
  <2>2. pc[Main] \in Before
    BY <1>3 DEF IInv, StartsFirst, Before, Stages
  <2>3. \A c \in Clients : conn[c] = "none"
    BY <2>2 DEF IInv, StartsFirst, Conns
  <2> QED
    BY <1>1, <2>1, <2>3 DEF IInv, StartsFirst, OneAtATime, EndsForCause, Restarting, Quiet
<1> QED
  BY <1>2, <1>3

LEMMA InterruptReturnsKeeps == IInv /\ InterruptReturns => IInv'
<1> SUFFICES ASSUME IInv, InterruptReturns PROVE IInv'
  OBVIOUS
<1>1. /\ UNCHANGED <<pc, port, conn, server, built, router, overlapped, ended>>
      /\ signal = "shutting" /\ signal' = "done" /\ Quiet
  BY DEF InterruptReturns, serving
<1>2. OneAtATime'
  BY <1>1 DEF IInv, OneAtATime, Restarting, Quiet
<1> QED
  BY <1>1, <1>2 DEF IInv, StartsFirst, EndsForCause

LEMMA MainReturnsKeeps == IInv /\ MainReturns => IInv'
<1> SUFFICES ASSUME IInv, MainReturns PROVE IInv'
  OBVIOUS
<1>1. /\ UNCHANGED <<pc, port, conn, server, built, router, overlapped, signal>>
      /\ signal = "done" /\ ended' = "interrupt"
  BY DEF MainReturns, serving
<1>2. overlapped \/ \A c \in Clients : conn[c] = "none"
  BY <1>1 DEF IInv, OneAtATime, Quiet, Conns
<1> QED
  BY <1>1, <1>2 DEF IInv, StartsFirst, OneAtATime, EndsForCause, Restarting, Quiet

-----------------------------------------------------------------------------
(* Requests and health checks.                                             *)

\* A step that changes requests only: what was none stays none when nothing
\* listens, and none is lost that was not.
LEMMA RequestsKeep ==
  ASSUME IInv, UNCHANGED <<pc, serving, signal, overlapped>>, ended = None,
         ended' \in {None, "health"},
         conn' \in [Conns -> {"none", "known", "lost"}],
         Quiet /\ port = None => Quiet',
         (\A c \in Conns : conn[c] # "lost") /\ (port # None => port.known) =>
             \A c \in Conns : conn'[c] # "lost",
         (\A c \in Conns : conn[c] = "none") /\ port = None => \A c \in Conns : conn'[c] = "none"
  PROVE  IInv'
<1>1. UNCHANGED <<pc, port, server, built, router, signal, overlapped>>
  BY DEF serving
<1>2. StartsFirst'
  BY <1>1 DEF IInv, StartsFirst
<1>3. OneAtATime'
  BY <1>1 DEF IInv, OneAtATime, Restarting
<1>4. EndsForCause'
  BY ServerAssumption DEF EndsForCause
<1> QED
  BY <1>1, <1>2, <1>3, <1>4 DEF IInv

LEMMA ClientsKeep ==
  ASSUME IInv, NEW c \in Clients, Request(c) \/ Respond(c)
  PROVE  IInv'
<1>1. UNCHANGED <<pc, serving, signal, overlapped, ended>> /\ ended = None /\ c \in Conns
  BY DEF Request, Respond, Conns
<1>2. CASE Request(c)
  <2>1. port # None /\ conn' = [conn EXCEPT ![c] = Connected]
    BY <1>2 DEF Request
  <2> QED
    BY <1>1, <2>1, RequestsKeep DEF Connected, IInv
<1>3. CASE Respond(c)
  <2>1. conn' = [conn EXCEPT ![c] = "none"]
    BY <1>3 DEF Respond
  <2> QED
    BY <1>1, <2>1, RequestsKeep DEF IInv, Quiet
<1> QED
  BY <1>2, <1>3

LEMMA ProbesKeep ==
  ASSUME IInv, NEW p \in Probes, Step(p)
  PROVE  IInv'
<1>1. UNCHANGED <<pc, serving, signal, overlapped>> /\ ended = None /\ p \in Conns
  BY DEF Step, Check, Answered, TimesOut, AppendResult, Checking, Conns
<1>2. ended' \in {None, "health"}
  BY <1>1 DEF Step, Check, Answered, TimesOut, AppendResult
<1>3. conn \in [Conns -> {"none", "known", "lost"}]
  BY DEF IInv
<1>4. CASE conn' = conn
  BY <1>1, <1>2, <1>3, <1>4, RequestsKeep DEF Quiet, serving
<1>5. CASE port # None /\ conn' = [conn EXCEPT ![p] = Connected]
  BY <1>1, <1>2, <1>3, <1>5, RequestsKeep DEF Connected
<1>6. CASE conn' = [conn EXCEPT ![p] = "none"]
  BY <1>1, <1>2, <1>3, <1>6, RequestsKeep DEF Quiet, serving
<1>7. ASSUME NEW c \in Clients, conn' = [conn EXCEPT ![p] = "none", ![c] = conn[p]] PROVE IInv'
  <2>1. c \in Conns
    BY DEF Conns
  <2>2. \A d \in Conns : conn'[d] \in {"none", conn[p], conn[d]}
    BY <1>1, <1>3, <1>7, <2>1
  <2>3. conn' \in [Conns -> {"none", "known", "lost"}]
    BY <1>1, <1>3, <1>7, <2>1
  <2> QED
    BY <1>1, <1>2, <1>3, <2>2, <2>3, RequestsKeep DEF Quiet, serving
<1>8. CASE Check(p)
  BY <1>4, <1>5, <1>8 DEF Check
<1>9. CASE Answered(p)
  BY <1>6, <1>9 DEF Answered
<1>10. CASE TimesOut(p)
  BY <1>6, <1>7, <1>10 DEF TimesOut
<1>11. CASE AppendResult(p)
  BY <1>4, <1>11 DEF AppendResult
<1> QED
  BY <1>8, <1>9, <1>10, <1>11 DEF Step

-----------------------------------------------------------------------------
LEMMA NextKeeps == IInv /\ [Next]_vars => IInv'
<1> SUFFICES ASSUME IInv, [Next]_vars PROVE IInv'
  OBVIOUS
<1>1. CASE StartUp \/ RunAsyncScript
  BY <1>1, StartUpKeeps, RunAsyncScriptKeeps
<1>2. ASSUME NEW a \in Actors, Start(a) PROVE IInv'
  BY <1>2, BuildKeeps, ListenKeeps DEF Start
<1>3. ASSUME NEW a \in Callers, Swap(a) \/ Restart(a) PROVE IInv'
  BY <1>3, SwapKeeps, ShutdownKeeps, ShutdownReturnsKeeps, ReplaceKeeps DEF Restart
<1>4. CASE Interrupt \/ InterruptReturns \/ MainReturns
  BY <1>4, InterruptKeeps, InterruptReturnsKeeps, MainReturnsKeeps
<1>5. ASSUME NEW c \in Clients, Request(c) \/ Respond(c) PROVE IInv'
  BY <1>5, ClientsKeep
<1>6. ASSUME NEW p \in Probes, Step(p) PROVE IInv'
  BY <1>6, ProbesKeep
<1>7. CASE UNCHANGED vars
  BY <1>7 DEF vars, serving, IInv, StartsFirst, OneAtATime, EndsForCause, Restarting, Quiet
<1> QED
  BY <1>1, <1>2, <1>3, <1>4, <1>5, <1>6, <1>7 DEF Next

\* The process does not end by itself: for any number of callers and requests,
\* an address in use, or a server overwritten while another shuts it down, only
\* come of restarts or an interrupt that overlap, and without these an
\* interrupt ends the process only when no request is left.
THEOREM OnlyOverlapsEndIt == Spec => []EndsForCause
<1>1. IInv => EndsForCause
  BY DEF IInv
<1> QED
  BY <1>1, InitOK, NextKeeps, PTL DEF Spec

-----------------------------------------------------------------------------
(* What is served.                                                         *)

Busy(a) == pc[a] \notin {"idle", "serving", "waiting"}
OthersRest(a) == \A b \in Callers \ {a} : ~ Busy(b)

\* The script that is due and synchronous is the one that runs.
MigrationsTried ==
    \A i \in due : Scripts[i].async \/ (pc[Main] = "script" /\ i = cursor)

\* Until an interrupt: a server that was shut down is somebody's to replace;
\* who is about to serve an old router has another at work beside him, or will
\* find the port taken; and so the router served at rest is the last.
LastIsServed ==
    signal = "none" =>
        /\ server.closed => \E a \in Callers : pc[a] \in {"shutting", "replace", "failed"}
        /\ \A a \in Actors : pc[a] = "listen" /\ built[a] # router /\ OthersRest(a) =>
              port # None /\ ~ server.closed
        /\ port # None /\ (\A a \in Callers : ~ Busy(a)) => server.handler = router

JInv == IInv /\ MigrationsTried /\ LastIsServed

LEMMA ServedInitially == Init => MigrationsTried /\ LastIsServed
<1> SUFFICES ASSUME Init PROVE MigrationsTried /\ LastIsServed
  OBVIOUS
<1>1. due = {} /\ port = None /\ ~ server.closed /\ \A a \in Actors : pc[a] \in {"load", "idle"}
  BY DEF Init, NewServer
<1> QED
  BY <1>1 DEF MigrationsTried, LastIsServed

LEMMA StartUpServes == JInv /\ StartUp => MigrationsTried' /\ LastIsServed'
<1> SUFFICES ASSUME JInv, StartUp PROVE MigrationsTried' /\ LastIsServed'
  OBVIOUS
<1>1. UNCHANGED <<port, server, built, signal>>
  BY DEF StartUp, LoadPlugin, Loaded, Migrate, RunScript, SetUp, serving
<1>2. pc[Main] \in {"load", "migrate", "script"}
      /\ \E s \in {"load", "migrate", "script", "build"} : pc' = [pc EXCEPT ![Main] = s]
  BY Actors2 DEF StartUp, LoadPlugin, Loaded, Migrate, RunScript, SetUp, At, Goto, JInv, IInv
<1>3. /\ port = None /\ \A a \in Callers : pc'[a] = "idle"
      /\ pc'[Main] \in {"load", "migrate", "script", "build"}
  BY <1>2, Actors2 DEF JInv, IInv, StartsFirst, Before
<1>4. server.closed /\ signal = "none" => FALSE
  BY <1>2, Actors2 DEF JInv, IInv, LastIsServed, StartsFirst, Before
<1>5. LastIsServed'
  BY <1>1, <1>3, <1>4, Actors2 DEF LastIsServed
<1>6. MigrationsTried'
  <2>1. CASE LoadPlugin \/ Loaded \/ SetUp
    BY <2>1, Actors2 DEF LoadPlugin, Loaded, SetUp, starting, At, Goto, JInv, IInv, MigrationsTried
  <2>2. CASE Migrate
    <3>1. pc[Main] = "migrate" /\ cursor' = cursor + 1
      BY <2>2 DEF Migrate, At
    <3>2. \A i \in due : Scripts[i].async
      BY <3>1 DEF JInv, MigrationsTried
    <3>3. due' \subseteq due \cup {cursor'} /\ (cursor' \in due' => \/ cursor' \in due
                                                                \/ Scripts[cursor'].async
                                                                \/ pc'[Main] = "script")
      BY <2>2, Actors2 DEF Migrate, Goto, JInv, IInv
    <3> QED
      BY <3>2, <3>3 DEF MigrationsTried
  <2>3. CASE RunScript
    BY <2>3 DEF RunScript, JInv, MigrationsTried
  <2> QED
    BY <2>1, <2>2, <2>3 DEF StartUp
<1> QED
  BY <1>5, <1>6

\* After start-up only asynchronous scripts are left.
LEMMA DueKept ==
  ASSUME JInv, due' \subseteq due, cursor' = cursor, pc'[Main] = pc[Main] \/ pc[Main] # "script"
  PROVE  MigrationsTried'
  BY DEF JInv, MigrationsTried

LEMMA BuildServes ==
  ASSUME JInv, NEW a \in Actors, BuildHandler(a)
  PROVE  MigrationsTried' /\ LastIsServed'
<1>1. /\ UNCHANGED <<due, cursor, port, server, router, signal>>
      /\ pc[a] = "build" /\ pc' = [pc EXCEPT ![a] = "listen"] /\ built' = [built EXCEPT ![a] = router]
  BY DEF BuildHandler, At, Goto, starting
<1>2. /\ pc'[a] = "listen" /\ \A b \in Actors \ {a} : pc'[b] = pc[b]
      /\ built'[a] = router /\ \A b \in Actors \ {a} : built'[b] = built[b]
  BY <1>1 DEF JInv, IInv
<1>3. a = Main => port = None /\ \A b \in Callers : pc[b] = "idle"
  BY <1>1 DEF JInv, IInv, StartsFirst, Before
<1>4. MigrationsTried'
  BY <1>1, <1>2, Actors2, DueKept
<1>5. signal = "none" /\ server.closed => \E b \in Callers : pc'[b] \in {"shutting", "replace", "failed"}
  BY <1>1, <1>2, Actors2 DEF JInv, LastIsServed
<1>6. a \in Callers => Busy(a)'
  BY <1>2 DEF Busy
<1>7. ASSUME NEW b \in Actors, pc'[b] = "listen", built'[b] # router, OthersRest(b)' PROVE FALSE
  BY <1>2, <1>3, <1>6, <1>7, Actors2 DEF OthersRest
<1>8. port # None => \E b \in Callers : Busy(b)'
  BY <1>3, <1>6, Actors2
<1> QED
  BY <1>1, <1>4, <1>5, <1>7, <1>8 DEF LastIsServed

LEMMA ListenServes ==
  ASSUME JInv, NEW a \in Actors, Listen(a)
  PROVE  MigrationsTried' /\ LastIsServed'
<1>1. /\ UNCHANGED <<due, cursor, built, router, signal>>
      /\ pc[a] = "listen" /\ server' = [server EXCEPT !.handler = built[a]]
  BY DEF Listen, At, starting
<1>2. server'.closed = server.closed /\ server'.handler = built[a] /\ server.closed \in BOOLEAN
  BY <1>1 DEF JInv, IInv
<1>3. a = Main => port = None
  BY <1>1 DEF JInv, IInv, StartsFirst, Before
<1>4. CASE server.closed
  <2>1. pc' = [pc EXCEPT ![a] = "waiting"] /\ UNCHANGED port
    BY <1>4 DEF Listen, Goto
  <2>2. pc'[a] = "waiting" /\ \A b \in Actors \ {a} : pc'[b] = pc[b]
    BY <2>1 DEF JInv, IInv
  <2>3. MigrationsTried'
    BY <1>1, <2>2, Actors2, DueKept
  <2>4. ASSUME signal = "none" PROVE \E e \in Callers : pc'[e] \in {"shutting", "replace", "failed"}
    <3>1. PICK e \in Callers : pc[e] \in {"shutting", "replace", "failed"}
      BY <1>4, <2>4 DEF JInv, LastIsServed
    <3>2. e # a /\ e \in Actors
      BY <1>1, <3>1, Actors2
    <3> QED
      BY <2>2, <3>1, <3>2
  <2>5. ASSUME signal = "none", NEW b \in Actors, pc'[b] = "listen", OthersRest(b)' PROVE FALSE
    BY <2>4, <2>5 DEF OthersRest, Busy
  <2>6. signal = "none" => \E e \in Callers : Busy(e)'
    BY <2>4 DEF Busy
  <2> QED
    BY <1>1, <2>3, <2>4, <2>5, <2>6 DEF LastIsServed
<1>5. CASE ~ server.closed /\ port = None
  <2>1. pc' = [pc EXCEPT ![a] = "serving"] /\ port' = [by |-> a, known |-> TRUE]
    BY <1>5 DEF Listen, Goto
  <2>2. pc'[a] = "serving" /\ \A b \in Actors \ {a} : pc'[b] = pc[b]
    BY <2>1 DEF JInv, IInv
  <2>3. MigrationsTried'
    BY <1>1, <2>2, Actors2, DueKept
  <2>4. port' # None
    <3>1. port' \in [by : Actors, known : BOOLEAN]
      BY <2>1
    <3>2. None \notin [by : Actors, known : BOOLEAN]
      BY ServerAssumption
    <3> QED
      BY <3>1, <3>2
  <2>5. ASSUME signal = "none", \A b \in Callers : ~ Busy(b)' PROVE built[a] = router
    <3>1. OthersRest(a)
      BY <2>2, <2>5, Actors2 DEF OthersRest, Busy
    <3> QED
      BY <1>1, <1>5, <2>5, <3>1 DEF JInv, LastIsServed
  <2> QED
    BY <1>1, <1>2, <1>5, <2>3, <2>4, <2>5 DEF LastIsServed
<1>6. CASE ~ server.closed /\ port # None
  <2>1. UNCHANGED <<pc, port>>
    BY <1>6 DEF Listen
  <2>2. MigrationsTried'
    BY <1>1, <2>1, DueKept
  <2>3. a \in Callers /\ Busy(a)'
    BY <1>1, <1>3, <1>6, <2>1, Actors2 DEF Busy
  <2> QED
    BY <1>1, <1>2, <1>6, <2>1, <2>2, <2>3 DEF LastIsServed
<1> QED
  BY <1>2, <1>4, <1>5, <1>6

\* A caller that stays at work; what it does to the server is its to undo.
LEMMA CallerServes ==
  ASSUME JInv, NEW a \in Callers, pc' \in [Actors -> Stages], Busy(a)', pc'[a] # "listen",
         \A b \in Actors \ {a} : pc'[b] = pc[b] \/ pc'[b] = "waiting" ,
         UNCHANGED <<due, cursor, signal>>, pc[Main] # "script",
         server'.closed => \/ server.closed /\ pc[a] \notin {"shutting", "replace", "failed"}
                              /\ \A b \in Callers \ {a} : pc'[b] = pc[b]
                           \/ pc'[a] \in {"shutting", "replace", "failed"}
  PROVE  MigrationsTried' /\ LastIsServed'
<1>1. MigrationsTried'
  BY DueKept
<1>2. signal = "none" /\ server'.closed => \E b \in Callers : pc'[b] \in {"shutting", "replace", "failed"}
  BY Actors2 DEF JInv, LastIsServed
<1>3. ASSUME NEW b \in Actors, pc'[b] = "listen", OthersRest(b)' PROVE FALSE
  BY <1>3, Actors2 DEF OthersRest
<1> QED
  BY <1>1, <1>2, <1>3 DEF LastIsServed

LEMMA RestartServes ==
  ASSUME JInv, NEW a \in Callers, Swap(a) \/ Restart(a)
  PROVE  MigrationsTried' /\ LastIsServed'
<1>1. UNCHANGED <<due, cursor, signal>> /\ pc[a] \in {"idle", "swapped", "shutting", "replace"}
  BY DEF Swap, Restart, Shutdown, ShutdownReturns, Replace, starting, At
<1>2. pc \in [Actors -> Stages] /\ server.closed \in BOOLEAN /\ pc' \in [Actors -> Stages]
  BY NextKeeps DEF JInv, IInv, Next
<1>3. pc[Main] \notin Before
  <2>1. pc[a] = "idle" => pc[Main] \in {"serving", "waiting"}
    BY DEF Swap, Restart, Shutdown, ShutdownReturns, Replace, At
  <2> QED
    BY <1>1, <2>1 DEF JInv, IInv, StartsFirst, Before
<1>4. CASE Swap(a)
  <2>1. pc' = [pc EXCEPT ![a] = "swapped"] /\ server' = server
    BY <1>4 DEF Swap, Goto
  <2>2. pc'[a] = "swapped" /\ \A b \in Actors \ {a} : pc'[b] = pc[b]
    BY <1>2, <2>1, Actors2
  <2>3. pc[a] = "idle"
    BY <1>4 DEF Swap, At
  <2> QED
    BY <1>1, <1>2, <1>3, <2>1, <2>2, <2>3, Actors2, CallerServes DEF Busy, Before
<1>5. CASE Shutdown(a)
  <2>1. Closes(a, "shutting")
    BY <1>5 DEF Shutdown
  <2>2. pc'[a] = "shutting" /\ \A b \in Actors \ {a} : pc'[b] = pc[b] \/ pc'[b] = "waiting"
    BY <1>3, <2>1, Actors2, ClosesDoes DEF Stages, JInv
  <2> QED
    BY <1>1, <1>2, <1>3, <2>2, CallerServes DEF Busy, Before
<1>6. CASE ShutdownReturns(a)
  <2>1. PICK s \in {"replace", "failed"} : pc' = [pc EXCEPT ![a] = s]
    BY <1>6 DEF ShutdownReturns, Goto
  <2>2. pc'[a] = s /\ \A b \in Actors \ {a} : pc'[b] = pc[b]
    BY <1>2, <2>1, Actors2
  <2> QED
    BY <1>1, <1>2, <1>3, <2>2, CallerServes DEF Busy, Before
<1>7. CASE Replace(a)
  <2>1. pc' = [pc EXCEPT ![a] = "build"] /\ server' = NewServer
    BY <1>7 DEF Replace, Goto
  <2>2. pc'[a] = "build" /\ \A b \in Actors \ {a} : pc'[b] = pc[b]
    BY <1>2, <2>1, Actors2
  <2>3. ~ server'.closed
    BY <2>1 DEF NewServer
  <2> QED
    BY <1>1, <1>2, <1>3, <2>2, <2>3, CallerServes DEF Busy, Before
<1> QED
  BY <1>4, <1>5, <1>6, <1>7 DEF Restart

LEMMA InterruptServes == JInv /\ Interrupt => MigrationsTried' /\ LastIsServed'
<1> SUFFICES ASSUME JInv, Interrupt PROVE MigrationsTried' /\ LastIsServed'
  OBVIOUS
<1>1. UNCHANGED <<due, cursor, built, router>> /\ signal = "none"
  BY DEF Interrupt, starting
<1>2. CASE pc[Main] \in {"listen", "serving", "waiting"}
  <2>1. signal' = "shutting"
    BY <1>2 DEF Interrupt
  <2>2. MigrationsTried'
    BY <1>1, <1>2, DueKept
  <2> QED
    BY <2>1, <2>2 DEF LastIsServed
<1>3. CASE pc[Main] \notin {"listen", "serving", "waiting"}
  <2>1. UNCHANGED <<signal, server, port, pc>>
    BY <1>3 DEF Interrupt
  <2> QED
    BY <1>1, <2>1, DueKept DEF JInv, LastIsServed, OthersRest, Busy
<1> QED
  BY <1>2, <1>3

\* Nothing else touches the server, its router or who is at work.
LEMMA RestServes ==
  ASSUME JInv, UNCHANGED <<cursor, pc, serving>>, due' \subseteq due, signal' = signal \/ signal' = "done"
  PROVE  MigrationsTried' /\ LastIsServed'
<1>1. MigrationsTried'
  BY DueKept
<1> QED
  BY <1>1 DEF JInv, LastIsServed, OthersRest, Busy, serving

LEMMA JNextKeeps == JInv /\ [Next]_vars => JInv'
<1> SUFFICES ASSUME JInv, [Next]_vars PROVE MigrationsTried' /\ LastIsServed'
  BY NextKeeps DEF JInv
<1>1. CASE StartUp
  BY <1>1, StartUpServes
<1>2. CASE RunAsyncScript
  BY <1>2, RestServes DEF RunAsyncScript
<1>3. ASSUME NEW a \in Actors, Start(a) PROVE MigrationsTried' /\ LastIsServed'
  BY <1>3, BuildServes, ListenServes DEF Start
<1>4. ASSUME NEW a \in Callers, Swap(a) \/ Restart(a) PROVE MigrationsTried' /\ LastIsServed'
  BY <1>4, RestartServes
<1>5. CASE Interrupt
  BY <1>5, InterruptServes
<1>6. CASE InterruptReturns \/ MainReturns
  BY <1>6, RestServes DEF InterruptReturns, MainReturns, starting
<1>7. ASSUME NEW c \in Clients, Request(c) \/ Respond(c) PROVE MigrationsTried' /\ LastIsServed'
  BY <1>7, RestServes DEF Request, Respond, starting
<1>8. ASSUME NEW p \in Probes, Step(p) PROVE MigrationsTried' /\ LastIsServed'
  BY <1>8, RestServes DEF Step, Check, Answered, TimesOut, AppendResult, starting
<1>9. CASE UNCHANGED vars
  BY <1>9, RestServes DEF vars, starting
<1> QED
  BY <1>1, <1>2, <1>3, <1>4, <1>5, <1>6, <1>7, <1>8, <1>9 DEF Next

\* Whoever serves has tried the synchronous migrations that were due, and at
\* rest, until an interrupt, serves the router that was swapped in last: for
\* any number of callers that swap and restart at the same time.
THEOREM LastSwapIsServed == Spec => []ServesCurrent
<1>1. Init => JInv
  BY InitOK, ServedInitially DEF JInv
<1>2. JInv => ServesCurrent
  <2> SUFFICES ASSUME JInv, port # None PROVE ServesCurrent
    BY DEF ServesCurrent
  <2>1. pc[Main] # "script"
    BY DEF JInv, IInv, StartsFirst, Before
  <2> QED
    BY <2>1 DEF JInv, MigrationsTried, LastIsServed, ServesCurrent, Busy
<1> QED
  BY <1>1, <1>2, JNextKeeps, PTL DEF Spec

-----------------------------------------------------------------------------
(* Types.                                                                  *)

\* A router is swapped in by the main goroutine, and by a caller as it begins.
Called == {a \in Callers : pc[a] # "idle"}

StartingTyped ==
    /\ loaded \subseteq UNION {Order[i] : i \in DOMAIN Order}
    /\ cursor \in 0..Len(Scripts) /\ due \subseteq 1..Len(Scripts)
    /\ pending \in 0..cursor

ServingTyped ==
    /\ built \in [Actors -> Handlers \cup {None}]
    /\ router \in Nat /\ router <= Cardinality(Called) + 1
    /\ server \in [handler : Handlers \cup {None}, closed : BOOLEAN]

ChecksTyped ==
    /\ probe \in [Probes -> [stage : {"idle", "probing", "append"}, status : BOOLEAN]]
    /\ window \in Seq(BOOLEAN) /\ Len(window) <= 3

EndTyped ==
    /\ overlapped \in BOOLEAN
    /\ signal \in {"none", "shutting", "done"}
    /\ ended \in {None, "plugin", "bind", "race", "interrupt", "health"}

TInv == IInv /\ StartingTyped /\ ServingTyped /\ ChecksTyped /\ EndTyped

LEMMA ScriptsCounted == Len(Scripts) \in Nat
  BY ServerAssumption

LEMMA CallersCounted ==
  ASSUME IsFiniteSet(Callers)
  PROVE  /\ Cardinality(Callers) \in Nat /\ Cardinality(Called) \in Nat
         /\ Cardinality(Called) <= Cardinality(Callers)
         /\ IsFiniteSet(Called)
  BY FS_Subset, FS_CardinalityType DEF Called

\* Nobody is idle again.
LEMMA CalledStay ==
  ASSUME IInv, Next, NEW a \in Callers, pc[a] # "idle"
  PROVE  pc'[a] # "idle"
<1>1. pc \in [Actors -> Stages] /\ a \in Actors
  BY Actors2 DEF IInv
<1>2. CASE StartUp \/ RunAsyncScript
  BY <1>1, <1>2 DEF StartUp, LoadPlugin, Loaded, Migrate, RunScript, SetUp, RunAsyncScript, Goto
<1>3. ASSUME NEW b \in Actors, Start(b) PROVE pc'[a] # "idle"
  BY <1>1, <1>3 DEF Start, BuildHandler, Listen, Goto
<1>4. ASSUME NEW b \in Callers, Swap(b) \/ ShutdownReturns(b) \/ Replace(b) PROVE pc'[a] # "idle"
  BY <1>1, <1>4 DEF Swap, ShutdownReturns, Replace, Goto
<1>5. ASSUME NEW b \in Callers, Shutdown(b) PROVE pc'[a] # "idle"
  BY <1>1, <1>5 DEF Shutdown, Closes
<1>6. CASE Interrupt
  BY <1>1, <1>6, ServerAssumption DEF Interrupt, Closes, Actors
<1>7. CASE UNCHANGED pc
  BY <1>7
<1> QED
  BY <1>2, <1>3, <1>4, <1>5, <1>6, <1>7
  DEF Next, Restart, InterruptReturns, MainReturns, Request, Respond, Step, Check, Answered, TimesOut,
      AppendResult

LEMMA CalledGrows ==
  ASSUME IsFiniteSet(Callers), IInv, Next
  PROVE  /\ Cardinality(Called)' \in Nat /\ Cardinality(Called) <= Cardinality(Called)'
         /\ Cardinality(Called)' <= Cardinality(Callers) /\ IsFiniteSet(Called)'
<1>1. Called' \subseteq Callers /\ Called \subseteq Called'
  BY CalledStay DEF Called
<1>2. IsFiniteSet(Called') /\ Cardinality(Called') <= Cardinality(Callers)
  BY <1>1, FS_Subset
<1>3. Cardinality(Called) <= Cardinality(Called') /\ Cardinality(Called') \in Nat
  BY <1>1, <1>2, FS_Subset, FS_CardinalityType
<1> QED
  BY <1>2, <1>3

\* The window keeps its type and no more than three results.
LEMMA KeepTyped ==
  ASSUME NEW S, NEW d \in Seq(S), NEW x \in S, Len(d) <= 3
  PROVE  Keep(d, x) \in Seq(S) /\ Len(Keep(d, x)) <= 3
<1> DEFINE e == Append(d, x)
<1>1. e \in Seq(S) /\ Len(e) = Len(d) + 1 /\ Len(d) \in Nat
  OBVIOUS
<1>2. CASE Len(e) > 3
  <2>1. Len(e) = 4
    BY <1>1, <1>2
  <2>2. Keep(d, x) = SubSeq(e, 2, 4)
    BY <2>1 DEF Keep
  <2>3. SubSeq(e, 2, 4) = [i \in 1..3 |-> e[i + 1]]
    BY <1>1, <2>1
  <2>4. \A i \in 1..3 : e[i + 1] \in S
    BY <1>1, <2>1
  <2> HIDE DEF e
  <2>5. SubSeq(e, 2, 4) \in Seq(S) /\ Len(SubSeq(e, 2, 4)) = 3
    BY <2>3, <2>4
  <2> QED
    BY <2>2, <2>5
<1>3. CASE ~ (Len(e) > 3)
  <2>1. Keep(d, x) = e
    BY <1>3 DEF Keep
  <2> QED
    BY <1>1, <1>3, <2>1
<1> QED
  BY <1>2, <1>3

LEMMA StartingKeeps ==
  ASSUME TInv, Next
  PROVE  StartingTyped'
<1> USE ScriptsCounted
<1>1. CASE LoadPlugin
  <2>1. loaded' \subseteq UNION {Order[i] : i \in DOMAIN Order}
    BY <1>1 DEF LoadPlugin, TInv, StartingTyped
  <2> QED
    BY <1>1, <2>1 DEF LoadPlugin, TInv, StartingTyped
<1>2. CASE Migrate
  <2>1. cursor' = cursor + 1 /\ cursor' \in 1..Len(Scripts) /\ loaded' = loaded
    BY <1>2 DEF Migrate, TInv, StartingTyped
  <2>2. due' \subseteq due \cup {cursor'} /\ pending' \in {pending, pending + 1}
    BY <1>2 DEF Migrate
  <2> QED
    BY <2>1, <2>2 DEF TInv, StartingTyped
<1>3. CASE RunScript \/ RunAsyncScript
  <2>1. due' \subseteq due /\ pending' \in {pending, pending - 1} /\ UNCHANGED <<loaded, cursor>>
        /\ (pending' = pending \/ pending > 0)
    BY <1>3 DEF RunScript, RunAsyncScript
  <2> QED
    BY <2>1 DEF TInv, StartingTyped
<1>4. CASE UNCHANGED starting
  BY <1>4 DEF TInv, StartingTyped, starting
<1> QED
  BY <1>1, <1>2, <1>3, <1>4
  DEF Next, StartUp, Loaded, SetUp, Start, BuildHandler, Listen, Swap, Restart, Shutdown, ShutdownReturns,
      Replace, Interrupt, InterruptReturns, MainReturns, Request, Respond, Step, Check, Answered,
      TimesOut, AppendResult

LEMMA ServingKeeps ==
  ASSUME IsFiniteSet(Callers), TInv, Next
  PROVE  ServingTyped'
<1>1. /\ built \in [Actors -> Handlers \cup {None}] /\ router \in Nat
      /\ router <= Cardinality(Called) + 1 /\ Cardinality(Called) \in Nat
      /\ server \in [handler : Handlers \cup {None}, closed : BOOLEAN]
  BY CallersCounted DEF TInv, ServingTyped
<1>2. /\ Cardinality(Called)' \in Nat /\ Cardinality(Called) <= Cardinality(Called)'
      /\ Cardinality(Called)' <= Cardinality(Callers) /\ Cardinality(Callers) \in Nat
  BY CallersCounted, CalledGrows DEF TInv
<1>3. router \in Handlers
  BY <1>1, <1>2 DEF Handlers
<1>4. router' = router => router' \in Nat /\ router' <= Cardinality(Called)' + 1
  BY <1>1, <1>2
<1>5. CASE SetUp
  <2>1. router' = 1 /\ UNCHANGED <<built, server>>
    BY <1>5 DEF SetUp
  <2> QED
    BY <1>1, <1>2, <2>1 DEF ServingTyped
<1>6. ASSUME NEW a \in Actors, BuildHandler(a) PROVE ServingTyped'
  <2>1. built' = [built EXCEPT ![a] = router] /\ UNCHANGED <<router, server>>
    BY <1>6 DEF BuildHandler
  <2> QED
    BY <1>1, <1>3, <1>4, <2>1 DEF ServingTyped
<1>7. ASSUME NEW a \in Actors, Listen(a) PROVE ServingTyped'
  <2>1. server' = [server EXCEPT !.handler = built[a]] /\ UNCHANGED <<router, built>>
    BY <1>7 DEF Listen
  <2>2. built[a] \in Handlers \cup {None}
    BY <1>1
  <2> QED
    BY <1>1, <1>4, <2>1, <2>2 DEF ServingTyped
<1>8. ASSUME NEW a \in Callers, Swap(a) PROVE ServingTyped'
  <2>1. /\ router' = router + 1 /\ built' = [built EXCEPT ![a] = router'] /\ UNCHANGED server
        /\ pc[a] = "idle" /\ pc' = [pc EXCEPT ![a] = "swapped"]
    BY <1>8 DEF Swap, At, Goto
  <2>2. pc \in [Actors -> Stages]
    BY DEF TInv, IInv
  <2>3. Called' = Called \cup {a} /\ a \notin Called
    BY <2>1, <2>2, Actors2 DEF Called
  <2>4. Cardinality(Called)' = Cardinality(Called) + 1
    BY <2>3, CallersCounted, FS_AddElement
  <2>5. router' \in Nat /\ router' <= Cardinality(Called)' + 1
    BY <1>1, <1>2, <2>1, <2>4
  <2>6. router' \in Handlers
    BY <1>2, <2>5 DEF Handlers
  <2> QED
    BY <1>1, <2>1, <2>5, <2>6 DEF ServingTyped
<1>9. ASSUME server' = [server EXCEPT !.closed = TRUE] \/ server' \in {server, NewServer},
             UNCHANGED <<router, built>>
      PROVE  ServingTyped'
  <2>1. NewServer \in [handler : Handlers \cup {None}, closed : BOOLEAN]
    BY DEF NewServer
  <2>2. server' \in [handler : Handlers \cup {None}, closed : BOOLEAN]
    BY <1>1, <1>9, <2>1
  <2> QED
    BY <1>1, <1>4, <1>9, <2>2 DEF ServingTyped
<1>10. ASSUME NEW a \in Callers, Restart(a) PROVE ServingTyped'
  BY <1>9, <1>10 DEF Restart, Shutdown, ShutdownReturns, Replace, Closes, serving
<1>11. CASE Interrupt
  BY <1>9, <1>11 DEF Interrupt, Closes
<1>12. CASE UNCHANGED serving
  BY <1>9, <1>12 DEF serving
<1> QED
  BY <1>5, <1>6, <1>7, <1>8, <1>10, <1>11, <1>12
  DEF Next, StartUp, LoadPlugin, Loaded, Migrate, RunScript, RunAsyncScript, Start, InterruptReturns,
      MainReturns, Request, Respond, Step, Check, Answered, TimesOut, AppendResult

LEMMA ChecksKeep ==
  ASSUME TInv, Next
  PROVE  ChecksTyped'
<1> DEFINE P == [stage : {"idle", "probing", "append"}, status : BOOLEAN]
<1>1. probe \in [Probes -> P] /\ window \in Seq(BOOLEAN) /\ Len(window) <= 3
  BY DEF TInv, ChecksTyped
<1>2. ASSUME NEW p \in Probes, NEW s \in {"probing", "append"}, NEW b \in BOOLEAN,
             \/ probe' = [probe EXCEPT ![p].stage = s]
             \/ probe' = [probe EXCEPT ![p].stage = s, ![p].status = b],
             UNCHANGED window
      PROVE  ChecksTyped'
  <2>1. probe[p] \in P
    BY <1>1
  <2>2. [probe[p] EXCEPT !.stage = s] \in P /\ [probe[p] EXCEPT !.stage = s, !.status = b] \in P
    BY <2>1
  <2>3. probe' \in [Probes -> P]
    BY <1>1, <1>2, <2>2
  <2> QED
    BY <1>1, <1>2, <2>3 DEF ChecksTyped
<1>3. ASSUME NEW p \in Probes, Check(p) \/ TimesOut(p) PROVE ChecksTyped'
  BY <1>2, <1>3 DEF Check, TimesOut
<1>4. ASSUME NEW p \in Probes, Answered(p) PROVE ChecksTyped'
  <2>1. PICK invalid \in BOOLEAN :
          probe' = [probe EXCEPT ![p].stage = "append",
                                ![p].status = server.handler # None /\ ~ invalid]
    BY <1>4 DEF Answered
  <2>2. (server.handler # None /\ ~ invalid) \in BOOLEAN /\ UNCHANGED window
    BY <1>4 DEF Answered
  <2> QED
    BY <1>2, <2>1, <2>2
<1>5. ASSUME NEW p \in Probes, AppendResult(p) PROVE ChecksTyped'
  <2>1. PICK lost \in {{}} \cup {{q} : q \in Probes \ {p}} :
          /\ window' = Keep(window, probe[p].status)
          /\ probe' = [q \in Probes |-> IF q \in lost \cup {p} THEN NoProbe ELSE probe[q]]
    BY <1>5 DEF AppendResult
  <2>2. NoProbe \in P
    BY DEF NoProbe
  <2>3. probe' \in [Probes -> P]
    BY <1>1, <2>1, <2>2
  <2>4. probe[p].status \in BOOLEAN
    BY <1>1
  <2>5. window' \in Seq(BOOLEAN) /\ Len(window') <= 3
    BY <1>1, <2>1, <2>4, KeepTyped
  <2> QED
    BY <2>3, <2>5 DEF ChecksTyped
<1>6. CASE UNCHANGED checks
  BY <1>6 DEF TInv, ChecksTyped, checks
<1> QED
  BY <1>3, <1>4, <1>5, <1>6
  DEF Next, StartUp, LoadPlugin, Loaded, Migrate, RunScript, SetUp, RunAsyncScript, Start, BuildHandler,
      Listen, Swap, Restart, Shutdown, ShutdownReturns, Replace, Interrupt, InterruptReturns,
      MainReturns, Request, Respond, Step

LEMMA EndKeeps ==
  ASSUME TInv, Next
  PROVE  EndTyped'
<1>1. overlapped' \in BOOLEAN
  <2>1. CASE UNCHANGED overlapped
    BY <2>1 DEF TInv, EndTyped
  <2>2. ASSUME NEW a \in Callers, Shutdown(a) PROVE overlapped' \in BOOLEAN
    BY <2>2 DEF Shutdown
  <2>3. CASE Interrupt
    BY <2>1, <2>3 DEF Interrupt
  <2> QED
    BY <2>1, <2>2, <2>3
    DEF Next, StartUp, LoadPlugin, Loaded, Migrate, RunScript, SetUp, RunAsyncScript, Start,
        BuildHandler, Listen, Swap, Restart, ShutdownReturns, Replace, InterruptReturns, MainReturns,
        Request, Respond, Step, Check, Answered, TimesOut, AppendResult
<1>2. signal' \in {signal, "shutting", "done"}
  BY DEF Next, StartUp, LoadPlugin, Loaded, Migrate, RunScript, SetUp, RunAsyncScript, Start,
         BuildHandler, Listen, Swap, Restart, Shutdown, ShutdownReturns, Replace, Interrupt,
         InterruptReturns, MainReturns, Request, Respond, Step, Check, Answered, TimesOut, AppendResult
<1>3. ended' \in {ended, "plugin", "bind", "race", "interrupt", "health"}
  <2>1. ASSUME NEW a \in Actors, Listen(a) PROVE ended' \in {ended, "bind"}
    <3>1. server.closed \in BOOLEAN
      BY DEF TInv, IInv
    <3> QED
      BY <2>1, <3>1 DEF Listen
  <2> QED
    BY <2>1
    DEF Next, StartUp, LoadPlugin, Loaded, Migrate, RunScript, SetUp, RunAsyncScript, Start,
        BuildHandler, Swap, Restart, Shutdown, ShutdownReturns, Replace, Interrupt, InterruptReturns,
        MainReturns, Request, Respond, Step, Check, Answered, TimesOut, AppendResult
<1> QED
  BY <1>1, <1>2, <1>3 DEF TInv, EndTyped

\* The types of the variables.  Each caller swaps once: with finitely many of
\* them, which handlers there are is bounded by their number; the window has at
\* most three results, and no more goroutines are pending than the loop began.
THEOREM TypeCorrect == IsFiniteSet(Callers) /\ Spec => []TypeOK
<1> SUFFICES ASSUME IsFiniteSet(Callers) PROVE Spec => []TypeOK
  OBVIOUS
<1>1. Init => TInv
  <2> SUFFICES ASSUME Init PROVE TInv
    OBVIOUS
  <2>1. StartingTyped
    BY ScriptsCounted DEF Init, StartingTyped
  <2>2. ServingTyped
    BY CallersCounted DEF Init, ServingTyped, NewServer
  <2>3. ChecksTyped
    BY DEF Init, ChecksTyped, NoProbe
  <2>4. EndTyped
    BY DEF Init, EndTyped
  <2> QED
    BY <2>1, <2>2, <2>3, <2>4, InitOK DEF TInv
<1>2. TInv /\ [Next]_vars => TInv'
  <2> SUFFICES ASSUME TInv, [Next]_vars PROVE TInv'
    OBVIOUS
  <2>1. IInv'
    BY NextKeeps DEF TInv
  <2>2. CASE Next
    BY <2>1, <2>2, StartingKeeps, ServingKeeps, ChecksKeep, EndKeeps DEF TInv
  <2>3. CASE UNCHANGED vars
    BY <2>1, <2>3 DEF vars, starting, serving, checks, TInv, StartingTyped, ServingTyped, ChecksTyped,
       EndTyped, Called
  <2> QED
    BY <2>2, <2>3
<1>3. TInv => TypeOK
  <2> SUFFICES ASSUME TInv PROVE TypeOK
    OBVIOUS
  <2>1. pending \in 0..Len(Scripts)
    BY ScriptsCounted DEF TInv, StartingTyped
  <2>2. router \in Handlers
    BY CallersCounted DEF TInv, ServingTyped, Handlers
  <2>3. \A p \in Probes : probe[p].stage \in {"idle", "probing", "append"} /\ probe[p].status \in BOOLEAN
    BY DEF TInv, ChecksTyped
  <2> QED
    BY <2>1, <2>2, <2>3 DEF TInv, IInv, StartingTyped, ServingTyped, ChecksTyped, EndTyped, TypeOK
<1> QED
  BY <1>1, <1>2, <1>3, PTL DEF Spec
=============================================================================
