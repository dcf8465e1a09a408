------------------------------- MODULE Server -------------------------------
(***************************************************************************)
(* The life of the process: plugins are loaded, migrations run, the router *)
(* is served, swapped and served again after a restart of the HTTP server, *)
(* and a health check ends a process that does not answer (main.go,        *)
(* plugins/route.go, plugins/registry.go, util/migration.go).              *)
(*                                                                         *)
(* Swap and RestartServer are offered to plugins outside this repository,  *)
(* whose calls are those of Callers here.  http.Server is modelled by what *)
(* its documentation says of Shutdown and ListenAndServe.                  *)
(***************************************************************************)
EXTENDS Naturals, Sequences, FiniteSets

CONSTANTS
    Others, Sequenced,  \* plugins in no particular order, and a sequence of plugins
    Scripts,            \* migrations, [async]
    Callers,            \* callers of Swap and RestartServer, each once
    Clients, Probes,    \* requests, and health checks that may overlap
    None

Main == "main"
Actors == Callers \cup {Main}
Conns == Clients \cup Probes

ASSUME ServerAssumption ==
    /\ Main \notin Callers /\ Clients \cap Probes = {}
    /\ Scripts \in Seq([async : BOOLEAN])
    /\ None \notin Nat /\ None \notin Actors
    /\ None \notin {"plugin", "bind", "race", "interrupt", "health"}
    /\ None \notin [by : Actors, known : BOOLEAN]

VARIABLES
    loaded,     \* plugins whose InitFunc ran and whose routes are registered
    cursor,     \* the loop variable migration, as an index
    due,        \* scripts whose ConditionCheck said so and that have not been run
    pending,    \* goroutines of asynchronous scripts that have not begun
    pc,
    built,      \* [Actors -> the handler that StartServer made, or None]
    router,     \* rs.router, as the number of swaps
    server,     \* rs.server: handler, and whether Shutdown was called on it
    port,       \* who listens, and whether rs.server knows of it; or None
    conn,       \* requests: "none", "known" to rs.server, or "lost" to it
    probe,      \* health checks
    window,     \* CheckedDetails
    signal,     \* an interrupt: "none", "shutting", "done"
    ended,      \* why the process ended, or None
    overlapped  \* history: two of restarts and interrupt were under way together

starting == <<loaded, cursor, due, pending>>
serving == <<built, router, server, port>>
checks == <<probe, window>>
vars == <<starting, pc, serving, conn, checks, signal, ended, overlapped>>

NewServer == [handler |-> None, closed |-> FALSE]
NoProbe == [stage |-> "idle", status |-> FALSE]

Init ==
    /\ loaded = {} /\ cursor = 0 /\ due = {} /\ pending = 0
    /\ pc = [a \in Actors |-> IF a = Main THEN "load" ELSE "idle"]
    /\ built = [a \in Actors |-> None]
    /\ router = 0 /\ server = NewServer /\ port = None
    /\ conn = [c \in Conns |-> "none"]
    /\ probe = [p \in Probes |-> NoProbe] /\ window = <<>>
    /\ signal = "none" /\ ended = None /\ overlapped = FALSE

\* Nothing happens once the process has ended.
At(a, stage) == ended = None /\ pc[a] = stage
Goto(a, stage) == pc' = [pc EXCEPT ![a] = stage]

-----------------------------------------------------------------------------
(* Start-up.                                                               *)

\* pipelines first, querytranslate and elasticsearch last.
Order ==
    <<{"pipelines"}, Others>> \o [i \in DOMAIN Sequenced |-> {Sequenced[i]}]
        \o <<{"querytranslate"}, {"elasticsearch"}>>

InTurn(i) ==
    /\ \A j \in 1..(i - 1) : Order[j] \subseteq loaded
    /\ ~ (Order[i] \subseteq loaded)

\* A plugin that cannot be initialised ends the process.
LoadPlugin ==
    /\ At(Main, "load")
    /\ \E i \in DOMAIN Order : InTurn(i) /\ \E p \in Order[i] \ loaded :
          /\ \/ loaded' = loaded \cup {p} /\ UNCHANGED ended
             \/ ended' = "plugin" /\ UNCHANGED loaded
    /\ UNCHANGED <<cursor, due, pending, pc, serving, conn, checks, signal, overlapped>>

Loaded ==
    /\ At(Main, "load")
    /\ \A i \in DOMAIN Order : ~ InTurn(i)
    /\ Goto(Main, "migrate")
    /\ UNCHANGED <<starting, serving, conn, checks, signal, ended, overlapped>>

\* Seeded fault: every script is left to a goroutine.
MigrateInBackground ==
    /\ At(Main, "migrate") /\ cursor < Len(Scripts)
    /\ cursor' = cursor + 1
    /\ due' = due \cup {cursor'} /\ pending' = pending + 1
    /\ UNCHANGED <<loaded, pc, serving, conn, checks, signal, ended, overlapped>>

\* One round of the loop: the condition, and a goroutine or the script.
Migrate ==
    /\ At(Main, "migrate") /\ cursor < Len(Scripts)
    /\ cursor' = cursor + 1
    /\ \/ UNCHANGED <<due, pending, pc>>
       \/ /\ due' = due \cup {cursor'}
          /\ IF Scripts[cursor'].async
             THEN pending' = pending + 1 /\ UNCHANGED pc
             ELSE Goto(Main, "script") /\ UNCHANGED pending
    /\ UNCHANGED <<loaded, serving, conn, checks, signal, ended, overlapped>>

\* A synchronous script, with or without success: a failure is logged.
RunScript ==
    /\ At(Main, "script")
    /\ due' = due \ {cursor}
    /\ Goto(Main, "migrate")
    /\ UNCHANGED <<loaded, cursor, pending, serving, conn, checks, signal, ended, overlapped>>

\* The goroutine runs the script that the loop variable holds by then.
RunAsyncScript ==
    /\ ended = None /\ pending > 0
    /\ pending' = pending - 1
    /\ due' = due \ {cursor}
    /\ UNCHANGED <<loaded, cursor, pc, serving, conn, checks, signal, ended, overlapped>>

\* The first Swap; the health check is begun and the server started.
SetUp ==
    /\ At(Main, "migrate") /\ cursor = Len(Scripts)
    /\ router' = 1
    /\ Goto(Main, "build")
    /\ UNCHANGED <<starting, built, server, port, conn, checks, signal, ended, overlapped>>

-----------------------------------------------------------------------------
(* StartServer and RestartServer.                                          *)

\* Seeded fault: the caller's own router is served, whatever was swapped since.
BuildHandlerOwn(a) ==
    /\ At(a, "build")
    /\ built' = [built EXCEPT ![a] = IF a = Main THEN router ELSE @]
    /\ Goto(a, "listen")
    /\ UNCHANGED <<starting, router, server, port, conn, checks, signal, ended, overlapped>>

\* The router is read without its lock.
BuildHandler(a) ==
    /\ At(a, "build")
    /\ built' = [built EXCEPT ![a] = router]
    /\ Goto(a, "listen")
    /\ UNCHANGED <<starting, router, server, port, conn, checks, signal, ended, overlapped>>

\* ListenAndServe on rs.server: at once ErrServerClosed, or an address in use,
\* which ends the process.
Listen(a) ==
    /\ At(a, "listen")
    /\ server' = [server EXCEPT !.handler = built[a]]
    /\ CASE server.closed -> Goto(a, "waiting") /\ UNCHANGED <<port, ended>>
         [] ~ server.closed /\ port = None ->
                Goto(a, "serving") /\ port' = [by |-> a, known |-> TRUE] /\ UNCHANGED ended
         [] OTHER -> ended' = "bind" /\ UNCHANGED <<pc, port>>
    /\ UNCHANGED <<starting, built, router, conn, checks, signal, overlapped>>

Quiet == \A c \in Conns : conn[c] # "known"

\* Shutdown, first half: no more connections; who served waits for an
\* interrupt from now on.
Closes(a, stage) ==
    LET shut == port # None /\ port.known
    IN  /\ server' = [server EXCEPT !.closed = TRUE]
        /\ port' = IF shut THEN None ELSE port
        /\ pc' = [b \in Actors |-> IF b = a THEN stage
                                   ELSE IF shut /\ b = port.by THEN "waiting" ELSE pc[b]]

Restarting(a) == pc[a] \in {"shutting", "replace", "build", "listen"}

\* A caller sets a router of its own ...
Swap(a) ==
    /\ At(a, "idle") /\ pc[Main] \in {"serving", "waiting"}
    /\ router' = router + 1
    /\ built' = [built EXCEPT ![a] = router']
    /\ Goto(a, "swapped")
    /\ UNCHANGED <<starting, server, port, conn, checks, signal, ended, overlapped>>

\* ... and restarts the server.
Shutdown(a) ==
    /\ At(a, "swapped")
    /\ Closes(a, "shutting")
    /\ overlapped' = (overlapped \/ signal # "none" \/ \E b \in Callers : Restarting(b))
    /\ UNCHANGED <<starting, built, router, conn, checks, signal, ended>>

\* Seeded fault: requests are not waited for.
ShutdownReturnsAtOnce(a) ==
    /\ At(a, "shutting")
    /\ Goto(a, "replace")
    /\ UNCHANGED <<starting, serving, conn, checks, signal, ended, overlapped>>

\* Shutdown, second half; after an error the server is not started again.
ShutdownReturns(a) ==
    /\ At(a, "shutting") /\ Quiet
    /\ Goto(a, "replace") \/ Goto(a, "failed")
    /\ UNCHANGED <<starting, serving, conn, checks, signal, ended, overlapped>>

\* rs.server is overwritten, and with it what it knows; a Shutdown that holds
\* its mutex then ends the process.
Replace(a) ==
    /\ At(a, "replace")
    /\ server' = NewServer
    /\ port' = IF port = None THEN None ELSE [port EXCEPT !.known = FALSE]
    /\ conn' = [c \in Conns |-> IF conn[c] = "known" THEN "lost" ELSE conn[c]]
    /\ Goto(a, "build")
    /\ \/ UNCHANGED ended
       \/ /\ signal = "shutting" \/ \E b \in Callers : At(b, "shutting")
          /\ ended' = "race"
    /\ UNCHANGED <<starting, built, router, checks, signal, overlapped>>

-----------------------------------------------------------------------------
(* An interrupt.                                                           *)

\* Before StartServer it ends the process at once.
Interrupt ==
    /\ ended = None /\ signal = "none"
    /\ IF pc[Main] \in {"listen", "serving", "waiting"}
       THEN /\ signal' = "shutting"
            /\ Closes(None, "")
            /\ overlapped' = (overlapped \/ \E a \in Callers : Restarting(a))
            /\ UNCHANGED ended
       ELSE ended' = "interrupt" /\ UNCHANGED <<signal, server, port, pc, overlapped>>
    /\ UNCHANGED <<starting, built, router, conn, checks>>

InterruptReturns ==
    /\ ended = None /\ signal = "shutting" /\ Quiet
    /\ signal' = "done"
    /\ UNCHANGED <<starting, pc, serving, conn, checks, ended, overlapped>>

\* idleConnsClosed is closed and main returns.
MainReturns ==
    /\ signal = "done" /\ At(Main, "waiting")
    /\ ended' = "interrupt"
    /\ UNCHANGED <<starting, pc, serving, conn, checks, signal, overlapped>>

-----------------------------------------------------------------------------
(* Requests and health checks.                                             *)

Connected == IF port.known THEN "known" ELSE "lost"

Request(c) ==
    /\ ended = None /\ port # None /\ conn[c] = "none"
    /\ conn' = [conn EXCEPT ![c] = Connected]
    /\ UNCHANGED <<starting, pc, serving, checks, signal, ended, overlapped>>

Respond(c) ==
    /\ ended = None /\ conn[c] # "none"
    /\ conn' = [conn EXCEPT ![c] = "none"]
    /\ UNCHANGED <<starting, pc, serving, checks, signal, ended, overlapped>>

Checking(p, stage) == ended = None /\ probe[p].stage = stage

\* The job of every ten seconds, begun before StartServer.
Check(p) ==
    /\ Checking(p, "idle") /\ pc[Main] \in {"build", "listen", "serving", "waiting"}
    /\ IF port = None
       THEN probe' = [probe EXCEPT ![p].stage = "append", ![p].status = FALSE] /\ UNCHANGED conn
       ELSE probe' = [probe EXCEPT ![p].stage = "probing"]
            /\ conn' = [conn EXCEPT ![p] = Connected]
    /\ UNCHANGED <<starting, pc, serving, window, signal, ended, overlapped>>

\* Without a handler every path is 404.  While isInvalidArcIDUsed is set
\* (invalid, of module Billing), all are 400: BillingMiddleware asks for it
\* before it looks at BillingBlacklistedPaths, of which this path is one.
Answered(p) ==
    /\ Checking(p, "probing")
    /\ \E invalid \in BOOLEAN :
          probe' = [probe EXCEPT ![p].stage = "append",
                                ![p].status = server.handler # None /\ ~ invalid]
    /\ conn' = [conn EXCEPT ![p] = "none"]
    /\ UNCHANGED <<starting, pc, serving, window, signal, ended, overlapped>>

\* After two minutes; the handler goes on, as a request of nobody's.
TimesOut(p) ==
    /\ Checking(p, "probing")
    /\ probe' = [probe EXCEPT ![p].stage = "append", ![p].status = FALSE]
    /\ \/ conn' = [conn EXCEPT ![p] = "none"]
       \/ \E c \in Clients : conn[c] = "none" /\ conn' = [conn EXCEPT ![p] = "none", ![c] = conn[p]]
    /\ UNCHANGED <<starting, pc, serving, window, signal, ended, overlapped>>

\* Seeded faults: the results that are kept are two, and all.
KeepTwo(details, status) ==
    LET d == Append(details, status) IN IF Len(d) > 2 THEN SubSeq(d, Len(d) - 1, Len(d)) ELSE d
KeepAll(details, status) == Append(details, status)

Keep(details, status) ==
    LET d == Append(details, status) IN IF Len(d) > 3 THEN SubSeq(d, Len(d) - 2, Len(d)) ELSE d

\* Append and the verdict, for the result of p and those of lost, which is
\* overwritten: there is no lock between checks that append at the same time.
AppendResult(p) ==
    \E lost \in {{}} \cup {{q} : q \in Probes \ {p}} :
        /\ \A q \in lost \cup {p} : Checking(q, "append")
        /\ window' = Keep(window, probe[p].status)
        /\ ended' = IF window' = <<FALSE, FALSE, FALSE>> THEN "health" ELSE ended
        /\ probe' = [q \in Probes |-> IF q \in lost \cup {p} THEN NoProbe ELSE probe[q]]
        /\ UNCHANGED <<starting, pc, serving, conn, signal, overlapped>>

-----------------------------------------------------------------------------
StartUp == LoadPlugin \/ Loaded \/ Migrate \/ RunScript \/ SetUp
Start(a) == BuildHandler(a) \/ Listen(a)
Restart(a) == Shutdown(a) \/ ShutdownReturns(a) \/ Replace(a)
Step(p) == Check(p) \/ Answered(p) \/ TimesOut(p) \/ AppendResult(p)

Next ==
    \/ StartUp \/ RunAsyncScript
    \/ \E a \in Actors : Start(a)
    \/ \E a \in Callers : Swap(a) \/ Restart(a)
    \/ Interrupt \/ InterruptReturns \/ MainReturns
    \/ \E c \in Clients : Request(c) \/ Respond(c)
    \/ \E p \in Probes : Step(p)

Spec == Init /\ [][Next]_vars

\* The process takes its steps and the health check is a cron job with a
\* timeout; nothing is assumed of how long a request takes.
FairSpec ==
    /\ Spec
    /\ WF_vars(StartUp)
    /\ \A a \in Actors : WF_vars(Start(a))
    /\ \A a \in Callers : WF_vars(Restart(a))
    /\ \A p \in Probes : WF_vars(Step(p))

-----------------------------------------------------------------------------
Stages == {"idle", "load", "migrate", "script", "build", "listen", "serving", "waiting",
           "swapped", "shutting", "replace", "failed"}
Handlers == 0..(Cardinality(Callers) + 1)

TypeOK ==
    /\ loaded \subseteq UNION {Order[i] : i \in DOMAIN Order}
    /\ cursor \in 0..Len(Scripts) /\ due \subseteq 1..Len(Scripts)
    /\ pending \in 0..Len(Scripts)
    /\ pc \in [Actors -> Stages]
    /\ built \in [Actors -> Handlers \cup {None}] /\ router \in Handlers
    /\ server \in [handler : Handlers \cup {None}, closed : BOOLEAN]
    /\ port = None \/ port \in [by : Actors, known : BOOLEAN]
    /\ conn \in [Conns -> {"none", "known", "lost"}]
    /\ \A p \in Probes :
          /\ probe[p].stage \in {"idle", "probing", "append"}
          /\ probe[p].status \in BOOLEAN
    /\ window \in Seq(BOOLEAN) /\ Len(window) <= 3
    /\ overlapped \in BOOLEAN
    /\ signal \in {"none", "shutting", "done"}
    /\ ended \in {None, "plugin", "bind", "race", "interrupt", "health"}

\* Whoever serves has tried the synchronous migrations that were due; and
\* once no swap or restart is under way, the router served is the one swapped
\* in last, however they were interleaved (a router that was swapped by one
\* caller may be taken up by the restart of another), until an interrupt.
ServesCurrent ==
    port # None =>
        /\ \A i \in due : Scripts[i].async
        /\ signal = "none" /\ (\A a \in Callers : pc[a] \in {"idle", "serving", "waiting"}) =>
              server.handler = router

\* The process does not end by itself: restarts one after the other find the
\* port free, and an interrupt ends it only when all requests are answered,
\* unless restarts or an interrupt overlapped.
EndsForCause ==
    /\ ended \in {"bind", "race"} => overlapped
    /\ ended = "interrupt" => overlapped \/ \A c \in Clients : conn[c] = "none"

\* "reactivesearch-api server has stopped accepting requests": when a restart
\* hangs on a request, or fails, the health check ends the process.
ServesOrEnds == []<>(ended # None \/ (port # None /\ server.handler # None))
=============================================================================
