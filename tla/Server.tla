------------------------------- MODULE Server -------------------------------
(***************************************************************************)
(* The life of the process: `cortex api-server` reads its configuration,   *)
(* listens, serves requests from a pool of database connections, and on a  *)
(* signal shuts down.  The actors are the main goroutine, the goroutine    *)
(* that listens, one goroutine per connection of a client, the kernel that *)
(* delivers signals, and the clients.  What a request does to the          *)
(* documents is DocumentService's subject; here it only matters that it    *)
(* needs at most one connection of the pool, for one statement.            *)
(*                                                                         *)
(* net/http and pgxpool are external: Shutdown stops accepting, closes     *)
(* idle connections, and returns when no connection is left or its context *)
(* is done; Close of the pool refuses those who wait for a connection and  *)
(* waits for those who have one.                                           *)
(***************************************************************************)
EXTENDS Naturals, FiniteSets, Configuration

CONSTANTS
  Requests,   \* the clients' connections, each with at most one request
  MaxConns    \* the connections of the pool to the database

ASSUME PoolAssumption == MaxConns \in Nat \ {0}

VARIABLES
  config,     \* the configuration the process runs with
  phase,      \* where the main goroutine is
  exit,       \* how the process ended
  listener,   \* the goroutine that runs httpServer.ListenAndServe
  signalled,  \* a signal has been delivered
  timedOut,   \* Shutdown returned because its 30 seconds were over
  request,    \* what the goroutine of a connection does
  acquired,   \* the requests that hold a connection of the pool
  poolClosed  \* pool.Close has been called

vars == <<config, phase, exit, listener, signalled, timedOut, request, acquired, poolClosed>>
requestVars == <<request, acquired>>

-----------------------------------------------------------------------------
Phases == {"starting", "serving", "draining", "closing", "gone"}
Exits == {"running", "ok", "failed", "killed"}
Listeners == {"none", "bound", "open", "failed", "closed"}
\* "connected": no request, or its header is not read yet.
Stages == {"none", "connected", "waiting", "querying", "answering"}

Alive == phase # "gone"
\* A handler runs on the connection r.
InProgress(r) == request[r] \in {"waiting", "querying", "answering"}
\* What net/http's inShutdown says.
ShuttingDown == phase \in {"draining", "closing"}

Init ==
  /\ config = NoConfig
  /\ phase = "starting"
  /\ exit = "running"
  /\ listener = "none"
  /\ signalled = FALSE
  /\ timedOut = FALSE
  /\ request = [r \in Requests |-> "none"]
  /\ acquired = {}
  /\ poolClosed = FALSE

-----------------------------------------------------------------------------
(* The main goroutine.                                                     *)

ExitsWith(status) == /\ phase' = "gone" /\ exit' = status

\* The configuration cannot be read, does not validate, or does not make a
\* pool or the adapters: os.Exit(1).
StartFails ==
  /\ phase = "starting"
  /\ \E source \in Sources : ~ Accepted(source)
  /\ ExitsWith("failed")
  /\ UNCHANGED <<config, listener, signalled, timedOut, requestVars, poolClosed>>

\* From here on signals cancel the context instead of killing the process.
Start ==
  /\ phase = "starting"
  /\ \E source \in Sources : Accepted(source) /\ config' = Load(source)
  /\ phase' = "serving"
  /\ UNCHANGED <<exit, listener, signalled, timedOut, requestVars, poolClosed>>

\* The pool is closed when the signal arrives, before Shutdown.
Drain_ClosesPool ==
  /\ phase = "serving"
  /\ signalled
  /\ phase' = "draining"
  /\ listener' = IF listener = "open" THEN "closed" ELSE listener
  /\ poolClosed' = TRUE
  /\ UNCHANGED <<config, exit, signalled, timedOut, requestVars>>

\* <-ctx.Done(), and the beginning of Shutdown: the listener is closed.
Drain ==
  /\ phase = "serving"
  /\ signalled
  /\ phase' = "draining"
  /\ listener' = IF listener = "open" THEN "closed" ELSE listener
  /\ UNCHANGED <<config, exit, signalled, timedOut, requestVars, poolClosed>>

\* Shutdown returns and the deferred calls begin: stop(), which gives the
\* signals their default effect back, and pool.Close().
CloseThePool ==
  /\ phase' = "closing"
  /\ poolClosed' = TRUE
  /\ UNCHANGED <<config, exit, listener, signalled, requestVars>>

\* Close instead of Shutdown.
ShutdownReturns_AtOnce ==
  /\ phase = "draining"
  /\ CloseThePool
  /\ UNCHANGED timedOut

ShutdownReturns ==
  /\ phase = "draining"
  /\ \A r \in Requests : request[r] = "none"
  /\ CloseThePool
  /\ UNCHANGED timedOut

\* The 30 seconds may end after the last look at the connections, so
\* there may be none left.
ShutdownTimesOut ==
  /\ phase = "draining"
  /\ timedOut' = TRUE
  /\ CloseThePool

\* pool.Close() returns, and with it ListenAndServe, Run and main, whatever
\* the other goroutines are doing.
PoolCloses ==
  /\ phase = "closing"
  /\ acquired = {}
  /\ ExitsWith("ok")
  /\ UNCHANGED <<config, listener, signalled, timedOut, requestVars, poolClosed>>

Main == StartFails \/ Start \/ Drain \/ ShutdownReturns \/ ShutdownTimesOut \/ PoolCloses

-----------------------------------------------------------------------------
(* The kernel and the goroutine that listens.                              *)

\* SIGINT or SIGTERM.  The first one during service ends the service, one
\* before or after it kills.  A signal in between changes nothing.
Signal ==
  /\ \/ /\ phase = "serving"
        /\ ~signalled
        /\ UNCHANGED <<phase, exit>>
     \/ /\ phase \in {"starting", "closing"}
        /\ ExitsWith("killed")
  /\ signalled' = TRUE
  /\ UNCHANGED <<config, listener, timedOut, requestVars, poolClosed>>

\* http.Server.ListenAndServe: nothing is tried once Shutdown has begun; a
\* failure is logged, and the main goroutine does not hear of it.
Listen ==
  /\ phase \in {"serving", "draining", "closing"}
  /\ listener = "none"
  /\ \/ /\ ShuttingDown
        /\ listener' = "closed"
     \/ /\ ~ShuttingDown
        /\ listener' \in {"bound", "failed"}
  /\ UNCHANGED <<config, phase, exit, signalled, timedOut, requestVars, poolClosed>>

\* Only the first look at inShutdown is taken.
Serve_Unchecked ==
  /\ Alive
  /\ listener = "bound"
  /\ listener' = "open"
  /\ UNCHANGED <<config, phase, exit, signalled, timedOut, requestVars, poolClosed>>

\* Shutdown may have begun since the address was bound.
Serve ==
  /\ Alive
  /\ listener = "bound"
  /\ listener' = IF ShuttingDown THEN "closed" ELSE "open"
  /\ UNCHANGED <<config, phase, exit, signalled, timedOut, requestVars, poolClosed>>

-----------------------------------------------------------------------------
(* A client's connection and the handler that runs on it.                  *)

Becomes(r, stage) == request' = [request EXCEPT ![r] = stage]

unchangedServer == <<config, phase, exit, listener, signalled, timedOut, poolClosed>>

Accept(r) ==
  /\ Alive
  /\ listener = "open"
  /\ request[r] = "none"
  /\ Becomes(r, "connected")
  /\ UNCHANGED <<acquired, unchangedServer>>

\* A connection without a request ends: by its client, a timeout of the
\* server, or Shutdown.
Disconnect(r) ==
  /\ Alive
  /\ request[r] = "connected"
  /\ Becomes(r, "none")
  /\ UNCHANGED <<acquired, unchangedServer>>

\* The header of a request is read and its handler called: it is answered
\* without the database (refused, WhoAmI), or needs a connection to it.
Begin(r) ==
  /\ Alive
  /\ request[r] = "connected"
  /\ \E stage \in {"waiting", "answering"} : Becomes(r, stage)
  /\ UNCHANGED <<acquired, unchangedServer>>

Acquire(r) ==
  /\ Alive
  /\ request[r] = "waiting"
  /\ ~poolClosed
  /\ Cardinality(acquired) < MaxConns
  /\ acquired' = acquired \cup {r}
  /\ Becomes(r, "querying")
  /\ UNCHANGED unchangedServer

\* ErrClosedPool.
AcquireFails(r) ==
  /\ Alive
  /\ request[r] = "waiting"
  /\ poolClosed
  /\ Becomes(r, "answering")
  /\ UNCHANGED <<acquired, unchangedServer>>

\* The rows are not closed: the connection stays with the request.
Collect_KeepsConnection(r) ==
  /\ Alive
  /\ request[r] = "querying"
  /\ Becomes(r, "answering")
  /\ UNCHANGED <<acquired, unchangedServer>>

\* The statement ends, with rows or with an error, and the rows are
\* collected, which gives the connection back.
Collect(r) ==
  /\ Alive
  /\ request[r] = "querying"
  /\ acquired' = acquired \ {r}
  /\ Becomes(r, "answering")
  /\ UNCHANGED unchangedServer

\* The answer is written, or cannot be within WriteTimeout.  During service
\* the connection may be kept for another request.
Answer(r) ==
  /\ Alive
  /\ request[r] = "answering"
  /\ \/ Becomes(r, "none")
     \/ /\ ~ShuttingDown
        /\ Becomes(r, "connected")
  /\ UNCHANGED <<acquired, unchangedServer>>

\* The client has gone: the request's context is cancelled, which ends the
\* wait or the statement with an error.
Abandon(r) ==
  /\ Alive
  /\ InProgress(r)
  /\ acquired' = acquired \ {r}
  /\ Becomes(r, "none")
  /\ UNCHANGED unchangedServer

Handler(r) == Acquire(r) \/ AcquireFails(r) \/ Collect(r) \/ Answer(r)

Connection(r) == Accept(r) \/ Disconnect(r) \/ Begin(r) \/ Handler(r) \/ Abandon(r)

-----------------------------------------------------------------------------
Ended == ~Alive /\ UNCHANGED vars

Next ==
  \/ Main
  \/ Signal
  \/ Listen
  \/ Serve
  \/ \E r \in Requests : Connection(r)
  \/ Ended

(***************************************************************************)
(* The scheduler runs every goroutine that can run, and the 30 seconds     *)
(* end.  Statements end (PostgreSQL answers or the connection breaks), and *)
(* answers end (WriteTimeout).  The pool serves those who wait in their    *)
(* order, so whoever waits while connections come back again and again     *)
(* gets one.  Nothing is assumed of clients and of the kernel.             *)
(***************************************************************************)
Fairness ==
  /\ WF_vars(Main)
  /\ WF_vars(Listen \/ Serve)
  /\ \A r \in Requests :
       /\ WF_vars(AcquireFails(r) \/ Collect(r) \/ Answer(r))
       /\ SF_vars(Acquire(r))

Spec == Init /\ [][Next]_vars /\ Fairness

-----------------------------------------------------------------------------
(* Types; the connections in use are those of statements in progress, so   *)
(* the pool gets back what it lends (CollectRows closes its rows).         *)
TypeOK ==
  /\ config \in Config
  /\ phase \in Phases
  /\ exit \in Exits
  /\ listener \in Listeners
  /\ signalled \in BOOLEAN
  /\ timedOut \in BOOLEAN
  /\ request \in [Requests -> Stages]
  /\ acquired = {r \in Requests : request[r] = "querying"}
  /\ poolClosed \in BOOLEAN

(* A process that exits by itself cuts a handler off only if Shutdown's 30 *)
(* seconds were not enough for it (ListenAndServe waits for Shutdown).     *)
ShutdownIsGraceful ==
  exit = "ok" /\ ~timedOut => \A r \in Requests : ~InProgress(r)

(* The pool is closed under a handler only if Shutdown timed out: the      *)
(* deferred Close runs last, and no handler begins behind Shutdown's back  *)
(* through a listener that was opened at the same time.                    *)
PoolOutlivesHandlers ==
  poolClosed /\ ~timedOut => \A r \in Requests : ~InProgress(r)

(* Why the two hold: what closes the pool, what leaves the listener open,   *)
(* and that after a Shutdown that was not cut short nobody is connected.   *)
PoolClosesLast ==
  /\ Alive => (poolClosed <=> phase = "closing")
  /\ exit = "ok" => poolClosed

ListensOnlyInService ==
  /\ listener = "open" => phase = "serving"
  /\ phase = "starting" => listener = "none"

NobodyIsLeft ==
  poolClosed /\ ~timedOut => \A r \in Requests : request[r] = "none"

Invariant == TypeOK /\ PoolClosesLast /\ ListensOnlyInService /\ NobodyIsLeft

(* SIGINT or SIGTERM ends the process: with requests that take longer than *)
(* Shutdown waits, with a pool at its limit, and when nothing ever listened *)
(* because the address was taken.                                          *)
SignalEndsProcess == signalled ~> ~Alive

(* A request whose handler has begun ends while the process lives, also if *)
(* the pool is at its limit or closed meanwhile.                           *)
RequestsEnd ==
  \A r \in Requests : InProgress(r) ~> (~InProgress(r) \/ ~Alive)

=============================================================================
