---------------------------- MODULE GatewayClient ----------------------------
(***************************************************************************)
(* The relay's connection to the local OpenClaw gateway                    *)
(* (src/openclaw/gatewayClient.ts): one websocket, the connect handshake   *)
(* on it, the promise callers wait for until the handshake is done, the    *)
(* start loop that retries it, the timers and the request table.           *)
(*                                                                         *)
(* A connect request has a timer of its own, which outlives its socket:    *)
(* `myConnect' says that the one of the present socket is in the table,    *)
(* `stale' counts those of sockets the client has given up.  A promise is  *)
(* never named: `readyPromise' is the state of the one the field holds,    *)
(* and a caller or the loop that waits for a promise nobody can settle any *)
(* more is "orphaned".                                                     *)
(*                                                                         *)
(* JavaScript runs the continuations of settled promises before the next   *)
(* event: events need Quiet, continuations do not, and their order among   *)
(* themselves is left open.  Time is left out: an armed timer may fire at  *)
(* any moment.  The gateway is external: it may accept, refuse or ignore a *)
(* connect, challenge it, answer a request or not, and drop the socket.    *)
(***************************************************************************)
EXTENDS Naturals

CONSTANTS Starter,      \* callers of start(): main, the handshake task
          Requester,    \* callers of request()
          MaxAttempts,  \* startupMaxAttempts
          MaxStale      \* bound: connect timers of given-up sockets counted

Caller == Starter \cup Requester

ASSUME GatewayAssumption ==
    /\ Starter \cap Requester = {}
    /\ MaxAttempts \in Nat \ {0}
    /\ MaxStale \in Nat

VARIABLES
    ws,              \* the socket this.ws points to, and how far it is
    hello,           \* this.hello is set: the client is ready
    connectSent,
    myConnect,       \* the pending connect request of this socket
    stale,           \* pending connect requests of earlier sockets
    sendTimer,       \* the 50 ms fallback of the open handler
    readyTimer,      \* connectReadyTimeout
    reconnectTimer,
    watch,           \* tickTimer: the watchdog polls
    stopped,
    connectedOnce,
    emitted,         \* lastEmittedConnectionState
    readyPromise,
    loop, attempt,   \* the start loop: what it waits for, which try it is
    pc,              \* where each call is
    shutdown         \* main has called stop()

socketVars == <<ws, hello, connectSent, myConnect, stale>>
timerVars == <<sendTimer, readyTimer, reconnectTimer, watch>>
lifeVars == <<stopped, connectedOnce, emitted, shutdown>>
waitVars == <<readyPromise, loop, attempt, pc>>
vars == <<socketVars, timerVars, lifeVars, waitVars>>

TypeOK ==
    /\ ws \in {"none", "dialing", "open", "closing"}
    /\ hello \in BOOLEAN /\ connectSent \in BOOLEAN /\ myConnect \in BOOLEAN
    /\ stale \in 0..MaxStale
    /\ sendTimer \in BOOLEAN /\ readyTimer \in BOOLEAN
    /\ reconnectTimer \in BOOLEAN /\ watch \in BOOLEAN
    /\ stopped \in BOOLEAN /\ connectedOnce \in BOOLEAN /\ shutdown \in BOOLEAN
    /\ emitted \in {"unknown", "up", "down"}
    /\ readyPromise \in {"none", "pending", "resolved"}
    /\ loop \in {"none", "waiting", "resolved", "rejected", "sleeping", "orphaned"}
    /\ attempt \in 0..MaxAttempts
    /\ pc \in [Caller -> {"idle", "joined", "waiting", "resumed", "orphaned", "sent", "lost"}]

Init ==
    /\ ws = "none" /\ hello = FALSE /\ connectSent = FALSE
    /\ myConnect = FALSE /\ stale = 0
    /\ sendTimer = FALSE /\ readyTimer = FALSE /\ reconnectTimer = FALSE /\ watch = FALSE
    /\ stopped = FALSE /\ connectedOnce = FALSE /\ emitted = "unknown" /\ shutdown = FALSE
    /\ readyPromise = "none" /\ loop = "none" /\ attempt = 0
    /\ pc = [c \in Caller |-> "idle"]

Least(a, b) == IF a <= b THEN a ELSE b

(* No continuation is runnable: the event loop takes the next event.        *)
Quiet ==
    /\ loop \notin {"resolved", "rejected"}
    /\ \A c \in Caller : pc[c] # "resumed"

Settled(from, to) == [c \in Caller |-> IF pc[c] = from THEN to ELSE pc[c]]

-----------------------------------------------------------------------------
(* Sockets.                                                                 *)

(* open(): nothing if the client is stopped or has a socket.                *)
Open(isStopped) ==
    IF isStopped \/ ws # "none"
    THEN UNCHANGED <<ws, hello, connectSent, myConnect>>
    ELSE /\ ws' = "dialing"
         /\ hello' = FALSE
         /\ connectSent' = FALSE
         /\ myConnect' = FALSE

(* sendConnectIfNeeded()                                                    *)
SendConnect ==
    IF connectSent \/ ws # "open"
    THEN UNCHANGED <<connectSent, myConnect>>
    ELSE connectSent' = TRUE /\ myConnect' = TRUE

WsOpens ==
    /\ Quiet
    /\ ws = "dialing"
    /\ ws' = "open"
    /\ readyTimer' = TRUE
    /\ sendTimer' = TRUE
    /\ UNCHANGED <<hello, connectSent, myConnect, stale, reconnectTimer, watch, lifeVars, waitVars>>

(* The gateway or the network ends the socket; its close event follows.     *)
Drops ==
    /\ Quiet
    /\ ws \in {"dialing", "open"}
    /\ ws' = "closing"
    /\ UNCHANGED <<hello, connectSent, myConnect, stale, timerVars, lifeVars, waitVars>>

(* A mutant of Closed: hello is kept.                                       *)
ClosedStillReady ==
    /\ Quiet
    /\ ws = "closing"
    /\ ws' = "none" /\ emitted' = "down"
    /\ readyTimer' = FALSE
    /\ readyPromise' = "none"
    /\ loop' = IF loop = "waiting" THEN "rejected" ELSE loop
    /\ myConnect' = FALSE /\ stale' = 0
    /\ pc' = [c \in Caller |-> IF pc[c] \in {"waiting", "sent", "lost"} THEN "idle" ELSE pc[c]]
    /\ reconnectTimer' = (reconnectTimer \/ (connectedOnce /\ ~stopped))
    /\ UNCHANGED <<hello, connectSent, sendTimer, watch, stopped, connectedOnce, shutdown, attempt>>

(* The close handler: rejects the ready promise and the whole request       *)
(* table, the connect requests of earlier sockets included, and reconnects  *)
(* if there has been a connection.                                          *)
Closed ==
    /\ Quiet
    /\ ws = "closing"
    /\ ws' = "none" /\ hello' = FALSE /\ emitted' = "down"
    /\ readyTimer' = FALSE
    /\ readyPromise' = "none"
    /\ loop' = IF loop = "waiting" THEN "rejected" ELSE loop
    /\ myConnect' = FALSE /\ stale' = 0
    /\ pc' = [c \in Caller |-> IF pc[c] \in {"waiting", "sent", "lost"} THEN "idle" ELSE pc[c]]
    /\ reconnectTimer' = (reconnectTimer \/ (connectedOnce /\ ~stopped))
    /\ UNCHANGED <<connectSent, sendTimer, watch, stopped, connectedOnce, shutdown, attempt>>

SendTimerFires ==
    /\ Quiet
    /\ sendTimer
    /\ sendTimer' = FALSE
    /\ SendConnect
    /\ UNCHANGED <<ws, hello, stale, readyTimer, reconnectTimer, watch, lifeVars, waitVars>>

(* connect.challenge: a connect in flight is forgotten, with every other    *)
(* connect in the table, and sent again with the nonce.                     *)
Challenge ==
    /\ Quiet
    /\ ws = "open" /\ ~hello
    /\ stale' = IF connectSent THEN 0 ELSE stale
    /\ connectSent' = TRUE /\ myConnect' = TRUE
    /\ UNCHANGED <<ws, hello, timerVars, lifeVars, waitVars>>

(* onConnectResponse() with a valid hello-ok.                               *)
ConnectAccepted ==
    /\ Quiet
    /\ ws = "open" /\ myConnect
    /\ myConnect' = FALSE /\ hello' = TRUE
    /\ readyTimer' = FALSE /\ watch' = TRUE
    /\ connectedOnce' = TRUE /\ emitted' = "up"
    /\ readyPromise' = IF readyPromise = "pending" THEN "resolved" ELSE readyPromise
    /\ loop' = IF loop = "waiting" THEN "resolved" ELSE loop
    /\ pc' = Settled("waiting", "resumed")
    /\ UNCHANGED <<ws, connectSent, stale, sendTimer, reconnectTimer, stopped, shutdown, attempt>>

(* Mutants of OnConnectError: the state change is not emitted; the detached *)
(* socket's reconnect is left to a close handler that no longer hears it.   *)
ErrorUnreported(staleLeft) ==
    /\ ws' = "none" /\ hello' = FALSE
    /\ readyTimer' = FALSE
    /\ readyPromise' = IF readyPromise = "pending" THEN "none" ELSE readyPromise
    /\ loop' = IF loop = "waiting" THEN "rejected" ELSE loop
    /\ myConnect' = FALSE /\ stale' = staleLeft
    /\ pc' = [c \in Caller |-> CASE pc[c] = "waiting" -> "idle"
                                 [] pc[c] = "sent" -> "lost"
                                 [] OTHER -> pc[c]]
    /\ reconnectTimer' = (reconnectTimer \/ (connectedOnce /\ ~stopped))
    /\ UNCHANGED <<connectSent, sendTimer, watch, stopped, connectedOnce, emitted, shutdown, attempt>>

ErrorWithoutReconnect(staleLeft) ==
    /\ ws' = "none" /\ hello' = FALSE /\ emitted' = "down"
    /\ readyTimer' = FALSE
    /\ readyPromise' = IF readyPromise = "pending" THEN "none" ELSE readyPromise
    /\ loop' = IF loop = "waiting" THEN "rejected" ELSE loop
    /\ myConnect' = FALSE /\ stale' = staleLeft
    /\ pc' = [c \in Caller |-> CASE pc[c] = "waiting" -> "idle"
                                 [] pc[c] = "sent" -> "lost"
                                 [] OTHER -> pc[c]]
    /\ UNCHANGED <<connectSent, sendTimer, reconnectTimer, watch, stopped, connectedOnce, shutdown,
                   attempt>>

(* onConnectError(): detaches and terminates whatever socket there is.      *)
(* Requests on it stay in the table until their own timers fire; a ready    *)
(* promise that has been resolved stays where it is.                        *)
OnConnectError(staleLeft) ==
    /\ ws' = "none" /\ hello' = FALSE /\ emitted' = "down"
    /\ readyTimer' = FALSE
    /\ readyPromise' = IF readyPromise = "pending" THEN "none" ELSE readyPromise
    /\ loop' = IF loop = "waiting" THEN "rejected" ELSE loop
    /\ myConnect' = FALSE /\ stale' = staleLeft
    /\ pc' = [c \in Caller |-> CASE pc[c] = "waiting" -> "idle"
                                 [] pc[c] = "sent" -> "lost"
                                 [] OTHER -> pc[c]]
    /\ reconnectTimer' = (reconnectTimer \/ (connectedOnce /\ ~stopped))
    /\ UNCHANGED <<connectSent, sendTimer, watch, stopped, connectedOnce, shutdown, attempt>>

(* The connect of this socket is refused, malformed or times out.           *)
ConnectFails ==
    /\ Quiet
    /\ myConnect
    /\ OnConnectError(stale)

(* What is in the table when the present socket is detached.                *)
Abandoned(n) == IF myConnect THEN Least(MaxStale, n + 1) ELSE n

(* The timer of a connect whose socket has been given up.                   *)
StaleConnectTimeout ==
    /\ Quiet
    /\ stale > 0
    /\ OnConnectError(Abandoned(stale - 1))

(* connectReadyTimeout: the connect request itself stays in the table.      *)
ReadyTimeout ==
    /\ Quiet
    /\ readyTimer
    /\ OnConnectError(Abandoned(stale))

ReconnectFires ==
    /\ Quiet
    /\ reconnectTimer
    /\ reconnectTimer' = FALSE
    /\ Open(stopped)
    /\ UNCHANGED <<stale, sendTimer, readyTimer, watch, lifeVars, waitVars>>

(* The tick watchdog closes the socket for missed ticks or a paused         *)
(* runtime.  It goes on polling while a later socket is still connecting.   *)
Watchdog ==
    /\ Quiet
    /\ watch
    /\ ws \in {"dialing", "open"}
    /\ ws' = "closing"
    /\ UNCHANGED <<hello, connectSent, myConnect, stale, timerVars, lifeVars, waitVars>>

-----------------------------------------------------------------------------
(* Callers and the start loop.                                              *)

(* stop(): its flush rejects a connect in the table, which clears hello;    *)
(* without one, hello and the ready promise stay.                           *)
Stop ==
    LET rejected == myConnect \/ stale > 0 IN
    /\ stopped' = TRUE
    /\ reconnectTimer' = FALSE /\ watch' = FALSE /\ readyTimer' = FALSE
    /\ ws' = "none" /\ myConnect' = FALSE /\ stale' = 0
    /\ hello' = (hello /\ ~rejected)
    /\ emitted' = "down"
    /\ readyPromise' = IF rejected /\ readyPromise = "pending" THEN "none" ELSE readyPromise
    /\ UNCHANGED <<connectSent, sendTimer, connectedOnce>>

StopCalled ==
    LET rejected == myConnect \/ stale > 0 IN
    /\ Quiet
    /\ ~shutdown
    /\ shutdown' = TRUE
    /\ Stop
    /\ loop' = IF rejected /\ loop = "waiting" THEN "rejected" ELSE loop
    /\ pc' = [c \in Caller |-> IF pc[c] \in {"sent", "lost"} \/ (rejected /\ pc[c] = "waiting")
                               THEN "idle" ELSE pc[c]]
    /\ UNCHANGED attempt

(* startOnce(), given the ready promise at the time of the call.            *)
StartOnce(promise, isStopped) ==
    /\ readyPromise' = IF promise = "none" THEN "pending" ELSE promise
    /\ loop' = IF promise = "resolved" THEN "resolved" ELSE "waiting"
    /\ Open(isStopped)

(* start() by c while not ready: join the loop, or begin one.  `pcs' is     *)
(* where the calls are and `running' the loop at the time of the call.      *)
Start(c, promise, running, pcs) ==
    /\ stopped' = FALSE
    /\ pc' = [pcs EXCEPT ![c] = "joined"]
    /\ IF running = "none"
       THEN /\ attempt' = 1
            /\ StartOnce(promise, FALSE)
       ELSE /\ loop' = running
            /\ readyPromise' = promise
            /\ UNCHANGED <<attempt, ws, hello, connectSent, myConnect>>
    /\ UNCHANGED <<stale, timerVars, connectedOnce, emitted, shutdown>>

(* request() has passed ensureReady: the frame goes out if there is a       *)
(* socket, and the request waits for its answer in either case.             *)
Send(c) ==
    /\ pc' = [pc EXCEPT ![c] = IF ws = "none" THEN "lost" ELSE "sent"]
    /\ UNCHANGED <<socketVars, timerVars, lifeVars, readyPromise, loop, attempt>>

CallStart(c) ==
    /\ c \in Starter
    /\ pc[c] = "idle"
    /\ IF hello
       THEN /\ stopped' = FALSE
            /\ UNCHANGED <<socketVars, timerVars, connectedOnce, emitted, shutdown, waitVars>>
       ELSE Start(c, readyPromise, loop, pc)

CallRequest(c) ==
    /\ c \in Requester
    /\ pc[c] = "idle"
    /\ \/ hello /\ Send(c)
       \/ ~hello /\ readyPromise = "none" /\ Start(c, readyPromise, loop, pc)
       \/ /\ ~hello /\ readyPromise # "none"
          /\ pc' = [pc EXCEPT ![c] = IF readyPromise = "pending" THEN "waiting" ELSE "resumed"]
          /\ UNCHANGED <<socketVars, timerVars, lifeVars, readyPromise, loop, attempt>>

(* ensureReady() after its await: not ready, it drops the promise the field *)
(* holds now, which may be a newer one than it waited for, and starts over. *)
Resume(c) ==
    LET orphans == readyPromise = "pending" IN
    /\ pc[c] = "resumed"
    /\ \/ hello /\ Send(c)
       \/ /\ ~hello
          /\ Start(c, "none",
                   IF orphans /\ loop = "waiting" THEN "orphaned" ELSE loop,
                   IF orphans THEN Settled("waiting", "orphaned") ELSE pc)

(* runStartLoop(): its await of the ready promise resolves.                 *)
LoopResolves ==
    /\ loop = "resolved"
    /\ loop' = "none"
    /\ pc' = [c \in Caller |->
                IF pc[c] # "joined" THEN pc[c]
                ELSE IF c \in Starter THEN "idle"
                ELSE IF readyPromise = "pending" THEN "waiting" ELSE "resumed"]
    /\ UNCHANGED <<socketVars, timerVars, lifeVars, readyPromise, attempt>>

LoopRetries ==
    /\ loop = "rejected"
    /\ ~stopped /\ attempt < MaxAttempts
    /\ loop' = "sleeping"
    /\ UNCHANGED <<socketVars, timerVars, lifeVars, readyPromise, attempt, pc>>

(* Out of attempts, or stopped: the loop stops the client and throws to     *)
(* everyone who joined it.                                                  *)
LoopGivesUp ==
    /\ loop = "rejected"
    /\ stopped \/ attempt >= MaxAttempts
    /\ Stop
    /\ loop' = "none"
    /\ pc' = [c \in Caller |-> IF pc[c] \in {"joined", "sent", "lost"} THEN "idle" ELSE pc[c]]
    /\ UNCHANGED <<attempt, shutdown>>

(* The loop's sleep is over.                                                *)
LoopWakes ==
    /\ Quiet
    /\ loop = "sleeping"
    /\ attempt' = attempt + 1
    /\ IF hello
       THEN loop' = "resolved" /\ UNCHANGED <<readyPromise, ws, hello, connectSent, myConnect>>
       ELSE StartOnce(readyPromise, stopped)
    /\ UNCHANGED <<stale, timerVars, lifeVars, pc>>

Reply(c) ==
    /\ Quiet
    /\ pc[c] = "sent" /\ ws = "open"
    /\ pc' = [pc EXCEPT ![c] = "idle"]
    /\ UNCHANGED <<socketVars, timerVars, lifeVars, readyPromise, loop, attempt>>

(* A mutant of RequestTimeout: only requests whose socket is there.         *)
SentTimesOut(c) ==
    /\ Quiet
    /\ pc[c] = "sent"
    /\ pc' = [pc EXCEPT ![c] = "idle"]
    /\ UNCHANGED <<socketVars, timerVars, lifeVars, readyPromise, loop, attempt>>

RequestTimeout(c) ==
    /\ Quiet
    /\ pc[c] \in {"sent", "lost"}
    /\ pc' = [pc EXCEPT ![c] = "idle"]
    /\ UNCHANGED <<socketVars, timerVars, lifeVars, readyPromise, loop, attempt>>

-----------------------------------------------------------------------------
SocketStep ==
    \/ WsOpens \/ Drops \/ Closed \/ SendTimerFires \/ Challenge \/ ConnectAccepted
    \/ ConnectFails \/ StaleConnectTimeout \/ ReadyTimeout \/ ReconnectFires \/ Watchdog

LoopStep == LoopResolves \/ LoopRetries \/ LoopGivesUp \/ LoopWakes

CallStep(c) == CallStart(c) \/ CallRequest(c) \/ Resume(c) \/ Reply(c) \/ RequestTimeout(c)

Next ==
    \/ SocketStep
    \/ LoopStep
    \/ StopCalled
    \/ \E c \in Caller : CallStep(c)

Spec == Init /\ [][Next]_vars

DialEnds == ws = "dialing" /\ (WsOpens \/ Drops)

(* Continuations run.  Timers fire, a websocket being dialled opens or fails *)
(* (handshakeTimeout) and a closing one reports its close: strongly fair,   *)
(* because continuations hold events up, but never for ever.  The gateway   *)
(* owes nothing.                                                            *)
Fairness ==
    /\ WF_vars(LoopStep)
    /\ SF_vars(DialEnds) /\ SF_vars(Closed)
    /\ SF_vars(SendTimerFires) /\ SF_vars(ConnectFails) /\ SF_vars(StaleConnectTimeout)
    /\ SF_vars(ReadyTimeout) /\ SF_vars(ReconnectFires) /\ SF_vars(LoopWakes)
    /\ \A c \in Caller : WF_vars(Resume(c)) /\ SF_vars(RequestTimeout(c))

FairSpec == Spec /\ Fairness

-----------------------------------------------------------------------------
(* Until main stops it, the client calls itself ready only while it has the *)
(* socket the handshake was made on: isReady() and every request rely on    *)
(* it, and four handlers and three timers clear the two fields separately.  *)
ReadyHasSocket == hello /\ ~shutdown => ws \in {"open", "closing"}

(* The last state given to onConnectionStateChange is the truth: chat runs, *)
(* the lifecycle relay and the status report to the backend follow it.      *)
EmittedTruly == ~shutdown => (emitted = "up" <=> hello)

(* After a first connection a client without a socket has its next attempt  *)
(* scheduled, whichever of the two ways the socket was lost (README: "keeps *)
(* retrying with backoff").  A start loop that gave up has stopped the      *)
(* client, and only a call starts it again.                                 *)
ReconnectScheduled ==
    connectedOnce /\ ws = "none" /\ ~stopped /\ ~shutdown => reconnectTimer

(* The start loop waits only for an attempt that is under way: a socket     *)
(* whose handshake, timeout or close settles the promise it waits for.      *)
LoopAwaitsAttempt ==
    loop = "waiting" /\ ~shutdown => readyPromise = "pending" /\ ws # "none" /\ ~hello

(* A call returns, with a result or an error, whatever the gateway does.    *)
CallsReturn ==
    \A c \in Caller : pc[c] # "idle" ~> (pc[c] = "idle" \/ shutdown)

(* The same but for the one hang there is: a start loop whose promise was   *)
(* dropped by a second caller.  Everything that waits for a live promise,   *)
(* loop or request timer returns.                                           *)
CallsReturnUnlessOrphaned ==
    \A c \in Caller : pc[c] # "idle" ~> (pc[c] = "idle" \/ shutdown \/ loop = "orphaned")

(* README: the relay "closes the gateway socket only after missing ticks":  *)
(* a ready connection ends because its socket was closed, by the gateway or *)
(* by the watchdog, or because the client is stopped.                       *)
ClosedOnlyForMissedTicks ==
    [][hello /\ ~hello' => ws = "closing" \/ stopped']_vars
=============================================================================
