------------------------- MODULE GatewayClientProofs -------------------------
(***************************************************************************)
(* The safety of the gateway client, for any callers, any number of start  *)
(* attempts and any bound on forgotten connect requests.                   *)
(***************************************************************************)
EXTENDS GatewayClient, TLAPS

(* What the four safety invariants need besides to be inductive: the loop   *)
(* is told of a failure only when the client is not ready, and a stopped    *)
(* client has no loop until a caller starts it again.                       *)
RejectedNotReady == loop = "rejected" => ~hello
StoppedHasNoLoop == stopped /\ ~shutdown => loop = "none"

SafetyInv ==
    /\ ReadyHasSocket
    /\ EmittedTruly
    /\ ReconnectScheduled
    /\ LoopAwaitsAttempt
    /\ RejectedNotReady
    /\ StoppedHasNoLoop

(* The parts of TypeOK, each small enough for one leaf.                     *)
SocketTypes ==
    /\ ws \in {"none", "dialing", "open", "closing"}
    /\ hello \in BOOLEAN /\ connectSent \in BOOLEAN /\ myConnect \in BOOLEAN
TimerTypes ==
    /\ sendTimer \in BOOLEAN /\ readyTimer \in BOOLEAN
    /\ reconnectTimer \in BOOLEAN /\ watch \in BOOLEAN
LifeTypes ==
    /\ stopped \in BOOLEAN /\ connectedOnce \in BOOLEAN /\ shutdown \in BOOLEAN
    /\ emitted \in {"unknown", "up", "down"}
PromiseTypes ==
    /\ readyPromise \in {"none", "pending", "resolved"}
    /\ loop \in {"none", "waiting", "resolved", "rejected", "sleeping", "orphaned"}
Place == {"idle", "joined", "waiting", "resumed", "orphaned", "sent", "lost"}

(* The counters: a loop that sleeps has an attempt left.                    *)
CounterInv ==
    /\ stale \in 0..MaxStale
    /\ attempt \in 0..MaxAttempts
    /\ loop = "sleeping" => attempt < MaxAttempts

TypeInv == SocketTypes /\ TimerTypes /\ LifeTypes /\ PromiseTypes /\ CounterInv /\ pc \in [Caller -> Place]

(* One step keeps the types and the counters.                               *)
LEMMA StepTypes ==
    ASSUME TypeInv, [Next]_vars
    PROVE  TypeInv'
<1> USE GatewayAssumption
    DEF TypeInv, socketVars, timerVars, lifeVars, waitVars
<1>1. CASE UNCHANGED vars
  <2>1. SocketTypes' /\ TimerTypes'
    BY <1>1 DEF vars, SocketTypes, TimerTypes
  <2>2. LifeTypes' /\ PromiseTypes'
    BY <1>1 DEF vars, LifeTypes, PromiseTypes
  <2>3. CounterInv' /\ pc' \in [Caller -> Place]
    BY <1>1 DEF vars, CounterInv
  <2> QED
    BY <2>1, <2>2, <2>3
<1>2. CASE WsOpens
  <2>1. SocketTypes'
    BY <1>2 DEF WsOpens, SocketTypes
  <2>2. TimerTypes' /\ LifeTypes'
    BY <1>2 DEF WsOpens, TimerTypes, LifeTypes
  <2>3. PromiseTypes'
    BY <1>2 DEF WsOpens, PromiseTypes
  <2>4. CounterInv'
    BY <1>2 DEF WsOpens, CounterInv
  <2>5. pc' \in [Caller -> Place]
    BY <1>2 DEF WsOpens, Place
  <2> QED
    BY <2>1, <2>2, <2>3, <2>4, <2>5
<1>3. CASE Drops
  <2>1. SocketTypes'
    BY <1>3 DEF Drops, SocketTypes
  <2>2. TimerTypes' /\ LifeTypes'
    BY <1>3 DEF Drops, TimerTypes, LifeTypes
  <2>3. PromiseTypes'
    BY <1>3 DEF Drops, PromiseTypes
  <2>4. CounterInv'
    BY <1>3 DEF Drops, CounterInv
  <2>5. pc' \in [Caller -> Place]
    BY <1>3 DEF Drops, Place
  <2> QED
    BY <2>1, <2>2, <2>3, <2>4, <2>5
<1>4. CASE Closed
  <2>1. SocketTypes'
    BY <1>4 DEF Closed, SocketTypes
  <2>2. TimerTypes' /\ LifeTypes'
    BY <1>4 DEF Closed, TimerTypes, LifeTypes
  <2>3. PromiseTypes'
    BY <1>4 DEF Closed, PromiseTypes
  <2>4. CounterInv'
    BY <1>4 DEF Closed, CounterInv
  <2>5. pc' \in [Caller -> Place]
    BY <1>4 DEF Closed, Place
  <2> QED
    BY <2>1, <2>2, <2>3, <2>4, <2>5
<1>5. CASE SendTimerFires
  <2>1. SocketTypes'
    BY <1>5 DEF SendTimerFires, SendConnect, SocketTypes
  <2>2. TimerTypes' /\ LifeTypes'
    BY <1>5 DEF SendTimerFires, SendConnect, TimerTypes, LifeTypes
  <2>3. PromiseTypes'
    BY <1>5 DEF SendTimerFires, SendConnect, PromiseTypes
  <2>4. CounterInv'
    BY <1>5 DEF SendTimerFires, SendConnect, CounterInv
  <2>5. pc' \in [Caller -> Place]
    BY <1>5 DEF SendTimerFires, SendConnect, Place
  <2> QED
    BY <2>1, <2>2, <2>3, <2>4, <2>5
<1>6. CASE Challenge
  <2>1. SocketTypes'
    BY <1>6 DEF Challenge, SocketTypes
  <2>2. TimerTypes' /\ LifeTypes'
    BY <1>6 DEF Challenge, TimerTypes, LifeTypes
  <2>3. PromiseTypes'
    BY <1>6 DEF Challenge, PromiseTypes
  <2>4. CounterInv'
    BY <1>6 DEF Challenge, CounterInv
  <2>5. pc' \in [Caller -> Place]
    BY <1>6 DEF Challenge, Place
  <2> QED
    BY <2>1, <2>2, <2>3, <2>4, <2>5
<1>7. CASE ConnectAccepted
  <2>1. SocketTypes'
    BY <1>7 DEF ConnectAccepted, Settled, Quiet, SocketTypes
  <2>2. TimerTypes' /\ LifeTypes'
    BY <1>7 DEF ConnectAccepted, Settled, Quiet, TimerTypes, LifeTypes
  <2>3. PromiseTypes'
    BY <1>7 DEF ConnectAccepted, Settled, Quiet, PromiseTypes
  <2>4. CounterInv'
    BY <1>7 DEF ConnectAccepted, Settled, Quiet, CounterInv
  <2>5. pc' \in [Caller -> Place]
    BY <1>7 DEF ConnectAccepted, Settled, Quiet, Place
  <2> QED
    BY <2>1, <2>2, <2>3, <2>4, <2>5
<1>8. CASE ConnectFails
  <2>1. SocketTypes'
    BY <1>8 DEF ConnectFails, OnConnectError, SocketTypes
  <2>2. TimerTypes' /\ LifeTypes'
    BY <1>8 DEF ConnectFails, OnConnectError, TimerTypes, LifeTypes
  <2>3. PromiseTypes'
    BY <1>8 DEF ConnectFails, OnConnectError, PromiseTypes
  <2>4. CounterInv'
    BY <1>8 DEF ConnectFails, OnConnectError, CounterInv
  <2>5. pc' \in [Caller -> Place]
    BY <1>8 DEF ConnectFails, OnConnectError, Place
  <2> QED
    BY <2>1, <2>2, <2>3, <2>4, <2>5
<1>9. CASE StaleConnectTimeout
  <2>1. SocketTypes'
    BY <1>9 DEF StaleConnectTimeout, OnConnectError, Abandoned, Least, SocketTypes
  <2>2. TimerTypes' /\ LifeTypes'
    BY <1>9 DEF StaleConnectTimeout, OnConnectError, Abandoned, Least, TimerTypes, LifeTypes
  <2>3. PromiseTypes'
    BY <1>9 DEF StaleConnectTimeout, OnConnectError, Abandoned, Least, PromiseTypes
  <2>4. CounterInv'
    BY <1>9 DEF StaleConnectTimeout, OnConnectError, Abandoned, Least, CounterInv
  <2>5. pc' \in [Caller -> Place]
    BY <1>9 DEF StaleConnectTimeout, OnConnectError, Abandoned, Least, Place
  <2> QED
    BY <2>1, <2>2, <2>3, <2>4, <2>5
<1>10. CASE ReadyTimeout
  <2>1. SocketTypes'
    BY <1>10 DEF ReadyTimeout, OnConnectError, Abandoned, Least, SocketTypes
  <2>2. TimerTypes' /\ LifeTypes'
    BY <1>10 DEF ReadyTimeout, OnConnectError, Abandoned, Least, TimerTypes, LifeTypes
  <2>3. PromiseTypes'
    BY <1>10 DEF ReadyTimeout, OnConnectError, Abandoned, Least, PromiseTypes
  <2>4. CounterInv'
    BY <1>10 DEF ReadyTimeout, OnConnectError, Abandoned, Least, CounterInv
  <2>5. pc' \in [Caller -> Place]
    BY <1>10 DEF ReadyTimeout, OnConnectError, Abandoned, Least, Place
  <2> QED
    BY <2>1, <2>2, <2>3, <2>4, <2>5
<1>11. CASE ReconnectFires
  <2>1. SocketTypes'
    BY <1>11 DEF ReconnectFires, Open, SocketTypes
  <2>2. TimerTypes' /\ LifeTypes'
    BY <1>11 DEF ReconnectFires, Open, TimerTypes, LifeTypes
  <2>3. PromiseTypes'
    BY <1>11 DEF ReconnectFires, Open, PromiseTypes
  <2>4. CounterInv'
    BY <1>11 DEF ReconnectFires, Open, CounterInv
  <2>5. pc' \in [Caller -> Place]
    BY <1>11 DEF ReconnectFires, Open, Place
  <2> QED
    BY <2>1, <2>2, <2>3, <2>4, <2>5
<1>12. CASE Watchdog
  <2>1. SocketTypes'
    BY <1>12 DEF Watchdog, SocketTypes
  <2>2. TimerTypes' /\ LifeTypes'
    BY <1>12 DEF Watchdog, TimerTypes, LifeTypes
  <2>3. PromiseTypes'
    BY <1>12 DEF Watchdog, PromiseTypes
  <2>4. CounterInv'
    BY <1>12 DEF Watchdog, CounterInv
  <2>5. pc' \in [Caller -> Place]
    BY <1>12 DEF Watchdog, Place
  <2> QED
    BY <2>1, <2>2, <2>3, <2>4, <2>5
<1>13. CASE LoopResolves
  <2>1. SocketTypes'
    BY <1>13 DEF LoopResolves, SocketTypes
  <2>2. TimerTypes' /\ LifeTypes'
    BY <1>13 DEF LoopResolves, TimerTypes, LifeTypes
  <2>3. PromiseTypes'
    BY <1>13 DEF LoopResolves, PromiseTypes
  <2>4. CounterInv'
    BY <1>13 DEF LoopResolves, CounterInv
  <2>5. pc' \in [Caller -> Place]
    BY <1>13 DEF LoopResolves, Place
  <2> QED
    BY <2>1, <2>2, <2>3, <2>4, <2>5
<1>14. CASE LoopRetries
  <2>1. SocketTypes'
    BY <1>14 DEF LoopRetries, SocketTypes
  <2>2. TimerTypes' /\ LifeTypes'
    BY <1>14 DEF LoopRetries, TimerTypes, LifeTypes
  <2>3. PromiseTypes'
    BY <1>14 DEF LoopRetries, PromiseTypes
  <2>4. CounterInv'
    BY <1>14 DEF LoopRetries, CounterInv
  <2>5. pc' \in [Caller -> Place]
    BY <1>14 DEF LoopRetries, Place
  <2> QED
    BY <2>1, <2>2, <2>3, <2>4, <2>5
<1>15. CASE LoopGivesUp
  <2>1. SocketTypes'
    BY <1>15 DEF LoopGivesUp, Stop, SocketTypes
  <2>2. TimerTypes' /\ LifeTypes'
    BY <1>15 DEF LoopGivesUp, Stop, TimerTypes, LifeTypes
  <2>3. PromiseTypes'
    BY <1>15 DEF LoopGivesUp, Stop, PromiseTypes
  <2>4. CounterInv'
    BY <1>15 DEF LoopGivesUp, Stop, CounterInv
  <2>5. pc' \in [Caller -> Place]
    BY <1>15 DEF LoopGivesUp, Stop, Place
  <2> QED
    BY <2>1, <2>2, <2>3, <2>4, <2>5
<1>16. CASE LoopWakes
  <2>1. SocketTypes'
    BY <1>16 DEF LoopWakes, StartOnce, Open, SocketTypes
  <2>2. TimerTypes' /\ LifeTypes'
    BY <1>16 DEF LoopWakes, StartOnce, Open, TimerTypes, LifeTypes
  <2>3. PromiseTypes'
    BY <1>16 DEF LoopWakes, StartOnce, Open, PromiseTypes
  <2>4. CounterInv'
    BY <1>16 DEF LoopWakes, StartOnce, Open, CounterInv
  <2>5. pc' \in [Caller -> Place]
    BY <1>16 DEF LoopWakes, StartOnce, Open, Place
  <2> QED
    BY <2>1, <2>2, <2>3, <2>4, <2>5
<1>17. CASE StopCalled
  <2>1. SocketTypes'
    BY <1>17 DEF StopCalled, Stop, SocketTypes
  <2>2. TimerTypes' /\ LifeTypes'
    BY <1>17 DEF StopCalled, Stop, TimerTypes, LifeTypes
  <2>3. PromiseTypes'
    BY <1>17 DEF StopCalled, Stop, PromiseTypes
  <2>4. CounterInv'
    BY <1>17 DEF StopCalled, Stop, CounterInv
  <2>5. pc' \in [Caller -> Place]
    BY <1>17 DEF StopCalled, Stop, Place
  <2> QED
    BY <2>1, <2>2, <2>3, <2>4, <2>5
<1>18. ASSUME NEW c \in Caller, CallStart(c) PROVE TypeInv'
  <2>1. SocketTypes'
    BY <1>18 DEF CallStart, Start, StartOnce, Open, SocketTypes
  <2>2. TimerTypes' /\ LifeTypes'
    BY <1>18 DEF CallStart, Start, StartOnce, Open, TimerTypes, LifeTypes
  <2>3. PromiseTypes'
    BY <1>18 DEF CallStart, Start, StartOnce, Open, PromiseTypes
  <2>4. CounterInv'
    BY <1>18 DEF CallStart, Start, StartOnce, Open, CounterInv
  <2>5. pc' \in [Caller -> Place]
    BY <1>18 DEF CallStart, Start, StartOnce, Open, Place
  <2> QED
    BY <2>1, <2>2, <2>3, <2>4, <2>5
<1>19. ASSUME NEW c \in Caller, CallRequest(c) PROVE TypeInv'
  <2>1. SocketTypes'
    BY <1>19 DEF CallRequest, Send, Start, StartOnce, Open, SocketTypes
  <2>2. TimerTypes' /\ LifeTypes'
    BY <1>19 DEF CallRequest, Send, Start, StartOnce, Open, TimerTypes, LifeTypes
  <2>3. PromiseTypes'
    BY <1>19 DEF CallRequest, Send, Start, StartOnce, Open, PromiseTypes
  <2>4. CounterInv'
    BY <1>19 DEF CallRequest, Send, Start, StartOnce, Open, CounterInv
  <2>5. pc' \in [Caller -> Place]
    BY <1>19 DEF CallRequest, Send, Start, StartOnce, Open, Place
  <2> QED
    BY <2>1, <2>2, <2>3, <2>4, <2>5
<1>20. ASSUME NEW c \in Caller, Resume(c) PROVE TypeInv'
  <2>1. SocketTypes'
    BY <1>20 DEF Resume, Send, Start, StartOnce, Open, Settled, SocketTypes
  <2>2. TimerTypes' /\ LifeTypes'
    BY <1>20 DEF Resume, Send, Start, StartOnce, Open, Settled, TimerTypes, LifeTypes
  <2>3. PromiseTypes'
    BY <1>20 DEF Resume, Send, Start, StartOnce, Open, Settled, PromiseTypes
  <2>4. CounterInv'
    BY <1>20 DEF Resume, Send, Start, StartOnce, Open, Settled, CounterInv
  <2>5. pc' \in [Caller -> Place]
    BY <1>20 DEF Resume, Send, Start, StartOnce, Open, Settled, Place
  <2> QED
    BY <2>1, <2>2, <2>3, <2>4, <2>5
<1>21. ASSUME NEW c \in Caller, Reply(c) PROVE TypeInv'
  <2>1. SocketTypes'
    BY <1>21 DEF Reply, SocketTypes
  <2>2. TimerTypes' /\ LifeTypes'
    BY <1>21 DEF Reply, TimerTypes, LifeTypes
  <2>3. PromiseTypes'
    BY <1>21 DEF Reply, PromiseTypes
  <2>4. CounterInv'
    BY <1>21 DEF Reply, CounterInv
  <2>5. pc' \in [Caller -> Place]
    BY <1>21 DEF Reply, Place
  <2> QED
    BY <2>1, <2>2, <2>3, <2>4, <2>5
<1>22. ASSUME NEW c \in Caller, RequestTimeout(c) PROVE TypeInv'
  <2>1. SocketTypes'
    BY <1>22 DEF RequestTimeout, SocketTypes
  <2>2. TimerTypes' /\ LifeTypes'
    BY <1>22 DEF RequestTimeout, TimerTypes, LifeTypes
  <2>3. PromiseTypes'
    BY <1>22 DEF RequestTimeout, PromiseTypes
  <2>4. CounterInv'
    BY <1>22 DEF RequestTimeout, CounterInv
  <2>5. pc' \in [Caller -> Place]
    BY <1>22 DEF RequestTimeout, Place
  <2> QED
    BY <2>1, <2>2, <2>3, <2>4, <2>5
<1> QED
  BY <1>1, <1>2, <1>3, <1>4, <1>5, <1>6, <1>7, <1>8, <1>9, <1>10, <1>11, <1>12, <1>13, <1>14, <1>15, <1>16, <1>17, <1>18, <1>19, <1>20, <1>21, <1>22
  DEF Next, SocketStep, LoopStep, CallStep

(* One step keeps the safety invariant.  StartOnce is the only operation    *)
(* whose outcome depends on which states a promise can have.                *)
LEMMA StepSafety ==
    ASSUME PromiseTypes, SafetyInv, [Next]_vars
    PROVE  SafetyInv'
<1> USE DEF SafetyInv, ReadyHasSocket, EmittedTruly, ReconnectScheduled, LoopAwaitsAttempt,
            RejectedNotReady, StoppedHasNoLoop, socketVars, timerVars, lifeVars, waitVars
<1>1. CASE UNCHANGED vars
  BY <1>1 DEF vars
<1>2. CASE WsOpens
  BY <1>2 DEF WsOpens
<1>3. CASE Drops
  BY <1>3 DEF Drops
<1>4. CASE Closed
  BY <1>4 DEF Closed
<1>5. CASE SendTimerFires
  BY <1>5 DEF SendTimerFires, SendConnect
<1>6. CASE Challenge
  BY <1>6 DEF Challenge
<1>7. CASE ConnectAccepted
  BY <1>7 DEF ConnectAccepted, Settled, Quiet
<1>8. CASE ConnectFails
  BY <1>8 DEF ConnectFails, OnConnectError
<1>9. CASE StaleConnectTimeout
  BY <1>9 DEF StaleConnectTimeout, OnConnectError, Abandoned, Least
<1>10. CASE ReadyTimeout
  BY <1>10 DEF ReadyTimeout, OnConnectError, Abandoned, Least
<1>11. CASE ReconnectFires
  BY <1>11 DEF ReconnectFires, Open
<1>12. CASE Watchdog
  BY <1>12 DEF Watchdog
<1>13. CASE LoopResolves
  BY <1>13 DEF LoopResolves
<1>14. CASE LoopRetries
  BY <1>14 DEF LoopRetries
<1>15. CASE LoopGivesUp
  BY <1>15 DEF LoopGivesUp, Stop
<1>16. CASE LoopWakes
  <2>1. LoopAwaitsAttempt'
    BY <1>16 DEF LoopWakes, StartOnce, Open, PromiseTypes
  <2>2. ReadyHasSocket' /\ EmittedTruly' /\ ReconnectScheduled'
    BY <1>16 DEF LoopWakes, StartOnce, Open
  <2>3. RejectedNotReady' /\ StoppedHasNoLoop'
    BY <1>16 DEF LoopWakes, StartOnce, Open
  <2> QED
    BY <2>1, <2>2, <2>3
<1>17. CASE StopCalled
  BY <1>17 DEF StopCalled, Stop
<1>18. ASSUME NEW c \in Caller, CallStart(c) PROVE SafetyInv'
  <2>1. LoopAwaitsAttempt'
    BY <1>18 DEF CallStart, Start, StartOnce, Open, PromiseTypes
  <2>2. ReadyHasSocket' /\ EmittedTruly' /\ ReconnectScheduled'
    BY <1>18 DEF CallStart, Start, StartOnce, Open
  <2>3. RejectedNotReady' /\ StoppedHasNoLoop'
    BY <1>18 DEF CallStart, Start, StartOnce, Open
  <2> QED
    BY <2>1, <2>2, <2>3
<1>19. ASSUME NEW c \in Caller, CallRequest(c) PROVE SafetyInv'
  BY <1>19 DEF CallRequest, Send, Start, StartOnce, Open
<1>20. ASSUME NEW c \in Caller, Resume(c) PROVE SafetyInv'
  BY <1>20 DEF Resume, Send, Start, StartOnce, Open, Settled
<1>21. ASSUME NEW c \in Caller, Reply(c) PROVE SafetyInv'
  BY <1>21 DEF Reply
<1>22. ASSUME NEW c \in Caller, RequestTimeout(c) PROVE SafetyInv'
  BY <1>22 DEF RequestTimeout
<1> QED
  BY <1>1, <1>2, <1>3, <1>4, <1>5, <1>6, <1>7, <1>8, <1>9, <1>10, <1>11, <1>12, <1>13, <1>14, <1>15, <1>16, <1>17, <1>18, <1>19, <1>20, <1>21, <1>22
  DEF Next, SocketStep, LoopStep, CallStep

LEMMA InitTypes == Init => TypeInv
<1> SUFFICES ASSUME Init PROVE TypeInv
  OBVIOUS
<1>1. SocketTypes /\ TimerTypes
  BY DEF Init, SocketTypes, TimerTypes
<1>2. LifeTypes /\ PromiseTypes
  BY DEF Init, LifeTypes, PromiseTypes
<1>3. CounterInv /\ pc \in [Caller -> Place]
  BY GatewayAssumption DEF Init, CounterInv, Place
<1> QED
  BY <1>1, <1>2, <1>3 DEF TypeInv

LEMMA InitSafety == Init => SafetyInv
  BY DEF Init, SafetyInv, ReadyHasSocket, EmittedTruly, ReconnectScheduled, LoopAwaitsAttempt,
         RejectedNotReady, StoppedHasNoLoop

(* Every field has its type; in particular runStartLoop() never makes more  *)
(* than startupMaxAttempts attempts, however calls, timers and closes mix.  *)
THEOREM GatewayTypes == Spec => []TypeOK
<1>1. TypeInv => TypeOK
  BY DEF TypeInv, SocketTypes, TimerTypes, LifeTypes, PromiseTypes, CounterInv, Place, TypeOK
<1>2. TypeInv /\ [Next]_vars => TypeInv'
  BY StepTypes
<1> QED
  BY <1>1, <1>2, InitTypes, PTL DEF Spec

LEMMA AlwaysSafe == Spec => []SafetyInv
<1>1. TypeInv => PromiseTypes
  BY DEF TypeInv
<1>2. TypeInv /\ [Next]_vars => TypeInv'
  BY StepTypes
<1>3. PromiseTypes /\ SafetyInv /\ [Next]_vars => SafetyInv'
  BY StepSafety
<1> QED
  BY <1>1, <1>2, <1>3, InitTypes, InitSafety, PTL DEF Spec

(* A ready client has the socket its handshake was made on, through every   *)
(* close, timeout and restart (isReady, onConnectError, the close handler). *)
THEOREM ReadyIsConnected == Spec => []ReadyHasSocket
<1>1. SafetyInv => ReadyHasSocket
  BY DEF SafetyInv
<1> QED
  BY <1>1, AlwaysSafe, PTL

(* What emitConnectionState() reported last is how things are.              *)
THEOREM ReportsAreTrue == Spec => []EmittedTruly
<1>1. SafetyInv => EmittedTruly
  BY DEF SafetyInv
<1> QED
  BY <1>1, AlwaysSafe, PTL

(* A client that has been connected, is not stopped and has no socket has   *)
(* its reconnect timer set (scheduleReconnect).                             *)
THEOREM NeverLeftUnscheduled == Spec => []ReconnectScheduled
<1>1. SafetyInv => ReconnectScheduled
  BY DEF SafetyInv
<1> QED
  BY <1>1, AlwaysSafe, PTL

(* The start loop waits only for a promise that an attempt under way will   *)
(* settle (startOnce, runStartLoop).                                        *)
THEOREM LoopIsServed == Spec => []LoopAwaitsAttempt
<1>1. SafetyInv => LoopAwaitsAttempt
  BY DEF SafetyInv
<1> QED
  BY <1>1, AlwaysSafe, PTL
=============================================================================
