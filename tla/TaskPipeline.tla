---------------------------- MODULE TaskPipeline ----------------------------
(***************************************************************************)
(* The life of a pushed message inside the relay: the push ingress with    *)
(* its preemption of older work (src/index.ts), the task queue             *)
(* (src/queue/inMemoryTaskQueue.ts), the chat batches, the task control    *)
(* registry and processSingleMessage with its phases (src/processor/       *)
(* messageProcessor.ts), the durable record of an in-flight chat task      *)
(* (src/processor/inFlightTaskStore.ts), and the reconciliation of those   *)
(* records when the process starts again.                                  *)
(*                                                                         *)
(* A Delivery is one push request; two deliveries of one Message carry the *)
(* same backend messageId (the backend repeats a push whose answer it did  *)
(* not see).  stage[d] says where delivery d stands; a step of the model   *)
(* is the code between two awaits.  What the agent does, how long a call   *)
(* takes and whether the backend's answer arrives are left open.           *)
(***************************************************************************)
EXTENDS Integers, FiniteSets, Sequences

CONSTANTS Delivery, Message, Session,
          MessageOf,      \* [Delivery -> Message]
          SessionOf,      \* [Message -> Session]
          KindOf,         \* [Message -> Kind]
          Concurrency, MaxQueue,
          Batching,       \* chatBatchDebounceMs > 0
          None,           \* no delivery
          MaxFaults,      \* bound: calls that fail or whose answer is lost
          MaxCrashes      \* bound: crashes from outside

(* classifyRelayTask; "other" is a handshake, a session_new or a transport   *)
(* event.                                                                   *)
Kind == {"user_chat", "system_reminder", "status_nudge", "other"}
Outcome == {"reply", "no_reply", "error"}

ASSUME PipelineAssumption ==
    /\ IsFiniteSet(Delivery)
    /\ MessageOf \in [Delivery -> Message]
    /\ SessionOf \in [Message -> Session]
    /\ KindOf \in [Message -> Kind]
    /\ Concurrency \in Nat \ {0}
    /\ MaxQueue \in Nat \ {0}
    /\ Batching \in BOOLEAN
    /\ None \notin Delivery
    /\ MaxFaults \in Nat
    /\ MaxCrashes \in Nat

VARIABLES
    stage,       \* [Delivery -> Stage]
    before,      \* <<d, e>>: d was pushed before e
    inFlight,    \* the queue's counter of processors in flight
    accepting,   \* the queue takes new items
    mergedInto,  \* [Delivery -> Delivery \cup {None}]: the batch target of d
    control,     \* RelayTaskControl: the delivery registered for a message
    tracked,     \* messages with a live transport correlation
    record,      \* the durable record of a message: whose relayMessageId
    written,     \* deliveries whose record was written (history)
    outcomes,    \* [Delivery -> Seq(Outcome)]: what the backend received
    doubt,       \* deliveries the relay may answer twice (history)
    aborted,     \* deliveries preempted, aborted or timed out (history)
    up,          \* the process is alive
    drain,       \* "off", "polling", "empty"
    todo,        \* records the start-up reconciliation has still to work off
    clearing,    \* the delivery it has answered and whose record it removes
    faults, crashes

vars == <<stage, before, inFlight, accepting, mergedInto, control,
          tracked, record, written, outcomes, doubt, aborted, up, drain, todo,
          clearing, faults, crashes>>

-----------------------------------------------------------------------------
(* Stages.  "batching" .. "removing" hold a slot of the queue; "running" .. *)
(* "closing" lie between taskControl.register and its unregister.           *)
Registered == {"running", "aborting", "delivering", "replying", "reporting",
               "closing"}
HoldsSlot == Registered \cup {"batching", "merged", "flushing", "starting",
                              "recorded", "failing", "removing"}
Settled == {"unsent", "refused", "released", "lost"}
Stage == HoldsSlot \cup Settled \cup {"queued", "dropping"}

Kd(d) == KindOf[MessageOf[d]]
Sn(d) == SessionOf[MessageOf[d]]
IsChat(d) == Kd(d) # "other"
IsUserChat(d) == Kd(d) = "user_chat"
IsSystem(d) == Kd(d) \in {"system_reminder", "status_nudge"}

At(s) == {d \in Delivery : stage[d] = s}
Holding == {d \in Delivery : stage[d] \in HoldsSlot}
Earlier(d, e) == <<d, e>> \in before
Oldest(S) == {d \in S : \A e \in S \ {d} : Earlier(d, e)}
Latest(S) == {d \in S : \A e \in S \ {d} : Earlier(e, d)}
Least(a, b) == IF a <= b THEN a ELSE b

TypeOK ==
    /\ stage \in [Delivery -> Stage]
    /\ before \subseteq Delivery \X Delivery
    /\ inFlight \in Nat
    /\ accepting \in BOOLEAN /\ up \in BOOLEAN
    /\ mergedInto \in [Delivery -> Delivery \cup {None}]
    /\ control \in [Message -> Delivery \cup {None}]
    /\ tracked \subseteq Message
    /\ record \in [Message -> Delivery \cup {None}]
    /\ written \subseteq Delivery
    /\ outcomes \in [Delivery -> Seq(Outcome)]
    /\ doubt \subseteq Delivery /\ aborted \subseteq Delivery
    /\ drain \in {"off", "polling", "empty"}
    /\ todo \subseteq Delivery
    /\ clearing \in Delivery \cup {None}
    /\ faults \in 0..MaxFaults /\ crashes \in 0..MaxCrashes

Init ==
    /\ stage = [d \in Delivery |-> "unsent"]
    /\ before = {}
    /\ inFlight = 0
    /\ accepting = TRUE /\ up = TRUE
    /\ mergedInto = [d \in Delivery |-> None]
    /\ control = [m \in Message |-> None]
    /\ tracked = {}
    /\ record = [m \in Message |-> None]
    /\ written = {}
    /\ outcomes = [d \in Delivery |-> <<>>]
    /\ doubt = {} /\ aborted = {}
    /\ drain = "off"
    /\ todo = {} /\ clearing = None
    /\ faults = 0 /\ crashes = 0

-----------------------------------------------------------------------------
(* Variable groups, for UNCHANGED. *)
historyVars == <<doubt, aborted>>
lifeVars == <<accepting, up, drain, todo, clearing, crashes>>
runVars == <<mergedInto, control, tracked>>
diskVars == <<record, written>>

(* pump(): the oldest waiting items take the free slots.  st and B are the  *)
(* stages and the order after the caller's own change, n the counter.       *)
(* createMessageProcessor sends a user chat to its session's batch and      *)
(* everything else straight to processSingleMessage.                        *)
Entry(d) == IF Batching /\ IsUserChat(d) THEN "batching" ELSE "starting"

Pump(st, B, n) ==
    LET W == {d \in Delivery : st[d] = "queued"} IN
    \E started \in SUBSET W :
        /\ Cardinality(started) = Least(Concurrency - n, Cardinality(W))
        /\ \A d \in started, e \in W \ started : <<d, e>> \in B
        /\ stage' = [d \in Delivery |-> IF d \in started THEN Entry(d) ELSE st[d]]
        /\ inFlight' = n + Cardinality(started)

(* Mutants stand before the definition they vary; no run uses them as they  *)
(* are.  The slot given back without a pump().                              *)
ReleaseWithoutPump(d) ==
    /\ stage' = [stage EXCEPT ![d] = "released"]
    /\ inFlight' = inFlight - 1

(* The processor of d settles: its slot goes to the next waiting item. *)
Release(d) ==
    Pump([stage EXCEPT ![d] = "released"], before,
         IF inFlight = 0 THEN 0 ELSE inFlight - 1)

Go(d, s) == stage' = [stage EXCEPT ![d] = s] /\ UNCHANGED inFlight

Receives(d, o) == outcomes' = [outcomes EXCEPT ![d] = Append(@, o)]

Fault == faults < MaxFaults /\ faults' = faults + 1

(* Mutant: the tracker is not cleared. *)
LeaveRunTracked(d) ==
    /\ control' = IF control[MessageOf[d]] = d
                  THEN [control EXCEPT ![MessageOf[d]] = None] ELSE control
    /\ UNCHANGED tracked

(* The finally block around the run: tracker.clear and unregister; the      *)
(* latter keeps an entry that a second delivery has replaced.               *)
LeaveRun(d) ==
    /\ tracked' = tracked \ {MessageOf[d]}
    /\ control' = IF control[MessageOf[d]] = d
                  THEN [control EXCEPT ![MessageOf[d]] = None] ELSE control

-----------------------------------------------------------------------------
(* Push ingress: index.ts onMessage, one synchronous run. *)

(* Mutant: older user chats of the session stay queued. *)
DroppedReminders(d) == {e \in At("queued") : Sn(e) = Sn(d) /\ IsSystem(e)}

(* preemptSessionForUserOwnedTurn, run for a pushed user chat d before the  *)
(* queue has been asked for room: queued reminders and user chats of the    *)
(* session are removed and answered in the background, and every registered *)
(* task of the session is aborted, which counts while it is still racing.   *)
Dropped(d) ==
    {e \in At("queued") : /\ Sn(e) = Sn(d) /\ IsChat(e)
                          /\ MessageOf[e] # MessageOf[d]}
Preempted(d) ==
    {e \in At("running") : Sn(e) = Sn(d) /\ control[MessageOf[e]] = e}

Preempt(d) ==
    [e \in Delivery |-> IF e \in Dropped(d) THEN "dropping"
                        ELSE IF e \in Preempted(d) THEN "aborting"
                        ELSE stage[e]]

AfterPreemption(d) == IF IsUserChat(d) THEN Preempt(d) ELSE stage

HasRoom(st) == Cardinality({e \in Delivery : st[e] = "queued"}) < MaxQueue

Push(d) ==
    LET st == AfterPreemption(d)
        B  == before \cup ({e \in Delivery : stage[e] # "unsent"} \X {d})
    IN
    /\ up /\ stage[d] = "unsent"
    /\ before' = B
    /\ aborted' = aborted \cup (IF IsUserChat(d) THEN Preempted(d) ELSE {})
    /\ IF accepting /\ HasRoom(st)
       THEN Pump([st EXCEPT ![d] = "queued"], B, inFlight)
       ELSE stage' = [st EXCEPT ![d] = "refused"] /\ UNCHANGED inFlight
    /\ UNCHANGED <<runVars, diskVars, lifeVars, outcomes, doubt, faults>>

(* agent_control chat.abortTask: abortActiveChatTaskByBackendMessageId.     *)
AbortTask(m) ==
    LET d == control[m] IN
    /\ up /\ d # None
    /\ stage[d] = "running"
    /\ Go(d, "aborting")
    /\ aborted' = aborted \cup {d}
    /\ UNCHANGED <<before, runVars, diskVars, lifeVars, outcomes, doubt, faults>>

(* The fire-and-forget callback of a task removed from the queue.  Whatever *)
(* comes of it, the relay has no further memory of the task.                *)
DropOutcome(d) == IF IsSystem(d) THEN "no_reply" ELSE "error"

DropAnswered(d) ==
    /\ stage[d] = "dropping"
    /\ Go(d, "released")
    /\ Receives(d, DropOutcome(d))
    /\ UNCHANGED <<before, runVars, diskVars, lifeVars, historyVars, faults>>

DropFails(d) ==
    /\ stage[d] = "dropping"
    /\ Fault
    /\ Go(d, "released")
    /\ \/ UNCHANGED outcomes
       \/ Receives(d, DropOutcome(d))
    /\ UNCHANGED <<before, runVars, diskVars, lifeVars, historyVars>>

-----------------------------------------------------------------------------
(* Chat batches. *)

(* Mutants: the oldest item is the target; a batch of one is not flushed. *)
FlushIntoOldest(s) ==
    LET items == {d \in At("batching") : Sn(d) = s} IN
    \E t \in Oldest(items) :
        /\ stage' = [d \in Delivery |->
                        IF d \notin items THEN stage[d]
                        ELSE IF items = {t} THEN "starting"
                        ELSE IF d = t THEN "flushing" ELSE "merged"]
        /\ mergedInto' = [d \in Delivery |->
                            IF d \in items \ {t} THEN t ELSE mergedInto[d]]
        /\ UNCHANGED <<inFlight, before, control, tracked, diskVars,
                       lifeVars, outcomes, historyVars, faults>>

FlushOnlyMany(s) ==
    LET items == {d \in At("batching") : Sn(d) = s} IN
    \E t \in Latest(items) :
        /\ items # {t}
        /\ stage' = [d \in Delivery |->
                        IF d \notin items THEN stage[d]
                        ELSE IF d = t THEN "flushing" ELSE "merged"]
        /\ mergedInto' = [d \in Delivery |->
                            IF d \in items \ {t} THEN t ELSE mergedInto[d]]
        /\ UNCHANGED <<inFlight, before, control, tracked, diskVars,
                       lifeVars, outcomes, historyVars, faults>>

(* The debounce timer of a session's batch fires: the newest item becomes   *)
(* the target, the others are to be answered "batched" before it runs.      *)
FlushBatch(s) ==
    LET items == {d \in At("batching") : Sn(d) = s} IN
    \E t \in Latest(items) :
        /\ stage' = [d \in Delivery |->
                        IF d \notin items THEN stage[d]
                        ELSE IF items = {t} THEN "starting"
                        ELSE IF d = t THEN "flushing" ELSE "merged"]
        /\ mergedInto' = [d \in Delivery |->
                            IF d \in items \ {t} THEN t ELSE mergedInto[d]]
        /\ UNCHANGED <<inFlight, before, control, tracked, diskVars,
                       lifeVars, outcomes, historyVars, faults>>

MergedInto(t) == {d \in At("merged") : mergedInto[d] = t}

(* submitBatchedNoReply, one item at a time, oldest first. *)
MergedAnswered(d) ==
    /\ stage[d] = "merged" /\ d \in Oldest(MergedInto(mergedInto[d]))
    /\ Release(d)
    /\ Receives(d, "no_reply")
    /\ UNCHANGED <<before, runVars, diskVars, lifeVars, historyVars, faults>>

BatchReady(t) ==
    /\ stage[t] = "flushing" /\ MergedInto(t) = {}
    /\ Go(t, "starting")
    /\ UNCHANGED <<before, runVars, diskVars, lifeVars, outcomes, historyVars,
                   faults>>

-----------------------------------------------------------------------------
(* processSingleMessage. *)

(* handshake and session_new: gateway work, then the reply; no record, no   *)
(* registration.  A throw goes to the outer catch.                          *)
OtherWork(d) ==
    /\ stage[d] = "starting" /\ ~IsChat(d)
    /\ Go(d, "replying") \/ Go(d, "failing")
    /\ UNCHANGED <<before, runVars, diskVars, lifeVars, outcomes, historyVars,
                   faults>>

(* A transport event is only logged: the backend gets no outcome for it.    *)
EventDone(d) ==
    /\ stage[d] = "starting" /\ ~IsChat(d)
    /\ Release(d)
    /\ UNCHANGED <<before, runVars, diskVars, lifeVars, outcomes, historyVars,
                   faults>>

(* inFlightTaskStore.upsert replaces the message's file (tmp + rename); a   *)
(* failure is logged and the task goes on without a record.                 *)
WriteRecord(d) ==
    /\ stage[d] = "starting" /\ IsChat(d)
    /\ Go(d, "recorded")
    /\ \/ /\ record' = [record EXCEPT ![MessageOf[d]] = d]
          /\ written' = written \cup {d}
          /\ UNCHANGED faults
       \/ Fault /\ UNCHANGED diskVars
    /\ UNCHANGED <<before, runVars, lifeVars, outcomes, historyVars>>

(* register, tracker.begin, runChatTask: no await in between. *)
StartRun(d) ==
    /\ stage[d] = "recorded"
    /\ Go(d, "running")
    /\ control' = [control EXCEPT ![MessageOf[d]] = d]
    /\ tracked' = tracked \cup {MessageOf[d]}
    /\ UNCHANGED <<before, mergedInto, diskVars, lifeVars, outcomes,
                   historyVars, faults>>

(* Promise.race won by the run: a reply is delivered first, a no_reply or   *)
(* an error is reported at once.                                            *)
RunEnds(d) ==
    /\ stage[d] = "running"
    /\ Go(d, "delivering") \/ Go(d, "reporting")
    /\ UNCHANGED <<before, runVars, diskVars, lifeVars, outcomes, historyVars,
                   faults>>

(* The run rejects with an error of its own, or its reply cannot be built:  *)
(* no abortTask.                                                            *)
RunThrows(d) ==
    /\ stage[d] \in {"running", "delivering"}
    /\ Go(d, "failing")
    /\ LeaveRun(d)
    /\ UNCHANGED <<before, mergedInto, diskVars, lifeVars, outcomes,
                   historyVars, faults>>

(* Promise.race won by the sliding timeout. *)
TimeOut(d) ==
    /\ stage[d] = "running"
    /\ Go(d, "aborting")
    /\ aborted' = aborted \cup {d}
    /\ UNCHANGED <<before, runVars, diskVars, lifeVars, outcomes, doubt, faults>>

(* Mutant: what the aborted run produced is used. *)
AbortDoneReplies(d) ==
    /\ stage[d] = "aborting"
    /\ Go(d, "replying")
    /\ UNCHANGED <<before, runVars, diskVars, lifeVars, outcomes, historyVars,
                   faults>>

(* await runner.abortTask, rethrow, finally. *)
AbortDone(d) ==
    /\ stage[d] = "aborting"
    /\ Go(d, "failing")
    /\ LeaveRun(d)
    /\ UNCHANGED <<before, mergedInto, diskVars, lifeVars, outcomes,
                   historyVars, faults>>

(* maybeDeliverRelayChannelReplyDirectly: done, or a delivery failure that  *)
(* is handled like an abort.                                                *)
Delivered(d) ==
    /\ stage[d] = "delivering"
    /\ Go(d, "replying")
    /\ tracked' = tracked \ {MessageOf[d]}
    /\ UNCHANGED <<before, mergedInto, control, diskVars, lifeVars,
                   outcomes, historyVars, faults>>

DeliveryFails(d) ==
    /\ stage[d] = "delivering"
    /\ Go(d, "aborting")
    /\ UNCHANGED <<before, runVars, diskVars, lifeVars, outcomes, historyVars,
                   faults>>

(* backend.submitInboundMessage with the outcome of the run. *)
RunOutcome(d) ==
    {o \in Outcome : \/ stage[d] = "replying" /\ o = "reply"
                     \/ stage[d] = "reporting" /\ o # "reply"}

Answered(d) ==
    /\ \E o \in RunOutcome(d) : Receives(d, o)
    /\ Go(d, IF IsChat(d) THEN "closing" ELSE "removing")
    /\ UNCHANGED <<before, runVars, diskVars, lifeVars, historyVars, faults>>

(* The call fails for good; the backend may have received it all the same.  *)
(* The catch blocks then report an error for the same relayMessageId.       *)
AnswerFails(d) ==
    /\ stage[d] \in {"replying", "reporting"}
    /\ Fault
    /\ Go(d, "failing")
    /\ IF IsChat(d) THEN LeaveRun(d) ELSE UNCHANGED <<control, tracked>>
    /\ \/ UNCHANGED <<outcomes, doubt>>
       \/ /\ \E o \in RunOutcome(d) : Receives(d, o)
          /\ doubt' = doubt \cup {d}
    /\ UNCHANGED <<before, mergedInto, diskVars, lifeVars, aborted>>

(* Mutant: the notice may throw after the outcome was accepted. *)
CloseRunThrows(d) ==
    /\ stage[d] = "closing"
    /\ Go(d, "removing") \/ Go(d, "failing")
    /\ LeaveRun(d)
    /\ UNCHANGED <<before, mergedInto, diskVars, lifeVars, outcomes,
                   historyVars, faults>>

(* maybeDeliverCompactionLifecycleNotice (never throws), then finally. *)
CloseRun(d) ==
    /\ stage[d] = "closing"
    /\ Go(d, "removing")
    /\ LeaveRun(d)
    /\ UNCHANGED <<before, mergedInto, diskVars, lifeVars, outcomes,
                   historyVars, faults>>

(* The outer catch: the error callback. *)
ErrorAnswered(d) ==
    /\ stage[d] = "failing"
    /\ Go(d, "removing")
    /\ Receives(d, "error")
    /\ UNCHANGED <<before, runVars, diskVars, lifeVars, historyVars, faults>>

(* Mutant: the record is removed all the same. *)
ErrorFailsRemoves(d) ==
    /\ stage[d] = "failing"
    /\ Fault
    /\ Release(d)
    /\ \/ UNCHANGED <<outcomes, doubt>>
       \/ Receives(d, "error") /\ doubt' = doubt \cup {d}
    /\ record' = [record EXCEPT ![MessageOf[d]] = None]
    /\ UNCHANGED <<before, runVars, written, lifeVars, aborted>>

(* It fails: logged, and the record stays for the next start. *)
ErrorFails(d) ==
    /\ stage[d] = "failing"
    /\ Fault
    /\ Release(d)
    /\ \/ UNCHANGED <<outcomes, doubt>>
       \/ Receives(d, "error") /\ doubt' = doubt \cup {d}
    /\ UNCHANGED <<before, runVars, diskVars, lifeVars, aborted>>

(* inFlightTaskStore.remove, by backend message id; the processor settles.  *)
RemoveRecord(d) ==
    /\ stage[d] = "removing"
    /\ record' = IF d \in written
                 THEN [record EXCEPT ![MessageOf[d]] = None] ELSE record
    /\ Release(d)
    /\ UNCHANGED <<before, runVars, written, lifeVars, outcomes, historyVars,
                   faults>>

(* A removal that fails is swallowed (fs.rm(...).catch): the processor      *)
(* settles all the same, and the next start finds the record.               *)
RemoveFails(d) ==
    /\ stage[d] = "removing" /\ d \in written
    /\ Fault
    /\ Release(d)
    /\ doubt' = doubt \cup {d}
    /\ UNCHANGED <<before, runVars, diskVars, lifeVars, outcomes, aborted>>

-----------------------------------------------------------------------------
(* The process: shutdown, death, restart and reconciliation. *)

StopAccepting ==
    /\ up /\ drain = "off"
    /\ accepting' = FALSE
    /\ drain' = "polling"
    /\ UNCHANGED <<stage, before, inFlight, runVars, diskVars, outcomes,
                   historyVars, up, todo, clearing, faults, crashes>>

(* queue.drain sees an empty queue (its timeout only logs and goes on). *)
DrainSeesEmpty ==
    /\ drain = "polling"
    /\ inFlight = 0 /\ At("queued") = {}
    /\ drain' = "empty"
    /\ UNCHANGED <<stage, before, inFlight, accepting, runVars, diskVars,
                   outcomes, historyVars, up, todo, clearing, faults, crashes>>

(* Everything in memory is gone.  A delivery answered while its record is   *)
(* still on disk will be answered again after the restart.                  *)
ProcessDies ==
    /\ up
    /\ up' = FALSE
    /\ stage' = [d \in Delivery |->
                    IF stage[d] \in Settled THEN stage[d] ELSE "lost"]
    /\ inFlight' = 0
    /\ accepting' = TRUE /\ drain' = "off"
    /\ control' = [m \in Message |-> None]
    /\ tracked' = {}
    /\ todo' = {} /\ clearing' = None
    /\ UNCHANGED <<before, mergedInto, diskVars, aborted>>

Unremoved(out) == {d \in Delivery : record[MessageOf[d]] = d /\ out[d] # <<>>}

Crash ==
    /\ crashes < MaxCrashes
    /\ crashes' = crashes + 1
    /\ ProcessDies
    /\ doubt' = doubt \cup Unremoved(outcomes)
    /\ UNCHANGED <<outcomes, faults>>

(* After a drained shutdown the event loop runs dry. *)
Exit ==
    /\ drain = "empty"
    /\ At("dropping") = {} /\ todo = {} /\ clearing = None
    /\ ProcessDies
    /\ UNCHANGED <<outcomes, doubt, faults, crashes>>

(* The "batched" callback of a merged item fails: its deferred rejects, so  *)
(* does the processor promise, and so does the promise that pump() drops    *)
(* with `void ... .finally(...)'.  Nothing handles it: Node ends the        *)
(* process.                                                                 *)
MergedFails(d) ==
    /\ stage[d] = "merged" /\ d \in Oldest(MergedInto(mergedInto[d]))
    /\ Fault
    /\ \/ UNCHANGED outcomes
       \/ Receives(d, "no_reply")
    /\ ProcessDies
    /\ doubt' = doubt \cup Unremoved(outcomes)
    /\ UNCHANGED crashes

(* Mutant: the records are not listed. *)
RestartForgets ==
    /\ ~up
    /\ up' = TRUE
    /\ UNCHANGED <<stage, before, inFlight, accepting, runVars, diskVars,
                   outcomes, historyVars, drain, todo, clearing, faults, crashes>>

(* The service manager starts the process again; main() begins with         *)
(* inFlightTaskStore.list().                                                *)
Restart ==
    /\ ~up
    /\ up' = TRUE
    /\ todo' = {d \in Delivery : record[MessageOf[d]] = d}
    /\ UNCHANGED <<stage, before, inFlight, accepting, runVars, diskVars,
                   outcomes, historyVars, drain, clearing, faults, crashes>>

(* reconcileDurableInFlightChatTask: recover, deliver, answer under the     *)
(* record's relayMessageId; then remove the record.                         *)
ReconcileAnswered(d, o) ==
    /\ clearing = None /\ d \in Oldest(todo)
    /\ todo' = todo \ {d} /\ clearing' = d
    /\ Receives(d, o)
    /\ UNCHANGED <<stage, before, inFlight, accepting, runVars, diskVars,
                   historyVars, up, drain, faults, crashes>>

(* A failure rejects the whole loop: the other records wait for another     *)
(* restart.                                                                 *)
ReconcileFails(d, o) ==
    /\ clearing = None /\ d \in Oldest(todo)
    /\ Fault
    /\ todo' = {}
    /\ \/ UNCHANGED <<outcomes, doubt>>
       \/ Receives(d, o) /\ doubt' = doubt \cup {d}
    /\ UNCHANGED <<stage, before, inFlight, accepting, runVars, diskVars,
                   aborted, up, drain, clearing, crashes>>

ReconcileClears ==
    /\ clearing # None
    /\ record' = [record EXCEPT ![MessageOf[clearing]] = None]
    /\ clearing' = None
    /\ UNCHANGED <<stage, before, inFlight, accepting, runVars, written,
                   outcomes, historyVars, up, drain, todo, faults, crashes>>

ReconcileClearFails ==
    /\ clearing # None
    /\ Fault
    /\ doubt' = doubt \cup {clearing}
    /\ clearing' = None
    /\ UNCHANGED <<stage, before, inFlight, accepting, runVars, diskVars,
                   outcomes, aborted, up, drain, todo, crashes>>

-----------------------------------------------------------------------------
(* What the event loop does for delivery d once it has been accepted. *)
Work(d) ==
    \/ DropAnswered(d) \/ DropFails(d)
    \/ MergedAnswered(d) \/ MergedFails(d) \/ BatchReady(d)
    \/ OtherWork(d) \/ EventDone(d) \/ WriteRecord(d) \/ StartRun(d)
    \/ RunEnds(d) \/ RunThrows(d) \/ TimeOut(d) \/ AbortDone(d)
    \/ Delivered(d) \/ DeliveryFails(d)
    \/ Answered(d) \/ AnswerFails(d) \/ CloseRun(d)
    \/ ErrorAnswered(d) \/ ErrorFails(d) \/ RemoveRecord(d) \/ RemoveFails(d)

Reconcile ==
    \/ \E d \in Delivery, o \in Outcome :
           ReconcileAnswered(d, o) \/ ReconcileFails(d, o)
    \/ ReconcileClears \/ ReconcileClearFails

Next ==
    \/ \E d \in Delivery : Push(d) \/ Work(d)
    \/ \E m \in Message : AbortTask(m)
    \/ \E s \in Session : FlushBatch(s)
    \/ StopAccepting \/ DrainSeesEmpty \/ Exit
    \/ Crash \/ Restart \/ Reconcile

Spec == Init /\ [][Next]_vars

(* Every await of a task ends: calls carry timeouts, the sliding task       *)
(* timeout bounds a silent run, debounce timers fire, and the service is    *)
(* restarted (Restart=always).  Nothing obliges the backend to push, anyone *)
(* to abort, or the process to stop or crash.                               *)
Fairness ==
    /\ \A d \in Delivery : WF_vars(Work(d))
    /\ \A s \in Session : WF_vars(FlushBatch(s))
    /\ WF_vars(Restart)
    /\ WF_vars(Reconcile)

FairSpec == Spec /\ Fairness

-----------------------------------------------------------------------------
(* Properties. *)

(* The queue's counter counts exactly the deliveries whose processor has    *)
(* not settled, through batches, preemption, failed callbacks and restarts. *)
SlotAccounting == inFlight = Cardinality(Holding) /\ inFlight <= Concurrency

(* A delivery gets at most one terminal outcome, unless the backend's       *)
(* answer to one was lost, or the removal of the record failed or was cut   *)
(* short by the death of the process: preemption, batching, the error callback  *)
(* after a failed one and the reconciliation never add a second.            *)
OneOutcome == \A d \in Delivery \ doubt : Len(outcomes[d]) <= 1

(* No other delivery carries the message of d. *)
Sole(d) == \A e \in Delivery \ {d} : MessageOf[e] # MessageOf[d]

(* A chat task whose record reached the disk is not forgotten before the    *)
(* backend has an outcome for it: failed callbacks, crashes and failed      *)
(* reconciliations all leave the record for the next start.                 *)
RecordedUntilAnswered ==
    \A d \in written :
        Sole(d) /\ outcomes[d] = <<>> => record[MessageOf[d]] = d

(* Every release path clears the transport correlation and the task control *)
(* entry: both are held only between register and unregister.               *)
ReleasedIsUntracked ==
    /\ \A m \in tracked :
          \E d \in Delivery : MessageOf[d] = m /\ stage[d] \in Registered
    /\ \A m \in Message :
          control[m] # None =>
              MessageOf[control[m]] = m /\ stage[control[m]] \in Registered

(* Supersession: of one session at most one user message waits in the       *)
(* queue, and no reminder waits that was pushed before it.                  *)
NewestTurnWaits ==
    \A d, e \in At("queued") :
        /\ IsUserChat(e) /\ IsChat(d) /\ Sn(d) = Sn(e)
        /\ MessageOf[d] # MessageOf[e]
        => Earlier(e, d) /\ IsSystem(d)

(* A task that was preempted, aborted or timed out while it ran is answered *)
(* with an error; what its run still produces is never sent as its reply.   *)
(* (Only the reconciliation of a later process may recover the reply.)      *)
AbortedNeverReplies ==
    [][\A d \in aborted \ todo :
          outcomes'[d] \in {outcomes[d], Append(outcomes[d], "error")}]_vars

(* The merged items of a batch wait for a target that still waits for them  *)
(* and that was pushed after them: no batch is stranded, and the text of    *)
(* its items is put together in the order it was sent.                      *)
BatchesHaveTargets ==
    \A d \in At("merged") :
        LET t == mergedInto[d] IN
        t # None /\ stage[t] = "flushing" /\ Earlier(d, t)

(* Once the shutdown has seen the queue drained nothing is accepted, queued *)
(* or running again before the process ends.                                *)
DrainedStaysEmpty == drain = "empty" => At("queued") = {} /\ Holding = {}

(* d has its turn: of the items merged into one target the oldest, of the   *)
(* targets the one nobody is merged into any more, and of the items of a    *)
(* batch each, as long as one of them is the newest.  In every other stage  *)
(* that holds a slot a delivery waits for nothing but its own calls.        *)
HasItsTurn(d) ==
    CASE stage[d] = "merged"   -> d \in Oldest(MergedInto(mergedInto[d]))
      [] stage[d] = "flushing" -> MergedInto(d) = {}
      [] stage[d] = "batching" -> Latest({e \in At("batching") : Sn(e) = Sn(d)}) # {}
      [] OTHER -> TRUE

(* Merged items hold slots while their target waits for them, queued ones   *)
(* wait for those slots, and the reconciliation takes its records in the    *)
(* order of the pushes: there is never a circle of waits.  Whenever         *)
(* anything waits or holds a slot, something that holds one has its turn.   *)
NobodyWaitsInACircle ==
    /\ At("queued") \cup Holding # {} => \E d \in Holding : HasItsTurn(d)
    /\ todo # {} => Oldest(todo) # {}

(* The process forgets an accepted user message only after its outcome, or  *)
(* with its record on disk.  (Every user-origin pushed message must end     *)
(* with a terminal backend outcome, docs/transport-bug-hunt.md.)            *)
NoUserTurnForgotten ==
    \A d \in At("lost") :
        IsUserChat(d) => outcomes[d] # <<>> \/ record[MessageOf[d]] = d

(* Every accepted chat turn is answered, as long as no call fails and the   *)
(* process does not die: no wait in the queue, in a batch or on an abort    *)
(* can hold it for ever.                                                    *)
EveryTurnAnswered ==
    \A d \in Delivery :
        /\ IsChat(d)
        /\ stage[d] = "queued" \/ stage[d] \in HoldsSlot
        ~> outcomes[d] # <<>> \/ faults > 0 \/ crashes > 0

(* A chat task whose record was on disk when the process died is answered   *)
(* after a restart, as long as no call fails.                               *)
RecordedIsReconciled ==
    \A d \in Delivery :
        stage[d] = "lost" /\ record[MessageOf[d]] = d /\ Sole(d)
            ~> outcomes[d] # <<>> \/ faults > 0

(* The pipeline uses the queue as TaskQueue specifies it. *)
Queue == INSTANCE TaskQueue WITH
    Item <- Delivery,
    waiting <- At("queued"),
    before <- before \cap (At("queued") \X At("queued")),
    running <- Holding

QueueImplemented == Queue!Spec

(* Seen by the backend, the pipeline keeps the contract. *)
StandingOf(d) ==
    CASE stage[d] \in {"unsent", "refused"} -> stage[d]
      [] stage[d] \notin {"unsent", "refused"} /\ outcomes[d] # <<>> -> "answered"
      [] stage[d] \notin Settled /\ outcomes[d] = <<>> -> "open"
      [] OTHER -> IF record[MessageOf[d]] = d \/ d \in todo THEN "kept"
                  ELSE "silent"

Contract == INSTANCE MessageContract WITH
    Once <- {d \in Delivery : Sole(d)},
    standing <- [d \in Delivery |-> StandingOf(d)],
    answers <- [d \in Delivery |-> Len(outcomes[d])],
    doubtful <- doubt

ContractImplemented == Contract!Spec
AcceptedSettles == Contract!Settles
=============================================================================
