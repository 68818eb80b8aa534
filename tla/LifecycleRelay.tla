--------------------------- MODULE LifecycleRelay ---------------------------
(***************************************************************************)
(* The agent lifecycle relay (src/agentLifecycle/relay.ts) with its        *)
(* encoder, its durable outbox, its publisher and its source store: what   *)
(* the gateway's runs do is turned into events, numbered within a source   *)
(* generation, written to disk, and submitted in order to the backend.     *)
(*                                                                         *)
(* Operations run one at a time on a promise chain, `queue'; `at' is the   *)
(* await the present one stands at, and `then' what follows the drain or   *)
(* the registration it awaits.  Between two awaits the gateway's runs go   *)
(* on, frames queue up, and the process may die.                           *)
(*                                                                         *)
(* RUNNING and WAITING are one status, "active", and the three ends one,   *)
(* "ended".  A trigger only chooses a log line and is left out.  The       *)
(* backend is external: it has one active generation, takes the events of  *)
(* that generation in sequence, answers SEQUENCE_GAP to one that is ahead, *)
(* and accepts without effect one it has seen or of an older generation.   *)
(* A failed call may have taken effect.  Disk writes succeed.              *)
(***************************************************************************)
EXTENDS Naturals, Sequences

CONSTANTS Run, Session,
          SessionMaps,     \* ways in which the runs belong to sessions
          None,
          Activation,      \* in the queue: activateConnected(), beside frames
          MaxPending,      \* capacity of the outbox
          MaxGen,          \* bound: generations
          MaxMishaps       \* bound: failed calls, lost connections, deaths

VARIABLES
    store, outbox,       \* on disk: current.json and the pending directory
    current, loaded,     \* the source state in memory
    encSeq, encRun,      \* the encoder: last number, last run of each session
    connected, retry,
    queue, at, then, frame, response, todo,
    beGen, beSeq, beActive,
    run, sessionOf,      \* what the gateway's runs do, and in which session
    gens, mishaps,
    doubt                \* history: why the backend's view may be wrong

disk == <<store, outbox>>
memory == <<current, loaded, encSeq, encRun>>
link == <<connected, retry>>
control == <<queue, at, then, frame, response, todo>>
backend == <<beGen, beSeq, beActive>>
runs == <<run, sessionOf>>
vars == <<disk, memory, link, control, backend, runs, gens, mishaps, doubt>>

Event == [gen : 1..MaxGen, seq : Nat \ {0}, run : Run, status : {"active", "ended"}]
Source == [gen : 1..MaxGen, registered : BOOLEAN]
Frame == [run : Run, status : {"active", "ended"}]

ASSUME LifecycleAssumption ==
    /\ SessionMaps \subseteq [Run -> Session]
    /\ {MaxPending, MaxGen} \subseteq Nat \ {0}
    /\ MaxMishaps \in Nat
    /\ None \notin Source \cup Frame \cup {Activation} /\ Activation \notin Frame

(* Ways in which the code itself leaves the backend with a wrong view until *)
(* the next generation: an event the outbox refused or the backend rejected *)
(* for good, a query that failed, a backlog replayed after the checkpoint   *)
(* was taken, a session's new run overwritten by the end of the old one.    *)
Reason == {"refused", "rejected", "query", "backlog", "seeded"}

TypeOK ==
    /\ store \in Source \cup {None}
    /\ outbox \in Seq(Event) /\ Len(outbox) <= MaxPending
    /\ current \in Source \cup {None} /\ loaded \in BOOLEAN
    /\ encSeq \in Nat /\ encRun \in [Session -> Frame \cup {None}]
    /\ {connected, retry} \subseteq BOOLEAN
    /\ queue \in Seq(Frame \cup {Activation})
    /\ at \in {"idle", "activate", "register", "drain", "query", "correct", "encode"}
    /\ then \in {None, "bootstrap", "again", "rotated", "frame", "replay", "reconciled"}
    /\ frame \in Frame \cup {None}
    /\ response \subseteq Run /\ todo \subseteq Frame
    /\ beGen \in 0..MaxGen /\ beSeq \in Nat /\ beActive \subseteq Run
    /\ sessionOf \in SessionMaps /\ run \in [Run -> {"new", "active", "ended"}]
    /\ gens \in 0..MaxGen
    /\ mishaps \in 0..MaxMishaps
    /\ doubt \subseteq Reason

NoRun == [s \in Session |-> None]

Init ==
    /\ store = None /\ outbox = <<>>
    /\ current = None /\ loaded = FALSE /\ encSeq = 0 /\ encRun = NoRun
    /\ connected = FALSE /\ retry = FALSE
    /\ queue = <<>> /\ at = "idle" /\ then = None /\ frame = None
    /\ response = {} /\ todo = {}
    /\ beGen = 0 /\ beSeq = 0 /\ beActive = {}
    /\ run = [r \in Run |-> "new"] /\ sessionOf \in SessionMaps
    /\ gens = 0 /\ mishaps = 0
    /\ doubt = {}

Live == {r \in Run : run[r] = "active"}

Mishap ==
    /\ mishaps < MaxMishaps
    /\ mishaps' = mishaps + 1

-----------------------------------------------------------------------------
(* The gateway.                                                             *)

Hears(f) == queue' = IF connected THEN Append(queue, f) ELSE queue

RunMoves(r, from, to) ==
    /\ run[r] = from
    /\ run' = [run EXCEPT ![r] = to]
    /\ UNCHANGED sessionOf
    /\ Hears([run |-> r, status |-> to])
    /\ UNCHANGED <<disk, memory, link, at, then, frame, response, todo, backend, gens, mishaps, doubt>>

(* A session has one run at a time.                                         *)
RunStarts(r) ==
    /\ \A q \in Live : sessionOf[q] # sessionOf[r]
    /\ RunMoves(r, "new", "active")
RunEnds(r) == RunMoves(r, "active", "ended")

(* handleGatewayConnectionStateChange()                                     *)
Connect ==
    /\ ~connected
    /\ connected' = TRUE
    /\ queue' = Append(queue, Activation)
    /\ UNCHANGED <<disk, memory, retry, at, then, frame, response, todo, backend, runs, gens, mishaps,
                   doubt>>

Disconnect ==
    /\ connected
    /\ Mishap
    /\ connected' = FALSE
    /\ UNCHANGED <<disk, memory, retry, control, backend, runs, gens, doubt>>

RetryFires ==
    /\ retry
    /\ retry' = FALSE
    /\ queue' = Append(queue, Activation)
    /\ UNCHANGED <<disk, memory, connected, at, then, frame, response, todo, backend, runs, gens, mishaps,
                   doubt>>

-----------------------------------------------------------------------------
(* Encoder and outbox.                                                      *)

(* classifyAgentLifecycleTransition(): cur is the session's last run.       *)
Applies(cur, f) ==
    IF cur = None \/ cur.run # f.run
    THEN f.status = "active"
    ELSE cur.status = "active" /\ f.status = "ended"

Numbered(f) == [gen |-> current.gen, seq |-> encSeq + 1, run |-> f.run, status |-> f.status]

SameId(e) == {i \in DOMAIN outbox : outbox[i].gen = e.gen /\ outbox[i].seq = e.seq}

(* enqueue() throws: the id is that of another event, for no two have the   *)
(* same time, or there is no room.                                          *)
Refused(e) == SameId(e) # {} \/ Len(outbox) >= MaxPending

(* encoder.observe() and enqueue(), when the transition applies.  The number *)
(* is spent even if the outbox refuses the event.                           *)
Encode(f) ==
    LET e == Numbered(f) IN
    /\ encSeq' = encSeq + 1
    /\ encRun' = [encRun EXCEPT ![sessionOf[f.run]] = f]
    /\ outbox' = IF Refused(e) THEN outbox ELSE Append(outbox, e)

-----------------------------------------------------------------------------
(* Operations.                                                              *)

Goto(place, cont) == at' = place /\ then' = cont

(* The end of an activation: the frame that asked for it, if one did and    *)
(* there is a source now, is encoded; otherwise the operation is over.      *)
EndActivation(cur) ==
    /\ Goto(IF frame # None /\ cur # None THEN "encode" ELSE "idle", None)
    /\ frame' = IF cur = None THEN None ELSE frame

TakeFrame ==
    /\ at = "idle" /\ queue # <<>> /\ Head(queue) # Activation
    /\ queue' = Tail(queue)
    /\ frame' = Head(queue)
    /\ Goto(IF current = None THEN "activate" ELSE "encode", None)
    /\ UNCHANGED <<disk, memory, link, response, todo, backend, runs, gens, mishaps, doubt>>

(* activateConnected(), up to the subscription.                             *)
TakeActivation ==
    /\ at = "idle" /\ queue # <<>> /\ Head(queue) = Activation
    /\ queue' = Tail(queue)
    /\ \/ /\ Goto(IF connected THEN "activate" ELSE "idle", None)
          /\ UNCHANGED <<retry, mishaps>>
       \/ /\ connected
          /\ Mishap
          /\ Goto("idle", None)
          /\ retry' = TRUE
    /\ UNCHANGED <<disk, memory, connected, frame, response, todo, backend, runs, gens, doubt>>

(* Mutant: a generation that was saved is taken for a registered one.       *)
ActivateSaved ==
    LET cur == IF loaded THEN current ELSE store IN
    /\ at = "activate"
    /\ current' = cur /\ loaded' = TRUE
    /\ Goto(IF cur # None THEN "drain" ELSE "register",
            IF cur # None THEN "replay" ELSE "bootstrap")
    /\ UNCHANGED <<disk, encSeq, encRun, link, queue, frame, response, todo, backend, runs, gens, mishaps,
                   doubt>>

(* activateGeneration(), up to its first call.                              *)
Activate ==
    LET cur == IF loaded THEN current ELSE store IN
    /\ at = "activate"
    /\ current' = cur /\ loaded' = TRUE
    /\ Goto(IF cur # None /\ cur.registered THEN "drain" ELSE "register",
            IF cur = None THEN "bootstrap"
            ELSE IF cur.registered THEN "replay" ELSE "again")
    /\ UNCHANGED <<disk, encSeq, encRun, link, queue, frame, response, todo, backend, runs, gens, mishaps,
                   doubt>>

(* A fresh generation, when the replay is done.                             *)
Rotate ==
    /\ gens < MaxGen
    /\ gens' = gens + 1
    /\ current' = [gen |-> gens', registered |-> FALSE]
    /\ store' = current'
    /\ encSeq' = 0 /\ encRun' = NoRun
    /\ Goto("register", "rotated")

RegisteredGen == IF then = "bootstrap" THEN gens + 1 ELSE current.gen

BackendRegisters(g) ==
    /\ beGen' = g
    /\ beSeq' = IF g = beGen THEN beSeq ELSE 0
    /\ UNCHANGED beActive

Register ==
    /\ at = "register"
    /\ RegisteredGen <= MaxGen
    /\ BackendRegisters(RegisteredGen)
    /\ response' = beActive
    /\ current' = [gen |-> RegisteredGen, registered |-> TRUE]
    /\ store' = current'
    /\ IF then = "bootstrap"
       THEN encSeq' = 0 /\ encRun' = NoRun /\ gens' = RegisteredGen
       ELSE UNCHANGED <<encSeq, encRun, gens>>
    /\ Goto("drain", then)
    /\ doubt' = CASE then \in {"bootstrap", "rotated"} -> {}
                  [] then = "again" /\ outbox # <<>> -> doubt \cup {"backlog"}
                  [] OTHER -> doubt
    /\ UNCHANGED <<outbox, loaded, link, queue, frame, todo, runs, mishaps>>

(* The registration fails, or its answer is lost.                           *)
RegisterFails ==
    /\ at = "register"
    /\ RegisteredGen <= MaxGen
    /\ Mishap
    /\ \/ UNCHANGED backend
       \/ BackendRegisters(RegisteredGen)
    /\ gens' = IF then = "bootstrap" THEN RegisteredGen ELSE gens
    /\ retry' = TRUE
    /\ IF then = "frame" THEN Goto("idle", None) /\ UNCHANGED frame ELSE EndActivation(current)
    /\ UNCHANGED <<disk, memory, connected, queue, response, todo, runs, doubt>>

(* After a drain that left n events behind; gap: the backend misses some.   *)
AfterDrain(gap, n) ==
    CASE then = "frame" ->
           /\ Goto(IF gap THEN "activate" ELSE "idle", None)
           /\ retry' = (retry \/ (~gap /\ n > 0))
           /\ UNCHANGED <<store, current, encSeq, encRun, frame, gens>>
      [] then = "replay" ->
           IF gap \/ n = 0
           THEN Rotate /\ UNCHANGED <<retry, frame>>
           ELSE /\ EndActivation(current)
                /\ retry' = TRUE
                /\ UNCHANGED <<store, current, encSeq, encRun, gens>>
      [] then = "again" ->
           /\ IF gap \/ n = 0
              THEN Goto("query", None) /\ retry' = FALSE /\ UNCHANGED frame
              ELSE EndActivation(current) /\ retry' = TRUE
           /\ UNCHANGED <<store, current, encSeq, encRun, gens>>
      [] then \in {"rotated", "bootstrap"} ->
           /\ Goto("query", None)
           /\ retry' = FALSE
           /\ UNCHANGED <<store, current, encSeq, encRun, frame, gens>>
      [] then = "reconciled" ->
           /\ EndActivation(current)
           /\ retry' = (retry \/ gap \/ n > 0)
           /\ UNCHANGED <<store, current, encSeq, encRun, gens>>

drainFrame == <<loaded, connected, queue, response, todo, runs>>

Drained ==
    /\ at = "drain"
    /\ outbox = <<>>
    /\ AfterDrain(FALSE, 0)
    /\ UNCHANGED <<outbox, drainFrame, backend, mishaps, doubt>>

InGap(e) == e.gen = beGen /\ e.seq > beSeq + 1

BackendTakes(e) ==
    IF e.gen = beGen /\ e.seq = beSeq + 1
    THEN /\ beSeq' = e.seq
         /\ beActive' = IF e.status = "active" THEN beActive \cup {e.run} ELSE beActive \ {e.run}
         /\ UNCHANGED beGen
    ELSE UNCHANGED backend

(* The first pending event is taken and removed from the outbox.            *)
Submit ==
    /\ at = "drain" /\ outbox # <<>>
    /\ ~InGap(Head(outbox))
    /\ BackendTakes(Head(outbox))
    /\ outbox' = Tail(outbox)
    /\ UNCHANGED <<store, memory, link, control, runs, gens, mishaps, doubt>>

SubmitGap ==
    /\ at = "drain" /\ outbox # <<>>
    /\ InGap(Head(outbox))
    /\ AfterDrain(TRUE, Len(outbox))
    /\ UNCHANGED <<outbox, drainFrame, backend, mishaps, doubt>>

(* Mutants of SubmitFails: the event is removed all the same; the failure   *)
(* is not retried.                                                          *)
FailureRemoves ==
    /\ at = "drain" /\ outbox # <<>>
    /\ Mishap
    /\ UNCHANGED backend
    /\ outbox' = Tail(outbox)
    /\ AfterDrain(FALSE, Len(outbox) - 1)
    /\ UNCHANGED <<drainFrame, doubt>>

FailureForgotten ==
    /\ at = "drain" /\ outbox # <<>>
    /\ Mishap
    /\ UNCHANGED backend
    /\ AfterDrain(FALSE, 0)
    /\ UNCHANGED <<outbox, drainFrame, doubt>>

(* The submission fails, or its answer is lost; the event stays.            *)
SubmitFails ==
    /\ at = "drain" /\ outbox # <<>>
    /\ Mishap
    /\ \/ UNCHANGED backend
       \/ ~InGap(Head(outbox)) /\ BackendTakes(Head(outbox))
    /\ AfterDrain(FALSE, Len(outbox))
    /\ UNCHANGED <<outbox, drainFrame, doubt>>

(* Rejected for good (400, 422): quarantined, and the drain stops.          *)
SubmitRejected ==
    /\ at = "drain" /\ outbox # <<>>
    /\ Mishap
    /\ outbox' = Tail(outbox)
    /\ AfterDrain(FALSE, Len(outbox) - 1)
    /\ doubt' = doubt \cup {"rejected"}
    /\ UNCHANGED <<drainFrame, backend>>

(* Mutant: runs that have disappeared are not corrected.                    *)
QueryActiveOnly ==
    /\ at = "query" /\ connected
    /\ todo' = {[run |-> r, status |-> "active"] : r \in Live}
    /\ Goto("correct", None)
    /\ UNCHANGED <<disk, memory, link, queue, frame, response, backend, runs, gens, mishaps, doubt>>

(* reconcile(): the runs the gateway has, and those of the checkpoint that  *)
(* the registration returned which it has no more.                          *)
Query ==
    /\ at = "query" /\ connected
    /\ todo' = {[run |-> r, status |-> "active"] : r \in Live}
               \cup {[run |-> r, status |-> "ended"] : r \in response \ Live}
    /\ Goto("correct", None)
    /\ UNCHANGED <<disk, memory, link, queue, frame, response, backend, runs, gens, mishaps, doubt>>

(* The query fails: logged as deferred, with nothing that repeats it.       *)
QueryFails ==
    /\ at = "query"
    /\ IF connected THEN Mishap ELSE UNCHANGED mishaps
    /\ EndActivation(current)
    /\ doubt' = doubt \cup {"query"}
    /\ UNCHANGED <<disk, memory, link, queue, response, todo, backend, runs, gens>>

(* One correction: the active runs first; a run that disappeared is seeded  *)
(* as its session's run and ended.                                          *)
Correct(f) ==
    LET cur == IF f.status = "active" THEN encRun[sessionOf[f.run]]
               ELSE [run |-> f.run, status |-> "active"]
        seen == encRun[sessionOf[f.run]]
        seeded == f.status = "ended" /\ seen # None /\ seen.run # f.run
    IN
    /\ at = "correct" /\ f \in todo
    /\ f.status = "ended" => \A g \in todo : g.status = "ended"
    /\ IF Applies(cur, f) THEN Encode(f) ELSE UNCHANGED <<outbox, encSeq, encRun>>
    /\ IF Applies(cur, f) /\ Refused(Numbered(f))
       THEN /\ EndActivation(current)
            /\ todo' = {}
            /\ doubt' = doubt \cup {"refused"}
       ELSE /\ UNCHANGED <<at, then, frame>>
            /\ todo' = todo \ {f}
            /\ doubt' = IF seeded THEN doubt \cup {"seeded"} ELSE doubt
    /\ UNCHANGED <<store, current, loaded, link, queue, response, backend, runs, gens, mishaps>>

Corrected ==
    /\ at = "correct" /\ todo = {}
    /\ Goto("drain", "reconciled")
    /\ UNCHANGED <<disk, memory, link, queue, frame, response, todo, backend, runs, gens, mishaps, doubt>>

(* processFrame(), once there is a source.                                  *)
EncodeFrame ==
    LET cur == encRun[sessionOf[frame.run]] IN
    /\ at = "encode"
    /\ frame' = None
    /\ IF Applies(cur, frame)
       THEN /\ Encode(frame)
            /\ IF Refused(Numbered(frame))
               THEN Goto("idle", None) /\ doubt' = doubt \cup {"refused"}
               ELSE /\ Goto(IF current.registered THEN "drain" ELSE "register", "frame")
                    /\ UNCHANGED doubt
       ELSE Goto("idle", None) /\ UNCHANGED <<outbox, encSeq, encRun, doubt>>
    /\ UNCHANGED <<store, current, loaded, link, queue, response, todo, backend, runs, gens, mishaps>>

(* The process dies, perhaps while the backend has a call of its.  Memory is *)
(* lost, and the encoder forgets what it has numbered.                      *)
Crash ==
    /\ Mishap
    /\ current' = None /\ loaded' = FALSE /\ encSeq' = 0 /\ encRun' = NoRun
    /\ connected' = FALSE /\ retry' = FALSE
    /\ queue' = <<>> /\ at' = "idle" /\ then' = None /\ frame' = None
    /\ response' = {} /\ todo' = {}
    /\ \/ UNCHANGED <<backend, gens>>
       \/ /\ at = "drain" /\ outbox # <<>> /\ ~InGap(Head(outbox))
          /\ BackendTakes(Head(outbox))
          /\ UNCHANGED gens
       \/ /\ at = "register" /\ RegisteredGen <= MaxGen
          /\ BackendRegisters(RegisteredGen)
          /\ gens' = IF then = "bootstrap" THEN RegisteredGen ELSE gens
    /\ UNCHANGED <<disk, runs, doubt>>

-----------------------------------------------------------------------------
Gateway ==
    \/ Connect \/ Disconnect
    \/ \E r \in Run : RunStarts(r) \/ RunEnds(r)

Operation ==
    \/ TakeFrame \/ TakeActivation \/ Activate
    \/ Register \/ RegisterFails
    \/ Drained \/ Submit \/ SubmitGap \/ SubmitFails \/ SubmitRejected
    \/ Query \/ QueryFails \/ Corrected \/ EncodeFrame
    \/ \E f \in Frame : Correct(f)

Next == Gateway \/ RetryFires \/ Crash \/ Operation

Spec == Init /\ [][Next]_vars
FairSpec == Spec /\ WF_vars(Operation) /\ WF_vars(RetryFires) /\ WF_vars(Connect)

-----------------------------------------------------------------------------
(* publisher.drain() is reached only when the backend knows the generation  *)
(* of every pending event: after a crash, a rotation and a failed or        *)
(* unanswered registration too.                                             *)
RegisteredFirst ==
    at = "drain" => \A i \in DOMAIN outbox : outbox[i].gen <= beGen

(* An event leaves the outbox only when the backend has taken it, needs it  *)
(* no more, or has rejected it for good; never with a call that failed.     *)
LeavesWhenTaken ==
    [][\A i \in DOMAIN outbox :
          LET e == outbox[i] IN
          (\A j \in DOMAIN outbox' : outbox'[j] # e) =>
              \/ e.gen < beGen' \/ (e.gen = beGen' /\ e.seq <= beSeq')
              \/ doubt' = doubt \cup {"rejected"}]_vars

AtRest ==
    /\ connected /\ ~retry
    /\ at = "idle" /\ queue = <<>> /\ outbox = <<>>

(* With nothing left to do and none of the known reasons for doubt, the     *)
(* backend knows exactly the runs the gateway has: whatever was missed, or  *)
(* sent twice, in disconnections, crashes and failures is made good by the  *)
(* rotation and the reconciliation.                                         *)
SettledView == AtRest /\ doubt = {} => beActive = Live

(* While the gateway stays connected the relay does not stop before the     *)
(* backend's view is right: each failure leaves a retry behind, and the     *)
(* retries come to an end.                                                  *)
ViewCatchesUp == []<>(beActive = Live \/ ~connected \/ doubt # {})

(* A number the encoder gives is new in its generation: no pending event and *)
(* none that the backend has taken carries it.  enqueue() takes a second    *)
(* event with one id for an "identity conflict" (outbox.ts), and the        *)
(* backend takes it for a duplicate of the first and drops it.              *)
NumbersGoOn ==
    [][encSeq' = encSeq + 1 =>
          /\ \A i \in DOMAIN outbox :
                outbox[i].gen = current.gen => outbox[i].seq < encSeq'
          /\ beGen = current.gen => beSeq < encSeq']_vars
=============================================================================
