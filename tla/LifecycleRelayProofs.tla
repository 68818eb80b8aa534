------------------------ MODULE LifecycleRelayProofs ------------------------
(***************************************************************************)
(* The lifecycle relay for any runs, sessions, outbox capacity, number of  *)
(* generations and of mishaps: what it submits is of a generation that the *)
(* backend knows, and leaves the outbox only when the backend has it; and  *)
(* once it is at rest, the backend's view of the runs is right.            *)
(***************************************************************************)
EXTENDS LifecycleRelay, SequenceTheorems, TLAPS

(* The source in memory is the one on disk, once that has been read; its    *)
(* generation is no later than the last one made, and if it is registered,  *)
(* it is the one that the backend has active.                               *)
SourceInv ==
    /\ loaded => current = store
    /\ ~loaded => current = None /\ at \in {"idle", "activate"}
    /\ store \in Source => store.gen <= gens /\ (store.registered => beGen = store.gen)

(* Nothing pending is of a generation later than the one on disk.           *)
OutboxInv ==
    \A i \in DOMAIN outbox : store \in Source /\ outbox[i].gen <= store.gen

Registered == current \in Source /\ current.registered

(* What the awaits of an operation may count on.                            *)
ControlInv ==
    /\ at = "register" => /\ loaded
                          /\ then \in {"bootstrap", "again", "rotated", "frame"}
                          /\ then = "bootstrap" => current = None
                          /\ then # "bootstrap" => current \in Source /\ ~current.registered
    /\ at = "drain" => /\ Registered
                       /\ then \in {"bootstrap", "again", "rotated", "frame", "replay", "reconciled"}
    /\ at \in {"query", "correct"} => Registered
    /\ at = "encode" => current \in Source /\ frame \in Frame

(* TypeOK, in parts that the steps disturb together.                        *)
SourceTypes ==
    /\ store \in Source \cup {None} /\ current \in Source \cup {None}
    /\ encSeq \in Nat /\ encRun \in [Session -> Frame \cup {None}]
    /\ gens \in 0..MaxGen
FlagTypes == loaded \in BOOLEAN /\ connected \in BOOLEAN /\ retry \in BOOLEAN
OutboxType == outbox \in Seq(Event) /\ Len(outbox) <= MaxPending
QueueType == queue \in Seq(Frame \cup {Activation})
PlaceTypes ==
    /\ at \in {"idle", "activate", "register", "drain", "query", "correct", "encode"}
    /\ then \in {None, "bootstrap", "again", "rotated", "frame", "replay", "reconciled"}
    /\ frame \in Frame \cup {None}
    /\ response \subseteq Run /\ todo \subseteq Frame
BackendTypes == beGen \in 0..MaxGen /\ beSeq \in Nat /\ beActive \subseteq Run
RunTypes == sessionOf \in SessionMaps /\ run \in [Run -> {"new", "active", "ended"}]
HistoryTypes == mishaps \in 0..MaxMishaps /\ doubt \subseteq Reason

Types == /\ SourceTypes /\ FlagTypes /\ OutboxType /\ QueueType
         /\ PlaceTypes /\ BackendTypes /\ RunTypes /\ HistoryTypes

IInv == Types /\ SourceInv /\ OutboxInv /\ ControlInv

(* The constants, and the few facts about them that the steps need.         *)
LEMMA Constants ==
    /\ MaxPending \in Nat /\ MaxGen \in Nat /\ MaxMishaps \in Nat
    /\ None \notin Source /\ None \notin Frame /\ None # Activation /\ Activation \notin Frame
    /\ SessionMaps \subseteq [Run -> Session]
BY LifecycleAssumption

LEMMA TypesAreTypeOK ==
    Types => TypeOK
BY DEF Types, TypeOK, SourceTypes, FlagTypes, OutboxType, QueueType, PlaceTypes, BackendTypes,
       RunTypes, HistoryTypes

LEMMA Start ==
    Init => IInv
<1> SUFFICES ASSUME Init PROVE IInv
  OBVIOUS
<1> USE Constants DEF Init
<1>1. SourceTypes
  BY DEF SourceTypes, NoRun
<1>2. FlagTypes
  BY Zenon DEF FlagTypes
<1>3. OutboxType /\ QueueType
  BY DEF OutboxType, QueueType
<1>4. PlaceTypes /\ BackendTypes
  BY DEF PlaceTypes, BackendTypes
<1>5. RunTypes /\ HistoryTypes
  BY DEF RunTypes, HistoryTypes
<1>6. SourceInv /\ OutboxInv /\ ControlInv
  BY DEF SourceInv, OutboxInv, ControlInv, Registered
<1> QED
  BY <1>1, <1>2, <1>3, <1>4, <1>5, <1>6 DEF IInv, Types

(* A step that leaves the source, the outbox, the backend and the place of  *)
(* the operation alone.                                                     *)
LEMMA Untouched ==
    ASSUME SourceInv, OutboxInv, ControlInv,
           UNCHANGED <<store, outbox, current, loaded, at, then, frame, beGen, gens>>
    PROVE  SourceInv' /\ OutboxInv' /\ ControlInv'
BY DEF SourceInv, OutboxInv, ControlInv, Registered

LEMMA OneMishap ==
    ASSUME HistoryTypes, Mishap
    PROVE  mishaps' \in 0..MaxMishaps
BY Constants DEF HistoryTypes, Mishap

LEMMA Queued ==
    ASSUME QueueType, NEW f \in Frame \cup {Activation}, queue' = Append(queue, f)
    PROVE  QueueType'
BY AppendProperties DEF QueueType

(* The gateway, the connection and the retry timer.                         *)
LEMMA GatewaySteps ==
    ASSUME IInv, Gateway \/ RetryFires
    PROVE  IInv'
<1>1. UNCHANGED <<store, outbox, current, loaded, at, then, frame, beGen, gens>>
  BY DEF Gateway, Connect, Disconnect, RunStarts, RunEnds, RunMoves, RetryFires, disk, memory, control, backend
<1>2. UNCHANGED <<encSeq, encRun, response, todo, beSeq, beActive, doubt>>
  BY DEF Gateway, Connect, Disconnect, RunStarts, RunEnds, RunMoves, RetryFires, disk, memory, control, backend
<1>3. SourceTypes' /\ OutboxType' /\ PlaceTypes' /\ BackendTypes'
  BY <1>1, <1>2 DEF IInv, Types, SourceTypes, OutboxType, PlaceTypes, BackendTypes
<1>4. FlagTypes'
  BY <1>1, Zenon DEF Gateway, Connect, Disconnect, RunStarts, RunEnds, RunMoves, RetryFires, link, memory,
                     IInv, Types, FlagTypes
<1>5. HistoryTypes'
  BY <1>2, OneMishap DEF Gateway, Connect, Disconnect, RunStarts, RunEnds, RunMoves, RetryFires,
                         IInv, Types, HistoryTypes
<1>6. QueueType' /\ RunTypes'
  <2>1. CASE Connect \/ RetryFires
    BY <2>1, Queued DEF Connect, RetryFires, runs, IInv, Types, RunTypes
  <2>2. CASE Disconnect
    BY <2>2 DEF Disconnect, control, runs, IInv, Types, QueueType, RunTypes
  <2>3. ASSUME NEW r \in Run, RunStarts(r) \/ RunEnds(r)
        PROVE  QueueType' /\ RunTypes'
    <3>1. PICK from \in {"new", "active"}, to \in {"active", "ended"} : RunMoves(r, from, to)
      BY <2>3 DEF RunStarts, RunEnds
    <3>2. [run |-> r, status |-> to] \in Frame
      BY DEF Frame
    <3>3. QueueType'
      BY <3>1, <3>2, Queued DEF RunMoves, Hears, IInv, Types, QueueType
    <3>4. RunTypes'
      BY <3>1 DEF RunMoves, IInv, Types, RunTypes
    <3> QED
      BY <3>3, <3>4
  <2> QED
    BY <2>1, <2>2, <2>3 DEF Gateway
<1> QED
  BY <1>1, <1>3, <1>4, <1>5, <1>6, Untouched DEF IInv, Types

(* What follows a drain: the source stays, or gives way to a later one that *)
(* is not registered.                                                       *)
LEMMA AfterDrainKeeps ==
    ASSUME IInv, at = "drain", NEW gap \in BOOLEAN, NEW n \in Nat, AfterDrain(gap, n),
           UNCHANGED <<loaded, beGen>>
    PROVE  /\ SourceInv' /\ ControlInv'
           /\ store \in Source /\ store' \in Source /\ store.gen <= store'.gen
           /\ current' \in Source /\ encSeq' \in Nat /\ encRun' \in [Session -> Frame \cup {None}]
           /\ retry' \in BOOLEAN /\ gens' \in 0..MaxGen /\ frame' \in Frame \cup {None}
           /\ at' \in {"idle", "activate", "register", "query", "encode"}
           /\ then' \in {None, "rotated"}
<1> USE Constants DEF IInv, Types
<1>1. /\ loaded /\ current = store /\ store \in Source /\ store.registered
      /\ store.gen <= gens /\ beGen = store.gen
  BY DEF SourceInv, ControlInv, Registered
<1>2. then \in {"bootstrap", "again", "rotated", "frame", "replay", "reconciled"}
  BY DEF ControlInv, PlaceTypes
<1>3. CASE then = "replay" /\ (gap \/ n = 0)
  <2>1. Rotate /\ UNCHANGED <<retry, frame>>
    BY <1>3 DEF AfterDrain
  <2>2. store' = [gen |-> gens + 1, registered |-> FALSE] /\ gens + 1 \in 1..MaxGen
    BY <2>1 DEF Rotate, SourceTypes
  <2>3. store' \in Source /\ store'.gen = gens' /\ ~store'.registered /\ current' = store'
    BY <2>1, <2>2 DEF Rotate, Source
  <2>4. store.gen <= store'.gen
    BY <1>1, <2>1, <2>3 DEF Rotate, SourceTypes, Source
  <2>5. at' = "register" /\ then' = "rotated" /\ encSeq' = 0 /\ encRun' = NoRun
    BY <2>1 DEF Rotate, Goto
  <2>6. SourceInv' /\ ControlInv'
    BY <1>1, <2>2, <2>3, <2>5, <2>1 DEF SourceInv, ControlInv, Rotate, SourceTypes
  <2> QED
    BY <1>1, <2>1, <2>2, <2>3, <2>4, <2>5, <2>6 DEF SourceTypes, FlagTypes, PlaceTypes, NoRun, Rotate
<1>4. CASE ~(then = "replay" /\ (gap \/ n = 0))
  <2>1. UNCHANGED <<store, current, encSeq, encRun, gens>>
    BY <1>2, <1>4 DEF AfterDrain
  <2>2. /\ retry' \in BOOLEAN
        /\ \/ EndActivation(current)
           \/ then' = None /\ at' \in {"idle", "activate", "query"} /\ frame' = frame
    BY <1>2, <1>4 DEF AfterDrain, Goto, FlagTypes, PlaceTypes
  <2>3. /\ then' = None /\ at' \in {"idle", "activate", "query", "encode"} /\ frame' \in Frame \cup {None}
        /\ at' = "encode" => frame' \in Frame
    BY <1>1, <2>2 DEF EndActivation, Goto, PlaceTypes
  <2>4. SourceInv' /\ ControlInv'
    BY <1>1, <2>1, <2>3 DEF SourceInv, ControlInv, Registered
  <2> QED
    BY <1>1, <2>1, <2>2, <2>3, <2>4 DEF SourceTypes, FlagTypes, PlaceTypes, Source
<1> QED
  BY <1>3, <1>4

(* The encoder numbers within the generation in memory, and enqueue()       *)
(* appends if at all.                                                       *)
LEMMA EncodeKeeps ==
    ASSUME IInv, current \in Source, NEW f \in Frame, Encode(f)
    PROVE  /\ OutboxType'
           /\ encSeq' \in Nat /\ encRun' \in [Session -> Frame \cup {None}]
           /\ outbox' = outbox \/ outbox' = Append(outbox, Numbered(f))
           /\ Numbered(f) \in Event /\ Numbered(f).gen = current.gen
<1>1. Numbered(f) \in Event /\ Numbered(f).gen = current.gen
  BY DEF Numbered, Event, Source, Frame, IInv, Types, SourceTypes
<1>2. sessionOf[f.run] \in Session
  BY Constants DEF Frame, IInv, Types, RunTypes
<1>3. encSeq' \in Nat /\ encRun' \in [Session -> Frame \cup {None}]
  BY <1>2 DEF Encode, IInv, Types, SourceTypes
<1>4. CASE Refused(Numbered(f))
  BY <1>1, <1>3, <1>4 DEF Encode, IInv, Types, OutboxType
<1>5. CASE ~Refused(Numbered(f))
  <2>1. outbox' = Append(outbox, Numbered(f)) /\ Len(outbox) < MaxPending
    BY <1>5, Constants, LenProperties DEF Encode, Refused, IInv, Types, OutboxType
  <2>2. outbox' \in Seq(Event) /\ Len(outbox') = Len(outbox) + 1
    BY <1>1, <2>1, AppendProperties DEF IInv, Types, OutboxType
  <2>3. OutboxType'
    BY <2>1, <2>2, Constants, LenProperties DEF IInv, Types, OutboxType
  <2> QED
    BY <1>1, <1>3, <2>1, <2>3
<1> QED
  BY <1>4, <1>5

(* An event of the generation on disk may join the pending ones.            *)
LEMMA Appended ==
    ASSUME OutboxType, OutboxInv, UNCHANGED store, store \in Source, NEW e \in Event, e.gen <= store.gen,
           outbox' = outbox \/ outbox' = Append(outbox, e)
    PROVE  OutboxInv'
<1>1. CASE outbox' = outbox
  BY <1>1 DEF OutboxInv
<1>2. CASE outbox' = Append(outbox, e)
  <2>1. SUFFICES ASSUME NEW i \in DOMAIN outbox' PROVE outbox'[i].gen <= store.gen
    BY DEF OutboxInv
  <2>2. /\ i \in 1..(Len(outbox) + 1) /\ DOMAIN outbox = 1..Len(outbox) /\ Len(outbox) \in Nat
        /\ outbox'[i] = IF i <= Len(outbox) THEN outbox[i] ELSE e
    BY <1>2, <2>1, AppendProperties, LenProperties DEF OutboxType
  <2> QED
    BY <2>2 DEF OutboxInv
<1> QED
  BY <1>1, <1>2

LEMMA Dropped ==
    ASSUME OutboxType, outbox # <<>>, outbox' = Tail(outbox)
    PROVE  /\ OutboxType'
           /\ \A i \in DOMAIN outbox' : i + 1 \in DOMAIN outbox /\ outbox'[i] = outbox[i + 1]
           /\ 1 \in DOMAIN outbox /\ Head(outbox) = outbox[1] /\ Head(outbox) \in Event
           /\ \A i \in DOMAIN outbox : i # 1 => i - 1 \in DOMAIN outbox' /\ outbox'[i - 1] = outbox[i]
<1>1. /\ Tail(outbox) \in Seq(Event) /\ Len(Tail(outbox)) = Len(outbox) - 1 /\ Head(outbox) \in Event
      /\ \A i \in 1..Len(Tail(outbox)) : Tail(outbox)[i] = outbox[i + 1]
  BY HeadTailProperties DEF OutboxType
<1>2. /\ DOMAIN outbox = 1..Len(outbox) /\ Len(outbox) \in Nat \ {0}
      /\ DOMAIN outbox' = 1..(Len(outbox) - 1)
  BY <1>1, LenProperties, EmptySeq DEF OutboxType
<1> QED
  BY <1>1, <1>2, Constants DEF OutboxType

LEMMA TakenTypes ==
    ASSUME BackendTypes, NEW e \in Event, BackendTakes(e)
    PROVE  BackendTypes' /\ beGen' = beGen
BY DEF BackendTakes, BackendTypes, backend, Event

LEMMA RegisteredTypes ==
    ASSUME BackendTypes, NEW g \in 1..MaxGen, BackendRegisters(g)
    PROVE  BackendTypes' /\ beGen' = g
BY Constants DEF BackendRegisters, BackendTypes

(* A drain that stops.                                                      *)
LEMMA DrainStops ==
    ASSUME IInv, Drained \/ SubmitGap \/ SubmitFails \/ SubmitRejected
    PROVE  IInv'
<1>1. at = "drain" /\ UNCHANGED <<loaded, connected, queue, response, todo, run, sessionOf>>
  BY DEF Drained, SubmitGap, SubmitFails, SubmitRejected, drainFrame, runs
<1>2. Len(outbox) \in Nat /\ (outbox # <<>> => Len(outbox) - 1 \in Nat)
  BY LenProperties, EmptySeq DEF IInv, Types, OutboxType
<1>3. PICK gap \in BOOLEAN, n \in Nat : AfterDrain(gap, n)
  BY <1>2 DEF Drained, SubmitGap, SubmitFails, SubmitRejected
<1>4. outbox' = outbox \/ (outbox # <<>> /\ outbox' = Tail(outbox))
  BY DEF Drained, SubmitGap, SubmitFails, SubmitRejected
<1>5. UNCHANGED backend \/ (outbox # <<>> /\ BackendTakes(Head(outbox)))
  BY DEF Drained, SubmitGap, SubmitFails, SubmitRejected
<1>6. BackendTypes' /\ beGen' = beGen
  <2>1. outbox # <<>> => Head(outbox) \in Event
    BY HeadTailProperties DEF IInv, Types, OutboxType
  <2>2. CASE UNCHANGED backend
    BY <2>2 DEF backend, IInv, Types, BackendTypes
  <2> QED
    BY <1>5, <2>1, <2>2, TakenTypes DEF IInv, Types
<1>7. /\ SourceInv' /\ ControlInv'
      /\ store \in Source /\ store' \in Source /\ store.gen <= store'.gen
      /\ current' \in Source /\ encSeq' \in Nat /\ encRun' \in [Session -> Frame \cup {None}]
      /\ retry' \in BOOLEAN /\ gens' \in 0..MaxGen /\ frame' \in Frame \cup {None}
      /\ at' \in {"idle", "activate", "register", "query", "encode"}
      /\ then' \in {None, "rotated"}
  BY <1>1, <1>3, <1>6, AfterDrainKeeps
<1>8. OutboxType' /\ \A i \in DOMAIN outbox' : \E j \in DOMAIN outbox : outbox'[i] = outbox[j]
  <2>1. CASE outbox' = outbox
    BY <2>1 DEF IInv, Types, OutboxType
  <2>2. CASE outbox # <<>> /\ outbox' = Tail(outbox)
    BY <2>2, Dropped DEF IInv, Types
  <2> QED
    BY <1>4, <2>1, <2>2
<1>9. OutboxInv'
  <2> SUFFICES ASSUME NEW i \in DOMAIN outbox' PROVE outbox'[i].gen <= store'.gen
    BY <1>7 DEF OutboxInv
  <2>1. PICK j \in DOMAIN outbox : outbox'[i] = outbox[j]
    BY <1>8
  <2>2. outbox[j] \in Event
    BY LenProperties, ElementOfSeq DEF IInv, Types, OutboxType
  <2> QED
    BY <1>7, <2>1, <2>2 DEF IInv, OutboxInv, Event, Source
<1>10. HistoryTypes'
  BY OneMishap DEF Drained, SubmitGap, SubmitFails, SubmitRejected, IInv, Types, HistoryTypes, Reason
<1>11. SourceTypes' /\ PlaceTypes'
  BY <1>1, <1>7 DEF IInv, Types, SourceTypes, PlaceTypes
<1>12. FlagTypes' /\ QueueType' /\ RunTypes'
  BY <1>1, <1>7 DEF IInv, Types, FlagTypes, QueueType, RunTypes
<1> QED
  BY <1>6, <1>7, <1>8, <1>9, <1>10, <1>11, <1>12 DEF IInv, Types

LEMMA SubmitStep ==
    ASSUME IInv, Submit
    PROVE  IInv'
<1>1. UNCHANGED <<store, memory, link, control, runs, gens, mishaps, doubt>>
  BY DEF Submit
<1>2. OutboxType' /\ Head(outbox) \in Event
  BY Dropped DEF Submit, IInv, Types
<1>3. BackendTypes' /\ beGen' = beGen
  BY <1>2, TakenTypes DEF Submit, IInv, Types
<1>4. OutboxInv'
  BY <1>1, Dropped DEF Submit, IInv, Types, OutboxInv
<1>5. SourceInv' /\ ControlInv'
  BY <1>1, <1>3 DEF IInv, SourceInv, ControlInv, Registered, memory, control
<1>6. SourceTypes' /\ FlagTypes' /\ QueueType' /\ PlaceTypes' /\ RunTypes' /\ HistoryTypes'
  BY <1>1 DEF IInv, Types, SourceTypes, FlagTypes, QueueType, PlaceTypes, RunTypes, HistoryTypes,
              memory, link, control, runs
<1> QED
  BY <1>2, <1>3, <1>4, <1>5, <1>6 DEF IInv, Types

(* An operation begins, or reads the source from disk.                      *)
LEMMA BeginSteps ==
    ASSUME IInv, TakeFrame \/ TakeActivation \/ Activate
    PROVE  IInv'
<1>1. UNCHANGED <<store, outbox, encSeq, encRun, connected, response, todo, backend, runs, gens, doubt>>
  BY DEF TakeFrame, TakeActivation, Activate, disk, memory, link
<1>2. OutboxType' /\ OutboxInv' /\ BackendTypes' /\ RunTypes' /\ beGen' = beGen
  BY <1>1 DEF IInv, Types, OutboxType, OutboxInv, BackendTypes, RunTypes, backend, runs
<1>3. HistoryTypes'
  BY <1>1, OneMishap DEF TakeFrame, TakeActivation, Activate, IInv, Types, HistoryTypes
<1>4. CASE TakeFrame
  <2>1. Tail(queue) \in Seq(Frame \cup {Activation}) /\ Head(queue) \in Frame
    BY <1>4, HeadTailProperties DEF TakeFrame, IInv, Types, QueueType
  <2>2. QueueType' /\ PlaceTypes' /\ SourceTypes'
    BY <1>4, <2>1 DEF TakeFrame, Goto, memory, IInv, Types, QueueType, PlaceTypes, SourceTypes, disk
  <2>3. FlagTypes'
    BY <1>4, Zenon DEF TakeFrame, memory, link, IInv, Types, FlagTypes
  <2>4. SourceInv' /\ ControlInv'
    BY <1>1, <1>2, <1>4, <2>1, Constants
       DEF TakeFrame, Goto, memory, IInv, Types, SourceTypes, SourceInv, ControlInv
  <2> QED
    BY <1>2, <1>3, <2>2, <2>3, <2>4 DEF IInv, Types
<1>5. CASE TakeActivation
  <2>1. Tail(queue) \in Seq(Frame \cup {Activation})
    BY <1>5, HeadTailProperties DEF TakeActivation, IInv, Types, QueueType
  <2>2. at' \in {"idle", "activate"} /\ then' = None /\ UNCHANGED <<current, loaded, frame>>
    BY <1>5 DEF TakeActivation, Goto, memory
  <2>3. QueueType' /\ PlaceTypes' /\ SourceTypes'
    BY <1>1, <1>5, <2>1, <2>2 DEF TakeActivation, IInv, Types, QueueType, PlaceTypes, SourceTypes
  <2>4. FlagTypes'
    BY <1>1, <1>5, <2>2, Zenon DEF TakeActivation, IInv, Types, FlagTypes
  <2>5. SourceInv' /\ ControlInv'
    BY <1>1, <1>2, <2>2 DEF IInv, SourceInv, ControlInv
  <2> QED
    BY <1>2, <1>3, <2>3, <2>4, <2>5 DEF IInv, Types
<1>6. CASE Activate
  <2>1. current' = store /\ loaded' = TRUE /\ UNCHANGED <<queue, frame, retry>>
    BY <1>6 DEF Activate, IInv, SourceInv, link
  <2>2. \/ at' = "drain" /\ then' = "replay" /\ store # None /\ store.registered
        \/ at' = "register" /\ then' = "bootstrap" /\ store = None
        \/ at' = "register" /\ then' = "again" /\ store # None /\ ~store.registered
    BY <1>6, <2>1 DEF Activate, Goto
  <2>3. QueueType' /\ PlaceTypes' /\ SourceTypes'
    BY <1>1, <2>1, <2>2 DEF IInv, Types, QueueType, PlaceTypes, SourceTypes
  <2>4. FlagTypes'
    BY <1>1, <2>1, Zenon DEF IInv, Types, FlagTypes
  <2>5. SourceInv'
    BY <1>1, <1>2, <2>1 DEF IInv, SourceInv
  <2>6. ControlInv'
    <3>1. loaded' /\ (store # None => current' \in Source) /\ (store = None => current' = None)
      BY <2>1, Constants DEF IInv, Types, SourceTypes
    <3> QED
      BY <2>1, <2>2, <3>1, Constants DEF ControlInv, Registered
  <2> QED
    BY <1>2, <1>3, <2>3, <2>4, <2>5, <2>6 DEF IInv, Types
<1> QED
  BY <1>4, <1>5, <1>6

(* What a registration asks for: a new generation when there is none, else  *)
(* the one in memory, which is not registered.                              *)
LEMMA Asked ==
    ASSUME IInv, at = "register", RegisteredGen <= MaxGen
    PROVE  /\ RegisteredGen \in 1..MaxGen /\ loaded /\ current = store
           /\ \/ then = "bootstrap" /\ store = None /\ RegisteredGen = gens + 1
              \/ then # "bootstrap" /\ store \in Source /\ ~store.registered /\ RegisteredGen = store.gen
           /\ \A i \in DOMAIN outbox : outbox[i].gen <= RegisteredGen
<1>1. loaded /\ current = store
  BY DEF IInv, ControlInv, SourceInv
<1>2. CASE then = "bootstrap"
  <2>1. store = None /\ RegisteredGen = gens + 1
    BY <1>1, <1>2 DEF RegisteredGen, IInv, ControlInv
  <2> QED
    BY <1>1, <1>2, <2>1, Constants DEF IInv, Types, SourceTypes, OutboxInv
<1>3. CASE then # "bootstrap"
  <2>1. store \in Source /\ ~store.registered /\ RegisteredGen = store.gen
    BY <1>1, <1>3 DEF RegisteredGen, IInv, ControlInv
  <2> QED
    BY <1>1, <1>3, <2>1 DEF Source, IInv, OutboxInv
<1> QED
  BY <1>2, <1>3

LEMMA RegisterStep ==
    ASSUME IInv, Register
    PROVE  IInv'
<1>1. /\ RegisteredGen \in 1..MaxGen /\ loaded /\ current = store
      /\ \/ then = "bootstrap" /\ store = None /\ RegisteredGen = gens + 1
         \/ then # "bootstrap" /\ store \in Source /\ ~store.registered /\ RegisteredGen = store.gen
      /\ \A i \in DOMAIN outbox : outbox[i].gen <= RegisteredGen
  BY Asked DEF Register
<1>2. /\ UNCHANGED <<outbox, loaded, connected, retry, queue, frame, todo, run, sessionOf, mishaps>>
      /\ response' = beActive /\ current' = store' /\ at' = "drain" /\ then' = then
      /\ store' = [gen |-> RegisteredGen, registered |-> TRUE]
  BY DEF Register, Goto, link, runs
<1>3. store' \in Source /\ store'.gen = RegisteredGen /\ store'.registered
  BY <1>1, <1>2 DEF Source
<1>4. BackendTypes' /\ beGen' = RegisteredGen
  BY <1>1, RegisteredTypes DEF Register, IInv, Types
<1>5. encSeq' \in Nat /\ encRun' \in [Session -> Frame \cup {None}] /\ gens' \in 0..MaxGen /\ RegisteredGen <= gens'
  BY <1>1 DEF Register, NoRun, IInv, Types, SourceTypes, SourceInv
<1>6. SourceTypes' /\ PlaceTypes'
  BY <1>2, <1>3, <1>5 DEF IInv, Types, SourceTypes, PlaceTypes, BackendTypes
<1>7. FlagTypes' /\ OutboxType' /\ QueueType' /\ RunTypes'
  BY <1>2 DEF IInv, Types, FlagTypes, OutboxType, QueueType, RunTypes
<1>8. HistoryTypes'
  BY <1>2 DEF Register, IInv, Types, HistoryTypes, Reason
<1>9. SourceInv' /\ OutboxInv'
  BY <1>1, <1>2, <1>3, <1>4, <1>5 DEF SourceInv, OutboxInv
<1>10. ControlInv'
  BY <1>2, <1>3 DEF Register, IInv, ControlInv, Registered
<1> QED
  BY <1>4, <1>6, <1>7, <1>8, <1>9, <1>10 DEF IInv, Types

(* A registration that fails or loses its answer, and one that the death of *)
(* the process cuts short, may have reached the backend.                    *)
LEMMA RegistersUnseen ==
    ASSUME IInv, at = "register", RegisteredGen <= MaxGen, UNCHANGED store,
           UNCHANGED backend \/ BackendRegisters(RegisteredGen),
           gens' = IF then = "bootstrap" THEN RegisteredGen ELSE gens
    PROVE  /\ BackendTypes' /\ gens' \in 0..MaxGen
           /\ store' \in Source => store'.gen <= gens' /\ (store'.registered => beGen' = store'.gen)
<1>1. /\ RegisteredGen \in 1..MaxGen
      /\ \/ then = "bootstrap" /\ store = None /\ RegisteredGen = gens + 1
         \/ then # "bootstrap" /\ store \in Source /\ ~store.registered /\ RegisteredGen = store.gen
  BY Asked
<1>2. BackendTypes'
  BY <1>1, RegisteredTypes DEF IInv, Types, BackendTypes, backend
<1> QED
  BY <1>1, <1>2, Constants DEF IInv, Types, SourceTypes, SourceInv

(* The end of an activation leaves the source in peace.                     *)
LEMMA Ended ==
    ASSUME PlaceTypes, EndActivation(current), current \in Source \cup {None}
    PROVE  /\ at' \in {"idle", "encode"} /\ then' = None /\ frame' \in Frame \cup {None}
           /\ at' = "encode" => current \in Source /\ frame' \in Frame
BY Constants DEF EndActivation, Goto, PlaceTypes

LEMMA RegisterFailsStep ==
    ASSUME IInv, RegisterFails
    PROVE  IInv'
<1>1. UNCHANGED <<store, outbox, current, loaded, encSeq, encRun, connected, queue, response, todo, run,
                  sessionOf, doubt>>
  BY DEF RegisterFails, disk, memory, runs
<1>2. /\ BackendTypes' /\ gens' \in 0..MaxGen
      /\ store' \in Source => store'.gen <= gens' /\ (store'.registered => beGen' = store'.gen)
  BY <1>1, RegistersUnseen DEF RegisterFails
<1>3. /\ at' \in {"idle", "encode"} /\ then' = None /\ frame' \in Frame \cup {None}
      /\ at' = "encode" => current \in Source /\ frame' \in Frame
  BY Ended DEF RegisterFails, Goto, IInv, Types, SourceTypes, PlaceTypes
<1>4. SourceTypes' /\ PlaceTypes'
  BY <1>1, <1>2, <1>3 DEF IInv, Types, SourceTypes, PlaceTypes
<1>5. FlagTypes'
  BY <1>1, Zenon DEF RegisterFails, IInv, Types, FlagTypes
<1>6. OutboxType' /\ QueueType' /\ RunTypes' /\ OutboxInv'
  BY <1>1 DEF IInv, Types, OutboxType, QueueType, RunTypes, OutboxInv
<1>7. HistoryTypes'
  BY <1>1, OneMishap DEF RegisterFails, IInv, Types, HistoryTypes
<1>8. loaded
  BY DEF RegisterFails, IInv, ControlInv
<1>9. SourceInv' /\ ControlInv'
  BY <1>1, <1>2, <1>3, <1>8 DEF IInv, SourceInv, ControlInv
<1> QED
  BY <1>2, <1>4, <1>5, <1>6, <1>7, <1>9 DEF IInv, Types

(* The reconciliation asks the gateway, and turns to the corrections.       *)
LEMMA QuerySteps ==
    ASSUME IInv, Query \/ QueryFails \/ Corrected
    PROVE  IInv'
<1>1. UNCHANGED <<store, outbox, current, loaded, encSeq, encRun, connected, retry, queue, response,
                  backend, run, sessionOf, gens>>
  BY DEF Query, QueryFails, Corrected, disk, memory, link, runs
<1>2. /\ at \in {"query", "correct"} /\ current \in Source /\ current.registered /\ current' = current
      /\ loaded /\ beGen' = beGen
  BY <1>1 DEF Query, QueryFails, Corrected, IInv, ControlInv, SourceInv, Registered, backend
<1>3. /\ frame' \in Frame \cup {None} /\ todo' \subseteq Frame
      /\ \/ at' = "correct" /\ then' = None
         \/ at' = "drain" /\ then' = "reconciled"
         \/ at' \in {"idle", "encode"} /\ then' = None /\ (at' = "encode" => frame' \in Frame)
  <2>1. CASE Query
    <3>1. Live \subseteq Run /\ response \subseteq Run
      BY DEF Live, IInv, Types, PlaceTypes
    <3> QED
      BY <2>1, <3>1 DEF Query, Goto, IInv, Types, PlaceTypes, Frame
  <2>2. CASE QueryFails
    BY <1>2, <2>2, Ended DEF QueryFails, IInv, Types, PlaceTypes
  <2>3. CASE Corrected
    BY <2>3 DEF Corrected, Goto, IInv, Types, PlaceTypes
  <2> QED
    BY <2>1, <2>2, <2>3
<1>4. SourceTypes' /\ OutboxType' /\ QueueType' /\ BackendTypes' /\ RunTypes' /\ OutboxInv'
  BY <1>1 DEF IInv, Types, SourceTypes, OutboxType, QueueType, BackendTypes, RunTypes, OutboxInv, backend
<1>5. FlagTypes' /\ PlaceTypes'
  BY <1>1, <1>3 DEF IInv, Types, FlagTypes, PlaceTypes
<1>6. HistoryTypes'
  BY OneMishap DEF Query, QueryFails, Corrected, IInv, Types, HistoryTypes, Reason
<1>7. SourceInv' /\ ControlInv'
  BY <1>1, <1>2, <1>3 DEF IInv, SourceInv, ControlInv, Registered
<1> QED
  BY <1>4, <1>5, <1>6, <1>7 DEF IInv, Types

(* One frame or correction goes through the encoder, or is passed over.     *)
LEMMA CorrectStep ==
    ASSUME IInv, NEW f \in Frame, Correct(f)
    PROVE  IInv'
<1>1. UNCHANGED <<store, current, loaded, connected, retry, queue, response, backend, run, sessionOf,
                  gens, mishaps>>
  BY DEF Correct, link, runs
<1>2. /\ at = "correct" /\ current \in Source /\ current.registered /\ current = store /\ loaded
      /\ current' = current /\ store' = store /\ beGen' = beGen
  BY <1>1 DEF Correct, IInv, ControlInv, SourceInv, Registered, backend
<1>3. Encode(f) \/ UNCHANGED <<outbox, encSeq, encRun>>
  BY DEF Correct
<1>4. OutboxType' /\ OutboxInv' /\ encSeq' \in Nat /\ encRun' \in [Session -> Frame \cup {None}]
  <2>1. CASE Encode(f)
    <3>1. /\ OutboxType' /\ encSeq' \in Nat /\ encRun' \in [Session -> Frame \cup {None}]
          /\ outbox' = outbox \/ outbox' = Append(outbox, Numbered(f))
          /\ Numbered(f) \in Event /\ Numbered(f).gen = current.gen
      BY <1>2, <2>1, EncodeKeeps
    <3>2. Numbered(f).gen <= store.gen
      BY <1>2, <3>1 DEF Event
    <3>3. OutboxInv'
      BY <1>2, <3>1, <3>2, Appended DEF IInv, Types
    <3> QED
      BY <3>1, <3>3
  <2>2. CASE UNCHANGED <<outbox, encSeq, encRun>>
    BY <1>1, <2>2 DEF IInv, Types, OutboxType, OutboxInv, SourceTypes
  <2> QED
    BY <1>3, <2>1, <2>2
<1>5. /\ todo' \subseteq Frame /\ doubt' \subseteq Reason
      /\ \/ UNCHANGED <<at, then, frame>>
         \/ EndActivation(current)
  BY DEF Correct, IInv, Types, PlaceTypes, HistoryTypes, Reason
<1>6. /\ frame' \in Frame \cup {None} /\ at' \in {"correct", "idle", "encode"}
      /\ then' \in {None, "bootstrap", "again", "rotated", "frame", "replay", "reconciled"}
      /\ at' = "encode" => frame' \in Frame
  BY <1>2, <1>5, Ended DEF IInv, Types, PlaceTypes
<1>7. SourceTypes' /\ PlaceTypes' /\ HistoryTypes'
  BY <1>1, <1>4, <1>5, <1>6 DEF IInv, Types, SourceTypes, PlaceTypes, HistoryTypes
<1>8. FlagTypes' /\ QueueType' /\ BackendTypes' /\ RunTypes'
  BY <1>1 DEF IInv, Types, FlagTypes, QueueType, BackendTypes, RunTypes, backend
<1>9. SourceInv' /\ ControlInv'
  BY <1>1, <1>2, <1>6 DEF IInv, SourceInv, ControlInv, Registered
<1> QED
  BY <1>4, <1>7, <1>8, <1>9 DEF IInv, Types

LEMMA EncodeFrameStep ==
    ASSUME IInv, EncodeFrame
    PROVE  IInv'
<1>1. UNCHANGED <<store, current, loaded, connected, retry, queue, response, todo, backend, run, sessionOf,
                  gens, mishaps>>
  BY DEF EncodeFrame, link, runs
<1>2. /\ at = "encode" /\ frame \in Frame /\ current \in Source /\ current = store /\ loaded
      /\ current' = current /\ store' = store /\ beGen' = beGen
  BY <1>1 DEF EncodeFrame, IInv, ControlInv, SourceInv, backend
<1>3. Encode(frame) \/ UNCHANGED <<outbox, encSeq, encRun>>
  BY DEF EncodeFrame
<1>4. OutboxType' /\ OutboxInv' /\ encSeq' \in Nat /\ encRun' \in [Session -> Frame \cup {None}]
  <2>1. CASE Encode(frame)
    <3>1. /\ OutboxType' /\ encSeq' \in Nat /\ encRun' \in [Session -> Frame \cup {None}]
          /\ outbox' = outbox \/ outbox' = Append(outbox, Numbered(frame))
          /\ Numbered(frame) \in Event /\ Numbered(frame).gen = current.gen
      BY <1>2, <2>1, EncodeKeeps
    <3>2. Numbered(frame).gen <= store.gen
      BY <1>2, <3>1 DEF Event
    <3>3. OutboxInv'
      BY <1>2, <3>1, <3>2, Appended DEF IInv, Types
    <3> QED
      BY <3>1, <3>3
  <2>2. CASE UNCHANGED <<outbox, encSeq, encRun>>
    BY <1>1, <2>2 DEF IInv, Types, OutboxType, OutboxInv, SourceTypes
  <2> QED
    BY <1>3, <2>1, <2>2
<1>5. /\ frame' = None
      /\ \/ at' = "idle" /\ then' = None
         \/ at' = "drain" /\ then' = "frame" /\ current.registered
         \/ at' = "register" /\ then' = "frame" /\ ~current.registered
  BY DEF EncodeFrame, Goto
<1>6. doubt' \subseteq Reason
  BY DEF EncodeFrame, IInv, Types, HistoryTypes, Reason
<1>7. SourceTypes' /\ PlaceTypes' /\ HistoryTypes'
  BY <1>1, <1>4, <1>5, <1>6 DEF IInv, Types, SourceTypes, PlaceTypes, HistoryTypes
<1>8. FlagTypes' /\ QueueType' /\ BackendTypes' /\ RunTypes'
  BY <1>1 DEF IInv, Types, FlagTypes, QueueType, BackendTypes, RunTypes, backend
<1>9. SourceInv' /\ ControlInv'
  BY <1>1, <1>2, <1>5 DEF IInv, SourceInv, ControlInv, Registered
<1> QED
  BY <1>4, <1>7, <1>8, <1>9 DEF IInv, Types

(* The disk outlives the process, and the backend may have had its call.    *)
LEMMA CrashStep ==
    ASSUME IInv, Crash
    PROVE  IInv'
<1>1. /\ current' = None /\ encSeq' = 0 /\ encRun' = NoRun /\ queue' = <<>> /\ at' = "idle"
      /\ then' = None /\ frame' = None /\ response' = {} /\ todo' = {}
      /\ UNCHANGED <<store, outbox, run, sessionOf, doubt>>
  BY DEF Crash, disk, runs
<1>2. loaded' = FALSE /\ connected' = FALSE /\ retry' = FALSE
  BY DEF Crash
<1>3. /\ BackendTypes' /\ gens' \in 0..MaxGen
      /\ store' \in Source => store'.gen <= gens' /\ (store'.registered => beGen' = store'.gen)
  <2>1. CASE UNCHANGED <<backend, gens>>
    BY <1>1, <2>1 DEF backend, IInv, Types, BackendTypes, SourceTypes, SourceInv
  <2>2. CASE outbox # <<>> /\ BackendTakes(Head(outbox)) /\ UNCHANGED gens
    <3>1. Head(outbox) \in Event
      BY <2>2, HeadTailProperties DEF IInv, Types, OutboxType
    <3> QED
      BY <1>1, <2>2, <3>1, TakenTypes DEF IInv, Types, SourceTypes, SourceInv
  <2>3. CASE /\ at = "register" /\ RegisteredGen <= MaxGen /\ BackendRegisters(RegisteredGen)
             /\ gens' = IF then = "bootstrap" THEN RegisteredGen ELSE gens
    BY <1>1, <2>3, RegistersUnseen
  <2> QED
    BY <2>1, <2>2, <2>3 DEF Crash
<1>4. SourceTypes' /\ OutboxType' /\ QueueType' /\ PlaceTypes' /\ RunTypes' /\ OutboxInv'
  BY <1>1, <1>3 DEF IInv, Types, SourceTypes, OutboxType, QueueType, PlaceTypes, RunTypes, OutboxInv, NoRun
<1>5. FlagTypes'
  BY <1>2, Zenon DEF FlagTypes
<1>6. HistoryTypes'
  BY <1>1, OneMishap DEF Crash, IInv, Types, HistoryTypes
<1>7. SourceInv'
  <2>1. ~loaded'
    BY <1>2, Zenon
  <2> QED
    BY <1>1, <1>3, <2>1 DEF SourceInv
<1>8. ControlInv'
  BY <1>1 DEF ControlInv
<1> QED
  BY <1>3, <1>4, <1>5, <1>6, <1>7, <1>8 DEF IInv, Types

(* One step keeps the invariant.                                            *)
LEMMA Step ==
    ASSUME IInv, [Next]_vars
    PROVE  IInv'
<1>1. CASE UNCHANGED vars
  <2>1. UNCHANGED <<store, outbox, current, loaded, encSeq, encRun, connected, retry, queue, at, then, frame,
                    response, todo, beGen, beSeq, beActive, run, sessionOf, gens, mishaps, doubt>>
    BY <1>1 DEF vars, disk, memory, link, control, backend, runs
  <2>2. Types'
    BY <2>1 DEF IInv, Types, SourceTypes, FlagTypes, OutboxType, QueueType, PlaceTypes, BackendTypes,
                RunTypes, HistoryTypes
  <2> QED
    BY <2>1, <2>2, Untouched DEF IInv
<1>2. CASE Operation
  BY <1>2, BeginSteps, RegisterStep, RegisterFailsStep, DrainStops, SubmitStep, QuerySteps, CorrectStep,
     EncodeFrameStep DEF Operation
<1> QED
  BY <1>1, <1>2, GatewaySteps, CrashStep DEF Next

LEMMA Invariant ==
    Spec => []IInv
<1>1. IInv /\ [Next]_vars => IInv'
  BY Step
<1> QED
  BY <1>1, Start, PTL DEF Spec

(* TypeOK: the relay's variables keep their types; the outbox never holds   *)
(* more than its capacity.                                                  *)
THEOREM TypeCorrect == Spec => []TypeOK
<1>1. IInv => TypeOK
  BY TypesAreTypeOK DEF IInv
<1> QED
  BY <1>1, Invariant, PTL

(* RegisteredFirst: a drain submits only events of generations that the     *)
(* backend has registered, or has already left behind.                      *)
THEOREM DrainsWhatIsRegistered == Spec => []RegisteredFirst
<1>1. IInv => RegisteredFirst
  <2> SUFFICES ASSUME IInv, at = "drain", NEW i \in DOMAIN outbox PROVE outbox[i].gen <= beGen
    BY DEF RegisteredFirst
  <2>1. store \in Source /\ beGen = store.gen
    BY DEF IInv, ControlInv, SourceInv, Registered
  <2> QED
    BY <2>1 DEF IInv, OutboxInv
<1> QED
  BY <1>1, Invariant, PTL

(* LeavesWhenTaken: an event leaves the outbox only when the backend has    *)
(* it, has gone on to a later generation, or has rejected it for good.      *)
THEOREM NoEventIsLost == Spec => LeavesWhenTaken
<1> DEFINE Gone(e) == \/ e.gen < beGen' \/ (e.gen = beGen' /\ e.seq <= beSeq')
                      \/ doubt' = doubt \cup {"rejected"}
           Leaves == \A i \in DOMAIN outbox :
                        (\A j \in DOMAIN outbox' : outbox'[j] # outbox[i]) => Gone(outbox[i])
<1>1. IInv /\ [Next]_vars => [Leaves]_vars
  <2> SUFFICES ASSUME IInv, Next PROVE Leaves
    OBVIOUS
  <2>1. CASE outbox' = outbox
    BY <2>1
  <2>2. CASE Submit
    <3>1. /\ Head(outbox) \in Event /\ Head(outbox) = outbox[1]
          /\ \A i \in DOMAIN outbox : i # 1 => i - 1 \in DOMAIN outbox' /\ outbox'[i - 1] = outbox[i]
          /\ 1 \in DOMAIN outbox
      BY <2>2, Dropped DEF Submit, IInv, Types
    <3>2. Head(outbox).gen <= beGen
      <4>1. store \in Source /\ beGen = store.gen
        BY <2>2 DEF Submit, IInv, ControlInv, SourceInv, Registered
      <4> QED
        BY <3>1, <4>1 DEF IInv, OutboxInv
    <3>3. Gone(Head(outbox))
      BY <2>2, <3>1, <3>2 DEF Submit, InGap, BackendTakes, backend, Event, IInv, Types, BackendTypes
    <3> HIDE DEF Gone
    <3> QED
      BY <3>1, <3>3
  <2>3. CASE SubmitRejected
    BY <2>3 DEF SubmitRejected
  <2>4. ASSUME NEW f \in Frame, outbox' = Append(outbox, Numbered(f))
        PROVE  Leaves
    <3>1. \A i \in DOMAIN outbox : i \in DOMAIN outbox' /\ outbox'[i] = outbox[i]
      BY <2>4, AppendProperties, LenProperties DEF IInv, Types, OutboxType
    <3> QED
      BY <3>1
  <2>5. \/ outbox' = outbox \/ Submit \/ SubmitRejected
        \/ \E f \in Frame : outbox' = Append(outbox, Numbered(f))
    <3>1. CASE Gateway \/ RetryFires \/ Crash
      BY <3>1 DEF Gateway, Connect, Disconnect, RunStarts, RunEnds, RunMoves, RetryFires, Crash, disk
    <3>2. CASE TakeFrame \/ TakeActivation \/ Activate \/ Query \/ QueryFails \/ Corrected
      BY <3>2 DEF TakeFrame, TakeActivation, Activate, Query, QueryFails, Corrected, disk
    <3>3. CASE Register \/ RegisterFails \/ Drained \/ SubmitGap \/ SubmitFails
      BY <3>3 DEF Register, RegisterFails, Drained, SubmitGap, SubmitFails, disk
    <3>4. CASE EncodeFrame
      <4>1. frame \in Frame
        BY <3>4 DEF EncodeFrame, IInv, ControlInv
      <4> QED
        BY <3>4, <4>1 DEF EncodeFrame, Encode
    <3>5. ASSUME NEW f \in Frame, Correct(f)
          PROVE  outbox' = outbox \/ outbox' = Append(outbox, Numbered(f))
      BY <3>5 DEF Correct, Encode
    <3> QED
      BY <3>1, <3>2, <3>3, <3>4, <3>5 DEF Next, Operation
  <2> QED
    BY <2>1, <2>2, <2>3, <2>4, <2>5
<1>2. Spec => [][Leaves]_vars
  BY <1>1, Invariant, PTL DEF Spec
<1> QED
  BY <1>2 DEF LeavesWhenTaken
-----------------------------------------------------------------------------
(* The settled view.                                                        *)

(* A generation that is not registered has nothing at the backend, and a    *)
(* fresh one nothing pending either.                                        *)
NoneEncoded == encSeq = 0 /\ encRun = NoRun
GenInv ==
    /\ store \in Source => store.gen = gens
    /\ beGen <= gens
    /\ store \in Source /\ ~store.registered /\ beGen = store.gen => beSeq = 0
    /\ current = None => NoneEncoded
    /\ at = "register" /\ then = "rotated" =>
         NoneEncoded /\ beGen < current.gen /\ \A i \in DOMAIN outbox : outbox[i].gen < current.gen
    /\ current \in Source /\ ~current.registered /\ doubt = {}
       /\ (\A i \in DOMAIN outbox : outbox[i].gen # current.gen) => NoneEncoded

(* A step that leaves the source and the encoder alone, and may drop events *)
(* only once the generation is registered.                                  *)
LEMMA GenKept ==
    ASSUME GenInv, UNCHANGED <<store, current, encSeq, encRun, beGen, gens>>,
           beSeq' = beSeq \/ (Registered /\ current = store),
           \/ outbox' = outbox
           \/ Registered /\ at' # "register",
           doubt' = doubt \/ doubt' # {},
           at' = "register" /\ then' = "rotated" => at = "register" /\ then = "rotated"
    PROVE  GenInv'
BY DEF GenInv, NoneEncoded, NoRun, Registered

LEMMA GenStart == Init => GenInv
BY Constants DEF Init, GenInv, NoneEncoded

LEMMA GenDrainStops ==
    ASSUME IInv, GenInv, Drained \/ SubmitGap \/ SubmitFails \/ SubmitRejected, IInv'
    PROVE  GenInv'
<1>1. at = "drain" /\ Registered /\ current = store /\ store \in Source /\ loaded /\ loaded' = loaded
  BY DEF Drained, SubmitGap, SubmitFails, SubmitRejected, drainFrame, IInv, ControlInv, SourceInv, Registered
<1>2. beGen' = beGen
  BY DEF Drained, SubmitGap, SubmitFails, SubmitRejected, backend, BackendTakes
<1>3. PICK gap, n : AfterDrain(gap, n)
  BY DEF Drained, SubmitGap, SubmitFails, SubmitRejected
<1>4. then \in {"bootstrap", "again", "rotated", "frame", "replay", "reconciled"}
  BY <1>1 DEF IInv, ControlInv
<1>5. CASE then = "replay" /\ (gap \/ n = 0)
  <2>1. Rotate
    BY <1>3, <1>5 DEF AfterDrain
  <2>2. /\ gens' = gens + 1 /\ store' = [gen |-> gens + 1, registered |-> FALSE] /\ current' = store'
        /\ NoneEncoded' /\ at' = "register" /\ then' = "rotated" /\ gens \in Nat /\ beGen \in Nat
    BY <2>1, Constants DEF Rotate, Goto, NoneEncoded, NoRun, IInv, Types, SourceTypes, BackendTypes
  <2>3. \A i \in DOMAIN outbox' : outbox'[i].gen <= gens /\ outbox'[i].gen \in Nat
    <3> SUFFICES ASSUME NEW i \in DOMAIN outbox' PROVE outbox'[i].gen <= gens /\ outbox'[i].gen \in Nat
      OBVIOUS
    <3>1. PICK j \in DOMAIN outbox : outbox'[i] = outbox[j]
      <4>1. CASE outbox' = outbox
        BY <4>1
      <4>2. CASE outbox # <<>> /\ outbox' = Tail(outbox)
        BY <4>2, Dropped DEF IInv, Types
      <4> QED
        BY <4>1, <4>2 DEF Drained, SubmitGap, SubmitFails, SubmitRejected
    <3>2. outbox[j] \in Event
      BY LenProperties, ElementOfSeq DEF IInv, Types, OutboxType
    <3> QED
      BY <3>1, <3>2, <1>1 DEF IInv, OutboxInv, GenInv, Event
  <2>4. beGen < gens + 1
    BY <2>2 DEF GenInv
  <2> QED
    BY <1>2, <2>2, <2>3, <2>4 DEF GenInv, NoneEncoded, Source
<1>6. CASE ~(then = "replay" /\ (gap \/ n = 0))
  <2>1. UNCHANGED <<store, current, encSeq, encRun, gens>>
    BY <1>3, <1>4, <1>6 DEF AfterDrain
  <2>2. at' # "register"
    BY <1>3, <1>4, <1>6 DEF AfterDrain, EndActivation, Goto
  <2> QED
    BY <1>1, <1>2, <2>1, <2>2, GenKept DEF Drained, SubmitGap, SubmitFails, SubmitRejected
<1> QED
  BY <1>5, <1>6

LEMMA GenRegister ==
    ASSUME IInv, GenInv, Register
    PROVE  GenInv'
<1>1. /\ RegisteredGen \in 1..MaxGen /\ loaded /\ current = store
      /\ \/ then = "bootstrap" /\ store = None /\ RegisteredGen = gens + 1
         \/ then # "bootstrap" /\ store \in Source /\ ~store.registered /\ RegisteredGen = store.gen
  BY Asked DEF Register
<1>2. /\ store' = [gen |-> RegisteredGen, registered |-> TRUE] /\ current' = store' /\ beGen' = RegisteredGen
      /\ at' = "drain" /\ gens' = IF then = "bootstrap" THEN RegisteredGen ELSE gens
  BY DEF Register, Goto, BackendRegisters
<1>3. /\ store' \in Source /\ store'.gen = RegisteredGen /\ store'.registered
  BY <1>1, <1>2 DEF Source
<1>6. current' # None
  BY <1>2, <1>3, Constants
<1>4. store'.gen = gens'
  BY <1>1, <1>2, <1>3 DEF GenInv
<1>5. gens' \in Nat
  BY <1>1, <1>3, <1>4, Constants DEF IInv, Types, SourceTypes
<1> QED
  BY <1>1, <1>2, <1>3, <1>4, <1>5, <1>6, Constants DEF GenInv

LEMMA GenRegistersUnseen ==
    ASSUME IInv, GenInv, at = "register", RegisteredGen <= MaxGen, UNCHANGED store,
           UNCHANGED backend \/ BackendRegisters(RegisteredGen),
           gens' = IF then = "bootstrap" THEN RegisteredGen ELSE gens
    PROVE  /\ store' \in Source => store'.gen = gens'
           /\ beGen' <= gens'
           /\ store' \in Source /\ ~store'.registered /\ beGen' = store'.gen => beSeq' = 0
<1>1. /\ RegisteredGen \in 1..MaxGen /\ gens \in Nat /\ beGen \in Nat
      /\ \/ then = "bootstrap" /\ store = None /\ RegisteredGen = gens + 1
         \/ then # "bootstrap" /\ store \in Source /\ ~store.registered /\ RegisteredGen = store.gen
  BY Asked, Constants DEF IInv, Types, SourceTypes, BackendTypes
<1> QED
  BY <1>1, Constants DEF GenInv, backend, BackendRegisters

LEMMA GenStep ==
    ASSUME IInv, GenInv, [Next]_vars, IInv'
    PROVE  GenInv'
<1>1. CASE UNCHANGED vars \/ Gateway \/ RetryFires \/ TakeFrame \/ TakeActivation \/ Query \/ QueryFails \/ Corrected
  <2>1. UNCHANGED <<store, outbox, current, encSeq, encRun, beGen, beSeq, gens>>
    BY <1>1 DEF vars, Gateway, Connect, Disconnect, RunStarts, RunEnds, RunMoves, RetryFires, TakeFrame,
                TakeActivation, Query, QueryFails, Corrected, disk, memory, backend
  <2>2. doubt' = doubt \/ doubt' # {}
    BY <1>1 DEF vars, Gateway, Connect, Disconnect, RunStarts, RunEnds, RunMoves, RetryFires, TakeFrame,
                TakeActivation, Query, QueryFails, Corrected
  <2>3. at' = "register" => UNCHANGED <<at, then>>
    BY <1>1 DEF vars, control, Gateway, Connect, Disconnect, RunStarts, RunEnds, RunMoves, RetryFires, TakeFrame,
                TakeActivation, Query, QueryFails, Corrected, Goto, EndActivation
  <2>4. at' = "register" /\ then' = "rotated" => at = "register" /\ then = "rotated"
    BY <2>3
  <2>5. UNCHANGED <<store, current, encSeq, encRun, beGen, gens>> /\ beSeq' = beSeq /\ outbox' = outbox
    BY <2>1
  <2> QED
    BY <2>5, <2>2, <2>4 DEF GenInv, NoneEncoded, NoRun
<1>2. CASE Activate
  <2>1. /\ current' = store /\ (current = store \/ current = None) /\ then' # "rotated"
        /\ UNCHANGED <<store, outbox, encSeq, encRun, beGen, beSeq, gens, doubt>>
    BY <1>2 DEF Activate, Goto, IInv, SourceInv, disk, backend
  <2> QED
    BY <2>1, Constants DEF GenInv, NoneEncoded, NoRun
<1>3. CASE Register
  BY <1>3, GenRegister
<1>4. CASE RegisterFails
  <2>1. UNCHANGED <<store, outbox, current, encSeq, encRun, doubt>>
    BY <1>4 DEF RegisterFails, disk, memory
  <2>2. at' # "register"
    BY <1>4 DEF RegisterFails, EndActivation, Goto
  <2>3. /\ store' \in Source => store'.gen = gens'
        /\ beGen' <= gens'
        /\ store' \in Source /\ ~store'.registered /\ beGen' = store'.gen => beSeq' = 0
    BY <1>4, <2>1, GenRegistersUnseen DEF RegisterFails
  <2> QED
    BY <2>1, <2>2, <2>3 DEF GenInv, NoneEncoded, NoRun
<1>5. CASE Drained \/ SubmitGap \/ SubmitFails \/ SubmitRejected
  BY <1>5, GenDrainStops
<1>6. CASE Submit
  <2>1. UNCHANGED <<store, current, encSeq, encRun, at, then, gens, doubt>> /\ beGen' = beGen
    BY <1>6 DEF Submit, memory, control, BackendTakes, backend
  <2>2. at = "drain" /\ Registered /\ current = store
    BY <1>6 DEF Submit, IInv, ControlInv, SourceInv, Registered
  <2> QED
    BY <2>1, <2>2, GenKept
<1>7. CASE EncodeFrame
  <2>1. /\ UNCHANGED <<store, current, beGen, beSeq, gens>>
        /\ (at' = "register" => then' # "rotated") /\ current \in Source /\ frame \in Frame
    BY <1>7, Constants DEF EncodeFrame, Goto, backend, IInv, ControlInv
  <2>2. \/ UNCHANGED <<outbox, encSeq, encRun>>
        \/ doubt' # {}
        \/ outbox' = Append(outbox, Numbered(frame)) /\ Numbered(frame).gen = current.gen
    BY <1>7 DEF EncodeFrame, Encode, Numbered
  <2>3. doubt' = doubt \/ doubt' # {}
    BY <1>7 DEF EncodeFrame
  <2>4. CASE outbox' = Append(outbox, Numbered(frame)) /\ Numbered(frame).gen = current.gen
    <3>1. \E i \in DOMAIN outbox' : outbox'[i].gen = current.gen
      <4>1. Len(outbox) + 1 \in DOMAIN outbox' /\ outbox'[Len(outbox) + 1] = Numbered(frame)
        BY <2>4, AppendProperties, LenProperties DEF IInv, Types, OutboxType
      <4> QED
        BY <2>4, <4>1
    <3> QED
      BY <2>1, <3>1, Constants DEF GenInv
  <2> QED
    BY <2>1, <2>2, <2>3, <2>4, Constants DEF GenInv, NoneEncoded, NoRun
<1>8. ASSUME NEW f \in Frame, Correct(f) PROVE GenInv'
  <2>1. /\ UNCHANGED <<store, current, beGen, beSeq, gens>> /\ at' # "register"
        /\ current \in Source /\ current.registered
    BY <1>8 DEF Correct, EndActivation, Goto, backend, IInv, ControlInv, Registered
  <2> QED
    BY <2>1, Constants DEF GenInv, NoneEncoded
<1>9. CASE Crash
  <2>1. /\ NoneEncoded' /\ current' = None /\ at' = "idle" /\ UNCHANGED <<store, outbox, doubt>>
    BY <1>9 DEF Crash, NoneEncoded, disk, NoRun
  <2>2. /\ store' \in Source => store'.gen = gens'
        /\ beGen' <= gens'
        /\ store' \in Source /\ ~store'.registered /\ beGen' = store'.gen => beSeq' = 0
    <3>1. CASE UNCHANGED <<backend, gens>>
      BY <2>1, <3>1 DEF GenInv, backend
    <3>2. CASE at = "drain" /\ BackendTakes(Head(outbox)) /\ UNCHANGED gens
      <4>1. store \in Source /\ store.registered
        BY <3>2 DEF IInv, ControlInv, SourceInv, Registered
      <4> QED
        BY <2>1, <3>2, <4>1 DEF GenInv, backend, BackendTakes
    <3>3. CASE /\ at = "register" /\ RegisteredGen <= MaxGen /\ BackendRegisters(RegisteredGen)
               /\ gens' = IF then = "bootstrap" THEN RegisteredGen ELSE gens
      BY <2>1, <3>3, GenRegistersUnseen
    <3> QED
      BY <1>9, <3>1, <3>2, <3>3 DEF Crash
  <2> QED
    BY <2>1, <2>2, Constants DEF GenInv
<1> QED
  BY <1>1, <1>2, <1>3, <1>4, <1>5, <1>6, <1>7, <1>8, <1>9 DEF Next, Operation
-----------------------------------------------------------------------------
(* What is known of a run is true of it, and stays true.                    *)
Truthful(m, f) == m[f.run] # "new" /\ (f.status = "ended" => m[f.run] = "ended")

KnownInv ==
    /\ \A p, q \in Live : sessionOf[p] = sessionOf[q] => p = q
    /\ \A r \in beActive \cup response : run[r] # "new"
    /\ \A i \in DOMAIN outbox : run[outbox[i].run] # "new"
    /\ \A f \in todo : Truthful(run, f)
    /\ frame \in Frame => Truthful(run, frame)
    /\ \A i \in DOMAIN queue : queue[i] \in Frame => Truthful(run, queue[i])

(* Corrections are under way at one place only, and a frame is taken when   *)
(* there is none.                                                           *)
PlaceInv ==
    /\ todo # {} => at = "correct"
    /\ at = "idle" \/ (at \in {"drain", "register"} /\ then = "frame") => frame = None

RunGoesOn(r) == \/ run'[r] = run[r]
                \/ run[r] = "new" /\ run'[r] = "active"
                \/ run[r] = "active" /\ run'[r] = "ended"

LEMMA RunsGoOn ==
    ASSUME IInv, [Next]_vars
    PROVE  sessionOf' = sessionOf /\ \A r \in Run : RunGoesOn(r)
<1>1. CASE Gateway
  <2>1. ASSUME NEW q \in Run, RunStarts(q) \/ RunEnds(q)
        PROVE  sessionOf' = sessionOf /\ \A r \in Run : RunGoesOn(r)
    BY <2>1 DEF RunStarts, RunEnds, RunMoves, RunGoesOn, IInv, Types, RunTypes
  <2> QED
    BY <1>1, <2>1 DEF Gateway, Connect, Disconnect, runs, RunGoesOn
<1>2. CASE UNCHANGED vars \/ RetryFires \/ Crash \/ Operation
  <2>1. UNCHANGED runs
    BY <1>2 DEF vars, RetryFires, Crash, Operation, TakeFrame, TakeActivation, Activate, Register, RegisterFails,
       Drained, Submit, SubmitGap, SubmitFails, SubmitRejected, Query, QueryFails, Corrected, EncodeFrame, Correct,
       drainFrame, runs
  <2> QED
    BY <2>1 DEF runs, RunGoesOn
<1> QED
  BY <1>1, <1>2 DEF Next

LEMMA StaysTrue ==
    ASSUME IInv, [Next]_vars
    PROVE  /\ \A f \in Frame : Truthful(run, f) => Truthful(run', f)
           /\ \A r \in Run : run[r] # "new" => run'[r] # "new"
<1>1. \A r \in Run : RunGoesOn(r)
  BY RunsGoOn
<1>2. \A f \in Frame : f.run \in Run
  BY DEF Frame
<1> QED
  BY <1>1, <1>2 DEF RunGoesOn, Truthful

LEMMA OutboxElement ==
    ASSUME IInv
    PROVE  /\ \A i \in DOMAIN outbox : outbox[i] \in Event
           /\ outbox # <<>> => 1 \in DOMAIN outbox /\ Head(outbox) = outbox[1]
<1>1. outbox \in Seq(Event)
  BY DEF IInv, Types, OutboxType
<1>2. \A i \in DOMAIN outbox : outbox[i] \in Event
  BY <1>1, ElementOfSeq, LenProperties
<1>3. outbox # <<>> => 1 \in DOMAIN outbox /\ Head(outbox) = outbox[1]
  BY <1>1, HeadTailProperties, LenProperties, EmptySeq
<1> QED
  BY <1>2, <1>3

LEMMA KnownStart == Init => KnownInv /\ PlaceInv
BY Constants DEF Init, KnownInv, PlaceInv, Live

LEMMA OneLivePerSession ==
    ASSUME IInv, KnownInv, [Next]_vars
    PROVE  (\A p, q \in Live : sessionOf[p] = sessionOf[q] => p = q)'
<1>1. sessionOf' = sessionOf /\ \A r \in Run : RunGoesOn(r)
  BY RunsGoOn
<1>2. ASSUME NEW p \in Live', NEW q \in Live', sessionOf[p] = sessionOf[q]
      PROVE  p = q
  <2>1. CASE p \in Live /\ q \in Live
    BY <1>2, <2>1 DEF KnownInv
  <2>2. CASE ~(p \in Live /\ q \in Live)
    <3>1. PICK r \in Run : RunStarts(r)
      <4>1. UNCHANGED run \/ \E r \in Run : RunStarts(r) \/ RunEnds(r)
        BY DEF Next, vars, RetryFires, Crash, Operation, TakeFrame, TakeActivation, Activate, Register,
           RegisterFails, Drained, Submit, SubmitGap, SubmitFails, SubmitRejected, Query, QueryFails, Corrected,
           EncodeFrame, Correct, drainFrame, runs, Gateway, Connect, Disconnect
      <4>2. run' # run
        BY <2>2 DEF Live
      <4>3. PICK r \in Run : RunStarts(r) \/ RunEnds(r)
        BY <4>1, <4>2
      <4>4. CASE RunEnds(r)
        BY <2>2, <4>4 DEF RunEnds, RunMoves, Live, IInv, Types, RunTypes
      <4> QED
        BY <4>3, <4>4
    <3>2. /\ \A x \in Live' : x = r \/ x \in Live
          /\ \A x \in Live : sessionOf[x] # sessionOf[r]
      BY <3>1 DEF RunStarts, RunMoves, Live, IInv, Types, RunTypes
    <3> QED
      BY <1>2, <2>2, <3>2 DEF KnownInv
  <2> QED
    BY <2>1, <2>2
<1> QED
  BY <1>1, <1>2

(* What the backend and a registration's answer hold.                       *)
LEMMA BackendKnows ==
    ASSUME IInv, KnownInv, [Next]_vars
    PROVE  \A r \in beActive' \cup response' : run'[r] # "new"
<1>1. beActive' \subseteq beActive \/ (outbox # <<>> /\ beActive' \subseteq beActive \cup {Head(outbox).run})
  BY DEF Next, vars, RetryFires, Crash, Operation, TakeFrame, TakeActivation, Activate, Register,
     RegisterFails, Drained, Submit, SubmitGap, SubmitFails, SubmitRejected, Query, QueryFails, Corrected,
     EncodeFrame, Correct, drainFrame, Gateway, Connect, Disconnect, RunStarts, RunEnds, RunMoves, backend,
     BackendTakes, BackendRegisters
<1>2. response' \in {response, beActive, {}}
  BY DEF Next, vars, RetryFires, Crash, Operation, TakeFrame, TakeActivation, Activate, Register,
     RegisterFails, Drained, Submit, SubmitGap, SubmitFails, SubmitRejected, Query, QueryFails, Corrected,
     EncodeFrame, Correct, drainFrame, Gateway, Connect, Disconnect, RunStarts, RunEnds, RunMoves, control
<1>3. outbox # <<>> => 1 \in DOMAIN outbox /\ Head(outbox) = outbox[1] /\ Head(outbox).run \in Run
  BY OutboxElement DEF Event
<1>4. beActive \subseteq Run /\ response \subseteq Run
  BY DEF IInv, Types, BackendTypes, PlaceTypes
<1>5. \A r \in beActive' \cup response' : r \in Run /\ run[r] # "new"
  BY <1>1, <1>2, <1>3, <1>4 DEF KnownInv
<1> QED
  BY <1>5, StaysTrue

(* What can be put into the outbox, and what may be dropped from it.        *)
LEMMA OutboxMoves ==
    ASSUME IInv, [Next]_vars
    PROVE  \/ outbox' = outbox
           \/ outbox # <<>> /\ outbox' = Tail(outbox)
           \/ \E f \in Frame : /\ outbox' = Append(outbox, Numbered(f))
                               /\ \/ at = "correct" /\ f \in todo
                                  \/ at = "encode" /\ f = frame
<1>1. CASE UNCHANGED vars \/ Gateway \/ RetryFires \/ Crash
  BY <1>1 DEF vars, Gateway, Connect, Disconnect, RunStarts, RunEnds, RunMoves, RetryFires, Crash, disk
<1>2. CASE TakeFrame \/ TakeActivation \/ Activate \/ Query \/ QueryFails \/ Corrected
  BY <1>2 DEF TakeFrame, TakeActivation, Activate, Query, QueryFails, Corrected, disk
<1>3. CASE Register \/ RegisterFails \/ Drained \/ SubmitGap \/ SubmitFails \/ Submit \/ SubmitRejected
  BY <1>3 DEF Register, RegisterFails, Drained, SubmitGap, SubmitFails, Submit, SubmitRejected, disk
<1>4. CASE EncodeFrame
  <2>1. frame \in Frame
    BY <1>4 DEF EncodeFrame, IInv, ControlInv
  <2> QED
    BY <1>4, <2>1 DEF EncodeFrame, Encode
<1>5. ASSUME NEW f \in Frame, Correct(f)
      PROVE  outbox' = outbox \/ (outbox' = Append(outbox, Numbered(f)) /\ at = "correct" /\ f \in todo)
  BY <1>5 DEF Correct, Encode
<1>6. CASE \E f \in Frame : Correct(f)
  BY <1>5, <1>6
<1> QED
  BY <1>1, <1>2, <1>3, <1>4, <1>6 DEF Next, Operation

LEMMA OutboxKnows ==
    ASSUME IInv, KnownInv, [Next]_vars
    PROVE  \A i \in DOMAIN outbox' : run'[outbox'[i].run] # "new"
<1>1. \A i \in DOMAIN outbox : outbox[i].run \in Run
  BY OutboxElement DEF Event
<1>2. \A f \in Frame : f.run \in Run
  BY DEF Frame
<1>3. CASE outbox' = outbox
  BY <1>1, <1>3, StaysTrue DEF KnownInv
<1>4. CASE outbox # <<>> /\ outbox' = Tail(outbox)
  BY <1>1, <1>4, Dropped, StaysTrue DEF KnownInv, IInv, Types
<1>5. ASSUME NEW f \in Frame, outbox' = Append(outbox, Numbered(f)), f \in todo \/ f = frame
      PROVE  \A i \in DOMAIN outbox' : run'[outbox'[i].run] # "new"
  <2>1. run[f.run] # "new"
    BY <1>5 DEF KnownInv, Truthful
  <2>2. /\ DOMAIN outbox' = DOMAIN outbox \cup {Len(outbox) + 1}
        /\ \A i \in DOMAIN outbox : outbox'[i] = outbox[i]
        /\ outbox'[Len(outbox) + 1] = Numbered(f)
    BY <1>5, AppendProperties, LenProperties DEF IInv, Types, OutboxType
  <2>3. Numbered(f).run = f.run
    BY DEF Numbered
  <2> QED
    BY <1>1, <1>2, <2>1, <2>2, <2>3, StaysTrue DEF KnownInv
<1> QED
  BY <1>3, <1>4, <1>5, OutboxMoves

LEMMA TodoKnows ==
    ASSUME IInv, KnownInv, [Next]_vars
    PROVE  \A f \in todo' : Truthful(run', f)
<1>1. CASE Query
  <2>1. \A f \in todo' : f \in Frame /\ Truthful(run, f)
    <3>1. \A r \in Live : r \in Run /\ run[r] = "active"
      BY DEF Live
    <3>2. \A r \in response \ Live : r \in Run /\ run[r] = "ended"
      BY DEF Live, KnownInv, IInv, Types, PlaceTypes, RunTypes
    <3>3. \A f \in todo' : \/ \E r \in Live : f = [run |-> r, status |-> "active"]
                           \/ \E r \in response \ Live : f = [run |-> r, status |-> "ended"]
      BY <1>1 DEF Query
    <3> QED
      BY <3>1, <3>2, <3>3 DEF Truthful, Frame
  <2> QED
    BY <2>1, StaysTrue
<1>2. CASE ~Query
  <2>1. todo' \subseteq todo
    <3>1. CASE Operation
      BY <1>2, <3>1 DEF Operation, TakeFrame, TakeActivation, Activate, Register, RegisterFails, Drained, Submit,
         SubmitGap, SubmitFails, SubmitRejected, QueryFails, Corrected, EncodeFrame, Correct, drainFrame, control
    <3> QED
      BY <3>1 DEF Next, vars, RetryFires, Crash, Gateway, Connect, Disconnect, RunStarts, RunEnds, RunMoves, control
  <2>2. todo \subseteq Frame
    BY DEF IInv, Types, PlaceTypes
  <2> QED
    BY <2>1, <2>2, StaysTrue DEF KnownInv
<1> QED
  BY <1>1, <1>2

(* The four ways in which frames move.                                      *)
Joins == \/ queue' = Append(queue, Activation) /\ UNCHANGED <<frame, run>>
         \/ \E r \in Run : RunStarts(r) \/ RunEnds(r)
FrameMoves ==
    \/ Joins
    \/ queue # <<>> /\ queue' = Tail(queue) /\ frame = None /\ UNCHANGED <<connected, run>>
       /\ IF Head(queue) = Activation THEN frame' = None ELSE frame' = Head(queue)
    \/ queue' = queue /\ frame' \in {None, frame} /\ UNCHANGED run /\ (connected' = connected \/ ~connected')
    \/ queue' = <<>> /\ frame' = None /\ ~connected' /\ UNCHANGED run

LEMMA FramesMove ==
    ASSUME IInv, PlaceInv, [Next]_vars
    PROVE  FrameMoves
<1>1. CASE UNCHANGED vars \/ Disconnect
  BY <1>1, Zenon DEF vars, control, link, runs, Disconnect, FrameMoves
<1>2. CASE Connect \/ RetryFires
  BY <1>2 DEF Connect, RetryFires, runs, FrameMoves, Joins
<1>3. CASE \E r \in Run : RunStarts(r) \/ RunEnds(r)
  BY <1>3 DEF FrameMoves, Joins
<1>4. CASE Crash
  BY <1>4, Zenon DEF Crash, runs, FrameMoves
<1>5. CASE TakeFrame \/ TakeActivation
  <2>1. queue # <<>> /\ queue' = Tail(queue) /\ frame = None
    BY <1>5 DEF TakeFrame, TakeActivation, PlaceInv
  <2>2. UNCHANGED <<connected, run>>
    BY <1>5, Zenon DEF TakeFrame, TakeActivation, link, runs
  <2>3. IF Head(queue) = Activation THEN frame' = None ELSE frame' = Head(queue)
    BY <1>5, <2>1 DEF TakeFrame, TakeActivation
  <2> QED
    BY <2>1, <2>2, <2>3, Zenon DEF FrameMoves
<1>6. CASE Operation /\ ~TakeFrame /\ ~TakeActivation
  <2>1. queue' = queue /\ UNCHANGED run
    BY <1>6 DEF Operation, Activate, Register, RegisterFails, Drained, Submit, SubmitGap, SubmitFails,
       SubmitRejected, Query, QueryFails, Corrected, EncodeFrame, Correct, drainFrame, control, runs
  <2>2. connected' = connected
    BY <1>6, Zenon DEF Operation, Activate, Register, RegisterFails, Drained, Submit, SubmitGap, SubmitFails,
       SubmitRejected, Query, QueryFails, Corrected, EncodeFrame, Correct, drainFrame, link
  <2>3. frame' \in {None, frame}
    <3>1. CASE Drained \/ SubmitGap \/ SubmitFails \/ SubmitRejected
      <4>1. PICK gap, n : AfterDrain(gap, n) /\ at = "drain"
        BY <3>1 DEF Drained, SubmitGap, SubmitFails, SubmitRejected
      <4>2. then \in {"bootstrap", "again", "rotated", "frame", "replay", "reconciled"}
        BY <4>1 DEF IInv, ControlInv
      <4> QED
        BY <4>1, <4>2 DEF AfterDrain, EndActivation
    <3>2. CASE ~(Drained \/ SubmitGap \/ SubmitFails \/ SubmitRejected)
      BY <1>6, <3>2 DEF Operation, Activate, Register, RegisterFails, Submit, Query, QueryFails, Corrected,
         EncodeFrame, Correct, EndActivation, control
    <3> QED
      BY <3>1, <3>2
  <2> QED
    BY <2>1, <2>2, <2>3, Zenon DEF FrameMoves
<1> QED
  BY <1>1, <1>2, <1>3, <1>4, <1>5, <1>6 DEF Next, Gateway

LEMMA QueueElement ==
    ASSUME IInv
    PROVE  /\ Len(queue) \in Nat /\ DOMAIN queue = 1..Len(queue)
           /\ \A i \in DOMAIN queue : queue[i] \in Frame \cup {Activation}
           /\ queue # <<>> => /\ 1 \in DOMAIN queue /\ Head(queue) = queue[1]
                              /\ Len(Tail(queue)) = Len(queue) - 1 /\ DOMAIN Tail(queue) = 1..(Len(queue) - 1)
                              /\ \A i \in DOMAIN Tail(queue) : Tail(queue)[i] = queue[i + 1]
<1>1. queue \in Seq(Frame \cup {Activation})
  BY DEF IInv, Types, QueueType
<1>2. Len(queue) \in Nat /\ DOMAIN queue = 1..Len(queue)
  BY <1>1, LenProperties
<1>3. \A i \in DOMAIN queue : queue[i] \in Frame \cup {Activation}
  BY <1>1, <1>2, ElementOfSeq
<1>4. queue # <<>> => 1 \in DOMAIN queue /\ Head(queue) = queue[1]
  BY <1>1, <1>2, HeadTailProperties, EmptySeq
<1>5. queue # <<>> => /\ Tail(queue) \in Seq(Frame \cup {Activation})
                      /\ Len(Tail(queue)) = Len(queue) - 1
                      /\ \A i \in 1..Len(Tail(queue)) : Tail(queue)[i] = queue[i + 1]
  BY <1>1, HeadTailProperties
<1>6. queue # <<>> => DOMAIN Tail(queue) = 1..(Len(queue) - 1)
  BY <1>5, LenProperties
<1> QED
  BY <1>2, <1>3, <1>4, <1>5, <1>6

(* A frame or an activation at the end of the queue.                        *)
LEMMA QueueJoined ==
    ASSUME IInv, NEW f \in Frame \cup {Activation}, queue' = Append(queue, f)
    PROVE  /\ Len(queue') = Len(queue) + 1 /\ DOMAIN queue' = DOMAIN queue \cup {Len(queue) + 1}
           /\ \A i \in DOMAIN queue : queue'[i] = queue[i]
           /\ queue'[Len(queue) + 1] = f
<1>1. queue \in Seq(Frame \cup {Activation})
  BY DEF IInv, Types, QueueType
<1> QED
  BY <1>1, AppendProperties, LenProperties

LEMMA RunMoved ==
    ASSUME IInv, NEW r \in Run, RunStarts(r) \/ RunEnds(r)
    PROVE  \E f \in Frame :
              /\ f.run = r /\ run' = [run EXCEPT ![r] = f.status] /\ Truthful(run', f)
              /\ queue' = IF connected THEN Append(queue, f) ELSE queue
              /\ f.status = "active" => run[r] = "new" /\ \A q \in Live : sessionOf[q] # sessionOf[r]
              /\ f.status = "ended" => run[r] = "active"
              /\ UNCHANGED <<frame, connected, sessionOf, at, then, todo, response>>
              /\ UNCHANGED <<disk, memory, retry, backend, doubt>>
<1>1. CASE RunStarts(r)
  <2>1. [run |-> r, status |-> "active"] \in Frame
    BY DEF Frame
  <2> QED
    BY <1>1, <2>1 DEF RunStarts, RunMoves, Hears, Truthful, link, IInv, Types, RunTypes
<1>2. CASE RunEnds(r)
  <2>1. [run |-> r, status |-> "ended"] \in Frame
    BY DEF Frame
  <2> QED
    BY <1>2, <2>1 DEF RunEnds, RunMoves, Hears, Truthful, link, IInv, Types, RunTypes
<1> QED
  BY <1>1, <1>2

LEMMA FramesKnow ==
    ASSUME IInv, KnownInv, PlaceInv, [Next]_vars
    PROVE  /\ frame' \in Frame => Truthful(run', frame')
           /\ \A i \in DOMAIN queue' : queue'[i] \in Frame => Truthful(run', queue'[i])
<1> DEFINE True(q) == \A i \in DOMAIN q : q[i] \in Frame => Truthful(run', q[i])
<1>1. (frame \in Frame => Truthful(run', frame)) /\ True(queue)
  BY StaysTrue DEF KnownInv
<1>2. CASE Joins
  <2>1. PICK f \in Frame \cup {Activation} : queue' \in {queue, Append(queue, f)} /\ frame' = frame
                                             /\ (f \in Frame => Truthful(run', f))
    BY <1>2, RunMoved, Constants DEF Joins
  <2> QED
    BY <1>1, <2>1, QueueJoined
<1>3. CASE queue # <<>> /\ queue' = Tail(queue) /\ frame' \in {None, Head(queue)}
  <2>1. True(queue')
    BY <1>1, <1>3, QueueElement
  <2>2. frame' \in Frame => Truthful(run', frame')
    BY <1>1, <1>3, QueueElement, Constants
  <2> QED
    BY <2>1, <2>2
<1>4. CASE queue' \in {queue, <<>>} /\ frame' \in {None, frame}
  BY <1>1, <1>4, Constants
<1> QED
  BY <1>2, <1>3, <1>4, FramesMove DEF FrameMoves

LEMMA KnownStep ==
    ASSUME IInv, KnownInv, PlaceInv, [Next]_vars
    PROVE  KnownInv'
<1>1. (\A r \in beActive \cup response : run[r] # "new")'
  BY BackendKnows
<1>2. (\A i \in DOMAIN outbox : run[outbox[i].run] # "new")'
  BY OutboxKnows
<1>3. (frame \in Frame => Truthful(run, frame))' /\ (\A i \in DOMAIN queue : queue[i] \in Frame => Truthful(run, queue[i]))'
  BY FramesKnow
<1> QED
  BY <1>1, <1>2, <1>3, OneLivePerSession, TodoKnows DEF KnownInv

LEMMA PlaceStep ==
    ASSUME IInv, PlaceInv, [Next]_vars
    PROVE  PlaceInv'
<1>1. todo' # {} => at' = "correct"
  <2>1. CASE Drained \/ SubmitGap \/ SubmitFails \/ SubmitRejected
    BY <2>1 DEF Drained, SubmitGap, SubmitFails, SubmitRejected, drainFrame, PlaceInv
  <2>2. CASE ~(Drained \/ SubmitGap \/ SubmitFails \/ SubmitRejected)
    BY <2>2 DEF PlaceInv, Next, Operation, TakeFrame, TakeActivation, Activate, Register, RegisterFails, Submit,
       Query, QueryFails, Corrected, EncodeFrame, Correct, Goto, EndActivation, control, vars, RetryFires, Crash,
       Gateway, Connect, Disconnect, RunStarts, RunEnds, RunMoves
  <2> QED
    BY <2>1, <2>2
<1>2. at' = "idle" \/ (at' \in {"drain", "register"} /\ then' = "frame") => frame' = None
  <2>1. CASE Drained \/ SubmitGap \/ SubmitFails \/ SubmitRejected
    <3>1. PICK gap, n : AfterDrain(gap, n) /\ at = "drain"
      BY <2>1 DEF Drained, SubmitGap, SubmitFails, SubmitRejected
    <3>2. then \in {"bootstrap", "again", "rotated", "frame", "replay", "reconciled"}
      BY <3>1 DEF IInv, ControlInv
    <3> QED
      BY <3>1, <3>2 DEF AfterDrain, EndActivation, Goto, PlaceInv, Rotate
  <2>2. CASE RegisterFails \/ QueryFails \/ EncodeFrame \/ \E f \in Frame : Correct(f)
    BY <2>2 DEF RegisterFails, QueryFails, EncodeFrame, Correct, Goto, EndActivation, PlaceInv
  <2>3. CASE TakeFrame \/ TakeActivation \/ Activate \/ Register \/ Submit \/ Query \/ Corrected
    BY <2>3 DEF TakeFrame, TakeActivation, Activate, Register, Submit, Query, Corrected, Goto, control, PlaceInv
  <2>4. CASE UNCHANGED vars \/ Gateway \/ RetryFires \/ Crash
    BY <2>4 DEF vars, control, Gateway, Connect, Disconnect, RunStarts, RunEnds, RunMoves, RetryFires, Crash,
       PlaceInv
  <2> QED
    BY <2>1, <2>2, <2>3, <2>4 DEF Next, Operation
<1> QED
  BY <1>1, <1>2 DEF PlaceInv
-----------------------------------------------------------------------------
(* The frames that wait, in their order: the one that is held and those in  *)
(* the queue.                                                               *)
Place == 0..Len(queue)
Pending(i) == IF i = 0 THEN frame ELSE queue[i]
Of(i, s) == Pending(i) \in Frame /\ sessionOf[Pending(i).run] = s
Starting(r) == [run |-> r, status |-> "active"]
Ending(r) == [run |-> r, status |-> "ended"]

(* Nothing from i on was lost: the connection has been there since.         *)
Clear(i) == \A j \in Place : j >= i => Pending(j) # Activation

(* The start of a run that is live is the last that its session says; that  *)
(* of a run that has ended is followed by the end; when a session with a    *)
(* live run has something to say, the run's start is yet to come; and no    *)
(* start comes after the end.                                               *)
LastWord(i, r) == \A j \in Place : j > i => ~Of(j, sessionOf[r])
EndFollows(i, r) == \E j \in Place : /\ j > i /\ Pending(j) = Ending(r)
                                     /\ \A k \in Place : i < k /\ k < j => ~Of(k, sessionOf[r])
StartFollows(i, r) == \E j \in Place : j >= i /\ Pending(j) = Starting(r)
NoStartAfter(i, r) == \A j \in Place : j > i => Pending(j) # Starting(r)

OrderAt(i, r) ==
    /\ Pending(i) = Starting(r) /\ run[r] = "active" => LastWord(i, r)
    /\ Pending(i) = Starting(r) /\ run[r] = "ended" => EndFollows(i, r)
    /\ Of(i, sessionOf[r]) /\ run[r] = "active" => StartFollows(i, r)
    /\ Pending(i) = Ending(r) => NoStartAfter(i, r)

OrderInv == connected => \A i \in Place, r \in Run : Clear(i) => OrderAt(i, r)

LEMMA FramesAre ==
    \A r \in Run : /\ Starting(r) \in Frame /\ Starting(r).run = r /\ Starting(r).status = "active"
                   /\ Ending(r) \in Frame /\ Ending(r).run = r /\ Ending(r).status = "ended"
                   /\ Starting(r) # Ending(r)
BY DEF Starting, Ending, Frame

LEMMA FrameIs == \A f \in Frame : f.run \in Run /\ f \in {Starting(f.run), Ending(f.run)}
                                  /\ (f.status = "active" <=> f = Starting(f.run))
                                  /\ f.status \in {"active", "ended"}
BY DEF Starting, Ending, Frame

(* The first d are gone.                                                    *)
LEMMA OrderShifted ==
    ASSUME IInv, OrderInv, NEW d \in {0, 1},
           Len(queue') \in Nat, Len(queue') = Len(queue) - d,
           \A i \in 1..Len(queue') : queue'[i] = queue[i + d],
           frame' \in {None, Pending(d)}, UNCHANGED <<run, sessionOf>>, connected' => connected
    PROVE  OrderInv'
<1>1. Len(queue) \in Nat
  BY QueueElement
<1>2. \A i \in Place' : /\ i \in Nat /\ i + d \in Place
                        /\ Pending(i)' \in {None, Pending(i + d)}
                        /\ i > 0 => Pending(i)' = Pending(i + d)
  BY <1>1 DEF Place, Pending
<1>3. \A j \in Place : j \in Nat /\ (j > d => j - d \in Place' /\ j - d > 0 /\ Pending(j - d)' = Pending(j))
                       /\ (j = d => j - d \in Place')
  BY <1>1 DEF Place, Pending
<1>4. \A i \in Place' : Pending(i)' \in Frame => Pending(i)' = Pending(i + d)
  BY <1>2, Constants
<1>5. \A i \in Place', s \in Session : Of(i, s)' => Of(i + d, s)
  BY <1>4 DEF Of
<1>6. \A i \in Place' : i > 0 => \A s \in Session : Of(i, s)' <=> Of(i + d, s)
  BY <1>2 DEF Of
<1>7. \A r \in Run : sessionOf[r] \in Session
  BY Constants DEF IInv, Types, RunTypes
<1>8. SUFFICES ASSUME connected', NEW i \in Place', NEW r \in Run, Clear(i)', Pending(i)' \in Frame
               PROVE  OrderAt(i, r)'
  BY FramesAre DEF OrderInv, OrderAt, Of
<1>9. Pending(i)' = Pending(i + d) /\ i + d \in Place /\ i \in Nat /\ d \in Nat
  BY <1>2, <1>4, <1>8
<1>10. Clear(i + d)
  <2> SUFFICES ASSUME NEW j \in Place, j >= i + d PROVE Pending(j) # Activation
    BY DEF Clear
  <2>1. CASE j > d
    BY <1>3, <1>8, <1>9, <2>1 DEF Clear
  <2>2. CASE j = d
    BY <1>3, <1>8, <1>9, <2>2, Constants
  <2> QED
    BY <1>3, <1>9, <2>1, <2>2
<1>11. OrderAt(i + d, r)
  BY <1>8, <1>9, <1>10 DEF OrderInv
<1>12. LastWord(i + d, r) => LastWord(i, r)'
  BY <1>2, <1>5, <1>7, <1>9 DEF LastWord
<1>13. NoStartAfter(i + d, r) => NoStartAfter(i, r)'
  BY <1>2, <1>9 DEF NoStartAfter, Starting
<1>14. StartFollows(i + d, r) => StartFollows(i, r)'
  <2> SUFFICES ASSUME NEW j \in Place, j >= i + d, Pending(j) = Starting(r)
               PROVE  \E k \in Place' : k >= i /\ Pending(k)' = Starting(r)
    BY DEF StartFollows, Starting
  <2>1. CASE j > d
    BY <1>3, <1>9, <2>1
  <2>2. CASE j = d
    BY <1>3, <1>9, <2>2
  <2> QED
    BY <1>3, <1>9, <2>1, <2>2
<1>15. EndFollows(i + d, r) => EndFollows(i, r)'
  <2> SUFFICES ASSUME NEW j \in Place, j > i + d, Pending(j) = Ending(r),
                      \A k \in Place : i + d < k /\ k < j => ~Of(k, sessionOf[r])
               PROVE  EndFollows(i, r)'
    BY DEF EndFollows
  <2>1. j - d \in Place' /\ j - d > i /\ Pending(j - d)' = Ending(r) /\ j \in Nat
    BY <1>3, <1>9
  <2>2. ASSUME NEW k \in Place', i < k, k < j - d PROVE ~Of(k, sessionOf[r])'
    <3>1. k + d \in Place /\ i + d < k + d /\ k + d < j /\ k > 0
      BY <1>2, <1>9, <2>1, <2>2
    <3> QED
      BY <1>6, <1>7, <3>1 DEF Of
  <2> QED
    BY <2>1, <2>2 DEF EndFollows, Ending
<1> QED
  BY <1>9, <1>11, <1>12, <1>13, <1>14, <1>15 DEF OrderAt, Of, Starting, Ending

LEMMA PlaceJoined ==
    ASSUME IInv, NEW f \in Frame \cup {Activation}, queue' = Append(queue, f), frame' = frame, sessionOf' = sessionOf
    PROVE  \E n \in Nat :
             /\ Place' = Place \cup {n} /\ Pending(n)' = f
             /\ \A i \in Place : /\ i \in Nat /\ i < n /\ Pending(i)' = Pending(i)
                                 /\ \A s \in Session : Of(i, s)' <=> Of(i, s)
<1>1. Len(queue) \in Nat /\ DOMAIN queue = 1..Len(queue)
  BY QueueElement
<1>2. /\ Len(queue') = Len(queue) + 1
      /\ \A i \in DOMAIN queue : queue'[i] = queue[i]
      /\ queue'[Len(queue) + 1] = f
  BY QueueJoined
<1> PICK n \in Nat : n = Len(queue) + 1
  BY <1>1
<1>3. Place' = Place \cup {n}
  BY <1>1, <1>2 DEF Place
<1>4. \A i \in Place : i \in Nat /\ i < n /\ Pending(i)' = Pending(i)
  BY <1>1, <1>2 DEF Place, Pending
<1>5. Pending(n)' = f
  BY <1>1, <1>2 DEF Pending
<1> QED
  BY <1>1, <1>3, <1>4, <1>5 DEF Of

LEMMA OrderActivation ==
    ASSUME IInv, queue' = Append(queue, Activation), frame' = frame, sessionOf' = sessionOf
    PROVE  OrderInv'
<1>1. PICK n \in Nat : /\ Place' = Place \cup {n} /\ Pending(n)' = Activation
                      /\ \A i \in Place : i \in Nat /\ i < n
  BY PlaceJoined
<1>2. ASSUME NEW i \in Place' PROVE ~Clear(i)'
  BY <1>1, <1>2 DEF Clear
<1> QED
  BY <1>2 DEF OrderInv

LEMMA OrderStarts ==
    ASSUME IInv, KnownInv, OrderInv, connected, NEW q \in Run, queue' = Append(queue, Starting(q)), frame' = frame,
           run' = [run EXCEPT ![q] = "active"], sessionOf' = sessionOf, run[q] = "new",
           \A p \in Live : sessionOf[p] # sessionOf[q]
    PROVE  OrderInv'
<1>1. PICK n \in Nat : /\ Place' = Place \cup {n} /\ Pending(n)' = Starting(q)
                      /\ \A i \in Place : /\ i \in Nat /\ i < n /\ Pending(i)' = Pending(i)
                                          /\ \A s \in Session : Of(i, s)' <=> Of(i, s)
  BY PlaceJoined, FramesAre
<1>2. \A i \in Place : Pending(i) \in Frame => Truthful(run, Pending(i))
  BY QueueElement DEF KnownInv, Place, Pending
<1>3. \A r \in Run : sessionOf[r] \in Session /\ run'[r] = IF r = q THEN "active" ELSE run[r]
  BY Constants DEF IInv, Types, RunTypes
<1>4. \A i \in Place : Clear(i)' => Clear(i)
  BY <1>1 DEF Clear
<1> SUFFICES ASSUME NEW i \in Place', NEW r \in Run, Clear(i)' PROVE OrderAt(i, r)'
  BY DEF OrderInv
<1>5. Pending(i)' = Starting(r) /\ run'[r] = "active" => LastWord(i, r)'
  <2> SUFFICES ASSUME Pending(i)' = Starting(r), run'[r] = "active", NEW j \in Place', j > i
               PROVE  ~Of(j, sessionOf[r])'
    BY DEF LastWord, Starting
  <2>1. i \in Place
    BY <1>1
  <2>2. r # q /\ run[r] = "active"
    BY <1>1, <1>2, <1>3, <2>1, FramesAre DEF Truthful
  <2>3. LastWord(i, r) /\ sessionOf[r] # sessionOf[q]
    BY <1>1, <1>4, <2>1, <2>2 DEF OrderInv, OrderAt, Live
  <2>4. CASE j = n
    BY <1>1, <2>3, <2>4, FramesAre DEF Of
  <2> QED
    BY <1>1, <1>3, <2>1, <2>3, <2>4 DEF LastWord
<1>6. Pending(i)' = Starting(r) /\ run'[r] = "ended" => EndFollows(i, r)'
  <2> SUFFICES ASSUME Pending(i)' = Starting(r), run'[r] = "ended" PROVE EndFollows(i, r)'
    BY DEF Starting
  <2>1. i \in Place /\ run[r] = "ended"
    BY <1>1, <1>3, FramesAre
  <2>2. PICK j \in Place : /\ j > i /\ Pending(j) = Ending(r)
                           /\ \A k \in Place : i < k /\ k < j => ~Of(k, sessionOf[r])
    BY <1>1, <1>4, <2>1 DEF OrderInv, OrderAt, EndFollows
  <2>3. \A k \in Place' : i < k /\ k < j => ~Of(k, sessionOf[r])'
    BY <1>1, <1>3, <2>2
  <2> QED
    BY <1>1, <2>2, <2>3 DEF EndFollows, Ending
<1>7. Of(i, sessionOf[r])' /\ run'[r] = "active" => StartFollows(i, r)'
  <2> SUFFICES ASSUME Of(i, sessionOf[r])', run'[r] = "active" PROVE StartFollows(i, r)'
    OBVIOUS
  <2>1. CASE r = q
    BY <1>1, <2>1 DEF StartFollows, Starting
  <2>2. CASE r # q
    <3>1. r \in Live /\ run[r] = "active" /\ sessionOf[r] # sessionOf[q]
      BY <1>3, <2>2 DEF Live
    <3>2. i # n
      BY <1>1, <3>1, FramesAre DEF Of
    <3>3. i \in Place /\ Of(i, sessionOf[r])
      BY <1>1, <1>3, <3>2 DEF Of
    <3>4. PICK j \in Place : j >= i /\ Pending(j) = Starting(r)
      BY <1>4, <3>1, <3>3 DEF OrderInv, OrderAt, StartFollows
    <3> QED
      BY <1>1, <3>4 DEF StartFollows, Starting
  <2> QED
    BY <2>1, <2>2
<1>8. Pending(i)' = Ending(r) => NoStartAfter(i, r)'
  <2> SUFFICES ASSUME Pending(i)' = Ending(r), NEW j \in Place', j > i PROVE Pending(j)' # Starting(r)
    BY DEF NoStartAfter, Ending, Starting
  <2>1. i \in Place
    BY <1>1, FramesAre DEF Ending, Starting
  <2>2. r # q
    BY <1>1, <1>2, <2>1, FramesAre DEF Truthful
  <2>3. NoStartAfter(i, r)
    BY <1>1, <1>4, <2>1 DEF OrderInv, OrderAt
  <2> QED
    BY <1>1, <2>2, <2>3, FramesAre DEF NoStartAfter
<1> QED
  BY <1>5, <1>6, <1>7, <1>8 DEF OrderAt, Starting, Ending

LEMMA OrderEnds ==
    ASSUME IInv, KnownInv, OrderInv, connected, NEW q \in Run, queue' = Append(queue, Ending(q)), frame' = frame,
           run' = [run EXCEPT ![q] = "ended"], sessionOf' = sessionOf, run[q] = "active"
    PROVE  OrderInv'
<1>1. PICK n \in Nat : /\ Place' = Place \cup {n} /\ Pending(n)' = Ending(q)
                      /\ \A i \in Place : /\ i \in Nat /\ i < n /\ Pending(i)' = Pending(i)
                                          /\ \A s \in Session : Of(i, s)' <=> Of(i, s)
  BY PlaceJoined, FramesAre
<1>2. \A r \in Run : sessionOf[r] \in Session /\ run'[r] = IF r = q THEN "ended" ELSE run[r]
  BY Constants DEF IInv, Types, RunTypes
<1>3. \A i \in Place : Clear(i)' => Clear(i)
  BY <1>1 DEF Clear
<1>4. \A r \in Run : run[r] = "active" /\ r # q => sessionOf[r] # sessionOf[q]
  BY DEF KnownInv, Live
<1> SUFFICES ASSUME NEW i \in Place', NEW r \in Run, Clear(i)' PROVE OrderAt(i, r)'
  BY DEF OrderInv
<1>5. Pending(i)' = Starting(r) /\ run'[r] = "active" => LastWord(i, r)'
  <2> SUFFICES ASSUME Pending(i)' = Starting(r), run'[r] = "active", NEW j \in Place', j > i
               PROVE  ~Of(j, sessionOf[r])'
    BY DEF LastWord, Starting
  <2>1. i \in Place /\ r # q /\ run[r] = "active" /\ sessionOf[r] # sessionOf[q]
    BY <1>1, <1>2, <1>4, FramesAre
  <2>2. LastWord(i, r)
    BY <1>1, <1>3, <2>1 DEF OrderInv, OrderAt
  <2>3. CASE j = n
    BY <1>1, <2>1, <2>3, FramesAre DEF Of
  <2> QED
    BY <1>1, <1>2, <2>1, <2>2, <2>3 DEF LastWord
<1>6. Pending(i)' = Starting(r) /\ run'[r] = "ended" => EndFollows(i, r)'
  <2> SUFFICES ASSUME Pending(i)' = Starting(r), run'[r] = "ended" PROVE EndFollows(i, r)'
    BY DEF Starting
  <2>1. i \in Place /\ Pending(i) = Starting(r)
    BY <1>1, FramesAre
  <2>2. CASE r = q
    <3>1. LastWord(i, r)
      BY <1>3, <2>1, <2>2 DEF OrderInv, OrderAt
    <3>2. \A k \in Place' : i < k /\ k < n => ~Of(k, sessionOf[r])'
      BY <1>1, <1>2, <3>1 DEF LastWord
    <3> QED
      BY <1>1, <2>1, <2>2, <3>2 DEF EndFollows, Ending
  <2>3. CASE r # q
    <3>1. PICK j \in Place : /\ j > i /\ Pending(j) = Ending(r)
                             /\ \A k \in Place : i < k /\ k < j => ~Of(k, sessionOf[r])
      BY <1>2, <1>3, <2>1, <2>3 DEF OrderInv, OrderAt, EndFollows
    <3>2. \A k \in Place' : i < k /\ k < j => ~Of(k, sessionOf[r])'
      BY <1>1, <1>2, <3>1
    <3> QED
      BY <1>1, <3>1, <3>2 DEF EndFollows, Ending
  <2> QED
    BY <2>2, <2>3
<1>7. Of(i, sessionOf[r])' /\ run'[r] = "active" => StartFollows(i, r)'
  <2> SUFFICES ASSUME Of(i, sessionOf[r])', run'[r] = "active" PROVE StartFollows(i, r)'
    OBVIOUS
  <2>1. run[r] = "active" /\ sessionOf[r] # sessionOf[q]
    BY <1>2, <1>4
  <2>2. i # n
    BY <1>1, <2>1, FramesAre DEF Of
  <2>3. i \in Place /\ Of(i, sessionOf[r])
    BY <1>1, <1>2, <2>2 DEF Of
  <2>4. PICK j \in Place : j >= i /\ Pending(j) = Starting(r)
    BY <1>3, <2>1, <2>3 DEF OrderInv, OrderAt, StartFollows
  <2> QED
    BY <1>1, <2>4 DEF StartFollows, Starting
<1>8. Pending(i)' = Ending(r) => NoStartAfter(i, r)'
  <2> SUFFICES ASSUME Pending(i)' = Ending(r), NEW j \in Place', j > i PROVE Pending(j)' # Starting(r)
    BY DEF NoStartAfter, Ending, Starting
  <2>1. CASE i = n
    BY <1>1, <2>1
  <2>2. CASE i \in Place
    <3>1. NoStartAfter(i, r)
      BY <1>1, <1>3, <2>2 DEF OrderInv, OrderAt
    <3>2. Ending(q) # Starting(r)
      BY FramesAre
    <3> QED
      BY <1>1, <2>2, <3>1, <3>2 DEF NoStartAfter
  <2> QED
    BY <1>1, <2>1, <2>2
<1> QED
  BY <1>5, <1>6, <1>7, <1>8 DEF OrderAt, Starting, Ending

LEMMA OrderStart == Init => OrderInv
BY Zenon DEF Init, OrderInv

LEMMA OrderStep ==
    ASSUME IInv, KnownInv, PlaceInv, OrderInv, [Next]_vars
    PROVE  OrderInv'
<1>0. sessionOf' = sessionOf
  BY RunsGoOn
<1>1. CASE queue' = Append(queue, Activation) /\ UNCHANGED <<frame, run>>
  BY <1>0, <1>1, OrderActivation
<1>2. ASSUME NEW r \in Run, RunStarts(r) \/ RunEnds(r)
      PROVE  OrderInv'
  <2>1. PICK f \in Frame :
           /\ f.run = r /\ run' = [run EXCEPT ![r] = f.status]
           /\ queue' = IF connected THEN Append(queue, f) ELSE queue
           /\ f.status = "active" => run[r] = "new" /\ \A q \in Live : sessionOf[q] # sessionOf[r]
           /\ f.status = "ended" => run[r] = "active"
           /\ UNCHANGED <<frame, connected, sessionOf>>
    BY <1>2, RunMoved
  <2>2. CASE ~connected
    BY <2>1, <2>2, Zenon DEF OrderInv
  <2>3. CASE connected /\ f = Starting(r)
    BY <2>1, <2>3, OrderStarts, FramesAre
  <2>4. CASE connected /\ f = Ending(r)
    BY <2>1, <2>4, OrderEnds, FramesAre
  <2> QED
    BY <2>1, <2>2, <2>3, <2>4, FrameIs
<1>3. CASE queue # <<>> /\ queue' = Tail(queue) /\ frame = None /\ UNCHANGED <<connected, run>>
           /\ IF Head(queue) = Activation THEN frame' = None ELSE frame' = Head(queue)
  <2>1. /\ Len(queue) - 1 \in Nat /\ Len(queue') = Len(queue) - 1
        /\ \A i \in 1..Len(queue') : queue'[i] = queue[i + 1]
        /\ frame' \in {None, Pending(1)}
    BY <1>3, QueueElement DEF Pending
  <2>2. connected' => connected
    BY <1>3, Zenon
  <2> QED
    BY <1>0, <1>3, <2>1, <2>2, OrderShifted
<1>4. CASE queue' = queue /\ frame' \in {None, frame} /\ UNCHANGED run /\ (connected' = connected \/ ~connected')
  <2>1. /\ Len(queue) \in Nat /\ Len(queue') = Len(queue) - 0
        /\ \A i \in 1..Len(queue') : queue'[i] = queue[i + 0]
        /\ frame' \in {None, Pending(0)}
    BY <1>4, QueueElement DEF Pending
  <2>2. connected' => connected
    BY <1>4, Zenon
  <2> QED
    BY <1>0, <1>4, <2>1, <2>2, OrderShifted
<1>5. CASE ~connected'
  BY <1>5, Zenon DEF OrderInv
<1> QED
  BY <1>1, <1>2, <1>3, <1>4, <1>5, FramesMove DEF FrameMoves, Joins
-----------------------------------------------------------------------------
(* What the backend will know once it has taken what is pending, the view;  *)
(* and what it will know after the corrections that are still to be made,   *)
(* the goal.                                                                *)
About(r, i) == outbox[i].gen = current.gen /\ outbox[i].run = r
LastAbout(r, i) == About(r, i) /\ \A j \in DOMAIN outbox : j > i => ~About(r, j)
InView(r) == \/ \E i \in DOMAIN outbox : LastAbout(r, i) /\ outbox[i].status = "active"
             \/ r \in beActive /\ \A i \in DOMAIN outbox : ~About(r, i)
InGoal(r) == (InView(r) \/ Starting(r) \in todo) /\ Ending(r) \notin todo

(* The events of this generation are numbered on from what the backend has  *)
(* taken, and stand behind those of former generations.                     *)
NumberInv ==
    /\ Registered /\ beGen = current.gen
    /\ beSeq <= encSeq /\ encSeq <= beSeq + Len(outbox)
    /\ \A i \in DOMAIN outbox :
         IF i + encSeq > Len(outbox) + beSeq
         THEN outbox[i].gen = current.gen /\ outbox[i].seq + Len(outbox) = encSeq + i
         ELSE outbox[i].gen < current.gen

LEMMA OutboxJoined ==
    ASSUME IInv, NEW e \in Event, outbox' = Append(outbox, e)
    PROVE  \E n \in Nat :
             /\ n = Len(outbox) + 1 /\ Len(outbox') = n /\ DOMAIN outbox' = DOMAIN outbox \cup {n}
             /\ \A i \in DOMAIN outbox : i \in Nat /\ i < n /\ outbox'[i] = outbox[i]
             /\ outbox'[n] = e
<1>1. outbox \in Seq(Event)
  BY DEF IInv, Types, OutboxType
<1>2. /\ Len(outbox) \in Nat /\ DOMAIN outbox = 1..Len(outbox)
      /\ Len(outbox') = Len(outbox) + 1 /\ DOMAIN outbox' = 1..(Len(outbox) + 1)
      /\ \A i \in 1..Len(outbox) : outbox'[i] = outbox[i]
      /\ outbox'[Len(outbox) + 1] = e
  BY <1>1, AppendProperties, LenProperties
<1> QED
  BY <1>2

LEMMA ViewJoined ==
    ASSUME IInv, current \in Source, NEW f \in Frame, outbox' = Append(outbox, Numbered(f)),
           UNCHANGED <<current, beActive>>
    PROVE  \A r \in Run : InView(r)' <=> IF r = f.run THEN f.status = "active" ELSE InView(r)
<1>1. Numbered(f) \in Event /\ Numbered(f).gen = current.gen /\ Numbered(f).run = f.run
      /\ Numbered(f).status = f.status
  BY DEF Numbered, Event, Source, Frame, IInv, Types, SourceTypes
<1>2. PICK n \in Nat : /\ DOMAIN outbox' = DOMAIN outbox \cup {n}
                       /\ \A i \in DOMAIN outbox : i \in Nat /\ i < n /\ outbox'[i] = outbox[i]
                       /\ outbox'[n] = Numbered(f)
  BY <1>1, OutboxJoined
<1>3. \A r \in Run : /\ \A i \in DOMAIN outbox : About(r, i)' <=> About(r, i)
                     /\ About(r, n)' <=> r = f.run
  BY <1>1, <1>2 DEF About
<1> SUFFICES ASSUME NEW r \in Run
             PROVE  InView(r)' <=> IF r = f.run THEN f.status = "active" ELSE InView(r)
  OBVIOUS
<1>4. CASE r = f.run
  <2>1. LastAbout(r, n)'
    BY <1>2, <1>3, <1>4 DEF LastAbout
  <2>2. \A i \in DOMAIN outbox : ~LastAbout(r, i)'
    BY <1>2, <1>3, <1>4 DEF LastAbout
  <2> QED
    BY <1>1, <1>2, <1>3, <1>4, <2>1, <2>2 DEF InView
<1>5. CASE r # f.run
  <2>1. \A i \in DOMAIN outbox : LastAbout(r, i)' <=> LastAbout(r, i)
    BY <1>2, <1>3, <1>5 DEF LastAbout
  <2>2. ~LastAbout(r, n)'
    BY <1>3, <1>5 DEF LastAbout
  <2> QED
    BY <1>2, <1>3, <1>5, <2>1, <2>2 DEF InView
<1> QED
  BY <1>4, <1>5

LEMMA Sums ==
    \A a, b, c, d \in Nat : /\ a + b = c + d => a + (b + 1) = (c + 1) + d
                            /\ a + (b + 1) > (c + 1) + d <=> a + b > c + d
OBVIOUS

LEMMA NumberJoined ==
    ASSUME IInv, NumberInv, NEW f \in Frame, outbox' = Append(outbox, Numbered(f)), encSeq' = encSeq + 1,
           UNCHANGED <<current, beGen, beSeq>>
    PROVE  NumberInv'
<1>1. current \in Source
  BY DEF NumberInv, Registered
<1>2. Numbered(f) \in Event /\ Numbered(f).gen = current.gen /\ Numbered(f).seq = encSeq + 1
  BY <1>1 DEF Numbered, Event, Source, Frame, IInv, Types, SourceTypes
<1>3. PICK n \in Nat : /\ n = Len(outbox) + 1 /\ Len(outbox') = n /\ DOMAIN outbox' = DOMAIN outbox \cup {n}
                       /\ \A i \in DOMAIN outbox : i \in Nat /\ i < n /\ outbox'[i] = outbox[i]
                       /\ outbox'[n] = Numbered(f)
  BY <1>2, OutboxJoined
<1>4. encSeq \in Nat /\ beSeq \in Nat /\ Len(outbox) \in Nat /\ \A i \in DOMAIN outbox : outbox[i].seq \in Nat
  BY OutboxElement, LenProperties DEF IInv, Types, SourceTypes, BackendTypes, OutboxType, Event
<1>5. Registered' /\ beGen' = current'.gen
  BY DEF NumberInv, Registered
<1>6. beSeq' <= encSeq' /\ encSeq' <= beSeq' + Len(outbox')
  BY <1>3, <1>4 DEF NumberInv
<1>7. ASSUME NEW i \in DOMAIN outbox'
      PROVE  IF i + encSeq' > Len(outbox') + beSeq'
             THEN outbox'[i].gen = current'.gen /\ outbox'[i].seq + Len(outbox') = encSeq' + i
             ELSE outbox'[i].gen < current'.gen
  <2>0. n = Len(outbox) + 1 /\ Len(outbox') = n
    BY <1>3
  <2>1. CASE i = n
    <3>1. outbox'[i].gen = current.gen /\ outbox'[i].seq = encSeq + 1
      BY <1>2, <1>3, <2>1
    <3>2. beSeq <= encSeq
      BY DEF NumberInv
    <3>3. n + (encSeq + 1) > n + beSeq /\ (encSeq + 1) + n = (encSeq + 1) + n
      BY <1>4, <3>2
    <3> QED
      BY <2>0, <2>1, <3>1, <3>3
  <2>2. CASE i \in DOMAIN outbox
    <3>0. i \in Nat /\ outbox'[i] = outbox[i] /\ outbox[i].seq \in Nat
      BY <1>3, <1>4, <2>2
    <3>1. i + (encSeq + 1) > n + beSeq <=> i + encSeq > Len(outbox) + beSeq
      BY <1>4, <2>0, <3>0, Sums
    <3>2. outbox[i].seq + Len(outbox) = encSeq + i => outbox[i].seq + n = (encSeq + 1) + i
      <4>1. encSeq \in Nat /\ Len(outbox) \in Nat
        BY <1>4
      <4>2. \A q \in Nat : q + Len(outbox) = encSeq + i => q + (Len(outbox) + 1) = (encSeq + 1) + i
        BY <3>0, <4>1, Sums
      <4> QED
        BY <2>0, <3>0, <4>2
    <3>3. IF i + encSeq > Len(outbox) + beSeq
          THEN outbox[i].gen = current.gen /\ outbox[i].seq + Len(outbox) = encSeq + i
          ELSE outbox[i].gen < current.gen
      BY <2>2 DEF NumberInv
    <3> QED
      BY <2>0, <3>0, <3>1, <3>2, <3>3
  <2> QED
    BY <1>3, <2>1, <2>2
<1> QED
  BY <1>5, <1>6, <1>7 DEF NumberInv

(* The event that the backend takes is the next one, and the view stays.    *)
LEMMA ViewSubmitted ==
    ASSUME IInv, NumberInv, outbox # <<>>, outbox' = Tail(outbox), BackendTakes(Head(outbox)),
           UNCHANGED <<current, encSeq>>
    PROVE  NumberInv' /\ \A r \in Run : InView(r)' <=> InView(r)
<1>1. /\ \A i \in DOMAIN outbox' : i + 1 \in DOMAIN outbox /\ outbox'[i] = outbox[i + 1]
      /\ 1 \in DOMAIN outbox /\ Head(outbox) = outbox[1] /\ Head(outbox) \in Event
      /\ \A i \in DOMAIN outbox : i # 1 => i - 1 \in DOMAIN outbox' /\ outbox'[i - 1] = outbox[i]
  BY Dropped DEF IInv, Types
<1>2. /\ DOMAIN outbox = 1..Len(outbox) /\ Len(outbox) \in Nat \ {0} /\ Len(outbox') = Len(outbox) - 1
      /\ DOMAIN outbox' = 1..(Len(outbox) - 1)
  BY HeadTailProperties, LenProperties, EmptySeq DEF IInv, Types, OutboxType
<1>3. /\ encSeq \in Nat /\ beSeq \in Nat /\ current.gen \in Nat
      /\ \A i \in DOMAIN outbox : outbox[i].seq \in Nat /\ outbox[i].gen \in Nat
  BY OutboxElement DEF IInv, Types, SourceTypes, BackendTypes, Event, NumberInv, Registered, Source
<1>4. \A r \in Run : \A i \in DOMAIN outbox' : About(r, i)' <=> About(r, i + 1)
  BY <1>1 DEF About
<1>5. \A r \in Run : /\ \A i \in DOMAIN outbox' : LastAbout(r, i)' <=> LastAbout(r, i + 1)
  <2> SUFFICES ASSUME NEW r \in Run, NEW i \in DOMAIN outbox'
               PROVE  LastAbout(r, i)' <=> LastAbout(r, i + 1)
    OBVIOUS
  <2>1. ASSUME LastAbout(r, i)', NEW j \in DOMAIN outbox, j > i + 1 PROVE ~About(r, j)
    <3>1. j - 1 \in DOMAIN outbox' /\ j - 1 > i /\ (j - 1) + 1 = j
      BY <1>2, <2>1
    <3>2. ~About(r, j - 1)'
      BY <2>1, <3>1 DEF LastAbout
    <3> QED
      BY <1>4, <3>1, <3>2
  <2>2. ASSUME LastAbout(r, i + 1), NEW j \in DOMAIN outbox', j > i PROVE ~About(r, j)'
    BY <1>1, <1>2, <1>4, <2>2 DEF LastAbout
  <2> QED
    BY <1>1, <1>4, <2>1, <2>2 DEF LastAbout
<1>8. \A r \in Run : (\E i \in DOMAIN outbox' : About(r, i)') <=> (\E i \in DOMAIN outbox : i > 1 /\ About(r, i))
  <2> SUFFICES ASSUME NEW r \in Run
               PROVE  (\E i \in DOMAIN outbox' : About(r, i)') <=> (\E i \in DOMAIN outbox : i > 1 /\ About(r, i))
    OBVIOUS
  <2>1. ASSUME NEW i \in DOMAIN outbox', About(r, i)'
        PROVE  \E j \in DOMAIN outbox : j > 1 /\ About(r, j)
    <3>1. i + 1 \in DOMAIN outbox /\ i + 1 > 1
      BY <1>1, <1>2
    <3> QED
      BY <1>4, <2>1, <3>1
  <2>2. ASSUME NEW j \in DOMAIN outbox, j > 1, About(r, j)
        PROVE  \E i \in DOMAIN outbox' : About(r, i)'
    <3>1. j - 1 \in DOMAIN outbox' /\ (j - 1) + 1 = j
      BY <1>2, <2>2
    <3> QED
      BY <1>4, <2>2, <3>1
  <2> QED
    BY <2>1, <2>2
<1>9. \A r \in Run : (\E i \in DOMAIN outbox' : LastAbout(r, i)' /\ outbox'[i].status = "active")
                     <=> (\E i \in DOMAIN outbox : i > 1 /\ LastAbout(r, i) /\ outbox[i].status = "active")
  <2> SUFFICES ASSUME NEW r \in Run
               PROVE  (\E i \in DOMAIN outbox' : LastAbout(r, i)' /\ outbox'[i].status = "active")
                      <=> (\E i \in DOMAIN outbox : i > 1 /\ LastAbout(r, i) /\ outbox[i].status = "active")
    OBVIOUS
  <2>1. ASSUME NEW i \in DOMAIN outbox', LastAbout(r, i)', outbox'[i].status = "active"
        PROVE  \E j \in DOMAIN outbox : j > 1 /\ LastAbout(r, j) /\ outbox[j].status = "active"
    <3>1. i + 1 \in DOMAIN outbox /\ i + 1 > 1 /\ outbox'[i] = outbox[i + 1]
      BY <1>1, <1>2
    <3> QED
      BY <1>5, <2>1, <3>1
  <2>2. ASSUME NEW j \in DOMAIN outbox, j > 1, LastAbout(r, j), outbox[j].status = "active"
        PROVE  \E i \in DOMAIN outbox' : LastAbout(r, i)' /\ outbox'[i].status = "active"
    <3>1. j - 1 \in DOMAIN outbox' /\ (j - 1) + 1 = j
      BY <1>2, <2>2
    <3>2. outbox'[j - 1] = outbox[j]
      BY <1>1, <3>1
    <3> QED
      BY <1>5, <2>2, <3>1, <3>2
  <2> QED
    BY <2>1, <2>2
<1>10. \A i \in DOMAIN outbox : i = 1 \/ i > 1
  BY <1>2
<1>6. CASE Head(outbox).gen < current.gen
  <2>1. UNCHANGED <<beGen, beSeq, beActive>>
    BY <1>1, <1>3, <1>6 DEF BackendTakes, backend, NumberInv
  <2>2. 1 + encSeq <= Len(outbox) + beSeq
    BY <1>1, <1>2, <1>3, <1>6 DEF NumberInv
  <2>3. \A r \in Run : ~About(r, 1) /\ ~LastAbout(r, 1)
    BY <1>1, <1>3, <1>6 DEF About, LastAbout
  <2>4. \A i \in DOMAIN outbox' : /\ i + encSeq > Len(outbox') + beSeq <=> (i + 1) + encSeq > Len(outbox) + beSeq
                                  /\ outbox[i + 1].seq + Len(outbox) = encSeq + (i + 1) =>
                                       outbox[i + 1].seq + Len(outbox') = encSeq + i
    <3> SUFFICES ASSUME NEW i \in DOMAIN outbox'
                 PROVE  /\ i + encSeq > Len(outbox') + beSeq <=> (i + 1) + encSeq > Len(outbox) + beSeq
                        /\ outbox[i + 1].seq + Len(outbox) = encSeq + (i + 1) =>
                             outbox[i + 1].seq + Len(outbox') = encSeq + i
      OBVIOUS
    <3>1. i \in Nat /\ i + 1 \in DOMAIN outbox
      BY <1>1, <1>2
    <3>2. outbox[i + 1].seq \in Nat
      BY <1>3, <3>1
    <3>3. encSeq \in Nat /\ beSeq \in Nat /\ Len(outbox) \in Nat /\ Len(outbox') = Len(outbox) - 1
      BY <1>2, <1>3
    <3> QED
      BY <3>1, <3>2, <3>3
  <2>5. NumberInv'
    <3>1. \A i \in DOMAIN outbox' :
            IF i + encSeq > Len(outbox') + beSeq
            THEN outbox'[i].gen = current.gen /\ outbox'[i].seq + Len(outbox') = encSeq + i
            ELSE outbox'[i].gen < current.gen
      BY <1>1, <2>4 DEF NumberInv
    <3>2. beSeq <= encSeq /\ encSeq <= beSeq + Len(outbox')
      BY <1>2, <1>3, <2>2 DEF NumberInv
    <3> QED
      BY <2>1, <3>1, <3>2 DEF NumberInv, Registered
  <2>6. ASSUME NEW r \in Run PROVE InView(r)' <=> InView(r)
    <3>1. (\A i \in DOMAIN outbox' : ~About(r, i)') <=> (\A i \in DOMAIN outbox : ~About(r, i))
      BY <1>8, <1>10, <2>3
    <3>2. (\E i \in DOMAIN outbox' : LastAbout(r, i)' /\ outbox'[i].status = "active")
          <=> (\E i \in DOMAIN outbox : LastAbout(r, i) /\ outbox[i].status = "active")
      BY <1>9, <1>10, <2>3
    <3> QED
      BY <2>1, <3>1, <3>2 DEF InView
  <2> QED
    BY <2>5, <2>6
<1>7. CASE ~(Head(outbox).gen < current.gen)
  <2>1. encSeq = Len(outbox) + beSeq /\ outbox[1].gen = current.gen /\ outbox[1].seq = beSeq + 1
    BY <1>1, <1>2, <1>3, <1>7 DEF NumberInv
  <2>2. /\ beGen' = beGen /\ beSeq' = beSeq + 1
        /\ beActive' = IF outbox[1].status = "active" THEN beActive \cup {outbox[1].run}
                                                      ELSE beActive \ {outbox[1].run}
    BY <1>1, <2>1 DEF BackendTakes, NumberInv
  <2>3. NumberInv'
    <3>1. \A i \in DOMAIN outbox' : /\ i + encSeq > Len(outbox') + beSeq'
                                    /\ (i + 1) + encSeq > Len(outbox) + beSeq
                                    /\ outbox[i + 1].seq + Len(outbox) = encSeq + (i + 1) =>
                                         outbox[i + 1].seq + Len(outbox') = encSeq + i
      <4> SUFFICES ASSUME NEW i \in DOMAIN outbox'
                   PROVE  /\ i + encSeq > Len(outbox') + beSeq'
                          /\ (i + 1) + encSeq > Len(outbox) + beSeq
                          /\ outbox[i + 1].seq + Len(outbox) = encSeq + (i + 1) =>
                               outbox[i + 1].seq + Len(outbox') = encSeq + i
        OBVIOUS
      <4>1. i \in Nat /\ i > 0 /\ i + 1 \in DOMAIN outbox
        BY <1>1, <1>2
      <4>2. outbox[i + 1].seq \in Nat
        BY <1>3, <4>1
      <4>3. beSeq \in Nat /\ Len(outbox) \in Nat /\ Len(outbox') = Len(outbox) - 1 /\ beSeq' = beSeq + 1
            /\ encSeq = Len(outbox) + beSeq
        BY <1>2, <1>3, <2>1, <2>2
      <4> QED
        BY <4>1, <4>2, <4>3
    <3>2. \A i \in DOMAIN outbox' : outbox'[i].gen = current.gen /\ outbox'[i].seq + Len(outbox') = encSeq + i
      BY <1>1, <3>1 DEF NumberInv
    <3>3. beSeq' <= encSeq /\ encSeq <= beSeq' + Len(outbox')
      BY <1>2, <1>3, <2>1, <2>2
    <3> QED
      BY <2>2, <3>1, <3>2, <3>3 DEF NumberInv, Registered
  <2>4. ASSUME NEW r \in Run PROVE InView(r)' <=> InView(r)
    <3>1. About(r, 1) <=> r = outbox[1].run
      BY <2>1 DEF About
    <3>2. CASE \E i \in DOMAIN outbox' : About(r, i)'
      <4>1. \E i \in DOMAIN outbox : i > 1 /\ About(r, i)
        BY <1>8, <3>2
      <4>2. ~LastAbout(r, 1)
        BY <4>1 DEF LastAbout
      <4>3. (\E i \in DOMAIN outbox' : LastAbout(r, i)' /\ outbox'[i].status = "active")
            <=> (\E i \in DOMAIN outbox : LastAbout(r, i) /\ outbox[i].status = "active")
        BY <1>9, <1>10, <4>2
      <4> QED
        BY <3>2, <4>1, <4>3 DEF InView
    <3>3. CASE ~\E i \in DOMAIN outbox' : About(r, i)'
      <4>1. \A i \in DOMAIN outbox : i > 1 => ~About(r, i)
        BY <1>8, <3>3
      <4>2. InView(r)' <=> r \in beActive'
        BY <3>3 DEF InView, LastAbout
      <4>3. InView(r) <=> IF r = outbox[1].run THEN outbox[1].status = "active" ELSE r \in beActive
        BY <1>1, <1>2, <3>1, <4>1 DEF InView, LastAbout
      <4> QED
        BY <2>2, <4>2, <4>3
    <3> QED
      BY <3>2, <3>3
  <2> QED
    BY <2>3, <2>4
<1> QED
  BY <1>6, <1>7
-----------------------------------------------------------------------------
(* Nothing is missed: the encoder's last word on a session agrees with the  *)
(* goal; the start of a live run is yet to come, or is the last word of its *)
(* session; and the end of a run that the goal still has is yet to come,    *)
(* and will be taken for the end of the session's run.                      *)
Holds(r) == encRun[sessionOf[r]] = Starting(r) \/ Starting(r) \in todo
Awaits(r) == \E i \in Place : Pending(i) = Starting(r)
Quiet(r) == \A i \in Place : ~Of(i, sessionOf[r])
QuietBefore(i, r) == \A j \in Place : j < i => ~Of(j, sessionOf[r])

EncoderTells ==
    \A s \in Session : encRun[s] # None =>
       /\ sessionOf[encRun[s].run] = s
       /\ encRun[s].status = "active" => InGoal(encRun[s].run)
       /\ encRun[s].status = "ended" => ~InGoal(encRun[s].run) /\ run[encRun[s].run] = "ended"
StartsReach == \A r \in Live : Awaits(r) \/ (Holds(r) /\ Quiet(r))
EndReaches(r) == \E i \in Place : /\ Pending(i) = Ending(r)
                                  /\ Awaits(r) \/ (Holds(r) /\ QuietBefore(i, r))
EndsReach == \A r \in Run : InGoal(r) /\ run[r] = "ended" => EndReaches(r)
TodoFits ==
    \A r \in Run : Starting(r) \in todo =>
       /\ encRun[sessionOf[r]] = None /\ Ending(r) \notin todo
       /\ \A q \in Run : Starting(q) \in todo /\ sessionOf[q] = sessionOf[r] => q = r

TracksInv == NumberInv /\ EncoderTells /\ StartsReach /\ EndsReach /\ TodoFits

LEMMA EncoderRuns ==
    ASSUME IInv, NEW s \in Session, encRun[s] # None
    PROVE  encRun[s] \in Frame /\ encRun[s].run \in Run /\ encRun[s].status \in {"active", "ended"}
           /\ encRun[s] \in {Starting(encRun[s].run), Ending(encRun[s].run)}
BY FrameIs DEF IInv, Types, SourceTypes

LEMMA RunSessions ==
    ASSUME IInv
    PROVE  \A r \in Run : sessionOf[r] \in Session
BY Constants DEF IInv, Types, RunTypes

LEMMA GoalIsKnown ==
    ASSUME IInv, KnownInv, NEW r \in Run, InGoal(r)
    PROVE  run[r] # "new"
<1>1. CASE Starting(r) \in todo
  BY <1>1, FramesAre DEF KnownInv, Truthful
<1>2. CASE InView(r)
  BY <1>2 DEF KnownInv, InView, LastAbout, About
<1> QED
  BY <1>1, <1>2 DEF InGoal

LEMMA TracksJoined ==
    ASSUME IInv, KnownInv, TracksInv, NEW f \in Frame, queue' = Append(queue, f),
           run' = [run EXCEPT ![f.run] = f.status],
           f.status = "active" => run[f.run] = "new" /\ \A q \in Live : sessionOf[q] # sessionOf[f.run],
           f.status = "ended" => run[f.run] = "active",
           UNCHANGED <<outbox, current, encSeq, encRun, frame, todo, beGen, beSeq, beActive, sessionOf>>
    PROVE  TracksInv'
<1> DEFINE q == f.run
<1>1. PICK n \in Nat : /\ Place' = Place \cup {n} /\ Pending(n)' = f
                      /\ \A i \in Place : /\ i \in Nat /\ i < n /\ Pending(i)' = Pending(i)
                                          /\ \A s \in Session : Of(i, s)' <=> Of(i, s)
  BY PlaceJoined
<1>2. q \in Run /\ f \in {Starting(q), Ending(q)} /\ (f.status = "active" <=> f = Starting(q))
      /\ f.status \in {"active", "ended"}
  BY FrameIs
<1>3. \A r \in Run : run'[r] = IF r = q THEN f.status ELSE run[r]
  BY <1>2 DEF IInv, Types, RunTypes
<1>4. \A r \in Run : (InGoal(r)' <=> InGoal(r)) /\ (Holds(r)' <=> Holds(r))
  BY DEF InGoal, InView, LastAbout, About, Holds, Starting, Ending
<1>5. \A r \in Run : Awaits(r) => Awaits(r)'
  BY <1>1 DEF Awaits, Starting
<1>6. \A r \in Run : sessionOf[r] \in Session
  BY RunSessions
<1>7. \A r \in Live' : r # q => r \in Live /\ sessionOf[r] # sessionOf[q]
  BY <1>2, <1>3 DEF Live, KnownInv
<1> HIDE DEF q
<1>8. NumberInv'
  BY DEF TracksInv, NumberInv, Registered
<1>9. TodoFits'
  BY DEF TracksInv, TodoFits, Starting, Ending
<1>10. EncoderTells'
  <2> SUFFICES ASSUME NEW s \in Session, encRun[s] # None
               PROVE  /\ sessionOf[encRun[s].run] = s
                      /\ encRun[s].status = "active" => InGoal(encRun[s].run)'
                      /\ encRun[s].status = "ended" => ~InGoal(encRun[s].run)' /\ run'[encRun[s].run] = "ended"
    BY DEF EncoderTells
  <2>1. PICK p \in Run : p = encRun[s].run
    BY EncoderRuns
  <2>2. /\ sessionOf[p] = s
        /\ encRun[s].status = "active" => InGoal(p)
        /\ encRun[s].status = "ended" => ~InGoal(p) /\ run[p] = "ended"
    BY <2>1 DEF TracksInv, EncoderTells
  <2>3. run[p] = "ended" => run'[p] = "ended"
    BY <1>2, <1>3 DEF q
  <2>4. InGoal(encRun[s].run)' <=> InGoal(p)'
    BY <2>1 DEF InGoal, InView, LastAbout, About, Starting, Ending
  <2> QED
    BY <1>4, <2>1, <2>2, <2>3, <2>4
<1>11. StartsReach'
  <2> SUFFICES ASSUME NEW r \in Live' PROVE (Awaits(r) \/ (Holds(r) /\ Quiet(r)))'
    BY DEF StartsReach
  <2>0. r \in Run /\ run'[r] = "active"
    BY DEF Live
  <2>1. CASE r = q
    <3>1. f = Starting(r)
      BY <1>2, <1>3, <2>0, <2>1
    <3> QED
      BY <1>1, <3>1 DEF Awaits, Starting
  <2>2. CASE r # q
    <3>1. r \in Live /\ sessionOf[r] # sessionOf[q]
      BY <1>7, <2>2
    <3>2. CASE Awaits(r)
      BY <1>5, <2>0, <3>2
    <3>3. CASE Holds(r) /\ Quiet(r)
      <4>1. ~Of(n, sessionOf[r])'
        BY <1>1, <3>1 DEF Of, q
      <4>2. Quiet(r)'
        BY <1>1, <1>6, <2>0, <3>3, <4>1 DEF Quiet
      <4> QED
        BY <1>4, <2>0, <3>3, <4>2
    <3> QED
      BY <3>1, <3>2, <3>3 DEF TracksInv, StartsReach
  <2> QED
    BY <2>1, <2>2
<1>12. EndsReach'
  <2> SUFFICES ASSUME NEW r \in Run, InGoal(r), run'[r] = "ended"
               PROVE  EndReaches(r)'
    BY <1>4 DEF EndsReach
  <2>1. CASE r = q
    <3>1. f = Ending(r) /\ r \in Live
      BY <1>2, <1>3, <2>1 DEF Live, q
    <3>2. Holds(r) /\ Quiet(r) => Holds(r)' /\ QuietBefore(n, r)'
      BY <1>1, <1>4, <1>6 DEF Quiet, QuietBefore
    <3> QED
      BY <1>1, <1>5, <3>1, <3>2 DEF TracksInv, StartsReach, EndReaches, Ending
  <2>2. CASE r # q
    <3>1. EndReaches(r)
      BY <1>3, <2>2 DEF TracksInv, EndsReach
    <3>2. PICK i \in Place : Pending(i) = Ending(r) /\ (Awaits(r) \/ (Holds(r) /\ QuietBefore(i, r)))
      BY <3>1 DEF EndReaches
    <3>3. QuietBefore(i, r) => QuietBefore(i, r)'
      BY <1>1, <1>6 DEF QuietBefore
    <3> QED
      BY <1>1, <1>4, <1>5, <3>2, <3>3 DEF EndReaches, Ending
  <2> QED
    BY <2>1, <2>2
<1> QED
  BY <1>8, <1>9, <1>10, <1>11, <1>12 DEF TracksInv

LEMMA TracksTaken ==
    ASSUME IInv, TracksInv, frame = None, queue # <<>>, queue' = Tail(queue), frame' = Head(queue),
           UNCHANGED <<outbox, current, encSeq, encRun, todo, beGen, beSeq, beActive, run, sessionOf>>
    PROVE  TracksInv'
<1>1. /\ \A i \in Place' : i \in Nat /\ i + 1 \in Place /\ Pending(i)' = Pending(i + 1)
      /\ \A j \in Place : j \in Nat /\ (Pending(j) \in Frame => j > 0)
                          /\ (j > 0 => j - 1 \in Place' /\ Pending(j - 1)' = Pending(j))
  BY QueueElement, Constants DEF Place, Pending
<1>2. \A r \in Run : (InGoal(r)' <=> InGoal(r)) /\ (Holds(r)' <=> Holds(r))
  BY DEF InGoal, InView, LastAbout, About, Holds, Starting, Ending
<1>3. \A r \in Run : Awaits(r) => Awaits(r)'
  BY <1>1, FramesAre DEF Awaits, Starting
<1>4. \A i \in Place', s \in Session : Of(i, s)' <=> Of(i + 1, s)
  BY <1>1 DEF Of
<1>5. \A r \in Run : sessionOf[r] \in Session
  BY RunSessions
<1>6. NumberInv' /\ TodoFits'
  BY DEF TracksInv, NumberInv, Registered, TodoFits, Starting, Ending
<1>7. EncoderTells'
  BY DEF TracksInv, EncoderTells, InGoal, InView, LastAbout, About, Starting, Ending
<1>8. StartsReach'
  <2> SUFFICES ASSUME NEW r \in Run, run[r] = "active" PROVE (Awaits(r) \/ (Holds(r) /\ Quiet(r)))'
    BY DEF StartsReach, Live
  <2>1. Quiet(r) => Quiet(r)'
    BY <1>1, <1>4, <1>5 DEF Quiet
  <2> QED
    BY <1>2, <1>3, <2>1 DEF TracksInv, StartsReach, Live
<1>9. EndsReach'
  <2> SUFFICES ASSUME NEW r \in Run, InGoal(r), run[r] = "ended" PROVE EndReaches(r)'
    BY <1>2 DEF EndsReach
  <2>1. PICK i \in Place : Pending(i) = Ending(r) /\ (Awaits(r) \/ (Holds(r) /\ QuietBefore(i, r)))
    BY DEF TracksInv, EndsReach, EndReaches
  <2>2. PICK j \in Place' : j = i - 1 /\ Pending(j)' = Pending(i) /\ i \in Nat
    BY <1>1, <2>1, FramesAre
  <2>3. QuietBefore(i, r) => QuietBefore(j, r)'
    <3> SUFFICES ASSUME QuietBefore(i, r), NEW k \in Place', k < j PROVE ~Of(k, sessionOf[r])'
      BY DEF QuietBefore
    <3>1. k + 1 \in Place /\ k + 1 < i
      BY <1>1, <2>2
    <3> QED
      BY <1>4, <1>5, <3>1 DEF QuietBefore
  <2> QED
    BY <1>2, <1>3, <2>1, <2>2, <2>3 DEF EndReaches, Ending
<1> QED
  BY <1>6, <1>7, <1>8, <1>9 DEF TracksInv

LEMMA TracksSubmitted ==
    ASSUME IInv, TracksInv, outbox # <<>>, outbox' = Tail(outbox), BackendTakes(Head(outbox)),
           UNCHANGED <<current, encSeq, encRun, queue, frame, todo, run, sessionOf>>
    PROVE  TracksInv'
<1>1. NumberInv' /\ \A r \in Run : InView(r)' <=> InView(r)
  BY ViewSubmitted DEF TracksInv
<1>2. \A r \in Run : InGoal(r)' <=> InGoal(r)
  BY <1>1 DEF InGoal, Starting, Ending
<1>3. \A r \in Run : (Holds(r)' <=> Holds(r)) /\ (Awaits(r)' <=> Awaits(r)) /\ (Quiet(r)' <=> Quiet(r))
  BY DEF Holds, Awaits, Quiet, Of, Place, Pending, Starting
<1>4. StartsReach'
  BY <1>3 DEF TracksInv, StartsReach, Live
<1>5. TodoFits'
  BY DEF TracksInv, TodoFits, Starting, Ending
<1>6. EncoderTells'
  <2> SUFFICES ASSUME NEW s \in Session, encRun[s] # None
               PROVE  /\ sessionOf[encRun[s].run] = s
                      /\ encRun[s].status = "active" => InGoal(encRun[s].run)'
                      /\ encRun[s].status = "ended" => ~InGoal(encRun[s].run)' /\ run[encRun[s].run] = "ended"
    BY DEF EncoderTells
  <2>1. PICK p \in Run : p = encRun[s].run
    BY EncoderRuns
  <2>2. InGoal(encRun[s].run)' <=> InGoal(p)'
    BY <2>1 DEF InGoal, InView, LastAbout, About, Starting, Ending
  <2> QED
    BY <1>2, <2>1, <2>2 DEF TracksInv, EncoderTells
<1>7. \A r \in Run : EndReaches(r)' <=> EndReaches(r)
  BY DEF EndReaches, Holds, Awaits, QuietBefore, Of, Place, Pending, Starting, Ending
<1>8. EndsReach'
  BY <1>2, <1>7 DEF TracksInv, EndsReach
<1> QED
  BY <1>1, <1>4, <1>5, <1>6, <1>8 DEF TracksInv

(* What the answer of a registration is worth: the backend has begun anew,  *)
(* the encoder too, and the pending events are of former generations.       *)
FreshInv ==
    /\ Registered /\ beGen = current.gen /\ beSeq = 0 /\ NoneEncoded
    /\ \A i \in DOMAIN outbox : outbox[i].gen < current.gen
    /\ response = beActive

LEMMA TracksQueried ==
    ASSUME IInv, KnownInv, OrderInv, FreshInv, connected,
           \A i \in DOMAIN queue : queue[i] # Activation,
           todo' = {[run |-> r, status |-> "active"] : r \in Live}
                   \cup {[run |-> r, status |-> "ended"] : r \in response \ Live},
           UNCHANGED <<outbox, current, encSeq, encRun, queue, frame, beGen, beSeq, beActive, run, sessionOf>>
    PROVE  TracksInv'
<1>1. current \in Source /\ current.gen \in Nat
  BY DEF FreshInv, Registered, Source
<1>2. \A r \in Run : \A i \in DOMAIN outbox : ~About(r, i)'
  BY <1>1, OutboxElement DEF FreshInv, About, Event
<1>3. \A r \in Run : InView(r)' <=> r \in beActive
  BY <1>2 DEF InView, LastAbout
<1>4. todo' = {Starting(r) : r \in Live} \cup {Ending(r) : r \in response \ Live}
  BY DEF Starting, Ending
<1>5. \A r \in Run : (Starting(r) \in todo' <=> r \in Live) /\ (Ending(r) \in todo' <=> r \in response \ Live)
  BY <1>4 DEF Starting, Ending
<1>6. \A r \in Run : InGoal(r)' <=> r \in Live
  <2>1. \A r \in Run : InGoal(r)' <=> (InView(r)' \/ Starting(r) \in todo') /\ Ending(r) \notin todo'
    BY DEF InGoal, Starting, Ending
  <2> QED
    BY <1>3, <1>5, <2>1 DEF FreshInv
<1>7. NumberInv'
  <2>1. Len(outbox) \in Nat /\ DOMAIN outbox = 1..Len(outbox)
    BY LenProperties DEF IInv, Types, OutboxType
  <2> QED
    BY <2>1 DEF FreshInv, NoneEncoded, NumberInv, Registered
<1>8. \A s \in Session : encRun[s] = None
  BY DEF FreshInv, NoneEncoded, NoRun
<1>9. EncoderTells'
  BY <1>8 DEF EncoderTells
<1>10. StartsReach'
  <2> SUFFICES ASSUME NEW r \in Live PROVE (Awaits(r) \/ (Holds(r) /\ Quiet(r)))'
    BY DEF StartsReach, Live
  <2>1. r \in Run /\ run[r] = "active" /\ Holds(r)'
    BY <1>5 DEF Live, Holds, Starting
  <2>2. CASE Quiet(r)
    BY <2>1, <2>2 DEF Quiet, Of, Place, Pending
  <2>3. CASE ~Quiet(r)
    <3>1. PICK i \in Place : Of(i, sessionOf[r])
      BY <2>3 DEF Quiet
    <3>2. Clear(i)
      <4> SUFFICES ASSUME NEW j \in Place, j >= i PROVE Pending(j) # Activation
        BY DEF Clear
      <4> QED
        BY QueueElement, Constants DEF Place, Pending, IInv, Types, PlaceTypes
    <3>3. Awaits(r)
      BY <2>1, <3>1, <3>2 DEF OrderInv, OrderAt, StartFollows, Awaits
    <3> QED
      BY <3>3 DEF Awaits, Place, Pending, Starting
  <2> QED
    BY <2>2, <2>3
<1>11. EndsReach'
  BY <1>6 DEF EndsReach, Live
<1>12. TodoFits'
  <2> SUFFICES ASSUME NEW r \in Run, Starting(r) \in todo'
               PROVE  /\ encRun[sessionOf[r]] = None /\ Ending(r) \notin todo'
                      /\ \A q \in Run : Starting(q) \in todo' /\ sessionOf[q] = sessionOf[r] => q = r
    BY DEF TodoFits, Starting, Ending
  <2> QED
    BY <1>5, <1>8, RunSessions DEF KnownInv
<1> QED
  BY <1>7, <1>9, <1>10, <1>11, <1>12 DEF TracksInv

LEMMA TracksCorrected ==
    ASSUME IInv, KnownInv, TracksInv, NEW f \in Frame, f \in todo,
           f.status = "ended" => /\ \A g \in todo : g.status = "ended"
                                 /\ \/ encRun[sessionOf[f.run]] = None
                                    \/ encRun[sessionOf[f.run]].run = f.run,
           outbox' = Append(outbox, Numbered(f)), encSeq' = encSeq + 1,
           encRun' = [encRun EXCEPT ![sessionOf[f.run]] = f], todo' = todo \ {f},
           UNCHANGED <<current, queue, frame, beGen, beSeq, beActive, run, sessionOf>>
    PROVE  TracksInv'
<1>1. PICK p \in Run : p = f.run /\ f \in {Starting(p), Ending(p)} /\ (f.status = "active" <=> f = Starting(p))
                       /\ f.status \in {"active", "ended"}
  BY FrameIs
<1>2. current \in Source
  BY DEF TracksInv, NumberInv, Registered
<1>3. \A r \in Run : InView(r)' <=> IF r = p THEN f = Starting(p) ELSE InView(r)
  BY <1>1, <1>2, ViewJoined
<1>4. NumberInv'
  BY NumberJoined DEF TracksInv
<1>5. \A r \in Run : /\ Starting(r) \in todo' <=> Starting(r) \in todo /\ f # Starting(r)
                     /\ Ending(r) \in todo' <=> Ending(r) \in todo /\ f # Ending(r)
  OBVIOUS
<1>6. f = Starting(p) => encRun[sessionOf[p]] = None /\ Ending(p) \notin todo
                         /\ \A r \in Run : Starting(r) \in todo /\ sessionOf[r] = sessionOf[p] => r = p
  <2>1. \A q, r \in Run : Starting(r) \in todo /\ Starting(q) \in todo /\ sessionOf[q] = sessionOf[r] => q = r
    BY DEF TracksInv, TodoFits
  <2> QED
    BY <2>1 DEF TracksInv, TodoFits
<1>7. f = Ending(p) => run[p] = "ended" /\ \A r \in Run : Starting(r) \notin todo
  <2>1. f = Ending(p) => run[p] = "ended"
    BY <1>1, FramesAre DEF KnownInv, Truthful
  <2>2. f = Ending(p) => f.status = "ended"
    BY FramesAre
  <2>3. \A r \in Run : Starting(r).status # "ended"
    BY FramesAre
  <2> QED
    BY <2>1, <2>2, <2>3
<1>8. \A r \in Run : InGoal(r)' <=> (InView(r)' \/ Starting(r) \in todo') /\ Ending(r) \notin todo'
  BY DEF InGoal, Starting, Ending
<1>9. (f = Starting(p) => InGoal(p)) /\ (f = Ending(p) => ~InGoal(p))
  BY <1>6 DEF InGoal
<1>10. \A r \in Run : InGoal(r)' <=> InGoal(r)
  <2> SUFFICES ASSUME NEW r \in Run PROVE InGoal(r)' <=> InGoal(r)
    OBVIOUS
  <2>1. CASE r # p
    <3>1. f # Starting(r) /\ f # Ending(r)
      BY <1>1, <2>1, FramesAre
    <3> QED
      BY <1>3, <1>5, <1>8, <2>1, <3>1 DEF InGoal
  <2>2. CASE r = p /\ f = Starting(p)
    BY <1>3, <1>5, <1>6, <1>8, <1>9, <2>2
  <2>3. CASE r = p /\ f = Ending(p)
    BY <1>3, <1>5, <1>7, <1>8, <1>9, <2>3, FramesAre
  <2> QED
    BY <1>1, <2>1, <2>2, <2>3
<1>11. \A r \in Run : sessionOf[r] \in Session
  BY RunSessions
<1>12. \A s \in Session : encRun'[s] = IF s = sessionOf[p] THEN f ELSE encRun[s]
  BY <1>1, <1>11 DEF IInv, Types, SourceTypes
<1>13. \A r \in Run : Holds(r)' <=> encRun'[sessionOf[r]] = Starting(r) \/ Starting(r) \in todo'
  BY DEF Holds, Starting
<1>14. \A r \in Run : Holds(r) /\ (f = Ending(p) => r # p) => Holds(r)'
  <2> SUFFICES ASSUME NEW r \in Run, Holds(r), f = Ending(p) => r # p PROVE Holds(r)'
    OBVIOUS
  <2>1. CASE sessionOf[r] # sessionOf[p]
    <3>1. f # Starting(r)
      BY <1>1, <2>1, FramesAre
    <3> QED
      BY <1>5, <1>11, <1>12, <1>13, <2>1, <3>1 DEF Holds
  <2>2. CASE sessionOf[r] = sessionOf[p] /\ f = Starting(p)
    <3>1. r = p
      BY <1>6, <2>2, FramesAre, Constants DEF Holds
    <3> QED
      BY <1>11, <1>12, <1>13, <2>2, <3>1
  <2>3. CASE sessionOf[r] = sessionOf[p] /\ f = Ending(p)
    <3>1. encRun[sessionOf[p]] = Starting(r)
      BY <1>7, <2>3 DEF Holds
    <3>2. r = p
      BY <1>1, <2>3, <3>1, FramesAre, Constants
    <3> QED
      BY <2>3, <3>2
  <2> QED
    BY <1>1, <2>1, <2>2, <2>3
<1>15. \A r \in Run : (Awaits(r)' <=> Awaits(r)) /\ (Quiet(r)' <=> Quiet(r))
  BY DEF Awaits, Quiet, Of, Place, Pending, Starting
<1>16. StartsReach'
  <2> SUFFICES ASSUME NEW r \in Run, run[r] = "active" PROVE (Awaits(r) \/ (Holds(r) /\ Quiet(r)))'
    BY DEF StartsReach, Live
  <2> QED
    BY <1>7, <1>14, <1>15 DEF TracksInv, StartsReach, Live
<1>17. EndsReach'
  <2> SUFFICES ASSUME NEW r \in Run, InGoal(r), run[r] = "ended" PROVE EndReaches(r)'
    BY <1>10 DEF EndsReach
  <2>1. PICK i \in Place : Pending(i) = Ending(r) /\ (Awaits(r) \/ (Holds(r) /\ QuietBefore(i, r)))
    BY DEF TracksInv, EndsReach, EndReaches
  <2>2. Holds(r) => Holds(r)'
    BY <1>9, <1>14
  <2>3. i \in Place' /\ Pending(i)' = Ending(r) /\ (QuietBefore(i, r)' <=> QuietBefore(i, r))
    BY <2>1 DEF Place, Pending, QuietBefore, Of
  <2> QED
    BY <1>15, <2>1, <2>2, <2>3 DEF EndReaches, Ending
<1>18. EncoderTells'
  <2> SUFFICES ASSUME NEW s \in Session, encRun'[s] # None
               PROVE  /\ sessionOf[encRun'[s].run] = s
                      /\ encRun'[s].status = "active" => InGoal(encRun[s].run)'
                      /\ encRun'[s].status = "ended" => ~InGoal(encRun[s].run)' /\ run[encRun'[s].run] = "ended"
    BY DEF EncoderTells
  <2>1. CASE s = sessionOf[p]
    <3>1. encRun'[s] = f
      BY <1>12, <2>1
    <3>2. InGoal(encRun[s].run)' <=> InGoal(p)'
      BY <1>1, <3>1 DEF InGoal, InView, LastAbout, About, Starting, Ending
    <3> QED
      BY <1>1, <1>7, <1>9, <1>10, <2>1, <3>1, <3>2, FramesAre
  <2>2. CASE s # sessionOf[p]
    <3>1. encRun'[s] = encRun[s] /\ encRun[s] # None
      BY <1>12, <2>2
    <3>2. PICK q \in Run : q = encRun[s].run
      BY <3>1, EncoderRuns
    <3>3. InGoal(encRun[s].run)' <=> InGoal(q)'
      BY <3>1, <3>2 DEF InGoal, InView, LastAbout, About, Starting, Ending
    <3> QED
      BY <1>10, <3>1, <3>2, <3>3 DEF TracksInv, EncoderTells
  <2> QED
    BY <2>1, <2>2
<1>19. TodoFits'
  <2> SUFFICES ASSUME NEW r \in Run, Starting(r) \in todo'
               PROVE  /\ encRun'[sessionOf[r]] = None /\ Ending(r) \notin todo'
                      /\ \A q \in Run : Starting(q) \in todo' /\ sessionOf[q] = sessionOf[r] => q = r
    BY DEF TodoFits, Starting, Ending
  <2>1. Starting(r) \in todo /\ f # Starting(r) /\ f = Starting(p)
    BY <1>1, <1>5, <1>7
  <2>2. sessionOf[r] # sessionOf[p]
    BY <1>6, <2>1
  <2>3. encRun[sessionOf[r]] = None /\ Ending(r) \notin todo
        /\ \A q \in Run : Starting(q) \in todo /\ sessionOf[q] = sessionOf[r] => q = r
    BY <2>1 DEF TracksInv, TodoFits
  <2> QED
    BY <1>5, <1>11, <1>12, <2>2, <2>3
<1> QED
  BY <1>4, <1>16, <1>17, <1>18, <1>19 DEF TracksInv

LEMMA TracksEncoded ==
    ASSUME IInv, KnownInv, OrderInv, TracksInv, connected, todo = {}, frame \in Frame,
           \A i \in DOMAIN queue : queue[i] # Activation, frame' = None,
           IF Applies(encRun[sessionOf[frame.run]], frame)
           THEN /\ outbox' = Append(outbox, Numbered(frame)) /\ encSeq' = encSeq + 1
                /\ encRun' = [encRun EXCEPT ![sessionOf[frame.run]] = frame]
           ELSE UNCHANGED <<outbox, encSeq, encRun>>,
           UNCHANGED <<current, queue, todo, beGen, beSeq, beActive, run, sessionOf>>
    PROVE  TracksInv'
<1>1. PICK f \in Frame, p \in Run :
         /\ f = frame /\ p = f.run /\ f \in {Starting(p), Ending(p)} /\ (f.status = "active" <=> f = Starting(p))
         /\ f.status \in {"active", "ended"}
  BY FrameIs
<1>2. PICK A \in BOOLEAN : A <=> Applies(encRun[sessionOf[p]], f)
  <2>1. CASE Applies(encRun[sessionOf[p]], f)
    <3>1. TRUE <=> Applies(encRun[sessionOf[p]], f)
      BY <2>1
    <3> QED
      BY <3>1, Zenon
  <2>2. CASE ~Applies(encRun[sessionOf[p]], f)
    <3>1. FALSE <=> Applies(encRun[sessionOf[p]], f)
      BY <2>2
    <3> QED
      BY <3>1, Zenon
  <2> QED
    BY <2>1, <2>2
<1>3. IF A THEN /\ outbox' = Append(outbox, Numbered(f)) /\ encSeq' = encSeq + 1
                /\ encRun' = [encRun EXCEPT ![sessionOf[p]] = f]
           ELSE UNCHANGED <<outbox, encSeq, encRun>>
  BY <1>1, <1>2
<1>4. current \in Source
  BY DEF TracksInv, NumberInv, Registered
<1>5. \A r \in Run : sessionOf[r] \in Session
  BY RunSessions
<1>6. /\ Place' = Place /\ 0 \in Place /\ Pending(0) = f
      /\ \A i \in Place : i \in Nat /\ (i > 0 => Pending(i)' = Pending(i))
      /\ \A i \in Place : i = 0 => Pending(i)' = None
  BY <1>1, QueueElement DEF Place, Pending
<1>7. \A i \in Place, s \in Session : /\ i > 0 => (Of(i, s)' <=> Of(i, s))
                                      /\ i = 0 => ~Of(i, s)'
  BY <1>6, Constants DEF Of
<1>8. Of(0, sessionOf[p])
  BY <1>1, <1>6 DEF Of
<1>9. \A r \in Run : InGoal(r) <=> InView(r)
  BY DEF InGoal
<1>10. \A r \in Run : InGoal(r)' <=> IF A /\ r = p THEN f = Starting(p) ELSE InGoal(r)
  <2>1. \A r \in Run : InGoal(r)' <=> InView(r)'
    BY DEF InGoal
  <2>2. CASE A
    <3>1. \A r \in Run : InView(r)' <=> IF r = f.run THEN f.status = "active" ELSE InView(r)
      BY <1>3, <1>4, <2>2, ViewJoined
    <3> QED
      BY <1>1, <1>9, <2>1, <2>2, <3>1
  <2>3. CASE ~A
    <3>1. \A r \in Run : InView(r)' <=> InView(r)
      BY <1>3, <2>3 DEF InView, LastAbout, About
    <3> QED
      BY <1>9, <2>1, <2>3, <3>1
  <2> QED
    BY <1>2, <2>2, <2>3
<1>11. \A s \in Session : encRun'[s] = IF A /\ s = sessionOf[p] THEN f ELSE encRun[s]
  BY <1>3, <1>5 DEF IInv, Types, SourceTypes
<1>12. \A r \in Run : (Holds(r) <=> encRun[sessionOf[r]] = Starting(r))
                      /\ (Holds(r)' <=> encRun'[sessionOf[r]] = Starting(r))
  BY DEF Holds, Starting
<1>13. \A r \in Run : Awaits(r) /\ f # Starting(r) => Awaits(r)'
  <2> SUFFICES ASSUME NEW r \in Run, Awaits(r), f # Starting(r) PROVE Awaits(r)'
    OBVIOUS
  <2>1. PICK i \in Place : Pending(i) = Starting(r)
    BY DEF Awaits
  <2>2. i > 0
    BY <1>6, <2>1
  <2> QED
    BY <1>6, <2>1, <2>2 DEF Awaits, Starting
<1>14. \A r \in Run, i \in Place : QuietBefore(i, r) => QuietBefore(i, r)' /\ (i > 0 => sessionOf[r] # sessionOf[p])
  <2> SUFFICES ASSUME NEW r \in Run, NEW i \in Place, QuietBefore(i, r)
               PROVE  QuietBefore(i, r)' /\ (i > 0 => sessionOf[r] # sessionOf[p])
    OBVIOUS
  <2>1. \A j \in Place : j = 0 \/ j > 0
    BY <1>6
  <2>2. QuietBefore(i, r)'
    BY <1>5, <1>6, <1>7, <2>1 DEF QuietBefore
  <2> QED
    BY <1>6, <1>8, <2>2 DEF QuietBefore
<1>15. \A r \in Run : Quiet(r) => Quiet(r)' /\ sessionOf[r] # sessionOf[p]
  <2>1. \A j \in Place : j = 0 \/ j > 0
    BY <1>6
  <2> QED
    BY <1>5, <1>6, <1>7, <1>8, <2>1 DEF Quiet
<1>16. \A r \in Run : Holds(r) /\ sessionOf[r] # sessionOf[p] => Holds(r)'
  BY <1>5, <1>11, <1>12
<1>17. OrderAt(0, p)
  <2>1. Clear(0)
    <3> SUFFICES ASSUME NEW j \in Place PROVE Pending(j) # Activation
      BY DEF Clear
    <3> QED
      BY QueueElement, Constants DEF Place, Pending
  <2> QED
    BY <1>6, <2>1 DEF OrderInv
<1>18. f = Starting(p) /\ ~A => encRun[sessionOf[p]] \in {Starting(p), Ending(p)}
  <2> SUFFICES ASSUME f = Starting(p), ~A PROVE encRun[sessionOf[p]] \in {Starting(p), Ending(p)}
    OBVIOUS
  <2>1. encRun[sessionOf[p]] # None /\ encRun[sessionOf[p]].run = p
    BY <1>1, <1>2 DEF Applies
  <2> QED
    BY <1>5, <2>1, EncoderRuns
<1>19. encRun[sessionOf[p]] = Ending(p) => ~InGoal(p) /\ run[p] = "ended"
  BY <1>5, FramesAre, Constants DEF TracksInv, EncoderTells
<1>20. f = Starting(p) /\ (InGoal(p)' \/ run[p] = "active") => Holds(p)' \/ (~A /\ ~InGoal(p) /\ run[p] = "ended")
  BY <1>2, <1>5, <1>11, <1>12, <1>18, <1>19
<1>21. StartsReach'
  <2> SUFFICES ASSUME NEW r \in Run, run[r] = "active" PROVE (Awaits(r) \/ (Holds(r) /\ Quiet(r)))'
    BY DEF StartsReach, Live
  <2>1. CASE f = Starting(r)
    <3>1. r = p
      BY <1>1, <2>1, FramesAre
    <3>2. LastWord(0, p)
      BY <1>6, <1>17, <2>1, <3>1 DEF OrderAt
    <3>3. Quiet(p)'
      <4>1. \A j \in Place : j = 0 \/ j > 0
        BY <1>6
      <4> QED
        BY <1>5, <1>6, <1>7, <3>2, <4>1 DEF LastWord, Quiet
    <3> QED
      BY <1>20, <2>1, <3>1, <3>3
  <2>2. CASE f # Starting(r)
    BY <1>13, <1>15, <1>16, <2>2 DEF TracksInv, StartsReach, Live
  <2> QED
    BY <2>1, <2>2
<1>22. EndsReach'
  <2> SUFFICES ASSUME NEW r \in Run, InGoal(r)', run[r] = "ended" PROVE EndReaches(r)'
    BY DEF EndsReach
  <2>1. CASE r # p
    <3>1. PICK i \in Place : Pending(i) = Ending(r) /\ (Awaits(r) \/ (Holds(r) /\ QuietBefore(i, r)))
      BY <1>10, <2>1 DEF TracksInv, EndsReach, EndReaches
    <3>2. f # Starting(r) /\ f # Ending(r)
      BY <1>1, <2>1, FramesAre
    <3>3. i > 0
      BY <1>6, <3>1, <3>2
    <3> QED
      BY <1>6, <1>13, <1>14, <1>16, <3>1, <3>2, <3>3 DEF EndReaches, Ending
  <2>2. CASE r = p /\ f = Starting(p)
    <3>1. PICK j \in Place : /\ j > 0 /\ Pending(j) = Ending(p)
                             /\ \A k \in Place : 0 < k /\ k < j => ~Of(k, sessionOf[p])
      BY <1>6, <1>17, <2>2 DEF OrderAt, EndFollows
    <3>2. QuietBefore(j, p)'
      <4>1. \A k \in Place : k = 0 \/ k > 0
        BY <1>6
      <4> QED
        BY <1>5, <1>6, <1>7, <3>1, <4>1 DEF QuietBefore
    <3>3. Holds(p)'
      BY <1>10, <1>20, <2>2
    <3> QED
      BY <1>6, <2>2, <3>1, <3>2, <3>3 DEF EndReaches, Ending
  <2>3. CASE r = p /\ f = Ending(p)
    <3>1. ~A /\ InGoal(p)
      BY <1>10, <2>3, FramesAre
    <3>2. Awaits(p) \/ Holds(p)
      BY <2>3, <3>1 DEF TracksInv, EndsReach, EndReaches
    <3>3. ~Awaits(p)
      <4>1. NoStartAfter(0, p)
        BY <1>6, <1>17, <2>3 DEF OrderAt
      <4>2. f # Starting(p)
        BY <2>3, FramesAre
      <4>3. \A j \in Place : j = 0 \/ j > 0
        BY <1>6
      <4> QED
        BY <1>6, <4>1, <4>2, <4>3 DEF NoStartAfter, Awaits
    <3>4. ~Holds(p)
      <4>1. Applies(Starting(p), Ending(p))
        BY FramesAre, Constants DEF Applies
      <4> QED
        BY <1>2, <1>12, <2>3, <3>1, <4>1
    <3> QED
      BY <3>2, <3>3, <3>4
  <2> QED
    BY <1>1, <2>1, <2>2, <2>3
<1>23. EncoderTells'
  <2> SUFFICES ASSUME NEW s \in Session, encRun'[s] # None
               PROVE  /\ sessionOf[encRun'[s].run] = s
                      /\ encRun'[s].status = "active" => InGoal(encRun[s].run)'
                      /\ encRun'[s].status = "ended" => ~InGoal(encRun[s].run)' /\ run[encRun'[s].run] = "ended"
    BY DEF EncoderTells
  <2>1. CASE A /\ s = sessionOf[p]
    <3>1. encRun'[s] = f
      BY <1>11, <2>1
    <3>2. InGoal(encRun[s].run)' <=> InGoal(p)'
      BY <1>1, <3>1 DEF InGoal, InView, LastAbout, About, Starting, Ending
    <3>3. f.status = "ended" => run[p] = "ended"
      BY <1>1 DEF KnownInv, Truthful
    <3> QED
      BY <1>1, <1>10, <2>1, <3>1, <3>2, <3>3
  <2>2. CASE ~(A /\ s = sessionOf[p])
    <3>1. encRun'[s] = encRun[s] /\ encRun[s] # None
      BY <1>11, <2>2
    <3>2. PICK q \in Run : q = encRun[s].run
      BY <3>1, EncoderRuns
    <3>3. InGoal(encRun[s].run)' <=> InGoal(q)'
      BY <3>1, <3>2 DEF InGoal, InView, LastAbout, About, Starting, Ending
    <3>4. sessionOf[q] = s
      BY <3>1, <3>2 DEF TracksInv, EncoderTells
    <3>5. InGoal(q)' <=> InGoal(q)
      BY <1>10, <2>2, <3>4
    <3> QED
      BY <3>1, <3>2, <3>3, <3>5 DEF TracksInv, EncoderTells
  <2> QED
    BY <2>1, <2>2
<1>24. TodoFits'
  BY DEF TodoFits
<1>25. NumberInv'
  <2>1. CASE A
    BY <1>3, <2>1, NumberJoined DEF TracksInv
  <2>2. CASE ~A
    BY <1>3, <2>2 DEF TracksInv, NumberInv, Registered
  <2> QED
    BY <1>2, <2>1, <2>2
<1> QED
  BY <1>21, <1>22, <1>23, <1>24, <1>25 DEF TracksInv
-----------------------------------------------------------------------------
(* While a registration's answer is to be compared with the gateway's runs, *)
(* all begins anew; otherwise nothing is missed, unless the relay has still *)
(* an activation before it.                                                 *)
Due == \/ ~connected \/ retry \/ at = "activate"
       \/ \E i \in DOMAIN queue : queue[i] = Activation
       \/ at = "drain" /\ then = "replay"
       \/ at = "register" /\ then # "frame"
Asking == at = "query" \/ (at = "drain" /\ then \in {"bootstrap", "rotated", "again"})

ViewInv == doubt = {} => IF Asking THEN FreshInv ELSE ~Due => TracksInv

LEMMA FreshKept ==
    ASSUME FreshInv, UNCHANGED <<outbox, current, encSeq, encRun, beGen, beSeq, beActive, response>>
    PROVE  FreshInv'
BY DEF FreshInv, Registered, NoneEncoded, NoRun

LEMMA TracksKept ==
    ASSUME TracksInv,
           UNCHANGED <<outbox, current, encSeq, encRun, queue, frame, todo, beGen, beSeq, beActive, run, sessionOf>>
    PROVE  TracksInv'
<1>1. NumberInv' /\ TodoFits'
  BY DEF TracksInv, NumberInv, Registered, TodoFits, Starting, Ending
<1>2. EncoderTells'
  BY DEF TracksInv, EncoderTells, InGoal, InView, LastAbout, About, Starting, Ending
<1>3. StartsReach'
  BY DEF TracksInv, StartsReach, Live, Awaits, Holds, Quiet, Of, Place, Pending, Starting
<1>4. \A r \in Run : (InGoal(r)' <=> InGoal(r)) /\ (EndReaches(r)' <=> EndReaches(r))
  BY DEF EndReaches, Holds, Awaits, QuietBefore, Of, Place, Pending, Starting, Ending,
         InGoal, InView, LastAbout, About
<1>5. EndsReach'
  BY <1>4 DEF TracksInv, EndsReach
<1> QED
  BY <1>1, <1>2, <1>3, <1>5 DEF TracksInv

LEMMA ViewStart == Init => ViewInv
BY Zenon DEF Init, ViewInv, Due, Asking

LEMMA ViewGateway ==
    ASSUME IInv, KnownInv, ViewInv, UNCHANGED vars \/ Gateway \/ RetryFires
    PROVE  ViewInv'
<1>1. CASE UNCHANGED vars
  <2>1. UNCHANGED <<at, then, doubt, response, queue, outbox, current, encSeq, encRun, frame, todo, beGen, beSeq,
                    beActive, run, sessionOf>>
    BY <1>1 DEF vars, disk, memory, control, backend, runs
  <2>2. UNCHANGED <<connected, retry>>
    BY <1>1 DEF vars, link
  <2>3. Due' <=> Due
    BY <2>1, <2>2, Zenon DEF Due
  <2> QED
    BY <2>1, <2>3, FreshKept, TracksKept DEF ViewInv, Asking
<1>2. CASE Gateway \/ RetryFires
  <2>1. UNCHANGED <<at, then, doubt, response, outbox, current, encSeq, encRun, beGen, beSeq, beActive>>
    BY <1>2 DEF Gateway, Connect, Disconnect, RunStarts, RunEnds, RunMoves, RetryFires, disk, memory, control, backend
  <2>2. CASE Asking
    BY <2>1, <2>2, FreshKept DEF ViewInv, Asking
  <2>3. CASE ~Asking
    <3> SUFFICES ASSUME doubt = {}, ~Due' PROVE TracksInv'
      BY <2>1, <2>3 DEF ViewInv, Asking
    <3>1. queue' # Append(queue, Activation)
      BY QueueJoined DEF Due
    <3>2. connected'
      BY Zenon DEF Due
    <3>3. PICK r \in Run : RunStarts(r) \/ RunEnds(r)
      BY <1>2, <3>1, <3>2, Zenon DEF Gateway, Connect, Disconnect, RetryFires
    <3>4. PICK f \in Frame :
            /\ f.run = r /\ run' = [run EXCEPT ![r] = f.status]
            /\ queue' = IF connected THEN Append(queue, f) ELSE queue
            /\ f.status = "active" => run[r] = "new" /\ \A q \in Live : sessionOf[q] # sessionOf[r]
            /\ f.status = "ended" => run[r] = "active"
            /\ UNCHANGED <<frame, connected, sessionOf, at, then, todo, response>>
            /\ UNCHANGED <<disk, memory, retry, backend, doubt>>
      BY <3>3, RunMoved
    <3>5. connected = connected' /\ retry = retry'
      BY <3>4
    <3>6. connected
      BY <3>2, <3>5, Zenon
    <3>7. queue' = Append(queue, f)
      BY <3>4, <3>6
    <3>8. \A i \in DOMAIN queue : i \in DOMAIN queue' /\ queue'[i] = queue[i]
      BY <3>7, QueueJoined
    <3>9. ~Due
      BY <2>1, <3>5, <3>8, Zenon DEF Due
    <3>10. TracksInv
      BY <2>3, <3>9 DEF ViewInv
    <3> QED
      BY <2>1, <3>4, <3>7, <3>10, TracksJoined
  <2> QED
    BY <2>2, <2>3
<1> QED
  BY <1>1, <1>2

LEMMA ViewBegins ==
    ASSUME IInv, PlaceInv, ViewInv, TakeFrame \/ TakeActivation \/ Activate
    PROVE  ViewInv'
<1>1. UNCHANGED <<outbox, encSeq, encRun, todo, beGen, beSeq, beActive, run, sessionOf, doubt>>
  BY DEF TakeFrame, TakeActivation, Activate, disk, memory, backend, runs
<1>2. CASE TakeFrame
  <2>1. /\ at = "idle" /\ queue # <<>> /\ queue' = Tail(queue) /\ frame' = Head(queue) /\ frame = None
        /\ at' \in {"activate", "encode"} /\ then' = None /\ current' = current
    BY <1>2 DEF TakeFrame, Goto, memory, PlaceInv
  <2>2. UNCHANGED <<connected, retry>>
    BY <1>2 DEF TakeFrame, link
  <2>3. ~Asking /\ ~Asking'
    BY <2>1 DEF Asking
  <2> SUFFICES ASSUME doubt = {}, ~Due' PROVE TracksInv'
    BY <1>1, <2>3 DEF ViewInv
  <2>4. \A i \in DOMAIN queue : queue[i] # Activation
    <3>1. Head(queue) # Activation
      BY <1>2 DEF TakeFrame
    <3>2. \A i \in DOMAIN queue' : queue'[i] # Activation
      BY Zenon DEF Due
    <3>3. \A i \in DOMAIN queue : i = 1 \/ (i - 1 \in DOMAIN queue' /\ queue'[i - 1] = queue[i])
      BY <2>1, QueueElement
    <3> QED
      BY <2>1, <3>1, <3>2, <3>3, QueueElement
  <2>5. connected' /\ ~retry'
    BY Zenon DEF Due
  <2>6. connected /\ ~retry
    BY <2>2, <2>5, Zenon
  <2>7. ~Due
    BY <2>1, <2>4, <2>6 DEF Due
  <2>8. TracksInv
    BY <2>3, <2>7 DEF ViewInv
  <2> QED
    BY <1>1, <2>1, <2>8, TracksTaken
<1>3. CASE TakeActivation
  <2>1. \/ at' = "activate"
        \/ at' = "idle" /\ ~connected /\ connected' = connected
        \/ at' = "idle" /\ retry' = TRUE
    BY <1>3 DEF TakeActivation, Goto
  <2>2. ~Asking'
    BY <2>1 DEF Asking
  <2>3. Due'
    BY <2>1, Zenon DEF Due
  <2> QED
    BY <2>2, <2>3 DEF ViewInv
<1>4. CASE Activate
  <2>1. \/ at' = "drain" /\ then' = "replay"
        \/ at' = "register" /\ then' \in {"bootstrap", "again"}
    BY <1>4 DEF Activate, Goto
  <2>2. Due' /\ ~Asking'
    BY <2>1 DEF Due, Asking
  <2> QED
    BY <2>2 DEF ViewInv
<1> QED
  BY <1>2, <1>3, <1>4

(* What a registration answers is worth comparing, unless a doubt remains.  *)
LEMMA ViewRegisters ==
    ASSUME IInv, GenInv, ViewInv, Register
    PROVE  ViewInv'
<1>1. /\ RegisteredGen \in 1..MaxGen /\ loaded /\ current = store
      /\ \/ then = "bootstrap" /\ store = None /\ RegisteredGen = gens + 1
         \/ then # "bootstrap" /\ store \in Source /\ ~store.registered /\ RegisteredGen = store.gen
  BY Asked DEF Register
<1>2. /\ at = "register" /\ at' = "drain" /\ then' = then
      /\ beGen' = RegisteredGen /\ beSeq' = IF RegisteredGen = beGen THEN beSeq ELSE 0
      /\ response' = beActive /\ beActive' = beActive /\ outbox' = outbox
      /\ current' = [gen |-> RegisteredGen, registered |-> TRUE]
  BY DEF Register, Goto, BackendRegisters
<1>3. then \in {"bootstrap", "again", "rotated", "frame"} /\ Registered' /\ current'.gen = RegisteredGen
  BY <1>1, <1>2 DEF IInv, ControlInv, Registered, Source
<1>4. \A i \in DOMAIN outbox : outbox[i].gen \in Nat
  BY OutboxElement DEF Event
<1>5. beGen \in Nat /\ gens \in Nat /\ (beGen = gens + 1 => FALSE)
  BY Constants DEF IInv, Types, BackendTypes, SourceTypes, GenInv
<1>6. CASE then = "bootstrap"
  <2>1. \A i \in DOMAIN outbox : FALSE
    BY <1>1, <1>6, Constants DEF IInv, OutboxInv
  <2>2. beSeq' = 0 /\ NoneEncoded'
    BY <1>1, <1>2, <1>5, <1>6, Constants DEF Register, NoneEncoded, NoRun
  <2>3. FreshInv'
    BY <1>2, <1>3, <2>1, <2>2 DEF FreshInv
  <2> QED
    BY <1>2, <1>6, <2>3 DEF ViewInv, Asking
<1>7. CASE then = "rotated"
  <2>1. /\ NoneEncoded /\ beGen < RegisteredGen
        /\ \A i \in DOMAIN outbox : outbox[i].gen < RegisteredGen
    BY <1>1, <1>2, <1>7 DEF GenInv, RegisteredGen
  <2>2. NoneEncoded' /\ beSeq' = 0
    BY <1>1, <1>2, <1>5, <1>7, <2>1 DEF Register, NoneEncoded, NoRun
  <2>3. FreshInv'
    BY <1>2, <1>3, <2>1, <2>2 DEF FreshInv
  <2> QED
    BY <1>2, <1>7, <2>3 DEF ViewInv, Asking
<1>8. CASE then = "again"
  <2> SUFFICES ASSUME doubt' = {} PROVE FreshInv'
    BY <1>2, <1>8 DEF ViewInv, Asking
  <2>1. outbox = <<>> /\ doubt = {}
    BY <1>8 DEF Register
  <2>2. \A i \in DOMAIN outbox : FALSE
    BY <2>1
  <2>3. NoneEncoded
    BY <1>1, <1>8, <2>1, <2>2 DEF GenInv
  <2>4. NoneEncoded' /\ beSeq' = 0
    BY <1>1, <1>2, <1>8, <2>3 DEF Register, NoneEncoded, NoRun, GenInv
  <2> QED
    BY <1>2, <1>3, <2>2, <2>4 DEF FreshInv
<1>9. CASE then = "frame"
  <2> SUFFICES ASSUME doubt' = {}, ~Due' PROVE FALSE
    BY <1>2, <1>9 DEF ViewInv, Asking
  <2>1. doubt = {}
    BY <1>9 DEF Register
  <2>2. UNCHANGED <<queue, connected, retry>>
    BY DEF Register, link
  <2>3. connected' /\ ~retry' /\ \A i \in DOMAIN queue' : queue'[i] # Activation
    BY Zenon DEF Due
  <2>4. connected /\ ~retry /\ \A i \in DOMAIN queue : queue[i] # Activation
    BY <2>2, <2>3, Zenon
  <2>5. ~Due /\ ~Asking
    BY <1>2, <1>9, <2>4 DEF Due, Asking
  <2>6. TracksInv
    BY <2>1, <2>5 DEF ViewInv
  <2> QED
    BY <1>2, <1>9, <2>6 DEF TracksInv, NumberInv, Registered, IInv, ControlInv
<1> QED
  BY <1>3, <1>6, <1>7, <1>8, <1>9

LEMMA ViewRegisterFails ==
    ASSUME IInv, RegisterFails
    PROVE  ViewInv'
<1>1. retry' = TRUE /\ at' \in {"idle", "encode"}
  BY DEF RegisterFails, EndActivation, Goto
<1>2. Due'
  BY <1>1, Zenon DEF Due
<1>3. ~Asking'
  BY <1>1 DEF Asking
<1> QED
  BY <1>2, <1>3 DEF ViewInv

(* What the events of former generations are worth to the backend.          *)
LEMMA FreshTaken ==
    ASSUME IInv, FreshInv, outbox # <<>>, BackendTakes(Head(outbox))
    PROVE  UNCHANGED <<beGen, beSeq, beActive>>
<1>1. Head(outbox).gen < current.gen /\ current.gen \in Nat /\ Head(outbox).gen \in Nat
  BY OutboxElement DEF FreshInv, Registered, Source, Event
<1> QED
  BY <1>1 DEF FreshInv, BackendTakes, backend

LEMMA ViewDrainStops ==
    ASSUME IInv, ViewInv, Drained \/ SubmitGap \/ SubmitFails \/ SubmitRejected
    PROVE  ViewInv'
<1>1. at = "drain" /\ UNCHANGED <<connected, queue, response, todo, run, sessionOf>>
  BY DEF Drained, SubmitGap, SubmitFails, SubmitRejected, drainFrame, runs
<1>2. then \in {"bootstrap", "again", "rotated", "frame", "replay", "reconciled"} /\ current \in Source
  BY <1>1 DEF IInv, ControlInv, Registered
<1> SUFFICES ASSUME doubt' = {} PROVE IF Asking' THEN FreshInv' ELSE ~Due' => TracksInv'
  BY DEF ViewInv
<1>3. doubt = {} /\ outbox' = outbox
  BY DEF Drained, SubmitGap, SubmitFails, SubmitRejected
<1>4. PICK gap \in BOOLEAN, n \in Nat :
        /\ AfterDrain(gap, n)
        /\ gap \/ n > 0 \/ UNCHANGED <<beGen, beSeq, beActive>>
        /\ \/ UNCHANGED <<beGen, beSeq, beActive>>
           \/ outbox # <<>> /\ BackendTakes(Head(outbox))
  <2>1. Len(outbox) \in Nat /\ (outbox # <<>> => Len(outbox) > 0)
    BY LenProperties, EmptySeq DEF IInv, Types, OutboxType
  <2>2. CASE Drained
    BY <2>2, Zenon DEF Drained, backend
  <2>3. CASE SubmitGap
    BY <2>1, <2>3 DEF SubmitGap, backend
  <2>4. CASE SubmitFails
    BY <2>1, <2>4 DEF SubmitFails, backend
  <2> QED
    BY <1>3, <2>2, <2>3, <2>4 DEF SubmitRejected
<1>5. CASE then = "frame"
  <2>1. /\ at' = (IF gap THEN "activate" ELSE "idle") /\ retry' = (retry \/ (~gap /\ n > 0))
        /\ UNCHANGED <<current, encSeq, encRun, frame>>
    BY <1>4, <1>5 DEF AfterDrain, Goto
  <2>2. ~Asking /\ ~Asking'
    BY <1>1, <1>5, <2>1 DEF Asking
  <2> SUFFICES ASSUME ~Due' PROVE TracksInv'
    BY <2>2
  <2>3. connected' /\ ~retry' /\ at' # "activate" /\ \A i \in DOMAIN queue' : queue'[i] # Activation
    BY Zenon DEF Due
  <2>4. ~gap /\ ~(n > 0) /\ ~retry
    <3>1. ~gap
      BY <2>1, <2>3
    <3> QED
      BY <2>1, <2>3, <3>1, Zenon
  <2>5. connected
    BY <1>1, <2>3, Zenon
  <2>6. ~Due
    BY <1>1, <1>5, <2>3, <2>4, <2>5 DEF Due
  <2> QED
    BY <1>1, <1>3, <1>4, <2>1, <2>2, <2>4, <2>6, TracksKept DEF ViewInv
<1>6. CASE then = "reconciled"
  <2>1. /\ EndActivation(current) /\ retry' = (retry \/ gap \/ n > 0)
        /\ UNCHANGED <<current, encSeq, encRun>>
    BY <1>4, <1>6 DEF AfterDrain
  <2>2. frame' = frame /\ at' \in {"idle", "encode"}
    BY <1>2, <2>1, Constants DEF EndActivation, Goto
  <2>3. ~Asking /\ ~Asking'
    BY <1>1, <1>6, <2>2 DEF Asking
  <2> SUFFICES ASSUME ~Due' PROVE TracksInv'
    BY <2>3
  <2>4. connected' /\ ~retry' /\ \A i \in DOMAIN queue' : queue'[i] # Activation
    BY Zenon DEF Due
  <2>5. ~gap /\ ~(n > 0) /\ ~retry
    BY <2>1, <2>4, Zenon
  <2>6. connected
    BY <1>1, <2>4, Zenon
  <2>7. ~Due
    BY <1>1, <1>6, <2>4, <2>5, <2>6 DEF Due
  <2> QED
    BY <1>1, <1>3, <1>4, <2>1, <2>2, <2>3, <2>5, <2>7, TracksKept DEF ViewInv
<1>7. CASE then = "replay"
  <2>1. CASE gap \/ n = 0
    <3>1. at' = "register" /\ then' = "rotated"
      BY <1>4, <1>7, <2>1 DEF AfterDrain, Rotate, Goto
    <3>2. Due' /\ ~Asking'
      BY <3>1 DEF Due, Asking
    <3> QED
      BY <3>2
  <2>2. CASE ~(gap \/ n = 0)
    <3>1. retry' = TRUE /\ at' \in {"idle", "encode"}
      BY <1>4, <1>7, <2>2 DEF AfterDrain, EndActivation, Goto
    <3>2. Due'
      BY <3>1, Zenon DEF Due
    <3>3. ~Asking'
      BY <3>1 DEF Asking
    <3> QED
      BY <3>2, <3>3
  <2> QED
    BY <2>1, <2>2
<1>8. CASE then \in {"bootstrap", "rotated", "again"}
  <2>1. FreshInv
    BY <1>1, <1>3, <1>8 DEF ViewInv, Asking
  <2>2. UNCHANGED <<current, encSeq, encRun>>
    BY <1>4, <1>8 DEF AfterDrain
  <2>3. FreshInv'
    BY <1>1, <1>3, <1>4, <2>1, <2>2, FreshTaken, FreshKept
  <2>4. \/ Asking'
        \/ retry' = TRUE
    BY <1>4, <1>8 DEF AfterDrain, Goto, Asking
  <2>5. retry' = TRUE => Due'
    BY Zenon DEF Due
  <2> QED
    BY <2>3, <2>4, <2>5
<1> QED
  BY <1>2, <1>5, <1>6, <1>7, <1>8

LEMMA ViewSubmits ==
    ASSUME IInv, ViewInv, Submit
    PROVE  ViewInv'
<1>1. /\ at = "drain" /\ outbox # <<>> /\ outbox' = Tail(outbox) /\ BackendTakes(Head(outbox))
      /\ UNCHANGED <<current, encSeq, encRun, queue, at, then, frame, response, todo, run, sessionOf, doubt>>
  BY DEF Submit, memory, control, runs
<1>2. UNCHANGED <<connected, retry>>
  BY DEF Submit, link
<1>3. Due' <=> Due
  BY <1>1, <1>2, Zenon DEF Due
<1>4. FreshInv => FreshInv'
  <2> SUFFICES ASSUME FreshInv PROVE FreshInv'
    OBVIOUS
  <2>1. UNCHANGED <<beGen, beSeq, beActive>>
    BY <1>1, FreshTaken
  <2>2. \A i \in DOMAIN outbox' : outbox'[i].gen < current.gen
    BY <1>1, Dropped DEF FreshInv, IInv, Types
  <2> QED
    BY <1>1, <2>1, <2>2 DEF FreshInv, Registered, NoneEncoded, NoRun
<1>5. TracksInv => TracksInv'
  BY <1>1, TracksSubmitted
<1> QED
  BY <1>1, <1>3, <1>4, <1>5 DEF ViewInv, Asking

LEMMA ViewQueries ==
    ASSUME IInv, KnownInv, OrderInv, ViewInv, Query \/ QueryFails \/ Corrected
    PROVE  ViewInv'
<1>1. /\ UNCHANGED <<outbox, current, encSeq, encRun, queue, response, beGen, beSeq, beActive, run, sessionOf>>
      /\ QueryFails \/ frame' = frame
  BY DEF Query, QueryFails, Corrected, disk, memory, backend, runs
<1>2. UNCHANGED <<connected, retry>>
  BY DEF Query, QueryFails, Corrected, link
<1>3. CASE QueryFails
  BY <1>3 DEF QueryFails, ViewInv
<1>4. CASE Query
  <2>1. at = "query" /\ at' = "correct" /\ doubt' = doubt /\ frame' = frame
    BY <1>4 DEF Query, Goto
  <2>2. Asking /\ ~Asking'
    BY <2>1 DEF Asking
  <2> SUFFICES ASSUME doubt = {}, ~Due' PROVE TracksInv'
    BY <2>1, <2>2 DEF ViewInv
  <2>3. connected /\ FreshInv
    BY <1>4, <2>2 DEF Query, ViewInv
  <2>4. \A i \in DOMAIN queue : queue[i] # Activation
    BY <1>1 DEF Due
  <2> QED
    BY <1>1, <1>4, <2>1, <2>3, <2>4, TracksQueried DEF Query
<1>5. CASE Corrected
  <2>1. /\ at = "correct" /\ at' = "drain" /\ then' = "reconciled"
        /\ UNCHANGED <<doubt, frame, todo>>
    BY <1>5 DEF Corrected, Goto
  <2>2. ~Asking /\ ~Asking'
    BY <2>1 DEF Asking
  <2> SUFFICES ASSUME doubt = {}, ~Due' PROVE TracksInv'
    BY <2>1, <2>2 DEF ViewInv
  <2>3. connected' /\ ~retry' /\ \A i \in DOMAIN queue' : queue'[i] # Activation
    BY Zenon DEF Due
  <2>4. connected /\ ~retry /\ \A i \in DOMAIN queue : queue[i] # Activation
    BY <1>1, <1>2, <2>3, Zenon
  <2>5. ~Due
    BY <2>1, <2>4 DEF Due
  <2> QED
    BY <1>1, <2>1, <2>2, <2>5, TracksKept DEF ViewInv
<1> QED
  BY <1>3, <1>4, <1>5

LEMMA ViewCorrects ==
    ASSUME IInv, KnownInv, ViewInv, NEW f \in Frame, Correct(f)
    PROVE  ViewInv'
<1>1. /\ at = "correct" /\ f \in todo /\ (f.status = "ended" => \A g \in todo : g.status = "ended")
      /\ at' # "query" /\ at' # "drain"
      /\ UNCHANGED <<current, queue, response, beGen, beSeq, beActive, run, sessionOf>>
  BY DEF Correct, EndActivation, Goto, backend, runs
<1>2. UNCHANGED <<connected, retry>>
  BY DEF Correct, link
<1>3. ~Asking /\ ~Asking'
  BY <1>1 DEF Asking
<1> SUFFICES ASSUME doubt' = {}, ~Due' PROVE TracksInv'
  BY <1>3 DEF ViewInv
<1>4. doubt = {}
  BY DEF Correct
<1>5. connected' /\ ~retry' /\ \A i \in DOMAIN queue' : queue'[i] # Activation
  BY Zenon DEF Due
<1>6. connected /\ ~retry /\ \A i \in DOMAIN queue : queue[i] # Activation
  BY <1>1, <1>2, <1>5, Zenon
<1>7. ~Due
  BY <1>1, <1>6 DEF Due
<1>8. TracksInv
  BY <1>3, <1>4, <1>7 DEF ViewInv
<1> DEFINE seen == encRun[sessionOf[f.run]]
           cur == IF f.status = "active" THEN seen ELSE [run |-> f.run, status |-> "active"]
           A == Applies(cur, f)
<1>9. A
  <2>1. CASE f.status = "active"
    <3>1. f = Starting(f.run) /\ f.run \in Run
      BY <2>1, FrameIs
    <3>2. seen = None
      BY <1>1, <1>8, <3>1 DEF TracksInv, TodoFits
    <3> QED
      BY <2>1, <3>2 DEF Applies
  <2>2. CASE f.status # "active"
    <3>1. f.status = "ended" /\ f.run \in Run
      BY <2>2, FrameIs
    <3>2. [run |-> f.run, status |-> "active"] # None
      BY <3>1, FramesAre, Constants DEF Starting
    <3> QED
      BY <3>1, <3>2 DEF Applies
  <2> QED
    BY <2>1, <2>2
<1>10. /\ IF A THEN Encode(f) ELSE UNCHANGED <<outbox, encSeq, encRun>>
       /\ IF A /\ Refused(Numbered(f))
          THEN doubt' = doubt \cup {"refused"}
          ELSE /\ UNCHANGED <<at, then, frame>> /\ todo' = todo \ {f}
               /\ doubt' = IF f.status = "ended" /\ seen # None /\ seen.run # f.run
                           THEN doubt \cup {"seeded"} ELSE doubt
  BY DEF Correct
<1> HIDE DEF A, cur
<1>11. ~Refused(Numbered(f))
  BY <1>9, <1>10
<1>12. /\ frame' = frame /\ todo' = todo \ {f}
       /\ f.status = "ended" => seen = None \/ seen.run = f.run
  BY <1>10, <1>11
<1>13. /\ outbox' = Append(outbox, Numbered(f)) /\ encSeq' = encSeq + 1
       /\ encRun' = [encRun EXCEPT ![sessionOf[f.run]] = f]
  BY <1>9, <1>10, <1>11 DEF Encode
<1> QED
  BY <1>1, <1>8, <1>12, <1>13, TracksCorrected

LEMMA ViewEncodes ==
    ASSUME IInv, KnownInv, PlaceInv, OrderInv, ViewInv, EncodeFrame
    PROVE  ViewInv'
<1>1. /\ at = "encode" /\ frame' = None /\ frame \in Frame
      /\ UNCHANGED <<current, queue, response, todo, beGen, beSeq, beActive, run, sessionOf>>
      /\ at' \in {"idle", "drain", "register"} /\ (at' # "idle" => then' = "frame")
  BY DEF EncodeFrame, Goto, backend, runs, IInv, ControlInv
<1>2. UNCHANGED <<connected, retry>>
  BY DEF EncodeFrame, link
<1>3. ~Asking /\ ~Asking'
  BY <1>1 DEF Asking
<1> SUFFICES ASSUME doubt' = {}, ~Due' PROVE TracksInv'
  BY <1>3 DEF ViewInv
<1>4. doubt = {}
  BY DEF EncodeFrame
<1>5. connected' /\ ~retry' /\ \A i \in DOMAIN queue' : queue'[i] # Activation
  BY Zenon DEF Due
<1>6. connected /\ ~retry /\ \A i \in DOMAIN queue : queue[i] # Activation
  BY <1>1, <1>2, <1>5, Zenon
<1>7. ~Due
  BY <1>1, <1>6 DEF Due
<1>8. TracksInv
  BY <1>3, <1>4, <1>7 DEF ViewInv
<1>9. todo = {}
  BY <1>1 DEF PlaceInv
<1>10. IF Applies(encRun[sessionOf[frame.run]], frame)
       THEN /\ Encode(frame)
            /\ Refused(Numbered(frame)) => doubt' = doubt \cup {"refused"}
       ELSE UNCHANGED <<outbox, encSeq, encRun>>
  BY DEF EncodeFrame
<1>11. IF Applies(encRun[sessionOf[frame.run]], frame)
       THEN /\ outbox' = Append(outbox, Numbered(frame)) /\ encSeq' = encSeq + 1
            /\ encRun' = [encRun EXCEPT ![sessionOf[frame.run]] = frame]
       ELSE UNCHANGED <<outbox, encSeq, encRun>>
  <2>1. CASE Applies(encRun[sessionOf[frame.run]], frame)
    <3>1. ~Refused(Numbered(frame))
      BY <1>10, <2>1
    <3> QED
      BY <1>10, <2>1, <3>1 DEF Encode
  <2>2. CASE ~Applies(encRun[sessionOf[frame.run]], frame)
    BY <1>10, <2>2
  <2> QED
    BY <2>1, <2>2
<1> QED
  BY <1>1, <1>6, <1>8, <1>9, <1>11, TracksEncoded

LEMMA ViewCrashes ==
    ASSUME Crash
    PROVE  ViewInv'
<1>1. connected' = FALSE /\ at' = "idle"
  BY DEF Crash
<1>2. Due'
  BY <1>1, Zenon DEF Due
<1>3. ~Asking'
  BY <1>1 DEF Asking
<1> QED
  BY <1>2, <1>3 DEF ViewInv

LEMMA ViewStep ==
    ASSUME IInv, GenInv, KnownInv, PlaceInv, OrderInv, ViewInv, [Next]_vars
    PROVE  ViewInv'
<1>1. CASE UNCHANGED vars \/ Gateway \/ RetryFires
  BY <1>1, ViewGateway
<1>2. CASE Crash
  BY <1>2, ViewCrashes
<1>3. CASE TakeFrame \/ TakeActivation \/ Activate
  BY <1>3, ViewBegins
<1>4. CASE Register
  BY <1>4, ViewRegisters
<1>5. CASE RegisterFails
  BY <1>5, ViewRegisterFails
<1>6. CASE Drained \/ SubmitGap \/ SubmitFails \/ SubmitRejected
  BY <1>6, ViewDrainStops
<1>7. CASE Submit
  BY <1>7, ViewSubmits
<1>8. CASE Query \/ QueryFails \/ Corrected
  BY <1>8, ViewQueries
<1>9. CASE EncodeFrame
  BY <1>9, ViewEncodes
<1>10. CASE \E f \in Frame : Correct(f)
  BY <1>10, ViewCorrects
<1> QED
  BY <1>1, <1>2, <1>3, <1>4, <1>5, <1>6, <1>7, <1>8, <1>9, <1>10 DEF Next, Operation

(* At rest, nothing waits and nothing is pending: what the encoder said and *)
(* what the backend knows are one.                                          *)
LEMMA ViewAtRest ==
    ASSUME IInv, KnownInv, PlaceInv, ViewInv
    PROVE  SettledView
<1> SUFFICES ASSUME AtRest, doubt = {} PROVE beActive = Live
  BY DEF SettledView
<1>1. at = "idle" /\ queue = <<>> /\ outbox = <<>> /\ frame = None /\ todo = {}
  BY DEF AtRest, PlaceInv
<1>2. connected /\ ~retry
  BY Zenon DEF AtRest
<1>3. ~Due /\ ~Asking
  BY <1>1, <1>2 DEF Due, Asking
<1>4. TracksInv
  BY <1>3 DEF ViewInv
<1>5. \A i \in Place : Pending(i) = None
  BY <1>1 DEF Place, Pending
<1>6. \A r \in Run : InGoal(r) <=> r \in beActive
  BY <1>1 DEF InGoal, InView, LastAbout
<1>7. \A r \in Run : ~Awaits(r) /\ ~EndReaches(r)
  <2>1. \A r \in Run : Starting(r) # None /\ Ending(r) # None
    BY FramesAre, Constants
  <2> QED
    BY <1>5, <2>1, Zenon DEF Awaits, EndReaches
<1>8. ASSUME NEW r \in Live PROVE r \in beActive
  <2>1. r \in Run /\ Holds(r)
    BY <1>4, <1>7 DEF TracksInv, StartsReach, Live
  <2>2. encRun[sessionOf[r]] = Starting(r) /\ sessionOf[r] \in Session
    BY <1>1, <2>1, RunSessions DEF Holds
  <2>3. InGoal(encRun[sessionOf[r]].run) /\ encRun[sessionOf[r]].run = r
    BY <1>4, <2>1, <2>2, FramesAre, Constants DEF TracksInv, EncoderTells
  <2> QED
    BY <1>6, <2>1, <2>3
<1>9. ASSUME NEW r \in beActive PROVE r \in Live
  <2>1. r \in Run
    BY DEF IInv, Types, BackendTypes
  <2>2. run[r] # "new" /\ run[r] # "ended"
    BY <1>4, <1>6, <1>7, <2>1, GoalIsKnown DEF TracksInv, EndsReach
  <2> QED
    BY <2>1, <2>2 DEF Live, IInv, Types, RunTypes
<1> QED
  BY <1>8, <1>9

(* With nothing left to do and none of the known reasons for doubt, the     *)
(* backend knows exactly the runs the gateway has (SettledView): whatever   *)
(* connections, calls and processes were lost before, relay.ts has made it  *)
(* good, by a new generation and the comparison that follows it.            *)
THEOREM ViewSettles == Spec => []SettledView
<1>1. Init => IInv /\ GenInv /\ KnownInv /\ PlaceInv /\ OrderInv /\ ViewInv
  BY Start, GenStart, KnownStart, OrderStart, ViewStart
<1>2. IInv /\ GenInv /\ KnownInv /\ PlaceInv /\ OrderInv /\ ViewInv /\ [Next]_vars
      => IInv' /\ GenInv' /\ KnownInv' /\ PlaceInv' /\ OrderInv' /\ ViewInv'
  BY Step, GenStep, KnownStep, PlaceStep, OrderStep, ViewStep
<1>3. IInv /\ KnownInv /\ PlaceInv /\ ViewInv => SettledView
  BY ViewAtRest
<1> QED
  BY <1>1, <1>2, <1>3, PTL DEF Spec
=============================================================================
