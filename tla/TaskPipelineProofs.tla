------------------------- MODULE TaskPipelineProofs -------------------------
(***************************************************************************)
(* Proofs about TaskPipeline, for every set of deliveries and messages,    *)
(* any sessions and kinds and every value of the other constants: the      *)
(* queue's slots; what is registered and tracked, what a drained shutdown  *)
(* leaves behind and what outcomes the backend sees; batches and           *)
(* supersession; that the pipeline implements TaskQueue and MessageContract,*)
(* and so wastes no slot and starts the oldest first; and that its waits    *)
(* never form a circle.                                                    *)
(***************************************************************************)
EXTENDS TaskPipeline, FiniteSetTheorems, SequenceTheorems, TLAPS

-----------------------------------------------------------------------------
(* The slots of the queue.                                                  *)

(* The stages that hold a slot are stages. *)
LEMMA StageSets == HoldsSlot \subseteq Stage /\ Settled \subseteq Stage
                   /\ Registered \subseteq HoldsSlot
  BY DEF Stage, HoldsSlot, Settled, Registered

(* A set of deliveries is finite and has a natural cardinality. *)
LEMMA Finite ==
    ASSUME NEW S \in SUBSET Delivery
    PROVE  IsFiniteSet(S) /\ Cardinality(S) \in Nat
  BY FS_Subset, FS_CardinalityType, PipelineAssumption

(* pump() keeps the counter equal to the number of slots held. *)
LEMMA PumpSlots ==
    ASSUME NEW st \in [Delivery -> Stage], NEW B, NEW n \in Nat,
           n = Cardinality({d \in Delivery : st[d] \in HoldsSlot}),
           n <= Concurrency, Pump(st, B, n)
    PROVE  /\ stage' \in [Delivery -> Stage]
           /\ inFlight' \in Nat
           /\ SlotAccounting'
<1> DEFINE W == {d \in Delivery : st[d] = "queued"}
           H == {d \in Delivery : st[d] \in HoldsSlot}
<1>1. PICK started \in SUBSET W :
        /\ Cardinality(started) = Least(Concurrency - n, Cardinality(W))
        /\ stage' = [d \in Delivery |-> IF d \in started THEN Entry(d) ELSE st[d]]
        /\ inFlight' = n + Cardinality(started)
  BY DEF Pump
<1>2. \A d \in Delivery : Entry(d) \in HoldsSlot
  BY DEF Entry, HoldsSlot
<1>3. stage' \in [Delivery -> Stage]
  BY <1>1, <1>2, StageSets
<1>4. Holding' = H \cup started
  BY <1>1, <1>2 DEF Holding
<1>5. H \cap started = {}
  BY DEF HoldsSlot, Registered
<1>6. /\ IsFiniteSet(H) /\ IsFiniteSet(started)
      /\ Cardinality(H) \in Nat /\ Cardinality(started) \in Nat
      /\ Cardinality(W) \in Nat
  BY Finite
<1>7. Cardinality(Holding') = Cardinality(H) + Cardinality(started)
  <2>1. Cardinality(H \cup started) =
          Cardinality(H) + Cardinality(started) - Cardinality(H \cap started)
    BY <1>6, FS_Union
  <2>2. Cardinality(H \cap started) = 0
    BY <1>5, FS_EmptySet
  <2> QED
    BY <1>4, <1>6, <2>1, <2>2
<1>8. Concurrency \in Nat
  BY PipelineAssumption
<1>9. Cardinality(started) <= Concurrency - n
  BY <1>1, <1>6, <1>8 DEF Least
<1> QED
  BY <1>1, <1>3, <1>6, <1>7, <1>8, <1>9 DEF SlotAccounting

(* A step of one delivery that keeps its slot changes no count. *)
LEMMA GoSlots ==
    ASSUME TypeOK, SlotAccounting, NEW d \in Delivery, NEW s \in Stage,
           Go(d, s), stage[d] \in HoldsSlot <=> s \in HoldsSlot
    PROVE  /\ stage' \in [Delivery -> Stage]
           /\ inFlight' \in Nat
           /\ SlotAccounting'
<1>1. stage' = [stage EXCEPT ![d] = s] /\ inFlight' = inFlight
  BY DEF Go
<1>2. stage' \in [Delivery -> Stage]
  BY <1>1 DEF TypeOK
<1>3. Holding' = Holding
  BY <1>1, <1>2 DEF Holding, TypeOK
<1> QED
  BY <1>1, <1>2, <1>3 DEF SlotAccounting, TypeOK

(* A delivery that settles gives back exactly its slot. *)
LEMMA ReleaseSlots ==
    ASSUME TypeOK, SlotAccounting, NEW d \in Delivery,
           stage[d] \in HoldsSlot, Release(d)
    PROVE  /\ stage' \in [Delivery -> Stage]
           /\ inFlight' \in Nat
           /\ SlotAccounting'
<1> DEFINE st == [stage EXCEPT ![d] = "released"]
           H == {e \in Delivery : st[e] \in HoldsSlot}
<1>1. st \in [Delivery -> Stage]
  BY DEF TypeOK, Stage, Settled
<1>2. H = Holding \ {d} /\ d \in Holding
  BY DEF TypeOK, Holding, HoldsSlot, Registered
<1>3. /\ Cardinality(H) = Cardinality(Holding) - 1
      /\ Cardinality(H) \in Nat
  <2>1. IsFiniteSet(Holding) /\ Cardinality(Holding) \in Nat
    BY Finite DEF Holding
  <2>2. Cardinality(H) \in Nat
    BY Finite
  <2> QED
    BY <1>2, <2>1, <2>2, FS_RemoveElement
<1>4. /\ inFlight - 1 = Cardinality(H)
      /\ inFlight - 1 \in Nat /\ inFlight # 0
      /\ inFlight - 1 <= Concurrency
  BY <1>3, PipelineAssumption DEF SlotAccounting, TypeOK
<1>5. Pump(st, before, inFlight - 1)
  BY <1>4 DEF Release
<1> HIDE DEF st
<1> QED
  BY <1>1, <1>4, <1>5, PumpSlots

(* The death of the process empties the count with the slots. *)
LEMMA DeathSlots ==
    ASSUME TypeOK, ProcessDies
    PROVE  /\ stage' \in [Delivery -> Stage]
           /\ inFlight' \in Nat
           /\ SlotAccounting'
<1>1. /\ stage' = [d \in Delivery |->
                      IF stage[d] \in Settled THEN stage[d] ELSE "lost"]
      /\ inFlight' = 0
  BY DEF ProcessDies
<1>2. stage' \in [Delivery -> Stage]
  BY <1>1 DEF TypeOK, Stage, Settled
<1>3. Holding' = {}
  BY <1>1 DEF Holding, HoldsSlot, Registered, Settled
<1> QED
  BY <1>1, <1>2, <1>3, FS_EmptySet, PipelineAssumption DEF SlotAccounting

(* Receiving an outcome keeps the histories well typed. *)
LEMMA ReceivesType ==
    ASSUME TypeOK, NEW d \in Delivery, NEW o \in Outcome, Receives(d, o)
    PROVE  outcomes' \in [Delivery -> Seq(Outcome)]
  BY DEF TypeOK, Receives

(* The rest of TypeOK, apart from the stages and the counter. *)
OtherTypes ==
    /\ before \subseteq Delivery \X Delivery
    /\ accepting \in BOOLEAN /\ up \in BOOLEAN
    /\ mergedInto \in [Delivery -> Delivery \cup {None}]
    /\ control \in [Message -> Delivery \cup {None}]
    /\ tracked \subseteq Message
    /\ record \in [Message -> Delivery \cup {None}]
    /\ written \subseteq Delivery
    /\ outcomes \in [Delivery -> Seq(Outcome)]
    /\ doubt \subseteq Delivery /\ aborted \subseteq Delivery
    /\ drain \in {"off", "polling", "empty"}
    /\ todo \subseteq Delivery
    /\ clearing \in Delivery \cup {None}
    /\ faults \in 0..MaxFaults /\ crashes \in 0..MaxCrashes

LEMMA TypeSplit ==
    TypeOK <=> /\ stage \in [Delivery -> Stage]
               /\ inFlight \in Nat
               /\ OtherTypes
  BY DEF TypeOK, OtherTypes

-----------------------------------------------------------------------------
(* The counter and the slots, step by step. *)
SlotInv == TypeOK /\ SlotAccounting

LEMMA InitSlots == Init => SlotInv
<1> SUFFICES ASSUME Init PROVE SlotInv
  OBVIOUS
<1>1. stage \in [Delivery -> Stage] /\ Holding = {}
  BY DEF Init, Stage, Settled, Holding, HoldsSlot, Registered
<1>2. OtherTypes
  BY PipelineAssumption DEF Init, OtherTypes
<1> QED
  BY <1>1, <1>2, TypeSplit, FS_EmptySet, PipelineAssumption
  DEF SlotInv, SlotAccounting, Init

(* A push, with all it preempts, takes no slot and gives none back before   *)
(* pump() runs.                                                             *)
LEMMA PushSlots ==
    ASSUME SlotInv, NEW d \in Delivery, Push(d)
    PROVE  SlotInv'
<1> DEFINE st == AfterPreemption(d)
           B == before \cup ({e \in Delivery : stage[e] # "unsent"} \X {d})
           held(f) == {e \in Delivery : f[e] \in HoldsSlot}
<1>1. st \in [Delivery -> Stage] /\ held(st) = Holding /\ st[d] = "unsent"
  <2>1. stage[d] = "unsent" /\ TypeOK
    BY DEF Push, SlotInv
  <2> QED
    BY <2>1 DEF AfterPreemption, Preempt, Dropped, Preempted, At, TypeOK,
                Holding, Stage, HoldsSlot, Registered, Settled
<1>2. OtherTypes'
  <2>1. B \subseteq Delivery \X Delivery /\ Preempted(d) \subseteq Delivery
    BY DEF SlotInv, TypeOK, Preempted, At
  <2> QED
    BY <2>1 DEF Push, SlotInv, TypeOK, OtherTypes, runVars, diskVars, lifeVars
<1>3. /\ inFlight \in Nat /\ inFlight <= Concurrency
      /\ inFlight = Cardinality(held(st))
  BY <1>1 DEF SlotInv, TypeOK, SlotAccounting
<1>4. CASE accepting /\ HasRoom(st)
  <2> DEFINE q == [st EXCEPT ![d] = "queued"]
  <2>1. q \in [Delivery -> Stage] /\ held(q) = held(st)
    BY <1>1 DEF Stage, HoldsSlot, Registered, Settled
  <2>2. Pump(q, B, inFlight)
    BY <1>4 DEF Push
  <2> HIDE DEF q, B, st
  <2>3. stage' \in [Delivery -> Stage] /\ inFlight' \in Nat /\ SlotAccounting'
    BY <2>1, <2>2, <1>3, PumpSlots
  <2> QED
    BY <2>3, <1>2, TypeSplit DEF SlotInv, TypeOK, OtherTypes
<1>5. CASE ~(accepting /\ HasRoom(st))
  <2> DEFINE r == [st EXCEPT ![d] = "refused"]
  <2>1. stage' = r /\ inFlight' = inFlight
    BY <1>5 DEF Push
  <2>2. r \in [Delivery -> Stage] /\ held(r) = held(st)
    BY <1>1 DEF Stage, HoldsSlot, Registered, Settled
  <2>3. Holding' = held(st)
    BY <2>1, <2>2 DEF Holding
  <2> QED
    BY <2>1, <2>2, <2>3, <1>2, <1>3 DEF SlotInv, TypeOK, OtherTypes, SlotAccounting
<1> QED
  BY <1>4, <1>5

(* The steps of one delivery. *)
LEMMA WorkSlots ==
    ASSUME SlotInv, NEW d \in Delivery, Work(d)
    PROVE  SlotInv'
<1> DEFINE SlotsKept == /\ stage' \in [Delivery -> Stage]
                        /\ inFlight' \in Nat
                        /\ SlotAccounting'
<1>t. TypeOK /\ SlotAccounting
  BY DEF SlotInv
<1>m. MessageOf[d] \in Message /\ KindOf[MessageOf[d]] \in Kind
  BY PipelineAssumption
<1>c. \A s \in Stage : Go(d, s) /\ (stage[d] \in HoldsSlot <=> s \in HoldsSlot)
                          => SlotsKept
  BY <1>t, GoSlots
<1>r. Release(d) /\ stage[d] \in HoldsSlot => SlotsKept
  BY <1>t, ReleaseSlots
<1>p. ProcessDies => SlotsKept
  BY <1>t, DeathSlots
<1>f. faults' \in 0..MaxFaults
  <2>1. faults' = faults \/ Fault
    BY DEF Work,
       DropAnswered, DropFails, MergedAnswered, MergedFails, BatchReady,
       OtherWork, EventDone, WriteRecord, StartRun, RunEnds, RunThrows, TimeOut, AbortDone,
       Delivered, DeliveryFails, Answered, AnswerFails, CloseRun, ErrorAnswered,
       ErrorFails, RemoveRecord, RemoveFails
  <2> QED
    BY <2>1, <1>t, PipelineAssumption DEF Fault, TypeOK
<1>o. \A o \in Outcome : Receives(d, o) => outcomes' \in [Delivery -> Seq(Outcome)]
  BY <1>t, ReceivesType
<1>l. LeaveRun(d) => /\ control' \in [Message -> Delivery \cup {None}]
                     /\ tracked' \subseteq Message
  BY <1>t DEF LeaveRun, TypeOK
<1>ra. \A o \in RunOutcome(d) : o \in Outcome
  BY DEF RunOutcome
<1>1. SlotsKept
  <2>1. CASE DropAnswered(d) \/ DropFails(d)
    BY <2>1, <1>c DEF DropAnswered, DropFails, Stage, HoldsSlot, Registered, Settled
  <2>2. CASE MergedAnswered(d) \/ ErrorFails(d) \/ EventDone(d)
            \/ RemoveRecord(d) \/ RemoveFails(d)
    BY <2>2, <1>r DEF MergedAnswered, ErrorFails, EventDone, RemoveRecord, RemoveFails, HoldsSlot
  <2>3. CASE MergedFails(d)
    BY <2>3, <1>p DEF MergedFails
  <2>4. CASE BatchReady(d) \/ OtherWork(d) \/ WriteRecord(d) \/ StartRun(d)
    BY <2>4, <1>c DEF BatchReady, OtherWork, WriteRecord, StartRun,
                      Stage, HoldsSlot, Registered
  <2>5. CASE RunEnds(d) \/ RunThrows(d) \/ TimeOut(d) \/ AbortDone(d)
    BY <2>5, <1>c DEF RunEnds, RunThrows, TimeOut, AbortDone,
                      Stage, HoldsSlot, Registered
  <2>6. CASE Delivered(d) \/ DeliveryFails(d) \/ CloseRun(d) \/ ErrorAnswered(d)
    BY <2>6, <1>c DEF Delivered, DeliveryFails, CloseRun, ErrorAnswered,
                      Stage, HoldsSlot, Registered
  <2>7. CASE Answered(d) \/ AnswerFails(d)
    <3>1. stage[d] \in {"replying", "reporting"}
      BY <2>7 DEF Answered, AnswerFails, RunOutcome
    <3> QED
      BY <2>7, <3>1, <1>c DEF Answered, AnswerFails, Stage, HoldsSlot, Registered
  <2> QED
    BY <2>1, <2>2, <2>3, <2>4, <2>5, <2>6, <2>7 DEF Work
<1>2. OtherTypes'
  <2> USE DEF OtherTypes, TypeOK, runVars, diskVars, lifeVars, historyVars
  <2>1. CASE DropAnswered(d) \/ DropFails(d)
    BY <2>1, <1>t, <1>f, <1>o DEF DropAnswered, DropFails, DropOutcome, Outcome
  <2>2. CASE MergedAnswered(d) \/ ErrorFails(d) \/ EventDone(d)
            \/ RemoveRecord(d) \/ RemoveFails(d)
    BY <2>2, <1>t, <1>f, <1>o, <1>m
    DEF MergedAnswered, ErrorFails, EventDone, RemoveRecord, RemoveFails, Outcome
  <2>3. CASE MergedFails(d)
    BY <2>3, <1>t, <1>f, <1>o DEF MergedFails, ProcessDies, Unremoved, Outcome
  <2>4. CASE BatchReady(d) \/ OtherWork(d) \/ WriteRecord(d) \/ StartRun(d)
    BY <2>4, <1>t, <1>f, <1>m DEF BatchReady, OtherWork, WriteRecord, StartRun
  <2>5. CASE RunEnds(d) \/ RunThrows(d) \/ TimeOut(d) \/ AbortDone(d)
    BY <2>5, <1>t, <1>f, <1>l DEF RunEnds, RunThrows, TimeOut, AbortDone
  <2>6. CASE Delivered(d) \/ DeliveryFails(d) \/ CloseRun(d) \/ ErrorAnswered(d)
    BY <2>6, <1>t, <1>f, <1>l, <1>o
    DEF Delivered, DeliveryFails, CloseRun, ErrorAnswered, Outcome
  <2>7. CASE Answered(d) \/ AnswerFails(d)
    BY <2>7, <1>t, <1>f, <1>l, <1>o, <1>ra DEF Answered, AnswerFails
  <2> QED
    BY <2>1, <2>2, <2>3, <2>4, <2>5, <2>6, <2>7 DEF Work
<1> QED
  BY <1>1, <1>2, TypeSplit DEF SlotInv, TypeOK, OtherTypes

(* An abort, a debounce timer, and the steps of the process. *)
LEMMA OtherSlots ==
    ASSUME SlotInv,
           \/ \E m \in Message : AbortTask(m)
           \/ \E s \in Session : FlushBatch(s)
           \/ StopAccepting \/ DrainSeesEmpty \/ Exit
           \/ Crash \/ Restart \/ Reconcile
    PROVE  SlotInv'
<1> USE DEF OtherTypes, TypeOK, runVars, diskVars, lifeVars, historyVars
<1>t. TypeOK /\ SlotAccounting
  BY DEF SlotInv
<1>s. UNCHANGED <<stage, inFlight>> => /\ stage' \in [Delivery -> Stage]
                                       /\ inFlight' \in Nat
                                       /\ SlotAccounting'
  BY <1>t DEF SlotAccounting, Holding
<1>1. ASSUME NEW m \in Message, AbortTask(m)
      PROVE  SlotInv'
  <2> DEFINE d == control[m]
  <2>1. d \in Delivery /\ stage[d] = "running" /\ Go(d, "aborting")
    BY <1>1, <1>t DEF AbortTask
  <2>2. /\ stage' \in [Delivery -> Stage]
        /\ inFlight' \in Nat
        /\ SlotAccounting'
    <3>1. "aborting" \in Stage /\ "aborting" \in HoldsSlot /\ "running" \in HoldsSlot
      BY DEF Stage, HoldsSlot, Registered
    <3> HIDE DEF d, TypeOK
    <3> QED
      BY <2>1, <3>1, <1>t, GoSlots
  <2>3. OtherTypes'
    BY <1>1, <2>1, <1>t DEF AbortTask
  <2> QED
    BY <2>2, <2>3, TypeSplit DEF SlotInv
<1>2. ASSUME NEW s \in Session, FlushBatch(s)
      PROVE  SlotInv'
  <2> DEFINE items == {d \in At("batching") : Sn(d) = s}
  <2>1. PICK t \in Latest(items) :
          /\ stage' = [d \in Delivery |->
                          IF d \notin items THEN stage[d]
                          ELSE IF items = {t} THEN "starting"
                          ELSE IF d = t THEN "flushing" ELSE "merged"]
          /\ mergedInto' = [d \in Delivery |->
                              IF d \in items \ {t} THEN t ELSE mergedInto[d]]
    BY <1>2 DEF FlushBatch
  <2>2. UNCHANGED <<inFlight, before, control, tracked, diskVars,
                    lifeVars, outcomes, historyVars, faults>>
    BY <1>2 DEF FlushBatch
  <2>3. items \subseteq Delivery /\ t \in Delivery
        /\ \A d \in items : stage[d] = "batching"
    BY DEF At, Latest
  <2>4. stage' \in [Delivery -> Stage] /\ Holding' = Holding
    BY <2>1, <2>3, <1>t DEF Stage, HoldsSlot, Registered, Holding
  <2>5. OtherTypes'
    BY <2>1, <2>2, <2>3, <1>t
  <2> QED
    BY <2>2, <2>4, <2>5, <1>t, TypeSplit DEF SlotInv, SlotAccounting
<1>3. CASE StopAccepting \/ DrainSeesEmpty \/ Restart
  BY <1>3, <1>s, <1>t DEF StopAccepting, DrainSeesEmpty, Restart, SlotInv
<1>4. CASE Exit \/ Crash
  <2>1. ProcessDies
    BY <1>4 DEF Exit, Crash
  <2>2. /\ stage' \in [Delivery -> Stage]
        /\ inFlight' \in Nat
        /\ SlotAccounting'
    BY <2>1, <1>t, DeathSlots
  <2>3. /\ UNCHANGED <<outcomes, faults>>
        /\ doubt' \subseteq Delivery
        /\ crashes' \in 0..MaxCrashes
    <3>1. CASE Exit
      BY <3>1, <1>t DEF Exit
    <3>2. CASE Crash
      BY <3>2, <1>t, PipelineAssumption DEF Crash, Unremoved
    <3> QED
      BY <1>4, <3>1, <3>2
  <2>4. OtherTypes'
    BY <2>1, <2>3, <1>t DEF ProcessDies
  <2> QED
    BY <2>2, <2>4, TypeSplit DEF SlotInv
<1>5. ASSUME NEW d \in Delivery, NEW o \in Outcome,
             ReconcileAnswered(d, o) \/ ReconcileFails(d, o)
      PROVE  SlotInv'
  <2>1. UNCHANGED <<stage, inFlight>>
    BY <1>5 DEF ReconcileAnswered, ReconcileFails
  <2>2. Receives(d, o) => outcomes' \in [Delivery -> Seq(Outcome)]
    BY <1>t, ReceivesType
  <2>3. faults' \in 0..MaxFaults
    BY <1>5, <1>t, PipelineAssumption DEF ReconcileAnswered, ReconcileFails, Fault
  <2>4. OtherTypes'
    BY <1>5, <2>2, <2>3, <1>t DEF ReconcileAnswered, ReconcileFails
  <2> QED
    BY <2>1, <2>4, <1>s, TypeSplit DEF SlotInv
<1>6. CASE ReconcileClears
  <2>1. clearing \in Delivery
    BY <1>6, <1>t DEF ReconcileClears
  <2> QED
    BY <1>6, <2>1, <1>s, <1>t DEF ReconcileClears, SlotInv
<1>7. CASE ReconcileClearFails
  <2>1. clearing \in Delivery /\ faults' \in 0..MaxFaults
    BY <1>7, <1>t, PipelineAssumption DEF ReconcileClearFails, Fault
  <2>2. OtherTypes'
    BY <1>7, <2>1, <1>t DEF ReconcileClearFails
  <2> QED
    BY <1>7, <2>2, <1>s, TypeSplit DEF ReconcileClearFails, SlotInv
<1> QED
  BY <1>1, <1>2, <1>3, <1>4, <1>5, <1>6, <1>7 DEF Reconcile

LEMMA NextSlots == SlotInv /\ [Next]_vars => SlotInv'
<1>1. SlotInv /\ UNCHANGED vars => SlotInv'
  BY DEF SlotInv, TypeOK, SlotAccounting, Holding, vars
<1> QED
  BY <1>1, PushSlots, WorkSlots, OtherSlots DEF Next

(* Every variable keeps its type: in particular the queue's counter never   *)
(* goes below zero, and only deliveries are registered, recorded or merged. *)
THEOREM TypeCorrect == Spec => []TypeOK
  BY InitSlots, NextSlots, PTL DEF Spec, SlotInv

(* The queue's counter counts exactly the deliveries whose processor has    *)
(* not settled: batches, preemption, failed callbacks and restarts neither  *)
(* leak a slot nor hand one out twice.                                      *)
THEOREM SlotsAccounted == Spec => []SlotAccounting
  BY InitSlots, NextSlots, PTL DEF Spec, SlotInv

-----------------------------------------------------------------------------
(* Outcomes, records and the registry.                                      *)

(* A task that was preempted, aborted or timed out is on its way to the     *)
(* error callback or past it.                                               *)
AbortedFail ==
    \A d \in aborted : stage[d] \in {"aborting", "failing", "removing",
                                     "released", "lost"}

(* Only chat tasks are recorded, registered and tracked. *)
ChatsOnly ==
    /\ \A m \in Message : m \in tracked \/ control[m] # None => KindOf[m] # "other"
    /\ \A d \in Delivery : stage[d] = "recorded" => IsChat(d)

(* The queue is closed before the drain begins. *)
DrainedStaysClosed ==
    /\ drain # "off" => ~accepting
    /\ DrainedStaysEmpty

(* The stages in which a delivery may have been answered. *)
Answerable == {"closing", "removing", "released", "lost"}

(* Not answered before its last callback, unless it is in doubt. *)
UnansweredBefore ==
    \A d \in Delivery \ doubt : stage[d] \notin Answerable => outcomes[d] = <<>>

(* A delivery leaves its run only after an outcome; the reconciliation      *)
(* removes a record only after one.                                         *)
AnsweredAfter ==
    /\ \A d \in Delivery : stage[d] \in {"closing", "removing"} => outcomes[d] # <<>>
    /\ clearing # None => outcomes[clearing] # <<>>

(* A record belongs to its message and to a delivery past its upsert. *)
PastUpsert == Registered \cup {"recorded", "failing", "removing", "released",
                               "lost"}

RecordsAreWritten ==
    /\ \A m \in Message :
          record[m] # None => record[m] \in written /\ MessageOf[record[m]] = m
    /\ \A d \in written : stage[d] \in PastUpsert

(* A record left behind by a settled delivery speaks for an unanswered one, *)
(* so what the reconciliation takes up is unanswered too.                   *)
LeftBehindIsUnanswered ==
    /\ \A d \in Delivery \ doubt :
          /\ stage[d] \in {"released", "lost"}
          /\ record[MessageOf[d]] = d
          /\ clearing # d
          => outcomes[d] = <<>>
    /\ \A d \in todo : stage[d] \in {"released", "lost"}
    /\ \A d \in todo \ doubt : outcomes[d] = <<>>

(* A dead process has nothing in flight. *)
DeadIsIdle ==
    ~up => /\ todo = {} /\ clearing = None
           /\ \A d \in Delivery : stage[d] \in Settled

(* The inductive invariants.  OneOutcome is not inductive: that the one      *)
(* outcome is not followed by another depends on where the delivery stands,  *)
(* and for the reconciliation on which records can be left on disk.          *)
RunInv == ReleasedIsUntracked /\ ChatsOnly /\ AbortedFail /\ DrainedStaysClosed

AnswerInv ==
    /\ UnansweredBefore /\ AnsweredAfter /\ OneOutcome
    /\ RecordsAreWritten /\ LeftBehindIsUnanswered /\ DeadIsIdle
    /\ RecordedUntilAnswered

OutcomeInv == SlotInv /\ RunInv /\ AnswerInv

-----------------------------------------------------------------------------
(* What a step of d does to the stages: d moves on, and pump() may start    *)
(* queued deliveries.                                                       *)
Moves(d, s) ==
    /\ stage' \in [Delivery -> Stage]
    /\ stage'[d] = s
    /\ \A e \in Delivery \ {d} :
          \/ stage'[e] = stage[e]
          \/ stage[e] = "queued" /\ stage'[e] \in {"batching", "starting"}

LEMMA PumpMoves ==
    ASSUME NEW st \in [Delivery -> Stage], NEW B, NEW n, Pump(st, B, n)
    PROVE  /\ stage' \in [Delivery -> Stage]
           /\ \A e \in Delivery :
                 \/ stage'[e] = st[e]
                 \/ st[e] = "queued" /\ stage'[e] \in {"batching", "starting"}
  BY DEF Pump, Entry, Stage, HoldsSlot

LEMMA GoMoves ==
    ASSUME TypeOK, NEW d \in Delivery, NEW s \in Stage, Go(d, s)
    PROVE  Moves(d, s)
  BY DEF Go, Moves, TypeOK

LEMMA ReleaseMoves ==
    ASSUME TypeOK, NEW d \in Delivery, Release(d)
    PROVE  Moves(d, "released")
<1> DEFINE st == [stage EXCEPT ![d] = "released"]
           n == IF inFlight = 0 THEN 0 ELSE inFlight - 1
<1>1. st \in [Delivery -> Stage] /\ Pump(st, before, n)
      /\ st[d] = "released" /\ \A e \in Delivery \ {d} : st[e] = stage[e]
  BY DEF TypeOK, Stage, Settled, Release
<1> HIDE DEF st, n
<1> QED
  BY <1>1, PumpMoves DEF Moves

(* An outcome received extends one history by one. *)
LEMMA ReceivesOne ==
    ASSUME TypeOK, NEW d \in Delivery, NEW o, o \in Outcome, Receives(d, o)
    PROVE  /\ outcomes' \in [Delivery -> Seq(Outcome)]
           /\ outcomes'[d] # <<>>
           /\ Len(outcomes'[d]) = Len(outcomes[d]) + 1
           /\ \A e \in Delivery \ {d} : outcomes'[e] = outcomes[e]
<1>1. outcomes \in [Delivery -> Seq(Outcome)]
  BY DEF TypeOK
<1>2. outcomes' = [outcomes EXCEPT ![d] = Append(outcomes[d], o)]
  BY DEF Receives
<1>3. /\ Append(outcomes[d], o) \in Seq(Outcome)
      /\ Append(outcomes[d], o) # <<>>
      /\ Len(Append(outcomes[d], o)) = Len(outcomes[d]) + 1
  BY <1>1, AppendProperties, EmptySeq
<1> QED
  BY <1>1, <1>2, <1>3

LEMMA InitOutcome == Init => OutcomeInv
<1> SUFFICES ASSUME Init PROVE OutcomeInv
  OBVIOUS
<1>1. SlotInv
  BY InitSlots
<1>2. RunInv
  BY DEF Init, RunInv, ReleasedIsUntracked, ChatsOnly, AbortedFail, DrainedStaysClosed,
         DrainedStaysEmpty
<1>3. Len(<<>>) = 0
  BY EmptySeq
<1>4. AnswerInv
  BY <1>3 DEF Init, AnswerInv, UnansweredBefore, AnsweredAfter, OneOutcome,
         RecordsAreWritten, LeftBehindIsUnanswered, DeadIsIdle, RecordedUntilAnswered
<1> QED
  BY <1>1, <1>2, <1>4 DEF OutcomeInv

-----------------------------------------------------------------------------
(* Lemmas on RunInv: what a step of one delivery has to respect for the     *)
(* registry and the transport correlations, for the aborted, for the drain. *)
LEMMA RegistryStep ==
    ASSUME TypeOK, TypeOK', ReleasedIsUntracked,
           NEW d \in Delivery, NEW s, Moves(d, s),
           \/ /\ UNCHANGED <<control, tracked>>
              /\ stage[d] \in Registered => s \in Registered
           \/ LeaveRun(d)
           \/ UNCHANGED <<control, tracked>> /\ ~IsChat(d) /\ ChatsOnly
           \/ /\ control' = control /\ tracked' = tracked \ {MessageOf[d]}
              /\ s \in Registered
           \/ /\ control' = [control EXCEPT ![MessageOf[d]] = d]
              /\ tracked' = tracked \cup {MessageOf[d]}
              /\ s \in Registered
    PROVE  ReleasedIsUntracked'
<1>1. \A e \in Delivery : stage[e] \in Registered =>
         stage'[e] \in Registered \/ e = d
  BY DEF Moves, Registered
<1>2. stage'[d] = s /\ MessageOf[d] \in Message
  BY PipelineAssumption DEF Moves
<1>3. ASSUME NEW m \in tracked'
      PROVE  \E e \in Delivery : MessageOf[e] = m /\ stage'[e] \in Registered
  <2>1. CASE m \in tracked
    <3>1. PICK e \in Delivery : MessageOf[e] = m /\ stage[e] \in Registered
      BY <2>1 DEF ReleasedIsUntracked
    <3> QED
      BY <1>1, <1>2, <1>3, <3>1 DEF LeaveRun, ChatsOnly, IsChat, Kd
  <2>2. CASE m \notin tracked
    BY <1>2, <1>3, <2>2 DEF LeaveRun
  <2> QED
    BY <2>1, <2>2
<1>4. ASSUME NEW m \in Message, control'[m] # None
      PROVE  MessageOf[control'[m]] = m /\ stage'[control'[m]] \in Registered
  <2>1. control[m] # None =>
          /\ MessageOf[control[m]] = m /\ stage[control[m]] \in Registered
          /\ control[m] \in Delivery
    BY DEF ReleasedIsUntracked, TypeOK
  <2>2. control \in [Message -> Delivery \cup {None}]
    BY DEF TypeOK
  <2> QED
    BY <1>1, <1>2, <1>4, <2>1, <2>2, PipelineAssumption
    DEF LeaveRun, ChatsOnly, IsChat, Kd
<1> QED
  BY <1>3, <1>4 DEF ReleasedIsUntracked

LEMMA ChatStep ==
    ASSUME TypeOK, ChatsOnly, NEW d \in Delivery, NEW s, Moves(d, s),
           s = "recorded" => IsChat(d),
           \/ UNCHANGED <<control, tracked>>
           \/ LeaveRun(d)
           \/ control' = control /\ tracked' = tracked \ {MessageOf[d]}
           \/ /\ control' = [control EXCEPT ![MessageOf[d]] = d]
              /\ tracked' = tracked \cup {MessageOf[d]}
              /\ IsChat(d)
    PROVE  ChatsOnly'
<1>1. /\ control \in [Message -> Delivery \cup {None}]
      /\ MessageOf[d] \in Message
  BY PipelineAssumption DEF TypeOK
<1>2. \A m \in Message : m \in tracked' \/ control'[m] # None => KindOf[m] # "other"
  BY <1>1 DEF ChatsOnly, LeaveRun, IsChat, Kd
<1>3. \A e \in Delivery : stage'[e] = "recorded" => IsChat(e)
  BY DEF ChatsOnly, Moves
<1> QED
  BY <1>2, <1>3 DEF ChatsOnly, IsChat, Kd

LEMMA AbortStep ==
    ASSUME TypeOK, AbortedFail, NEW d \in Delivery, NEW s, Moves(d, s),
           \/ aborted' = aborted
           \/ aborted' = aborted \cup {d} /\ s = "aborting",
           d \in aborted => s \in {"aborting", "failing", "removing", "released", "lost"}
    PROVE  AbortedFail'
  BY DEF AbortedFail, Moves, TypeOK

LEMMA DrainStep ==
    ASSUME DrainedStaysClosed, NEW d \in Delivery, NEW s, Moves(d, s),
           UNCHANGED <<drain, accepting>>,
           \/ stage[d] \in HoldsSlot
           \/ stage[d] = "dropping" /\ s = "released"
    PROVE  DrainedStaysClosed'
<1>1. SUFFICES ASSUME drain = "empty" PROVE At("queued")' = {} /\ Holding' = {}
  BY DEF DrainedStaysClosed, DrainedStaysEmpty
<1>2. At("queued") = {} /\ Holding = {}
  BY <1>1 DEF DrainedStaysClosed, DrainedStaysEmpty
<1>3. s = "released" /\ \A e \in Delivery \ {d} : stage'[e] = stage[e]
  BY <1>2 DEF Moves, Holding, At
<1> QED
  BY <1>2, <1>3 DEF Moves, Holding, At, HoldsSlot, Registered

-----------------------------------------------------------------------------
(* Lemmas on AnswerInv.  A step of one delivery d, with its outcome and its *)
(* record.                                                                  *)
OutcomeOf(d, s) ==
    /\ doubt \subseteq doubt'
    /\ \A e \in Delivery \ {d} : outcomes'[e] = outcomes[e]
    /\ outcomes[d] # <<>> => outcomes'[d] # <<>>
    /\ d \notin doubt' /\ s \notin Answerable => outcomes'[d] = <<>>
    /\ d \notin doubt' => Len(outcomes'[d]) <= 1
    /\ s \in {"closing", "removing"} => outcomes'[d] # <<>>

RecordOf(d, s) ==
    /\ written \subseteq written' /\ written' \subseteq written \cup {d}
    /\ d \in written' => s \in PastUpsert
    /\ \A m \in Message \ {MessageOf[d]} : record'[m] = record[m]
    /\ \/ record'[MessageOf[d]] \in {record[MessageOf[d]], None}
       \/ record'[MessageOf[d]] = d /\ d \in written'
    /\ d \notin doubt' /\ s \in {"released", "lost"} /\ record'[MessageOf[d]] = d
          => outcomes'[d] = <<>>
    /\ d \in written' /\ Sole(d) /\ outcomes'[d] = <<>>
          => record'[MessageOf[d]] = d

LEMMA LedgerStep ==
    ASSUME TypeOK, TypeOK', AnswerInv,
           NEW d \in Delivery, NEW s, Moves(d, s),
           stage[d] \notin Settled, UNCHANGED <<todo, clearing, up>>,
           OutcomeOf(d, s), RecordOf(d, s)
    PROVE  AnswerInv'
<1>m. MessageOf \in [Delivery -> Message] /\ None \notin Delivery
  BY PipelineAssumption
<1>s. /\ stage'[d] = s
      /\ \A e \in Delivery \ {d} :
            stage'[e] # stage[e] => /\ stage[e] = "queued"
                                   /\ stage'[e] \in {"batching", "starting"}
  BY DEF Moves
<1>1. UnansweredBefore'
  BY <1>s DEF AnswerInv, UnansweredBefore, OutcomeOf, Answerable
<1>2. AnsweredAfter'
  BY <1>s DEF AnswerInv, AnsweredAfter, OutcomeOf, TypeOK
<1>3. OneOutcome'
  BY DEF AnswerInv, OneOutcome, OutcomeOf
<1>4. DeadIsIdle'
  BY DEF AnswerInv, DeadIsIdle
<1>5. RecordsAreWritten'
  <2>1. ASSUME NEW m \in Message, record'[m] # None
        PROVE  record'[m] \in written' /\ MessageOf[record'[m]] = m
    <3>1. record'[m] = record[m] \/ (m = MessageOf[d] /\ record'[m] = d /\ d \in written')
      BY <2>1, <1>m DEF RecordOf
    <3>2. record[m] # None => record[m] \in written /\ MessageOf[record[m]] = m
      BY DEF AnswerInv, RecordsAreWritten
    <3> QED
      BY <2>1, <3>1, <3>2 DEF RecordOf
  <2>2. ASSUME NEW e \in written'
        PROVE  stage'[e] \in PastUpsert
    <3>1. CASE e = d
      BY <2>2, <3>1, <1>s DEF RecordOf
    <3>2. CASE e # d
      <4>1. e \in Delivery /\ stage[e] \in PastUpsert
        BY <2>2, <3>2 DEF RecordOf, AnswerInv, RecordsAreWritten, TypeOK
      <4> QED
        BY <3>2, <4>1, <1>s DEF PastUpsert, Registered
    <3> QED
      BY <3>1, <3>2
  <2> QED
    BY <2>1, <2>2 DEF RecordsAreWritten
<1>6. LeftBehindIsUnanswered'
  <2>1. ASSUME NEW e \in Delivery \ doubt', stage'[e] \in {"released", "lost"},
               record'[MessageOf[e]] = e, clearing # e
        PROVE  outcomes'[e] = <<>>
    <3>1. CASE e = d
      BY <2>1, <3>1, <1>s DEF RecordOf
    <3>2. CASE e # d
      <4>1. record[MessageOf[e]] = e
        BY <2>1, <3>2, <1>m DEF RecordOf
      <4>2. stage[e] = stage'[e] /\ e \notin doubt
        BY <2>1, <3>2, <1>s DEF OutcomeOf
      <4> QED
        BY <2>1, <3>2, <4>1, <4>2 DEF AnswerInv, LeftBehindIsUnanswered, OutcomeOf
    <3> QED
      BY <3>1, <3>2
  <2>2. d \notin todo
    BY DEF AnswerInv, LeftBehindIsUnanswered, Settled
  <2>3. \A e \in todo : stage'[e] \in {"released", "lost"}
    BY <2>2, <1>s DEF AnswerInv, LeftBehindIsUnanswered, TypeOK
  <2>4. \A e \in todo \ doubt' : outcomes'[e] = <<>>
    BY <2>2 DEF AnswerInv, LeftBehindIsUnanswered, OutcomeOf, TypeOK
  <2> QED
    BY <2>1, <2>3, <2>4 DEF LeftBehindIsUnanswered
<1>7. RecordedUntilAnswered'
  <2>1. SUFFICES ASSUME NEW e \in written', Sole(e), outcomes'[e] = <<>>
                 PROVE  record'[MessageOf[e]] = e
    BY DEF RecordedUntilAnswered, Sole
  <2>2. CASE e = d
    BY <2>1, <2>2 DEF RecordOf
  <2>3. CASE e # d
    <3>1. e \in Delivery /\ e \in written /\ outcomes[e] = <<>>
      BY <2>1, <2>3 DEF RecordOf, OutcomeOf, TypeOK
    <3>2. record[MessageOf[e]] = e
      BY <2>1, <3>1 DEF AnswerInv, RecordedUntilAnswered
    <3>3. MessageOf[e] # MessageOf[d]
      BY <2>1, <2>3, <3>1 DEF Sole
    <3> QED
      BY <3>1, <3>2, <3>3, <1>m DEF RecordOf
  <2> QED
    BY <2>2, <2>3
<1> QED
  BY <1>1, <1>2, <1>3, <1>4, <1>5, <1>6, <1>7 DEF AnswerInv

(* A step that only moves deliveries whose fate is open. *)
LEMMA CalmStep ==
    ASSUME TypeOK, AnswerInv, up,
           UNCHANGED <<outcomes, doubt, record, written, todo, clearing, up>>,
           \A e \in Delivery :
              \/ stage'[e] = stage[e]
              \/ /\ stage[e] \notin Answerable /\ stage'[e] \notin Answerable
                 /\ stage[e] \in PastUpsert => stage'[e] \in PastUpsert
    PROVE  AnswerInv'
<1>1. UnansweredBefore' /\ AnsweredAfter' /\ OneOutcome' /\ DeadIsIdle'
  BY DEF AnswerInv, UnansweredBefore, AnsweredAfter, OneOutcome, DeadIsIdle, Answerable
<1>2. RecordsAreWritten'
  BY DEF AnswerInv, RecordsAreWritten, TypeOK
<1>3. LeftBehindIsUnanswered'
  BY DEF AnswerInv, LeftBehindIsUnanswered, Answerable, TypeOK
<1>4. RecordedUntilAnswered'
  BY DEF AnswerInv, RecordedUntilAnswered, Sole
<1> QED
  BY <1>1, <1>2, <1>3, <1>4 DEF AnswerInv

-----------------------------------------------------------------------------
(* The steps of one delivery.  MergedFails, which kills the process, is     *)
(* among the deaths below.                                                  *)
LEMMA WorkOutcome ==
    ASSUME OutcomeInv, NEW d \in Delivery, Work(d), ~MergedFails(d)
    PROVE  OutcomeInv'
<1>t. TypeOK /\ SlotInv /\ RunInv /\ AnswerInv
  BY DEF OutcomeInv, SlotInv
<1>t2. SlotInv' /\ TypeOK'
  BY <1>t, WorkSlots DEF SlotInv
<1>g. \A s \in Stage : Go(d, s) => Moves(d, s)
  BY <1>t, GoMoves
<1>r. Release(d) => Moves(d, "released")
  BY <1>t, ReleaseMoves
<1>o. \A o \in Outcome : Receives(d, o) =>
           /\ outcomes'[d] # <<>>
           /\ Len(outcomes'[d]) = Len(outcomes[d]) + 1
           /\ \A e \in Delivery \ {d} : outcomes'[e] = outcomes[e]
  BY <1>t, ReceivesOne
<1>n. /\ Len(<<>>) = 0
      /\ Len(outcomes[d]) \in Nat
      /\ d \notin doubt => Len(outcomes[d]) <= 1
  BY <1>t, EmptySeq, LenProperties DEF TypeOK, AnswerInv, OneOutcome
<1>u. d \notin doubt /\ stage[d] \notin Answerable => outcomes[d] = <<>>
  BY <1>t DEF AnswerInv, UnansweredBefore
<1>a. stage[d] \in {"closing", "removing"} => outcomes[d] # <<>>
  BY <1>t DEF AnswerInv, AnsweredAfter
<1>w. /\ record[MessageOf[d]] = d => d \in written
      /\ d \in written => stage[d] \in PastUpsert
      /\ d \in written /\ Sole(d) /\ outcomes[d] = <<>> => record[MessageOf[d]] = d
  BY <1>t, PipelineAssumption
  DEF AnswerInv, RecordsAreWritten, RecordedUntilAnswered
<1>k. d \in aborted => stage[d] \in {"aborting", "failing", "removing", "released", "lost"}
  BY <1>t DEF RunInv, AbortedFail
(* One outcome, received or perhaps received, by a delivery that had none. *)
<1>x. ASSUME NEW o \in Outcome, NEW s, stage[d] \notin Answerable, s \in Answerable,
             \/ Receives(d, o) /\ doubt \subseteq doubt'
             \/ /\ UNCHANGED outcomes /\ doubt \subseteq doubt'
                /\ s \in {"released", "lost"}
      PROVE  OutcomeOf(d, s)
  BY <1>x, <1>o, <1>n, <1>u DEF OutcomeOf
(* No outcome. *)
<1>y. ASSUME NEW s, UNCHANGED <<outcomes, doubt>>,
             s \in {"closing", "removing"} => stage[d] \in {"closing", "removing"},
             stage[d] \in Answerable => s \in Answerable
      PROVE  OutcomeOf(d, s)
  BY <1>y, <1>n, <1>u, <1>a DEF OutcomeOf
(* No change of the record. *)
<1>z. ASSUME NEW s, UNCHANGED <<record, written>>,
             stage[d] \in PastUpsert => s \in PastUpsert,
             outcomes[d] # <<>> => outcomes'[d] # <<>>,
             \/ s \notin {"released", "lost"}
             \/ stage[d] \notin PastUpsert
             \/ d \notin doubt' => outcomes'[d] = <<>>
      PROVE  RecordOf(d, s)
  BY <1>z, <1>w DEF RecordOf
<1> DEFINE Parts(s) ==
      /\ Moves(d, s) /\ stage[d] \notin Settled
      /\ UNCHANGED <<todo, clearing, up>>
      /\ OutcomeOf(d, s) /\ RecordOf(d, s)
      /\ ReleasedIsUntracked' /\ ChatsOnly' /\ AbortedFail' /\ DrainedStaysClosed'
<1>q. \A s : Parts(s) => OutcomeInv'
  BY <1>t, <1>t2, LedgerStep DEF OutcomeInv, RunInv
<1> HIDE DEF Parts
<1> USE DEF runVars, diskVars, lifeVars, historyVars
<1>1. CASE DropAnswered(d)
  <2>1. Moves(d, "released") /\ stage[d] = "dropping"
        /\ UNCHANGED <<todo, clearing, up>>
    BY <1>1, <1>g
    DEF DropAnswered, Stage, HoldsSlot, Registered, Settled
  <2>2. ReleasedIsUntracked'
    BY <1>1, <2>1, <1>t, <1>t2, RegistryStep
    DEF DropAnswered, RunInv, Registered
  <2>3. ChatsOnly'
    BY <1>1, <2>1, <1>t, ChatStep DEF DropAnswered, RunInv, ChatsOnly
  <2>4. AbortedFail' /\ DrainedStaysClosed'
    BY <1>1, <2>1, <1>t, <1>k, AbortStep, DrainStep
    DEF DropAnswered, RunInv, HoldsSlot, Registered
  <2>5. OutcomeOf(d, "released")
    BY <1>1, <2>1, <1>x
    DEF DropAnswered, Answerable, Outcome, DropOutcome
  <2>6. RecordOf(d, "released")
    BY <1>1, <2>1, <2>5, <1>u, <1>z
    DEF DropAnswered, OutcomeOf, PastUpsert, Registered, Answerable
  <2> QED
    BY <2>1, <2>2, <2>3, <2>4, <2>5, <2>6, <1>q DEF Parts, Settled
<1>2. CASE DropFails(d)
  <2>1. Moves(d, "released") /\ stage[d] = "dropping"
        /\ UNCHANGED <<todo, clearing, up>>
    BY <1>2, <1>g
    DEF DropFails, Stage, HoldsSlot, Registered, Settled
  <2>2. ReleasedIsUntracked'
    BY <1>2, <2>1, <1>t, <1>t2, RegistryStep DEF DropFails, RunInv, Registered
  <2>3. ChatsOnly'
    BY <1>2, <2>1, <1>t, ChatStep DEF DropFails, RunInv, ChatsOnly
  <2>4. AbortedFail' /\ DrainedStaysClosed'
    BY <1>2, <2>1, <1>t, <1>k, AbortStep, DrainStep
    DEF DropFails, RunInv, HoldsSlot, Registered
  <2>5. OutcomeOf(d, "released")
    BY <1>2, <2>1, <1>x
    DEF DropFails, Answerable, Outcome, DropOutcome
  <2>6. RecordOf(d, "released")
    BY <1>2, <2>1, <2>5, <1>u, <1>z
    DEF DropFails, OutcomeOf, PastUpsert, Registered, Answerable
  <2> QED
    BY <2>1, <2>2, <2>3, <2>4, <2>5, <2>6, <1>q DEF Parts, Settled
<1>3. CASE MergedAnswered(d)
  <2>1. Moves(d, "released") /\ stage[d] = "merged"
        /\ UNCHANGED <<todo, clearing, up>>
    BY <1>3, <1>r
    DEF MergedAnswered, Stage, HoldsSlot, Registered, Settled
  <2>2. ReleasedIsUntracked'
    BY <1>3, <2>1, <1>t, <1>t2, RegistryStep
    DEF MergedAnswered, RunInv, Registered
  <2>3. ChatsOnly'
    BY <1>3, <2>1, <1>t, ChatStep DEF MergedAnswered, RunInv, ChatsOnly
  <2>4. AbortedFail' /\ DrainedStaysClosed'
    BY <1>3, <2>1, <1>t, <1>k, AbortStep, DrainStep
    DEF MergedAnswered, RunInv, HoldsSlot, Registered
  <2>5. OutcomeOf(d, "released")
    BY <1>3, <2>1, <1>x
    DEF MergedAnswered, Answerable, Outcome
  <2>6. RecordOf(d, "released")
    BY <1>3, <2>1, <2>5, <1>u, <1>z
    DEF MergedAnswered, OutcomeOf, PastUpsert, Registered, Answerable
  <2> QED
    BY <2>1, <2>2, <2>3, <2>4, <2>5, <2>6, <1>q DEF Parts, Settled
<1>4. CASE BatchReady(d)
  <2>1. Moves(d, "starting") /\ stage[d] = "flushing"
        /\ UNCHANGED <<todo, clearing, up>>
    BY <1>4, <1>g
    DEF BatchReady, Stage, HoldsSlot, Registered, Settled
  <2>2. ReleasedIsUntracked'
    BY <1>4, <2>1, <1>t, <1>t2, RegistryStep
    DEF BatchReady, RunInv, Registered
  <2>3. ChatsOnly'
    BY <1>4, <2>1, <1>t, ChatStep DEF BatchReady, RunInv, ChatsOnly
  <2>4. AbortedFail' /\ DrainedStaysClosed'
    BY <1>4, <2>1, <1>t, <1>k, AbortStep, DrainStep
    DEF BatchReady, RunInv, HoldsSlot, Registered
  <2>5. OutcomeOf(d, "starting")
    BY <1>4, <2>1, <1>y DEF BatchReady, Answerable
  <2>6. RecordOf(d, "starting")
    BY <1>4, <2>1, <2>5, <1>u, <1>z
    DEF BatchReady, OutcomeOf, PastUpsert, Registered, Answerable
  <2> QED
    BY <2>1, <2>2, <2>3, <2>4, <2>5, <2>6, <1>q DEF Parts, Settled
<1>5. CASE OtherWork(d)
  <2>0. PICK s \in {"replying", "failing"} : Go(d, s)
    BY <1>5 DEF OtherWork
  <2>1. Moves(d, s) /\ stage[d] = "starting"
        /\ UNCHANGED <<todo, clearing, up>>
    BY <2>0, <1>5, <1>g
    DEF OtherWork, Stage, HoldsSlot, Registered, Settled
  <2>2. ReleasedIsUntracked'
    BY <2>0, <1>5, <2>1, <1>t, <1>t2, RegistryStep
    DEF OtherWork, RunInv, Registered
  <2>3. ChatsOnly'
    BY <2>0, <1>5, <2>1, <1>t, ChatStep DEF OtherWork, RunInv, ChatsOnly
  <2>4. AbortedFail' /\ DrainedStaysClosed'
    BY <2>0, <1>5, <2>1, <1>t, <1>k, AbortStep, DrainStep
    DEF OtherWork, RunInv, HoldsSlot, Registered
  <2>5. OutcomeOf(d, s)
    BY <2>0, <1>5, <2>1, <1>y DEF OtherWork, Answerable
  <2>6. RecordOf(d, s)
    BY <2>0, <1>5, <2>1, <2>5, <1>u, <1>z
    DEF OtherWork, OutcomeOf, PastUpsert, Registered, Answerable
  <2> QED
    BY <2>1, <2>2, <2>3, <2>4, <2>5, <2>6, <1>q DEF Parts, Settled
<1>6. CASE WriteRecord(d)
  <2>1. Moves(d, "recorded") /\ stage[d] = "starting"
        /\ UNCHANGED <<todo, clearing, up>>
    BY <1>6, <1>g
    DEF WriteRecord, Stage, HoldsSlot, Registered, Settled
  <2>2. ReleasedIsUntracked'
    BY <1>6, <2>1, <1>t, <1>t2, RegistryStep
    DEF WriteRecord, RunInv, Registered
  <2>3. ChatsOnly'
    BY <1>6, <2>1, <1>t, ChatStep DEF WriteRecord, RunInv, ChatsOnly
  <2>4. AbortedFail' /\ DrainedStaysClosed'
    BY <1>6, <2>1, <1>t, <1>k, AbortStep, DrainStep
    DEF WriteRecord, RunInv, HoldsSlot, Registered
  <2>5. OutcomeOf(d, "recorded")
    BY <1>6, <2>1, <1>y DEF WriteRecord, Answerable
  <2>6. RecordOf(d, "recorded")
    BY <1>6, <2>1, <1>t, <1>u, <1>w, <1>a, PipelineAssumption
    DEF WriteRecord, RecordOf, TypeOK, PastUpsert, Registered, Answerable
  <2> QED
    BY <2>1, <2>2, <2>3, <2>4, <2>5, <2>6, <1>q DEF Parts, Settled
<1>7. CASE StartRun(d)
  <2>1. Moves(d, "running") /\ stage[d] = "recorded"
        /\ UNCHANGED <<todo, clearing, up>>
    BY <1>7, <1>g
    DEF StartRun, Stage, HoldsSlot, Registered, Settled
  <2>2. ReleasedIsUntracked'
    BY <1>7, <2>1, <1>t, <1>t2, RegistryStep DEF StartRun, RunInv, Registered
  <2>3. ChatsOnly'
    BY <1>7, <2>1, <1>t, ChatStep DEF StartRun, RunInv, ChatsOnly
  <2>4. AbortedFail' /\ DrainedStaysClosed'
    BY <1>7, <2>1, <1>t, <1>k, AbortStep, DrainStep
    DEF StartRun, RunInv, HoldsSlot, Registered
  <2>5. OutcomeOf(d, "running")
    BY <1>7, <2>1, <1>y DEF StartRun, Answerable
  <2>6. RecordOf(d, "running")
    BY <1>7, <2>1, <2>5, <1>u, <1>z
    DEF StartRun, OutcomeOf, PastUpsert, Registered, Answerable
  <2> QED
    BY <2>1, <2>2, <2>3, <2>4, <2>5, <2>6, <1>q DEF Parts, Settled
<1>8. CASE RunEnds(d)
  <2>0. PICK s \in {"delivering", "reporting"} : Go(d, s)
    BY <1>8 DEF RunEnds
  <2>1. Moves(d, s) /\ stage[d] = "running"
        /\ UNCHANGED <<todo, clearing, up>>
    BY <2>0, <1>8, <1>g
    DEF RunEnds, Stage, HoldsSlot, Registered, Settled
  <2>2. ReleasedIsUntracked'
    BY <2>0, <1>8, <2>1, <1>t, <1>t2, RegistryStep
    DEF RunEnds, RunInv, Registered
  <2>3. ChatsOnly'
    BY <2>0, <1>8, <2>1, <1>t, ChatStep DEF RunEnds, RunInv, ChatsOnly
  <2>4. AbortedFail' /\ DrainedStaysClosed'
    BY <2>0, <1>8, <2>1, <1>t, <1>k, AbortStep, DrainStep
    DEF RunEnds, RunInv, HoldsSlot, Registered
  <2>5. OutcomeOf(d, s)
    BY <2>0, <1>8, <2>1, <1>y DEF RunEnds, Answerable
  <2>6. RecordOf(d, s)
    BY <2>0, <1>8, <2>1, <2>5, <1>u, <1>z
    DEF RunEnds, OutcomeOf, PastUpsert, Registered, Answerable
  <2> QED
    BY <2>1, <2>2, <2>3, <2>4, <2>5, <2>6, <1>q DEF Parts, Settled
<1>9. CASE RunThrows(d)
  <2>1. Moves(d, "failing") /\ stage[d] \in {"running", "delivering"}
        /\ UNCHANGED <<todo, clearing, up>>
    BY <1>9, <1>g
    DEF RunThrows, Stage, HoldsSlot, Registered, Settled
  <2>2. ReleasedIsUntracked'
    BY <1>9, <2>1, <1>t, <1>t2, RegistryStep DEF RunThrows, RunInv, Registered
  <2>3. ChatsOnly'
    BY <1>9, <2>1, <1>t, ChatStep DEF RunThrows, RunInv, ChatsOnly
  <2>4. AbortedFail' /\ DrainedStaysClosed'
    BY <1>9, <2>1, <1>t, <1>k, AbortStep, DrainStep
    DEF RunThrows, RunInv, HoldsSlot, Registered
  <2>5. OutcomeOf(d, "failing")
    BY <1>9, <2>1, <1>y DEF RunThrows, Answerable
  <2>6. RecordOf(d, "failing")
    BY <1>9, <2>1, <2>5, <1>u, <1>z
    DEF RunThrows, OutcomeOf, PastUpsert, Registered, Answerable
  <2> QED
    BY <2>1, <2>2, <2>3, <2>4, <2>5, <2>6, <1>q DEF Parts, Settled
<1>10. CASE TimeOut(d)
  <2>1. Moves(d, "aborting") /\ stage[d] = "running"
        /\ UNCHANGED <<todo, clearing, up>>
    BY <1>10, <1>g
    DEF TimeOut, Stage, HoldsSlot, Registered, Settled
  <2>2. ReleasedIsUntracked'
    BY <1>10, <2>1, <1>t, <1>t2, RegistryStep DEF TimeOut, RunInv, Registered
  <2>3. ChatsOnly'
    BY <1>10, <2>1, <1>t, ChatStep DEF TimeOut, RunInv, ChatsOnly
  <2>4. AbortedFail' /\ DrainedStaysClosed'
    BY <1>10, <2>1, <1>t, <1>k, AbortStep, DrainStep
    DEF TimeOut, RunInv, HoldsSlot, Registered
  <2>5. OutcomeOf(d, "aborting")
    BY <1>10, <2>1, <1>y DEF TimeOut, Answerable
  <2>6. RecordOf(d, "aborting")
    BY <1>10, <2>1, <2>5, <1>u, <1>z
    DEF TimeOut, OutcomeOf, PastUpsert, Registered, Answerable
  <2> QED
    BY <2>1, <2>2, <2>3, <2>4, <2>5, <2>6, <1>q DEF Parts, Settled
<1>11. CASE AbortDone(d)
  <2>1. Moves(d, "failing") /\ stage[d] = "aborting"
        /\ UNCHANGED <<todo, clearing, up>>
    BY <1>11, <1>g
    DEF AbortDone, Stage, HoldsSlot, Registered, Settled
  <2>2. ReleasedIsUntracked'
    BY <1>11, <2>1, <1>t, <1>t2, RegistryStep
    DEF AbortDone, RunInv, Registered
  <2>3. ChatsOnly'
    BY <1>11, <2>1, <1>t, ChatStep DEF AbortDone, RunInv, ChatsOnly
  <2>4. AbortedFail' /\ DrainedStaysClosed'
    BY <1>11, <2>1, <1>t, <1>k, AbortStep, DrainStep
    DEF AbortDone, RunInv, HoldsSlot, Registered
  <2>5. OutcomeOf(d, "failing")
    BY <1>11, <2>1, <1>y DEF AbortDone, Answerable
  <2>6. RecordOf(d, "failing")
    BY <1>11, <2>1, <2>5, <1>u, <1>z
    DEF AbortDone, OutcomeOf, PastUpsert, Registered, Answerable
  <2> QED
    BY <2>1, <2>2, <2>3, <2>4, <2>5, <2>6, <1>q DEF Parts, Settled
<1>12. CASE Delivered(d)
  <2>1. Moves(d, "replying") /\ stage[d] = "delivering"
        /\ UNCHANGED <<todo, clearing, up>>
    BY <1>12, <1>g
    DEF Delivered, Stage, HoldsSlot, Registered, Settled
  <2>2. ReleasedIsUntracked'
    BY <1>12, <2>1, <1>t, <1>t2, RegistryStep
    DEF Delivered, RunInv, Registered
  <2>3. ChatsOnly'
    BY <1>12, <2>1, <1>t, ChatStep DEF Delivered, RunInv, ChatsOnly
  <2>4. AbortedFail' /\ DrainedStaysClosed'
    BY <1>12, <2>1, <1>t, <1>k, AbortStep, DrainStep
    DEF Delivered, RunInv, HoldsSlot, Registered
  <2>5. OutcomeOf(d, "replying")
    BY <1>12, <2>1, <1>y DEF Delivered, Answerable
  <2>6. RecordOf(d, "replying")
    BY <1>12, <2>1, <2>5, <1>u, <1>z
    DEF Delivered, OutcomeOf, PastUpsert, Registered, Answerable
  <2> QED
    BY <2>1, <2>2, <2>3, <2>4, <2>5, <2>6, <1>q DEF Parts, Settled
<1>13. CASE DeliveryFails(d)
  <2>1. Moves(d, "aborting") /\ stage[d] = "delivering"
        /\ UNCHANGED <<todo, clearing, up>>
    BY <1>13, <1>g
    DEF DeliveryFails, Stage, HoldsSlot, Registered, Settled
  <2>2. ReleasedIsUntracked'
    BY <1>13, <2>1, <1>t, <1>t2, RegistryStep
    DEF DeliveryFails, RunInv, Registered
  <2>3. ChatsOnly'
    BY <1>13, <2>1, <1>t, ChatStep DEF DeliveryFails, RunInv, ChatsOnly
  <2>4. AbortedFail' /\ DrainedStaysClosed'
    BY <1>13, <2>1, <1>t, <1>k, AbortStep, DrainStep
    DEF DeliveryFails, RunInv, HoldsSlot, Registered
  <2>5. OutcomeOf(d, "aborting")
    BY <1>13, <2>1, <1>y DEF DeliveryFails, Answerable
  <2>6. RecordOf(d, "aborting")
    BY <1>13, <2>1, <2>5, <1>u, <1>z
    DEF DeliveryFails, OutcomeOf, PastUpsert, Registered, Answerable
  <2> QED
    BY <2>1, <2>2, <2>3, <2>4, <2>5, <2>6, <1>q DEF Parts, Settled
<1>14. CASE Answered(d)
  <2>0. PICK s \in {"closing", "removing"} : Go(d, s) /\ (IsChat(d) <=> s = "closing")
    BY <1>14 DEF Answered
  <2>1. Moves(d, s) /\ stage[d] \in {"replying", "reporting"}
        /\ UNCHANGED <<todo, clearing, up>>
    BY <2>0, <1>14, <1>g
    DEF Answered, Stage, HoldsSlot, Registered, Settled, RunOutcome
  <2>2. ReleasedIsUntracked'
    BY <2>0, <1>14, <2>1, <1>t, <1>t2, RegistryStep
    DEF Answered, RunInv, Registered
  <2>3. ChatsOnly'
    BY <2>0, <1>14, <2>1, <1>t, ChatStep DEF Answered, RunInv, ChatsOnly
  <2>4. AbortedFail' /\ DrainedStaysClosed'
    BY <2>0, <1>14, <2>1, <1>t, <1>k, AbortStep, DrainStep
    DEF Answered, RunInv, HoldsSlot, Registered
  <2>5. OutcomeOf(d, s)
    BY <2>0, <1>14, <2>1, <1>x
    DEF Answered, Answerable, Outcome, RunOutcome
  <2>6. RecordOf(d, s)
    BY <2>0, <1>14, <2>1, <2>5, <1>u, <1>z
    DEF Answered, OutcomeOf, PastUpsert, Registered, Answerable
  <2> QED
    BY <2>1, <2>2, <2>3, <2>4, <2>5, <2>6, <1>q DEF Parts, Settled
<1>15. CASE AnswerFails(d)
  <2>1. Moves(d, "failing") /\ stage[d] \in {"replying", "reporting"}
        /\ UNCHANGED <<todo, clearing, up>>
    BY <1>15, <1>g
    DEF AnswerFails, Stage, HoldsSlot, Registered, Settled, RunOutcome
  <2>2. ReleasedIsUntracked'
    BY <1>15, <2>1, <1>t, <1>t2, RegistryStep
    DEF AnswerFails, RunInv, Registered
  <2>3. ChatsOnly'
    BY <1>15, <2>1, <1>t, ChatStep DEF AnswerFails, RunInv, ChatsOnly
  <2>4. AbortedFail' /\ DrainedStaysClosed'
    BY <1>15, <2>1, <1>t, <1>k, AbortStep, DrainStep
    DEF AnswerFails, RunInv, HoldsSlot, Registered
  <2>5. OutcomeOf(d, "failing")
    <3>1. CASE UNCHANGED <<outcomes, doubt>>
      BY <2>1, <3>1, <1>y DEF Answerable
    <3>2. CASE ~UNCHANGED <<outcomes, doubt>>
      BY <1>15, <3>2, <1>o DEF AnswerFails, OutcomeOf, RunOutcome
    <3> QED
      BY <3>1, <3>2
  <2>6. RecordOf(d, "failing")
    BY <1>15, <2>1, <2>5, <1>u, <1>z
    DEF AnswerFails, OutcomeOf, PastUpsert, Registered, Answerable
  <2> QED
    BY <2>1, <2>2, <2>3, <2>4, <2>5, <2>6, <1>q DEF Parts, Settled
<1>16. CASE CloseRun(d)
  <2>1. Moves(d, "removing") /\ stage[d] = "closing"
        /\ UNCHANGED <<todo, clearing, up>>
    BY <1>16, <1>g
    DEF CloseRun, Stage, HoldsSlot, Registered, Settled
  <2>2. ReleasedIsUntracked'
    BY <1>16, <2>1, <1>t, <1>t2, RegistryStep DEF CloseRun, RunInv, Registered
  <2>3. ChatsOnly'
    BY <1>16, <2>1, <1>t, ChatStep DEF CloseRun, RunInv, ChatsOnly
  <2>4. AbortedFail' /\ DrainedStaysClosed'
    BY <1>16, <2>1, <1>t, <1>k, AbortStep, DrainStep
    DEF CloseRun, RunInv, HoldsSlot, Registered
  <2>5. OutcomeOf(d, "removing")
    BY <1>16, <2>1, <1>y DEF CloseRun, Answerable
  <2>6. RecordOf(d, "removing")
    BY <1>16, <2>1, <2>5, <1>u, <1>z
    DEF CloseRun, OutcomeOf, PastUpsert, Registered, Answerable
  <2> QED
    BY <2>1, <2>2, <2>3, <2>4, <2>5, <2>6, <1>q DEF Parts, Settled
<1>17. CASE ErrorAnswered(d)
  <2>1. Moves(d, "removing") /\ stage[d] = "failing"
        /\ UNCHANGED <<todo, clearing, up>>
    BY <1>17, <1>g
    DEF ErrorAnswered, Stage, HoldsSlot, Registered, Settled
  <2>2. ReleasedIsUntracked'
    BY <1>17, <2>1, <1>t, <1>t2, RegistryStep
    DEF ErrorAnswered, RunInv, Registered
  <2>3. ChatsOnly'
    BY <1>17, <2>1, <1>t, ChatStep DEF ErrorAnswered, RunInv, ChatsOnly
  <2>4. AbortedFail' /\ DrainedStaysClosed'
    BY <1>17, <2>1, <1>t, <1>k, AbortStep, DrainStep
    DEF ErrorAnswered, RunInv, HoldsSlot, Registered
  <2>5. OutcomeOf(d, "removing")
    BY <1>17, <2>1, <1>x
    DEF ErrorAnswered, Answerable, Outcome
  <2>6. RecordOf(d, "removing")
    BY <1>17, <2>1, <2>5, <1>u, <1>z
    DEF ErrorAnswered, OutcomeOf, PastUpsert, Registered, Answerable
  <2> QED
    BY <2>1, <2>2, <2>3, <2>4, <2>5, <2>6, <1>q DEF Parts, Settled
<1>18. CASE ErrorFails(d)
  <2>1. Moves(d, "released") /\ stage[d] = "failing"
        /\ UNCHANGED <<todo, clearing, up>>
    BY <1>18, <1>r
    DEF ErrorFails, Stage, HoldsSlot, Registered, Settled
  <2>2. ReleasedIsUntracked'
    BY <1>18, <2>1, <1>t, <1>t2, RegistryStep
    DEF ErrorFails, RunInv, Registered
  <2>3. ChatsOnly'
    BY <1>18, <2>1, <1>t, ChatStep DEF ErrorFails, RunInv, ChatsOnly
  <2>4. AbortedFail' /\ DrainedStaysClosed'
    BY <1>18, <2>1, <1>t, <1>k, AbortStep, DrainStep
    DEF ErrorFails, RunInv, HoldsSlot, Registered
  <2>5. OutcomeOf(d, "released")
    BY <1>18, <2>1, <1>x
    DEF ErrorFails, Answerable, Outcome
  <2>6. RecordOf(d, "released")
    BY <1>18, <2>1, <2>5, <1>u, <1>z
    DEF ErrorFails, OutcomeOf, PastUpsert, Registered, Answerable
  <2> QED
    BY <2>1, <2>2, <2>3, <2>4, <2>5, <2>6, <1>q DEF Parts, Settled
<1>19. CASE RemoveRecord(d)
  <2>1. Moves(d, "released") /\ stage[d] = "removing"
        /\ UNCHANGED <<todo, clearing, up>>
    BY <1>19, <1>r
    DEF RemoveRecord, Stage, HoldsSlot, Registered, Settled
  <2>2. ReleasedIsUntracked'
    BY <1>19, <2>1, <1>t, <1>t2, RegistryStep
    DEF RemoveRecord, RunInv, Registered
  <2>3. ChatsOnly'
    BY <1>19, <2>1, <1>t, ChatStep DEF RemoveRecord, RunInv, ChatsOnly
  <2>4. AbortedFail' /\ DrainedStaysClosed'
    BY <1>19, <2>1, <1>t, <1>k, AbortStep, DrainStep
    DEF RemoveRecord, RunInv, HoldsSlot, Registered
  <2>5. OutcomeOf(d, "released")
    BY <1>19, <2>1, <1>y DEF RemoveRecord, Answerable
  <2>6. RecordOf(d, "released")
    BY <1>19, <2>1, <1>t, <1>u, <1>w, <1>a, PipelineAssumption
    DEF RemoveRecord, RecordOf, TypeOK, PastUpsert, Registered, Answerable
  <2> QED
    BY <2>1, <2>2, <2>3, <2>4, <2>5, <2>6, <1>q DEF Parts, Settled
<1>20. CASE RemoveFails(d)
  <2>1. Moves(d, "released") /\ stage[d] = "removing"
        /\ UNCHANGED <<todo, clearing, up>>
    BY <1>20, <1>r
    DEF RemoveFails, Stage, HoldsSlot, Registered, Settled
  <2>2. ReleasedIsUntracked'
    BY <1>20, <2>1, <1>t, <1>t2, RegistryStep
    DEF RemoveFails, RunInv, Registered
  <2>3. ChatsOnly'
    BY <1>20, <2>1, <1>t, ChatStep DEF RemoveFails, RunInv, ChatsOnly
  <2>4. AbortedFail' /\ DrainedStaysClosed'
    BY <1>20, <2>1, <1>t, <1>k, AbortStep, DrainStep
    DEF RemoveFails, RunInv, HoldsSlot, Registered
  <2>5. OutcomeOf(d, "released")
    BY <1>20, <2>1, <1>n DEF RemoveFails, OutcomeOf, Answerable
  <2>6. RecordOf(d, "released")
    BY <1>20, <2>1, <1>w DEF RemoveFails, RecordOf, PastUpsert
  <2> QED
    BY <2>1, <2>2, <2>3, <2>4, <2>5, <2>6, <1>q DEF Parts, Settled
<1>21. CASE EventDone(d)
  <2>1. Moves(d, "released") /\ stage[d] = "starting" /\ outcomes' = outcomes
        /\ UNCHANGED <<todo, clearing, up>>
    BY <1>21, <1>r
    DEF EventDone, Stage, HoldsSlot, Registered, Settled
  <2>2. ReleasedIsUntracked'
    BY <1>21, <2>1, <1>t, <1>t2, RegistryStep
    DEF EventDone, RunInv, Registered
  <2>3. ChatsOnly'
    BY <1>21, <2>1, <1>t, ChatStep DEF EventDone, RunInv, ChatsOnly
  <2>4. AbortedFail' /\ DrainedStaysClosed'
    BY <1>21, <2>1, <1>t, <1>k, AbortStep, DrainStep
    DEF EventDone, RunInv, HoldsSlot, Registered
  <2>5. OutcomeOf(d, "released")
    BY <1>21, <2>1, <1>y DEF EventDone, Answerable
  <2>6. RecordOf(d, "released")
    BY <1>21, <2>1, <1>z DEF EventDone, PastUpsert, Registered
  <2> QED
    BY <2>1, <2>2, <2>3, <2>4, <2>5, <2>6, <1>q DEF Parts, Settled
<1> QED
  BY <1>1, <1>2, <1>3, <1>4, <1>5, <1>6, <1>7, <1>8, <1>9, <1>10, <1>11, <1>12,
     <1>13, <1>14, <1>15, <1>16, <1>17, <1>18, <1>19, <1>20,
     <1>21
  DEF Work

-----------------------------------------------------------------------------
(* A push.  What it preempts and drops is still unanswered. *)
LEMMA PushOutcome ==
    ASSUME OutcomeInv, NEW d \in Delivery, Push(d)
    PROVE  OutcomeInv'
<1> DEFINE st == AfterPreemption(d)
           B == before \cup ({e \in Delivery : stage[e] # "unsent"} \X {d})
<1>t. TypeOK /\ SlotInv /\ RunInv /\ AnswerInv
  BY DEF OutcomeInv, SlotInv
<1>t2. SlotInv'
  BY <1>t, PushSlots
<1>u. /\ up /\ stage[d] = "unsent"
      /\ UNCHANGED <<outcomes, doubt, record, written, todo, clearing, up>>
      /\ UNCHANGED <<control, tracked, drain, accepting>>
  BY DEF Push, runVars, diskVars, lifeVars
(* What becomes of each delivery. *)
<1>m. \A e \in Delivery :
        \/ stage'[e] = stage[e]
        \/ stage[e] = "queued" /\ stage'[e] \in {"dropping", "batching", "starting"}
        \/ stage[e] = "running" /\ stage'[e] = "aborting"
        \/ stage[e] = "unsent" /\ stage'[e] \in {"queued", "refused", "batching",
                                                 "starting"}
  <2>1. /\ st \in [Delivery -> Stage]
        /\ \A e \in Delivery :
              \/ st[e] = stage[e]
              \/ stage[e] = "queued" /\ st[e] = "dropping"
              \/ stage[e] = "running" /\ st[e] = "aborting"
    <3>1. /\ \A e \in Dropped(d) : stage[e] = "queued"
          /\ \A e \in Preempted(d) : stage[e] = "running"
      BY DEF Dropped, Preempted, At
    <3>2. /\ stage \in [Delivery -> Stage]
          /\ "dropping" \in Stage /\ "aborting" \in Stage
      BY <1>t DEF TypeOK, Stage, HoldsSlot, Registered
    <3> QED
      BY <3>1, <3>2 DEF AfterPreemption, Preempt
  <2>2. CASE accepting /\ HasRoom(st)
    <3> DEFINE q == [st EXCEPT ![d] = "queued"]
    <3>1. q \in [Delivery -> Stage] /\ Pump(q, B, inFlight)
      BY <2>1, <2>2 DEF Push, Stage
    <3>2. q[d] = "queued" /\ \A e \in Delivery \ {d} : q[e] = st[e]
      BY <2>1
    <3> HIDE DEF q, B
    <3>3. \A e \in Delivery :
            \/ stage'[e] = q[e]
            \/ q[e] = "queued" /\ stage'[e] \in {"batching", "starting"}
      BY <3>1, PumpMoves
    <3> HIDE DEF st
    <3> QED
      BY <2>1, <3>2, <3>3, <1>u
  <2>3. CASE ~(accepting /\ HasRoom(st))
    BY <2>1, <2>3, <1>u DEF Push
  <2> QED
    BY <2>2, <2>3
<1>1. ReleasedIsUntracked' /\ ChatsOnly'
  <2>1. \A e \in Delivery : stage[e] \in Registered => stage'[e] \in Registered
    BY <1>m DEF Registered
  <2>2. ReleasedIsUntracked'
    BY <2>1, <1>t, <1>u DEF RunInv, ReleasedIsUntracked, TypeOK
  <2>3. ChatsOnly'
    BY <1>m, <1>t, <1>u DEF RunInv, ChatsOnly, IsChat, Kd
  <2> QED
    BY <2>2, <2>3
<1>2. AbortedFail'
  <2>1. aborted' \subseteq aborted \cup {e \in Preempted(d) : IsUserChat(d)}
    BY DEF Push
  <2>2. ASSUME NEW e \in Preempted(d), IsUserChat(d)
        PROVE  stage'[e] = "aborting"
    <3>1. e \in Delivery /\ stage[e] = "running" /\ e # d
      BY <1>u DEF Preempted, At
    <3>2. e \notin Dropped(d)
      BY <3>1 DEF Dropped, At
    <3>3. st[e] = "aborting" /\ st \in [Delivery -> Stage]
      BY <2>2, <3>1, <3>2, <1>t DEF AfterPreemption, Preempt, TypeOK, Stage,
                                    HoldsSlot, Registered
    <3>4. CASE accepting /\ HasRoom(st)
      <4> DEFINE q == [st EXCEPT ![d] = "queued"]
      <4>1. q \in [Delivery -> Stage] /\ Pump(q, B, inFlight) /\ q[e] = "aborting"
        BY <3>1, <3>3, <3>4 DEF Push, Stage
      <4> HIDE DEF q, B
      <4> QED
        BY <4>1, <3>1, PumpMoves
    <3>5. CASE ~(accepting /\ HasRoom(st))
      BY <3>1, <3>3, <3>5 DEF Push
    <3> QED
      BY <3>4, <3>5
  <2> QED
    BY <2>1, <2>2, <1>m, <1>t DEF RunInv, AbortedFail, TypeOK
<1>3. DrainedStaysClosed'
  <2>1. drain # "off" => ~accepting
    BY <1>t DEF RunInv, DrainedStaysClosed
  <2>2. ASSUME drain = "empty"
        PROVE  At("queued")' = {} /\ Holding' = {}
    <3>1. ~accepting /\ At("queued") = {} /\ Holding = {}
      BY <2>1, <2>2, <1>t DEF RunInv, DrainedStaysClosed, DrainedStaysEmpty
    <3>2. stage' = [st EXCEPT ![d] = "refused"] /\ st = stage
      <4>1. Dropped(d) = {} /\ Preempted(d) = {}
        BY <3>1 DEF Dropped, Preempted, At, Holding, HoldsSlot, Registered
      <4> QED
        BY <3>1, <4>1, <1>t DEF Push, AfterPreemption, Preempt, TypeOK
    <3> QED
      BY <3>1, <3>2, <1>t DEF At, Holding, TypeOK, HoldsSlot, Registered
  <2> QED
    BY <2>1, <2>2, <1>u DEF DrainedStaysClosed, DrainedStaysEmpty
<1>4. AnswerInv'
  <2>1. \A e \in Delivery :
           \/ stage'[e] = stage[e]
           \/ /\ stage[e] \notin Answerable /\ stage'[e] \notin Answerable
              /\ stage[e] \in PastUpsert => stage'[e] \in PastUpsert
    BY <1>m DEF Answerable, PastUpsert, Registered
  <2> QED
    BY <2>1, <1>t, <1>u, CalmStep
<1> QED
  BY <1>t2, <1>1, <1>2, <1>3, <1>4 DEF OutcomeInv, RunInv

(* An abort by the agent control, and the timer of a batch. *)
LEMMA AbortOutcome ==
    ASSUME OutcomeInv, NEW m \in Message, AbortTask(m)
    PROVE  OutcomeInv'
<1> DEFINE d == control[m]
<1>t. TypeOK /\ SlotInv /\ RunInv /\ AnswerInv
  BY DEF OutcomeInv, SlotInv
<1>t2. SlotInv' /\ TypeOK'
  BY <1>t, OtherSlots DEF SlotInv
<1>u. /\ d \in Delivery /\ stage[d] = "running" /\ up /\ Go(d, "aborting")
      /\ aborted' = aborted \cup {d}
      /\ UNCHANGED <<outcomes, doubt, record, written, todo, clearing, up>>
      /\ UNCHANGED <<control, tracked, drain, accepting>>
  BY <1>t DEF AbortTask, TypeOK, runVars, diskVars, lifeVars
<1> HIDE DEF d
<1>m. Moves(d, "aborting")
  BY <1>t, <1>u, GoMoves DEF Stage, HoldsSlot, Registered
<1>1. ReleasedIsUntracked' /\ ChatsOnly'
  BY <1>t, <1>t2, <1>u, <1>m, RegistryStep, ChatStep DEF RunInv, Registered
<1>2. AbortedFail' /\ DrainedStaysClosed'
  BY <1>t, <1>u, <1>m, AbortStep, DrainStep DEF RunInv, HoldsSlot, Registered
<1>3. AnswerInv'
  <2>1. \A e \in Delivery :
           \/ stage'[e] = stage[e]
           \/ /\ stage[e] \notin Answerable /\ stage'[e] \notin Answerable
              /\ stage[e] \in PastUpsert => stage'[e] \in PastUpsert
    BY <1>u, <1>m DEF Moves, Answerable, PastUpsert, Registered
  <2> QED
    BY <2>1, <1>t, <1>u, CalmStep
<1> QED
  BY <1>t2, <1>1, <1>2, <1>3 DEF OutcomeInv, RunInv

LEMMA FlushOutcome ==
    ASSUME OutcomeInv, NEW s \in Session, FlushBatch(s)
    PROVE  OutcomeInv'
<1>t. TypeOK /\ SlotInv /\ RunInv /\ AnswerInv
  BY DEF OutcomeInv, SlotInv
<1>t2. SlotInv'
  BY <1>t, OtherSlots DEF SlotInv
<1>u. /\ UNCHANGED <<outcomes, doubt, record, written, todo, clearing, up>>
      /\ UNCHANGED <<control, tracked, drain, accepting, aborted>>
  BY DEF FlushBatch, diskVars, lifeVars, historyVars
<1>m. /\ \A e \in Delivery :
            \/ stage'[e] = stage[e]
            \/ /\ stage[e] = "batching"
               /\ stage'[e] \in {"starting", "flushing", "merged"}
      /\ \E e \in Delivery : stage[e] = "batching"
  BY DEF FlushBatch, Latest, At
<1>n. up /\ drain # "empty"
  <2>1. up
    BY <1>m, <1>t DEF AnswerInv, DeadIsIdle, Settled
  <2>2. Holding # {}
    BY <1>m DEF Holding, HoldsSlot
  <2> QED
    BY <2>1, <2>2, <1>t DEF RunInv, DrainedStaysClosed, DrainedStaysEmpty
<1>1. ReleasedIsUntracked' /\ ChatsOnly' /\ AbortedFail'
  <2>1. \A e \in Delivery : stage[e] \in Registered => stage'[e] \in Registered
    BY <1>m DEF Registered
  <2>2. ReleasedIsUntracked'
    BY <2>1, <1>t, <1>u DEF RunInv, ReleasedIsUntracked, TypeOK
  <2>3. ChatsOnly'
    BY <1>m, <1>t, <1>u DEF RunInv, ChatsOnly, IsChat, Kd
  <2>4. AbortedFail'
    BY <1>m, <1>t, <1>u DEF RunInv, AbortedFail, TypeOK
  <2> QED
    BY <2>2, <2>3, <2>4
<1>2. DrainedStaysClosed'
  BY <1>n, <1>t, <1>u DEF RunInv, DrainedStaysClosed, DrainedStaysEmpty
<1>3. AnswerInv'
  <2>1. \A e \in Delivery :
           \/ stage'[e] = stage[e]
           \/ /\ stage[e] \notin Answerable /\ stage'[e] \notin Answerable
              /\ stage[e] \in PastUpsert => stage'[e] \in PastUpsert
    BY <1>m DEF Answerable, PastUpsert, Registered
  <2> QED
    BY <2>1, <1>t, <1>u, <1>n, CalmStep
<1> QED
  BY <1>t2, <1>1, <1>2, <1>3 DEF OutcomeInv, RunInv

-----------------------------------------------------------------------------
(* A death of the process, with what the backend had received before it.    *)
(* It leaves a record only for a delivery in doubt or an unanswered one.    *)
LEMMA DeathOutcome ==
    ASSUME OutcomeInv, TypeOK', SlotInv', ProcessDies,
           doubt \subseteq doubt',
           \A e \in Delivery : outcomes[e] # <<>> => outcomes'[e] # <<>>,
           \A e \in Delivery \ doubt' : Len(outcomes'[e]) <= 1,
           \A e \in Delivery \ doubt' :
              stage[e] \in {"unsent", "refused"} => outcomes'[e] = <<>>,
           \A e \in Delivery \ doubt' :
              record[MessageOf[e]] = e => outcomes'[e] = <<>>
    PROVE  OutcomeInv'
<1>t. TypeOK /\ RunInv /\ AnswerInv
  BY DEF OutcomeInv, SlotInv
<1>d. /\ \A e \in Delivery : stage'[e] = IF stage[e] \in Settled
                                        THEN stage[e] ELSE "lost"
      /\ up' = FALSE /\ drain' = "off" /\ todo' = {} /\ clearing' = None
      /\ control' = [m \in Message |-> None] /\ tracked' = {}
      /\ UNCHANGED <<record, written, aborted>>
  BY DEF ProcessDies, diskVars
<1>1. RunInv'
  <2>1. ReleasedIsUntracked' /\ ChatsOnly' /\ DrainedStaysClosed'
    BY <1>d DEF ReleasedIsUntracked, ChatsOnly, DrainedStaysClosed,
                DrainedStaysEmpty, Settled
  <2>2. AbortedFail'
    BY <1>d, <1>t DEF RunInv, AbortedFail, TypeOK, Settled
  <2> QED
    BY <2>1, <2>2 DEF RunInv
<1>2. UnansweredBefore'
  BY <1>d DEF UnansweredBefore, Answerable, Settled
<1>3. AnsweredAfter' /\ OneOutcome'
  BY <1>d DEF AnsweredAfter, OneOutcome, Settled
<1>4. RecordsAreWritten'
  BY <1>d, <1>t DEF AnswerInv, RecordsAreWritten, TypeOK, Settled, PastUpsert
<1>5. LeftBehindIsUnanswered' /\ DeadIsIdle'
  BY <1>d DEF LeftBehindIsUnanswered, DeadIsIdle, Settled
<1>6. RecordedUntilAnswered'
  BY <1>d, <1>t DEF AnswerInv, RecordedUntilAnswered, Sole, TypeOK
<1> QED
  BY <1>1, <1>2, <1>3, <1>4, <1>5, <1>6 DEF OutcomeInv, AnswerInv

(* A crash, a shutdown run dry, and a failed "batched" callback. *)
LEMMA DeathsOutcome ==
    ASSUME OutcomeInv,
           Crash \/ Exit \/ \E d \in Delivery : MergedFails(d)
    PROVE  OutcomeInv'
<1>t. TypeOK /\ SlotInv /\ RunInv /\ AnswerInv
  BY DEF OutcomeInv, SlotInv
<1>t2. SlotInv' /\ TypeOK'
  BY <1>t, OtherSlots, WorkSlots DEF SlotInv, Work
<1>w. /\ \A e \in Delivery : record[MessageOf[e]] = e => stage[e] \in PastUpsert
      /\ \A e \in Delivery \ doubt : stage[e] \notin Answerable => outcomes[e] = <<>>
      /\ \A e \in Delivery \ doubt : Len(outcomes[e]) <= 1
  BY <1>t, PipelineAssumption
  DEF AnswerInv, RecordsAreWritten, UnansweredBefore, OneOutcome
<1>1. CASE Crash
  BY <1>1, <1>t, <1>t2, <1>w, DeathOutcome DEF Crash, Unremoved, Answerable
<1>2. CASE Exit
  <2>1. /\ ProcessDies /\ UNCHANGED <<outcomes, doubt>>
        /\ clearing = None /\ drain = "empty" /\ At("dropping") = {}
    BY <1>2 DEF Exit
  <2>2. At("queued") = {} /\ Holding = {}
    BY <2>1, <1>t DEF RunInv, DrainedStaysClosed, DrainedStaysEmpty
  <2>3. \A e \in Delivery : stage[e] \in {"unsent", "refused", "released", "lost"}
    BY <2>1, <2>2, <1>t DEF TypeOK, Stage, At, Holding, Settled
  <2>4. \A e \in Delivery \ doubt : record[MessageOf[e]] = e => outcomes[e] = <<>>
    <3>1. SUFFICES ASSUME NEW e \in Delivery \ doubt, record[MessageOf[e]] = e
                   PROVE  outcomes[e] = <<>>
      OBVIOUS
    <3>2. stage[e] \in {"released", "lost"} /\ clearing # e
      BY <2>1, <2>3, <1>w, <3>1, PipelineAssumption DEF PastUpsert, Registered
    <3> QED
      BY <3>1, <3>2, <1>t DEF AnswerInv, LeftBehindIsUnanswered
  <2> QED
    BY <2>1, <2>4, <1>w, <1>t, <1>t2, DeathOutcome DEF Answerable
<1>3. ASSUME NEW d \in Delivery, MergedFails(d)
      PROVE  OutcomeInv'
  <2>1. /\ stage[d] = "merged" /\ ProcessDies
        /\ doubt' = doubt \cup Unremoved(outcomes)
        /\ outcomes' = outcomes \/ Receives(d, "no_reply")
    BY <1>3 DEF MergedFails
  <2>2. /\ record[MessageOf[d]] # d
        /\ d \notin doubt => outcomes[d] = <<>>
    BY <2>1, <1>w DEF PastUpsert, Registered, Answerable
  <2>3. /\ \A e \in Delivery \ {d} : outcomes'[e] = outcomes[e]
        /\ outcomes[d] # <<>> => outcomes'[d] # <<>>
        /\ d \notin doubt => Len(outcomes'[d]) <= 1
    <3>1. Len(<<>>) = 0
      BY EmptySeq
    <3>2. Receives(d, "no_reply") =>
            /\ outcomes'[d] # <<>>
            /\ Len(outcomes'[d]) = Len(outcomes[d]) + 1
            /\ \A e \in Delivery \ {d} : outcomes'[e] = outcomes[e]
      BY <1>t, ReceivesOne DEF Outcome
    <3> QED
      BY <2>1, <2>2, <3>1, <3>2
  <2>4. \A e \in Delivery \ doubt' : record[MessageOf[e]] = e => outcomes'[e] = <<>>
    BY <2>1, <2>2, <2>3 DEF Unremoved
  <2>5. \A e \in Delivery \ doubt' :
           stage[e] \in {"unsent", "refused"} => outcomes'[e] = <<>>
    BY <2>1, <2>3, <1>w DEF Answerable
  <2>6. /\ \A e \in Delivery \ doubt' : Len(outcomes'[e]) <= 1
        /\ \A e \in Delivery : outcomes[e] # <<>> => outcomes'[e] # <<>>
    BY <2>1, <2>3, <1>w
  <2> QED
    BY <2>1, <2>4, <2>5, <2>6, <1>t, <1>t2, DeathOutcome
<1> QED
  BY <1>1, <1>2, <1>3

(* The shutdown, the restart and the reconciliation. *)
LEMMA ProcessOutcome ==
    ASSUME OutcomeInv, StopAccepting \/ DrainSeesEmpty \/ Restart \/ Reconcile
    PROVE  OutcomeInv'
<1>t. TypeOK /\ SlotInv /\ RunInv /\ AnswerInv
  BY DEF OutcomeInv, SlotInv
<1>t2. SlotInv' /\ TypeOK'
  BY <1>t, OtherSlots DEF SlotInv
<1> USE DEF runVars, diskVars, lifeVars, historyVars
<1>s. UNCHANGED <<stage, control, tracked, aborted>>
  BY DEF StopAccepting, DrainSeesEmpty, Restart, Reconcile, ReconcileAnswered,
         ReconcileFails, ReconcileClears, ReconcileClearFails
<1>1. RunInv'
  <2>1. ReleasedIsUntracked' /\ ChatsOnly' /\ AbortedFail'
    BY <1>s, <1>t DEF RunInv, ReleasedIsUntracked, ChatsOnly, AbortedFail, IsChat, Kd
  <2>2. DrainedStaysClosed'
    <3>1. At("queued")' = At("queued") /\ Holding' = Holding
      BY <1>s DEF At, Holding
    <3>2. CASE StopAccepting
      BY <3>2 DEF StopAccepting, DrainedStaysClosed, DrainedStaysEmpty
    <3>3. CASE DrainSeesEmpty
      <4>1. Holding = {}
        BY <3>3, <1>t, Finite, FS_EmptySet
        DEF DrainSeesEmpty, SlotInv, SlotAccounting, Holding
      <4> QED
        BY <3>1, <3>3, <4>1, <1>t
        DEF DrainSeesEmpty, RunInv, DrainedStaysClosed, DrainedStaysEmpty
    <3>4. CASE Restart \/ Reconcile
      <4>1. UNCHANGED <<drain, accepting>>
        BY <3>4 DEF Restart, Reconcile, ReconcileAnswered, ReconcileFails,
                    ReconcileClears, ReconcileClearFails
      <4> QED
        BY <3>1, <4>1, <1>t DEF RunInv, DrainedStaysClosed, DrainedStaysEmpty
    <3> QED
      BY <3>2, <3>3, <3>4
  <2> QED
    BY <2>1, <2>2 DEF RunInv
<1>2. CASE StopAccepting \/ DrainSeesEmpty
  <2>1. UNCHANGED <<stage, outcomes, doubt, record, written, todo, clearing, up>>
    BY <1>2 DEF StopAccepting, DrainSeesEmpty
  <2>2. AnswerInv'
    BY <2>1, <1>t DEF AnswerInv, UnansweredBefore, AnsweredAfter, OneOutcome,
       RecordsAreWritten, LeftBehindIsUnanswered, DeadIsIdle,
       RecordedUntilAnswered, Sole
  <2> QED
    BY <2>2, <1>1, <1>t2 DEF OutcomeInv
<1>3. CASE Restart
  <2>1. /\ ~up /\ up' /\ todo' = {e \in Delivery : record[MessageOf[e]] = e}
        /\ UNCHANGED <<stage, outcomes, doubt, record, written, clearing>>
    BY <1>3 DEF Restart
  <2>2. clearing = None /\ \A e \in Delivery : stage[e] \in Settled
    BY <2>1, <1>t DEF AnswerInv, DeadIsIdle
  <2>3. \A e \in todo' : stage[e] \in {"released", "lost"}
    BY <2>1, <2>2, <1>t, PipelineAssumption
    DEF AnswerInv, RecordsAreWritten, PastUpsert, Registered, Settled
  <2>4. \A e \in todo' \ doubt : outcomes[e] = <<>>
    BY <2>1, <2>2, <2>3, <1>t, PipelineAssumption
    DEF AnswerInv, LeftBehindIsUnanswered
  <2>5. LeftBehindIsUnanswered'
    BY <2>1, <2>3, <2>4, <1>t DEF AnswerInv, LeftBehindIsUnanswered
  <2>6. AnswerInv'
    BY <2>1, <2>5, <1>t DEF AnswerInv, UnansweredBefore, AnsweredAfter, OneOutcome,
       RecordsAreWritten, DeadIsIdle, RecordedUntilAnswered, Sole
  <2> QED
    BY <2>6, <1>1, <1>t2 DEF OutcomeInv
<1>4. ASSUME NEW d \in Delivery, NEW o \in Outcome,
             ReconcileAnswered(d, o) \/ ReconcileFails(d, o)
      PROVE  OutcomeInv'
  <2>1. /\ clearing = None /\ d \in todo
        /\ UNCHANGED <<stage, record, written, up>>
        /\ doubt \subseteq doubt' /\ todo' \subseteq todo \ {d}
        /\ \/ clearing' = d /\ Receives(d, o)
           \/ clearing' = None /\ UNCHANGED outcomes
           \/ clearing' = None /\ Receives(d, o) /\ d \in doubt'
    BY <1>4 DEF ReconcileAnswered, ReconcileFails, Oldest
  <2>2. /\ stage[d] \in {"released", "lost"} /\ up
        /\ d \notin doubt => outcomes[d] = <<>>
    BY <2>1, <1>t DEF AnswerInv, LeftBehindIsUnanswered, DeadIsIdle
  <2>3. /\ \A e \in Delivery \ {d} : outcomes'[e] = outcomes[e]
        /\ outcomes[d] # <<>> => outcomes'[d] # <<>>
        /\ d \notin doubt' => Len(outcomes'[d]) <= 1
        /\ clearing' = d => outcomes'[d] # <<>>
        /\ d \notin doubt' /\ clearing' = None => outcomes'[d] = <<>>
    <3>1. Len(<<>>) = 0 /\ d # None
      BY EmptySeq, PipelineAssumption
    <3>2. Receives(d, o) =>
            /\ outcomes'[d] # <<>>
            /\ Len(outcomes'[d]) = Len(outcomes[d]) + 1
            /\ \A e \in Delivery \ {d} : outcomes'[e] = outcomes[e]
      BY <1>t, ReceivesOne
    <3> QED
      BY <2>1, <2>2, <3>1, <3>2
  <2>4. UnansweredBefore' /\ AnsweredAfter' /\ DeadIsIdle'
    BY <2>1, <2>2, <2>3, <1>t
    DEF AnswerInv, UnansweredBefore, AnsweredAfter, DeadIsIdle, Answerable
  <2>5. OneOutcome' /\ RecordsAreWritten'
    BY <2>1, <2>3, <1>t DEF AnswerInv, OneOutcome, RecordsAreWritten
  <2>6. LeftBehindIsUnanswered'
    BY <2>1, <2>2, <2>3, <1>t, PipelineAssumption
    DEF AnswerInv, LeftBehindIsUnanswered, TypeOK
  <2>7. RecordedUntilAnswered'
    BY <2>1, <2>3, <1>t DEF AnswerInv, RecordedUntilAnswered, Sole, TypeOK
  <2> QED
    BY <2>4, <2>5, <2>6, <2>7, <1>1, <1>t2 DEF OutcomeInv, AnswerInv
<1>5. CASE ReconcileClears
  <2> DEFINE c == clearing
  <2>1. /\ c \in Delivery /\ clearing' = None /\ MessageOf[c] \in Message
        /\ record' = [record EXCEPT ![MessageOf[c]] = None]
        /\ record \in [Message -> Delivery \cup {None}]
        /\ UNCHANGED <<stage, outcomes, doubt, written, up, todo>>
    BY <1>5, <1>t, PipelineAssumption DEF ReconcileClears, TypeOK
  <2>2. outcomes[c] # <<>>
    BY <1>5, <1>t DEF AnswerInv, AnsweredAfter, ReconcileClears
  <2>3. UnansweredBefore' /\ AnsweredAfter' /\ OneOutcome' /\ DeadIsIdle'
    BY <2>1, <1>t DEF AnswerInv, UnansweredBefore, AnsweredAfter, OneOutcome, DeadIsIdle
  <2>4. RecordsAreWritten'
    BY <2>1, <1>t DEF AnswerInv, RecordsAreWritten
  <2>5. LeftBehindIsUnanswered'
    BY <2>1, <1>t, PipelineAssumption DEF AnswerInv, LeftBehindIsUnanswered
  <2>6. RecordedUntilAnswered'
    BY <2>1, <2>2, <1>t, PipelineAssumption
    DEF AnswerInv, RecordedUntilAnswered, Sole, TypeOK
  <2> QED
    BY <2>3, <2>4, <2>5, <2>6, <1>1, <1>t2 DEF OutcomeInv, AnswerInv
<1>6. CASE ReconcileClearFails
  <2>1. /\ clearing' = None
        /\ doubt' = doubt \cup {clearing}
        /\ UNCHANGED <<stage, outcomes, record, written, up, todo>>
    BY <1>6 DEF ReconcileClearFails
  <2>2. UnansweredBefore' /\ AnsweredAfter' /\ OneOutcome' /\ DeadIsIdle'
    BY <2>1, <1>t DEF AnswerInv, UnansweredBefore, AnsweredAfter, OneOutcome, DeadIsIdle
  <2>3. RecordsAreWritten' /\ RecordedUntilAnswered'
    BY <2>1, <1>t DEF AnswerInv, RecordsAreWritten, RecordedUntilAnswered, Sole
  <2>4. LeftBehindIsUnanswered'
    BY <2>1, <1>t DEF AnswerInv, LeftBehindIsUnanswered
  <2> QED
    BY <2>2, <2>3, <2>4, <1>1, <1>t2 DEF OutcomeInv, AnswerInv
<1> QED
  BY <1>2, <1>3, <1>4, <1>5, <1>6 DEF Reconcile

-----------------------------------------------------------------------------
(* The inductive step, and what follows from it. *)
LEMMA NextOutcome == OutcomeInv /\ [Next]_vars => OutcomeInv'
<1> SUFFICES ASSUME OutcomeInv, [Next]_vars PROVE OutcomeInv'
  OBVIOUS
<1>1. CASE UNCHANGED vars
  <2>1. SlotInv'
    BY <1>1, NextSlots DEF OutcomeInv
  <2>2. RunInv'
    BY <1>1 DEF OutcomeInv, RunInv, ReleasedIsUntracked, ChatsOnly, AbortedFail,
       DrainedStaysClosed, DrainedStaysEmpty, At, Holding, IsChat, Kd, vars
  <2>3. AnswerInv'
    BY <1>1 DEF OutcomeInv, AnswerInv, UnansweredBefore, AnsweredAfter, OneOutcome,
       RecordsAreWritten, LeftBehindIsUnanswered, DeadIsIdle,
       RecordedUntilAnswered, Sole, vars
  <2> QED
    BY <2>1, <2>2, <2>3 DEF OutcomeInv
<1>2. CASE Next
  BY <1>2, PushOutcome, WorkOutcome, AbortOutcome, FlushOutcome, DeathsOutcome,
     ProcessOutcome DEF Next
<1> QED
  BY <1>1, <1>2

(* No delivery gets a second terminal outcome, whatever is preempted,       *)
(* batched, aborted, timed out, failed, or reconciled after a restart,      *)
(* unless a lost answer, a record not removed or a crash left the relay in  *)
(* doubt about the first.                                                   *)
THEOREM AtMostOneOutcome == Spec => []OneOutcome
  BY InitOutcome, NextOutcome, PTL DEF Spec, OutcomeInv, AnswerInv

(* A chat task once recorded keeps its record until the backend has an      *)
(* outcome for it, across failed callbacks, crashes and reconciliations.    *)
THEOREM RecordsOutliveTasks == Spec => []RecordedUntilAnswered
  BY InitOutcome, NextOutcome, PTL DEF Spec, OutcomeInv, AnswerInv

(* No path out of a run leaves a transport correlation or a task control    *)
(* entry behind.                                                            *)
THEOREM RegistryIsClean == Spec => []ReleasedIsUntracked
  BY InitOutcome, NextOutcome, PTL DEF Spec, OutcomeInv, RunInv

(* A shutdown that saw the queue drained leaves no work behind. *)
THEOREM ShutdownIsDrained == Spec => []DrainedStaysEmpty
  BY InitOutcome, NextOutcome, PTL DEF Spec, OutcomeInv, RunInv, DrainedStaysClosed

(* What is sent for an aborted task is an error. *)
LEMMA AbortedStep ==
    ASSUME OutcomeInv, [Next]_vars, NEW d \in aborted \ todo
    PROVE  outcomes'[d] \in {outcomes[d], Append(outcomes[d], "error")}
<1>t. TypeOK
  BY DEF OutcomeInv, SlotInv
<1>d. /\ d \in Delivery /\ d \notin todo
      /\ stage[d] \in {"aborting", "failing", "removing", "released", "lost"}
      /\ outcomes \in [Delivery -> Seq(Outcome)]
  BY DEF OutcomeInv, SlotInv, TypeOK, RunInv, AbortedFail
<1>r. \A e \in Delivery, o \in Outcome : Receives(e, o) =>
         outcomes'[d] = IF e = d THEN Append(outcomes[d], o) ELSE outcomes[d]
  BY <1>d DEF Receives
<1>1. ASSUME NEW e \in Delivery, Work(e)
      PROVE  outcomes'[d] \in {outcomes[d], Append(outcomes[d], "error")}
  <2>1. CASE DropAnswered(e) \/ DropFails(e)
    BY <2>1, <1>d, <1>r DEF DropAnswered, DropFails, DropOutcome, Outcome
  <2>2. CASE MergedAnswered(e) \/ MergedFails(e)
    BY <2>2, <1>d, <1>r DEF MergedAnswered, MergedFails, Outcome
  <2>3. CASE Answered(e) \/ AnswerFails(e)
    BY <2>3, <1>d, <1>r DEF Answered, AnswerFails, RunOutcome
  <2>4. CASE ErrorAnswered(e) \/ ErrorFails(e)
    BY <2>4, <1>d, <1>r DEF ErrorAnswered, ErrorFails, Outcome
  <2>5. CASE UNCHANGED outcomes
    BY <2>5
  <2> QED
    BY <1>1, <2>1, <2>2, <2>3, <2>4, <2>5
    DEF Work, BatchReady, OtherWork, EventDone, WriteRecord, StartRun, RunEnds,
        RunThrows,
        TimeOut, AbortDone, Delivered, DeliveryFails, CloseRun, RemoveRecord,
        RemoveFails
<1>2. CASE Reconcile
  <2>1. ASSUME NEW e \in Delivery, NEW o \in Outcome,
               ReconcileAnswered(e, o) \/ ReconcileFails(e, o)
        PROVE  outcomes'[d] = outcomes[d]
    BY <2>1, <1>d, <1>r DEF ReconcileAnswered, ReconcileFails, Oldest
  <2> QED
    BY <1>2, <2>1 DEF Reconcile, ReconcileClears, ReconcileClearFails
<1>3. CASE UNCHANGED outcomes
  BY <1>3
<1> QED
  BY <1>1, <1>2, <1>3
  DEF Next, Push, AbortTask, FlushBatch, StopAccepting, DrainSeesEmpty, Exit,
      Crash, Restart, vars

(* A task that was preempted, aborted or timed out is never answered with   *)
(* the reply its run may still produce.                                     *)
THEOREM AbortedTasksNeverReply == Spec => AbortedNeverReplies
<1>1. OutcomeInv /\ [Next]_vars =>
        [\A d \in aborted \ todo :
           outcomes'[d] \in {outcomes[d], Append(outcomes[d], "error")}]_vars
  BY AbortedStep
<1> QED
  BY <1>1, InitOutcome, NextOutcome, PTL DEF Spec, AbortedNeverReplies

-----------------------------------------------------------------------------
(* Batches and supersession.                                                *)

BatchInv == TypeOK /\ NewestTurnWaits /\ BatchesHaveTargets

(* A step that queues and merges nothing, leaves what has settled alone,    *)
(* and after which no merged item waits for a target that has gone on.      *)
Entered == {"unsent", "refused", "queued", "merged"}

Quiet ==
    /\ UNCHANGED <<before, mergedInto>>
    /\ \A e \in Delivery : stage'[e] \in Entered \/ stage[e] \in Settled => stage'[e] = stage[e]
    /\ \A t \in Delivery : stage[t] = "flushing" /\ stage'[t] # "flushing"
                              => \A e \in Delivery : mergedInto[e] = t => stage'[e] # "merged"

LEMMA QuietKeeps ==
    ASSUME BatchInv, TypeOK', Quiet
    PROVE  BatchInv'
<1>1. NewestTurnWaits'
  BY DEF BatchInv, Quiet, Entered, NewestTurnWaits, At, Earlier
<1>2. BatchesHaveTargets'
  <2> SUFFICES ASSUME NEW d \in Delivery, stage'[d] = "merged"
               PROVE  mergedInto'[d] # None /\ stage'[mergedInto'[d]] = "flushing" /\ <<d, mergedInto'[d]>> \in before'
    BY DEF BatchesHaveTargets, At, Earlier
  <2>1. stage[d] = "merged" /\ mergedInto[d] \in Delivery \cup {None}
    BY DEF Quiet, Entered, BatchInv, TypeOK
  <2>2. mergedInto[d] # None /\ stage[mergedInto[d]] = "flushing" /\ <<d, mergedInto[d]>> \in before
    BY <2>1 DEF BatchInv, BatchesHaveTargets, At, Earlier
  <2> QED
    BY <2>1, <2>2 DEF Quiet
<1> QED
  BY <1>1, <1>2 DEF BatchInv

(* One delivery goes on, and others leave the queue for their processor.    *)
LEMMA MovesQuiet ==
    ASSUME TypeOK, NEW d \in Delivery, NEW s \in Stage \ Entered, Moves(d, s),
           UNCHANGED <<before, mergedInto>>, stage[d] \notin Settled,
           stage[d] = "flushing" => MergedInto(d) = {}
    PROVE  Quiet
<1>1. \A e \in Delivery : stage'[e] \in Entered \/ stage[e] \in Settled => stage'[e] = stage[e]
  BY DEF Moves, Entered, Settled
<1>2. ASSUME NEW t \in Delivery, stage[t] = "flushing", stage'[t] # "flushing",
             NEW e \in Delivery, mergedInto[e] = t
      PROVE  stage'[e] # "merged"
  <2>1. t = d
    BY <1>2 DEF Moves
  <2>2. stage[e] # "merged"
    BY <1>2, <2>1 DEF MergedInto, At
  <2> QED
    BY <1>1, <2>2 DEF Entered
<1> QED
  BY <1>1, <1>2 DEF Quiet

LEMMA DeathQuiet ==
    ASSUME TypeOK, ProcessDies
    PROVE  Quiet
BY DEF ProcessDies, Quiet, Entered, TypeOK, Settled

(* The steps of one delivery.                                               *)
LEMMA WorkQuiet ==
    ASSUME TypeOK, NEW d \in Delivery, Work(d)
    PROVE  Quiet
<1>1. CASE MergedFails(d)
  BY <1>1, DeathQuiet DEF MergedFails
<1>2. CASE DropAnswered(d) \/ DropFails(d) \/ BatchReady(d) \/ OtherWork(d) \/ WriteRecord(d) \/ StartRun(d)
  <2>1. PICK s \in Stage \ Entered : Go(d, s)
    BY <1>2 DEF DropAnswered, DropFails, BatchReady, OtherWork, WriteRecord, StartRun, Stage, HoldsSlot,
                Registered, Settled, Entered
  <2>2. UNCHANGED <<before, mergedInto>> /\ (stage[d] = "flushing" => MergedInto(d) = {})
        /\ stage[d] \notin Settled
    BY <1>2 DEF DropAnswered, DropFails, BatchReady, OtherWork, WriteRecord, StartRun, runVars, Settled
  <2> QED
    BY <2>1, <2>2, GoMoves, MovesQuiet
<1>3. CASE RunEnds(d) \/ RunThrows(d) \/ TimeOut(d) \/ AbortDone(d) \/ Delivered(d) \/ DeliveryFails(d)
           \/ Answered(d) \/ AnswerFails(d) \/ CloseRun(d) \/ ErrorAnswered(d)
  <2>1. PICK s \in Stage \ Entered : Go(d, s)
    BY <1>3 DEF RunEnds, RunThrows, TimeOut, AbortDone, Delivered, DeliveryFails, Answered, AnswerFails,
                CloseRun, ErrorAnswered, Stage, HoldsSlot, Registered, Settled, Entered
  <2>2. UNCHANGED <<before, mergedInto>> /\ stage[d] \notin Settled \cup {"flushing"}
    <3>1. CASE RunEnds(d) \/ RunThrows(d) \/ TimeOut(d) \/ AbortDone(d) \/ Delivered(d) \/ DeliveryFails(d)
      BY <3>1 DEF RunEnds, RunThrows, TimeOut, AbortDone, Delivered, DeliveryFails, runVars, Settled
    <3>2. CASE Answered(d) \/ AnswerFails(d) \/ CloseRun(d) \/ ErrorAnswered(d)
      <4>1. UNCHANGED <<before, mergedInto>>
        BY <3>2 DEF Answered, AnswerFails, CloseRun, ErrorAnswered, runVars
      <4>2. CASE Answered(d)
        BY <4>1, <4>2 DEF Answered, RunOutcome, Settled
      <4>3. CASE AnswerFails(d) \/ CloseRun(d) \/ ErrorAnswered(d)
        BY <4>1, <4>3 DEF AnswerFails, CloseRun, ErrorAnswered, Settled
      <4> QED
        BY <3>2, <4>1, <4>2, <4>3
    <3> QED
      BY <1>3, <3>1, <3>2
  <2> QED
    BY <2>1, <2>2, GoMoves, MovesQuiet
<1>4. CASE MergedAnswered(d) \/ EventDone(d) \/ ErrorFails(d) \/ RemoveRecord(d) \/ RemoveFails(d)
  <2>1. Release(d) /\ UNCHANGED <<before, mergedInto>> /\ stage[d] \notin Settled \cup {"flushing"}
    BY <1>4 DEF MergedAnswered, EventDone, ErrorFails, RemoveRecord, RemoveFails, runVars, Settled
  <2>2. "released" \in Stage \ Entered
    BY DEF Stage, Settled, Entered
  <2> QED
    BY <2>1, <2>2, ReleaseMoves, MovesQuiet
<1> QED
  BY <1>1, <1>2, <1>3, <1>4 DEF Work

(* A batch is flushed into its newest item, and that of a batch in the      *)
(* process of being flushed is not one of the new batch.                    *)
LEMMA FlushKeeps ==
    ASSUME BatchInv, TypeOK', NEW s \in Session, FlushBatch(s)
    PROVE  BatchInv'
<1> DEFINE items == {d \in At("batching") : Sn(d) = s}
<1>1. PICK t \in Latest(items) :
        /\ stage' = [d \in Delivery |-> IF d \notin items THEN stage[d]
                                        ELSE IF items = {t} THEN "starting"
                                        ELSE IF d = t THEN "flushing" ELSE "merged"]
        /\ mergedInto' = [d \in Delivery |-> IF d \in items \ {t} THEN t ELSE mergedInto[d]]
        /\ before' = before
  BY DEF FlushBatch
<1>2. items \subseteq Delivery /\ (\A d \in items : stage[d] = "batching")
      /\ t \in items /\ (\A d \in items \ {t} : <<d, t>> \in before)
  BY <1>1 DEF At, Latest, Earlier
<1> HIDE DEF items
<1>3. NewestTurnWaits'
  BY <1>1, <1>2 DEF BatchInv, NewestTurnWaits, At, Earlier
<1>4. BatchesHaveTargets'
  <2> SUFFICES ASSUME NEW d \in Delivery, stage'[d] = "merged"
               PROVE  mergedInto'[d] # None /\ stage'[mergedInto'[d]] = "flushing" /\ <<d, mergedInto'[d]>> \in before'
    BY DEF BatchesHaveTargets, At, Earlier
  <2>1. CASE d \in items
    <3>1. d # t /\ items # {t} /\ mergedInto'[d] = t
      BY <1>1, <1>2, <2>1
    <3> QED
      BY <1>1, <1>2, <2>1, <3>1, PipelineAssumption
  <2>2. CASE d \notin items
    <3>1. stage[d] = "merged" /\ mergedInto'[d] = mergedInto[d] /\ mergedInto[d] \in Delivery \cup {None}
      BY <1>1, <2>2 DEF BatchInv, TypeOK
    <3>2. mergedInto[d] # None /\ stage[mergedInto[d]] = "flushing" /\ <<d, mergedInto[d]>> \in before
      BY <3>1 DEF BatchInv, BatchesHaveTargets, At, Earlier
    <3>3. mergedInto[d] \notin items
      BY <1>2, <3>2
    <3> QED
      BY <1>1, <3>1, <3>2, <3>3
  <2> QED
    BY <2>1, <2>2
<1> QED
  BY <1>3, <1>4 DEF BatchInv

(* A push of a user chat drops what waited in its session; a later one finds *)
(* it in the order.                                                         *)
LEMMA PushKeeps ==
    ASSUME BatchInv, TypeOK', NEW d \in Delivery, Push(d)
    PROVE  BatchInv'
<1> DEFINE st == AfterPreemption(d)
           B == before \cup ({e \in Delivery : stage[e] # "unsent"} \X {d})
<1>1. TypeOK /\ stage[d] = "unsent" /\ before' = B /\ UNCHANGED mergedInto
  BY DEF Push, runVars, BatchInv
<1>2. /\ st \in [Delivery -> Stage] /\ st[d] = "unsent"
      /\ \A e \in Delivery : \/ st[e] = stage[e]
                             \/ stage[e] \in {"queued", "running"} /\ st[e] \in {"dropping", "aborting"}
      /\ IsUserChat(d) => \A e \in Delivery :
                             st[e] = "queued" /\ Sn(e) = Sn(d) /\ IsChat(e) => MessageOf[e] = MessageOf[d]
  BY <1>1 DEF AfterPreemption, Preempt, Dropped, Preempted, At, TypeOK, Stage, HoldsSlot, Registered
<1> HIDE DEF st
<1>3. \A e \in Delivery \ {d} : \/ stage'[e] = st[e]
                                \/ st[e] = "queued" /\ stage'[e] \in {"batching", "starting"}
  <2>1. CASE accepting /\ HasRoom(st)
    <3>1. Pump([st EXCEPT ![d] = "queued"], B, inFlight)
      BY <2>1 DEF Push, st
    <3>2. [st EXCEPT ![d] = "queued"] \in [Delivery -> Stage]
      BY <1>2 DEF Stage
    <3> QED
      BY <1>2, <3>1, <3>2, PumpMoves
  <2>2. CASE ~(accepting /\ HasRoom(st))
    BY <1>2, <2>2 DEF Push, st
  <2> QED
    BY <2>1, <2>2
<1>4. stage'[d] \in {"queued", "batching", "starting", "refused"}
  <2>1. CASE accepting /\ HasRoom(st)
    <3>1. Pump([st EXCEPT ![d] = "queued"], B, inFlight)
      BY <2>1 DEF Push, st
    <3>2. [st EXCEPT ![d] = "queued"] \in [Delivery -> Stage]
      BY <1>2 DEF Stage
    <3> QED
      BY <1>2, <3>1, <3>2, PumpMoves
  <2>2. CASE ~(accepting /\ HasRoom(st))
    BY <1>2, <2>2 DEF Push, st
  <2> QED
    BY <2>1, <2>2
<1>5. NewestTurnWaits'
  <2> SUFFICES ASSUME NEW x \in Delivery, NEW e \in Delivery, stage'[x] = "queued", stage'[e] = "queued",
                      IsUserChat(e), IsChat(x), Sn(x) = Sn(e), MessageOf[x] # MessageOf[e]
               PROVE  <<e, x>> \in B /\ IsSystem(x)
    BY <1>1 DEF NewestTurnWaits, At, Earlier
  <2>1. x # d => stage[x] = "queued" /\ st[x] = "queued"
    BY <1>2, <1>3
  <2>2. e # d => stage[e] = "queued" /\ st[e] = "queued"
    BY <1>2, <1>3
  <2>3. CASE x # d /\ e # d
    BY <2>1, <2>2, <2>3 DEF BatchInv, NewestTurnWaits, At, Earlier
  <2>4. CASE e = d
    BY <1>2, <2>1, <2>4
  <2>5. CASE x = d /\ e # d
    <3>1. <<e, x>> \in B
      BY <2>2, <2>5
    <3>2. ~IsUserChat(d)
      BY <1>2, <2>2, <2>5 DEF IsUserChat, IsChat
    <3>3. Kd(d) \in Kind
      BY PipelineAssumption DEF Kd
    <3> QED
      BY <2>5, <3>1, <3>2, <3>3 DEF IsUserChat, IsChat, IsSystem, Kind
  <2> QED
    BY <2>3, <2>4, <2>5
<1>6. BatchesHaveTargets'
  <2> SUFFICES ASSUME NEW e \in Delivery, stage'[e] = "merged"
               PROVE  mergedInto[e] # None /\ stage'[mergedInto[e]] = "flushing" /\ <<e, mergedInto[e]>> \in B
    BY <1>1 DEF BatchesHaveTargets, At, Earlier
  <2>1. stage[e] = "merged" /\ mergedInto[e] \in Delivery \cup {None}
    BY <1>1, <1>2, <1>3, <1>4 DEF TypeOK
  <2>2. mergedInto[e] # None /\ stage[mergedInto[e]] = "flushing" /\ <<e, mergedInto[e]>> \in before
    BY <2>1 DEF BatchInv, BatchesHaveTargets, At, Earlier
  <2> QED
    BY <1>1, <1>2, <1>3, <2>1, <2>2
<1> QED
  BY <1>5, <1>6 DEF BatchInv

(* All but a push and a flush are quiet.                                    *)
LEMMA NextQuiet ==
    ASSUME BatchInv, [Next]_vars
    PROVE  \/ Quiet
           \/ \E d \in Delivery : Push(d)
           \/ \E s \in Session : FlushBatch(s)
<1>1. CASE UNCHANGED vars
  BY <1>1 DEF vars, Quiet
<1>2. ASSUME NEW m \in Message, AbortTask(m)
      PROVE  Quiet
  <2>1. control[m] \in Delivery /\ Go(control[m], "aborting") /\ stage[control[m]] = "running"
        /\ UNCHANGED <<before, mergedInto>> /\ TypeOK
    BY <1>2 DEF AbortTask, runVars, BatchInv, TypeOK
  <2>2. "aborting" \in Stage \ Entered /\ "running" \notin Settled
    BY DEF Stage, HoldsSlot, Registered, Entered, Settled
  <2> QED
    BY <2>1, <2>2, GoMoves, MovesQuiet
<1>3. ASSUME StopAccepting \/ DrainSeesEmpty \/ Restart \/ Reconcile
      PROVE  Quiet
  BY <1>3 DEF StopAccepting, DrainSeesEmpty, Restart, Reconcile, ReconcileAnswered, ReconcileFails,
              ReconcileClears, ReconcileClearFails, runVars, Quiet
<1>4. ASSUME Crash \/ Exit
      PROVE  Quiet
  BY <1>4, DeathQuiet DEF Crash, Exit, BatchInv
<1> QED
  BY <1>1, <1>2, <1>3, <1>4, WorkQuiet DEF Next, BatchInv

LEMMA NextKeeps ==
    ASSUME BatchInv, TypeOK', [Next]_vars
    PROVE  BatchInv'
  BY NextQuiet, QuietKeeps, PushKeeps, FlushKeeps

LEMMA InitBatch == Init => BatchInv
<1>1. Init => NewestTurnWaits /\ BatchesHaveTargets
  BY DEF Init, NewestTurnWaits, BatchesHaveTargets, At
<1> QED
  BY <1>1, InitSlots DEF BatchInv, SlotInv

LEMMA BatchInvariant == Spec => []BatchInv
<1>1. BatchInv /\ TypeOK' /\ [Next]_vars => BatchInv'
  BY NextKeeps
<1> QED
  BY <1>1, InitBatch, TypeCorrect, PTL DEF Spec

(* Supersession: of one session at most one user message waits in the       *)
(* queue, and no reminder waits that was pushed before it, whatever is      *)
(* preempted, refused, aborted or lost meanwhile.                           *)
THEOREM NewestTurnIsKept == Spec => []NewestTurnWaits
  BY BatchInvariant, PTL DEF BatchInv

(* The merged items of a batch wait for a target that still waits for them  *)
(* and was pushed after them: no batch is stranded.                         *)
THEOREM BatchesAreServed == Spec => []BatchesHaveTargets
  BY BatchInvariant, PTL DEF BatchInv

-----------------------------------------------------------------------------
(* The pipeline implements the queue.                                       *)

(* Only deliveries that have been pushed stand in the order.                *)
OrderInv == \A a, b \in Delivery : <<a, b>> \in before => stage[a] # "unsent" /\ stage[b] # "unsent"

(* The queue does not notice.                                               *)
Unseen ==
    /\ UNCHANGED <<before, inFlight, accepting>>
    /\ \A e \in Delivery : /\ stage'[e] = "queued" <=> stage[e] = "queued"
                           /\ stage'[e] \in HoldsSlot <=> stage[e] \in HoldsSlot

LEMMA SameCardinality == \A S : Queue!Cardinality(S) = Cardinality(S)
BY DEF Queue!Cardinality, Cardinality

LEMMA UnseenStutters == Unseen => UNCHANGED Queue!vars
<1> SUFFICES ASSUME Unseen PROVE UNCHANGED Queue!vars
  OBVIOUS
<1>1. At("queued")' = At("queued") /\ Holding' = Holding
  BY DEF Unseen, At, Holding
<1>2. (before \cap (At("queued") \X At("queued")))' = before \cap (At("queued") \X At("queued"))
  BY <1>1 DEF Unseen
<1> QED
  BY <1>1, <1>2 DEF Unseen, Queue!vars

LEMMA GoUnseen ==
    ASSUME TypeOK, NEW d \in Delivery, NEW s, Go(d, s), UNCHANGED <<before, accepting>>,
           stage[d] # "queued", s # "queued", stage[d] \in HoldsSlot <=> s \in HoldsSlot
    PROVE  Unseen
BY DEF TypeOK, Go, Unseen

LEMMA ReleaseSettles ==
    ASSUME TypeOK, NEW d \in Delivery, stage[d] \in HoldsSlot, Release(d), UNCHANGED <<before, accepting>>
    PROVE  Queue!Next
<1> DEFINE W == At("queued")
           B == before \cap (W \X W)
           n == IF inFlight = 0 THEN 0 ELSE inFlight - 1
           st == [stage EXCEPT ![d] = "released"]
<1>1. \A e \in Delivery : st[e] = IF e = d THEN "released" ELSE stage[e]
  BY DEF TypeOK
<1>2. {e \in Delivery : st[e] = "queued"} = W
  BY <1>1 DEF At, HoldsSlot, Registered
<1>3. PICK started \in SUBSET W :
        /\ Cardinality(started) = Least(Concurrency - n, Cardinality(W))
        /\ \A x \in started, y \in W \ started : <<x, y>> \in before
        /\ stage' = [e \in Delivery |-> IF e \in started THEN Entry(e) ELSE st[e]]
        /\ inFlight' = n + Cardinality(started)
  <2> HIDE DEF st
  <2> QED
    BY <1>2 DEF Release, Pump, st
<1>4. W' = W \ started
  BY <1>1, <1>3 DEF At, Entry, HoldsSlot, Registered
<1>5. Holding' = (Holding \ {d}) \cup started
  BY <1>1, <1>3 DEF At, Holding, Entry, HoldsSlot, Registered
<1>6. B' = B \cap (W' \X W')
  BY <1>4
<1>7. \A x \in started, y \in W \ started : <<x, y>> \in B
  BY <1>3
<1>8. d \in Holding
  BY DEF Holding
<1> HIDE DEF W, B, n
<1>9. Queue!Pump(W, B, Holding \ {d}, n)
  BY <1>3, <1>4, <1>5, <1>6, <1>7, SameCardinality DEF Queue!Pump, Queue!Least, Least, W, B
<1> QED
  BY <1>8, <1>9 DEF Queue!Next, Queue!Settle, W, B, n

LEMMA DeathResets ==
    ASSUME ProcessDies
    PROVE  Queue!Next
<1>1. At("queued")' = {} /\ Holding' = {} /\ inFlight' = 0 /\ accepting' = TRUE
  BY DEF ProcessDies, At, Holding, Settled, HoldsSlot, Registered
<1>2. (before \cap (At("queued") \X At("queued")))' = {}
  BY <1>1
<1> QED
  BY <1>1, <1>2 DEF Queue!Next, Queue!Reset

LEMMA WorkQueues ==
    ASSUME TypeOK, NEW d \in Delivery, Work(d)
    PROVE  [Queue!Next]_(Queue!vars)
<1> USE DEF HoldsSlot, Registered
<1>1. CASE MergedFails(d)
  BY <1>1, DeathResets DEF MergedFails
<1>2. CASE DropAnswered(d) \/ DropFails(d)
  <2>1. stage[d] = "dropping" /\ Go(d, "released") /\ UNCHANGED <<before, accepting>>
    BY <1>2 DEF DropAnswered, DropFails, lifeVars
  <2> QED
    BY <2>1, GoUnseen, UnseenStutters
<1>3. CASE BatchReady(d) \/ OtherWork(d) \/ WriteRecord(d) \/ StartRun(d) \/ RunEnds(d) \/ RunThrows(d) \/ TimeOut(d)
           \/ AbortDone(d) \/ Delivered(d) \/ DeliveryFails(d)
  <2>1. PICK s \in HoldsSlot : Go(d, s)
    BY <1>3 DEF BatchReady, OtherWork, WriteRecord, StartRun, RunEnds, RunThrows, TimeOut, AbortDone, Delivered,
                DeliveryFails
  <2>2. stage[d] \in HoldsSlot /\ UNCHANGED <<before, accepting>>
    BY <1>3 DEF BatchReady, OtherWork, WriteRecord, StartRun, RunEnds, RunThrows, TimeOut, AbortDone, Delivered,
                DeliveryFails, lifeVars
  <2> QED
    BY <2>1, <2>2, GoUnseen, UnseenStutters
<1>4. CASE Answered(d) \/ AnswerFails(d) \/ CloseRun(d) \/ ErrorAnswered(d)
  <2>1. PICK s \in HoldsSlot : Go(d, s)
    BY <1>4 DEF Answered, AnswerFails, CloseRun, ErrorAnswered
  <2>2. stage[d] \in HoldsSlot /\ UNCHANGED <<before, accepting>>
    BY <1>4 DEF Answered, AnswerFails, CloseRun, ErrorAnswered, RunOutcome, lifeVars
  <2> QED
    BY <2>1, <2>2, GoUnseen, UnseenStutters
<1>5. CASE MergedAnswered(d) \/ EventDone(d) \/ ErrorFails(d) \/ RemoveRecord(d) \/ RemoveFails(d)
  <2>1. stage[d] \in HoldsSlot /\ Release(d) /\ UNCHANGED <<before, accepting>>
    BY <1>5 DEF MergedAnswered, EventDone, ErrorFails, RemoveRecord, RemoveFails, lifeVars
  <2> QED
    BY <2>1, ReleaseSettles
<1> QED
  BY <1>1, <1>2, <1>3, <1>4, <1>5 DEF Work

LEMMA PushQueues ==
    ASSUME TypeOK, OrderInv, NEW d \in Delivery, Push(d)
    PROVE  Queue!Next
<1> DEFINE st == AfterPreemption(d)
           S == IF IsUserChat(d) THEN Dropped(d) ELSE {}
           W == At("queued")
           K == W \ S
           B == before \cup ({e \in Delivery : stage[e] # "unsent"} \X {d})
           Bq == before \cap (W \X W)
<1>1. /\ stage[d] = "unsent" /\ before' = B
      /\ IF accepting /\ HasRoom(st)
         THEN Pump([st EXCEPT ![d] = "queued"], B, inFlight)
         ELSE stage' = [st EXCEPT ![d] = "refused"] /\ UNCHANGED inFlight
      /\ accepting' = accepting
  BY DEF Push, lifeVars
<1>2. /\ st \in [Delivery -> Stage] /\ d \notin W /\ S \subseteq W
      /\ \A e \in Delivery : /\ st[e] = "queued" <=> e \in K
                             /\ st[e] \in HoldsSlot <=> e \in Holding
                             /\ st[e] # "unsent" <=> stage[e] # "unsent"
  BY <1>1 DEF TypeOK, AfterPreemption, Preempt, Dropped, Preempted, At, Holding, HoldsSlot, Registered, Stage, Settled
<1> HIDE DEF st, S
<1>3. CASE accepting /\ HasRoom(st)
  <2> DEFINE up_ == [st EXCEPT ![d] = "queued"]
  <2>1. \A e \in Delivery : up_[e] = IF e = d THEN "queued" ELSE st[e]
    BY <1>2
  <2>2. {e \in Delivery : up_[e] = "queued"} = K \cup {d}
    BY <1>2, <2>1 DEF At
  <2> HIDE DEF up_
  <2>3. PICK started \in SUBSET (K \cup {d}) :
          /\ Cardinality(started) = Least(Concurrency - inFlight, Cardinality(K \cup {d}))
          /\ \A x \in started, y \in (K \cup {d}) \ started : <<x, y>> \in B
          /\ stage' = [e \in Delivery |-> IF e \in started THEN Entry(e) ELSE up_[e]]
          /\ inFlight' = inFlight + Cardinality(started)
    BY <1>1, <1>3, <2>2 DEF Pump, up_
  <2>4. W' = (K \cup {d}) \ started
    BY <1>2, <2>1, <2>3 DEF At, Entry
  <2>5. Holding' = Holding \cup started
    <3>1. \A e \in Delivery : stage'[e] \in HoldsSlot <=> e \in started \/ up_[e] \in HoldsSlot
      BY <2>3 DEF Entry, HoldsSlot
    <3>2. \A e \in Delivery : up_[e] \in HoldsSlot <=> e \in Holding
      BY <1>1, <1>2, <2>1 DEF Holding, HoldsSlot, Registered
    <3>3. \A e : e \in Holding' <=> e \in Delivery /\ stage'[e] \in HoldsSlot
      BY DEF Holding
    <3>4. Holding \subseteq Delivery /\ started \subseteq Delivery
      BY DEF Holding, At
    <3> QED
      BY <3>1, <3>2, <3>3, <3>4
  <2>6. {e \in Delivery : st[e] = "queued"} = K /\ Cardinality(K) < MaxQueue
    BY <1>2, <1>3 DEF HasRoom, At
  <2> DEFINE O == (Bq \cap (K \X K)) \cup (K \X {d})
  <2>7. \A x, y \in K \cup {d} : <<x, y>> \in B => <<x, y>> \in O \/ x = d
    BY <1>1, <1>2 DEF OrderInv, At
  <2>8. \A y \in Delivery : <<d, y>> \notin B
    BY <1>1 DEF OrderInv
  <2>9. O \subseteq B
    BY DEF At
  <2>10. \A x \in started, y \in (K \cup {d}) \ started : <<x, y>> \in O
    BY <2>3, <2>7, <2>8 DEF At
  <2>11. (before \cap (W \X W))' = O \cap (W' \X W')
    <3>1. W' \subseteq K \cup {d} /\ W' \subseteq Delivery
      BY <2>4 DEF At
    <3>2. \A x, y \in W' : <<x, y>> \in B <=> <<x, y>> \in O
      BY <2>7, <2>8, <2>9, <3>1
    <3>3. (before \cap (W \X W))' = B \cap (W' \X W')
      BY <1>1
    <3> HIDE DEF B, O
    <3> QED
      BY <3>2, <3>3
  <2> HIDE DEF O
  <2>12. Queue!Pump(K \cup {d}, O, Holding, inFlight)
    BY <2>3, <2>4, <2>5, <2>10, <2>11, SameCardinality DEF Queue!Pump, Queue!Least, Least
  <2>13. d \notin W \cup Holding
    BY <1>1, <1>2 DEF Holding, HoldsSlot, Registered
  <2>14. Queue!Enqueue(d, S)
    BY <1>1, <1>3, <2>6, <2>12, <2>13, SameCardinality DEF Queue!Enqueue, O
  <2> QED
    BY <1>2, <2>14 DEF Queue!Next
<1>4. CASE ~(accepting /\ HasRoom(st))
  <2>1. stage' = [st EXCEPT ![d] = "refused"] /\ UNCHANGED inFlight
    BY <1>1, <1>4
  <2>2. \A e \in Delivery : stage'[e] = IF e = d THEN "refused" ELSE st[e]
    BY <1>2, <2>1
  <2>3. W' = K /\ Holding' = Holding
    <3>1. W' = K
      BY <1>2, <2>2 DEF At
    <3>2. \A e \in Delivery : stage'[e] \in HoldsSlot <=> e \in Holding
      BY <1>1, <1>2, <2>2 DEF Holding, HoldsSlot, Registered
    <3> QED
      BY <3>1, <3>2 DEF Holding
  <2>4. (before \cap (W \X W))' = Bq \cap (W' \X W')
    BY <1>1, <1>2, <2>3
  <2>5. Queue!RemoveQueued(S)
    BY <1>1, <2>1, <2>3, <2>4 DEF Queue!RemoveQueued
  <2> QED
    BY <1>2, <2>5 DEF Queue!Next
<1> QED
  BY <1>3, <1>4

(* Aborts, flushes, and the steps of the process.                           *)
LEMMA ProcessQueues ==
    ASSUME TypeOK,
           \/ UNCHANGED vars
           \/ \E m \in Message : AbortTask(m)
           \/ \E s \in Session : FlushBatch(s)
           \/ StopAccepting \/ DrainSeesEmpty \/ Exit \/ Crash \/ Restart \/ Reconcile
    PROVE  [Queue!Next]_(Queue!vars)
<1>1. CASE UNCHANGED vars \/ DrainSeesEmpty \/ Restart \/ Reconcile
  <2>1. UNCHANGED <<stage, before, inFlight, accepting>>
    BY <1>1 DEF vars, DrainSeesEmpty, Restart, Reconcile, ReconcileAnswered, ReconcileFails,
                ReconcileClears, ReconcileClearFails
  <2> QED
    BY <2>1, UnseenStutters DEF Unseen
<1>2. ASSUME NEW m \in Message, AbortTask(m)
      PROVE  Unseen
  <2>1. control[m] \in Delivery /\ Go(control[m], "aborting") /\ stage[control[m]] = "running"
        /\ UNCHANGED <<before, accepting>>
    BY <1>2 DEF AbortTask, lifeVars, TypeOK
  <2> QED
    BY <2>1, GoUnseen DEF HoldsSlot, Registered
<1>3. ASSUME NEW s \in Session, FlushBatch(s)
      PROVE  Unseen
  <2>1. /\ UNCHANGED <<before, inFlight, accepting>>
        /\ \A e \in Delivery : \/ stage'[e] = stage[e]
                               \/ stage[e] = "batching" /\ stage'[e] \in {"starting", "flushing", "merged"}
    BY <1>3 DEF FlushBatch, At, lifeVars
  <2> QED
    BY <2>1 DEF Unseen, HoldsSlot, Registered
<1>4. CASE StopAccepting
  <2>1. UNCHANGED <<stage, before, inFlight>> /\ accepting' = FALSE
    BY <1>4 DEF StopAccepting
  <2>2. UNCHANGED <<At("queued"), Holding>>
    BY <2>1 DEF At, Holding
  <2>3. Queue!StopAccepting
    BY <2>1, <2>2 DEF Queue!StopAccepting
  <2> QED
    BY <2>3 DEF Queue!Next
<1>5. CASE Exit \/ Crash
  BY <1>5, DeathResets DEF Exit, Crash
<1> QED
  BY <1>1, <1>2, <1>3, <1>4, <1>5, UnseenStutters

(* A pushed delivery stays pushed.                                          *)
LEMMA NextOrder ==
    ASSUME BatchInv, TypeOK', OrderInv, [Next]_vars
    PROVE  OrderInv'
<1>1. ASSUME NEW d \in Delivery, Push(d)
      PROVE  OrderInv'
  <2> DEFINE st == AfterPreemption(d)
  <2>1. /\ before' = before \cup ({e \in Delivery : stage[e] # "unsent"} \X {d})
        /\ \/ Pump([st EXCEPT ![d] = "queued"], before', inFlight)
           \/ stage' = [st EXCEPT ![d] = "refused"]
    BY <1>1 DEF Push
  <2>2. st \in [Delivery -> Stage] /\ \A e \in Delivery : st[e] = "unsent" => stage[e] = "unsent"
    BY DEF BatchInv, TypeOK, AfterPreemption, Preempt, Stage, HoldsSlot, Registered
  <2> HIDE DEF st
  <2> DEFINE up_ == [st EXCEPT ![d] = "queued"]
  <2>3. up_ \in [Delivery -> Stage] /\ \A e \in Delivery : up_[e] = "unsent" => e # d /\ st[e] = "unsent"
    BY <2>2 DEF Stage
  <2> HIDE DEF up_
  <2>4. Pump(up_, before', inFlight) => \A e \in Delivery : stage'[e] = "unsent" => up_[e] = "unsent"
    BY <2>3, PumpMoves
  <2>5. \A e \in Delivery : stage'[e] = "unsent" => e # d /\ stage[e] = "unsent"
    BY <2>1, <2>2, <2>3, <2>4 DEF up_
  <2> QED
    BY <2>1, <2>5 DEF OrderInv
<1>2. ASSUME NEW s \in Session, FlushBatch(s)
      PROVE  OrderInv'
  <2>1. before' = before /\ \A e \in Delivery : stage'[e] = "unsent" => stage[e] = "unsent"
    BY <1>2 DEF FlushBatch
  <2> QED
    BY <2>1 DEF OrderInv
<1>3. CASE Quiet
  BY <1>3 DEF OrderInv, Quiet, Entered
<1> QED
  BY <1>1, <1>2, <1>3, NextQuiet

LEMMA InitQueue == Init => OrderInv /\ Queue!Init
<1> SUFFICES ASSUME Init PROVE OrderInv /\ Queue!Init
  OBVIOUS
<1>1. At("queued") = {} /\ Holding = {}
  BY DEF Init, At, Holding, HoldsSlot, Registered
<1> QED
  BY <1>1 DEF Init, OrderInv, Queue!Init

(* Every step of the pipeline is a step of the queue, or one that the queue *)
(* does not notice.                                                         *)
THEOREM PipelineIsQueue == Spec => QueueImplemented
<1>1. BatchInv /\ TypeOK' /\ OrderInv /\ [Next]_vars => OrderInv' /\ [Queue!Next]_(Queue!vars)
  BY NextOrder, PushQueues, WorkQueues, ProcessQueues DEF Next, BatchInv
<1> QED
  BY <1>1, InitQueue, BatchInvariant, TypeCorrect, PTL DEF Spec, QueueImplemented, Queue!Spec

-----------------------------------------------------------------------------
(* The pipeline keeps the contract.                                         *)

(* What the contract asks for beyond OutcomeInv: nothing is said about a    *)
(* delivery that was not taken, and only written records are worked off.    *)
ContractInv ==
    /\ \A d \in Delivery : stage[d] \in {"unsent", "refused"} => outcomes[d] = <<>>
    /\ todo \subseteq written

(* What no step does to the books: an outcome is added to a delivery at     *)
(* work, or taken up by the reconciliation, that has none or is in doubt;   *)
(* a record comes from a delivery at work; and the reconciliation takes up  *)
(* what has a record.                                                       *)
Adds(e) ==
    /\ \E o \in Outcome : outcomes'[e] = Append(outcomes[e], o)
    /\ stage[e] \notin Settled \/ e \in todo
    /\ outcomes[e] = <<>> \/ e \in doubt

Recorded(e) == record[MessageOf[e]] = e

Books ==
    /\ doubt \subseteq doubt' /\ written \subseteq written'
    /\ \A e \in Delivery :
          /\ outcomes'[e] = outcomes[e] \/ Adds(e)
          /\ Recorded(e)' => Recorded(e) \/ stage[e] \notin Settled
          /\ e \in todo' => e \in todo \/ Recorded(e)

LEMMA ReceivesBooks ==
    ASSUME TypeOK, AnswerInv, NEW d \in Delivery, NEW o \in Outcome, Receives(d, o),
           \/ stage[d] \notin Settled \cup Answerable
           \/ d \in todo
    PROVE  \A e \in Delivery : outcomes'[e] = outcomes[e] \/ Adds(e)
<1>1. \A e \in Delivery : outcomes'[e] = IF e = d THEN Append(outcomes[e], o) ELSE outcomes[e]
  BY DEF TypeOK, Receives
<1>2. outcomes[d] = <<>> \/ d \in doubt
  BY DEF AnswerInv, UnansweredBefore, LeftBehindIsUnanswered
<1> QED
  BY <1>1, <1>2 DEF Adds

(* The steps of one delivery.                                               *)
LEMMA WorkBooks ==
    ASSUME TypeOK, AnswerInv, NEW d \in Delivery, Work(d)
    PROVE  Books
<1> USE DEF Recorded
<1>o. /\ DropOutcome(d) \in Outcome /\ "no_reply" \in Outcome /\ "error" \in Outcome
      /\ RunOutcome(d) \subseteq Outcome
  BY DEF DropOutcome, RunOutcome, Outcome
<1>1. CASE DropAnswered(d) \/ DropFails(d) \/ MergedAnswered(d)
  <2>1. /\ UNCHANGED <<doubt, written, record, todo>> /\ stage[d] \notin Settled \cup Answerable
        /\ outcomes' = outcomes \/ \E o \in Outcome : Receives(d, o)
    BY <1>1, <1>o DEF DropAnswered, DropFails, MergedAnswered, diskVars, historyVars, lifeVars, Settled, Answerable
  <2> QED
    BY <2>1, ReceivesBooks DEF Books
<1>2. CASE MergedFails(d)
  <2>1. /\ UNCHANGED <<written, record>> /\ todo' = {} /\ doubt \subseteq doubt'
        /\ stage[d] \notin Settled \cup Answerable
        /\ outcomes' = outcomes \/ \E o \in Outcome : Receives(d, o)
    BY <1>2, <1>o DEF MergedFails, ProcessDies, diskVars, Settled, Answerable
  <2> QED
    BY <2>1, ReceivesBooks DEF Books
<1>3. CASE BatchReady(d) \/ OtherWork(d) \/ EventDone(d) \/ StartRun(d) \/ RunEnds(d) \/ RunThrows(d) \/ TimeOut(d)
           \/ AbortDone(d) \/ Delivered(d) \/ DeliveryFails(d) \/ CloseRun(d)
  <2>1. UNCHANGED <<doubt, written, record, todo, outcomes>>
    BY <1>3 DEF BatchReady, OtherWork, EventDone, StartRun, RunEnds, RunThrows, TimeOut, AbortDone, Delivered,
                DeliveryFails, CloseRun, diskVars, historyVars, lifeVars
  <2> QED
    BY <2>1 DEF Books
<1>4. CASE WriteRecord(d)
  <2>1. UNCHANGED <<doubt, todo, outcomes>> /\ stage[d] \notin Settled
    BY <1>4 DEF WriteRecord, historyVars, lifeVars, Settled
  <2>3. written \subseteq written' /\ (record' = record \/ record' = [record EXCEPT ![MessageOf[d]] = d])
    BY <1>4 DEF WriteRecord, diskVars
  <2>2. \A e \in Delivery : record'[MessageOf[e]] = e => record[MessageOf[e]] = e \/ e = d
    BY <2>3, PipelineAssumption DEF TypeOK
  <2> QED
    BY <2>1, <2>2, <2>3 DEF Books
<1>5. CASE Answered(d) \/ AnswerFails(d) \/ ErrorAnswered(d) \/ ErrorFails(d)
  <2>1. /\ UNCHANGED <<written, record, todo>> /\ doubt \subseteq doubt'
        /\ outcomes' = outcomes \/ \E o \in Outcome : Receives(d, o)
    BY <1>5, <1>o DEF Answered, AnswerFails, ErrorAnswered, ErrorFails, diskVars, historyVars, lifeVars
  <2>2. stage[d] \notin Settled \cup Answerable
    BY <1>5 DEF Answered, AnswerFails, ErrorAnswered, ErrorFails, RunOutcome, Settled, Answerable
  <2> QED
    BY <2>1, <2>2, ReceivesBooks DEF Books
<1>6. CASE RemoveRecord(d) \/ RemoveFails(d)
  <2>1. /\ UNCHANGED <<written, todo, outcomes>> /\ doubt \subseteq doubt'
        /\ record' = record \/ record' = [record EXCEPT ![MessageOf[d]] = None]
    BY <1>6 DEF RemoveRecord, RemoveFails, diskVars, historyVars, lifeVars
  <2>2. \A e \in Delivery : record'[MessageOf[e]] = e => record[MessageOf[e]] = e
    BY <2>1, PipelineAssumption DEF TypeOK
  <2> QED
    BY <2>1, <2>2 DEF Books
<1> QED
  BY <1>1, <1>2, <1>3, <1>4, <1>5, <1>6 DEF Work

(* The other steps.                                                         *)
LEMMA NextBooks ==
    ASSUME TypeOK, AnswerInv, [Next]_vars
    PROVE  Books
<1> USE DEF Recorded
<1>1. ASSUME \/ UNCHANGED vars
             \/ \E d \in Delivery : Push(d)
             \/ \E m \in Message : AbortTask(m)
             \/ \E s \in Session : FlushBatch(s)
             \/ StopAccepting \/ DrainSeesEmpty \/ Exit \/ Crash
      PROVE  Books
  <2>1. UNCHANGED <<outcomes, record, written>> /\ todo' \subseteq todo /\ doubt \subseteq doubt'
    BY <1>1 DEF vars, Push, AbortTask, FlushBatch, StopAccepting, DrainSeesEmpty, Exit, Crash, ProcessDies,
                lifeVars, diskVars, historyVars
  <2> QED
    BY <2>1 DEF Books
<1>2. CASE Restart
  <2>1. UNCHANGED <<outcomes, record, written, doubt>> /\ todo' = {d \in Delivery : record[MessageOf[d]] = d}
    BY <1>2 DEF Restart, diskVars, historyVars
  <2> QED
    BY <2>1 DEF Books
<1>3. ASSUME NEW d \in Delivery, NEW o \in Outcome, ReconcileAnswered(d, o) \/ ReconcileFails(d, o)
      PROVE  Books
  <2>1. /\ UNCHANGED <<record, written>> /\ todo' \subseteq todo /\ doubt \subseteq doubt' /\ d \in todo
        /\ outcomes' = outcomes \/ Receives(d, o)
    BY <1>3 DEF ReconcileAnswered, ReconcileFails, Oldest, diskVars, historyVars
  <2> QED
    BY <2>1, ReceivesBooks DEF Books
<1>4. CASE ReconcileClears \/ ReconcileClearFails
  <2>1. /\ UNCHANGED <<outcomes, written, todo>> /\ doubt \subseteq doubt'
        /\ record' = record \/ record' = [record EXCEPT ![MessageOf[clearing]] = None]
    BY <1>4 DEF ReconcileClears, ReconcileClearFails, diskVars, historyVars
  <2>2. \A e \in Delivery : record'[MessageOf[e]] = e => record[MessageOf[e]] = e
    BY <2>1, PipelineAssumption DEF TypeOK
  <2> QED
    BY <2>1, <2>2 DEF Books
<1> QED
  BY <1>1, <1>2, <1>3, <1>4, WorkBooks DEF Next, Reconcile

(* A delivery that has settled stays so, and none is unsent again.          *)
Onward ==
    \A e \in Delivery :
        /\ stage[e] \in Settled \ {"unsent"} => stage'[e] = stage[e]
        /\ stage'[e] \in {"unsent", "refused"} => stage[e] \in {"unsent", stage'[e]}
        /\ stage[e] = "unsent" => stage'[e] \notin {"released", "lost"}

LEMMA NextOnward ==
    ASSUME BatchInv, TypeOK', [Next]_vars
    PROVE  Onward
<1>1. ASSUME NEW d \in Delivery, Push(d)
      PROVE  Onward
  <2> DEFINE st == AfterPreemption(d)
  <2>1. /\ stage[d] = "unsent"
        /\ \/ Pump([st EXCEPT ![d] = "queued"], before', inFlight)
           \/ stage' = [st EXCEPT ![d] = "refused"]
    BY <1>1 DEF Push
  <2>2. /\ st \in [Delivery -> Stage]
        /\ \A e \in Delivery : \/ st[e] = stage[e]
                               \/ stage[e] \notin Settled /\ st[e] \notin Settled
    BY DEF BatchInv, TypeOK, AfterPreemption, Preempt, Dropped, Preempted, At, Stage, HoldsSlot, Registered, Settled
  <2> HIDE DEF st
  <2> DEFINE up_ == [st EXCEPT ![d] = "queued"]
  <2>3. up_ \in [Delivery -> Stage] /\ up_[d] = "queued" /\ \A e \in Delivery \ {d} : up_[e] = st[e]
    BY <2>2 DEF Stage
  <2> HIDE DEF up_
  <2>4. CASE Pump(up_, before', inFlight)
    <3>1. \A e \in Delivery : \/ stage'[e] = up_[e]
                              \/ up_[e] = "queued" /\ stage'[e] \in {"batching", "starting"}
      BY <2>3, <2>4, PumpMoves
    <3> QED
      BY <2>1, <2>2, <2>3, <3>1 DEF Onward, Settled
  <2>5. CASE stage' = [st EXCEPT ![d] = "refused"]
    BY <2>1, <2>2, <2>5 DEF Onward, Settled
  <2> QED
    BY <2>1, <2>4, <2>5 DEF up_
<1>2. ASSUME NEW s \in Session, FlushBatch(s)
      PROVE  Onward
  <2>1. \A e \in Delivery : \/ stage'[e] = stage[e]
                            \/ stage[e] = "batching" /\ stage'[e] \in {"starting", "flushing", "merged"}
    BY <1>2 DEF FlushBatch, At
  <2> QED
    BY <2>1 DEF Onward, Settled
<1>3. CASE Quiet
  BY <1>3 DEF Onward, Quiet, Entered, Settled
<1> QED
  BY <1>1, <1>2, <1>3, NextQuiet

LEMMA NextContractInv ==
    ASSUME TypeOK, TypeOK', AnswerInv, ContractInv, Books, Onward
    PROVE  ContractInv'
<1>1. ASSUME NEW d \in Delivery, stage'[d] \in {"unsent", "refused"}
      PROVE  outcomes'[d] = <<>>
  <2>1. stage[d] \in {"unsent", "refused"} /\ outcomes[d] = <<>>
    BY <1>1 DEF Onward, ContractInv
  <2>2. d \notin todo /\ stage[d] \in Settled
    BY <2>1 DEF AnswerInv, LeftBehindIsUnanswered, Settled
  <2> QED
    BY <2>1, <2>2 DEF Books, Adds
<1>2. todo' \subseteq written'
  <2> SUFFICES ASSUME NEW e \in todo', e \in Delivery PROVE e \in written'
    BY DEF TypeOK
  <2> QED
    BY PipelineAssumption DEF Books, Recorded, ContractInv, AnswerInv, RecordsAreWritten, TypeOK
<1> QED
  BY <1>1, <1>2 DEF ContractInv

(* What a step means for the standing of one delivery.                      *)
LEMMA StandingStep ==
    ASSUME TypeOK, TypeOK', AnswerInv, AnswerInv', ContractInv, ContractInv', Books, Onward,
           NEW d \in Delivery
    PROVE  Contract!Step(d)
<1> USE DEF Recorded
<1>o. outcomes[d] \in Seq(Outcome) /\ outcomes'[d] \in Seq(Outcome)
  BY DEF TypeOK
<1>p. /\ (stage[d] \in {"unsent", "refused"} => outcomes[d] = <<>>)
      /\ (stage'[d] \in {"unsent", "refused"} => outcomes'[d] = <<>>)
      /\ stage[d] \in Stage /\ stage'[d] \in Stage
      /\ (d \in todo => stage[d] \in {"released", "lost"})
  BY DEF ContractInv, TypeOK, AnswerInv, LeftBehindIsUnanswered
<1>k. Sole(d) /\ (Recorded(d) \/ d \in todo) /\ outcomes'[d] = <<>> => Recorded(d)'
  <2>1. Recorded(d) \/ d \in todo => d \in written'
    BY PipelineAssumption DEF ContractInv, AnswerInv, RecordsAreWritten, Books
  <2>2. Sole(d) /\ d \in written' /\ outcomes'[d] = <<>> => record'[MessageOf[d]] = d
    BY DEF AnswerInv, RecordedUntilAnswered, Sole
  <2> QED
    BY <2>1, <2>2
<1>b. /\ outcomes'[d] = outcomes[d] \/ Adds(d)
      /\ Recorded(d)' => Recorded(d) \/ stage[d] \notin Settled
      /\ d \in todo' => d \in todo \/ Recorded(d)
  BY DEF Books
<1>n. /\ stage[d] \in Settled \ {"unsent"} => stage'[d] = stage[d]
      /\ stage'[d] \in {"unsent", "refused"} => stage[d] \in {"unsent", stage'[d]}
      /\ stage[d] = "unsent" => stage'[d] \notin {"released", "lost"}
  BY DEF Onward
<1> DEFINE s == [e \in Delivery |-> StandingOf(e)]
           a == [e \in Delivery |-> Len(outcomes[e])]
<1>s. s[d] = StandingOf(d) /\ s'[d] = StandingOf(d)' /\ a[d] = Len(outcomes[d]) /\ a'[d] = Len(outcomes'[d])
  OBVIOUS
<1> HIDE DEF s, a
<1>t. /\ stage[d] \in {"unsent", "refused"} => StandingOf(d) = stage[d]
      /\ stage[d] \notin {"unsent", "refused"} /\ outcomes[d] # <<>> => StandingOf(d) = "answered"
      /\ stage[d] \notin Settled /\ outcomes[d] = <<>> => StandingOf(d) = "open"
      /\ stage[d] \in {"released", "lost"} /\ outcomes[d] = <<>>
            => StandingOf(d) = IF Recorded(d) \/ d \in todo THEN "kept" ELSE "silent"
  BY DEF StandingOf, Settled
<1>u. /\ stage'[d] \in {"unsent", "refused"} => StandingOf(d)' = stage'[d]
      /\ stage'[d] \notin {"unsent", "refused"} /\ outcomes'[d] # <<>> => StandingOf(d)' = "answered"
      /\ stage'[d] \notin Settled /\ outcomes'[d] = <<>> => StandingOf(d)' = "open"
      /\ stage'[d] \in {"released", "lost"} /\ outcomes'[d] = <<>>
            => StandingOf(d)' = IF Recorded(d)' \/ d \in todo' THEN "kept" ELSE "silent"
  BY DEF StandingOf, Settled
<1> DEFINE Goal ==
      \/ StandingOf(d)' = StandingOf(d) /\ a'[d] = a[d]
      \/ StandingOf(d) = "unsent" /\ StandingOf(d)' \in {"open", "refused"} /\ a'[d] = a[d]
      \/ StandingOf(d) = "open" /\ StandingOf(d)' = "answered" /\ a'[d] = a[d] + 1
      \/ StandingOf(d) = "open" /\ StandingOf(d)' \in {"kept", "silent"} /\ a'[d] = a[d]
      \/ StandingOf(d) = "kept" /\ StandingOf(d)' = "answered" /\ a'[d] = a[d] + 1
      \/ StandingOf(d) = "kept" /\ StandingOf(d)' = "silent" /\ a'[d] = a[d] /\ ~Sole(d)
      \/ StandingOf(d) = "answered" /\ StandingOf(d)' = "answered" /\ a'[d] = a[d] + 1 /\ d \in doubt
<1> SUFFICES Goal
  BY <1>s DEF Contract!Step, Contract!Moves, Contract!Counts, Contract!Still, s, a
<1>1. CASE Adds(d)
  <2>1. outcomes'[d] # <<>> /\ a'[d] = a[d] + 1
    BY <1>1, <1>o, <1>s DEF Adds
  <2>2. stage[d] \notin {"unsent", "refused"} /\ stage'[d] \notin {"unsent", "refused"}
    BY <1>1, <1>p, <1>n, <2>1 DEF Adds, Settled
  <2>3. StandingOf(d)' = "answered"
    BY <2>1, <2>2, <1>u
  <2>4. outcomes[d] = <<>> => StandingOf(d) \in {"open", "kept"}
    BY <1>1, <2>2, <1>t, <1>p DEF Adds, Settled
  <2> QED
    BY <1>1, <2>1, <2>2, <2>3, <2>4, <1>t DEF Adds
<1>2. CASE outcomes'[d] = outcomes[d]
  <2>1. a'[d] = a[d]
    BY <1>2, <1>s
  <2>2. CASE stage[d] \in {"unsent", "refused"}
    BY <2>1, <2>2, <1>2, <1>n, <1>p, <1>t, <1>u DEF Settled
  <2>3. CASE stage[d] \notin {"unsent", "refused"} /\ outcomes[d] # <<>>
    BY <2>1, <2>3, <1>2, <1>n, <1>p, <1>t, <1>u
  <2>4. CASE stage[d] \notin Settled /\ outcomes[d] = <<>>
    BY <2>1, <2>4, <1>2, <1>n, <1>p, <1>t, <1>u DEF Settled
  <2>5. CASE stage[d] \in {"released", "lost"} /\ outcomes[d] = <<>>
    BY <2>1, <2>5, <1>2, <1>n, <1>t, <1>u, <1>k, <1>b DEF Settled
  <2> QED
    BY <2>2, <2>3, <2>4, <2>5 DEF Settled
<1> QED
  BY <1>1, <1>2, <1>b

LEMMA InitContract == Init => ContractInv /\ Contract!Init
<1> SUFFICES ASSUME Init PROVE ContractInv /\ Contract!Init
  OBVIOUS
<1>1. \A d \in Delivery : StandingOf(d) = "unsent" /\ Len(outcomes[d]) = 0
  <2> TAKE d \in Delivery
  <2>1. stage[d] = "unsent" /\ outcomes[d] = <<>>
    BY DEF Init
  <2> QED
    BY <2>1 DEF StandingOf, Settled
<1>2. [d \in Delivery |-> StandingOf(d)] = [d \in Delivery |-> "unsent"]
      /\ [d \in Delivery |-> Len(outcomes[d])] = [d \in Delivery |-> 0]
  BY <1>1
<1> QED
  BY <1>2 DEF Init, ContractInv, Contract!Init

LEMMA NextContract ==
    ASSUME OutcomeInv, OutcomeInv', BatchInv, ContractInv, [Next]_vars
    PROVE  ContractInv' /\ Contract!Next
<1>1. TypeOK /\ TypeOK' /\ AnswerInv /\ AnswerInv'
  BY DEF OutcomeInv, SlotInv
<1>2. Books /\ Onward
  BY <1>1, NextBooks, NextOnward
<1>3. ContractInv'
  BY <1>1, <1>2, NextContractInv
<1>4. \A d \in Delivery : Contract!Step(d)
  BY <1>1, <1>2, <1>3, StandingStep
<1>5. \A d \in Delivery : StandingOf(d)' \in Contract!Standing
  BY <1>1 DEF StandingOf, Contract!Standing, Settled
<1>6. [d \in Delivery |-> StandingOf(d)]' \in [Delivery -> Contract!Standing]
  BY <1>5
<1> QED
  BY <1>2, <1>3, <1>4, <1>6 DEF Books, Contract!Next

(* Whatever the pipeline does, the backend sees a step of the contract: an  *)
(* answer is counted once unless the delivery was in doubt, a refused one   *)
(* is never answered, and what was kept on disk falls silent only when its  *)
(* message was pushed twice.                                                *)
THEOREM PipelineKeepsContract == Spec => ContractImplemented
<1>1. OutcomeInv /\ OutcomeInv' /\ BatchInv /\ ContractInv /\ [Next]_vars
         => ContractInv' /\ [Contract!Next]_(Contract!contractVars)
  BY NextContract
<1>2. OutcomeInv /\ [Next]_vars => OutcomeInv'
  BY NextOutcome
<1> QED
  BY <1>1, <1>2, InitOutcome, NextOutcome, InitContract, BatchInvariant, PTL
     DEF Spec, ContractImplemented, Contract!Spec

-----------------------------------------------------------------------------
(* What the refinement gives: the pipeline as a whole wastes no slot and    *)
(* keeps the order.  That the counter is right is known of the pipeline, so *)
(* it is enough to follow the queue's steps.                                *)

Waits == At("queued")
Ahead == before \cap (At("queued") \X At("queued"))

FairInv == SlotInv /\ Queue!WorkConserving

LEMMA FairInvIs ==
    SlotInv => /\ Waits \subseteq Delivery /\ Holding \subseteq Delivery /\ Waits \cap Holding = {}
               /\ inFlight \in 0..Concurrency /\ Concurrency \in Nat
<1> SUFFICES ASSUME SlotInv
             PROVE  Waits \cap Holding = {} /\ inFlight \in 0..Concurrency /\ Concurrency \in Nat
  BY DEF Waits, At, Holding
<1>1. Waits \cap Holding = {}
  BY DEF Waits, At, Holding, HoldsSlot, Registered
<1>2. inFlight \in Nat /\ inFlight <= Concurrency /\ Concurrency \in Nat
  BY PipelineAssumption DEF SlotInv, TypeOK, SlotAccounting
<1> QED
  BY <1>1, <1>2

(* pump() leaves nothing waiting, or no slot.                               *)
LEMMA PumpFills ==
    ASSUME NEW W \in SUBSET Delivery, NEW B, NEW R, NEW n \in 0..Concurrency, Concurrency \in Nat,
           Queue!Pump(W, B, R, n)
    PROVE  Waits' # {} => inFlight' = Concurrency
<1>1. PICK started \in SUBSET W :
        /\ Cardinality(started) = Least(Concurrency - n, Cardinality(W))
        /\ Waits' = W \ started
        /\ inFlight' = n + Cardinality(started)
  BY SameCardinality DEF Queue!Pump, Queue!Least, Least, Waits
<1>2. IsFiniteSet(W) /\ IsFiniteSet(started) /\ Cardinality(started) \in Nat /\ Cardinality(W) \in Nat
  BY Finite
<1>3. CASE started = W
  BY <1>1, <1>3
<1>4. CASE started # W
  <2>1. Cardinality(started) < Cardinality(W)
    BY <1>2, <1>4, FS_Subset
  <2> QED
    BY <1>1, <1>2, <2>1 DEF Least
<1> QED
  BY <1>3, <1>4

LEMMA NextFair == FairInv /\ SlotInv' /\ [Queue!Next]_(Queue!vars) => FairInv'
<1> SUFFICES ASSUME FairInv, SlotInv', [Queue!Next]_(Queue!vars)
             PROVE  Waits' # {} => inFlight' = Concurrency
  BY DEF FairInv, Queue!WorkConserving, Waits
<1>0. /\ Waits \subseteq Delivery /\ Holding \subseteq Delivery
      /\ inFlight \in 0..Concurrency /\ Concurrency \in Nat
      /\ Waits # {} => inFlight = Concurrency
  BY FairInvIs DEF FairInv, Queue!WorkConserving, Waits
<1>1. ASSUME NEW x \in Delivery, NEW S \in SUBSET Waits, Queue!Enqueue(x, S)
      PROVE  Waits' # {} => inFlight' = Concurrency
  <2>1. PICK B : Queue!Pump((Waits \ S) \cup {x}, B, Holding, inFlight)
    BY <1>1 DEF Queue!Enqueue, Waits
  <2> QED
    BY <1>0, <2>1, PumpFills
<1>2. ASSUME NEW x \in Holding, Queue!Settle(x)
      PROVE  Waits' # {} => inFlight' = Concurrency
  <2>1. Queue!Pump(Waits, Ahead, Holding \ {x}, IF inFlight = 0 THEN 0 ELSE inFlight - 1)
    BY <1>2 DEF Queue!Settle, Waits, Ahead
  <2>2. (IF inFlight = 0 THEN 0 ELSE inFlight - 1) \in 0..Concurrency
    BY <1>0
  <2> QED
    BY <1>0, <2>1, <2>2, PumpFills
<1>3. CASE \/ \E S \in SUBSET Waits : Queue!RemoveQueued(S)
           \/ Queue!StopAccepting \/ UNCHANGED Queue!vars
  <2>1. Waits' \subseteq Waits /\ inFlight' = inFlight
    BY <1>3 DEF Queue!RemoveQueued, Queue!StopAccepting, Queue!vars, Waits
  <2> QED
    BY <1>0, <2>1
<1>4. CASE Queue!Reset
  BY <1>4 DEF Queue!Reset, Waits
<1> QED
  BY <1>1, <1>2, <1>3, <1>4 DEF Queue!Next, Waits

(* No delivery starts in front of one that came before it and waits on.     *)
LEMMA NextInOrder ==
    ASSUME SlotInv, Queue!Next, NEW x \in Waits \cap Holding', NEW y \in Waits \cap Waits'
    PROVE  <<x, y>> \in Ahead
<1>1. Waits \cap Holding = {}
  BY FairInvIs
<1>2. ASSUME NEW i \in Delivery, NEW S \in SUBSET Waits, Queue!Enqueue(i, S) PROVE <<x, y>> \in Ahead
  <2> DEFINE kept == Waits \ S
             B == (Ahead \cap (kept \X kept)) \cup (kept \X {i})
  <2>1. PICK started \in SUBSET (kept \cup {i}) :
          /\ \A u \in started, v \in (kept \cup {i}) \ started : <<u, v>> \in B
          /\ Waits' = (kept \cup {i}) \ started
          /\ Holding' = Holding \cup started
    BY <1>2 DEF Queue!Enqueue, Queue!Pump, Waits, Ahead
  <2>2. i \notin Waits
    BY <1>2 DEF Queue!Enqueue, Waits
  <2>3. x \in started /\ y \in (kept \cup {i}) \ started /\ y # i
    BY <1>1, <2>1, <2>2
  <2> QED
    BY <2>1, <2>3
<1>3. ASSUME NEW z \in Holding, Queue!Settle(z) PROVE <<x, y>> \in Ahead
  <2>1. PICK started \in SUBSET Waits :
          /\ \A u \in started, v \in Waits \ started : <<u, v>> \in Ahead
          /\ Waits' = Waits \ started
          /\ Holding' = (Holding \ {z}) \cup started
    BY <1>3 DEF Queue!Settle, Queue!Pump, Waits, Ahead
  <2> QED
    BY <1>1, <2>1
<1>4. CASE (\E S \in SUBSET Waits : Queue!RemoveQueued(S)) \/ Queue!StopAccepting \/ Queue!Reset
  <2>1. Holding' \subseteq Holding
    BY <1>4 DEF Queue!RemoveQueued, Queue!StopAccepting, Queue!Reset
  <2> QED
    BY <1>1, <2>1
<1> QED
  BY <1>2, <1>3, <1>4 DEF Queue!Next, Waits

(* Through preemption, batches, failures and restarts the pipeline never    *)
(* leaves a slot idle in front of a waiting delivery, and it takes the      *)
(* oldest first.                                                            *)
THEOREM PipelineIsFair == Spec => []Queue!WorkConserving /\ Queue!OldestFirst
<1>1. Queue!Init => Queue!WorkConserving
  BY DEF Queue!Init, Queue!WorkConserving
<1>2. FairInv => Queue!WorkConserving
  BY DEF FairInv
<1> DEFINE InOrder == \A x \in Waits \cap Holding', y \in Waits \cap Waits' : <<x, y>> \in Ahead
<1>3. SlotInv /\ [Queue!Next]_(Queue!vars) => [InOrder]_(Queue!vars)
  BY NextInOrder
<1>4. Spec => []SlotInv
  BY InitSlots, NextSlots, PTL DEF Spec
<1>5. Spec => []Queue!WorkConserving
  BY <1>1, <1>2, <1>4, NextFair, PipelineIsQueue, PTL DEF QueueImplemented, Queue!Spec, FairInv
<1>6. Spec => [][InOrder]_(Queue!vars)
  BY <1>3, <1>4, PipelineIsQueue, PTL DEF QueueImplemented, Queue!Spec
<1> QED
  BY <1>5, <1>6 DEF Queue!OldestFirst, Waits, Ahead

-----------------------------------------------------------------------------
(* No circle of waits.                                                      *)

(* B orders the deliveries of S: strictly, and any two of them.             *)
Orders(B, S) ==
    /\ \A a \in S : <<a, a>> \notin B
    /\ \A a, b, c \in S : <<a, b>> \in B /\ <<b, c>> \in B => <<a, c>> \in B
    /\ \A a, b \in S : a = b \/ <<a, b>> \in B \/ <<b, a>> \in B

Pushed == {d \in Delivery : stage[d] # "unsent"}

(* An ordered set that is not empty has a first element: of the sets of     *)
(* elements before a given one, which are finite, one is the smallest.      *)
LEMMA FirstExists ==
    ASSUME NEW B, NEW S \in SUBSET Delivery, S # {}, Orders(B, S)
    PROVE  \E x \in S : \A y \in S \ {x} : <<x, y>> \in B
<1> DEFINE Below(x) == {y \in S : <<y, x>> \in B}
           T == {Below(x) : x \in S}
<1>1. IsWellFoundedOn(StrictSubsetOrdering(S), SUBSET S)
  <2>1. FiniteSubsetsOf(S) = SUBSET S
    BY Finite, FS_FiniteSubsetsOfFinite
  <2> QED
    BY <2>1, FS_StrictSubsetOrderingWellFounded
<1>2. T \subseteq SUBSET S /\ T # {}
  OBVIOUS
<1>3. PICK X \in T : \A Y \in T : <<Y, X>> \notin StrictSubsetOrdering(S)
  <2> HIDE DEF T
  <2> QED
    BY <1>1, <1>2, WFMin
<1>4. PICK x \in S : X = Below(x)
  BY <1>3
<1>5. ASSUME NEW y \in S, <<y, x>> \in B
      PROVE  FALSE
  <2>1. Below(y) \subseteq Below(x) /\ y \in Below(x) /\ y \notin Below(y)
    BY <1>5 DEF Orders
  <2>2. <<Below(y), Below(x)>> \in StrictSubsetOrdering(S)
    BY <2>1 DEF StrictSubsetOrdering
  <2> QED
    BY <1>3, <1>4, <2>2
<1> QED
  BY <1>5 DEF Orders

(* And one with as many elements as asked for that come before the rest:    *)
(* otherwise a largest one among those that are not too large, which misses *)
(* the fewest elements, could be extended by the first it misses.           *)
LEMMA FirstFewExist ==
    ASSUME NEW B, NEW W \in SUBSET Delivery, Orders(B, W), NEW k \in 0..Cardinality(W)
    PROVE  \E few \in SUBSET W : /\ Cardinality(few) = k
                                 /\ \A d \in few, e \in W \ few : <<d, e>> \in B
<1> DEFINE Front(F) == Cardinality(F) <= k /\ \A d \in F, e \in W \ F : <<d, e>> \in B
           T == {W \ F : F \in {F \in SUBSET W : Front(F)}}
<1>1. IsFiniteSet(W) /\ Cardinality(W) \in Nat /\ k \in Nat
  BY Finite
<1>2. IsWellFoundedOn(StrictSubsetOrdering(W), SUBSET W)
  <2>1. FiniteSubsetsOf(W) = SUBSET W
    BY <1>1, FS_FiniteSubsetsOfFinite
  <2> QED
    BY <2>1, FS_StrictSubsetOrderingWellFounded
<1>3. T \subseteq SUBSET W /\ T # {}
  <2>1. Front({})
    BY <1>1, FS_EmptySet
  <2> QED
    BY <2>1
<1>4. PICK X \in T : \A Y \in T : <<Y, X>> \notin StrictSubsetOrdering(W)
  <2> HIDE DEF T
  <2> QED
    BY <1>2, <1>3, WFMin
<1>5. PICK F \in SUBSET W : Front(F) /\ X = W \ F
  BY <1>4
<1>6. IsFiniteSet(F) /\ Cardinality(F) \in Nat
  BY Finite
<1>7. ASSUME Cardinality(F) # k
      PROVE  FALSE
  <2>1. Cardinality(F) < k
    BY <1>1, <1>5, <1>6, <1>7
  <2>2. W \ F # {}
    BY <1>1, <1>5, <2>1
  <2>3. Orders(B, W \ F)
    BY DEF Orders
  <2>4. PICK x \in W \ F : \A y \in (W \ F) \ {x} : <<x, y>> \in B
    BY <2>2, <2>3, FirstExists
  <2>5. Cardinality(F \cup {x}) = Cardinality(F) + 1
    BY <1>6, FS_AddElement
  <2>6. Front(F \cup {x})
    BY <1>1, <1>5, <1>6, <2>1, <2>4, <2>5
  <2>7. W \ (F \cup {x}) \in T
    BY <2>4, <2>6
  <2>8. <<W \ (F \cup {x}), X>> \in StrictSubsetOrdering(W)
    BY <1>5, <2>4 DEF StrictSubsetOrdering
  <2> QED
    BY <1>4, <2>7, <2>8
<1> QED
  BY <1>5, <1>7

(* A push comes after every earlier one.                                    *)
LEMMA PushOrders ==
    ASSUME NEW d \in Delivery, stage[d] = "unsent", OrderInv, Orders(before, Pushed)
    PROVE  Orders(before \cup (Pushed \X {d}), Pushed \cup {d})
<1> DEFINE B == before \cup (Pushed \X {d})
<1>1. d \notin Pushed /\ \A a, b \in Delivery : <<a, b>> \in before => a \in Pushed /\ b \in Pushed
  BY DEF Pushed, OrderInv
<1>2. Pushed \subseteq Delivery
  BY DEF Pushed
<1>3. ASSUME NEW a \in Pushed \cup {d}, NEW b \in Pushed \cup {d}
      PROVE  <<a, b>> \in B <=> a \in Pushed /\ (b = d \/ <<a, b>> \in before)
  <2>1. <<a, b>> \in Pushed \X {d} <=> a \in Pushed /\ b = d
    OBVIOUS
  <2>2. <<a, b>> \in before => a \in Pushed
    BY <1>1, <1>2
  <2> QED
    BY <2>1, <2>2
<1> HIDE DEF B
<1>4. Orders(B, Pushed \cup {d})
  BY <1>1, <1>2, <1>3 DEF Orders
<1> QED
  BY <1>4 DEF B

LEMMA NextOrders ==
    ASSUME BatchInv, TypeOK', OrderInv, Orders(before, Pushed), [Next]_vars
    PROVE  Orders(before, Pushed)'
<1>1. ASSUME NEW d \in Delivery, Push(d)
      PROVE  Orders(before, Pushed)'
  <2> DEFINE st == AfterPreemption(d)
             queued == [st EXCEPT ![d] = "queued"]
  <2>1. /\ before' = before \cup (Pushed \X {d}) /\ stage[d] = "unsent"
        /\ \/ Pump(queued, before', inFlight)
           \/ stage' = [st EXCEPT ![d] = "refused"]
    BY <1>1 DEF Push, Pushed
  <2>2. /\ st \in [Delivery -> Stage]
        /\ \A e \in Delivery : st[e] # "unsent" => stage[e] # "unsent"
    BY DEF BatchInv, TypeOK, AfterPreemption, Preempt, Dropped, Preempted, At, Stage, HoldsSlot, Registered
  <2> HIDE DEF st
  <2>3. queued \in [Delivery -> Stage] /\ \A e \in Delivery \ {d} : queued[e] # "unsent" => stage[e] # "unsent"
    BY <2>2 DEF Stage
  <2>4. Pump(queued, before', inFlight) =>
            \A e \in Delivery \ {d} : stage'[e] # "unsent" => stage[e] # "unsent"
    <3> HIDE DEF queued
    <3> QED
      BY <2>3, PumpMoves
  <2>5. Pushed' \subseteq Pushed \cup {d}
    BY <2>1, <2>2, <2>4 DEF Pushed
  <2>6. Orders(before', Pushed \cup {d})
    BY <2>1, PushOrders
  <2> QED
    BY <2>5, <2>6 DEF Orders
<1>2. ASSUME NEW s \in Session, FlushBatch(s)
      PROVE  Orders(before, Pushed)'
  <2>1. before' = before /\ Pushed' \subseteq Pushed
    BY <1>2 DEF FlushBatch, Pushed, At
  <2> QED
    BY <2>1 DEF Orders
<1>3. CASE Quiet
  <2>1. before' = before /\ Pushed' \subseteq Pushed
    BY <1>3 DEF Quiet, Pushed, Settled
  <2> QED
    BY <2>1 DEF Orders
<1> QED
  BY <1>1, <1>2, <1>3, NextQuiet

LEMMA OrderInvariant == Spec => [](OrderInv /\ Orders(before, Pushed))
<1>1. Init => OrderInv /\ Orders(before, Pushed)
  BY DEF Init, OrderInv, Orders, Pushed
<1>2. BatchInv /\ TypeOK' /\ OrderInv /\ Orders(before, Pushed) /\ [Next]_vars
          => OrderInv' /\ Orders(before, Pushed)'
  BY NextOrder, NextOrders
<1> QED
  BY <1>1, <1>2, BatchInvariant, TypeCorrect, PTL DEF Spec

LEMMA OldestExists ==
    ASSUME Orders(before, Pushed), NEW S \in SUBSET Pushed, S # {}
    PROVE  Oldest(S) # {}
<1>1. S \in SUBSET Delivery /\ Orders(before, S)
  BY DEF Orders, Pushed
<1> QED
  BY <1>1, FirstExists DEF Oldest, Earlier

LEMMA LatestExists ==
    ASSUME Orders(before, Pushed), NEW S \in SUBSET Pushed, S # {}
    PROVE  Latest(S) # {}
<1> DEFINE B == {p \in Delivery \X Delivery : <<p[2], p[1]>> \in before}
<1>1. S \in SUBSET Delivery
  BY DEF Pushed
<1>2. ASSUME NEW a \in S, NEW b \in S
      PROVE  <<a, b>> \in B <=> <<b, a>> \in before
  BY <1>1
<1> HIDE DEF B
<1>3. Orders(B, S)
  BY <1>2 DEF Orders
<1>4. PICK x \in S : \A y \in S \ {x} : <<x, y>> \in B
  BY <1>1, <1>3, FirstExists
<1>5. x \in Latest(S)
  BY <1>2, <1>4 DEF Latest, Earlier
<1> QED
  BY <1>5

(* Of the items merged into one target one has its turn.                    *)
LEMMA MergedHaveATurn ==
    ASSUME Orders(before, Pushed), NEW t, MergedInto(t) # {}
    PROVE  \E x \in Holding : HasItsTurn(x)
<1>1. MergedInto(t) \subseteq Pushed
  BY DEF MergedInto, At, Pushed
<1>2. PICK x \in Oldest(MergedInto(t)) : TRUE
  BY <1>1, OldestExists
<1>3. x \in Delivery /\ stage[x] = "merged" /\ mergedInto[x] = t
  BY <1>2 DEF Oldest, MergedInto, At
<1>4. x \in Holding
  BY <1>3 DEF Holding, HoldsSlot
<1>5. HasItsTurn(x)
  BY <1>2, <1>3 DEF HasItsTurn
<1> QED
  BY <1>4, <1>5

LEMMA NoCircle ==
    ASSUME SlotInv, Queue!WorkConserving, Orders(before, Pushed), LeftBehindIsUnanswered
    PROVE  NobodyWaitsInACircle
<1>1. ASSUME At("queued") # {}
      PROVE  Holding # {}
  <2>1. inFlight = Concurrency /\ inFlight = Cardinality(Holding) /\ Concurrency # 0
    BY <1>1, PipelineAssumption DEF SlotInv, SlotAccounting, Queue!WorkConserving
  <2> QED
    BY <2>1, FS_EmptySet
<1>2. ASSUME NEW h \in Holding
      PROVE  \E d \in Holding : HasItsTurn(d)
  <2>1. CASE stage[h] = "merged"
    <3>1. h \in MergedInto(mergedInto[h])
      BY <2>1 DEF MergedInto, At, Holding
    <3> QED
      BY <3>1, MergedHaveATurn
  <2>2. CASE stage[h] = "flushing" /\ MergedInto(h) # {}
    BY <2>2, MergedHaveATurn
  <2>3. CASE stage[h] = "flushing" /\ MergedInto(h) = {}
    BY <2>3 DEF HasItsTurn
  <2>4. CASE stage[h] = "batching"
    <3> DEFINE batch == {e \in At("batching") : Sn(e) = Sn(h)}
    <3>1. batch \subseteq Pushed /\ h \in batch
      BY <2>4 DEF At, Holding, Pushed
    <3> HIDE DEF batch
    <3>2. Latest(batch) # {}
      BY <3>1, LatestExists
    <3> QED
      BY <2>4, <3>2 DEF HasItsTurn, batch
  <2>5. CASE stage[h] \notin {"merged", "flushing", "batching"}
    BY <2>5 DEF HasItsTurn
  <2> QED
    BY <2>1, <2>2, <2>3, <2>4, <2>5
<1>3. ASSUME todo # {}
      PROVE  Oldest(todo) # {}
  <2>1. todo \subseteq Pushed
    BY DEF LeftBehindIsUnanswered, Pushed, SlotInv, TypeOK
  <2> QED
    BY <1>3, <2>1, OldestExists
<1> QED
  BY <1>1, <1>2, <1>3 DEF NobodyWaitsInACircle

(* Queued deliveries wait for slots, merged ones hold slots while their     *)
(* target waits for them, and records are worked off in the order of the    *)
(* pushes: there is never a circle of waits, for any number of slots and    *)
(* deliveries, whatever fails, is withdrawn or lost.                        *)
THEOREM NoCircleOfWaits == Spec => []NobodyWaitsInACircle
<1>1. Spec => [](SlotInv /\ LeftBehindIsUnanswered)
  <2>1. OutcomeInv => SlotInv /\ LeftBehindIsUnanswered
    BY DEF OutcomeInv, AnswerInv
  <2> QED
    BY <2>1, InitOutcome, NextOutcome, PTL DEF Spec
<1>2. SlotInv /\ LeftBehindIsUnanswered /\ Queue!WorkConserving /\ OrderInv /\ Orders(before, Pushed)
          => NobodyWaitsInACircle
  BY NoCircle
<1> QED
  BY <1>1, <1>2, PipelineIsFair, OrderInvariant, PTL

(* What pump() is asked for it can always do: some of the waiting           *)
(* deliveries, as many as the free slots take, all of them before the rest; *)
(* after a settled processor as after a push that may have withdrawn some.  *)
CanPump(W, B, n) ==
    \E started \in SUBSET W :
        /\ Cardinality(started) = Least(Concurrency - n, Cardinality(W))
        /\ \A d \in started, e \in W \ started : <<d, e>> \in B

PumpHasAChoice ==
    \A n \in 0..Concurrency, W \in SUBSET At("queued") :
        /\ CanPump(W, before, n)
        /\ \A d \in At("unsent") : CanPump(W \cup {d}, before \cup (Pushed \X {d}), n)

LEMMA OrderedCanPump ==
    ASSUME NEW B, NEW W \in SUBSET Delivery, Orders(B, W), NEW n \in 0..Concurrency
    PROVE  CanPump(W, B, n)
<1>1. Cardinality(W) \in Nat /\ Concurrency \in Nat
  BY Finite, PipelineAssumption
<1>2. Least(Concurrency - n, Cardinality(W)) \in 0..Cardinality(W)
  BY <1>1 DEF Least
<1> QED
  BY <1>2, FirstFewExist DEF CanPump

(* The step of a processor that settles, and that of a push, is never held  *)
(* up by the choice of the deliveries that start with it.                   *)
THEOREM PumpNeverBlocks == Spec => []PumpHasAChoice
<1>1. OrderInv /\ Orders(before, Pushed) => PumpHasAChoice
  <2> SUFFICES ASSUME OrderInv, Orders(before, Pushed), NEW n \in 0..Concurrency, NEW W \in SUBSET At("queued")
               PROVE  /\ CanPump(W, before, n)
                      /\ \A d \in At("unsent") : CanPump(W \cup {d}, before \cup (Pushed \X {d}), n)
    BY DEF PumpHasAChoice
  <2>1. W \in SUBSET Delivery /\ W \subseteq Pushed
    BY DEF At, Pushed
  <2>2. CanPump(W, before, n)
    <3>1. Orders(before, W)
      BY <2>1 DEF Orders
    <3> QED
      BY <2>1, <3>1, OrderedCanPump
  <2>3. ASSUME NEW d \in At("unsent")
        PROVE  CanPump(W \cup {d}, before \cup (Pushed \X {d}), n)
    <3>1. d \in Delivery /\ stage[d] = "unsent"
      BY DEF At
    <3> DEFINE B == before \cup (Pushed \X {d})
    <3>2. Orders(B, Pushed \cup {d})
      BY <3>1, PushOrders
    <3> HIDE DEF B
    <3>3. Orders(B, W \cup {d}) /\ W \cup {d} \in SUBSET Delivery
      BY <2>1, <3>1, <3>2 DEF Orders
    <3>4. CanPump(W \cup {d}, B, n)
      BY <3>3, OrderedCanPump
    <3> QED
      BY <3>4 DEF B
  <2> QED
    BY <2>2, <2>3
<1> QED
  BY <1>1, OrderInvariant, PTL
=============================================================================
