--------------------------- MODULE ProcessorProofs ---------------------------
(***************************************************************************)
(* Proofs about the two services that the processing of messages stands    *)
(* on, each by itself: the task queue, for every set of items, concurrency *)
(* and bound, and the delivery tracker, for any messages, sessions and     *)
(* number of sends and any evidence of the plugin.                         *)
(***************************************************************************)
EXTENDS TaskQueue, DeliveryTracker, FiniteSetTheorems, TLAPS

-----------------------------------------------------------------------------
(* The task queue.                                                          *)

(* The inductive invariant.  SlotAccounting alone is not inductive: that a  *)
(* processor which starts adds exactly one to the set needs the waiting and *)
(* the running items to be disjoint, and that pump() finds at most          *)
(* Concurrency free slots needs the counter not to exceed it.               *)
QueueInv == TypeOK /\ SlotAccounting /\ QueueBounded /\ WorkConserving

(* One pump() from a state in which the counter agrees with the set: it     *)
(* still agrees, and either nothing waits or no slot is left.               *)
LEMMA PumpLemma ==
    ASSUME NEW W \in SUBSET Item, NEW B \in SUBSET (W \X W),
           NEW R \in SUBSET Item, NEW n \in Nat,
           W \cap R = {}, n = Cardinality(R), n <= Concurrency,
           Pump(W, B, R, n)
    PROVE  /\ waiting' \subseteq W
           /\ before' \subseteq waiting' \X waiting'
           /\ running' \subseteq Item
           /\ inFlight' \in Nat
           /\ SlotAccounting'
           /\ waiting' \cap running' = {}
           /\ Cardinality(waiting') <= Cardinality(W)
           /\ Cardinality(waiting') + inFlight' = Cardinality(W) + n
           /\ WorkConserving'
<1>1. IsFiniteSet(W) /\ IsFiniteSet(R)
  BY FS_Subset, QueueAssumption
<1>2. PICK started \in SUBSET W :
        /\ Cardinality(started) = Least(Concurrency - n, Cardinality(W))
        /\ waiting' = W \ started
        /\ before' = B \cap (waiting' \X waiting')
        /\ running' = R \cup started
        /\ inFlight' = n + Cardinality(started)
  BY DEF Pump
<1>3. IsFiniteSet(started) /\ Cardinality(started) \in Nat
      /\ Cardinality(W) \in Nat /\ Cardinality(R) \in Nat
  BY <1>1, FS_Subset, FS_CardinalityType
<1>4. Cardinality(R \cup started) = Cardinality(R) + Cardinality(started)
  <2>1. R \cap started = {}
    BY <1>2
  <2>2. Cardinality(R \cap started) = 0
    BY <2>1, FS_EmptySet
  <2>3. Cardinality(R \cup started) =
          Cardinality(R) + Cardinality(started) - Cardinality(R \cap started)
    BY <1>1, <1>3, FS_Union
  <2> QED
    BY <1>3, <2>2, <2>3
<1>5. Cardinality(W \ started) = Cardinality(W) - Cardinality(started)
  <2>1. Cardinality(W \ started) = Cardinality(W) - Cardinality(W \cap started)
    BY <1>1, <1>3, FS_Difference
  <2>2. W \cap started = started
    BY <1>2
  <2> QED
    BY <2>1, <2>2
<1>6. Concurrency \in Nat
  BY QueueAssumption
<1>7. Cardinality(started) <= Concurrency - n
  BY <1>2, <1>3, <1>6 DEF Least
<1>8. WorkConserving'
  <2>1. SUFFICES ASSUME W \ started # {}
                 PROVE  n + Cardinality(started) = Concurrency
    BY <1>2 DEF WorkConserving
  <2>2. Cardinality(W \ started) # 0
    BY <2>1, <1>1, FS_Difference, FS_EmptySet
  <2>3. Cardinality(started) # Cardinality(W)
    BY <2>2, <1>5, <1>3
  <2> QED
    BY <2>3, <1>2, <1>3, <1>6 DEF Least
<1> QED
  BY <1>2, <1>3, <1>4, <1>5, <1>6, <1>7, <1>8 DEF SlotAccounting

LEMMA InitQueueInv == Init => QueueInv
  BY FS_EmptySet, QueueAssumption
  DEF Init, QueueInv, TypeOK, SlotAccounting, QueueBounded, WorkConserving

LEMMA NextQueueInv == QueueInv /\ [Next]_vars => QueueInv'
<1> SUFFICES ASSUME QueueInv, [Next]_vars
             PROVE  QueueInv'
  OBVIOUS
<1> USE DEF QueueInv
<1>f. IsFiniteSet(waiting) /\ IsFiniteSet(running)
  BY FS_Subset, QueueAssumption DEF TypeOK
<1>c. Concurrency \in Nat \ {0} /\ MaxQueue \in Nat \ {0}
  BY QueueAssumption
<1>1. ASSUME NEW x \in Item, NEW S \in SUBSET waiting, Enqueue(x, S)
      PROVE  QueueInv'
  <2> DEFINE kept == waiting \ S
             W == kept \cup {x}
             B == (before \cap (kept \X kept)) \cup (kept \X {x})
  <2>1. /\ W \in SUBSET Item
        /\ B \in SUBSET (W \X W)
        /\ W \cap running = {}
        /\ Pump(W, B, running, inFlight)
        /\ x \notin kept
        /\ Cardinality(kept) < MaxQueue
        /\ accepting' = accepting
    BY <1>1 DEF Enqueue, TypeOK, QueueBounded
  <2>2. IsFiniteSet(kept) /\ Cardinality(kept) \in Nat
    BY <1>f, FS_Difference, FS_CardinalityType, FS_Subset
  <2>3. Cardinality(W) = Cardinality(kept) + 1
    BY <2>1, <2>2, FS_AddElement
  <2> HIDE DEF W, B, kept
  <2>4. /\ inFlight \in Nat
        /\ running \in SUBSET Item
        /\ inFlight = Cardinality(running)
        /\ inFlight <= Concurrency
    BY DEF TypeOK, SlotAccounting
  <2>5. /\ waiting' \subseteq W
        /\ before' \subseteq waiting' \X waiting'
        /\ running' \subseteq Item
        /\ inFlight' \in Nat
        /\ SlotAccounting'
        /\ waiting' \cap running' = {}
        /\ Cardinality(waiting') <= Cardinality(W)
        /\ WorkConserving'
    BY <2>1, <2>4, PumpLemma
  <2>6. TypeOK'
    BY <2>1, <2>5 DEF TypeOK
  <2>7. IsFiniteSet(waiting') /\ Cardinality(waiting') \in Nat
    BY <2>6, FS_Subset, FS_CardinalityType, QueueAssumption DEF TypeOK
  <2>8. Cardinality(waiting') <= MaxQueue
    BY <2>1, <2>2, <2>3, <2>5, <2>7, <1>c
  <2> QED
    BY <2>5, <2>6, <2>8 DEF QueueBounded
<1>2. ASSUME NEW S \in SUBSET waiting, RemoveQueued(S)
      PROVE  QueueInv'
  <2>1. waiting' \subseteq waiting /\ UNCHANGED <<running, inFlight, accepting>>
    BY <1>2 DEF RemoveQueued
  <2>2. TypeOK'
    BY <1>2 DEF RemoveQueued, TypeOK
  <2>3. Cardinality(waiting') <= Cardinality(waiting)
        /\ Cardinality(waiting') \in Nat /\ Cardinality(waiting) \in Nat
    BY <2>1, <1>f, FS_Subset, FS_CardinalityType
  <2> QED
    BY <2>1, <2>2, <2>3, <1>c DEF SlotAccounting, QueueBounded, WorkConserving
<1>3. ASSUME NEW x \in running, Settle(x)
      PROVE  QueueInv'
  <2>1. /\ Cardinality(running) \in Nat
        /\ Cardinality(running \ {x}) = Cardinality(running) - 1
        /\ Cardinality(running \ {x}) \in Nat
    BY <1>f, FS_RemoveElement, FS_CardinalityType, FS_Subset
  <2> DEFINE R == running \ {x}
             n == inFlight - 1
  <2>2. /\ waiting \in SUBSET Item
        /\ before \in SUBSET (waiting \X waiting)
        /\ R \in SUBSET Item
        /\ waiting \cap R = {}
    BY DEF TypeOK, QueueBounded
  <2>3. /\ n \in Nat
        /\ n = Cardinality(R)
        /\ n <= Concurrency
        /\ inFlight # 0
    BY <2>1, <1>c DEF SlotAccounting
  <2>4. Pump(waiting, before, R, n) /\ accepting' = accepting
    BY <1>3, <2>3 DEF Settle
  <2> HIDE DEF R, n
  <2>5. /\ waiting' \subseteq waiting
        /\ before' \subseteq waiting' \X waiting'
        /\ running' \subseteq Item
        /\ inFlight' \in Nat
        /\ SlotAccounting'
        /\ waiting' \cap running' = {}
        /\ Cardinality(waiting') <= Cardinality(waiting)
        /\ WorkConserving'
    BY <2>2, <2>3, <2>4, PumpLemma
  <2>6. TypeOK'
    BY <2>4, <2>5 DEF TypeOK
  <2>7. Cardinality(waiting') \in Nat /\ Cardinality(waiting) \in Nat
    BY <2>5, <1>f, FS_Subset, FS_CardinalityType
  <2> QED
    BY <2>5, <2>6, <2>7, <1>c DEF QueueBounded
<1>4. CASE StopAccepting
  BY <1>4 DEF StopAccepting, TypeOK, SlotAccounting, QueueBounded, WorkConserving
<1>5. CASE Reset
  BY <1>5, FS_EmptySet, QueueAssumption
  DEF Reset, TypeOK, SlotAccounting, QueueBounded, WorkConserving
<1>6. CASE UNCHANGED vars
  BY <1>6 DEF vars, TypeOK, SlotAccounting, QueueBounded, WorkConserving
<1> QED
  BY <1>1, <1>2, <1>3, <1>4, <1>5, <1>6 DEF Next

(* The queue's variables keep their types whatever calls are made. *)
THEOREM QueueTypesHold == Spec => []TypeOK
  BY InitQueueInv, NextQueueInv, PTL DEF Spec, QueueInv

(* inFlight counts exactly the processors that have not settled, and never *)
(* exceeds the configured concurrency.                                     *)
THEOREM QueueSlots == Spec => []SlotAccounting
  BY InitQueueInv, NextQueueInv, PTL DEF Spec, QueueInv

(* maxQueue bounds the waiting items and none of them is running already.  *)
THEOREM QueueIsBounded == Spec => []QueueBounded
  BY InitQueueInv, NextQueueInv, PTL DEF Spec, QueueInv

(* No item waits while a processor is free: removing queued items or        *)
(* closing the queue never leaves a slot idle in front of waiting work.     *)
THEOREM NoIdleSlot == Spec => []WorkConserving
  BY InitQueueInv, NextQueueInv, PTL DEF Spec, QueueInv

(* FIFO: whoever starts leaves nobody behind who was queued before it and   *)
(* still waits, also when the same step withdraws items and adds one.       *)
THEOREM StartsOldestFirst == Spec => OldestFirst
<1> DEFINE InOrder == \A x \in waiting \cap running', y \in waiting \cap waiting' : <<x, y>> \in before
<1>1. QueueInv /\ [Next]_vars => [InOrder]_vars
  <2> SUFFICES ASSUME QueueInv, Next PROVE InOrder
    OBVIOUS
  <2>1. waiting \cap running = {}
    BY DEF QueueInv, QueueBounded
  <2>2. ASSUME NEW i \in Item, NEW S \in SUBSET waiting, Enqueue(i, S) PROVE InOrder
    <3> DEFINE kept == waiting \ S
               B == (before \cap (kept \X kept)) \cup (kept \X {i})
    <3>1. PICK started \in SUBSET (kept \cup {i}) :
            /\ \A x \in started, y \in (kept \cup {i}) \ started : <<x, y>> \in B
            /\ waiting' = (kept \cup {i}) \ started
            /\ running' = running \cup started
      BY <2>2 DEF Enqueue, Pump
    <3>2. i \notin waiting
      BY <2>2 DEF Enqueue
    <3> SUFFICES ASSUME NEW x \in waiting \cap running', NEW y \in waiting \cap waiting'
                 PROVE  <<x, y>> \in before
      OBVIOUS
    <3>3. x \in started /\ y \in (kept \cup {i}) \ started /\ y # i
      BY <2>1, <3>1, <3>2
    <3> QED
      BY <3>1, <3>3
  <2>3. ASSUME NEW z \in running, Settle(z) PROVE InOrder
    BY <2>1, <2>3 DEF Settle, Pump
  <2>4. CASE (\E S \in SUBSET waiting : RemoveQueued(S)) \/ StopAccepting \/ Reset
    BY <2>1, <2>4 DEF RemoveQueued, StopAccepting, Reset
  <2> QED
    BY <2>2, <2>3, <2>4 DEF Next
<1> QED
  BY <1>1, InitQueueInv, NextQueueInv, PTL DEF Spec, OldestFirst

-----------------------------------------------------------------------------
(* The delivery tracker.                                                    *)

Tracked(m) == stage[m] \in {"running", "delivering"}

(* A message is active in its own session, and just while it is tracked.    *)
ActiveInv ==
    /\ \A m \in Message : m \in active[SessionOf[m]] <=> Tracked(m)
    /\ \A s \in Session : \A m \in active[s] : SessionOf[m] = s

(* What was named while the run was tracked is there when the run ends.     *)
ConfirmedInv ==
    \A m \in confirmed :
        /\ stage[m] # "new"
        /\ stage[m] = "running" => byMessage[m] # None
        /\ stage[m] \in {"delivering", "delivered"} => m \in skipped

(* With scoped evidence a receipt belongs to a tracked message, and one of  *)
(* a session to one that has a tracked message.                             *)
ScopedInv ==
    Scoped =>
        /\ \A m \in Message : byMessage[m] # None => byMessage[m].of = m /\ Tracked(m)
        /\ \A s \in Session : bySession[s] # None => active[s] # {}

TrackerInv == TrackerTypes /\ ActiveInv /\ ConfirmedInv /\ ScopedInv

(* The one active message of a session is the one that is known to be.      *)
LEMMA SoleIsActive ==
    ASSUME TrackerTypes, NEW s \in Session, NEW m \in active[s]
    PROVE  SoleActive(s) \subseteq {m}
<1> SUFFICES ASSUME Cardinality(active[s]) = 1
             PROVE  active[s] \subseteq {m}
  BY DEF SoleActive
<1>1. IsFiniteSet(active[s])
  BY TrackerAssumption, FS_Subset DEF TrackerTypes
<1>2. PICK x : active[s] = {x}
  BY <1>1, FS_Singleton
<1> QED
  BY <1>2

(* A receipt says for whom the plugin sent, and what it named.              *)
LEMMA ReceiptIsMade ==
    ASSUME NEW m \in Message, NEW named \in {{}, {m}}, NEW scope \in {{}, {SessionOf[m]}}
    PROVE  /\ ReceiptFor(m, named, scope) \in Receipt
           /\ ReceiptFor(m, named, scope) # None
           /\ ReceiptFor(m, named, scope).of = m
           /\ named # {} => ReceiptFor(m, named, scope).names = "message"
BY TrackerAssumption DEF ReceiptFor, Receipt

(* What one report changes: a message that is named gets the receipt, any   *)
(* other only if it has none.                                               *)
LEMMA Reported ==
    ASSUME TrackerTypes, NEW named, NEW scope, NEW final, NEW r \in Receipt,
           RecordDelivery(named, scope, final, r), NEW x \in Message
    PROVE  /\ x \in named => byMessage'[x] = r
           /\ \/ byMessage'[x] = byMessage[x]
              \/ byMessage'[x] = r /\ (x \in named \/ (named = {} /\ byMessage[x] = None))
<1> DEFINE c == Credited(named, scope, final)
           kept == {y \in c : named # {} \/ byMessage[y] = None}
<1>1. byMessage' = [y \in Message |-> IF y \in kept THEN r ELSE byMessage[y]]
  BY DEF RecordDelivery
<1>2. named # {} => c = named
  BY DEF Credited
<1>3. x \in named => x \in kept
  BY <1>2
<1>4. x \in kept => x \in named \/ (named = {} /\ byMessage[x] = None)
  BY <1>2
<1> HIDE DEF c, kept
<1> QED
  BY <1>1, <1>3, <1>4

LEMMA ReportedTypes ==
    ASSUME TrackerTypes, NEW named, NEW scope, NEW final, NEW r \in Receipt,
           RecordDelivery(named, scope, final, r)
    PROVE  /\ byMessage' \in [Message -> Receipt \cup {None}]
           /\ bySession' \in [Session -> Receipt \cup {None}]
BY DEF RecordDelivery, TrackerTypes

(* With scoped evidence a report touches the message it is about, and the   *)
(* session of that message.                                                 *)
LEMMA ReportedScoped ==
    ASSUME TrackerTypes, ActiveInv, Scoped, NEW m \in Message, NEW named \in {{}, {m}},
           NEW scope \in {{}, {SessionOf[m]}}, NEW final \in BOOLEAN,
           PluginSends(m, named, scope, final)
    PROVE  /\ Tracked(m)
           /\ \A x \in Message : x # m => byMessage'[x] = byMessage[x]
           /\ \A s \in Session : s # SessionOf[m] => bySession'[s] = bySession[s]
<1> DEFINE r == ReceiptFor(m, named, scope)
           c == Credited(named, scope, final)
           kept == {x \in c : named # {} \/ byMessage[x] = None}
           keys == IF kept = {} THEN {} ELSE scope \cup UnscopedMatch(named, scope, final)
<1>1. m \in active[SessionOf[m]] /\ (named # {} \/ scope # {}) /\ SessionOf[m] \in Session
  BY TrackerAssumption DEF PluginSends, Scoped
<1>2. UnscopedMatch(named, scope, final) = {}
  BY <1>1 DEF UnscopedMatch
<1>3. c \subseteq {m}
  <2>1. CASE named # {}
    BY <2>1 DEF Credited
  <2>2. CASE named = {}
    <3>1. scope = {SessionOf[m]}
      BY <1>1, <2>2
    <3>2. c = SoleActive(SessionOf[m])
      BY <1>2, <2>2, <3>1 DEF Credited
    <3> QED
      BY <1>1, <3>2, SoleIsActive
  <2> QED
    BY <2>1, <2>2
<1>4. kept \subseteq {m} /\ keys \subseteq {SessionOf[m]}
  BY <1>2, <1>3
<1>5. /\ byMessage' = [x \in Message |-> IF x \in kept THEN r ELSE byMessage[x]]
      /\ bySession' = [s \in Session |-> IF s \in keys THEN r ELSE bySession[s]]
  BY DEF PluginSends, RecordDelivery
<1> HIDE DEF r, c, kept, keys
<1> QED
  BY <1>1, <1>4, <1>5 DEF ActiveInv

LEMMA TrackerStarts ==
    TrackerInit => TrackerInv
BY TrackerAssumption DEF TrackerInit, TrackerInv, TrackerTypes, ActiveInv, ConfirmedInv, ScopedInv, Tracked, Stage

(* One step keeps the invariant.                                            *)
LEMMA Step ==
    ASSUME TrackerInv, [TrackerNext]_trackerVars
    PROVE  TrackerInv'
<1> USE TrackerAssumption DEF TrackerInv
<1>1. CASE UNCHANGED trackerVars
  BY <1>1 DEF trackerVars, TrackerTypes, ActiveInv, ConfirmedInv, ScopedInv, Tracked, Scoped
<1>2. ASSUME NEW m \in Message, Begin(m)
      PROVE  TrackerInv'
  <2>1. TrackerTypes'
    BY <1>2 DEF Begin, TrackerTypes, Stage
  <2>2. ActiveInv'
    BY <1>2 DEF Begin, TrackerTypes, ActiveInv, Tracked
  <2>3. ConfirmedInv'
    BY <1>2 DEF Begin, TrackerTypes, ConfirmedInv
  <2>4. ScopedInv'
    BY <1>2 DEF Begin, TrackerTypes, ScopedInv, Scoped, Tracked
  <2> QED
    BY <2>1, <2>2, <2>3, <2>4
<1>3. ASSUME NEW m \in Message, Deliver(m)
      PROVE  TrackerInv'
  <2>1. TrackerTypes'
    BY <1>3 DEF Deliver, TrackerTypes, Stage
  <2>2. ActiveInv'
    BY <1>3 DEF Deliver, TrackerTypes, ActiveInv, Tracked
  <2>3. ConfirmedInv'
    BY <1>3 DEF Deliver, Lookup, TrackerTypes, ConfirmedInv
  <2>4. ScopedInv'
    BY <1>3 DEF Deliver, TrackerTypes, ScopedInv, Scoped, Tracked
  <2> QED
    BY <2>1, <2>2, <2>3, <2>4
<1>4. ASSUME NEW m \in Message, ClearDelivered(m) \/ Release(m)
      PROVE  TrackerInv'
  <2>1. /\ Clear(m) /\ UNCHANGED <<skipped, confirmed, sentFor, sends, evidence>>
        /\ \/ stage[m] = "delivering" /\ stage' = [stage EXCEPT ![m] = "delivered"]
           \/ stage[m] # "new" /\ stage' = [stage EXCEPT ![m] = "released"]
    BY <1>4 DEF ClearDelivered, Release
  <2>2. TrackerTypes'
    BY <2>1 DEF Clear, TrackerTypes, Stage
  <2>3. ActiveInv'
    BY <2>1 DEF Clear, TrackerTypes, ActiveInv, Tracked
  <2>4. ConfirmedInv'
    BY <2>1 DEF Clear, TrackerTypes, ConfirmedInv
  <2>5. ScopedInv'
    BY <2>1 DEF Clear, TrackerTypes, ScopedInv, Scoped, Tracked
  <2> QED
    BY <2>2, <2>3, <2>4, <2>5
<1>5. ASSUME NEW m \in Message, NEW named \in {{}, {m}}, NEW scope \in {{}, {SessionOf[m]}},
             NEW final \in BOOLEAN, PluginSends(m, named, scope, final)
      PROVE  TrackerInv'
  <2>1. /\ byMessage' \in [Message -> Receipt \cup {None}]
        /\ bySession' \in [Session -> Receipt \cup {None}]
        /\ \A x \in Message : byMessage'[x] = byMessage[x] \/ (byMessage'[x] # None /\ byMessage'[x].of = m)
        /\ named # {} => byMessage'[m] # None
    <3>1. PICK r : r = ReceiptFor(m, named, scope)
      OBVIOUS
    <3>2. r \in Receipt /\ r # None /\ r.of = m
      BY <3>1, ReceiptIsMade
    <3>3. RecordDelivery(named, scope, final, r)
      BY <1>5, <3>1 DEF PluginSends
    <3>4. \A x \in Message : /\ x \in named => byMessage'[x] = r
                             /\ byMessage'[x] = byMessage[x] \/ byMessage'[x] = r
      BY <3>2, <3>3, Reported
    <3> QED
      BY <3>2, <3>3, <3>4, ReportedTypes
  <2>2. UNCHANGED <<stage, active, skipped, evidence>> /\ stage[m] # "new"
    BY <1>5 DEF PluginSends
  <2>3. confirmed' = IF named # {} /\ stage[m] = "running" THEN confirmed \cup {m} ELSE confirmed
    BY <1>5 DEF PluginSends
  <2>4. TrackerTypes'
    BY <1>5, <2>1, <2>2, <2>3 DEF PluginSends, TrackerTypes
  <2>5. ActiveInv'
    BY <2>2 DEF ActiveInv, Tracked
  <2>6. ConfirmedInv'
    BY <2>1, <2>2, <2>3 DEF ConfirmedInv, TrackerTypes
  <2>7. ScopedInv'
    <3> SUFFICES ASSUME Scoped PROVE ScopedInv'
      BY <2>2 DEF ScopedInv, Scoped
    <3>1. /\ Tracked(m)
          /\ \A x \in Message : x # m => byMessage'[x] = byMessage[x]
          /\ \A s \in Session : s # SessionOf[m] => bySession'[s] = bySession[s]
      BY <1>5, ReportedScoped
    <3>2. active[SessionOf[m]] # {}
      BY <3>1 DEF ActiveInv
    <3> QED
      BY <2>1, <2>2, <3>1, <3>2 DEF ScopedInv, Tracked
  <2> QED
    BY <2>4, <2>5, <2>6, <2>7
<1> QED
  BY <1>1, <1>2, <1>3, <1>4, <1>5 DEF TrackerNext

LEMMA TrackerInvariant ==
    TrackerSpec => []TrackerInv
<1>1. TrackerInv /\ [TrackerNext]_trackerVars => TrackerInv'
  BY Step
<1> QED
  BY <1>1, TrackerStarts, PTL DEF TrackerSpec

(* TrackerTypes: the tracker's maps keep their types.                             *)
THEOREM TrackerTypesHold == TrackerSpec => []TrackerTypes
<1>1. TrackerInv => TrackerTypes
  BY DEF TrackerInv
<1> QED
  BY <1>1, TrackerInvariant, PTL

(* NamedReplyIsNotRepeated: a reply that the plugin has sent and named      *)
(* while its run was tracked is not sent again, whatever the evidence.      *)
THEOREM NamedReplySentOnce == TrackerSpec => []NamedReplyIsNotRepeated
<1>1. TrackerInv => NamedReplyIsNotRepeated
  BY DEF TrackerInv, ConfirmedInv, NamedReplyIsNotRepeated
<1> QED
  BY <1>1, TrackerInvariant, PTL

(* FiledTruly: with scoped evidence a receipt filed under a message is of   *)
(* that message's own run.                                                  *)
THEOREM ReceiptsAreTrue == TrackerSpec => []FiledTruly
<1>1. TrackerInv => FiledTruly
  BY DEF TrackerInv, ScopedInv, FiledTruly
<1> QED
  BY <1>1, TrackerInvariant, PTL

(* NothingLeftBehind: with scoped evidence no receipt outlives the runs of  *)
(* its session.                                                             *)
THEOREM ReceiptsAreCleared == TrackerSpec => []NothingLeftBehind
<1>1. TrackerInv => NothingLeftBehind
  BY TrackerAssumption DEF TrackerInv, ScopedInv, ActiveInv, NothingLeftBehind
<1> QED
  BY <1>1, TrackerInvariant, PTL

(* GuessNeverOverwrites: a receipt that the plugin named is never replaced  *)
(* by a guessed one.                                                        *)
THEOREM NamedStaysNamed == TrackerSpec => GuessNeverOverwrites
<1> DEFINE Keeps == \A m \in Message :
                       /\ byMessage[m] # None /\ byMessage[m].names = "message"
                       /\ byMessage'[m] # None
                       => byMessage'[m].names = "message"
<1>1. TrackerInv /\ [TrackerNext]_trackerVars => [Keeps]_trackerVars
  <2> SUFFICES ASSUME TrackerInv, TrackerNext PROVE Keeps
    OBVIOUS
  <2>1. ASSUME NEW m \in Message, NEW named \in {{}, {m}}, NEW scope \in {{}, {SessionOf[m]}},
               NEW final \in BOOLEAN, PluginSends(m, named, scope, final)
        PROVE  Keeps
    <3>1. PICK r : r = ReceiptFor(m, named, scope)
      OBVIOUS
    <3>2. r \in Receipt /\ (named # {} => r.names = "message")
      BY <3>1, ReceiptIsMade
    <3>3. RecordDelivery(named, scope, final, r)
      BY <2>1, <3>1 DEF PluginSends
    <3>4. \A x \in Message : \/ byMessage'[x] = byMessage[x]
                             \/ byMessage'[x] = r /\ (x \in named \/ byMessage[x] = None)
      BY <3>2, <3>3, Reported DEF TrackerInv
    <3> QED
      BY <3>2, <3>4
  <2>2. ASSUME NEW m \in Message, Begin(m) \/ Deliver(m) \/ ClearDelivered(m) \/ Release(m)
        PROVE  Keeps
    BY <2>2 DEF Begin, Deliver, ClearDelivered, Release, Clear, TrackerInv, TrackerTypes
  <2> QED
    BY <2>1, <2>2 DEF TrackerNext
<1>2. TrackerSpec => [][Keeps]_trackerVars
  BY <1>1, TrackerInvariant, PTL DEF TrackerSpec
<1> QED
  BY <1>2 DEF GuessNeverOverwrites
=============================================================================
