------------------------------ MODULE TaskQueue ------------------------------
(***************************************************************************)
(* The relay's in-memory task queue (src/queue/inMemoryTaskQueue.ts): a    *)
(* FIFO array of waiting items, bounded by maxQueue, from which pump()     *)
(* starts up to `concurrency' processors.                                  *)
(*                                                                         *)
(* The array is kept as its set of items, `waiting', and their order,      *)
(* `before': <<x, y>> is in `before' iff x stands ahead of y.  `running'   *)
(* is the set of items whose processor promise has not settled; the code   *)
(* does not keep it, it keeps only the counter `inFlight'.  That the two   *)
(* agree after every interleaving of calls and settlements is what the     *)
(* theorems in ProcessorProofs establish.                                  *)
(*                                                                         *)
(* Each action runs to completion without an await in between, as the code *)
(* does, so pump() is part of the action that calls it.                    *)
(***************************************************************************)
EXTENDS Integers, FiniteSets

CONSTANTS Item,         \* what is queued
          Concurrency,  \* processors that may be in flight together
          MaxQueue      \* items that may wait

(* The constructor truncates both options and raises them to at least 1. *)
ASSUME QueueAssumption ==
    /\ IsFiniteSet(Item)
    /\ Concurrency \in Nat \ {0}
    /\ MaxQueue \in Nat \ {0}

VARIABLES waiting, before, running, inFlight, accepting

vars == <<waiting, before, running, inFlight, accepting>>

TypeOK ==
    /\ waiting \subseteq Item
    /\ before \subseteq waiting \X waiting
    /\ running \subseteq Item
    /\ inFlight \in Nat
    /\ accepting \in BOOLEAN

Least(a, b) == IF a <= b THEN a ELSE b

Init ==
    /\ waiting = {}
    /\ before = {}
    /\ running = {}
    /\ inFlight = 0
    /\ accepting = TRUE

(* Mutants of the actions stand before the action they vary; no run uses    *)
(* them as they are.  This one starts any waiting item.                     *)
PumpAnyOrder(W, B, R, n) ==
    \E started \in SUBSET W :
        /\ Cardinality(started) = Least(Concurrency - n, Cardinality(W))
        /\ waiting' = W \ started
        /\ before' = B \cap (waiting' \X waiting')
        /\ running' = R \cup started
        /\ inFlight' = n + Cardinality(started)

(* pump(): shift the oldest items while a processor is free.  W and B are   *)
(* the array after the caller's own change, R the processors in flight and  *)
(* n the counter.                                                           *)
Pump(W, B, R, n) ==
    \E started \in SUBSET W :
        /\ Cardinality(started) = Least(Concurrency - n, Cardinality(W))
        /\ \A x \in started, y \in W \ started : <<x, y>> \in B
        /\ waiting' = W \ started
        /\ before' = B \cap (waiting' \X waiting')
        /\ running' = R \cup started
        /\ inFlight' = n + Cardinality(started)

(* enqueue(x).  A caller may withdraw items with removeQueued and go on to  *)
(* enqueue in the same synchronous run (index.ts onMessage), so the items   *)
(* it withdrew, S, are a parameter: no other event comes in between.        *)
Enqueue(x, S) ==
    /\ accepting
    /\ x \notin waiting \cup running
    /\ Cardinality(waiting \ S) < MaxQueue
    /\ LET kept == waiting \ S IN
       Pump(kept \cup {x},
            (before \cap (kept \X kept)) \cup (kept \X {x}), running, inFlight)
    /\ UNCHANGED accepting

(* removeQueued(predicate): S are the items the predicate holds of.  The   *)
(* code does not pump here: no processor became free.                      *)
RemoveQueued(S) ==
    /\ waiting' = waiting \ S
    /\ before' = before \cap (waiting' \X waiting')
    /\ UNCHANGED <<running, inFlight, accepting>>

(* Mutant: the slot given back without a pump(). *)
SettleWithoutPump(x) ==
    /\ x \in running
    /\ running' = running \ {x}
    /\ inFlight' = inFlight - 1
    /\ UNCHANGED <<waiting, before, accepting>>

(* The finally() of pump(): the processor of x settled, its slot is free.  *)
Settle(x) ==
    /\ x \in running
    /\ Pump(waiting, before, running \ {x},
            IF inFlight = 0 THEN 0 ELSE inFlight - 1)
    /\ UNCHANGED accepting

StopAccepting ==
    /\ accepting' = FALSE
    /\ UNCHANGED <<waiting, before, running, inFlight>>

(* The process dies: a restarted one builds a new queue (index.ts). *)
Reset ==
    /\ waiting' = {}
    /\ before' = {}
    /\ running' = {}
    /\ inFlight' = 0
    /\ accepting' = TRUE

Next ==
    \/ \E x \in Item, S \in SUBSET waiting : Enqueue(x, S)
    \/ \E S \in SUBSET waiting : RemoveQueued(S)
    \/ \E x \in running : Settle(x)
    \/ StopAccepting
    \/ Reset

Spec == Init /\ [][Next]_vars

-----------------------------------------------------------------------------
(* The counter counts the processors in flight: every settlement gives back *)
(* exactly one slot, so none leaks and none is handed out twice, whatever   *)
(* order processors settle in.                                              *)
SlotAccounting ==
    /\ inFlight = Cardinality(running)
    /\ inFlight <= Concurrency

(* maxQueue bounds what waits, and an item is never both waiting and        *)
(* running (it would be processed twice).                                   *)
QueueBounded ==
    /\ Cardinality(waiting) <= MaxQueue
    /\ waiting \cap running = {}

(* pump() is called at every point where a slot or an item appears: nothing *)
(* waits while a processor is free.                                         *)
WorkConserving == waiting # {} => inFlight = Concurrency

(* FIFO: an item that starts leaves nobody behind who came earlier and      *)
(* still waits.  (An item withdrawn in the same step is not behind.)        *)
OldestFirst ==
    [][\A x \in waiting \cap running', y \in waiting \cap waiting' :
            <<x, y>> \in before]_vars
=============================================================================
