--------------------------- MODULE MessageContract ---------------------------
(***************************************************************************)
(* What the relay promises the backend about each push, whatever happens   *)
(* inside: the abstract specification that TaskPipeline implements.        *)
(*                                                                         *)
(*   unsent    the push has not been made                                  *)
(*   refused   it was answered 429 or 503: the relay never speaks of it    *)
(*   open      it was accepted and the relay is at work on it              *)
(*   answered  the backend has a terminal outcome for it                   *)
(*   kept      the relay gave up for now, its durable record remains       *)
(*   silent    the relay has no memory of it and never answers it          *)
(***************************************************************************)
EXTENDS Naturals

CONSTANTS Delivery,
          Once      \* deliveries whose message is pushed only once

VARIABLES standing,   \* [Delivery -> Standing]
          answers,    \* [Delivery -> Nat]: outcomes the backend received
          doubtful    \* deliveries the relay cannot know to be answered

contractVars == <<standing, answers, doubtful>>

Standing == {"unsent", "refused", "open", "answered", "kept", "silent"}

Init ==
    /\ standing = [d \in Delivery |-> "unsent"]
    /\ answers = [d \in Delivery |-> 0]
    /\ doubtful = {}

(* What one step may do to one delivery.  A death of the process moves many *)
(* deliveries at once, so a step is a conjunction over them.                *)
Moves(d) == standing[d] # standing'[d]
Counts(d) == answers'[d] = answers[d] + 1
Still(d) == answers'[d] = answers[d]

Step(d) ==
    \/ ~Moves(d) /\ Still(d)
    \/ standing[d] = "unsent" /\ standing'[d] \in {"open", "refused"} /\ Still(d)
    \/ standing[d] = "open" /\ standing'[d] = "answered" /\ Counts(d)
    \/ standing[d] = "open" /\ standing'[d] \in {"kept", "silent"} /\ Still(d)
    \/ standing[d] = "kept" /\ standing'[d] = "answered" /\ Counts(d)
    \/ /\ standing[d] = "kept" /\ standing'[d] = "silent" /\ Still(d)
       /\ d \notin Once
    \/ /\ standing[d] = "answered" /\ ~Moves(d) /\ Counts(d)
       /\ d \in doubtful

Next ==
    /\ standing' \in [Delivery -> Standing]
    /\ \A d \in Delivery : Step(d)
    /\ doubtful \subseteq doubtful'

Spec == Init /\ [][Next]_contractVars

(* No accepted push stays open for ever. *)
Settles == \A d \in Delivery : standing[d] = "open" ~> standing[d] # "open"
=============================================================================
