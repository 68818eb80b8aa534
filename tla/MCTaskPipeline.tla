--------------------------- MODULE MCTaskPipeline ---------------------------
(***************************************************************************)
(* Small instances of TaskPipeline: two or three pushes each, chosen so    *)
(* that the pushes meet (same session, same message, or the last slot).    *)
(***************************************************************************)
EXTENDS TaskPipeline, TLC

CONSTANTS d1, d2, d3, m1, m2, m3, s1, s2

(* Three messages, or a message that is pushed twice and another one. *)
Distinct == [d \in Delivery |-> (d1 :> m1 @@ d2 :> m2 @@ d3 :> m3)[d]]
Repeated == [d \in Delivery |-> (d1 :> m1 @@ d2 :> m1 @@ d3 :> m2)[d]]

OneSession == m1 :> s1 @@ m2 :> s1 @@ m3 :> s1
TwoSessions == m1 :> s1 @@ m2 :> s1 @@ m3 :> s2

AllTurns == m1 :> "user_chat" @@ m2 :> "user_chat" @@ m3 :> "user_chat"
TurnsAndReminder ==
    m1 :> "user_chat" @@ m2 :> "user_chat" @@ m3 :> "system_reminder"
TurnAndHandshake ==
    m1 :> "user_chat" @@ m2 :> "other" @@ m3 :> "other"
=============================================================================
