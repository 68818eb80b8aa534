---------------------------- MODULE MCChatRunner ----------------------------
(***************************************************************************)
(* Two calls that meet one failure: of one message that was pushed twice,  *)
(* or of two messages.  One call that meets two, of either message.        *)
(***************************************************************************)
EXTENDS ChatRunner, TLC

CONSTANTS c1, c2, m1, m2

MCPushes ==
    {[msg |-> c1 :> m1 @@ c2 :> m, trouble |-> 1] : m \in Message}
    \cup {[msg |-> c1 :> m @@ c2 :> Nobody, trouble |-> 2] : m \in Message}
=============================================================================
