-------------------------- MODULE MCEventForwarder --------------------------
(***************************************************************************)
(* A delta, the terminal event with the same text, and a delta that says   *)
(* more, in any order, before and after the reply.                         *)
(***************************************************************************)
EXTENDS EventForwarder

MCEvents ==
    {[seq |-> 1, words |-> 1, terminal |-> FALSE],
     [seq |-> 2, words |-> 1, terminal |-> TRUE],
     [seq |-> 3, words |-> 2, terminal |-> FALSE]}
=============================================================================
