-------------------------- MODULE MCDeliveryTracker --------------------------
(***************************************************************************)
(* Three messages, two of them in one session.                             *)
(***************************************************************************)
EXTENDS DeliveryTracker, TLC

CONSTANTS m1, m2, m3, s1, s2

TwoShareASession == m1 :> s1 @@ m2 :> s1 @@ m3 :> s2
=============================================================================
