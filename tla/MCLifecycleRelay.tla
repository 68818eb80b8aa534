-------------------------- MODULE MCLifecycleRelay --------------------------
(***************************************************************************)
(* Two runs, in sessions of their own or one after the other in the same.  *)
(***************************************************************************)
EXTENDS LifecycleRelay, TLC

CONSTANTS r1, r2, s1, s2

ApartOrTogether == {(r1 :> s1) @@ (r2 :> s2), (r1 :> s1) @@ (r2 :> s1)}
Together == {(r1 :> s1) @@ (r2 :> s1)}
=============================================================================
