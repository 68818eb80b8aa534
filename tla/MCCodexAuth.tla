---------------------------- MODULE MCCodexAuth ----------------------------
(***************************************************************************)
(* Two bundles, each of its own profile, and one device login.             *)
(***************************************************************************)
EXTENDS CodexAuth, TLC

CONSTANTS b1, b2, p1, p2, l1

MCProfileOf == b1 :> p1 @@ b2 :> p2
=============================================================================
