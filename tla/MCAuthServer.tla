---------------------------- MODULE MCAuthServer ----------------------------
(* Two sessions from two addresses and the requests they make. *)
EXTENDS AuthServer, TLC

CONSTANTS r1, r2, r3, s1, s2, ip1, ip2, acc1, acc2, pl1

MCSessionOf == (r1 :> s1) @@ (r2 :> s1) @@ (r3 :> s2)
MCKindsOf   == (r1 :> {"login"}) @@ (r2 :> {"login", "list", "select"}) @@ (r3 :> {"login"})
MCAddressOf == (s1 :> ip1) @@ (s2 :> ip2)
MCSymmetry  == Permutations({acc1, acc2})
MCStoppers  == {"signal"}
=============================================================================
