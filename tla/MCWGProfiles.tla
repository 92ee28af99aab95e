---------------------------- MODULE MCWGProfiles ----------------------------
(***************************************************************************)
(* Instances of WGProfiles for TLC: each device is logged in as one user.  *)
(***************************************************************************)
EXTENDS WGProfiles, TLC

CONSTANTS d1, d2, d3, u1, u2

\* Two devices of two users; three devices of two users.
TwoDevices == d1 :> u1 @@ d2 :> u2
ThreeDevices == d1 :> u1 @@ d2 :> u2 @@ d3 :> u2

=============================================================================
