----------------------------- MODULE ProfileLock -----------------------------
(***************************************************************************)
(* What the claims on a WireGuard profile promise: an exclusive lock that  *)
(* is handed over only while no device uses the profile.                   *)
(***************************************************************************)
CONSTANTS Devices, Nobody

VARIABLES
    owner,  \* the device that may use the profile
    using   \* the devices that do

Init == owner = Nobody /\ using = {}

\* The lock passes to d, whoever had it and forgot to return it.
Grant(d) == using \subseteq {d} /\ owner' = d /\ UNCHANGED using

Start(d) == owner = d /\ using' = {d} /\ UNCHANGED owner

Stop(d) == d \in using /\ using' = using \ {d} /\ UNCHANGED owner

Return == using = {} /\ owner' = Nobody /\ UNCHANGED using

Next == \/ \E d \in Devices : Grant(d) \/ Start(d) \/ Stop(d)
        \/ Return

Spec == Init /\ [][Next]_<<owner, using>>

=============================================================================
