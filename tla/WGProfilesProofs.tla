-------------------------- MODULE WGProfilesProofs --------------------------
(***************************************************************************)
(* What WGProfiles promises for any number of devices, users, heartbeats   *)
(* to a lapse, and choice of what users and admins do.                     *)
(***************************************************************************)
EXTENDS WGProfiles, FiniteSetTheorems, TLAPS

USE DEF Handler, Request, NoEdit, row, threads, local

\* An admin's assignment under way is of a user.
Editing ==
    \A a \in Editors : editor[a].pc \in {"assign", "clear"} => editor[a].user \in Users

TypeInv == TypeOK /\ Editing

\* A device that is connecting has no connection, only a connection has a
\* heartbeat loop and a ticker, and only a tunnel that is up outlives a claim.
DeviceInv ==
    /\ \A d \in Devices : ui[d] # "idle" => d \notin sess
    /\ \A d \in Devices : beat[d] # "none" <=> d \in sess
    /\ due \subseteq sess
    /\ \A d \in Devices : d \notin tun => lostFor[d] = 0

\* The heartbeat of this interval has not been answered yet.
Due(d) == d \in due \/ beat[d] \in Request

\* The claim of a device that was just granted or renewed is new; that of a
\* connected device that missed too few heartbeats for a lapse is at most as old
\* as these.
ClaimInv ==
    /\ ~exists => holder = NoDevice
    /\ \A d \in Devices : holder = d =>
          /\ ui[d] \in {"reread", "config", "connect"} \/ beat[d] = "hbRead" => age = 0
          /\ d \in sess /\ missed[d] < TTL - 1
                => age <= missed[d] + (IF Due(d) THEN 1 ELSE 0)

\* While the server answers, a tunnel without the claim waits for the answer
\* to one heartbeat, the one that will tell the device.
LossInv ==
    \A d \in tun \intersect sess :
        lostFor[d] # 0 => lostFor[d] = 1 /\ holder # d /\ Due(d)

\* One handler of a device at a time, releases before the next connection,
\* every request and every call of the service answered, and nobody who takes a
\* claim away.
Undisturbed ==
    /\ {"requests", "releases"} \subseteq Ordered
    /\ "net" \notin Faulty /\ "ipc" \notin Faulty
    /\ \A op \in {"kill", "adminRelease", "delete", "unassign"} : op \notin Ops

\* Then a device past the UPDATE of its claim has the claim or is refused, one
\* that releases is disconnected, and every tunnel is the holder's.
OrderInv ==
    /\ exists
    /\ \A a \in Editors : editor[a].pc # "clear"
    /\ \A d \in Devices : missed[d] = 0
    /\ \A d, e \in Devices : ui[d] \in Handler /\ ui[e] \in Handler => d = e
    /\ \A d \in releasing : ui[d] = "idle" /\ d \notin sess
    /\ \A d \in tun : d \in sess /\ holder = d
    /\ \A d \in Devices :
          /\ ui[d] \in {"config", "connect"} => holder = d
          /\ ui[d] = "reread" => holder = d \/ Held

AtMostOne(S) == \A x, y \in S : x = y

\* What an admin's request has checked is still so when it writes.
SharedInv ==
    /\ shared \/ AtMostOne(assigned)
    /\ \A a \in Editors :
          /\ editor[a].pc = "assign" => shared \/ assigned \subseteq {editor[a].user}
          /\ editor[a].pc = "update" => editor[a].to \/ AtMostOne(assigned)

-----------------------------------------------------------------------------
(* Sets of at most one element. *)

\* For a finite set, at most one element is a cardinality of at most one.
LEMMA AtMostOneCardinality ==
  ASSUME NEW S, IsFiniteSet(S)
  PROVE  Cardinality(S) <= 1 <=> AtMostOne(S)
<1>1. CASE S = {}
  BY <1>1, FS_EmptySet DEF AtMostOne
<1>2. ASSUME NEW x \in S PROVE Cardinality(S) <= 1 <=> AtMostOne(S)
  <2>1. /\ IsFiniteSet(S \ {x})
        /\ Cardinality(S) \in Nat
        /\ Cardinality(S \ {x}) = Cardinality(S) - 1
    BY <1>2, FS_RemoveElement, FS_CardinalityType
  <2>2. Cardinality(S) <= 1 <=> Cardinality(S \ {x}) = 0
    BY <2>1, FS_CardinalityType
  <2>3. Cardinality(S \ {x}) = 0 <=> S \ {x} = {}
    BY <2>1, FS_EmptySet
  <2>4. S \ {x} = {} <=> AtMostOne(S)
    BY <1>2 DEF AtMostOne
  <2> QED
    BY <2>2, <2>3, <2>4
<1> QED
  BY <1>1, <1>2

-----------------------------------------------------------------------------
(* Types. *)

\* The types, and that an assignment under way is of a user.
LEMMA TypeStep ==
  ASSUME TypeInv, [Next]_vars
  PROVE  TypeInv'
<1> USE DEF TypeInv, TypeOK, Editing
<1>1. ASSUME NEW d \in Devices, Connect(d) PROVE TypeInv'
  BY <1>1, ConstantsOK DEF Connect, Teardown, NoConnection, Strand, At, Beat
<1>2. ASSUME NEW d \in Devices, ClaimCheck(d) PROVE TypeInv'
  BY <1>2 DEF ClaimCheck, At
<1>3. ASSUME NEW d \in Devices, ClaimUpdate(d) PROVE TypeInv'
  BY <1>3, ConstantsOK DEF ClaimUpdate, SetHolder, At
<1>4. ASSUME NEW d \in Devices, ClaimReread(d) PROVE TypeInv'
  BY <1>4 DEF ClaimReread, At
<1>5. ASSUME NEW d \in Devices, ClaimConfig(d) PROVE TypeInv'
  BY <1>5 DEF ClaimConfig, At
<1>6. ASSUME NEW d \in Devices, ClaimLost(d) PROVE TypeInv'
  BY <1>6 DEF ClaimLost, At
<1>7. ASSUME NEW d \in Devices, TunnelUp(d) PROVE TypeInv'
  BY <1>7, ConstantsOK DEF TunnelUp, At, Beat
<1>8. ASSUME NEW d \in Devices, Disconnect(d) PROVE TypeInv'
  BY <1>8, ConstantsOK DEF Disconnect, Teardown, Strand, Beat
<1>9. ASSUME NEW d \in Devices, Release(d) PROVE TypeInv'
  BY <1>9, ConstantsOK DEF Release, ClearHolder
<1>10. ASSUME NEW d \in Devices, GiveUp(d) PROVE TypeInv'
  BY <1>10 DEF GiveUp
<1>11. ASSUME NEW d \in Devices, StartBeat(d) PROVE TypeInv'
  BY <1>11, ConstantsOK DEF StartBeat, Teardown, Beat
<1>12. ASSUME NEW d \in Devices, BeatCheck(d) PROVE TypeInv'
  BY <1>12, ConstantsOK DEF BeatCheck, BeatRefused, Teardown, Beat
<1>13. ASSUME NEW d \in Devices, BeatUpdate(d) PROVE TypeInv'
  BY <1>13, ConstantsOK DEF BeatUpdate, Beat
<1>14. ASSUME NEW d \in Devices, BeatRead(d) PROVE TypeInv'
  BY <1>14, ConstantsOK DEF BeatRead, BeatRefused, Teardown, Beat
<1>15. ASSUME NEW d \in Devices, BeatFails(d) PROVE TypeInv'
  BY <1>15, ConstantsOK DEF BeatFails, Beat
<1>16. ASSUME NEW d \in Devices, StrayBeat(d) PROVE TypeInv'
  BY <1>16, ConstantsOK DEF StrayBeat, Teardown, NoConnection, Beat
<1>17. ASSUME NEW d \in Devices, TunnelDies(d) PROVE TypeInv'
  BY <1>17, ConstantsOK DEF TunnelDies
<1>18. ASSUME NEW d \in Devices, Kill(d) PROVE TypeInv'
  BY <1>18, ConstantsOK DEF Kill, Beat
<1>19. ASSUME NEW d \in Devices, Restart(d) PROVE TypeInv'
  BY <1>19, ConstantsOK DEF Restart
<1>20. ASSUME Tick PROVE TypeInv'
  BY <1>20, ConstantsOK DEF Tick
<1>21. ASSUME AdminRelease PROVE TypeInv'
  BY <1>21 DEF AdminRelease, ClearHolder
<1>22. ASSUME DeleteProfile PROVE TypeInv'
  <2>1. exists' \in BOOLEAN
    BY <1>22 DEF DeleteProfile
  <2>2. assigned' \subseteq Users
    BY <1>22 DEF DeleteProfile
  <2>3. holder' = NoDevice /\ holderUser' = NoUser /\ age' \in 0 .. TTL + 1
    BY <1>22 DEF DeleteProfile, ClearHolder
  <2> QED
    BY <1>22, <2>1, <2>2, <2>3 DEF DeleteProfile
<1>23. ASSUME NEW a \in Editors, NEW u \in Users, AssignCheck(a, u) PROVE TypeInv'
  BY <1>23 DEF AssignCheck, Edit
<1>24. ASSUME NEW a \in Editors, AssignInsert(a) PROVE TypeInv'
  BY <1>24 DEF AssignInsert, EditDone
<1>25. ASSUME NEW a \in Editors, NEW u \in Users, UnassignDelete(a, u) PROVE TypeInv'
  BY <1>25 DEF UnassignDelete, Edit
<1>26. ASSUME NEW a \in Editors, UnassignClear(a) PROVE TypeInv'
  BY <1>26, ConstantsOK DEF UnassignClear, ClearHolder, EditDone
<1>27. ASSUME NEW a \in Editors, NEW to \in BOOLEAN, UpdateCheck(a, to) PROVE TypeInv'
  BY <1>27 DEF UpdateCheck, Edit
<1>28. ASSUME NEW a \in Editors, UpdateWrite(a) PROVE TypeInv'
  BY <1>28 DEF UpdateWrite, EditDone
<1>29. ASSUME Expire PROVE TypeInv'
  BY <1>29, ConstantsOK DEF Expire
<1>30. CASE UNCHANGED vars
  BY <1>30 DEF vars
<1> QED
  BY <1>1, <1>2, <1>3, <1>4, <1>5, <1>6, <1>7, <1>8, <1>9, <1>10, <1>11, <1>12,
     <1>13, <1>14, <1>15, <1>16, <1>17, <1>18, <1>19, <1>20, <1>21, <1>22, <1>23,
     <1>24, <1>25, <1>26, <1>27, <1>28, <1>29, <1>30 DEF Next, ClaimStep, BeatStep, Lost,
     UserStep, EditStep, StartEdit

-----------------------------------------------------------------------------
(* Devices, claims and lost claims. *)

\* No step gives a connecting device a connection or a tunnel.
LEMMA DeviceStep ==
  ASSUME TypeInv, DeviceInv, [Next]_vars
  PROVE  DeviceInv'
<1> USE DEF TypeInv, TypeOK, DeviceInv
<1>1. ASSUME NEW d \in Devices, Connect(d) PROVE DeviceInv'
  BY <1>1 DEF Connect, Teardown, NoConnection, At, Beat
<1>2. ASSUME NEW d \in Devices, ClaimCheck(d) PROVE DeviceInv'
  BY <1>2 DEF ClaimCheck, At
<1>3. ASSUME NEW d \in Devices, ClaimUpdate(d) PROVE DeviceInv'
  BY <1>3 DEF ClaimUpdate, At
<1>4. ASSUME NEW d \in Devices, ClaimReread(d) PROVE DeviceInv'
  BY <1>4 DEF ClaimReread, At
<1>5. ASSUME NEW d \in Devices, ClaimConfig(d) PROVE DeviceInv'
  BY <1>5 DEF ClaimConfig, At
<1>6. ASSUME NEW d \in Devices, ClaimLost(d) PROVE DeviceInv'
  BY <1>6 DEF ClaimLost, At
<1>7. ASSUME NEW d \in Devices, TunnelUp(d) PROVE DeviceInv'
  BY <1>7 DEF TunnelUp, At, Beat
<1>8. ASSUME NEW d \in Devices, Disconnect(d) PROVE DeviceInv'
  BY <1>8 DEF Disconnect, Teardown, Beat
<1>9. ASSUME NEW d \in Devices, Release(d) PROVE DeviceInv'
  BY <1>9 DEF Release
<1>10. ASSUME NEW d \in Devices, GiveUp(d) PROVE DeviceInv'
  BY <1>10 DEF GiveUp
<1>11. ASSUME NEW d \in Devices, StartBeat(d) PROVE DeviceInv'
  BY <1>11 DEF StartBeat, Teardown, Beat
<1>12. ASSUME NEW d \in Devices, BeatCheck(d) PROVE DeviceInv'
  BY <1>12 DEF BeatCheck, BeatRefused, Teardown, Beat
<1>13. ASSUME NEW d \in Devices, BeatUpdate(d) PROVE DeviceInv'
  BY <1>13 DEF BeatUpdate, Beat
<1>14. ASSUME NEW d \in Devices, BeatRead(d) PROVE DeviceInv'
  BY <1>14 DEF BeatRead, BeatRefused, Teardown, Beat
<1>15. ASSUME NEW d \in Devices, BeatFails(d) PROVE DeviceInv'
  BY <1>15 DEF BeatFails, Beat
<1>16. ASSUME NEW d \in Devices, StrayBeat(d) PROVE DeviceInv'
  BY <1>16 DEF StrayBeat, Teardown, NoConnection, Beat
<1>17. ASSUME NEW d \in Devices, TunnelDies(d) PROVE DeviceInv'
  BY <1>17 DEF TunnelDies
<1>18. ASSUME NEW d \in Devices, Kill(d) PROVE DeviceInv'
  BY <1>18 DEF Kill, Beat
<1>19. ASSUME NEW d \in Devices, Restart(d) PROVE DeviceInv'
  BY <1>19 DEF Restart
<1>20. ASSUME Tick PROVE DeviceInv'
  BY <1>20 DEF Tick
<1>21. ASSUME AdminRelease PROVE DeviceInv'
  BY <1>21 DEF AdminRelease
<1>22. ASSUME DeleteProfile PROVE DeviceInv'
  BY <1>22 DEF DeleteProfile
<1>23. ASSUME NEW a \in Editors, NEW u \in Users, AssignCheck(a, u) PROVE DeviceInv'
  BY <1>23 DEF AssignCheck
<1>24. ASSUME NEW a \in Editors, AssignInsert(a) PROVE DeviceInv'
  BY <1>24 DEF AssignInsert
<1>25. ASSUME NEW a \in Editors, NEW u \in Users, UnassignDelete(a, u) PROVE DeviceInv'
  BY <1>25 DEF UnassignDelete
<1>26. ASSUME NEW a \in Editors, UnassignClear(a) PROVE DeviceInv'
  BY <1>26 DEF UnassignClear
<1>27. ASSUME NEW a \in Editors, NEW to \in BOOLEAN, UpdateCheck(a, to) PROVE DeviceInv'
  BY <1>27 DEF UpdateCheck
<1>28. ASSUME NEW a \in Editors, UpdateWrite(a) PROVE DeviceInv'
  BY <1>28 DEF UpdateWrite
<1>29. ASSUME Expire PROVE DeviceInv'
  BY <1>29 DEF Expire
<1>30. CASE UNCHANGED vars
  BY <1>30 DEF vars
<1> QED
  BY <1>1, <1>2, <1>3, <1>4, <1>5, <1>6, <1>7, <1>8, <1>9, <1>10, <1>11, <1>12,
     <1>13, <1>14, <1>15, <1>16, <1>17, <1>18, <1>19, <1>20, <1>21, <1>22, <1>23,
     <1>24, <1>25, <1>26, <1>27, <1>28, <1>29, <1>30 DEF Next, ClaimStep, BeatStep, Lost,
     UserStep, EditStep, StartEdit

\* A claim ages with the clock only, and the clock waits for the heartbeats
\* of the last interval.
LEMMA ClaimInvStep ==
  ASSUME TypeInv, DeviceInv, ClaimInv, [Next]_vars
  PROVE  ClaimInv'
<1> USE DEF TypeInv, TypeOK, DeviceInv, ClaimInv, Due
<1>1. ASSUME NEW d \in Devices, Connect(d) PROVE ClaimInv'
  BY <1>1 DEF Connect, Teardown, NoConnection, At, Beat
<1>2. ASSUME NEW d \in Devices, ClaimCheck(d) PROVE ClaimInv'
  BY <1>2 DEF ClaimCheck, At
<1>3. ASSUME NEW d \in Devices, ClaimUpdate(d) PROVE ClaimInv'
  BY <1>3, ConstantsOK DEF ClaimUpdate, SetHolder, At
<1>4. ASSUME NEW d \in Devices, ClaimReread(d) PROVE ClaimInv'
  BY <1>4 DEF ClaimReread, At
<1>5. ASSUME NEW d \in Devices, ClaimConfig(d) PROVE ClaimInv'
  BY <1>5 DEF ClaimConfig, At
<1>6. ASSUME NEW d \in Devices, ClaimLost(d) PROVE ClaimInv'
  BY <1>6 DEF ClaimLost, At
<1>7. ASSUME NEW d \in Devices, TunnelUp(d) PROVE ClaimInv'
  BY <1>7 DEF TunnelUp, At, Beat
<1>8. ASSUME NEW d \in Devices, Disconnect(d) PROVE ClaimInv'
  BY <1>8 DEF Disconnect, Teardown, Beat
<1>9. ASSUME NEW d \in Devices, Release(d) PROVE ClaimInv'
  BY <1>9, ConstantsOK DEF Release, ClearHolder
<1>10. ASSUME NEW d \in Devices, GiveUp(d) PROVE ClaimInv'
  BY <1>10 DEF GiveUp
<1>11. ASSUME NEW d \in Devices, StartBeat(d) PROVE ClaimInv'
  BY <1>11 DEF StartBeat, Teardown, Beat
<1>12. ASSUME NEW d \in Devices, BeatCheck(d) PROVE ClaimInv'
  BY <1>12 DEF BeatCheck, BeatRefused, Teardown, Beat
<1>13. ASSUME NEW d \in Devices, BeatUpdate(d) PROVE ClaimInv'
  BY <1>13 DEF BeatUpdate, Beat
<1>14. ASSUME NEW d \in Devices, BeatRead(d) PROVE ClaimInv'
  BY <1>14 DEF BeatRead, BeatRefused, Teardown, Beat
<1>15. ASSUME NEW d \in Devices, BeatFails(d) PROVE ClaimInv'
  BY <1>15, ConstantsOK DEF BeatFails, Beat
<1>16. ASSUME NEW d \in Devices, StrayBeat(d) PROVE ClaimInv'
  BY <1>16 DEF StrayBeat, Teardown, NoConnection, Beat
<1>17. ASSUME NEW d \in Devices, TunnelDies(d) PROVE ClaimInv'
  BY <1>17 DEF TunnelDies
<1>18. ASSUME NEW d \in Devices, Kill(d) PROVE ClaimInv'
  BY <1>18 DEF Kill, Beat
<1>19. ASSUME NEW d \in Devices, Restart(d) PROVE ClaimInv'
  BY <1>19 DEF Restart
<1>20. ASSUME Tick PROVE ClaimInv'
  BY <1>20 DEF Tick, Busy
<1>21. ASSUME AdminRelease PROVE ClaimInv'
  BY <1>21, ConstantsOK DEF AdminRelease, ClearHolder
<1>22. ASSUME DeleteProfile PROVE ClaimInv'
  BY <1>22, ConstantsOK DEF DeleteProfile, ClearHolder
<1>23. ASSUME NEW a \in Editors, NEW u \in Users, AssignCheck(a, u) PROVE ClaimInv'
  BY <1>23 DEF AssignCheck
<1>24. ASSUME NEW a \in Editors, AssignInsert(a) PROVE ClaimInv'
  BY <1>24 DEF AssignInsert
<1>25. ASSUME NEW a \in Editors, NEW u \in Users, UnassignDelete(a, u) PROVE ClaimInv'
  BY <1>25 DEF UnassignDelete
<1>26. ASSUME NEW a \in Editors, UnassignClear(a) PROVE ClaimInv'
  BY <1>26, ConstantsOK DEF UnassignClear, ClearHolder
<1>27. ASSUME NEW a \in Editors, NEW to \in BOOLEAN, UpdateCheck(a, to) PROVE ClaimInv'
  BY <1>27 DEF UpdateCheck
<1>28. ASSUME NEW a \in Editors, UpdateWrite(a) PROVE ClaimInv'
  BY <1>28 DEF UpdateWrite
<1>29. ASSUME Expire PROVE ClaimInv'
  BY <1>29, ConstantsOK DEF Expire
<1>30. CASE UNCHANGED vars
  BY <1>30 DEF vars
<1> QED
  BY <1>1, <1>2, <1>3, <1>4, <1>5, <1>6, <1>7, <1>8, <1>9, <1>10, <1>11, <1>12,
     <1>13, <1>14, <1>15, <1>16, <1>17, <1>18, <1>19, <1>20, <1>21, <1>22, <1>23,
     <1>24, <1>25, <1>26, <1>27, <1>28, <1>29, <1>30 DEF Next, ClaimStep, BeatStep, Lost,
     UserStep, EditStep, StartEdit

\* A heartbeat that is answered without the claim takes the tunnel down.
LEMMA LossStep ==
  ASSUME "net" \notin Faulty, TypeInv, DeviceInv, LossInv, [Next]_vars
  PROVE  LossInv'
<1> USE DEF TypeInv, TypeOK, DeviceInv, LossInv, Due
<1>1. ASSUME NEW d \in Devices, Connect(d) PROVE LossInv'
  BY <1>1 DEF Connect, Teardown, NoConnection, Beat
<1>2. ASSUME NEW d \in Devices, ClaimCheck(d) PROVE LossInv'
  BY <1>2 DEF ClaimCheck
<1>3. ASSUME NEW d \in Devices, ClaimUpdate(d) PROVE LossInv'
  BY <1>3 DEF ClaimUpdate, SetHolder
<1>4. ASSUME NEW d \in Devices, ClaimReread(d) PROVE LossInv'
  BY <1>4 DEF ClaimReread
<1>5. ASSUME NEW d \in Devices, ClaimConfig(d) PROVE LossInv'
  BY <1>5 DEF ClaimConfig
<1>6. ASSUME NEW d \in Devices, ClaimLost(d) PROVE LossInv'
  BY <1>6 DEF ClaimLost
<1>7. ASSUME NEW d \in Devices, TunnelUp(d) PROVE LossInv'
  BY <1>7 DEF TunnelUp, Beat
<1>8. ASSUME NEW d \in Devices, Disconnect(d) PROVE LossInv'
  BY <1>8 DEF Disconnect, Teardown, Beat
<1>9. ASSUME NEW d \in Devices, Release(d) PROVE LossInv'
  BY <1>9, ConstantsOK DEF Release, ClearHolder
<1>10. ASSUME NEW d \in Devices, GiveUp(d) PROVE LossInv'
  BY <1>10 DEF GiveUp
<1>11. ASSUME NEW d \in Devices, StartBeat(d) PROVE LossInv'
  BY <1>11 DEF StartBeat, Teardown, Beat
<1>12. ASSUME NEW d \in Devices, BeatCheck(d) PROVE LossInv'
  BY <1>12 DEF BeatCheck, BeatRefused, Teardown, Beat
<1>13. ASSUME NEW d \in Devices, BeatUpdate(d) PROVE LossInv'
  BY <1>13 DEF BeatUpdate, Beat
<1>14. ASSUME NEW d \in Devices, BeatRead(d) PROVE LossInv'
  BY <1>14 DEF BeatRead, BeatRefused, Teardown, Beat
<1>15. ASSUME NEW d \in Devices, BeatFails(d) PROVE LossInv'
  BY <1>15 DEF BeatFails
<1>16. ASSUME NEW d \in Devices, StrayBeat(d) PROVE LossInv'
  BY <1>16 DEF StrayBeat, Teardown, NoConnection, Beat
<1>17. ASSUME NEW d \in Devices, TunnelDies(d) PROVE LossInv'
  BY <1>17 DEF TunnelDies
<1>18. ASSUME NEW d \in Devices, Kill(d) PROVE LossInv'
  BY <1>18 DEF Kill, Beat
<1>19. ASSUME NEW d \in Devices, Restart(d) PROVE LossInv'
  BY <1>19 DEF Restart
<1>20. ASSUME Tick PROVE LossInv'
  BY <1>20 DEF Tick, Busy
<1>21. ASSUME AdminRelease PROVE LossInv'
  BY <1>21, ConstantsOK DEF AdminRelease, ClearHolder
<1>22. ASSUME DeleteProfile PROVE LossInv'
  BY <1>22, ConstantsOK DEF DeleteProfile, ClearHolder
<1>23. ASSUME NEW a \in Editors, NEW u \in Users, AssignCheck(a, u) PROVE LossInv'
  BY <1>23 DEF AssignCheck
<1>24. ASSUME NEW a \in Editors, AssignInsert(a) PROVE LossInv'
  BY <1>24 DEF AssignInsert
<1>25. ASSUME NEW a \in Editors, NEW u \in Users, UnassignDelete(a, u) PROVE LossInv'
  BY <1>25 DEF UnassignDelete
<1>26. ASSUME NEW a \in Editors, UnassignClear(a) PROVE LossInv'
  BY <1>26, ConstantsOK DEF UnassignClear, ClearHolder
<1>27. ASSUME NEW a \in Editors, NEW to \in BOOLEAN, UpdateCheck(a, to) PROVE LossInv'
  BY <1>27 DEF UpdateCheck
<1>28. ASSUME NEW a \in Editors, UpdateWrite(a) PROVE LossInv'
  BY <1>28 DEF UpdateWrite
<1>29. ASSUME Expire PROVE LossInv'
  BY <1>29 DEF Expire
<1>30. CASE UNCHANGED vars
  BY <1>30 DEF vars
<1> QED
  BY <1>1, <1>2, <1>3, <1>4, <1>5, <1>6, <1>7, <1>8, <1>9, <1>10, <1>11, <1>12,
     <1>13, <1>14, <1>15, <1>16, <1>17, <1>18, <1>19, <1>20, <1>21, <1>22, <1>23,
     <1>24, <1>25, <1>26, <1>27, <1>28, <1>29, <1>30 DEF Next, ClaimStep, BeatStep, Lost,
     UserStep, EditStep, StartEdit

-----------------------------------------------------------------------------
(* An undisturbed profile. *)

\* No handler of another device runs between the UPDATE of a claim and the
\* answer to it, and a claim that is used does not lapse.
LEMMA OrderStep ==
  ASSUME Undisturbed, TypeInv, DeviceInv, ClaimInv, OrderInv, [Next]_vars
  PROVE  OrderInv'
<1> USE DEF Undisturbed, TypeInv, TypeOK, DeviceInv, ClaimInv, OrderInv, Due, Held, Lapsed
<1>1. ASSUME NEW d \in Devices, Connect(d) PROVE OrderInv'
  BY <1>1 DEF Connect, Teardown, NoConnection, At, MayCall, Busy
<1>2. ASSUME NEW d \in Devices, ClaimCheck(d) PROVE OrderInv'
  BY <1>2 DEF ClaimCheck, At
<1>3. ASSUME NEW d \in Devices, ClaimUpdate(d) PROVE OrderInv'
  BY <1>3, ConstantsOK DEF ClaimUpdate, SetHolder, Free, At
<1>4. ASSUME NEW d \in Devices, ClaimReread(d) PROVE OrderInv'
  BY <1>4 DEF ClaimReread, At
<1>5. ASSUME NEW d \in Devices, ClaimConfig(d) PROVE OrderInv'
  BY <1>5 DEF ClaimConfig, At
<1>6. ASSUME NEW d \in Devices, ClaimLost(d) PROVE OrderInv'
  BY <1>6 DEF ClaimLost
<1>7. ASSUME NEW d \in Devices, TunnelUp(d) PROVE OrderInv'
  BY <1>7 DEF TunnelUp, At
<1>8. ASSUME NEW d \in Devices, Disconnect(d) PROVE OrderInv'
  BY <1>8 DEF Disconnect, Teardown
<1>9. ASSUME NEW d \in Devices, Release(d) PROVE OrderInv'
  BY <1>9 DEF Release, MayCall, Busy
<1>10. ASSUME NEW d \in Devices, GiveUp(d) PROVE OrderInv'
  BY <1>10 DEF GiveUp
<1>11. ASSUME NEW d \in Devices, StartBeat(d) PROVE OrderInv'
  BY <1>11 DEF StartBeat, Teardown
<1>12. ASSUME NEW d \in Devices, BeatCheck(d) PROVE OrderInv'
  BY <1>12 DEF BeatCheck, BeatRefused, Teardown
<1>13. ASSUME NEW d \in Devices, BeatUpdate(d) PROVE OrderInv'
  BY <1>13, ConstantsOK DEF BeatUpdate
<1>14. ASSUME NEW d \in Devices, BeatRead(d) PROVE OrderInv'
  BY <1>14 DEF BeatRead, BeatRefused, Teardown
<1>15. ASSUME NEW d \in Devices, BeatFails(d) PROVE OrderInv'
  BY <1>15 DEF BeatFails
<1>16. ASSUME NEW d \in Devices, StrayBeat(d) PROVE OrderInv'
  BY <1>16, ConstantsOK DEF StrayBeat, Teardown, NoConnection
<1>17. ASSUME NEW d \in Devices, TunnelDies(d) PROVE OrderInv'
  BY <1>17 DEF TunnelDies
<1>18. ASSUME NEW d \in Devices, Kill(d) PROVE OrderInv'
  BY <1>18 DEF Kill
<1>19. ASSUME NEW d \in Devices, Restart(d) PROVE OrderInv'
  BY <1>19 DEF Restart
<1>20. ASSUME Tick PROVE OrderInv'
  BY <1>20 DEF Tick
<1>21. ASSUME AdminRelease PROVE OrderInv'
  BY <1>21 DEF AdminRelease
<1>22. ASSUME DeleteProfile PROVE OrderInv'
  BY <1>22 DEF DeleteProfile
<1>23. ASSUME NEW a \in Editors, NEW u \in Users, AssignCheck(a, u) PROVE OrderInv'
  BY <1>23 DEF AssignCheck, Edit
<1>24. ASSUME NEW a \in Editors, AssignInsert(a) PROVE OrderInv'
  BY <1>24 DEF AssignInsert, EditDone
<1>25. ASSUME NEW a \in Editors, NEW u \in Users, UnassignDelete(a, u) PROVE OrderInv'
  BY <1>25 DEF UnassignDelete
<1>26. ASSUME NEW a \in Editors, UnassignClear(a) PROVE OrderInv'
  BY <1>26 DEF UnassignClear
<1>27. ASSUME NEW a \in Editors, NEW to \in BOOLEAN, UpdateCheck(a, to) PROVE OrderInv'
  BY <1>27 DEF UpdateCheck, Edit
<1>28. ASSUME NEW a \in Editors, UpdateWrite(a) PROVE OrderInv'
  BY <1>28 DEF UpdateWrite, EditDone
<1>29. ASSUME Expire PROVE OrderInv'
  BY <1>29, ConstantsOK DEF Expire, MayCall, Busy
<1>30. CASE UNCHANGED vars
  BY <1>30 DEF vars
<1> QED
  BY <1>1, <1>2, <1>3, <1>4, <1>5, <1>6, <1>7, <1>8, <1>9, <1>10, <1>11, <1>12,
     <1>13, <1>14, <1>15, <1>16, <1>17, <1>18, <1>19, <1>20, <1>21, <1>22, <1>23,
     <1>24, <1>25, <1>26, <1>27, <1>28, <1>29, <1>30 DEF Next, ClaimStep, BeatStep, Lost,
     UserStep, EditStep, StartEdit

-----------------------------------------------------------------------------
(* Admins. *)

\* A request's check and its write have no other request between them.
LEMMA SharedStep ==
  ASSUME IsFiniteSet(Users), AtMostOne(Editors), TypeInv, SharedInv, [Next]_vars
  PROVE  SharedInv'
<1> USE DEF TypeInv, TypeOK, SharedInv
<1>1. ASSUME NEW d \in Devices, Connect(d) PROVE SharedInv'
  BY <1>1 DEF Connect
<1>2. ASSUME NEW d \in Devices, ClaimCheck(d) PROVE SharedInv'
  BY <1>2 DEF ClaimCheck
<1>3. ASSUME NEW d \in Devices, ClaimUpdate(d) PROVE SharedInv'
  BY <1>3 DEF ClaimUpdate
<1>4. ASSUME NEW d \in Devices, ClaimReread(d) PROVE SharedInv'
  BY <1>4 DEF ClaimReread
<1>5. ASSUME NEW d \in Devices, ClaimConfig(d) PROVE SharedInv'
  BY <1>5 DEF ClaimConfig
<1>6. ASSUME NEW d \in Devices, ClaimLost(d) PROVE SharedInv'
  BY <1>6 DEF ClaimLost
<1>7. ASSUME NEW d \in Devices, TunnelUp(d) PROVE SharedInv'
  BY <1>7 DEF TunnelUp
<1>8. ASSUME NEW d \in Devices, Disconnect(d) PROVE SharedInv'
  BY <1>8 DEF Disconnect
<1>9. ASSUME NEW d \in Devices, Release(d) PROVE SharedInv'
  BY <1>9 DEF Release
<1>10. ASSUME NEW d \in Devices, GiveUp(d) PROVE SharedInv'
  BY <1>10 DEF GiveUp
<1>11. ASSUME NEW d \in Devices, StartBeat(d) PROVE SharedInv'
  BY <1>11 DEF StartBeat
<1>12. ASSUME NEW d \in Devices, BeatCheck(d) PROVE SharedInv'
  BY <1>12 DEF BeatCheck
<1>13. ASSUME NEW d \in Devices, BeatUpdate(d) PROVE SharedInv'
  BY <1>13 DEF BeatUpdate
<1>14. ASSUME NEW d \in Devices, BeatRead(d) PROVE SharedInv'
  BY <1>14 DEF BeatRead
<1>15. ASSUME NEW d \in Devices, BeatFails(d) PROVE SharedInv'
  BY <1>15 DEF BeatFails
<1>16. ASSUME NEW d \in Devices, StrayBeat(d) PROVE SharedInv'
  BY <1>16 DEF StrayBeat
<1>17. ASSUME NEW d \in Devices, TunnelDies(d) PROVE SharedInv'
  BY <1>17 DEF TunnelDies
<1>18. ASSUME NEW d \in Devices, Kill(d) PROVE SharedInv'
  BY <1>18 DEF Kill
<1>19. ASSUME NEW d \in Devices, Restart(d) PROVE SharedInv'
  BY <1>19 DEF Restart
<1>20. ASSUME Tick PROVE SharedInv'
  BY <1>20 DEF Tick
<1>21. ASSUME AdminRelease PROVE SharedInv'
  BY <1>21 DEF AdminRelease
<1>22. ASSUME DeleteProfile PROVE SharedInv'
  BY <1>22 DEF DeleteProfile, AtMostOne
<1>23. ASSUME NEW a \in Editors, NEW u \in Users, AssignCheck(a, u) PROVE SharedInv'
  BY <1>23 DEF AssignCheck, MayAssign, Edit
<1>24. ASSUME NEW a \in Editors, AssignInsert(a) PROVE SharedInv'
  BY <1>24 DEF AssignInsert, EditDone, AtMostOne
<1>25. ASSUME NEW a \in Editors, NEW u \in Users, UnassignDelete(a, u) PROVE SharedInv'
  BY <1>25 DEF UnassignDelete, Edit, AtMostOne
<1>26. ASSUME NEW a \in Editors, UnassignClear(a) PROVE SharedInv'
  BY <1>26 DEF UnassignClear, EditDone
<1>27. ASSUME NEW a \in Editors, NEW to \in BOOLEAN, UpdateCheck(a, to) PROVE SharedInv'
  <2>1. IsFiniteSet(assigned)
    BY FS_Subset
  <2>2. to \/ AtMostOne(assigned)
    BY <1>27, <2>1, AtMostOneCardinality DEF UpdateCheck
  <2> QED
    BY <1>27, <2>2 DEF UpdateCheck, Edit
<1>28. ASSUME NEW a \in Editors, UpdateWrite(a) PROVE SharedInv'
  BY <1>28 DEF UpdateWrite, EditDone, AtMostOne
<1>29. ASSUME Expire PROVE SharedInv'
  BY <1>29 DEF Expire
<1>30. CASE UNCHANGED vars
  BY <1>30 DEF vars
<1> QED
  BY <1>1, <1>2, <1>3, <1>4, <1>5, <1>6, <1>7, <1>8, <1>9, <1>10, <1>11, <1>12,
     <1>13, <1>14, <1>15, <1>16, <1>17, <1>18, <1>19, <1>20, <1>21, <1>22, <1>23,
     <1>24, <1>25, <1>26, <1>27, <1>28, <1>29, <1>30 DEF Next, ClaimStep, BeatStep, Lost,
     UserStep, EditStep, StartEdit

-----------------------------------------------------------------------------
(* The theorems. *)

\* The invariants of all devices and claims, whatever fails and whoever does
\* what.
LEMMA ClaimInvariant == Spec => [](TypeInv /\ DeviceInv /\ ClaimInv)
<1>1. Init => TypeInv /\ DeviceInv /\ ClaimInv
  BY ConstantsOK DEF Init, TypeInv, TypeOK, Editing, DeviceInv, ClaimInv
<1>2. TypeInv /\ DeviceInv /\ ClaimInv /\ [Next]_vars => (TypeInv /\ DeviceInv /\ ClaimInv)'
  BY TypeStep, DeviceStep, ClaimInvStep
<1> QED
  BY <1>1, <1>2, PTL DEF Spec

\* In every reachable state the row, the devices and the requests of admins
\* have their types, whatever the interleaving of handlers, heartbeats,
\* releases, lost messages and killed apps.
THEOREM TypeCorrect == Spec => []TypeOK
<1>1. TypeInv => TypeOK
  BY DEF TypeInv
<1> QED
  BY <1>1, ClaimInvariant, PTL

\* What protects a claim: one whose device missed too few heartbeats in a row
\* for a lapse has not lapsed.
LEMMA FreshClaim ==
  ASSUME TypeInv, ClaimInv, NEW d \in Devices,
         d \in sess, holder = d, missed[d] < TTL - 1
  PROVE  ~Free
BY ConstantsOK DEF TypeInv, TypeOK, ClaimInv, Free, Lapsed

\* A connected device with fewer than TTL - 1 heartbeats in a row unanswered
\* keeps its claim until somebody gives it up: with requests and answers lost at
\* any point, stray heartbeats, late releases, killed apps and admins, and a
\* lapse at any moment of the interval in which it comes, no other device's
\* claim takes it (wgprofiles.go:19-22, 152-159).
THEOREM ClaimsKept == Spec => NoTakeover
<1> DEFINE Kept == \A d \in tun \intersect sess :
                      holder = d /\ missed[d] < TTL - 1 => holder' \in {d, NoDevice}
<1>1. TypeInv /\ DeviceInv /\ ClaimInv /\ [Next]_vars => [Kept]_vars
  <2> SUFFICES ASSUME TypeInv, DeviceInv, ClaimInv, Next,
                      NEW d \in tun \intersect sess, holder = d, missed[d] < TTL - 1
               PROVE  holder' \in {d, NoDevice}
    OBVIOUS
  <2>1. d \in Devices
    BY DEF TypeInv, TypeOK
  <2>2. ASSUME NEW e \in Devices, ClaimUpdate(e) PROVE holder' \in {d, NoDevice}
    BY <2>1, <2>2, FreshClaim DEF ClaimUpdate, SetHolder
  <2>3. CASE \E e \in Devices : Release(e)
    BY <2>3 DEF Release, ClearHolder
  <2>4. CASE AdminRelease \/ DeleteProfile \/ \E a \in Editors : UnassignClear(a)
    BY <2>4 DEF AdminRelease, DeleteProfile, UnassignClear, ClearHolder
  <2>5. ASSUME NEW e \in Devices,
               \/ Connect(e) \/ ClaimCheck(e) \/ ClaimReread(e) \/ ClaimConfig(e)
               \/ TunnelUp(e) \/ Disconnect(e) \/ Lost(e)
               \/ StartBeat(e) \/ BeatStep(e) \/ StrayBeat(e)
               \/ TunnelDies(e) \/ Kill(e) \/ Restart(e)
        PROVE  holder' = holder
    BY <2>5 DEF Connect, ClaimCheck, ClaimReread, ClaimConfig, TunnelUp, Disconnect,
       Lost, ClaimLost, BeatFails, GiveUp, StartBeat, BeatStep, BeatCheck, BeatUpdate,
       BeatRead, StrayBeat, TunnelDies, Kill, Restart
  <2>6. ASSUME \/ Tick \/ Expire
               \/ \E a \in Editors : AssignInsert(a) \/ UpdateWrite(a) \/ StartEdit(a)
        PROVE  holder' = holder
    BY <2>6 DEF Tick, Expire, AssignInsert, UpdateWrite, StartEdit, AssignCheck, UnassignDelete,
       UpdateCheck
  <2> QED
    BY <2>2, <2>3, <2>4, <2>5, <2>6 DEF Next, ClaimStep, UserStep, EditStep
<1>2. [][Kept]_vars => NoTakeover
  BY DEF NoTakeover
<1> QED
  BY <1>1, <1>2, ClaimInvariant, PTL DEF Spec

\* While every request is answered, no device keeps its connection for more
\* than one heartbeat interval after it lost the claim, to an admin, to a
\* deleted profile, to an unassignment or to its own late release
\* (wgprofiles.go:473-474, 549-551).
THEOREM LossNoticed ==
  ASSUME "net" \notin Faulty
  PROVE  Spec => []OutlivesClaimByOneBeat
<1>1. Init => LossInv
  BY DEF Init, LossInv
<1>2. TypeInv /\ DeviceInv /\ LossInv /\ [Next]_vars => LossInv'
  BY LossStep
<1>3. TypeInv /\ LossInv => OutlivesClaimByOneBeat
  BY DEF TypeInv, TypeOK, LossInv, OutlivesClaimByOneBeat
<1> QED
  BY <1>1, <1>2, <1>3, ClaimInvariant, PTL DEF Spec

\* The invariant of an undisturbed profile.
LEMMA OrderInvariant ==
  ASSUME Undisturbed
  PROVE  Spec => []OrderInv
<1>1. Init => OrderInv
  BY DEF Init, OrderInv
<1>2. TypeInv /\ DeviceInv /\ ClaimInv /\ OrderInv /\ [Next]_vars => OrderInv'
  BY OrderStep
<1> QED
  BY <1>1, <1>2, ClaimInvariant, PTL DEF Spec

\* When the server runs one handler of a device at a time, requests and the
\* service are answered and nobody takes a claim away, a device that was given
\* the config has the claim (wgprofiles.go:22-23).
THEOREM ConfigWithClaim ==
  ASSUME Undisturbed
  PROVE  Spec => []ConfigOnlyWithClaim
<1>1. OrderInv => ConfigOnlyWithClaim
  BY DEF OrderInv, ConfigOnlyWithClaim
<1> QED
  BY <1>1, OrderInvariant, PTL

\* Then a profile, a single WireGuard peer, is up on one device at a time,
\* however many devices, users and admins there are (wgprofiles.go:19).
THEOREM OneDevice ==
  ASSUME Undisturbed
  PROVE  Spec => []OneDeviceUp
<1>1. OrderInv => OneDeviceUp
  <2> SUFFICES ASSUME OrderInv PROVE OneDeviceUp
    OBVIOUS
  <2>1. tun \subseteq {holder}
    BY DEF OrderInv
  <2>2. IsFiniteSet({holder}) /\ Cardinality({holder}) = 1
    BY FS_Singleton
  <2>3. IsFiniteSet(tun) /\ Cardinality(tun) <= Cardinality({holder})
    BY <2>1, <2>2, FS_Subset
  <2> QED
    BY <2>2, <2>3 DEF OneDeviceUp
<1> QED
  BY <1>1, OrderInvariant, PTL

-----------------------------------------------------------------------------
(* The profile is a lock. *)

\* What a step does to the lock: the UPDATE of a claim grants it, a tunnel
\* starts to use it, or stops, a release returns it.
LEMMA LockStep ==
  ASSUME Undisturbed, TypeInv, DeviceInv, ClaimInv, OrderInv, [Next]_vars
  PROVE  [Lock!Next]_<<holder, tun>>
<1> USE DEF Lock!Next, Lock!Grant, Lock!Start, Lock!Stop, Lock!Return
<1> DEFINE Same == UNCHANGED <<holder, tun>>
<1>1. ASSUME NEW d \in Devices, ClaimUpdate(d) PROVE Lock!Grant(d) \/ Same
  <2>1. CASE (Free \/ holder = d) /\ SetHolder(d)
    <3>1. tun \subseteq {d}
      BY <2>1, FreshClaim, ConstantsOK DEF OrderInv, TypeInv, TypeOK
    <3> QED
      BY <1>1, <2>1, <3>1 DEF ClaimUpdate, SetHolder
  <2>2. CASE ~(Free \/ holder = d) \/ ~exists
    BY <1>1, <2>2 DEF ClaimUpdate
  <2> QED
    BY <1>1, <2>1, <2>2 DEF ClaimUpdate
<1>2. ASSUME NEW d \in Devices, TunnelUp(d) PROVE Lock!Start(d) \/ Same
  <2>1. holder = d /\ tun \subseteq {d}
    BY <1>2 DEF TunnelUp, OrderInv
  <2> QED
    BY <1>2, <2>1 DEF TunnelUp
<1>3. ASSUME NEW d \in Devices, Teardown(d, TRUE) \/ Teardown(d, FALSE), holder' = holder
      PROVE  Lock!Stop(d) \/ Same
  BY <1>3 DEF Teardown
<1>4. ASSUME NEW d \in Devices, TunnelDies(d) \/ Restart(d) PROVE Lock!Stop(d)
  BY <1>4 DEF TunnelDies, Restart
<1>5. ASSUME NEW d \in Devices, Release(d) PROVE Lock!Return \/ Same
  BY <1>5 DEF Release, ClearHolder, OrderInv
<1>6. ASSUME NEW d \in Devices, Connect(d) \/ Disconnect(d) \/ StartBeat(d)
      PROVE  Lock!Stop(d) \/ Same
  BY <1>6, <1>3 DEF Connect, Disconnect, StartBeat, NoConnection
<1>7. ASSUME NEW d \in Devices, BeatStep(d) \/ StrayBeat(d)
      PROVE  Lock!Stop(d) \/ Same
  BY <1>7, <1>3 DEF BeatStep, BeatCheck, BeatUpdate, BeatRead, BeatRefused, StrayBeat,
     NoConnection
<1>8. ASSUME NEW d \in Devices, \/ ClaimCheck(d) \/ ClaimReread(d) \/ ClaimConfig(d)
                                \/ Lost(d)
      PROVE  Same
  BY <1>8 DEF ClaimCheck, ClaimReread, ClaimConfig, Lost, ClaimLost, BeatFails, GiveUp
<1>9. ASSUME NEW a \in Editors, EditStep(a) \/ StartEdit(a) PROVE Same
  BY <1>9 DEF OrderInv, EditStep, AssignInsert, UnassignClear, UpdateWrite, StartEdit,
     AssignCheck, UnassignDelete, UpdateCheck
<1>10. CASE Tick \/ Expire \/ UNCHANGED vars
  BY <1>10 DEF Tick, Expire, vars
<1>11. ~AdminRelease /\ ~DeleteProfile /\ \A d \in Devices : ~Kill(d)
  BY DEF Undisturbed, AdminRelease, DeleteProfile, Kill
<1> QED
  BY <1>1, <1>2, <1>4, <1>5, <1>6, <1>7, <1>8, <1>9, <1>10, <1>11
     DEF Next, ClaimStep, UserStep

\* An undisturbed profile implements the exclusive lock: a device uses the
\* profile only with the claim, and the claim changes hands only while nobody
\* uses the profile.
THEOREM LockImplemented ==
  ASSUME Undisturbed
  PROVE  Spec => ImplementsLock
<1>1. Init => Lock!Init
  BY DEF Init, Lock!Init
<1>2. TypeInv /\ DeviceInv /\ ClaimInv /\ OrderInv /\ [Next]_vars
         => [Lock!Next]_<<holder, tun>>
  BY LockStep
<1> QED
  BY <1>1, <1>2, ClaimInvariant, OrderInvariant, PTL DEF Spec, ImplementsLock, Lock!Spec

-----------------------------------------------------------------------------
(* The assignments of a profile that is not shared. *)

\* With one admin's request at a time, a profile that is not marked shared is
\* assigned to one user at most, however many users and profiles there are
\* (wgprofiles.go:510): what a request checks is still so when it writes.
THEOREM NotShared ==
  ASSUME IsFiniteSet(Users), AtMostOne(Editors)
  PROVE  Spec => []NotSharedOneUser
<1>1. Init => SharedInv
  <2> SUFFICES ASSUME Init PROVE SharedInv
    OBVIOUS
  <2>1. IsFiniteSet(assigned)
    BY FS_Subset DEF Init
  <2> QED
    BY <2>1, AtMostOneCardinality DEF Init, SharedInv
<1>2. TypeInv /\ SharedInv /\ [Next]_vars => SharedInv'
  BY SharedStep
<1>3. TypeInv /\ SharedInv => NotSharedOneUser
  <2> SUFFICES ASSUME TypeInv, SharedInv PROVE NotSharedOneUser
    OBVIOUS
  <2>1. IsFiniteSet(assigned)
    BY FS_Subset DEF TypeInv, TypeOK
  <2> QED
    BY <2>1, AtMostOneCardinality DEF SharedInv, NotSharedOneUser
<1> QED
  BY <1>1, <1>2, <1>3, ClaimInvariant, PTL DEF Spec

=============================================================================
