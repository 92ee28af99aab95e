----------------------------- MODULE WGProfiles -----------------------------
(***************************************************************************)
(* One assigned WireGuard profile (server/internal/api/wgprofiles.go) and  *)
(* the desktop apps that use it (client/app_wgprofiles.go).  The profile   *)
(* is one WireGuard peer, so a device claims it before it connects and     *)
(* renews the claim with heartbeats; a claim that is not renewed lapses.   *)
(*                                                                         *)
(* A handler of the server is a sequence of database statements and every  *)
(* statement is a step.  On a device the user's thread, the heartbeat loop *)
(* of the connection, the last request of a loop that was stopped, and     *)
(* the goroutine that releases a claim run side by side.                   *)
(*                                                                         *)
(* Time advances in heartbeat intervals (45 s).  A request is over within  *)
(* 15 s (managed/client.go:48), so only a release, which is retried, can   *)
(* be under way when the clock ticks.  Heartbeats count from the end of    *)
(* connecting, a claim from its UPDATE, so a claim may lapse at any moment *)
(* of the interval in which it is TTL ticks old: Expire.                   *)
(***************************************************************************)
EXTENDS Naturals, FiniteSets

CONSTANTS
    Devices,    \* installations
    Users,
    UserOf,     \* the user logged in on each device
    Editors,    \* goroutines that serve requests of admins
    TTL,        \* wgClaimTTLSeconds in heartbeat intervals (180 / 45)
    Ops,        \* what users and admins do in this run
    Faulty,     \* "net": requests and replies get lost; "connect": tunnels fail;
                \* "ipc": the service does not answer the app
    Ordered,    \* "requests": the server runs one handler of a device at a
                \* time; "releases": a device connects after its release is over
    NoDevice, NoUser

ASSUME ConstantsOK ==
    /\ UserOf \in [Devices -> Users]
    /\ TTL \in Nat \ {0, 1}
    /\ NoDevice \notin Devices /\ NoUser \notin Users

VARIABLES
    \* row of wireguard_profiles, and its assignments
    exists,     \* the row is there
    shared,
    holder,     \* holder_installation_id
    holderUser, \* holder_user_id
    age,        \* ticks since holder_seen; TTL + 1 when it lapsed or is NULL
    assigned,   \* users in wireguard_profile_assignments
    \* devices
    ui,         \* connectWGProfile: where the user's thread is
    beat,       \* wgProfileHeartbeat: where the loop of the connection is
    stray,      \* the request in flight of a loop that was stopped
    releasing,  \* devices with a release under way
    sess,       \* devices with the profile in App.mWGP
    tun,        \* devices whose service has the tunnel up
    due,        \* devices whose heartbeat ticker has fired
    missed,     \* heartbeats that failed since the last one that was answered
    lostFor,    \* heartbeat intervals a tunnel has been up without the claim
    \* admins
    editor      \* each admin request: where it is and what it was sent

row == <<exists, shared, holder, holderUser, age, assigned>>
threads == <<ui, beat, stray, releasing>>
local == <<sess, tun, due, missed, lostFor>>
vars == <<row, threads, local, editor>>

Request == {"hbCheck", "hbUpdate", "hbRead"}
Handler == {"check", "update", "reread", "config"}
NoEdit == [pc |-> "idle", user |-> NoUser, to |-> FALSE]

TypeOK ==
    /\ exists \in BOOLEAN /\ shared \in BOOLEAN
    /\ holder \in Devices \union {NoDevice}
    /\ holderUser \in Users \union {NoUser}
    /\ age \in 0 .. TTL + 1
    /\ assigned \subseteq Users
    /\ ui \in [Devices -> Handler \union {"idle", "connect"}]
    /\ beat \in [Devices -> Request \union {"none", "wait"}]
    /\ stray \in [Devices -> Request \union {"none"}]
    /\ releasing \subseteq Devices /\ sess \subseteq Devices
    /\ tun \subseteq Devices /\ due \subseteq Devices
    /\ missed \in [Devices -> 0 .. TTL]
    /\ lostFor \in [Devices -> 0 .. TTL]
    /\ editor \in [Editors -> [pc: {"idle", "assign", "clear", "update"},
                               user: Users \union {NoUser}, to: BOOLEAN]]

Init ==
    /\ exists = TRUE
    /\ assigned \in SUBSET Users
    /\ shared \in BOOLEAN /\ (~shared => Cardinality(assigned) <= 1)
    /\ holder = NoDevice /\ holderUser = NoUser /\ age = TTL + 1
    /\ ui = [d \in Devices |-> "idle"]
    /\ beat = [d \in Devices |-> "none"]
    /\ stray = [d \in Devices |-> "none"]
    /\ releasing = {} /\ sess = {} /\ tun = {} /\ due = {}
    /\ missed = [d \in Devices |-> 0]
    /\ lostFor = [d \in Devices |-> 0]
    /\ editor = [a \in Editors |-> NoEdit]

----------------------------------------------------------------------------
(* The claim *)

\* Mutants of Lapsed: an interval early, while fresh, never.
LapsedEarly == age >= TTL - 1
LapsedWhileFresh == age < TTL
NeverLapsed == FALSE

Lapsed == age > TTL

\* Mutant of Held: the comparison is the wrong way round.
HeldOnceLapsed == holder # NoDevice /\ Lapsed

\* holder() of a listing: the claim counts while it is fresh.
Held == holder # NoDevice /\ ~Lapsed

Free == holder = NoDevice \/ Lapsed

ClearHolder == holder' = NoDevice /\ holderUser' = NoUser /\ age' = TTL + 1

\* Mutant of SetHolder: user and device are passed in the wrong order.
SetHolderSwapped(d) == holder' = UserOf[d] /\ holderUser' = d /\ age' = 0

SetHolder(d) == holder' = d /\ holderUser' = UserOf[d] /\ age' = 0

\* Mutant of Assigned: the assignment is not looked up.
AnyoneAssigned(d) == TRUE

Assigned(d) == UserOf[d] \in assigned

\* Where a handler of a device may start: the bound of the ordered runs.
Busy(d) == ui[d] \in Handler \/ beat[d] \in Request \/ stray[d] \in Request
MayCall == "requests" \in Ordered => \A d \in Devices : ~Busy(d)

At(d, label) == ui' = [ui EXCEPT ![d] = label]
Beat(d, label) == beat' = [beat EXCEPT ![d] = label]

----------------------------------------------------------------------------
(* The device: bringing the tunnel down *)

\* Mutant of Teardown: the tunnel is not taken down.
TeardownKeepsTunnel(d, release) ==
    /\ sess' = sess \ {d} /\ due' = due \ {d}
    /\ Beat(d, "none")
    /\ releasing' = IF release THEN releasing \union {d} ELSE releasing
    /\ missed' = [missed EXCEPT ![d] = 0]
    /\ UNCHANGED <<tun, lostFor>>

\* teardownWGProfile for a connection that is there: its loop is stopped, but
\* not the request it has in flight, and the tunnel goes before any release.
\* Errors of the service are not looked at.
Teardown(d, release) ==
    /\ sess' = sess \ {d} /\ due' = due \ {d}
    /\ Beat(d, "none")
    /\ releasing' = IF release THEN releasing \union {d} ELSE releasing
    /\ missed' = [missed EXCEPT ![d] = 0]
    /\ \/ tun' = tun \ {d} /\ lostFor' = [lostFor EXCEPT ![d] = 0]
       \/ "ipc" \in Faulty /\ UNCHANGED <<tun, lostFor>>

NoConnection(d) ==
    d \notin sess /\ UNCHANGED <<beat, releasing, local>>

\* What the stopped loop of d leaves behind; one such request at a time is
\* the bound of the model.
Strand(d) ==
    stray' = [stray EXCEPT ![d] = IF beat[d] \in Request THEN beat[d] ELSE @]

CanStrand(d) == beat[d] \in Request => stray[d] = "none"

----------------------------------------------------------------------------
(* connectWGProfile and the handler of /claim *)

\* A device whose service kept a tunnel connects again after Restart only: a
\* bound of the model.
Connect(d) ==
    /\ "connect" \in Ops
    /\ ui[d] = "idle" /\ MayCall /\ CanStrand(d)
    /\ "releases" \in Ordered => d \notin releasing
    /\ d \notin tun \ sess
    /\ \/ d \in sess /\ Teardown(d, FALSE)
       \/ NoConnection(d)
    /\ Strand(d)
    /\ At(d, "check")
    /\ UNCHANGED <<row, editor>>

ClaimCheck(d) ==
    /\ ui[d] = "check"
    /\ At(d, IF Assigned(d) THEN "update" ELSE "idle")
    /\ UNCHANGED <<row, beat, stray, releasing, local, editor>>

\* The conditional UPDATE.  A row that did not change (the same holder within
\* the same second) is counted as not updated.
ClaimUpdate(d) ==
    /\ ui[d] = "update"
    /\ \/ /\ exists /\ (Free \/ holder = d)
          /\ SetHolder(d)
          /\ \/ At(d, "config")
             \/ holder = d /\ holderUser = UserOf[d] /\ age = 0 /\ At(d, "reread")
       \/ /\ ~exists \/ ~(Free \/ holder = d)
          /\ At(d, "reread")
          /\ UNCHANGED <<holder, holderUser, age>>
    /\ UNCHANGED <<exists, shared, assigned, beat, stray, releasing, local, editor>>

\* The second look: a profile that nobody holds now is answered with 200.
ClaimReread(d) ==
    /\ ui[d] = "reread"
    /\ At(d, IF exists /\ (~Held \/ holder = d) THEN "config" ELSE "idle")
    /\ UNCHANGED <<row, beat, stray, releasing, local, editor>>

ClaimConfig(d) ==
    /\ ui[d] = "config"
    /\ At(d, IF exists THEN "connect" ELSE "idle")
    /\ UNCHANGED <<row, beat, stray, releasing, local, editor>>

\* The app does not get the answer, whatever the handler did.
ClaimLost(d) ==
    /\ "net" \in Faulty
    /\ ui[d] \in Handler
    /\ At(d, "idle")
    /\ UNCHANGED <<row, beat, stray, releasing, local, editor>>

\* The config is imported and the tunnel comes up, or the claim is given back.
TunnelUp(d) ==
    /\ ui[d] = "connect"
    /\ At(d, "idle")
    /\ \/ /\ sess' = sess \union {d} /\ tun' = tun \union {d}
          /\ lostFor' = [lostFor EXCEPT ![d] = 0]
          /\ Beat(d, "wait")
          /\ UNCHANGED releasing
       \/ /\ "connect" \in Faulty
          /\ releasing' = releasing \union {d}
          /\ UNCHANGED <<sess, tun, beat, lostFor>>
    /\ UNCHANGED <<row, stray, due, missed, editor>>

Disconnect(d) ==
    /\ "disconnect" \in Ops
    /\ ui[d] = "idle" /\ d \in sess /\ CanStrand(d)
    /\ Teardown(d, TRUE)
    /\ Strand(d)
    /\ UNCHANGED <<row, ui, editor>>

----------------------------------------------------------------------------
(* releaseWGProfile and the handler of /release *)

Release(d) ==
    /\ d \in releasing /\ MayCall
    /\ IF holder = d THEN ClearHolder ELSE UNCHANGED <<holder, holderUser, age>>
    /\ \/ releasing' = releasing \ {d}
       \/ "net" \in Faulty /\ UNCHANGED releasing    \* answer lost: again
    /\ UNCHANGED <<exists, shared, assigned, ui, beat, stray, local, editor>>

\* Three attempts failed: the claim is left to lapse.
GiveUp(d) ==
    /\ "net" \in Faulty
    /\ d \in releasing
    /\ releasing' = releasing \ {d}
    /\ UNCHANGED <<row, ui, beat, stray, local, editor>>

----------------------------------------------------------------------------
(* wgProfileHeartbeat and the handler of /heartbeat *)

\* The ticker fired: a tunnel that went down some other way is released.  A
\* service that does not answer counts as a tunnel that is up.
StartBeat(d) ==
    /\ beat[d] = "wait" /\ d \in due
    /\ \/ /\ d \in tun \/ "ipc" \in Faulty
          /\ MayCall
          /\ Beat(d, "hbCheck")
          /\ due' = due \ {d}
          /\ UNCHANGED <<sess, tun, missed, lostFor, releasing>>
       \/ d \notin tun /\ Teardown(d, TRUE)
    /\ UNCHANGED <<row, ui, stray, editor>>

\* 404 or 409: lostWGProfile.
BeatRefused(d) ==
    /\ Teardown(d, FALSE)
    /\ UNCHANGED stray

BeatCheck(d) ==
    /\ beat[d] = "hbCheck"
    /\ \/ /\ Assigned(d)
          /\ Beat(d, "hbUpdate")
          /\ UNCHANGED <<stray, releasing, local>>
       \/ ~Assigned(d) /\ BeatRefused(d)
    /\ UNCHANGED <<row, ui, editor>>

BeatUpdate(d) ==
    /\ beat[d] = "hbUpdate"
    /\ age' = IF holder = d THEN 0 ELSE age
    /\ Beat(d, "hbRead")
    /\ UNCHANGED <<exists, shared, holder, holderUser, assigned, ui, stray,
                   releasing, local, editor>>

\* Mutant of BeatRead: the holder is not read back.
BeatTrusted(d) ==
    /\ beat[d] = "hbRead"
    /\ Beat(d, "wait")
    /\ missed' = [missed EXCEPT ![d] = 0]
    /\ UNCHANGED <<row, ui, editor, sess, tun, due, lostFor, stray, releasing>>

BeatRead(d) ==
    /\ beat[d] = "hbRead"
    /\ \/ /\ holder = d
          /\ Beat(d, "wait")
          /\ missed' = [missed EXCEPT ![d] = 0]
          /\ UNCHANGED <<sess, tun, due, lostFor, stray, releasing>>
       \/ holder # d /\ BeatRefused(d)
    /\ UNCHANGED <<row, ui, editor>>

\* No answer, or a 5xx: "keeping it up".
BeatFails(d) ==
    /\ "net" \in Faulty
    /\ beat[d] \in Request /\ missed[d] < TTL
    /\ Beat(d, "wait")
    /\ missed' = [missed EXCEPT ![d] = @ + 1]
    /\ UNCHANGED <<row, ui, stray, releasing, sess, tun, due, lostFor, editor>>

\* The request of a stopped loop goes on; its refusal brings down whatever
\* connection the device has by then.
StrayBeat(d) ==
    /\ \/ /\ stray[d] = "hbCheck" /\ Assigned(d)
          /\ stray' = [stray EXCEPT ![d] = "hbUpdate"]
          /\ UNCHANGED <<age, beat, releasing, local>>
       \/ /\ stray[d] = "hbUpdate"
          /\ age' = IF holder = d THEN 0 ELSE age
          /\ stray' = [stray EXCEPT ![d] = "hbRead"]
          /\ UNCHANGED <<beat, releasing, local>>
       \/ /\ stray[d] = "hbRead" /\ holder = d
          /\ stray' = [stray EXCEPT ![d] = "none"]
          /\ UNCHANGED <<age, beat, releasing, local>>
       \/ /\ \/ stray[d] = "hbCheck" /\ ~Assigned(d)
             \/ stray[d] = "hbRead" /\ holder # d
          /\ stray' = [stray EXCEPT ![d] =
                          IF beat[d] \in Request THEN beat[d] ELSE "none"]
          /\ \/ d \in sess /\ Teardown(d, FALSE)
             \/ NoConnection(d)
          /\ UNCHANGED age
    /\ UNCHANGED <<exists, shared, holder, holderUser, assigned, ui, editor>>

----------------------------------------------------------------------------
(* The device without its user *)

\* The service drops the tunnel, or another program takes it down.
TunnelDies(d) ==
    /\ "tunnelDies" \in Ops
    /\ d \in tun
    /\ tun' = tun \ {d}
    /\ lostFor' = [lostFor EXCEPT ![d] = 0]
    /\ UNCHANGED <<row, threads, sess, due, missed, editor>>

\* The app is killed; the service keeps the tunnel.
Kill(d) ==
    /\ "kill" \in Ops
    /\ d \in sess /\ ui[d] = "idle"
    /\ sess' = sess \ {d} /\ due' = due \ {d}
    /\ Beat(d, "none") /\ stray' = [stray EXCEPT ![d] = "none"]
    /\ releasing' = releasing \ {d}
    /\ missed' = [missed EXCEPT ![d] = 0]
    /\ UNCHANGED <<row, ui, tun, lostFor, editor>>

\* removeOrphanedSessionTunnels when the app runs, or finds its service, again.
Restart(d) ==
    /\ d \in tun \ sess
    /\ tun' = tun \ {d}
    /\ lostFor' = [lostFor EXCEPT ![d] = 0]
    /\ UNCHANGED <<row, threads, sess, due, missed, editor>>

\* The claim is 180 s old, somewhere in this interval.  In the ordered runs a
\* claim does not lapse inside a handler.
Expire ==
    /\ age = TTL /\ MayCall
    /\ age' = TTL + 1
    /\ UNCHANGED <<exists, shared, holder, holderUser, assigned, threads, local,
                   editor>>

\* A heartbeat interval passes: no request is under way and every ticker that
\* fired was served.
Tick ==
    /\ due = {}
    /\ \A d \in Devices : ~Busy(d) /\ ui[d] = "idle"
    /\ age' = IF age > TTL THEN age ELSE age + 1
    /\ due' = sess
    /\ lostFor' = [d \in Devices |->
                      IF d \in tun /\ holder # d /\ lostFor[d] < TTL
                      THEN lostFor[d] + 1 ELSE lostFor[d]]
    /\ UNCHANGED <<exists, shared, holder, holderUser, assigned, threads,
                   sess, tun, missed, editor>>

----------------------------------------------------------------------------
(* Admins *)

Edit(a, pc, u, to) == editor' = [editor EXCEPT ![a] = [pc |-> pc, user |-> u, to |-> to]]
EditDone(a) == editor' = [editor EXCEPT ![a] = NoEdit]

\* handleAdminReleaseWGProfile
AdminRelease ==
    /\ "adminRelease" \in Ops
    /\ ClearHolder
    /\ UNCHANGED <<exists, shared, assigned, threads, local, editor>>

\* handleAdminDeleteWGProfile; the assignments cascade away.
DeleteProfile ==
    /\ "delete" \in Ops /\ exists
    /\ exists' = FALSE /\ assigned' = {}
    /\ ClearHolder
    /\ UNCHANGED <<shared, threads, local, editor>>

\* Mutant of MayAssign: the other users are not looked at.
MayAssignAny(u) == TRUE

MayAssign(u) == shared \/ assigned \subseteq {u}

\* handleAdminAssignWG: look at shared and at the other users, then insert.
AssignCheck(a, u) ==
    /\ "assign" \in Ops /\ editor[a].pc = "idle"
    /\ exists
    /\ MayAssign(u)
    /\ Edit(a, "assign", u, FALSE)
    /\ UNCHANGED <<row, threads, local>>

AssignInsert(a) ==
    /\ editor[a].pc = "assign"
    /\ assigned' = IF exists THEN assigned \union {editor[a].user} ELSE assigned
    /\ EditDone(a)
    /\ UNCHANGED <<exists, shared, holder, holderUser, age, threads, local>>

\* handleAdminUnassignWG: delete the assignment, then free the claim.
UnassignDelete(a, u) ==
    /\ "unassign" \in Ops /\ editor[a].pc = "idle"
    /\ u \in assigned
    /\ assigned' = assigned \ {u}
    /\ Edit(a, "clear", u, FALSE)
    /\ UNCHANGED <<exists, shared, holder, holderUser, age, threads, local>>

UnassignClear(a) ==
    /\ editor[a].pc = "clear"
    /\ IF holderUser = editor[a].user THEN ClearHolder
                                      ELSE UNCHANGED <<holder, holderUser, age>>
    /\ EditDone(a)
    /\ UNCHANGED <<exists, shared, assigned, threads, local>>

\* handleAdminUpdateWGProfile: count the assignments, then write.
UpdateCheck(a, to) ==
    /\ "update" \in Ops /\ editor[a].pc = "idle"
    /\ exists /\ shared # to
    /\ to \/ Cardinality(assigned) <= 1
    /\ Edit(a, "update", NoUser, to)
    /\ UNCHANGED <<row, threads, local>>

UpdateWrite(a) ==
    /\ editor[a].pc = "update"
    /\ shared' = IF exists THEN editor[a].to ELSE shared
    /\ EditDone(a)
    /\ UNCHANGED <<exists, holder, holderUser, age, assigned, threads, local>>

----------------------------------------------------------------------------

ClaimStep(d) ==
    \/ ClaimCheck(d) \/ ClaimUpdate(d) \/ ClaimReread(d) \/ ClaimConfig(d)
    \/ TunnelUp(d)

BeatStep(d) == BeatCheck(d) \/ BeatUpdate(d) \/ BeatRead(d)

Lost(d) == ClaimLost(d) \/ BeatFails(d) \/ GiveUp(d)

UserStep(d) == Connect(d) \/ Disconnect(d) \/ TunnelDies(d) \/ Kill(d)

EditStep(a) == AssignInsert(a) \/ UnassignClear(a) \/ UpdateWrite(a)

StartEdit(a) ==
    \/ \E u \in Users : AssignCheck(a, u) \/ UnassignDelete(a, u)
    \/ \E to \in BOOLEAN : UpdateCheck(a, to)

Next ==
    \/ \E d \in Devices : \/ ClaimStep(d) \/ BeatStep(d) \/ StartBeat(d)
                          \/ StrayBeat(d) \/ Release(d) \/ Restart(d)
                          \/ Lost(d) \/ UserStep(d)
    \/ \E a \in Editors : EditStep(a) \/ StartEdit(a)
    \/ AdminRelease \/ DeleteProfile
    \/ Expire \/ Tick

Spec == Init /\ [][Next]_vars

\* Goroutines run, requests end, and time passes however many requests there
\* are.
Fairness ==
    /\ \A d \in Devices :
          /\ WF_vars(ClaimStep(d)) /\ WF_vars(BeatStep(d)) /\ WF_vars(StrayBeat(d))
          /\ WF_vars(StartBeat(d)) /\ WF_vars(Release(d))
    /\ \A a \in Editors : WF_vars(EditStep(a))
    /\ SF_vars(Tick)

FairSpec == Spec /\ Fairness

----------------------------------------------------------------------------
(* Properties *)

\* A profile is a single WireGuard peer: one device at a time has it up
\* (wgprofiles.go:19, 019_wireguard_profiles.sql:4-5).
OneDeviceUp == Cardinality(tun) <= 1

\* A device that was given the config has the claim until its tunnel is up
\* (wgprofiles.go:22-23).
ConfigOnlyWithClaim == \A d \in Devices : ui[d] = "connect" => holder = d

\* While the server answers, a device that lost the claim, to an admin, to a
\* deleted profile or to its own late release, has ended its connection before
\* a second heartbeat interval is over, and with it its tunnel if the service
\* answers (wgprofiles.go:473-474, 549-551).
OutlivesClaimByOneBeat == \A d \in tun \intersect sess : lostFor[d] <= 1

\* A connected device with fewer than TTL - 1, that is three, heartbeats in a
\* row unanswered keeps its claim: another device gets it only after a release
\* (wgprofiles.go:19-22, app_wgprofiles.go:26-27).  Three may cost it: the
\* fourth is sent more than 180 s after the claim (app_wgprofiles.go:213-214).
NoTakeover ==
    [][\A d \in tun \intersect sess :
          holder = d /\ missed[d] < TTL - 1 => holder' \in {d, NoDevice}]_vars

\* A profile not marked shared belongs to one user only (wgprofiles.go:510).
NotSharedOneUser == shared \/ Cardinality(assigned) <= 1

\* The device of a user who lost the profile disconnects, even when its claim
\* was taken while the user was being unassigned (wgprofiles.go:549-551).
UnassignedGoDown ==
    \A d \in Devices :
        d \in tun \intersect sess /\ UserOf[d] \notin assigned
            ~> d \notin tun \intersect sess \/ UserOf[d] \in assigned

\* No claim is stuck with a device that does not use it: whatever became of
\* the app, the tunnel or the release, the profile is free again
\* (wgprofiles.go:20-22).
ClaimsAreFreed ==
    \A d \in Devices :
        holder = d /\ d \notin sess /\ ui[d] = "idle"
            ~> Free \/ holder # d \/ d \in sess \/ ui[d] # "idle"

\* What the claim is for: the device that holds it is the only one that uses
\* the profile, and it changes hands only while nobody does.
Lock == INSTANCE ProfileLock WITH owner <- holder, using <- tun, Nobody <- NoDevice
ImplementsLock == Lock!Spec

=============================================================================
