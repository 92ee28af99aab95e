--------------------------- MODULE ManagedConnect ---------------------------
(***************************************************************************)
(* Connecting to the organization's servers from the desktop app: the      *)
(* window (App.tsx, TotpPromptSheet.tsx, useManagedStore.ts) and the Go    *)
(* side it calls (client/app.go), down to the sessions on the VPN server   *)
(* and the tunnels in the local service.                                   *)
(*                                                                         *)
(* A call of the window runs on its own in Go: the window stops waiting    *)
(* after CONNECT_TIMEOUT_MS, the call goes on.  A connect that the server  *)
(* answers with require_push_auth starts a run that polls for the user's   *)
(* approval and then connects; a run is cancelled by a flag it looks at    *)
(* after every await.  The sheet for the second factor shows the run of    *)
(* the window, or polls for an approval of its own.                        *)
(*                                                                         *)
(* An effect of React runs in the step of the handler that triggers it.    *)
(* A session and its tunnel are named by the call that made them.          *)
(***************************************************************************)
EXTENDS Naturals, FiniteSets

CONSTANTS
    Servers,        \* the servers the user may connect to
    NoServer,
    MaxCalls,       \* bound: calls of ManagedConnectServer[Push]
    MaxRuns,        \* bound: approvals the window asks for
    MaxLoads,       \* bound: loadServers in flight at once
    SecondFactors,  \* what the server may ask for: "push", "totp"
    UserDoes        \* "disconnect", "logout", "expired": what else happens

ASSUME ConstantsOK ==
    /\ NoServer \notin Servers
    /\ MaxCalls \in Nat /\ MaxRuns \in Nat /\ MaxLoads \in Nat
    /\ SecondFactors \subseteq {"push", "totp"}

Calls == 1 .. MaxCalls
Runs == 1 .. MaxRuns
None == 0           \* no call, no session, no run

VARIABLES
    \* client/app.go
    client,     \* mClient is set: logged in
    mSessions,  \* mSessions: the session of each server
    call,       \* the calls: where each is and who waits for it
    leaving,    \* the login is being ended: the sessions are down already
    alive,      \* keepalive loops
    tunnels,    \* tunnels that are up in the service
    \* useManagedStore
    loggedIn,   \* settings.logged_in
    view,       \* servers: one row per server
    loads,      \* what the loadServers in flight have read
    \* App
    pending,    \* pendingServerId
    run, ref,   \* push runs; pushConnectRef
    pushStatus,
    \* TotpPromptSheet, with the props App gives it
    sheet,
    own,        \* the approval the sheet itself asked for
    \* history
    tangled     \* servers whose calls overlapped another call or a teardown

go == <<client, mSessions, call, leaving, alive, tunnels>>
store == <<loggedIn, view, loads>>
prompt == <<pending, run, ref, pushStatus, sheet, own>>
vars == <<go, store, prompt, tangled>>

NoRow == [listed |-> FALSE, connected |-> FALSE, connecting |-> FALSE]
FreeRun == [pc |-> "free", srv |-> NoServer, cancelled |-> FALSE, call |-> None]
NoOwn == [pc |-> "off", srv |-> NoServer]
ClosedSheet == [srv |-> NoServer, avail |-> FALSE, driven |-> FALSE,
                mode |-> "totp", loading |-> FALSE]

CallState == [pc: {"free", "begun", "session", "up", "ok", "push", "totp", "error", "done"},
              srv: Servers \union {NoServer}, by: {"connect", "submit", "own", "run"},
              waits: BOOLEAN]
RunState == [pc: {"free", "create", "poll", "connect", "load", "done"},
             srv: Servers \union {NoServer}, cancelled: BOOLEAN, call: Calls \union {None}]
SheetState == [srv: Servers \union {NoServer}, avail: BOOLEAN, driven: BOOLEAN,
               mode: {"push", "totp"}, loading: BOOLEAN]
OwnState == [pc: {"off", "create", "failed", "poll", "refused", "again", "approved", "stale"},
             srv: Servers \union {NoServer}]
RowState == [listed: BOOLEAN, connected: BOOLEAN, connecting: BOOLEAN]

TypeOK ==
    /\ client \in BOOLEAN /\ loggedIn \in BOOLEAN /\ leaving \in BOOLEAN
    /\ mSessions \in [Servers -> Calls \union {None}]
    /\ call \in [Calls -> CallState]
    /\ alive \subseteq Calls /\ tunnels \subseteq Calls
    /\ view \in [Servers -> RowState]
    /\ loads \subseteq SUBSET Servers
    /\ pending \in Servers \union {NoServer}
    /\ run \in [Runs -> RunState]
    /\ ref \in Runs \union {None}
    /\ pushStatus \in {"pending", "approved", "refused"}
    /\ sheet \in SheetState /\ own \in OwnState
    /\ tangled \subseteq Servers

Init ==
    /\ client = TRUE /\ loggedIn = TRUE /\ leaving = FALSE
    /\ mSessions = [s \in Servers |-> None]
    /\ call = [c \in Calls |-> [pc |-> "free", srv |-> NoServer, by |-> "connect", waits |-> FALSE]]
    /\ alive = {} /\ tunnels = {}
    /\ view = [s \in Servers |-> [NoRow EXCEPT !.listed = TRUE]]
    /\ loads = {}
    /\ pending = NoServer
    /\ run = [r \in Runs |-> FreeRun]
    /\ ref = None
    /\ pushStatus = "pending"
    /\ sheet = ClosedSheet /\ own = NoOwn
    /\ tangled = {}

-----------------------------------------------------------------------------
(* The Go side. *)

InGo(c) == call[c].pc \in {"begun", "session", "up"}
Busy(s) == \E c \in Calls : InGo(c) /\ call[c].srv = s
Active == {s \in Servers : mSessions[s] # None}

\* Mutant of TearDown: the keepalive loops go on.
TearDownTunnels(S) ==
    /\ mSessions' = [s \in Servers |-> IF s \in S THEN None ELSE mSessions[s]]
    /\ tunnels' = tunnels \ {mSessions[s] : s \in S}
    /\ UNCHANGED alive

\* Taking down the sessions of the servers S.  The tunnels go at once; the
\* DELETE on the server, by a goroutine that retries, is left out.
TearDown(S) ==
    LET gone == {mSessions[s] : s \in S} \ {None}
    IN  /\ mSessions' = [s \in Servers |-> IF s \in S THEN None ELSE mSessions[s]]
        /\ alive' = alive \ gone
        /\ tunnels' = tunnels \ gone

FreeCalls == {c \in Calls : call[c].pc = "free"}
NewCall == CHOOSE c \in FreeCalls : TRUE

\* managedConnectInternal up to the request: the server's session is ended.
BeginConnect(s, by) ==
    /\ FreeCalls # {}
    /\ call' = [call EXCEPT ![NewCall] =
                   [pc |-> IF client THEN "begun" ELSE "error", srv |-> s, by |-> by, waits |-> TRUE]]
    /\ TearDown(IF client THEN {s} ELSE {})
    /\ tangled' = IF Busy(s) \/ leaving THEN tangled \union {s} ELSE tangled
    /\ UNCHANGED <<client, leaving>>

\* The bound on runs: another call may not be asked for an approval.
FreeRuns == {r \in Runs : run[r].pc = "free"}
RunsLeft == Cardinality({c \in Calls : call[c].pc = "push"}) < Cardinality(FreeRuns)

\* CreateSession is answered: a session, a second factor to ask for, an error.
SessionCreated(c) ==
    /\ call[c].pc = "begun"
    /\ call' = [call EXCEPT ![c].pc = "session"]
    /\ UNCHANGED <<client, mSessions, leaving, alive, tunnels, store, prompt, tangled>>

SessionRefused(c) ==
    /\ call[c].pc = "begun"
    /\ \E answer \in {"error"} \union (IF call[c].by = "connect" THEN SecondFactors ELSE {}) :
           /\ answer = "push" => RunsLeft
           /\ call' = [call EXCEPT ![c].pc = answer]
    /\ UNCHANGED <<client, mSessions, leaving, alive, tunnels, store, prompt, tangled>>

\* The service brings the tunnel up, through one of the endpoints.
TunnelUp(c) ==
    /\ call[c].pc = "session"
    /\ call' = [call EXCEPT ![c].pc = "up"]
    /\ tunnels' = tunnels \union {c}
    /\ UNCHANGED <<client, mSessions, leaving, alive, store, prompt, tangled>>

\* Mutant of SessionRecorded: the server is recorded as its own session.
SessionRecordedSwapped(c) ==
    /\ call[c].pc = "up"
    /\ call' = [call EXCEPT ![c].pc = "ok"]
    /\ mSessions' = [mSessions EXCEPT ![call[c].srv] = call[c].srv]
    /\ alive' = alive \union {c}
    /\ UNCHANGED <<client, leaving, tunnels, store, prompt, tangled>>

\* The session is recorded and kept alive.
SessionRecorded(c) ==
    /\ call[c].pc = "up"
    /\ call' = [call EXCEPT ![c].pc = "ok"]
    /\ mSessions' = [mSessions EXCEPT ![call[c].srv] = c]
    /\ alive' = alive \union {c}
    /\ UNCHANGED <<client, leaving, tunnels, store, prompt, tangled>>

\* No endpoint works.
TunnelFails(c) ==
    /\ call[c].pc = "session"
    /\ call' = [call EXCEPT ![c].pc = "error"]
    /\ UNCHANGED <<client, mSessions, leaving, alive, tunnels, store, prompt, tangled>>

\* A keepalive fails: the session is over for the app, whatever the error.
KeepaliveFails(c) ==
    /\ c \in alive
    /\ alive' = alive \ {c}
    /\ tunnels' = tunnels \ {c}
    /\ mSessions' = [s \in Servers |-> IF mSessions[s] = c THEN None ELSE mSessions[s]]
    /\ UNCHANGED <<client, call, leaving, store, prompt, tangled>>

-----------------------------------------------------------------------------
(* The list of servers. *)

SetRow(s, row) == [view EXCEPT ![s] = IF @.listed THEN row ELSE @]

\* Mutant of StartLoad: a list that is there is not read again.
StartLoadOnce ==
    /\ loggedIn /\ client
    /\ \E s \in Servers : ~view[s].listed
    /\ Active \in loads \/ Cardinality(loads) < MaxLoads
    /\ loads' = loads \union {Active}
    /\ UNCHANGED <<go, loggedIn, view, prompt, tangled>>

\* loadServers: every 10 s, on servers.changed and session.revoked, after
\* operations.  The service is asked while the client is there.
StartLoad ==
    /\ loggedIn /\ client
    /\ Active \in loads \/ Cardinality(loads) < MaxLoads
    /\ loads' = loads \union {Active}
    /\ UNCHANGED <<go, loggedIn, view, prompt, tangled>>

\* Its answer replaces the whole list, whenever it comes.
LoadServers(ids) ==
    /\ ids \in loads
    /\ loads' = loads \ {ids}
    /\ view' = [s \in Servers |->
                   [listed |-> TRUE, connected |-> s \in ids, connecting |-> FALSE]]
    /\ UNCHANGED <<go, loggedIn, prompt, tangled>>

LoadFails(ids) ==
    /\ ids \in loads
    /\ loads' = loads \ {ids}
    /\ UNCHANGED <<go, loggedIn, view, prompt, tangled>>

-----------------------------------------------------------------------------
(* The sheet for the second factor. *)

OwnPolls(sh) == sh.srv # NoServer /\ sh.mode = "push" /\ ~sh.driven

\* The effects of the sheet after its props or its mode changed.
SetSheet(sh) ==
    LET opened == sh.srv # NoServer /\ (sheet.srv = NoServer \/ sh.avail # sheet.avail)
        new == IF opened
               THEN [sh EXCEPT !.mode = IF sh.avail THEN "push" ELSE "totp", !.loading = FALSE]
               ELSE sh
    IN  /\ sheet' = new
        /\ own' = CASE ~OwnPolls(new) -> NoOwn
                    [] OwnPolls(new) /\ OwnPolls(sheet) -> own
                    [] OTHER -> [pc |-> "create", srv |-> new.srv]

\* Mutant of CancelRef: the run before goes on.
NotCancelled == run

CancelRef == IF ref = None THEN run ELSE [run EXCEPT ![ref].cancelled = TRUE]

\* A code is entered.
SubmitCode ==
    /\ sheet.srv # NoServer /\ sheet.mode = "totp" /\ ~sheet.loading
    /\ run' = CancelRef
    /\ SetSheet([sheet EXCEPT !.driven = FALSE, !.loading = TRUE])
    /\ pending' = sheet.srv
    /\ view' = SetRow(sheet.srv, [view[sheet.srv] EXCEPT !.connecting = TRUE])
    /\ BeginConnect(sheet.srv, "submit")
    /\ UNCHANGED <<loggedIn, loads, ref, pushStatus>>

ShownStatus ==
    IF sheet.driven THEN pushStatus
    ELSE IF own.pc \in {"again", "approved"} THEN "approved"
    ELSE IF own.pc = "refused" THEN "refused" ELSE "pending"

SwitchToCode ==
    /\ sheet.srv # NoServer /\ sheet.mode = "push" /\ ShownStatus # "approved"
    /\ run' = CancelRef
    /\ SetSheet([sheet EXCEPT !.mode = "totp", !.driven = FALSE])
    /\ UNCHANGED <<go, store, pending, ref, pushStatus, tangled>>

UsePush ==
    /\ sheet.srv # NoServer /\ sheet.mode = "totp" /\ sheet.avail
    /\ SetSheet([sheet EXCEPT !.mode = "push"])
    /\ UNCHANGED <<go, store, pending, run, ref, pushStatus, tangled>>

CancelSheet ==
    /\ sheet.srv # NoServer /\ ~sheet.loading
    /\ run' = CancelRef
    /\ SetSheet([sheet EXCEPT !.driven = FALSE, !.srv = NoServer])
    /\ pending' = NoServer
    /\ UNCHANGED <<go, store, ref, pushStatus, tangled>>

\* The sheet's own request is created, or not: then the sheet shows the error,
\* and "waiting" beside it.
OwnCreate ==
    /\ own.pc = "create"
    /\ \E pc \in {"poll", "failed"} : own' = [own EXCEPT !.pc = pc]
    /\ UNCHANGED <<go, store, pending, run, ref, pushStatus, sheet, tangled>>

OwnRefused ==
    /\ own.pc \in {"poll", "again"}
    /\ own' = [own EXCEPT !.pc = "refused"]
    /\ UNCHANGED <<go, store, pending, run, ref, pushStatus, sheet, tangled>>

\* Approved: connect to the server the sheet is for.  A poll sent before the
\* answer came may be answered "approved" too.
OwnApproved ==
    /\ own.pc \in {"poll", "again"}
    /\ own' = [own EXCEPT !.pc = IF @ = "poll" THEN "again" ELSE "approved"]
    /\ sheet' = [sheet EXCEPT !.loading = TRUE]
    /\ pending' = sheet.srv
    /\ BeginConnect(sheet.srv, "own")
    /\ UNCHANGED <<store, run, ref, pushStatus>>

\* Or "pending", which is shown again.
OwnOvertaken ==
    /\ own.pc = "again"
    /\ own' = [own EXCEPT !.pc = "stale"]
    /\ UNCHANGED <<go, store, pending, run, ref, pushStatus, sheet, tangled>>

-----------------------------------------------------------------------------
(* App: connecting, and the runs that wait for an approval. *)

\* connectManaged, up to the call.
ConnectManaged(s) ==
    /\ view[s].listed /\ ~view[s].connected
    /\ ~(ref # None /\ run[ref].srv = s /\ ~run[ref].cancelled)
    /\ pending' = s
    /\ view' = SetRow(s, [view[s] EXCEPT !.connecting = TRUE])
    /\ BeginConnect(s, "connect")
    /\ UNCHANGED <<loggedIn, loads, run, ref, pushStatus, sheet, own>>

\* A run is over: its finally clause.
RunEnds(r) ==
    /\ run' = [run EXCEPT ![r] = [FreeRun EXCEPT !.pc = "done"]]
    /\ ref' = IF ref = r THEN None ELSE ref

\* Its catch clause: the user sees that it expired ("denied" and "expired" are
\* "refused" here).
RunFails(r) ==
    /\ RunEnds(r)
    /\ pushStatus' = IF run[r].cancelled THEN pushStatus ELSE "refused"

\* require_push_auth: the run before is cancelled, a new one starts, the
\* sheet opens on it.
StartRun(s) ==
    LET r == CHOOSE r \in FreeRuns : TRUE
    IN  /\ FreeRuns # {}
        /\ run' = [CancelRef EXCEPT ![r] =
                       [pc |-> "create", srv |-> s, cancelled |-> FALSE, call |-> None]]
        /\ ref' = r
        /\ pushStatus' = "pending"
        /\ pending' = s
        /\ SetSheet([sheet EXCEPT !.srv = s, !.avail = TRUE, !.driven = TRUE])

\* Mutant of AskForCode: the sheet stays with the run it showed.
AskForCodeBeside(s) ==
    /\ pending' = NoServer
    /\ SetSheet([sheet EXCEPT !.srv = s, !.avail = FALSE])
    /\ UNCHANGED <<run, ref, pushStatus>>

\* require_totp: the sheet opens for a code.
AskForCode(s) ==
    /\ pending' = NoServer
    /\ SetSheet([sheet EXCEPT !.srv = s, !.avail = FALSE, !.driven = FALSE])
    /\ UNCHANGED <<run, ref, pushStatus>>

\* The code that waits for call c learns that it failed or took too long.
WaitFails(c) ==
    \/ /\ call[c].by = "run"
       /\ \E r \in Runs : run[r].call = c /\ RunFails(r)
       /\ UNCHANGED <<pending, sheet, own>>
    \/ /\ call[c].by = "connect" /\ pending' = NoServer
       /\ UNCHANGED <<run, ref, pushStatus, sheet, own>>
    \/ /\ call[c].by \in {"submit", "own"} /\ pending' = NoServer
       /\ SetSheet([sheet EXCEPT !.loading = FALSE])
       /\ UNCHANGED <<run, ref, pushStatus>>

\* withConnectTimeout: the window stops waiting, the call goes on.
ConnectTimeout(c) ==
    /\ call[c].waits /\ call[c].pc \notin {"free", "done"}
    /\ call' = [call EXCEPT ![c].waits = FALSE]
    /\ WaitFails(c)
    /\ UNCHANGED <<client, mSessions, leaving, alive, tunnels, store, tangled>>

Connected(c) == [view[call[c].srv] EXCEPT !.connecting = FALSE, !.connected = TRUE]

\* The call is answered: connectServer updates its row either way, the rest
\* happens only if the window still waits.
CallSucceeds(c) ==
    /\ call[c].pc = "ok"
    /\ call' = [call EXCEPT ![c].pc = "done", ![c].waits = FALSE]
    /\ \/ /\ call[c].by = "run" /\ call[c].waits
          /\ view' = SetRow(call[c].srv, Connected(c))
          /\ SetSheet([sheet EXCEPT !.srv = NoServer, !.driven = FALSE, !.avail = FALSE])
          /\ \E r \in Runs : run[r].call = c /\ run' = [run EXCEPT ![r].pc = "load"]
          /\ loads' = IF client THEN loads \union {Active} ELSE loads
       \/ /\ call[c].by = "run" /\ ~call[c].waits
          /\ UNCHANGED <<view, loads, run, sheet, own>>
       \/ /\ call[c].by # "run"
          /\ view' = IF call[c].by = "own" THEN view ELSE SetRow(call[c].srv, Connected(c))
          /\ IF call[c].waits /\ call[c].by # "connect"
             THEN SetSheet([sheet EXCEPT !.srv = NoServer, !.loading = FALSE])
             ELSE UNCHANGED <<sheet, own>>
          /\ UNCHANGED <<loads, run>>
    /\ UNCHANGED <<client, mSessions, leaving, alive, tunnels, loggedIn,
                   pending, ref, pushStatus, tangled>>

CallFails(c) ==
    /\ call[c].pc \in {"push", "totp", "error"}
    /\ call' = [call EXCEPT ![c].pc = "done", ![c].waits = FALSE]
    /\ view' = IF call[c].by \in {"connect", "submit"}
               THEN SetRow(call[c].srv, [view[call[c].srv] EXCEPT !.connecting = FALSE])
               ELSE view
    /\ \/ ~call[c].waits /\ UNCHANGED prompt
       \/ call[c].waits /\ call[c].pc = "push" /\ StartRun(call[c].srv)
       \/ call[c].waits /\ call[c].pc = "totp" /\ AskForCode(call[c].srv)
       \/ call[c].waits /\ call[c].pc = "error" /\ WaitFails(c)
    /\ UNCHANGED <<client, mSessions, leaving, alive, tunnels, loggedIn, loads, tangled>>

\* The request for an approval is made, or fails.
RunCreate(r) ==
    /\ run[r].pc = "create"
    /\ \/ run' = [run EXCEPT ![r].pc = "poll"] /\ UNCHANGED <<ref, pushStatus>>
       \/ RunFails(r)
    /\ UNCHANGED <<go, store, pending, sheet, own, tangled>>

\* A poll is answered: cancelled runs stop whatever the answer is.
RunCancelled(r) ==
    /\ run[r].pc = "poll" /\ run[r].cancelled
    /\ RunEnds(r)
    /\ UNCHANGED <<go, store, pending, pushStatus, sheet, own, tangled>>

RunRefused(r) ==
    /\ run[r].pc = "poll" /\ ~run[r].cancelled
    /\ pushStatus' = "refused"
    /\ RunEnds(r)
    /\ UNCHANGED <<go, store, pending, sheet, own, tangled>>

RunApproved(r) ==
    /\ run[r].pc = "poll" /\ ~run[r].cancelled
    /\ pushStatus' = "approved"
    /\ BeginConnect(run[r].srv, "run")
    /\ run' = [run EXCEPT ![r].pc = "connect", ![r].call = NewCall]
    /\ UNCHANGED <<store, pending, ref, sheet, own>>

RunLoaded(r) ==
    /\ run[r].pc = "load"
    /\ RunEnds(r)
    /\ UNCHANGED <<go, store, pending, pushStatus, sheet, own, tangled>>

\* Disconnect by tunnel (managedDisconnectByTunnelID), then loadServers.  A
\* tunnel of no session is just taken down.
Disconnect(c) ==
    /\ "disconnect" \in UserDoes /\ c \in tunnels
    /\ LET owners == {s \in Servers : mSessions[s] = c}
       IN  /\ IF owners # {}
              THEN TearDown(owners)
              ELSE tunnels' = tunnels \ {c} /\ UNCHANGED <<mSessions, alive>>
           /\ tangled' = tangled \union {s \in owners : Busy(s)}
    /\ loads' = IF client THEN loads \union {Active'} ELSE loads
    /\ pending' \in {pending, NoServer}
    /\ UNCHANGED <<client, call, leaving, loggedIn, view, run, ref, pushStatus, sheet, own>>

\* Logout, an expired login, a revoked device: first the sessions go down.
Logout ==
    /\ UserDoes \intersect {"logout", "expired"} # {} /\ client /\ ~leaving
    /\ TearDown(Servers)
    /\ leaving' = TRUE
    /\ tangled' = tangled \union {s \in Servers : Busy(s)}
    /\ UNCHANGED <<client, call, store, prompt>>

\* Then, seconds later, the client: the window empties its list.
LoggedOut ==
    /\ leaving
    /\ leaving' = FALSE /\ client' = FALSE /\ loggedIn' = FALSE
    /\ view' = [s \in Servers |-> NoRow]
    /\ UNCHANGED <<mSessions, call, alive, tunnels, loads, prompt, tangled>>

\* Logging in again.  Bound: while there are calls left.
Login ==
    /\ ~client /\ FreeCalls # {}
    /\ client' = TRUE /\ loggedIn' = TRUE
    /\ loads' = loads \union {Active}
    /\ UNCHANGED <<mSessions, call, leaving, alive, tunnels, view, prompt, tangled>>

\* Mutant of ClearPending: only the timer ends it, not a connection.
ClearUnconnected ==
    /\ pending # NoServer
    /\ sheet.srv # pending /\ ~view[pending].connecting /\ ~view[pending].connected
    /\ pending' = NoServer
    /\ UNCHANGED <<go, store, run, ref, pushStatus, sheet, own, tangled>>

\* The effect that ends the optimistic "connecting": at once when the tunnel
\* of a connected row is there, by a timer of 3 s else.
ClearPending ==
    /\ pending # NoServer
    /\ \/ view[pending].connected
       \/ sheet.srv # pending /\ ~view[pending].connecting
    /\ pending' = NoServer
    /\ UNCHANGED <<go, store, run, ref, pushStatus, sheet, own, tangled>>

-----------------------------------------------------------------------------
User ==
    \/ \E s \in Servers : ConnectManaged(s)
    \/ SubmitCode \/ SwitchToCode \/ UsePush \/ CancelSheet
    \/ \E c \in Calls : Disconnect(c)
    \/ Logout \/ LoggedOut \/ Login

GoSide ==
    \E c \in Calls :
        \/ SessionCreated(c) \/ SessionRefused(c) \/ TunnelUp(c) \/ TunnelFails(c)
        \/ SessionRecorded(c) \/ KeepaliveFails(c)

Window ==
    \/ \E c \in Calls : CallSucceeds(c) \/ CallFails(c) \/ ConnectTimeout(c)
    \/ \E r \in Runs : RunCreate(r) \/ RunCancelled(r) \/ RunRefused(r)
                        \/ RunApproved(r) \/ RunLoaded(r)
    \/ OwnCreate \/ OwnRefused \/ OwnApproved \/ OwnOvertaken
    \/ StartLoad \/ \E ids \in SUBSET Servers : LoadServers(ids) \/ LoadFails(ids)
    \/ ClearPending

Next == User \/ GoSide \/ Window

\* The timer waits while a tunnel is connecting, and begins again with every
\* new list of tunnels or servers.
TimerRuns == sheet.srv # pending /\ \A c \in Calls : call[c].pc # "session"

\* Calls of Go end, their answers reach the window, the lists are read again
\* and again, and a read gets through when it is tried often enough.  The
\* lists are read every 5 and 10 s: between two reads the timer fires.
GoesOn(c) ==
    \/ SessionCreated(c) \/ SessionRefused(c) \/ TunnelUp(c) \/ TunnelFails(c)
    \/ SessionRecorded(c) \/ CallSucceeds(c) \/ CallFails(c)

Fairness ==
    /\ WF_vars(\E c \in Calls : GoesOn(c))
    /\ WF_vars(StartLoad)
    /\ SF_vars(\E ids \in SUBSET Servers : LoadServers(ids))
    /\ WF_vars(TimerRuns /\ ClearPending)

Spec == Init /\ [][Next]_vars /\ Fairness

-----------------------------------------------------------------------------
(* Properties. *)

\* A tunnel that is up, and a keepalive loop, belong to the session recorded
\* for their server (App.mSessions) while somebody is logged in, or the tunnel
\* to the call that is about to record it: nothing else can take them down,
\* and logging out does.  Not so for a server whose calls overlapped one
\* another or a teardown.
NoStrayTunnel ==
    \A c \in tunnels \union alive :
        \/ client /\ mSessions[call[c].srv] = c
        \/ call[c].pc = "up"
        \/ call[c].srv \in tangled

\* Only the run in pushConnectRef goes on uncancelled: every approval that
\* may still connect is one the sheet's buttons can cancel.
OneLiveRun ==
    \A r \in Runs : run[r].pc \notin {"free", "done"} /\ ~run[r].cancelled => ref = r

\* A sheet that shows a run of the window as "waiting for approval" shows a run
\* of the server it names that is not cancelled and still asks for the
\* approval; and an approval the sheet asked for itself is for the server it
\* names.  The user never approves the connection to another server.
WaitingIsForTheNamedServer ==
    /\ sheet.srv # NoServer /\ sheet.driven /\ pushStatus = "pending" =>
          /\ ref # None /\ run[ref].srv = sheet.srv /\ ~run[ref].cancelled
          /\ run[ref].pc \in {"create", "poll"}
    /\ own.pc # "off" => own.srv = sheet.srv

\* Once the sessions stay as they are, the list of servers comes to show
\* exactly them, whatever order the answers came in.
Converges ==
    <>[][mSessions' = mSessions /\ UNCHANGED <<client, loggedIn>>]_vars
        => <>[](client => \A s \in Servers :
                    view[s].listed /\ (view[s].connected <=> mSessions[s] # None))

\* The big orb does not show "connecting" for ever.
PendingEnds ==
    []<>(\/ pending = NoServer
         \/ sheet.srv = pending)
=============================================================================
