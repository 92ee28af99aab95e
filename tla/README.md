# ProIdentity Access in TLA+

ProIdentity Access is a WireGuard/OpenVPN access system: a Go server that
creates short-lived VPN sessions and hands out assigned profiles, an
administration UI (React) in the browser, a desktop app (Go/Wails, its window
in React) with a privileged tunnel service, and Android and iOS apps. This
directory models the parts of it where several goroutines, devices, admins,
replies and failures meet, checks the models with TLC, and proves the main
invariants with TLAPS. `PROJECT.json` maps every definition to the lines it stands for.

## 1. Inventory

### Server (`server/`)

| component | state | operations | what is hard |
|---|---|---|---|
| Session manager (`internal/session`) | rows of `sessions` and `vpn_connection_events`, `Manager.psks` | CreateSession, Keepalive, Terminate*, TerminateAll, expireStale, cleanDeadPeers, deleteSession, syncServerPeers | no common lock: handlers, two watchdogs and the main goroutine interleave at every database statement and kernel call; every call can fail; the process may crash |
| Address pool (`internal/ippool`) | `ip_pool` | InitServer, Allocate, Release | Release frees by address, not by session |
| WireGuard (`internal/wireguard`) | peers and allowed IPs in the kernel, `Registry.servers` | AddPeer, RemovePeer, SyncAllPeers, startServer, Create, Delete | SyncAllPeers writes a list read earlier |
| Firewall (`internal/firewall`) | ACCEPT rules in chain `WG-VPN` | AddRules, RemoveRules | rules are derived twice, at different times |
| Admin API (`internal/api/admin`) | users, access, bundles, resources | Update, Delete, AddServer, RemoveServer, bundles | access changes while sessions are being created |
| WireGuard profiles (`internal/api/wgprofiles.go`) | `wireguard_profiles` (holder, holder_seen), assignments | claim, heartbeat, release, admin update/delete/free/assign/unassign | check-then-act between statements, claims that lapse, late releases |
| Push authentication (`internal/api/pushauth.go`) | `pushPending` | create, reuse, poll, final use | polls without the lock |
| Login (`internal/api/auth.go`, `rate_limit.go`) | `loginFails`, `waPending`, `rateBuckets` | lock-out, passkey ceremonies, rate limit | windows at their boundaries, check-then-act |
| Tokens (`internal/auth/jwt.go`, middleware) | none (claims) | issue, sliding renewal, check of the account | renewal bounded by the first authentication |
| Collectors (`internal/denial`, `internal/flowmeter`) | buffers, last counters | add/flush, sample | attribution to a session that changed meanwhile |
| OpenVPN profiles, user configs, devices | rows | CRUD, registration | little concurrency |

### Administration UI (`server/webui/`)

| component | state | operations | what is hard |
|---|---|---|---|
| Sign-in (`pages/Login.tsx`) | step, push request, its status, the interval that polls | credentials, code, push, retry | polls overlap, their answers come after the form went on, two may report one approval |
| Pages with a list (`pages/*.tsx`, `pages/access/*.tsx`) | the rows shown, the open sheet or drawer, busy flags | read, create, edit, delete, relate | replies in any order, drawers closed while a change is under way, rows that others remove |
| Paged logs (`System.tsx`, `ConnectionHistory.tsx`) | filter, search, offset, page size, rows, total | filter, page, refresh, interval | the pager goes by the total of an older reply, the log grows and ages meanwhile |
| Topology, reports, settings, display components | what they show | read | little |

### Desktop client (`client/`)

| component | state | operations | what is hard |
|---|---|---|---|
| Profile connections (`app_wgprofiles.go`) | `App.mWGP`, heartbeat loops | connect, disconnect, heartbeat, lost, release | requests of stopped loops, retried releases, kill |
| Managed connections (`app.go`) | `App.mSessions`, keepalive loops | connect with endpoint candidates, disconnect, retryDeleteSession, poll | overlapping connects, slow handshakes against the session timeout |
| The window over them (`App.tsx`, `useManagedStore.ts`, `TotpPromptSheet.tsx`) | the list of servers, the pending mark, runs that wait for an approval, the sheet | connect, cancel, second factor, disconnect, login, logout | calls outlive the window's timeout, lists arrive late, two ways to wait for an approval |
| Setup wizard (`SetupWizard.tsx`, `useSetupStore.ts`) and `LoginSheet.tsx` | the step, the settings in memory and on disk, the sign-in | choose a mode, save the server, register the device, sign in | saves that overlap, fail or outlive their step; the app is closed between two of them |
| Tunnel service (`internal/daemon`) | tunnels, OpenVPN sessions | import, connect, disconnect, delete, reap | start in a goroutine, check-then-act on conflicts |
| Updater (`internal/daemon/updater*.go`) | update state, snooze, relaunch marker | check, download, install, prompt | exclusive install, mandatory updates |
| IPC (`internal/ipc`) | connections, pending ids | request, response, broadcast | |

### How they interact

A client asks `POST /sessions`; the handler checks the access, then
`CreateSession` takes an address from the pool, inserts the row, adds the peer,
rebuilds all peers from the table, installs the rules and returns a config with
a preshared key that exists in memory only. The client sends keepalives; the
session ends by a request, by an admin, by a watchdog, or with the process.
Everything is shared through the database and the kernel.

A profile is claimed over HTTP before the app asks its service to bring the
tunnel up, and renewed every 45 s against a lifetime of 180 s.

Sign-in is one protocol with three front ends: `POST /auth/login` answers a
right password with a push request or asks for a code, the page polls for the
verdict and sends the credentials again with the approved request. A connect
may ask for a second factor in the same way; there the window's Go side polls.
Pages and server share nothing but requests: what a page shows is as old as the
reply that brought it.

## 2. Plan

Order of the modules, the most important behaviour first:

1. `SessionManager`: the server's sessions. `SessionManagerProofs` is about
   every interleaving, `SessionAddressProofs` about creations beside one
   goroutine that ends sessions, `SessionSerialProofs` about one job at a time.
2. `ProfileLock` and `WGProfiles` with `WGProfilesProofs`: the abstract lock and
   the claim protocol, with a refinement.
3. `ManagedConnect` with `ManagedConnectProofs`: the app's connections, from
   the click to the tunnel.
4. `PushLogin`, and `SetupWizard` which extends it, with `SignInProofs`: the
   sign-in on its three pages, on the server and in the wizard's first run.
5. `AdminLists` with `AdminListsProofs`, and `PagedTable` with
   `PagedTableProofs`: the pages of the administration UI.

All of these are done. What would come next, in this order: `PeerHealth` (the
age of each peer's handshake against the full sync and `cleanDeadPeers`);
`ServerLife` (registry and admin handlers that create and delete servers while
sessions are created); the tunnel service; the collectors, login throttling,
token renewal, and `InitServer` against a reference set.

Abstract specifications: `ProfileLock` is stated and implemented. A promise
worth stating next is a session as "up for the user who may use the server,
with an address of its own". An approval as a one-time token is not one the
code keeps (section 4).

Runs: two or three sessions, two addresses, two request goroutines and one
watchdog; two or three devices; two servers and two approvals; two rows of a
list; one question per run.

Theorems still to come: the rest a session is promised when one watchdog runs
beside the requests (what `SessionSerialProofs` says with several jobs under way,
as far as section 4 leaves it true).

## 3. The models

### SessionManager

One server and all its goroutines. `rows`, `owner`, `addr`, `stale`, `aged`,
`pool`, `events`, `access`, `grants`, `account` and `admins` are tables; `psks`
is `Manager.psks`; `peers` and `rules` are the kernel's. `unended` is history:
the sessions whose owner lost the server in a way that ends no session. `go[p]` is a goroutine:
its position, its job, the session it works on, the rest of its batch, and the
peer list it read for a sync.

| code | actions |
|---|---|
| `handleCreateSession`, `CreateSession` | Admit, Allocate / AllocateFails, InsertRow / InsertFails, AddPeer, SyncRead, SyncWrite, InstallRules, FinishCreate |
| `deleteSession` | RemovePeer, RemoveRules, Release, DeleteRow, SyncRead, SyncWrite |
| `syncServerPeers` | SyncRead, SyncWrite |
| handlers and watchdogs that end sessions | Terminate, RemoveServer, Disable, DeleteUser (then SelectUserSessions, Purge), ExpireStale, CleanDeadPeers; NextSession, EndOfBatch |
| `main` | Boot, Serve, SigTerm, Exit, and Crash |
| one statement each | Keepalive, AddServer, Enable, ServerRemoveUser, SetAdmin, SetGrants; GoStale and Age are time |

Abstractions, and why they lose nothing the properties speak of:

- A session id stands for its key pair and its preshared key: every client
  generates a key pair per session (`client/app.go:910`, and the same in the
  Android and iOS apps), and the server a preshared key per session. Allowed
  IPs follow from the peers.
- `setPSK` is merged with the allocation that follows, `dropPSK` with the
  DELETE or with the failed INSERT's release, and the event with the statement
  before it: no other goroutine reads the key of a session that has no row.
- The rows and the keys that a sync reads are read at once, and the bundles
  together with the firewall calls that use them; a failed firewall call leaves
  any part of its rules, which also stands for rules added one by one.
- Every row is of this server, which exists throughout. The age of a handshake
  is unconstrained (`Spared`, `NextSession`).
- Inserting an event does not fail; database reads of watchdogs and of
  `TerminateUserSessions` do not fail (a failed read ends the job). Clearing the
  interface at start-up may fail, and leaves the peers of the last run if the
  interface was still there (`registry.go:377-379`, `setup.go:21-22`).
- A request is a goroutine of `Requests`: two of them are two requests in
  flight. Middleware and the handlers' other checks are in `Admit`'s guards.

Constants named in `Ops` and `Faulty` switch operations and failures on per
run; `Exclusive` names jobs of which one at a time may run, for the runs that
ask what holds when jobs do not overlap.

### ProfileLock and WGProfiles

`ProfileLock` is the promise: one owner, and the lock passes on only while no
other device uses the profile. `WGProfiles` is one row of
`wireguard_profiles`, the handlers statement by statement, and the desktop app
of every device: `ui` (connectWGProfile and the claim it waits for), `beat`
(the heartbeat loop of the current connection), `stray` (the request in flight
of a loop that was stopped), `releasing` (the goroutine that releases), `sess`
(`mWGP`), `tun` (the service has the tunnel up). Rows do not influence each
other, so one profile is enough.

Time is counted in heartbeat intervals: `TTL` is 4 (180 s / 45 s), and a Tick is
the moment at which the tickers fire. A ticker starts when connecting is over
(`app_wgprofiles.go:108-128`, `213-214`), a claim counts from its UPDATE, so the
180 s are over at some moment between the Tick at which the claim is TTL old and
the next: Expire, at any point of that interval, beside or between requests. The
fourth heartbeat after a claim therefore comes too late if the three before it
failed. HTTP requests time out after 15 s
(`client/internal/managed/client.go:48`), so no interval ends while one is in
flight; only a release, which is retried, spans intervals. Calls of the service
have no timeout: that importing and connecting end within the interval of the
claim is a bound of the model. `missed` and `lostFor` are capped at TTL. One
stray request and one release per device are bounds, too, and a device whose
service kept a tunnel connects again only after Restart.

With `"ipc"` in Faulty the service does not do what it is asked: a teardown,
which does not look at the error (`app_wgprofiles.go:152-153`), leaves the tunnel
up, and a heartbeat takes a tunnel that is down for one that is up (`272-273`).

Not modelled: logout and revoked devices (they end in `Teardown`), the check
that the installation is active, the config itself. Importing, registering and
connecting a tunnel are one step. The two SELECTs of an assignment are one
step. A request that times out at the app stops at the server too; what it had
done by then stays.

### ManagedConnect

The desktop app's connections to the organization's servers: the window, and
the Go side it calls. A call of `ManagedConnectServer[Push]` is `call[c]`, the
session and the tunnel it makes are named by it; `mSessions`, `alive`
(keepalive loops) and `tunnels` (in the service) are the Go side. `view`,
`loggedIn` and `loads` are `useManagedStore`; `pending`, `run`, `ref`,
`pushStatus` and `sheet` are `App`; `own` is the approval `TotpPromptSheet`
asks for by itself.

| code | actions |
|---|---|
| `managedConnectInternal`, `connectManagedEndpointCandidates`, `keepaliveLoop` | BeginConnect (in every action that calls), SessionCreated, SessionRefused, TunnelUp, TunnelFails, SessionRecorded, KeepaliveFails |
| `connectManaged` up to and after the call, `withConnectTimeout` | ConnectManaged, CallSucceeds, CallFails (push: StartRun, code: AskForCode), ConnectTimeout |
| the run that waits for an approval | RunCreate, RunCancelled, RunRefused, RunApproved, RunLoaded |
| `TotpPromptSheet` | SubmitCode, SwitchToCode, UsePush, CancelSheet, OwnCreate, OwnRefused, OwnApproved, OwnOvertaken; SetSheet is the effect on its props |
| `loadServers` and the interval, the effect on `pendingServerId` | StartLoad, LoadServers, LoadFails; ClearPending |
| `disconnectById`, `login`, `logout`, the event of an expired login | Disconnect, Login, Logout (the sessions go down), LoggedOut (seconds later, the client goes and the window empties its list) |

A run is cancelled by a flag it looks at after each await; `ref` is
`pushConnectRef`. Effects of React run in the step of the handler that triggers
them. `tangled` is history: the servers whose calls overlapped another call or
a teardown, for which the code makes no promise (section 4). Endpoint
candidates are one attempt, the retried deletion of a session is its first
attempt, imported and OpenVPN tunnels are left out. The tunnels that a teardown
takes down go in one step. When the sheet's `mode` changes with its props, the
effect runs once more with the old mode and its request is dropped at once
(`TotpPromptSheet.tsx:37-43`); SetSheet leaves that request out. The window's
list of tunnels is not modelled: ClearPending may run beside a tunnel that is
still connecting, which the guard at `App.tsx:381` puts off, and is only required
to run while none is (`TimerRuns`).

### PushLogin and SetupWizard

`PushLogin` is one page (`Login.tsx`, `LoginSheet.tsx`, or the wizard's last
step, which differ in details the model keeps), the handlers of `auth.go` and
`pushauth.go`, and ProIdentity Cloud, which is external: it makes requests, and
the user decides them. `call` are sign-in calls in flight; an interval is named
by the request it polls. Polls are not counted: `asked` are the requests a poll
may be out for and `answered` those whose verdict may be on its way, because a
page sends one every 2 s whatever became of the others.

| code | actions |
|---|---|
| `handleLogin` | OfferReused, OfferNew (`findReusable`), CodeVerified, Fails |
| `verifyBoundPushAuth` | LookedUp, StatusPolled, UsedUp: the lock is released in between |
| `handlePushAuthPollPublic`, `rememberPushAuth` | PollServed, ExpiresAt |
| the pages' handlers | SubmitCredentials, SubmitCode, TryAgain, EnterCode, UsePush, ChangeAccount, OpenSheet, CloseSheet |
| the answers | Offered, NotOffered, GotToken, NotSignedIn, NotHeard, PollAnswered |

`SetPush` is what a handler does to the request and its status, together with
the effect on them, whose cleanup makes the page deaf to the sign-in it sent
(`Deafen`; the wizard has a guard instead). The store signs in all the same when
a sign-in that the sheet no longer hears succeeds: the sheet stays open and goes
on polling (NotHeard, `LoginSheet.tsx:52-66`). Passwords are right, codes are
right; a call may fail at any point (`Fails`), also after the server did its
part.

`SetupWizard` extends it by the steps before: `setup` is the step shown,
`memory` and `disk` the settings in the Go process and in the file, `saves` the
calls of the steps. Written changes the settings and saves them or fails to,
URLSaved is the first of the two saves of registering a device; StepDone and StepFailed are the answers; Restart is `checkSetup` after the app
was closed at any moment; SignInStep ends in `completeSetup`. Continue is not
disabled while its save is under way (`SetupWizard.tsx:213`), so saves overlap.
Setting up again from the settings (`App.tsx:537-541`) is not modelled.

### AdminLists

Sixteen pages that keep a list are records: what they read, whether a drawer
reads by itself, whether they read again at an interval or with a button, and
their handlers - where the button is, what it asks the server to do, the busy
flag that protects it, what its answer makes the page do. One machine runs them
all: `loads` and `calls` are requests in flight, `shown` the list, `own` what a
drawer read, `dialog` the open sheet or drawer, `form` the row the sheet's
fields were filled from. A list has rows and, per row, details (the members of
a role, the servers of a user). An assignment of a profile changes both: the
row shows how many users it has ("assign").

| code | actions |
|---|---|
| handlers of the server | CallServed, LoadServed; OtherChanges is another administrator or a client |
| opening and closing | Open, New, Edit, AskDelete, Close; `Turn` mounts and unmounts a drawer, `Fill` is the effect that fills the sheet |
| submitting | Submit, Answered, Refused, CallFails, Leave |
| `load()` of each page | Poll, LoadApplied, LoadFails; LoadUnheard when the drawer that asked is gone |

The several requests of a drawer are one read of its own; secondary lists
(`allServers` in People, the names in a select) are left out; leaving a page
with requests in flight is modelled where a handler does it (`ConfigTab`'s
delete). Several editors' contents are two values: "a" as created, "b" as
changed. `excused` says which part of the page may be out of date for a reason
the handlers do not answer for: another administrator's change, a failed read or
a lost answer, a reply that was overtaken by a newer one (nothing in the code
orders them), a row that the page added to a list which has it already.

### PagedTable

The three logs that are read a page at a time, denials and audit log of
`System.tsx` and the connection history. The log is rows `1 .. newest`, of
which the first `horizon` are older than the history's window of time; a filter
is one of two words. Load carries its query; LoadApplied brings rows and total,
whatever is asked for by then. SetFilter, TypeSearch and SearchSettles (the
300 ms pause, after which the text is compared with the filter of when it was
last typed), Clear (which asks for nothing if the filters are untouched and the
page is the first), SetSize, Prev, NextPage, GoTo, Refresh and Poll are the
controls, with the guards that disable or hide them.

## 4. Runs

| run | question | bounds |
|---|---|---|
| SessionSerial | do table, pool, interface, chain, keys, history and access agree at rest, one job at a time, whatever fails or crashes? | 3 sessions, a user who is an administrator to begin with, 2 addresses; every way to get or lose the server: both pages, disabling, deletion, demotion |
| SessionConcurrent | can overlapping jobs, failures, SIGTERM and crashes leak an address or a key, or put a peer of an earlier run back? | 2 requests + main goroutine, 2 sessions |
| SessionExpiry | does every job end, and every silent session, though bundles change and firewall calls and syncs fail? | 1 request + expiry watchdog, 2 sessions, fairness |
| SessionLostPeers | do two creations beside one goroutine that ends sessions keep addresses apart, and does a session that lost its peer to a stale sync recover? | 2 creations + dead-peer watchdog, fairness |
| WGOrdered | do non-overlapping handlers implement the lock? | 3 devices, 2 users, 1 admin |
| WGNetwork | how many lost requests cost a connected device its claim? | 2 devices, requests and answers lost anywhere, a service that does not answer |
| Connect | can an answer that comes late leave a tunnel, a second run or a sheet that waits for the wrong server behind, and do the list and the pending mark catch up with what happened? | 2 servers, 2 calls, 2 approvals, push and code, disconnects and logouts, lists in flight beside the calls, fairness |
| SignIn | do intervals, tokens, sign-ins and the wizard's progress keep together when polls overlap, answers get lost and saves fail? | 3 pages, 2 push requests, 2 calls, 2 saves, restarts |
| AdminLists | is any page out of date, in list, drawer or sheet, without a reason? | 16 pages, 2 rows, 2 reads and 1 or 2 calls in flight; others change the data of the live sessions and of the health page |
| PagedTable | do rows belong to the query shown, and does a user beyond the end get back? | 3 logs, 2 rows, pages of 1 (or 2) rows, 2 requests in flight, fairness |
| WGFreed | how long can a device stay up after it lost the claim, is a claim ever stuck, does an unassigned user go down? | any interleaving of an admin and 2 devices that are killed, fairness |

One run shows where the program departs from what its comments say (`findings`
in `PROJECT.json`). WGHandout: a claim that was refused, but re-reads a profile
freed in between, is answered with the config and without the claim, although
`wgprofiles.go:22-23` says "The config is only handed out with a successful
claim."

TLC finds further departures in small variants of these configurations, which
are kept as notes of the hazards and not as runs of their own. Of
`SessionManager`, with Sessions `{s1, s2}`, Users `{u1}`, IPs `{i1, i2}`,
Resources `{}`, Admins `{}`, Requests `{h1, h2}`, no watchdogs, Faulty `{}`, Exclusive `{}`,
no deadlock check, and Ops as given:

| variant | property violated | what happens |
|---|---|---|
| Ops `{"create", "terminate"}` | NoPeerWithoutSession | two syncs overlap (`manager.go:411`) and the list read first is written last: the peer of an ended session is back, with its key, until the next sync, although `manager.go:366` says "its config can't be reused" |
| the same, Sessions `{s1, s2, s3}`, IPs `{i1}` | NoSharedAddress | two goroutines end one session and release its address twice (`manager.go:363`), the second time for the session that has it by then |
| Sessions `{s1}`, IPs `{i1}`, Resources `{r1}`, Requests `{h1}`, Ops `{"create", "terminate", "grants"}` | NoRuleWithoutSession | the rules of a bundle taken away while the session was up stay in the chain for the next holder of the address (`manager.go:353`) |
| Ops `{"create", "removeServer"}` | SessionsHaveAccess | a session is admitted before and inserted after the user lost the server |
| Requests `{h1}`, Ops `{"create", "serverRemoveUser"}` | LosingAccessEndsSessions | `ServerHandler.RemoveUser` takes the server away from a user and leaves the live session up (`admin/servers.go:415-423`), although `admin/users.go:15-16` says that sessions are torn down "when a user loses access"; SessionsHaveAccess excepts these sessions |
| Requests `{h1}`, Admins `{u1}`, Ops `{"create", "setAdmin"}` | LosingAccessEndsSessions | an administrator without an access of its own is demoted (`admin/users.go:158-163`) and the session stays up; SessionsHaveAccess excepts it, too |
| Sessions `{s1}`, Requests `{h1}`, Ops `{"create", "crash"}`, Faulty `{"clearPeers"}` | NoPeerFromPreviousRun | clearing the interface fails (`registry.go:377`): the peers of the run that crashed stay until the first sync that succeeds |
| Ops `{"create", "sigterm"}` | `phase = "down" => rows = {}` (not a property of the module) | a creation in flight inserts its row after the shutdown read the sessions to end |

Of `WGProfiles`:

| variant | property violated | what happens |
|---|---|---|
| WGHandout with Ordered `{"requests"}` | OneDeviceUp | the release of the last connection (`wgprofiles.go:278`), arriving after the device claimed again, frees the new claim under a running tunnel |
| WGOrdered with Faulty `{"net"}` | OneDeviceUp, ImplementsLock | the claim of a device without network expires, another one takes it, and both tunnels are up until the first one reaches the server |
| WGOrdered with Faulty `{"ipc"}` | OneDeviceUp | the service fails to take the tunnel down (`app_wgprofiles.go:152`), the claim is released all the same and the next device connects |
| WGNetwork, NoTakeover with `missed[d] < TTL` | NoTakeover | three heartbeats in a row are lost, the claim lapses before the fourth and another device takes it, although `app_wgprofiles.go:26` calls the interval "Well inside the server's 3-minute claim lifetime" |
| WGOrdered with two Editors and Ordered `{"releases"}` | NotSharedOneUser | two assignments that both count before either inserts |

Of the app and the pages, where the properties carry an exception for exactly
this case; each is what TLC shows when the exception is taken out, or what the
model's actions spell out:

| where | what happens |
|---|---|
| `app.go:955` (NoStrayTunnel without `tangled`) | two connects to one server each make a session, the second takes the place of the first, whose tunnel and keepalives nobody ends; a connect in flight at logout comes up after it |
| `TotpPromptSheet.tsx:78-80` (a sheet that shows "waiting" has a run or a request of its own under way) | the request for an approval that the sheet sends by itself fails: it shows the error and goes on showing "waiting", with nothing under way; a late "pending" also overwrites "approved" |
| `pushauth.go:133` (`tokens[r] <= 1`) | two final sign-ins that poll the cloud before either uses the approval up both get a token, although `pushauth.go:269-270` says it is "bound and consumed" |
| `SetupWizard.tsx:213` | Continue is pressed twice; the second answer throws a wizard that is signing in back to registering |
| `useSetupStore.ts:62` | "standalone" fails to save, "managed" is chosen and saved with what was set before: a restart skips the wizard |
| `Login.tsx` (no property) | polls of a request the server has forgotten get 404 and the page waits for ever; a failed retry leaves "waiting" with no poll; an approval after the sheet was cancelled still signs in |
| `People.tsx:27` (Fresh without `excused`, though no reply fails) | a reply overtaken by a newer one is shown last; Sessions and Overview show a row again that they removed themselves |
| `OpenVPN.tsx:217`, `WireGuardProfiles.tsx:219` (DrawerIsFresh with `P.own # None`) | the one sheet that serves every profile shows the users of the profile opened before |
| `People.tsx:159` (an action of its own: `Sent`) | the row being edited vanishes from the list and Save creates a new one |
| `System.tsx:626` (WayBack for the denials) | beyond the end of a log that fits one page the pager is hidden and Refresh keeps the offset: the user sees an empty page for ever |
| `System.tsx:558` (ShowsWhatItSays with `loads = <<>>` for `current`, though no reply fails) | the reply to an older filter comes last and is shown under the new one |

Why the bounds are enough: every hazard of section 1 involves at most two
goroutines and two sessions (a third session is needed to reuse a released
address: SessionSerial and a variant above have it), or two devices and one admin (two for
the last of its variants). Two servers are needed for a sheet that names one
and waits for the other, two calls for one that comes late, two runs for one
that takes over; two push requests for one that is polled after the next was
made, two calls for one that the page no longer waits for; two rows for a
drawer or a form that holds another row's data; two requests in flight for one
that is overtaken; a log of two rows has a page beyond the first. A page is
looked at with two calls unless much goes on beside it or it repeats another
page's handlers (`CallsOn` in `MCAdminLists`). In SignIn two calls are in flight only while no save is
(`FewAtOnce` in `MCSetupWizard`); a save beside one call is what can change the
step under a sign-in. In SessionSerial users meet only in the pool and the
chain, and what one leaves there is seen at rest, before another comes; one user
who is an administrator or not, with access of its own or not, has every way to
lose the server. In Connect a user who has logged out logs in again while calls
are left (`MaxCalls`), so the run stops, too. A session id is used once, so the runs with
creations stop when the ids are used up; those that have no other operation
left switch the deadlock check off.

`NoSharedAddress` leaves out rows whose deletion has already released the
address: `deleteSession` frees it one statement before the DELETE, and a new
session may have it in that moment. `NoLeakedAddress` speaks of the addresses
taken by the present run: one taken just before a crash is lost for good.

### Fairness

`SessionManager!Fairness`: Go runs every goroutine that can run (WF of a
goroutine's steps), tickers fire (WF of ExpireStale and CleanDeadPeers), time
passes (WF of Age), and systemd restarts the service (WF of Boot). Users and
admins owe nothing. `WGProfiles!Fairness`: weak fairness for the goroutines of
server and app; strong fairness for Tick, because an interval passes however
often requests are in flight.

`ManagedConnect!Fairness`: calls of the Go side end and are answered (all its
requests have timeouts), the interval reads the list again (`App.tsx:162-168`),
the effect on the pending mark runs while its timer does (`TimerRuns`: each new
list starts the 3 s again, but the lists are read every 5 and 10 s); strong
fairness for a list that arrives, since one read in many gets through. The user and approvals owe nothing, and
`ConnectTimeout` is allowed, never required. `PagedTable!Fairness`: every
request is answered or fails (WF of Replies), some are answered well (SF), and
the user keeps trying the buttons that lead back (SF of Refresh and Back; SF
because they are disabled while the page loads). SignIn and AdminLists state
safety only: a page may wait for ever, as the list of departures says.

## 5. Proofs

`SessionManagerProofs` proves for all values of the constants that satisfy
`ConstantsOK`:

- **TypeCorrect**: `Spec => []TypeOK`. `TypeOK` alone is not inductive: the
  owner and the address of a session are read through `go[p].cur`, so the
  invariant `TypeInv` adds that a goroutine at a label that works on a session
  has one (`Worker`) and that a session of a row or a goroutine has an owner
  (`Owned`).
- **NoOldPeers**: `Spec => OldPeersStayAway`, whatever fails. `RunInv` says that
  keys in memory, snapshots read for a sync and sessions about to become peers
  are all of this run, and a process that is down has no keys and no
  goroutines. This is why a list that is written late can never bring back a
  peer of an earlier run, and a list that is written at all removes those that
  are still there.
- **OnlyPeersOfThisRun**: `Spec => []NoPeerFromPreviousRun` if clearing the
  interface at start-up succeeds; section 4 has a departure for the other case.
- **NoLeaks**: `Spec => [](NoLeakedAddress /\ NoLeakedKey)` if no user is
  deleted and releasing an address does not fail, the two cases in which the
  code does leak. `LeakInv` says that an unused id is nowhere, that a session
  being created is created by one goroutine, who holds an address, and that a
  goroutine about to delete a row has released the address.

`SessionAddressProofs` is about `NoSharedAddress`, which two goroutines that end
the same session break (section 4). Its hypothesis on the constants is
`Completes`: creations are not rolled back (`addPeer`, `addRules` and `endpoints`
do not fail) and a row whose address was released is deleted. Crashes, failed
inserts, SIGTERM and any number of creations are admitted.

- **AddressesApart**: `Spec /\ []OneEnder => [](Serving => NoSharedAddress)`: as
  long as no two goroutines end sessions at once, the serving process never has
  two sessions on one address. The hypothesis is about the run, not about the
  constants, so it covers a server with both watchdogs whose ticks do not meet.
- **LockedEndersApart** puts a lock in its place (`EndersTakeTurns`), and
  **AlwaysApart** leaves out `Serving` when the process is not killed: after a
  crash two rows of the dead process may hold one address until start-up has
  ended them.

The invariant is `AddressesInv`: an id without an owner is known to nobody
(`NewIds`), a session without a row to its creator alone (`Makers`), whoever
ends sessions has them from the table and they are still there (`Enders`),
start-up is alone and misses no row (`StartUp`), and a session has its address
from the allocation to the release (`Claims`).

`SessionSerialProofs` proves what `SessionSerial` checks, for any numbers of
sessions, users, addresses and resources, under `Serial`: one job at a time, no
SIGTERM, bundles left alone, and `DELETE`, the sync, the removal of rules and the
clearing of the interface succeed. Failures of all other calls, every way to get
or lose the server and crashes between any two steps are admitted. Each exclusion is one of the
departures of section 4 or a failure the code has no way back from.

- **ConnectedOnce**, **AddressesHeld**, **PeersFollowRows**, **RulesFollowRows**,
  **AccessKept**: `HistoryInOrder`, `RowsHoldTheirAddress`,
  `InterfaceMatchesRows`, `RulesMatchSessions`, `SessionsHaveAccess`. The last
  excepts the sessions in `unended`, which `ServerHandler.RemoveUser` and a
  demotion leave up (section 4).

These speak of the moments between two jobs; the invariant says what is true in
the middle of one. `ControlInv` says that one goroutine at most is at work,
`Work`, and the rest is said of it: where it may be in which job (`JobInv`), that
its batch is of rows and misses none it is to end (`BatchInv`), what a session
has before its row (`NewInv`), and how pool, keys and interface, rules, history
and access differ from the table at each of its steps (`AddressInv`, `KeyInv`,
`RuleInv`, `EventInv`, `AccessInv`).

`WGProfilesProofs` proves, for any devices, users, admins and number of
heartbeats to a lapse:

- **TypeCorrect**: `Spec => []TypeOK`, with `Editing` for the user of an
  assignment under way.
- **ClaimsKept**: `Spec => NoTakeover`: fewer than TTL - 1 heartbeats in a row
  missed, that is one or two, do not cost a device its claim, with every loss,
  order and kill. `ClaimInv` compares the age of the claim with the heartbeats
  missed by its holder: the claim is new when it is granted or renewed, and at
  most one Tick older than the missed ones while a heartbeat is due; it lapses
  no earlier than the Tick at which it is TTL old.
- **LossNoticed**: `Spec => []OutlivesClaimByOneBeat` if the network answers; it
  is about connections, whose tunnels go with them if the service answers.
  `LossInv`: a tunnel that has lost its claim has a heartbeat under way that will
  tell it, which is so when the loss happens and until the answer comes.
- **ConfigWithClaim**, **OneDevice**, **LockImplemented**:
  `ConfigOnlyWithClaim`, `OneDeviceUp` and the refinement `ImplementsLock`, for a
  profile that is `Undisturbed` (handlers of devices and releases in order, no
  lost request, a service that answers, nobody who takes the claim away); section 4 has a departure for
  each of these. `OrderInv` says that a device past the UPDATE of its claim has
  the claim or is about to be refused, and that every tunnel is the holder's; the
  initial state maps to the lock's, every step to one of its or to a stutter.
- **NotShared**: `Spec => []NotSharedOneUser` with one admin's request at a time:
  what the request checked is still so when it writes (`SharedInv`).

`ManagedConnectProofs` proves, for any servers, calls, runs and second factors
(`ConstantsOK`):

- **ConnectTypeOK**: `Spec => []TypeOK`. Types need `SheetInv` (an approval of
  the sheet's own is for the server it names, which may be approved by push)
  and `NamedInv` (calls and runs under way name a server).
- **WaitsForTheNamed**: `Spec => []WaitingIsForTheNamedServer`. `WaitInv` adds
  that the run the sheet waits for has not begun to connect: only then does no
  answer of the Go side close the sheet or the run under it.
- **OneRunLives**: `Spec => []OneLiveRun`. Inductive by itself: `StartRun`
  cancels the run in `pushConnectRef` before it takes its place.
- **TunnelsBelong**: `Spec => []NoStrayTunnel`. `CallInv` says that a call that
  left a tunnel or a loop has ended in the Go side, that the session of a
  server was made by a call to it, and that a server that is not tangled has at
  most one call in the Go side, and no session while it has; so the tunnel of a
  call that has not recorded it yet is the only one without a session.

`SignInProofs` proves of `SetupWizard`, and so of the sign-in it extends, for
any numbers of requests, calls and saves:

- **SetupTypeCorrect**: `SetupSpec => []SetupTypeOK`. `TypesHold` adds that
  only decided requests have an answer on its way: the page's status is taken
  from it.
- **IntervalsAreHeld**: `SetupSpec => []PollsHeldRequest`, inductive with the
  types.
- **TokensAreApproved**: `SetupSpec => []TokenTakesApproval`. `Approval` adds
  that a call between the poll and the use of an approval is for an approved
  request; that verdicts never change is a lemma.
- **ResumesNoEarlier**: `SetupSpec => []RestartRedoesNothing`. `Resumes` says
  that nothing on disk has been forgotten in memory, that the server's address
  is only saved after the mode, and that a save that is answered well is on
  disk: a step is shown only after such an answer, and no later save can take
  from the disk what its step rests on.
- **OneIsHeard**: `SetupSpec => []OneSignInHeard`. The property counts calls;
  `OneListens` says the same without a number: any two sign-ins on an approval
  that the page listens to are one. The effect turns the page deaf before it
  sends the next, and nothing else that a handler does makes a call heard.

`PagedTableProofs` proves, for any length of the log, page sizes and requests in
flight:

- **PagesTyped**: `Spec => []TypeOK`: offsets stay within the log. `TypeInv` adds
  that a reply is of rows the log has, since the pager goes by its total.
- **ShowsItsQuery**: `Spec => []ShowsWhatItSays`. `ShowInv` adds that the last
  request, while it is in flight, is the youngest and asks for what the page
  says: every control that changes the query sends one.

`AdminListsProofs` proves of the sixteen pages, for any rows and any calls and
reads in flight:

- **ListsTyped**: `Spec => []TypeOK`, with the types of requests and replies, and
  with what every busy flag rests on: a call under way that will clear it
  (`BusyOK`), so no button stays disabled.
- **PagesAreFresh**: `Spec => []Fresh`. It says that the reads a page needs are
  sent, and nothing of the order of their replies: what an overtaken reply
  brought is `excused`. What a handler owes its page is said
  once (`HandlerOK`) and checked for every handler of every page (`PageFacts`):
  a change of what is listed is followed by a read of the list or by a
  correction of the row, a change of what a drawer reads by a read of the
  drawer's. `Good` is what a page may show while calls are in flight: what the
  server has, except in rows that an answer will correct. `FlightOK` says that
  a reply which is at hand, and not read before something the page is not told
  of, brings something good, or a later read follows or is owed by a call;
  `ListOK` says the same of what is shown.
- **DrawersAreFresh**: `Spec => []DrawerIsFresh`. `OwnOK` adds that a drawer
  waits for replies about its own row only (`DrawerOK`): closing it, or opening
  it on another row, leaves nobody to hear the earlier ones.
- **UpdatesAreFilled**: `Spec => []UpdatesFilledRow`. `FormOK` says that a sheet
  on a row that is shown was filled from that row.

Opening, closing, a reply and an answer all turn the dialog, so what `Turn`
keeps of the invariant is one lemma (`TurnStep`).

Each proof has one step per action, and under it one per conjunct that the
action can disturb. The strengthenings were first checked with TLC on the
bounds of the runs. Every property that a theorem states is also checked by a
run whose constants satisfy the theorem's hypotheses, except NoPeerFromPreviousRun,
which follows from the step property the run checks once start-up clears the
interface.

Only model-checked:

- all liveness (`SessionExpiry`, `SessionLostPeers`, `Connect`, `PagedTable`,
  `WGFreed`): the prover has no rule for fairness;
- that a violation exists (WGHandout, and the tables of section 4): a theorem
  says that none does under its hypotheses, which is why these exclude exactly
  the operations and failures of those tables.

## 6. Not modelled

- Passwords, lock-out, rate limits, passkey ceremonies and the renewal of
  tokens: windows of time over single rows. The web UI has one hazard there
  that is not modelled: a late answer of `me()` after a logout
  (`webui/src/App.tsx:42-45`) sets the old token again. Nor is the push setup
  in `Profile.tsx:41-72`.
- The collectors (denials, traffic), the life of a server, the filling of the
  address pool: listed as hazards, planned next (section 2).
- The tunnel service, OpenVPN in the service, the updater and the IPC between
  app and service; the models have a tunnel as up or down.
- The settings pages, Topology and reports: they read and show.
  `SettingsTab` (`System.tsx:767-831`) lets the first reply overwrite what was
  typed.
- Setting up again from the settings; device revocation and its effect on
  profiles; several profiles; several servers on the server side.
- OpenVPN profiles and user configurations (plain rows), the mobile apps
  (separate clients of the same API), parsing of configurations, cryptography
  and packaging: they hold no state that the properties depend on.
