--------------------------- MODULE SessionManager ---------------------------
(***************************************************************************)
(* The server's managed VPN sessions (server/internal/session/manager.go): *)
(* one WireGuard server, its session rows and address pool in the          *)
(* database, the preshared keys in the memory of the process, the peers    *)
(* and the ACCEPT rules in the kernel, and the goroutines that change them *)
(* without a common lock: HTTP handlers, the two watchdogs, and the main   *)
(* goroutine that ends every session at start-up and on SIGTERM.           *)
(*                                                                         *)
(* A goroutine is a process.  Each call that another goroutine can see     *)
(* (a database statement, a change of the interface, a change of the       *)
(* chain) is a step of its own.  Every client generates a key pair per     *)
(* session and the server a preshared key per session, so a session id     *)
(* stands for its public key and its preshared key as well: the peer of    *)
(* session s is s itself.                                                  *)
(***************************************************************************)
EXTENDS Naturals, FiniteSets, Sequences

CONSTANTS
    Sessions,   \* session ids (uuids; none is drawn twice)
    Users,      \* accounts
    Admins,     \* the accounts with is_admin at the outset
    IPs,        \* addresses in the server's pool
    Resources,  \* firewall destinations a bundle can grant
    Requests,   \* goroutines serving HTTP requests
    Expirers,   \* the goroutine running expireStale, if the run has it
    Reapers,    \* the goroutine running cleanDeadPeers, if the run has it
    Main,       \* the main goroutine
    Ops,        \* what clients, admins and the host do in this run
    Faulty,     \* calls that may return an error in this run
    Exclusive,  \* jobs of which only one runs at a time in this run
    NoUser, NoIP, NoSession

Procs == Requests \union Expirers \union Reapers \union {Main}

EndReasons == {"requested", "user_terminated", "access_removed",
               "delete_user", "shutdown", "expired", "dead_peer"}
Jobs == EndReasons \union {"none", "create", "rollback"}

ASSUME ConstantsOK ==
    /\ Admins \subseteq Users
    /\ Exclusive \subseteq Jobs \ {"none"}
    /\ NoUser \notin Users /\ NoIP \notin IPs /\ NoSession \notin Sessions
    /\ Main \notin Requests \union Expirers \union Reapers
    /\ Requests \intersect (Expirers \union Reapers) = {}
    /\ Expirers \intersect Reapers = {}

VARIABLES
    \* database
    rows,     \* ids in table sessions
    owner,    \* user_id of a session, kept by every copy of its row
    addr,     \* assigned_ip of a session, likewise
    stale,    \* rows whose last_keepalive is older than session_timeout
    aged,     \* sessions created longer ago than deadThreshold
    pool,     \* ip_pool: the session_id of an address in use, or NoSession
    events,   \* vpn_connection_events of each session, oldest first
    access,   \* users in user_server_access for this server
    grants,   \* what userResources returns for each user
    account,  \* users.is_active, or "deleted"
    admins,   \* users.is_admin, whose access is not checked
    unended,  \* history: sessions whose owner lost the server in a way that
              \* ends no session
    \* process
    psks,     \* sessions whose preshared key is in Manager.psks
    thisRun,  \* sessions created since the process started
    phase,    \* "down", "starting", "up" or "stopping"
    go,       \* the state of each goroutine
    \* kernel
    peers,    \* peers on the WireGuard interface
    rules     \* ACCEPT rules <<address, resource>> in chain WG-VPN

sessionVars == <<rows, owner, addr, stale, aged, events>>
adminVars == <<access, grants, account, admins, unended>>
runVars == <<thisRun, phase>>
vars == <<sessionVars, pool, adminVars, psks, runVars, go, peers, rules>>

Labels == {"idle", "alloc", "insert", "addPeer", "syncRead", "syncWrite",
           "rules", "finish", "select", "next", "removePeer", "removeRules",
           "release", "deleteRow"}

Goroutine == [pc: Labels, job: Jobs, who: Users \union {NoUser},
              cur: Sessions \union {NoSession},
              todo: SUBSET Sessions, snap: SUBSET Sessions]

Idle == [pc |-> "idle", job |-> "none", who |-> NoUser, cur |-> NoSession,
         todo |-> {}, snap |-> {}]

DataOK ==
    /\ rows \subseteq Sessions
    /\ owner \in [Sessions -> Users \union {NoUser}]
    /\ addr \in [Sessions -> IPs \union {NoIP}]
    /\ stale \subseteq Sessions /\ aged \subseteq Sessions
    /\ pool \in [IPs -> Sessions \union {NoSession}]
    /\ events \in [Sessions -> Seq({"connected", "disconnected"})]
    /\ access \subseteq Users
    /\ grants \in [Users -> SUBSET Resources]
    /\ account \in [Users -> {"active", "disabled", "deleted"}]
    /\ admins \subseteq Users /\ unended \subseteq Sessions
    /\ psks \subseteq Sessions /\ thisRun \subseteq Sessions
    /\ phase \in {"down", "starting", "up", "stopping"}
    /\ peers \subseteq Sessions
    /\ rules \subseteq IPs \X Resources

\* The tables, the memory of the process and the kernel hold what their
\* schemas say, and every goroutine is at a point of its job.
TypeOK == DataOK /\ go \in [Procs -> Goroutine]

\* The process is not running; the admin's assignments are already there.
Init ==
    /\ rows = {} /\ stale = {} /\ aged = {}
    /\ owner = [s \in Sessions |-> NoUser]
    /\ addr = [s \in Sessions |-> NoIP]
    /\ pool = [ip \in IPs |-> NoSession]
    /\ events = [s \in Sessions |-> <<>>]
    /\ access \in SUBSET Users
    /\ grants \in [Users -> SUBSET Resources]
    /\ account = [u \in Users |-> "active"]
    /\ admins = Admins /\ unended = {}
    /\ psks = {} /\ thisRun = {} /\ phase = "down"
    /\ go = [p \in Procs |-> Idle]
    /\ peers = {} /\ rules = {}

----------------------------------------------------------------------------
(* Goroutines *)

Goto(p, label) == go' = [go EXCEPT ![p].pc = label]
Done(p) == go' = [go EXCEPT ![p] = Idle]

\* HTTP is served from the end of start-up until the process exits.
Serving == phase \in {"up", "stopping"}

\* An idle goroutine of the running process may take job j.
MayStart(p, j) ==
    /\ go[p].pc = "idle"
    /\ Serving
    /\ j \in Exclusive => \A q \in Procs : go[q].job \notin Exclusive

Begin(p, j, u, batch, label) ==
    go' = [go EXCEPT ![p] =
              [Idle EXCEPT !.pc = label, !.job = j, !.who = u, !.todo = batch]]

\* Mutants of Rollback: cleaning up starts at the address; the error is not
\* returned and creation goes on.
RollbackAddressOnly(p) ==
    go' = [go EXCEPT ![p].job = "rollback", ![p].pc = "release"]
RollbackWithoutReturn(p) == go' = [go EXCEPT ![p].pc = "removePeer"]

\* A failed CreateSession runs deleteSession on the session it made.
Rollback(p) == go' = [go EXCEPT ![p].job = "rollback", ![p].pc = "removePeer"]

\* Mutant of AfterSync: CreateSession syncs again and again.
AfterSyncAgain(p) == Goto(p, IF go[p].job = "create" THEN "syncRead" ELSE "next")

\* Where syncServerPeers returns to: CreateSession, or the end of deleteSession.
AfterSync(p) == Goto(p, IF go[p].job = "create" THEN "rules" ELSE "next")

\* Mutants of DropPSK and ReleaseIP: nothing happens.
KeepPSK(s) == UNCHANGED psks
KeepIP(ip) == UNCHANGED pool

\* dropPSK and ippool.Release.  The address is freed by its name, whoever holds it.
DropPSK(s) == psks' = psks \ {s}
ReleaseIP(ip) == pool' = [pool EXCEPT ![ip] = NoSession]

Log(s, e) == events' = [events EXCEPT ![s] = Append(@, e)]

----------------------------------------------------------------------------
(* CreateSession *)

\* handleCreateSession: account and access are checked, then the second
\* factor; only then does CreateSession start, with a fresh session id.
Admit(p, u, s) ==
    /\ "create" \in Ops
    /\ MayStart(p, "create")
    /\ account[u] = "active"
    /\ u \in access \union admins
    /\ owner[s] = NoUser
    /\ owner' = [owner EXCEPT ![s] = u]
    /\ go' = [go EXCEPT ![p] = [Idle EXCEPT !.pc = "alloc", !.job = "create",
                                            !.cur = s, !.who = u]]
    /\ UNCHANGED <<rows, addr, stale, aged, events, pool, adminVars, psks,
                   runVars, peers, rules>>

\* Mutant of FreeIPs: the SELECT does not look at session_id.
AllIPs == IPs

\* What the SELECT of the allocation transaction chooses from.
FreeIPs == {ip \in IPs : pool[ip] = NoSession}

\* setPSK, then the allocation transaction.
Allocate(p) ==
    LET s == go[p].cur IN
    /\ go[p].pc = "alloc"
    /\ \E ip \in FreeIPs :
          /\ pool' = [pool EXCEPT ![ip] = s]
          /\ addr' = [addr EXCEPT ![s] = ip]
    /\ psks' = psks \union {s}
    /\ thisRun' = thisRun \union {s}
    /\ Goto(p, "insert")
    /\ UNCHANGED <<rows, owner, stale, aged, events, adminVars, phase, peers, rules>>

\* Mutant of AllocateFails: the error is ignored.
AllocateIgnored(p) ==
    /\ go[p].pc = "alloc"
    /\ "alloc" \in Faulty \/ FreeIPs = {}
    /\ Goto(p, "insert")
    /\ UNCHANGED <<sessionVars, pool, adminVars, psks, runVars, peers, rules>>

\* No free address, or the transaction failed: the key is dropped again.
AllocateFails(p) ==
    /\ go[p].pc = "alloc"
    /\ "alloc" \in Faulty \/ FreeIPs = {}
    /\ Done(p)
    /\ UNCHANGED <<sessionVars, pool, adminVars, psks, runVars, peers, rules>>

InsertRow(p) ==
    LET s == go[p].cur IN
    /\ go[p].pc = "insert"
    /\ account[owner[s]] # "deleted"
    /\ rows' = rows \union {s}
    /\ Goto(p, "addPeer")
    /\ UNCHANGED <<owner, addr, stale, aged, events, pool, adminVars, psks,
                   runVars, peers, rules>>

\* The foreign key on user_id, or the database, refuses the row.
InsertFails(p) ==
    LET s == go[p].cur IN
    /\ go[p].pc = "insert"
    /\ "insert" \in Faulty \/ account[owner[s]] = "deleted"
    /\ DropPSK(s)
    /\ \/ ReleaseIP(addr[s])
       \/ "release" \in Faulty /\ UNCHANGED pool
    /\ Done(p)
    /\ UNCHANGED <<sessionVars, adminVars, runVars, peers, rules>>

AddPeer(p) ==
    /\ go[p].pc = "addPeer"
    /\ \/ /\ peers' = peers \union {go[p].cur}
          /\ Goto(p, "syncRead")
       \/ /\ "addPeer" \in Faulty
          /\ Rollback(p)
          /\ UNCHANGED peers
    /\ UNCHANGED <<sessionVars, pool, adminVars, psks, runVars, rules>>

\* userResources, then AddRules.  A failure part-way leaves the rules already
\* appended for deleteSession to remove.
InstallRules(p) ==
    LET s == go[p].cur
        granted == grants[owner[s]] IN
    /\ go[p].pc = "rules"
    /\ \/ /\ rules' = rules \union ({addr[s]} \X granted)
          /\ Goto(p, "finish")
       \/ /\ "addRules" \in Faulty
          /\ \E added \in SUBSET granted :
                rules' = rules \union ({addr[s]} \X added)
          /\ Rollback(p)
    /\ UNCHANGED <<sessionVars, pool, adminVars, psks, runVars, peers>>

\* The endpoints are resolved, the config is built and handed out.
FinishCreate(p) ==
    LET s == go[p].cur IN
    /\ go[p].pc = "finish"
    /\ \/ /\ Log(s, "connected")
          /\ Done(p)
       \/ /\ "endpoints" \in Faulty
          /\ Rollback(p)
          /\ UNCHANGED events
    /\ UNCHANGED <<rows, owner, addr, stale, aged, pool, adminVars, psks,
                   runVars, peers, rules>>

----------------------------------------------------------------------------
(* syncServerPeers: read the rows and their keys, then replace all peers *)

\* Mutant of Syncable: a row whose key is not known gets a peer without one.
EveryRow == rows

\* A session from before the process started has no key, and gets no peer.
Syncable == rows \intersect psks

SyncRead(p) ==
    /\ go[p].pc = "syncRead"
    /\ \/ go' = [go EXCEPT ![p].snap = Syncable, ![p].pc = "syncWrite"]
       \/ "sync" \in Faulty /\ AfterSync(p)
    /\ UNCHANGED <<sessionVars, pool, adminVars, psks, runVars, peers, rules>>

SyncWrite(p) ==
    /\ go[p].pc = "syncWrite"
    /\ peers' = go[p].snap \/ ("sync" \in Faulty /\ UNCHANGED peers)
    /\ AfterSync(p)
    /\ UNCHANGED <<sessionVars, pool, adminVars, psks, runVars, rules>>

----------------------------------------------------------------------------
(* deleteSession, on the copy of a row read earlier *)

RemovePeer(p) ==
    /\ go[p].pc = "removePeer"
    /\ \/ peers' = peers \ {go[p].cur}
       \/ "removePeer" \in Faulty /\ UNCHANGED peers
    /\ Goto(p, "removeRules")
    /\ UNCHANGED <<sessionVars, pool, adminVars, psks, runVars, rules>>

\* What is removed is what the user may reach now.
RemoveRules(p) ==
    LET s == go[p].cur
        granted == grants[owner[s]] IN
    /\ go[p].pc = "removeRules"
    /\ \/ rules' = rules \ ({addr[s]} \X granted)
       \/ /\ "removeRules" \in Faulty
          /\ \E removed \in SUBSET granted :
                rules' = rules \ ({addr[s]} \X removed)
    /\ Goto(p, "release")
    /\ UNCHANGED <<sessionVars, pool, adminVars, psks, runVars, peers>>

Release(p) ==
    /\ go[p].pc = "release"
    /\ \/ ReleaseIP(addr[go[p].cur])
       \/ "release" \in Faulty /\ UNCHANGED pool
    /\ Goto(p, "deleteRow")
    /\ UNCHANGED <<sessionVars, adminVars, psks, runVars, peers, rules>>

\* dropPSK, DELETE, the event.  A row that is already gone is no error.
DeleteRow(p) ==
    LET s == go[p].cur IN
    /\ go[p].pc = "deleteRow"
    /\ DropPSK(s)
    /\ \/ /\ rows' = rows \ {s}
          /\ stale' = stale \ {s}
          /\ IF go[p].job = "rollback" THEN UNCHANGED events
                                       ELSE Log(s, "disconnected")
          /\ Goto(p, "syncRead")
       \/ /\ "deleteRow" \in Faulty
          /\ Goto(p, "next")
          /\ UNCHANGED <<rows, stale, events>>
    /\ UNCHANGED <<owner, addr, aged, pool, adminVars, runVars, peers, rules>>

----------------------------------------------------------------------------
(* Jobs that end sessions: read a batch of rows, then delete each copy *)

\* handleDeleteSession for one row that exists.
Terminate(p, s) ==
    /\ "terminate" \in Ops
    /\ MayStart(p, "requested")
    /\ s \in rows
    /\ Begin(p, "requested", NoUser, {s}, "next")
    /\ UNCHANGED <<sessionVars, pool, adminVars, psks, runVars, peers, rules>>

\* UserHandler.RemoveServer: the access goes first, then its sessions.
RemoveServer(p, u) ==
    /\ "removeServer" \in Ops
    /\ MayStart(p, "access_removed")
    /\ access' = access \ {u}
    /\ Begin(p, "access_removed", u, {}, "select")
    /\ UNCHANGED <<sessionVars, pool, grants, account, admins, unended, psks,
                   runVars, peers, rules>>

\* UserHandler.Update with is_active = 0.
Disable(p, u) ==
    /\ "disable" \in Ops
    /\ MayStart(p, "user_terminated")
    /\ account[u] = "active"
    /\ account' = [account EXCEPT ![u] = "disabled"]
    /\ Begin(p, "user_terminated", u, {}, "select")
    /\ UNCHANGED <<sessionVars, pool, access, grants, admins, unended, psks,
                   runVars, peers, rules>>

\* UserHandler.Delete: the sessions first, then the user (Purge).
DeleteUser(p, u) ==
    /\ "deleteUser" \in Ops
    /\ MayStart(p, "delete_user")
    /\ account[u] # "deleted"
    /\ Begin(p, "delete_user", u, {}, "select")
    /\ UNCHANGED <<sessionVars, pool, adminVars, psks, runVars, peers, rules>>

\* The SELECT of TerminateUserSessions and TerminateUserServerSessions.
SelectUserSessions(p) ==
    /\ go[p].pc = "select"
    /\ go' = [go EXCEPT ![p].todo = {s \in rows : owner[s] = go[p].who},
                        ![p].pc = "next"]
    /\ UNCHANGED <<sessionVars, pool, adminVars, psks, runVars, peers, rules>>

\* Mutant of Overdue: the comparison is the wrong way round.
NotOverdue == rows \ stale

\* What the SELECT of expireStale returns.
Overdue == rows \intersect stale

\* expireStale: every row without a keepalive for session_timeout.
ExpireStale(p) ==
    /\ MayStart(p, "expired")
    /\ Overdue # {}
    /\ Begin(p, "expired", NoUser, Overdue, "next")
    /\ UNCHANGED <<sessionVars, pool, adminVars, psks, runVars, peers, rules>>

\* cleanDeadPeers: every row, each examined when its turn comes.
CleanDeadPeers(p) ==
    /\ MayStart(p, "dead_peer")
    /\ rows # {}
    /\ Begin(p, "dead_peer", NoUser, rows, "next")
    /\ UNCHANGED <<sessionVars, pool, adminVars, psks, runVars, peers, rules>>

\* Mutant of Spared: a peer that the interface does not have is no reason.
AnySpared(s) == TRUE

\* cleanDeadPeers leaves young sessions alone; the handshake age of a peer that
\* is present may be anything, a peer that is absent is always cleaned up.
Spared(s) == s \notin aged \/ s \in peers

\* The next session of the batch; only cleanDeadPeers looks at it first.
NextSession(p) ==
    /\ go[p].pc = "next"
    /\ \E s \in go[p].todo :
          \/ /\ go[p].job = "dead_peer" => s \in aged
             /\ go' = [go EXCEPT ![p].todo = @ \ {s}, ![p].cur = s,
                                 ![p].pc = "removePeer"]
          \/ /\ go[p].job = "dead_peer"
             /\ Spared(s)
             /\ go' = [go EXCEPT ![p].todo = @ \ {s}]
    /\ UNCHANGED <<sessionVars, pool, adminVars, psks, runVars, peers, rules>>

\* Mutant of EndOfBatch: one session of the batch is enough.
EndOfFirst(p) ==
    /\ p # Main
    /\ go[p].pc = "next" /\ go[p].cur \in Sessions
    /\ go[p].job # "delete_user"
    /\ Done(p)
    /\ UNCHANGED <<sessionVars, pool, adminVars, psks, runVars, peers, rules>>

EndOfBatch(p) ==
    /\ p # Main
    /\ go[p].pc = "next" /\ go[p].todo = {}
    /\ go[p].job # "delete_user"
    /\ Done(p)
    /\ UNCHANGED <<sessionVars, pool, adminVars, psks, runVars, peers, rules>>

\* DELETE FROM users; its session rows and its access cascade away.
Purge(p) ==
    LET u == go[p].who IN
    /\ go[p].pc = "next" /\ go[p].todo = {}
    /\ go[p].job = "delete_user"
    /\ account' = [account EXCEPT ![u] = "deleted"]
    /\ rows' = {s \in rows : owner[s] # u}
    /\ stale' = {s \in stale : owner[s] # u}
    /\ access' = access \ {u}
    /\ Done(p)
    /\ UNCHANGED <<owner, addr, aged, events, pool, grants, admins, unended, psks,
                   runVars, peers, rules>>

----------------------------------------------------------------------------
(* Clients, admins, time: single statements *)

Keepalive(s) ==
    /\ "keepalive" \in Ops
    /\ Serving
    /\ s \in rows
    /\ stale' = stale \ {s}
    /\ UNCHANGED <<rows, owner, addr, aged, events, pool, adminVars, psks,
                   runVars, go, peers, rules>>

\* session_timeout seconds pass without a keepalive.
GoStale(s) ==
    /\ "stale" \in Ops
    /\ s \in rows \ stale
    /\ stale' = stale \union {s}
    /\ UNCHANGED <<rows, owner, addr, aged, events, pool, adminVars, psks,
                   runVars, go, peers, rules>>

\* The session becomes older than deadThreshold.
Age(s) ==
    /\ "age" \in Ops
    /\ s \in rows \ aged
    /\ aged' = aged \union {s}
    /\ UNCHANGED <<rows, owner, addr, stale, events, pool, adminVars, psks,
                   runVars, go, peers, rules>>

\* AddServer and the reactivation of an account.
AddServer(u) ==
    /\ "addServer" \in Ops /\ Serving
    /\ account[u] # "deleted"
    /\ access' = access \union {u}
    /\ UNCHANGED <<sessionVars, pool, grants, account, admins, unended, psks,
                   runVars, go, peers, rules>>

Enable(u) ==
    /\ "disable" \in Ops /\ Serving
    /\ account[u] = "disabled"
    /\ account' = [account EXCEPT ![u] = "active"]
    /\ UNCHANGED <<sessionVars, pool, access, grants, admins, unended, psks,
                   runVars, go, peers, rules>>

\* The sessions of a user, those being created too.
SessionsOf(u) == {s \in Sessions : owner[s] = u}

\* ServerHandler.RemoveUser: the access alone.
ServerRemoveUser(u) ==
    /\ "serverRemoveUser" \in Ops /\ Serving
    /\ u \in access
    /\ access' = access \ {u}
    /\ unended' = unended \union (IF u \in admins THEN {} ELSE SessionsOf(u))
    /\ UNCHANGED <<sessionVars, pool, grants, account, admins, psks, runVars,
                   go, peers, rules>>

\* UserHandler.Update with is_admin: the column alone.
SetAdmin(u) ==
    /\ "setAdmin" \in Ops /\ Serving
    /\ account[u] # "deleted"
    /\ admins' = (admins \ {u}) \union ({u} \ admins)
    /\ unended' = unended \union (IF u \in admins \ access THEN SessionsOf(u) ELSE {})
    /\ UNCHANGED <<sessionVars, pool, access, grants, account, psks, runVars,
                   go, peers, rules>>

\* AddBundle, RemoveBundle and the edits of resources and bundles.
SetGrants(u, granted) ==
    /\ "grants" \in Ops /\ Serving
    /\ grants[u] # granted
    /\ grants' = [grants EXCEPT ![u] = granted]
    /\ UNCHANGED <<sessionVars, pool, access, account, admins, unended, psks,
                   runVars, go, peers, rules>>

----------------------------------------------------------------------------
(* The process *)

\* startServer clears the interface; a failure is only logged, and the interface
\* may be the one of the last run.
ClearPeers == peers' = {} \/ ("clearPeers" \in Faulty /\ UNCHANGED peers)

\* registry.Start, then main runs TerminateAll.
Boot ==
    /\ phase = "down"
    /\ phase' = "starting"
    /\ ClearPeers
    /\ Begin(Main, "shutdown", NoUser, rows, "next")
    /\ UNCHANGED <<sessionVars, pool, adminVars, psks, thisRun, rules>>

\* TerminateAll is done: the watchdogs and the HTTP server start.
Serve ==
    /\ phase = "starting"
    /\ go[Main].pc = "next" /\ go[Main].todo = {}
    /\ phase' = "up"
    /\ Done(Main)
    /\ UNCHANGED <<sessionVars, pool, adminVars, psks, thisRun, peers, rules>>

\* SIGTERM: TerminateAll while requests are still served.
SigTerm ==
    /\ "sigterm" \in Ops
    /\ phase = "up"
    /\ phase' = "stopping"
    /\ Begin(Main, "shutdown", NoUser, rows, "next")
    /\ UNCHANGED <<sessionVars, pool, adminVars, psks, thisRun, peers, rules>>

\* The memory of the process is gone; the kernel keeps its state.
Vanish ==
    /\ phase' = "down"
    /\ go' = [p \in Procs |-> Idle]
    /\ psks' = {} /\ thisRun' = {}
    /\ UNCHANGED <<sessionVars, pool, adminVars, peers>>

Exit ==
    /\ phase = "stopping"
    /\ go[Main].pc = "next" /\ go[Main].todo = {}
    /\ Vanish
    /\ UNCHANGED rules

\* A crash of the process, or of the host with its firewall rules.
Crash ==
    /\ "crash" \in Ops
    /\ phase # "down"
    /\ Vanish
    /\ rules' \in {rules, {}}

----------------------------------------------------------------------------

CreateStep(p) ==
    \/ Allocate(p) \/ AllocateFails(p) \/ InsertRow(p) \/ InsertFails(p)
    \/ AddPeer(p) \/ InstallRules(p) \/ FinishCreate(p)

EndStep(p) ==
    \/ SelectUserSessions(p) \/ NextSession(p) \/ EndOfBatch(p) \/ Purge(p)
    \/ RemovePeer(p) \/ RemoveRules(p) \/ Release(p) \/ DeleteRow(p)

SyncStep(p) == SyncRead(p) \/ SyncWrite(p)

\* A goroutine that is running goes on.
Step(p) == CreateStep(p) \/ EndStep(p) \/ SyncStep(p)

StartRequest(p) ==
    \/ \E u \in Users, s \in Sessions : Admit(p, u, s)
    \/ \E s \in Sessions : Terminate(p, s)
    \/ \E u \in Users : RemoveServer(p, u) \/ Disable(p, u) \/ DeleteUser(p, u)

Environment ==
    \/ \E s \in Sessions : Keepalive(s) \/ GoStale(s) \/ Age(s)
    \/ \E u \in Users : \/ AddServer(u) \/ Enable(u)
                       \/ ServerRemoveUser(u) \/ SetAdmin(u)
    \/ \E u \in Users, granted \in SUBSET Resources : SetGrants(u, granted)

Process == Boot \/ Serve \/ SigTerm \/ Exit \/ Crash

Next ==
    \/ \E p \in Procs : Step(p)
    \/ \E p \in Requests : StartRequest(p)
    \/ \E p \in Expirers : ExpireStale(p)
    \/ \E p \in Reapers : CleanDeadPeers(p)
    \/ Environment
    \/ Process

Spec == Init /\ [][Next]_vars

\* The Go scheduler runs every runnable goroutine, the tickers fire, time
\* passes, and the service manager starts the process again.
Fairness ==
    /\ \A p \in Procs : WF_vars(Step(p))
    /\ \A p \in Expirers : WF_vars(ExpireStale(p))
    /\ \A p \in Reapers : WF_vars(CleanDeadPeers(p))
    /\ \A s \in Sessions : WF_vars(Age(s))
    /\ WF_vars(Boot) /\ WF_vars(Serve) /\ WF_vars(Exit)

FairSpec == Spec /\ Fairness

----------------------------------------------------------------------------
(* Properties *)

\* Every goroutine of the serving process is between two jobs.
Quiet == phase = "up" /\ \A p \in Procs : go[p].pc = "idle"

\* A session that a running CreateSession has not inserted yet.
Unborn(s) == \E p \in Procs : go[p].cur = s /\ go[p].pc \in {"alloc", "insert"}

\* A preshared key lives in the memory of one process only: whatever the
\* interleaving, the crashes, the stale snapshots that a sync writes back and the
\* calls that fail, no peer of a session from an earlier run is put on the
\* interface again; one that is still there, because clearing it failed, does
\* not outlive the first sync that succeeds (manager.go:27-29, 397-411,
\* registry.go:372-379).
OldPeersStayAway ==
    [][/\ peers' \subseteq peers \union thisRun'
       /\ \A p \in Procs :
             SyncWrite(p) => peers' = peers \/ peers' \subseteq thisRun']_vars

\* The interface starts without the peers of earlier runs: so if clearing it
\* succeeds (registry.go:372-379).
NoPeerFromPreviousRun == phase # "down" => peers \subseteq thisRun

\* An address that this run took from the pool is in use for a session whose
\* row exists or is about to be inserted: no order of creations, failures and
\* overlapping deletions leaks an address (manager.go:62-96, 361-370).
NoLeakedAddress ==
    \A ip \in IPs : pool[ip] \in thisRun => pool[ip] \in rows \/ Unborn(pool[ip])

\* A preshared key is remembered only for a session whose row exists or is
\* about to be inserted (manager.go:59-96, 366-370).
NoLeakedKey == \A s \in psks : s \in rows \/ Unborn(s)

\* The row is about to go: deleteSession has released its address.
Leaving(s) == \E p \in Procs : go[p].cur = s /\ go[p].pc = "deleteRow"

\* Two sessions of the server that nobody is about to delete never have the
\* same address: what Allocate takes is free (manager.go:45, pool.go:58).
NoSharedAddress ==
    \A s, t \in rows :
        addr[s] = addr[t] /\ ~Leaving(s) /\ ~Leaving(t) => s = t

\* At rest the interface has exactly the sessions of the table that this run
\* created, each with its key in memory (wireguard/manager.go:124-126).
InterfaceMatchesRows ==
    Quiet => peers = rows \intersect thisRun /\ psks = peers

\* At rest the address of every session is in use in the pool for it.
RowsHoldTheirAddress == Quiet => \A s \in rows : pool[addr[s]] = s

\* At rest the chain accepts exactly what the owner of a live session may
\* reach from the address of that session (manager.go:105-115, 350-359).
RulesMatchSessions ==
    Quiet => rules = UNION {{addr[s]} \X grants[owner[s]] : s \in rows}

\* At rest an address with a rule is the address of a live session.
NoRuleWithoutSession ==
    Quiet => \A rule \in rules : \E s \in rows : addr[s] = rule[1]

\* At rest the owner of a live session is active and may still use the server,
\* unless the server was taken away in one of the two ways that end no session:
\* ServerHandler.RemoveUser, and is_admin = 0 for an administrator without an
\* access of its own (admin/users.go:15-18, 158-168, 298-301, admin/servers.go:415-423).
SessionsHaveAccess ==
    Quiet => \A s \in rows :
                /\ owner[s] \in access \union admins \/ s \in unended
                /\ account[owner[s]] = "active"

\* What the comment promises without the exception: at rest every live session
\* is of a user who may use the server (admin/users.go:15-18).
LosingAccessEndsSessions ==
    Quiet => \A s \in rows : owner[s] \in access \union admins

\* The connection history of a session is at most "connected" and then
\* "disconnected", each once (recordConnectionEvent).
HistoryInOrder ==
    \A s \in Sessions : events[s] \in {<<>>, <<"connected">>, <<"disconnected">>,
                                       <<"connected", "disconnected">>}

\* No peer without a session: at rest, a peer of the interface has a row.
NoPeerWithoutSession == Quiet => peers \subseteq rows

\* Every job that starts ends, whatever else runs.
JobsEnd == \A p \in Procs : go[p].pc # "idle" ~> go[p].pc = "idle"

\* A session that stops sending keepalives is ended (expireStale).
StaleSessionsEnd ==
    \A s \in Sessions :
        s \in rows \intersect stale ~> s \notin rows \intersect stale \/ phase # "up"

\* A session that lost its peer to a sync that wrote an older snapshot does
\* not stay that way: it gets the peer back or cleanDeadPeers ends it.
LostPeersHeal ==
    \A s \in Sessions :
        s \in rows \ peers ~> s \notin rows \ peers \/ phase # "up"

=============================================================================
