------------------------ MODULE SessionManagerProofs ------------------------
(***************************************************************************)
(* Theorems of SessionManager for any number of sessions, users, addresses *)
(* and goroutines.                                                         *)
(***************************************************************************)
EXTENDS SessionManager, TLAPS

USE DEF DropPSK, ReleaseIP, FreeIPs, Overdue, Syncable, ClearPeers

\* A goroutine at work on one session names it in cur.
AtWork == Labels \ {"idle", "select", "next"}

Worker == {g \in Goroutine : g.pc \in AtWork => g.cur \in Sessions}

\* Who creates a session owns it, and has an address for it early on.
Owned ==
    \A p \in Procs : go[p].job = "create" \/ go[p].pc = "rules" =>
        /\ go[p].cur \in Sessions /\ owner[go[p].cur] \in Users
        /\ go[p].pc # "alloc" => addr[go[p].cur] \in IPs

TypeInv == DataOK /\ go \in [Procs -> Worker] /\ Owned

\* The memory of one process only: keys, snapshots of rows with a key, and
\* sessions whose key was just generated all belong to the current run.
RunInv ==
    /\ psks \subseteq thisRun
    /\ \A p \in Procs :
          /\ go[p].snap \subseteq thisRun
          /\ go[p].pc \in {"insert", "addPeer"} => go[p].cur \in thisRun

\* Nothing of a session is there yet.
Fresh(s) == /\ s \notin rows \union psks \union thisRun
            /\ \A ip \in IPs : pool[ip] # s

\* An id that nobody owns is nowhere in the system.
UnusedIds ==
    \A s \in Sessions :
        owner[s] = NoUser
          => Fresh(s) /\ \A p \in Procs : go[p].cur # s /\ s \notin go[p].todo

\* Before its row is there a session is known to its creator alone.
Creators ==
    \A p \in Procs :
        go[p].pc \in {"alloc", "insert"} =>
          /\ p \in Requests
          /\ go[p].cur \notin rows
          /\ go[p].pc = "alloc" => Fresh(go[p].cur)
          /\ \A q \in Procs : /\ go[p].cur \notin go[q].todo
                              /\ q # p => go[q].cur # go[p].cur

\* A session holds no other address than its own.
Holders == \A ip \in IPs : pool[ip] \in Sessions => addr[pool[ip]] = ip

\* deleteSession reaches the DELETE with the address released.
Released ==
    \A p \in Procs : go[p].pc = "deleteRow" => \A ip \in IPs : pool[ip] # go[p].cur

LeakInv ==
    /\ UnusedIds /\ Creators /\ Holders /\ Released
    /\ NoLeakedKey /\ NoLeakedAddress
    /\ \A p \in Procs : go[p].job # "delete_user"

----------------------------------------------------------------------------
(* How a step changes the state of one goroutine *)

LEMMA IdleWorker == Idle \in Worker
  BY DEF Idle, Worker, Goroutine, Labels, Jobs, AtWork

LEMMA PcWorker ==
  ASSUME NEW g \in Worker, NEW l \in Labels, l \in AtWork => g.cur \in Sessions
  PROVE  [g EXCEPT !.pc = l] \in Worker
  BY DEF Worker, Goroutine

LEMMA GotoWorker ==
  ASSUME go \in [Procs -> Worker], NEW p \in Procs, NEW l \in Labels,
         l \in AtWork => go[p].cur \in Sessions, Goto(p, l)
  PROVE  go' \in [Procs -> Worker]
<1>1. [go[p] EXCEPT !.pc = l] \in Worker
  BY PcWorker
<1> QED
  BY <1>1 DEF Goto

LEMMA RollbackWorker ==
  ASSUME go \in [Procs -> Worker], NEW p \in Procs,
         go[p].cur \in Sessions, Rollback(p)
  PROVE  go' \in [Procs -> Worker]
<1>1. [[go[p] EXCEPT !.job = "rollback"] EXCEPT !.pc = "removePeer"] \in Worker
  BY DEF Worker, Goroutine, Labels, Jobs
<1>2. go' = [go EXCEPT ![p] =
                [[go[p] EXCEPT !.job = "rollback"] EXCEPT !.pc = "removePeer"]]
  BY DEF Rollback
<1> QED
  BY <1>1, <1>2

LEMMA DoneWorker ==
  ASSUME go \in [Procs -> Worker], NEW p \in Procs, Done(p)
  PROVE  go' \in [Procs -> Worker]
  BY IdleWorker DEF Done

LEMMA BeginWorker ==
  ASSUME go \in [Procs -> Worker], NEW p \in Procs, NEW j \in Jobs,
         NEW u \in Users \union {NoUser}, NEW batch \in SUBSET Sessions,
         NEW l \in {"select", "next"}, Begin(p, j, u, batch, l)
  PROVE  go' \in [Procs -> Worker]
<1>1. [Idle EXCEPT !.pc = l, !.job = j, !.who = u, !.todo = batch] \in Worker
  BY DEF Idle, Worker, Goroutine, Labels, AtWork
<1> QED
  BY <1>1 DEF Begin

LEMMA SelectWorker ==
  ASSUME go \in [Procs -> Worker], NEW p \in Procs, NEW batch \in SUBSET Sessions,
         go' = [go EXCEPT ![p].todo = batch, ![p].pc = "next"]
  PROVE  go' \in [Procs -> Worker]
<1>1. [go[p] EXCEPT !.todo = batch, !.pc = "next"] \in Worker
  BY ZenonT(40) DEF Worker, Goroutine, Labels, AtWork
<1>2. go' = [go EXCEPT ![p] = [go[p] EXCEPT !.todo = batch, !.pc = "next"]]
  OBVIOUS
<1> QED
  BY <1>1, <1>2

LEMMA SnapWorker ==
  ASSUME go \in [Procs -> Worker], NEW p \in Procs, go[p].cur \in Sessions,
         NEW batch \in SUBSET Sessions,
         go' = [go EXCEPT ![p].snap = batch, ![p].pc = "syncWrite"]
  PROVE  go' \in [Procs -> Worker]
<1>1. [go[p] EXCEPT !.snap = batch, !.pc = "syncWrite"] \in Worker
  BY ZenonT(40) DEF Worker, Goroutine, Labels, AtWork
<1>2. go' = [go EXCEPT ![p] = [go[p] EXCEPT !.snap = batch, !.pc = "syncWrite"]]
  OBVIOUS
<1> QED
  BY <1>1, <1>2

LEMMA LeaveWorker ==
  ASSUME NEW g \in Worker, NEW rest \in SUBSET Sessions
  PROVE  [g EXCEPT !.todo = rest] \in Worker
  BY DEF Worker, Goroutine

LEMMA PickWorker ==
  ASSUME NEW g \in Worker, NEW rest \in SUBSET Sessions, NEW s \in Sessions
  PROVE  [g EXCEPT !.todo = rest, !.cur = s, !.pc = "removePeer"] \in Worker
  BY DEF Worker, Goroutine, Labels

LEMMA NextWorker ==
  ASSUME go \in [Procs -> Worker], NEW p \in Procs, NEW s \in go[p].todo,
         \/ go' = [go EXCEPT ![p].todo = @ \ {s}, ![p].cur = s, ![p].pc = "removePeer"]
         \/ go' = [go EXCEPT ![p].todo = @ \ {s}]
  PROVE  go' \in [Procs -> Worker]
<1> DEFINE rest == go[p].todo \ {s}
<1>0. s \in Sessions
  BY DEF Worker, Goroutine
<1>1. /\ [go[p] EXCEPT !.todo = rest, !.cur = s, !.pc = "removePeer"] \in Worker
      /\ [go[p] EXCEPT !.todo = rest] \in Worker
  <2>1. go[p] \in Worker /\ rest \in SUBSET Sessions
    BY DEF Worker, Goroutine
  <2> QED
    BY <1>0, <2>1, PickWorker, LeaveWorker
<1>2. \/ go' = [go EXCEPT ![p] = [go[p] EXCEPT !.todo = rest, !.cur = s,
                                               !.pc = "removePeer"]]
      \/ go' = [go EXCEPT ![p] = [go[p] EXCEPT !.todo = rest]]
  OBVIOUS
<1> QED
  BY <1>1, <1>2

LEMMA AdmitWorker ==
  ASSUME go \in [Procs -> Worker], NEW p \in Procs, NEW s \in Sessions,
         NEW u \in Users,
         go' = [go EXCEPT ![p] = [Idle EXCEPT !.pc = "alloc", !.job = "create",
                                              !.cur = s, !.who = u]]
  PROVE  go' \in [Procs -> Worker]
<1>1. [Idle EXCEPT !.pc = "alloc", !.job = "create", !.cur = s, !.who = u] \in Worker
  BY DEF Idle, Worker, Goroutine, Labels, Jobs, AtWork
<1> QED
  BY <1>1

LEMMA CurTyped ==
  ASSUME go \in [Procs -> Worker], NEW p \in Procs
  PROVE  /\ go[p].todo \subseteq Sessions
         /\ go[p].snap \subseteq Sessions
         /\ go[p].who \in Users \union {NoUser}
         /\ go[p].pc \in Labels
         /\ go[p].pc \in AtWork => go[p].cur \in Sessions
  BY DEF Worker, Goroutine

----------------------------------------------------------------------------
(* Type correctness *)

LEMMA InitType == Init => TypeInv
<1> SUFFICES ASSUME Init PROVE TypeInv
  OBVIOUS
<1>1. DataOK
  BY ConstantsOK DEF Init, DataOK
<1>2. go \in [Procs -> Worker] /\ Owned
  BY IdleWorker DEF Init, Owned, Idle
<1> QED
  BY <1>1, <1>2 DEF TypeInv

LEMMA LogTyped ==
  ASSUME DataOK, NEW s, NEW e \in {"connected", "disconnected"}, Log(s, e)
  PROVE  events' \in [Sessions -> Seq({"connected", "disconnected"})]
<1>1. \A q \in Seq({"connected", "disconnected"}) :
          Append(q, e) \in Seq({"connected", "disconnected"})
  OBVIOUS
<1> QED
  BY <1>1 DEF Log, DataOK

LEMMA CreateOwned ==
  ASSUME TypeInv, NEW p \in Procs, CreateStep(p)
  PROVE  Owned'
<1> USE DEF sessionVars, adminVars, runVars
<1>1. go \in [Procs -> Worker]
  BY DEF TypeInv
<1>2. CASE Allocate(p)
  <2>1. PICK ip \in IPs : addr' = [addr EXCEPT ![go[p].cur] = ip]
    BY <1>2 DEF Allocate
  <2>2. /\ UNCHANGED owner /\ addr \in [Sessions -> IPs \union {NoIP}]
        /\ go[p].job = "create" \/ go[p].pc = "rules" => owner[go[p].cur] \in Users
        /\ go'[p].cur = go[p].cur /\ go'[p].job = go[p].job /\ go'[p].pc = "insert"
        /\ \A q \in Procs \ {p} : go'[q] = go[q]
    BY <1>1, <1>2 DEF Allocate, Goto, TypeInv, DataOK, Owned, Worker, Goroutine
  <2>3. go[p].cur \in Sessions
    BY <1>1, <1>2 DEF Allocate, Worker, Labels, AtWork
  <2>4. SUFFICES ASSUME NEW q \in Procs, go'[q].job = "create" \/ go'[q].pc = "rules"
                 PROVE  /\ go'[q].cur \in Sessions /\ owner[go'[q].cur] \in Users
                        /\ go'[q].pc # "alloc" => addr'[go'[q].cur] \in IPs
    BY <2>2 DEF Owned
  <2>5. CASE q = p
    BY <2>1, <2>2, <2>3, <2>4, <2>5
  <2>6. CASE q # p
    <3>1. /\ go[q].cur \in Sessions /\ owner[go[q].cur] \in Users
          /\ go[q].pc # "alloc" => addr[go[q].cur] \in IPs
      BY <2>2, <2>4, <2>6 DEF TypeInv, Owned
    <3> QED
      BY <2>1, <2>2, <2>6, <3>1
  <2> QED
    BY <2>5, <2>6
<1>3. CASE AllocateFails(p)
  BY <1>1, <1>3 DEF AllocateFails, TypeInv, Owned, Done, Idle, Worker, Goroutine
<1>4. CASE InsertRow(p)
  BY <1>1, <1>4 DEF InsertRow, TypeInv, Owned, Goto, Worker, Goroutine
<1>5. CASE InsertFails(p)
  BY <1>1, <1>5 DEF InsertFails, TypeInv, Owned, Done, Idle, Worker, Goroutine
<1>6. CASE AddPeer(p)
  BY <1>1, <1>6 DEF AddPeer, TypeInv, Owned, Goto, Rollback, Worker, Goroutine
<1>7. CASE InstallRules(p)
  BY <1>1, <1>7 DEF InstallRules, TypeInv, Owned, Goto, Rollback, Worker, Goroutine
<1>8. CASE FinishCreate(p)
  BY <1>1, <1>8 DEF FinishCreate, TypeInv, Owned, Done, Idle, Rollback, Worker, Goroutine
<1> QED
  BY <1>2, <1>3, <1>4, <1>5, <1>6, <1>7, <1>8 DEF CreateStep

LEMMA EndOwned ==
  ASSUME TypeInv, NEW p \in Procs, EndStep(p)
  PROVE  Owned'
<1> USE DEF sessionVars, adminVars, runVars, Owned, Worker, Goroutine
<1>1. go \in [Procs -> Worker] /\ Owned
  BY DEF TypeInv
<1>2. CASE SelectUserSessions(p)
  BY <1>1, <1>2 DEF SelectUserSessions, Goto
<1>3. CASE NextSession(p)
  BY <1>1, <1>3 DEF NextSession, Goto
<1>4. CASE EndOfBatch(p)
  BY <1>1, <1>4 DEF EndOfBatch, Done, Idle
<1>5. CASE Purge(p)
  BY <1>1, <1>5 DEF Purge, Done, Idle
<1>6. CASE RemovePeer(p)
  BY <1>1, <1>6 DEF RemovePeer, Goto
<1>7. CASE RemoveRules(p)
  BY <1>1, <1>7 DEF RemoveRules, Goto
<1>8. CASE Release(p)
  BY <1>1, <1>8 DEF Release, Goto
<1>9. CASE DeleteRow(p)
  BY <1>1, <1>9 DEF DeleteRow, Goto
<1> QED
  BY <1>2, <1>3, <1>4, <1>5, <1>6, <1>7, <1>8, <1>9 DEF EndStep

LEMMA SyncOwned ==
  ASSUME TypeInv, NEW p \in Procs, SyncStep(p)
  PROVE  Owned'
<1> USE DEF sessionVars, adminVars, runVars, Owned, Worker, Goroutine
<1>1. go \in [Procs -> Worker] /\ Owned
  BY DEF TypeInv
<1>2. CASE SyncRead(p)
  BY <1>1, <1>2 DEF SyncRead, AfterSync, Goto
<1>3. CASE SyncWrite(p)
  BY <1>1, <1>3 DEF SyncWrite, AfterSync, Goto
<1> QED
  BY <1>2, <1>3 DEF SyncStep

LEMMA StartOwned ==
  ASSUME TypeInv, NEW p \in Procs, 
         StartRequest(p) \/ ExpireStale(p) \/ CleanDeadPeers(p)
  PROVE  Owned'
<1> USE DEF sessionVars, adminVars, runVars, Owned, Worker, Goroutine
<1>1. go \in [Procs -> Worker] /\ Owned
  BY DEF TypeInv
<1>2. CASE \E u \in Users, s \in Sessions : Admit(p, u, s)
  BY <1>1, <1>2 DEF Admit, Idle, TypeInv, DataOK
<1>3. CASE \E s \in Sessions : Terminate(p, s)
  BY <1>1, <1>3 DEF Terminate, Begin, Idle
<1>4. CASE \E u \in Users : RemoveServer(p, u)
  BY <1>1, <1>4 DEF RemoveServer, Begin, Idle
<1>5. CASE \E u \in Users : Disable(p, u)
  BY <1>1, <1>5 DEF Disable, Begin, Idle
<1>6. CASE \E u \in Users : DeleteUser(p, u)
  BY <1>1, <1>6 DEF DeleteUser, Begin, Idle
<1>7. CASE ExpireStale(p)
  BY <1>1, <1>7 DEF ExpireStale, Begin, Idle
<1>8. CASE CleanDeadPeers(p)
  BY <1>1, <1>8 DEF CleanDeadPeers, Begin, Idle
<1> QED
  BY <1>2, <1>3, <1>4, <1>5, <1>6, <1>7, <1>8 DEF StartRequest

LEMMA ProcessOwned ==
  ASSUME TypeInv, Process
  PROVE  Owned'
<1> USE DEF sessionVars, adminVars, runVars, Owned, Worker, Goroutine
<1>1. go \in [Procs -> Worker] /\ Owned
  BY DEF TypeInv
<1>2. CASE Boot
  BY <1>1, <1>2 DEF Boot, Begin, Idle, Procs
<1>3. CASE Serve
  BY <1>1, <1>3 DEF Serve, Done, Idle, Procs
<1>4. CASE SigTerm
  BY <1>1, <1>4 DEF SigTerm, Begin, Idle, Procs
<1>5. CASE Exit
  BY <1>1, <1>5 DEF Exit, Vanish, Idle
<1>6. CASE Crash
  BY <1>1, <1>6 DEF Crash, Vanish, Idle
<1> QED
  BY <1>2, <1>3, <1>4, <1>5, <1>6 DEF Process

LEMMA CreateType ==
  ASSUME TypeInv, NEW p \in Procs, CreateStep(p)
  PROVE  DataOK' /\ go' \in [Procs -> Worker]
<1> USE DEF TypeInv, sessionVars, adminVars, runVars
<1>1. CASE Allocate(p)
  <2>1. go[p].cur \in Sessions
    BY <1>1, CurTyped DEF Allocate, AtWork, Labels
  <2>2. go' \in [Procs -> Worker]
    BY <1>1, <2>1, GotoWorker DEF Allocate, Labels
  <2> QED
    BY <1>1, <2>1, <2>2 DEF Allocate, DataOK
<1>2. CASE AllocateFails(p)
  BY <1>2, DoneWorker DEF AllocateFails, DataOK
<1>3. CASE InsertRow(p)
  <2>1. go[p].cur \in Sessions
    BY <1>3, CurTyped DEF InsertRow, AtWork, Labels
  <2>2. go' \in [Procs -> Worker]
    BY <1>3, <2>1, GotoWorker DEF InsertRow, Labels
  <2> QED
    BY <1>3, <2>1, <2>2 DEF InsertRow, DataOK
<1>4. CASE InsertFails(p)
  <2>1. go' \in [Procs -> Worker]
    BY <1>4, DoneWorker DEF InsertFails
  <2> QED
    BY <1>4, <2>1 DEF InsertFails, DataOK
<1>5. CASE AddPeer(p)
  <2>1. go[p].cur \in Sessions
    BY <1>5, CurTyped DEF AddPeer, AtWork, Labels
  <2>2. go' \in [Procs -> Worker]
    BY <1>5, <2>1, GotoWorker, RollbackWorker DEF AddPeer, Labels
  <2> QED
    BY <1>5, <2>1, <2>2 DEF AddPeer, DataOK
<1>6. CASE InstallRules(p)
  <2>1. go[p].cur \in Sessions
    BY <1>6, CurTyped DEF InstallRules, AtWork, Labels
  <2>2. go' \in [Procs -> Worker]
    BY <1>6, <2>1, GotoWorker, RollbackWorker DEF InstallRules, Labels
  <2>3. grants[owner[go[p].cur]] \subseteq Resources /\ addr[go[p].cur] \in IPs
    BY <1>6 DEF InstallRules, Owned, DataOK
  <2>4. rules' \subseteq IPs \X Resources
    BY <1>6, <2>1, <2>3 DEF InstallRules, DataOK
  <2> QED
    BY <1>6, <2>2, <2>4 DEF InstallRules, DataOK
<1>7. CASE FinishCreate(p)
  <2>1. go[p].cur \in Sessions
    BY <1>7, CurTyped DEF FinishCreate, AtWork, Labels
  <2>2. go' \in [Procs -> Worker]
    BY <1>7, <2>1, DoneWorker, RollbackWorker DEF FinishCreate
  <2>3. events' \in [Sessions -> Seq({"connected", "disconnected"})]
    BY <1>7, LogTyped DEF FinishCreate, DataOK
  <2> QED
    BY <1>7, <2>2, <2>3 DEF FinishCreate, DataOK
<1> QED
  BY <1>1, <1>2, <1>3, <1>4, <1>5, <1>6, <1>7 DEF CreateStep

LEMMA EndType ==
  ASSUME TypeInv, NEW p \in Procs, EndStep(p)
  PROVE  DataOK' /\ go' \in [Procs -> Worker]
<1> USE DEF TypeInv, sessionVars, adminVars, runVars
<1>1. CASE SelectUserSessions(p)
  <2> DEFINE batch == {s \in rows : owner[s] = go[p].who}
  <2>1. batch \in SUBSET Sessions
    BY DEF DataOK
  <2>2. go' = [go EXCEPT ![p].todo = batch, ![p].pc = "next"]
    BY <1>1 DEF SelectUserSessions
  <2>3. go' \in [Procs -> Worker]
    <3> HIDE DEF batch
    <3> QED
      BY <2>1, <2>2, SelectWorker
  <2> QED
    BY <1>1, <2>3 DEF SelectUserSessions, DataOK
<1>2. CASE NextSession(p)
  <2>1. go' \in [Procs -> Worker]
    BY <1>2, NextWorker DEF NextSession
  <2> QED
    BY <1>2, <2>1 DEF NextSession, DataOK
<1>3. CASE EndOfBatch(p)
  <2>1. go' \in [Procs -> Worker]
    BY <1>3, DoneWorker DEF EndOfBatch
  <2> QED
    BY <1>3, <2>1 DEF EndOfBatch, DataOK
<1>4. CASE Purge(p)
  <2>1. go' \in [Procs -> Worker]
    BY <1>4, DoneWorker DEF Purge
  <2> QED
    BY <1>4, <2>1 DEF Purge, DataOK
<1>5. CASE RemovePeer(p)
  <2>1. go[p].cur \in Sessions
    BY <1>5, CurTyped DEF RemovePeer, AtWork, Labels
  <2>2. go' \in [Procs -> Worker]
    BY <1>5, <2>1, GotoWorker DEF RemovePeer, Labels
  <2> QED
    BY <1>5, <2>1, <2>2 DEF RemovePeer, DataOK
<1>6. CASE RemoveRules(p)
  <2>1. go[p].cur \in Sessions
    BY <1>6, CurTyped DEF RemoveRules, AtWork, Labels
  <2>2. go' \in [Procs -> Worker]
    BY <1>6, <2>1, GotoWorker DEF RemoveRules, Labels
  <2> QED
    BY <1>6, <2>1, <2>2 DEF RemoveRules, DataOK
<1>7. CASE Release(p)
  <2>1. go[p].cur \in Sessions
    BY <1>7, CurTyped DEF Release, AtWork, Labels
  <2>2. go' \in [Procs -> Worker]
    BY <1>7, <2>1, GotoWorker DEF Release, Labels
  <2> QED
    BY <1>7, <2>1, <2>2 DEF Release, DataOK
<1>8. CASE DeleteRow(p)
  <2>1. go[p].cur \in Sessions
    BY <1>8, CurTyped DEF DeleteRow, AtWork, Labels
  <2>2. go' \in [Procs -> Worker]
    BY <1>8, <2>1, GotoWorker DEF DeleteRow, Labels
  <2>3. events' \in [Sessions -> Seq({"connected", "disconnected"})]
    BY <1>8, LogTyped DEF DeleteRow, DataOK
  <2> QED
    BY <1>8, <2>1, <2>2, <2>3 DEF DeleteRow, DataOK
<1> QED
  BY <1>1, <1>2, <1>3, <1>4, <1>5, <1>6, <1>7, <1>8 DEF EndStep

LEMMA SyncType ==
  ASSUME TypeInv, NEW p \in Procs, SyncStep(p)
  PROVE  DataOK' /\ go' \in [Procs -> Worker]
<1> USE DEF TypeInv, sessionVars, adminVars, runVars
<1>1. CASE SyncRead(p)
  <2>1. go[p].cur \in Sessions
    BY <1>1, CurTyped DEF SyncRead, AtWork, Labels
  <2>2. go' \in [Procs -> Worker]
    <3> DEFINE batch == rows \intersect psks
    <3>1. CASE go' = [go EXCEPT ![p].snap = batch, ![p].pc = "syncWrite"]
      <4>1. batch \in SUBSET Sessions
        BY DEF DataOK
      <4> HIDE DEF batch
      <4> QED
        BY <2>1, <3>1, <4>1, SnapWorker
    <3>2. CASE AfterSync(p)
      BY <2>1, <3>2, GotoWorker DEF AfterSync, Labels
    <3> QED
      BY <1>1, <3>1, <3>2 DEF SyncRead
  <2> QED
    BY <1>1, <2>2 DEF SyncRead, DataOK
<1>2. CASE SyncWrite(p)
  <2>1. go[p].cur \in Sessions
    BY <1>2, CurTyped DEF SyncWrite, AtWork, Labels
  <2>2. go' \in [Procs -> Worker]
    BY <1>2, <2>1, GotoWorker DEF SyncWrite, AfterSync, Labels
  <2>3. peers' \subseteq Sessions
    BY <1>2, CurTyped DEF SyncWrite, DataOK
  <2> QED
    BY <1>2, <2>2, <2>3 DEF SyncWrite, DataOK
<1> QED
  BY <1>1, <1>2 DEF SyncStep

LEMMA StartType ==
  ASSUME TypeInv, NEW p \in Procs,
         StartRequest(p) \/ ExpireStale(p) \/ CleanDeadPeers(p)
  PROVE  DataOK' /\ go' \in [Procs -> Worker]
<1> USE DEF TypeInv, sessionVars, adminVars, runVars
<1>1. CASE \E u \in Users, s \in Sessions : Admit(p, u, s)
  <2>1. PICK u \in Users, s \in Sessions : Admit(p, u, s)
    BY <1>1
  <2>2. go' = [go EXCEPT ![p] = [Idle EXCEPT !.pc = "alloc", !.job = "create",
                                             !.cur = s, !.who = u]]
    BY <2>1 DEF Admit
  <2>3. go' \in [Procs -> Worker]
    BY <2>2, AdmitWorker
  <2> QED
    BY <2>1, <2>3 DEF Admit, DataOK
<1>2. CASE \E s \in Sessions : Terminate(p, s)
  <2>1. go' \in [Procs -> Worker]
    BY <1>2, BeginWorker DEF Terminate, Jobs, EndReasons, DataOK
  <2> QED
    BY <1>2, <2>1 DEF Terminate, DataOK
<1>3. CASE \E u \in Users : RemoveServer(p, u)
  <2>1. go' \in [Procs -> Worker]
    BY <1>3, BeginWorker DEF RemoveServer, Jobs, EndReasons, DataOK
  <2> QED
    BY <1>3, <2>1 DEF RemoveServer, DataOK
<1>4. CASE \E u \in Users : Disable(p, u)
  <2>1. go' \in [Procs -> Worker]
    BY <1>4, BeginWorker DEF Disable, Jobs, EndReasons, DataOK
  <2> QED
    BY <1>4, <2>1 DEF Disable, DataOK
<1>5. CASE \E u \in Users : DeleteUser(p, u)
  <2>1. go' \in [Procs -> Worker]
    BY <1>5, BeginWorker DEF DeleteUser, Jobs, EndReasons, DataOK
  <2> QED
    BY <1>5, <2>1 DEF DeleteUser, DataOK
<1>6. CASE ExpireStale(p)
  <2>1. go' \in [Procs -> Worker]
    BY <1>6, BeginWorker DEF ExpireStale, Jobs, EndReasons, DataOK
  <2> QED
    BY <1>6, <2>1 DEF ExpireStale, DataOK
<1>7. CASE CleanDeadPeers(p)
  <2>1. go' \in [Procs -> Worker]
    BY <1>7, BeginWorker DEF CleanDeadPeers, Jobs, EndReasons, DataOK
  <2> QED
    BY <1>7, <2>1 DEF CleanDeadPeers, DataOK
<1> QED
  BY <1>1, <1>2, <1>3, <1>4, <1>5, <1>6, <1>7 DEF StartRequest

LEMMA EnvironmentType ==
  ASSUME TypeInv, Environment
  PROVE  TypeInv'
  BY DEF TypeInv, DataOK, Owned, sessionVars, adminVars, runVars,
         Environment, Keepalive, GoStale, Age, AddServer, Enable,
         ServerRemoveUser, SetAdmin, SessionsOf, SetGrants

LEMMA ProcessType ==
  ASSUME TypeInv, Process
  PROVE  DataOK' /\ go' \in [Procs -> Worker]
<1> USE DEF TypeInv, sessionVars, adminVars, runVars
<1>1. CASE Boot
  <2>1. go' \in [Procs -> Worker]
    BY <1>1, BeginWorker DEF Boot, Procs, Jobs, EndReasons, DataOK
  <2> QED
    BY <1>1, <2>1 DEF Boot, DataOK
<1>2. CASE Serve
  <2>1. go' \in [Procs -> Worker]
    BY <1>2, DoneWorker DEF Serve, Procs
  <2> QED
    BY <1>2, <2>1 DEF Serve, DataOK
<1>3. CASE SigTerm
  <2>1. go' \in [Procs -> Worker]
    BY <1>3, BeginWorker DEF SigTerm, Procs, Jobs, EndReasons, DataOK
  <2> QED
    BY <1>3, <2>1 DEF SigTerm, DataOK
<1>4. CASE Exit
  BY <1>4, IdleWorker DEF Exit, Vanish, DataOK
<1>5. CASE Crash
  BY <1>5, IdleWorker DEF Crash, Vanish, DataOK
<1> QED
  BY <1>1, <1>2, <1>3, <1>4, <1>5 DEF Process

LEMMA NextType ==
  ASSUME TypeInv, [Next]_vars
  PROVE  TypeInv'
<1> USE DEF TypeInv
<1>1. CASE \E p \in Procs : Step(p)
  BY <1>1, CreateType, CreateOwned, EndType, EndOwned, SyncType, SyncOwned DEF Step
<1>2. CASE \/ \E p \in Requests : StartRequest(p)
           \/ \E p \in Expirers : ExpireStale(p)
           \/ \E p \in Reapers : CleanDeadPeers(p)
  BY <1>2, StartType, StartOwned DEF Procs
<1>3. CASE Environment
  BY <1>3, EnvironmentType
<1>4. CASE Process
  BY <1>4, ProcessType, ProcessOwned
<1>5. CASE UNCHANGED vars
  BY <1>5 DEF DataOK, Owned, vars, sessionVars, adminVars, runVars
<1> QED
  BY <1>1, <1>2, <1>3, <1>4, <1>5 DEF Next

LEMMA TypeInvariant == Spec => []TypeInv
  BY InitType, NextType, PTL DEF Spec

\* In every reachable state the tables, the memory and the kernel have their
\* types and every goroutine is at a point of its job, whatever the
\* interleaving of handlers, watchdogs, failures and crashes.
THEOREM TypeCorrect == Spec => []TypeOK
<1>1. TypeInv => TypeOK
  BY DEF TypeInv, TypeOK, Worker
<1> QED
  BY <1>1, TypeInvariant, PTL

----------------------------------------------------------------------------
(* No peer of an earlier run *)

LEMMA InitRun == Init => RunInv
  BY DEF Init, RunInv, Idle

LEMMA CreateRun ==
  ASSUME TypeInv, RunInv, NEW p \in Procs, CreateStep(p)
  PROVE  RunInv'
<1> USE DEF RunInv, sessionVars, adminVars, runVars
<1>0. go \in [Procs -> Worker]
  BY DEF TypeInv
<1>1. CASE Allocate(p)
  BY <1>0, <1>1 DEF Allocate, Goto, Worker, Goroutine
<1>2. CASE AllocateFails(p)
  BY <1>0, <1>2 DEF AllocateFails, Done, Idle, Worker, Goroutine
<1>3. CASE InsertRow(p)
  BY <1>0, <1>3 DEF InsertRow, Goto, Worker, Goroutine
<1>4. CASE InsertFails(p)
  BY <1>0, <1>4 DEF InsertFails, Done, Idle, Worker, Goroutine
<1>5. CASE AddPeer(p)
  BY <1>0, <1>5 DEF AddPeer, Goto, Rollback, Worker, Goroutine
<1>6. CASE InstallRules(p)
  BY <1>0, <1>6 DEF InstallRules, Goto, Rollback, Worker, Goroutine
<1>7. CASE FinishCreate(p)
  BY <1>0, <1>7 DEF FinishCreate, Done, Idle, Rollback, Worker, Goroutine
<1> QED
  BY <1>1, <1>2, <1>3, <1>4, <1>5, <1>6, <1>7 DEF CreateStep

LEMMA EndRun ==
  ASSUME TypeInv, RunInv, NEW p \in Procs, EndStep(p)
  PROVE  RunInv'
<1> USE DEF RunInv, sessionVars, adminVars, runVars
<1>0. go \in [Procs -> Worker]
  BY DEF TypeInv
<1>1. CASE SelectUserSessions(p)
  BY <1>0, <1>1 DEF SelectUserSessions, Goto, Worker, Goroutine
<1>2. CASE NextSession(p)
  BY <1>0, <1>2 DEF NextSession, Goto, Worker, Goroutine
<1>3. CASE EndOfBatch(p)
  BY <1>0, <1>3 DEF EndOfBatch, Done, Idle, Worker, Goroutine
<1>4. CASE Purge(p)
  BY <1>0, <1>4 DEF Purge, Done, Idle, Worker, Goroutine
<1>5. CASE RemovePeer(p)
  BY <1>0, <1>5 DEF RemovePeer, Goto, Worker, Goroutine
<1>6. CASE RemoveRules(p)
  BY <1>0, <1>6 DEF RemoveRules, Goto, Worker, Goroutine
<1>7. CASE Release(p)
  BY <1>0, <1>7 DEF Release, Goto, Worker, Goroutine
<1>8. CASE DeleteRow(p)
  BY <1>0, <1>8 DEF DeleteRow, Goto, Worker, Goroutine
<1> QED
  BY <1>1, <1>2, <1>3, <1>4, <1>5, <1>6, <1>7, <1>8 DEF EndStep

LEMMA SyncRun ==
  ASSUME TypeInv, RunInv, NEW p \in Procs, SyncStep(p)
  PROVE  RunInv'
<1> USE DEF RunInv, sessionVars, adminVars, runVars
<1>0. go \in [Procs -> Worker]
  BY DEF TypeInv
<1>1. CASE SyncRead(p)
  BY <1>0, <1>1 DEF SyncRead, AfterSync, Goto, Worker, Goroutine
<1>2. CASE SyncWrite(p)
  BY <1>0, <1>2 DEF SyncWrite, AfterSync, Goto, Worker, Goroutine
<1> QED
  BY <1>1, <1>2 DEF SyncStep

LEMMA StartRun ==
  ASSUME TypeInv, RunInv, NEW p \in Procs, 
         StartRequest(p) \/ ExpireStale(p) \/ CleanDeadPeers(p)
  PROVE  RunInv'
<1> USE DEF RunInv, sessionVars, adminVars, runVars
<1>0. go \in [Procs -> Worker]
  BY DEF TypeInv
<1>1. CASE \E u \in Users, s \in Sessions : Admit(p, u, s)
  BY <1>0, <1>1 DEF Admit, Begin, Idle, Worker, Goroutine
<1>2. CASE \E s \in Sessions : Terminate(p, s)
  BY <1>0, <1>2 DEF Terminate, Begin, Idle, Worker, Goroutine
<1>3. CASE \E u \in Users : RemoveServer(p, u)
  BY <1>0, <1>3 DEF RemoveServer, Begin, Idle, Worker, Goroutine
<1>4. CASE \E u \in Users : Disable(p, u)
  BY <1>0, <1>4 DEF Disable, Begin, Idle, Worker, Goroutine
<1>5. CASE \E u \in Users : DeleteUser(p, u)
  BY <1>0, <1>5 DEF DeleteUser, Begin, Idle, Worker, Goroutine
<1>6. CASE ExpireStale(p)
  BY <1>0, <1>6 DEF ExpireStale, Begin, Idle, Worker, Goroutine
<1>7. CASE CleanDeadPeers(p)
  BY <1>0, <1>7 DEF CleanDeadPeers, Begin, Idle, Worker, Goroutine
<1> QED
  BY <1>1, <1>2, <1>3, <1>4, <1>5, <1>6, <1>7 DEF StartRequest

LEMMA EnvironmentRun ==
  ASSUME RunInv, Environment
  PROVE  RunInv'
  BY DEF RunInv, sessionVars, adminVars, runVars,
         Environment, Keepalive, GoStale, Age, AddServer, Enable,
         ServerRemoveUser, SetAdmin, SessionsOf, SetGrants

LEMMA ProcessRun ==
  ASSUME TypeInv, RunInv, Process
  PROVE  RunInv'
<1> USE DEF RunInv, sessionVars, adminVars, runVars
<1>0. go \in [Procs -> Worker]
  BY DEF TypeInv
<1>1. CASE Boot
  BY <1>0, <1>1 DEF Boot, Begin, Idle, Procs, Worker, Goroutine
<1>2. CASE Serve
  BY <1>0, <1>2 DEF Serve, Done, Idle, Procs, Worker, Goroutine
<1>3. CASE SigTerm
  BY <1>0, <1>3 DEF SigTerm, Begin, Idle, Procs, Worker, Goroutine
<1>4. CASE Exit
  BY <1>0, <1>4 DEF Exit, Vanish, Idle, Procs, Worker, Goroutine
<1>5. CASE Crash
  BY <1>0, <1>5 DEF Crash, Vanish, Idle, Procs, Worker, Goroutine
<1> QED
  BY <1>1, <1>2, <1>3, <1>4, <1>5 DEF Process

LEMMA NextRun ==
  ASSUME TypeInv, RunInv, [Next]_vars
  PROVE  RunInv'
<1>1. CASE \E p \in Procs : Step(p)
  BY <1>1, CreateRun, EndRun, SyncRun DEF Step
<1>2. CASE \/ \E p \in Requests : StartRequest(p)
           \/ \E p \in Expirers : ExpireStale(p)
           \/ \E p \in Reapers : CleanDeadPeers(p)
  BY <1>2, StartRun DEF Procs
<1>3. CASE Environment
  BY <1>3, EnvironmentRun
<1>4. CASE Process
  BY <1>4, ProcessRun
<1>5. CASE UNCHANGED vars
  BY <1>5 DEF RunInv, vars, sessionVars, adminVars, runVars
<1> QED
  BY <1>1, <1>2, <1>3, <1>4, <1>5 DEF Next

\* Peers that are new on the interface belong to the current run.
OnlyNew == peers' \subseteq peers \union thisRun'

LEMMA StepOnlyNew ==
  ASSUME RunInv, NEW p \in Procs, Step(p)
  PROVE  OnlyNew
<1> USE DEF RunInv, OnlyNew, sessionVars, adminVars, runVars
<1>1. CASE CreateStep(p)
  BY <1>1 DEF CreateStep, Allocate, AllocateFails, InsertRow, InsertFails, AddPeer,
     InstallRules, FinishCreate
<1>2. CASE EndStep(p)
  BY <1>2 DEF EndStep, SelectUserSessions, NextSession, EndOfBatch, Purge,
     RemovePeer, RemoveRules, Release, DeleteRow
<1>3. CASE SyncStep(p)
  BY <1>3 DEF SyncStep, SyncRead, SyncWrite
<1> QED
  BY <1>1, <1>2, <1>3 DEF Step

LEMMA NextOnlyNew ==
  ASSUME RunInv, Next
  PROVE  OnlyNew
<1> USE DEF sessionVars, adminVars, runVars
<1>1. CASE \E p \in Procs : Step(p)
  BY <1>1, StepOnlyNew
<1>2. CASE \/ \E p \in Requests : StartRequest(p)
           \/ \E p \in Expirers : ExpireStale(p)
           \/ \E p \in Reapers : CleanDeadPeers(p)
  BY <1>2 DEF OnlyNew, StartRequest, Admit, Terminate, RemoveServer, Disable,
     DeleteUser, ExpireStale, CleanDeadPeers
<1>3. CASE Environment
  BY <1>3 DEF OnlyNew, Environment, Keepalive, GoStale, Age, AddServer, Enable,
     ServerRemoveUser, SetAdmin, SetGrants
<1>4. CASE Process
  BY <1>4 DEF OnlyNew, Process, Boot, Serve, SigTerm, Exit, Crash, Vanish
<1> QED
  BY <1>1, <1>2, <1>3, <1>4 DEF Next

\* No peer of a session from an earlier run of the server is put on the
\* interface, for any number of sessions and goroutines, whatever a sync writes
\* back and whichever calls fail, and a sync that succeeds takes away those that
\* are still there: a peer list is built only from keys this run generated.
THEOREM NoOldPeers == Spec => OldPeersStayAway
<1> DEFINE Swept == \A p \in Procs :
                      SyncWrite(p) => peers' = peers \/ peers' \subseteq thisRun'
<1>1. Init => RunInv
  BY InitRun
<1>2. TypeInv /\ RunInv /\ [Next]_vars => RunInv'
  BY NextRun
<1>3. RunInv => Swept
  BY DEF RunInv, SyncWrite, runVars
<1>4. RunInv /\ [Next]_vars => [OnlyNew /\ Swept]_vars
  BY <1>3, NextOnlyNew
<1>5. OldPeersStayAway <=> [][OnlyNew /\ Swept]_vars
  BY PTL DEF OldPeersStayAway, OnlyNew
<1> QED
  BY <1>1, <1>2, <1>4, <1>5, TypeInvariant, PTL DEF Spec

\* With the interface cleared at start-up only peers of this run are on it.
LEMMA NextCleared ==
  ASSUME RunInv, NoPeerFromPreviousRun, [Next]_vars, "clearPeers" \notin Faulty
  PROVE  NoPeerFromPreviousRun'
<1> USE DEF NoPeerFromPreviousRun, sessionVars, adminVars, runVars
<1>1. CASE Boot
  BY <1>1 DEF Boot
<1>2. CASE Exit \/ Crash
  BY <1>2 DEF Exit, Crash, Vanish
<1>3. CASE UNCHANGED vars
  BY <1>3 DEF vars
<1>4. CASE Next /\ ~Boot /\ ~Exit /\ ~Crash
  <2>1. OnlyNew
    BY <1>4, NextOnlyNew
  <2>2. thisRun \subseteq thisRun' /\ (phase = "down" => phase' = "down")
    <3>1. CASE \E p \in Procs : CreateStep(p)
      BY <3>1 DEF CreateStep, Allocate, AllocateFails, InsertRow, InsertFails,
         AddPeer, InstallRules, FinishCreate
    <3>2. CASE \E p \in Procs : EndStep(p)
      BY <3>2 DEF EndStep, SelectUserSessions, NextSession, EndOfBatch, Purge,
         RemovePeer, RemoveRules, Release, DeleteRow
    <3>3. CASE \E p \in Procs : SyncStep(p)
      BY <3>3 DEF SyncStep, SyncRead, SyncWrite
    <3>4. CASE \/ \E p \in Requests : StartRequest(p)
               \/ \E p \in Expirers : ExpireStale(p)
               \/ \E p \in Reapers : CleanDeadPeers(p)
      BY <3>4 DEF StartRequest, Admit, Terminate, RemoveServer, Disable,
         DeleteUser, ExpireStale, CleanDeadPeers
    <3>5. CASE Environment
      BY <3>5 DEF Environment, Keepalive, GoStale, Age, AddServer, Enable,
         ServerRemoveUser, SetAdmin, SetGrants
    <3>6. CASE Serve \/ SigTerm
      BY <3>6 DEF Serve, SigTerm
    <3> QED
      BY <1>4, <3>1, <3>2, <3>3, <3>4, <3>5, <3>6 DEF Next, Step, Process
  <2> QED
    BY <2>1, <2>2 DEF OnlyNew
<1> QED
  BY <1>1, <1>2, <1>3, <1>4

\* When the interface is cleared at start-up (SyncAllPeers(nil) in startServer),
\* every peer on it while the process runs is of a session this run created.
THEOREM OnlyPeersOfThisRun ==
  ASSUME "clearPeers" \notin Faulty
  PROVE  Spec => []NoPeerFromPreviousRun
<1>1. Init => RunInv /\ NoPeerFromPreviousRun
  BY InitRun DEF Init, NoPeerFromPreviousRun
<1>2. TypeInv /\ RunInv /\ NoPeerFromPreviousRun /\ [Next]_vars
         => (RunInv /\ NoPeerFromPreviousRun)'
  BY NextRun, NextCleared
<1> QED
  BY <1>1, <1>2, TypeInvariant, PTL DEF Spec

----------------------------------------------------------------------------
(* No leaked key, no leaked address *)

LEMMA InitLeak == Init => LeakInv
  BY ConstantsOK DEF Init, LeakInv, UnusedIds, Creators, Fresh, Holders, Released,
     NoLeakedKey, NoLeakedAddress, Idle

LEMMA GotoParts ==
  ASSUME go \in [Procs -> Worker], NEW p \in Procs, NEW l, Goto(p, l)
  PROVE  /\ go'[p].pc = l
         /\ \A q \in Procs : /\ go'[q].cur = go[q].cur
                              /\ go'[q].todo = go[q].todo
                              /\ go'[q].job = go[q].job
         /\ \A q \in Procs \ {p} : go'[q] = go[q]
  BY DEF Goto, Worker, Goroutine

LEMMA RollbackParts ==
  ASSUME go \in [Procs -> Worker], NEW p \in Procs, Rollback(p)
  PROVE  /\ go'[p].pc = "removePeer" /\ go'[p].job = "rollback"
         /\ go'[p].cur = go[p].cur /\ go'[p].todo = go[p].todo
         /\ \A q \in Procs \ {p} : go'[q] = go[q]
  BY DEF Rollback, Worker, Goroutine

\* A step of p that changes no row, owner, address or key, and takes sessions
\* only from its batch and from the table, keeps the invariant.
Quietly(p) ==
    /\ UNCHANGED <<rows, owner, addr, pool, psks, thisRun>>
    /\ \A q \in Procs \ {p} : go'[q] = go[q]
    /\ go[p].pc # "insert" /\ go'[p].pc \notin {"alloc", "insert"}
    /\ go'[p].pc # "deleteRow"
    /\ go'[p].job # "delete_user"
    /\ go'[p].cur \in {go[p].cur, NoSession} \union go[p].todo
    /\ go'[p].todo \subseteq go[p].todo \union rows

LEMMA QuietStep ==
  ASSUME TypeInv, LeakInv, NEW p \in Procs, Quietly(p)
  PROVE  LeakInv'
<1> USE DEF LeakInv, Quietly
<1>0. DataOK /\ go \in [Procs -> Worker]
  BY DEF TypeInv
<1>1. \A s : Fresh(s)' <=> Fresh(s)
  BY DEF Fresh
<1>2. \A s \in rows : owner[s] # NoUser
  BY <1>0 DEF UnusedIds, Fresh, DataOK
<1>3. UnusedIds'
  BY <1>0, <1>1, <1>2, ConstantsOK DEF UnusedIds
<1>4. Creators'
  <2>1. SUFFICES ASSUME NEW r \in Procs, go'[r].pc \in {"alloc", "insert"},
                        NEW q \in Procs
                 PROVE  /\ r \in Requests /\ go[r].cur \notin rows
                        /\ go[r].pc = "alloc" => Fresh(go[r].cur)
                        /\ go[r].cur \notin go'[q].todo
                        /\ q # r => go'[q].cur # go[r].cur
    BY <1>1 DEF Creators
  <2>2. r # p /\ go'[r] = go[r]
    BY <2>1
  <2>3. go[r].cur \in Sessions
    BY <1>0, <2>1, <2>2 DEF Worker, Goroutine, Labels, AtWork
  <2> QED
    BY <2>1, <2>2, <2>3, ConstantsOK DEF Creators
<1>5. Holders' /\ Released'
  BY DEF Holders, Released
<1>6. \A s \in thisRun \union psks : Unborn(s) => Unborn(s)' \/ Fresh(s)
  BY DEF Unborn, Creators
<1>7. NoLeakedKey'
  BY <1>6 DEF NoLeakedKey, Fresh
<1>8. NoLeakedAddress'
  BY <1>6 DEF NoLeakedAddress, Fresh
<1>9. \A q \in Procs : go'[q].job # "delete_user"
  OBVIOUS
<1> QED
  BY <1>3, <1>4, <1>5, <1>7, <1>8, <1>9

\* What every step of one goroutine from label to label says of the state.
Moves(p, from, to) ==
    /\ go[p].pc = from /\ go'[p].pc = to
    /\ \A q \in Procs : /\ go'[q].cur = go[q].cur
                        /\ go'[q].todo = go[q].todo
                        /\ go'[q].job = go[q].job
    /\ \A q \in Procs \ {p} : go'[q].pc = go[q].pc

LEMMA AllocateLeak ==
  ASSUME TypeInv, LeakInv, NEW p \in Procs, Allocate(p)
  PROVE  LeakInv'
<1> DEFINE s == go[p].cur
<1>1. DataOK /\ go \in [Procs -> Worker]
  BY DEF TypeInv
<1>2. Moves(p, "alloc", "insert")
  BY <1>1, GotoParts DEF Allocate, Moves
<1>3. s \in Sessions /\ s \notin rows /\ Fresh(s)
  BY <1>1, <1>2 DEF Moves, Worker, Labels, AtWork, LeakInv, Creators
<1>4. PICK ip \in IPs : /\ pool[ip] = NoSession
                        /\ pool' = [pool EXCEPT ![ip] = s]
                        /\ addr' = [addr EXCEPT ![s] = ip]
  BY DEF Allocate
<1>5. /\ psks' = psks \union {s} /\ thisRun' = thisRun \union {s}
      /\ rows' = rows /\ owner' = owner
  BY DEF Allocate
<1>6. \A t : t # s /\ Fresh(t) => Fresh(t)'
  BY <1>1, <1>4, <1>5 DEF Fresh, DataOK
<1>7. \A t : Unborn(t) => Unborn(t)'
  BY <1>2 DEF Unborn, Moves
<1>8. UnusedIds'
  BY <1>2, <1>5, <1>6 DEF LeakInv, UnusedIds, Moves
<1>9. Creators'
  <2>1. SUFFICES ASSUME NEW r \in Procs, go'[r].pc \in {"alloc", "insert"}
                 PROVE  /\ r \in Requests /\ go'[r].cur \notin rows'
                        /\ go'[r].pc = "alloc" => Fresh(go[r].cur)'
                        /\ \A q \in Procs : /\ go'[r].cur \notin go'[q].todo
                                            /\ q # r => go'[q].cur # go'[r].cur
    BY <1>2 DEF Creators, Moves
  <2>2. go[r].pc \in {"alloc", "insert"} /\ (go'[r].pc = "alloc" => r # p /\ go[r].pc = "alloc")
    BY <1>2, <2>1 DEF Moves
  <2>3. r # p => go[r].cur # s
    BY <2>2 DEF LeakInv, Creators
  <2> QED
    BY <1>2, <1>5, <1>6, <2>1, <2>2, <2>3 DEF LeakInv, Creators, Moves
<1>10. Holders'
  <2>1. SUFFICES ASSUME NEW a \in IPs, pool'[a] \in Sessions
                 PROVE  addr'[pool'[a]] = a
    BY DEF Holders
  <2>2. CASE a = ip
    BY <1>1, <1>3, <1>4, <2>2 DEF DataOK
  <2>3. CASE a # ip
    <3>1. pool'[a] = pool[a] /\ pool[a] # s /\ pool[a] \in Sessions
      BY <1>1, <1>3, <1>4, <2>1, <2>3 DEF DataOK, Fresh
    <3> QED
      BY <1>1, <1>4, <3>1 DEF LeakInv, Holders, DataOK
  <2> QED
    BY <2>2, <2>3
<1>11. Released'
  <2>1. SUFFICES ASSUME NEW q \in Procs, go'[q].pc = "deleteRow", NEW a \in IPs
                 PROVE  pool'[a] # go'[q].cur
    BY DEF Released
  <2>2. q # p /\ go[q].pc = "deleteRow" /\ go'[q].cur = go[q].cur
    BY <1>2, <2>1 DEF Moves
  <2>3. go[q].cur # s
    BY <1>2, <2>2 DEF LeakInv, Creators, Moves
  <2> QED
    BY <1>1, <1>4, <2>2, <2>3 DEF LeakInv, Released, DataOK
<1>12. \A t : t = s => Unborn(t)'
  BY <1>2 DEF Unborn, Moves
<1>13. NoLeakedKey'
  BY <1>5, <1>7, <1>12 DEF LeakInv, NoLeakedKey
<1>14. NoLeakedAddress'
  <2>1. SUFFICES ASSUME NEW a \in IPs, NEW t \in thisRun', pool'[a] = t, t # s
                 PROVE  t \in rows' \/ Unborn(t)'
    BY <1>12 DEF NoLeakedAddress
  <2>2. t = pool[a] /\ t \in thisRun
    BY <1>1, <1>4, <1>5, <2>1 DEF DataOK
  <2> QED
    BY <1>5, <1>7, <2>1, <2>2 DEF LeakInv, NoLeakedAddress
<1> QED
  BY <1>2, <1>8, <1>9, <1>10, <1>11, <1>13, <1>14 DEF LeakInv, Moves

LEMMA InsertRowLeak ==
  ASSUME TypeInv, LeakInv, NEW p \in Procs, InsertRow(p)
  PROVE  LeakInv'
<1> DEFINE s == go[p].cur
<1>1. DataOK /\ go \in [Procs -> Worker]
  BY DEF TypeInv
<1>2. Moves(p, "insert", "addPeer")
  BY <1>1, GotoParts DEF InsertRow, Moves
<1>3. /\ rows' = rows \union {s}
      /\ UNCHANGED <<owner, addr, pool, psks, thisRun>>
  BY DEF InsertRow, sessionVars, runVars
<1>4. s \in Sessions /\ \A q \in Procs : s \notin go[q].todo /\ (q # p => go[q].cur # s)
  BY <1>1, <1>2 DEF Moves, Worker, Labels, AtWork, LeakInv, Creators
<1>5. \A t : t # s /\ Fresh(t) => Fresh(t)'
  BY <1>3 DEF Fresh
<1>6. \A t : Unborn(t) => Unborn(t)' \/ t \in rows'
  BY <1>2, <1>3 DEF Unborn, Moves
<1>7. UnusedIds'
  BY <1>2, <1>3, <1>5 DEF LeakInv, UnusedIds, Moves
<1>8. Creators'
  <2>1. SUFFICES ASSUME NEW r \in Procs, go'[r].pc \in {"alloc", "insert"}
                 PROVE  /\ r \in Requests /\ go'[r].cur \notin rows'
                        /\ go'[r].pc = "alloc" => Fresh(go[r].cur)'
                        /\ \A q \in Procs : /\ go'[r].cur \notin go'[q].todo
                                            /\ q # r => go'[q].cur # go'[r].cur
    BY <1>2 DEF Creators, Moves
  <2>2. r # p /\ go[r].pc = go'[r].pc /\ go[r].cur # s
    BY <1>2, <1>4, <2>1 DEF Moves
  <2> QED
    BY <1>2, <1>3, <1>5, <2>1, <2>2 DEF LeakInv, Creators, Moves
<1>9. Holders'
  BY <1>3 DEF LeakInv, Holders
<1>10. Released'
  BY <1>2, <1>3 DEF LeakInv, Released, Moves
<1>11. NoLeakedKey' /\ NoLeakedAddress'
  BY <1>3, <1>6 DEF LeakInv, NoLeakedKey, NoLeakedAddress
<1> QED
  BY <1>2, <1>7, <1>8, <1>9, <1>10, <1>11 DEF LeakInv, Moves

\* Without its address and its key a session may be forgotten.
LEMMA InsertFailsLeak ==
  ASSUME TypeInv, LeakInv, NEW p \in Procs, InsertFails(p), "release" \notin Faulty
  PROVE  LeakInv'
<1> DEFINE s == go[p].cur
<1>1. DataOK /\ go \in [Procs -> Worker]
  BY DEF TypeInv
<1>2. /\ go[p].pc = "insert" /\ go' = [go EXCEPT ![p] = Idle]
      /\ psks' = psks \ {s} /\ pool' = [pool EXCEPT ![addr[s]] = NoSession]
      /\ UNCHANGED <<rows, owner, addr, thisRun>>
  BY DEF InsertFails, Done, sessionVars, runVars
<1>3. s \in Sessions
  BY <1>1, <1>2 DEF Worker, Labels, AtWork
<1>4. /\ go'[p].pc = "idle" /\ go'[p].cur = NoSession /\ go'[p].todo = {}
      /\ go'[p].job = "none"
      /\ \A q \in Procs \ {p} : go'[q] = go[q]
  BY <1>1, <1>2 DEF Idle
<1>5. \A a \in IPs : (pool'[a] = pool[a] /\ pool[a] # s) \/ pool'[a] = NoSession
  BY <1>1, <1>2, <1>3 DEF LeakInv, Holders, DataOK
<1>6. \A t \in Sessions : Fresh(t) => Fresh(t)'
  BY <1>2, <1>5, ConstantsOK DEF Fresh
<1>7. \A t : t # s /\ Unborn(t) => Unborn(t)'
  BY <1>4 DEF Unborn
<1>8. UnusedIds'
  BY <1>2, <1>4, <1>6, ConstantsOK DEF LeakInv, UnusedIds
<1>9. Creators'
  <2>1. SUFFICES ASSUME NEW r \in Procs, go'[r].pc \in {"alloc", "insert"},
                        NEW t \in Sessions, t = go'[r].cur
                 PROVE  /\ r \in Requests /\ t \notin rows'
                        /\ go'[r].pc = "alloc" => Fresh(t)'
                        /\ \A q \in Procs : /\ t \notin go'[q].todo
                                            /\ q # r => go'[q].cur # t
    <3>1. \A r \in Procs : go'[r].pc \in {"alloc", "insert"} => go'[r].cur \in Sessions
      BY <1>1, <1>4 DEF Worker, Labels, AtWork
    <3> QED
      BY <3>1 DEF Creators
  <2>2. r # p /\ go[r] = go'[r]
    BY <1>4, <2>1
  <2> QED
    BY <1>2, <1>4, <1>6, <2>1, <2>2, ConstantsOK DEF LeakInv, Creators
<1>10. Holders'
  BY <1>2, <1>5, ConstantsOK DEF LeakInv, Holders
<1>11. Released'
  <2>1. SUFFICES ASSUME NEW q \in Procs, go'[q].pc = "deleteRow", NEW a \in IPs
                 PROVE  pool'[a] # go'[q].cur
    BY DEF Released
  <2>2. q # p /\ go'[q] = go[q] /\ go[q].cur \in Sessions
    BY <1>1, <1>4, <2>1 DEF Worker, Labels, AtWork
  <2> QED
    BY <1>5, <2>1, <2>2, ConstantsOK DEF LeakInv, Released
<1>12. NoLeakedKey'
  BY <1>2, <1>7 DEF LeakInv, NoLeakedKey
<1>13. NoLeakedAddress'
  BY <1>1, <1>2, <1>5, <1>7, ConstantsOK DEF LeakInv, NoLeakedAddress, DataOK
<1> QED
  BY <1>4, <1>8, <1>9, <1>10, <1>11, <1>12, <1>13 DEF LeakInv

\* Once the address is free the session holds no address: only its creator
\* could have taken another one, and it is done with that.
LEMMA ReleaseLeak ==
  ASSUME TypeInv, LeakInv, NEW p \in Procs, Release(p), "release" \notin Faulty
  PROVE  LeakInv'
<1> DEFINE s == go[p].cur
<1>1. DataOK /\ go \in [Procs -> Worker]
  BY DEF TypeInv
<1>2. Moves(p, "release", "deleteRow")
  BY <1>1, GotoParts DEF Release, Moves
<1>3. /\ pool' = [pool EXCEPT ![addr[s]] = NoSession]
      /\ UNCHANGED <<rows, owner, addr, psks, thisRun>>
  BY DEF Release, sessionVars, runVars
<1>4. s \in Sessions
  BY <1>1, <1>2 DEF Moves, Worker, Labels, AtWork
<1>5. \A a \in IPs : (pool'[a] = pool[a] /\ pool[a] # s) \/ pool'[a] = NoSession
  BY <1>1, <1>3, <1>4 DEF LeakInv, Holders, DataOK
<1>6. \A t \in Sessions : Fresh(t) => Fresh(t)'
  BY <1>3, <1>5, ConstantsOK DEF Fresh
<1>7. \A t : Unborn(t) => Unborn(t)'
  BY <1>2 DEF Unborn, Moves
<1>8. UnusedIds'
  BY <1>2, <1>3, <1>6 DEF LeakInv, UnusedIds, Moves
<1>9. Creators'
  <2>1. SUFFICES ASSUME NEW r \in Procs, go'[r].pc \in {"alloc", "insert"}
                 PROVE  /\ r \in Requests /\ go'[r].cur \notin rows'
                        /\ go'[r].pc = "alloc" => Fresh(go[r].cur)'
                        /\ \A q \in Procs : /\ go'[r].cur \notin go'[q].todo
                                            /\ q # r => go'[q].cur # go'[r].cur
    BY <1>2 DEF Creators, Moves
  <2>2. go[r].pc = go'[r].pc /\ go[r].cur \in Sessions
    BY <1>1, <1>2, <2>1 DEF Moves, Worker, Labels, AtWork
  <2> QED
    BY <1>2, <1>3, <1>6, <2>1, <2>2 DEF LeakInv, Creators, Moves
<1>10. Holders'
  BY <1>3, <1>5, ConstantsOK DEF LeakInv, Holders
<1>11. Released'
  <2>1. SUFFICES ASSUME NEW q \in Procs, go'[q].pc = "deleteRow", NEW a \in IPs
                 PROVE  pool'[a] # go[q].cur
    BY <1>2 DEF Released, Moves
  <2>2. go[q].cur \in Sessions /\ (q # p => go[q].pc = "deleteRow")
    BY <1>1, <1>2, <1>4, <2>1 DEF Moves, Worker, Labels, AtWork
  <2> QED
    BY <1>5, <2>2, ConstantsOK DEF LeakInv, Released
<1>12. NoLeakedKey'
  BY <1>3, <1>7 DEF LeakInv, NoLeakedKey
<1>13. NoLeakedAddress'
  BY <1>1, <1>3, <1>5, <1>7, ConstantsOK DEF LeakInv, NoLeakedAddress, DataOK
<1> QED
  BY <1>2, <1>8, <1>9, <1>10, <1>11, <1>12, <1>13 DEF LeakInv, Moves

\* The DELETE may fail with the key already dropped; the row then stays.
LEMMA DeleteRowLeak ==
  ASSUME TypeInv, LeakInv, NEW p \in Procs, DeleteRow(p)
  PROVE  LeakInv'
<1> DEFINE s == go[p].cur
<1>1. DataOK /\ go \in [Procs -> Worker]
  BY DEF TypeInv
<1>2. PICK l \in {"syncRead", "next"} : Moves(p, "deleteRow", l)
  BY <1>1, GotoParts DEF DeleteRow, Moves
<1>3. /\ psks' = psks \ {s} /\ rows' \in {rows, rows \ {s}}
      /\ UNCHANGED <<owner, addr, pool, thisRun>>
  BY DEF DeleteRow, runVars
<1>4. \A t : Fresh(t) => Fresh(t)'
  BY <1>3 DEF Fresh
<1>5. \A t : Unborn(t) => Unborn(t)'
  BY <1>2 DEF Unborn, Moves
<1>6. UnusedIds'
  BY <1>2, <1>3, <1>4 DEF LeakInv, UnusedIds, Moves
<1>7. Creators'
  <2>1. SUFFICES ASSUME NEW r \in Procs, go'[r].pc \in {"alloc", "insert"}
                 PROVE  /\ r \in Requests /\ go'[r].cur \notin rows'
                        /\ go'[r].pc = "alloc" => Fresh(go[r].cur)'
                        /\ \A q \in Procs : /\ go'[r].cur \notin go'[q].todo
                                            /\ q # r => go'[q].cur # go'[r].cur
    BY <1>2 DEF Creators, Moves
  <2>2. r # p /\ go[r].pc = go'[r].pc
    BY <1>2, <2>1 DEF Moves
  <2> QED
    BY <1>2, <1>3, <1>4, <2>1, <2>2 DEF LeakInv, Creators, Moves
<1>8. Holders'
  BY <1>3 DEF LeakInv, Holders
<1>9. Released'
  BY <1>2, <1>3 DEF LeakInv, Released, Moves
<1>10. NoLeakedKey'
  BY <1>3, <1>5 DEF LeakInv, NoLeakedKey
<1>11. NoLeakedAddress'
  <2>1. \A a \in IPs : pool[a] # s
    BY <1>2 DEF LeakInv, Released, Moves
  <2> QED
    BY <1>3, <1>5, <2>1 DEF LeakInv, NoLeakedAddress
<1> QED
  BY <1>2, <1>6, <1>7, <1>8, <1>9, <1>10, <1>11 DEF LeakInv, Moves

LEMMA AdmitLeak ==
  ASSUME TypeInv, LeakInv, NEW p \in Requests, NEW u \in Users, NEW s \in Sessions,
         Admit(p, u, s)
  PROVE  LeakInv'
<1>1. DataOK /\ go \in [Procs -> Worker] /\ p \in Procs
  BY DEF TypeInv, Procs
<1>2. /\ go[p].pc = "idle" /\ owner[s] = NoUser /\ owner' = [owner EXCEPT ![s] = u]
      /\ go'[p].pc = "alloc" /\ go'[p].cur = s /\ go'[p].todo = {}
      /\ go'[p].job = "create"
      /\ \A q \in Procs \ {p} : go'[q] = go[q]
      /\ UNCHANGED <<rows, addr, pool, psks, thisRun>>
  BY <1>1 DEF Admit, MayStart, Idle, runVars
<1>3. Fresh(s) /\ \A q \in Procs : go[q].cur # s /\ s \notin go[q].todo
  BY <1>2 DEF LeakInv, UnusedIds
<1>4. \A t : Fresh(t) <=> Fresh(t)'
  BY <1>2 DEF Fresh
<1>5. \A t : Unborn(t) => Unborn(t)'
  BY <1>2 DEF Unborn
<1>6. UnusedIds'
  <2>1. SUFFICES ASSUME NEW t \in Sessions, owner'[t] = NoUser
                 PROVE  Fresh(t)' /\ \A q \in Procs : go'[q].cur # t /\ t \notin go'[q].todo
    BY DEF UnusedIds
  <2>2. t # s /\ owner[t] = NoUser
    BY <1>1, <1>2, <2>1, ConstantsOK DEF DataOK
  <2> QED
    BY <1>2, <1>4, <2>2 DEF LeakInv, UnusedIds
<1>7. Creators'
  <2>1. SUFFICES ASSUME NEW r \in Procs, go'[r].pc \in {"alloc", "insert"},
                        NEW t, t = go'[r].cur
                 PROVE  /\ r \in Requests /\ t \notin rows'
                        /\ go'[r].pc = "alloc" => Fresh(t)'
                        /\ \A q \in Procs : /\ t \notin go'[q].todo
                                            /\ q # r => go'[q].cur # t
    BY DEF Creators
  <2>2. CASE r = p
    BY <1>2, <1>3, <1>4, <2>1, <2>2 DEF Fresh
  <2>3. CASE r # p
    BY <1>2, <1>3, <1>4, <2>1, <2>3 DEF LeakInv, Creators
  <2> QED
    BY <2>2, <2>3
<1>8. Holders' /\ Released'
  BY <1>2 DEF LeakInv, Holders, Released
<1>9. NoLeakedKey' /\ NoLeakedAddress'
  BY <1>2, <1>5 DEF LeakInv, NoLeakedKey, NoLeakedAddress
<1> QED
  BY <1>2, <1>6, <1>7, <1>8, <1>9 DEF LeakInv

LEMMA CreateLeak ==
  ASSUME TypeInv, LeakInv, NEW p \in Procs, CreateStep(p), "release" \notin Faulty
  PROVE  LeakInv'
<1> USE DEF LeakInv, sessionVars, adminVars, runVars
<1>0. DataOK /\ go \in [Procs -> Worker]
  BY DEF TypeInv
<1>1. CASE Allocate(p)
  BY <1>1, AllocateLeak
<1>2. CASE AllocateFails(p)
  <2>1. Quietly(p)
    BY <1>0, <1>2 DEF Quietly, AllocateFails, Done, Idle
  <2> QED
    BY <2>1, QuietStep
<1>3. CASE InsertRow(p)
  BY <1>3, InsertRowLeak
<1>4. CASE InsertFails(p)
  BY <1>4, InsertFailsLeak
<1>5. CASE AddPeer(p)
  <2>1. Quietly(p)
    BY <1>0, <1>5, GotoParts, RollbackParts DEF Quietly, AddPeer
  <2> QED
    BY <2>1, QuietStep
<1>6. CASE InstallRules(p)
  <2>1. Quietly(p)
    BY <1>0, <1>6, GotoParts, RollbackParts DEF Quietly, InstallRules
  <2> QED
    BY <2>1, QuietStep
<1>7. CASE FinishCreate(p)
  <2>1. Quietly(p)
    BY <1>0, <1>7, RollbackParts DEF Quietly, FinishCreate, Done, Idle
  <2> QED
    BY <2>1, QuietStep
<1> QED
  BY <1>1, <1>2, <1>3, <1>4, <1>5, <1>6, <1>7 DEF CreateStep

LEMMA EndLeak ==
  ASSUME TypeInv, LeakInv, NEW p \in Procs, EndStep(p), "release" \notin Faulty
  PROVE  LeakInv'
<1> USE DEF LeakInv, sessionVars, adminVars, runVars
<1>0. DataOK /\ go \in [Procs -> Worker]
  BY DEF TypeInv
<1>1. CASE SelectUserSessions(p)
  <2>1. Quietly(p)
    BY <1>0, <1>1 DEF Quietly, SelectUserSessions, Worker, Goroutine
  <2> QED
    BY <2>1, QuietStep
<1>2. CASE NextSession(p)
  <2>1. PICK s \in go[p].todo :
           \/ go' = [go EXCEPT ![p].todo = @ \ {s}, ![p].cur = s, ![p].pc = "removePeer"]
           \/ go' = [go EXCEPT ![p].todo = @ \ {s}]
    BY <1>2 DEF NextSession
  <2>2. /\ go'[p].pc \in {"removePeer", "next"} /\ go'[p].job = go[p].job
        /\ go'[p].cur \in {go[p].cur, s}
        /\ go'[p].todo = go[p].todo \ {s}
        /\ \A q \in Procs \ {p} : go'[q] = go[q]
    BY <1>0, <1>2, <2>1 DEF NextSession, Worker, Goroutine
  <2>3. Quietly(p)
    BY <1>2, <2>2 DEF NextSession, Quietly
  <2> QED
    BY <2>3, QuietStep
<1>3. CASE EndOfBatch(p)
  <2>1. Quietly(p)
    BY <1>0, <1>3 DEF Quietly, EndOfBatch, Done, Idle
  <2> QED
    BY <2>1, QuietStep
<1>4. CASE Purge(p)
  BY <1>4 DEF Purge
<1>5. CASE RemovePeer(p)
  <2>1. Quietly(p)
    BY <1>0, <1>5, GotoParts DEF Quietly, RemovePeer
  <2> QED
    BY <2>1, QuietStep
<1>6. CASE RemoveRules(p)
  <2>1. Quietly(p)
    BY <1>0, <1>6, GotoParts DEF Quietly, RemoveRules
  <2> QED
    BY <2>1, QuietStep
<1>7. CASE Release(p)
  BY <1>7, ReleaseLeak
<1>8. CASE DeleteRow(p)
  BY <1>8, DeleteRowLeak
<1> QED
  BY <1>1, <1>2, <1>3, <1>4, <1>5, <1>6, <1>7, <1>8 DEF EndStep

LEMMA SyncLeak ==
  ASSUME TypeInv, LeakInv, NEW p \in Procs, SyncStep(p)
  PROVE  LeakInv'
<1> USE DEF LeakInv, sessionVars, adminVars, runVars
<1>0. DataOK /\ go \in [Procs -> Worker]
  BY DEF TypeInv
<1>1. CASE SyncRead(p)
  <2>1. CASE go' = [go EXCEPT ![p].snap = rows \intersect psks, ![p].pc = "syncWrite"]
    <3>1. Quietly(p)
      BY <1>0, <1>1, <2>1 DEF Quietly, SyncRead, Worker, Goroutine
    <3> QED
      BY <3>1, QuietStep
  <2>2. CASE AfterSync(p)
    <3>1. Quietly(p)
      BY <1>0, <1>1, <2>2, GotoParts DEF Quietly, SyncRead, AfterSync
    <3> QED
      BY <3>1, QuietStep
  <2> QED
    BY <1>1, <2>1, <2>2 DEF SyncRead
<1>2. CASE SyncWrite(p)
  <2>1. Quietly(p)
    BY <1>0, <1>2, GotoParts DEF Quietly, SyncWrite, AfterSync
  <2> QED
    BY <2>1, QuietStep
<1> QED
  BY <1>1, <1>2 DEF SyncStep

LEMMA StartLeak ==
  ASSUME TypeInv, LeakInv, NEW p \in Procs, "deleteUser" \notin Ops,
         \/ p \in Requests /\ StartRequest(p)
         \/ ExpireStale(p) \/ CleanDeadPeers(p)
  PROVE  LeakInv'
<1> USE DEF LeakInv, sessionVars, adminVars, runVars
<1>0. DataOK /\ go \in [Procs -> Worker]
  BY DEF TypeInv
<1>1. CASE p \in Requests /\ \E u \in Users, s \in Sessions : Admit(p, u, s)
  BY <1>1, AdmitLeak
<1>2. CASE \E s \in Sessions : Terminate(p, s)
  <2>1. Quietly(p)
    BY <1>0, <1>2 DEF Quietly, Terminate, MayStart, Begin, Idle
  <2> QED
    BY <2>1, QuietStep
<1>3. CASE \E u \in Users : RemoveServer(p, u)
  <2>1. Quietly(p)
    BY <1>0, <1>3 DEF Quietly, RemoveServer, MayStart, Begin, Idle
  <2> QED
    BY <2>1, QuietStep
<1>4. CASE \E u \in Users : Disable(p, u)
  <2>1. Quietly(p)
    BY <1>0, <1>4 DEF Quietly, Disable, MayStart, Begin, Idle
  <2> QED
    BY <2>1, QuietStep
<1>5. CASE \E u \in Users : DeleteUser(p, u)
  BY <1>5 DEF DeleteUser
<1>6. CASE ExpireStale(p)
  <2>1. Quietly(p)
    BY <1>0, <1>6 DEF Quietly, ExpireStale, MayStart, Begin, Idle
  <2> QED
    BY <2>1, QuietStep
<1>7. CASE CleanDeadPeers(p)
  <2>1. Quietly(p)
    BY <1>0, <1>7 DEF Quietly, CleanDeadPeers, MayStart, Begin, Idle
  <2> QED
    BY <2>1, QuietStep
<1> QED
  BY <1>1, <1>2, <1>3, <1>4, <1>5, <1>6, <1>7 DEF StartRequest

LEMMA EnvironmentLeak ==
  ASSUME LeakInv, Environment
  PROVE  LeakInv'
  BY DEF LeakInv, UnusedIds, Creators, Fresh, Holders, Released, NoLeakedKey,
         NoLeakedAddress, Unborn, sessionVars, adminVars, runVars,
         Environment, Keepalive, GoStale, Age, AddServer, Enable,
         ServerRemoveUser, SetAdmin, SessionsOf, SetGrants

\* What a crash leaves is no leak: only addresses of this run are counted.
LEMMA ProcessLeak ==
  ASSUME TypeInv, LeakInv, Process
  PROVE  LeakInv'
<1> USE DEF LeakInv, sessionVars, adminVars, runVars
<1>0. DataOK /\ go \in [Procs -> Worker]
  BY DEF TypeInv
<1>1. CASE Boot
  <2>1. Main \in Procs /\ Quietly(Main)
    BY <1>0, <1>1, ConstantsOK DEF Quietly, Boot, Begin, Idle, Procs, Creators
  <2> QED
    BY <2>1, QuietStep
<1>2. CASE Serve
  <2>1. Main \in Procs /\ Quietly(Main)
    BY <1>0, <1>2, ConstantsOK DEF Quietly, Serve, Done, Idle, Procs, Creators
  <2> QED
    BY <2>1, QuietStep
<1>3. CASE SigTerm
  <2>1. Main \in Procs /\ Quietly(Main)
    BY <1>0, <1>3, ConstantsOK DEF Quietly, SigTerm, Begin, Idle, Procs, Creators
  <2> QED
    BY <2>1, QuietStep
<1>4. CASE Exit \/ Crash
  <2>1. /\ psks' = {} /\ thisRun' = {} /\ go' = [p \in Procs |-> Idle]
        /\ UNCHANGED <<rows, owner, addr, pool>>
    BY <1>4 DEF Exit, Crash, Vanish
  <2> QED
    BY <1>0, <2>1, ConstantsOK DEF UnusedIds, Creators, Fresh, Holders, Released,
       NoLeakedKey, NoLeakedAddress, Idle, DataOK
<1> QED
  BY <1>1, <1>2, <1>3, <1>4 DEF Process

LEMMA NextLeak ==
  ASSUME TypeInv, LeakInv, [Next]_vars, "deleteUser" \notin Ops, "release" \notin Faulty
  PROVE  LeakInv'
<1>1. CASE \E p \in Procs : Step(p)
  BY <1>1, CreateLeak, EndLeak, SyncLeak DEF Step
<1>2. CASE \/ \E p \in Requests : StartRequest(p)
           \/ \E p \in Expirers : ExpireStale(p)
           \/ \E p \in Reapers : CleanDeadPeers(p)
  BY <1>2, StartLeak DEF Procs
<1>3. CASE Environment
  BY <1>3, EnvironmentLeak
<1>4. CASE Process
  BY <1>4, ProcessLeak
<1>5. CASE UNCHANGED vars
  BY <1>5 DEF LeakInv, UnusedIds, Creators, Fresh, Holders, Released, NoLeakedKey,
     NoLeakedAddress, Unborn, vars, sessionVars, adminVars, runVars
<1> QED
  BY <1>1, <1>2, <1>3, <1>4, <1>5 DEF Next

\* While no user is deleted and ReleaseIP succeeds, no order of creations,
\* failed creations, overlapping deletions and crashes leaks an address that
\* this run took from the pool, or leaves a preshared key behind: whatever is
\* held is held for a row, or for a session whose INSERT is still to come.
THEOREM NoLeaks ==
  ASSUME "deleteUser" \notin Ops, "release" \notin Faulty
  PROVE  Spec => [](NoLeakedAddress /\ NoLeakedKey)
<1>1. Init => LeakInv
  BY InitLeak
<1>2. TypeInv /\ LeakInv /\ [Next]_vars => LeakInv'
  BY NextLeak
<1>3. LeakInv => NoLeakedAddress /\ NoLeakedKey
  BY DEF LeakInv
<1> QED
  BY <1>1, <1>2, <1>3, TypeInvariant, PTL DEF Spec

=============================================================================
