------------------------ MODULE SessionAddressProofs ------------------------
(***************************************************************************)
(* Addresses are not shared when any number of creations run beside one    *)
(* goroutine at a time that ends sessions, whatever the calls' order.      *)
(***************************************************************************)
EXTENDS SessionManagerProofs

USE DEF sessionVars, adminVars, runVars

Ending(p) == go[p].job \in EndReasons \union {"rollback"}

\* No two goroutines end sessions at the same time.
OneEnder == \A p, q \in Procs : Ending(p) /\ Ending(q) => p = q

\* Creations are not rolled back and a row that is to be deleted is deleted.
\* (A row whose deletion fails keeps an address that was released.)
Completes ==
    \A call \in {"addPeer", "addRules", "endpoints", "deleteRow"} : call \notin Faulty

Creation == {"alloc", "insert", "addPeer", "rules", "finish"}
Deletion == {"removePeer", "removeRules", "release", "deleteRow"}

\* An id that nobody owns has no row and no goroutine knows it.
NewIds ==
    \A s \in Sessions : owner[s] = NoUser =>
        s \notin rows /\ \A p \in Procs : go[p].cur # s /\ s \notin go[p].todo

\* Before its row is there a session is known to its creator alone.
Makers ==
    \A p \in Procs : go[p].pc \in {"alloc", "insert"} =>
        /\ go[p].cur \notin rows
        /\ \A q \in Procs \ {p} : go[q].cur # go[p].cur

\* Who ends sessions has read their rows, and they are still there.
Enders ==
    \A p \in Procs :
        /\ go[p].job # "rollback"
        /\ go[p].pc \in Creation => go[p].job = "create"
        /\ go[p].job \notin EndReasons =>
              go[p].todo = {} /\ go[p].pc \notin Deletion \union {"select"}
        /\ go[p].todo \subseteq rows
        /\ go[p].pc \in Deletion => go[p].cur \in rows \ go[p].todo

\* Until the process serves, main is alone and misses no row.
StartUp ==
    /\ phase = "down" => \A p \in Procs : go[p].pc = "idle"
    /\ phase = "up" => go[Main].pc = "idle"
    /\ phase = "starting" =>
          /\ \A p \in Procs \ {Main} : go[p].pc = "idle"
          /\ go[Main].job = "shutdown" /\ go[Main].pc # "select"
          /\ \A s \in rows : \/ s \in go[Main].todo
                             \/ go[Main].pc \in Deletion /\ s = go[Main].cur

Holds(s) == addr[s] \in IPs /\ pool[addr[s]] = s

\* A session has its address in the pool from its allocation to its release.
Claims ==
    Serving =>
        /\ \A s \in rows : Holds(s) \/ Leaving(s)
        /\ \A p \in Procs : go[p].pc = "insert" => Holds(go[p].cur)

AddressesInv == NewIds /\ Makers /\ Enders /\ StartUp /\ Claims

\* Nothing but the crash of the process ends its service, and a job that ends
\* sessions does not start beside another one.
EndersTakeTurns == EndReasons \subseteq Exclusive /\ "sigterm" \notin Ops

Turns ==
    /\ OneEnder
    /\ \A p \in Procs : go[p].pc = "idle" => go[p].job = "none"

\* A process that does not serve finds no row when none was killed before.
NoneLeft == phase # "stopping" /\ (phase # "up" => rows = {})

-----------------------------------------------------------------------------
(* The steps, as far as addresses are concerned *)

\* What the types say of the goroutines and of the addresses.
LEMMA Known ==
  ASSUME TypeInv
  PROVE  /\ \A p \in Procs : /\ go[p].pc \in Labels /\ go[p].job \in Jobs
                             /\ go[p].cur \in Sessions \union {NoSession}
                             /\ go[p].todo \subseteq Sessions
                             /\ go[p].pc \in {"alloc", "insert"} \union Deletion =>
                                   go[p].cur \in Sessions
         /\ Main \in Procs /\ rows \subseteq Sessions
         /\ owner \in [Sessions -> Users \union {NoUser}]
         /\ addr \in [Sessions -> IPs \union {NoIP}]
         /\ pool \in [IPs -> Sessions \union {NoSession}]
BY DEF TypeInv, DataOK, Worker, Goroutine, AtWork, Labels, Deletion, Procs

Others(p) == \A q \in Procs \ {p} : go'[q] = go[q]

\* p goes on with what it is at.
Goes(p, from, to) ==
    /\ Others(p) /\ go[p].pc = from /\ go'[p].pc = to
    /\ go'[p].cur = go[p].cur /\ go'[p].todo = go[p].todo /\ go'[p].job = go[p].job

\* p is done.
Leaves(p, from) == Others(p) /\ go[p].pc = from /\ go'[p] = Idle

\* Goto and Done in these terms.
LEMMA GotoGoes ==
  ASSUME TypeInv, NEW p \in Procs, NEW l, Goto(p, l)
  PROVE  Goes(p, go[p].pc, l)
BY DEF TypeInv, Worker, Goroutine, Goto, Goes, Others

\* Ending a job changes no other goroutine.
LEMMA DoneLeaves ==
  ASSUME TypeInv, NEW p \in Procs, Done(p)
  PROVE  Leaves(p, go[p].pc)
BY DEF TypeInv, Done, Leaves, Others

\* An address is taken.
LEMMA AllocateParts ==
  ASSUME TypeInv, NEW p \in Procs, Allocate(p)
  PROVE  /\ Goes(p, "alloc", "insert") /\ go[p].cur \in Sessions
         /\ UNCHANGED <<rows, owner, phase>>
         /\ \E ip \in IPs : /\ pool[ip] = NoSession
                            /\ pool' = [pool EXCEPT ![ip] = go[p].cur]
                            /\ addr' = [addr EXCEPT ![go[p].cur] = ip]
<1>1. go[p].cur \in Sessions
  BY DEF Allocate, TypeInv, Worker, Labels, AtWork
<1> QED
  BY <1>1, GotoGoes DEF Allocate, FreeIPs

\* A row is inserted.
LEMMA InsertRowParts ==
  ASSUME TypeInv, NEW p \in Procs, InsertRow(p)
  PROVE  /\ Goes(p, "insert", "addPeer") /\ rows' = rows \union {go[p].cur}
         /\ UNCHANGED <<owner, addr, pool, phase>>
BY GotoGoes DEF InsertRow

\* The row is refused, and the address is released or stays in use.
LEMMA InsertFailsParts ==
  ASSUME TypeInv, NEW p \in Procs, InsertFails(p)
  PROVE  /\ Leaves(p, "insert") /\ go[p].cur \in Sessions
         /\ pool' \in {pool, [pool EXCEPT ![addr[go[p].cur]] = NoSession]}
         /\ UNCHANGED <<rows, owner, addr, phase>>
<1>1. go[p].cur \in Sessions
  BY DEF InsertFails, TypeInv, Worker, Labels, AtWork
<1> QED
  BY <1>1, DoneLeaves DEF InsertFails, ReleaseIP

\* A creation fails early or is complete, or a batch is.
LEMMA LeaveParts ==
  ASSUME TypeInv, Completes, NEW p \in Procs,
         AllocateFails(p) \/ FinishCreate(p) \/ EndOfBatch(p)
  PROVE  /\ \/ Leaves(p, "alloc") \/ Leaves(p, "finish")
            \/ (Leaves(p, "next") /\ p # Main)
         /\ UNCHANGED <<rows, owner, addr, pool, phase>>
BY DoneLeaves DEF AllocateFails, FinishCreate, EndOfBatch, Completes

\* The peer, the rules.
LEMMA PassParts ==
  ASSUME TypeInv, Completes, NEW p \in Procs, AddPeer(p) \/ InstallRules(p)
  PROVE  /\ Goes(p, "addPeer", "syncRead") \/ Goes(p, "rules", "finish")
         /\ UNCHANGED <<rows, owner, addr, pool, phase>>
BY GotoGoes DEF AddPeer, InstallRules, Completes

\* The synchronisation of the interface.
LEMMA SyncParts ==
  ASSUME TypeInv, NEW p \in Procs, SyncStep(p)
  PROVE  /\ \E from \in {"syncRead", "syncWrite"}, to \in {"syncWrite", "rules", "next"} :
               /\ Goes(p, from, to)
               /\ to = "rules" => go[p].job = "create"
         /\ UNCHANGED <<rows, owner, addr, pool, phase>>
<1>1. CASE (SyncRead(p) /\ AfterSync(p)) \/ SyncWrite(p)
  <2>1. \/ Goto(p, "rules") /\ go[p].job = "create"
        \/ Goto(p, "next")
    BY <1>1 DEF SyncWrite, AfterSync
  <2> QED
    BY <1>1, <2>1, GotoGoes DEF SyncRead, SyncWrite
<1>2. CASE SyncRead(p) /\ ~AfterSync(p)
  <2>1. Goes(p, "syncRead", "syncWrite")
    BY <1>2 DEF SyncRead, Goes, Others, TypeInv, Worker, Goroutine
  <2> QED
    BY <1>2, <2>1 DEF SyncRead
<1> QED
  BY <1>1, <1>2 DEF SyncStep

\* The first two calls of a deletion.
LEMMA RemoveParts ==
  ASSUME TypeInv, NEW p \in Procs, RemovePeer(p) \/ RemoveRules(p)
  PROVE  /\ Goes(p, "removePeer", "removeRules") \/ Goes(p, "removeRules", "release")
         /\ UNCHANGED <<rows, owner, addr, pool, phase>>
BY GotoGoes DEF RemovePeer, RemoveRules

\* The address is released, or stays in use.
LEMMA ReleaseParts ==
  ASSUME TypeInv, NEW p \in Procs, Release(p)
  PROVE  /\ Goes(p, "release", "deleteRow") /\ go[p].cur \in Sessions
         /\ pool' \in {pool, [pool EXCEPT ![addr[go[p].cur]] = NoSession]}
         /\ UNCHANGED <<rows, owner, addr, phase>>
<1>1. go[p].cur \in Sessions
  BY DEF Release, TypeInv, Worker, Labels, AtWork
<1> QED
  BY <1>1, GotoGoes DEF Release, ReleaseIP

\* The row is deleted.
LEMMA DeleteRowParts ==
  ASSUME TypeInv, Completes, NEW p \in Procs, DeleteRow(p)
  PROVE  /\ Goes(p, "deleteRow", "syncRead") /\ rows' = rows \ {go[p].cur}
         /\ UNCHANGED <<owner, addr, pool, phase>>
BY GotoGoes DEF DeleteRow, Completes

\* The user is deleted and with it the rows that are still there.
LEMMA PurgeParts ==
  ASSUME TypeInv, NEW p \in Procs, Purge(p)
  PROVE  /\ Leaves(p, "next") /\ go[p].todo = {} /\ go[p].job = "delete_user"
         /\ rows' \subseteq rows /\ UNCHANGED <<owner, addr, pool, phase>>
BY DoneLeaves DEF Purge

\* The rows of a user are read.
LEMMA SelectParts ==
  ASSUME TypeInv, NEW p \in Procs, SelectUserSessions(p)
  PROVE  /\ Others(p) /\ go[p].pc = "select" /\ go'[p].pc = "next"
         /\ go'[p].cur = go[p].cur /\ go'[p].job = go[p].job
         /\ go'[p].todo \subseteq rows
         /\ UNCHANGED <<rows, owner, addr, pool, phase>>
BY DEF SelectUserSessions, Others, TypeInv, Worker, Goroutine

\* The next session of a batch.
LEMMA NextParts ==
  ASSUME TypeInv, NEW p \in Procs, NextSession(p)
  PROVE  /\ Others(p) /\ go[p].pc = "next" /\ go'[p].job = go[p].job
         /\ \E s \in go[p].todo :
               /\ go'[p].todo = go[p].todo \ {s}
               /\ \/ go'[p].pc = "removePeer" /\ go'[p].cur = s
                  \/ /\ go[p].job = "dead_peer" /\ go'[p].pc = "next"
                     /\ go'[p].cur = go[p].cur
         /\ UNCHANGED <<rows, owner, addr, pool, phase>>
BY DEF NextSession, Others, TypeInv, Worker, Goroutine

\* A creation begins, with an id that nobody knows.
LEMMA AdmitParts ==
  ASSUME TypeInv, NEW p \in Procs, NEW u \in Users, NEW s \in Sessions, Admit(p, u, s)
  PROVE  /\ Others(p) /\ go[p].pc = "idle" /\ go'[p].pc = "alloc"
         /\ go'[p].job = "create" /\ go'[p].cur = s /\ go'[p].todo = {}
         /\ Serving /\ owner[s] = NoUser
         /\ owner' = [owner EXCEPT ![s] = u]
         /\ UNCHANGED <<rows, addr, pool, phase>>
BY DEF Admit, MayStart, Others, Idle, TypeInv, Worker, Goroutine

\* A job that ends sessions begins.
StartJob ==
    \/ \E r \in Requests, s \in Sessions : Terminate(r, s)
    \/ \E r \in Requests, u \in Users :
          RemoveServer(r, u) \/ Disable(r, u) \/ DeleteUser(r, u)
    \/ \E x \in Expirers : ExpireStale(x)
    \/ \E y \in Reapers : CleanDeadPeers(y)

\* Begin in flat terms.
LEMMA BeginParts ==
  ASSUME TypeInv, NEW p \in Procs, NEW j, NEW u, NEW batch, NEW l, Begin(p, j, u,
         batch, l)
  PROVE  /\ Others(p) /\ go'[p].pc = l /\ go'[p].job = j
         /\ go'[p].cur = NoSession /\ go'[p].todo = batch
BY DEF Begin, Idle, Others, TypeInv

\* Its batch is of rows.
LEMMA StartParts ==
  ASSUME TypeInv, StartJob
  PROVE  /\ Serving /\ UNCHANGED <<rows, owner, addr, pool, phase>>
         /\ \E p \in Procs \ {Main} :
               /\ Others(p) /\ go[p].pc = "idle" /\ go'[p].pc \in {"next", "select"}
               /\ go'[p].job \in EndReasons
               /\ go'[p].cur = NoSession /\ go'[p].todo \subseteq rows
         /\ EndReasons \subseteq Exclusive => \A q \in Procs : go[q].job \notin EndReasons
<1> USE DEF EndReasons, MayStart
<1>0. Requests \union Expirers \union Reapers \subseteq Procs \ {Main}
  BY ConstantsOK DEF Procs
<1>1. CASE \E r \in Requests, s \in Sessions : Terminate(r, s)
  BY <1>0, <1>1, BeginParts DEF Terminate
<1>2. CASE \E r \in Requests, u \in Users :
              RemoveServer(r, u) \/ Disable(r, u) \/ DeleteUser(r, u)
  BY <1>0, <1>2, BeginParts DEF RemoveServer, Disable, DeleteUser
<1>3. CASE \E x \in Expirers : ExpireStale(x)
  BY <1>0, <1>3, BeginParts DEF ExpireStale, Overdue
<1>4. CASE \E y \in Reapers : CleanDeadPeers(y)
  BY <1>0, <1>4, BeginParts DEF CleanDeadPeers
<1> QED
  BY <1>1, <1>2, <1>3, <1>4 DEF StartJob

\* Main begins to end every session.
LEMMA MainParts ==
  ASSUME TypeInv, Boot \/ SigTerm
  PROVE  /\ Others(Main) /\ go'[Main].pc = "next" /\ go'[Main].job = "shutdown"
         /\ go'[Main].cur = NoSession /\ go'[Main].todo = rows
         /\ \/ phase = "down" /\ phase' = "starting"
            \/ phase = "up" /\ phase' = "stopping"
         /\ UNCHANGED <<rows, owner, addr, pool>>
BY BeginParts DEF Boot, SigTerm, Procs

\* The process serves.
LEMMA ServeParts ==
  ASSUME TypeInv, Serve
  PROVE  /\ Leaves(Main, "next") /\ go[Main].todo = {}
         /\ phase = "starting" /\ phase' = "up"
         /\ UNCHANGED <<rows, owner, addr, pool>>
BY DoneLeaves DEF Serve, Procs

\* The process is gone.
LEMMA VanishParts ==
  ASSUME Exit \/ Crash
  PROVE  /\ phase' = "down" /\ \A p \in Procs : go'[p] = Idle
         /\ UNCHANGED <<rows, owner, addr, pool>>
BY DEF Exit, Crash, Vanish

\* What clients, time and admins do beside the jobs moves no address.
LEMMA EnvironmentParts ==
  ASSUME Environment \/ UNCHANGED vars
  PROVE  UNCHANGED <<rows, owner, addr, pool, phase, go>>
BY DEF Environment, Keepalive, GoStale, Age, AddServer, Enable, ServerRemoveUser,
   SetAdmin, SetGrants, vars

\* What can happen.
LEMMA AllCases ==
  ASSUME [Next]_vars
  PROVE  \/ \E p \in Procs : CreateStep(p) \/ EndStep(p) \/ SyncStep(p)
         \/ \E p \in Procs \ {Main}, u \in Users, s \in Sessions : Admit(p, u, s)
         \/ StartJob \/ Boot \/ SigTerm \/ Serve \/ Exit \/ Crash
         \/ Environment \/ UNCHANGED vars
BY ConstantsOK DEF Next, Step, StartRequest, StartJob, Process, Procs

-----------------------------------------------------------------------------
(* The invariant *)

\* Only a fresh id is drawn.
LEMMA NewIdsStep ==
  ASSUME TypeInv, Completes, NewIds, Enders, [Next]_vars
  PROVE  NewIds'
<1> USE DEF NewIds, Enders, Others, Goes, Leaves, Idle
<1>1. ASSUME NEW p \in Procs, Allocate(p) PROVE NewIds'
  BY <1>1, Known, AllocateParts, ConstantsOK
<1>2. ASSUME NEW p \in Procs, InsertRow(p) PROVE NewIds'
  BY <1>2, Known, InsertRowParts, ConstantsOK
<1>3. ASSUME NEW p \in Procs, InsertFails(p) PROVE NewIds'
  BY <1>3, Known, InsertFailsParts, ConstantsOK
<1>4. ASSUME NEW p \in Procs, AllocateFails(p) \/ FinishCreate(p) \/ EndOfBatch(p)
      PROVE  NewIds'
  BY <1>4, Known, LeaveParts, ConstantsOK
<1>5. ASSUME NEW p \in Procs, AddPeer(p) \/ InstallRules(p) PROVE NewIds'
  BY <1>5, Known, PassParts, ConstantsOK
<1>6. ASSUME NEW p \in Procs, SyncStep(p) PROVE NewIds'
  BY <1>6, Known, SyncParts, ConstantsOK
<1>7. ASSUME NEW p \in Procs, SelectUserSessions(p) PROVE NewIds'
  BY <1>7, Known, SelectParts, ConstantsOK
<1>8. ASSUME NEW p \in Procs, NextSession(p) PROVE NewIds'
  BY <1>8, Known, NextParts, ConstantsOK
<1>9. ASSUME NEW p \in Procs, RemovePeer(p) \/ RemoveRules(p) PROVE NewIds'
  BY <1>9, Known, RemoveParts, ConstantsOK
<1>10. ASSUME NEW p \in Procs, Release(p) PROVE NewIds'
  BY <1>10, Known, ReleaseParts, ConstantsOK
<1>11. ASSUME NEW p \in Procs, DeleteRow(p) PROVE NewIds'
  BY <1>11, Known, DeleteRowParts, ConstantsOK
<1>12. ASSUME NEW p \in Procs, Purge(p) PROVE NewIds'
  BY <1>12, Known, PurgeParts, ConstantsOK
<1>13. ASSUME NEW p \in Procs \ {Main}, NEW u \in Users, NEW s \in Sessions, Admit(p, u, s)
       PROVE  NewIds'
  BY <1>13, Known, AdmitParts, ConstantsOK
<1>14. ASSUME StartJob PROVE NewIds'
  BY <1>14, Known, StartParts, ConstantsOK
<1>15. ASSUME Boot \/ SigTerm PROVE NewIds'
  BY <1>15, Known, MainParts, ConstantsOK
<1>16. ASSUME Serve PROVE NewIds'
  BY <1>16, Known, ServeParts, ConstantsOK
<1>17. ASSUME Exit \/ Crash PROVE NewIds'
  BY <1>17, Known, VanishParts, ConstantsOK
<1>18. ASSUME Environment \/ UNCHANGED vars PROVE NewIds'
  BY <1>18, Known, EnvironmentParts, ConstantsOK
<1> QED
  BY AllCases, <1>1, <1>2, <1>3, <1>4, <1>5, <1>6, <1>7, <1>8, <1>9, <1>10, <1>11,
     <1>12, <1>13, <1>14, <1>15, <1>16, <1>17, <1>18
     DEF CreateStep, EndStep

\* A new session stays with its creator until its row is there.
LEMMA MakersStep ==
  ASSUME TypeInv, Completes, NewIds, Makers, Enders, [Next]_vars
  PROVE  Makers'
<1> USE DEF NewIds, Makers, Enders, Deletion, Creation, EndReasons, Others, Goes,
        Leaves, Idle
<1>1. ASSUME NEW p \in Procs, Allocate(p) PROVE Makers'
  BY <1>1, Known, AllocateParts, ConstantsOK
<1>2. ASSUME NEW p \in Procs, InsertRow(p) PROVE Makers'
  BY <1>2, Known, InsertRowParts, ConstantsOK
<1>3. ASSUME NEW p \in Procs, InsertFails(p) PROVE Makers'
  BY <1>3, Known, InsertFailsParts, ConstantsOK
<1>4. ASSUME NEW p \in Procs, AllocateFails(p) \/ FinishCreate(p) \/ EndOfBatch(p)
      PROVE  Makers'
  BY <1>4, Known, LeaveParts, ConstantsOK
<1>5. ASSUME NEW p \in Procs, AddPeer(p) \/ InstallRules(p) PROVE Makers'
  BY <1>5, Known, PassParts, ConstantsOK
<1>6. ASSUME NEW p \in Procs, SyncStep(p) PROVE Makers'
  BY <1>6, Known, SyncParts, ConstantsOK
<1>7. ASSUME NEW p \in Procs, SelectUserSessions(p) PROVE Makers'
  BY <1>7, Known, SelectParts, ConstantsOK
<1>8. ASSUME NEW p \in Procs, NextSession(p) PROVE Makers'
  BY <1>8, Known, NextParts, ConstantsOK
<1>9. ASSUME NEW p \in Procs, RemovePeer(p) \/ RemoveRules(p) PROVE Makers'
  BY <1>9, Known, RemoveParts, ConstantsOK
<1>10. ASSUME NEW p \in Procs, Release(p) PROVE Makers'
  BY <1>10, Known, ReleaseParts, ConstantsOK
<1>11. ASSUME NEW p \in Procs, DeleteRow(p) PROVE Makers'
  BY <1>11, Known, DeleteRowParts, ConstantsOK
<1>12. ASSUME NEW p \in Procs, Purge(p) PROVE Makers'
  BY <1>12, Known, PurgeParts, ConstantsOK
<1>13. ASSUME NEW p \in Procs \ {Main}, NEW u \in Users, NEW s \in Sessions, Admit(p, u, s)
       PROVE  Makers'
  BY <1>13, Known, AdmitParts, ConstantsOK
<1>14. ASSUME StartJob PROVE Makers'
  BY <1>14, Known, StartParts, ConstantsOK
<1>15. ASSUME Boot \/ SigTerm PROVE Makers'
  BY <1>15, Known, MainParts, ConstantsOK
<1>16. ASSUME Serve PROVE Makers'
  BY <1>16, Known, ServeParts, ConstantsOK
<1>17. ASSUME Exit \/ Crash PROVE Makers'
  BY <1>17, Known, VanishParts, ConstantsOK
<1>18. ASSUME Environment \/ UNCHANGED vars PROVE Makers'
  BY <1>18, Known, EnvironmentParts, ConstantsOK
<1> QED
  BY AllCases, <1>1, <1>2, <1>3, <1>4, <1>5, <1>6, <1>7, <1>8, <1>9, <1>10, <1>11,
     <1>12, <1>13, <1>14, <1>15, <1>16, <1>17, <1>18
     DEF CreateStep, EndStep

\* A batch is of rows as long as no other goroutine deletes them.
LEMMA EndersStep ==
  ASSUME TypeInv, Completes, OneEnder, OneEnder', Makers, Enders, [Next]_vars
  PROVE  Enders'
<1> USE DEF OneEnder, Ending, Makers, Enders, Deletion, Creation, EndReasons,
        Others, Goes, Leaves, Idle
<1>1. ASSUME NEW p \in Procs, Allocate(p) PROVE Enders'
  BY <1>1, Known, AllocateParts
<1>2. ASSUME NEW p \in Procs, InsertRow(p) PROVE Enders'
  BY <1>2, Known, InsertRowParts
<1>3. ASSUME NEW p \in Procs, InsertFails(p) PROVE Enders'
  BY <1>3, Known, InsertFailsParts
<1>4. ASSUME NEW p \in Procs, AllocateFails(p) \/ FinishCreate(p) \/ EndOfBatch(p)
      PROVE  Enders'
  BY <1>4, Known, LeaveParts
<1>5. ASSUME NEW p \in Procs, AddPeer(p) \/ InstallRules(p) PROVE Enders'
  BY <1>5, Known, PassParts
<1>6. ASSUME NEW p \in Procs, SyncStep(p) PROVE Enders'
  BY <1>6, Known, SyncParts
<1>7. ASSUME NEW p \in Procs, SelectUserSessions(p) PROVE Enders'
  BY <1>7, Known, SelectParts
<1>8. ASSUME NEW p \in Procs, NextSession(p) PROVE Enders'
  BY <1>8, Known, NextParts
<1>9. ASSUME NEW p \in Procs, RemovePeer(p) \/ RemoveRules(p) PROVE Enders'
  BY <1>9, Known, RemoveParts
<1>10. ASSUME NEW p \in Procs, Release(p) PROVE Enders'
  BY <1>10, Known, ReleaseParts
<1>11. ASSUME NEW p \in Procs, DeleteRow(p) PROVE Enders'
  BY <1>11, Known, DeleteRowParts
<1>12. ASSUME NEW p \in Procs, Purge(p) PROVE Enders'
  BY <1>12, Known, PurgeParts
<1>13. ASSUME NEW p \in Procs \ {Main}, NEW u \in Users, NEW s \in Sessions, Admit(p, u, s)
       PROVE  Enders'
  BY <1>13, Known, AdmitParts
<1>14. ASSUME StartJob PROVE Enders'
  BY <1>14, Known, StartParts
<1>15. ASSUME Boot \/ SigTerm PROVE Enders'
  BY <1>15, Known, MainParts
<1>16. ASSUME Serve PROVE Enders'
  BY <1>16, Known, ServeParts
<1>17. ASSUME Exit \/ Crash PROVE Enders'
  BY <1>17, Known, VanishParts
<1>18. ASSUME Environment \/ UNCHANGED vars PROVE Enders'
  BY <1>18, Known, EnvironmentParts
<1> QED
  BY AllCases, <1>1, <1>2, <1>3, <1>4, <1>5, <1>6, <1>7, <1>8, <1>9, <1>10, <1>11,
     <1>12, <1>13, <1>14, <1>15, <1>16, <1>17, <1>18
     DEF CreateStep, EndStep

\* Main deletes every row before the process serves.
LEMMA StartUpStep ==
  ASSUME TypeInv, Completes, Enders, StartUp, [Next]_vars
  PROVE  StartUp'
<1> USE DEF Enders, StartUp, Serving, Deletion, Creation, EndReasons, Others, Goes,
        Leaves, Idle
<1>1. ASSUME NEW p \in Procs, Allocate(p) PROVE StartUp'
  BY <1>1, Known, AllocateParts
<1>2. ASSUME NEW p \in Procs, InsertRow(p) PROVE StartUp'
  BY <1>2, Known, InsertRowParts
<1>3. ASSUME NEW p \in Procs, InsertFails(p) PROVE StartUp'
  BY <1>3, Known, InsertFailsParts
<1>4. ASSUME NEW p \in Procs, AllocateFails(p) \/ FinishCreate(p) \/ EndOfBatch(p)
      PROVE  StartUp'
  BY <1>4, Known, LeaveParts
<1>5. ASSUME NEW p \in Procs, AddPeer(p) \/ InstallRules(p) PROVE StartUp'
  BY <1>5, Known, PassParts
<1>6. ASSUME NEW p \in Procs, SyncStep(p) PROVE StartUp'
  BY <1>6, Known, SyncParts
<1>7. ASSUME NEW p \in Procs, SelectUserSessions(p) PROVE StartUp'
  BY <1>7, Known, SelectParts
<1>8. ASSUME NEW p \in Procs, NextSession(p) PROVE StartUp'
  BY <1>8, Known, NextParts
<1>9. ASSUME NEW p \in Procs, RemovePeer(p) \/ RemoveRules(p) PROVE StartUp'
  BY <1>9, Known, RemoveParts
<1>10. ASSUME NEW p \in Procs, Release(p) PROVE StartUp'
  BY <1>10, Known, ReleaseParts
<1>11. ASSUME NEW p \in Procs, DeleteRow(p) PROVE StartUp'
  BY <1>11, Known, DeleteRowParts
<1>12. ASSUME NEW p \in Procs, Purge(p) PROVE StartUp'
  BY <1>12, Known, PurgeParts
<1>13. ASSUME NEW p \in Procs \ {Main}, NEW u \in Users, NEW s \in Sessions, Admit(p, u, s)
       PROVE  StartUp'
  BY <1>13, Known, AdmitParts
<1>14. ASSUME StartJob PROVE StartUp'
  BY <1>14, Known, StartParts
<1>15. ASSUME Boot \/ SigTerm PROVE StartUp'
  BY <1>15, Known, MainParts
<1>16. ASSUME Serve PROVE StartUp'
  BY <1>16, Known, ServeParts
<1>17. ASSUME Exit \/ Crash PROVE StartUp'
  BY <1>17, Known, VanishParts
<1>18. ASSUME Environment \/ UNCHANGED vars PROVE StartUp'
  BY <1>18, Known, EnvironmentParts
<1> QED
  BY AllCases, <1>1, <1>2, <1>3, <1>4, <1>5, <1>6, <1>7, <1>8, <1>9, <1>10, <1>11,
     <1>12, <1>13, <1>14, <1>15, <1>16, <1>17, <1>18
     DEF CreateStep, EndStep

\* Only the deletion of a session takes its address.
LEMMA ClaimsStep ==
  ASSUME TypeInv, Completes, OneEnder, OneEnder', NewIds, Makers, Enders, StartUp,
         Claims, [Next]_vars
  PROVE  Claims'
<1> USE DEF OneEnder, Ending, Makers, Enders, StartUp, Claims, Holds, Leaving,
        Serving, Deletion, Creation, EndReasons, Others, Goes, Leaves, Idle
<1>1. ASSUME NEW p \in Procs, Allocate(p) PROVE Claims'
  <2>1. PICK ip \in IPs : /\ pool[ip] = NoSession
                         /\ pool' = [pool EXCEPT ![ip] = go[p].cur]
                         /\ addr' = [addr EXCEPT ![go[p].cur] = ip]
    BY <1>1, AllocateParts
  <2>2. /\ Goes(p, "alloc", "insert") /\ go[p].cur \in Sessions
        /\ UNCHANGED <<rows, owner, phase>>
    BY <1>1, AllocateParts
  <2>3. Holds(go[p].cur)'
    BY Known, <2>1, <2>2
  <2>4. ASSUME NEW s \in Sessions, s # go[p].cur, Holds(s) PROVE Holds(s)'
    <3>1. addr'[s] = addr[s] /\ addr[s] # ip
      BY Known, <2>1, <2>2, <2>4, ConstantsOK
    <3> QED
      BY Known, <2>1, <2>2, <2>4, <3>1
  <2>5. \A s \in rows : s # go[p].cur /\ (Leaving(s) => Leaving(s)')
    BY Known, <2>2
  <2>6. \A q \in Procs : go'[q].pc = "insert" =>
           q = p \/ (go[q].pc = "insert" /\ go'[q].cur = go[q].cur /\ go[q].cur # go[p].cur)
    BY Known, <2>2
  <2> HIDE DEF Holds, Leaving
  <2> QED
    BY Known, <2>2, <2>3, <2>4, <2>5, <2>6
<1>2. ASSUME NEW p \in Procs, InsertRow(p) PROVE Claims'
  BY <1>2, Known, InsertRowParts, ConstantsOK
<1>3. ASSUME NEW p \in Procs, InsertFails(p) PROVE Claims'
  BY <1>3, Known, InsertFailsParts, ConstantsOK
<1>4. ASSUME NEW p \in Procs, AllocateFails(p) \/ FinishCreate(p) \/ EndOfBatch(p)
      PROVE  Claims'
  BY <1>4, Known, LeaveParts, ConstantsOK
<1>5. ASSUME NEW p \in Procs, AddPeer(p) \/ InstallRules(p) PROVE Claims'
  BY <1>5, Known, PassParts, ConstantsOK
<1>6. ASSUME NEW p \in Procs, SyncStep(p) PROVE Claims'
  BY <1>6, Known, SyncParts, ConstantsOK
<1>7. ASSUME NEW p \in Procs, SelectUserSessions(p) PROVE Claims'
  BY <1>7, Known, SelectParts, ConstantsOK
<1>8. ASSUME NEW p \in Procs, NextSession(p) PROVE Claims'
  BY <1>8, Known, NextParts, ConstantsOK
<1>9. ASSUME NEW p \in Procs, RemovePeer(p) \/ RemoveRules(p) PROVE Claims'
  BY <1>9, Known, RemoveParts, ConstantsOK
<1>10. ASSUME NEW p \in Procs, Release(p) PROVE Claims'
  BY <1>10, Known, ReleaseParts, ConstantsOK
<1>11. ASSUME NEW p \in Procs, DeleteRow(p) PROVE Claims'
  BY <1>11, Known, DeleteRowParts, ConstantsOK
<1>12. ASSUME NEW p \in Procs, Purge(p) PROVE Claims'
  BY <1>12, Known, PurgeParts, ConstantsOK
<1>13. ASSUME NEW p \in Procs \ {Main}, NEW u \in Users, NEW s \in Sessions, Admit(p, u, s)
       PROVE  Claims'
  BY <1>13, Known, AdmitParts, ConstantsOK
<1>14. ASSUME StartJob PROVE Claims'
  BY <1>14, Known, StartParts, ConstantsOK
<1>15. ASSUME Boot \/ SigTerm PROVE Claims'
  BY <1>15, Known, MainParts, ConstantsOK
<1>16. ASSUME Serve PROVE Claims'
  BY <1>16, Known, ServeParts, ConstantsOK
<1>17. ASSUME Exit \/ Crash PROVE Claims'
  BY <1>17, Known, VanishParts, ConstantsOK
<1>18. ASSUME Environment \/ UNCHANGED vars PROVE Claims'
  BY <1>18, Known, EnvironmentParts, ConstantsOK
<1> QED
  BY AllCases, <1>1, <1>2, <1>3, <1>4, <1>5, <1>6, <1>7, <1>8, <1>9, <1>10, <1>11,
     <1>12, <1>13, <1>14, <1>15, <1>16, <1>17, <1>18
     DEF CreateStep, EndStep

\* Jobs that end sessions take turns.
LEMMA TurnsStep ==
  ASSUME TypeInv, Completes, EndersTakeTurns, Enders, StartUp, Turns, [Next]_vars
  PROVE  Turns'
<1> USE DEF EndersTakeTurns, Enders, StartUp, Turns, OneEnder, Ending, EndReasons,
        Others, Goes, Leaves, Idle
<1>1. ASSUME NEW p \in Procs, Allocate(p) PROVE Turns'
  BY <1>1, Known, AllocateParts
<1>2. ASSUME NEW p \in Procs, InsertRow(p) PROVE Turns'
  BY <1>2, Known, InsertRowParts
<1>3. ASSUME NEW p \in Procs, InsertFails(p) PROVE Turns'
  BY <1>3, Known, InsertFailsParts
<1>4. ASSUME NEW p \in Procs, AllocateFails(p) \/ FinishCreate(p) \/ EndOfBatch(p)
      PROVE  Turns'
  BY <1>4, Known, LeaveParts
<1>5. ASSUME NEW p \in Procs, AddPeer(p) \/ InstallRules(p) PROVE Turns'
  BY <1>5, Known, PassParts
<1>6. ASSUME NEW p \in Procs, SyncStep(p) PROVE Turns'
  BY <1>6, Known, SyncParts
<1>7. ASSUME NEW p \in Procs, SelectUserSessions(p) PROVE Turns'
  BY <1>7, Known, SelectParts
<1>8. ASSUME NEW p \in Procs, NextSession(p) PROVE Turns'
  BY <1>8, Known, NextParts
<1>9. ASSUME NEW p \in Procs, RemovePeer(p) \/ RemoveRules(p) PROVE Turns'
  BY <1>9, Known, RemoveParts
<1>10. ASSUME NEW p \in Procs, Release(p) PROVE Turns'
  BY <1>10, Known, ReleaseParts
<1>11. ASSUME NEW p \in Procs, DeleteRow(p) PROVE Turns'
  BY <1>11, Known, DeleteRowParts
<1>12. ASSUME NEW p \in Procs, Purge(p) PROVE Turns'
  BY <1>12, Known, PurgeParts
<1>13. ASSUME NEW p \in Procs \ {Main}, NEW u \in Users, NEW s \in Sessions, Admit(p, u, s)
       PROVE  Turns'
  BY <1>13, Known, AdmitParts
<1>14. ASSUME StartJob PROVE Turns'
  BY <1>14, Known, StartParts
<1>15. ASSUME Boot \/ SigTerm PROVE Turns'
  <2>1. Boot
    BY <1>15 DEF SigTerm
  <2>2. \A q \in Procs : go[q].job = "none"
    BY <2>1 DEF Boot
  <2>3. \A q \in Procs \ {Main} : go'[q].job = "none"
    BY <1>15, <2>2, MainParts
  <2> QED
    BY <1>15, <2>2, <2>3, MainParts
<1>16. ASSUME Serve PROVE Turns'
  BY <1>16, Known, ServeParts
<1>17. ASSUME Exit \/ Crash PROVE Turns'
  BY <1>17, Known, VanishParts
<1>18. ASSUME Environment \/ UNCHANGED vars PROVE Turns'
  BY <1>18, Known, EnvironmentParts
<1> QED
  BY AllCases, <1>1, <1>2, <1>3, <1>4, <1>5, <1>6, <1>7, <1>8, <1>9, <1>10, <1>11,
     <1>12, <1>13, <1>14, <1>15, <1>16, <1>17, <1>18
     DEF CreateStep, EndStep

\* Rows are inserted while the process serves.
LEMMA NoneLeftStep ==
  ASSUME TypeInv, Completes, EndersTakeTurns, "crash" \notin Ops, Enders, StartUp,
         NoneLeft, [Next]_vars
  PROVE  NoneLeft'
<1> USE DEF EndersTakeTurns, Enders, StartUp, NoneLeft, Creation, EndReasons,
        Others, Goes, Leaves, Idle
<1>1. ASSUME NEW p \in Procs, Allocate(p) PROVE NoneLeft'
  BY <1>1, Known, AllocateParts
<1>2. ASSUME NEW p \in Procs, InsertRow(p) PROVE NoneLeft'
  BY <1>2, Known, InsertRowParts DEF TypeInv, DataOK
<1>3. ASSUME NEW p \in Procs, InsertFails(p) PROVE NoneLeft'
  BY <1>3, Known, InsertFailsParts
<1>4. ASSUME NEW p \in Procs, AllocateFails(p) \/ FinishCreate(p) \/ EndOfBatch(p)
      PROVE  NoneLeft'
  BY <1>4, Known, LeaveParts
<1>5. ASSUME NEW p \in Procs, AddPeer(p) \/ InstallRules(p) PROVE NoneLeft'
  BY <1>5, Known, PassParts
<1>6. ASSUME NEW p \in Procs, SyncStep(p) PROVE NoneLeft'
  BY <1>6, Known, SyncParts
<1>7. ASSUME NEW p \in Procs, SelectUserSessions(p) PROVE NoneLeft'
  BY <1>7, Known, SelectParts
<1>8. ASSUME NEW p \in Procs, NextSession(p) PROVE NoneLeft'
  BY <1>8, Known, NextParts
<1>9. ASSUME NEW p \in Procs, RemovePeer(p) \/ RemoveRules(p) PROVE NoneLeft'
  BY <1>9, Known, RemoveParts
<1>10. ASSUME NEW p \in Procs, Release(p) PROVE NoneLeft'
  BY <1>10, Known, ReleaseParts
<1>11. ASSUME NEW p \in Procs, DeleteRow(p) PROVE NoneLeft'
  BY <1>11, Known, DeleteRowParts
<1>12. ASSUME NEW p \in Procs, Purge(p) PROVE NoneLeft'
  BY <1>12, Known, PurgeParts
<1>13. ASSUME NEW p \in Procs \ {Main}, NEW u \in Users, NEW s \in Sessions, Admit(p, u, s)
       PROVE  NoneLeft'
  BY <1>13, Known, AdmitParts
<1>14. ASSUME StartJob PROVE NoneLeft'
  BY <1>14, Known, StartParts
<1>15. ASSUME Boot \/ SigTerm PROVE NoneLeft'
  BY <1>15, Known, MainParts DEF Boot, SigTerm
<1>16. ASSUME Serve PROVE NoneLeft'
  BY <1>16, Known, ServeParts
<1>17. ASSUME Exit \/ Crash PROVE NoneLeft'
  BY <1>17, Known, VanishParts DEF Exit, Crash
<1>18. ASSUME Environment \/ UNCHANGED vars PROVE NoneLeft'
  BY <1>18, Known, EnvironmentParts
<1> QED
  BY AllCases, <1>1, <1>2, <1>3, <1>4, <1>5, <1>6, <1>7, <1>8, <1>9, <1>10, <1>11,
     <1>12, <1>13, <1>14, <1>15, <1>16, <1>17, <1>18
     DEF CreateStep, EndStep

-----------------------------------------------------------------------------
(* Addresses are not shared *)

\* Before the first start there is nothing.
LEMMA AddressesStart ==
  ASSUME Init
  PROVE  AddressesInv /\ Turns /\ NoneLeft
<1>1. /\ rows = {} /\ phase = "down"
      /\ \A p \in Procs : go[p] = Idle
  BY DEF Init
<1> USE DEF Idle
<1>2. NewIds
  BY <1>1, ConstantsOK DEF NewIds
<1>3. Makers /\ Enders
  BY <1>1 DEF Makers, Enders, EndReasons, Creation, Deletion
<1>4. StartUp /\ Claims
  BY <1>1 DEF StartUp, Claims, Serving
<1>5. Turns /\ NoneLeft
  BY <1>1 DEF Turns, OneEnder, Ending, EndReasons, NoneLeft
<1> QED
  BY <1>2, <1>3, <1>4, <1>5 DEF AddressesInv

\* The invariant is kept by every step before and after which one goroutine at
\* most ends sessions.
LEMMA AddressesStep ==
  ASSUME TypeInv, Completes, OneEnder, OneEnder', AddressesInv, [Next]_vars
  PROVE  AddressesInv'
BY NewIdsStep, MakersStep, EndersStep, StartUpStep, ClaimsStep DEF AddressesInv

\* Rows that hold their addresses do not share one.
LEMMA HoldersApart ==
  ASSUME AddressesInv
  PROVE  Serving => NoSharedAddress
BY DEF AddressesInv, Claims, Holds, NoSharedAddress

\* In every run in which no two goroutines end sessions at the same time, no
\* two sessions of the serving process have one address: neither creations
\* that overlap (Allocate), nor one that fails beside a deletion (InsertFails,
\* Release), nor a crash that leaves rows without their address behind
\* (TerminateAll at start-up) hands out an address twice.
THEOREM AddressesApart ==
  Completes => (Spec /\ []OneEnder => [](Serving => NoSharedAddress))
<1> SUFFICES ASSUME Completes
             PROVE  Spec /\ []OneEnder => [](Serving => NoSharedAddress)
  OBVIOUS
<1>1. Init => AddressesInv
  BY AddressesStart
<1>2. TypeInv /\ AddressesInv /\ OneEnder /\ OneEnder' /\ [Next]_vars => AddressesInv'
  BY AddressesStep
<1>3. AddressesInv => (Serving => NoSharedAddress)
  BY HoldersApart
<1> QED
  BY <1>1, <1>2, <1>3, TypeInvariant, PTL DEF Spec

\* What is true when jobs that end sessions wait for each other.
LEMMA TurnsInvariant ==
  ASSUME Completes, EndersTakeTurns
  PROVE  Spec => [](AddressesInv /\ Turns)
<1>1. Init => AddressesInv /\ Turns
  BY AddressesStart
<1>2. TypeInv /\ AddressesInv /\ Turns /\ [Next]_vars => AddressesInv' /\ Turns'
  <2> SUFFICES ASSUME TypeInv, AddressesInv, Turns, [Next]_vars
               PROVE  AddressesInv' /\ Turns'
    OBVIOUS
  <2>1. Turns'
    BY TurnsStep DEF AddressesInv
  <2> QED
    BY <2>1, AddressesStep DEF Turns
<1> QED
  BY <1>1, <1>2, TypeInvariant, PTL DEF Spec

\* The same without a hypothesis about the run: a lock around the jobs that
\* end sessions is enough to keep addresses apart while the process serves,
\* creations need none.
THEOREM LockedEndersApart ==
  Completes /\ EndersTakeTurns => (Spec => [](Serving => NoSharedAddress))
<1> SUFFICES ASSUME Completes, EndersTakeTurns
             PROVE  Spec => [](Serving => NoSharedAddress)
  OBVIOUS
<1>1. AddressesInv => (Serving => NoSharedAddress)
  BY HoldersApart
<1> QED
  BY <1>1, TurnsInvariant, PTL

\* When the process is not killed either, addresses are apart at any time.
THEOREM AlwaysApart ==
  Completes /\ EndersTakeTurns /\ "crash" \notin Ops => (Spec => []NoSharedAddress)
<1> SUFFICES ASSUME Completes, EndersTakeTurns, "crash" \notin Ops
             PROVE  Spec => []NoSharedAddress
  OBVIOUS
<1>1. Init => NoneLeft
  BY AddressesStart
<1>2. TypeInv /\ AddressesInv /\ NoneLeft /\ [Next]_vars => NoneLeft'
  BY NoneLeftStep DEF AddressesInv
<1>3. TypeInv /\ AddressesInv /\ NoneLeft => NoSharedAddress
  <2> SUFFICES ASSUME TypeInv, AddressesInv, NoneLeft, ~Serving PROVE NoSharedAddress
    BY HoldersApart
  <2>1. rows = {}
    BY DEF NoneLeft, Serving, TypeInv, DataOK
  <2> QED
    BY <2>1 DEF NoSharedAddress
<1> QED
  BY <1>1, <1>2, <1>3, TypeInvariant, TurnsInvariant, PTL DEF Spec

=============================================================================
