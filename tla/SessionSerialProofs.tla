------------------------ MODULE SessionSerialProofs ------------------------
(***************************************************************************)
(* What SessionManager promises when one job runs at a time, for any       *)
(* number of sessions, users, addresses, resources and goroutines.         *)
(***************************************************************************)
EXTENDS SessionManagerProofs, SequenceTheorems

USE DEF sessionVars, adminVars, runVars

\* One job at a time, the process is killed but never asked to stop, admins do
\* not edit bundles, and the calls without a recovery path succeed.
Serial ==
    /\ Exclusive = Jobs \ {"none"}
    /\ \A op \in {"sigterm", "grants"} : op \notin Ops
    /\ \A call \in {"deleteRow", "sync", "removeRules", "clearPeers"} : call \notin Faulty

UserJobs == {"user_terminated", "access_removed", "delete_user"}
Creating == {"alloc", "insert", "addPeer", "syncRead", "syncWrite", "rules", "finish"}
Deleting == {"removePeer", "removeRules", "release", "deleteRow"}

\* The one goroutine at work: main at start-up, another one from then on.
ControlInv ==
    /\ \A p, q \in Procs : go[p].pc # "idle" /\ go[q].pc # "idle" => p = q
    /\ \A p \in Procs : \/ go[p] = Idle
                        \/ /\ go[p].pc # "idle" /\ phase \in {"starting", "up"}
                           /\ p = Main <=> phase = "starting"
    /\ phase = "starting" => go[Main].pc # "idle"
    /\ phase # "stopping"

Work == IF \E p \in Procs : go[p].pc # "idle"
        THEN go[CHOOSE p \in Procs : go[p].pc # "idle"] ELSE Idle

\* Where it may be in which job.
JobInv ==
    /\ Work.pc = "idle" <=> Work.job = "none"
    /\ Work.job = "create" => Work.pc \in Creating
    /\ Work.job \in EndReasons \union {"rollback"} =>
          Work.pc \in Deleting \union {"select", "next", "syncRead", "syncWrite"}
    /\ Work.pc = "select" => Work.job \in UserJobs
    /\ Work.job = "shutdown" <=> phase = "starting"
    /\ phase = "down" => Work.pc = "idle"

\* A batch is of rows that are there, and nothing that it is to end is missed.
BatchInv ==
    /\ Work.todo \subseteq rows
    /\ Work.pc \in Deleting => Work.cur \in rows \ Work.todo
    /\ Work.job = "create" /\ Work.pc \notin {"alloc", "insert"} => Work.cur \in rows
    /\ Work.job \in {"create", "rollback"} => Work.todo = {}
    /\ \A s \in rows :
          \/ s \in Work.todo
          \/ Work.pc \in Deleting /\ s = Work.cur
          \/ ~ \/ Work.job = "shutdown"
               \/ /\ Work.job \in UserJobs /\ Work.pc # "select"
                  /\ owner[s] = Work.who

\* Nothing is there of a session that is not admitted yet, and before its row
\* a new session has its key and its address only.
NewInv ==
    /\ \A s \in Sessions : owner[s] = NoUser =>
          s \notin rows /\ s \notin psks /\ events[s] = <<>> /\ \A ip \in IPs : pool[ip] # s
    /\ Work.pc \in {"alloc", "insert"} => Work.cur \notin rows
    /\ Work.pc = "alloc" => \A ip \in IPs : pool[ip] # Work.cur
    /\ Work.pc = "insert" => pool[addr[Work.cur]] = Work.cur

\* While the process serves, a row holds its address until the address is released.
AddressInv ==
    phase = "up" => \A s \in rows :
        addr[s] \in IPs /\ (pool[addr[s]] = s \/ (Work.pc = "deleteRow" /\ Work.cur = s))

\* The keys are those of the rows; a sync puts on the interface what has both.
KeyInv ==
    /\ phase # "up" => psks = {}
    /\ phase = "up" =>
          /\ rows \subseteq thisRun
          /\ psks = IF Work.pc = "insert" THEN rows \union {Work.cur} ELSE rows
    /\ Work.pc = "insert" => Work.cur \in thisRun
    /\ Work.pc = "syncWrite" => Work.snap = rows \intersect psks
    /\ phase \in {"starting", "up"} =>
          \/ Work.pc \in Deleting \union {"addPeer", "syncRead", "syncWrite"}
          \/ peers = rows \intersect psks

\* Every rule is one of a row whose rules are not removed yet; while the
\* process serves, a row has its rules from their installation to their removal.
RuleInv ==
    /\ \A ip \in IPs, r \in Resources : <<ip, r>> \in rules =>
          \E s \in rows : /\ addr[s] = ip /\ r \in grants[owner[s]]
                          /\ Work.pc \in {"release", "deleteRow"} => Work.cur # s
    /\ phase = "up" => \A s \in rows : \A r \in grants[owner[s]] :
          \/ <<addr[s], r>> \in rules
          \/ /\ Work.cur = s
             /\ Work.pc \in Deleting \/ (Work.job = "create" /\ Work.pc # "finish")

\* A session is connected once, before it is disconnected.
EventInv ==
    /\ HistoryInOrder
    /\ \A s \in rows : events[s] \in {<<>>, <<"connected">>}
    /\ Work.job = "create" => events[Work.cur] = <<>>

MayUse(u) == u \in access \union admins /\ account[u] = "active"

\* Its owner may use the server, or lost it in a way that ends no session.
Entitled(s) == owner[s] \in access \union admins \/ s \in unended

MayStay(s) == Entitled(s) /\ account[owner[s]] = "active"

\* While the process serves, a session may stay or is of the user whose
\* sessions are being ended.
AccessInv ==
    /\ phase = "up" => \A s \in rows :
          MayStay(s) \/ (Work.job \in UserJobs /\ Work.who = owner[s])
    /\ Work.job = "create" => MayStay(Work.cur)

-----------------------------------------------------------------------------
(* The goroutine at work *)

\* When one goroutine at most is not idle, it is the one at work.
LEMMA WorkIs ==
  ASSUME ControlInv, NEW p \in Procs, go[p].pc # "idle"
  PROVE  Work = go[p] /\ phase \in {"starting", "up"} /\ (p = Main <=> phase = "starting")
BY DEF ControlInv, Work, Idle

\* The types of the goroutine at work.
LEMMA WorkTyped ==
  ASSUME TypeInv, ControlInv
  PROVE  /\ Work \in Worker
         /\ Work.job = "create" => /\ Work.cur \in Sessions /\ owner[Work.cur] \in Users
                                   /\ Work.pc # "alloc" => addr[Work.cur] \in IPs
<1>1. CASE \E p \in Procs : go[p].pc # "idle"
  BY <1>1, WorkIs DEF TypeInv, Owned
<1>2. CASE ~ \E p \in Procs : go[p].pc # "idle"
  BY <1>2, IdleWorker DEF Work, Idle
<1> QED
  BY <1>1, <1>2

AtRest(g) == g.pc = "idle" /\ g.job = "none" /\ g.todo = {}

Others(p) == \A q \in Procs \ {p} : go'[q] = go[q]

\* A step of the goroutine at work.
LEMMA WorkMoves ==
  ASSUME ControlInv, NEW p \in Procs, go[p].pc # "idle", Others(p),
         go'[p].pc = "idle" => go'[p] = Idle
  PROVE  Work = go[p] /\ Work' = go'[p]
<1>1. \A q \in Procs \ {p} : go'[q].pc = "idle"
  BY DEF ControlInv, Others, Idle
<1> QED
  BY <1>1, WorkIs DEF Work

\* A goroutine begins while no other is at work.
LEMMA WorkBegins ==
  ASSUME ControlInv, NEW p \in Procs, \A q \in Procs : go[q].pc = "idle", Others(p),
         go'[p].pc # "idle"
  PROVE  Work = Idle /\ Work' = go'[p]
BY DEF Work, Others

\* A job starts while no other runs and the process serves.
LEMMA NoneAtWork ==
  ASSUME Serial, TypeInv, ControlInv, JobInv, NEW r \in Procs,
         NEW j \in Jobs \ {"none"}, MayStart(r, j)
  PROVE  phase = "up" /\ \A q \in Procs : go[q].pc = "idle"
<1>1. phase = "up"
  BY DEF MayStart, Serving, ControlInv
<1>2. ASSUME NEW q \in Procs, go[q].pc # "idle" PROVE FALSE
  <2>1. Work = go[q] /\ go[q].job # "none"
    BY <1>2, WorkIs DEF JobInv
  <2>2. go[q].job \in Exclusive
    BY <2>1 DEF Serial, TypeInv, Worker, Goroutine
  <2> QED
    BY <2>2 DEF MayStart, Serial
<1> QED
  BY <1>1, <1>2

\* What does not concern the goroutines leaves the one at work as it is.
LEMMA WorkStays ==
  ASSUME Environment \/ UNCHANGED vars
  PROVE  Work' = Work /\ UNCHANGED <<go, phase>>
<1>1. UNCHANGED <<go, phase>>
  BY DEF Environment, Keepalive, GoStale, Age, AddServer, Enable, ServerRemoveUser,
     SetAdmin, SetGrants, vars
<1> QED
  BY <1>1 DEF Work

-----------------------------------------------------------------------------
(* Two entries in the history of a session *)

\* Appending to a sequence of one element.
LEMMA AppendToOne ==
  ASSUME NEW a, NEW b
  PROVE  Append(<<a>>, b) = <<a, b>>
<1> DEFINE S == {a, b}
<1>1. /\ a \in S /\ b \in S /\ <<a>> \in Seq(S) /\ <<a, b>> \in Seq(S)
      /\ Len(<<a>>) = 1 /\ Len(<<a, b>>) = 2
      /\ <<a>>[1] = a /\ <<a, b>>[1] = a /\ <<a, b>>[2] = b
  OBVIOUS
<1> HIDE DEF S
<1>2. /\ Append(<<a>>, b) \in Seq(S) /\ Len(Append(<<a>>, b)) = 2
      /\ Append(<<a>>, b)[1] = a /\ Append(<<a>>, b)[2] = b
  BY <1>1, AppendProperties
<1>3. \A i \in 1 .. 2 : Append(<<a>>, b)[i] = <<a, b>>[i]
  BY <1>1, <1>2
<1> QED
  BY <1>1, <1>2, <1>3, SeqEqual

-----------------------------------------------------------------------------
(* How a step moves the goroutine at work *)

\* The goroutine at work goes on to the next label of its job.
LEMMA GotoWork ==
  ASSUME TypeInv, ControlInv, NEW p \in Procs, go[p].pc # "idle", NEW l, l # "idle",
         Goto(p, l)
  PROVE  /\ Others(p) /\ go'[p].pc # "idle"
         /\ Work = go[p] /\ Work'.pc = l /\ Work'.job = Work.job
         /\ Work'.who = Work.who /\ Work'.cur = Work.cur
         /\ Work'.todo = Work.todo /\ Work'.snap = Work.snap
<1>1. /\ Others(p) /\ go'[p].pc = l /\ go'[p].job = go[p].job
      /\ go'[p].who = go[p].who /\ go'[p].cur = go[p].cur
      /\ go'[p].todo = go[p].todo /\ go'[p].snap = go[p].snap
  BY DEF Goto, Others, TypeInv, Worker, Goroutine
<1> QED
  BY <1>1, WorkMoves

\* The goroutine at work ends its job.
LEMMA DoneWork ==
  ASSUME TypeInv, ControlInv, NEW p \in Procs, go[p].pc # "idle", Done(p)
  PROVE  /\ Others(p) /\ go'[p] = Idle
         /\ Work = go[p] /\ AtRest(Work')
<1>1. Others(p) /\ go'[p] = Idle
  BY DEF Done, Others, TypeInv
<1>2. Work = go[p] /\ Work' = Idle
  BY <1>1, WorkMoves
<1> QED
  BY <1>1, <1>2 DEF AtRest, Idle

\* The goroutine at work gives up a creation and ends the session it made.
LEMMA RollbackWork ==
  ASSUME TypeInv, ControlInv, NEW p \in Procs, go[p].pc # "idle", Rollback(p)
  PROVE  /\ Others(p) /\ go'[p].pc # "idle"
         /\ Work = go[p] /\ Work'.pc = "removePeer" /\ Work'.job = "rollback"
         /\ Work'.who = Work.who /\ Work'.cur = Work.cur
         /\ Work'.todo = Work.todo /\ Work'.snap = Work.snap
<1>1. /\ Others(p) /\ go'[p].pc = "removePeer" /\ go'[p].job = "rollback"
      /\ go'[p].who = go[p].who /\ go'[p].cur = go[p].cur
      /\ go'[p].todo = go[p].todo /\ go'[p].snap = go[p].snap
  BY DEF Rollback, Others, TypeInv, Worker, Goroutine
<1> QED
  BY <1>1, WorkMoves

\* A goroutine takes up a job while none is at work.
LEMMA BeginWork ==
  ASSUME TypeInv, ControlInv, NEW p \in Procs, \A q \in Procs : go[q].pc = "idle",
         NEW j, NEW u, NEW batch, NEW l, l # "idle", Begin(p, j, u, batch, l)
  PROVE  /\ Others(p) /\ go'[p].pc # "idle"
         /\ AtRest(Work) /\ Work'.pc = l /\ Work'.job = j /\ Work'.who = u
         /\ Work'.cur = NoSession /\ Work'.todo = batch /\ Work'.snap = {}
<1>1. /\ Others(p) /\ go'[p].pc = l /\ go'[p].job = j
      /\ go'[p].who = u /\ go'[p].cur = NoSession /\ go'[p].todo = batch /\ go'[p].snap = {}
  BY DEF Begin, Idle, Others, TypeInv, Worker, Goroutine
<1> QED
  BY <1>1, WorkBegins DEF AtRest, Idle

\* A request of a user with access is admitted while nothing else is at work.
LEMMA AdmitWork ==
  ASSUME Serial, TypeInv, ControlInv, JobInv, NEW p \in Requests, NEW u \in Users,
         NEW s \in Sessions, Admit(p, u, s)
  PROVE  /\ phase = "up" /\ \A q \in Procs : go[q].pc = "idle"
         /\ AtRest(Work) /\ MayUse(u) /\ owner[s] = NoUser /\ owner' = [owner EXCEPT ![s] = u]
         /\ Others(p) /\ go'[p].pc # "idle"
         /\ Work'.pc = "alloc" /\ Work'.job = "create" /\ Work'.cur = s /\ Work'.todo = {}
         /\ UNCHANGED <<rows, addr, stale, aged, events, pool, adminVars, psks,
                        runVars, peers, rules>>
<1>1. p \in Procs
  BY DEF Procs
<1>2. phase = "up" /\ \A q \in Procs : go[q].pc = "idle"
  BY <1>1, NoneAtWork DEF Admit, Jobs
<1>3. /\ Others(p) /\ go'[p].pc = "alloc" /\ go'[p].job = "create"
      /\ go'[p].cur = s /\ go'[p].todo = {}
  BY <1>1 DEF Admit, Idle, Others, TypeInv, Worker, Goroutine
<1>4. Work = Idle /\ Work' = go'[p]
  BY <1>1, <1>2, <1>3, WorkBegins
<1>5. AtRest(Work)
  BY <1>4 DEF AtRest, Idle
<1> QED
  BY <1>2, <1>3, <1>4, <1>5 DEF Admit, MayUse

\* The rows of a user are read: the batch is all of them.
LEMMA SelectWork ==
  ASSUME TypeInv, ControlInv, NEW p \in Procs, SelectUserSessions(p)
  PROVE  /\ Others(p) /\ go'[p].pc # "idle" /\ go[p].pc # "idle"
         /\ Work = go[p] /\ Work.pc = "select" /\ Work'.pc = "next"
         /\ Work'.job = Work.job /\ Work'.who = Work.who
         /\ Work'.cur = Work.cur /\ Work'.snap = Work.snap
         /\ Work'.todo = {s \in rows : owner[s] = Work.who}
         /\ UNCHANGED <<sessionVars, pool, adminVars, psks, runVars, peers, rules>>
<1>1. /\ go[p].pc = "select" /\ Others(p) /\ go'[p].pc = "next"
      /\ go'[p].job = go[p].job /\ go'[p].who = go[p].who
      /\ go'[p].cur = go[p].cur /\ go'[p].snap = go[p].snap
      /\ go'[p].todo = {s \in rows : owner[s] = go[p].who}
  BY DEF SelectUserSessions, Others, TypeInv, Worker, Goroutine
<1> QED
  BY <1>1, WorkMoves, ZenonT(40) DEF SelectUserSessions

\* The next row of the batch is taken, or spared by the dead-peer watchdog.
LEMMA NextWork ==
  ASSUME TypeInv, ControlInv, NEW p \in Procs, NextSession(p)
  PROVE  /\ Others(p) /\ go'[p].pc # "idle" /\ go[p].pc # "idle"
         /\ Work = go[p] /\ Work.pc = "next" /\ Work'.job = Work.job
         /\ Work'.who = Work.who /\ Work'.snap = Work.snap
         /\ \E s \in Work.todo :
               /\ Work'.todo = Work.todo \ {s}
               /\ \/ Work'.pc = "removePeer" /\ Work'.cur = s
                  \/ /\ Work.job = "dead_peer" /\ Work'.pc = "next"
                     /\ Work'.cur = Work.cur
         /\ UNCHANGED <<sessionVars, pool, adminVars, psks, runVars, peers, rules>>
<1>1. /\ go[p].pc = "next" /\ Others(p) /\ go'[p].job = go[p].job
      /\ go'[p].who = go[p].who /\ go'[p].snap = go[p].snap
      /\ go'[p].pc # "idle"
      /\ \E s \in go[p].todo :
            /\ go'[p].todo = go[p].todo \ {s}
            /\ \/ go'[p].pc = "removePeer" /\ go'[p].cur = s
               \/ /\ go[p].job = "dead_peer" /\ go'[p].pc = "next"
                  /\ go'[p].cur = go[p].cur
  BY DEF NextSession, Others, TypeInv, Worker, Goroutine
<1>2. Work = go[p] /\ Work' = go'[p]
  BY <1>1, WorkMoves
<1> QED
  BY <1>1, <1>2 DEF NextSession

\* A sync reads the rows that have a key.
LEMMA SyncReadWork ==
  ASSUME Serial, TypeInv, ControlInv, NEW p \in Procs, SyncRead(p)
  PROVE  /\ Others(p) /\ go'[p].pc # "idle" /\ go[p].pc # "idle"
         /\ Work = go[p] /\ Work.pc = "syncRead" /\ Work'.pc = "syncWrite"
         /\ Work'.job = Work.job /\ Work'.who = Work.who
         /\ Work'.cur = Work.cur /\ Work'.todo = Work.todo
         /\ Work'.snap = rows \intersect psks
         /\ UNCHANGED <<sessionVars, pool, adminVars, psks, runVars, peers, rules>>
<1>1. /\ go[p].pc = "syncRead" /\ Others(p) /\ go'[p].pc = "syncWrite"
      /\ go'[p].job = go[p].job /\ go'[p].who = go[p].who
      /\ go'[p].cur = go[p].cur /\ go'[p].todo = go[p].todo
      /\ go'[p].snap = rows \intersect psks
  BY DEF Serial, SyncRead, Others, TypeInv, Worker, Goroutine
<1> QED
  BY <1>1, WorkMoves DEF SyncRead

\* A sync writes what it read.
LEMMA SyncWriteWork ==
  ASSUME Serial, TypeInv, ControlInv, NEW p \in Procs, SyncWrite(p)
  PROVE  /\ Others(p) /\ go'[p].pc # "idle" /\ go[p].pc # "idle"
         /\ Work = go[p] /\ Work.pc = "syncWrite"
         /\ Work'.pc = IF Work.job = "create" THEN "rules" ELSE "next"
         /\ Work'.job = Work.job /\ Work'.who = Work.who
         /\ Work'.cur = Work.cur /\ Work'.todo = Work.todo
         /\ peers' = Work.snap
         /\ UNCHANGED <<sessionVars, pool, adminVars, psks, runVars, rules>>
<1>1. IF go[p].job = "create" THEN Goto(p, "rules") ELSE Goto(p, "next")
  BY DEF SyncWrite, AfterSync
<1> QED
  BY <1>1, GotoWork DEF Serial, SyncWrite

\* No goroutine is at work while the process is down.
LEMMA DownIdle ==
  ASSUME ControlInv, phase = "down"
  PROVE  \A q \in Procs : go[q].pc = "idle"
BY DEF ControlInv, Idle

\* The process is not asked to stop, so it does not exit either.
LEMMA NeverStops ==
  ASSUME Serial, ControlInv
  PROVE  ~SigTerm /\ ~Exit
BY DEF Serial, ControlInv, SigTerm, Exit

-----------------------------------------------------------------------------
(* The steps of the serial system, apart from those of a job *)

\* What the steps of a job need to know of the goroutine at work.
WorkOK ==
    /\ Work.todo \subseteq Sessions
    /\ Work.pc \in Creating \union Deleting => Work.cur \in Sessions
    /\ Work.pc \in {"alloc", "insert", "addPeer", "rules", "finish"} => Work.job = "create"
    /\ Work.job = "create" =>
          /\ Work.cur \in Sessions /\ owner[Work.cur] \in Users
          /\ Work.pc \in Creating
          /\ Work.pc # "alloc" => addr[Work.cur] \in IPs
    /\ Work.job \in {"create", "rollback"} \union UserJobs /\ Work.pc # "idle" =>
          phase = "up"
    /\ phase = "starting" => Work.job = "shutdown"
    /\ phase = "down" => Work.pc = "idle" /\ Work.job = "none"
    /\ phase \in {"down", "starting", "up"}

\* It follows from the invariants of types, control and jobs.
LEMMA WorkFacts ==
  ASSUME TypeInv, ControlInv, JobInv
  PROVE  WorkOK
<1>1. Work \in Worker
  BY WorkTyped
<1>2. phase \in {"down", "starting", "up"}
  BY DEF TypeInv, DataOK, ControlInv
<1> USE DEF JobInv, Creating, Deleting, UserJobs, EndReasons, Jobs
<1>3. /\ Work.todo \subseteq Sessions
      /\ Work.pc \in Creating \union Deleting => Work.cur \in Sessions
  BY <1>1 DEF Worker, Goroutine, AtWork, Labels
<1>4. Work.pc \in {"alloc", "insert", "addPeer", "rules", "finish"} => Work.job = "create"
  BY <1>1 DEF Worker, Goroutine
<1>5. Work.job \in {"create", "rollback"} \union UserJobs /\ Work.pc # "idle" =>
         phase = "up"
  BY <1>2
<1> QED
  BY <1>2, <1>3, <1>4, <1>5, WorkTyped DEF WorkOK

\* A job that ends sessions begins.
StartJob ==
    \/ \E r \in Requests, s \in Sessions : Terminate(r, s)
    \/ \E r \in Requests, u \in Users :
          RemoveServer(r, u) \/ Disable(r, u) \/ DeleteUser(r, u)
    \/ \E x \in Expirers : ExpireStale(x)
    \/ \E y \in Reapers : CleanDeadPeers(y)

\* What can happen.
LEMMA SerialCases ==
  ASSUME Serial, ControlInv, [Next]_vars
  PROVE  \/ \E p \in Procs : CreateStep(p) \/ EndStep(p) \/ SyncStep(p)
         \/ \E r \in Requests, u \in Users, s \in Sessions : Admit(r, u, s)
         \/ StartJob \/ Environment \/ Boot \/ Serve \/ Crash \/ UNCHANGED vars
BY NeverStops DEF Next, Step, StartRequest, StartJob, Process

\* A job that ends sessions begins while nothing else is at work.
LEMMA StartWork ==
  ASSUME Serial, TypeInv, ControlInv, JobInv, StartJob
  PROVE  /\ phase = "up" /\ AtRest(Work)
         /\ Work'.todo \subseteq rows
         /\ \/ Work'.pc = "next" /\ Work'.job \in {"requested", "expired", "dead_peer"}
            \/ Work'.pc = "select" /\ Work'.job \in UserJobs
         /\ UNCHANGED <<sessionVars, pool, grants, psks, runVars, peers, rules>>
<1> USE DEF UserJobs
<1>1. \A j \in EndReasons : j \in Jobs \ {"none"}
  BY DEF Jobs, EndReasons
<1>2. ASSUME NEW r \in Procs, NEW j \in EndReasons, MayStart(r, j)
      PROVE  phase = "up" /\ AtRest(Work) /\ \A q \in Procs : go[q].pc = "idle"
  BY <1>1, <1>2, NoneAtWork DEF Work, AtRest, Idle
<1>3. ASSUME NEW r \in Requests, NEW s \in Sessions, Terminate(r, s)
      PROVE  /\ phase = "up" /\ AtRest(Work) /\ Work'.todo \subseteq rows
             /\ Work'.pc = "next" /\ Work'.job = "requested"
  BY <1>2, <1>3, BeginWork DEF Terminate, Procs, EndReasons
<1>4. ASSUME NEW r \in Requests, NEW u \in Users,
             RemoveServer(r, u) \/ Disable(r, u) \/ DeleteUser(r, u)
      PROVE  /\ phase = "up" /\ AtRest(Work) /\ Work'.todo = {} /\ Work'.who = u
             /\ Work'.pc = "select" /\ Work'.job \in UserJobs
  BY <1>2, <1>4, BeginWork DEF RemoveServer, Disable, DeleteUser, Procs, EndReasons
<1>5. ASSUME NEW x \in Expirers, ExpireStale(x)
      PROVE  /\ phase = "up" /\ AtRest(Work) /\ Work'.todo \subseteq rows
             /\ Work'.pc = "next" /\ Work'.job = "expired"
  BY <1>2, <1>5, BeginWork DEF ExpireStale, Overdue, Procs, EndReasons
<1>6. ASSUME NEW y \in Reapers, CleanDeadPeers(y)
      PROVE  /\ phase = "up" /\ AtRest(Work) /\ Work'.todo \subseteq rows
             /\ Work'.pc = "next" /\ Work'.job = "dead_peer"
  BY <1>2, <1>6, BeginWork DEF CleanDeadPeers, Procs, EndReasons
<1>7. UNCHANGED <<sessionVars, pool, grants, psks, runVars, peers, rules>>
  BY DEF StartJob, Terminate, RemoveServer, Disable, DeleteUser, ExpireStale,
     CleanDeadPeers
<1> QED
  BY <1>3, <1>4, <1>5, <1>6, <1>7 DEF StartJob

\* Whose sessions a user's job ends, and what it does to that user first.
LEMMA StartUserWork ==
  ASSUME Serial, TypeInv, ControlInv, JobInv, NEW r \in Requests, NEW u \in Users,
         RemoveServer(r, u) \/ Disable(r, u) \/ DeleteUser(r, u)
  PROVE  /\ Work'.job \in UserJobs /\ Work'.who = u
         /\ access \ {u} \subseteq access' /\ UNCHANGED <<admins, unended>>
         /\ \A v \in Users \ {u} : account'[v] = account[v]
<1>1. r \in Procs /\ \A j \in UserJobs : j \in Jobs \ {"none"}
  BY DEF Procs, Jobs, EndReasons, UserJobs
<1>2. \A q \in Procs : go[q].pc = "idle"
  BY <1>1, NoneAtWork DEF RemoveServer, Disable, DeleteUser, UserJobs
<1>3. Work'.job \in UserJobs /\ Work'.who = u
  BY <1>1, <1>2, BeginWork DEF RemoveServer, Disable, DeleteUser, UserJobs
<1> QED
  BY <1>3 DEF RemoveServer, Disable, DeleteUser, TypeInv, DataOK

\* What clients, time and admins do beside the jobs takes nobody's access
\* without a note of the sessions that this leaves.
LEMMA EnvironmentWork ==
  ASSUME Serial, TypeInv, Environment
  PROVE  /\ Work' = Work
         /\ UNCHANGED <<rows, owner, addr, events, pool, grants, psks, runVars, peers, rules>>
         /\ \A s \in Sessions : Entitled(s) => Entitled(s)'
         /\ \A u \in Users : account[u] = "active" => account'[u] = "active"
<1>1. Work' = Work
  BY WorkStays
<1>2. /\ UNCHANGED <<rows, owner, addr, events, pool, grants, psks, runVars, peers, rules>>
      /\ \A u \in Users : account[u] = "active" => account'[u] = "active"
  BY DEF Environment, Keepalive, GoStale, Age, AddServer, Enable, ServerRemoveUser,
     SetAdmin, SetGrants, Serial, TypeInv, DataOK
<1>3. ASSUME NEW s \in Sessions, Entitled(s) PROVE Entitled(s)'
  BY <1>3 DEF Entitled, Environment, Keepalive, GoStale, Age, AddServer, Enable,
     ServerRemoveUser, SetAdmin, SessionsOf, SetGrants
<1> QED
  BY <1>1, <1>2, <1>3

\* Start-up: main ends every session, then the process serves.
LEMMA BootWork ==
  ASSUME Serial, TypeInv, ControlInv, Boot
  PROVE  /\ phase = "down" /\ phase' = "starting" /\ AtRest(Work)
         /\ Work'.pc = "next" /\ Work'.job = "shutdown" /\ Work'.todo = rows
         /\ peers' = {}
         /\ UNCHANGED <<sessionVars, pool, adminVars, psks, thisRun, rules>>
BY DownIdle, BeginWork DEF Serial, Boot, ClearPeers, Procs

\* main has ended every session and serves.
LEMMA ServeWork ==
  ASSUME TypeInv, ControlInv, Serve
  PROVE  /\ phase = "starting" /\ phase' = "up"
         /\ Work.pc = "next" /\ Work.todo = {} /\ AtRest(Work')
         /\ UNCHANGED <<sessionVars, pool, adminVars, psks, thisRun, peers, rules>>
BY DoneWork DEF Serve, Procs

\* A crash takes the keys and the goroutines, and perhaps rules.
LEMMA CrashWork ==
  ASSUME Crash
  PROVE  /\ phase' = "down" /\ AtRest(Work') /\ psks' = {} /\ rules' \subseteq rules
         /\ UNCHANGED <<sessionVars, pool, adminVars, peers>>
<1>1. go' = [p \in Procs |-> Idle]
  BY DEF Crash, Vanish
<1>2. AtRest(Work')
  BY <1>1 DEF Work, Idle, AtRest
<1> QED
  BY <1>2 DEF Crash, Vanish

-----------------------------------------------------------------------------
(* The invariants, step by step *)

\* The goroutine at work goes on, or is done while the process serves.
LEMMA ControlGoesOn ==
  ASSUME ControlInv, NEW p \in Procs, go[p].pc # "idle", Others(p), UNCHANGED phase,
         \/ go'[p].pc # "idle"
         \/ go'[p] = Idle /\ phase = "up"
  PROVE  ControlInv'
<1>1. \A q \in Procs \ {p} : go'[q] = Idle
  BY DEF ControlInv, Others
<1>2. phase \in {"starting", "up"} /\ (p = Main <=> phase = "starting")
  BY WorkIs
<1>3. phase = "starting" => p = Main /\ go'[p].pc # "idle"
  BY <1>2, <1>1 DEF Idle
<1>4. \A q \in Procs : \/ go'[q] = Idle
                       \/ /\ q = p /\ go'[q].pc # "idle"
                          /\ q = Main <=> phase = "starting"
  BY <1>1, <1>2
<1>5. \A q \in Procs : go'[q].pc # "idle" => q = p
  BY <1>1 DEF Idle
<1> QED
  BY <1>2, <1>3, <1>4, <1>5 DEF ControlInv

\* A goroutine begins while no other is at work.
LEMMA ControlBegins ==
  ASSUME ControlInv, NEW p \in Procs, \A q \in Procs : go[q].pc = "idle", Others(p),
         go'[p].pc # "idle",
         \/ p # Main /\ phase = "up" /\ phase' = "up"
         \/ p = Main /\ phase' = "starting"
  PROVE  ControlInv'
BY DEF ControlInv, Others, Idle, Procs

\* One goroutine is at work at most, and only main until the process serves.
LEMMA ControlStep ==
  ASSUME Serial, TypeInv, ControlInv, JobInv, [Next]_vars
  PROVE  ControlInv'
<1> USE DEF AtRest, Labels, Procs, Jobs, EndReasons, Deleting, UserJobs, Idle,
        JobInv, Worker, Goroutine
<1>0. /\ DataOK /\ Work \in Worker
      /\ Work.job = "create" => /\ Work.cur \in Sessions /\ owner[Work.cur] \in Users
                                /\ Work.pc # "alloc" => addr[Work.cur] \in IPs
  BY WorkTyped DEF TypeInv
<1>1. ASSUME NEW p \in Procs, Allocate(p) PROVE ControlInv'
  BY <1>1, <1>0, GotoWork, WorkIs, ControlGoesOn DEF Allocate
<1>2. ASSUME NEW p \in Procs, AllocateFails(p) PROVE ControlInv'
  <2>1. Work = go[p] /\ phase = "up"
    BY <1>2, <1>0, WorkIs DEF AllocateFails
  <2> QED
    BY <1>2, <2>1, DoneWork, ControlGoesOn DEF AllocateFails
<1>3. ASSUME NEW p \in Procs, InsertRow(p) PROVE ControlInv'
  BY <1>3, <1>0, GotoWork, WorkIs, ControlGoesOn DEF InsertRow
<1>4. ASSUME NEW p \in Procs, InsertFails(p) PROVE ControlInv'
  <2>1. Work = go[p] /\ phase = "up"
    BY <1>4, <1>0, WorkIs DEF InsertFails
  <2> QED
    BY <1>4, <2>1, DoneWork, ControlGoesOn DEF InsertFails
<1>5. ASSUME NEW p \in Procs, AddPeer(p) PROVE ControlInv'
  BY <1>5, <1>0, GotoWork, RollbackWork, WorkIs, ControlGoesOn DEF AddPeer
<1>6. ASSUME NEW p \in Procs, InstallRules(p) PROVE ControlInv'
  BY <1>6, <1>0, GotoWork, RollbackWork, WorkIs, ControlGoesOn DEF InstallRules
<1>7. ASSUME NEW p \in Procs, FinishCreate(p) PROVE ControlInv'
  <2>1. Work = go[p] /\ phase = "up"
    BY <1>7, <1>0, WorkIs DEF FinishCreate
  <2> QED
    BY <1>7, <2>1, DoneWork, RollbackWork, ControlGoesOn DEF FinishCreate
<1>8. ASSUME NEW p \in Procs, SelectUserSessions(p) PROVE ControlInv'
  BY <1>8, <1>0, SelectWork, WorkIs, ControlGoesOn
<1>9. ASSUME NEW p \in Procs, NextSession(p) PROVE ControlInv'
  BY <1>9, <1>0, NextWork, WorkIs, ControlGoesOn
<1>10. ASSUME NEW p \in Procs, EndOfBatch(p) PROVE ControlInv'
  BY <1>10, <1>0, DoneWork, WorkIs, WorkIs, ControlGoesOn DEF EndOfBatch
<1>11. ASSUME NEW p \in Procs, Purge(p) PROVE ControlInv'
  BY <1>11, <1>0, DoneWork, WorkIs, ControlGoesOn DEF Purge
<1>12. ASSUME NEW p \in Procs, RemovePeer(p) PROVE ControlInv'
  BY <1>12, <1>0, GotoWork, WorkIs, ControlGoesOn DEF RemovePeer
<1>13. ASSUME NEW p \in Procs, RemoveRules(p) PROVE ControlInv'
  BY <1>13, <1>0, GotoWork, WorkIs, ControlGoesOn DEF RemoveRules
<1>14. ASSUME NEW p \in Procs, Release(p) PROVE ControlInv'
  BY <1>14, <1>0, GotoWork, WorkIs, ControlGoesOn DEF Release, ReleaseIP
<1>15. ASSUME NEW p \in Procs, DeleteRow(p) PROVE ControlInv'
  BY <1>15, <1>0, GotoWork, WorkIs, ControlGoesOn DEF DeleteRow, DropPSK, Log
<1>16. ASSUME NEW p \in Procs, SyncRead(p) PROVE ControlInv'
  BY <1>16, <1>0, SyncReadWork, WorkIs, ControlGoesOn
<1>17. ASSUME NEW p \in Procs, SyncWrite(p) PROVE ControlInv'
  BY <1>17, <1>0, SyncWriteWork, WorkIs, ControlGoesOn
<1>18. ASSUME NEW r \in Requests, NEW u \in Users, NEW s \in Sessions, Admit(r, u, s)
       PROVE ControlInv'
  BY <1>18, <1>0, AdmitWork, ControlBegins, ConstantsOK
<1>19. ASSUME NEW r \in Requests, NEW s \in Sessions, Terminate(r, s) PROVE ControlInv'
  BY <1>19, <1>0, NoneAtWork, BeginWork, ControlBegins, ConstantsOK DEF Terminate
<1>20. ASSUME NEW r \in Requests, NEW u \in Users, RemoveServer(r, u) PROVE ControlInv'
  BY <1>20, <1>0, NoneAtWork, BeginWork, ControlBegins, ConstantsOK DEF RemoveServer
<1>21. ASSUME NEW r \in Requests, NEW u \in Users, Disable(r, u) PROVE ControlInv'
  BY <1>21, <1>0, NoneAtWork, BeginWork, ControlBegins, ConstantsOK DEF Disable
<1>22. ASSUME NEW r \in Requests, NEW u \in Users, DeleteUser(r, u) PROVE ControlInv'
  BY <1>22, <1>0, NoneAtWork, BeginWork, ControlBegins, ConstantsOK DEF DeleteUser
<1>23. ASSUME NEW x \in Expirers, ExpireStale(x) PROVE ControlInv'
  BY <1>23, <1>0, NoneAtWork, BeginWork, ControlBegins, ConstantsOK DEF ExpireStale,
     Overdue
<1>24. ASSUME NEW y \in Reapers, CleanDeadPeers(y) PROVE ControlInv'
  BY <1>24, <1>0, NoneAtWork, BeginWork, ControlBegins, ConstantsOK DEF CleanDeadPeers
<1>25. ASSUME Environment PROVE ControlInv'
  BY <1>25, WorkStays DEF ControlInv
<1>26. ASSUME Boot PROVE ControlInv'
  BY <1>26, <1>0, BeginWork, DownIdle, ControlBegins, ConstantsOK DEF Boot, ClearPeers
<1>27. ASSUME Serve PROVE ControlInv'
  <2>1. Others(Main) /\ go'[Main] = Idle
    BY <1>27, DoneWork DEF Serve
  <2>2. \A q \in Procs \ {Main} : go[q] = Idle
    BY <1>27 DEF Serve, ControlInv
  <2> QED
    BY <1>27, <2>1, <2>2 DEF Serve, ControlInv, Others
<1>28. ASSUME SigTerm PROVE ControlInv'
  BY <1>28, <1>0, NeverStops
<1>29. ASSUME Exit PROVE ControlInv'
  BY <1>29, <1>0, NeverStops
<1>30. ASSUME Crash PROVE ControlInv'
  BY <1>30, <1>0 DEF Crash, Vanish, Idle, Work, ControlInv
<1>31. CASE UNCHANGED vars
  BY <1>31, WorkStays DEF vars, ControlInv
<1> QED
  BY <1>1, <1>2, <1>3, <1>4, <1>5, <1>6, <1>7, <1>8, <1>9, <1>10, <1>11, <1>12,
     <1>13, <1>14, <1>15, <1>16, <1>17, <1>18, <1>19, <1>20, <1>21, <1>22, <1>23,
     <1>24, <1>25, <1>26, <1>27, <1>28, <1>29, <1>30, <1>31 DEF Next, Step,
     CreateStep, EndStep, SyncStep, StartRequest, Process

\* The goroutine at work is at a point of its job.
LEMMA JobStep ==
  ASSUME Serial, TypeInv, ControlInv, JobInv, [Next]_vars
  PROVE  JobInv'
<1> USE DEF JobInv, Serial, UserJobs, Creating, AtRest, Deleting, Labels, Worker,
        Goroutine, EndReasons, Jobs, Procs, Idle
<1>0. /\ DataOK /\ Work \in Worker
      /\ Work.job = "create" => /\ Work.cur \in Sessions /\ owner[Work.cur] \in Users
                                /\ Work.pc # "alloc" => addr[Work.cur] \in IPs
  BY WorkTyped DEF TypeInv
<1>1. ASSUME NEW p \in Procs, Allocate(p) PROVE JobInv'
  BY <1>1, <1>0, GotoWork DEF Allocate
<1>2. ASSUME NEW p \in Procs, AllocateFails(p) PROVE JobInv'
  BY <1>2, <1>0, DoneWork DEF AllocateFails
<1>3. ASSUME NEW p \in Procs, InsertRow(p) PROVE JobInv'
  BY <1>3, <1>0, GotoWork DEF InsertRow
<1>4. ASSUME NEW p \in Procs, InsertFails(p) PROVE JobInv'
  BY <1>4, <1>0, DoneWork DEF InsertFails, DropPSK, ReleaseIP
<1>5. ASSUME NEW p \in Procs, AddPeer(p) PROVE JobInv'
  BY <1>5, <1>0, GotoWork, RollbackWork DEF AddPeer
<1>6. ASSUME NEW p \in Procs, InstallRules(p) PROVE JobInv'
  BY <1>6, <1>0, GotoWork, RollbackWork DEF InstallRules
<1>7. ASSUME NEW p \in Procs, FinishCreate(p) PROVE JobInv'
  BY <1>7, <1>0, DoneWork, RollbackWork DEF FinishCreate, Log
<1>8. ASSUME NEW p \in Procs, SelectUserSessions(p) PROVE JobInv'
  BY <1>8, <1>0, SelectWork
<1>9. ASSUME NEW p \in Procs, NextSession(p) PROVE JobInv'
  BY <1>9, <1>0, NextWork
<1>10. ASSUME NEW p \in Procs, EndOfBatch(p) PROVE JobInv'
  BY <1>10, <1>0, DoneWork, WorkIs DEF EndOfBatch
<1>11. ASSUME NEW p \in Procs, Purge(p) PROVE JobInv'
  BY <1>11, <1>0, DoneWork DEF Purge
<1>12. ASSUME NEW p \in Procs, RemovePeer(p) PROVE JobInv'
  BY <1>12, <1>0, GotoWork DEF RemovePeer
<1>13. ASSUME NEW p \in Procs, RemoveRules(p) PROVE JobInv'
  BY <1>13, <1>0, GotoWork DEF RemoveRules
<1>14. ASSUME NEW p \in Procs, Release(p) PROVE JobInv'
  BY <1>14, <1>0, GotoWork DEF Release, ReleaseIP
<1>15. ASSUME NEW p \in Procs, DeleteRow(p) PROVE JobInv'
  BY <1>15, <1>0, GotoWork DEF DeleteRow, DropPSK, Log
<1>16. ASSUME NEW p \in Procs, SyncRead(p) PROVE JobInv'
  BY <1>16, <1>0, SyncReadWork
<1>17. ASSUME NEW p \in Procs, SyncWrite(p) PROVE JobInv'
  BY <1>17, <1>0, SyncWriteWork
<1>18. ASSUME NEW r \in Requests, NEW u \in Users, NEW s \in Sessions, Admit(r, u, s)
       PROVE JobInv'
  BY <1>18, <1>0, AdmitWork
<1>19. ASSUME NEW r \in Requests, NEW s \in Sessions, Terminate(r, s) PROVE JobInv'
  BY <1>19, <1>0, NoneAtWork, BeginWork DEF Terminate
<1>20. ASSUME NEW r \in Requests, NEW u \in Users, RemoveServer(r, u) PROVE JobInv'
  BY <1>20, <1>0, NoneAtWork, BeginWork DEF RemoveServer
<1>21. ASSUME NEW r \in Requests, NEW u \in Users, Disable(r, u) PROVE JobInv'
  BY <1>21, <1>0, NoneAtWork, BeginWork DEF Disable
<1>22. ASSUME NEW r \in Requests, NEW u \in Users, DeleteUser(r, u) PROVE JobInv'
  BY <1>22, <1>0, NoneAtWork, BeginWork DEF DeleteUser
<1>23. ASSUME NEW x \in Expirers, ExpireStale(x) PROVE JobInv'
  BY <1>23, <1>0, NoneAtWork, BeginWork DEF ExpireStale, Overdue
<1>24. ASSUME NEW y \in Reapers, CleanDeadPeers(y) PROVE JobInv'
  BY <1>24, <1>0, NoneAtWork, BeginWork DEF CleanDeadPeers
<1>25. ASSUME Environment PROVE JobInv'
  BY <1>25, <1>0, WorkStays DEF Environment, Keepalive, GoStale, Age, AddServer,
     Enable, ServerRemoveUser, SetAdmin, SetGrants
<1>26. ASSUME Boot PROVE JobInv'
  BY <1>26, <1>0, BeginWork, DownIdle DEF Boot, ClearPeers
<1>27. ASSUME Serve PROVE JobInv'
  BY <1>27, <1>0, DoneWork DEF Serve
<1>28. ASSUME SigTerm PROVE JobInv'
  BY <1>28, <1>0, NeverStops
<1>29. ASSUME Exit PROVE JobInv'
  BY <1>29, <1>0, NeverStops
<1>30. ASSUME Crash PROVE JobInv'
  BY <1>30, <1>0 DEF Crash, Vanish, Idle, Work
<1>31. CASE UNCHANGED vars
  BY <1>31, WorkStays DEF vars
<1> QED
  BY <1>1, <1>2, <1>3, <1>4, <1>5, <1>6, <1>7, <1>8, <1>9, <1>10, <1>11, <1>12,
     <1>13, <1>14, <1>15, <1>16, <1>17, <1>18, <1>19, <1>20, <1>21, <1>22, <1>23,
     <1>24, <1>25, <1>26, <1>27, <1>28, <1>29, <1>30, <1>31 DEF Next, Step,
     CreateStep, EndStep, SyncStep, StartRequest, Process

\* A batch loses no session and keeps none whose row is gone.
LEMMA BatchStep ==
  ASSUME Serial, TypeInv, ControlInv, JobInv, BatchInv, [Next]_vars
  PROVE  BatchInv'
<1> USE DEF JobInv, BatchInv, Serial, UserJobs, Creating, AtRest, Deleting, Labels,
        Worker, Goroutine, EndReasons, Jobs, Procs, Idle
<1>0. /\ DataOK /\ Work \in Worker
      /\ Work.job = "create" => /\ Work.cur \in Sessions /\ owner[Work.cur] \in Users
                                /\ Work.pc # "alloc" => addr[Work.cur] \in IPs
  BY WorkTyped DEF TypeInv
<1>1. ASSUME NEW p \in Procs, Allocate(p) PROVE BatchInv'
  BY <1>1, <1>0, GotoWork DEF Allocate
<1>2. ASSUME NEW p \in Procs, AllocateFails(p) PROVE BatchInv'
  BY <1>2, <1>0, DoneWork DEF AllocateFails
<1>3. ASSUME NEW p \in Procs, InsertRow(p) PROVE BatchInv'
  BY <1>3, <1>0, GotoWork DEF InsertRow
<1>4. ASSUME NEW p \in Procs, InsertFails(p) PROVE BatchInv'
  BY <1>4, <1>0, DoneWork DEF InsertFails, DropPSK, ReleaseIP
<1>5. ASSUME NEW p \in Procs, AddPeer(p) PROVE BatchInv'
  BY <1>5, <1>0, GotoWork, RollbackWork DEF AddPeer
<1>6. ASSUME NEW p \in Procs, InstallRules(p) PROVE BatchInv'
  BY <1>6, <1>0, GotoWork, RollbackWork DEF InstallRules
<1>7. ASSUME NEW p \in Procs, FinishCreate(p) PROVE BatchInv'
  BY <1>7, <1>0, DoneWork, RollbackWork DEF FinishCreate, Log
<1>8. ASSUME NEW p \in Procs, SelectUserSessions(p) PROVE BatchInv'
  BY <1>8, <1>0, SelectWork
<1>9. ASSUME NEW p \in Procs, NextSession(p) PROVE BatchInv'
  BY <1>9, <1>0, NextWork
<1>10. ASSUME NEW p \in Procs, EndOfBatch(p) PROVE BatchInv'
  BY <1>10, <1>0, DoneWork, WorkIs DEF EndOfBatch
<1>11. ASSUME NEW p \in Procs, Purge(p) PROVE BatchInv'
  BY <1>11, <1>0, DoneWork DEF Purge
<1>12. ASSUME NEW p \in Procs, RemovePeer(p) PROVE BatchInv'
  BY <1>12, <1>0, GotoWork DEF RemovePeer
<1>13. ASSUME NEW p \in Procs, RemoveRules(p) PROVE BatchInv'
  BY <1>13, <1>0, GotoWork DEF RemoveRules
<1>14. ASSUME NEW p \in Procs, Release(p) PROVE BatchInv'
  BY <1>14, <1>0, GotoWork DEF Release, ReleaseIP
<1>15. ASSUME NEW p \in Procs, DeleteRow(p) PROVE BatchInv'
  BY <1>15, <1>0, GotoWork DEF DeleteRow, DropPSK, Log
<1>16. ASSUME NEW p \in Procs, SyncRead(p) PROVE BatchInv'
  BY <1>16, <1>0, SyncReadWork
<1>17. ASSUME NEW p \in Procs, SyncWrite(p) PROVE BatchInv'
  BY <1>17, <1>0, SyncWriteWork
<1>18. ASSUME NEW r \in Requests, NEW u \in Users, NEW s \in Sessions, Admit(r, u, s)
       PROVE BatchInv'
  BY <1>18, <1>0, AdmitWork
<1>19. ASSUME NEW r \in Requests, NEW s \in Sessions, Terminate(r, s) PROVE BatchInv'
  BY <1>19, <1>0, NoneAtWork, BeginWork DEF Terminate
<1>20. ASSUME NEW r \in Requests, NEW u \in Users, RemoveServer(r, u) PROVE BatchInv'
  BY <1>20, <1>0, NoneAtWork, BeginWork DEF RemoveServer
<1>21. ASSUME NEW r \in Requests, NEW u \in Users, Disable(r, u) PROVE BatchInv'
  BY <1>21, <1>0, NoneAtWork, BeginWork DEF Disable
<1>22. ASSUME NEW r \in Requests, NEW u \in Users, DeleteUser(r, u) PROVE BatchInv'
  BY <1>22, <1>0, NoneAtWork, BeginWork DEF DeleteUser
<1>23. ASSUME NEW x \in Expirers, ExpireStale(x) PROVE BatchInv'
  BY <1>23, <1>0, NoneAtWork, BeginWork DEF ExpireStale, Overdue
<1>24. ASSUME NEW y \in Reapers, CleanDeadPeers(y) PROVE BatchInv'
  BY <1>24, <1>0, NoneAtWork, BeginWork DEF CleanDeadPeers
<1>25. ASSUME Environment PROVE BatchInv'
  BY <1>25, <1>0, WorkStays DEF Environment, Keepalive, GoStale, Age, AddServer,
     Enable, ServerRemoveUser, SetAdmin, SetGrants
<1>26. ASSUME Boot PROVE BatchInv'
  BY <1>26, <1>0, BeginWork, DownIdle DEF Boot, ClearPeers
<1>27. ASSUME Serve PROVE BatchInv'
  BY <1>27, <1>0, DoneWork DEF Serve
<1>28. ASSUME SigTerm PROVE BatchInv'
  BY <1>28, <1>0, NeverStops
<1>29. ASSUME Exit PROVE BatchInv'
  BY <1>29, <1>0, NeverStops
<1>30. ASSUME Crash PROVE BatchInv'
  BY <1>30, <1>0 DEF Crash, Vanish, Idle, Work
<1>31. CASE UNCHANGED vars
  BY <1>31, WorkStays DEF vars
<1> QED
  BY <1>1, <1>2, <1>3, <1>4, <1>5, <1>6, <1>7, <1>8, <1>9, <1>10, <1>11, <1>12,
     <1>13, <1>14, <1>15, <1>16, <1>17, <1>18, <1>19, <1>20, <1>21, <1>22, <1>23,
     <1>24, <1>25, <1>26, <1>27, <1>28, <1>29, <1>30, <1>31 DEF Next, Step,
     CreateStep, EndStep, SyncStep, StartRequest, Process

\* A session id is unknown until it is admitted, and stays new until its row.
LEMMA NewStep ==
  ASSUME Serial, TypeInv, ControlInv, JobInv, BatchInv, NewInv, [Next]_vars
  PROVE  NewInv'
<1> USE DEF BatchInv, NewInv, Creating, Deleting, UserJobs, AtRest, WorkOK
<1>0. /\ WorkOK
      /\ rows \subseteq Sessions
      /\ pool \in [IPs -> Sessions \union {NoSession}]
      /\ addr \in [Sessions -> IPs \union {NoIP}]
      /\ owner \in [Sessions -> Users \union {NoUser}]
      /\ events \in [Sessions -> Seq({"connected", "disconnected"})]
  BY WorkFacts DEF TypeInv, DataOK
<1>1. ASSUME NEW p \in Procs, Allocate(p) PROVE NewInv'
  <2>1. /\ Work.pc = "alloc" /\ Work'.pc = "insert" /\ Work'.job = Work.job
        /\ Work'.cur = Work.cur /\ go[p] = Work
    BY <1>1, GotoWork DEF Allocate
  <2>2. PICK ip \in IPs : /\ pool' = [pool EXCEPT ![ip] = Work.cur]
                          /\ addr' = [addr EXCEPT ![Work.cur] = ip]
    BY <1>1, <2>1 DEF Allocate, FreeIPs
  <2>3. pool'[addr'[Work.cur]] = Work.cur
    BY <1>0, <2>1, <2>2
  <2>4. \A s \in Sessions : owner[s] = NoUser => s # Work.cur /\ \A i \in IPs : pool'[i] # s
    BY <1>0, <2>1, <2>2, ConstantsOK
  <2> QED
    BY <1>1, <1>0, <2>1, <2>3, <2>4 DEF Allocate
<1>2. ASSUME NEW p \in Procs, AllocateFails(p) PROVE NewInv'
  BY <1>2, <1>0, DoneWork, ConstantsOK DEF AllocateFails
<1>3. ASSUME NEW p \in Procs, InsertRow(p) PROVE NewInv'
  <2>1. /\ Work.pc = "insert" /\ Work'.pc = "addPeer" /\ Work'.job = Work.job
        /\ Work'.cur = Work.cur /\ Work'.todo = Work.todo /\ go[p] = Work
    BY <1>3, GotoWork DEF InsertRow
  <2> QED
    BY <1>3, <1>0, <2>1, ConstantsOK DEF InsertRow
<1>4. ASSUME NEW p \in Procs, InsertFails(p) PROVE NewInv'
  BY <1>4, <1>0, DoneWork, ConstantsOK DEF InsertFails, DropPSK, ReleaseIP
<1>5. ASSUME NEW p \in Procs, AddPeer(p) PROVE NewInv'
  BY <1>5, <1>0, GotoWork, RollbackWork, ConstantsOK DEF AddPeer
<1>6. ASSUME NEW p \in Procs, InstallRules(p) PROVE NewInv'
  BY <1>6, <1>0, GotoWork, RollbackWork, ConstantsOK DEF InstallRules
<1>7. ASSUME NEW p \in Procs, FinishCreate(p) PROVE NewInv'
  <2>1. go[p] = Work /\ Work.pc = "finish" /\ Work.job = "create"
    BY <1>7, <1>0, WorkIs DEF FinishCreate
  <2>2. CASE Log(Work.cur, "connected") /\ Done(p)
    <3>1. AtRest(Work')
      BY <1>7, <2>2, DoneWork DEF FinishCreate
    <3> QED
      BY <1>7, <1>0, <2>1, <2>2, <3>1, ConstantsOK DEF FinishCreate, Log
  <2>3. CASE Rollback(p) /\ UNCHANGED events
    <3>1. Work'.pc = "removePeer" /\ Work'.job = "rollback" /\ Work'.cur = Work.cur
          /\ Work'.todo = Work.todo
      BY <1>7, <2>3, RollbackWork DEF FinishCreate
    <3> QED
      BY <1>7, <1>0, <2>1, <2>3, <3>1 DEF FinishCreate
  <2> QED
    BY <1>7, <2>1, <2>2, <2>3 DEF FinishCreate
<1>8. ASSUME NEW p \in Procs, SelectUserSessions(p) PROVE NewInv'
  BY <1>8, <1>0, SelectWork, ConstantsOK
<1>9. ASSUME NEW p \in Procs, NextSession(p) PROVE NewInv'
  BY <1>9, <1>0, NextWork, ConstantsOK
<1>10. ASSUME NEW p \in Procs, EndOfBatch(p) PROVE NewInv'
  BY <1>10, <1>0, DoneWork, WorkIs, ConstantsOK DEF EndOfBatch
<1>11. ASSUME NEW p \in Procs, Purge(p) PROVE NewInv'
  BY <1>11, <1>0, DoneWork, ConstantsOK DEF Purge
<1>12. ASSUME NEW p \in Procs, RemovePeer(p) PROVE NewInv'
  <2>1. /\ Work.pc = "removePeer" /\ Work'.pc = "removeRules" /\ Work'.job = Work.job
        /\ Work'.cur = Work.cur /\ Work'.todo = Work.todo /\ go[p] = Work
    BY <1>12, GotoWork DEF RemovePeer
  <2> QED
    BY <1>12, <1>0, <2>1, ConstantsOK DEF RemovePeer
<1>13. ASSUME NEW p \in Procs, RemoveRules(p) PROVE NewInv'
  <2>1. /\ Work.pc = "removeRules" /\ Work'.pc = "release" /\ Work'.job = Work.job
        /\ Work'.cur = Work.cur /\ Work'.todo = Work.todo /\ go[p] = Work
    BY <1>13, GotoWork DEF RemoveRules
  <2> QED
    BY <1>13, <1>0, <2>1, ConstantsOK DEF RemoveRules
<1>14. ASSUME NEW p \in Procs, Release(p) PROVE NewInv'
  <2>1. /\ Work.pc = "release" /\ Work'.pc = "deleteRow" /\ Work'.job = Work.job
        /\ Work'.cur = Work.cur /\ Work'.todo = Work.todo /\ go[p] = Work
    BY <1>14, GotoWork DEF Release
  <2> QED
    BY <1>14, <1>0, <2>1, ConstantsOK DEF Release, ReleaseIP
<1>15. ASSUME NEW p \in Procs, DeleteRow(p) PROVE NewInv'
  <2>1. /\ Work.pc = "deleteRow" /\ Work'.pc = "syncRead" /\ Work'.job = Work.job
        /\ Work'.cur = Work.cur /\ Work'.todo = Work.todo /\ go[p] = Work
        /\ rows' = rows \ {Work.cur}
    BY <1>15, GotoWork DEF DeleteRow, Serial
  <2> QED
    BY <1>15, <1>0, <2>1, ConstantsOK DEF DeleteRow, DropPSK, Log
<1>16. ASSUME NEW p \in Procs, SyncRead(p) PROVE NewInv'
  BY <1>16, <1>0, SyncReadWork, ConstantsOK
<1>17. ASSUME NEW p \in Procs, SyncWrite(p) PROVE NewInv'
  BY <1>17, <1>0, SyncWriteWork, ConstantsOK
<1>18. ASSUME NEW r \in Requests, NEW u \in Users, NEW s \in Sessions, Admit(r, u, s)
       PROVE NewInv'
  BY <1>18, <1>0, AdmitWork
<1>19. ASSUME StartJob PROVE NewInv'
  BY <1>19, <1>0, StartWork
<1>20. ASSUME Environment PROVE NewInv'
  BY <1>20, <1>0, EnvironmentWork
<1>21. ASSUME Boot PROVE NewInv'
  BY <1>21, <1>0, BootWork
<1>22. ASSUME Serve PROVE NewInv'
  BY <1>22, <1>0, ServeWork
<1>23. ASSUME Crash PROVE NewInv'
  BY <1>23, <1>0, CrashWork
<1>24. CASE UNCHANGED vars
  BY <1>24, WorkStays DEF vars
<1> QED
  BY SerialCases, <1>1, <1>2, <1>3, <1>4, <1>5, <1>6, <1>7, <1>8, <1>9, <1>10,
     <1>11, <1>12, <1>13, <1>14, <1>15, <1>16, <1>17, <1>18, <1>19, <1>20, <1>21,
     <1>22, <1>23, <1>24 DEF CreateStep, EndStep, SyncStep

\* Only the deletion of a row takes its address from it.
LEMMA AddressStep ==
  ASSUME Serial, TypeInv, ControlInv, JobInv, BatchInv, NewInv, AddressInv, [Next]_vars
  PROVE  AddressInv'
<1> USE DEF BatchInv, NewInv, AddressInv, Creating, Deleting, UserJobs, AtRest, WorkOK
<1>0. /\ WorkOK
      /\ rows \subseteq Sessions
      /\ pool \in [IPs -> Sessions \union {NoSession}]
      /\ addr \in [Sessions -> IPs \union {NoIP}]
  BY WorkFacts DEF TypeInv, DataOK
<1>1. ASSUME NEW p \in Procs, Allocate(p) PROVE AddressInv'
  <2>1. /\ Work.pc = "alloc" /\ Work'.pc = "insert" /\ Work.cur \in Sessions \ rows
        /\ go[p] = Work /\ phase = "up"
    BY <1>1, <1>0, GotoWork DEF Allocate
  <2>2. PICK ip \in IPs : /\ pool[ip] = NoSession
                         /\ pool' = [pool EXCEPT ![ip] = Work.cur]
                         /\ addr' = [addr EXCEPT ![Work.cur] = ip]
    BY <1>1, <2>1 DEF Allocate, FreeIPs
  <2>3. rows' = rows
    BY <1>1 DEF Allocate
  <2>4. ASSUME NEW s \in rows PROVE addr'[s] \in IPs /\ pool'[addr'[s]] = s
    <3>1. addr[s] \in IPs /\ pool[addr[s]] = s /\ s # Work.cur /\ addr'[s] = addr[s]
      BY <1>0, <2>1, <2>2
    <3>2. s # NoSession
      BY <1>0, ConstantsOK
    <3> QED
      BY <1>0, <2>2, <3>1, <3>2
  <2> QED
    BY <2>3, <2>4
<1>2. ASSUME NEW p \in Procs, AllocateFails(p) PROVE AddressInv'
  BY <1>2, <1>0, DoneWork DEF AllocateFails
<1>3. ASSUME NEW p \in Procs, InsertRow(p) PROVE AddressInv'
  <2>1. /\ Work.pc = "insert" /\ Work'.pc = "addPeer" /\ Work'.job = Work.job
        /\ Work'.cur = Work.cur /\ Work'.todo = Work.todo /\ go[p] = Work
    BY <1>3, GotoWork DEF InsertRow
  <2> QED
    BY <1>3, <1>0, <2>1 DEF InsertRow
<1>4. ASSUME NEW p \in Procs, InsertFails(p) PROVE AddressInv'
  BY <1>4, <1>0, DoneWork DEF InsertFails, DropPSK, ReleaseIP
<1>5. ASSUME NEW p \in Procs, AddPeer(p) PROVE AddressInv'
  BY <1>5, <1>0, GotoWork, RollbackWork DEF AddPeer
<1>6. ASSUME NEW p \in Procs, InstallRules(p) PROVE AddressInv'
  BY <1>6, <1>0, GotoWork, RollbackWork DEF InstallRules
<1>7. ASSUME NEW p \in Procs, FinishCreate(p) PROVE AddressInv'
  <2>1. go[p] = Work /\ Work.pc = "finish" /\ Work.job = "create"
    BY <1>7, <1>0, WorkIs DEF FinishCreate
  <2>2. UNCHANGED <<rows, addr, pool, phase>>
    BY <1>7 DEF FinishCreate
  <2>3. CASE Log(Work.cur, "connected") /\ Done(p)
    <3>1. AtRest(Work')
      BY <1>7, <2>3, DoneWork DEF FinishCreate
    <3> QED
      BY <1>0, <2>1, <2>2, <3>1
  <2>4. CASE Rollback(p) /\ UNCHANGED events
    <3>1. /\ Work'.pc = "removePeer" /\ Work'.job = "rollback" /\ Work'.cur = Work.cur
          /\ Work'.todo = Work.todo
      BY <1>7, <2>4, RollbackWork DEF FinishCreate
    <3> QED
      BY <1>0, <2>1, <2>2, <2>4, <3>1
  <2> QED
    BY <1>7, <2>1, <2>3, <2>4 DEF FinishCreate
<1>8. ASSUME NEW p \in Procs, SelectUserSessions(p) PROVE AddressInv'
  BY <1>8, <1>0, SelectWork
<1>9. ASSUME NEW p \in Procs, NextSession(p) PROVE AddressInv'
  BY <1>9, <1>0, NextWork
<1>10. ASSUME NEW p \in Procs, EndOfBatch(p) PROVE AddressInv'
  <2>1. Work.pc = "next" /\ AtRest(Work') /\ go[p] = Work
    BY <1>10, DoneWork DEF EndOfBatch
  <2>2. UNCHANGED <<rows, addr, pool, phase>>
    BY <1>10 DEF EndOfBatch
  <2> QED
    BY <1>0, <2>1, <2>2
<1>11. ASSUME NEW p \in Procs, Purge(p) PROVE AddressInv'
  <2>1. Work.pc = "next" /\ AtRest(Work')
    BY <1>11, DoneWork DEF Purge
  <2>2. rows' \subseteq rows /\ UNCHANGED <<addr, pool, phase>>
    BY <1>11 DEF Purge
  <2> QED
    BY <1>0, <2>1, <2>2
<1>12. ASSUME NEW p \in Procs, RemovePeer(p) PROVE AddressInv'
  <2>1. /\ Work.pc = "removePeer" /\ Work'.pc = "removeRules" /\ Work'.job = Work.job
        /\ Work'.cur = Work.cur /\ Work'.todo = Work.todo /\ go[p] = Work
    BY <1>12, GotoWork DEF RemovePeer
  <2> QED
    BY <1>12, <1>0, <2>1 DEF RemovePeer
<1>13. ASSUME NEW p \in Procs, RemoveRules(p) PROVE AddressInv'
  <2>1. /\ Work.pc = "removeRules" /\ Work'.pc = "release" /\ Work'.job = Work.job
        /\ Work'.cur = Work.cur /\ Work'.todo = Work.todo /\ go[p] = Work
    BY <1>13, GotoWork DEF RemoveRules
  <2> QED
    BY <1>13, <1>0, <2>1 DEF RemoveRules
<1>14. ASSUME NEW p \in Procs, Release(p) PROVE AddressInv'
  <2>1. /\ Work.pc = "release" /\ Work'.pc = "deleteRow" /\ Work'.job = Work.job
        /\ Work'.cur = Work.cur /\ Work'.todo = Work.todo /\ go[p] = Work
    BY <1>14, GotoWork DEF Release
  <2> QED
    BY <1>14, <1>0, <2>1 DEF Release, ReleaseIP
<1>15. ASSUME NEW p \in Procs, DeleteRow(p) PROVE AddressInv'
  <2>1. /\ Work.pc = "deleteRow" /\ Work'.pc = "syncRead" /\ Work'.job = Work.job
        /\ Work'.cur = Work.cur /\ Work'.todo = Work.todo /\ go[p] = Work
        /\ rows' = rows \ {Work.cur}
    BY <1>15, GotoWork DEF DeleteRow, Serial
  <2> QED
    BY <1>15, <1>0, <2>1 DEF DeleteRow, DropPSK, Log
<1>16. ASSUME NEW p \in Procs, SyncRead(p) PROVE AddressInv'
  BY <1>16, <1>0, SyncReadWork
<1>17. ASSUME NEW p \in Procs, SyncWrite(p) PROVE AddressInv'
  BY <1>17, <1>0, SyncWriteWork
<1>18. ASSUME NEW r \in Requests, NEW u \in Users, NEW s \in Sessions, Admit(r, u, s)
       PROVE AddressInv'
  <2>1. AtRest(Work) /\ Work'.pc = "alloc" /\ UNCHANGED <<rows, addr, pool, phase>>
    BY <1>18, AdmitWork
  <2> QED
    BY <1>0, <2>1
<1>19. ASSUME StartJob PROVE AddressInv'
  <2>1. /\ AtRest(Work) /\ Work'.pc \in {"next", "select"}
        /\ UNCHANGED <<rows, addr, pool, phase>>
    BY <1>19, StartWork
  <2> QED
    BY <1>0, <2>1
<1>20. ASSUME Environment PROVE AddressInv'
  BY <1>20, <1>0, EnvironmentWork
<1>21. ASSUME Boot PROVE AddressInv'
  BY <1>21, <1>0, BootWork
<1>22. ASSUME Serve PROVE AddressInv'
  BY <1>22, <1>0, ServeWork
<1>23. ASSUME Crash PROVE AddressInv'
  BY <1>23, <1>0, CrashWork
<1>24. CASE UNCHANGED vars
  BY <1>24, WorkStays DEF vars
<1> QED
  BY SerialCases, <1>1, <1>2, <1>3, <1>4, <1>5, <1>6, <1>7, <1>8, <1>9, <1>10,
     <1>11, <1>12, <1>13, <1>14, <1>15, <1>16, <1>17, <1>18, <1>19, <1>20, <1>21,
     <1>22, <1>23, <1>24 DEF CreateStep, EndStep, SyncStep

\* Keys and peers follow the rows.
LEMMA KeyStep ==
  ASSUME Serial, TypeInv, ControlInv, JobInv, BatchInv, NewInv, KeyInv, [Next]_vars
  PROVE  KeyInv'
<1> USE DEF BatchInv, NewInv, KeyInv, Creating, Deleting, UserJobs, AtRest, WorkOK
<1>0. /\ WorkOK
      /\ rows \subseteq Sessions
  BY WorkFacts DEF TypeInv, DataOK
<1>1. ASSUME NEW p \in Procs, Allocate(p) PROVE KeyInv'
  BY <1>1, <1>0, GotoWork DEF Allocate
<1>2. ASSUME NEW p \in Procs, AllocateFails(p) PROVE KeyInv'
  BY <1>2, <1>0, DoneWork DEF AllocateFails
<1>3. ASSUME NEW p \in Procs, InsertRow(p) PROVE KeyInv'
  BY <1>3, <1>0, GotoWork DEF InsertRow
<1>4. ASSUME NEW p \in Procs, InsertFails(p) PROVE KeyInv'
  BY <1>4, <1>0, DoneWork DEF InsertFails, DropPSK, ReleaseIP
<1>5. ASSUME NEW p \in Procs, AddPeer(p) PROVE KeyInv'
  BY <1>5, <1>0, GotoWork, RollbackWork DEF AddPeer
<1>6. ASSUME NEW p \in Procs, InstallRules(p) PROVE KeyInv'
  BY <1>6, <1>0, GotoWork, RollbackWork DEF InstallRules
<1>7. ASSUME NEW p \in Procs, FinishCreate(p) PROVE KeyInv'
  BY <1>7, <1>0, DoneWork, RollbackWork DEF FinishCreate, Log
<1>8. ASSUME NEW p \in Procs, SelectUserSessions(p) PROVE KeyInv'
  BY <1>8, <1>0, SelectWork
<1>9. ASSUME NEW p \in Procs, NextSession(p) PROVE KeyInv'
  BY <1>9, <1>0, NextWork
<1>10. ASSUME NEW p \in Procs, EndOfBatch(p) PROVE KeyInv'
  BY <1>10, <1>0, DoneWork, WorkIs DEF EndOfBatch
<1>11. ASSUME NEW p \in Procs, Purge(p) PROVE KeyInv'
  BY <1>11, <1>0, DoneWork DEF Purge
<1>12. ASSUME NEW p \in Procs, RemovePeer(p) PROVE KeyInv'
  BY <1>12, <1>0, GotoWork DEF RemovePeer
<1>13. ASSUME NEW p \in Procs, RemoveRules(p) PROVE KeyInv'
  BY <1>13, <1>0, GotoWork DEF RemoveRules
<1>14. ASSUME NEW p \in Procs, Release(p) PROVE KeyInv'
  BY <1>14, <1>0, GotoWork DEF Release, ReleaseIP
<1>15. ASSUME NEW p \in Procs, DeleteRow(p) PROVE KeyInv'
  <2>1. /\ Work.pc = "deleteRow" /\ Work'.pc = "syncRead" /\ Work'.job = Work.job
        /\ Work'.cur = Work.cur /\ Work'.todo = Work.todo /\ go[p] = Work
        /\ rows' = rows \ {Work.cur}
    BY <1>15, GotoWork DEF DeleteRow, Serial
  <2> QED
    BY <1>15, <1>0, <2>1 DEF DeleteRow, DropPSK, Log
<1>16. ASSUME NEW p \in Procs, SyncRead(p) PROVE KeyInv'
  BY <1>16, <1>0, SyncReadWork
<1>17. ASSUME NEW p \in Procs, SyncWrite(p) PROVE KeyInv'
  BY <1>17, <1>0, SyncWriteWork
<1>18. ASSUME NEW r \in Requests, NEW u \in Users, NEW s \in Sessions, Admit(r, u, s)
       PROVE KeyInv'
  BY <1>18, <1>0, AdmitWork
<1>19. ASSUME StartJob PROVE KeyInv'
  BY <1>19, <1>0, StartWork
<1>20. ASSUME Environment PROVE KeyInv'
  BY <1>20, <1>0, EnvironmentWork
<1>21. ASSUME Boot PROVE KeyInv'
  BY <1>21, <1>0, BootWork
<1>22. ASSUME Serve PROVE KeyInv'
  <2>1. rows = {} /\ psks = {} /\ peers = {}
    BY <1>22, <1>0, ServeWork
  <2> QED
    BY <1>22, <2>1, ServeWork
<1>23. ASSUME Crash PROVE KeyInv'
  BY <1>23, <1>0, CrashWork
<1>24. CASE UNCHANGED vars
  BY <1>24, WorkStays DEF vars
<1> QED
  BY SerialCases, <1>1, <1>2, <1>3, <1>4, <1>5, <1>6, <1>7, <1>8, <1>9, <1>10,
     <1>11, <1>12, <1>13, <1>14, <1>15, <1>16, <1>17, <1>18, <1>19, <1>20, <1>21,
     <1>22, <1>23, <1>24 DEF CreateStep, EndStep, SyncStep

\* Rules follow the rows, from their installation to their removal.
LEMMA RuleStep ==
  ASSUME Serial, TypeInv, ControlInv, JobInv, BatchInv, NewInv, AddressInv, RuleInv,
         [Next]_vars
  PROVE  RuleInv'
<1> USE DEF BatchInv, NewInv, AddressInv, RuleInv, Creating, Deleting,
        UserJobs, AtRest, WorkOK
<1>0. /\ WorkOK
      /\ rows \subseteq Sessions
      /\ pool \in [IPs -> Sessions \union {NoSession}]
      /\ addr \in [Sessions -> IPs \union {NoIP}]
      /\ owner \in [Sessions -> Users \union {NoUser}]
  BY WorkFacts DEF TypeInv, DataOK
<1>1. ASSUME NEW p \in Procs, Allocate(p) PROVE RuleInv'
  BY <1>1, <1>0, GotoWork DEF Allocate
<1>2. ASSUME NEW p \in Procs, AllocateFails(p) PROVE RuleInv'
  BY <1>2, <1>0, DoneWork DEF AllocateFails
<1>3. ASSUME NEW p \in Procs, InsertRow(p) PROVE RuleInv'
  BY <1>3, <1>0, GotoWork DEF InsertRow
<1>4. ASSUME NEW p \in Procs, InsertFails(p) PROVE RuleInv'
  BY <1>4, <1>0, DoneWork DEF InsertFails, DropPSK, ReleaseIP
<1>5. ASSUME NEW p \in Procs, AddPeer(p) PROVE RuleInv'
  BY <1>5, <1>0, GotoWork, RollbackWork DEF AddPeer
<1>6. ASSUME NEW p \in Procs, InstallRules(p) PROVE RuleInv'
  BY <1>6, <1>0, GotoWork, RollbackWork DEF InstallRules
<1>7. ASSUME NEW p \in Procs, FinishCreate(p) PROVE RuleInv'
  BY <1>7, <1>0, DoneWork, RollbackWork DEF FinishCreate, Log
<1>8. ASSUME NEW p \in Procs, SelectUserSessions(p) PROVE RuleInv'
  BY <1>8, <1>0, SelectWork
<1>9. ASSUME NEW p \in Procs, NextSession(p) PROVE RuleInv'
  BY <1>9, <1>0, NextWork
<1>10. ASSUME NEW p \in Procs, EndOfBatch(p) PROVE RuleInv'
  BY <1>10, <1>0, DoneWork, WorkIs DEF EndOfBatch
<1>11. ASSUME NEW p \in Procs, Purge(p) PROVE RuleInv'
  BY <1>11, <1>0, DoneWork DEF Purge
<1>12. ASSUME NEW p \in Procs, RemovePeer(p) PROVE RuleInv'
  BY <1>12, <1>0, GotoWork DEF RemovePeer
<1>13. ASSUME NEW p \in Procs, RemoveRules(p) PROVE RuleInv'
  <2>1. /\ Work.pc = "removeRules" /\ Work'.pc = "release" /\ Work'.job = Work.job
        /\ Work'.cur = Work.cur /\ go[p] = Work
    BY <1>13, GotoWork DEF RemoveRules
  <2>2. /\ Work.cur \in rows /\ owner[Work.cur] \in Users
        /\ UNCHANGED <<rows, addr, grants, owner, phase>>
        /\ rules' = rules \ ({addr[Work.cur]} \X grants[owner[Work.cur]])
    BY <1>13, <1>0, <2>1, ConstantsOK DEF RemoveRules, Serial
  <2>3. ASSUME NEW ip \in IPs, NEW r \in Resources, <<ip, r>> \in rules'
        PROVE  \E s \in rows : addr[s] = ip /\ r \in grants[owner[s]] /\ Work.cur # s
    BY <2>2, <2>3
  <2>4. ASSUME phase = "up", NEW s \in rows, s # Work.cur, NEW r \in grants[owner[s]]
        PROVE  <<addr[s], r>> \in rules'
    <3>1. pool[addr[s]] = s /\ pool[addr[Work.cur]] = Work.cur
      BY <2>1, <2>2, <2>4 DEF AddressInv
    <3>2. <<addr[s], r>> \in rules
      BY <2>4
    <3> QED
      BY <2>2, <2>4, <3>1, <3>2
  <2> QED
    BY <2>1, <2>2, <2>3, <2>4
<1>14. ASSUME NEW p \in Procs, Release(p) PROVE RuleInv'
  BY <1>14, <1>0, GotoWork DEF Release, ReleaseIP
<1>15. ASSUME NEW p \in Procs, DeleteRow(p) PROVE RuleInv'
  <2>1. /\ Work.pc = "deleteRow" /\ Work'.pc = "syncRead" /\ Work'.job = Work.job
        /\ Work'.cur = Work.cur /\ Work'.todo = Work.todo /\ go[p] = Work
        /\ rows' = rows \ {Work.cur}
    BY <1>15, GotoWork DEF DeleteRow, Serial
  <2> QED
    BY <1>15, <1>0, <2>1 DEF DeleteRow, DropPSK, Log
<1>16. ASSUME NEW p \in Procs, SyncRead(p) PROVE RuleInv'
  BY <1>16, <1>0, SyncReadWork
<1>17. ASSUME NEW p \in Procs, SyncWrite(p) PROVE RuleInv'
  BY <1>17, <1>0, SyncWriteWork
<1>18. ASSUME NEW r \in Requests, NEW u \in Users, NEW s \in Sessions, Admit(r, u, s)
       PROVE RuleInv'
  BY <1>18, <1>0, AdmitWork
<1>19. ASSUME StartJob PROVE RuleInv'
  BY <1>19, <1>0, StartWork
<1>20. ASSUME Environment PROVE RuleInv'
  BY <1>20, <1>0, EnvironmentWork
<1>21. ASSUME Boot PROVE RuleInv'
  BY <1>21, <1>0, BootWork
<1>22. ASSUME Serve PROVE RuleInv'
  BY <1>22, <1>0, ServeWork
<1>23. ASSUME Crash PROVE RuleInv'
  BY <1>23, <1>0, CrashWork
<1>24. CASE UNCHANGED vars
  BY <1>24, WorkStays DEF vars
<1> QED
  BY SerialCases, <1>1, <1>2, <1>3, <1>4, <1>5, <1>6, <1>7, <1>8, <1>9, <1>10,
     <1>11, <1>12, <1>13, <1>14, <1>15, <1>16, <1>17, <1>18, <1>19, <1>20, <1>21,
     <1>22, <1>23, <1>24 DEF CreateStep, EndStep, SyncStep

\* A session is connected at the end of its creation and disconnected with its row.
LEMMA EventStep ==
  ASSUME Serial, TypeInv, ControlInv, JobInv, BatchInv, NewInv, EventInv, [Next]_vars
  PROVE  EventInv'
<1> USE DEF BatchInv, NewInv, EventInv, HistoryInOrder, Creating, Deleting,
        UserJobs, AtRest, WorkOK
<1>0. /\ WorkOK
      /\ rows \subseteq Sessions
      /\ events \in [Sessions -> Seq({"connected", "disconnected"})]
      /\ owner \in [Sessions -> Users \union {NoUser}]
  BY WorkFacts DEF TypeInv, DataOK
<1>1. ASSUME NEW p \in Procs, Allocate(p) PROVE EventInv'
  BY <1>1, <1>0, GotoWork DEF Allocate
<1>2. ASSUME NEW p \in Procs, AllocateFails(p) PROVE EventInv'
  BY <1>2, <1>0, DoneWork DEF AllocateFails
<1>3. ASSUME NEW p \in Procs, InsertRow(p) PROVE EventInv'
  BY <1>3, <1>0, GotoWork DEF InsertRow
<1>4. ASSUME NEW p \in Procs, InsertFails(p) PROVE EventInv'
  BY <1>4, <1>0, DoneWork DEF InsertFails, DropPSK, ReleaseIP
<1>5. ASSUME NEW p \in Procs, AddPeer(p) PROVE EventInv'
  BY <1>5, <1>0, GotoWork, RollbackWork DEF AddPeer
<1>6. ASSUME NEW p \in Procs, InstallRules(p) PROVE EventInv'
  BY <1>6, <1>0, GotoWork, RollbackWork DEF InstallRules
<1>7. ASSUME NEW p \in Procs, FinishCreate(p) PROVE EventInv'
  <2>1. go[p] = Work /\ Work.pc = "finish" /\ Work.job = "create"
    BY <1>7, <1>0, WorkIs DEF FinishCreate
  <2>2. UNCHANGED <<rows, owner>>
    BY <1>7 DEF FinishCreate
  <2>3. CASE Log(Work.cur, "connected") /\ Done(p)
    <3>1. AtRest(Work')
      BY <1>7, <2>3, DoneWork DEF FinishCreate
    <3>2. /\ events[Work.cur] = <<>>
          /\ events' = [events EXCEPT ![Work.cur] = Append(events[Work.cur], "connected")]
      BY <2>1, <2>3 DEF Log
    <3>3. /\ events'[Work.cur] = <<"connected">>
          /\ \A s \in Sessions \ {Work.cur} : events'[s] = events[s]
      BY <1>0, <2>1, <3>2
    <3> QED
      BY <1>0, <2>1, <2>2, <3>1, <3>3
  <2>4. CASE Rollback(p) /\ UNCHANGED events
    <3>1. /\ Work'.pc = "removePeer" /\ Work'.job = "rollback" /\ Work'.cur = Work.cur
          /\ Work'.todo = Work.todo
      BY <1>7, <2>4, RollbackWork DEF FinishCreate
    <3> QED
      BY <1>0, <2>1, <2>2, <2>4, <3>1
  <2> QED
    BY <1>7, <2>1, <2>3, <2>4 DEF FinishCreate
<1>8. ASSUME NEW p \in Procs, SelectUserSessions(p) PROVE EventInv'
  BY <1>8, <1>0, SelectWork
<1>9. ASSUME NEW p \in Procs, NextSession(p) PROVE EventInv'
  BY <1>9, <1>0, NextWork
<1>10. ASSUME NEW p \in Procs, EndOfBatch(p) PROVE EventInv'
  BY <1>10, <1>0, DoneWork, WorkIs DEF EndOfBatch
<1>11. ASSUME NEW p \in Procs, Purge(p) PROVE EventInv'
  BY <1>11, <1>0, DoneWork DEF Purge
<1>12. ASSUME NEW p \in Procs, RemovePeer(p) PROVE EventInv'
  BY <1>12, <1>0, GotoWork DEF RemovePeer
<1>13. ASSUME NEW p \in Procs, RemoveRules(p) PROVE EventInv'
  BY <1>13, <1>0, GotoWork DEF RemoveRules
<1>14. ASSUME NEW p \in Procs, Release(p) PROVE EventInv'
  BY <1>14, <1>0, GotoWork DEF Release, ReleaseIP
<1>15. ASSUME NEW p \in Procs, DeleteRow(p) PROVE EventInv'
  <2>1. /\ Work.pc = "deleteRow" /\ Work'.pc = "syncRead" /\ Work'.job = Work.job
        /\ Work'.cur = Work.cur /\ go[p] = Work
        /\ rows' = rows \ {Work.cur}
    BY <1>15, GotoWork DEF DeleteRow, Serial
  <2>2. Work.cur \in rows /\ Work.job # "create"
    BY <1>0, <2>1
  <2>3. \A s \in Sessions \ {Work.cur} : events'[s] = events[s]
    BY <1>15, <1>0, <2>1 DEF DeleteRow, Log, Serial
  <2>4. \/ events'[Work.cur] = events[Work.cur]
        \/ events'[Work.cur] = Append(events[Work.cur], "disconnected")
    BY <1>15, <1>0, <2>1 DEF DeleteRow, Log, Serial
  <2>5. events[Work.cur] \in {<<>>, <<"connected">>}
    BY <2>2
  <2>6. /\ Append(<<>>, "disconnected") = <<"disconnected">>
        /\ Append(<<"connected">>, "disconnected") = <<"connected", "disconnected">>
    BY AppendToOne
  <2>7. events'[Work.cur] \in
           {<<>>, <<"connected">>, <<"disconnected">>, <<"connected", "disconnected">>}
    BY <2>4, <2>5, <2>6
  <2> QED
    BY <1>0, <2>1, <2>2, <2>3, <2>7
<1>16. ASSUME NEW p \in Procs, SyncRead(p) PROVE EventInv'
  BY <1>16, <1>0, SyncReadWork
<1>17. ASSUME NEW p \in Procs, SyncWrite(p) PROVE EventInv'
  BY <1>17, <1>0, SyncWriteWork
<1>18. ASSUME NEW r \in Requests, NEW u \in Users, NEW s \in Sessions, Admit(r, u, s)
       PROVE EventInv'
  BY <1>18, <1>0, AdmitWork
<1>19. ASSUME StartJob PROVE EventInv'
  BY <1>19, <1>0, StartWork
<1>20. ASSUME Environment PROVE EventInv'
  BY <1>20, <1>0, EnvironmentWork
<1>21. ASSUME Boot PROVE EventInv'
  BY <1>21, <1>0, BootWork
<1>22. ASSUME Serve PROVE EventInv'
  BY <1>22, <1>0, ServeWork
<1>23. ASSUME Crash PROVE EventInv'
  BY <1>23, <1>0, CrashWork
<1>24. CASE UNCHANGED vars
  BY <1>24, WorkStays DEF vars
<1> QED
  BY SerialCases, <1>1, <1>2, <1>3, <1>4, <1>5, <1>6, <1>7, <1>8, <1>9, <1>10,
     <1>11, <1>12, <1>13, <1>14, <1>15, <1>16, <1>17, <1>18, <1>19, <1>20, <1>21,
     <1>22, <1>23, <1>24 DEF CreateStep, EndStep, SyncStep

\* Who loses access has a job that ends the sessions.
LEMMA AccessStep ==
  ASSUME Serial, TypeInv, ControlInv, JobInv, BatchInv, NewInv, AccessInv, [Next]_vars
  PROVE  AccessInv'
<1> USE DEF BatchInv, NewInv, AccessInv, MayUse, MayStay, Creating, Deleting, UserJobs,
        AtRest, WorkOK, Entitled
<1>0. /\ WorkOK
      /\ rows \subseteq Sessions
      /\ owner \in [Sessions -> Users \union {NoUser}]
  BY WorkFacts DEF TypeInv, DataOK
<1>1. ASSUME NEW p \in Procs, Allocate(p) PROVE AccessInv'
  BY <1>1, <1>0, GotoWork DEF Allocate
<1>2. ASSUME NEW p \in Procs, AllocateFails(p) PROVE AccessInv'
  <2>1. Work.pc = "alloc" /\ AtRest(Work') /\ go[p] = Work
    BY <1>2, DoneWork DEF AllocateFails
  <2> QED
    BY <1>2, <1>0, <2>1 DEF AllocateFails
<1>3. ASSUME NEW p \in Procs, InsertRow(p) PROVE AccessInv'
  <2>1. /\ Work.pc = "insert" /\ Work'.pc = "addPeer" /\ Work'.job = Work.job
        /\ Work'.cur = Work.cur /\ Work'.todo = Work.todo /\ go[p] = Work
    BY <1>3, GotoWork DEF InsertRow
  <2> QED
    BY <1>3, <1>0, <2>1 DEF InsertRow
<1>4. ASSUME NEW p \in Procs, InsertFails(p) PROVE AccessInv'
  <2>1. Work.pc = "insert" /\ AtRest(Work') /\ go[p] = Work
    BY <1>4, DoneWork DEF InsertFails
  <2> QED
    BY <1>4, <1>0, <2>1 DEF InsertFails, DropPSK, ReleaseIP
<1>5. ASSUME NEW p \in Procs, AddPeer(p) PROVE AccessInv'
  BY <1>5, <1>0, GotoWork, RollbackWork DEF AddPeer
<1>6. ASSUME NEW p \in Procs, InstallRules(p) PROVE AccessInv'
  BY <1>6, <1>0, GotoWork, RollbackWork DEF InstallRules
<1>7. ASSUME NEW p \in Procs, FinishCreate(p) PROVE AccessInv'
  <2>1. go[p] = Work /\ Work.pc = "finish" /\ Work.job = "create"
    BY <1>7, <1>0, WorkIs DEF FinishCreate
  <2>2. CASE Log(Work.cur, "connected") /\ Done(p)
    <3>1. AtRest(Work')
      BY <1>7, <2>2, DoneWork DEF FinishCreate
    <3> QED
      BY <1>7, <1>0, <2>1, <2>2, <3>1 DEF FinishCreate, Log
  <2>3. CASE Rollback(p) /\ UNCHANGED events
    <3>1. Work'.pc = "removePeer" /\ Work'.job = "rollback" /\ Work'.cur = Work.cur
          /\ Work'.todo = Work.todo
      BY <1>7, <2>3, RollbackWork DEF FinishCreate
    <3> QED
      BY <1>7, <1>0, <2>1, <2>3, <3>1 DEF FinishCreate
  <2> QED
    BY <1>7, <2>1, <2>2, <2>3 DEF FinishCreate
<1>8. ASSUME NEW p \in Procs, SelectUserSessions(p) PROVE AccessInv'
  BY <1>8, <1>0, SelectWork
<1>9. ASSUME NEW p \in Procs, NextSession(p) PROVE AccessInv'
  BY <1>9, <1>0, NextWork
<1>10. ASSUME NEW p \in Procs, EndOfBatch(p) PROVE AccessInv'
  <2>1. Work.pc = "next" /\ AtRest(Work') /\ go[p] = Work
    BY <1>10, DoneWork DEF EndOfBatch
  <2> QED
    BY <1>10, <1>0, <2>1 DEF EndOfBatch
<1>11. ASSUME NEW p \in Procs, Purge(p) PROVE AccessInv'
  BY <1>11, <1>0, DoneWork DEF Purge
<1>12. ASSUME NEW p \in Procs, RemovePeer(p) PROVE AccessInv'
  BY <1>12, <1>0, GotoWork DEF RemovePeer
<1>13. ASSUME NEW p \in Procs, RemoveRules(p) PROVE AccessInv'
  BY <1>13, <1>0, GotoWork DEF RemoveRules
<1>14. ASSUME NEW p \in Procs, Release(p) PROVE AccessInv'
  BY <1>14, <1>0, GotoWork DEF Release, ReleaseIP
<1>15. ASSUME NEW p \in Procs, DeleteRow(p) PROVE AccessInv'
  BY <1>15, <1>0, GotoWork DEF DeleteRow, DropPSK, Log
<1>16. ASSUME NEW p \in Procs, SyncRead(p) PROVE AccessInv'
  BY <1>16, <1>0, SyncReadWork
<1>17. ASSUME NEW p \in Procs, SyncWrite(p) PROVE AccessInv'
  BY <1>17, <1>0, SyncWriteWork
<1>18. ASSUME NEW r \in Requests, NEW u \in Users, NEW s \in Sessions, Admit(r, u, s)
       PROVE AccessInv'
  BY <1>18, <1>0, AdmitWork
<1>19. ASSUME StartJob PROVE AccessInv'
  <2>1. /\ phase = "up" /\ AtRest(Work) /\ UNCHANGED <<rows, owner, phase>>
        /\ Work'.job # "create"
    BY <1>19, StartWork
  <2>2. CASE \E r \in Requests, u \in Users : RemoveServer(r, u) \/ Disable(r, u) \/ DeleteUser(r, u)
    <3>1. PICK r \in Requests, u \in Users : RemoveServer(r, u) \/ Disable(r, u) \/ DeleteUser(r, u)
      BY <2>2
    <3>2. /\ Work'.job \in UserJobs /\ Work'.who = u
          /\ access \ {u} \subseteq access' /\ UNCHANGED <<admins, unended>>
          /\ \A v \in Users \ {u} : account'[v] = account[v]
      BY <3>1, StartUserWork
    <3> QED
      BY <1>0, <2>1, <3>2, ConstantsOK
  <2>3. CASE UNCHANGED adminVars
    BY <1>0, <2>1, <2>3
  <2> QED
    BY <1>19, <2>2, <2>3 DEF StartJob, Terminate, ExpireStale, CleanDeadPeers
<1>20. ASSUME Environment PROVE AccessInv'
  <2>1. /\ Work' = Work /\ UNCHANGED <<rows, owner, phase>>
        /\ \A s \in Sessions : Entitled(s) => Entitled(s)'
        /\ \A u \in Users : account[u] = "active" => account'[u] = "active"
    BY <1>20, EnvironmentWork
  <2>2. /\ \A s \in rows : owner[s] \in Users
        /\ Work.job = "create" => Work.cur \in Sessions /\ owner[Work.cur] \in Users
    BY <1>0
  <2> HIDE DEF Entitled
  <2> QED
    BY <1>0, <2>1, <2>2
<1>21. ASSUME Boot PROVE AccessInv'
  BY <1>21, <1>0, BootWork
<1>22. ASSUME Serve PROVE AccessInv'
  BY <1>22, <1>0, ServeWork
<1>23. ASSUME Crash PROVE AccessInv'
  BY <1>23, <1>0, CrashWork
<1>24. CASE UNCHANGED vars
  BY <1>24, WorkStays DEF vars
<1> QED
  BY SerialCases, <1>1, <1>2, <1>3, <1>4, <1>5, <1>6, <1>7, <1>8, <1>9, <1>10,
     <1>11, <1>12, <1>13, <1>14, <1>15, <1>16, <1>17, <1>18, <1>19, <1>20, <1>21,
     <1>22, <1>23, <1>24 DEF CreateStep, EndStep, SyncStep

-----------------------------------------------------------------------------
(* What holds of the serial system *)

SerialInv ==
    /\ TypeInv /\ ControlInv /\ JobInv /\ BatchInv /\ NewInv /\ AddressInv
    /\ KeyInv /\ RuleInv /\ EventInv /\ AccessInv

\* Before the first start there is nothing.
LEMMA SerialStarts ==
  ASSUME Init
  PROVE  ControlInv /\ JobInv /\ BatchInv /\ NewInv /\ AddressInv /\ KeyInv
         /\ RuleInv /\ EventInv /\ AccessInv
<1>1. \A p \in Procs : go[p] = Idle
  BY DEF Init
<1>2. Work = Idle
  BY <1>1 DEF Work, Idle
<1>3. Work.pc = "idle" /\ Work.job = "none" /\ Work.todo = {} /\ phase = "down" /\ rows = {}
  BY <1>2 DEF Idle, Init
<1>4. ControlInv
  BY <1>1 DEF ControlInv, Idle, Init
<1>5. JobInv /\ BatchInv /\ AddressInv /\ AccessInv
  BY <1>3 DEF JobInv, BatchInv, AddressInv, AccessInv, EndReasons, UserJobs, Deleting
<1>6. NewInv /\ KeyInv
  BY <1>3, ConstantsOK DEF NewInv, KeyInv, Init
<1>7. RuleInv /\ EventInv
  BY <1>3 DEF RuleInv, EventInv, HistoryInOrder, Init
<1> QED
  BY <1>4, <1>5, <1>6, <1>7

\* The invariant of the serial system.
LEMMA SerialInvariant ==
  ASSUME Serial
  PROVE  Spec => []SerialInv
<1>1. Init => SerialInv
  BY InitType, SerialStarts DEF SerialInv
<1>2. SerialInv /\ [Next]_vars => SerialInv'
  <2> SUFFICES ASSUME SerialInv, [Next]_vars PROVE SerialInv'
    OBVIOUS
  <2> USE DEF SerialInv
  <2>1. TypeInv'
    BY NextType
  <2>2. ControlInv' /\ JobInv' /\ BatchInv'
    BY ControlStep, JobStep, BatchStep
  <2>3. NewInv' /\ AddressInv' /\ KeyInv'
    BY NewStep, AddressStep, KeyStep
  <2>4. RuleInv' /\ EventInv' /\ AccessInv'
    BY RuleStep, EventStep, AccessStep
  <2> QED
    BY <2>1, <2>2, <2>3, <2>4
<1> QED
  BY <1>1, <1>2, PTL DEF Spec

\* Between two jobs nobody is at work.
LEMMA QuietWork ==
  ASSUME Quiet
  PROVE  Work.pc = "idle" /\ Work.job = "none" /\ phase = "up"
BY DEF Quiet, Work, Idle

\* A session is connected once and disconnected once, in this order, when no
\* two jobs end it together (recordConnectionEvent in CreateSession and
\* deleteSession).
THEOREM ConnectedOnce == Serial => (Spec => []HistoryInOrder)
<1> SUFFICES ASSUME Serial PROVE Spec => []HistoryInOrder
  OBVIOUS
<1>1. SerialInv => HistoryInOrder
  BY DEF SerialInv, EventInv
<1> QED
  BY <1>1, SerialInvariant, PTL

\* Between two jobs every row holds its address in the pool: no failed
\* creation, deletion or restart takes the address of a session that is there
\* (Allocate, Release and the roll-back of CreateSession).
THEOREM AddressesHeld == Serial => (Spec => []RowsHoldTheirAddress)
<1> SUFFICES ASSUME Serial PROVE Spec => []RowsHoldTheirAddress
  OBVIOUS
<1>1. SerialInv => RowsHoldTheirAddress
  BY QuietWork DEF SerialInv, AddressInv, RowsHoldTheirAddress
<1> QED
  BY <1>1, SerialInvariant, PTL

\* Between two jobs the interface has the peers of the rows, no other, and the
\* keys of exactly these are remembered, whatever failed before and however
\* often the process was killed (AddPeer, removePeer and syncServerPeers).
THEOREM PeersFollowRows == Serial => (Spec => []InterfaceMatchesRows)
<1> SUFFICES ASSUME Serial PROVE Spec => []InterfaceMatchesRows
  OBVIOUS
<1>1. SerialInv => InterfaceMatchesRows
  <2> SUFFICES ASSUME SerialInv, Quiet
               PROVE  peers = rows \intersect thisRun /\ psks = peers
    BY DEF InterfaceMatchesRows
  <2>1. Work.pc = "idle" /\ phase = "up"
    BY QuietWork
  <2>2. rows \subseteq thisRun /\ psks = rows /\ peers = rows \intersect psks
    BY <2>1 DEF SerialInv, KeyInv, Deleting
  <2> QED
    BY <2>2
<1> QED
  BY <1>1, SerialInvariant, PTL

\* Between two jobs the chain accepts exactly what the owners of the rows may
\* reach, from the addresses of their sessions (InstallRules, RemoveRules).
THEOREM RulesFollowRows == Serial => (Spec => []RulesMatchSessions)
<1> SUFFICES ASSUME Serial PROVE Spec => []RulesMatchSessions
  OBVIOUS
<1>1. SerialInv => RulesMatchSessions
  <2> SUFFICES ASSUME SerialInv, Quiet
               PROVE  rules = UNION {{addr[s]} \X grants[owner[s]] : s \in rows}
    BY DEF RulesMatchSessions
  <2>1. Work.pc = "idle" /\ Work.job = "none" /\ phase = "up"
    BY QuietWork
  <2>2. rules \subseteq IPs \X Resources
    BY DEF SerialInv, TypeInv, DataOK
  <2>3. \A ip \in IPs, r \in Resources : <<ip, r>> \in rules =>
           \E s \in rows : addr[s] = ip /\ r \in grants[owner[s]]
    BY DEF SerialInv, RuleInv
  <2>4. \A s \in rows : \A r \in grants[owner[s]] : <<addr[s], r>> \in rules
    BY <2>1 DEF SerialInv, RuleInv, Deleting
  <2> QED
    BY <2>2, <2>3, <2>4
<1> QED
  BY <1>1, SerialInvariant, PTL

\* Between two jobs every row is of an active account with access, but for the
\* sessions that ServerHandler.RemoveUser or a demotion left behind: whoever is
\* disabled or deleted, or loses the server through UserHandler.RemoveServer,
\* has no other session when the job is done (TerminateUserSessions,
\* TerminateUserServerSessions, CreateSession).
THEOREM AccessKept == Serial => (Spec => []SessionsHaveAccess)
<1> SUFFICES ASSUME Serial PROVE Spec => []SessionsHaveAccess
  OBVIOUS
<1>1. SerialInv => SessionsHaveAccess
  BY QuietWork DEF SerialInv, AccessInv, MayStay, Entitled, UserJobs,
     SessionsHaveAccess
<1> QED
  BY <1>1, SerialInvariant, PTL

=============================================================================
