------------------------ MODULE ManagedConnectProofs ------------------------
(***************************************************************************)
(* What ManagedConnect promises for any number of servers, calls and runs. *)
(***************************************************************************)
EXTENDS ManagedConnect, TLAPS

USE DEF Calls, Runs, None

\* An approval of the sheet's own is for the server the sheet names, which is
\* one that may be approved.
SheetInv ==
    /\ own.pc # "off" => OwnPolls(sheet) /\ own.srv = sheet.srv
    /\ sheet.srv # NoServer /\ sheet.mode = "push" => sheet.avail

\* Calls and runs under way are for a server.
NamedInv ==
    /\ \A c \in Calls : call[c].pc # "free" => call[c].srv \in Servers
    /\ \A r \in Runs : run[r].pc \notin {"free", "done"} => run[r].srv \in Servers
    /\ \A r \in Runs : run[r].pc \in {"free", "done"} => run[r].call = None

\* The run the sheet waits for has not begun to connect.
WaitInv ==
    sheet.srv # NoServer /\ sheet.driven /\ pushStatus = "pending" =>
        /\ ref # None /\ run[ref].srv = sheet.srv /\ ~run[ref].cancelled
        /\ run[ref].pc \in {"create", "poll"}

\* A call that has left its mark in Go is over; a server that is not tangled
\* has at most one call in Go, and no session then.
CallInv ==
    /\ \A c \in tunnels \union alive : call[c].pc \in {"up", "ok", "done"}
    /\ \A c \in alive : call[c].pc # "up"
    /\ \A s \in Servers : mSessions[s] # None =>
           call[mSessions[s]].srv = s /\ call[mSessions[s]].pc \in {"ok", "done"}
    /\ \A c \in Calls : InGo(c) /\ call[c].srv \notin tangled =>
           /\ client /\ mSessions[call[c].srv] = None
           /\ \A d \in Calls : InGo(d) /\ call[d].srv = call[c].srv => d = c

\* While a login is being ended, a server that is not tangled has no session
\* and no call in Go.
LeaveInv ==
    leaving =>
        /\ client
        /\ \A s \in Servers \ tangled : mSessions[s] = None /\ ~Busy(s)

-----------------------------------------------------------------------------
(* Types. *)

\* Tearing down sessions leaves the sessions, loops and tunnels well typed.
LEMMA TearDownTyped ==
    ASSUME TypeOK, NEW S, TearDown(S)
    PROVE  /\ mSessions' \in [Servers -> Calls \union {None}]
           /\ alive' \subseteq Calls /\ tunnels' \subseteq Calls
  BY DEF TypeOK, TearDown

\* A call begins: the Go side stays well typed.
LEMMA BeginTyped ==
    ASSUME ConstantsOK, TypeOK, NEW s \in Servers, NEW by \in {"connect", "submit", "own", "run"},
           BeginConnect(s, by)
    PROVE  /\ client' \in BOOLEAN /\ leaving' \in BOOLEAN /\ call' \in [Calls -> CallState]
           /\ mSessions' \in [Servers -> Calls \union {None}]
           /\ alive' \subseteq Calls /\ tunnels' \subseteq Calls
           /\ tangled' \subseteq Servers
           /\ NewCall \in FreeCalls
  <1>1. NewCall \in FreeCalls
    BY DEF BeginConnect, NewCall
  <1>2. call' \in [Calls -> CallState]
    BY <1>1 DEF BeginConnect, TypeOK, CallState, FreeCalls
  <1>3. /\ mSessions' \in [Servers -> Calls \union {None}]
        /\ alive' \subseteq Calls /\ tunnels' \subseteq Calls
    BY TearDownTyped DEF BeginConnect
  <1> QED
    BY <1>1, <1>2, <1>3 DEF BeginConnect, TypeOK

\* The sheet, whatever its props become.
LEMMA SheetTyped ==
    ASSUME TypeOK, NEW sh \in SheetState, SetSheet(sh)
    PROVE  sheet' \in SheetState /\ own' \in OwnState
  <1>1. sheet' \in SheetState
    BY DEF SetSheet, SheetState
  <1>2. own' \in OwnState
    BY <1>1 DEF SetSheet, TypeOK, SheetState, OwnState, NoOwn
  <1> QED
    BY <1>1, <1>2

\* A row of the server list that is set keeps the list's type.
LEMMA RowTyped ==
    ASSUME TypeOK, NEW s, NEW row \in RowState
    PROVE  SetRow(s, row) \in [Servers -> RowState]
  BY DEF TypeOK, SetRow, RowState

\* Cancelling the current run keeps the table of runs.
LEMMA CancelTyped ==
    ASSUME TypeOK
    PROVE  CancelRef \in [Runs -> RunState]
  <1>1. run \in [Runs -> RunState] /\ ref \in Runs \union {None}
    BY DEF TypeOK
  <1>2. [run[ref] EXCEPT !.cancelled = TRUE] \in RunState \/ ref = None
    BY <1>1 DEF RunState
  <1> QED
    BY <1>1, <1>2 DEF CancelRef

\* A run ends, with or without a word to the user.
LEMMA RunEndsTyped ==
    ASSUME ConstantsOK, TypeOK, NEW r, RunEnds(r)
    PROVE  run' \in [Runs -> RunState] /\ ref' \in Runs \union {None}
  BY DEF TypeOK, RunEnds, RunState, FreeRun
\* Every way of not waiting any longer keeps the prompt well typed.
LEMMA WaitFailsTyped ==
    ASSUME ConstantsOK, TypeOK, NEW c \in Calls, WaitFails(c)
    PROVE  /\ pending' \in Servers \union {NoServer}
           /\ run' \in [Runs -> RunState] /\ ref' \in Runs \union {None}
           /\ pushStatus' \in {"pending", "approved", "refused"}
           /\ sheet' \in SheetState /\ own' \in OwnState
  <1>1. CASE call[c].by = "run"
    <2>1. PICK r : RunFails(r) /\ UNCHANGED <<pending, sheet, own>>
      BY <1>1 DEF WaitFails
    <2>2. run' \in [Runs -> RunState] /\ ref' \in Runs \union {None}
      BY <2>1, RunEndsTyped DEF RunFails
    <2> QED
      BY <2>1, <2>2 DEF TypeOK, RunFails
  <1>2. CASE call[c].by = "connect"
    BY <1>2 DEF TypeOK, WaitFails
  <1>3. CASE call[c].by \notin {"run", "connect"}
    <2>1. [sheet EXCEPT !.loading = FALSE] \in SheetState
      BY DEF TypeOK, SheetState
    <2>2. SetSheet([sheet EXCEPT !.loading = FALSE]) /\ pending' = NoServer
          /\ UNCHANGED <<run, ref, pushStatus>>
      BY <1>3 DEF WaitFails
    <2> QED
      BY <2>1, <2>2, SheetTyped DEF TypeOK
  <1> QED
    BY <1>1, <1>2, <1>3

\* Calls, rows and runs stay records when a field of theirs changes.
LEMMA CallMoves ==
    ASSUME TypeOK, NEW c \in Calls,
           NEW pc \in {"session", "up", "ok", "push", "totp", "error", "done"}
    PROVE  /\ [call EXCEPT ![c].pc = pc] \in [Calls -> CallState]
           /\ [call EXCEPT ![c].waits = FALSE] \in [Calls -> CallState]
           /\ [call EXCEPT ![c].pc = pc, ![c].waits = FALSE] \in [Calls -> CallState]
           /\ call[c] \in CallState
  <1>1. call \in [Calls -> CallState]
    BY DEF TypeOK
  <1>2. /\ [call[c] EXCEPT !.pc = pc] \in CallState
        /\ [call[c] EXCEPT !.waits = FALSE] \in CallState
        /\ [call[c] EXCEPT !.pc = pc, !.waits = FALSE] \in CallState
    BY <1>1 DEF CallState
  <1> QED
    BY <1>1, <1>2

\* A row stays a row when the app marks it.
LEMMA RowMoves ==
    ASSUME TypeOK, NEW s \in Servers, NEW b \in BOOLEAN, NEW t \in BOOLEAN
    PROVE  /\ [view[s] EXCEPT !.connecting = b] \in RowState
           /\ [view[s] EXCEPT !.connecting = b, !.connected = t] \in RowState
  <1>1. view \in [Servers -> RowState]
    BY DEF TypeOK
  <1> QED
    BY <1>1 DEF RowState

\* A run stays a record as it goes on.
LEMMA RunMoves ==
    ASSUME TypeOK, NEW r \in Runs
    PROVE  /\ [run EXCEPT ![r].pc = "poll"] \in [Runs -> RunState]
           /\ [run EXCEPT ![r].pc = "load"] \in [Runs -> RunState]
           /\ \A c \in Calls :
                  [run EXCEPT ![r].pc = "connect", ![r].call = c] \in [Runs -> RunState]
  <1>1. run \in [Runs -> RunState]
    BY DEF TypeOK
  <1>2. /\ [run[r] EXCEPT !.pc = "poll"] \in RunState
        /\ [run[r] EXCEPT !.pc = "load"] \in RunState
        /\ \A c \in Calls : [run[r] EXCEPT !.pc = "connect", !.call = c] \in RunState
    BY <1>1 DEF RunState
  <1> QED
    BY <1>1, <1>2

\* Every step keeps the state well typed.
LEMMA TypeStep ==
    ASSUME ConstantsOK, TypeOK, SheetInv, NamedInv, [Next]_vars
    PROVE  TypeOK'
  <1> USE DEF go, store, prompt
  <1>1. ASSUME NEW c \in Calls, SessionCreated(c) PROVE TypeOK'
    BY <1>1, CallMoves DEF SessionCreated, TypeOK
  <1>2. ASSUME NEW c \in Calls, SessionRefused(c) PROVE TypeOK'
    <2>1. SecondFactors \subseteq {"push", "totp"}
      BY DEF ConstantsOK
    <2>2. PICK answer \in {"error", "push", "totp"} : call' = [call EXCEPT ![c].pc = answer]
      BY <1>2, <2>1 DEF SessionRefused
    <2>3. call' \in [Calls -> CallState]
      BY <2>2, CallMoves
    <2> QED
      BY <1>2, <2>3 DEF SessionRefused, TypeOK
  <1>3. ASSUME NEW c \in Calls, TunnelUp(c) PROVE TypeOK'
    BY <1>3, CallMoves DEF TunnelUp, TypeOK
  <1>24. ASSUME NEW c \in Calls, SessionRecorded(c) PROVE TypeOK'
    <2>1. call' \in [Calls -> CallState] /\ call[c] \in CallState
      BY <1>24, CallMoves DEF SessionRecorded
    <2>2. mSessions' \in [Servers -> Calls \union {None}]
      BY <1>24, <2>1 DEF SessionRecorded, TypeOK
    <2> QED
      BY <1>24, <2>1, <2>2 DEF SessionRecorded, TypeOK
  <1>4. ASSUME NEW c \in Calls, TunnelFails(c) PROVE TypeOK'
    BY <1>4, CallMoves DEF TunnelFails, TypeOK
  <1>5. ASSUME NEW c \in Calls, KeepaliveFails(c) PROVE TypeOK'
    BY <1>5 DEF KeepaliveFails, TypeOK
  <1>6. CASE StartLoad
    BY <1>6 DEF StartLoad, TypeOK, Active
  <1>7. ASSUME NEW ids \in SUBSET Servers, LoadServers(ids) \/ LoadFails(ids) PROVE TypeOK'
    <2>1. view' \in [Servers -> RowState]
      <3>1. CASE LoadFails(ids)
        BY <3>1 DEF LoadFails, TypeOK
      <3>2. CASE LoadServers(ids)
        BY <3>2 DEF LoadServers, RowState
      <3> QED
        BY <1>7, <3>1, <3>2
    <2>2. loads' \subseteq SUBSET Servers
      BY <1>7 DEF LoadServers, LoadFails, TypeOK
    <2> QED
      BY <1>7, <2>1, <2>2 DEF LoadServers, LoadFails, TypeOK
  <1>8. CASE SubmitCode
    <2>0. sheet \in SheetState
      BY DEF TypeOK
    <2>1. /\ sheet.srv \in Servers
          /\ [sheet EXCEPT !.driven = FALSE, !.loading = TRUE] \in SheetState
          /\ [view[sheet.srv] EXCEPT !.connecting = TRUE] \in RowState
      <3>1. sheet.srv \in Servers
        BY <1>8, <2>0 DEF SubmitCode, SheetState
      <3> QED
        BY <2>0, <3>1, RowMoves DEF SheetState
    <2>2. sheet' \in SheetState /\ own' \in OwnState
      BY <1>8, <2>1, SheetTyped DEF SubmitCode
    <2>3. view' \in [Servers -> RowState]
      BY <1>8, <2>1, RowTyped DEF SubmitCode
    <2>4. run' \in [Runs -> RunState]
      BY <1>8, CancelTyped DEF SubmitCode
    <2>5. BeginConnect(sheet.srv, "submit")
      BY <1>8 DEF SubmitCode
    <2> QED
      BY <1>8, <2>1, <2>2, <2>3, <2>4, <2>5, BeginTyped DEF SubmitCode, TypeOK
  <1>9. CASE SwitchToCode \/ UsePush \/ CancelSheet
    <2>1. PICK sh \in SheetState : SetSheet(sh)
      <3>1. /\ [sheet EXCEPT !.mode = "totp", !.driven = FALSE] \in SheetState
            /\ [sheet EXCEPT !.mode = "push"] \in SheetState
            /\ [sheet EXCEPT !.driven = FALSE, !.srv = NoServer] \in SheetState
        BY DEF TypeOK, SheetState
      <3> QED
        BY <1>9, <3>1 DEF SwitchToCode, UsePush, CancelSheet
    <2>2. sheet' \in SheetState /\ own' \in OwnState
      BY <2>1, SheetTyped
    <2>3. run' \in [Runs -> RunState]
      BY <1>9, CancelTyped DEF SwitchToCode, UsePush, CancelSheet, TypeOK
    <2> QED
      BY <1>9, <2>2, <2>3 DEF SwitchToCode, UsePush, CancelSheet, TypeOK
  <1>10. CASE OwnCreate \/ OwnRefused \/ OwnOvertaken
    BY <1>10, SMTT(30) DEF OwnCreate, OwnRefused, OwnOvertaken, TypeOK, OwnState
  <1>11. CASE OwnApproved
    <2>1. sheet \in SheetState /\ own \in OwnState
      BY DEF TypeOK
    <2>2. sheet.srv \in Servers
      BY <1>11, <2>1 DEF OwnApproved, SheetInv, OwnPolls, SheetState
    <2>3. sheet' \in SheetState /\ own' \in OwnState
      BY <1>11, <2>1 DEF OwnApproved, SheetState, OwnState
    <2>4. BeginConnect(sheet.srv, "own")
      BY <1>11 DEF OwnApproved
    <2> QED
      BY <1>11, <2>2, <2>3, <2>4, BeginTyped DEF OwnApproved, TypeOK
  <1>12. ASSUME NEW s \in Servers, ConnectManaged(s) PROVE TypeOK'
    <2>1. view' \in [Servers -> RowState]
      <3>1. [view[s] EXCEPT !.connecting = TRUE] \in RowState
        BY RowMoves
      <3> QED
        BY <1>12, <3>1, RowTyped DEF ConnectManaged
    <2>2. BeginConnect(s, "connect")
      BY <1>12 DEF ConnectManaged
    <2> QED
      BY <1>12, <2>1, <2>2, BeginTyped DEF ConnectManaged, TypeOK
  <1>13. ASSUME NEW c \in Calls, ConnectTimeout(c) PROVE TypeOK'
    <2>1. call' \in [Calls -> CallState]
      BY <1>13, CallMoves DEF ConnectTimeout
    <2> QED
      BY <1>13, <2>1, WaitFailsTyped DEF ConnectTimeout, TypeOK
  <1>14. ASSUME NEW c \in Calls, CallSucceeds(c) PROVE TypeOK'
    <2>1. call' \in [Calls -> CallState]
      BY <1>14, CallMoves DEF CallSucceeds
    <2>2. view' \in [Servers -> RowState]
      <3>1. CASE call[c].srv \in Servers
        <4>1. Connected(c) \in RowState
          BY <3>1, RowMoves DEF Connected
        <4>2. SetRow(call[c].srv, Connected(c)) \in [Servers -> RowState]
          BY <4>1, RowTyped
        <4> QED
          BY <1>14, <4>2 DEF CallSucceeds, TypeOK
      <3>2. CASE call[c].srv \notin Servers
        <4>1. SetRow(call[c].srv, Connected(c)) = view
          BY <3>2 DEF SetRow, TypeOK
        <4> QED
          BY <1>14, <4>1 DEF CallSucceeds, TypeOK
      <3> QED
        BY <3>1, <3>2
    <2>3. sheet' \in SheetState /\ own' \in OwnState
      <3>1. /\ [sheet EXCEPT !.srv = NoServer, !.driven = FALSE, !.avail = FALSE] \in SheetState
            /\ [sheet EXCEPT !.srv = NoServer, !.loading = FALSE] \in SheetState
        <4>1. sheet \in SheetState
          BY DEF TypeOK
        <4> QED
          BY <4>1 DEF SheetState
      <3> QED
        BY <1>14, <3>1, SheetTyped DEF CallSucceeds, TypeOK
    <2>4. run' \in [Runs -> RunState]
      <3>1. run \in [Runs -> RunState]
        BY DEF TypeOK
      <3>2. CASE run' = run
        BY <3>1, <3>2
      <3>3. CASE \E r \in Runs : run' = [run EXCEPT ![r].pc = "load"]
        BY <3>3, RunMoves
      <3> QED
        BY <1>14, <3>2, <3>3 DEF CallSucceeds
    <2>5. loads' \subseteq SUBSET Servers
      <3>1. loads \subseteq SUBSET Servers /\ Active \in SUBSET Servers
        BY DEF TypeOK, Active
      <3> QED
        BY <1>14, <3>1 DEF CallSucceeds
    <2> QED
      BY <1>14, <2>1, <2>2, <2>3, <2>4, <2>5 DEF CallSucceeds, TypeOK
  <1>15. ASSUME NEW c \in Calls, CallFails(c) PROVE TypeOK'
    <2>1. call' \in [Calls -> CallState] /\ call[c] \in CallState
      BY <1>15, CallMoves DEF CallFails
    <2>2. view' \in [Servers -> RowState]
      <3>1. CASE call[c].srv \in Servers
        <4>1. [view[call[c].srv] EXCEPT !.connecting = FALSE] \in RowState
          BY <3>1, RowMoves
        <4> QED
          BY <1>15, <4>1, RowTyped DEF CallFails, TypeOK
      <3>2. CASE call[c].srv \notin Servers
        BY <1>15, <3>2, ZenonT(40) DEF CallFails, SetRow, TypeOK
      <3> QED
        BY <3>1, <3>2
    <2>3. ASSUME StartRun(call[c].srv)
          PROVE  /\ pending' \in Servers \union {NoServer}
                 /\ run' \in [Runs -> RunState] /\ ref' \in Runs \union {None}
                 /\ pushStatus' \in {"pending", "approved", "refused"}
                 /\ sheet' \in SheetState /\ own' \in OwnState
      <3>1. call[c].srv \in Servers \union {NoServer}
        BY <2>1 DEF CallState
      <3>2. [sheet EXCEPT !.srv = call[c].srv, !.avail = TRUE, !.driven = TRUE] \in SheetState
        BY <3>1 DEF TypeOK, SheetState
      <3>3. sheet' \in SheetState /\ own' \in OwnState
        BY <2>3, <3>2, SheetTyped DEF StartRun
      <3>4. PICK r \in FreeRuns :
                /\ run' = [CancelRef EXCEPT ![r] =
                        [pc |-> "create", srv |-> call[c].srv, cancelled |-> FALSE, call |-> None]]
                /\ ref' = r
        BY <2>3 DEF StartRun
      <3>5. run' \in [Runs -> RunState] /\ ref' \in Runs
        BY <3>1, <3>4, CancelTyped DEF FreeRuns, RunState
      <3> QED
        BY <2>3, <3>1, <3>3, <3>5 DEF StartRun
    <2>4. ASSUME AskForCode(call[c].srv)
          PROVE  /\ pending' = NoServer /\ UNCHANGED <<run, ref, pushStatus>>
                 /\ sheet' \in SheetState /\ own' \in OwnState
      <3>1. [sheet EXCEPT !.srv = call[c].srv, !.avail = FALSE, !.driven = FALSE] \in SheetState
        BY <2>1 DEF TypeOK, SheetState, CallState
      <3> QED
        BY <2>4, <3>1, SheetTyped DEF AskForCode
    <2>5. /\ pending' \in Servers \union {NoServer}
          /\ run' \in [Runs -> RunState] /\ ref' \in Runs \union {None}
          /\ pushStatus' \in {"pending", "approved", "refused"}
          /\ sheet' \in SheetState /\ own' \in OwnState
      <3>1. UNCHANGED prompt \/ StartRun(call[c].srv) \/ AskForCode(call[c].srv) \/ WaitFails(c)
        BY <1>15 DEF CallFails
      <3>2. CASE UNCHANGED prompt
        BY <3>2 DEF TypeOK
      <3>3. CASE AskForCode(call[c].srv)
        BY <2>4, <3>3 DEF TypeOK
      <3> QED
        BY <2>3, <3>1, <3>2, <3>3, WaitFailsTyped
    <2> QED
      BY <1>15, <2>1, <2>2, <2>5 DEF CallFails, TypeOK
  <1>16. ASSUME NEW r \in Runs, RunCreate(r) PROVE TypeOK'
    <2>1. CASE run' = [run EXCEPT ![r].pc = "poll"] /\ UNCHANGED <<ref, pushStatus>>
      <3>1. run' \in [Runs -> RunState]
        BY <2>1, RunMoves
      <3> QED
        BY <1>16, <2>1, <3>1 DEF RunCreate, TypeOK
    <2>2. CASE RunFails(r)
      BY <1>16, <2>2, RunEndsTyped DEF RunCreate, RunFails, TypeOK
    <2> QED
      BY <1>16, <2>1, <2>2 DEF RunCreate
  <1>17. ASSUME NEW r \in Runs, RunCancelled(r) \/ RunRefused(r) \/ RunLoaded(r) PROVE TypeOK'
    BY <1>17, RunEndsTyped DEF RunCancelled, RunRefused, RunLoaded, TypeOK
  <1>18. ASSUME NEW r \in Runs, RunApproved(r) PROVE TypeOK'
    <2>1. run \in [Runs -> RunState]
      BY DEF TypeOK
    <2>2. BeginConnect(run[r].srv, "run")
      BY <1>18 DEF RunApproved
    <2>3. run[r].srv \in Servers
      BY <1>18 DEF RunApproved, NamedInv
    <2>4. run' \in [Runs -> RunState]
      BY <1>18, <2>2, <2>3, BeginTyped, RunMoves DEF RunApproved, FreeCalls
    <2> QED
      BY <1>18, <2>2, <2>3, <2>4, BeginTyped DEF RunApproved, TypeOK
  <1>19. ASSUME NEW c \in Calls, Disconnect(c) PROVE TypeOK'
    <2> DEFINE owners == {s \in Servers : mSessions[s] = c}
    <2>1. /\ mSessions' \in [Servers -> Calls \union {None}]
          /\ alive' \subseteq Calls /\ tunnels' \subseteq Calls
      <3>1. CASE TearDown(owners)
        BY <3>1, TearDownTyped
      <3>2. CASE tunnels' = tunnels \ {c} /\ UNCHANGED <<mSessions, alive>>
        BY <3>2 DEF TypeOK
      <3> QED
        BY <1>19, <3>1, <3>2 DEF Disconnect
    <2>2. loads' \subseteq SUBSET Servers
      BY <1>19 DEF Disconnect, TypeOK, Active
    <2>3. tangled' \subseteq Servers
      BY <1>19 DEF Disconnect, TypeOK
    <2> QED
      BY <1>19, <2>1, <2>2, <2>3 DEF Disconnect, TypeOK
  <1>20. CASE Logout
    BY <1>20, TearDownTyped DEF Logout, TypeOK
  <1>25. CASE LoggedOut
    BY <1>25 DEF LoggedOut, TypeOK, NoRow, RowState
  <1>21. CASE Login
    BY <1>21 DEF Login, TypeOK, Active
  <1>22. CASE ClearPending
    BY <1>22 DEF ClearPending, TypeOK
  <1>23. CASE UNCHANGED vars
    BY <1>23 DEF vars, TypeOK
  <1> QED
    BY <1>1, <1>2, <1>3, <1>4, <1>5, <1>6, <1>7, <1>8, <1>9, <1>10, <1>11, <1>12, <1>13,
       <1>14, <1>15, <1>16, <1>17, <1>18, <1>19, <1>20, <1>21, <1>22, <1>23,
       <1>24, <1>25
       DEF Next, User, GoSide, Window

-----------------------------------------------------------------------------
(* The sheet. *)

\* What the props and the buttons may make of the sheet keeps its invariant.
LEMMA SheetKept ==
    ASSUME TypeOK, SheetInv, NEW sh \in SheetState, SetSheet(sh),
           sh.srv \in {sheet.srv, NoServer} \/ sh.driven \/ ~sh.avail,
           sh.mode = "push" => sheet.mode = "push" \/ sheet.avail
    PROVE  SheetInv'
  <1>1. sheet \in SheetState /\ own \in OwnState
    BY DEF TypeOK
  <1> DEFINE opened == sh.srv # NoServer /\ (sheet.srv = NoServer \/ sh.avail # sheet.avail)
             new == IF opened
                    THEN [sh EXCEPT !.mode = IF sh.avail THEN "push" ELSE "totp", !.loading = FALSE]
                    ELSE sh
  <1>2. /\ new \in SheetState /\ sheet' = new
        /\ new.srv = sh.srv /\ new.avail = sh.avail /\ new.driven = sh.driven
        /\ opened => new.mode = (IF sh.avail THEN "push" ELSE "totp")
        /\ ~opened => new.mode = sh.mode
    BY DEF SetSheet, SheetState
  <1>3. /\ ~OwnPolls(new) => own' = NoOwn
        /\ OwnPolls(new) /\ OwnPolls(sheet) => own' = own
        /\ OwnPolls(new) /\ ~OwnPolls(sheet) => own'.srv = new.srv
    BY DEF SetSheet
  <1> HIDE DEF new
  <1>4. new.srv # NoServer /\ new.mode = "push" => new.avail
    BY <1>1, <1>2 DEF SheetInv, SheetState
  <1>5. own'.pc # "off" => OwnPolls(new) /\ own'.srv = new.srv
    BY <1>1, <1>2, <1>3, <1>4 DEF SheetInv, OwnPolls, NoOwn, SheetState
  <1> QED
    BY <1>2, <1>4, <1>5 DEF SheetInv, OwnPolls

\* Every step keeps the sheet and its own poll in agreement.
LEMMA SheetStep ==
    ASSUME ConstantsOK, TypeOK, SheetInv, NamedInv, [Next]_vars
    PROVE  SheetInv'
  <1> USE DEF go, store, prompt
  <1>0. sheet \in SheetState /\ own \in OwnState
    BY DEF TypeOK
  <1>1. CASE UNCHANGED <<sheet, own>>
    BY <1>1 DEF SheetInv, OwnPolls
  <1>2. CASE SubmitCode \/ SwitchToCode \/ UsePush \/ CancelSheet
    <2> DEFINE sh1 == [sheet EXCEPT !.driven = FALSE, !.loading = TRUE]
               sh2 == [sheet EXCEPT !.mode = "totp", !.driven = FALSE]
               sh3 == [sheet EXCEPT !.driven = FALSE, !.srv = NoServer]
               sh4 == [sheet EXCEPT !.mode = "push"]
    <2>1. \/ SetSheet(sh1) \/ SetSheet(sh2) \/ SetSheet(sh3)
          \/ sheet.avail /\ SetSheet(sh4)
      BY <1>2 DEF SubmitCode, SwitchToCode, UsePush, CancelSheet
    <2>2. /\ sh1 \in SheetState /\ sh1.srv = sheet.srv /\ sh1.mode = sheet.mode
          /\ sh2 \in SheetState /\ sh2.srv = sheet.srv /\ sh2.mode = "totp"
          /\ sh3 \in SheetState /\ sh3.srv = NoServer /\ sh3.mode = sheet.mode
          /\ sh4 \in SheetState /\ sh4.srv = sheet.srv
      BY <1>0 DEF SheetState
    <2> HIDE DEF sh1, sh2, sh3, sh4
    <2> QED
      BY <2>1, <2>2, SheetKept
  <1>3. CASE OwnCreate \/ OwnRefused \/ OwnApproved \/ OwnOvertaken
    <2>1. own.pc # "off" /\ own'.srv = own.srv
      BY <1>0, <1>3 DEF OwnCreate, OwnRefused, OwnApproved, OwnOvertaken, OwnState
    <2>2. /\ sheet'.srv = sheet.srv /\ sheet'.mode = sheet.mode
          /\ sheet'.driven = sheet.driven /\ sheet'.avail = sheet.avail
      BY <1>0, <1>3 DEF OwnCreate, OwnRefused, OwnApproved, OwnOvertaken, SheetState
    <2> QED
      BY <2>1, <2>2 DEF SheetInv, OwnPolls
  <1>4. ASSUME NEW c \in Calls, WaitFails(c) PROVE SheetInv'
    <2>1. CASE UNCHANGED <<sheet, own>>
      BY <2>1 DEF SheetInv, OwnPolls
    <2>2. CASE SetSheet([sheet EXCEPT !.loading = FALSE])
      <3>1. /\ [sheet EXCEPT !.loading = FALSE] \in SheetState
            /\ [sheet EXCEPT !.loading = FALSE].srv = sheet.srv
            /\ [sheet EXCEPT !.loading = FALSE].mode = sheet.mode
        BY <1>0 DEF SheetState
      <3> QED
        BY <2>2, <3>1, SheetKept
    <2> QED
      BY <1>4, <2>1, <2>2 DEF WaitFails
  <1>5. ASSUME NEW c \in Calls, CallSucceeds(c) PROVE SheetInv'
    <2> DEFINE sh1 == [sheet EXCEPT !.srv = NoServer, !.driven = FALSE, !.avail = FALSE]
               sh2 == [sheet EXCEPT !.srv = NoServer, !.loading = FALSE]
    <2>1. SetSheet(sh1) \/ SetSheet(sh2) \/ UNCHANGED <<sheet, own>>
      BY <1>5 DEF CallSucceeds
    <2>2. /\ sh1 \in SheetState /\ sh1.srv = NoServer /\ sh1.mode = sheet.mode
          /\ sh2 \in SheetState /\ sh2.srv = NoServer /\ sh2.mode = sheet.mode
      BY <1>0 DEF SheetState
    <2> HIDE DEF sh1, sh2
    <2> QED
      BY <1>1, <2>1, <2>2, SheetKept
  <1>6. ASSUME NEW c \in Calls, CallFails(c) PROVE SheetInv'
    <2>1. call[c].srv \in Servers
      BY <1>6 DEF CallFails, NamedInv
    <2>2. CASE StartRun(call[c].srv)
      <3> DEFINE sh == [sheet EXCEPT !.srv = call[c].srv, !.avail = TRUE, !.driven = TRUE]
      <3>1. sh \in SheetState /\ sh.driven /\ sh.avail /\ sh.mode = sheet.mode
        BY <1>0, <2>1 DEF SheetState
      <3>2. SetSheet(sh)
        BY <2>2 DEF StartRun
      <3> HIDE DEF sh
      <3> QED
        BY <3>1, <3>2, SheetKept
    <2>3. CASE AskForCode(call[c].srv)
      <3> DEFINE sh == [sheet EXCEPT !.srv = call[c].srv, !.avail = FALSE, !.driven = FALSE]
      <3>1. sh \in SheetState /\ ~sh.avail /\ sh.mode = sheet.mode
        BY <1>0, <2>1 DEF SheetState
      <3>2. SetSheet(sh)
        BY <2>3 DEF AskForCode
      <3> HIDE DEF sh
      <3> QED
        BY <3>1, <3>2, SheetKept
    <2> QED
      BY <1>1, <1>4, <1>6, <2>2, <2>3 DEF CallFails
  <1>7. ASSUME NEW c \in Calls, ConnectTimeout(c) PROVE SheetInv'
    BY <1>4, <1>7 DEF ConnectTimeout
  <1>8. UNCHANGED <<sheet, own>> \/ SubmitCode \/ SwitchToCode \/ UsePush \/ CancelSheet
        \/ OwnCreate \/ OwnRefused \/ OwnApproved \/ OwnOvertaken
        \/ \E c \in Calls : CallSucceeds(c) \/ CallFails(c) \/ ConnectTimeout(c)
    BY DEF Next, User, GoSide, Window, vars, SessionCreated, SessionRefused, TunnelUp, TunnelFails,
           SessionRecorded, KeepaliveFails, StartLoad, LoadServers, LoadFails, ConnectManaged,
           Disconnect, Logout, LoggedOut,
           Login, ClearPending, RunCreate, RunCancelled, RunRefused, RunApproved, RunLoaded
  <1> QED
    BY <1>1, <1>2, <1>3, <1>5, <1>6, <1>7, <1>8

-----------------------------------------------------------------------------
(* Runs. *)

\* After CancelRef, only runs that were not in pushConnectRef may be live.
LEMMA Cancelled ==
    ASSUME TypeOK
    PROVE  /\ \A r \in Runs : /\ CancelRef[r].pc = run[r].pc /\ CancelRef[r].srv = run[r].srv
                              /\ CancelRef[r].call = run[r].call
           /\ \A r \in Runs : ~CancelRef[r].cancelled => ~run[r].cancelled /\ ref # r
  <1>1. run \in [Runs -> RunState] /\ ref \in Runs \union {None}
    BY DEF TypeOK
  <1> QED
    BY <1>1 DEF CancelRef, RunState

\* What RunEnds leaves of the runs.
LEMMA Ended ==
    ASSUME TypeOK, NEW r, RunEnds(r)
    PROVE  /\ \A q \in Runs : q # r => run'[q] = run[q]
           /\ r \in Runs => run'[r].pc = "done" /\ run'[r].call = None
           /\ ref # r => ref' = ref
           /\ ref = r => ref' = None
  BY DEF TypeOK, RunEnds, FreeRun

\* A new run is the only one that is neither over nor cancelled.
LEMMA Started ==
    ASSUME ConstantsOK, TypeOK, NEW s \in Servers, StartRun(s)
    PROVE  /\ ref' \in Runs /\ run[ref'].pc = "free"
           /\ run'[ref'].pc = "create" /\ run'[ref'].srv = s
           /\ run'[ref'].call = None /\ ~run'[ref'].cancelled
           /\ \A r \in Runs : r # ref' =>
                  /\ run'[r].pc = run[r].pc /\ run'[r].srv = run[r].srv
                  /\ run'[r].call = run[r].call
                  /\ ~run'[r].cancelled => ~run[r].cancelled /\ ref # r
           /\ sheet'.srv = s /\ sheet'.driven
  <1>1. PICK n \in FreeRuns :
            /\ run' = [CancelRef EXCEPT ![n] =
                           [pc |-> "create", srv |-> s, cancelled |-> FALSE, call |-> None]]
            /\ ref' = n
    BY DEF StartRun
  <1>2. CancelRef \in [Runs -> RunState]
    BY CancelTyped
  <1>3. sheet \in SheetState
    BY DEF TypeOK
  <1>4. SetSheet([sheet EXCEPT !.srv = s, !.avail = TRUE, !.driven = TRUE])
    BY DEF StartRun
  <1>5. sheet'.srv = s /\ sheet'.driven
    BY <1>3, <1>4 DEF SetSheet, SheetState
  <1>6. /\ ref' \in Runs /\ run[ref'].pc = "free"
        /\ run'[ref'] = [pc |-> "create", srv |-> s, cancelled |-> FALSE, call |-> None]
        /\ \A r \in Runs : r # ref' => run'[r] = CancelRef[r]
    BY <1>1, <1>2 DEF FreeRuns
  <1> QED
    BY <1>5, <1>6, Cancelled

-----------------------------------------------------------------------------
(* Calls. *)

\* A call that begins, and the others beside it.
LEMMA Began ==
    ASSUME ConstantsOK, TypeOK, NEW s \in Servers, NEW by \in {"connect", "submit", "own", "run"},
           BeginConnect(s, by)
    PROVE  /\ NewCall \in Calls /\ call[NewCall].pc = "free"
           /\ call'[NewCall].srv = s
           /\ call'[NewCall].pc = (IF client THEN "begun" ELSE "error")
           /\ \A c \in Calls : c # NewCall => call'[c] = call[c]
  <1>1. NewCall \in FreeCalls
    BY BeginTyped
  <1>2. call \in [Calls -> CallState]
    BY DEF TypeOK
  <1> QED
    BY <1>1, <1>2 DEF BeginConnect, FreeCalls

\* The calls that began before go on: nothing but where they are changes.
CallsGoOn ==
    \A c \in Calls :
        /\ call'[c].srv = call[c].srv
        /\ call'[c].pc = "free" <=> call[c].pc = "free"
        /\ call'[c].pc \in {"begun", "session", "up"} => InGo(c)
        /\ call[c].pc \in {"ok", "done"} => call'[c].pc \in {"ok", "done"}

Begins == \E s \in Servers : \E by \in {"connect", "submit", "own", "run"} : BeginConnect(s, by)

\* A step begins one call, or moves calls on without naming another server.
LEMMA CallsBeginOrGoOn ==
    ASSUME ConstantsOK, TypeOK, SheetInv, NamedInv, [Next]_vars
    PROVE  Begins \/ CallsGoOn
  <1> USE DEF go, store, prompt
  <1>0. call \in [Calls -> CallState] /\ sheet \in SheetState
    BY DEF TypeOK
  <1>1. CASE call' = call
    BY <1>1 DEF CallsGoOn, InGo
  <1>2. ASSUME NEW c \in Calls, NEW pc \in {"session", "up", "ok", "push", "totp", "error"},
               InGo(c), call' = [call EXCEPT ![c].pc = pc]
        PROVE  CallsGoOn
    BY <1>0, <1>2 DEF CallsGoOn, InGo, CallState
  <1>3. ASSUME NEW c \in Calls,
               \/ SessionCreated(c) \/ SessionRefused(c)
               \/ TunnelUp(c) \/ TunnelFails(c) \/ SessionRecorded(c)
        PROVE  CallsGoOn
    <2>1. SecondFactors \subseteq {"push", "totp"}
      BY DEF ConstantsOK
    <2>2. CASE SessionRefused(c)
      <3>1. PICK answer \in {"error", "push", "totp"} : call' = [call EXCEPT ![c].pc = answer]
        BY <2>1, <2>2 DEF SessionRefused
      <3> QED
        BY <1>2, <2>2, <3>1 DEF SessionRefused, InGo
    <2> QED
      BY <1>2, <1>3, <2>2 DEF SessionCreated, TunnelUp, SessionRecorded, TunnelFails, InGo
  <1>4. ASSUME NEW c \in Calls, ConnectTimeout(c) PROVE CallsGoOn
    BY <1>0, <1>4 DEF ConnectTimeout, CallsGoOn, InGo, CallState
  <1>5. ASSUME NEW c \in Calls, CallSucceeds(c) \/ CallFails(c) PROVE CallsGoOn
    <2>1. /\ call' = [call EXCEPT ![c].pc = "done", ![c].waits = FALSE]
          /\ call[c].pc \in {"ok", "push", "totp", "error"}
      BY <1>5 DEF CallSucceeds, CallFails
    <2> QED
      BY <1>0, <2>1 DEF CallsGoOn, InGo, CallState
  <1>6. CASE SubmitCode \/ OwnApproved
    <2>1. sheet.srv \in Servers
      BY <1>0, <1>6 DEF SubmitCode, OwnApproved, SheetInv, OwnPolls, SheetState
    <2> QED
      BY <1>6, <2>1 DEF SubmitCode, OwnApproved, Begins
  <1>7. ASSUME NEW s \in Servers, ConnectManaged(s) PROVE Begins
    BY <1>7 DEF ConnectManaged, Begins
  <1>8. ASSUME NEW r \in Runs, RunApproved(r) PROVE Begins
    BY <1>8 DEF RunApproved, NamedInv, Begins
  <1>9. \/ call' = call \/ SubmitCode \/ OwnApproved
        \/ \E c \in Calls : \/ SessionCreated(c) \/ SessionRefused(c) \/ TunnelUp(c) \/ TunnelFails(c)
                            \/ SessionRecorded(c) \/ ConnectTimeout(c) \/ CallSucceeds(c) \/ CallFails(c)
        \/ \E s \in Servers : ConnectManaged(s)
        \/ \E r \in Runs : RunApproved(r)
    BY DEF Next, User, GoSide, Window, vars, KeepaliveFails, StartLoad, LoadServers, LoadFails,
           Disconnect, Logout, LoggedOut, Login, ClearPending, SwitchToCode, UsePush, CancelSheet,
           OwnCreate, OwnRefused, OwnOvertaken, RunCreate, RunCancelled, RunRefused, RunLoaded
  <1> QED
    BY <1>1, <1>3, <1>4, <1>5, <1>6, <1>7, <1>8, <1>9

\* How runs change, but for one that starts or ends: they keep their server,
\* the cancelled stay so, and none becomes live.
RunsGoOn ==
    /\ ref' = ref
    /\ \A r \in Runs :
        /\ run'[r].srv = run[r].srv
        /\ run'[r].pc \notin {"free", "done"} => run[r].pc \notin {"free", "done"}
        /\ run'[r].pc \in {"free", "done"} =>
               run[r].pc \in {"free", "done"} /\ run'[r].call = run[r].call
        /\ ~run'[r].cancelled => ~run[r].cancelled

\* A step starts one run, ends one, or moves runs on.
LEMMA RunsStartOrEndOrGoOn ==
    ASSUME ConstantsOK, TypeOK, NamedInv, [Next]_vars
    PROVE  \/ \E c \in Calls : call[c].srv \in Servers /\ StartRun(call[c].srv)
           \/ \E r : RunEnds(r)
           \/ RunsGoOn
  <1> USE DEF go, store, prompt
  <1>0. run \in [Runs -> RunState]
    BY DEF TypeOK
  <1>1. ASSUME run' = run /\ ref' = ref PROVE RunsGoOn
    BY <1>1 DEF RunsGoOn
  <1>2. CASE run' = CancelRef /\ ref' = ref
    BY <1>2, Cancelled DEF RunsGoOn
  <1>3. ASSUME NEW r \in Runs, RunCreate(r) \/ RunApproved(r) PROVE (\E q : RunEnds(q)) \/ RunsGoOn
    <2>1. CASE run' = [run EXCEPT ![r].pc = "poll"] /\ ref' = ref /\ run[r].pc = "create"
      BY <1>0, <2>1 DEF RunsGoOn, RunState
    <2>2. CASE RunApproved(r)
      <3>1. run' = [run EXCEPT ![r].pc = "connect", ![r].call = NewCall]
            /\ ref' = ref /\ run[r].pc = "poll"
        BY <2>2 DEF RunApproved
      <3> QED
        BY <1>0, <3>1 DEF RunsGoOn, RunState
    <2>3. CASE RunEnds(r)
      BY <2>3
    <2> QED
      BY <1>3, <2>1, <2>2, <2>3 DEF RunCreate, RunFails
  <1>4. ASSUME NEW r \in Runs, RunCancelled(r) \/ RunRefused(r) \/ RunLoaded(r)
        PROVE  \E q : RunEnds(q)
    BY <1>4 DEF RunCancelled, RunRefused, RunLoaded
  <1>5. ASSUME NEW c \in Calls, WaitFails(c) PROVE (\E q : RunEnds(q)) \/ RunsGoOn
    <2>1. (\E r \in Runs : RunFails(r)) \/ (run' = run /\ ref' = ref)
      BY <1>5 DEF WaitFails
    <2> QED
      BY <1>1, <2>1 DEF RunFails
  <1>6. ASSUME NEW c \in Calls, CallSucceeds(c) PROVE RunsGoOn
    <2>1. CASE run' = run
      BY <1>1, <1>6, <2>1 DEF CallSucceeds
    <2>2. CASE run' # run
      <3>1. PICK r \in Runs : run[r].call = c /\ run' = [run EXCEPT ![r].pc = "load"] /\ ref' = ref
        BY <1>6, <2>2 DEF CallSucceeds
      <3>2. run[r].pc \notin {"free", "done"}
        BY <3>1 DEF NamedInv
      <3> QED
        BY <1>0, <3>1, <3>2 DEF RunsGoOn, RunState
    <2> QED
      BY <2>1, <2>2
  <1>7. ASSUME NEW c \in Calls, CallFails(c)
        PROVE  \/ call[c].srv \in Servers /\ StartRun(call[c].srv)
               \/ \E r : RunEnds(r)
               \/ RunsGoOn
    <2>1. call[c].srv \in Servers
      BY <1>7 DEF CallFails, NamedInv
    <2>2. CASE AskForCode(call[c].srv) \/ UNCHANGED prompt
      <3>1. run' = run /\ ref' = ref
        BY <2>2 DEF AskForCode
      <3> QED
        BY <1>1, <3>1
    <2>3. CASE WaitFails(c)
      BY <1>5, <2>3
    <2>4. StartRun(call[c].srv) \/ AskForCode(call[c].srv) \/ UNCHANGED prompt \/ WaitFails(c)
      BY <1>7 DEF CallFails
    <2> QED
      BY <2>1, <2>2, <2>3, <2>4
  <1>8. ASSUME NEW c \in Calls, ConnectTimeout(c) PROVE (\E r : RunEnds(r)) \/ RunsGoOn
    BY <1>5, <1>8 DEF ConnectTimeout
  <1>9. \/ run' = run /\ ref' = ref
        \/ run' = CancelRef /\ ref' = ref
        \/ \E r \in Runs : \/ RunCreate(r) \/ RunApproved(r) \/ RunCancelled(r) \/ RunRefused(r)
                           \/ RunLoaded(r)
        \/ \E c \in Calls : CallSucceeds(c) \/ CallFails(c) \/ ConnectTimeout(c)
    BY DEF Next, User, GoSide, Window, vars, SessionCreated, SessionRefused, TunnelUp, TunnelFails,
           SessionRecorded, KeepaliveFails, StartLoad, LoadServers, LoadFails, Disconnect, Logout, LoggedOut, Login,
           ClearPending, ConnectManaged, SubmitCode, SwitchToCode, UsePush, CancelSheet, OwnCreate,
           OwnRefused, OwnApproved, OwnOvertaken
  <1> QED
    BY <1>1, <1>2, <1>3, <1>4, <1>6, <1>7, <1>8, <1>9

\* Every step keeps the servers that calls and runs name.
LEMMA NamedStep ==
    ASSUME ConstantsOK, TypeOK, SheetInv, NamedInv, [Next]_vars
    PROVE  NamedInv'
  <1>1. \A c \in Calls : call'[c].pc # "free" => call'[c].srv \in Servers
    <2>1. CASE Begins
      BY <2>1, Began DEF Begins, NamedInv
    <2>2. CASE CallsGoOn
      BY <2>2 DEF CallsGoOn, NamedInv
    <2> QED
      BY <2>1, <2>2, CallsBeginOrGoOn
  <1>2. \A r \in Runs : run'[r].pc \notin {"free", "done"} => run'[r].srv \in Servers
    <2>1. ASSUME NEW c \in Calls, call[c].srv \in Servers, StartRun(call[c].srv)
          PROVE  \A r \in Runs : run'[r].pc \notin {"free", "done"} => run'[r].srv \in Servers
      BY <2>1, Started DEF NamedInv
    <2>2. ASSUME NEW q, RunEnds(q)
          PROVE  \A r \in Runs : run'[r].pc \notin {"free", "done"} => run'[r].srv \in Servers
      BY <2>2, Ended DEF NamedInv
    <2>3. CASE RunsGoOn
      BY <2>3 DEF RunsGoOn, NamedInv
    <2> QED
      BY <2>1, <2>2, <2>3, RunsStartOrEndOrGoOn
  <1>3. \A r \in Runs : run'[r].pc \in {"free", "done"} => run'[r].call = None
    <2>1. ASSUME NEW c \in Calls, call[c].srv \in Servers, StartRun(call[c].srv)
          PROVE  \A r \in Runs : run'[r].pc \in {"free", "done"} => run'[r].call = None
      BY <2>1, Started DEF NamedInv
    <2>2. ASSUME NEW q, RunEnds(q)
          PROVE  \A r \in Runs : run'[r].pc \in {"free", "done"} => run'[r].call = None
      BY <2>2, Ended DEF NamedInv
    <2>3. CASE RunsGoOn
      BY <2>3 DEF RunsGoOn, NamedInv
    <2> QED
      BY <2>1, <2>2, <2>3, RunsStartOrEndOrGoOn
  <1> QED
    BY <1>1, <1>2, <1>3 DEF NamedInv

-----------------------------------------------------------------------------
(* One live run. *)

\* Every step keeps the runs that are neither over nor cancelled at one.
LEMMA OneLiveStep ==
    ASSUME ConstantsOK, TypeOK, NamedInv, OneLiveRun, [Next]_vars
    PROVE  OneLiveRun'
  <1>1. ASSUME NEW c \in Calls, call[c].srv \in Servers, StartRun(call[c].srv)
        PROVE  OneLiveRun'
    BY <1>1, Started DEF OneLiveRun
  <1>2. ASSUME NEW r, RunEnds(r) PROVE OneLiveRun'
    BY <1>2, Ended DEF OneLiveRun
  <1>3. CASE RunsGoOn
    BY <1>3 DEF RunsGoOn, OneLiveRun
  <1> QED
    BY <1>1, <1>2, <1>3, RunsStartOrEndOrGoOn

-----------------------------------------------------------------------------
(* What the sheet waits for. *)

\* What a prompt that is set says of its server.
LEMMA SheetSet ==
    ASSUME NEW sh \in SheetState, SetSheet(sh)
    PROVE  sheet'.srv = sh.srv /\ sheet'.driven = sh.driven
  BY DEF SetSheet, SheetState

\* Every step keeps what a wait is for.
LEMMA WaitStep ==
    ASSUME ConstantsOK, TypeOK, NamedInv, WaitInv, [Next]_vars
    PROVE  WaitInv'
  <1> USE DEF go, store, prompt
  <1>0. sheet \in SheetState /\ run \in [Runs -> RunState] /\ ref \in Runs \union {None}
    BY DEF TypeOK
  <1>1. ASSUME sheet'.srv = sheet.srv, sheet'.driven = sheet.driven,
               run' = run, ref' = ref, pushStatus' = pushStatus
        PROVE  WaitInv'
    BY <1>1 DEF WaitInv
  <1>2. ASSUME sheet'.srv = NoServer \/ ~sheet'.driven PROVE WaitInv'
    BY <1>2 DEF WaitInv
  <1>3. ASSUME NEW r, RunEnds(r), UNCHANGED sheet,
               \/ run[r].cancelled /\ pushStatus' = pushStatus
               \/ pushStatus' # "pending"
               \/ run[r].pc = "load" /\ pushStatus' = pushStatus
        PROVE  WaitInv'
    <2>1. CASE pushStatus' # "pending"
      BY <2>1 DEF WaitInv
    <2>2. CASE ref # r /\ pushStatus' = pushStatus
      BY <1>0, <1>3, <2>2, Ended DEF WaitInv
    <2>3. CASE ref = r /\ pushStatus' = pushStatus /\ (run[r].cancelled \/ run[r].pc = "load")
      BY <1>3, <2>3 DEF WaitInv
    <2> QED
      BY <1>3, <2>1, <2>2, <2>3
  <1>4. ASSUME NEW r, RunFails(r), UNCHANGED sheet PROVE WaitInv'
    BY <1>3, <1>4 DEF RunFails
  <1>5. ASSUME NEW c \in Calls, WaitFails(c) PROVE WaitInv'
    <2>1. CASE call[c].by = "run"
      BY <1>4, <1>5, <2>1 DEF WaitFails
    <2>2. CASE UNCHANGED <<run, ref, pushStatus, sheet, own>>
      BY <1>1, <2>2
    <2>3. CASE SetSheet([sheet EXCEPT !.loading = FALSE]) /\ UNCHANGED <<run, ref, pushStatus>>
      <3>1. /\ [sheet EXCEPT !.loading = FALSE] \in SheetState
            /\ [sheet EXCEPT !.loading = FALSE].srv = sheet.srv
            /\ [sheet EXCEPT !.loading = FALSE].driven = sheet.driven
        BY <1>0 DEF SheetState
      <3> QED
        BY <1>1, <2>3, <3>1, SheetSet
    <2> QED
      BY <1>5, <2>1, <2>2, <2>3 DEF WaitFails
  <1>6. CASE SubmitCode \/ SwitchToCode \/ CancelSheet
    <2> DEFINE sh1 == [sheet EXCEPT !.driven = FALSE, !.loading = TRUE]
               sh2 == [sheet EXCEPT !.mode = "totp", !.driven = FALSE]
               sh3 == [sheet EXCEPT !.driven = FALSE, !.srv = NoServer]
    <2>1. SetSheet(sh1) \/ SetSheet(sh2) \/ SetSheet(sh3)
      BY <1>6 DEF SubmitCode, SwitchToCode, CancelSheet
    <2>2. /\ sh1 \in SheetState /\ ~sh1.driven
          /\ sh2 \in SheetState /\ ~sh2.driven
          /\ sh3 \in SheetState /\ ~sh3.driven
      BY <1>0 DEF SheetState
    <2> HIDE DEF sh1, sh2, sh3
    <2> QED
      BY <1>2, <2>1, <2>2, SheetSet
  <1>7. CASE UsePush
    <2> DEFINE sh == [sheet EXCEPT !.mode = "push"]
    <2>1. SetSheet(sh)
      BY <1>7 DEF UsePush
    <2>2. sh \in SheetState /\ sh.srv = sheet.srv /\ sh.driven = sheet.driven
      BY <1>0 DEF SheetState
    <2> HIDE DEF sh
    <2> QED
      BY <1>1, <1>7, <2>1, <2>2, SheetSet DEF UsePush
  <1>8. CASE OwnApproved
    <2>1. sheet'.srv = sheet.srv /\ sheet'.driven = sheet.driven
      BY <1>0, <1>8 DEF OwnApproved, SheetState
    <2> QED
      BY <1>1, <1>8, <2>1 DEF OwnApproved
  <1>9. ASSUME NEW c \in Calls, CallSucceeds(c) PROVE WaitInv'
    <2> DEFINE sh1 == [sheet EXCEPT !.srv = NoServer, !.driven = FALSE, !.avail = FALSE]
               sh2 == [sheet EXCEPT !.srv = NoServer, !.loading = FALSE]
    <2>1. \/ SetSheet(sh1) \/ SetSheet(sh2)
          \/ UNCHANGED <<sheet, run, ref, pushStatus>>
      BY <1>9 DEF CallSucceeds
    <2>2. /\ sh1 \in SheetState /\ sh1.srv = NoServer
          /\ sh2 \in SheetState /\ sh2.srv = NoServer
      BY <1>0 DEF SheetState
    <2> HIDE DEF sh1, sh2
    <2> QED
      BY <1>1, <1>2, <2>1, <2>2, SheetSet
  <1>10. ASSUME NEW c \in Calls, CallFails(c) PROVE WaitInv'
    <2>1. call[c].srv \in Servers
      BY <1>10 DEF CallFails, NamedInv
    <2>2. CASE StartRun(call[c].srv)
      BY <2>1, <2>2, Started DEF WaitInv
    <2>3. CASE AskForCode(call[c].srv)
      <3> DEFINE sh == [sheet EXCEPT !.srv = call[c].srv, !.avail = FALSE, !.driven = FALSE]
      <3>1. sh \in SheetState /\ ~sh.driven
        BY <1>0, <2>1 DEF SheetState
      <3>2. SetSheet(sh)
        BY <2>3 DEF AskForCode
      <3> HIDE DEF sh
      <3> QED
        BY <1>2, <3>1, <3>2, SheetSet
    <2>4. CASE UNCHANGED prompt
      BY <1>1, <2>4
    <2> QED
      BY <1>5, <1>10, <2>2, <2>3, <2>4 DEF CallFails
  <1>11. ASSUME NEW c \in Calls, ConnectTimeout(c) PROVE WaitInv'
    BY <1>5, <1>11 DEF ConnectTimeout
  <1>12. ASSUME NEW r \in Runs, RunCreate(r) PROVE WaitInv'
    <2>1. CASE run' = [run EXCEPT ![r].pc = "poll"] /\ UNCHANGED <<ref, pushStatus, sheet>>
      BY <1>0, <2>1 DEF WaitInv, RunState
    <2> QED
      BY <1>4, <1>12, <2>1 DEF RunCreate
  <1>13. ASSUME NEW r \in Runs, RunCancelled(r) \/ RunRefused(r) \/ RunLoaded(r) PROVE WaitInv'
    BY <1>3, <1>13 DEF RunCancelled, RunRefused, RunLoaded
  <1>14. ASSUME NEW r \in Runs, RunApproved(r) PROVE WaitInv'
    BY <1>14 DEF RunApproved, WaitInv
  <1>15. \/ UNCHANGED <<sheet, run, ref, pushStatus>>
         \/ SubmitCode \/ SwitchToCode \/ CancelSheet \/ UsePush \/ OwnApproved
         \/ \E c \in Calls : CallSucceeds(c) \/ CallFails(c) \/ ConnectTimeout(c)
         \/ \E r \in Runs : \/ RunCreate(r) \/ RunApproved(r) \/ RunCancelled(r) \/ RunRefused(r)
                            \/ RunLoaded(r)
    BY DEF Next, User, GoSide, Window, vars, SessionCreated, SessionRefused, TunnelUp, TunnelFails,
           SessionRecorded, KeepaliveFails, StartLoad, LoadServers, LoadFails, Disconnect, Logout, LoggedOut, Login,
           ClearPending, ConnectManaged, OwnCreate, OwnRefused, OwnOvertaken
  <1> QED
    BY <1>1, <1>6, <1>7, <1>8, <1>9, <1>10, <1>11, <1>12, <1>13, <1>14, <1>15

-----------------------------------------------------------------------------
(* Sessions and tunnels. *)

\* Only bringing a tunnel up and recording its session change which calls have
\* a tunnel up that is not recorded.
LEMMA UpStays ==
    ASSUME ConstantsOK, TypeOK, SheetInv, NamedInv, [Next]_vars
    PROVE  \/ \E c \in Calls : TunnelUp(c) \/ SessionRecorded(c)
           \/ \A c \in Calls : call'[c].pc = "up" <=> call[c].pc = "up"
  <1> USE DEF go, store, prompt
  <1>0. call \in [Calls -> CallState]
    BY DEF TypeOK
  <1>1. ASSUME NEW c \in Calls, \/ SessionCreated(c) \/ SessionRefused(c) \/ TunnelFails(c)
                               \/ ConnectTimeout(c) \/ CallSucceeds(c) \/ CallFails(c)
        PROVE  \A d \in Calls : call'[d].pc = "up" <=> call[d].pc = "up"
    <2>1. SecondFactors \subseteq {"push", "totp"}
      BY DEF ConstantsOK
    <2>2. \/ /\ \E pc \in {"session", "push", "totp", "error"} : call' = [call EXCEPT ![c].pc = pc]
             /\ call[c].pc # "up"
          \/ call' = [call EXCEPT ![c].waits = FALSE]
          \/ /\ call' = [call EXCEPT ![c].pc = "done", ![c].waits = FALSE]
             /\ call[c].pc # "up"
      BY <1>1, <2>1 DEF SessionCreated, SessionRefused, TunnelFails, ConnectTimeout, CallSucceeds,
                        CallFails
    <2> QED
      BY <1>0, <2>2 DEF CallState
  <1>2. CASE Begins
    BY <1>2, Began DEF Begins
  <1>3. CASE call' = call
    BY <1>3
  <1>4. \/ call' = call \/ SubmitCode \/ OwnApproved
        \/ \E c \in Calls : \/ SessionCreated(c) \/ SessionRefused(c) \/ TunnelUp(c) \/ TunnelFails(c)
                            \/ SessionRecorded(c) \/ ConnectTimeout(c) \/ CallSucceeds(c)
                            \/ CallFails(c)
        \/ \E s \in Servers : ConnectManaged(s)
        \/ \E r \in Runs : RunApproved(r)
    BY DEF Next, User, GoSide, Window, vars, KeepaliveFails, StartLoad, LoadServers, LoadFails,
           Disconnect, Logout, LoggedOut, Login, ClearPending, SwitchToCode, UsePush, CancelSheet,
           OwnCreate, OwnRefused, OwnOvertaken, RunCreate, RunCancelled, RunRefused, RunLoaded
  <1>5. ASSUME SubmitCode \/ OwnApproved PROVE Begins
    <2>1. sheet.srv \in Servers
      BY <1>5 DEF TypeOK, SubmitCode, OwnApproved, SheetInv, OwnPolls, SheetState
    <2> QED
      BY <1>5, <2>1 DEF SubmitCode, OwnApproved, Begins
  <1>6. ASSUME NEW s \in Servers, ConnectManaged(s) PROVE Begins
    BY <1>6 DEF ConnectManaged, Begins
  <1>7. ASSUME NEW r \in Runs, RunApproved(r) PROVE Begins
    BY <1>7 DEF RunApproved, NamedInv, Begins
  <1> QED
    BY <1>1, <1>2, <1>3, <1>4, <1>5, <1>6, <1>7

Stray == CallInv /\ NoStrayTunnel

\* Taking down sessions, for servers that have a call in Go tangled, keeps what
\* is known of the others.
LEMMA TearDownKept ==
    ASSUME ConstantsOK, TypeOK, NamedInv, Stray, NEW S \in SUBSET Servers, TearDown(S), call' = call,
           tangled \subseteq tangled', \A s \in S : Busy(s) => s \in tangled',
           client' = client
    PROVE  Stray'
  <1>1. /\ mSessions \in [Servers -> Calls \union {None}] /\ call \in [Calls -> CallState]
        /\ alive \subseteq Calls /\ tunnels \subseteq Calls /\ tangled \subseteq Servers
    BY DEF TypeOK
  <1>2. /\ tunnels' \subseteq tunnels /\ alive' \subseteq alive
        /\ \A s \in Servers : mSessions'[s] = IF s \in S THEN None ELSE mSessions[s]
        /\ \A s \in S : mSessions[s] # None => mSessions[s] \notin tunnels' \union alive'
    BY <1>1 DEF TearDown
  <1>3. CallInv'
    <2>1. /\ \A c \in tunnels' \union alive' : call'[c].pc \in {"up", "ok", "done"}
          /\ \A c \in alive' : call'[c].pc # "up"
      BY <1>2 DEF Stray, CallInv
    <2>2. \A s \in Servers : mSessions'[s] # None =>
              call'[mSessions'[s]].srv = s /\ call'[mSessions'[s]].pc \in {"ok", "done"}
      BY <1>2 DEF Stray, CallInv
    <2>3. ASSUME NEW c \in Calls, InGo(c)', call'[c].srv \notin tangled'
          PROVE  /\ client' /\ mSessions'[call'[c].srv] = None
                 /\ \A d \in Calls : InGo(d)' /\ call'[d].srv = call'[c].srv => d = c
      <3>1. InGo(c) /\ call[c].srv \notin tangled
        BY <2>3 DEF InGo
      <3>2. client /\ mSessions[call[c].srv] = None
        BY <3>1 DEF Stray, CallInv
      <3>3. call[c].srv \in Servers \ S
        BY <2>3, <3>1 DEF Busy, NamedInv, InGo
      <3>4. \A d \in Calls : InGo(d) /\ call[d].srv = call[c].srv => d = c
        BY <3>1 DEF Stray, CallInv
      <3>5. client' /\ mSessions'[call[c].srv] = None
        BY <1>2, <3>2, <3>3
      <3> QED
        BY <3>4, <3>5 DEF InGo
    <2> QED
      BY <2>1, <2>2, <2>3 DEF CallInv
  <1>4. NoStrayTunnel'
    <2>1. SUFFICES ASSUME NEW c \in tunnels' \union alive', call[c].srv \notin tangled',
                          call[c].pc # "up"
                   PROVE  client' /\ mSessions'[call[c].srv] = c
      BY DEF NoStrayTunnel
    <2>2. c \in Calls /\ c \in tunnels \union alive /\ call[c].srv \in Servers
      BY <1>1, <1>2 DEF Stray, CallInv, NamedInv
    <2>3. client /\ mSessions[call[c].srv] = c
      BY <2>1, <2>2 DEF Stray, NoStrayTunnel
    <2>4. call[c].srv \notin S
      BY <1>2, <2>1, <2>2, <2>3, c # None
    <2> QED
      BY <1>2, <2>2, <2>3, <2>4
  <1> QED
    BY <1>3, <1>4 DEF Stray

\* Every step keeps the tunnels where their server is answered for.
LEMMA StrayStep ==
    ASSUME ConstantsOK, TypeOK, SheetInv, NamedInv, LeaveInv, Stray, [Next]_vars
    PROVE  Stray'
  <1> USE DEF go, store, prompt
  <1>0. /\ mSessions \in [Servers -> Calls \union {None}] /\ call \in [Calls -> CallState]
        /\ alive \subseteq Calls /\ tunnels \subseteq Calls /\ tangled \subseteq Servers
    BY DEF TypeOK
  <1>1. CASE /\ CallsGoOn /\ UNCHANGED <<client, mSessions, alive, tunnels, tangled>>
             /\ \A c \in Calls : call'[c].pc = "up" <=> call[c].pc = "up"
    <2>1. \A c \in tunnels' \union alive' : c \in Calls /\ call'[c].srv = call[c].srv
      BY <1>0, <1>1 DEF CallsGoOn
    <2>2. NoStrayTunnel'
      BY <1>1, <2>1 DEF Stray, NoStrayTunnel
    <2>3. /\ \A c \in tunnels' \union alive' : call'[c].pc \in {"up", "ok", "done"}
          /\ \A c \in alive' : call'[c].pc # "up"
      BY <1>0, <1>1 DEF Stray, CallInv, CallsGoOn
    <2>4. \A s \in Servers : mSessions'[s] # None =>
              call'[mSessions'[s]].srv = s /\ call'[mSessions'[s]].pc \in {"ok", "done"}
      BY <1>0, <1>1 DEF Stray, CallInv, CallsGoOn
    <2>5. ASSUME NEW c \in Calls, InGo(c)', call'[c].srv \notin tangled'
          PROVE  /\ client' /\ mSessions'[call'[c].srv] = None
                 /\ \A d \in Calls : InGo(d)' /\ call'[d].srv = call'[c].srv => d = c
      <3>1. \A d \in Calls : call'[d].srv = call[d].srv /\ (InGo(d)' => InGo(d))
        BY <1>1 DEF CallsGoOn, InGo
      <3>2. InGo(c) /\ call[c].srv \notin tangled
        BY <1>1, <2>5, <3>1
      <3> QED
        BY <1>1, <3>1, <3>2 DEF Stray, CallInv
    <2> QED
      BY <2>2, <2>3, <2>4, <2>5 DEF Stray, CallInv
  <1>2. ASSUME NEW s \in Servers, NEW by \in {"connect", "submit", "own", "run"}, BeginConnect(s, by)
        PROVE  Stray'
    <2> DEFINE n == NewCall
    <2>1. /\ n \in Calls /\ call[n].pc = "free" /\ call'[n].srv = s
          /\ call'[n].pc = (IF client THEN "begun" ELSE "error")
          /\ \A c \in Calls : c # n => call'[c] = call[c]
      BY <1>2, Began
    <2> HIDE DEF n
    <2>2. /\ client' = client /\ tangled \subseteq tangled' /\ (Busy(s) => s \in tangled')
          /\ tunnels' \subseteq tunnels /\ alive' \subseteq alive
          /\ \A q \in Servers : mSessions'[q] = IF client /\ q = s THEN None ELSE mSessions[q]
          /\ client /\ mSessions[s] # None => mSessions[s] \notin tunnels' \union alive'
      BY <1>0, <1>2 DEF BeginConnect, TearDown
    <2>3. n \notin tunnels \union alive /\ \A q \in Servers : mSessions[q] # n
      BY <2>1 DEF Stray, CallInv
    <2>4. /\ \A c \in tunnels' \union alive' : call'[c].pc \in {"up", "ok", "done"}
          /\ \A c \in alive' : call'[c].pc # "up"
      <3>1. \A c \in tunnels' \union alive' : c \in Calls /\ c # n
        BY <1>0, <2>2, <2>3
      <3>2. \A c \in tunnels' \union alive' : call'[c] = call[c]
        BY <2>1, <3>1
      <3>3. /\ \A c \in tunnels \union alive : call[c].pc \in {"up", "ok", "done"}
            /\ \A c \in alive : call[c].pc # "up"
        BY DEF Stray, CallInv
      <3> QED
        BY <2>2, <3>2, <3>3
    <2>5. \A q \in Servers : mSessions'[q] # None =>
              call'[mSessions'[q]].srv = q /\ call'[mSessions'[q]].pc \in {"ok", "done"}
      BY <1>0, <2>1, <2>2, <2>3 DEF Stray, CallInv
    <2>6. ASSUME NEW c \in Calls, InGo(c)', call'[c].srv \notin tangled'
          PROVE  /\ client' /\ mSessions'[call'[c].srv] = None
                 /\ \A d \in Calls : InGo(d)' /\ call'[d].srv = call'[c].srv => d = c
      <3>1. CASE c = n
        <4>1. client /\ ~Busy(s)
          BY <2>1, <2>2, <2>6, <3>1 DEF InGo
        <4> QED
          BY <2>1, <2>2, <3>1, <4>1 DEF InGo, Busy
      <3>2. CASE c # n
        <4>1. call'[c] = call[c] /\ InGo(c) /\ call[c].srv \notin tangled
          BY <2>1, <2>2, <2>6, <3>2 DEF InGo
        <4>2. call[c].srv \in Servers /\ call[c].srv # s
          BY <2>2, <2>6, <4>1 DEF Busy, NamedInv, InGo
        <4>3. /\ client /\ mSessions[call[c].srv] = None
              /\ \A d \in Calls : InGo(d) /\ call[d].srv = call[c].srv => d = c
          BY <4>1 DEF Stray, CallInv
        <4> QED
          BY <2>1, <2>2, <4>1, <4>2, <4>3 DEF InGo
      <3> QED
        BY <3>1, <3>2
    <2>7. ASSUME NEW c \in tunnels' \union alive', call'[c].srv \notin tangled',
                 call'[c].pc # "up"
          PROVE  client' /\ mSessions'[call'[c].srv] = c
      <3>1. c \in Calls /\ c \in tunnels \union alive /\ call'[c] = call[c] /\ c # None
        BY <1>0, <2>1, <2>2, <2>3
      <3>2. client /\ mSessions[call[c].srv] = c
        BY <2>2, <2>7, <3>1 DEF Stray, NoStrayTunnel
      <3>3. call[c].srv \in Servers
        BY <3>1 DEF Stray, CallInv, NamedInv
      <3> QED
        BY <2>2, <2>7, <3>1, <3>2, <3>3
    <2> QED
      BY <2>4, <2>5, <2>6, <2>7 DEF Stray, CallInv, NoStrayTunnel
  <1>10. ASSUME NEW c \in Calls, TunnelUp(c) PROVE Stray'
    <2>1. /\ call[c].pc = "session" /\ call'[c].pc = "up" /\ call'[c].srv = call[c].srv
          /\ \A d \in Calls : d # c => call'[d] = call[d]
          /\ UNCHANGED <<client, mSessions, alive, tangled>> /\ tunnels' = tunnels \union {c}
      BY <1>0, <1>10 DEF TunnelUp, CallState
    <2>2. \A d \in Calls : (InGo(d)' <=> InGo(d)) /\ call'[d].srv = call[d].srv
      BY <2>1 DEF InGo
    <2>3. /\ \A d \in tunnels' \union alive' : call'[d].pc \in {"up", "ok", "done"}
          /\ \A d \in alive' : call'[d].pc # "up"
      BY <1>0, <2>1 DEF Stray, CallInv
    <2>4. \A s \in Servers : mSessions'[s] # None =>
              call'[mSessions'[s]].srv = s /\ call'[mSessions'[s]].pc \in {"ok", "done"}
      BY <1>0, <2>1 DEF Stray, CallInv
    <2>5. ASSUME NEW d \in Calls, InGo(d)', call'[d].srv \notin tangled'
          PROVE  /\ client' /\ mSessions'[call'[d].srv] = None
                 /\ \A e \in Calls : InGo(e)' /\ call'[e].srv = call'[d].srv => e = d
      BY <2>1, <2>2, <2>5 DEF Stray, CallInv
    <2>6. NoStrayTunnel'
      BY <1>0, <2>1 DEF Stray, NoStrayTunnel
    <2> QED
      BY <2>3, <2>4, <2>5, <2>6 DEF Stray, CallInv
  <1>3. ASSUME NEW c \in Calls, SessionRecorded(c) PROVE Stray'
    <2> DEFINE s == call[c].srv
    <2>1. /\ InGo(c) /\ s \in Servers /\ call'[c].pc = "ok" /\ call'[c].srv = s
          /\ \A d \in Calls : d # c => call'[d] = call[d]
          /\ client' = client /\ tangled' = tangled
          /\ tunnels' = tunnels /\ alive' = alive \union {c}
          /\ mSessions'[s] = c /\ \A q \in Servers : q # s => mSessions'[q] = mSessions[q]
      BY <1>0, <1>3 DEF SessionRecorded, InGo, NamedInv, CallState
    <2>2. s \notin tangled => /\ client /\ mSessions[s] = None
                              /\ \A d \in Calls : InGo(d) /\ call[d].srv = s => d = c
      BY <2>1 DEF Stray, CallInv
    <2> HIDE DEF s
    <2>3. /\ \A d \in tunnels' \union alive' : call'[d].pc \in {"up", "ok", "done"}
          /\ \A d \in alive' : call'[d].pc # "up"
      BY <1>0, <2>1 DEF Stray, CallInv
    <2>4. ASSUME NEW q \in Servers, mSessions'[q] # None
          PROVE  call'[mSessions'[q]].srv = q /\ call'[mSessions'[q]].pc \in {"ok", "done"}
      <3>1. CASE q = s
        BY <2>1, <3>1
      <3>2. CASE q # s
        <4>1. /\ mSessions'[q] = mSessions[q] /\ mSessions[q] \in Calls
              /\ call[mSessions[q]].srv = q /\ call[mSessions[q]].pc \in {"ok", "done"}
          BY <1>0, <2>1, <2>4, <3>2 DEF Stray, CallInv
        <4>2. mSessions[q] # c
          BY <2>1, <4>1 DEF InGo
        <4> QED
          BY <2>1, <4>1, <4>2
      <3> QED
        BY <3>1, <3>2
    <2>5. ASSUME NEW d \in Calls, InGo(d)', call'[d].srv \notin tangled'
          PROVE  /\ client' /\ mSessions'[call'[d].srv] = None
                 /\ \A e \in Calls : InGo(e)' /\ call'[e].srv = call'[d].srv => e = d
      <3>1. d # c /\ call'[d] = call[d] /\ InGo(d) /\ call[d].srv \notin tangled
        BY <2>1, <2>5 DEF InGo
      <3>2. /\ client /\ mSessions[call[d].srv] = None
            /\ \A e \in Calls : InGo(e) /\ call[e].srv = call[d].srv => e = d
        BY <3>1 DEF Stray, CallInv
      <3>3. call[d].srv # s /\ call[d].srv \in Servers
        BY <2>1, <2>2, <3>1 DEF NamedInv, InGo
      <3> QED
        BY <2>1, <3>1, <3>2, <3>3 DEF InGo
    <2>6. ASSUME NEW d \in tunnels' \union alive', call'[d].srv \notin tangled',
                 call'[d].pc # "up"
          PROVE  client' /\ mSessions'[call'[d].srv] = d
      <3>1. CASE d = c
        BY <2>1, <2>2, <2>6, <3>1
      <3>2. CASE d # c
        <4>1. d \in Calls /\ d \in tunnels \union alive /\ call'[d] = call[d] /\ d # None
          BY <1>0, <2>1, <3>2
        <4>2. client /\ mSessions[call[d].srv] = d /\ call[d].srv \in Servers
          BY <2>1, <2>6, <4>1 DEF Stray, NoStrayTunnel, CallInv, NamedInv
        <4> QED
          BY <2>1, <2>2, <2>6, <4>1, <4>2
      <3> QED
        BY <3>1, <3>2
    <2> QED
      BY <2>3, <2>4, <2>5, <2>6 DEF Stray, CallInv, NoStrayTunnel
  <1>4. ASSUME NEW c \in Calls, KeepaliveFails(c) PROVE Stray'
    <2>1. /\ call' = call /\ client' = client /\ tangled' = tangled
          /\ tunnels' = tunnels \ {c} /\ alive' = alive \ {c}
          /\ \A s \in Servers : mSessions'[s] = IF mSessions[s] = c THEN None ELSE mSessions[s]
      BY <1>4 DEF KeepaliveFails
    <2>2. CallInv'
      BY <2>1 DEF Stray, CallInv, InGo, NamedInv
    <2>3. NoStrayTunnel'
      BY <1>0, <2>1 DEF Stray, CallInv, NoStrayTunnel, NamedInv
    <2> QED
      BY <2>2, <2>3 DEF Stray
  <1>5. ASSUME NEW c \in Calls, Disconnect(c) PROVE Stray'
    <2> DEFINE owners == {s \in Servers : mSessions[s] = c}
    <2>1. /\ call' = call /\ client' = client
          /\ tangled' = tangled \union {s \in owners : Busy(s)}
      BY <1>5 DEF Disconnect
    <2>2. CASE TearDown(owners)
      BY <2>1, <2>2, TearDownKept
    <2>3. CASE owners = {} /\ tunnels' = tunnels \ {c} /\ UNCHANGED <<mSessions, alive>>
      <3>1. tangled' = tangled
        BY <2>1, <2>3
      <3>2. CallInv'
        BY <2>1, <2>3, <3>1 DEF Stray, CallInv, InGo
      <3>3. NoStrayTunnel'
        BY <2>1, <2>3, <3>1 DEF Stray, NoStrayTunnel
      <3> QED
        BY <3>2, <3>3 DEF Stray
    <2> QED
      BY <1>5, <2>2, <2>3 DEF Disconnect
  <1>6. CASE Logout
    BY <1>6, TearDownKept DEF Logout
  <1>11. CASE LoggedOut
    <2>1. /\ leaving /\ UNCHANGED <<mSessions, call, alive, tunnels, tangled>>
      BY <1>11 DEF LoggedOut
    <2>2. \A s \in Servers \ tangled : mSessions[s] = None /\ ~Busy(s)
      BY <2>1 DEF LeaveInv
    <2>3. \A c \in Calls : InGo(c) => call[c].srv \in tangled
      BY <2>2 DEF Busy, NamedInv, InGo
    <2>4. CallInv'
      BY <2>1, <2>3 DEF Stray, CallInv, InGo
    <2>5. ASSUME NEW c \in tunnels \union alive PROVE call[c].pc = "up" \/ call[c].srv \in tangled
      <3>1. c \in Calls /\ call[c].srv \in Servers /\ c # None
        BY <1>0 DEF Stray, CallInv, NamedInv
      <3> QED
        BY <2>2, <3>1 DEF Stray, NoStrayTunnel
    <2> QED
      BY <2>1, <2>4, <2>5 DEF Stray, NoStrayTunnel
  <1>7. CASE Login
    BY <1>7 DEF Login, Stray, CallInv, NoStrayTunnel, InGo
  <1>8. CASE Begins
    BY <1>2, <1>8 DEF Begins
  <1>9. \/ Begins
        \/ /\ CallsGoOn /\ UNCHANGED <<client, mSessions, alive, tunnels, tangled>>
           /\ \A c \in Calls : call'[c].pc = "up" <=> call[c].pc = "up"
        \/ \E c \in Calls : TunnelUp(c) \/ SessionRecorded(c) \/ KeepaliveFails(c) \/ Disconnect(c)
        \/ Logout \/ LoggedOut \/ Login
    <2>1. \/ UNCHANGED <<client, mSessions, alive, tunnels, tangled>>
          \/ \E s \in Servers : ConnectManaged(s)
          \/ \E r \in Runs : RunApproved(r)
          \/ SubmitCode \/ OwnApproved
          \/ \E c \in Calls : TunnelUp(c) \/ SessionRecorded(c) \/ KeepaliveFails(c) \/ Disconnect(c)
          \/ Logout \/ LoggedOut \/ Login
      BY DEF Next, User, GoSide, Window, vars, SessionCreated, SessionRefused, TunnelFails, StartLoad,
             LoadServers, LoadFails, ClearPending, SwitchToCode, UsePush, CancelSheet, OwnCreate,
             OwnRefused, OwnOvertaken, RunCreate, RunCancelled, RunRefused, RunLoaded, ConnectTimeout, CallSucceeds,
             CallFails
    <2>2. sheet \in SheetState
      BY DEF TypeOK
    <2>3. ASSUME SubmitCode \/ OwnApproved PROVE Begins
      <3>1. sheet.srv \in Servers
        BY <2>2, <2>3 DEF SubmitCode, OwnApproved, SheetInv, OwnPolls, SheetState
      <3> QED
        BY <2>3, <3>1 DEF SubmitCode, OwnApproved, Begins
    <2>4. ASSUME NEW s \in Servers, ConnectManaged(s) PROVE Begins
      BY <2>4 DEF ConnectManaged, Begins
    <2>5. ASSUME NEW r \in Runs, RunApproved(r) PROVE Begins
      BY <2>5 DEF RunApproved, NamedInv, Begins
    <2> QED
      BY <2>1, <2>3, <2>4, <2>5, CallsBeginOrGoOn, UpStays
  <1> QED
    BY <1>1, <1>3, <1>4, <1>5, <1>6, <1>7, <1>8, <1>9, <1>10, <1>11

\* Every step keeps a login that is being ended clear of sessions and calls.
LEMMA LeaveStep ==
    ASSUME ConstantsOK, TypeOK, SheetInv, NamedInv, LeaveInv, [Next]_vars
    PROVE  LeaveInv'
  <1> USE DEF go, store, prompt
  <1>0. /\ mSessions \in [Servers -> Calls \union {None}] /\ call \in [Calls -> CallState]
        /\ tangled \subseteq Servers
    BY DEF TypeOK
  <1>1. ASSUME leaving' = leaving, client' = client, tangled \subseteq tangled', CallsGoOn,
               \A s \in Servers \ tangled : mSessions[s] = None /\ ~Busy(s) => mSessions'[s] = None
        PROVE  LeaveInv'
    <2>1. \A s \in Servers : Busy(s)' => Busy(s)
      BY <1>1 DEF Busy, CallsGoOn, InGo
    <2> QED
      BY <1>1, <2>1 DEF LeaveInv
  <1>2. ASSUME NEW s \in Servers, NEW by \in {"connect", "submit", "own", "run"}, BeginConnect(s, by)
        PROVE  LeaveInv'
    <2>1. /\ leaving' = leaving /\ client' = client /\ tangled \subseteq tangled'
          /\ leaving => s \in tangled'
          /\ \A q \in Servers : mSessions'[q] \in {None, mSessions[q]}
      BY <1>0, <1>2 DEF BeginConnect, TearDown
    <2>2. \A q \in Servers : q # s /\ Busy(q)' => Busy(q)
      BY <1>2, Began DEF Busy, InGo
    <2> QED
      BY <2>1, <2>2 DEF LeaveInv
  <1>3. CASE Begins
    BY <1>2, <1>3 DEF Begins
  <1>4. CASE CallsGoOn /\ UNCHANGED <<leaving, client, mSessions, tangled>>
    BY <1>1, <1>4
  <1>5. ASSUME NEW c \in Calls, SessionRecorded(c), CallsGoOn PROVE LeaveInv'
    <2>1. /\ Busy(call[c].srv) /\ UNCHANGED <<leaving, client, tangled>>
          /\ \A s \in Servers : s # call[c].srv => mSessions'[s] = mSessions[s]
      BY <1>0, <1>5 DEF SessionRecorded, Busy, InGo
    <2> QED
      BY <1>1, <1>5, <2>1
  <1>6. ASSUME NEW c \in Calls, KeepaliveFails(c) \/ Disconnect(c), CallsGoOn PROVE LeaveInv'
    <2>1. /\ UNCHANGED <<leaving, client>> /\ tangled \subseteq tangled'
          /\ \A s \in Servers : mSessions'[s] \in {None, mSessions[s]}
      BY <1>0, <1>6 DEF KeepaliveFails, Disconnect, TearDown
    <2> QED
      BY <1>1, <1>6, <2>1
  <1>7. CASE Logout
    BY <1>7 DEF Logout, LeaveInv, TearDown, Busy, InGo
  <1>8. CASE LoggedOut
    BY <1>8 DEF LoggedOut, LeaveInv
  <1>9. CASE Login
    BY <1>9 DEF Login, LeaveInv
  <1>10. \/ UNCHANGED <<leaving, client, mSessions, tangled>>
         \/ \E s \in Servers : ConnectManaged(s)
         \/ \E r \in Runs : RunApproved(r)
         \/ SubmitCode \/ OwnApproved
         \/ \E c \in Calls : SessionRecorded(c) \/ KeepaliveFails(c) \/ Disconnect(c)
         \/ Logout \/ LoggedOut \/ Login
    BY DEF Next, User, GoSide, Window, vars, SessionCreated, SessionRefused, TunnelUp, TunnelFails,
           StartLoad, LoadServers, LoadFails, ClearPending, SwitchToCode, UsePush, CancelSheet,
           OwnCreate, OwnRefused, OwnOvertaken, RunCreate, RunCancelled, RunRefused, RunLoaded,
           ConnectTimeout, CallSucceeds, CallFails
  <1>11. ASSUME SubmitCode \/ OwnApproved PROVE Begins
    <2>1. sheet.srv \in Servers
      BY <1>11 DEF TypeOK, SubmitCode, OwnApproved, SheetInv, OwnPolls, SheetState
    <2> QED
      BY <1>11, <2>1 DEF SubmitCode, OwnApproved, Begins
  <1>12. ASSUME NEW s \in Servers, ConnectManaged(s) PROVE Begins
    BY <1>12 DEF ConnectManaged, Begins
  <1>13. ASSUME NEW r \in Runs, RunApproved(r) PROVE Begins
    BY <1>13 DEF RunApproved, NamedInv, Begins
  <1> QED
    BY <1>3, <1>4, <1>5, <1>6, <1>7, <1>8, <1>9, <1>10, <1>11, <1>12, <1>13, CallsBeginOrGoOn

-----------------------------------------------------------------------------
(* The theorems. *)

IInv == TypeOK /\ SheetInv /\ NamedInv /\ WaitInv /\ LeaveInv /\ Stray /\ OneLiveRun

\* The whole invariant holds in every reachable state.
LEMMA Inductive == Spec => []IInv
  <1>1. Init => IInv
    <2> SUFFICES ASSUME Init PROVE IInv
      OBVIOUS
    <2> USE DEF Init, NoRow, FreeRun, NoOwn, ClosedSheet
    <2>1. TypeOK
      BY DEF TypeOK, CallState, RowState, RunState, SheetState, OwnState
    <2>2. SheetInv /\ NamedInv /\ WaitInv
      BY ConstantsOK DEF SheetInv, NamedInv, WaitInv, ConstantsOK
    <2>3. Stray
      BY DEF Stray, CallInv, NoStrayTunnel, InGo
    <2>4. OneLiveRun /\ LeaveInv
      BY DEF OneLiveRun, LeaveInv
    <2> QED
      BY <2>1, <2>2, <2>3, <2>4 DEF IInv
  <1>2. IInv /\ [Next]_vars => IInv'
    BY ConstantsOK, TypeStep, SheetStep, NamedStep, WaitStep, LeaveStep, StrayStep,
       OneLiveStep DEF IInv
  <1> QED
    BY <1>1, <1>2, PTL DEF Spec

\* The state of window, app and service is well typed in every reachable state.
THEOREM ConnectTypeOK == Spec => []TypeOK
  <1>1. IInv => TypeOK
    BY DEF IInv
  <1> QED
    BY <1>1, Inductive, PTL

\* Tunnels and keepalive loops belong to the recorded sessions of somebody who
\* is logged in, whatever connects, time-outs, failures and logouts do, but for
\* a tunnel about to be recorded and for servers whose calls overlapped one
\* another or a teardown.
THEOREM TunnelsBelong == Spec => []NoStrayTunnel
  <1>1. IInv => NoStrayTunnel
    BY DEF IInv, Stray
  <1> QED
    BY <1>1, Inductive, PTL

\* Only the run in pushConnectRef may still connect.
THEOREM OneRunLives == Spec => []OneLiveRun
  <1>1. IInv => OneLiveRun
    BY DEF IInv
  <1> QED
    BY <1>1, Inductive, PTL

\* A sheet that shows a run of the window waiting shows a live one of the server
\* it names, and an approval of its own is for that server.
THEOREM WaitsForTheNamed == Spec => []WaitingIsForTheNamedServer
  <1>1. IInv => WaitingIsForTheNamedServer
    BY DEF IInv, WaitInv, SheetInv, WaitingIsForTheNamedServer
  <1> QED
    BY <1>1, Inductive, PTL
=============================================================================
