----------------------------- MODULE SetupWizard -----------------------------
(***************************************************************************)
(* The setup wizard of the desktop app (SetupWizard.tsx, useSetupStore.ts) *)
(* around its last step, the sign-in of PushLogin.  The wizard moves on    *)
(* when the settings are saved (app.go); the app may be closed at any      *)
(* point and resumes at the step that its settings on disk speak of.       *)
(* Continue is not disabled while it saves, so two saves may be under way. *)
(* On the other two pages of PushLogin there is nothing but the sign-in.   *)
(***************************************************************************)
EXTENDS PushLogin

CONSTANT MaxSaves       \* bound: saves in flight

ASSUME SavesOK == MaxSaves \in Nat \ {0}

VARIABLES
    setup,          \* step, or "done" when setupDone
    memory, disk,   \* mSettings: what is set, and what of it is saved
    saves,          \* calls of the first steps
    saving          \* loading of useSetupStore

settings == <<setup, memory, disk, saves, saving>>

Facts == {"managed", "standalone", "url", "device", "done"}
NoSave == [kind |-> "none", pc |-> "free"]
SaveState == [kind: {"managed", "standalone", "url", "register"},
              pc: {"sent", "saved", "done", "failed"}]

SetupTypeOK ==
    /\ TypeOK
    /\ setup \in {"mode", "server", "register", "login", "done"}
    /\ memory \subseteq Facts /\ disk \subseteq Facts /\ saving \in BOOLEAN
    /\ saves \in [1 .. MaxSaves -> SaveState \union {NoSave}]

\* ManagedGetSetupStep
StepOf(facts) ==
    IF facts \intersect {"done", "standalone"} # {} THEN "done"
    ELSE IF "device" \in facts THEN "login"
    ELSE IF {"url", "managed"} \subseteq facts THEN "register"
    ELSE IF "managed" \in facts THEN "server" ELSE "mode"

SetupInit ==
    /\ Init
    /\ setup = (IF page = "wizard" THEN "mode" ELSE "login")
    /\ memory = {} /\ disk = {}
    /\ saves = [k \in 1 .. MaxSaves |-> NoSave] /\ saving = FALSE

-----------------------------------------------------------------------------
(* The user. *)

FreeSaves == {k \in 1 .. MaxSaves : saves[k] = NoSave}

NewSave == CHOOSE k \in FreeSaves : TRUE

Save(kind) ==
    /\ FreeSaves # {}
    /\ saves' = [saves EXCEPT ![NewSave] = [kind |-> kind, pc |-> "sent"]]
    /\ UNCHANGED <<vars, setup, memory, disk>>

ChooseMode(mode) == setup = "mode" /\ ~saving /\ Save(mode) /\ saving' = TRUE
Continue == setup = "server" /\ Save("url") /\ UNCHANGED saving
RegisterDevice == setup = "register" /\ ~saving /\ Save("register") /\ saving' = TRUE

-----------------------------------------------------------------------------
(* app.go: ManagedSetMode, ManagedSaveServerURL, ManagedRegisterDevice. *)

Learned(kind) ==
    CASE kind = "managed" -> (memory \ {"standalone"}) \union {"managed"}
      [] kind = "standalone" -> (memory \ {"managed"}) \union {"standalone", "done"}
      [] kind = "url" -> memory \union {"url"}
      [] kind = "register" -> (memory \ {"standalone"}) \union {"url", "device", "managed"}

\* registerDevice saves the URL once more before it registers.
URLSaved(k) ==
    /\ saves[k] = [kind |-> "register", pc |-> "sent"]
    /\ memory' = memory \union {"url"}
    /\ \/ disk' = memory' /\ saves' = [saves EXCEPT ![k].pc = "saved"]
       \/ UNCHANGED disk /\ saves' = [saves EXCEPT ![k].pc = "failed"]
    /\ UNCHANGED <<vars, setup, saving>>

Due(k) == saves[k].pc = IF saves[k].kind = "register" THEN "saved" ELSE "sent"

\* Mutant of Written: that saving failed is not reported.
WrittenAnyway(k) ==
    /\ Due(k)
    /\ memory' = Learned(saves[k].kind)
    /\ disk' \in {memory', disk} /\ saves' = [saves EXCEPT ![k].pc = "done"]
    /\ UNCHANGED <<vars, setup, saving>>

\* The settings change in memory; saving them may fail.
Written(k) ==
    /\ Due(k)
    /\ memory' = Learned(saves[k].kind)
    /\ \/ disk' = memory' /\ saves' = [saves EXCEPT ![k].pc = "done"]
       \/ UNCHANGED disk /\ saves' = [saves EXCEPT ![k].pc = "failed"]
    /\ UNCHANGED <<vars, setup, saving>>

\* The server does not register the device.
NotRegistered(k) ==
    /\ saves[k] = [kind |-> "register", pc |-> "saved"]
    /\ saves' = [saves EXCEPT ![k].pc = "failed"]
    /\ UNCHANGED <<vars, setup, memory, disk, saving>>

-----------------------------------------------------------------------------
(* The wizard. *)

\* The sign-in step goes away: what it asked for finds nobody, its interval
\* ends, and a later one starts anew.  busyStays is what loading becomes.
Unmounted(calls, busyStays) ==
    /\ call' = calls /\ asked' = {} /\ answered' = {}
    /\ step' = "credentials" /\ pushEnabled' = FALSE
    /\ pushRequestId' = None /\ pushStatus' = "idle" /\ polls' = {} /\ pollRef' = None
    /\ loading' = busyStays /\ completing' = FALSE
    /\ UNCHANGED <<server, page, shown, signedIn, pushLoading>>

Forgotten(k) == saves' = [saves EXCEPT ![k] = NoSave]
StillSaving(k) == saving /\ saves[k].kind = "url"

\* Mutant of NextStep: a step of the sign-in taken for one of the wizard.
NextStepCredentials ==
    [managed |-> "server", standalone |-> "done", url |-> "register", register |-> "credentials"]

NextStep == [managed |-> "server", standalone |-> "done", url |-> "register", register |-> "login"]

\* The answer of a save sets the step, whatever the step is by then.
StepDone(k) ==
    /\ saves[k].pc = "done"
    /\ setup' = NextStep[saves[k].kind]
    /\ Forgotten(k) /\ saving' = StillSaving(k)
    /\ IF setup = "login" /\ setup' # "login"
       THEN Unmounted([c \in Calls |-> IF call[c] = NoCall THEN NoCall ELSE [call[c] EXCEPT !.heard = FALSE]], loading)
       ELSE UNCHANGED vars
    /\ UNCHANGED <<memory, disk>>

StepFailed(k) ==
    /\ saves[k].pc = "failed"
    /\ Forgotten(k) /\ saving' = StillSaving(k)
    /\ UNCHANGED <<vars, setup, memory, disk>>

\* The app is closed, or crashes, and starts again: checkSetup.
Restart ==
    /\ page = "wizard"
    /\ Unmounted([c \in Calls |-> NoCall], FALSE)
    /\ setup' = StepOf(disk) /\ memory' = disk
    /\ saves' = [k \in 1 .. MaxSaves |-> NoSave] /\ saving' = FALSE
    /\ UNCHANGED disk

\* A sign-in ends the wizard (completeSetup); if saving that fails, it does not.
Completed == memory \union {"done"}

SignInStep ==
    /\ \/ ServerSide \/ Answers
       \/ setup = "login" /\ User
    /\ IF page = "wizard" /\ signedIn'
       THEN setup' = "done" /\ memory' = Completed /\ disk' = Completed /\ UNCHANGED <<saves, saving>>
       ELSE UNCHANGED settings

NotCompleted ==
    /\ page = "wizard" /\ \E c \in Calls : call[c].pc = "token" /\ NotSignedIn(c)
    /\ memory' = Completed
    /\ UNCHANGED <<setup, disk, saves, saving>>

SetupNext ==
    /\ ~signedIn /\ setup # "done"
    /\ \/ SignInStep \/ NotCompleted \/ Restart
       \/ \E mode \in {"managed", "standalone"} : ChooseMode(mode)
       \/ Continue \/ RegisterDevice
       \/ \E k \in 1 .. MaxSaves :
              URLSaved(k) \/ Written(k) \/ NotRegistered(k) \/ StepDone(k) \/ StepFailed(k)

SetupSpec == SetupInit /\ [][SetupNext]_<<vars, settings>>

-----------------------------------------------------------------------------
(* Properties. *)

Rank == [mode |-> 1, server |-> 2, register |-> 3, login |-> 4, done |-> 5]

\* The wizard is never ahead of the settings on disk, whatever saves failed or
\* overlapped: an app that is closed resumes at the step it showed, or later.
RestartRedoesNothing == page = "wizard" => Rank[StepOf(disk)] >= Rank[setup]

=============================================================================
