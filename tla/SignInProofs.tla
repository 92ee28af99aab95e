---------------------------- MODULE SignInProofs ----------------------------
(***************************************************************************)
(* What the setup wizard and its sign-in promise for any number of push    *)
(* requests, calls and saves.                                              *)
(***************************************************************************)
EXTENDS SetupWizard, FiniteSetTheorems, TLAPS

USE DEF Requests, Calls, None, Verdicts

-----------------------------------------------------------------------------
(* Types of the sign-in. *)

\* A call stays a record when a field of it changes.
LEMMA CallMoves ==
    ASSUME TypeOK, NEW c \in Calls, NEW r \in Requests \union {None},
           NEW pc \in {"looked", "polled", "offer", "token", "error"}
    PROVE  /\ [call EXCEPT ![c].pc = pc] \in [Calls -> CallState]
           /\ [call EXCEPT ![c].pc = pc, ![c].req = r] \in [Calls -> CallState]
           /\ [call EXCEPT ![c] = NoCall] \in [Calls -> CallState]
           /\ call[c] \in CallState
  <1>1. call \in [Calls -> CallState]
    BY DEF TypeOK
  <1>2. /\ [call[c] EXCEPT !.pc = pc] \in CallState
        /\ [call[c] EXCEPT !.pc = pc, !.req = r] \in CallState
        /\ NoCall \in CallState
    BY <1>1 DEF CallState, NoCall
  <1> QED
    BY <1>1, <1>2

\* A call that is sent is well typed.
LEMMA SendTyped ==
    ASSUME TypeOK, FreeCalls # {}, NEW calls \in [Calls -> CallState],
           NEW kind \in {"first", "code", "retry", "push"}, NEW r \in Requests \union {None}
    PROVE  Send(calls, kind, r) \in [Calls -> CallState]
  BY DEF Send, NewCall, FreeCalls, CallState

\* A page that turns deaf changes nothing of the kind of its calls.
LEMMA DeafenTyped ==
    ASSUME NEW calls \in [Calls -> CallState]
    PROVE  Deafen(calls) \in [Calls -> CallState]
  <1>1. \A c \in Calls : [calls[c] EXCEPT !.heard = FALSE] \in CallState
    BY DEF CallState
  <1> QED
    BY <1>1 DEF Deafen

\* What a handler sets, and the effect that follows, are well typed.
LEMMA SetPushTyped ==
    ASSUME TypeOK, NEW r \in Requests \union {None},
           NEW status \in {"idle", "pending", "approved", "refused"},
           NEW calls \in [Calls -> CallState], NEW idle \in BOOLEAN,
           SetPush(r, status, calls, idle)
    PROVE  /\ pushRequestId' \in Requests \union {None}
           /\ pushStatus' \in {"idle", "pending", "approved", "refused"}
           /\ call' \in [Calls -> CallState]
           /\ loading' \in BOOLEAN /\ pushLoading' \in BOOLEAN /\ completing' \in BOOLEAN
  <1> DEFINE changed == r # pushRequestId \/ status # pushStatus
             runs == /\ changed /\ status = "approved" /\ r # None
                     /\ page = "wizard" => ~completing
             left == IF changed /\ page # "wizard" THEN Deafen(calls) ELSE calls
  <1>1. left \in [Calls -> CallState]
    BY DeafenTyped
  <1>2. /\ runs => FreeCalls # {}
        /\ call' = IF runs THEN Send(left, "push", r) ELSE left
    BY DEF SetPush
  <1>3. /\ pushRequestId' = r /\ pushStatus' = status
        /\ loading' \in BOOLEAN /\ pushLoading' \in BOOLEAN /\ completing' \in BOOLEAN
    BY DEF SetPush, TypeOK
  <1> HIDE DEF changed, runs, left
  <1>4. call' \in [Calls -> CallState]
    BY <1>1, <1>2, SendTyped
  <1> QED
    BY <1>3, <1>4

\* The steps of the server.
LEMMA ServerTyped ==
    ASSUME BoundsOK, TypeOK, ServerSide
    PROVE  TypeOK'
  <1> USE DEF form, push, busy, polled
  <1>1. ASSUME NEW r \in Requests, Decide(r) PROVE TypeOK'
    BY <1>1 DEF Decide, TypeOK
  <1>2. ASSUME NEW r \in Requests, ExpiresAt(r) PROVE TypeOK'
    BY <1>2 DEF ExpiresAt, TypeOK
  <1>3. ASSUME NEW r \in Requests, PollServed(r) PROVE TypeOK'
    BY <1>3 DEF PollServed, TypeOK
  <1>4. ASSUME NEW c \in Calls, OfferReused(c) PROVE TypeOK'
    <2>1. PICK r \in pending : Answer(c, "offer", r) /\ \E f \in SUBSET pending : pending' = pending \ f
      BY <1>4 DEF OfferReused
    <2>2. r \in Requests
      BY <2>1 DEF TypeOK
    <2>3. call' \in [Calls -> CallState]
      BY <2>1, <2>2, CallMoves DEF Answer
    <2> QED
      BY <1>4, <2>1, <2>3 DEF OfferReused, TypeOK
  <1>5. ASSUME NEW c \in Calls, OfferNew(c) PROVE TypeOK'
    <2>1. Unmade # {} => NewRequest \in Requests
      BY DEF Unmade, NewRequest
    <2>2. \/ Answer(c, "offer", None) /\ pending' \subseteq pending /\ cloud' = cloud
          \/ /\ Unmade # {} /\ Answer(c, "offer", NewRequest)
             /\ pending' \subseteq pending \union {NewRequest}
             /\ cloud' = [cloud EXCEPT ![NewRequest] = "pending"]
      BY <1>5 DEF OfferNew
    <2>3. call' \in [Calls -> CallState]
      <3>1. CASE Answer(c, "offer", None)
        BY <3>1, CallMoves DEF Answer
      <3>2. CASE Unmade # {} /\ Answer(c, "offer", NewRequest)
        <4>1. NewRequest \in Requests \union {None}
          BY <3>2, <2>1
        <4> QED
          BY <3>2, <4>1, CallMoves DEF Answer
      <3> QED
        BY <2>2, <3>1, <3>2
    <2>4. cloud' \in [Requests -> {"none", "pending", "approved", "refused"}] /\ pending' \subseteq Requests
      BY <2>1, <2>2 DEF TypeOK
    <2> QED
      BY <1>5, <2>3, <2>4 DEF OfferNew, TypeOK
  <1>6. ASSUME NEW c \in Calls, CodeVerified(c) PROVE TypeOK'
    <2>1. call' \in [Calls -> CallState]
      BY <1>6, CallMoves DEF CodeVerified, Answer
    <2> QED
      BY <1>6, <2>1 DEF CodeVerified, TypeOK, server
  <1>7. ASSUME NEW c \in Calls, LookedUp(c) \/ StatusPolled(c) \/ Fails(c) PROVE TypeOK'
    <2>1. call' \in [Calls -> CallState]
      <3>1. \E pc \in {"looked", "polled", "error"} : call' = [call EXCEPT ![c].pc = pc]
        BY <1>7 DEF LookedUp, StatusPolled, Fails
      <3>2. PICK pc \in {"looked", "polled", "error"} : call' = [call EXCEPT ![c].pc = pc]
        BY <3>1
      <3>3. None \in Requests \union {None}
        OBVIOUS
      <3> QED
        BY <3>2, <3>3, CallMoves
    <2> QED
      BY <1>7, <2>1 DEF LookedUp, StatusPolled, Fails, TypeOK, server
  <1>8. ASSUME NEW c \in Calls, UsedUp(c) PROVE TypeOK'
    <2>1. call' \in [Calls -> CallState]
      BY <1>8, CallMoves DEF UsedUp
    <2>2. tokens' \in [Requests -> Nat] /\ pending' \subseteq Requests
      <3>1. tokens \in [Requests -> Nat] /\ pending \subseteq Requests
        BY DEF TypeOK
      <3> DEFINE r == call[c].req
      <3>2. tokens' = [tokens EXCEPT ![r] = @ + 1] /\ pending' = pending \ {r}
        BY <1>8 DEF UsedUp
      <3> HIDE DEF r
      <3>3. CASE r \in Requests
        <4>1. tokens[r] + 1 \in Nat
          BY <3>1, <3>3
        <4> QED
          BY <3>1, <3>2, <4>1
      <3>4. CASE r \notin Requests
        BY <3>1, <3>2, <3>4
      <3> QED
        BY <3>3, <3>4
    <2> QED
      BY <1>8, <2>1, <2>2 DEF UsedUp, TypeOK
  <1> QED
    BY <1>1, <1>2, <1>3, <1>4, <1>5, <1>6, <1>7, <1>8 DEF ServerSide, Serve

\* The steps of the user at the page.
LEMMA UserTyped ==
    ASSUME TypeOK, User
    PROVE  TypeOK'
  <1> USE DEF form, push, busy, polled, server
  <1>1. ASSUME NEW kind \in {"first", "code", "retry"}, Submits(kind)
        PROVE  call' \in [Calls -> CallState] /\ loading' = TRUE
    BY <1>1, SendTyped DEF Submits, TypeOK
  <1>2. CASE SubmitCredentials \/ SubmitCode \/ TryAgain \/ UsePush
    <2>1. call' \in [Calls -> CallState] /\ loading' = TRUE
      BY <1>1, <1>2 DEF SubmitCredentials, SubmitCode, TryAgain, UsePush
    <2> QED
      BY <1>2, <2>1 DEF SubmitCredentials, SubmitCode, TryAgain, UsePush, TypeOK
  <1>3. CASE EnterCode \/ ChangeAccount \/ CloseSheet
    BY <1>3 DEF EnterCode, ChangeAccount, CloseSheet, StopPolling, TypeOK
  <1>4. CASE OpenSheet
    <2>1. call' \in [Calls -> CallState]
      BY <1>4, DeafenTyped DEF OpenSheet, TypeOK
    <2> QED
      BY <1>4, <2>1 DEF OpenSheet, StopPolling, TypeOK
  <1> QED
    BY <1>2, <1>3, <1>4 DEF User

\* The answers that reach the page; a poll brings nothing but a verdict.
VerdictsAnswered == \A r \in answered : cloud[r] \in Verdicts

\* The answers that reach the page keep the types.
LEMMA AnswersTyped ==
    ASSUME TypeOK, VerdictsAnswered, Answers
    PROVE  TypeOK'
  <1> USE DEF form, push, busy, polled, server
  <1>1. ASSUME NEW c \in Calls
        PROVE  call[c] \in CallState /\ Done(c) \in [Calls -> CallState]
    BY CallMoves DEF Done
  <1>2. ASSUME NEW c \in Calls, Offered(c) PROVE TypeOK'
    <2>1. call[c].req \in Requests /\ SetPush(call[c].req, "pending", Done(c), FALSE)
      BY <1>1, <1>2 DEF Offered, CallState
    <2>2. /\ pushRequestId' \in Requests \union {None}
          /\ pushStatus' \in {"idle", "pending", "approved", "refused"}
          /\ call' \in [Calls -> CallState]
          /\ loading' \in BOOLEAN /\ pushLoading' \in BOOLEAN /\ completing' \in BOOLEAN
      BY <1>1, <2>1, SetPushTyped
    <2>3. polls' \subseteq Requests /\ pollRef' \in Requests \union {None} /\ asked' \subseteq Requests
      BY <1>2, <2>1 DEF Offered, StartPolling, TypeOK
    <2>4. step' \in {"credentials", "push", "totp"} /\ pushEnabled' \in BOOLEAN
      BY <1>2 DEF Offered, TypeOK
    <2> QED
      BY <1>2, <2>2, <2>3, <2>4 DEF Offered, TypeOK
  <1>3. ASSUME NEW c \in Calls, NotOffered(c) PROVE TypeOK'
    BY <1>1, <1>3 DEF NotOffered, TypeOK
  <1>4. ASSUME NEW c \in Calls, GotToken(c) PROVE TypeOK'
    BY <1>1, <1>4 DEF GotToken, SignIn, StopPolling, TypeOK
  <1>5. ASSUME NEW c \in Calls, NotSignedIn(c) \/ NotHeard(c) PROVE TypeOK'
    BY <1>1, <1>5 DEF NotSignedIn, NotHeard, TypeOK
  <1>6. ASSUME NEW r \in Requests, PollAnswered(r) PROVE TypeOK'
    <2>1. cloud[r] \in {"approved", "refused"}
      BY <1>6 DEF PollAnswered, VerdictsAnswered
    <2>2. SetPush(pushRequestId, cloud[r], call, loading) /\ loading \in BOOLEAN
          /\ call \in [Calls -> CallState] /\ pushRequestId \in Requests \union {None}
      BY <1>6 DEF PollAnswered, TypeOK
    <2>3. /\ pushRequestId' \in Requests \union {None}
          /\ pushStatus' \in {"idle", "pending", "approved", "refused"}
          /\ call' \in [Calls -> CallState]
          /\ loading' \in BOOLEAN /\ pushLoading' \in BOOLEAN /\ completing' \in BOOLEAN
      BY <2>1, <2>2, SetPushTyped
    <2> QED
      BY <1>6, <2>3 DEF PollAnswered, StopPolling, TypeOK
  <1> QED
    BY <1>2, <1>3, <1>4, <1>5, <1>6 DEF Answers

\* A decision stays what it is.
LEMMA VerdictsStay ==
    ASSUME BoundsOK, TypeOK, VerdictsAnswered, ServerSide
    PROVE  VerdictsAnswered'
  <1> USE DEF form, push, busy, polled, server, VerdictsAnswered
  <1>1. Unmade # {} => NewRequest \in Unmade
    BY DEF NewRequest
  <1>2. ASSUME NEW c \in Calls, Serve(c)
        PROVE  answered' = answered /\ \A r \in Requests : cloud[r] \in Verdicts => cloud'[r] = cloud[r]
    BY <1>1, <1>2 DEF Serve, OfferReused, OfferNew, CodeVerified, LookedUp, StatusPolled, UsedUp,
                      Fails, TypeOK, Unmade
  <1>3. ASSUME NEW r \in Requests, Decide(r) \/ ExpiresAt(r) \/ PollServed(r)
        PROVE  VerdictsAnswered'
    BY <1>3 DEF Decide, ExpiresAt, PollServed, TypeOK
  <1> QED
    BY <1>2, <1>3 DEF ServerSide, TypeOK

-----------------------------------------------------------------------------
(* Types of the wizard. *)

TypesHold == SetupTypeOK /\ VerdictsAnswered

SaveTable == [1 .. MaxSaves -> SaveState \union {NoSave}]

\* The table of saves keeps its type as saves begin, are answered and end.
LEMMA SavesTyped ==
    ASSUME SavesOK, saves \in SaveTable
    PROVE  /\ \A k \in 1 .. MaxSaves : saves[k].pc # "free" => saves[k] \in SaveState
           /\ \A k \in 1 .. MaxSaves : \A pc \in {"saved", "done", "failed"} :
                  saves[k].pc \in {"sent", "saved"} => [saves EXCEPT ![k].pc = pc] \in SaveTable
           /\ \A k \in 1 .. MaxSaves : [saves EXCEPT ![k] = NoSave] \in SaveTable
           /\ \A kind \in {"managed", "standalone", "url", "register"} :
                  FreeSaves # {} => [saves EXCEPT ![NewSave] = [kind |-> kind, pc |-> "sent"]] \in SaveTable
  BY DEF SaveState, NoSave, FreeSaves, NewSave, SaveTable

\* When the sign-in goes away, or the app is closed.
LEMMA UnmountedTyped ==
    ASSUME TypeOK, NEW calls \in [Calls -> CallState], NEW stays \in BOOLEAN,
           Unmounted(calls, stays)
    PROVE  TypeOK' /\ VerdictsAnswered'
  BY DEF Unmounted, TypeOK, VerdictsAnswered, server

\* Every step of the wizard keeps the types.
LEMMA SetupTyped ==
    ASSUME BoundsOK, SavesOK, TypesHold, [SetupNext]_<<vars, settings>>
    PROVE  TypesHold'
  <1>0. TypeOK /\ VerdictsAnswered /\ SetupTypeOK
    BY DEF TypesHold, SetupTypeOK
  <1>1. ASSUME UNCHANGED vars PROVE TypeOK' /\ VerdictsAnswered'
    BY <1>0, <1>1 DEF vars, server, form, push, busy, polled, TypeOK, VerdictsAnswered
  <1>2. ASSUME ServerSide \/ Answers \/ User PROVE TypeOK' /\ VerdictsAnswered'
    <2>1. TypeOK'
      BY <1>0, <1>2, ServerTyped, AnswersTyped, UserTyped
    <2>2. ASSUME Answers \/ User PROVE cloud' = cloud /\ (answered' = answered)
      BY <2>2 DEF Answers, User, Offered, NotOffered, GotToken, NotSignedIn, NotHeard, PollAnswered,
                  SubmitCredentials, SubmitCode, TryAgain, EnterCode, UsePush, ChangeAccount,
                  CloseSheet, OpenSheet, server, polled
    <2> QED
      BY <1>0, <1>2, <2>1, <2>2, VerdictsStay DEF VerdictsAnswered
  <1>3. CASE SignInStep
    BY <1>0, <1>2, <1>3 DEF SignInStep, TypesHold, SetupTypeOK, settings, Completed, Facts
  <1>4. CASE NotCompleted
    <2>1. TypeOK' /\ VerdictsAnswered'
      BY <1>2, <1>4 DEF NotCompleted, Answers
    <2> QED
      BY <1>0, <1>4, <2>1 DEF NotCompleted, TypesHold, SetupTypeOK, Completed, Facts
  <1>5. CASE Restart
    <2>1. [c \in Calls |-> NoCall] \in [Calls -> CallState]
      BY DEF NoCall, CallState
    <2>2. TypeOK' /\ VerdictsAnswered'
      BY <1>0, <1>5, <2>1, UnmountedTyped DEF Restart
    <2> QED
      BY <1>0, <1>5, <2>2 DEF Restart, TypesHold, SetupTypeOK, StepOf, NoSave, SaveState
  <1>6. ASSUME NEW kind \in {"managed", "standalone", "url", "register"},
               Save(kind), saving' \in BOOLEAN
        PROVE  TypesHold'
    <2>1. saves' \in SaveTable
      BY <1>0, <1>6, SavesTyped DEF Save, SetupTypeOK, SaveTable
    <2> QED
      BY <1>0, <1>1, <1>6, <2>1 DEF Save, TypesHold, SetupTypeOK, SaveTable
  <1>7. CASE \/ \E mode \in {"managed", "standalone"} : ChooseMode(mode)
             \/ Continue \/ RegisterDevice
    BY <1>0, <1>6, <1>7 DEF ChooseMode, Continue, RegisterDevice, SetupTypeOK
  <1>8. ASSUME NEW k \in 1 .. MaxSaves,
               URLSaved(k) \/ Written(k) \/ NotRegistered(k) \/ StepFailed(k)
        PROVE  TypesHold'
    <2>1. saves \in SaveTable /\ memory \subseteq Facts
      BY <1>0 DEF SetupTypeOK, SaveTable
    <2>2. saves' \in SaveTable
      <3>1. \/ /\ saves[k].pc \in {"sent", "saved"}
               /\ \E pc \in {"saved", "done", "failed"} : saves' = [saves EXCEPT ![k].pc = pc]
            \/ saves' = [saves EXCEPT ![k] = NoSave]
        BY <1>8 DEF URLSaved, Written, Due, NotRegistered, StepFailed, Forgotten
      <3>2. CASE saves' = [saves EXCEPT ![k] = NoSave]
        BY <2>1, <3>2, SavesTyped
      <3>3. ASSUME NEW pc \in {"saved", "done", "failed"}, saves[k].pc \in {"sent", "saved"},
                   saves' = [saves EXCEPT ![k].pc = pc]
            PROVE  saves' \in SaveTable
        <4>1. [saves EXCEPT ![k].pc = pc] \in SaveTable
          BY <2>1, <3>3, SavesTyped
        <4> QED
          BY <3>3, <4>1
      <3> QED
        BY <3>1, <3>2, <3>3
    <2>3. saves[k].pc \in {"sent", "saved"} => Learned(saves[k].kind) \subseteq Facts
      BY <2>1, SavesTyped DEF Learned, Facts, SaveState
    <2>4. memory' \subseteq Facts /\ disk' \subseteq Facts
      BY <1>0, <1>8, <2>3 DEF URLSaved, Written, Due, NotRegistered, StepFailed, SetupTypeOK, Facts
    <2>5. saving' \in BOOLEAN /\ setup' = setup /\ UNCHANGED vars
      BY <1>0, <1>8 DEF URLSaved, Written, NotRegistered, StepFailed, StillSaving, SetupTypeOK
    <2> QED
      BY <1>0, <1>1, <2>2, <2>4, <2>5 DEF TypesHold, SetupTypeOK, SaveTable
  <1>9. ASSUME NEW k \in 1 .. MaxSaves, StepDone(k) PROVE TypesHold'
    <2>1. saves[k] \in SaveState /\ saves \in SaveTable
      BY <1>0, <1>9, SavesTyped DEF StepDone, SetupTypeOK, SaveTable
    <2>2. setup' \in {"mode", "server", "register", "login", "done"}
      BY <1>9, <2>1 DEF StepDone, NextStep, SaveState
    <2>3. saves' \in SaveTable /\ saving' \in BOOLEAN
      BY <1>0, <1>9, <2>1, SavesTyped DEF StepDone, Forgotten, StillSaving, SetupTypeOK
    <2>4. TypeOK' /\ VerdictsAnswered'
      <3>1. [c \in Calls |-> IF call[c] = NoCall THEN NoCall ELSE [call[c] EXCEPT !.heard = FALSE]]
                \in [Calls -> CallState]
        BY <1>0, ZenonT(40) DEF TypeOK, CallState, NoCall
      <3>2. loading \in BOOLEAN
        BY <1>0 DEF TypeOK
      <3> QED
        BY <1>0, <1>1, <1>9, <3>1, <3>2, UnmountedTyped DEF StepDone
    <2> QED
      BY <1>0, <1>9, <2>2, <2>3, <2>4 DEF StepDone, TypesHold, SetupTypeOK, SaveTable
  <1> QED
    BY <1>0, <1>1, <1>3, <1>4, <1>5, <1>7, <1>8, <1>9 DEF SetupNext, TypesHold, SetupTypeOK, settings

\* The types, and that polls bring nothing but verdicts.
LEMMA TypesAlways == SetupSpec => []TypesHold
  <1>1. ASSUME SetupInit PROVE TypesHold
    <2>1. NoCall \in CallState
      BY DEF NoCall, CallState
    <2>2. TypeOK /\ VerdictsAnswered
      BY <1>1, <2>1, BoundsOK DEF SetupInit, Init, TypeOK, VerdictsAnswered
    <2>3. saves \in [1 .. MaxSaves -> SaveState \union {NoSave}]
      BY <1>1 DEF SetupInit
    <2> QED
      BY <1>1, <2>2, <2>3 DEF SetupInit, TypesHold, SetupTypeOK
  <1>2. TypesHold /\ [SetupNext]_<<vars, settings>> => TypesHold'
    BY BoundsOK, SavesOK, SetupTyped
  <1> QED
    BY <1>1, <1>2, PTL DEF SetupSpec

\* SetupTypeOK holds for any number of requests, calls and saves.
THEOREM SetupTypeCorrect == SetupSpec => []SetupTypeOK
  <1>1. TypesHold => SetupTypeOK
    BY DEF TypesHold
  <1> QED
    BY <1>1, TypesAlways, PTL

-----------------------------------------------------------------------------
(* The sign-in. *)

\* PollsHeldRequest: no interval of the pages is ever lost track of.
THEOREM IntervalsAreHeld == SetupSpec => []PollsHeldRequest
  <1> USE DEF PollsHeldRequest, form, push, busy, polled, server
  <1>1. SetupInit => PollsHeldRequest
    BY DEF SetupInit, Init
  <1>2. ASSUME PollsHeldRequest, ServerSide PROVE PollsHeldRequest'
    BY <1>2 DEF ServerSide, Serve, Decide, ExpiresAt, PollServed, OfferReused, OfferNew, CodeVerified,
                LookedUp, StatusPolled, UsedUp, Fails
  <1>3. ASSUME PollsHeldRequest, User PROVE PollsHeldRequest'
    BY <1>3 DEF User, SubmitCredentials, SubmitCode, TryAgain, EnterCode, UsePush, ChangeAccount,
                CloseSheet, OpenSheet, StopPolling
  <1>4. ASSUME PollsHeldRequest, Answers PROVE PollsHeldRequest'
    <2>1. ASSUME NEW c \in Calls, Offered(c) PROVE PollsHeldRequest'
      BY <1>4, <2>1 DEF Offered, StartPolling, SetPush
    <2>2. ASSUME NEW c \in Calls, NotOffered(c) \/ GotToken(c) \/ NotSignedIn(c) \/ NotHeard(c)
          PROVE  PollsHeldRequest'
      BY <1>4, <2>2 DEF NotOffered, GotToken, SignIn, StopPolling, NotSignedIn, NotHeard
    <2>3. ASSUME NEW r \in Requests, PollAnswered(r) PROVE PollsHeldRequest'
      BY <1>4, <2>3 DEF PollAnswered, StopPolling, SetPush
    <2> QED
      BY <1>4, <2>1, <2>2, <2>3 DEF Answers
  <1>5. ASSUME PollsHeldRequest, SetupNext PROVE PollsHeldRequest'
    <2>1. ASSUME UNCHANGED vars PROVE PollsHeldRequest'
      BY <1>5, <2>1 DEF vars
    <2>2. CASE SignInStep \/ NotCompleted
      BY <1>2, <1>3, <1>4, <1>5, <2>2 DEF SignInStep, NotCompleted, Answers
    <2>3. CASE Restart \/ \E k \in 1 .. MaxSaves : StepDone(k)
      BY <1>5, <2>1, <2>3 DEF Restart, StepDone, Unmounted
    <2>4. CASE \/ \E mode \in {"managed", "standalone"} : ChooseMode(mode)
               \/ Continue \/ RegisterDevice
               \/ \E k \in 1 .. MaxSaves :
                      URLSaved(k) \/ Written(k) \/ NotRegistered(k) \/ StepFailed(k)
      BY <2>1, <2>4 DEF ChooseMode, Continue, RegisterDevice, Save, URLSaved, Written, NotRegistered,
                          StepFailed
    <2> QED
      BY <1>5, <2>2, <2>3, <2>4 DEF SetupNext
  <1>6. PollsHeldRequest /\ UNCHANGED <<vars, settings>> => PollsHeldRequest'
    BY DEF vars
  <1> QED
    BY <1>1, <1>5, <1>6, PTL DEF SetupSpec

\* TokenTakesApproval needs to know what a call was told before it is done:
\* one that was polled with success is about an approved request.
Approval ==
    /\ TokenTakesApproval
    /\ \A c \in Calls :
           /\ call[c].pc \in {"looked", "polled"} => call[c].req \in Requests
           /\ call[c].pc = "polled" => cloud[call[c].req] = "approved"

\* It is kept where no call is looked up or polled and no token issued.
CallsCarryOn ==
    \A c \in Calls : call'[c].pc \in {"looked", "polled"} =>
        call'[c].pc = call[c].pc /\ call'[c].req = call[c].req

\* A step that issues no token and forgets requests keeps it.
LEMMA ApprovalStays ==
    ASSUME Approval, CallsCarryOn, cloud' = cloud, tokens' = tokens, pending' \subseteq pending
    PROVE  Approval'
  BY DEF Approval, TokenTakesApproval, CallsCarryOn

\* A call that is answered, fails or is done with.
LEMMA AnsweredCarryOn ==
    ASSUME TypeOK, NEW c \in Calls, NEW pc, pc \notin {"looked", "polled"}, NEW r,
           \/ call' = [call EXCEPT ![c].pc = pc, ![c].req = r]
           \/ call' = [call EXCEPT ![c].pc = pc]
           \/ call' = Done(c)
    PROVE  CallsCarryOn
  <1>1. call \in [Calls -> CallState]
    BY DEF TypeOK
  <1>2. ASSUME NEW d \in Calls, d # c PROVE call'[d] = call[d]
    BY <1>1, <1>2 DEF Done
  <1>3. call'[c].pc \notin {"looked", "polled"}
    <2>1. \A v : [call EXCEPT ![c] = v][c] = v
      BY <1>1
    <2>2. /\ [call[c] EXCEPT !.pc = pc].pc = pc
          /\ [call[c] EXCEPT !.pc = pc, !.req = r].pc = pc
          /\ NoCall.pc = "free"
      BY <1>1 DEF NoCall, CallState
    <2>3. CASE call' = [call EXCEPT ![c].pc = pc, ![c].req = r]
      BY <1>1, <2>2, <2>3 DEF CallState
    <2>4. CASE call' = [call EXCEPT ![c].pc = pc]
      BY <1>1, <2>2, <2>4 DEF CallState
    <2>5. CASE call' = Done(c)
      BY <1>1, <2>2, <2>5 DEF Done
    <2> QED
      BY <2>3, <2>4, <2>5
  <1> QED
    BY <1>2, <1>3 DEF CallsCarryOn

\* A call the page is done with, moving no other call on.
LEMMA FinishedCarryOn ==
    ASSUME TypeOK, NEW c \in Calls, call' = Done(c)
    PROVE  CallsCarryOn
  BY AnsweredCarryOn, "free" \notin {"looked", "polled"}

\* A step of the server keeps it.
LEMMA ApprovalServed ==
    ASSUME BoundsOK, TypeOK, Approval, ServerSide
    PROVE  Approval'
  <1> USE DEF form, push, busy, polled, server, Approval, TokenTakesApproval
  <1>0. /\ cloud \in [Requests -> {"none", "pending", "approved", "refused"}]
        /\ tokens \in [Requests -> Nat] /\ pending \subseteq Requests
        /\ call \in [Calls -> CallState]
    BY DEF TypeOK
  <1>1. ASSUME NEW r \in Requests, Decide(r) \/ ExpiresAt(r) \/ PollServed(r) PROVE Approval'
    <2>1. CASE Decide(r)
      BY <1>0, <2>1 DEF Decide, CallState
    <2>2. CASE ExpiresAt(r)
      BY <1>0, <2>2 DEF ExpiresAt
    <2>3. CASE PollServed(r)
      BY <1>0, <2>3 DEF PollServed
    <2> QED
      BY <1>1, <2>1, <2>2, <2>3
  <1>2. ASSUME NEW c \in Calls, OfferReused(c) PROVE Approval'
    <2>1. PICK r : Answer(c, "offer", r)
      BY <1>2 DEF OfferReused
    <2>2. CallsCarryOn
      BY <2>1, AnsweredCarryOn DEF Answer
    <2>3. cloud' = cloud /\ tokens' = tokens /\ pending' \subseteq pending
      BY <1>2 DEF OfferReused
    <2> HIDE DEF Approval
    <2> QED
      BY <2>2, <2>3, ApprovalStays
  <1>3. ASSUME NEW c \in Calls, CodeVerified(c) \/ Fails(c) PROVE Approval'
    <2>1. /\ \/ Answer(c, "token", None)
             \/ call' = [call EXCEPT ![c].pc = "error"]
          /\ cloud' = cloud /\ tokens' = tokens /\ pending' \subseteq pending
      BY <1>3 DEF CodeVerified, Fails
    <2>2. CallsCarryOn
      <3>1. CASE Answer(c, "token", None)
        BY <3>1, AnsweredCarryOn DEF Answer
      <3>2. CASE call' = [call EXCEPT ![c].pc = "error"]
        BY <3>2, AnsweredCarryOn
      <3> QED
        BY <2>1, <3>1, <3>2
    <2> HIDE DEF Approval
    <2> QED
      BY <2>1, <2>2, ApprovalStays
  <1>4. ASSUME NEW c \in Calls, OfferNew(c) PROVE Approval'
    <2>1. \/ Answer(c, "offer", None) /\ pending' \subseteq pending /\ cloud' = cloud
          \/ /\ NewRequest \in Unmade /\ Answer(c, "offer", NewRequest)
             /\ pending' \subseteq pending \union {NewRequest}
             /\ cloud' = [cloud EXCEPT ![NewRequest] = "pending"]
      BY <1>4 DEF OfferNew, NewRequest
    <2>2. ASSUME NEW r \in Unmade, Answer(c, "offer", r),
                 pending' \subseteq pending \union {r}, cloud' = [cloud EXCEPT ![r] = "pending"]
          PROVE  Approval'
      <3>1. /\ r \in Requests /\ cloud[r] = "none"
            /\ \A q \in Requests : q # r => cloud'[q] = cloud[q]
            /\ tokens' = tokens
        BY <1>0, <1>4, <2>2 DEF Unmade, OfferNew
      <3>2. TokenTakesApproval'
        BY <1>0, <2>2, <3>1
      <3>3. \A d \in Calls : call'[d].pc \in {"looked", "polled"} => d # c /\ call'[d] = call[d]
        BY <1>0, <2>2 DEF Answer, CallState
      <3> QED
        BY <1>0, <3>1, <3>2, <3>3
    <2>3. ASSUME Answer(c, "offer", None), pending' \subseteq pending, cloud' = cloud PROVE Approval'
      <3>1. CallsCarryOn
        BY <2>3, AnsweredCarryOn DEF Answer
      <3>2. tokens' = tokens
        BY <1>4 DEF OfferNew
      <3> HIDE DEF Approval
      <3> QED
        BY <2>3, <3>1, <3>2, ApprovalStays
    <2> QED
      BY <2>1, <2>2, <2>3
  <1>5. ASSUME NEW c \in Calls, LookedUp(c) \/ StatusPolled(c) PROVE Approval'
    BY <1>0, <1>5, SMTT(30) DEF LookedUp, StatusPolled, CallState
  <1>6. ASSUME NEW c \in Calls, UsedUp(c) PROVE Approval'
    <2>1. /\ call[c].req \in Requests /\ cloud[call[c].req] = "approved" /\ cloud' = cloud
          /\ \A d \in Calls : call'[d].pc \in {"looked", "polled"} => d # c /\ call'[d] = call[d]
      BY <1>0, <1>6 DEF UsedUp, CallState
    <2> QED
      BY <1>0, <1>6, <2>1 DEF UsedUp
  <1> QED
    BY <1>1, <1>2, <1>3, <1>4, <1>5, <1>6 DEF ServerSide, Serve

\* The page turns deaf, moving no call on.
LEMMA DeafCarryOn ==
    ASSUME NEW calls \in [Calls -> CallState]
    PROVE  \A c \in Calls : Deafen(calls)[c].pc = calls[c].pc /\ Deafen(calls)[c].req = calls[c].req
  BY DEF Deafen, CallState

\* A new call is given a free place.
LEMMA NewCallIsFree == FreeCalls # {} => NewCall \in Calls
  BY DEF FreeCalls, NewCall

\* What a handler leaves of the calls is what the effect builds on.
LEMMA SetPushCarriesOn ==
    ASSUME TypeOK, NEW r, NEW status, NEW idle, NEW calls \in [Calls -> CallState],
           \A c \in Calls : calls[c].pc \in {"looked", "polled"} => calls[c] = call[c],
           SetPush(r, status, calls, idle)
    PROVE  CallsCarryOn
  <1>1. PICK left \in {calls, Deafen(calls)} :
            call' = left \/ (FreeCalls # {} /\ call' = Send(left, "push", r))
    BY DEF SetPush
  <1>2. left \in [Calls -> CallState]
    BY <1>1, DeafenTyped
  <1>3. \A c \in Calls : left[c].pc = calls[c].pc /\ left[c].req = calls[c].req
    BY <1>1, DeafCarryOn
  <1>4. \A c \in Calls : call'[c].pc \in {"looked", "polled"} => call'[c] = left[c]
    <2>1. CASE call' = left
      BY <2>1
    <2>2. CASE FreeCalls # {} /\ call' = Send(left, "push", r)
      BY <1>2, <2>2, NewCallIsFree DEF Send
    <2> QED
      BY <1>1, <2>1, <2>2
  <1> QED
    BY <1>3, <1>4 DEF CallsCarryOn

\* TokenTakesApproval: a token on a push request takes its approval.
THEOREM TokensAreApproved == SetupSpec => []TokenTakesApproval
  <1>1. SetupInit => Approval
    BY DEF SetupInit, Init, Approval, TokenTakesApproval, NoCall
  <1>2. ASSUME TypeOK, Approval, User PROVE Approval'
    <2>1. server' = server
      BY <1>2 DEF User, SubmitCredentials, SubmitCode, TryAgain, EnterCode, UsePush, ChangeAccount,
                  CloseSheet, OpenSheet
    <2>2. \/ call' = call \/ call' = Deafen(call)
          \/ \E kind : FreeCalls # {} /\ call' = Send(call, kind, None)
      BY <1>2 DEF User, SubmitCredentials, SubmitCode, TryAgain, EnterCode, UsePush, ChangeAccount,
                  CloseSheet, OpenSheet, Submits
    <2>3. call \in [Calls -> CallState]
      BY <1>2 DEF TypeOK
    <2>4. CallsCarryOn
      <3>1. CASE call' = call \/ call' = Deafen(call)
        BY <2>3, <3>1, DeafCarryOn DEF CallsCarryOn
      <3>2. ASSUME NEW kind, FreeCalls # {}, call' = Send(call, kind, None) PROVE CallsCarryOn
        <4>1. \A c \in Calls : call'[c].pc \in {"looked", "polled"} => call'[c] = call[c]
          BY <2>3, <3>2, NewCallIsFree DEF Send
        <4> QED
          BY <4>1 DEF CallsCarryOn
      <3> QED
        BY <2>2, <3>1, <3>2
    <2> QED
      BY <1>2, <2>1, <2>4, ApprovalStays DEF server
  <1>3. ASSUME TypeOK, Approval, Answers PROVE Approval'
    <2>1. server' = server
      BY <1>3 DEF Answers, Offered, NotOffered, GotToken, NotSignedIn, NotHeard, PollAnswered
    <2>2. CallsCarryOn
      <3>1. ASSUME NEW c \in Calls, NotOffered(c) \/ GotToken(c) \/ NotSignedIn(c) \/ NotHeard(c)
            PROVE  CallsCarryOn
        <4>1. call' = Done(c)
          BY <3>1 DEF NotOffered, GotToken, SignIn, NotSignedIn, NotHeard
        <4> QED
          BY <1>3, <4>1, FinishedCarryOn
      <3>2. ASSUME NEW c \in Calls, Offered(c) PROVE CallsCarryOn
        <4>1. /\ Done(c) \in [Calls -> CallState]
              /\ \A d \in Calls : Done(c)[d].pc \in {"looked", "polled"} => Done(c)[d] = call[d]
          BY <1>3, CallMoves DEF Done, NoCall, TypeOK
        <4>2. SetPush(call[c].req, "pending", Done(c), FALSE)
          BY <3>2 DEF Offered
        <4> QED
          BY <1>3, <4>1, <4>2, SetPushCarriesOn
      <3>3. ASSUME NEW r \in Requests, PollAnswered(r) PROVE CallsCarryOn
        <4>1. SetPush(pushRequestId, cloud[r], call, loading) /\ call \in [Calls -> CallState]
          BY <1>3, <3>3 DEF PollAnswered, TypeOK
        <4> QED
          BY <1>3, <4>1, SetPushCarriesOn
      <3> QED
        BY <1>3, <3>1, <3>2, <3>3 DEF Answers
    <2> QED
      BY <1>3, <2>1, <2>2, ApprovalStays DEF server
  <1>4. ASSUME TypesHold, Approval, SetupNext PROVE Approval'
    <2>0. TypeOK
      BY <1>4 DEF TypesHold, SetupTypeOK
    <2>1. ASSUME UNCHANGED vars PROVE Approval'
      BY <1>4, <2>1 DEF vars, server, Approval, TokenTakesApproval
    <2>2. CASE SignInStep \/ NotCompleted
      BY <1>2, <1>3, <1>4, <2>0, <2>2, ApprovalServed, BoundsOK DEF SignInStep, NotCompleted, Answers
    <2>3. ASSUME NEW calls, NEW stays, Unmounted(calls, stays),
                 \A c \in Calls : /\ calls[c].pc \in {"looked", "polled"} => calls[c].pc = call[c].pc
                                  /\ calls[c].pc \in {"looked", "polled"} => calls[c].req = call[c].req
          PROVE  Approval'
      BY <1>4, <2>3, ApprovalStays DEF Unmounted, server, CallsCarryOn
    <2>4. CASE Restart
      BY <2>3, <2>4 DEF Restart, NoCall
    <2>5. ASSUME NEW k \in 1 .. MaxSaves, StepDone(k) PROVE Approval'
      <3>1. CASE setup = "login" /\ setup' # "login"
        <4> DEFINE calls == [c \in Calls |-> IF call[c] = NoCall THEN NoCall ELSE [call[c] EXCEPT !.heard = FALSE]]
        <4>1. Unmounted(calls, loading)
          BY <2>5, <3>1 DEF StepDone
        <4>2. \A c \in Calls : calls[c].pc = call[c].pc /\ calls[c].req = call[c].req
          BY <2>0 DEF TypeOK, CallState, NoCall
        <4> HIDE DEF calls
        <4> QED
          BY <2>3, <4>1, <4>2
      <3>2. CASE ~(setup = "login" /\ setup' # "login")
        BY <2>1, <2>5, <3>2 DEF StepDone
      <3> QED
        BY <3>1, <3>2
    <2>6. CASE \/ \E mode \in {"managed", "standalone"} : ChooseMode(mode)
               \/ Continue \/ RegisterDevice
               \/ \E k \in 1 .. MaxSaves :
                      URLSaved(k) \/ Written(k) \/ NotRegistered(k) \/ StepFailed(k)
      BY <2>1, <2>6 DEF ChooseMode, Continue, RegisterDevice, Save, URLSaved, Written, NotRegistered,
                          StepFailed
    <2> QED
      BY <1>4, <2>2, <2>4, <2>5, <2>6 DEF SetupNext
  <1>5. Approval /\ UNCHANGED <<vars, settings>> => Approval'
    BY DEF Approval, TokenTakesApproval, vars, server
  <1>6. Approval => TokenTakesApproval
    BY DEF Approval
  <1> QED
    BY <1>1, <1>4, <1>5, <1>6, TypesAlways, PTL DEF SetupSpec

-----------------------------------------------------------------------------
(* The wizard and the settings. *)

\* Managed mode, or past it.
Placed(facts) == facts \intersect {"managed", "done"} # {}

Sound(facts) ==
    /\ "standalone" \in facts => "done" \in facts
    /\ "device" \in facts => Placed(facts)

\* RestartRedoesNothing is kept by a save because what is on disk is never
\* forgotten in memory, which the next save writes; and because a server's
\* address is saved only after the mode.
Resumes ==
    page = "wizard" =>
        /\ RestartRedoesNothing
        /\ Sound(memory) /\ Sound(disk)
        /\ disk \intersect {"url", "device", "done"} \subseteq memory
        /\ Placed(disk) => Placed(memory)
        /\ \A k \in 1 .. MaxSaves :
               /\ saves[k].kind = "url" => Placed(memory)
               /\ saves[k].pc = "done" => Rank[StepOf(disk)] >= Rank[NextStep[saves[k].kind]]

\* The wizard's rank of the settings, read off the facts.
LEMMA RankOf ==
    ASSUME NEW facts, Sound(facts)
    PROVE  /\ Rank[StepOf(facts)] \in 1 .. 5
           /\ Rank[StepOf(facts)] >= 2 <=> Placed(facts)
           /\ Rank[StepOf(facts)] >= 3 <=> "device" \in facts \/ (Placed(facts) /\ ("url" \in facts \/ "done" \in facts))
           /\ Rank[StepOf(facts)] >= 4 <=> facts \intersect {"device", "done"} # {}
           /\ Rank[StepOf(facts)] >= 5 <=> "done" \in facts
  BY DEF Rank, StepOf, Sound, Placed

\* Settings that know as much lead as far.
LEMMA RankGrows ==
    ASSUME NEW old, NEW new, Sound(old), Sound(new),
           old \intersect {"url", "device", "done"} \subseteq new, Placed(old) => Placed(new)
    PROVE  Rank[StepOf(new)] >= Rank[StepOf(old)]
  <1>1. /\ Rank[StepOf(old)] \in 1 .. 5 /\ Rank[StepOf(new)] \in 1 .. 5
        /\ \A n \in 2 .. 5 : Rank[StepOf(old)] >= n => Rank[StepOf(new)] >= n
    BY RankOf
  <1> QED
    BY <1>1

\* What the server's answer adds to the settings in memory.
LEMMA LearnedGrows ==
    ASSUME NEW kind \in {"managed", "standalone", "url", "register"}, Sound(memory),
           kind = "url" => Placed(memory)
    PROVE  /\ Sound(Learned(kind)) /\ Placed(Learned(kind))
           /\ memory \intersect {"url", "device", "done"} \subseteq Learned(kind)
           /\ Rank[StepOf(Learned(kind))] >= Rank[NextStep[kind]]
  <1>1. /\ Sound(Learned(kind)) /\ Placed(Learned(kind))
        /\ memory \intersect {"url", "device", "done"} \subseteq Learned(kind)
    BY DEF Sound, Placed, Learned
  <1>2. Rank[StepOf(Learned(kind))] >= Rank[NextStep[kind]]
    BY <1>1 DEF Rank, StepOf, Learned, NextStep, Placed
  <1> QED
    BY <1>1, <1>2

\* A step that leaves the settings and their saves alone, up to an answer
\* that is forgotten.
LEMMA ResumesStays ==
    ASSUME Resumes, saves \in SaveTable, page' = page, memory' = memory, disk' = disk, setup' = setup,
           \A k \in 1 .. MaxSaves : saves'[k] # saves[k] => saves'[k].kind \in {"none", saves[k].kind} /\ saves'[k].pc # "done"
    PROVE  Resumes'
  BY DEF Resumes, RestartRedoesNothing

\* RestartRedoesNothing: the app resumes where it was, or later.
THEOREM ResumesNoEarlier == SetupSpec => []RestartRedoesNothing
  <1>1. ASSUME SetupInit PROVE Resumes
    BY <1>1 DEF SetupInit, Init, Resumes, RestartRedoesNothing, Rank, StepOf, Sound, Placed, NoSave
  <1>2. ASSUME TypesHold, Resumes, SetupNext PROVE Resumes'
    <2>0. /\ setup \in {"mode", "server", "register", "login", "done"}
          /\ memory \subseteq Facts /\ disk \subseteq Facts /\ saves \in SaveTable
      BY <1>2 DEF TypesHold, SetupTypeOK, SaveTable
    <2>1. page' = page
      BY <1>2 DEF SetupNext, SignInStep, NotCompleted, Restart, ChooseMode, Continue, RegisterDevice, Save,
         URLSaved, Written, NotRegistered, StepDone, StepFailed, Unmounted, vars, form, ServerSide, Serve, Decide,
         ExpiresAt, PollServed, OfferReused, OfferNew, CodeVerified, LookedUp, StatusPolled, UsedUp, Fails,
         User, SubmitCredentials, SubmitCode, TryAgain, EnterCode, UsePush, ChangeAccount, CloseSheet,
         OpenSheet, Answers, Offered, NotOffered, GotToken, SignIn, NotSignedIn, NotHeard, PollAnswered
    <2>2. CASE page # "wizard"
      BY <2>1, <2>2 DEF Resumes
    <2> SUFFICES ASSUME page = "wizard" PROVE Resumes'
      BY <2>2
    <2>3. CASE SignInStep
      <3>1. CASE signedIn'
        <4>1. setup' = "done" /\ memory' = Completed /\ disk' = Completed /\ saves' = saves
          BY <2>3, <3>1 DEF SignInStep
        <4>2. StepOf(Completed) = "done" /\ Sound(Completed) /\ Placed(Completed)
          BY <1>2 DEF Completed, StepOf, Sound, Placed, Resumes
        <4>3. \A k \in 1 .. MaxSaves : saves[k].pc = "done" => Rank[NextStep[saves[k].kind]] \in 1 .. 5
          BY <2>0 DEF SaveTable, SaveState, NoSave, Rank, NextStep
        <4> QED
          BY <2>1, <4>1, <4>2, <4>3 DEF Resumes, RestartRedoesNothing, Rank
      <3>2. CASE ~signedIn'
        BY <1>2, <2>0, <2>1, <2>3, <3>2, ResumesStays DEF SignInStep, settings
      <3> QED
        BY <3>1, <3>2
    <2>4. CASE NotCompleted
      <3>1. /\ memory' = memory \union {"done"} /\ disk' = disk /\ setup' = setup /\ saves' = saves
        BY <2>4 DEF NotCompleted, Completed
      <3> QED
        BY <1>2, <2>1, <3>1 DEF Resumes, RestartRedoesNothing, Sound, Placed
    <2>5. CASE Restart
      <3>1. setup' = StepOf(disk) /\ memory' = disk /\ disk' = disk /\ saves' = [k \in 1 .. MaxSaves |-> NoSave]
        BY <2>5 DEF Restart
      <3> QED
        BY <1>2, <2>1, <3>1, RankOf DEF Resumes, RestartRedoesNothing, NoSave
    <2>6. ASSUME NEW kind \in {"managed", "standalone", "url", "register"}, Save(kind),
                 kind = "url" => setup = "server"
          PROVE  Resumes'
      <3>1. \E k \in 1 .. MaxSaves : saves' = [saves EXCEPT ![k] = [kind |-> kind, pc |-> "sent"]]
        BY <2>6 DEF Save, FreeSaves, NewSave
      <3>2. memory' = memory /\ disk' = disk /\ setup' = setup
        BY <2>6 DEF Save
      <3>3. kind = "url" => Placed(memory)
        BY <1>2, <2>6, RankOf DEF Resumes, RestartRedoesNothing, Rank
      <3>4. \A k \in 1 .. MaxSaves : saves'[k] = saves[k] \/ saves'[k] = [kind |-> kind, pc |-> "sent"]
        BY <2>0, <3>1 DEF SaveTable
      <3> QED
        BY <1>2, <2>1, <3>2, <3>3, <3>4 DEF Resumes, RestartRedoesNothing
    <2>7. CASE \/ \E mode \in {"managed", "standalone"} : ChooseMode(mode)
               \/ Continue \/ RegisterDevice
      BY <2>6, <2>7 DEF ChooseMode, Continue, RegisterDevice
    <2>8. ASSUME NEW k \in 1 .. MaxSaves, Written(k) PROVE Resumes'
      <3> DEFINE kind == saves[k].kind
      <3>1. kind \in {"managed", "standalone", "url", "register"} /\ memory' = Learned(kind) /\ setup' = setup
        BY <2>0, <2>8 DEF Written, Due, SaveTable, SaveState, NoSave
      <3>2. /\ Sound(memory') /\ Placed(memory')
            /\ memory \intersect {"url", "device", "done"} \subseteq memory'
            /\ Rank[StepOf(memory')] >= Rank[NextStep[kind]]
        BY <1>2, <3>1, LearnedGrows DEF Resumes
      <3>3. Rank[StepOf(memory')] >= Rank[StepOf(disk)]
        BY <1>2, <3>2, RankGrows DEF Resumes
      <3>4. CASE disk' = memory' /\ saves' = [saves EXCEPT ![k].pc = "done"]
        <4>1. /\ \A j \in 1 .. MaxSaves : j # k => saves'[j] = saves[j]
              /\ saves'[k].kind = kind
          BY <2>0, <2>8, <3>4 DEF SaveTable, SaveState, NoSave, Written, Due
        <4>2. Rank[setup] \in 1 .. 5 /\ Rank[StepOf(disk)] \in 1 .. 5 /\ Rank[StepOf(memory')] \in 1 .. 5
          BY <1>2, <2>0, <3>2, RankOf DEF Resumes, Rank
        <4>3. \A n \in 1 .. 5 : Rank[StepOf(disk)] >= n => Rank[StepOf(memory')] >= n
          BY <3>3, <4>2
        <4>4. \A j \in 1 .. MaxSaves : saves[j].pc = "done" => Rank[NextStep[saves[j].kind]] \in 1 .. 5
          BY <2>0 DEF SaveTable, SaveState, NoSave, Rank, NextStep
        <4> QED
          BY <1>2, <2>1, <3>1, <3>2, <3>4, <4>1, <4>2, <4>3, <4>4 DEF Resumes, RestartRedoesNothing
      <3>5. CASE disk' = disk /\ saves' = [saves EXCEPT ![k].pc = "failed"]
        <4>1. \A j \in 1 .. MaxSaves : saves'[j].kind = saves[j].kind /\ (saves'[j].pc = "done" => saves[j].pc = "done")
          BY <2>0, <2>8, <3>5 DEF SaveTable, SaveState, NoSave, Written, Due
        <4> QED
          BY <1>2, <2>1, <3>1, <3>2, <3>5, <4>1 DEF Resumes, RestartRedoesNothing
      <3> QED
        BY <2>8, <3>4, <3>5 DEF Written
    <2>9. ASSUME NEW k \in 1 .. MaxSaves, NotRegistered(k) \/ StepFailed(k) PROVE Resumes'
      <3>1. memory' = memory /\ disk' = disk /\ setup' = setup
        BY <2>9 DEF NotRegistered, StepFailed
      <3>2. \/ saves[k].kind = "register" /\ saves' = [saves EXCEPT ![k].pc = "failed"]
            \/ saves' = [saves EXCEPT ![k] = NoSave]
        BY <2>9 DEF NotRegistered, StepFailed, Forgotten
      <3>3. \A j \in 1 .. MaxSaves : /\ saves'[j].kind \in {"none", saves[j].kind}
                                     /\ saves'[j].pc = "done" => saves'[j] = saves[j]
        <4>1. saves[k] \in SaveState \union {NoSave} /\ \A j \in 1 .. MaxSaves : j # k => saves'[j] = saves[j]
          BY <2>0, <3>2 DEF SaveTable
        <4>2. saves'[k].kind \in {"none", saves[k].kind} /\ saves'[k].pc # "done"
          <5>1. CASE saves[k].kind = "register" /\ saves' = [saves EXCEPT ![k].pc = "failed"]
            <6>1. saves[k] \in SaveState
              BY <4>1, <5>1 DEF NoSave
            <6> QED
              BY <2>0, <5>1, <6>1 DEF SaveTable, SaveState
          <5>2. CASE saves' = [saves EXCEPT ![k] = NoSave]
            BY <2>0, <5>2 DEF SaveTable, NoSave
          <5> QED
            BY <3>2, <5>1, <5>2
        <4> QED
          BY <4>1, <4>2
      <3> QED
        BY <1>2, <2>1, <3>1, <3>3 DEF Resumes, RestartRedoesNothing
    <2>10. ASSUME NEW k \in 1 .. MaxSaves, StepDone(k) PROVE Resumes'
      <3>1. /\ saves[k].pc = "done" /\ setup' = NextStep[saves[k].kind] /\ memory' = memory /\ disk' = disk
            /\ saves' = [saves EXCEPT ![k] = NoSave]
        BY <2>10 DEF StepDone, Forgotten
      <3>2. \A j \in 1 .. MaxSaves : saves'[j] = saves[j] \/ saves'[j] = NoSave
        BY <2>0, <3>1 DEF SaveTable
      <3> QED
        BY <1>2, <2>1, <3>1, <3>2 DEF Resumes, RestartRedoesNothing, NoSave
    <2>11. ASSUME NEW k \in 1 .. MaxSaves, URLSaved(k) PROVE Resumes'
      <3>1. /\ memory' = memory \union {"url"} /\ setup' = setup /\ disk' \in {disk, memory'}
            /\ \E pc \in {"saved", "failed"} : saves' = [saves EXCEPT ![k].pc = pc]
            /\ saves[k].pc = "sent"
        BY <2>11 DEF URLSaved
      <3>2. \A j \in 1 .. MaxSaves : /\ saves'[j].kind = saves[j].kind
                                     /\ saves'[j].pc = "done" => saves'[j] = saves[j]
        BY <2>0, <3>1 DEF SaveTable, SaveState, NoSave
      <3>3. /\ Sound(memory') /\ (Placed(memory) => Placed(memory'))
            /\ memory \intersect {"url", "device", "done"} \subseteq memory'
        BY <1>2, <3>1 DEF Resumes, Sound, Placed
      <3>4. Rank[StepOf(memory')] >= Rank[StepOf(disk)]
        BY <1>2, <3>3, RankGrows DEF Resumes
      <3>5. CASE disk' = disk
        BY <1>2, <2>1, <3>1, <3>2, <3>3, <3>5 DEF Resumes, RestartRedoesNothing
      <3>6. CASE disk' = memory'
        <4>1. Rank[setup] \in 1 .. 5 /\ Rank[StepOf(disk)] \in 1 .. 5 /\ Rank[StepOf(memory')] \in 1 .. 5
          BY <1>2, <2>0, <3>3, RankOf DEF Resumes, Rank
        <4>2. \A n \in 1 .. 5 : Rank[StepOf(disk)] >= n => Rank[StepOf(memory')] >= n
          BY <3>4, <4>1
        <4>3. \A j \in 1 .. MaxSaves : saves[j].pc = "done" => Rank[NextStep[saves[j].kind]] \in 1 .. 5
          BY <2>0 DEF SaveTable, SaveState, NoSave, Rank, NextStep
        <4> QED
          BY <1>2, <2>1, <3>1, <3>2, <3>3, <3>6, <4>1, <4>2, <4>3 DEF Resumes, RestartRedoesNothing
      <3> QED
        BY <3>1, <3>5, <3>6
    <2> QED
      BY <1>2, <2>3, <2>4, <2>5, <2>7, <2>8, <2>9, <2>10, <2>11 DEF SetupNext
  <1>3. Resumes /\ UNCHANGED <<vars, settings>> => Resumes'
    BY DEF Resumes, RestartRedoesNothing, vars, form, settings
  <1>4. Resumes => RestartRedoesNothing
    BY DEF Resumes, RestartRedoesNothing
  <1> QED
    BY <1>1, <1>2, <1>3, <1>4, TypesAlways, PTL DEF SetupSpec
-----------------------------------------------------------------------------
(* Sign-ins on approvals that the page listens to. *)

Listening(c) == call[c].kind = "push" /\ call[c].heard

OneListens == page # "wizard" => \A c, d \in Calls : Listening(c) /\ Listening(d) => c = d

\* No call that the page does not listen to becomes one that it does.
NoneHeardAnew == page' = page /\ \A c \in Calls : Listening(c)' => Listening(c)

\* Each of them is counted once.
LEMMA ListensCounted ==
    ASSUME OneListens
    PROVE  OneSignInHeard
  <1> DEFINE S == {c \in Calls : call[c].kind = "push" /\ call[c].heard}
  <1>1. CASE page = "wizard"
    BY <1>1 DEF OneSignInHeard
  <1>2. CASE page # "wizard" /\ S = {}
    <2>1. Cardinality(S) = 0
      BY <1>2, FS_EmptySet
    <2> QED
      BY <2>1 DEF OneSignInHeard
  <1>3. CASE page # "wizard" /\ S # {}
    <2>1. PICK c \in S : TRUE
      BY <1>3
    <2>2. S = {c}
      BY <1>3, <2>1 DEF OneListens, Listening
    <2>3. Cardinality(S) = 1
      BY <2>2, FS_Singleton
    <2> QED
      BY <2>3 DEF OneSignInHeard
  <1> QED
    BY <1>1, <1>2, <1>3

\* A call that goes on, ends, or is sent by the user is not heard anew.
LEMMA CallsHeard ==
    ASSUME TypeOK, NEW c \in Calls, NEW r, NEW pc, page' = page,
           \/ call' = [call EXCEPT ![c].pc = pc]
           \/ call' = [call EXCEPT ![c].pc = pc, ![c].req = r]
           \/ call' = Done(c)
    PROVE  NoneHeardAnew
  <1>1. call \in [Calls -> CallState]
    BY DEF TypeOK
  <1>2. /\ [call[c] EXCEPT !.pc = pc].kind = call[c].kind
        /\ [call[c] EXCEPT !.pc = pc].heard = call[c].heard
        /\ [call[c] EXCEPT !.pc = pc, !.req = r].kind = call[c].kind
        /\ [call[c] EXCEPT !.pc = pc, !.req = r].heard = call[c].heard
    BY <1>1 DEF CallState
  <1>3. \A d \in Calls : call'[d].kind = "push" /\ call'[d].heard => Listening(d)
    <2>1. CASE call' = [call EXCEPT ![c].pc = pc]
      BY <1>1, <1>2, <2>1 DEF Listening
    <2>2. CASE call' = [call EXCEPT ![c].pc = pc, ![c].req = r]
      BY <1>1, <1>2, <2>2 DEF Listening
    <2>3. CASE call' = Done(c)
      BY <1>1, <2>3 DEF Listening, Done, NoCall
    <2> QED
      BY <2>1, <2>2, <2>3
  <1> QED
    BY <1>3 DEF NoneHeardAnew, Listening

\* A call that the user sends is not on an approval.
LEMMA UserCallsHeard ==
    ASSUME TypeOK, NEW kind \in {"first", "code", "retry"}, Submits(kind), page' = page
    PROVE  NoneHeardAnew
BY DEF TypeOK, Submits, Send, FreeCalls, NewCall, NoneHeardAnew, Listening

\* A page that turns deaf listens to no approval.
LEMMA DeafHeard ==
    ASSUME NEW calls \in [Calls -> CallState], NEW c \in Calls
    PROVE  ~(Deafen(calls)[c].kind = "push" /\ Deafen(calls)[c].heard)
BY DEF Deafen, CallState

\* The effect on an approval turns the page deaf before it signs in.
LEMMA SetPushHeard ==
    ASSUME TypeOK, OneListens, NEW r, NEW status, NEW idle, page' = page,
           NEW calls \in [Calls -> CallState],
           \A c \in Calls : calls[c].kind = "push" /\ calls[c].heard => Listening(c),
           SetPush(r, status, calls, idle)
    PROVE  OneListens'
  <1> DEFINE changed == r # pushRequestId \/ status # pushStatus
             runs == /\ changed /\ status = "approved" /\ r # None
                     /\ page = "wizard" => ~completing
             left == IF changed /\ page # "wizard" THEN Deafen(calls) ELSE calls
  <1>1. /\ runs => FreeCalls # {}
        /\ call' = IF runs THEN Send(left, "push", r) ELSE left
    BY DEF SetPush
  <1>2. left \in [Calls -> CallState]
    BY DeafenTyped
  <1>3. \A c \in Calls : left[c].kind = "push" /\ left[c].heard => Listening(c)
    BY DeafHeard
  <1>4. CASE page = "wizard"
    BY <1>4 DEF OneListens
  <1>5. CASE page # "wizard" /\ runs
    <2>1. \A c \in Calls : ~(left[c].kind = "push" /\ left[c].heard)
      BY <1>5, DeafHeard
    <2> HIDE DEF left, runs
    <2>2. NewCall \in Calls /\ call' = Send(left, "push", r)
      BY <1>1, <1>5 DEF FreeCalls, NewCall
    <2>3. \A c \in Calls : c # NewCall => call'[c] = left[c]
      BY <1>2, <2>2 DEF Send
    <2> QED
      BY <2>1, <2>3 DEF OneListens, Listening
  <1>6. CASE page # "wizard" /\ ~runs
    <2> HIDE DEF left, runs
    <2> QED
      BY <1>1, <1>3, <1>6 DEF OneListens, Listening
  <1> QED
    BY <1>4, <1>5, <1>6

\* What the server does to a call, the page does not hear.
LEMMA ServerHeard ==
    ASSUME TypeOK, ServerSide
    PROVE  NoneHeardAnew
  <1> USE DEF form
  <1>1. ASSUME NEW r \in Requests, Decide(r) \/ ExpiresAt(r) \/ PollServed(r)
        PROVE  NoneHeardAnew
    BY <1>1 DEF Decide, ExpiresAt, PollServed, NoneHeardAnew, Listening
  <1>2. ASSUME NEW c \in Calls, Serve(c) PROVE NoneHeardAnew
    <2>1. /\ page' = page
          /\ \E pc, r : \/ call' = [call EXCEPT ![c].pc = pc]
                        \/ call' = [call EXCEPT ![c].pc = pc, ![c].req = r]
      BY <1>2 DEF Serve, OfferReused, OfferNew, CodeVerified, LookedUp, StatusPolled, UsedUp,
                  Fails, Answer
    <2> QED
      BY <2>1, CallsHeard
  <1> QED
    BY <1>1, <1>2 DEF ServerSide

\* What the user does begins no sign-in on an approval.
LEMMA UserHeard ==
    ASSUME TypeOK, User
    PROVE  NoneHeardAnew
  <1> USE DEF form
  <1>1. CASE SubmitCredentials \/ SubmitCode \/ TryAgain \/ UsePush
    BY <1>1, UserCallsHeard DEF SubmitCredentials, SubmitCode, TryAgain, UsePush
  <1>2. CASE EnterCode \/ ChangeAccount \/ CloseSheet
    BY <1>2 DEF EnterCode, ChangeAccount, CloseSheet, NoneHeardAnew, Listening
  <1>3. CASE OpenSheet
    BY <1>3, DeafHeard DEF OpenSheet, TypeOK, NoneHeardAnew, Listening
  <1> QED
    BY <1>1, <1>2, <1>3 DEF User

\* What answers bring.
LEMMA AnswersHeard ==
    ASSUME TypeOK, OneListens, Answers
    PROVE  OneListens'
  <1> USE DEF form
  <1>1. ASSUME NEW c \in Calls, Offered(c) PROVE OneListens'
    <2>1. Done(c) \in [Calls -> CallState]
      BY CallMoves DEF Done
    <2>2. \A d \in Calls : Done(c)[d].kind = "push" /\ Done(c)[d].heard => Listening(d)
      BY DEF Done, NoCall, Listening, TypeOK
    <2>3. SetPush(call[c].req, "pending", Done(c), FALSE) /\ page' = page
      BY <1>1 DEF Offered
    <2> QED
      BY <2>1, <2>2, <2>3, SetPushHeard
  <1>2. ASSUME NEW c \in Calls, NotOffered(c) \/ GotToken(c) \/ NotSignedIn(c) \/ NotHeard(c)
        PROVE  OneListens'
    <2>1. call' = Done(c) /\ page' = page
      BY <1>2 DEF NotOffered, GotToken, SignIn, NotSignedIn, NotHeard
    <2>2. NoneHeardAnew
      BY <2>1, CallsHeard
    <2> QED
      BY <2>2 DEF NoneHeardAnew, OneListens
  <1>3. ASSUME NEW r \in Requests, PollAnswered(r) PROVE OneListens'
    <2>1. SetPush(pushRequestId, cloud[r], call, loading) /\ page' = page
      BY <1>3 DEF PollAnswered
    <2> QED
      BY <2>1, SetPushHeard DEF TypeOK, Listening
  <1> QED
    BY <1>1, <1>2, <1>3 DEF Answers

\* A page listens to one sign-in on an approval at a time, however many polls
\* of how many requests report one: what an older one brings does not change
\* the page any more (the cleanup of the effect, Login.tsx:71,
\* LoginSheet.tsx:65).
THEOREM OneIsHeard == SetupSpec => []OneSignInHeard
  <1>1. SetupInit => OneListens
    BY DEF SetupInit, Init, NoCall, OneListens, Listening
  <1>2. ASSUME TypesHold, OneListens, SetupNext PROVE OneListens'
    <2>0. TypeOK
      BY <1>2 DEF TypesHold, SetupTypeOK
    <2>1. ASSUME NoneHeardAnew PROVE OneListens'
      BY <1>2, <2>1 DEF NoneHeardAnew, OneListens
    <2>2. ASSUME UNCHANGED vars PROVE OneListens'
      BY <1>2, <2>2 DEF vars, form, OneListens, Listening
    <2>3. CASE SignInStep \/ NotCompleted
      <3>1. ServerSide \/ User \/ Answers
        BY <2>3 DEF SignInStep, NotCompleted, Answers
      <3> QED
        BY <1>2, <2>0, <2>1, <3>1, ServerHeard, UserHeard, AnswersHeard
    <2>4. CASE Restart
      BY <2>4 DEF Restart, Unmounted, OneListens
    <2>5. ASSUME NEW k \in 1 .. MaxSaves, StepDone(k) PROVE OneListens'
      <3>1. CASE UNCHANGED vars
        BY <2>2, <3>1
      <3>2. CASE ~UNCHANGED vars
        <4>1. /\ page' = page
              /\ call' = [c \in Calls |-> IF call[c] = NoCall THEN NoCall
                                          ELSE [call[c] EXCEPT !.heard = FALSE]]
          BY <2>5, <3>2 DEF StepDone, Unmounted
        <4>2. NoneHeardAnew
          BY <2>0, <4>1 DEF TypeOK, CallState, NoCall, NoneHeardAnew, Listening
        <4> QED
          BY <2>1, <4>2
      <3> QED
        BY <3>1, <3>2
    <2>6. CASE \/ \E mode \in {"managed", "standalone"} : ChooseMode(mode)
               \/ Continue \/ RegisterDevice
               \/ \E k \in 1 .. MaxSaves :
                      URLSaved(k) \/ Written(k) \/ NotRegistered(k) \/ StepFailed(k)
      BY <2>2, <2>6 DEF ChooseMode, Continue, RegisterDevice, Save, URLSaved, Written, NotRegistered,
                          StepFailed
    <2> QED
      BY <1>2, <2>3, <2>4, <2>5, <2>6 DEF SetupNext
  <1>3. OneListens /\ UNCHANGED <<vars, settings>> => OneListens'
    BY DEF vars, form, OneListens, Listening
  <1> QED
    BY <1>1, <1>2, <1>3, ListensCounted, TypesAlways, PTL DEF SetupSpec
=============================================================================
