----------------------------- MODULE PushLogin -----------------------------
(***************************************************************************)
(* Signing in with a password and a second factor: the three pages that do *)
(* it - Login.tsx of the administration UI ("login"), LoginSheet.tsx       *)
(* ("sheet") and the last step of SetupWizard.tsx ("wizard") of the        *)
(* desktop app - and the handlers of auth.go and pushauth.go they call.    *)
(*                                                                         *)
(* The server answers a right password with a push request to the user's   *)
(* phone.  The page polls for the user's decision every 2 s, each poll on  *)
(* its own, and signs in when a poll says "approved".  The answer to a     *)
(* poll carries no request: the page takes it to be about the request it   *)
(* holds.  Nothing stops a poll or a call once it is sent; React's cleanup *)
(* only makes the page deaf to the sign-in of an effect that ran again.    *)
(***************************************************************************)
EXTENDS Naturals, FiniteSets

CONSTANTS
    Pages,          \* the pages looked at, of "login", "sheet", "wizard"
    MaxRequests,    \* bound: push requests ProIdentity Cloud makes
    MaxCalls        \* bound: sign-in calls in flight at once

ASSUME BoundsOK ==
    /\ Pages \subseteq {"login", "sheet", "wizard"}
    /\ MaxRequests \in Nat \ {0} /\ MaxCalls \in Nat \ {0}

Requests == 1 .. MaxRequests
Calls == 1 .. MaxCalls
None == 0

Verdicts == {"approved", "refused"}     \* refused: denied or expired

VARIABLES
    \* ProIdentity Cloud
    cloud,      \* the status of each request
    \* pushauth.go
    pending,    \* pushPending: requests that may still be used
    tokens,     \* how many tokens were issued on each request
    \* between page and server
    call,       \* sign-in calls
    asked,      \* requests that polls may be out for
    answered,   \* requests whose verdict may be on its way to the page
    \* the page
    page, step, pushEnabled, pushRequestId, pushStatus,
    polls,      \* intervals that run, by the request they poll
    pollRef,    \* the interval in pollRef
    loading,    \* loading of the page, or of useManagedStore
    pushLoading,    \* "sheet" only
    completing,     \* completingPushRef, "wizard" only
    shown,      \* the page is there; the sheet may be closed
    signedIn

server == <<cloud, pending, tokens>>
form == <<page, step, pushEnabled, shown, signedIn>>
push == <<pushRequestId, pushStatus, polls, pollRef>>
busy == <<loading, pushLoading, completing>>
polled == <<asked, answered>>
vars == <<server, call, polled, form, push, busy>>

CallState == [pc: {"free", "sent", "looked", "polled", "offer", "token", "error"},
              kind: {"first", "code", "retry", "push"}, req: Requests \union {None}, heard: BOOLEAN]
NoCall == [pc |-> "free", kind |-> "first", req |-> None, heard |-> TRUE]

TypeOK ==
    /\ cloud \in [Requests -> {"none", "pending"} \union Verdicts]
    /\ pending \subseteq Requests
    /\ tokens \in [Requests -> Nat]
    /\ call \in [Calls -> CallState]
    /\ asked \subseteq Requests /\ answered \subseteq Requests
    /\ page \in Pages /\ step \in {"credentials", "push", "totp"}
    /\ pushRequestId \in Requests \union {None}
    /\ pushStatus \in {"idle", "pending"} \union Verdicts
    /\ polls \subseteq Requests /\ pollRef \in Requests \union {None}
    /\ {pushEnabled, loading, pushLoading, completing, shown, signedIn} \subseteq BOOLEAN

Init ==
    /\ cloud = [r \in Requests |-> "none"]
    /\ pending = {} /\ tokens = [r \in Requests |-> 0]
    /\ call = [c \in Calls |-> NoCall] /\ asked = {} /\ answered = {}
    /\ page \in Pages /\ step = "credentials" /\ pushEnabled = FALSE
    /\ pushRequestId = None /\ pushStatus = "idle" /\ polls = {} /\ pollRef = None
    /\ loading = FALSE /\ pushLoading = FALSE /\ completing = FALSE
    /\ shown = TRUE /\ signedIn = FALSE

-----------------------------------------------------------------------------
(* The server. *)

\* The user decides on the phone, or lets the request expire.
Decide(r) ==
    /\ cloud[r] = "pending"
    /\ \E verdict \in Verdicts : cloud' = [cloud EXCEPT ![r] = verdict]
    /\ UNCHANGED <<pending, tokens, call, polled, form, push, busy>>

\* 120 s after it was made.
ExpiresAt(r) ==
    /\ r \in pending
    /\ pending' = pending \ {r}
    /\ UNCHANGED <<cloud, tokens, call, polled, form, push, busy>>

Answer(c, pc, r) == call' = [call EXCEPT ![c].pc = pc, ![c].req = r]

Unmade == {r \in Requests : cloud[r] = "none"}
NewRequest == CHOOSE r \in Unmade : TRUE

\* handleLogin without a second factor; the password is right.  A request is
\* reused if it is undecided, or made less than 10 s ago and unreadable; the
\* refused ones that can be read are forgotten on the way to it.
FindReusable(r, forgotten) ==
    /\ r \in pending \ forgotten
    /\ forgotten \subseteq {q \in pending : cloud[q] = "refused"}

OfferReused(c) ==
    /\ call[c].pc = "sent" /\ call[c].kind \in {"first", "retry"}
    /\ \E r \in pending : \E forgotten \in SUBSET pending :
           /\ FindReusable(r, forgotten)
           /\ pending' = pending \ forgotten
           /\ Answer(c, "offer", r)
    /\ UNCHANGED <<cloud, tokens, polled, form, push, busy>>

\* No request is reused: a new one is made, unless the cloud refuses.
OfferNew(c) ==
    /\ call[c].pc = "sent" /\ call[c].kind \in {"first", "retry"}
    /\ \E forgotten \in SUBSET {q \in pending : cloud[q] = "refused"} :
           \/ /\ pending' = pending \ forgotten
              /\ Answer(c, "offer", None)
              /\ UNCHANGED cloud
           \/ /\ Unmade # {}
              /\ cloud' = [cloud EXCEPT ![NewRequest] = "pending"]
              /\ pending' = (pending \ forgotten) \union {NewRequest}
              /\ Answer(c, "offer", NewRequest)
    /\ UNCHANGED <<tokens, polled, form, push, busy>>

\* The code is right.
CodeVerified(c) ==
    /\ call[c].pc = "sent" /\ call[c].kind = "code"
    /\ Answer(c, "token", None)
    /\ UNCHANGED <<server, polled, form, push, busy>>

\* verifyBoundPushAuth: looked up, polled without the lock, then used up.
LookedUp(c) ==
    /\ call[c].pc = "sent" /\ call[c].kind = "push" /\ call[c].req \in pending
    /\ call' = [call EXCEPT ![c].pc = "looked"]
    /\ UNCHANGED <<server, polled, form, push, busy>>

\* Mutant of StatusPolled: what is not refused is approved.
StatusNotRefused(c) ==
    /\ call[c].pc = "looked" /\ cloud[call[c].req] # "refused"
    /\ call' = [call EXCEPT ![c].pc = "polled"]
    /\ UNCHANGED <<server, polled, form, push, busy>>

StatusPolled(c) ==
    /\ call[c].pc = "looked" /\ cloud[call[c].req] = "approved"
    /\ call' = [call EXCEPT ![c].pc = "polled"]
    /\ UNCHANGED <<server, polled, form, push, busy>>

UsedUp(c) ==
    /\ call[c].pc = "polled"
    /\ pending' = pending \ {call[c].req}
    /\ tokens' = [tokens EXCEPT ![call[c].req] = @ + 1]
    /\ call' = [call EXCEPT ![c].pc = "token"]
    /\ UNCHANGED <<cloud, polled, form, push, busy>>

\* The call is refused or fails on its way, or its answer does.
Fails(c) ==
    /\ call[c].pc \notin {"free", "error"}
    /\ call' = [call EXCEPT ![c].pc = "error"]
    /\ UNCHANGED <<server, polled, form, push, busy>>

\* handlePushAuthPollPublic.  An error, also for a request the server does
\* not know any more, and "pending" change nothing on the page.  How many
\* polls are out is not counted: the answer may be given again.
PollServed(r) ==
    /\ r \in asked \intersect pending /\ cloud[r] \in Verdicts
    /\ answered' = answered \union {r}
    /\ pending' = IF cloud[r] = "refused" THEN pending \ {r} ELSE pending
    /\ UNCHANGED <<cloud, tokens, call, asked, form, push, busy>>

-----------------------------------------------------------------------------
(* The page: calls and the effect that completes a sign-in. *)

FreeCalls == {c \in Calls : call[c].pc = "free"}
NewCall == CHOOSE c \in FreeCalls : TRUE

Send(calls, kind, r) ==
    [calls EXCEPT ![NewCall] = [pc |-> "sent", kind |-> kind, req |-> r, heard |-> TRUE]]

\* Mutant of Deafen: the effect has no cleanup.
StillHeard(calls) == calls

\* The page is deaf to the sign-in its effect began.
Deafen(calls) ==
    [c \in Calls |-> IF calls[c].kind = "push" THEN [calls[c] EXCEPT !.heard = FALSE] ELSE calls[c]]

\* The state the page sets, and the effect on [pushStatus, pushRequestId]:
\* calls are the calls as the handler leaves them, idle what it set loading to.
SetPush(r, status, calls, idle) ==
    LET changed == r # pushRequestId \/ status # pushStatus
        runs == /\ changed /\ status = "approved" /\ r # None
                /\ page = "wizard" => ~completing
        left == IF changed /\ page # "wizard" THEN Deafen(calls) ELSE calls
    IN  /\ pushRequestId' = r /\ pushStatus' = status
        /\ runs => FreeCalls # {}
        /\ call' = IF runs THEN Send(left, "push", r) ELSE left
        /\ loading' = IF runs THEN TRUE ELSE idle
        /\ pushLoading' = ((runs /\ page = "sheet") \/ pushLoading)
        /\ completing' = ((runs /\ page = "wizard") \/ completing)

StopPolling == polls' = polls \ {pollRef} /\ pollRef' = None

\* Mutant of StartPolling: the interval before is left running.
StartPollingBeside(r) ==
    /\ polls' = polls \union {r} /\ pollRef' = r
    /\ asked' = asked \union {r}

StartPolling(r) ==
    /\ polls' = (polls \ {pollRef}) \union {r} /\ pollRef' = r
    /\ asked' = asked \union {r}

\* A poll comes back, sooner or later, with a verdict.
PollAnswered(r) ==
    /\ r \in answered
    /\ StopPolling
    /\ SetPush(pushRequestId, cloud[r], call, loading)
    /\ UNCHANGED <<server, polled, form>>

-----------------------------------------------------------------------------
(* The page: what the user does. *)

Submits(kind) ==
    /\ shown /\ ~signedIn /\ FreeCalls # {}
    /\ call' = Send(call, kind, None)
    /\ loading' = TRUE

SubmitCredentials ==
    /\ step = "credentials" /\ ~loading
    /\ Submits("first")
    /\ UNCHANGED <<server, polled, form, push, pushLoading, completing>>

SubmitCode ==
    /\ step = "totp" /\ ~loading
    /\ Submits("code")
    /\ UNCHANGED <<server, polled, form, push, pushLoading, completing>>

TryAgain ==
    /\ step = "push" /\ pushStatus = "refused" /\ ~loading
    /\ Submits("retry")
    /\ completing' = FALSE
    /\ UNCHANGED <<server, polled, form, push, pushLoading>>

EnterCode ==
    /\ shown /\ ~signedIn /\ step = "push" /\ pushStatus # "approved"
    /\ StopPolling
    /\ step' = "totp"
    /\ UNCHANGED <<server, call, polled, page, pushEnabled, shown, signedIn,
                   pushRequestId, pushStatus, busy>>

UsePush ==
    /\ page # "wizard" /\ step = "totp" /\ pushEnabled
    /\ Submits("retry")
    /\ step' = "push"
    /\ UNCHANGED <<server, polled, page, pushEnabled, shown, signedIn, push, pushLoading, completing>>

\* resetToCredentials
ChangeAccount ==
    /\ page = "wizard" /\ ~signedIn /\ step = "push" /\ pushStatus # "approved"
    /\ StopPolling
    /\ step' = "credentials" /\ completing' = FALSE
    /\ pushRequestId' = None /\ pushStatus' = "idle"
    /\ UNCHANGED <<server, call, polled, page, pushEnabled, shown, signedIn, loading, pushLoading>>

CloseSheet ==
    /\ page = "sheet" /\ shown /\ ~loading
    /\ step = "push" => ~pushLoading
    /\ StopPolling
    /\ shown' = FALSE
    /\ UNCHANGED <<server, call, polled, page, step, pushEnabled, signedIn,
                   pushRequestId, pushStatus, busy>>

\* The sheet opens again: its state is new.
OpenSheet ==
    /\ ~shown /\ ~signedIn
    /\ shown' = TRUE /\ step' = "credentials" /\ pushEnabled' = FALSE
    /\ pushRequestId' = None /\ pushStatus' = "idle" /\ pushLoading' = FALSE
    /\ StopPolling
    /\ call' = Deafen(call)
    /\ UNCHANGED <<server, polled, page, signedIn, loading, completing>>

-----------------------------------------------------------------------------
(* The page: answers. *)

Done(c) == [call EXCEPT ![c] = NoCall]

\* The page goes away and its interval with it.
SignIn(c) ==
    /\ signedIn' = TRUE /\ StopPolling
    /\ call' = Done(c) /\ loading' = FALSE
    /\ UNCHANGED <<page, step, pushEnabled, shown, pushRequestId, pushStatus>>

\* A request to wait for.
Offered(c) ==
    /\ call[c].pc = "offer" /\ call[c].req # None /\ (page = "wizard" => call[c].heard)
    /\ StartPolling(call[c].req)
    /\ SetPush(call[c].req, "pending", Done(c), FALSE)
    /\ IF call[c].kind = "first"
       THEN step' = "push" /\ pushEnabled' = TRUE
       ELSE step' = (IF page = "wizard" THEN "push" ELSE step) /\ UNCHANGED pushEnabled
    /\ UNCHANGED <<server, answered, page, shown, signedIn>>

\* A code is asked for.
NotOffered(c) ==
    /\ call[c].pc = "offer" /\ call[c].req = None /\ (page = "wizard" => call[c].heard)
    /\ step' = IF call[c].kind = "first" \/ page = "wizard" THEN "totp" ELSE step
    /\ call' = Done(c) /\ loading' = FALSE
    /\ UNCHANGED <<server, polled, page, pushEnabled, shown, signedIn, push, pushLoading, completing>>

\* A token, and the page has signed in; the sign-in fails if what follows does
\* (me(), completeSetup).
GotToken(c) ==
    /\ call[c].pc = "token"
    /\ call[c].heard \/ page = "wizard"
    /\ SignIn(c)
    /\ UNCHANGED <<server, polled, pushLoading, completing>>

NotSignedIn(c) ==
    /\ \/ call[c].pc = "error" /\ (call[c].heard \/ page # "login")
       \/ call[c].pc = "token" /\ page # "sheet" /\ (call[c].heard \/ page = "wizard")
    /\ call' = Done(c) /\ loading' = FALSE
    /\ pushLoading' = (pushLoading /\ ~(call[c].kind = "push" /\ call[c].heard))
    /\ completing' = (completing /\ ~(call[c].kind = "push" /\ call[c].heard))
    /\ UNCHANGED <<server, polled, form, push>>

\* The page is deaf to the answer.  loginWithPush of the store signs in all the
\* same; the sheet stays as it is, open and polling.
NotHeard(c) ==
    /\ ~call[c].heard
    /\ \/ call[c].pc \in {"token", "error"} /\ page = "login" /\ UNCHANGED loading
       \/ call[c].pc = "token" /\ page = "sheet" /\ loading' = FALSE
       \/ call[c].pc = "offer" /\ page = "wizard" /\ loading' = FALSE
    /\ call' = Done(c)
    /\ UNCHANGED <<server, polled, form, push, pushLoading, completing>>

-----------------------------------------------------------------------------
Serve(c) ==
    \/ OfferReused(c) \/ OfferNew(c) \/ CodeVerified(c)
    \/ LookedUp(c) \/ StatusPolled(c) \/ UsedUp(c) \/ Fails(c)

ServerSide ==
    \/ \E r \in Requests : Decide(r) \/ ExpiresAt(r) \/ PollServed(r)
    \/ \E c \in Calls : Serve(c)

User ==
    \/ SubmitCredentials \/ SubmitCode \/ TryAgain \/ EnterCode \/ UsePush
    \/ ChangeAccount \/ CloseSheet \/ OpenSheet

Answers ==
    \/ \E c \in Calls : Offered(c) \/ NotOffered(c) \/ GotToken(c) \/ NotSignedIn(c) \/ NotHeard(c)
    \/ \E r \in Requests : PollAnswered(r)

-----------------------------------------------------------------------------
(* Properties. *)

\* Only the interval in pollRef runs, and it polls the request the page would
\* sign in with: an interval that is lost track of would go on for ever.
PollsHeldRequest ==
    /\ polls \subseteq {pollRef}
    /\ pollRef # None => pollRef = pushRequestId

\* A token on a push request takes the user's approval of that request, and
\* the server forgets the request: an approval is not for later.
TokenTakesApproval ==
    \A r \in Requests : tokens[r] > 0 => cloud[r] = "approved" /\ r \notin pending

\* The page listens to one sign-in at a time: what an older one brings, when
\* the user meanwhile asked anew, neither ends the page nor what it waits for.
\* (The store of the desktop app may be signed in by it: LoginSheet.tsx:57-63.)
OneSignInHeard ==
    page # "wizard" =>
        Cardinality({c \in Calls : call[c].kind = "push" /\ call[c].heard}) <= 1

=============================================================================
