----------------------------- MODULE AdminLists -----------------------------
(***************************************************************************)
(* The pages of the administration UI that keep a list.  Each reads its    *)
(* list from the server when it opens, some again at an interval; what the *)
(* user does in a sheet, a drawer or on a row is sent to the server and    *)
(* the page then reads again, or corrects what it shows by itself.         *)
(* Nothing orders the replies, nothing stops a reply for a page that has   *)
(* gone on, and other administrators change the same data.                 *)
(*                                                                         *)
(* A page is a record of what it reads and of its handlers; the machine is *)
(* the same for all.  A list has rows and, per row, details (the members   *)
(* of a role, the servers of a user): some pages read them after the rows, *)
(* some read the details of one row when its drawer opens.                 *)
(***************************************************************************)
EXTENDS Naturals, Sequences, FiniteSets, SequencesExt

CONSTANTS
    Items,          \* bound: the rows there will ever be
    Pages,          \* the pages looked at
    Crowded,        \* the pages whose data others change meanwhile
    MaxLoads,       \* bound: replies to reads in flight
    MaxCalls        \* bound: what the user submits, by page

None == "none"      \* no item

ASSUME BoundsOK == None \notin Items /\ Crowded \subseteq Pages /\ MaxLoads \in Nat \ {0} /\ MaxCalls \in [Pages -> Nat]

-----------------------------------------------------------------------------
(* The handlers: where they are, what the server is asked to do, the busy   *)
(* flag that keeps them from being sent twice, and what an answer does:     *)
(* "list" and "own" read again, "close" closes the sheet or the drawer,     *)
(* "here" corrects the rows shown, "leave" goes to another page.            *)

H(at, does, flag, then) == [at |-> at, does |-> does, flag |-> flag, then |-> then]

\* The sheets of People, Roles, Resources and Bundles: busy until answered.
EditingSheet == {H("create", "add", "sheet", {"list", "close"}),
                 H("edit", "change", "sheet", {"list", "close"})}
PersonSheet == EditingSheet
RoleSheet == EditingSheet
ResourceSheet == EditingSheet
BundleSheet == EditingSheet

CreateServerSheet == {H("create", "add", "sheet", {"list", "close"})}
UploadOpenVPN == {H("create", "add", "sheet", {"list", "close"})}
UploadWireGuard == {H("create", "add", "sheet", {"list", "close"})}

\* ConfirmDelete: the dialog stays until the deletion is answered.
ConfirmDelete == {H("confirm", "remove", "confirm", {"list", "close"})}

\* Mutant of PersonAccess: a change of the access reads the list only.
PersonAccessListOnly == {H("drawer", "relate", None, {"list"})}

PersonAccess == {H("drawer", "relate", None, {"own"})}
PersonAccount == {H("drawer", "change", None, {"list"}), H("drawer", "change", "drawer", {"list"})}
PersonDrawer == PersonAccess \union PersonAccount \union ConfirmDelete
RoleDrawer == {H("drawer", "relate", None, {"list"}), H("drawer", "change", "drawer", {"list"})}
              \union ConfirmDelete
ResourceDrawer == {H("drawer", "relate", None, {"list"})} \union ConfirmDelete

\* Mutant of BundleDrawer: nothing is read after a change.
BundleDrawerSilent == {H("drawer", "relate", None, {})} \union ConfirmDelete

BundleDrawer == {H("drawer", "relate", None, {"list"})} \union ConfirmDelete

\* The ManageSheets: saving, and what a button does at once.  An assignment
\* changes the count that the row shows, too.
OpenVPNSettings == {H("drawer", "change", "drawer", {"list"})}
OpenVPNUsers == {H("drawer", "assign", "drawer", {"own", "list"}), H("drawer", "relate", "drawer", {"own"}),
                 H("drawer", "assign", None, {"own", "list"}), H("drawer", "remove", None, {"list", "close"})}
WireGuardSettings == {H("drawer", "change", "drawer", {"list"}), H("drawer", "change", None, {"list"})}
WireGuardUsers == {H("drawer", "assign", "drawer", {"own", "list"}),
                   H("drawer", "assign", None, {"own", "list"}), H("drawer", "remove", None, {"list", "close"})}

Reads(list, own, again, handlers) ==
    [list |-> list, own |-> own, again |-> again, handlers |-> handlers]

\* What a drawer reads of its row: nothing, when it opens ("fresh"), or into
\* the one sheet that serves every row ("kept").  The list is read again at an
\* interval, with a button, or only after a change.
People == Reads(<<"rows">>, "fresh", None, PersonSheet \union PersonDrawer)
Roles == Reads(<<"rows", "details">>, None, None, RoleSheet \union RoleDrawer)
Resources == Reads(<<"rows", "details">>, None, None, ResourceSheet \union ResourceDrawer)
Bundles == Reads(<<"rows", "details">>, None, None, BundleSheet \union BundleDrawer)
ServersList == Reads(<<"rows">>, None, None, CreateServerSheet)
LiveTab == Reads(<<"rows">>, None, "interval", {H("row", "remove", None, {"list"})})
AccessTab == Reads(<<"rows">>, None, None, {H("row", "remove", None, {"list"}), H("page", "add", None, {"list"})})
ConfigTab == Reads(<<"rows">>, None, None, {H("row", "change", "page", {"list"}), H("row", "remove", "confirm", {"leave"})})
DevicesTab == Reads(<<"rows">>, None, None, {H("row", "change", None, {"list"})})
OpenVPN == Reads(<<"rows">>, "kept", None, UploadOpenVPN \union OpenVPNSettings \union OpenVPNUsers)
WireGuardProfiles == Reads(<<"rows">>, "kept", "interval",
                           UploadWireGuard \union WireGuardSettings \union WireGuardUsers)
StoredProfiles == Reads(<<"rows">>, None, None, {H("row", "remove", None, {"list"})})
Sessions == Reads(<<"rows">>, None, "button", {H("row", "remove", None, {"here"})})
Overview == Reads(<<"rows">>, None, "interval", {H("row", "remove", None, {"here"})})
HealthTab == Reads(<<"rows">>, None, "interval", {})
Passkeys == Reads(<<"rows">>, None, None, {H("row", "remove", None, {"here"}), H("page", "add", None, {"here"})})
Left == Reads(<<>>, None, None, {})

Page(name) ==
    CASE name = "people" -> People          [] name = "roles" -> Roles
      [] name = "resources" -> Resources    [] name = "bundles" -> Bundles
      [] name = "servers" -> ServersList    [] name = "live" -> LiveTab
      [] name = "access" -> AccessTab       [] name = "config" -> ConfigTab
      [] name = "devices" -> DevicesTab     [] name = "openvpn" -> OpenVPN
      [] name = "wireguard" -> WireGuardProfiles
      [] name = "stored" -> StoredProfiles  [] name = "passkeys" -> Passkeys
      [] name = "sessions" -> Sessions      [] name = "overview" -> Overview
      [] name = "health" -> HealthTab       [] name = "left" -> Left

ASSUME PagesKnown ==
    Pages \subseteq {"people", "roles", "resources", "bundles", "servers", "live", "access", "config", "devices",
                     "openvpn", "wireguard", "stored", "passkeys", "sessions", "overview", "health"}

-----------------------------------------------------------------------------
VARIABLES
    \* the server
    rows, details,
    \* between page and server: in the order they were sent
    loads, calls,
    \* the page
    page,
    shown,          \* what the list shows, by kind
    own,            \* the details a drawer read by itself, and of which row
    dialog,         \* the sheet or drawer that is open, and on which row
    form,           \* the row the sheet was filled from
    busy,           \* the busy flags that are set
    \* for the properties: what of the page may be out of date
    excused,
    submitted       \* how often the user submitted something

data == <<rows, details>>
view == <<page, shown, own, dialog, form, busy>>
vars == <<data, loads, calls, view, excused, submitted>>

Row == {"unborn", "a", "b", "gone"}     \* a and b: contents
There(r, i) == i # None /\ r[i] \in {"a", "b"}

Data == [rows |-> rows, details |-> details]
Unread == "unread"
NoData == [rows |-> [i \in Items |-> "unborn"], details |-> Unread]
Read(kind) == IF kind = "rows" THEN [NoData EXCEPT !.rows = rows] ELSE [NoData EXCEPT !.details = details]
P == Page(page)

\* Kinds of data shown: "own" are the details in the drawer.
Kinds == {"rows", "details", "own"}

TypeOK ==
    /\ rows \in [Items -> Row] /\ details \in {"a", "b"}
    /\ \A k \in DOMAIN loads : loads[k].todo \in {<<"rows">>, <<"rows", "details">>, <<"details">>, <<"own">>}
    /\ Len(loads) <= MaxLoads /\ Len(calls) <= submitted /\ (page \in Pages => submitted <= MaxCalls[page])
    /\ page \in Pages \union {"left"}
    /\ shown.rows \in [Items -> Row] /\ shown.details \in {"a", "b", Unread}
    /\ own.of \in Items \union {None} /\ own.val \in {"a", "b", Unread}
    /\ dialog.kind \in {None, "create", "edit", "drawer", "confirm"}
    /\ dialog.of \in Items \union {None} /\ form \in Items \union {None}
    /\ busy \subseteq {"sheet", "drawer", "confirm", "page"}
    \* no button stays disabled: the call that will enable it is under way
    /\ \A f \in busy : \E c \in DOMAIN calls : calls[c].heard /\ calls[c].h.flag = f
    /\ excused \subseteq Kinds

NoOwn == [of |-> None, val |-> Unread]
Closed == [kind |-> None, of |-> None]

Load(todo, of) == [todo |-> todo, of |-> of, read |-> FALSE, val |-> NoData, fit |-> TRUE]

\* The drawer that reads is still there.
Heard(l) == l.todo = <<"own">> => l.of # None

Init ==
    /\ rows \in [Items -> {"unborn", "a"}] /\ details = "a"
    /\ page \in Pages
    /\ loads = <<Load(P.list, None)>> /\ calls = <<>>
    /\ shown = NoData
    /\ own = NoOwn /\ dialog = Closed /\ form = None /\ busy = {}
    /\ excused = {} /\ submitted = 0

\* A reply that was read before something the page is not told of.
Unfit(ls) == [k \in DOMAIN ls |-> IF ls[k].read THEN [ls[k] EXCEPT !.fit = FALSE] ELSE ls[k]]

Excuse(kinds) == excused' = excused \union kinds

-----------------------------------------------------------------------------
(* The server. *)

\* What the server makes of a request about row i; a request about a row that
\* is not there is refused.
Becomes(does, i) ==
    CASE does = "add" -> rows[i] = "unborn" /\ rows' = [rows EXCEPT ![i] = "a"] /\ UNCHANGED details
      [] does = "change" -> There(rows, i) /\ rows' = [rows EXCEPT ![i] = "b"] /\ UNCHANGED details
      [] does = "remove" -> There(rows, i) /\ rows' = [rows EXCEPT ![i] = "gone"] /\ UNCHANGED details
      [] does = "relate" -> There(rows, i) /\ details' = "b" /\ UNCHANGED rows
      [] does = "assign" -> There(rows, i) /\ details' = "b" /\ rows' = [rows EXCEPT ![i] = "b"]

\* Another administrator, or a client, changes the data.
OtherChanges ==
    /\ page \in Crowded
    /\ \E does \in {"add", "change", "remove", "relate", "assign"} : \E i \in Items : Becomes(does, i)
    /\ loads' = Unfit(loads) /\ Excuse(Kinds)
    /\ UNCHANGED <<calls, view, submitted>>

CallServed(c) ==
    /\ calls[c].pc = "sent"
    /\ \E i \in Items :
           /\ calls[c].h.does # "add" => i = calls[c].of
           /\ Becomes(calls[c].h.does, i)
           /\ calls' = [calls EXCEPT ![c] = [@ EXCEPT !.pc = "done", !.of = i]]
    /\ UNCHANGED <<loads, view, excused, submitted>>

LoadServed(k) ==
    /\ ~loads[k].read /\ Heard(loads[k])
    /\ loads' = [loads EXCEPT ![k] = [@ EXCEPT !.read = TRUE, !.val = Read(Head(loads[k].todo))]]
    /\ UNCHANGED <<data, calls, view, excused, submitted>>

-----------------------------------------------------------------------------
(* The page: its dialogs, and the requests that come and go with them. *)

\* A drawer stands on a row that is shown, or on a copy of it ("kept").
Mounted(d, r) == d.kind \in {"drawer", "confirm"} /\ (P.own = "kept" \/ There(r, d.of))

\* Nobody hears of what a drawer that has gone asked for.
Unheard(cs) ==
    [c \in DOMAIN cs |-> IF cs[c].h.at \in {"drawer", "confirm"} THEN [cs[c] EXCEPT !.heard = FALSE] ELSE cs[c]]
Vain(ls) ==
    [k \in DOMAIN ls |-> IF ls[k].todo = <<"own">> THEN Load(<<"own">>, None) ELSE ls[k]]

\* The dialog becomes d and the rows shown r; cs, ls and flags are what the
\* handler makes of the requests and the busy flags.  A drawer that goes takes
\* its flags and what it read with it, and replies to it find nobody; one
\* that comes reads.
Turn(d, r, cs, ls, flags) ==
    LET was == Mounted(dialog, shown.rows)
        is == Mounted(d, r)
        goes == was /\ P.own # "kept" /\ ~(is /\ d.of = dialog.of)
        comes == is /\ P.own # None /\ ~(was /\ d.of = dialog.of)
    IN  /\ dialog' = IF d.kind = "confirm" /\ ~is THEN [d EXCEPT !.kind = "drawer"] ELSE d
        /\ calls' = IF goes THEN Unheard(cs) ELSE cs
        /\ loads' = (IF goes THEN Vain(ls) ELSE ls)
                     \o (IF comes THEN <<Load(<<"own">>, d.of)>> ELSE <<>>)
        /\ busy' = IF goes THEN flags \ {"drawer", "confirm"} ELSE flags
        /\ own' = IF goes THEN NoOwn ELSE own
        /\ Len(loads') <= MaxLoads

\* Mutant of Fill: the sheet is filled once.
FillOnce(d, r) == form' = IF d.kind = "edit" /\ There(r, d.of) /\ form = None THEN d.of ELSE form

\* The effect that fills the sheet, on [mode.kind, editing?.id].  What a closed
\* sheet holds is written over when it opens: it is not kept in the model.
Fill(d, r) ==
    form' = CASE d.kind # "edit" -> None
              [] d.kind = "edit" /\ There(r, d.of) /\ ~(dialog = d /\ There(shown.rows, d.of)) -> d.of
              [] OTHER -> form

\* The user opens or closes a dialog.
Go(d) ==
    /\ Turn(d, shown.rows, calls, loads, busy)
    /\ Fill(d, shown.rows)
    /\ UNCHANGED <<data, page, shown, excused, submitted>>

Has(at) == \E h \in P.handlers : h.at = at
Hidden == dialog.kind = "drawer" /\ ~Mounted(dialog, shown.rows)

Open(i) ==
    /\ dialog = Closed \/ Hidden
    /\ Has("drawer") /\ There(shown.rows, i)
    /\ Go([kind |-> "drawer", of |-> i])

New == dialog = Closed /\ Has("create") /\ Go([kind |-> "create", of |-> None])

Edit ==
    /\ dialog.kind = "drawer" /\ ~Hidden /\ Has("edit")
    /\ Go([dialog EXCEPT !.kind = "edit"])

AskDelete ==
    /\ dialog.kind = "drawer" /\ ~Hidden /\ Has("confirm")
    /\ Go([dialog EXCEPT !.kind = "confirm"])

Close ==
    /\ dialog # Closed /\ ~Hidden
    /\ IF dialog.kind = "confirm"
       THEN "confirm" \notin busy /\ Go([dialog EXCEPT !.kind = "drawer"])
       ELSE Go(Closed)

-----------------------------------------------------------------------------
(* The page: what it reads. *)

\* The interval of the page, or its Refresh button.
Poll ==
    /\ P.again # None /\ Len(loads) < MaxLoads
    /\ loads' = Append(loads, Load(P.list, None))
    /\ UNCHANGED <<data, calls, view, excused, submitted>>

\* What was sent before load k and has still to bring the same is overtaken.
Overtaken(ls, k, kinds) ==
    [j \in DOMAIN ls |->
        IF j < k /\ ToSet(ls[j].todo) \intersect kinds # {} THEN [ls[j] EXCEPT !.fit = FALSE] ELSE ls[j]]

\* The load is over, or goes on to what it reads next.
Without(ls, k) ==
    IF Len(ls[k].todo) = 1 THEN RemoveAt(ls, k)
    ELSE [j \in DOMAIN ls |->
             IF j = k THEN [ls[k] EXCEPT !.todo = Tail(@), !.read = FALSE, !.val = NoData] ELSE ls[j]]

LoadApplied(k) ==
    LET l == loads[k]
        kind == Head(l.todo)
    IN  /\ l.read /\ Heard(l)
        /\ excused' = IF l.fit THEN excused \ {kind} ELSE excused \union {kind}
        /\ IF kind = "own"
           THEN /\ own' = [of |-> l.of, val |-> l.val.details]
                /\ loads' = Without(Overtaken(loads, k, {kind}), k)
                /\ UNCHANGED <<calls, shown, dialog, form, busy>>
           ELSE /\ shown' = [shown EXCEPT ![kind] = l.val[kind]]
                /\ Turn(dialog, shown'.rows, calls, Without(Overtaken(loads, k, {kind}), k), busy)
                /\ Fill(dialog, shown'.rows)
        /\ UNCHANGED <<data, page, submitted>>

\* A read fails: the page shows what it showed.
LoadFails(k) ==
    /\ Heard(loads[k])
    /\ excused' = excused \union ToSet(loads[k].todo)
    /\ loads' = Unfit(RemoveAt(Overtaken(loads, k, ToSet(loads[k].todo)), k))
    /\ UNCHANGED <<data, calls, view, submitted>>

\* A reply, or a failure, finds nobody.
LoadUnheard(k) ==
    /\ ~Heard(loads[k])
    /\ loads' = RemoveAt(loads, k)
    /\ UNCHANGED <<data, calls, view, excused, submitted>>

-----------------------------------------------------------------------------
(* The page: what the user submits. *)

\* Edit sends an update only while the row it edits is shown.
Sent(h, i) ==
    IF h.at = "edit" /\ ~There(shown.rows, i)
    THEN [h EXCEPT !.does = "add"] ELSE h

Submit(h, i) ==
    /\ CASE h.at = "page" -> dialog = Closed /\ i = None
         [] h.at = "row" -> dialog = Closed /\ There(shown.rows, i)
         [] OTHER -> h.at = dialog.kind /\ i = dialog.of /\ ~Hidden
    /\ h.flag # None => h.flag \notin busy
    /\ page \in Pages /\ submitted < MaxCalls[page] /\ submitted' = submitted + 1
    /\ calls' = Append(calls, [h |-> Sent(h, i), of |-> i, form |-> form, pc |-> "sent", heard |-> TRUE])
    /\ busy' = IF h.flag = None THEN busy ELSE busy \union {h.flag}
    /\ UNCHANGED <<data, loads, page, shown, own, dialog, form, excused>>

\* A call fails, on its way or on its way back.
CallFails(c) ==
    /\ calls[c].pc # "failed"
    /\ calls' = [calls EXCEPT ![c].pc = "failed"]
    /\ IF calls[c].pc = "done" THEN loads' = Unfit(loads) /\ excused' = excused \union Kinds
                               ELSE UNCHANGED <<loads, excused>>
    /\ UNCHANGED <<data, view, submitted>>

Idle(c) == IF calls[c].heard THEN busy \ {calls[c].h.flag} ELSE busy

\* Mutant of Refused: the flag is cleared in the try block only.
RefusedBusy(c) ==
    /\ calls[c].pc = "failed"
    /\ calls' = RemoveAt(calls, c)
    /\ UNCHANGED <<data, loads, view, excused, submitted>>

Refused(c) ==
    /\ calls[c].pc = "failed"
    /\ busy' = Idle(c)
    /\ calls' = RemoveAt(calls, c)
    /\ UNCHANGED <<data, loads, page, shown, own, dialog, form, excused, submitted>>

\* "close" closes the sheet, or the drawer, that is open now.
After(c) ==
    LET sheet == {"create", "edit"}
        layer == IF calls[c].h.at \in sheet THEN sheet ELSE {"drawer", "confirm"}
    IN  IF "close" \in calls[c].h.then /\ dialog.kind \in layer THEN Closed ELSE dialog

\* What "here" makes of the row.
Shows(c) == IF calls[c].h.does = "add" THEN "a" ELSE "gone"

\* A row that a read brought before the answer that adds it is shown twice,
\* or again.
Twice(c) == "here" \in calls[c].h.then /\ calls[c].h.does = "add" /\ shown.rows[calls[c].of] # "unborn"

Answered(c) ==
    LET then == calls[c].h.then
        of == calls[c].of
        lost == "own" \in then /\ ~calls[c].heard
        older == IF lost \/ "here" \in then THEN Unfit(loads) ELSE loads
        again == (IF "own" \in then /\ calls[c].heard THEN <<Load(<<"own">>, of)>> ELSE <<>>)
                 \o (IF "list" \in then THEN <<Load(P.list, None)>> ELSE <<>>)
    IN  /\ calls[c].pc = "done" /\ "leave" \notin then
        /\ shown' = IF "here" \in then THEN [shown EXCEPT !.rows[of] = Shows(c)] ELSE shown
        /\ Turn(After(c), shown'.rows, RemoveAt(calls, c), older \o again, Idle(c))
        /\ Fill(After(c), shown'.rows)
        /\ excused' = excused \union (IF lost THEN {"own"} ELSE {}) \union (IF Twice(c) THEN {"rows"} ELSE {})
        /\ UNCHANGED <<data, page, submitted>>

Leave(c) ==
    /\ calls[c].pc = "done" /\ "leave" \in calls[c].h.then
    /\ page' = "left" /\ calls' = <<>> /\ loads' = <<>> /\ busy' = {}
    /\ UNCHANGED <<data, shown, own, dialog, form, excused, submitted>>

-----------------------------------------------------------------------------
User ==
    \/ New \/ Edit \/ AskDelete \/ Close \/ \E i \in Items : Open(i)
    \/ \E h \in P.handlers : \E i \in Items \union {None} : Submit(h, i)

Replies ==
    \/ \E k \in DOMAIN loads : LoadServed(k) \/ LoadApplied(k) \/ LoadFails(k) \/ LoadUnheard(k)
    \/ \E c \in DOMAIN calls : CallServed(c) \/ CallFails(c) \/ Refused(c) \/ Answered(c) \/ Leave(c)

Next == OtherChanges \/ User \/ Poll \/ Replies

Spec == Init /\ [][Next]_vars

-----------------------------------------------------------------------------
(* Properties. *)

Quiet == loads = <<>> /\ calls = <<>>

\* When nothing is under way the page shows what the server has: every change
\* it made is followed by a read of all that the change touches, or by the right
\* correction of the row, also when the sheet or the drawer it was made in is
\* gone by then.  It is about which reads are sent, not about replies that
\* overtake each other: excused is what the page is not told of - replies that
\* were overtaken by a later one or by a correction of the rows shown, changes by
\* others, reads that fail, answers that are lost - and a row added twice, until
\* a later read makes up for it.
Fresh ==
    Quiet /\ page # "left" =>
        \A kind \in ToSet(P.list) \ excused : shown[kind] = Data[kind]

\* A drawer that reads by itself (PersonDrawer) shows the details of its row,
\* whichever drawers were open before it.
DrawerIsFresh ==
    Quiet /\ Mounted(dialog, shown.rows) /\ P.own = "fresh" /\ "own" \notin excused =>
        own = [of |-> dialog.of, val |-> details]

\* An update carries what was filled in from the row it updates.
UpdatesFilledRow ==
    \A c \in DOMAIN calls : calls[c].h.at = "edit" /\ calls[c].h.does = "change" => calls[c].form = calls[c].of
=============================================================================
