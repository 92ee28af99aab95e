-------------------------- MODULE AdminListsProofs --------------------------
(***************************************************************************)
(* What the pages of AdminLists show, for any number of rows, of requests  *)
(* and of replies in flight, whatever others change.                       *)
(***************************************************************************)
EXTENDS AdminLists, SequenceTheorems, TLAPS

USE DEF data, view

-----------------------------------------------------------------------------
(* The pages *)

Handlers == [at: {"create", "edit", "drawer", "confirm", "row", "page"},
             does: {"add", "change", "remove", "relate", "assign"},
             flag: {"sheet", "drawer", "confirm", "page", None},
             then: SUBSET {"list", "own", "close", "here", "leave"}]

\* The answer makes the page read its list again, or go.
Again(h) == "list" \in h.then \/ "leave" \in h.then

\* What a handler owes the page: a change of what the page lists is followed by
\* a read of the list or by a correction of the row, a change of what a drawer
\* reads by itself by a read of the drawer's.
HandlerOK(Q, h) ==
    /\ h \in Handlers
    /\ h.does \in {"add", "change", "remove", "assign"} =>
          Again(h) \/ ("here" \in h.then /\ h.does \in {"add", "remove"})
    /\ h.does = "relate" /\ Q.list = <<"rows", "details">> => Again(h)
    /\ "here" \in h.then => h.does \in {"add", "remove"}
    /\ h.at = "edit" => "list" \in h.then
    /\ Q.own = "fresh" => ("own" \in h.then <=> h.does = "relate") /\ h.does # "assign"
    /\ "own" \in h.then => h.at = "drawer"
    /\ h.at = "drawer" => h.does # "add"
    /\ h.at \in {"drawer", "confirm"} => h.flag \in {"drawer", "confirm", None}

PageOK(Q) ==
    /\ Q.list \in {<<>>, <<"rows">>, <<"rows", "details">>}
    /\ Q.own \in {"fresh", "kept", None}
    /\ \A h \in Q.handlers : HandlerOK(Q, h)

\* Every handler of every page owes it, and does.
LEMMA PageFacts ==
  ASSUME NEW name \in Pages \union {"left"}
  PROVE  /\ PageOK(Page(name))
         /\ Page(name).list = <<>> <=> name = "left"
         /\ name = "left" => /\ Page(name).handlers = {}
                             /\ Page(name).own = None /\ Page(name).again = None
<1> USE DEF PageOK, HandlerOK, Again, Handlers, Page, Reads, H, ConfirmDelete,
        EditingSheet, None
<1>1. CASE name = "people"
  BY <1>1 DEF People, PersonSheet, PersonDrawer, PersonAccess, PersonAccount
<1>2. CASE name = "roles"
  <2>1. /\ Page(name) = Roles /\ Page(name).list = <<"rows", "details">> /\ <<"rows", "details">> # <<>>
        /\ Page(name).own = None /\ Page(name).handlers = RoleSheet \union RoleDrawer
    BY <1>2 DEF Roles
  <2>2. \A h \in RoleSheet \union RoleDrawer : h \in Handlers
    BY DEF RoleSheet, RoleDrawer
  <2>3. \A h \in RoleSheet \union RoleDrawer :
           "list" \in h.then /\ "here" \notin h.then /\ "own" \notin h.then
    BY DEF RoleSheet, RoleDrawer
  <2>4. /\ \A h \in RoleSheet : h.at \in {"create", "edit"}
        /\ \A h \in RoleDrawer : /\ h.at \in {"drawer", "confirm"} /\ h.does # "add"
                                /\ h.flag \in {"drawer", "confirm", None}
    BY DEF RoleSheet, RoleDrawer
  <2>5. \A h \in RoleSheet \union RoleDrawer : HandlerOK(Page(name), h)
    <3> HIDE DEF H, ConfirmDelete, EditingSheet, Page, Reads
    <3> QED
      BY <2>1, <2>2, <2>3, <2>4
  <2> HIDE DEF HandlerOK, H, ConfirmDelete, EditingSheet, Page, Reads
  <2> QED
    BY <2>1, <2>5, <1>2
<1>3. CASE name = "resources"
  <2>1. /\ Page(name) = Resources /\ Page(name).list = <<"rows", "details">> /\ <<"rows", "details">> # <<>>
        /\ Page(name).own = None /\ Page(name).handlers = ResourceSheet \union ResourceDrawer
    BY <1>3 DEF Resources
  <2>2. \A h \in ResourceSheet \union ResourceDrawer : h \in Handlers
    BY DEF ResourceSheet, ResourceDrawer
  <2>3. \A h \in ResourceSheet \union ResourceDrawer :
           "list" \in h.then /\ "here" \notin h.then /\ "own" \notin h.then
    BY DEF ResourceSheet, ResourceDrawer
  <2>4. /\ \A h \in ResourceSheet : h.at \in {"create", "edit"}
        /\ \A h \in ResourceDrawer : /\ h.at \in {"drawer", "confirm"} /\ h.does # "add"
                                /\ h.flag \in {"drawer", "confirm", None}
    BY DEF ResourceSheet, ResourceDrawer
  <2>5. \A h \in ResourceSheet \union ResourceDrawer : HandlerOK(Page(name), h)
    <3> HIDE DEF H, ConfirmDelete, EditingSheet, Page, Reads
    <3> QED
      BY <2>1, <2>2, <2>3, <2>4
  <2> HIDE DEF HandlerOK, H, ConfirmDelete, EditingSheet, Page, Reads
  <2> QED
    BY <2>1, <2>5, <1>3
<1>4. CASE name = "bundles"
  <2>1. /\ Page(name) = Bundles /\ Page(name).list = <<"rows", "details">> /\ <<"rows", "details">> # <<>>
        /\ Page(name).own = None /\ Page(name).handlers = BundleSheet \union BundleDrawer
    BY <1>4 DEF Bundles
  <2>2. \A h \in BundleSheet \union BundleDrawer : h \in Handlers
    BY DEF BundleSheet, BundleDrawer
  <2>3. \A h \in BundleSheet \union BundleDrawer :
           "list" \in h.then /\ "here" \notin h.then /\ "own" \notin h.then
    BY DEF BundleSheet, BundleDrawer
  <2>4. /\ \A h \in BundleSheet : h.at \in {"create", "edit"}
        /\ \A h \in BundleDrawer : /\ h.at \in {"drawer", "confirm"} /\ h.does # "add"
                                /\ h.flag \in {"drawer", "confirm", None}
    BY DEF BundleSheet, BundleDrawer
  <2>5. \A h \in BundleSheet \union BundleDrawer : HandlerOK(Page(name), h)
    <3> HIDE DEF H, ConfirmDelete, EditingSheet, Page, Reads
    <3> QED
      BY <2>1, <2>2, <2>3, <2>4
  <2> HIDE DEF HandlerOK, H, ConfirmDelete, EditingSheet, Page, Reads
  <2> QED
    BY <2>1, <2>5, <1>4
<1>5. CASE name = "servers"
  BY <1>5 DEF ServersList, CreateServerSheet
<1>6. CASE name = "live"
  BY <1>6 DEF LiveTab
<1>7. CASE name = "access"
  BY <1>7 DEF AccessTab
<1>8. CASE name = "config"
  BY <1>8 DEF ConfigTab
<1>9. CASE name = "devices"
  BY <1>9 DEF DevicesTab
<1>10. CASE name = "openvpn"
  BY <1>10 DEF OpenVPN, UploadOpenVPN, OpenVPNSettings, OpenVPNUsers
<1>11. CASE name = "wireguard"
  BY <1>11 DEF WireGuardProfiles, UploadWireGuard, WireGuardSettings, WireGuardUsers
<1>12. CASE name = "stored"
  BY <1>12 DEF StoredProfiles
<1>13. CASE name = "passkeys"
  BY <1>13 DEF Passkeys
<1>14. CASE name = "sessions"
  BY <1>14 DEF Sessions
<1>15. CASE name = "overview"
  BY <1>15 DEF Overview
<1>16. CASE name = "health"
  BY <1>16 DEF HealthTab
<1>17. CASE name = "left"
  BY <1>17 DEF Left
<1> QED
  BY <1>1, <1>2, <1>3, <1>4, <1>5, <1>6, <1>7, <1>8, <1>9, <1>10, <1>11, <1>12,
     <1>13, <1>14, <1>15, <1>16, <1>17, PagesKnown

\* What a request has still to bring.
LEMMA TodoFacts ==
  /\ ToSet(<<"rows">>) = {"rows"} /\ Head(<<"rows">>) = "rows" /\ Len(<<"rows">>) = 1
  /\ ToSet(<<"details">>) = {"details"} /\ Head(<<"details">>) = "details"
  /\ Len(<<"details">>) = 1
  /\ ToSet(<<"own">>) = {"own"} /\ Head(<<"own">>) = "own" /\ Len(<<"own">>) = 1
  /\ ToSet(<<"rows", "details">>) = {"rows", "details"}
  /\ Head(<<"rows", "details">>) = "rows" /\ Tail(<<"rows", "details">>) = <<"details">>
  /\ Len(<<"rows", "details">>) = 2 /\ ToSet(<<>>) = {}
<1>1. \A x : ToSet(<<x>>) = {x} /\ Head(<<x>>) = x /\ Len(<<x>>) = 1
  BY DEF ToSet
<1>2. \A x, y : ToSet(<<x, y>>) = {x, y}
  BY DEF ToSet
<1>3. /\ Head(<<"rows", "details">>) = "rows" /\ Len(<<"rows", "details">>) = 2
      /\ Tail(<<"rows", "details">>) = <<"details">> /\ ToSet(<<>>) = {}
  BY DEF ToSet
<1> QED
  BY <1>1, <1>2, <1>3

-----------------------------------------------------------------------------
(* Sequences *)

\* A sequence is a function on an initial segment of the positive numbers.
LEMMA SequenceOf ==
  ASSUME NEW S, NEW n \in Nat, NEW f \in [1 .. n -> S]
  PROVE  f \in Seq(S) /\ Len(f) = n /\ DOMAIN f = 1 .. n
OBVIOUS

\* RemoveAt takes one element out of the line and leaves the others in order.
LEMMA Removed ==
  ASSUME NEW S, NEW s \in Seq(S), NEW k \in DOMAIN s
  PROVE  /\ RemoveAt(s, k) \in Seq(S) /\ Len(RemoveAt(s, k)) = Len(s) - 1
         /\ \A i \in 1 .. Len(s) - 1 :
               RemoveAt(s, k)[i] = s[IF i < k THEN i ELSE i + 1]
<1>1. Len(s) \in Nat /\ k \in 1 .. Len(s) /\ \A i \in 1 .. Len(s) : s[i] \in S
  OBVIOUS
<1> DEFINE front == SubSeq(s, 1, k - 1)
           back == SubSeq(s, k + 1, Len(s))
<1>2. /\ front \in Seq(S) /\ Len(front) = k - 1
      /\ \A i \in 1 .. k - 1 : front[i] = s[i]
  BY <1>1, SubSeqProperties
<1>3. /\ back \in Seq(S) /\ Len(back) = Len(s) - k
      /\ \A i \in 1 .. Len(s) - k : back[i] = s[i + k]
  BY <1>1, SubSeqProperties
<1>4. RemoveAt(s, k) = front \o back
  BY DEF RemoveAt
<1> HIDE DEF front, back
<1>5. /\ front \o back \in Seq(S) /\ Len(front \o back) = Len(s) - 1
      /\ \A i \in 1 .. Len(s) - 1 :
            (front \o back)[i] = IF i <= k - 1 THEN front[i] ELSE back[i - (k - 1)]
  <2>1. /\ front \o back \in Seq(S) /\ Len(front \o back) = Len(front) + Len(back)
        /\ \A i \in 1 .. Len(front) + Len(back) :
              (front \o back)[i] =
                IF i <= Len(front) THEN front[i] ELSE back[i - Len(front)]
    BY <1>2, <1>3, ConcatProperties
  <2>2. Len(front) + Len(back) = Len(s) - 1
    BY <1>1, <1>2, <1>3
  <2> QED
    BY <1>2, <2>1, <2>2
<1>6. ASSUME NEW i \in 1 .. Len(s) - 1
      PROVE  (front \o back)[i] = s[IF i < k THEN i ELSE i + 1]
  <2>1. CASE i < k
    BY <1>1, <1>2, <1>5, <2>1
  <2>2. CASE ~(i < k)
    <3>1. i - (k - 1) \in 1 .. Len(s) - k /\ i - (k - 1) + k = i + 1
      BY <1>1, <2>2
    <3>2. (front \o back)[i] = back[i - (k - 1)]
      BY <1>1, <1>5, <2>2
    <3> QED
      BY <1>3, <2>2, <3>1, <3>2
  <2> QED
    BY <2>1, <2>2
<1> QED
  BY <1>4, <1>5, <1>6

\* One more element at the end.
LEMMA OneMore ==
  ASSUME NEW S, NEW s \in Seq(S), NEW x \in S
  PROVE  /\ s \o <<x>> \in Seq(S) /\ Len(s \o <<x>>) = Len(s) + 1
         /\ \A i \in 1 .. Len(s) : (s \o <<x>>)[i] = s[i]
         /\ (s \o <<x>>)[Len(s) + 1] = x
<1>1. <<x>> \in Seq(S) /\ Len(<<x>>) = 1 /\ <<x>>[1] = x /\ Len(s) \in Nat
  OBVIOUS
<1> DEFINE t == <<x>>
<1> HIDE DEF t
<1>2. t \in Seq(S) /\ Len(t) = 1 /\ t[1] = x
  BY <1>1 DEF t
<1>3. /\ s \o t \in Seq(S) /\ Len(s \o t) = Len(s) + 1
      /\ \A i \in 1 .. Len(s) + 1 : (s \o t)[i] = IF i <= Len(s) THEN s[i] ELSE t[i - Len(s)]
  <2>1. /\ s \o t \in Seq(S) /\ Len(s \o t) = Len(s) + Len(t)
        /\ \A i \in 1 .. Len(s) + Len(t) :
              (s \o t)[i] = IF i <= Len(s) THEN s[i] ELSE t[i - Len(s)]
    BY <1>2, ConcatProperties
  <2> QED
    BY <1>2, <2>1
<1>4. Len(s) + 1 - Len(s) = 1 /\ ~(Len(s) + 1 <= Len(s)) /\ Len(s) + 1 \in 1 .. Len(s) + 1
  BY <1>1
<1>5. (s \o t)[Len(s) + 1] = x
  BY <1>2, <1>3, <1>4
<1>6. \A i \in 1 .. Len(s) : (s \o t)[i] = s[i]
  BY <1>1, <1>3
<1> QED
  BY <1>3, <1>5, <1>6 DEF t

-----------------------------------------------------------------------------
(* Reads in flight *)

Todo == {<<"rows">>, <<"rows", "details">>, <<"details">>, <<"own">>}
Contents == {"a", "b", Unread}
Values == [rows: [Items -> Row], details: Contents]
Reading == [todo: Todo, of: Items \union {None}, read: BOOLEAN, val: Values, fit: BOOLEAN]

Brings(l, kind) == kind \in ToSet(l.todo) /\ Heard(l)
Ready(l, kind) == l.read /\ l.fit /\ Head(l.todo) = kind /\ Heard(l)
ValueOf(l, kind) == IF kind = "rows" THEN l.val.rows ELSE l.val.details
Coming(ls, kind) == \E m \in DOMAIN ls : Brings(ls[m], kind)
Behind(ls, k, kind) == \E m \in DOMAIN ls : m > k /\ Brings(ls[m], kind)

\* What was read and not overtaken has a value of V, or a later read follows.
AtHand(ls, kind, V) ==
    \A k \in DOMAIN ls : Ready(ls[k], kind) => Behind(ls, k, kind) \/ ValueOf(ls[k], kind) \in V

\* A read still brings what it brings when only its marks change.
Same(l, m) == l.todo = m.todo /\ l.of = m.of /\ l.read = m.read /\ l.val = m.val

\* Marking reads as out of date takes nothing away.
LEMMA MarksKeep ==
  ASSUME NEW ls \in Seq(Reading), NEW ls2 \in Seq(Reading), DOMAIN ls2 = DOMAIN ls,
         \A k \in DOMAIN ls : Same(ls2[k], ls[k]) /\ (ls2[k].fit => ls[k].fit),
         NEW kind \in Kinds, NEW V
  PROVE  /\ Coming(ls, kind) <=> Coming(ls2, kind)
         /\ \A k : Behind(ls, k, kind) <=> Behind(ls2, k, kind)
         /\ AtHand(ls, kind, V) => AtHand(ls2, kind, V)
         /\ (\A k \in DOMAIN ls : ls[k].read => ~ls2[k].fit) => AtHand(ls2, kind, V)
<1>1. \A k \in DOMAIN ls : Brings(ls[k], kind) <=> Brings(ls2[k], kind)
  BY DEF Same, Brings, Heard
<1>2. \A k \in DOMAIN ls : /\ Ready(ls2[k], kind) => Ready(ls[k], kind) /\ ls[k].read /\ ls2[k].fit
                           /\ ValueOf(ls2[k], kind) = ValueOf(ls[k], kind)
  BY DEF Same, Ready, Heard, ValueOf
<1>3. Coming(ls, kind) <=> Coming(ls2, kind)
  BY <1>1 DEF Coming
<1>4. \A k : Behind(ls, k, kind) <=> Behind(ls2, k, kind)
  BY <1>1 DEF Behind
<1> QED
  BY <1>2, <1>3, <1>4 DEF AtHand

\* A reply that is read before a change the page is not told of.
LEMMA UnfitKeeps ==
  ASSUME NEW ls \in Seq(Reading), NEW kind \in Kinds, NEW V
  PROVE  /\ Unfit(ls) \in Seq(Reading) /\ Len(Unfit(ls)) = Len(ls)
         /\ DOMAIN Unfit(ls) = DOMAIN ls
         /\ \A k \in DOMAIN ls : Same(Unfit(ls)[k], ls[k])
         /\ Coming(ls, kind) <=> Coming(Unfit(ls), kind)
         /\ AtHand(Unfit(ls), kind, V)
<1>1. DOMAIN ls = 1 .. Len(ls) /\ Len(ls) \in Nat /\ \A k \in DOMAIN ls : ls[k] \in Reading
  OBVIOUS
<1>2. \A l \in Reading : /\ [l EXCEPT !.fit = FALSE] \in Reading
                         /\ Same([l EXCEPT !.fit = FALSE], l)
                         /\ [l EXCEPT !.fit = FALSE].fit = FALSE
  BY DEF Reading, Same
<1>3. Unfit(ls) \in [1 .. Len(ls) -> Reading]
  BY <1>1, <1>2 DEF Unfit
<1>4. Unfit(ls) \in Seq(Reading) /\ Len(Unfit(ls)) = Len(ls) /\ DOMAIN Unfit(ls) = DOMAIN ls
  BY <1>1, <1>3, SequenceOf
<1>5. \A k \in DOMAIN ls : /\ Same(Unfit(ls)[k], ls[k]) /\ (Unfit(ls)[k].fit => ls[k].fit)
                           /\ ls[k].read => ~Unfit(ls)[k].fit
  BY <1>1, <1>2 DEF Unfit, Same
<1> QED
  BY <1>4, <1>5, MarksKeep

\* A reply that comes overtakes what was sent before it and brings the same.
LEMMA OvertakenKeeps ==
  ASSUME NEW ls \in Seq(Reading), NEW k \in DOMAIN ls, NEW kinds,
         NEW kind \in Kinds, NEW V
  PROVE  /\ Overtaken(ls, k, kinds) \in Seq(Reading)
         /\ Len(Overtaken(ls, k, kinds)) = Len(ls)
         /\ DOMAIN Overtaken(ls, k, kinds) = DOMAIN ls
         /\ \A j \in DOMAIN ls : /\ Same(Overtaken(ls, k, kinds)[j], ls[j])
                                 /\ j < k /\ ToSet(ls[j].todo) \intersect kinds # {} =>
                                       ~Overtaken(ls, k, kinds)[j].fit
         /\ Coming(ls, kind) <=> Coming(Overtaken(ls, k, kinds), kind)
         /\ \A j : Behind(ls, j, kind) <=> Behind(Overtaken(ls, k, kinds), j, kind)
         /\ AtHand(ls, kind, V) => AtHand(Overtaken(ls, k, kinds), kind, V)
<1> DEFINE ls2 == Overtaken(ls, k, kinds)
<1>1. DOMAIN ls = 1 .. Len(ls) /\ Len(ls) \in Nat /\ \A j \in DOMAIN ls : ls[j] \in Reading
  OBVIOUS
<1>2. \A l \in Reading : /\ [l EXCEPT !.fit = FALSE] \in Reading
                         /\ Same([l EXCEPT !.fit = FALSE], l)
                         /\ [l EXCEPT !.fit = FALSE].fit = FALSE
  BY DEF Reading, Same
<1>3. ls2 \in [1 .. Len(ls) -> Reading]
  BY <1>1, <1>2 DEF Overtaken
<1>4. ls2 \in Seq(Reading) /\ Len(ls2) = Len(ls) /\ DOMAIN ls2 = DOMAIN ls
  BY <1>1, <1>3, SequenceOf
<1>5. \A j \in DOMAIN ls : /\ Same(ls2[j], ls[j]) /\ (ls2[j].fit => ls[j].fit)
                           /\ j < k /\ ToSet(ls[j].todo) \intersect kinds # {} => ~ls2[j].fit
  BY <1>1, <1>2 DEF Overtaken, Same
<1> QED
  BY <1>4, <1>5, MarksKeep

\* What a drawer read brings nothing more when the drawer goes.
LEMMA VainKeeps ==
  ASSUME NEW ls \in Seq(Reading), NEW kind \in Kinds, NEW V
  PROVE  /\ Vain(ls) \in Seq(Reading) /\ Len(Vain(ls)) = Len(ls)
         /\ \A k \in DOMAIN ls : ~Brings(Vain(ls)[k], "own")
         /\ kind # "own" => (Coming(ls, kind) => Coming(Vain(ls), kind))
         /\ AtHand(ls, kind, V) \/ kind = "own" => AtHand(Vain(ls), kind, V)
<1>1. DOMAIN ls = 1 .. Len(ls) /\ Len(ls) \in Nat /\ \A k \in DOMAIN ls : ls[k] \in Reading
  OBVIOUS
<1>2. Load(<<"own">>, None) \in Reading
  BY DEF Load, Reading, Values, NoData, Row, Todo, Contents
<1>3. Vain(ls) \in [1 .. Len(ls) -> Reading]
  BY <1>1, <1>2 DEF Vain
<1>4. Vain(ls) \in Seq(Reading) /\ Len(Vain(ls)) = Len(ls) /\ DOMAIN Vain(ls) = DOMAIN ls
  BY <1>1, <1>3, SequenceOf
<1>5. \A k \in DOMAIN ls : ls[k].todo # <<"own">> => Vain(ls)[k] = ls[k]
  BY <1>1 DEF Vain
<1>6. \A k \in DOMAIN ls : ls[k].todo = <<"own">> =>
         /\ \A x : ~Brings(Vain(ls)[k], x) /\ ~Ready(Vain(ls)[k], x)
         /\ kind # "own" => ~Brings(ls[k], kind)
  BY <1>1, TodoFacts DEF Vain, Load, Brings, Ready, Heard
<1>7. \A k \in DOMAIN ls : ls[k].todo # <<"own">> => ~Brings(ls[k], "own") /\ ~Ready(ls[k], "own")
  BY <1>1, TodoFacts DEF Brings, Ready, Reading, Todo
<1>8. \A k \in DOMAIN ls : ~Brings(Vain(ls)[k], "own") /\ ~Ready(Vain(ls)[k], "own")
  BY <1>5, <1>6, <1>7
<1>9. kind # "own" => (Coming(ls, kind) => Coming(Vain(ls), kind))
  BY <1>4, <1>5, <1>6 DEF Coming
<1>10. CASE kind = "own"
  BY <1>4, <1>8, <1>9, <1>10 DEF AtHand
<1>11. CASE kind # "own"
  <2>1. \A k : Behind(ls, k, kind) => Behind(Vain(ls), k, kind)
    BY <1>4, <1>5, <1>6, <1>11 DEF Behind
  <2> QED
    BY <1>4, <1>5, <1>6, <1>8, <1>9, <1>11, <2>1 DEF AtHand
<1> QED
  BY <1>10, <1>11

\* A read that is sent follows all others and has not been read.
LEMMA LoadKeeps ==
  ASSUME NEW ls \in Seq(Reading), NEW l \in Reading, ~l.read,
         NEW kind \in Kinds, NEW V
  PROVE  /\ ls \o <<l>> \in Seq(Reading) /\ Len(ls \o <<l>>) = Len(ls) + 1
         /\ \A i \in DOMAIN ls : (ls \o <<l>>)[i] = ls[i]
         /\ (ls \o <<l>>)[Len(ls) + 1] = l
         /\ Coming(ls, kind) \/ Brings(l, kind) => Coming(ls \o <<l>>, kind)
         /\ AtHand(ls, kind, V) \/ Brings(l, kind) => AtHand(ls \o <<l>>, kind, V)
<1> DEFINE ls2 == ls \o <<l>>
           n == Len(ls)
<1>1. DOMAIN ls = 1 .. n /\ n \in Nat
  OBVIOUS
<1>2. /\ ls2 \in Seq(Reading) /\ Len(ls2) = n + 1 /\ DOMAIN ls2 = 1 .. n + 1
      /\ \A i \in 1 .. n : ls2[i] = ls[i]
      /\ ls2[n + 1] = l
  BY OneMore
<1> HIDE DEF ls2, n
<1>3. Coming(ls, kind) \/ Brings(l, kind) => Coming(ls2, kind)
  BY <1>1, <1>2 DEF Coming
<1>4. \A k \in DOMAIN ls : Behind(ls, k, kind) \/ Brings(l, kind) => Behind(ls2, k, kind)
  BY <1>1, <1>2 DEF Behind
<1>5. ~Ready(ls2[n + 1], kind)
  BY <1>2 DEF Ready
<1>6. AtHand(ls, kind, V) \/ Brings(l, kind) => AtHand(ls2, kind, V)
  <2> SUFFICES ASSUME AtHand(ls, kind, V) \/ Brings(l, kind),
                      NEW k \in DOMAIN ls2, Ready(ls2[k], kind)
               PROVE  Behind(ls2, k, kind) \/ ValueOf(ls2[k], kind) \in V
    BY DEF AtHand
  <2>1. k \in DOMAIN ls /\ ls2[k] = ls[k]
    BY <1>1, <1>2, <1>5
  <2> QED
    BY <1>4, <2>1 DEF AtHand
<1> QED
  BY <1>1, <1>2, <1>3, <1>6 DEF ls2, n


\* A read that leaves the line takes with it what it brings, and no more.
LEMMA RemovedKeeps ==
  ASSUME NEW ls \in Seq(Reading), NEW k \in DOMAIN ls, NEW kind \in Kinds, NEW V
  PROVE  /\ RemoveAt(ls, k) \in Seq(Reading) /\ Len(RemoveAt(ls, k)) = Len(ls) - 1
         /\ \A j \in DOMAIN RemoveAt(ls, k) : \E m \in DOMAIN ls : RemoveAt(ls, k)[j] = ls[m]
         /\ Behind(ls, k, kind) => Coming(RemoveAt(ls, k), kind)
         /\ Coming(ls, kind) /\ ~Brings(ls[k], kind) => Coming(RemoveAt(ls, k), kind)
         /\ AtHand(ls, kind, V)
               /\ (Brings(ls[k], kind) => \A j \in DOMAIN ls : j < k => ~Ready(ls[j], kind))
               => AtHand(RemoveAt(ls, k), kind, V)
<1> DEFINE ls2 == RemoveAt(ls, k)
           n == Len(ls)
           old(j) == IF j < k THEN j ELSE j + 1
<1>1. n \in Nat /\ DOMAIN ls = 1 .. n /\ k \in 1 .. n
  OBVIOUS
<1>2. /\ ls2 \in Seq(Reading) /\ Len(ls2) = n - 1
      /\ \A j \in 1 .. n - 1 : ls2[j] = ls[old(j)]
  BY Removed
<1>3. DOMAIN ls2 = 1 .. n - 1
  BY <1>2
<1> HIDE DEF ls2, n
<1>4. \A j \in DOMAIN ls2 : old(j) \in DOMAIN ls /\ old(j) # k /\ ls2[j] = ls[old(j)]
  BY <1>1, <1>2, <1>3
<1>5. \A m \in DOMAIN ls : m # k =>
         \E j \in DOMAIN ls2 : old(j) = m /\ ls2[j] = ls[m] /\ (m < k => j = m) /\ (m > k => j = m - 1)
  <2> SUFFICES ASSUME NEW m \in DOMAIN ls, m # k
               PROVE  \E j \in DOMAIN ls2 : old(j) = m /\ ls2[j] = ls[m] /\ (m < k => j = m) /\ (m > k => j = m - 1)
    OBVIOUS
  <2>1. CASE m < k
    <3>1. m \in DOMAIN ls2 /\ old(m) = m
      BY <1>1, <1>3, <2>1
    <3> QED
      BY <1>1, <1>4, <2>1, <3>1
  <2>2. CASE m > k
    <3>1. m - 1 \in DOMAIN ls2 /\ old(m - 1) = m
      BY <1>1, <1>3, <2>2
    <3> QED
      BY <1>1, <1>4, <2>2, <3>1
  <2> QED
    BY <1>1, <2>1, <2>2
<1>6. Behind(ls, k, kind) => Coming(ls2, kind)
  BY <1>1, <1>5 DEF Behind, Coming
<1>7. Coming(ls, kind) /\ ~Brings(ls[k], kind) => Coming(ls2, kind)
  BY <1>1, <1>5 DEF Coming
<1>8. ASSUME AtHand(ls, kind, V),
             Brings(ls[k], kind) => \A j \in DOMAIN ls : j < k => ~Ready(ls[j], kind)
      PROVE  AtHand(ls2, kind, V)
  <2> SUFFICES ASSUME NEW j \in DOMAIN ls2, Ready(ls2[j], kind)
               PROVE  Behind(ls2, j, kind) \/ ValueOf(ls2[j], kind) \in V
    BY DEF AtHand
  <2>1. /\ old(j) \in DOMAIN ls /\ ls2[j] = ls[old(j)]
        /\ Behind(ls, old(j), kind) \/ ValueOf(ls2[j], kind) \in V
    BY <1>4, <1>8 DEF AtHand
  <2>2. ASSUME NEW m \in DOMAIN ls, m > old(j), Brings(ls[m], kind)
        PROVE  \E i \in DOMAIN ls2 : i > j /\ Brings(ls2[i], kind)
    <3>1. m # k
      BY <1>1, <1>3, <1>8, <2>1, <2>2
    <3>2. PICK i \in DOMAIN ls2 : old(i) = m /\ ls2[i] = ls[m]
      BY <1>5, <3>1
    <3>3. i > j
      BY <1>1, <1>3, <2>2, <3>2
    <3> QED
      BY <2>2, <3>2, <3>3
  <2> QED
    BY <2>1, <2>2 DEF Behind
<1>9. Len(ls2) = Len(ls) - 1
  BY <1>2 DEF n
<1> QED
  BY <1>2, <1>4, <1>6, <1>7, <1>8, <1>9 DEF ls2


\* What a request reads first is among what it reads, and what it reads after
\* that is all the rest.
LEMMA HeadFacts ==
  ASSUME NEW t \in Todo
  PROVE  /\ Head(t) \in ToSet(t) /\ Head(t) \in Kinds /\ ToSet(t) \subseteq Kinds
         /\ "own" \in ToSet(t) <=> t = <<"own">>
         /\ Head(t) = "own" <=> t = <<"own">>
         /\ \/ Len(t) = 1 /\ ToSet(t) = {Head(t)}
            \/ /\ Len(t) # 1 /\ t = <<"rows", "details">>
               /\ Tail(t) = <<"details">> /\ Head(t) = "rows" /\ ToSet(t) = {"rows", "details"}
<1>1. CASE t = <<"rows">>
  BY <1>1, TodoFacts DEF Kinds
<1>2. CASE t = <<"rows", "details">>
  BY <1>2, TodoFacts DEF Kinds
<1>3. CASE t = <<"details">>
  BY <1>3, TodoFacts DEF Kinds
<1>4. CASE t = <<"own">>
  BY <1>4, TodoFacts DEF Kinds
<1> QED
  BY <1>1, <1>2, <1>3, <1>4 DEF Todo

\* A reply is shown: what it brought is there, what it reads next is still to
\* come, and no older reply for the same is at hand any more.
LEMMA WithoutKeeps ==
  ASSUME NEW ls \in Seq(Reading), NEW k \in DOMAIN ls, Heard(ls[k]),
         NEW kind \in Kinds, NEW V
  PROVE  LET head == Head(ls[k].todo)
             ls2 == Without(Overtaken(ls, k, {head}), k)
         IN  /\ ls2 \in Seq(Reading) /\ Len(ls2) <= Len(ls)
             /\ \A j \in DOMAIN ls2 : Brings(ls2[j], "own") =>
                   \E m \in DOMAIN ls : Brings(ls[m], "own") /\ ls2[j].of = ls[m].of
             /\ Behind(ls, k, kind) => Coming(ls2, kind)
             /\ Coming(ls, kind) /\ kind # head => Coming(ls2, kind)
             /\ AtHand(ls, kind, V) => AtHand(ls2, kind, V)
<1> DEFINE head == Head(ls[k].todo)
           ls1 == Overtaken(ls, k, {head})
           ls2 == Without(ls1, k)
<1>1. /\ DOMAIN ls = 1 .. Len(ls) /\ Len(ls) \in Nat /\ ls[k].todo \in Todo
      /\ \A j \in DOMAIN ls : ls[j].todo \in Todo
  <2>1. DOMAIN ls = 1 .. Len(ls) /\ Len(ls) \in Nat /\ \A j \in DOMAIN ls : ls[j] \in Reading
    OBVIOUS
  <2> QED
    BY <2>1 DEF Reading
<1>2. /\ ls1 \in Seq(Reading) /\ Len(ls1) = Len(ls) /\ DOMAIN ls1 = DOMAIN ls
      /\ \A j \in DOMAIN ls : /\ Same(ls1[j], ls[j])
                              /\ j < k /\ ToSet(ls[j].todo) \intersect {head} # {} => ~ls1[j].fit
      /\ Coming(ls, kind) <=> Coming(ls1, kind)
      /\ \A j : Behind(ls, j, kind) <=> Behind(ls1, j, kind)
      /\ AtHand(ls, kind, V) => AtHand(ls1, kind, V)
  BY OvertakenKeeps
<1> HIDE DEF ls1
<1>3. \A j \in DOMAIN ls : \A x \in Kinds : Brings(ls1[j], x) <=> Brings(ls[j], x)
  BY <1>2 DEF Same, Brings, Heard
<1>4. \A j \in DOMAIN ls : j < k => ~Ready(ls1[j], head)
  <2> SUFFICES ASSUME NEW j \in DOMAIN ls, j < k, Head(ls[j].todo) = head PROVE ~ls1[j].fit
    BY <1>2 DEF Ready, Same
  <2> QED
    BY <1>1, <1>2, HeadFacts
<1>5. CASE Len(ls[k].todo) = 1
  <2>1. ls2 = RemoveAt(ls1, k)
    BY <1>2, <1>5 DEF Without, Same
  <2> HIDE DEF ls2
  <2>2. Brings(ls1[k], kind) => kind = head
    BY <1>1, <1>2, <1>5, HeadFacts DEF Brings, Same
  <2>3. k \in DOMAIN ls1 /\ "own" \in Kinds
    BY <1>2 DEF Kinds
  <2>4. /\ ls2 \in Seq(Reading) /\ Len(ls2) = Len(ls) - 1
        /\ \A j \in DOMAIN ls2 : \E m \in DOMAIN ls : ls2[j] = ls1[m]
        /\ Behind(ls1, k, kind) => Coming(ls2, kind)
        /\ Coming(ls1, kind) /\ ~Brings(ls1[k], kind) => Coming(ls2, kind)
        /\ AtHand(ls1, kind, V)
              /\ (Brings(ls1[k], kind) => \A j \in DOMAIN ls : j < k => ~Ready(ls1[j], kind))
              => AtHand(ls2, kind, V)
    <3>1. /\ RemoveAt(ls1, k) \in Seq(Reading) /\ Len(RemoveAt(ls1, k)) = Len(ls1) - 1
          /\ \A j \in DOMAIN RemoveAt(ls1, k) :
                \E m \in DOMAIN ls1 : RemoveAt(ls1, k)[j] = ls1[m]
          /\ Behind(ls1, k, kind) => Coming(RemoveAt(ls1, k), kind)
          /\ Coming(ls1, kind) /\ ~Brings(ls1[k], kind) => Coming(RemoveAt(ls1, k), kind)
          /\ AtHand(ls1, kind, V)
                /\ (Brings(ls1[k], kind) => \A j \in DOMAIN ls1 : j < k => ~Ready(ls1[j], kind))
                => AtHand(RemoveAt(ls1, k), kind, V)
      <4>1. ls1 \in Seq(Reading) /\ k \in DOMAIN ls1
        BY <1>2, <2>3
      <4> QED
        BY <4>1, RemovedKeeps
    <3> QED
      BY <1>2, <2>1, <3>1
  <2>5. \A j \in DOMAIN ls2 : Brings(ls2[j], "own") =>
            \E m \in DOMAIN ls : Brings(ls[m], "own") /\ ls2[j].of = ls[m].of
    BY <1>2, <1>3, <2>3, <2>4 DEF Same
  <2>6. AtHand(ls, kind, V) => AtHand(ls2, kind, V)
    BY <1>2, <1>4, <2>2, <2>4
  <2>7. Len(ls2) <= Len(ls)
    BY <1>1, <2>4
  <2> QED
    BY <1>2, <2>2, <2>4, <2>5, <2>6, <2>7 DEF ls2, ls1
<1>6. CASE Len(ls[k].todo) # 1
  <2> DEFINE next == [ls1[k] EXCEPT !.todo = Tail(@), !.read = FALSE, !.val = NoData]
  <2>1. /\ ls[k].todo = <<"rows", "details">> /\ Tail(ls[k].todo) = <<"details">>
        /\ head = "rows" /\ ToSet(ls[k].todo) = {"rows", "details"}
    BY <1>1, <1>6, HeadFacts
  <2>2. ls1[k] \in Reading /\ ls1[k].todo = ls[k].todo
    BY <1>2 DEF Same
  <2>3. /\ next \in Reading /\ next.todo = <<"details">> /\ ~next.read
        /\ next.of = ls1[k].of
    BY <2>1, <2>2 DEF Reading, Todo, Values, NoData, Row, Contents
  <2>4. ls2 = [j \in DOMAIN ls |-> IF j = k THEN next ELSE ls1[j]]
    BY <1>2, <1>6, <2>2 DEF Without
  <2> HIDE DEF next
  <2>5. ls2 \in [1 .. Len(ls) -> Reading]
    BY <1>1, <1>2, <2>3, <2>4
  <2>6. ls2 \in Seq(Reading) /\ Len(ls2) = Len(ls) /\ DOMAIN ls2 = DOMAIN ls
    BY <1>1, <2>5, SequenceOf
  <2>7. ls2[k] = next /\ \A j \in DOMAIN ls : j # k => ls2[j] = ls1[j]
    BY <2>4
  <2> HIDE DEF ls2
  <2>8. \A j \in DOMAIN ls : \A x \in Kinds : x # head => (Brings(ls2[j], x) <=> Brings(ls1[j], x))
    <3>1. Brings(next, "details") /\ ~Brings(next, "own")
      BY <2>3, TodoFacts DEF Brings, Heard
    <3>2. Brings(ls1[k], "details") /\ ~Brings(ls1[k], "own")
      BY <2>1, <2>2, TodoFacts DEF Brings, Heard
    <3> QED
      BY <2>1, <2>7, <3>1, <3>2 DEF Kinds
  <2>9. \A j \in DOMAIN ls : \A x : Ready(ls2[j], x) => j # k /\ Ready(ls1[j], x)
    BY <2>3, <2>7 DEF Ready
  <2>10. \A j \in DOMAIN ls2 : Brings(ls2[j], "own") =>
            \E m \in DOMAIN ls : Brings(ls[m], "own") /\ ls2[j].of = ls[m].of
    <3>1. \A j \in DOMAIN ls : Brings(ls2[j], "own") => j # k
      BY <2>1, <2>3, <2>7, TodoFacts DEF Brings
    <3>2. "own" \in Kinds
      BY DEF Kinds
    <3> QED
      BY <1>2, <1>3, <2>6, <2>7, <3>1, <3>2 DEF Same
  <2>11. Behind(ls, k, kind) => Coming(ls2, kind)
    <3>1. \A m \in DOMAIN ls : m > k => (Brings(ls2[m], kind) <=> Brings(ls[m], kind))
      BY <1>1, <1>3, <2>7
    <3> QED
      BY <2>6, <3>1 DEF Behind, Coming
  <2>12. Coming(ls, kind) /\ kind # head => Coming(ls2, kind)
    BY <1>3, <2>6, <2>8 DEF Coming
  <2>13. ASSUME AtHand(ls, kind, V) PROVE AtHand(ls2, kind, V)
    <3> SUFFICES ASSUME NEW j \in DOMAIN ls2, Ready(ls2[j], kind)
                 PROVE  Behind(ls2, j, kind) \/ ValueOf(ls2[j], kind) \in V
      BY DEF AtHand
    <3>1. /\ j \in DOMAIN ls /\ j # k /\ Ready(ls1[j], kind) /\ ls2[j] = ls1[j]
          /\ Behind(ls1, j, kind) \/ ValueOf(ls1[j], kind) \in V
      BY <1>2, <2>6, <2>7, <2>9, <2>13 DEF AtHand
    <3>2. Behind(ls1, j, kind) => Behind(ls2, j, kind)
      <4>1. CASE kind = head
        <5>1. j > k
          BY <1>1, <1>4, <3>1, <4>1
        <5>2. ASSUME NEW m \in DOMAIN ls, m > j, Brings(ls1[m], kind)
              PROVE  Brings(ls2[m], kind)
          <6>1. m # k
            BY <1>1, <3>1, <5>1, <5>2
          <6> QED
            BY <2>7, <5>2, <6>1
        <5> QED
          BY <1>2, <2>6, <5>2 DEF Behind
      <4>2. CASE kind # head
        BY <1>2, <2>6, <2>8, <4>2 DEF Behind
      <4> QED
        BY <4>1, <4>2
    <3> QED
      BY <3>1, <3>2
  <2>14. Len(ls2) <= Len(ls)
    BY <1>1, <2>6
  <2> QED
    BY <2>6, <2>10, <2>11, <2>12, <2>13, <2>14 DEF ls2, ls1
<1> QED
  BY <1>5, <1>6

-----------------------------------------------------------------------------
(* Calls in flight *)

Call == [h: Handlers, of: Items \union {None}, form: Items \union {None},
         pc: {"sent", "done", "failed"}, heard: BOOLEAN]

\* The answer to x makes the page read data of this kind again, or go.
Owes(x, kind) ==
    x.pc = "done" /\ IF kind = "own" THEN "own" \in x.h.then ELSE Again(x.h)
Owed(cs, kind) == \E c \in DOMAIN cs : Owes(cs[c], kind)

\* The answer to x makes the page correct row i to what the server has.
Corrects(x, i) ==
    /\ x.pc = "done" /\ "here" \in x.h.then /\ x.of = i
    /\ x.h.does = "remove" \/ (x.h.does = "add" /\ rows[i] = "a")

\* What the page may show and be told of, or correct, by the calls in flight.
Good(cs, kind) ==
    IF kind = "rows"
    THEN {v \in [Items -> Row] :
             \A i \in Items : v[i] = rows[i] \/ \E c \in DOMAIN cs : Corrects(cs[c], i)}
    ELSE {details}

\* Calls that differ in whether the page listens.
Alike(x, y) == x.h = y.h /\ x.of = y.of /\ x.form = y.form /\ x.pc = y.pc /\ (x.heard => y.heard)

\* A reply at hand is good, and more is to come.
Current(cs, ls, kind) == Owed(cs, kind) \/ AtHand(ls, kind, Good(cs, kind))
Awaited(cs, ls, kind) == Owed(cs, kind) \/ Coming(ls, kind)

\* What the calls that are left owe and correct.
LEMMA CallsKeep ==
  ASSUME NEW cs, NEW cs2, NEW k, NEW kind,
         \A c \in DOMAIN cs : c # k => \E e \in DOMAIN cs2 : Alike(cs2[e], cs[c])
  PROVE  /\ Owed(cs, kind) /\ (\A c \in DOMAIN cs : c = k => ~Owes(cs[c], kind)) => Owed(cs2, kind)
         /\ (\A c \in DOMAIN cs : c = k => \A i \in Items : ~Corrects(cs[c], i)) =>
               Good(cs, kind) \subseteq Good(cs2, kind)
<1>1. \A x, y : Alike(x, y) => /\ Owes(y, kind) => Owes(x, kind)
                               /\ \A i : Corrects(y, i) => Corrects(x, i)
  BY DEF Alike, Owes, Corrects
<1>2. ASSUME Owed(cs, kind), \A c \in DOMAIN cs : c = k => ~Owes(cs[c], kind)
      PROVE  Owed(cs2, kind)
  BY <1>1, <1>2 DEF Owed
<1>3. ASSUME \A c \in DOMAIN cs : c = k => \A i \in Items : ~Corrects(cs[c], i)
      PROVE  Good(cs, kind) \subseteq Good(cs2, kind)
  <2>1. \A i \in Items : (\E c \in DOMAIN cs : Corrects(cs[c], i)) => \E e \in DOMAIN cs2 : Corrects(cs2[e], i)
    BY <1>1, <1>3
  <2> QED
    BY <2>1 DEF Good
<1> QED
  BY <1>2, <1>3

\* An element that leaves the line, and those that stay.
LEMMA RemovedOthers ==
  ASSUME NEW S, NEW s \in Seq(S), NEW k \in DOMAIN s
  PROVE  /\ RemoveAt(s, k) \in Seq(S) /\ Len(RemoveAt(s, k)) = Len(s) - 1
         /\ \A j \in DOMAIN RemoveAt(s, k) : \E m \in DOMAIN s : m # k /\ RemoveAt(s, k)[j] = s[m]
         /\ \A m \in DOMAIN s : m # k => \E j \in DOMAIN RemoveAt(s, k) : RemoveAt(s, k)[j] = s[m]
<1> DEFINE t == RemoveAt(s, k)
           n == Len(s)
<1>1. n \in Nat /\ DOMAIN s = 1 .. n /\ k \in 1 .. n
  OBVIOUS
<1>2. /\ t \in Seq(S) /\ Len(t) = n - 1 /\ DOMAIN t = 1 .. n - 1
      /\ \A i \in 1 .. n - 1 : t[i] = s[IF i < k THEN i ELSE i + 1]
  <2>1. /\ t \in Seq(S) /\ Len(t) = n - 1
        /\ \A i \in 1 .. n - 1 : t[i] = s[IF i < k THEN i ELSE i + 1]
    BY Removed
  <2> HIDE DEF t, n
  <2> QED
    BY <2>1
<1> HIDE DEF t, n
<1>3. \A j \in DOMAIN t : \E m \in DOMAIN s : m # k /\ t[j] = s[m]
  <2> TAKE j \in DOMAIN t
  <2>1. (IF j < k THEN j ELSE j + 1) \in DOMAIN s /\ (IF j < k THEN j ELSE j + 1) # k
    BY <1>1, <1>2
  <2> QED
    BY <1>2, <2>1
<1>4. \A m \in DOMAIN s : m # k => \E j \in DOMAIN t : t[j] = s[m]
  <2> SUFFICES ASSUME NEW m \in DOMAIN s, m # k PROVE \E j \in DOMAIN t : t[j] = s[m]
    OBVIOUS
  <2>1. CASE m < k
    <3>1. m \in DOMAIN t /\ t[m] = s[m]
      BY <1>1, <1>2, <2>1
    <3> QED
      BY <3>1
  <2>2. CASE m > k
    <3>1. m - 1 \in DOMAIN t /\ ~(m - 1 < k) /\ m - 1 + 1 = m
      BY <1>1, <1>2, <2>2
    <3>2. t[m - 1] = s[m]
      BY <1>2, <3>1
    <3> QED
      BY <3>1, <3>2
  <2> QED
    BY <1>1, <2>1, <2>2
<1>5. Len(t) = Len(s) - 1
  BY <1>2 DEF n
<1> QED
  BY <1>2, <1>3, <1>4, <1>5 DEF t

\* The page stops to listen, and knows it.
LEMMA UnheardKeeps ==
  ASSUME NEW cs \in Seq(Call)
  PROVE  /\ Unheard(cs) \in Seq(Call) /\ Len(Unheard(cs)) = Len(cs)
         /\ DOMAIN Unheard(cs) = DOMAIN cs
         /\ \A c \in DOMAIN cs : /\ Alike(Unheard(cs)[c], cs[c])
                                 /\ cs[c].h.at = "drawer" => ~Unheard(cs)[c].heard
                                 /\ cs[c].h.at \notin {"drawer", "confirm"} => Unheard(cs)[c] = cs[c]
<1>1. DOMAIN cs = 1 .. Len(cs) /\ Len(cs) \in Nat /\ \A c \in DOMAIN cs : cs[c] \in Call
  OBVIOUS
<1>2. \A x \in Call : /\ [x EXCEPT !.heard = FALSE] \in Call
                      /\ Alike([x EXCEPT !.heard = FALSE], x)
                      /\ ~[x EXCEPT !.heard = FALSE].heard
                      /\ Alike(x, x)
  BY DEF Call, Alike
<1>3. Unheard(cs) \in [1 .. Len(cs) -> Call]
  BY <1>1, <1>2 DEF Unheard
<1>4. Unheard(cs) \in Seq(Call) /\ Len(Unheard(cs)) = Len(cs) /\ DOMAIN Unheard(cs) = DOMAIN cs
  BY <1>1, <1>3, SequenceOf
<1>5. \A c \in DOMAIN cs : /\ Alike(Unheard(cs)[c], cs[c])
                           /\ cs[c].h.at = "drawer" => ~Unheard(cs)[c].heard
                           /\ cs[c].h.at \notin {"drawer", "confirm"} => Unheard(cs)[c] = cs[c]
  BY <1>1, <1>2 DEF Unheard
<1> QED
  BY <1>4, <1>5

-----------------------------------------------------------------------------
(* The dialog turns *)

Flags == {"sheet", "drawer", "confirm", "page"}
Dialogs == [kind: {None, "create", "edit", "drawer", "confirm"}, of: Items \union {None}]
Owns == [of: Items \union {None}, val: Contents]

\* A drawer is open on a row that is shown.
Stands == Mounted(dialog, shown.rows)

\* What a drawer waits for is of its row.
DrawerOK(ls, cs) ==
    /\ \A k \in DOMAIN ls : Brings(ls[k], "own") => Stands /\ ls[k].of = dialog.of
    /\ \A c \in DOMAIN cs : cs[c].heard /\ "own" \in cs[c].h.then => Stands /\ cs[c].of = dialog.of

\* A read that has just been sent.
LEMMA LoadFacts ==
  ASSUME NEW todo \in Todo, NEW of \in Items \union {None}
  PROVE  /\ Load(todo, of) \in Reading /\ ~Load(todo, of).read
         /\ Load(todo, of).todo = todo /\ Load(todo, of).of = of
         /\ \A kind : Brings(Load(todo, of), kind) <=>
               kind \in ToSet(todo) /\ (todo = <<"own">> => of # None)
BY DEF Load, Reading, Values, NoData, Row, Contents, Brings, Heard

\* Whatever opens or closes, the page will read what it would have read, but
\* for a drawer that is gone.
LEMMA TurnKeeps ==
  ASSUME NEW ls \in Seq(Reading), NEW cs \in Seq(Call), NEW flags \in SUBSET Flags,
         NEW d \in Dialogs, NEW r \in [Items -> Row], own \in Owns,
         Turn(d, r, cs, ls, flags)
  PROVE  /\ dialog' \in Dialogs /\ dialog'.of = d.of
         /\ dialog'.kind = "edit" \/ d.kind = "edit" => dialog' = d
         /\ own' \in Owns /\ busy' \subseteq Flags
         /\ calls' \in Seq(Call) /\ Len(calls') = Len(cs) /\ DOMAIN calls' = DOMAIN cs
         /\ \A c \in DOMAIN cs : Alike(calls'[c], cs[c])
         /\ loads' \in Seq(Reading) /\ Len(loads') <= MaxLoads
         /\ P.own = None => Len(loads') = Len(ls)
         /\ \A kind \in Kinds : /\ Good(cs, kind) \subseteq Good(calls', kind)
                                /\ Owed(cs, kind) => Owed(calls', kind)
                                /\ Current(cs, ls, kind) => Current(calls', loads', kind)
                                /\ kind # "own" /\ Coming(ls, kind) => Coming(loads', kind)
<1> DEFINE was == Mounted(dialog, shown.rows)
           is == Mounted(d, r)
           goes == was /\ P.own # "kept" /\ ~(is /\ d.of = dialog.of)
           comes == is /\ P.own # None /\ ~(was /\ d.of = dialog.of)
           ls1 == IF goes THEN Vain(ls) ELSE ls
<1>1. /\ dialog' = IF d.kind = "confirm" /\ ~is THEN [d EXCEPT !.kind = "drawer"] ELSE d
      /\ calls' = IF goes THEN Unheard(cs) ELSE cs
      /\ loads' = ls1 \o (IF comes THEN <<Load(<<"own">>, d.of)>> ELSE <<>>)
      /\ busy' = IF goes THEN flags \ {"drawer", "confirm"} ELSE flags
      /\ own' = IF goes THEN NoOwn ELSE own
      /\ Len(loads') <= MaxLoads
  BY DEF Turn
<1> HIDE DEF was, is, goes, comes
<1>2. /\ dialog' \in Dialogs /\ dialog'.of = d.of
      /\ dialog'.kind = "edit" \/ d.kind = "edit" => dialog' = d
  BY <1>1 DEF Dialogs
<1>3. own' \in Owns /\ busy' \subseteq Flags
  BY <1>1 DEF Owns, NoOwn, Contents
<1>4. \A x : Alike(x, x)
  BY DEF Alike
<1>5. /\ calls' \in Seq(Call) /\ Len(calls') = Len(cs) /\ DOMAIN calls' = DOMAIN cs
      /\ \A c \in DOMAIN cs : Alike(calls'[c], cs[c])
  BY <1>1, <1>4, UnheardKeeps
<1>6. \A kind : Good(cs, kind) \subseteq Good(calls', kind) /\ (Owed(cs, kind) => Owed(calls', kind))
  <2> TAKE kind
  <2>1. \A c \in DOMAIN cs : \E e \in DOMAIN calls' : Alike(calls'[e], cs[c])
    BY <1>5
  <2>2. 0 \notin DOMAIN cs
    OBVIOUS
  <2>3. /\ \A c \in DOMAIN cs : c # 0 => \E e \in DOMAIN calls' : Alike(calls'[e], cs[c])
        /\ \A c \in DOMAIN cs : c = 0 => ~Owes(cs[c], kind)
        /\ \A c \in DOMAIN cs : c = 0 => \A i \in Items : ~Corrects(cs[c], i)
    BY <2>1, <2>2
  <2> QED
    BY <2>3, CallsKeep
<1>7. /\ ls1 \in Seq(Reading)
      /\ \A kind \in Kinds : /\ kind # "own" /\ Coming(ls, kind) => Coming(ls1, kind)
                             /\ \A V : AtHand(ls, kind, V) => AtHand(ls1, kind, V)
  <2>1. "rows" \in Kinds
    BY DEF Kinds
  <2>2. CASE goes
    <3>1. Vain(ls) \in Seq(Reading)
      BY <2>1, VainKeeps
    <3>2. ASSUME NEW kind \in Kinds
          PROVE  /\ kind # "own" /\ Coming(ls, kind) => Coming(Vain(ls), kind)
                 /\ \A V : AtHand(ls, kind, V) => AtHand(Vain(ls), kind, V)
      BY VainKeeps
    <3> QED
      BY <2>2, <3>1, <3>2
  <2>3. CASE ~goes
    BY <2>3
  <2> QED
    BY <2>2, <2>3
<1>8. /\ loads' \in Seq(Reading)
      /\ \A kind \in Kinds : /\ kind # "own" /\ Coming(ls, kind) => Coming(loads', kind)
                             /\ \A V : AtHand(ls, kind, V) => AtHand(loads', kind, V)
  <2> HIDE DEF ls1
  <2>1. CASE comes
    <3> DEFINE l == Load(<<"own">>, d.of)
    <3>1. l \in Reading /\ ~l.read
      BY LoadFacts DEF Todo, Dialogs
    <3> HIDE DEF l
    <3>2. loads' = ls1 \o <<l>>
      BY <1>1, <2>1 DEF l
    <3> QED
      BY <1>7, <3>1, <3>2, LoadKeeps
  <2>2. CASE ~comes
    <3>1. loads' = ls1
      BY <1>1, <1>7, <2>2, ConcatEmptySeq
    <3> QED
      BY <1>7, <3>1
  <2> QED
    BY <2>1, <2>2
<1>10. P.own = None => Len(loads') = Len(ls)
  <2> SUFFICES ASSUME P.own = None PROVE Len(loads') = Len(ls)
    OBVIOUS
  <2>1. loads' = ls1
    BY <1>1, <1>7, ConcatEmptySeq DEF comes
  <2>2. "rows" \in Kinds
    BY DEF Kinds
  <2>3. Len(Vain(ls)) = Len(ls)
    BY <2>2, VainKeeps
  <2> QED
    BY <2>1, <2>3
<1>9. \A kind \in Kinds : Current(cs, ls, kind) => Current(calls', loads', kind)
  <2> SUFFICES ASSUME NEW kind \in Kinds, Current(cs, ls, kind), ~Owed(calls', kind)
               PROVE  AtHand(loads', kind, Good(calls', kind))
    BY DEF Current
  <2>1. AtHand(loads', kind, Good(cs, kind))
    BY <1>6, <1>8 DEF Current
  <2> QED
    BY <1>6, <2>1 DEF AtHand
<1> QED
  BY <1>1, <1>2, <1>3, <1>5, <1>6, <1>8, <1>9, <1>10


\* A read of a drawer's row that is sent last.
LEMMA LoadComes ==
  ASSUME NEW ls \in Seq(Reading), NEW l \in Reading, ~l.read, Brings(l, "own")
  PROVE  /\ ls \o <<l>> \in Seq(Reading) /\ Len(ls \o <<l>>) = Len(ls) + 1
         /\ \A i \in DOMAIN ls : (ls \o <<l>>)[i] = ls[i]
         /\ (ls \o <<l>>)[Len(ls) + 1] = l
         /\ Coming(ls \o <<l>>, "own")
<1>1. "own" \in Kinds
  BY DEF Kinds
<1> QED
  BY <1>1, LoadKeeps

\* A drawer that comes reads its row; one that goes is not waited for.
LEMMA TurnDrawer ==
  ASSUME NEW ls \in Seq(Reading), NEW cs \in Seq(Call), NEW flags \in SUBSET Flags,
         NEW d \in Dialogs, own \in Owns, dialog \in Dialogs,
         shown \in Values, shown' \in Values, page' = page,
         P.own = "fresh", \A c \in DOMAIN cs : "own" \in cs[c].h.then => cs[c].h.at = "drawer",
         DrawerOK(ls, cs), Turn(d, shown'.rows, cs, ls, flags)
  PROVE  /\ DrawerOK(loads, calls)'
         /\ Stands' => \/ Coming(loads', "own")
                       \/ /\ Stands /\ dialog'.of = dialog.of
                          /\ own' = own /\ loads' = ls /\ calls' = cs
<1> DEFINE r == shown'.rows
           was == Mounted(dialog, shown.rows)
           is == Mounted(d, r)
           goes == was /\ P.own # "kept" /\ ~(is /\ d.of = dialog.of)
           comes == is /\ P.own # None /\ ~(was /\ d.of = dialog.of)
           new == Load(<<"own">>, d.of)
<1>1. /\ dialog' = IF d.kind = "confirm" /\ ~is THEN [d EXCEPT !.kind = "drawer"] ELSE d
      /\ calls' = IF goes THEN Unheard(cs) ELSE cs
      /\ loads' = (IF goes THEN Vain(ls) ELSE ls) \o (IF comes THEN <<new>> ELSE <<>>)
      /\ own' = IF goes THEN NoOwn ELSE own
  BY DEF Turn
<1>2. "own" \in Kinds
  BY DEF Kinds
<1>3. is => d.of \in Items /\ d.of # None
  BY BoundsOK DEF Mounted, There, Dialogs, None
<1>4. /\ dialog'.of = d.of /\ (is => dialog' = d)
      /\ Stands' <=> is
  <2>1. P' = P
    BY DEF P
  <2>2. CASE d.kind = "confirm" /\ ~is
    <3>1. dialog'.of = d.of /\ dialog'.kind = "drawer"
      BY <1>1, <2>2 DEF Dialogs
    <3>2. ~There(r, d.of)
      BY <2>2 DEF Mounted
    <3> QED
      BY <2>1, <2>2, <3>1, <3>2 DEF Stands, Mounted
  <2>3. CASE ~(d.kind = "confirm" /\ ~is)
    <3>1. dialog' = d
      BY <1>1, <2>3
    <3> QED
      BY <2>1, <3>1 DEF Stands, Mounted
  <2> QED
    BY <2>2, <2>3
<1>5. was <=> Stands
  BY DEF Stands
<1>6. /\ new \in Reading /\ ~new.read /\ new.of = d.of
      /\ is => Brings(new, "own")
  BY <1>3, LoadFacts, TodoFacts DEF Todo, Dialogs
<1>7. goes <=> was /\ ~(is /\ d.of = dialog.of)
  OBVIOUS
<1>8. comes <=> is /\ ~(was /\ d.of = dialog.of)
  BY DEF None
<1>9. DOMAIN ls = 1 .. Len(ls) /\ Len(ls) \in Nat
  OBVIOUS
<1> HIDE DEF r, was, is, goes, comes, new
<1>10. CASE goes
  <2>1. /\ Vain(ls) \in Seq(Reading) /\ Len(Vain(ls)) = Len(ls)
        /\ \A k \in DOMAIN ls : ~Brings(Vain(ls)[k], "own")
    BY <1>2, VainKeeps
  <2>2. \A c \in DOMAIN calls' : "own" \in calls'[c].h.then => ~calls'[c].heard
    <3>1. calls' = Unheard(cs)
      BY <1>1, <1>10
    <3>2. /\ DOMAIN Unheard(cs) = DOMAIN cs
          /\ \A c \in DOMAIN cs : /\ Unheard(cs)[c].h = cs[c].h
                                  /\ cs[c].h.at = "drawer" => ~Unheard(cs)[c].heard
      BY UnheardKeeps DEF Alike
    <3> QED
      BY <3>1, <3>2
  <2>3. DOMAIN Vain(ls) = DOMAIN ls
    BY <1>9, <2>1
  <2>4. CASE comes
    <3>1. loads' = Vain(ls) \o <<new>>
      BY <1>1, <1>10, <2>4
    <3>2. /\ loads' \in Seq(Reading) /\ Len(loads') = Len(ls) + 1
          /\ \A i \in DOMAIN ls : loads'[i] = Vain(ls)[i]
          /\ loads'[Len(ls) + 1] = new
          /\ Coming(loads', "own")
      <4> DEFINE rest == Vain(ls)
      <4>1. rest \in Seq(Reading) /\ Len(rest) = Len(ls) /\ DOMAIN rest = DOMAIN ls
        BY <2>1, <2>3
      <4>2. new \in Reading /\ ~new.read /\ Brings(new, "own")
        BY <1>6, <1>8, <2>4
      <4> HIDE DEF rest
      <4>3. /\ rest \o <<new>> \in Seq(Reading) /\ Len(rest \o <<new>>) = Len(ls) + 1
            /\ \A i \in DOMAIN ls : (rest \o <<new>>)[i] = rest[i]
            /\ (rest \o <<new>>)[Len(ls) + 1] = new
            /\ Coming(rest \o <<new>>, "own")
        BY <4>1, <4>2, LoadComes
      <4> QED
        BY <3>1, <4>3 DEF rest
    <3>3. \A k \in DOMAIN loads' : Brings(loads'[k], "own") => loads'[k] = new
      BY <1>9, <2>1, <3>2
    <3>4. Stands' /\ new.of = dialog'.of
      BY <1>4, <1>6, <1>8, <2>4
    <3> QED
      BY <2>2, <3>2, <3>3, <3>4 DEF DrawerOK, Brings
  <2>5. CASE ~comes
    <3>1. loads' = Vain(ls)
      BY <1>1, <1>10, <2>1, <2>5, ConcatEmptySeq
    <3>2. ~Stands'
      BY <1>4, <1>7, <1>8, <1>10, <2>5
    <3> QED
      BY <2>1, <2>2, <2>3, <3>1, <3>2 DEF DrawerOK
  <2> QED
    BY <2>4, <2>5
<1>11. CASE ~goes /\ was
  <2>1. ~comes /\ is /\ d.of = dialog.of
    BY <1>7, <1>8, <1>11
  <2>2. loads' = ls /\ calls' = cs /\ own' = own
    BY <1>1, <1>11, <2>1, ConcatEmptySeq
  <2>3. Stands' /\ Stands /\ dialog'.of = dialog.of
    BY <1>4, <1>5, <1>11, <2>1
  <2> QED
    BY <2>2, <2>3 DEF DrawerOK, Brings
<1>12. CASE ~was
  <2>1. \A k \in DOMAIN ls : ~Brings(ls[k], "own")
    BY <1>5, <1>12 DEF DrawerOK
  <2>2. calls' = cs /\ \A c \in DOMAIN cs : cs[c].heard => "own" \notin cs[c].h.then
    BY <1>1, <1>5, <1>7, <1>12 DEF DrawerOK
  <2>3. CASE comes
    <3>1. loads' = ls \o <<new>>
      BY <1>1, <1>7, <1>12, <2>3
    <3>2. /\ loads' \in Seq(Reading) /\ Len(loads') = Len(ls) + 1
          /\ \A i \in DOMAIN ls : loads'[i] = ls[i]
          /\ loads'[Len(ls) + 1] = new
          /\ Coming(loads', "own")
      BY <1>6, <1>8, <2>3, <3>1, LoadComes
    <3>3. \A k \in DOMAIN loads' : Brings(loads'[k], "own") => loads'[k] = new
      BY <1>9, <2>1, <3>2
    <3>4. Stands' /\ new.of = dialog'.of
      BY <1>4, <1>6, <1>8, <2>3
    <3> QED
      BY <2>2, <3>2, <3>3, <3>4 DEF DrawerOK, Brings
  <2>4. CASE ~comes
    <3>1. loads' = ls
      BY <1>1, <1>7, <1>12, <2>4, ConcatEmptySeq
    <3>2. ~Stands'
      BY <1>4, <1>8, <1>12, <2>4
    <3> QED
      BY <2>1, <2>2, <3>1, <3>2 DEF DrawerOK
  <2> QED
    BY <2>3, <2>4
<1> QED
  BY <1>10, <1>11, <1>12

-----------------------------------------------------------------------------
(* The invariant *)

TypeInv ==
    /\ rows \in [Items -> Row] /\ details \in {"a", "b"}
    /\ loads \in Seq(Reading) /\ Len(loads) <= MaxLoads
    /\ calls \in Seq(Call) /\ submitted \in Nat /\ Len(calls) <= submitted
    /\ page \in Pages => submitted <= MaxCalls[page]
    /\ page \in Pages \union {"left"} /\ shown \in Values /\ own \in Owns
    /\ dialog \in Dialogs /\ form \in Items \union {None}
    /\ busy \subseteq Flags /\ excused \subseteq Kinds

\* A call is of a handler of the page; one that is done was about a row that
\* the server has had; an update carries what was filled in from its row.
CallOK(x) ==
    /\ HandlerOK(P, x.h)
    /\ x.pc = "done" => x.of \in Items /\ rows[x.of] # "unborn"
    /\ x.pc = "done" /\ x.h.does = "remove" => rows[x.of] = "gone"
    /\ x.h.at = "edit" /\ x.h.does = "change" => x.form = x.of

CallsOK(cs) == \A c \in DOMAIN cs : CallOK(cs[c])

\* A reply at hand that no later one will overtake is good.
FlightOK(cs, ls) ==
    /\ \A kind \in ToSet(P.list) : Current(cs, ls, kind)
    /\ P.own = "fresh" => Current(cs, ls, "own")

\* The list is good, or will be read again.
Of(v, kind) == IF kind = "rows" THEN v.rows ELSE v.details
ListOK(cs, ls, v, ex) ==
    \A kind \in ToSet(P.list) \ ex : Awaited(cs, ls, kind) \/ Of(v, kind) \in Good(cs, kind)

\* So is a drawer, which waits for its own row only.
OwnOK(cs, ls, o, ex) ==
    P.own = "fresh" =>
        /\ DrawerOK(ls, cs)
        /\ Stands /\ "own" \notin ex =>
              Awaited(cs, ls, "own") \/ o = [of |-> dialog.of, val |-> details]

\* A flag is set while a call is under way whose answer will clear it.
BusyOK(cs, flags) == \A f \in flags : \E c \in DOMAIN cs : cs[c].heard /\ cs[c].h.flag = f

\* The sheet is filled from the row it stands on.
FormOK == dialog.kind = "edit" /\ There(shown.rows, dialog.of) => form = dialog.of

LeftOK == page = "left" => loads = <<>> /\ calls = <<>>

ListsInv ==
    /\ TypeInv /\ CallsOK(calls) /\ FlightOK(calls, loads)
    /\ ListOK(calls, loads, shown, excused) /\ OwnOK(calls, loads, own, excused)
    /\ BusyOK(calls, busy) /\ FormOK /\ LeftOK

\* What the page lists.
LEMMA ListFacts ==
  ASSUME TypeInv
  PROVE  /\ PageOK(P) /\ (P.list = <<>> <=> page = "left")
         /\ page = "left" => P.handlers = {} /\ P.own = None /\ P.again = None
         /\ ToSet(P.list) \subseteq {"rows", "details"}
         /\ page # "left" => P.list \in Todo
<1>1. /\ PageOK(P) /\ (P.list = <<>> <=> page = "left")
      /\ page = "left" => P.handlers = {} /\ P.own = None /\ P.again = None
  BY PageFacts DEF TypeInv, P
<1>2. P.list \in {<<>>, <<"rows">>, <<"rows", "details">>}
  BY <1>1 DEF PageOK
<1> QED
  BY <1>1, <1>2, TodoFacts DEF Todo

\* The parts of the invariant speak of calls and reads, of the server's data
\* and of the page.
LEMMA SameData ==
  ASSUME UNCHANGED <<rows, details, page>>
  PROVE  /\ P' = P
         /\ CallsOK(calls)' <=> CallsOK(calls')
         /\ FlightOK(calls, loads)' <=> FlightOK(calls', loads')
         /\ ListOK(calls, loads, shown, excused)' <=> ListOK(calls', loads', shown', excused')
<1>1. P' = P
  BY DEF P
<1>2. \A kind : Good(calls, kind)' = Good(calls', kind)
  BY DEF Good, Corrects
<1>3. \A kind : /\ Current(calls, loads, kind)' <=> Current(calls', loads', kind)
                /\ Awaited(calls, loads, kind)' <=> Awaited(calls', loads', kind)
  BY <1>2 DEF Current, Awaited, Owed, Owes, Again, Coming, Brings, Heard, AtHand,
     Ready, Behind, ValueOf
<1>4. CallsOK(calls)' <=> CallsOK(calls')
  BY <1>1 DEF CallsOK, CallOK, HandlerOK, Again
<1> QED
  BY <1>1, <1>2, <1>3, <1>4 DEF FlightOK, ListOK, Of

\* A step that leaves the server's data and the dialog alone.
LEMMA PlainStep ==
  ASSUME ListsInv, UNCHANGED <<rows, details, page, shown, dialog, form>>, TypeInv',
         CallsOK(calls'), FlightOK(calls', loads'), ListOK(calls', loads', shown, excused'),
         OwnOK(calls', loads', own', excused'), BusyOK(calls', busy'), LeftOK'
  PROVE  ListsInv'
<1>1. /\ P' = P
      /\ CallsOK(calls)' <=> CallsOK(calls')
      /\ FlightOK(calls, loads)' <=> FlightOK(calls', loads')
      /\ ListOK(calls, loads, shown, excused)' <=> ListOK(calls', loads', shown', excused')
  BY SameData
<1>2. Stands' <=> Stands
  BY <1>1 DEF Stands, Mounted, There
<1>3. OwnOK(calls, loads, own, excused)' <=> OwnOK(calls', loads', own', excused')
  BY <1>1, <1>2 DEF OwnOK, DrawerOK, Awaited, Owed, Owes, Again, Coming, Brings, Heard
<1>4. FormOK'
  BY DEF ListsInv, FormOK, There
<1>5. BusyOK(calls, busy)'
  BY DEF BusyOK
<1> QED
  BY <1>1, <1>3, <1>4, <1>5 DEF ListsInv


\* A step that opens or closes the dialog, with what it makes of the calls and
\* of the reads.
LEMMA TurnStep ==
  ASSUME ListsInv, UNCHANGED <<rows, details, page, submitted>>,
         NEW ls \in Seq(Reading), NEW cs \in Seq(Call),
         NEW flags \in SUBSET Flags, NEW d \in Dialogs,
         Len(cs) <= submitted, shown' \in Values, excused' \subseteq Kinds,
         CallsOK(cs), FlightOK(cs, ls), ListOK(cs, ls, shown', excused'),
         OwnOK(cs, ls, own, excused'), BusyOK(cs, flags), page = "left" => ls = <<>> /\ cs = <<>>,
         Turn(d, shown'.rows, cs, ls, flags), Fill(d, shown'.rows)
  PROVE  ListsInv'
<1> DEFINE r == shown'.rows
<1>1. /\ TypeInv /\ PageOK(P) /\ (page = "left" => P.own = None)
      /\ ToSet(P.list) \subseteq {"rows", "details"}
  BY ListFacts DEF ListsInv
<1>2. own \in Owns /\ dialog \in Dialogs /\ shown \in Values /\ r \in [Items -> Row]
  BY <1>1 DEF TypeInv, Values
<1>3. /\ dialog' \in Dialogs /\ dialog'.of = d.of
      /\ dialog'.kind = "edit" \/ d.kind = "edit" => dialog' = d
      /\ own' \in Owns /\ busy' \subseteq Flags
      /\ calls' \in Seq(Call) /\ Len(calls') = Len(cs) /\ DOMAIN calls' = DOMAIN cs
      /\ \A c \in DOMAIN cs : Alike(calls'[c], cs[c])
      /\ loads' \in Seq(Reading) /\ Len(loads') <= MaxLoads
      /\ P.own = None => Len(loads') = Len(ls)
  BY <1>2, TurnKeeps
<1>4. \A kind \in Kinds : /\ Good(cs, kind) \subseteq Good(calls', kind)
                          /\ Owed(cs, kind) => Owed(calls', kind)
                          /\ Current(cs, ls, kind) => Current(calls', loads', kind)
                          /\ kind # "own" /\ Coming(ls, kind) => Coming(loads', kind)
  BY <1>2, TurnKeeps
<1>5. /\ P' = P
      /\ CallsOK(calls)' <=> CallsOK(calls')
      /\ FlightOK(calls, loads)' <=> FlightOK(calls', loads')
      /\ ListOK(calls, loads, shown, excused)' <=> ListOK(calls', loads', shown', excused')
  BY SameData
<1>6. CallsOK(calls')
  BY <1>3 DEF CallsOK, CallOK, Alike
<1>7. FlightOK(calls', loads')
  BY <1>1, <1>4 DEF FlightOK, Kinds
<1>8. ListOK(calls', loads', shown', excused')
  <2> SUFFICES ASSUME NEW kind \in ToSet(P.list) \ excused'
               PROVE  Awaited(calls', loads', kind) \/ Of(shown', kind) \in Good(calls', kind)
    BY DEF ListOK
  <2>1. kind \in Kinds /\ kind # "own"
    BY <1>1 DEF Kinds
  <2>2. Awaited(cs, ls, kind) \/ Of(shown', kind) \in Good(cs, kind)
    BY DEF ListOK
  <2> QED
    BY <1>4, <2>1, <2>2 DEF Awaited
<1>9. OwnOK(calls, loads, own, excused)'
  <2> SUFFICES ASSUME P.own = "fresh"
               PROVE  /\ DrawerOK(loads, calls)'
                      /\ Stands' /\ "own" \notin excused' =>
                            Awaited(calls', loads', "own") \/ own' = [of |-> dialog'.of, val |-> details]
    <3>1. Awaited(calls, loads, "own")' <=> Awaited(calls', loads', "own")
      BY DEF Awaited, Owed, Owes, Again, Coming, Brings, Heard
    <3> QED
      BY <1>5, <3>1 DEF OwnOK
  <2>1. \A c \in DOMAIN cs : "own" \in cs[c].h.then => cs[c].h.at = "drawer"
    BY DEF CallsOK, CallOK, HandlerOK
  <2>2. DrawerOK(ls, cs)
    BY DEF OwnOK
  <2>3. /\ DrawerOK(loads, calls)'
        /\ Stands' => \/ Coming(loads', "own")
                      \/ /\ Stands /\ dialog'.of = dialog.of
                         /\ own' = own /\ loads' = ls /\ calls' = cs
    BY <1>2, <2>1, <2>2, TurnDrawer
  <2> QED
    BY <2>3 DEF OwnOK, Awaited
<1>10. FormOK'
  <2> SUFFICES ASSUME dialog'.kind = "edit", There(r, dialog'.of)
               PROVE  form' = dialog'.of
    BY DEF FormOK, There
  <2>1. dialog' = d /\ d.kind = "edit"
    BY <1>3
  <2>2. CASE dialog = d /\ There(shown.rows, d.of)
    BY <2>1, <2>2 DEF Fill, FormOK, ListsInv
  <2>3. CASE ~(dialog = d /\ There(shown.rows, d.of))
    BY <2>1, <2>3 DEF Fill
  <2> QED
    BY <2>2, <2>3
<1>11. LeftOK'
  <2> SUFFICES ASSUME page = "left" PROVE loads' = <<>> /\ calls' = <<>>
    BY DEF LeftOK
  <2>1. Len(ls) = 0 /\ Len(cs) = 0
    OBVIOUS
  <2>2. Len(loads') = 0 /\ Len(calls') = 0
    BY <1>1, <1>3, <2>1
  <2> QED
    BY <1>3, <2>2
<1>12. TypeInv'
  <2>1. form' \in Items \union {None}
    BY <1>1 DEF Fill, TypeInv, Dialogs
  <2> QED
    BY <1>1, <1>3, <2>1 DEF TypeInv
<1>13. BusyOK(calls, busy)'
  <2> SUFFICES ASSUME NEW f \in busy' PROVE \E c \in DOMAIN calls' : calls'[c].heard /\ calls'[c].h.flag = f
    BY DEF BusyOK
  <2>1. \/ calls' = cs /\ busy' = flags
        \/ calls' = Unheard(cs) /\ busy' = flags \ {"drawer", "confirm"}
    BY DEF Turn
  <2>2. CASE calls' = cs /\ busy' = flags
    BY <2>2 DEF BusyOK
  <2>3. CASE calls' = Unheard(cs) /\ busy' = flags \ {"drawer", "confirm"}
    <3>1. f \in Flags /\ f \notin {"drawer", "confirm", None}
      BY <2>3 DEF Flags, None
    <3>2. PICK c \in DOMAIN cs : cs[c].heard /\ cs[c].h.flag = f
      BY <2>3 DEF BusyOK
    <3>3. HandlerOK(P, cs[c].h)
      BY DEF CallsOK, CallOK
    <3>4. cs[c].h.at \notin {"drawer", "confirm"}
      BY <3>1, <3>2, <3>3 DEF HandlerOK
    <3>5. c \in DOMAIN calls' /\ calls'[c] = cs[c]
      BY <2>3, <3>4, UnheardKeeps
    <3> QED
      BY <3>2, <3>5
  <2> QED
    BY <2>1, <2>2, <2>3
<1> QED
  BY <1>5, <1>6, <1>7, <1>8, <1>9, <1>10, <1>11, <1>12, <1>13 DEF ListsInv

-----------------------------------------------------------------------------
(* The steps of the server *)

\* A row is created, changed and removed in this order.
LEMMA Forward ==
  ASSUME rows \in [Items -> Row], details \in {"a", "b"}, NEW i \in Items,
         NEW does \in {"add", "change", "remove", "relate", "assign"}, Becomes(does, i)
  PROVE  /\ rows' \in [Items -> Row] /\ details' \in {"a", "b"}
         /\ \A j \in Items : /\ rows[j] # "unborn" => rows'[j] # "unborn"
                             /\ rows[j] = "gone" => rows'[j] = "gone"
                             /\ j # i => rows'[j] = rows[j]
         /\ rows'[i] # "unborn"
         /\ does = "remove" => rows'[i] = "gone"
         /\ does = "add" => rows'[i] = "a"
         /\ does = "relate" => rows' = rows
         /\ does \notin {"relate", "assign"} => details' = details
<1>1. CASE does = "add"
  BY <1>1 DEF Becomes, Row
<1>2. CASE does = "change"
  BY <1>2 DEF Becomes, Row, There
<1>3. CASE does = "remove"
  BY <1>3 DEF Becomes, Row, There
<1>4. CASE does \in {"relate", "assign"}
  BY <1>4 DEF Becomes, Row, There
<1> QED
  BY <1>1, <1>2, <1>3, <1>4

\* Others change the data: the page is not told.
LEMMA OthersStep ==
  ASSUME ListsInv, OtherChanges
  PROVE  ListsInv'
<1>1. /\ TypeInv /\ loads' = Unfit(loads) /\ excused' = excused \union Kinds
      /\ UNCHANGED <<calls, page, shown, own, dialog, form, busy, submitted>>
  BY DEF ListsInv, OtherChanges, Excuse
<1>2. PICK does \in {"add", "change", "remove", "relate", "assign"}, i \in Items : Becomes(does, i)
  BY DEF OtherChanges
<1>3. /\ rows' \in [Items -> Row] /\ details' \in {"a", "b"}
      /\ \A j \in Items : /\ rows[j] # "unborn" => rows'[j] # "unborn"
                          /\ rows[j] = "gone" => rows'[j] = "gone"
  BY <1>1, <1>2, Forward DEF TypeInv
<1>4. P' = P /\ (Stands' <=> Stands) /\ FormOK'
  <2>1. P' = P
    BY <1>1 DEF P
  <2> QED
    BY <1>1, <2>1 DEF Stands, Mounted, There, FormOK, ListsInv
<1>5. ASSUME NEW kind \in Kinds, NEW V
      PROVE  /\ loads' \in Seq(Reading) /\ Len(loads') = Len(loads) /\ DOMAIN loads' = DOMAIN loads
             /\ \A k \in DOMAIN loads : Same(loads'[k], loads[k])
             /\ AtHand(loads', kind, V)
  BY <1>1, UnfitKeeps DEF TypeInv
<1>6. "own" \in Kinds /\ ToSet(P.list) \subseteq Kinds
  BY <1>1, ListFacts DEF Kinds
<1>7. TypeInv'
  BY <1>1, <1>3, <1>5, <1>6 DEF TypeInv
<1>8. CallsOK(calls)'
  <2>1. \A c \in DOMAIN calls : CallOK(calls[c])'
    <3> SUFFICES ASSUME NEW c \in DOMAIN calls PROVE CallOK(calls[c])'
      OBVIOUS
    <3>1. CallOK(calls[c]) /\ calls' = calls
      BY <1>1 DEF ListsInv, CallsOK
    <3> QED
      BY <1>3, <1>4, <3>1 DEF CallOK, HandlerOK, Again
  <2> QED
    BY <1>1, <2>1 DEF CallsOK
<1>9. FlightOK(calls, loads)'
  <2>1. \A kind \in Kinds : AtHand(loads, kind, Good(calls, kind))'
    BY <1>5 DEF AtHand, Ready, Behind, Brings, Heard, ValueOf
  <2> QED
    BY <1>4, <1>6, <2>1 DEF FlightOK, Current
<1>10. ListOK(calls, loads, shown, excused)'
  BY <1>1, <1>4, <1>6 DEF ListOK
<1>11. OwnOK(calls, loads, own, excused)'
  <2>1. ASSUME P.own = "fresh" PROVE DrawerOK(loads, calls)'
    <3>1. DrawerOK(loads, calls)
      BY <2>1 DEF ListsInv, OwnOK
    <3> QED
      BY <1>1, <1>4, <1>5, <1>6, <3>1 DEF DrawerOK, Brings, Heard, Same
  <2> QED
    BY <1>1, <1>4, <1>6, <2>1 DEF OwnOK
<1>12. LeftOK'
  <2> SUFFICES ASSUME page = "left" PROVE loads' = <<>> /\ calls' = <<>>
    BY <1>1 DEF LeftOK
  <2> QED
    BY <1>1, BoundsOK, PagesKnown DEF OtherChanges
<1>13. BusyOK(calls, busy)'
  BY <1>1 DEF BusyOK, ListsInv
<1> QED
  BY <1>4, <1>7, <1>8, <1>9, <1>10, <1>11, <1>12, <1>13 DEF ListsInv

\* What becomes of a call that is served.
Marked(cs, c, i) == [cs EXCEPT ![c] = [@ EXCEPT !.pc = "done", !.of = i]]

\* A served call is the same call but for its answer; the others are as they were.
LEMMA MarkedIs ==
  ASSUME NEW cs \in Seq(Call), NEW c \in DOMAIN cs, NEW i \in Items
  PROVE  LET cs2 == Marked(cs, c, i) IN
         /\ DOMAIN cs2 = DOMAIN cs /\ cs2 \in Seq(Call) /\ Len(cs2) = Len(cs)
         /\ cs[c] \in Call /\ \A e \in DOMAIN cs : e # c => cs2[e] = cs[e]
         /\ cs2[c].pc = "done" /\ cs2[c].of = i /\ cs2[c].h = cs[c].h
         /\ cs2[c].form = cs[c].form /\ cs2[c].heard = cs[c].heard
<1> DEFINE cs2 == Marked(cs, c, i)
           y == [cs[c] EXCEPT !.pc = "done", !.of = i]
<1>1. DOMAIN cs = 1 .. Len(cs) /\ Len(cs) \in Nat /\ \A e \in DOMAIN cs : cs[e] \in Call
  OBVIOUS
<1>2. /\ y \in Call /\ y.pc = "done" /\ y.of = i /\ y.h = cs[c].h
      /\ y.form = cs[c].form /\ y.heard = cs[c].heard
  BY <1>1 DEF Call
<1>3. cs2 = [e \in DOMAIN cs |-> IF e = c THEN y ELSE cs[e]]
  BY <1>1 DEF Marked
<1> HIDE DEF y, cs2
<1>4. cs2 \in [1 .. Len(cs) -> Call]
  BY <1>1, <1>2, <1>3
<1>5. cs2 \in Seq(Call) /\ Len(cs2) = Len(cs) /\ DOMAIN cs2 = DOMAIN cs
  BY <1>1, <1>4, SequenceOf
<1>6. cs2[c] = y /\ \A e \in DOMAIN cs : e # c => cs2[e] = cs[e]
  BY <1>3
<1> QED
  BY <1>1, <1>2, <1>5, <1>6 DEF cs2

\* A change that is done is owed a read, or is corrected by its answer.
LEMMA ServedGood ==
  ASSUME ListsInv, NEW c \in DOMAIN calls, NEW i \in Items, calls[c].pc = "sent",
         Becomes(calls[c].h.does, i), calls' = Marked(calls, c, i),
         NEW kind \in Kinds, kind \in ToSet(P.list) \/ (kind = "own" /\ P.own = "fresh")
  PROVE  /\ Owed(calls, kind) => Owed(calls', kind)
         /\ Owed(calls', kind) \/ Good(calls, kind) \subseteq Good(calls, kind)'
<1> DEFINE h == calls[c].h
<1>1. TypeInv /\ CallOK(calls[c]) /\ HandlerOK(P, h)
  BY DEF ListsInv, CallsOK, CallOK
<1>2. /\ DOMAIN calls' = DOMAIN calls /\ calls[c] \in Call
      /\ \A e \in DOMAIN calls : e # c => calls'[e] = calls[e]
      /\ calls'[c].pc = "done" /\ calls'[c].of = i /\ calls'[c].h = h
  <2>1. calls \in Seq(Call)
    BY <1>1 DEF TypeInv
  <2> QED
    BY <2>1, MarkedIs
<1>3. h.does \in {"add", "change", "remove", "relate", "assign"}
  BY <1>1 DEF HandlerOK, Handlers
<1>4. /\ \A j \in Items : /\ rows[j] = "gone" => rows'[j] = "gone"
                          /\ j # i => rows'[j] = rows[j]
      /\ h.does = "remove" => rows'[i] = "gone"
      /\ h.does = "add" => rows'[i] = "a"
      /\ h.does = "relate" => rows' = rows
      /\ h.does \notin {"relate", "assign"} => details' = details
  BY <1>1, <1>3, Forward DEF TypeInv
<1> HIDE DEF h
<1>5. Owed(calls, kind) => Owed(calls', kind)
  BY <1>2 DEF Owed, Owes
<1>6. (Again(h) /\ kind # "own") \/ ("own" \in h.then /\ kind = "own") => Owed(calls', kind)
  BY <1>2 DEF Owed, Owes
<1>7. CASE kind # "rows"
  <2>1. CASE h.does = "relate"
    <3>1. CASE kind = "own"
      BY <1>1, <1>5, <1>6, <2>1, <3>1, ListFacts DEF HandlerOK
    <3>2. CASE kind = "details"
      <4>1. P.list = <<"rows", "details">>
        <5>1. P.list \in {<<>>, <<"rows">>, <<"rows", "details">>}
          BY <1>1, ListFacts DEF PageOK
        <5> QED
          BY <3>2, <5>1, TodoFacts
      <4> QED
        BY <1>1, <1>5, <1>6, <2>1, <3>2, <4>1 DEF HandlerOK
    <3> QED
      BY <1>7, <3>1, <3>2 DEF Kinds
  <2>2. CASE h.does = "assign"
    BY <1>1, <1>5, <1>6, <1>7, <2>2, ListFacts DEF HandlerOK
  <2>3. CASE h.does \notin {"relate", "assign"}
    BY <1>4, <1>5, <1>7, <2>3 DEF Good
  <2> QED
    BY <2>1, <2>2, <2>3
<1>8. CASE kind = "rows" /\ ~Again(h)
  <2> SUFFICES ASSUME NEW v \in Good(calls, kind), NEW j \in Items
               PROVE  v \in [Items -> Row] /\
                      (v[j] = rows'[j] \/ \E e \in DOMAIN calls' : Corrects(calls[e], j)')
    BY <1>5, <1>8 DEF Good
  <2>1. /\ v \in [Items -> Row]
        /\ v[j] = rows[j] \/ \E e \in DOMAIN calls : Corrects(calls[e], j)
    BY <1>8 DEF Good
  <2>2. CASE h.does = "relate"
    <3>1. \A e \in DOMAIN calls : Corrects(calls[e], j) => e # c /\ Corrects(calls[e], j)'
      BY <1>2, <1>4, <2>2 DEF Corrects
    <3> QED
      BY <1>2, <1>4, <2>1, <2>2, <3>1
  <2>3. CASE h.does # "relate" /\ j = i
    <3>1. "here" \in h.then /\ h.does \in {"add", "remove"}
      BY <1>1, <1>3, <1>8, <2>3 DEF HandlerOK
    <3>2. Corrects(calls[c], j)'
      BY <1>2, <1>4, <2>3, <3>1 DEF Corrects
    <3> QED
      BY <1>2, <2>1, <3>2
  <2>4. CASE j # i
    <3>1. \A e \in DOMAIN calls : Corrects(calls[e], j) => e # c /\ Corrects(calls[e], j)'
      BY <1>2, <1>4, <2>4 DEF Corrects
    <3> QED
      BY <1>2, <1>4, <2>1, <2>4, <3>1
  <2> QED
    BY <2>2, <2>3, <2>4
<1>9. CASE kind = "rows" /\ Again(h)
  BY <1>5, <1>6, <1>9
<1> QED
  BY <1>7, <1>8, <1>9

\* The server does what a call asks for.
LEMMA CallServedStep ==
  ASSUME ListsInv, NEW c \in DOMAIN calls, CallServed(c)
  PROVE  ListsInv'
<1>1. /\ TypeInv /\ calls[c].pc = "sent"
      /\ UNCHANGED <<loads, page, shown, own, dialog, form, busy, excused, submitted>>
  BY DEF ListsInv, CallServed
<1>2. PICK i \in Items : /\ calls[c].h.does # "add" => i = calls[c].of
                         /\ Becomes(calls[c].h.does, i)
                         /\ calls' = [calls EXCEPT ![c] = [@ EXCEPT !.pc = "done", !.of = i]]
  BY DEF CallServed
<1>3. /\ DOMAIN calls' = DOMAIN calls /\ calls' \in Seq(Call) /\ Len(calls') = Len(calls)
      /\ calls[c] \in Call /\ \A e \in DOMAIN calls : e # c => calls'[e] = calls[e]
      /\ calls'[c].pc = "done" /\ calls'[c].of = i /\ calls'[c].h = calls[c].h
      /\ calls'[c].form = calls[c].form /\ calls'[c].heard = calls[c].heard
  <2>1. calls \in Seq(Call) /\ calls' = Marked(calls, c, i)
    BY <1>1, <1>2 DEF TypeInv, Marked
  <2> QED
    BY <2>1, MarkedIs
<1>4. /\ rows' \in [Items -> Row] /\ details' \in {"a", "b"}
      /\ \A j \in Items : /\ rows[j] # "unborn" => rows'[j] # "unborn"
                          /\ rows[j] = "gone" => rows'[j] = "gone"
      /\ rows'[i] # "unborn" /\ (calls[c].h.does = "remove" => rows'[i] = "gone")
  <2>1. calls[c].h.does \in {"add", "change", "remove", "relate", "assign"}
    BY <1>3 DEF Call, Handlers
  <2> QED
    BY <1>1, <1>2, <2>1, Forward DEF TypeInv
<1>5. P' = P /\ (Stands' <=> Stands) /\ FormOK'
  <2>1. P' = P
    BY <1>1 DEF P
  <2> QED
    BY <1>1, <2>1 DEF Stands, Mounted, There, FormOK, ListsInv
<1>6. TypeInv'
  BY <1>1, <1>3, <1>4 DEF TypeInv
<1>7. CallsOK(calls)'
  <2>1. \A e \in DOMAIN calls : CallOK(calls[e])'
    <3> SUFFICES ASSUME NEW e \in DOMAIN calls PROVE CallOK(calls[e])'
      OBVIOUS
    <3>1. CallOK(calls[e])
      BY DEF ListsInv, CallsOK
    <3>2. CASE e # c
      BY <1>3, <1>4, <1>5, <3>1, <3>2 DEF CallOK, HandlerOK, Again
    <3>3. CASE e = c
      <4>1. calls[c].h.at = "edit" /\ calls[c].h.does = "change" => calls[c].form = i
        BY <1>2, <3>1, <3>3 DEF CallOK
      <4> QED
        BY <1>3, <1>4, <1>5, <3>1, <3>3, <4>1 DEF CallOK, HandlerOK, Again
    <3> QED
      BY <3>2, <3>3
  <2> QED
    BY <1>3, <2>1 DEF CallsOK
<1>8. ASSUME NEW kind \in Kinds, kind \in ToSet(P.list) \/ (kind = "own" /\ P.own = "fresh")
      PROVE  /\ Owed(calls, kind) => Owed(calls, kind)'
             /\ Owed(calls, kind)' \/ Good(calls, kind) \subseteq Good(calls, kind)'
  <2>1. Owed(calls, kind)' <=> Owed(calls', kind)
    BY DEF Owed, Owes, Again
  <2>2. calls' = Marked(calls, c, i)
    BY <1>2 DEF Marked
  <2> QED
    BY <1>1, <1>2, <1>8, <2>1, <2>2, ServedGood
<1>9. \A kind : /\ Coming(loads, kind)' <=> Coming(loads, kind)
                /\ \A V : AtHand(loads, kind, V)' <=> AtHand(loads', kind, V')
  BY <1>1 DEF Coming, AtHand, Ready, Behind, Brings, Heard, ValueOf
<1>10. FlightOK(calls, loads)'
  <2>1. ASSUME NEW kind \in Kinds, kind \in ToSet(P.list) \/ (kind = "own" /\ P.own = "fresh"),
               Current(calls, loads, kind)
        PROVE  Current(calls, loads, kind)'
    <3>1. Owed(calls, kind)' \/ AtHand(loads, kind, Good(calls, kind)')
      BY <1>8, <2>1 DEF Current, AtHand
    <3> QED
      BY <1>1, <3>1 DEF Current, AtHand, Ready, Behind, Brings, Heard, ValueOf
  <2> QED
    BY <1>1, <1>5, <2>1, ListFacts DEF FlightOK, ListsInv, Kinds
<1>11. ListOK(calls, loads, shown, excused)'
  <2>1. ToSet(P.list) \subseteq Kinds
    BY <1>1, ListFacts DEF Kinds
  <2> QED
    BY <1>1, <1>5, <1>8, <1>9, <2>1 DEF ListOK, Awaited, Of, ListsInv
<1>12. OwnOK(calls, loads, own, excused)'
  <2> SUFFICES ASSUME P.own = "fresh"
               PROVE  /\ DrawerOK(loads, calls)'
                      /\ Stands /\ "own" \notin excused =>
                            Awaited(calls, loads, "own")' \/ own = [of |-> dialog.of, val |-> details']
    BY <1>1, <1>5 DEF OwnOK
  <2>1. OwnOK(calls, loads, own, excused) /\ "own" \in Kinds
    BY DEF ListsInv, Kinds
  <2>2. calls'[c].h.does = "add" \/ i = calls[c].of
    BY <1>2, <1>3
  <2>3. "own" \in calls[c].h.then => calls[c].h.does = "relate"
    BY DEF ListsInv, CallsOK, CallOK, HandlerOK
  <2>4. DrawerOK(loads, calls)'
    BY <1>1, <1>3, <1>5, <2>1, <2>2, <2>3 DEF OwnOK, DrawerOK, Brings, Heard
  <2>5. Owed(calls, "own")' \/ details' = details
    <3>1. Owed(calls, "own")' \/ Good(calls, "own") \subseteq Good(calls, "own")'
      BY <1>8, <2>1
    <3> QED
      BY <3>1 DEF Good
  <2> QED
    BY <1>8, <1>9, <2>1, <2>4, <2>5 DEF OwnOK, Awaited
<1>13. LeftOK'
  BY <1>1 DEF LeftOK, ListsInv
<1>14. BusyOK(calls, busy)'
  <2>1. \A e \in DOMAIN calls : /\ e \in DOMAIN calls' /\ calls'[e].heard = calls[e].heard
                                 /\ calls'[e].h = calls[e].h
    BY <1>3
  <2> QED
    BY <1>1, <2>1 DEF BusyOK, ListsInv
<1> QED
  BY <1>5, <1>6, <1>7, <1>10, <1>11, <1>12, <1>13, <1>14 DEF ListsInv

-----------------------------------------------------------------------------
(* The steps of the reads *)

\* What is read is what the server has.
LEMMA ReadIs ==
  ASSUME TypeInv, NEW kind \in Kinds
  PROVE  /\ Read(kind) \in Values
         /\ kind = "rows" => Read(kind).rows = rows
         /\ kind # "rows" => Read(kind).details = details
         /\ rows \in Good(calls, "rows")
         /\ kind # "rows" => details \in Good(calls, kind)
<1>1. rows \in [Items -> Row] /\ details \in {"a", "b"}
  BY DEF TypeInv
<1>2. NoData \in Values
  BY DEF NoData, Values, Row, Contents
<1>3. /\ kind = "rows" => Read(kind) = [NoData EXCEPT !.rows = rows]
      /\ kind # "rows" => Read(kind) = [NoData EXCEPT !.details = details]
  BY DEF Read
<1>4. Read(kind) \in Values
  BY <1>1, <1>2, <1>3 DEF Values, Contents
<1>5. /\ kind = "rows" => Read(kind).rows = rows
      /\ kind # "rows" => Read(kind).details = details
  BY <1>2, <1>3 DEF Values
<1> QED
  BY <1>1, <1>4, <1>5 DEF Good

Answer(ls, k, v) == [ls EXCEPT ![k] = [@ EXCEPT !.read = TRUE, !.val = v]]

\* A served read is the same read but for what it brings.
LEMMA AnswerIs ==
  ASSUME NEW ls \in Seq(Reading), NEW k \in DOMAIN ls, NEW v \in Values
  PROVE  /\ Answer(ls, k, v) \in Seq(Reading) /\ Len(Answer(ls, k, v)) = Len(ls)
         /\ DOMAIN Answer(ls, k, v) = DOMAIN ls
         /\ \A j \in DOMAIN ls : j # k => Answer(ls, k, v)[j] = ls[j]
         /\ Answer(ls, k, v)[k].todo = ls[k].todo /\ Answer(ls, k, v)[k].of = ls[k].of
         /\ Answer(ls, k, v)[k].val = v
<1> DEFINE y == [ls[k] EXCEPT !.read = TRUE, !.val = v]
           ls2 == Answer(ls, k, v)
<1>1. DOMAIN ls = 1 .. Len(ls) /\ Len(ls) \in Nat /\ \A j \in DOMAIN ls : ls[j] \in Reading
  OBVIOUS
<1>2. y \in Reading /\ y.todo = ls[k].todo /\ y.of = ls[k].of /\ y.val = v
  BY <1>1 DEF Reading
<1>3. ls2 = [j \in DOMAIN ls |-> IF j = k THEN y ELSE ls[j]]
  BY <1>1 DEF Answer
<1> HIDE DEF y, ls2
<1>4. ls2 \in [1 .. Len(ls) -> Reading]
  BY <1>1, <1>2, <1>3
<1>5. ls2 \in Seq(Reading) /\ Len(ls2) = Len(ls) /\ DOMAIN ls2 = DOMAIN ls
  BY <1>1, <1>4, SequenceOf
<1>6. ls2[k] = y /\ \A j \in DOMAIN ls : j # k => ls2[j] = ls[j]
  BY <1>3
<1> QED
  BY <1>2, <1>5, <1>6 DEF ls2

\* A read takes what the server has.
LEMMA LoadServedStep ==
  ASSUME ListsInv, NEW k \in DOMAIN loads, LoadServed(k)
  PROVE  ListsInv'
<1> DEFINE head == Head(loads[k].todo)
<1>1. /\ TypeInv /\ loads \in Seq(Reading) /\ loads[k] \in Reading
      /\ loads' = Answer(loads, k, Read(head))
      /\ UNCHANGED <<rows, details, calls, page, shown, own, dialog, form, busy, excused, submitted>>
  BY DEF ListsInv, LoadServed, TypeInv, Answer
<1>2. head \in Kinds
  BY <1>1, HeadFacts DEF Reading
<1>3. /\ Read(head) \in Values
      /\ head = "rows" => Read(head).rows = rows
      /\ head # "rows" => Read(head).details = details
      /\ rows \in Good(calls, "rows") /\ (head # "rows" => details \in Good(calls, head))
  BY <1>1, <1>2, ReadIs
<1>4. /\ loads' \in Seq(Reading) /\ Len(loads') = Len(loads) /\ DOMAIN loads' = DOMAIN loads
      /\ \A j \in DOMAIN loads : j # k => loads'[j] = loads[j]
      /\ loads'[k].todo = loads[k].todo /\ loads'[k].of = loads[k].of
      /\ loads'[k].val = Read(head)
  BY <1>1, <1>3, AnswerIs
<1> HIDE DEF head
<1>5. \A kind : \A j \in DOMAIN loads : Brings(loads'[j], kind) <=> Brings(loads[j], kind)
  BY <1>4 DEF Brings, Heard
<1>6. \A kind : /\ Coming(loads', kind) <=> Coming(loads, kind)
                /\ \A j : Behind(loads', j, kind) <=> Behind(loads, j, kind)
  BY <1>4, <1>5 DEF Coming, Behind
<1>7. \A kind \in Kinds : Current(calls, loads, kind) => Current(calls, loads', kind)
  <2> SUFFICES ASSUME NEW kind \in Kinds, AtHand(loads, kind, Good(calls, kind)),
                      NEW j \in DOMAIN loads', Ready(loads'[j], kind)
               PROVE  Behind(loads', j, kind) \/ ValueOf(loads'[j], kind) \in Good(calls, kind)
    BY DEF Current, AtHand
  <2>1. CASE j = k
    <3>1. kind = head
      BY <1>4, <2>1 DEF Ready, head
    <3> QED
      BY <1>3, <1>4, <2>1, <3>1 DEF ValueOf
  <2>2. CASE j # k
    BY <1>4, <1>6, <2>2 DEF AtHand
  <2> QED
    BY <2>1, <2>2
<1>8. FlightOK(calls', loads')
  <2>1. ToSet(P.list) \subseteq Kinds /\ "own" \in Kinds
    BY <1>1, ListFacts DEF Kinds
  <2> QED
    BY <1>1, <1>7, <2>1 DEF FlightOK, ListsInv
<1>9. ListOK(calls', loads', shown, excused')
  BY <1>1, <1>6 DEF ListOK, Awaited, ListsInv
<1>10. OwnOK(calls', loads', own', excused')
  <2>1. DrawerOK(loads, calls) => DrawerOK(loads', calls)
    BY <1>4, <1>5 DEF DrawerOK
  <2> QED
    BY <1>1, <1>6, <2>1 DEF OwnOK, Awaited, ListsInv
<1>11. TypeInv'
  BY <1>1, <1>4 DEF TypeInv
<1>12. LeftOK'
  BY <1>1 DEF LeftOK, ListsInv
<1>13. CallsOK(calls')
  BY <1>1 DEF ListsInv
<1>14. BusyOK(calls', busy')
  BY <1>1 DEF ListsInv
<1> QED
  BY <1>1, <1>8, <1>9, <1>10, <1>11, <1>12, <1>13, <1>14, PlainStep

\* The page reads its list again.
LEMMA PollStep ==
  ASSUME ListsInv, Poll
  PROVE  ListsInv'
<1> DEFINE l == Load(P.list, None)
<1>1. /\ TypeInv /\ loads \in Seq(Reading) /\ P.again # None /\ Len(loads) < MaxLoads
      /\ UNCHANGED <<rows, details, calls, page, shown, own, dialog, form, busy, excused, submitted>>
  BY DEF ListsInv, Poll, TypeInv
<1>2. /\ page # "left" /\ P.list \in Todo
      /\ ToSet(P.list) \subseteq Kinds /\ "own" \notin ToSet(P.list) /\ "own" \in Kinds
  BY <1>1, ListFacts DEF Kinds
<1>3. l \in Reading /\ ~l.read /\ ~Brings(l, "own")
  BY <1>2, LoadFacts
<1>4. loads' = loads \o <<l>>
  BY <1>1, <1>3, AppendIsConcat DEF Poll
<1> HIDE DEF l
<1>5. ASSUME NEW kind \in Kinds, NEW V
      PROVE  /\ Coming(loads, kind) => Coming(loads', kind)
             /\ AtHand(loads, kind, V) => AtHand(loads', kind, V)
  BY <1>1, <1>3, <1>4, LoadKeeps
<1>6. /\ loads' \in Seq(Reading) /\ Len(loads') = Len(loads) + 1
      /\ \A i \in DOMAIN loads : loads'[i] = loads[i]
      /\ loads'[Len(loads) + 1] = l
  BY <1>1, <1>2, <1>3, <1>4, LoadKeeps
<1>7. FlightOK(calls', loads')
  BY <1>1, <1>2, <1>5 DEF FlightOK, Current, ListsInv
<1>8. ListOK(calls', loads', shown, excused')
  BY <1>1, <1>2, <1>5 DEF ListOK, Awaited, ListsInv
<1>9. OwnOK(calls', loads', own', excused')
  <2>1. \A k \in DOMAIN loads' : Brings(loads'[k], "own") => k \in DOMAIN loads /\ loads'[k] = loads[k]
    <3>1. DOMAIN loads' = 1 .. Len(loads) + 1 /\ DOMAIN loads = 1 .. Len(loads) /\ Len(loads) \in Nat
      BY <1>1, <1>6
    <3> QED
      BY <1>3, <1>6, <3>1
  <2>2. DrawerOK(loads, calls) => DrawerOK(loads', calls)
    BY <2>1 DEF DrawerOK
  <2> QED
    BY <1>1, <1>2, <1>5, <2>2 DEF OwnOK, Awaited, ListsInv
<1>10. TypeInv'
  <2>1. Len(loads') <= MaxLoads
    BY <1>1, <1>6, BoundsOK
  <2> QED
    BY <1>1, <1>6, <2>1 DEF TypeInv
<1>11. LeftOK' /\ CallsOK(calls') /\ BusyOK(calls', busy')
  BY <1>1, <1>2 DEF LeftOK, ListsInv
<1> QED
  BY <1>1, <1>7, <1>8, <1>9, <1>10, <1>11, PlainStep

\* A read fails, which the page is told: what it would have brought is excused.
LEMMA LoadFailsStep ==
  ASSUME ListsInv, NEW k \in DOMAIN loads, LoadFails(k)
  PROVE  ListsInv'
<1> DEFINE kinds == ToSet(loads[k].todo)
           ls1 == Overtaken(loads, k, kinds)
           ls2 == RemoveAt(ls1, k)
<1>1. /\ TypeInv /\ loads \in Seq(Reading) /\ loads[k] \in Reading
      /\ loads' = Unfit(ls2) /\ excused' = excused \union kinds
      /\ UNCHANGED <<rows, details, calls, page, shown, own, dialog, form, busy, submitted>>
  BY DEF ListsInv, LoadFails, TypeInv
<1>2. kinds \subseteq Kinds /\ ToSet(P.list) \subseteq Kinds /\ "own" \in Kinds
  BY <1>1, HeadFacts, ListFacts DEF Reading, Kinds
<1> HIDE DEF kinds
<1>3. ASSUME NEW kind \in Kinds
      PROVE  /\ ls1 \in Seq(Reading) /\ Len(ls1) = Len(loads) /\ DOMAIN ls1 = DOMAIN loads
             /\ \A j \in DOMAIN loads : Same(ls1[j], loads[j])
             /\ Coming(loads, kind) <=> Coming(ls1, kind)
  BY <1>1, OvertakenKeeps
<1> HIDE DEF ls1
<1>4. ls1 \in Seq(Reading) /\ Len(ls1) = Len(loads) /\ k \in DOMAIN ls1
  BY <1>2, <1>3
<1>5. ASSUME NEW kind \in Kinds
      PROVE  /\ ls2 \in Seq(Reading) /\ Len(ls2) = Len(loads) - 1
             /\ \A j \in DOMAIN ls2 : \E m \in DOMAIN ls1 : ls2[j] = ls1[m]
             /\ Coming(ls1, kind) /\ ~Brings(ls1[k], kind) => Coming(ls2, kind)
  <2>1. /\ RemoveAt(ls1, k) \in Seq(Reading) /\ Len(RemoveAt(ls1, k)) = Len(ls1) - 1
        /\ \A j \in DOMAIN RemoveAt(ls1, k) : \E m \in DOMAIN ls1 : RemoveAt(ls1, k)[j] = ls1[m]
        /\ Coming(ls1, kind) /\ ~Brings(ls1[k], kind) => Coming(RemoveAt(ls1, k), kind)
    BY <1>4, RemovedKeeps
  <2> QED
    BY <1>4, <2>1
<1> HIDE DEF ls2
<1>6. ASSUME NEW kind \in Kinds, NEW V
      PROVE  /\ loads' \in Seq(Reading) /\ Len(loads') = Len(ls2) /\ DOMAIN loads' = DOMAIN ls2
             /\ \A j \in DOMAIN ls2 : Same(loads'[j], ls2[j])
             /\ Coming(ls2, kind) <=> Coming(loads', kind)
             /\ AtHand(loads', kind, V)
  <2>1. ls2 \in Seq(Reading)
    BY <1>2, <1>5
  <2> QED
    BY <1>1, <2>1, UnfitKeeps
<1>7. \A kind \in Kinds \ kinds : Coming(loads, kind) => Coming(loads', kind)
  <2> TAKE kind \in Kinds \ kinds
  <2>1. ~Brings(ls1[k], kind)
    BY <1>3 DEF Brings, Same, kinds
  <2> QED
    BY <1>3, <1>5, <1>6, <2>1
<1>8. \A j \in DOMAIN loads' : \E m \in DOMAIN loads :
         (Brings(loads'[j], "own") <=> Brings(loads[m], "own")) /\ loads'[j].of = loads[m].of
  <2>1. \A j \in DOMAIN loads' : \E m \in DOMAIN loads : Same(loads'[j], ls1[m]) /\ Same(ls1[m], loads[m])
    <3>1. DOMAIN loads' = DOMAIN ls2 /\ \A j \in DOMAIN ls2 : Same(loads'[j], ls2[j])
      BY <1>2, <1>6
    <3>2. \A j \in DOMAIN ls2 : \E m \in DOMAIN ls1 : ls2[j] = ls1[m]
      BY <1>2, <1>5
    <3>3. DOMAIN ls1 = DOMAIN loads /\ \A m \in DOMAIN loads : Same(ls1[m], loads[m])
      BY <1>2, <1>3
    <3> QED
      BY <3>1, <3>2, <3>3
  <2> QED
    BY <2>1 DEF Same, Brings, Heard
<1>9. FlightOK(calls', loads')
  BY <1>2, <1>6 DEF FlightOK, Current
<1>10. ListOK(calls', loads', shown, excused')
  BY <1>1, <1>2, <1>7 DEF ListOK, Awaited, ListsInv
<1>11. OwnOK(calls', loads', own', excused')
  <2>1. DrawerOK(loads, calls) => DrawerOK(loads', calls)
    BY <1>8 DEF DrawerOK
  <2> QED
    BY <1>1, <1>2, <1>7, <2>1 DEF OwnOK, Awaited, ListsInv
<1>12. TypeInv'
  <2>1. loads' \in Seq(Reading) /\ Len(loads') = Len(loads) - 1
    BY <1>2, <1>5, <1>6
  <2>2. Len(loads') <= MaxLoads
    BY <1>1, <2>1, BoundsOK DEF TypeInv
  <2> QED
    BY <1>1, <1>2, <2>1, <2>2 DEF TypeInv
<1>13. LeftOK' /\ CallsOK(calls') /\ BusyOK(calls', busy')
  BY <1>1 DEF LeftOK, ListsInv
<1> QED
  BY <1>1, <1>9, <1>10, <1>11, <1>12, <1>13, PlainStep

\* A reply finds nobody.
LEMMA LoadUnheardStep ==
  ASSUME ListsInv, NEW k \in DOMAIN loads, LoadUnheard(k)
  PROVE  ListsInv'
<1>1. /\ TypeInv /\ loads \in Seq(Reading) /\ ~Heard(loads[k])
      /\ loads' = RemoveAt(loads, k)
      /\ UNCHANGED <<rows, details, calls, page, shown, own, dialog, form, busy, excused, submitted>>
  BY DEF ListsInv, LoadUnheard, TypeInv
<1>2. \A kind : ~Brings(loads[k], kind)
  BY <1>1 DEF Brings
<1>3. ToSet(P.list) \subseteq Kinds /\ "own" \in Kinds
  BY <1>1, ListFacts DEF Kinds
<1>4. ASSUME NEW kind \in Kinds, NEW V
      PROVE  /\ loads' \in Seq(Reading) /\ Len(loads') = Len(loads) - 1
             /\ \A j \in DOMAIN loads' : \E m \in DOMAIN loads : loads'[j] = loads[m]
             /\ Coming(loads, kind) => Coming(loads', kind)
             /\ AtHand(loads, kind, V) => AtHand(loads', kind, V)
  BY <1>1, <1>2, RemovedKeeps
<1>5. FlightOK(calls', loads')
  BY <1>1, <1>3, <1>4 DEF FlightOK, Current, ListsInv
<1>6. ListOK(calls', loads', shown, excused')
  BY <1>1, <1>3, <1>4 DEF ListOK, Awaited, ListsInv
<1>7. OwnOK(calls', loads', own', excused')
  <2>1. DrawerOK(loads, calls) => DrawerOK(loads', calls)
    BY <1>3, <1>4 DEF DrawerOK
  <2> QED
    BY <1>1, <1>3, <1>4, <2>1 DEF OwnOK, Awaited, ListsInv
<1>8. TypeInv'
  <2>1. loads' \in Seq(Reading) /\ Len(loads') = Len(loads) - 1
    BY <1>1, Removed
  <2>2. Len(loads) \in Nat /\ Len(loads) <= MaxLoads /\ MaxLoads \in Nat
    BY <1>1, BoundsOK DEF TypeInv
  <2>3. Len(loads') <= MaxLoads
    BY <2>1, <2>2
  <2> QED
    BY <1>1, <2>1, <2>3 DEF TypeInv
<1>9. LeftOK' /\ CallsOK(calls') /\ BusyOK(calls', busy')
  BY <1>1 DEF LeftOK, ListsInv
<1> QED
  BY <1>1, <1>5, <1>6, <1>7, <1>8, <1>9, PlainStep

\* A reply is shown.
LEMMA LoadAppliedStep ==
  ASSUME ListsInv, NEW k \in DOMAIN loads, LoadApplied(k)
  PROVE  ListsInv'
<1> DEFINE l == loads[k]
           head == Head(l.todo)
           ls2 == Without(Overtaken(loads, k, {head}), k)
<1>1. /\ TypeInv /\ loads \in Seq(Reading) /\ l \in Reading /\ l.read /\ Heard(l)
      /\ UNCHANGED <<rows, details, page, submitted>>
      /\ excused' = IF l.fit THEN excused \ {head} ELSE excused \union {head}
      /\ IF head = "own"
         THEN /\ own' = [of |-> l.of, val |-> l.val.details] /\ loads' = ls2
              /\ UNCHANGED <<calls, shown, dialog, form, busy>>
         ELSE /\ shown' = [shown EXCEPT ![head] = l.val[head]]
              /\ Turn(dialog, shown'.rows, calls, ls2, busy) /\ Fill(dialog, shown'.rows)
  BY DEF ListsInv, LoadApplied, TypeInv
<1>2. /\ head \in Kinds /\ head \in ToSet(l.todo)
      /\ head = "own" => ToSet(l.todo) = {"own"} /\ Brings(l, "own")
      /\ head # "own" => "own" \notin ToSet(l.todo)
      /\ ToSet(P.list) \subseteq Kinds /\ "own" \in Kinds /\ "own" \notin ToSet(P.list)
  BY <1>1, HeadFacts, ListFacts, TodoFacts DEF Reading, Kinds, Brings
<1>3. ASSUME NEW kind \in Kinds, NEW V
      PROVE  /\ ls2 \in Seq(Reading) /\ Len(ls2) <= Len(loads)
             /\ \A j \in DOMAIN ls2 : Brings(ls2[j], "own") =>
                   \E m \in DOMAIN loads : Brings(loads[m], "own") /\ ls2[j].of = loads[m].of
             /\ Behind(loads, k, kind) => Coming(ls2, kind)
             /\ Coming(loads, kind) /\ kind # head => Coming(ls2, kind)
             /\ AtHand(loads, kind, V) => AtHand(ls2, kind, V)
  BY <1>1, WithoutKeeps
<1>4. Ready(l, head) <=> l.fit
  BY <1>1 DEF Ready
<1>5. ASSUME NEW kind \in Kinds, kind = head, l.fit, Current(calls, loads, kind)
      PROVE  Awaited(calls, ls2, kind) \/ ValueOf(l, kind) \in Good(calls, kind)
  <2>1. Owed(calls, kind) \/ Behind(loads, k, kind) \/ ValueOf(l, kind) \in Good(calls, kind)
    BY <1>4, <1>5 DEF Current, AtHand
  <2> QED
    BY <1>3, <1>5, <2>1 DEF Awaited
<1>6. ls2 \in Seq(Reading) /\ Len(ls2) <= Len(loads)
  BY <1>2, <1>3
<1> HIDE DEF ls2, l
<1>7. FlightOK(calls, ls2)
  BY <1>2, <1>3 DEF FlightOK, Current, ListsInv
<1>8. P.own = "fresh" => DrawerOK(ls2, calls)
  <2> SUFFICES ASSUME P.own = "fresh" PROVE DrawerOK(ls2, calls)
    OBVIOUS
  <2>1. DrawerOK(loads, calls)
    BY DEF ListsInv, OwnOK
  <2> QED
    BY <1>2, <1>3, <2>1 DEF DrawerOK
<1>9. excused' \subseteq Kinds
  BY <1>1, <1>2 DEF TypeInv
<1>10. CASE head = "own"
  <2>1. ListOK(calls', loads', shown, excused')
    BY <1>1, <1>2, <1>3, <1>10 DEF ListOK, Awaited, ListsInv
  <2>2. ASSUME P.own = "fresh", Stands, "own" \notin excused'
        PROVE  Awaited(calls, ls2, "own") \/ own' = [of |-> dialog.of, val |-> details]
    <3>1. l.fit /\ Current(calls, loads, "own")
      BY <1>1, <1>10, <2>2 DEF ListsInv, FlightOK
    <3>2. Awaited(calls, ls2, "own") \/ l.val.details = details
      BY <1>2, <1>5, <1>10, <3>1 DEF ValueOf, Good
    <3>3. l.of = dialog.of
      BY <1>2, <1>10, <2>2 DEF ListsInv, OwnOK, DrawerOK, l
    <3> QED
      BY <1>1, <1>10, <3>2, <3>3
  <2>3. OwnOK(calls', loads', own', excused')
    BY <1>1, <1>8, <1>10, <2>2 DEF OwnOK
  <2>4. TypeInv'
    <3>1. own' \in Owns
      BY <1>1, <1>10 DEF Owns, Reading, Values
    <3>2. Len(loads') <= MaxLoads
      BY <1>1, <1>6, <1>10, BoundsOK DEF TypeInv
    <3> QED
      BY <1>1, <1>6, <1>9, <1>10, <3>1, <3>2 DEF TypeInv
  <2>5. LeftOK' /\ CallsOK(calls') /\ FlightOK(calls', loads') /\ BusyOK(calls', busy')
    <3>1. page # "left"
      BY DEF ListsInv, LeftOK
    <3> QED
      BY <1>1, <1>7, <1>10, <3>1 DEF LeftOK, ListsInv
  <2> QED
    BY <1>1, <1>10, <2>1, <2>3, <2>4, <2>5, PlainStep
<1>11. CASE head # "own"
  <2>1. /\ shown' \in Values /\ Of(shown', head) = ValueOf(l, head)
        /\ \A kind \in {"rows", "details"} \ {head} : Of(shown', kind) = Of(shown, kind)
    <3>1. shown \in Values /\ l.val \in Values
      BY <1>1 DEF TypeInv, Reading
    <3>2. CASE head = "rows"
      BY <1>1, <1>11, <3>1, <3>2 DEF Values, Of, ValueOf
    <3>3. CASE head = "details"
      BY <1>1, <1>11, <3>1, <3>3 DEF Values, Of, ValueOf
    <3> QED
      BY <1>2, <1>11, <3>2, <3>3 DEF Kinds
  <2>2. ListOK(calls, ls2, shown', excused')
    <3> SUFFICES ASSUME NEW kind \in ToSet(P.list) \ excused'
                 PROVE  Awaited(calls, ls2, kind) \/ Of(shown', kind) \in Good(calls, kind)
      BY DEF ListOK
    <3>1. kind \in {"rows", "details"} /\ kind \in Kinds
      BY <1>2 DEF Kinds
    <3>2. CASE kind = head
      <4>1. l.fit /\ Current(calls, loads, kind)
        BY <1>1, <3>2 DEF ListsInv, FlightOK
      <4> QED
        BY <1>5, <2>1, <3>1, <3>2, <4>1
    <3>3. CASE kind # head
      <4>1. Awaited(calls, loads, kind) \/ Of(shown, kind) \in Good(calls, kind)
        BY <1>1, <3>3 DEF ListsInv, ListOK
      <4> QED
        BY <1>3, <2>1, <3>1, <3>3, <4>1 DEF Awaited
    <3> QED
      BY <3>2, <3>3
  <2>3. OwnOK(calls, ls2, own, excused')
    <3>1. "own" \in excused' <=> "own" \in excused
      BY <1>1, <1>11
    <3> QED
      BY <1>2, <1>3, <1>8, <1>11, <3>1 DEF OwnOK, Awaited, ListsInv
  <2>4. page # "left" /\ calls \in Seq(Call) /\ Len(calls) <= submitted
    BY <1>1 DEF ListsInv, LeftOK, TypeInv
  <2>5. dialog \in Dialogs /\ busy \in SUBSET Flags /\ CallsOK(calls) /\ BusyOK(calls, busy)
    BY <1>1 DEF TypeInv, ListsInv
  <2>6. Turn(dialog, shown'.rows, calls, ls2, busy) /\ Fill(dialog, shown'.rows)
    BY <1>1, <1>11
  <2> QED
    BY <1>1, <1>6, <1>7, <1>9, <2>1, <2>2, <2>3, <2>4, <2>5, <2>6, TurnStep
<1> QED
  BY <1>10, <1>11

-----------------------------------------------------------------------------
(* The steps of the calls *)

\* What the user submits is of a handler of the page.
LEMMA SubmitStep ==
  ASSUME ListsInv, NEW h \in P.handlers, NEW i \in Items \union {None}, Submit(h, i)
  PROVE  ListsInv'
<1> DEFINE x == [h |-> Sent(h, i), of |-> i, form |-> form, pc |-> "sent", heard |-> TRUE]
           g == Sent(h, i)
<1>1. /\ TypeInv /\ calls \in Seq(Call) /\ page \in Pages /\ submitted < MaxCalls[page]
      /\ submitted' = submitted + 1 /\ calls' = Append(calls, x)
      /\ busy' = IF h.flag = None THEN busy ELSE busy \union {h.flag}
      /\ UNCHANGED <<rows, details, loads, page, shown, own, dialog, form, excused>>
  BY DEF ListsInv, Submit, TypeInv
<1>2. HandlerOK(P, h)
  BY <1>1, ListFacts DEF PageOK
<1>3. /\ HandlerOK(P, g) /\ g.then = h.then /\ g.at = h.at /\ g.flag = h.flag
      /\ h.at = "edit" /\ ~There(shown.rows, i) => g.does = "add"
  <2>1. CASE h.at = "edit" /\ ~There(shown.rows, i)
    <3>1. h \in Handlers
      BY <1>2 DEF HandlerOK
    <3>2. /\ g = [h EXCEPT !.does = "add"] /\ g \in Handlers /\ g.does = "add"
          /\ g.then = h.then /\ g.at = h.at /\ g.flag = h.flag
      BY <2>1, <3>1 DEF Sent, Handlers
    <3> QED
      BY <1>2, <2>1, <3>2 DEF HandlerOK, Again
  <2>2. CASE ~(h.at = "edit" /\ ~There(shown.rows, i))
    BY <1>2, <2>2 DEF Sent
  <2> QED
    BY <2>1, <2>2
<1>4. x \in Call /\ x.h = g /\ x.of = i /\ x.form = form /\ x.pc = "sent" /\ x.heard = TRUE
  BY <1>1, <1>3 DEF TypeInv, Call, HandlerOK
<1>5. /\ h.at \notin {"page", "row"} => h.at = dialog.kind /\ i = dialog.of /\ ~Hidden
      /\ h.flag \in Flags \union {None}
  BY <1>2 DEF Submit, HandlerOK, Handlers, Flags
<1> HIDE DEF x, g
<1>6. /\ calls' \in Seq(Call) /\ Len(calls') = Len(calls) + 1
      /\ \A c \in DOMAIN calls : calls'[c] = calls[c]
      /\ calls'[Len(calls) + 1] = x
  BY <1>1, <1>4, AppendProperties
<1>7. /\ DOMAIN calls = 1 .. Len(calls) /\ DOMAIN calls' = 1 .. Len(calls) + 1
      /\ Len(calls) \in Nat /\ calls' \in Seq(Call)
  BY <1>1, <1>6
<1>8. \A kind : /\ Owed(calls, kind) => Owed(calls', kind)
                /\ Good(calls, kind) \subseteq Good(calls', kind)
  BY <1>6, <1>7 DEF Owed, Good
<1>9. CallOK(x)
  <2>1. ASSUME g.at = "edit", g.does = "change" PROVE form = i
    BY <1>3, <1>5, <2>1 DEF FormOK, ListsInv
  <2> QED
    BY <1>3, <1>4, <2>1 DEF CallOK
<1>10. CallsOK(calls')
  BY <1>6, <1>7, <1>9 DEF CallsOK, ListsInv
<1>11. FlightOK(calls', loads')
  BY <1>1, <1>8 DEF FlightOK, Current, AtHand, ListsInv
<1>12. ListOK(calls', loads', shown, excused')
  BY <1>1, <1>8 DEF ListOK, Awaited, ListsInv
<1>13. OwnOK(calls', loads', own', excused')
  <2> SUFFICES ASSUME P.own = "fresh"
               PROVE  /\ DrawerOK(loads, calls')
                      /\ Stands /\ "own" \notin excused =>
                            Awaited(calls', loads, "own") \/ own = [of |-> dialog.of, val |-> details]
    BY <1>1 DEF OwnOK
  <2>1. "own" \in g.then => Stands /\ i = dialog.of
    BY <1>3, <1>5 DEF HandlerOK, Hidden, Stands
  <2>2. DrawerOK(loads, calls)
    BY DEF ListsInv, OwnOK
  <2>3. DrawerOK(loads, calls')
    BY <1>4, <1>6, <1>7, <2>1, <2>2 DEF DrawerOK
  <2> QED
    BY <1>8, <2>3 DEF ListsInv, OwnOK, Awaited
<1>14. TypeInv'
  <2>1. submitted' \in Nat /\ Len(calls') <= submitted' /\ submitted' <= MaxCalls[page]
    BY <1>1, <1>6, <1>7, BoundsOK DEF TypeInv
  <2>2. busy' \subseteq Flags
    BY <1>1, <1>5 DEF TypeInv
  <2> QED
    BY <1>1, <1>6, <2>1, <2>2 DEF TypeInv
<1>15. LeftOK'
  BY <1>1, PagesKnown DEF LeftOK
<1>16. BusyOK(calls', busy')
  <2> SUFFICES ASSUME NEW f \in busy' PROVE \E c \in DOMAIN calls' : calls'[c].heard /\ calls'[c].h.flag = f
    BY DEF BusyOK
  <2>1. CASE f \in busy
    <3>1. PICK c \in DOMAIN calls : calls[c].heard /\ calls[c].h.flag = f
      BY <2>1 DEF BusyOK, ListsInv
    <3>2. c \in DOMAIN calls' /\ calls'[c] = calls[c]
      BY <1>6, <1>7
    <3> QED
      BY <3>1, <3>2
  <2>2. CASE f \notin busy
    <3>1. f = h.flag
      BY <1>1, <2>2
    <3>2. Len(calls) + 1 \in DOMAIN calls'
      BY <1>7
    <3> QED
      BY <1>3, <1>4, <1>6, <3>1, <3>2
  <2> QED
    BY <2>1, <2>2
<1> QED
  BY <1>1, <1>10, <1>11, <1>12, <1>13, <1>14, <1>15, <1>16, PlainStep

Failed(cs, c) == [cs EXCEPT ![c].pc = "failed"]

\* A failed call is the same call but for its answer; the others are as they were.
LEMMA FailedIs ==
  ASSUME NEW cs \in Seq(Call), NEW c \in DOMAIN cs
  PROVE  LET cs2 == Failed(cs, c) IN
         /\ DOMAIN cs2 = DOMAIN cs /\ cs2 \in Seq(Call) /\ Len(cs2) = Len(cs)
         /\ \A e \in DOMAIN cs : e # c => cs2[e] = cs[e]
         /\ cs2[c].pc = "failed" /\ cs2[c].of = cs[c].of /\ cs2[c].h = cs[c].h
         /\ cs2[c].form = cs[c].form /\ cs2[c].heard = cs[c].heard
<1> DEFINE cs2 == Failed(cs, c)
           y == [cs[c] EXCEPT !.pc = "failed"]
<1>1. DOMAIN cs = 1 .. Len(cs) /\ Len(cs) \in Nat /\ \A e \in DOMAIN cs : cs[e] \in Call
  OBVIOUS
<1>2. /\ y \in Call /\ y.pc = "failed" /\ y.of = cs[c].of /\ y.h = cs[c].h
      /\ y.form = cs[c].form /\ y.heard = cs[c].heard
  BY <1>1 DEF Call
<1>3. cs2 = [e \in DOMAIN cs |-> IF e = c THEN y ELSE cs[e]]
  BY <1>1 DEF Failed
<1> HIDE DEF y, cs2
<1>4. cs2 \in [1 .. Len(cs) -> Call]
  BY <1>1, <1>2, <1>3
<1>5. cs2 \in Seq(Call) /\ Len(cs2) = Len(cs) /\ DOMAIN cs2 = DOMAIN cs
  BY <1>1, <1>4, SequenceOf
<1>6. cs2[c] = y /\ \A e \in DOMAIN cs : e # c => cs2[e] = cs[e]
  BY <1>3
<1> QED
  BY <1>2, <1>5, <1>6 DEF cs2

\* A call fails; what it had changed by then the page is not told of.
LEMMA CallFailsStep ==
  ASSUME ListsInv, NEW c \in DOMAIN calls, CallFails(c)
  PROVE  ListsInv'
<1>1. /\ TypeInv /\ calls \in Seq(Call) /\ loads \in Seq(Reading) /\ calls' = Failed(calls, c)
      /\ UNCHANGED <<rows, details, page, shown, own, dialog, form, busy, submitted>>
  BY DEF ListsInv, CallFails, TypeInv, Failed
<1>2. /\ DOMAIN calls' = DOMAIN calls /\ calls' \in Seq(Call) /\ Len(calls') = Len(calls)
      /\ \A e \in DOMAIN calls : e # c => calls'[e] = calls[e]
      /\ calls'[c].pc = "failed" /\ calls'[c].of = calls[c].of /\ calls'[c].h = calls[c].h
      /\ calls'[c].form = calls[c].form /\ calls'[c].heard = calls[c].heard
  BY <1>1, FailedIs
<1>3. CallsOK(calls')
  BY <1>2 DEF CallsOK, CallOK, ListsInv
<1>4. ToSet(P.list) \subseteq Kinds /\ "own" \in Kinds
  BY <1>1, ListFacts DEF Kinds
<1>5. LeftOK'
  BY DEF LeftOK, ListsInv, CallFails
<1>6. P.own = "fresh" => DrawerOK(loads, calls')
  BY <1>2 DEF DrawerOK, ListsInv, OwnOK
<1>9. BusyOK(calls', busy')
  <2>1. \A e \in DOMAIN calls : /\ e \in DOMAIN calls' /\ calls'[e].heard = calls[e].heard
                                 /\ calls'[e].h = calls[e].h
    BY <1>2
  <2> QED
    BY <1>1, <2>1 DEF BusyOK, ListsInv
<1>7. CASE calls[c].pc = "done"
  <2>1. loads' = Unfit(loads) /\ excused' = excused \union Kinds
    BY <1>7 DEF CallFails
  <2>2. ASSUME NEW kind \in Kinds, NEW V
        PROVE  /\ loads' \in Seq(Reading) /\ Len(loads') = Len(loads) /\ DOMAIN loads' = DOMAIN loads
               /\ \A k \in DOMAIN loads : Same(loads'[k], loads[k])
               /\ AtHand(loads', kind, V)
    BY <1>1, <2>1, UnfitKeeps
  <2>3. FlightOK(calls', loads') /\ ListOK(calls', loads', shown, excused')
    BY <1>4, <2>1, <2>2 DEF FlightOK, ListOK, Current
  <2>4. P.own = "fresh" => DrawerOK(loads', calls')
    BY <1>4, <1>6, <2>2 DEF DrawerOK, Same, Brings, Heard
  <2>5. OwnOK(calls', loads', own', excused')
    BY <1>4, <2>1, <2>4 DEF OwnOK
  <2>6. TypeInv'
    BY <1>1, <1>2, <1>4, <2>1, <2>2 DEF TypeInv
  <2> QED
    BY <1>1, <1>3, <1>5, <1>9, <2>3, <2>5, <2>6, PlainStep
<1>8. CASE calls[c].pc # "done"
  <2>1. UNCHANGED <<loads, excused>>
    BY <1>8 DEF CallFails
  <2>2. \A kind : /\ Owed(calls, kind) => Owed(calls', kind)
                  /\ Good(calls, kind) \subseteq Good(calls', kind)
    BY <1>2, <1>8 DEF Owed, Owes, Good, Corrects
  <2>3. FlightOK(calls', loads')
    BY <2>1, <2>2 DEF FlightOK, Current, AtHand, ListsInv
  <2>4. ListOK(calls', loads', shown, excused')
    BY <2>1, <2>2 DEF ListOK, Awaited, ListsInv
  <2>5. OwnOK(calls', loads', own', excused')
    BY <1>1, <1>6, <2>1, <2>2 DEF OwnOK, Awaited, ListsInv
  <2>6. TypeInv'
    BY <1>1, <1>2, <2>1 DEF TypeInv
  <2> QED
    BY <1>1, <1>3, <1>5, <1>9, <2>3, <2>4, <2>5, <2>6, PlainStep
<1> QED
  BY <1>7, <1>8

\* The flag of a call that is over is cleared if the page hears of it; the
\* other flags have calls of their own.
LEMMA IdleKeeps ==
  ASSUME NEW c \in DOMAIN calls, NEW cs, BusyOK(calls, busy),
         \A m \in DOMAIN calls : m # c => \E j \in DOMAIN cs : cs[j] = calls[m]
  PROVE  BusyOK(cs, Idle(c))
<1> SUFFICES ASSUME NEW f \in Idle(c) PROVE \E j \in DOMAIN cs : cs[j].heard /\ cs[j].h.flag = f
  BY DEF BusyOK
<1>1. f \in busy /\ (calls[c].heard => f # calls[c].h.flag)
  BY DEF Idle
<1>2. PICK m \in DOMAIN calls : calls[m].heard /\ calls[m].h.flag = f
  BY <1>1 DEF BusyOK
<1>3. m # c
  BY <1>1, <1>2
<1> QED
  BY <1>2, <1>3

\* The page learns that a call failed.
LEMMA RefusedStep ==
  ASSUME ListsInv, NEW c \in DOMAIN calls, Refused(c)
  PROVE  ListsInv'
<1>1. /\ TypeInv /\ calls \in Seq(Call) /\ calls' = RemoveAt(calls, c)
      /\ calls[c].pc = "failed" /\ busy' = Idle(c)
      /\ UNCHANGED <<rows, details, loads, page, shown, own, dialog, form, excused, submitted>>
  BY DEF ListsInv, Refused, TypeInv
<1>2. /\ calls' \in Seq(Call) /\ Len(calls') = Len(calls) - 1
      /\ \A j \in DOMAIN calls' : \E m \in DOMAIN calls : m # c /\ calls'[j] = calls[m]
      /\ \A m \in DOMAIN calls : m # c => \E j \in DOMAIN calls' : calls'[j] = calls[m]
  BY <1>1, RemovedOthers
<1>3. \A kind : /\ Owed(calls, kind) => Owed(calls', kind)
                /\ Good(calls, kind) \subseteq Good(calls', kind)
  <2> TAKE kind
  <2>1. \A m \in DOMAIN calls : m # c => \E j \in DOMAIN calls' : Alike(calls'[j], calls[m])
    BY <1>2 DEF Alike
  <2>2. ~Owes(calls[c], kind) /\ \A i \in Items : ~Corrects(calls[c], i)
    BY <1>1 DEF Owes, Corrects
  <2> QED
    BY <2>1, <2>2, CallsKeep
<1>4. CallsOK(calls')
  BY <1>2 DEF CallsOK, ListsInv
<1>5. FlightOK(calls', loads')
  BY <1>1, <1>3 DEF FlightOK, Current, AtHand, ListsInv
<1>6. ListOK(calls', loads', shown, excused')
  BY <1>1, <1>3 DEF ListOK, Awaited, ListsInv
<1>7. OwnOK(calls', loads', own', excused')
  <2>1. P.own = "fresh" => DrawerOK(loads, calls')
    BY <1>2 DEF DrawerOK, ListsInv, OwnOK
  <2> QED
    BY <1>1, <1>3, <2>1 DEF OwnOK, Awaited, ListsInv
<1>8. TypeInv'
  <2>1. Len(calls') <= submitted /\ busy' \subseteq Flags
    BY <1>1, <1>2 DEF TypeInv, Idle
  <2> QED
    BY <1>1, <1>2, <2>1 DEF TypeInv
<1>9. LeftOK'
  BY <1>1 DEF LeftOK, ListsInv
<1>10. BusyOK(calls', busy')
  BY <1>1, <1>2, IdleKeeps DEF ListsInv
<1> QED
  BY <1>1, <1>4, <1>5, <1>6, <1>7, <1>8, <1>9, <1>10, PlainStep

\* A read that an answer sends, or does not, comes after those in flight.
LEMMA SentIs ==
  ASSUME NEW ls \in Seq(Reading), NEW l \in Reading, NEW sent \in BOOLEAN
  PROVE  LET ls2 == ls \o (IF sent THEN <<l>> ELSE <<>>)
         IN  /\ ls2 \in Seq(Reading)
             /\ \A k \in DOMAIN ls2 : (k \in DOMAIN ls /\ ls2[k] = ls[k]) \/ (sent /\ ls2[k] = l)
<1> DEFINE ls2 == ls \o (IF sent THEN <<l>> ELSE <<>>)
<1>1. CASE ~sent
  <2>1. ls2 = ls
    BY <1>1, ConcatEmptySeq
  <2> QED
    BY <1>1, <2>1
<1>2. CASE sent
  <2> DEFINE ls3 == ls \o <<l>>
  <2>1. ls2 = ls3
    BY <1>2
  <2>2. /\ ls3 \in Seq(Reading) /\ Len(ls3) = Len(ls) + 1
        /\ \A i \in 1 .. Len(ls) : ls3[i] = ls[i]
        /\ ls3[Len(ls) + 1] = l
    BY OneMore
  <2>3. DOMAIN ls = 1 .. Len(ls) /\ Len(ls) \in Nat
    OBVIOUS
  <2> HIDE DEF ls3
  <2>4. \A k \in DOMAIN ls3 : (k \in DOMAIN ls /\ ls3[k] = ls[k]) \/ ls3[k] = l
    BY <2>2, <2>3
  <2> HIDE DEF ls2
  <2> QED
    BY <1>2, <2>1, <2>2, <2>4 DEF ls2
<1> QED
  BY <1>1, <1>2

\* What it is to bring is on its way.
LEMMA SentAfter ==
  ASSUME NEW ls \in Seq(Reading), NEW l \in Reading, ~l.read, NEW sent \in BOOLEAN,
         NEW kind \in Kinds, NEW V
  PROVE  LET ls2 == ls \o (IF sent THEN <<l>> ELSE <<>>)
         IN  /\ Coming(ls, kind) \/ (sent /\ Brings(l, kind)) => Coming(ls2, kind)
             /\ AtHand(ls, kind, V) \/ (sent /\ Brings(l, kind)) => AtHand(ls2, kind, V)
<1> DEFINE ls2 == ls \o (IF sent THEN <<l>> ELSE <<>>)
<1>1. CASE ~sent
  <2>1. ls2 = ls
    BY <1>1, ConcatEmptySeq
  <2> QED
    BY <1>1, <2>1
<1>2. CASE sent
  <2> DEFINE ls3 == ls \o <<l>>
  <2>1. ls2 = ls3
    BY <1>2
  <2>2. /\ Coming(ls, kind) \/ Brings(l, kind) => Coming(ls3, kind)
        /\ AtHand(ls, kind, V) \/ Brings(l, kind) => AtHand(ls3, kind, V)
    BY LoadKeeps
  <2> HIDE DEF ls2, ls3
  <2> QED
    BY <1>2, <2>1, <2>2 DEF ls2
<1> QED
  BY <1>1, <1>2

\* The reads after an answer: all that were in flight, unless they are out of
\* date by it, and those that the answer sends.
Older(c) ==
    IF ("own" \in calls[c].h.then /\ ~calls[c].heard) \/ "here" \in calls[c].h.then
    THEN Unfit(loads) ELSE loads
ReadsAfter(c) ==
    Older(c) \o ((IF "own" \in calls[c].h.then /\ calls[c].heard
                  THEN <<Load(<<"own">>, calls[c].of)>> ELSE <<>>)
                 \o (IF "list" \in calls[c].h.then THEN <<Load(P.list, None)>> ELSE <<>>))

\* Sequences of reads are put together in any order.
LEMMA InThree ==
  ASSUME NEW r \in Seq(Reading), NEW s \in Seq(Reading), NEW t \in Seq(Reading)
  PROVE  (r \o s) \o t = r \o (s \o t)
BY ConcatAssociative

\* What the page will read after the answer to call c: what it would have, and
\* what the handler reads again.
LEMMA ReadsAfterKeep ==
  ASSUME ListsInv, NEW c \in DOMAIN calls, calls[c].of \in Items, page # "left",
         NEW kind \in Kinds, NEW V
  PROVE  LET then == calls[c].h.then
             ls == ReadsAfter(c)
         IN  /\ ls \in Seq(Reading)
             /\ Coming(loads, kind) => Coming(ls, kind)
             /\ AtHand(loads, kind, V) => AtHand(ls, kind, V)
             /\ "list" \in then /\ kind \in ToSet(P.list) => Coming(ls, kind) /\ AtHand(ls, kind, V)
             /\ "own" \in then /\ calls[c].heard /\ kind = "own" =>
                   Coming(ls, kind) /\ AtHand(ls, kind, V)
             /\ ("own" \in then /\ ~calls[c].heard) \/ "here" \in then => AtHand(ls, kind, V)
             /\ \A k \in DOMAIN ls : Brings(ls[k], "own") =>
                   \/ \E m \in DOMAIN loads : Brings(loads[m], "own") /\ ls[k].of = loads[m].of
                   \/ "own" \in then /\ calls[c].heard /\ ls[k].of = calls[c].of
<1> DEFINE then == calls[c].h.then
           reads == "own" \in then /\ calls[c].heard
           lists == "list" \in then
           old == ("own" \in then /\ ~calls[c].heard) \/ "here" \in then
           l1 == Load(<<"own">>, calls[c].of)
           l2 == Load(P.list, None)
           s1 == IF reads THEN <<l1>> ELSE <<>>
           s2 == IF lists THEN <<l2>> ELSE <<>>
           ls1 == Older(c) \o s1
           ls == ReadsAfter(c)
<1>1. loads \in Seq(Reading) /\ TypeInv
  BY DEF ListsInv, TypeInv
<1>2. /\ P.list \in Todo /\ "own" \notin ToSet(P.list) /\ "own" \in Kinds
      /\ calls[c].of # None
  BY <1>1, ListFacts, BoundsOK DEF Kinds
<1>3. /\ l1 \in Reading /\ ~l1.read /\ Brings(l1, "own") /\ l1.of = calls[c].of
      /\ l2 \in Reading /\ ~l2.read
      /\ \A x \in ToSet(P.list) : Brings(l2, x)
      /\ ~Brings(l2, "own")
  BY <1>2, LoadFacts, TodoFacts DEF Todo
<1>4. ASSUME NEW x \in Kinds, NEW W
      PROVE  /\ Older(c) \in Seq(Reading) /\ DOMAIN Older(c) = DOMAIN loads
             /\ \A k \in DOMAIN loads : Same(Older(c)[k], loads[k])
             /\ Coming(loads, x) <=> Coming(Older(c), x)
             /\ AtHand(loads, x, W) \/ old => AtHand(Older(c), x, W)
  <2>1. CASE old
    <3>1. Older(c) = Unfit(loads)
      BY <2>1 DEF Older
    <3> QED
      BY <1>1, <3>1, UnfitKeeps
  <2>2. CASE ~old
    <3>1. Older(c) = loads
      BY <2>2 DEF Older
    <3> QED
      BY <1>1, <2>2, <3>1 DEF Same
  <2> QED
    BY <2>1, <2>2
<1>5. Older(c) \in Seq(Reading) /\ s1 \in Seq(Reading) /\ s2 \in Seq(Reading)
  <2>1. Older(c) \in Seq(Reading)
    BY <1>2, <1>4
  <2>2. \A x \in Reading : <<x>> \in Seq(Reading)
    OBVIOUS
  <2> HIDE DEF l1, l2
  <2>3. <<>> \in Seq(Reading)
    OBVIOUS
  <2> QED
    BY <1>3, <2>1, <2>2, <2>3
<1>6. ls = ls1 \o s2
  <2>1. ls = Older(c) \o (s1 \o s2)
    BY DEF ReadsAfter
  <2> HIDE DEF ls, s1, s2
  <2> QED
    <3>1. (Older(c) \o s1) \o s2 = Older(c) \o (s1 \o s2)
      BY <1>5, InThree
    <3> QED
      BY <2>1, <3>1
<1> HIDE DEF l1, l2, reads, lists, old
<1>7. reads \in BOOLEAN /\ lists \in BOOLEAN
  BY DEF reads, lists
<1>8. ASSUME NEW x \in Kinds, NEW W
      PROVE  /\ Coming(Older(c), x) \/ (reads /\ Brings(l1, x)) => Coming(ls1, x)
             /\ AtHand(Older(c), x, W) \/ (reads /\ Brings(l1, x)) => AtHand(ls1, x, W)
  <2> DEFINE o == Older(c)
  <2>1. o \in Seq(Reading)
    BY <1>5
  <2> HIDE DEF o
  <2>2. LET t == o \o (IF reads THEN <<l1>> ELSE <<>>)
        IN  /\ Coming(o, x) \/ (reads /\ Brings(l1, x)) => Coming(t, x)
            /\ AtHand(o, x, W) \/ (reads /\ Brings(l1, x)) => AtHand(t, x, W)
    BY <1>3, <1>7, <2>1, SentAfter
  <2> QED
    BY <2>2 DEF o
<1>9. /\ ls1 \in Seq(Reading)
      /\ \A k \in DOMAIN ls1 :
            (k \in DOMAIN Older(c) /\ ls1[k] = Older(c)[k]) \/ (reads /\ ls1[k] = l1)
  <2> DEFINE o == Older(c)
  <2>1. o \in Seq(Reading)
    BY <1>5
  <2> HIDE DEF o
  <2>2. LET t == o \o (IF reads THEN <<l1>> ELSE <<>>)
        IN  /\ t \in Seq(Reading)
            /\ \A k \in DOMAIN t : (k \in DOMAIN o /\ t[k] = o[k]) \/ (reads /\ t[k] = l1)
    BY <1>3, <1>7, <2>1, SentIs
  <2> QED
    BY <2>2 DEF o
<1> HIDE DEF ls1
<1>10. ASSUME NEW x \in Kinds, NEW W
       PROVE  /\ Coming(ls1, x) \/ (lists /\ Brings(l2, x)) => Coming(ls, x)
              /\ AtHand(ls1, x, W) \/ (lists /\ Brings(l2, x)) => AtHand(ls, x, W)
  <2>1. LET t == ls1 \o (IF lists THEN <<l2>> ELSE <<>>)
        IN  /\ Coming(ls1, x) \/ (lists /\ Brings(l2, x)) => Coming(t, x)
            /\ AtHand(ls1, x, W) \/ (lists /\ Brings(l2, x)) => AtHand(t, x, W)
    BY <1>3, <1>7, <1>9, SentAfter
  <2> QED
    BY <1>6, <2>1
<1>11. /\ ls \in Seq(Reading)
       /\ \A k \in DOMAIN ls : (k \in DOMAIN ls1 /\ ls[k] = ls1[k]) \/ (lists /\ ls[k] = l2)
  <2>1. LET t == ls1 \o (IF lists THEN <<l2>> ELSE <<>>)
        IN  /\ t \in Seq(Reading)
            /\ \A k \in DOMAIN t : (k \in DOMAIN ls1 /\ t[k] = ls1[k]) \/ (lists /\ t[k] = l2)
    BY <1>3, <1>7, <1>9, SentIs
  <2> QED
    BY <1>6, <2>1
<1> HIDE DEF ls
<1>12. \A k \in DOMAIN ls : Brings(ls[k], "own") =>
          \/ \E m \in DOMAIN loads : Brings(loads[m], "own") /\ ls[k].of = loads[m].of
          \/ reads /\ ls[k].of = calls[c].of
  <2> SUFFICES ASSUME NEW k \in DOMAIN ls, Brings(ls[k], "own")
               PROVE  \/ \E m \in DOMAIN loads : Brings(loads[m], "own") /\ ls[k].of = loads[m].of
                      \/ reads /\ ls[k].of = calls[c].of
    OBVIOUS
  <2>1. k \in DOMAIN ls1 /\ ls[k] = ls1[k]
    BY <1>3, <1>11
  <2>2. (k \in DOMAIN Older(c) /\ ls[k] = Older(c)[k]) \/ (reads /\ ls[k] = l1)
    BY <1>9, <2>1
  <2>3. ASSUME k \in DOMAIN Older(c), ls[k] = Older(c)[k]
        PROVE  k \in DOMAIN loads /\ Brings(loads[k], "own") /\ ls[k].of = loads[k].of
    BY <1>2, <1>4, <2>3 DEF Same, Brings, Heard
  <2> QED
    BY <1>3, <2>2, <2>3
<1>13. Coming(loads, kind) => Coming(ls, kind)
  BY <1>4, <1>8, <1>10
<1>14. AtHand(loads, kind, V) \/ old => AtHand(ls, kind, V)
  BY <1>4, <1>8, <1>10
<1>15. lists /\ kind \in ToSet(P.list) => Coming(ls, kind) /\ AtHand(ls, kind, V)
  BY <1>3, <1>10
<1>16. reads /\ kind = "own" => Coming(ls, kind) /\ AtHand(ls, kind, V)
  BY <1>3, <1>8, <1>10
<1> QED
  BY <1>12, <1>13, <1>14, <1>15, <1>16, <1>11 DEF ls, reads, lists, old

\* The page learns that a call is done.
LEMMA AnsweredStep ==
  ASSUME ListsInv, NEW c \in DOMAIN calls, Answered(c)
  PROVE  ListsInv'
<1> DEFINE x == calls[c]
           then == x.h.then
           of == x.of
           cs == RemoveAt(calls, c)
           ls == ReadsAfter(c)
           lost == "own" \in then /\ ~x.heard
<1>1. /\ TypeInv /\ calls \in Seq(Call) /\ x \in Call /\ x.pc = "done" /\ "leave" \notin then
      /\ shown' = IF "here" \in then THEN [shown EXCEPT !.rows[of] = Shows(c)] ELSE shown
      /\ Turn(After(c), shown'.rows, cs, ls, Idle(c)) /\ Fill(After(c), shown'.rows)
      /\ excused' = excused \union (IF lost THEN {"own"} ELSE {}) \union (IF Twice(c) THEN {"rows"} ELSE {})
      /\ UNCHANGED <<rows, details, page, submitted>>
  BY DEF ListsInv, Answered, TypeInv, ReadsAfter, Older
<1>2. /\ CallOK(x) /\ HandlerOK(P, x.h) /\ of \in Items /\ rows[of] # "unborn"
      /\ x.h.does = "remove" => rows[of] = "gone"
  BY <1>1 DEF ListsInv, CallsOK, CallOK
<1>3. page # "left"
  BY DEF ListsInv, LeftOK
<1>4. /\ ToSet(P.list) \subseteq {"rows", "details"} /\ ToSet(P.list) \subseteq Kinds
      /\ "own" \in Kinds
      /\ P.list = <<"rows">> \/ P.list = <<"rows", "details">>
  <2>1. P.list \in {<<>>, <<"rows">>, <<"rows", "details">>} /\ P.list # <<>>
    BY <1>1, <1>3, ListFacts DEF PageOK
  <2> QED
    BY <1>1, <2>1, ListFacts DEF Kinds
<1>5. /\ cs \in Seq(Call) /\ Len(cs) = Len(calls) - 1
      /\ \A j \in DOMAIN cs : \E m \in DOMAIN calls : m # c /\ cs[j] = calls[m]
      /\ \A m \in DOMAIN calls : m # c => \E j \in DOMAIN cs : cs[j] = calls[m]
  BY <1>1, RemovedOthers
<1>6. ASSUME NEW kind \in Kinds, NEW V
      PROVE  /\ ls \in Seq(Reading)
             /\ Coming(loads, kind) => Coming(ls, kind)
             /\ AtHand(loads, kind, V) => AtHand(ls, kind, V)
             /\ "list" \in then /\ kind \in ToSet(P.list) => Coming(ls, kind) /\ AtHand(ls, kind, V)
             /\ "own" \in then /\ x.heard /\ kind = "own" => Coming(ls, kind) /\ AtHand(ls, kind, V)
             /\ lost \/ "here" \in then => AtHand(ls, kind, V)
             /\ \A k \in DOMAIN ls : Brings(ls[k], "own") =>
                   \/ \E m \in DOMAIN loads : Brings(loads[m], "own") /\ ls[k].of = loads[m].of
                   \/ "own" \in then /\ x.heard /\ ls[k].of = of
  BY <1>2, <1>3, ReadsAfterKeep
<1>7. \A kind : /\ Owed(calls, kind) /\ ~Owes(x, kind) => Owed(cs, kind)
                /\ "here" \notin then => Good(calls, kind) \subseteq Good(cs, kind)
  <2> TAKE kind
  <2>1. \A m \in DOMAIN calls : m # c => \E j \in DOMAIN cs : Alike(cs[j], calls[m])
    BY <1>5 DEF Alike
  <2>2. "here" \notin then => \A i \in Items : ~Corrects(x, i)
    BY DEF Corrects
  <2> QED
    BY <2>1, <2>2, CallsKeep
<1>8. \A kind \in Kinds : Owes(x, kind) <=> IF kind = "own" THEN "own" \in then ELSE "list" \in then
  BY <1>1 DEF Owes, Again
<1> HIDE DEF cs, ls, x
<1>9. CallsOK(cs)
  BY <1>5 DEF CallsOK, ListsInv
<1>10. FlightOK(cs, ls)
  <2>1. ASSUME NEW kind \in ToSet(P.list) PROVE Current(cs, ls, kind)
    <3>1. kind \in Kinds /\ kind # "own" /\ Current(calls, loads, kind)
      BY <1>4 DEF ListsInv, FlightOK
    <3>2. CASE "list" \in then
      BY <1>6, <3>1, <3>2 DEF Current
    <3>3. CASE "list" \notin then /\ "here" \in then
      BY <1>6, <3>1, <3>3 DEF Current
    <3>4. CASE "list" \notin then /\ "here" \notin then
      <4>1. Owed(cs, kind) \/ AtHand(loads, kind, Good(calls, kind))
        BY <1>7, <1>8, <3>1, <3>4 DEF Current
      <4>2. Owed(cs, kind) \/ AtHand(ls, kind, Good(calls, kind))
        BY <1>6, <3>1, <4>1
      <4> QED
        BY <1>7, <3>4, <4>2 DEF Current, AtHand
    <3> QED
      BY <3>2, <3>3, <3>4
  <2>2. ASSUME P.own = "fresh" PROVE Current(cs, ls, "own")
    <3>1. CASE "own" \in then
      BY <1>4, <1>6, <3>1 DEF Current
    <3>2. CASE "own" \notin then
      <4>1. Owed(cs, "own") \/ AtHand(loads, "own", Good(calls, "own"))
        BY <1>4, <1>7, <1>8, <2>2, <3>2 DEF Current, ListsInv, FlightOK
      <4>2. Good(calls, "own") = Good(cs, "own")
        BY DEF Good
      <4> QED
        BY <1>4, <1>6, <4>1, <4>2 DEF Current
    <3> QED
      BY <3>1, <3>2
  <2> QED
    BY <2>1, <2>2 DEF FlightOK
<1>11. /\ shown' \in Values /\ shown'.details = shown.details
       /\ "here" \in then => shown'.rows = [shown.rows EXCEPT ![of] = Shows(c)]
       /\ "here" \notin then => shown' = shown
  <2>1. shown \in Values /\ Shows(c) \in Row
    BY <1>1 DEF TypeInv, Shows, Row
  <2> QED
    BY <1>1, <1>2, <2>1 DEF Values
<1>12. ASSUME "here" \in then, "rows" \notin excused', shown.rows \in Good(calls, "rows")
       PROVE  shown'.rows \in Good(cs, "rows")
  <2>1. x.h.does \in {"add", "remove"}
    BY <1>2, <1>12 DEF HandlerOK
  <2>2. shown'.rows \in [Items -> Row]
    BY <1>11 DEF Values
  <2>3. ASSUME NEW j \in Items
        PROVE  shown'.rows[j] = rows[j] \/ \E e \in DOMAIN cs : Corrects(cs[e], j)
    <3>1. /\ shown.rows \in [Items -> Row]
          /\ shown.rows[j] = rows[j] \/ \E e \in DOMAIN calls : Corrects(calls[e], j)
      BY <1>12 DEF Good
    <3>2. \A e \in DOMAIN calls : e # c /\ Corrects(calls[e], j) => \E m \in DOMAIN cs : Corrects(cs[m], j)
      BY <1>5
    <3>3. CASE j # of
      <4>1. ~Corrects(x, j)
        BY <3>3 DEF Corrects
      <4>2. shown'.rows[j] = shown.rows[j]
        BY <1>11, <1>12, <3>1, <3>3
      <4> QED
        BY <3>1, <3>2, <4>1, <4>2 DEF x
    <3>4. CASE j = of /\ x.h.does = "remove"
      <4>1. shown'.rows[j] = "gone"
        BY <1>2, <1>11, <1>12, <3>1, <3>4 DEF Shows, x
      <4> QED
        BY <1>2, <3>4, <4>1
    <3>5. CASE j = of /\ x.h.does = "add"
      <4>1. shown'.rows[j] = "a"
        BY <1>2, <1>11, <1>12, <3>1, <3>5 DEF Shows, x
      <4>2. shown.rows[of] = "unborn"
        BY <1>1, <1>12, <3>5 DEF Twice, x
      <4>3. PICK e \in DOMAIN calls : Corrects(calls[e], j)
        BY <1>2, <3>1, <3>5, <4>2
      <4>4. CASE e = c
        <5>1. rows[j] = "a"
          BY <3>5, <4>3, <4>4 DEF Corrects, x
        <5> QED
          BY <4>1, <5>1
      <4>5. CASE e # c
        BY <3>2, <4>3, <4>5
      <4> QED
        BY <4>4, <4>5
    <3> QED
      BY <2>1, <3>3, <3>4, <3>5
  <2> QED
    BY <2>2, <2>3 DEF Good
<1>13. ListOK(cs, ls, shown', excused')
  <2> SUFFICES ASSUME NEW kind \in ToSet(P.list) \ excused'
               PROVE  Awaited(cs, ls, kind) \/ Of(shown', kind) \in Good(cs, kind)
    BY DEF ListOK
  <2>1. kind \in Kinds /\ kind # "own" /\ kind \in {"rows", "details"} /\ kind \notin excused
    BY <1>1, <1>4
  <2>2. Awaited(calls, loads, kind) \/ Of(shown, kind) \in Good(calls, kind)
    BY <2>1 DEF ListsInv, ListOK
  <2>3. CASE "list" \in then
    BY <1>6, <2>1, <2>3 DEF Awaited
  <2>4. CASE "list" \notin then
    <3>1. Awaited(calls, loads, kind) => Awaited(cs, ls, kind)
      BY <1>6, <1>7, <1>8, <2>1, <2>4 DEF Awaited
    <3>2. CASE kind = "details"
      BY <1>11, <2>2, <3>1, <3>2 DEF Of, Good
    <3>3. CASE kind = "rows" /\ "here" \in then
      BY <1>12, <2>2, <3>1, <3>3 DEF Of
    <3>4. CASE kind = "rows" /\ "here" \notin then
      BY <1>7, <1>11, <2>2, <3>1, <3>4 DEF Of
    <3> QED
      BY <2>1, <3>2, <3>3, <3>4
  <2> QED
    BY <2>3, <2>4
<1>14. OwnOK(cs, ls, own, excused')
  <2> SUFFICES ASSUME P.own = "fresh"
               PROVE  /\ DrawerOK(ls, cs)
                      /\ Stands /\ "own" \notin excused' =>
                            Awaited(cs, ls, "own") \/ own = [of |-> dialog.of, val |-> details]
    BY DEF OwnOK
  <2>1. DrawerOK(loads, calls)
    BY DEF ListsInv, OwnOK
  <2>2. "own" \in then /\ x.heard => Stands /\ of = dialog.of
    BY <2>1 DEF DrawerOK, x
  <2>3. DrawerOK(ls, cs)
    <3>1. ASSUME NEW k \in DOMAIN ls, Brings(ls[k], "own") PROVE Stands /\ ls[k].of = dialog.of
      <4>1. \A k1 \in DOMAIN ls : Brings(ls[k1], "own") =>
               \/ \E m \in DOMAIN loads : Brings(loads[m], "own") /\ ls[k1].of = loads[m].of
               \/ "own" \in then /\ x.heard /\ ls[k1].of = of
        BY <1>4, <1>6
      <4> QED
        BY <2>1, <2>2, <3>1, <4>1 DEF DrawerOK
    <3>2. ASSUME NEW j \in DOMAIN cs, cs[j].heard, "own" \in cs[j].h.then
          PROVE  Stands /\ cs[j].of = dialog.of
      BY <1>5, <2>1, <3>2 DEF DrawerOK
    <3> QED
      BY <3>1, <3>2 DEF DrawerOK
  <2>4. ASSUME Stands, "own" \notin excused'
        PROVE  Awaited(cs, ls, "own") \/ own = [of |-> dialog.of, val |-> details]
    <3>1. CASE "own" \in then
      BY <1>1, <1>4, <1>6, <2>4, <3>1 DEF Awaited
    <3>2. CASE "own" \notin then
      <4>1. Awaited(calls, loads, "own") \/ own = [of |-> dialog.of, val |-> details]
        BY <1>1, <2>4 DEF ListsInv, OwnOK
      <4> QED
        BY <1>4, <1>6, <1>7, <1>8, <3>2, <4>1 DEF Awaited
    <3> QED
      BY <3>1, <3>2
  <2> QED
    BY <2>3, <2>4
<1>15. /\ After(c) \in Dialogs /\ Idle(c) \in SUBSET Flags /\ excused' \subseteq Kinds
       /\ Len(cs) <= submitted
  <2>1. After(c) \in Dialogs /\ Idle(c) \in SUBSET Flags
    BY <1>1 DEF After, Idle, TypeInv, Dialogs, Closed
  <2>2. Len(calls) \in Nat /\ Len(calls) <= submitted /\ submitted \in Nat
    BY <1>1 DEF TypeInv
  <2> QED
    BY <1>1, <1>5, <2>1, <2>2 DEF TypeInv, Kinds
<1>16. ls \in Seq(Reading)
  BY <1>4, <1>6
<1>17. BusyOK(cs, Idle(c))
  BY <1>5, IdleKeeps DEF ListsInv
<1> QED
  BY <1>1, <1>3, <1>5, <1>9, <1>10, <1>11, <1>13, <1>14, <1>15, <1>16, <1>17, TurnStep

\* The page is left.
LEMMA LeaveStep ==
  ASSUME ListsInv, NEW c \in DOMAIN calls, Leave(c)
  PROVE  ListsInv'
<1>1. /\ page' = "left" /\ calls' = <<>> /\ loads' = <<>> /\ busy' = {}
      /\ UNCHANGED <<rows, details, shown, own, dialog, form, excused, submitted>> /\ TypeInv
  BY DEF Leave, ListsInv
<1>2. P'.list = <<>> /\ P'.own = None
  BY <1>1 DEF P, Page, Left, Reads
<1>3. ToSet(P'.list) = {}
  BY <1>2, TodoFacts
<1>4. /\ <<>> \in Seq(Reading) /\ <<>> \in Seq(Call) /\ Len(<<>>) = 0
      /\ DOMAIN <<>> = {}
  OBVIOUS
<1>5. TypeInv'
  <2>1. "left" \notin Pages /\ MaxLoads \in Nat
    BY BoundsOK, PagesKnown
  <2> QED
    BY <1>1, <1>4, <2>1 DEF TypeInv
<1>6. /\ CallsOK(calls)' /\ FlightOK(calls, loads)' /\ ListOK(calls, loads, shown, excused)'
      /\ OwnOK(calls, loads, own, excused)'
  BY <1>1, <1>2, <1>3, <1>4 DEF CallsOK, FlightOK, ListOK, OwnOK, None
<1>7. FormOK' /\ LeftOK' /\ BusyOK(calls, busy)'
  BY <1>1 DEF FormOK, LeftOK, BusyOK, ListsInv, There
<1> QED
  BY <1>5, <1>6, <1>7 DEF ListsInv

\* The user opens or closes a dialog.
LEMMA DialogStep ==
  ASSUME ListsInv, New \/ Edit \/ AskDelete \/ Close \/ \E i \in Items : Open(i)
  PROVE  ListsInv'
<1>1. TypeInv
  BY DEF ListsInv
<1>2. PICK d \in Dialogs : Go(d)
  <2>1. dialog \in Dialogs
    BY <1>1 DEF TypeInv
  <2>2. CASE New
    <3>1. [kind |-> "create", of |-> None] \in Dialogs
      BY DEF Dialogs
    <3> QED
      BY <2>2, <3>1 DEF New
  <2>3. CASE Edit
    <3>1. [dialog EXCEPT !.kind = "edit"] \in Dialogs
      BY <2>1 DEF Dialogs
    <3> QED
      BY <2>3, <3>1 DEF Edit
  <2>4. CASE AskDelete
    <3>1. [dialog EXCEPT !.kind = "confirm"] \in Dialogs
      BY <2>1 DEF Dialogs
    <3> QED
      BY <2>4, <3>1 DEF AskDelete
  <2>5. CASE Close
    <3>1. [dialog EXCEPT !.kind = "drawer"] \in Dialogs /\ Closed \in Dialogs
      BY <2>1 DEF Dialogs, Closed
    <3> QED
      BY <2>5, <3>1 DEF Close
  <2>6. CASE \E i \in Items : Open(i)
    <3>1. PICK i \in Items : Open(i)
      BY <2>6
    <3>2. [kind |-> "drawer", of |-> i] \in Dialogs
      BY DEF Dialogs
    <3> QED
      BY <3>1, <3>2 DEF Open
  <2> QED
    BY <2>2, <2>3, <2>4, <2>5, <2>6
<1>3. /\ UNCHANGED <<rows, details, page, shown, excused, submitted>>
      /\ Turn(d, shown'.rows, calls, loads, busy) /\ Fill(d, shown'.rows)
  BY <1>2 DEF Go
<1>4. /\ loads \in Seq(Reading) /\ calls \in Seq(Call) /\ busy \in SUBSET Flags
      /\ Len(calls) <= submitted /\ shown' \in Values /\ excused' \subseteq Kinds
  BY <1>1, <1>3 DEF TypeInv
<1>5. /\ CallsOK(calls) /\ FlightOK(calls, loads) /\ ListOK(calls, loads, shown', excused')
      /\ OwnOK(calls, loads, own, excused') /\ BusyOK(calls, busy)
      /\ page = "left" => loads = <<>> /\ calls = <<>>
  BY <1>3 DEF ListsInv, LeftOK
<1> QED
  BY <1>3, <1>4, <1>5, TurnStep

\* When a page opens it reads its list.
LEMMA ListsStart ==
  ASSUME Init
  PROVE  ListsInv
<1> DEFINE l == Load(P.list, None)
<1>1. /\ rows \in [Items -> {"unborn", "a"}] /\ details = "a" /\ page \in Pages
      /\ loads = <<l>> /\ calls = <<>> /\ shown = NoData /\ own = NoOwn
      /\ dialog = Closed /\ form = None /\ busy = {} /\ excused = {} /\ submitted = 0
  BY DEF Init
<1>2. page # "left" /\ MaxLoads \in Nat \ {0} /\ MaxCalls[page] \in Nat
  BY <1>1, BoundsOK, PagesKnown
<1>3. PageOK(P) /\ P.list # <<>>
  BY <1>1, <1>2, PageFacts DEF P
<1>4. P.list \in Todo /\ P.list \in {<<"rows">>, <<"rows", "details">>}
  BY <1>3 DEF PageOK, Todo
<1>5. l \in Reading /\ ~l.read /\ \A x : Brings(l, x) <=> x \in ToSet(P.list)
  BY <1>4, LoadFacts, TodoFacts
<1> HIDE DEF l
<1>6. /\ loads \in Seq(Reading) /\ Len(loads) = 1 /\ DOMAIN loads = {1} /\ loads[1] = l
      /\ calls \in Seq(Call) /\ Len(calls) = 0 /\ DOMAIN calls = {}
  BY <1>1, <1>5
<1>7. TypeInv
  <2>1. rows \in [Items -> Row]
    BY <1>1 DEF Row
  <2>2. shown \in Values /\ own \in Owns /\ dialog \in Dialogs
    BY <1>1 DEF NoData, Values, Row, Contents, NoOwn, Owns, Closed, Dialogs
  <2>3. Len(loads) <= MaxLoads /\ submitted <= MaxCalls[page]
    BY <1>1, <1>2, <1>6
  <2> QED
    BY <1>1, <1>6, <2>1, <2>2, <2>3 DEF TypeInv
<1>8. \A kind, V : AtHand(loads, kind, V)
  BY <1>5, <1>6 DEF AtHand, Ready
<1>9. \A kind \in ToSet(P.list) : Coming(loads, kind)
  BY <1>5, <1>6 DEF Coming
<1>10. ~Stands
  BY <1>1 DEF Stands, Mounted, Closed, None
<1>11. "own" \notin ToSet(P.list)
  BY <1>4, TodoFacts
<1>12. OwnOK(calls, loads, own, excused)
  BY <1>5, <1>6, <1>10, <1>11 DEF OwnOK, DrawerOK
<1>13. /\ CallsOK(calls) /\ FlightOK(calls, loads)
       /\ ListOK(calls, loads, shown, excused)
  BY <1>6, <1>8, <1>9 DEF CallsOK, FlightOK, ListOK, Current, Awaited
<1>14. FormOK /\ LeftOK /\ BusyOK(calls, busy)
  BY <1>1, <1>2 DEF FormOK, LeftOK, BusyOK, Closed, None
<1> QED
  BY <1>7, <1>12, <1>13, <1>14 DEF ListsInv

\* Every step of the page, of the server and of the network keeps the invariant.
LEMMA ListsStep ==
  ASSUME ListsInv, [Next]_vars
  PROVE  ListsInv'
<1>1. CASE OtherChanges
  BY <1>1, OthersStep
<1>2. CASE New \/ Edit \/ AskDelete \/ Close \/ \E i \in Items : Open(i)
  BY <1>2, DialogStep
<1>3. CASE \E h \in P.handlers : \E i \in Items \union {None} : Submit(h, i)
  BY <1>3, SubmitStep
<1>4. CASE Poll
  BY <1>4, PollStep
<1>5. ASSUME NEW k \in DOMAIN loads,
             LoadServed(k) \/ LoadApplied(k) \/ LoadFails(k) \/ LoadUnheard(k)
      PROVE  ListsInv'
  BY <1>5, LoadServedStep, LoadAppliedStep, LoadFailsStep, LoadUnheardStep
<1>6. ASSUME NEW c \in DOMAIN calls,
             CallServed(c) \/ CallFails(c) \/ Refused(c) \/ Answered(c) \/ Leave(c)
      PROVE  ListsInv'
  BY <1>6, CallServedStep, CallFailsStep, RefusedStep, AnsweredStep, LeaveStep
<1>7. CASE UNCHANGED vars
  <2>1. /\ UNCHANGED <<rows, details, page, shown, dialog, form>>
        /\ UNCHANGED <<calls, loads, own, excused, busy, submitted>>
    BY <1>7 DEF vars
  <2>2. TypeInv' /\ LeftOK'
    BY <2>1 DEF TypeInv, LeftOK, ListsInv
  <2> QED
    BY <2>1, <2>2, PlainStep DEF ListsInv
<1> QED
  BY <1>1, <1>2, <1>3, <1>4, <1>5, <1>6, <1>7 DEF Next, User, Replies

\* What a page shows, and is not excused, is good or awaited.
LEMMA ListsInvariant == Spec => []ListsInv
<1> QED
  BY ListsStart, ListsStep, PTL DEF Spec

-----------------------------------------------------------------------------
(* The properties *)

\* The page, its requests and the server's data have their types, on every
\* page, for any number of rows and of requests and replies in flight; and no
\* busy flag is left behind, whatever fails and whichever drawer is gone by then.
THEOREM ListsTyped == Spec => []TypeOK
<1>1. ListsInv => TypeOK
  <2> SUFFICES ASSUME ListsInv PROVE TypeOK
    OBVIOUS
  <2>1. TypeInv
    BY DEF ListsInv
  <2>2. \A k \in DOMAIN loads : loads[k].todo \in Todo
    <3>1. \A k \in DOMAIN loads : loads[k] \in Reading
      BY <2>1 DEF TypeInv
    <3> QED
      BY <3>1 DEF Reading
  <2>3. \A f \in busy : \E c \in DOMAIN calls : calls[c].heard /\ calls[c].h.flag = f
    BY DEF ListsInv, BusyOK
  <2> QED
    BY <2>1, <2>2, <2>3 DEF TypeInv, TypeOK, Todo, Values, Owns, Dialogs, Contents, Flags
<1> QED
  BY <1>1, ListsInvariant, PTL

\* When nothing is under way every page of the administration UI shows what
\* the server has, but for what Fresh excuses (replies that were overtaken,
\* changes by others, reads that fail, answers that are lost, a row added
\* twice): each change is followed by a read of all it touches, or by the
\* right correction, also when its sheet is gone by then (the handlers and
\* load() of the pages).
THEOREM PagesAreFresh == Spec => []Fresh
<1>1. ListsInv => Fresh
  <2> SUFFICES ASSUME ListsInv, Quiet, NEW kind \in ToSet(P.list) \ excused
               PROVE  shown[kind] = Data[kind]
    BY DEF Fresh
  <2>1. TypeInv /\ DOMAIN calls = {} /\ DOMAIN loads = {}
    BY DEF Quiet, ListsInv
  <2>2. Of(shown, kind) \in Good(calls, kind)
    BY <2>1 DEF ListsInv, ListOK, Awaited, Owed, Coming
  <2>3. kind \in {"rows", "details"}
    BY <2>1, ListFacts
  <2>4. CASE kind = "rows"
    <3>1. shown.rows \in [Items -> Row] /\ rows \in [Items -> Row] /\ \A i \in Items : shown.rows[i] = rows[i]
      BY <2>1, <2>2, <2>4 DEF Of, Good, TypeInv
    <3>2. shown.rows = rows
      BY <3>1
    <3> QED
      BY <2>4, <3>2 DEF Data
  <2>5. CASE kind = "details"
    BY <2>2, <2>5 DEF Of, Good, Data
  <2> QED
    BY <2>3, <2>4, <2>5
<1> QED
  BY <1>1, ListsInvariant, PTL

\* A drawer that reads by itself shows the details of the row it stands on,
\* whichever drawers were open before it and whatever they still wait for
\* (PersonDrawer of People.tsx).
THEOREM DrawersAreFresh == Spec => []DrawerIsFresh
<1>1. ListsInv => DrawerIsFresh
  <2> SUFFICES ASSUME ListsInv, Quiet, Stands, P.own = "fresh", "own" \notin excused
               PROVE  own = [of |-> dialog.of, val |-> details]
    BY DEF DrawerIsFresh, Stands
  <2>1. DOMAIN calls = {} /\ DOMAIN loads = {}
    BY DEF Quiet
  <2> QED
    BY <2>1 DEF ListsInv, OwnOK, Awaited, Owed, Coming
<1> QED
  BY <1>1, ListsInvariant, PTL

\* An update carries what was filled in from the row it updates, also when the
\* row comes, goes or changes in the list while its sheet is open (submit() of
\* the sheets).
THEOREM UpdatesAreFilled == Spec => []UpdatesFilledRow
<1>1. ListsInv => UpdatesFilledRow
  BY DEF ListsInv, CallsOK, CallOK, UpdatesFilledRow
<1> QED
  BY <1>1, ListsInvariant, PTL

=============================================================================
