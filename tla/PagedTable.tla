----------------------------- MODULE PagedTable -----------------------------
(***************************************************************************)
(* The logs of the administration UI, read a page at a time: the denied    *)
(* connections ("denials") and the audit log ("audit") of System.tsx and   *)
(* the connection history ("history") of ConnectionHistory.tsx.  A log     *)
(* only grows; its rows are numbered in the order they came.               *)
(*                                                                         *)
(* What the page asks for follows from a filter, an offset, a page size    *)
(* and, in the history, a search and the start of a window of time.  Each  *)
(* change of them sends a request, nothing orders the replies, and what    *)
(* the pager offers comes from the reply shown last.                       *)
(***************************************************************************)
EXTENDS Naturals, Sequences, FiniteSets, SequencesExt

CONSTANTS
    Tables,         \* the tables looked at, of "denials", "audit", "history"
    MaxRows,        \* bound: rows the log ever has
    MaxAge,         \* bound: rows that grow older than the window
    MaxLoads,       \* bound: requests in flight
    Sizes,          \* the page sizes of the history
    PageSize        \* the page size to begin with, the only one elsewhere

ASSUME BoundsOK ==
    /\ Tables \subseteq {"denials", "audit", "history"}
    /\ {MaxRows, MaxAge} \subseteq Nat /\ MaxLoads \in Nat \ {0}
    /\ Sizes \subseteq Nat \ {0} /\ PageSize \in Sizes

VARIABLES
    newest,         \* the log: rows 1 .. newest
    horizon,        \* rows up to here are older than the window of time
    loads,          \* requests, in the order they were sent
    table, filter, offset, size,
    search, timer,  \* the text typed, and whether the pause after it is running
    seen,           \* the text that was asked for when the running timer was set
    q, since,       \* the text and the start of the window that are asked for
    untouched,      \* filter and q are the defaultFilters, not a copy of them
    rows, total,    \* what the last reply brought
    loading,
    \* for the properties: the query of the rows shown, and whether the last
    \* request has been answered
    shownFor, current

log == <<newest, horizon>>
typed == <<search, timer, seen>>
asked == <<filter, offset, size, q, since, untouched>>
shown == <<rows, total, shownFor>>
vars == <<log, loads, table, asked, typed, shown, loading, current>>

Words == {"any", "odd"}     \* a filter or a search: all rows, or the odd ones
Matches(word, i) == word = "any" \/ i % 2 = 1

Query == [filter |-> filter, q |-> q, offset |-> offset, size |-> size, since |-> since]

\* List of denials.go, audit.go and vpn_events.go.
Found(query) ==
    {i \in 1 .. newest : i > query.since /\ Matches(query.filter, i) /\ Matches(query.q, i)}
PageOf(query) ==
    {i \in Found(query) :
        Cardinality({j \in Found(query) : j > i}) \in query.offset .. query.offset + query.size - 1}

TypeOK ==
    /\ newest \in 0 .. MaxRows /\ horizon \in 0 .. newest
    /\ table \in Tables /\ {filter, q, search, seen} \subseteq Words
    /\ offset \in 0 .. MaxRows /\ size \in Sizes /\ since \in 0 .. horizon
    /\ rows \subseteq 1 .. newest /\ total \in 0 .. newest
    /\ {timer, loading, current, untouched} \subseteq BOOLEAN
    /\ Len(loads) <= MaxLoads
    /\ \A k \in DOMAIN loads : loads[k].read => Cardinality(loads[k].rows) <= loads[k].query.size

Load(query) == [query |-> query, last |-> TRUE, read |-> FALSE, rows |-> {}, total |-> 0]

Init ==
    /\ newest \in 0 .. MaxRows /\ horizon = 0
    /\ table \in Tables /\ filter = "any" /\ offset = 0 /\ size = PageSize
    /\ search = "any" /\ timer = (table = "history") /\ seen = "any"
    /\ q = "any" /\ since = 0 /\ untouched = TRUE
    /\ rows = {} /\ total = 0
    /\ loading = TRUE /\ loads = <<Load(Query)>>
    /\ shownFor = Query /\ current = FALSE

-----------------------------------------------------------------------------
(* The server. *)

\* Something happens that is logged; rows grow older.
Logged ==
    /\ newest < MaxRows /\ newest' = newest + 1
    /\ UNCHANGED <<horizon, loads, table, asked, typed, shown, loading, current>>

Ages ==
    /\ table = "history" /\ horizon < newest /\ horizon < MaxAge /\ horizon' = horizon + 1
    /\ UNCHANGED <<newest, loads, table, asked, typed, shown, loading, current>>

LoadServed(k) ==
    /\ ~loads[k].read
    /\ loads' = [loads EXCEPT ![k].read = TRUE,
                              ![k].rows = PageOf(loads[k].query),
                              ![k].total = Cardinality(Found(loads[k].query))]
    /\ UNCHANGED <<log, table, asked, typed, shown, loading, current>>

-----------------------------------------------------------------------------
(* The page. *)

LoadApplied(k) ==
    /\ loads[k].read
    /\ rows' = loads[k].rows /\ total' = loads[k].total /\ shownFor' = loads[k].query
    /\ current' = loads[k].last
    /\ loads' = RemoveAt(loads, k) /\ loading' = FALSE
    /\ UNCHANGED <<log, table, asked, typed>>

LoadFails(k) ==
    /\ loads' = RemoveAt(loads, k) /\ loading' = FALSE
    /\ UNCHANGED <<log, table, asked, typed, shown, current>>

\* load(), for each of the queries in turn: the last of them is the last sent.
Send(queries) ==
    LET sent == loads \o [k \in DOMAIN queries |-> Load(queries[k])]
    IN  /\ Len(sent) <= MaxLoads
        /\ loads' = [k \in DOMAIN sent |-> [sent[k] EXCEPT !.last = @ /\ k = Len(sent)]]
        /\ loading' = (loading \/ queries # <<>>) /\ current' = (current /\ queries = <<>>)

\* The window starts anew when anything else that is asked for changes.
Window == IF table = "history" THEN horizon ELSE 0

\* The user asks for another page or page size; the effect sends the request.
\* before are requests the handler itself sent.
AskFor(before, o, n) ==
    LET same == o = offset /\ n = size
    IN  /\ offset' = o /\ size' = n
        /\ since' = IF same THEN since ELSE Window
        /\ UNCHANGED <<log, table, filter, q, untouched, shown>>
        /\ Send(before \o IF same THEN <<>> ELSE <<Query'>>)

\* The user asks with another filter f or search s, for the first page of it.
\* The filters are new even if they read the same.
Renew(f, s) ==
    /\ filter' = f /\ q' = s /\ offset' = 0 /\ since' = Window
    /\ UNCHANGED <<log, table, size, shown>>
    /\ Send(<<Query'>>)

\* Mutant of SetFilter: the first page is asked for, but not sent for.
SetFilterSilently(f) ==
    /\ table # "history" /\ f # filter /\ untouched' = FALSE
    /\ filter' = f /\ offset' = 0
    /\ UNCHANGED <<log, loads, table, size, q, since, typed, shown, loading, current>>

\* The other filters of the history ask as its search does, without the pause;
\* they are not modelled beside it.
SetFilter(f) ==
    /\ table # "history" /\ f # filter /\ untouched' = FALSE
    /\ Renew(f, q) /\ UNCHANGED typed

\* "history" only: the search is asked for 300 ms after the last key.
TypeSearch(s) ==
    /\ table = "history" /\ s # search
    /\ search' = s /\ timer' = TRUE /\ seen' = q
    /\ UNCHANGED <<log, loads, table, asked, shown, loading, current>>

\* The timer knows the filters of when the text last changed.
SearchSettles ==
    /\ timer /\ timer' = FALSE /\ seen' = "any" /\ UNCHANGED search
    /\ IF search = seen THEN UNCHANGED <<log, loads, table, asked, shown, loading, current>>
       ELSE untouched' = FALSE /\ Renew(filter, search)

\* Asks for nothing if the filters are the default ones and the page is the first.
Clear ==
    /\ table = "history" /\ search' = "any" /\ untouched' = TRUE
    /\ IF search = "any" THEN UNCHANGED <<timer, seen>> ELSE timer' = TRUE /\ seen' = "any"
    /\ IF untouched /\ offset = 0
       THEN UNCHANGED <<log, loads, table, filter, offset, size, q, since, shown, loading, current>>
       ELSE Renew("any", "any")

SetSize(n) ==
    /\ table = "history" /\ total > 0 /\ n # size
    /\ AskFor(<<>>, 0, n) /\ UNCHANGED typed

\* Mutant of Refresh: the offset stays.
RefreshInPlace ==
    /\ ~loading
    /\ AskFor(<<Query>>, offset, size)
    /\ UNCHANGED typed

\* The audit log goes to its first page as well.
Refresh ==
    /\ ~loading
    /\ AskFor(<<Query>>, IF table = "audit" THEN 0 ELSE offset, size)
    /\ UNCHANGED typed

\* The interval of 15 s.
Poll ==
    /\ table = "denials"
    /\ AskFor(<<Query>>, offset, size) /\ UNCHANGED typed

Turn(o) == AskFor(<<>>, o, size) /\ UNCHANGED typed

Prev ==
    /\ table # "history" /\ total > size /\ offset # 0
    /\ Turn(IF offset > size THEN offset - size ELSE 0)

\* Mutant of NextPage: the button is not disabled on the last page.
NextPageBeyond ==
    /\ table # "history" /\ total > size
    /\ Turn(offset + size)

NextPage ==
    /\ table # "history" /\ total > size /\ offset + size < total
    /\ Turn(offset + size)

\* The pager of the history: its buttons are disabled while it loads.
PageCount == IF total = 0 THEN 1 ELSE ((total - 1) \div size) + 1
PageNo == (offset \div size) + 1
PageNumbers == {p \in {1, PageCount, PageNo - 1, PageNo, PageNo + 1} : p \in 1 .. PageCount}
Offered == PageNumbers \union (IF PageNo = 1 THEN {} ELSE {PageNo - 1})
                       \union (IF PageNo = PageCount THEN {} ELSE {PageNo + 1})

GoTo(p) ==
    /\ table = "history" /\ total > 0 /\ ~loading
    /\ p \in Offered \ {PageNo}
    /\ Turn(((IF p > PageCount THEN PageCount ELSE p) - 1) * size)

-----------------------------------------------------------------------------
User ==
    \/ \E word \in Words : SetFilter(word) \/ TypeSearch(word)
    \/ Clear \/ Refresh \/ Prev \/ NextPage
    \/ \E n \in Sizes : SetSize(n)
    \/ \E p \in 1 .. MaxRows + 2 : GoTo(p)

Replies == \E k \in DOMAIN loads : LoadServed(k) \/ LoadApplied(k) \/ LoadFails(k)

Next == Logged \/ Ages \/ SearchSettles \/ Poll \/ User \/ Replies

\* Somebody who wants back tries the buttons that lead back.
Back == Prev \/ \E p \in 1 .. MaxRows : p < PageNo /\ GoTo(p)

\* Replies come, some of them are good, and the user keeps trying.
Fairness ==
    /\ WF_vars(Replies)
    /\ SF_vars(\E k \in DOMAIN loads : LoadServed(k))
    /\ SF_vars(\E k \in DOMAIN loads : LoadApplied(k))
    /\ SF_vars(Refresh) /\ SF_vars(Back)

Spec == Init /\ [][Next]_vars /\ Fairness

-----------------------------------------------------------------------------
(* Properties. *)

\* Once the last request is answered, whatever the replies before it did, the
\* rows shown are those of the filter, the page and the window that the page
\* says it shows: no handler changes them without asking again.
ShowsWhatItSays == current => shownFor = Query

\* Rows match, and the page asked for is beyond the last of them.
Stranded == Found(Query) # {} /\ offset >= Cardinality(Found(Query))

\* A user beyond the end of the log - the pager went by the total of an older
\* filter or of an older window - gets back with the buttons the page offers.
\* The pager of the denials disappears when there is only one page, so they
\* are left out.
WayBack == (Stranded /\ table # "denials") ~> ~Stranded

=============================================================================
