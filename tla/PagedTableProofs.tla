-------------------------- MODULE PagedTableProofs --------------------------
(***************************************************************************)
(* What PagedTable shows, for any length of the logs, any page sizes and   *)
(* any number of requests in flight.                                       *)
(***************************************************************************)
EXTENDS PagedTable, SequenceTheorems, FiniteSetTheorems, TLAPS

Queries == [filter : Words, q : Words, offset : Nat, size : Nat \ {0}, since : Nat]

Requests == [query : Queries, last : BOOLEAN, read : BOOLEAN, rows : SUBSET Nat, total : Nat]

\* TypeOK, and what is in flight is of rows that the log has.
TypeInv ==
    /\ TypeOK
    /\ loads \in Seq(Requests) /\ shownFor \in Queries
    /\ \A k \in 1 .. Len(loads) :
          loads[k].rows \subseteq 1 .. newest /\ loads[k].total \in 0 .. newest

\* The last request, if it is still in flight, is the youngest and asks for
\* what the page says; its answer is the one shown when it is there.
ShowInv ==
    /\ \A k \in 1 .. Len(loads) :
          loads[k].last => k = Len(loads) /\ loads[k].query = Query
    /\ ShowsWhatItSays

-----------------------------------------------------------------------------
(* Requests are sent and leave the line *)

\* A sequence is a function on an initial segment of the positive numbers.
LEMMA SequenceOf ==
  ASSUME NEW S, NEW n \in Nat, NEW f \in [1 .. n -> S]
  PROVE  f \in Seq(S) /\ Len(f) = n
OBVIOUS

\* Send puts the new requests behind the others; only the last one is the last.
LEMMA SendParts ==
  ASSUME loads \in Seq(Requests), NEW queries \in Seq(Queries), Send(queries)
  PROVE  /\ loads' \in Seq(Requests) /\ Len(loads') = Len(loads) + Len(queries)
         /\ Len(loads') <= MaxLoads
         /\ \A k \in 1 .. Len(loads) :
               loads'[k] = [loads[k] EXCEPT !.last = loads[k].last /\ k = Len(loads')]
         /\ \A k \in Len(loads) + 1 .. Len(loads') :
               loads'[k] = [Load(queries[k - Len(loads)]) EXCEPT !.last = (k = Len(loads'))]
<1> DEFINE new == [k \in DOMAIN queries |-> Load(queries[k])]
           sent == loads \o new
<1>1. Len(loads) \in Nat /\ Len(queries) \in Nat /\ DOMAIN queries = 1 .. Len(queries)
  OBVIOUS
<1>2. \A query \in Queries : Load(query) \in Requests
  BY DEF Load, Requests
<1>3. new \in [1 .. Len(queries) -> Requests]
  BY <1>1, <1>2
<1>4. new \in Seq(Requests) /\ Len(new) = Len(queries)
  BY <1>1, <1>3, SequenceOf
<1>5. \A k \in 1 .. Len(queries) : new[k] = Load(queries[k])
  BY <1>1
<1> HIDE DEF new
<1>6. /\ sent \in Seq(Requests) /\ Len(sent) = Len(loads) + Len(queries)
      /\ \A k \in 1 .. Len(loads) + Len(queries) :
            sent[k] = IF k <= Len(loads) THEN loads[k] ELSE new[k - Len(loads)]
  <2>1. /\ sent \in Seq(Requests) /\ Len(sent) = Len(loads) + Len(new)
        /\ \A k \in 1 .. Len(loads) + Len(new) :
              sent[k] = IF k <= Len(loads) THEN loads[k] ELSE new[k - Len(loads)]
    BY <1>4, ConcatProperties
  <2> QED
    BY <1>4, <2>1
<1>7. /\ Len(sent) <= MaxLoads
      /\ loads' = [k \in DOMAIN sent |->
                     [sent[k] EXCEPT !.last = sent[k].last /\ k = Len(sent)]]
  BY DEF Send, new
<1> HIDE DEF sent
<1>8. DOMAIN sent = 1 .. Len(sent) /\ Len(sent) \in Nat
  BY <1>6
<1>9. \A k \in 1 .. Len(sent) : sent[k] \in Requests
  BY <1>6, <1>8
<1>10. \A r \in Requests, b \in BOOLEAN : [r EXCEPT !.last = b] \in Requests
  BY DEF Requests
<1>11. \A k \in 1 .. Len(sent) : (sent[k].last /\ k = Len(sent)) \in BOOLEAN
  OBVIOUS
<1>12. loads' \in [1 .. Len(sent) -> Requests]
  BY <1>7, <1>8, <1>9, <1>10, <1>11
<1>13. loads' \in Seq(Requests) /\ Len(loads') = Len(sent)
  BY <1>8, <1>12, SequenceOf
<1>14. \A k \in 1 .. Len(sent) :
          loads'[k] = [sent[k] EXCEPT !.last = sent[k].last /\ k = Len(sent)]
  BY <1>7, <1>8
<1>15. \A query : Load(query).last = TRUE
  BY DEF Load
<1>16. ASSUME NEW k \in 1 .. Len(loads)
       PROVE  loads'[k] = [loads[k] EXCEPT !.last = loads[k].last /\ k = Len(loads')]
  <2>1. sent[k] = loads[k] /\ k \in 1 .. Len(sent)
    BY <1>1, <1>6
  <2> QED
    BY <2>1, <1>13, <1>14
<1>17. ASSUME NEW k \in Len(loads) + 1 .. Len(loads')
       PROVE  loads'[k] = [Load(queries[k - Len(loads)]) EXCEPT !.last = (k = Len(loads'))]
  <2>1. k - Len(loads) \in 1 .. Len(queries) /\ k \in 1 .. Len(sent) /\ ~(k <= Len(loads))
    BY <1>1, <1>6, <1>13
  <2>2. sent[k] = Load(queries[k - Len(loads)])
    BY <2>1, <1>5, <1>6
  <2> QED
    BY <2>1, <2>2, <1>13, <1>14, <1>15
<1> QED
  BY <1>6, <1>7, <1>13, <1>16, <1>17

\* RemoveAt takes one request out of the line and leaves the others in order.
LEMMA RemoveParts ==
  ASSUME loads \in Seq(Requests), NEW k \in DOMAIN loads, loads' = RemoveAt(loads, k)
  PROVE  /\ loads' \in Seq(Requests) /\ Len(loads') = Len(loads) - 1
         /\ \A i \in 1 .. Len(loads') : loads'[i] = loads[IF i < k THEN i ELSE i + 1]
<1>1. /\ Len(loads) \in Nat /\ k \in 1 .. Len(loads)
      /\ \A i \in 1 .. Len(loads) : loads[i] \in Requests
  OBVIOUS
<1> DEFINE front == SubSeq(loads, 1, k - 1)
           back == SubSeq(loads, k + 1, Len(loads))
<1>2. /\ front \in Seq(Requests) /\ Len(front) = k - 1
      /\ \A i \in 1 .. k - 1 : front[i] = loads[i]
  BY <1>1, SubSeqProperties
<1>3. /\ back \in Seq(Requests) /\ Len(back) = Len(loads) - k
      /\ \A i \in 1 .. Len(loads) - k : back[i] = loads[i + k]
  BY <1>1, SubSeqProperties
<1>4. loads' = front \o back
  BY DEF RemoveAt
<1> HIDE DEF front, back
<1>5. /\ loads' \in Seq(Requests) /\ Len(loads') = Len(loads) - 1
      /\ \A i \in 1 .. Len(loads) - 1 :
            loads'[i] = IF i <= k - 1 THEN front[i] ELSE back[i - (k - 1)]
  <2>1. /\ front \o back \in Seq(Requests) /\ Len(front \o back) = Len(front) + Len(back)
        /\ \A i \in 1 .. Len(front) + Len(back) :
              (front \o back)[i] =
                IF i <= Len(front) THEN front[i] ELSE back[i - Len(front)]
    BY <1>2, <1>3, ConcatProperties
  <2>2. Len(front) + Len(back) = Len(loads) - 1
    BY <1>1, <1>2, <1>3
  <2> QED
    BY <1>2, <1>4, <2>1, <2>2
<1>6. ASSUME NEW i \in 1 .. Len(loads')
      PROVE  loads'[i] = loads[IF i < k THEN i ELSE i + 1]
  <2>1. CASE i < k
    BY <1>1, <1>2, <1>5, <2>1
  <2>2. CASE ~(i < k)
    <3>1. i - (k - 1) \in 1 .. Len(loads) - k /\ i - (k - 1) + k = i + 1
      BY <1>1, <1>5, <2>2
    <3>2. loads'[i] = back[i - (k - 1)]
      BY <1>1, <1>5, <2>2
    <3> QED
      BY <1>3, <2>2, <3>1, <3>2
  <2> QED
    BY <2>1, <2>2
<1> QED
  BY <1>5, <1>6

-----------------------------------------------------------------------------
(* What the server answers *)

\* A page has no more rows than the page size, and they are rows of the log.
LEMMA PageFits ==
  ASSUME NEW query \in Queries, newest \in Nat
  PROVE  /\ PageOf(query) \subseteq 1 .. newest
         /\ Cardinality(PageOf(query)) <= query.size
         /\ Cardinality(Found(query)) \in 0 .. newest
<1> DEFINE F == Found(query)
           G == PageOf(query)
           Later(i) == {j \in F : j > i}
           R == query.offset .. query.offset + query.size - 1
<1>1. query.offset \in Nat /\ query.size \in Nat \ {0}
  BY DEF Queries
<1>2. F \subseteq 1 .. newest /\ G \subseteq F /\ \A i \in G : Cardinality(Later(i)) \in R
  BY DEF Found, PageOf
<1>3. IsFiniteSet(1 .. newest) /\ Cardinality(1 .. newest) = newest
  BY FS_Interval
<1>4. IsFiniteSet(F) /\ Cardinality(F) <= newest /\ Cardinality(F) \in Nat
  BY <1>2, <1>3, FS_Subset, FS_CardinalityType
<1>5. IsFiniteSet(R) /\ Cardinality(R) = query.size
  <2> DEFINE last == query.offset + query.size - 1
  <2>1. /\ query.offset \in Int /\ last \in Int /\ ~(query.offset > last)
        /\ last - query.offset + 1 = query.size
    BY <1>1
  <2>2. R = query.offset .. last
    OBVIOUS
  <2> HIDE DEF last, R
  <2>3. /\ IsFiniteSet(query.offset .. last)
        /\ Cardinality(query.offset .. last) = last - query.offset + 1
    BY <2>1, FS_Interval
  <2> QED
    BY <2>1, <2>2, <2>3
<1>6. ASSUME NEW i \in F, NEW j \in F, i < j
      PROVE  Cardinality(Later(i)) # Cardinality(Later(j))
  <2>1. /\ IsFiniteSet(Later(i)) /\ Later(j) \in SUBSET Later(i)
        /\ j \in Later(i) /\ j \notin Later(j)
    BY <1>2, <1>4, <1>6, FS_Subset
  <2> QED
    BY <2>1, FS_Subset
<1> DEFINE f == [i \in G |-> Cardinality(Later(i))]
<1> HIDE DEF F, Later, R, G
<1>7. f \in [G -> R] /\ \A i \in G : f[i] = Cardinality(Later(i))
  BY <1>2
<1> HIDE DEF f
<1>8. \A i, j \in G : f[i] = f[j] => i = j
  <2>1. \A i, j \in G : i \in Int /\ j \in Int
    BY <1>2
  <2> QED
    BY <1>2, <1>6, <1>7, <2>1
<1>9. f \in Injection(G, R)
  BY <1>7, <1>8 DEF Injection, IsInjective
<1>10. Cardinality(G) <= query.size
  BY <1>5, <1>9, FS_Injection
<1> QED
  BY <1>2, <1>4, <1>10 DEF F, G

\* The pager never leads beyond the last page of the total it goes by.
LEMMA PageStarts ==
  ASSUME size \in Nat \ {0}, total \in Nat \ {0}, NEW p \in Nat \ {0}
  PROVE  ((IF p > PageCount THEN PageCount ELSE p) - 1) * size \in 0 .. total - 1
<1> DEFINE d == (total - 1) \div size
           m == (IF p > PageCount THEN PageCount ELSE p) - 1
<1>1. d \in Nat /\ d * size <= total - 1
  OBVIOUS
<1>2. PageCount = d + 1
  BY DEF PageCount
<1>3. m \in 0 .. d
  BY <1>1, <1>2
<1> HIDE DEF d, m
<1>4. m * size \in Nat /\ m * size <= d * size
  BY <1>1, <1>3
<1>5. m * size \in 0 .. total - 1
  BY <1>1, <1>4
<1> QED
  BY <1>5 DEF m

-----------------------------------------------------------------------------
(* How a step changes what is asked for and what is in flight *)

\* What is asked for is a query.
LEMMA QueryTyped ==
  ASSUME TypeInv
  PROVE  Query \in Queries /\ Query.size \in Sizes
BY BoundsOK DEF TypeInv, TypeOK, Query, Queries

\* A request that is sent has no rows yet; one that was sent keeps its own.
LEMMA SendTyped ==
  ASSUME TypeInv, NEW queries \in Seq(Queries), Send(queries), UNCHANGED newest
  PROVE  /\ loads' \in Seq(Requests) /\ Len(loads') <= MaxLoads
         /\ \A k \in 1 .. Len(loads') :
               /\ loads'[k].rows \subseteq 1 .. newest /\ loads'[k].total \in 0 .. newest
               /\ loads'[k].read => Cardinality(loads'[k].rows) <= loads'[k].query.size
<1>1. loads \in Seq(Requests) /\ newest \in Nat
  BY BoundsOK DEF TypeInv, TypeOK
<1>2. /\ loads' \in Seq(Requests) /\ Len(loads') <= MaxLoads
      /\ Len(loads') = Len(loads) + Len(queries) /\ Len(loads) \in Nat /\ Len(queries) \in Nat
  BY <1>1, SendParts
<1>3. ASSUME NEW k \in 1 .. Len(loads)
      PROVE  /\ loads'[k].rows \subseteq 1 .. newest /\ loads'[k].total \in 0 .. newest
             /\ loads'[k].read => Cardinality(loads'[k].rows) <= loads'[k].query.size
  <2>1. loads'[k] = [loads[k] EXCEPT !.last = loads[k].last /\ k = Len(loads')]
    BY <1>1, SendParts
  <2>2. loads[k] \in Requests /\ k \in DOMAIN loads
    BY <1>1
  <2>3. /\ loads'[k].rows = loads[k].rows /\ loads'[k].total = loads[k].total
        /\ loads'[k].read = loads[k].read /\ loads'[k].query = loads[k].query
    BY <2>1, <2>2 DEF Requests
  <2> QED
    BY <2>2, <2>3 DEF TypeInv, TypeOK
<1>4. ASSUME NEW k \in Len(loads) + 1 .. Len(loads')
      PROVE  /\ loads'[k].rows \subseteq 1 .. newest /\ loads'[k].total \in 0 .. newest
             /\ loads'[k].read => Cardinality(loads'[k].rows) <= loads'[k].query.size
  <2>1. loads'[k] = [Load(queries[k - Len(loads)]) EXCEPT !.last = (k = Len(loads'))]
    BY <1>1, SendParts
  <2>2. loads'[k].rows = {} /\ loads'[k].total = 0 /\ ~loads'[k].read
    BY <2>1 DEF Load
  <2> QED
    BY <1>1, <2>2
<1> QED
  BY <1>2, <1>3, <1>4

\* A request that is answered or has failed takes nothing else with it.
LEMMA RemoveTyped ==
  ASSUME TypeInv, NEW k \in DOMAIN loads, loads' = RemoveAt(loads, k)
  PROVE  /\ loads' \in Seq(Requests) /\ Len(loads') <= MaxLoads
         /\ \A i \in 1 .. Len(loads') :
               /\ loads'[i].rows \subseteq 1 .. newest /\ loads'[i].total \in 0 .. newest
               /\ loads'[i].read => Cardinality(loads'[i].rows) <= loads'[i].query.size
<1>1. /\ loads \in Seq(Requests) /\ Len(loads) \in Nat /\ DOMAIN loads = 1 .. Len(loads)
      /\ Len(loads) <= MaxLoads /\ MaxLoads \in Nat
  BY BoundsOK DEF TypeInv, TypeOK
<1>2. /\ loads' \in Seq(Requests) /\ Len(loads') = Len(loads) - 1
      /\ \A i \in 1 .. Len(loads') : loads'[i] = loads[IF i < k THEN i ELSE i + 1]
  BY <1>1, RemoveParts
<1>3. \A j \in 1 .. Len(loads) :
         /\ loads[j].rows \subseteq 1 .. newest /\ loads[j].total \in 0 .. newest
         /\ loads[j].read => Cardinality(loads[j].rows) <= loads[j].query.size
  BY <1>1 DEF TypeInv, TypeOK
<1>4. \A i \in 1 .. Len(loads') : \E j \in 1 .. Len(loads) : loads'[i] = loads[j]
  BY <1>1, <1>2
<1> QED
  BY <1>1, <1>2, <1>3, <1>4

\* After AskFor the page says what it asks for, and the last request of the
\* handler, if there is one, asks for it.
LEMMA AskParts ==
  ASSUME TypeInv, NEW before, before \in {<<>>, <<Query>>},
         NEW o \in 0 .. MaxRows, NEW n \in Sizes, AskFor(before, o, n)
  PROVE  /\ {filter', q'} \subseteq Words /\ offset' \in 0 .. MaxRows /\ size' \in Sizes
         /\ since' \in 0 .. horizon /\ Query' \in Queries
         /\ UNCHANGED <<log, table, untouched, shown>>
         /\ \E queries \in Seq(Queries) :
               /\ Send(queries)
               /\ queries = <<>> => Query' = Query
               /\ queries # <<>> => queries[Len(queries)] = Query'
<1> DEFINE same == o = offset /\ n = size
<1>1. /\ filter' = filter /\ q' = q /\ offset' = o /\ size' = n
      /\ since' = IF same THEN since ELSE Window
      /\ Send(before \o IF same THEN <<>> ELSE <<Query'>>)
      /\ UNCHANGED <<log, table, untouched, shown>>
  BY DEF AskFor
<1>2. /\ horizon \in Nat /\ since \in 0 .. horizon /\ MaxRows \in Nat
      /\ Sizes \subseteq Nat \ {0} /\ {filter, q} \subseteq Words
  BY BoundsOK DEF TypeInv, TypeOK
<1>3. since' \in 0 .. horizon /\ {filter', q'} \subseteq Words
  BY <1>1, <1>2 DEF Window
<1>4. Query' \in Queries /\ Query \in Queries
  BY <1>1, <1>2, <1>3, QueryTyped DEF Query, Queries
<1>5. /\ before \in Seq(Queries)
      /\ <<Query'>> \in Seq(Queries) /\ Len(<<Query'>>) = 1 /\ <<Query'>>[1] = Query'
  <2>1. \A x \in Queries : <<x>> \in Seq(Queries) /\ Len(<<x>>) = 1 /\ <<x>>[1] = x
    OBVIOUS
  <2> QED
    BY <1>4, <2>1, EmptySeq
<1>6. CASE same
  <2>1. Query' = Query
    BY <1>1, <1>6 DEF Query
  <2>2. before \in Seq(Queries) /\ before \o <<>> = before
    BY <1>5, ConcatEmptySeq
  <2>3. Send(before)
    BY <1>1, <1>6, <2>2
  <2>4. before # <<>> => before[Len(before)] = Query
    OBVIOUS
  <2> QED
    BY <1>1, <1>3, <1>4, <2>1, <2>2, <2>3, <2>4
<1>7. CASE ~same
  <2> DEFINE queries == before \o <<Query'>>
  <2>1. /\ queries \in Seq(Queries) /\ Len(queries) = Len(before) + 1
        /\ queries[Len(before) + 1] = Query'
    <3> HIDE DEF queries
    <3>1. queries = before \o <<Query'>>
      BY DEF queries
    <3>2. Len(before) \in Nat
      BY <1>5
    <3> QED
      BY <1>5, <3>1, <3>2, ConcatProperties
  <2>2. Send(queries)
    BY <1>1, <1>7
  <2> HIDE DEF queries
  <2>3. queries # <<>> /\ queries[Len(queries)] = Query'
    BY <1>5, <2>1
  <2> QED
    BY <1>1, <1>3, <1>4, <2>1, <2>2, <2>3
<1> QED
  BY <1>6, <1>7

\* What Send does to the rest of the invariants.
LEMMA SendShows ==
  ASSUME TypeInv, ShowInv, NEW queries \in Seq(Queries), Send(queries),
         UNCHANGED shownFor, queries = <<>> => Query' = Query,
         queries # <<>> => queries[Len(queries)] = Query'
  PROVE  ShowInv' /\ {loading', current'} \subseteq BOOLEAN
<1>1. loads \in Seq(Requests) /\ Len(loads) \in Nat /\ Len(queries) \in Nat
  BY DEF TypeInv
<1>2. /\ Len(loads') = Len(loads) + Len(queries)
      /\ \A k \in 1 .. Len(loads) :
            loads'[k] = [loads[k] EXCEPT !.last = loads[k].last /\ k = Len(loads')]
      /\ \A k \in Len(loads) + 1 .. Len(loads') :
            loads'[k] = [Load(queries[k - Len(loads)]) EXCEPT !.last = (k = Len(loads'))]
  BY <1>1, SendParts
<1>3. current' = (current /\ queries = <<>>) /\ loading' = (loading \/ queries # <<>>)
  BY DEF Send
<1>4. queries # <<>> => Len(queries) > 0
  BY <1>1, EmptySeq
<1>5. ASSUME NEW k \in 1 .. Len(loads), loads'[k].last
      PROVE  k = Len(loads') /\ loads'[k].query = Query'
  <2>1. loads[k] \in Requests
    BY <1>1
  <2>2. loads'[k].last = (loads[k].last /\ k = Len(loads')) /\ loads'[k].query = loads[k].query
    BY <1>2, <2>1 DEF Requests
  <2>3. k = Len(loads') /\ loads[k].last
    BY <1>5, <2>2
  <2>4. queries = <<>>
    BY <1>1, <1>2, <1>4, <2>3
  <2> QED
    BY <2>2, <2>3, <2>4 DEF ShowInv
<1>6. ASSUME NEW k \in Len(loads) + 1 .. Len(loads'), loads'[k].last
      PROVE  k = Len(loads') /\ loads'[k].query = Query'
  <2>1. loads'[k] = [Load(queries[k - Len(loads)]) EXCEPT !.last = (k = Len(loads'))]
    BY <1>2
  <2>2. loads'[k].last = (k = Len(loads')) /\ loads'[k].query = queries[k - Len(loads)]
    BY <2>1 DEF Load
  <2>3. k = Len(loads')
    BY <1>6, <2>2
  <2>4. k - Len(loads) = Len(queries) /\ Len(queries) # 0
    BY <1>1, <1>2, <2>3
  <2>5. queries # <<>>
    BY <2>4, EmptySeq
  <2> QED
    BY <2>2, <2>3, <2>4, <2>5
<1>7. ShowsWhatItSays'
  BY <1>3 DEF ShowInv, ShowsWhatItSays
<1> QED
  BY <1>1, <1>2, <1>3, <1>5, <1>6, <1>7 DEF ShowInv

\* What a handler that only asks does.
LEMMA AskStep ==
  ASSUME TypeInv, ShowInv, NEW before, before \in {<<>>, <<Query>>},
         NEW o \in 0 .. MaxRows, NEW n \in Sizes, AskFor(before, o, n), UNCHANGED typed
  PROVE  TypeInv' /\ ShowInv'
<1>1. /\ {filter', q'} \subseteq Words /\ offset' \in 0 .. MaxRows /\ size' \in Sizes
      /\ since' \in 0 .. horizon
      /\ UNCHANGED <<newest, horizon, table, search, timer, seen, untouched, rows, total, shownFor>>
  BY AskParts DEF log, typed, shown
<1>2. PICK queries \in Seq(Queries) :
         /\ Send(queries)
         /\ queries = <<>> => Query' = Query
         /\ queries # <<>> => queries[Len(queries)] = Query'
  BY AskParts
<1>3. /\ loads' \in Seq(Requests) /\ Len(loads') <= MaxLoads
      /\ \A k \in 1 .. Len(loads') :
            /\ loads'[k].rows \subseteq 1 .. newest /\ loads'[k].total \in 0 .. newest
            /\ loads'[k].read => Cardinality(loads'[k].rows) <= loads'[k].query.size
  BY <1>1, <1>2, SendTyped
<1>4. ShowInv' /\ {loading', current'} \subseteq BOOLEAN
  BY <1>1, <1>2, SendShows
<1>5. DOMAIN loads' = 1 .. Len(loads')
  BY <1>3
<1> QED
  BY <1>1, <1>3, <1>4, <1>5 DEF TypeInv, TypeOK

\* What a handler that sets the filters does.
LEMMA RenewStep ==
  ASSUME TypeInv, ShowInv, NEW f \in Words, NEW s \in Words, Renew(f, s),
         {search', seen'} \subseteq Words, {timer', untouched'} \subseteq BOOLEAN
  PROVE  TypeInv' /\ ShowInv'
<1>1. /\ filter' = f /\ q' = s /\ offset' = 0 /\ since' = Window /\ Send(<<Query'>>)
      /\ UNCHANGED <<newest, horizon, table, size, rows, total, shownFor>>
  BY DEF Renew, log, shown
<1>2. /\ MaxRows \in Nat /\ Sizes \subseteq Nat \ {0} /\ size \in Sizes
      /\ newest \in Nat /\ horizon \in 0 .. newest
  BY BoundsOK DEF TypeInv, TypeOK
<1>3. since' \in 0 .. horizon /\ offset' \in 0 .. MaxRows
  BY <1>1, <1>2 DEF Window
<1>4. Query' \in Queries
  BY <1>1, <1>2, <1>3 DEF Query, Queries
<1>5. /\ <<Query'>> \in Seq(Queries) /\ <<Query'>> # <<>>
      /\ <<Query'>>[Len(<<Query'>>)] = Query'
  <2>1. \A x \in Queries : <<x>> \in Seq(Queries) /\ <<x>> # <<>> /\ <<x>>[Len(<<x>>)] = x
    OBVIOUS
  <2> QED
    BY <1>4, <2>1
<1>6. /\ loads' \in Seq(Requests) /\ Len(loads') <= MaxLoads
      /\ \A k \in 1 .. Len(loads') :
            /\ loads'[k].rows \subseteq 1 .. newest /\ loads'[k].total \in 0 .. newest
            /\ loads'[k].read => Cardinality(loads'[k].rows) <= loads'[k].query.size
  BY <1>1, <1>5, SendTyped
<1>7. ShowInv' /\ {loading', current'} \subseteq BOOLEAN
  BY <1>1, <1>5, SendShows
<1>8. DOMAIN loads' = 1 .. Len(loads')
  BY <1>6
<1> QED
  BY <1>1, <1>3, <1>6, <1>7, <1>8 DEF TypeInv, TypeOK

-----------------------------------------------------------------------------
(* The steps *)

\* The log grows, rows grow older, a request is read from the log.
LEMMA ServerStep ==
  ASSUME TypeInv, ShowInv, Logged \/ Ages \/ \E k \in DOMAIN loads : LoadServed(k)
  PROVE  TypeInv' /\ ShowInv'
<1>1. /\ loads \in Seq(Requests) /\ Len(loads) \in Nat /\ DOMAIN loads = 1 .. Len(loads)
      /\ newest \in Nat /\ MaxRows \in Nat
  BY BoundsOK DEF TypeInv, TypeOK
<1>2. CASE Logged \/ Ages
  <2>1. /\ newest' \in newest .. MaxRows /\ horizon' \in horizon .. newest'
        /\ UNCHANGED <<loads, table, filter, offset, size, search, timer, seen, q, since,
                       untouched, rows,
                       total, shownFor, loading, current>>
    BY <1>1, <1>2 DEF Logged, Ages, TypeInv, TypeOK, asked, typed, shown
  <2>2. TypeInv'
    BY <1>1, <2>1, SMTT(30) DEF TypeInv, TypeOK
  <2> QED
    BY <2>1, <2>2 DEF ShowInv, ShowsWhatItSays, Query
<1>3. CASE \E k \in DOMAIN loads : LoadServed(k)
  <2>1. PICK k \in DOMAIN loads : LoadServed(k)
    BY <1>3
  <2>2. /\ loads' = [loads EXCEPT ![k].read = TRUE,
                                 ![k].rows = PageOf(loads[k].query),
                                 ![k].total = Cardinality(Found(loads[k].query))]
        /\ UNCHANGED <<newest, horizon, table, filter, offset, size, search, timer, seen, q, since,
                       untouched,
                       rows, total, shownFor, loading, current>>
    BY <2>1 DEF LoadServed, log, asked, typed, shown
  <2>3. loads[k] \in Requests /\ loads[k].query \in Queries
    <3>1. loads[k] \in Requests
      BY <1>1, ElementOfSeq
    <3> QED
      BY <3>1 DEF Requests
  <2>4. /\ PageOf(loads[k].query) \subseteq 1 .. newest
        /\ Cardinality(PageOf(loads[k].query)) <= loads[k].query.size
        /\ Cardinality(Found(loads[k].query)) \in 0 .. newest
    BY <1>1, <2>3, PageFits
  <2> DEFINE r == [loads[k] EXCEPT !.read = TRUE, !.rows = PageOf(loads[k].query),
                                   !.total = Cardinality(Found(loads[k].query))]
  <2>5. /\ r \in Requests /\ r.last = loads[k].last /\ r.query = loads[k].query
        /\ r.rows \subseteq 1 .. newest /\ r.total \in 0 .. newest
        /\ Cardinality(r.rows) <= r.query.size
    <3> DEFINE page == PageOf(loads[k].query)
               count == Cardinality(Found(loads[k].query))
    <3>1. page \in SUBSET Nat /\ count \in Nat
      BY <1>1, <2>4
    <3>2. /\ page \subseteq 1 .. newest /\ Cardinality(page) <= loads[k].query.size
          /\ count \in 0 .. newest
      BY <2>4
    <3>3. r = [loads[k] EXCEPT !.read = TRUE, !.rows = page, !.total = count]
      OBVIOUS
    <3> HIDE DEF page, count, r
    <3>4. /\ r \in Requests /\ r.last = loads[k].last /\ r.query = loads[k].query
          /\ r.rows = page /\ r.total = count
      BY <2>3, <3>1, <3>3 DEF Requests
    <3> QED
      BY <3>2, <3>4
  <2>6. loads' = [loads EXCEPT ![k] = r]
    BY <1>1, <2>2
  <2> HIDE DEF r
  <2>7. /\ loads' \in Seq(Requests) /\ Len(loads') = Len(loads) /\ DOMAIN loads' = DOMAIN loads
        /\ \A i \in 1 .. Len(loads) : loads'[i] = IF i = k THEN r ELSE loads[i]
    BY <1>1, <2>5, <2>6, ExceptSeq
  <2>8. TypeInv'
    BY <1>1, <2>2, <2>5, <2>7 DEF TypeInv, TypeOK
  <2>9. ShowInv'
    BY <1>1, <2>2, <2>5, <2>7 DEF ShowInv, ShowsWhatItSays, Query
  <2> QED
    BY <2>8, <2>9
<1> QED
  BY <1>2, <1>3

\* An answer is shown, or a request has failed.
LEMMA ReplyStep ==
  ASSUME TypeInv, ShowInv, NEW k \in DOMAIN loads, LoadApplied(k) \/ LoadFails(k)
  PROVE  TypeInv' /\ ShowInv'
<1>1. /\ loads \in Seq(Requests) /\ Len(loads) \in Nat /\ DOMAIN loads = 1 .. Len(loads)
      /\ newest \in Nat /\ loads[k] \in Requests
  BY BoundsOK DEF TypeInv, TypeOK
<1>2. /\ loads' = RemoveAt(loads, k) /\ loading' = FALSE
      /\ UNCHANGED <<newest, horizon, table, filter, offset, size, search, timer, seen, q, since,
                     untouched>>
  BY DEF LoadApplied, LoadFails, log, asked, typed
<1>3. \/ /\ rows' = loads[k].rows /\ total' = loads[k].total /\ shownFor' = loads[k].query
         /\ current' = loads[k].last
      \/ UNCHANGED <<rows, total, shownFor, current>>
  BY DEF LoadApplied, LoadFails, shown
<1>4. /\ loads' \in Seq(Requests) /\ Len(loads') <= MaxLoads
      /\ DOMAIN loads' = 1 .. Len(loads')
      /\ \A i \in 1 .. Len(loads') :
            /\ loads'[i].rows \subseteq 1 .. newest /\ loads'[i].total \in 0 .. newest
            /\ loads'[i].read => Cardinality(loads'[i].rows) <= loads'[i].query.size
  BY <1>2, RemoveTyped
<1>5. /\ rows' \subseteq 1 .. newest /\ total' \in 0 .. newest
      /\ shownFor' \in Queries /\ current' \in BOOLEAN
  BY <1>1, <1>3 DEF TypeInv, TypeOK, Requests
<1>6. TypeInv'
  BY <1>2, <1>4, <1>5 DEF TypeInv, TypeOK
<1>7. Query' = Query
  BY <1>2 DEF Query
<1>8. ASSUME NEW i \in 1 .. Len(loads'), loads'[i].last
      PROVE  i = Len(loads') /\ loads'[i].query = Query
  <2>1. /\ Len(loads') = Len(loads) - 1
        /\ loads'[i] = loads[IF i < k THEN i ELSE i + 1]
    BY <1>1, <1>2, RemoveParts
  <2> DEFINE j == IF i < k THEN i ELSE i + 1
  <2>2. j \in 1 .. Len(loads) /\ (j = Len(loads) => i = Len(loads'))
    <3>1. /\ k \in 1 .. Len(loads) /\ i \in 1 .. Len(loads) - 1
          /\ Len(loads) \in Nat /\ Len(loads') = Len(loads) - 1
      BY <1>1, <2>1
    <3>2. CASE i < k
      <4>1. j = i
        BY <3>2
      <4> HIDE DEF j
      <4> QED
        BY <3>1, <4>1
    <3>3. CASE ~(i < k)
      <4>1. j = i + 1 /\ i >= k
        BY <3>1, <3>3
      <4> HIDE DEF j
      <4> QED
        BY <3>1, <4>1
    <3> QED
      BY <3>2, <3>3
  <2> HIDE DEF j
  <2>3. loads'[i] = loads[j]
    BY <2>1 DEF j
  <2> QED
    BY <1>8, <2>2, <2>3 DEF ShowInv
<1>9. ShowsWhatItSays'
  <2>1. loads[k].last => loads[k].query = Query
    BY <1>1 DEF ShowInv
  <2>2. current => shownFor = Query
    BY DEF ShowInv, ShowsWhatItSays
  <2>3. CASE shownFor' = loads[k].query /\ current' = loads[k].last
    BY <1>7, <2>1, <2>3 DEF ShowsWhatItSays
  <2>4. CASE UNCHANGED <<shownFor, current>>
    BY <1>7, <2>2, <2>4 DEF ShowsWhatItSays
  <2> QED
    BY <1>3, <2>3, <2>4
<1> QED
  BY <1>6, <1>7, <1>8, <1>9 DEF ShowInv

\* The user asks for another page, filter, search or size, or for the same
\* again; the interval does.
LEMMA AskingStep ==
  ASSUME TypeInv, ShowInv,
         \/ SearchSettles \/ Poll \/ Clear \/ Refresh \/ Prev \/ NextPage
         \/ \E word \in Words : SetFilter(word) \/ TypeSearch(word)
         \/ \E n \in Sizes : SetSize(n)
         \/ \E p \in 1 .. MaxRows + 2 : GoTo(p)
  PROVE  TypeInv' /\ ShowInv'
<1>1. /\ {filter, q, search, seen} \subseteq Words /\ {timer, untouched} \subseteq BOOLEAN
      /\ offset \in 0 .. MaxRows /\ size \in Sizes /\ 0 \in 0 .. MaxRows
      /\ newest \in 0 .. MaxRows /\ total \in 0 .. newest /\ since \in 0 .. horizon
      /\ horizon \in 0 .. newest
      /\ MaxRows \in Nat /\ Sizes \subseteq Nat \ {0}
      /\ \A empty, query : empty \in {<<>>, <<query>>} <=> empty = <<>> \/ empty = <<query>>
  BY BoundsOK DEF TypeInv, TypeOK
<1>2. "any" \in Words
  BY DEF Words
\* What a step keeps that asks for nothing.
<1>3. ASSUME {search', seen'} \subseteq Words, {timer', untouched'} \subseteq BOOLEAN,
             UNCHANGED <<newest, horizon, loads, table, filter, offset, size, q, since, rows,
                         total, shownFor, loading, current>>
      PROVE  TypeInv' /\ ShowInv'
  <2>1. TypeInv'
    BY <1>3 DEF TypeInv, TypeOK
  <2> QED
    BY <1>3, <2>1 DEF ShowInv, ShowsWhatItSays, Query
<1>4. CASE SearchSettles
  <2>1. timer' = FALSE /\ search' = search /\ seen' = "any"
    BY <1>4 DEF SearchSettles
  <2>2. CASE search = seen
    <3>1. UNCHANGED <<newest, horizon, loads, table, filter, offset, size, q, since,
                       untouched,
                      rows, total, shownFor, loading, current>>
      BY <1>4, <2>2 DEF SearchSettles, log, asked, shown
    <3> QED
      BY <1>1, <1>2, <1>3, <2>1, <3>1
  <2>3. CASE search # seen
    <3>1. untouched' = FALSE /\ Renew(filter, search)
      BY <1>4, <2>3 DEF SearchSettles
    <3> QED
      BY <1>1, <1>2, <2>1, <3>1, RenewStep
  <2> QED
    BY <2>2, <2>3
<1>5. CASE Clear
  <2>1. /\ search' = "any" /\ untouched' = TRUE /\ seen' \in Words /\ timer' \in BOOLEAN
    BY <1>1, <1>2, <1>5 DEF Clear
  <2>2. CASE untouched /\ offset = 0
    <3>1. UNCHANGED <<newest, horizon, loads, table, filter, offset, size, q, since, rows,
                      total, shownFor, loading, current>>
      BY <1>5, <2>2 DEF Clear, log, shown
    <3> QED
      BY <1>2, <1>3, <2>1, <3>1
  <2>3. CASE ~(untouched /\ offset = 0)
    <3>1. Renew("any", "any")
      BY <1>5, <2>3 DEF Clear
    <3> QED
      BY <1>2, <2>1, <3>1, RenewStep
  <2> QED
    BY <2>2, <2>3
<1>6. CASE Poll \/ Refresh
  <2>1. \/ Poll /\ AskFor(<<Query>>, offset, size)
        \/ Refresh /\ AskFor(<<Query>>, IF table = "audit" THEN 0 ELSE offset, size)
    BY <1>6 DEF Poll, Refresh
  <2>2. UNCHANGED typed
    BY <1>6 DEF Poll, Refresh
  <2> QED
    BY <1>1, <2>1, <2>2, AskStep
<1>7. CASE Prev
  <2>1. (IF offset > size THEN offset - size ELSE 0) \in 0 .. MaxRows
    BY <1>1
  <2> QED
    BY <1>1, <1>7, <2>1, AskStep DEF Prev, Turn
<1>8. CASE NextPage
  <2>1. offset + size \in 0 .. MaxRows
    BY <1>1, <1>8 DEF NextPage
  <2> QED
    BY <1>1, <1>8, <2>1, AskStep DEF NextPage, Turn
<1>9. ASSUME NEW word \in Words, SetFilter(word) PROVE TypeInv' /\ ShowInv'
  <2>1. Renew(word, q) /\ untouched' = FALSE /\ UNCHANGED <<search, timer, seen>>
    BY <1>9 DEF SetFilter, typed
  <2> QED
    BY <1>1, <2>1, RenewStep
<1>10. ASSUME NEW word \in Words, TypeSearch(word) PROVE TypeInv' /\ ShowInv'
  <2>1. /\ search' = word /\ timer' = TRUE /\ seen' = q
        /\ UNCHANGED <<newest, horizon, loads, table, filter, offset, size, q, since,
                       untouched,
                       rows, total, shownFor, loading, current>>
    BY <1>10 DEF TypeSearch, log, asked, shown
  <2> QED
    BY <1>1, <1>3, <2>1
<1>11. ASSUME NEW n \in Sizes, SetSize(n) PROVE TypeInv' /\ ShowInv'
  BY <1>1, <1>11, AskStep DEF SetSize
<1>12. ASSUME NEW p \in 1 .. MaxRows + 2, GoTo(p) PROVE TypeInv' /\ ShowInv'
  <2> DEFINE o == ((IF p > PageCount THEN PageCount ELSE p) - 1) * size
  <2>1. total > 0 /\ Turn(o)
    BY <1>12 DEF GoTo
  <2>2. o \in 0 .. total - 1
    BY <1>1, <2>1, PageStarts
  <2> HIDE DEF o
  <2>3. o \in 0 .. MaxRows
    BY <1>1, <2>2
  <2> QED
    BY <1>1, <2>1, <2>3, AskStep DEF Turn
<1> QED
  BY <1>4, <1>5, <1>6, <1>7, <1>8, <1>9, <1>10, <1>11, <1>12

-----------------------------------------------------------------------------
(* The theorems *)

\* The first request is on its way when the page opens.
LEMMA Starts ==
  ASSUME Init
  PROVE  TypeInv /\ ShowInv
<1>1. /\ newest \in 0 .. MaxRows /\ horizon = 0 /\ table \in Tables
      /\ filter = "any" /\ offset = 0 /\ size = PageSize
      /\ search = "any" /\ timer \in BOOLEAN /\ seen = "any"
      /\ q = "any" /\ since = 0 /\ untouched = TRUE
      /\ rows = {} /\ total = 0 /\ loading = TRUE /\ loads = <<Load(Query)>>
      /\ shownFor = Query /\ current = FALSE
  BY DEF Init
<1>2. /\ MaxRows \in Nat /\ Sizes \subseteq Nat \ {0} /\ PageSize \in Sizes
      /\ MaxLoads \in Nat \ {0}
  BY BoundsOK
<1>3. Query \in Queries
  BY <1>1, <1>2 DEF Query, Queries, Words
<1>4. /\ Load(Query) \in Requests /\ Load(Query).rows = {} /\ Load(Query).total = 0
      /\ Load(Query).read = FALSE /\ Load(Query).query = Query
  BY <1>3 DEF Load, Requests
<1>5. /\ loads \in Seq(Requests) /\ Len(loads) = 1 /\ DOMAIN loads = 1 .. 1
      /\ loads[1] = Load(Query)
  <2>1. \A x \in Requests : /\ <<x>> \in Seq(Requests) /\ Len(<<x>>) = 1
                             /\ DOMAIN <<x>> = 1 .. 1 /\ <<x>>[1] = x
    OBVIOUS
  <2> QED
    BY <1>1, <1>4, <2>1
<1>6. \A k \in 1 .. 1 : loads[k] = Load(Query) /\ k = Len(loads)
  BY <1>5
<1>7. TypeInv
  <2>1. /\ newest \in 0 .. MaxRows /\ horizon \in 0 .. newest /\ offset \in 0 .. MaxRows
        /\ since \in 0 .. horizon /\ rows \subseteq 1 .. newest /\ total \in 0 .. newest
        /\ size \in Sizes /\ {filter, q, search, seen} \subseteq Words
    BY <1>1, <1>2 DEF Words
  <2>2. Len(loads) <= MaxLoads
    BY <1>2, <1>5
  <2>3. /\ \A k \in DOMAIN loads :
              loads[k].read => Cardinality(loads[k].rows) <= loads[k].query.size
        /\ \A k \in 1 .. Len(loads) :
              loads[k].rows \subseteq 1 .. newest /\ loads[k].total \in 0 .. newest
    BY <2>1, <1>4, <1>5, <1>6
  <2> QED
    BY <1>1, <1>3, <1>5, <2>1, <2>2, <2>3 DEF TypeInv, TypeOK
<1> QED
  BY <1>1, <1>4, <1>5, <1>6, <1>7 DEF ShowInv, ShowsWhatItSays

\* Every step keeps both invariants.
LEMMA Steps ==
  ASSUME TypeInv, ShowInv, [Next]_vars
  PROVE  TypeInv' /\ ShowInv'
<1>1. CASE UNCHANGED vars
  <2>1. UNCHANGED <<newest, horizon, loads, table, filter, offset, size, search, timer, seen, q,
                    since, untouched, rows, total, shownFor, loading, current>>
    BY <1>1 DEF vars, log, asked, typed, shown
  <2>2. TypeInv'
    BY <2>1 DEF TypeInv, TypeOK
  <2> QED
    BY <2>1, <2>2 DEF ShowInv, ShowsWhatItSays, Query
<1> QED
  BY <1>1, ServerStep, ReplyStep, AskingStep DEF Next, User, Replies

\* What TypeInv and ShowInv say holds of every reachable state.
LEMMA PagesInvariant == Spec => [](TypeInv /\ ShowInv)
<1>1. Init => TypeInv /\ ShowInv
  BY Starts
<1>2. TypeInv /\ ShowInv /\ [Next]_vars => TypeInv' /\ ShowInv'
  BY Steps
<1> QED
  BY <1>1, <1>2, PTL DEF Spec

\* For any log and page sizes the pager never asks for a page beyond the log,
\* though it goes by a total that may be older than what is asked for, and a
\* reply never brings more rows than the page it was asked for
\* (System.tsx, ConnectionHistory.tsx, the List handlers).
THEOREM PagesTyped == Spec => []TypeOK
<1>1. TypeInv => TypeOK
  BY DEF TypeInv
<1> QED
  BY <1>1, PagesInvariant, PTL

\* Whatever the order of the replies, once the reply to the last request is
\* shown the rows are of the filter, page and window that the page names:
\* every handler that changes one of them sends a request after it.
THEOREM ShowsItsQuery == Spec => []ShowsWhatItSays
<1>1. ShowInv => ShowsWhatItSays
  BY DEF ShowInv
<1> QED
  BY <1>1, PagesInvariant, PTL

=============================================================================
