----------------------------- MODULE JobListing -----------------------------
(***************************************************************************)
(* GET /api/v1/jobs: a client pages through its jobs, newest first, while  *)
(* jobs are created.  Each page is one request; its rows and the total     *)
(* come from two queries that run side by side, without a transaction.     *)
(***************************************************************************)
EXTENDS Integers, FiniteSets

CONSTANTS
  Jobs,          \* ids the rows of the client can have
  MaxTime,       \* bound: values createdAt can take
  DefaultLimit,  \* rows of a page when the client asks for none (50 in the code)
  MaxLimit,      \* rows a page may have (100 in the code)
  Asked          \* limits clients ask for; 0 stands for none

ASSUME ListingAssumption ==
  /\ IsFiniteSet(Jobs)
  /\ MaxTime \in Nat
  /\ DefaultLimit \in Nat \ {0} /\ MaxLimit \in Nat \ {0} /\ Asked \subseteq Nat

VARIABLES
  createdAt,  \* the rows' timestamps; 0: no row
  list,       \* the client's request for a page
  start,      \* history: rows there were at the request for the first page
  shown,      \* history: jobs on the pages answered so far
  again       \* history: jobs shown on more than one of them

vars == <<createdAt, list, start, shown, again>>

clientVars == <<list, start, shown, again>>

rows == {j \in Jobs : createdAt[j] > 0}

\* next: the client's offset.  page, total: what the two queries returned, once
\* paged and counted are TRUE.  there (history): the rows when page was read.
Listing == [pc: {"idle", "asked", "done"}, next: Nat, limit: 0..MaxLimit,
            paged: BOOLEAN, page: SUBSET Jobs, there: SUBSET Jobs,
            counted: BOOLEAN, total: Nat]

request(pc, next, limit) ==
  [pc |-> pc, next |-> next, limit |-> limit, paged |-> FALSE, page |-> {},
   there |-> {}, counted |-> FALSE, total |-> 0]

\* Types; no page has more rows than the code allows.
TypeOK ==
  /\ createdAt \in [Jobs -> 0..MaxTime]
  /\ list \in Listing
  /\ start \subseteq Jobs /\ shown \subseteq Jobs /\ again \subseteq shown
  /\ Cardinality(list.page) <= list.limit

Init ==
  /\ createdAt = [j \in Jobs |-> 0]
  /\ list = request("idle", 0, 0)
  /\ start = {} /\ shown = {} /\ again = {}

-----------------------------------------------------------------------------
\* createJob commits.  Instances have clocks of their own and a row appears
\* later than its timestamp says, so it may be older than rows already there,
\* or as old.
CreateJob(j) ==
  /\ createdAt[j] = 0
  /\ \E t \in 1..MaxTime : createdAt' = [createdAt EXCEPT ![j] = t]
  /\ UNCHANGED clientVars

-----------------------------------------------------------------------------
(* listJobs.                                                               *)

least(m, n) == IF m < n THEN m ELSE n

unclampedLimit(asked) == IF asked = 0 THEN DefaultLimit ELSE asked

\* Math.min(parseInt(limit) || 50, 100)
pageLimit(asked) == least(IF asked = 0 THEN DefaultLimit ELSE asked, MaxLimit)

\* The client asks for the page at its offset.
Ask(asked) ==
  /\ list.pc = "idle"
  /\ list' = request("asked", list.next, pageLimit(asked))
  /\ start' = IF list.next = 0 THEN rows ELSE start
  /\ UNCHANGED <<createdAt, shown, again>>

notOlder(A, B) == \A a \in A, b \in B : createdAt[a] >= createdAt[b]

unordered(P, offset, limit) ==
  /\ P \subseteq rows
  /\ Cardinality(P) = least(limit, Cardinality(rows) - least(offset, Cardinality(rows)))

\* ORDER BY createdAt DESC OFFSET LIMIT.  Rows of one timestamp come in any
\* order, and in another one the next time.
isPage(P, offset, limit) ==
  \E skipped \in SUBSET rows :
    LET rest == rows \ skipped IN
      /\ Cardinality(skipped) = least(offset, Cardinality(rows))
      /\ notOlder(skipped, rest)
      /\ P \subseteq rest
      /\ Cardinality(P) = least(limit, Cardinality(rest))
      /\ notOlder(P, rest \ P)

\* findMany
ReadPage ==
  /\ list.pc = "asked" /\ ~list.paged
  /\ \E P \in SUBSET rows :
       /\ isPage(P, list.next, list.limit)
       /\ list' = [list EXCEPT !.paged = TRUE, !.page = P, !.there = rows]
  /\ UNCHANGED <<createdAt, start, shown, again>>

\* count
CountRows ==
  /\ list.pc = "asked" /\ ~list.counted
  /\ list' = [list EXCEPT !.counted = TRUE, !.total = Cardinality(rows)]
  /\ UNCHANGED <<createdAt, start, shown, again>>

oneMore(offset, limit, total) == offset + limit <= total

oneLess(offset, limit, total) == offset + limit < total - 1

hasMore(offset, limit, total) == offset + limit < total

\* Both queries have returned and the client is answered.  It goes on behind
\* this page, by the limit of the answer, while hasMore says so.
Reply ==
  /\ list.pc = "asked" /\ list.paged /\ list.counted
  /\ list' = [list EXCEPT !.pc = IF hasMore(list.next, list.limit, list.total)
                                   THEN "idle" ELSE "done",
                          !.next = @ + list.limit]
  /\ again' = again \cup (shown \cap list.page)
  /\ shown' = shown \cup list.page
  /\ UNCHANGED <<createdAt, start>>

\* One of the queries fails: Promise.all rejects, the answer is 500, and the
\* client asks for this page again.
QueryFails ==
  /\ list.pc = "asked"
  /\ ~(list.paged /\ list.counted)
  /\ list' = request("idle", list.next, 0)
  /\ UNCHANGED <<createdAt, start, shown, again>>

-----------------------------------------------------------------------------
Next ==
  \/ \E j \in Jobs : CreateJob(j)
  \/ \E asked \in Asked : Ask(asked)
  \/ ReadPage \/ CountRows \/ Reply \/ QueryFails

Spec == Init /\ [][Next]_vars

-----------------------------------------------------------------------------
(* Properties.                                                             *)

\* The only row with its timestamp.
untied(j) == \A i \in rows \ {j} : createdAt[i] # createdAt[j]

\* Paging by offset passes no job by: one that was there at the start and has
\* its timestamp to itself was shown when the listing ends, however many jobs
\* are created between and during the requests, unless the total of the last
\* page was counted before a row the page itself saw.
ListingComplete ==
  list.pc = "done" =>
    \A j \in start :
      j \in shown \/ ~untied(j) \/ list.total < Cardinality(list.there)

\* A row, other than j itself, that joined since the start and is not older.
arrival(j) == \E i \in rows \ start : i # j /\ createdAt[i] >= createdAt[j]

\* A job is shown twice only if a row that is not older joined meanwhile, or it
\* shares its timestamp: rows that appear late with an old timestamp shift
\* nothing.
RepeatsNeedArrivals == \A j \in again : arrival(j) \/ ~untied(j)

\* A page that hasMore announced is not empty.
AnnouncedPageHasRows ==
  list.pc = "asked" /\ list.paged /\ list.next > 0 => list.page # {}
=============================================================================
