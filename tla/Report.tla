-------------------------------- MODULE Report --------------------------------
(***************************************************************************)
(* The report page (ReportPage.js, reportHandler, GetSensorStatus): the    *)
(* rows of one sensor or of all, newest first, a page at a time, over a    *)
(* table that reports add to and retention deletes from meanwhile.         *)
(*                                                                         *)
(* A page is selected and the rows are counted in two statements.  Rows    *)
(* with the same timestamp come in any order, each time anew.  Every pick  *)
(* fetches at once, and replies are taken in the order they arrive in.     *)
(***************************************************************************)
EXTENDS Integers, FiniteSets

CONSTANTS
    MaxRows,     \* bounds the rows ever inserted
    Stamp,       \* the timestamps: bounds the time
    Source,      \* the sensors
    All,         \* the choice of all of them
    Fetch,       \* bounds the fetches under way
    Limit        \* limit, the rows of a page

ReportAssumption ==
    /\ MaxRows \in Nat /\ Stamp \subseteq Nat \ {0}
    /\ All \notin Source
    /\ Limit \in Nat \ {0}

VARIABLES
    inserted,    \* the number of rows inserted so far
    table,       \* the rows in Postgres, by the order they were inserted in
    stamp,       \* the timestamp of each row, 0 when it is not there
    source,      \* its sensor
    fetch,       \* the fetches: their step, question and answer
    view,        \* the state of the page
    walk         \* the user's way through the pages, from the first one on

vars == <<inserted, table, stamp, source, fetch, view, walk>>
tableVars == <<inserted, table, stamp, source>>

Free == [pc |-> "free", sensor |-> All, page |-> 1, rows |-> {}, null |-> FALSE,
         numPages |-> 0]
NoWalk == [on |-> FALSE, page |-> 0, fetch |-> {}, owed |-> {}]

Row == 1 .. MaxRows
Choice == Source \cup {All}
Of(sensor) == {r \in table : sensor \in {All, source[r]}}

\* Type correctness of the table, the fetches, the page and the walk.
TypeOK ==
    /\ inserted \in 0 .. MaxRows /\ table \subseteq 1 .. inserted
    /\ stamp \in [Row -> Stamp \cup {0}] /\ source \in [Row -> Choice]
    /\ \A f \in Fetch :
        /\ fetch[f].pc \in {"free", "select", "count", "reply"}
        /\ fetch[f].sensor \in Choice /\ fetch[f].page \in Nat \ {0}
        /\ Cardinality(fetch[f].rows) <= Limit
    /\ view.sensor \in Choice /\ view.page \in Nat \ {0} /\ view.numPages \in Nat
    /\ walk.fetch \subseteq Fetch /\ walk.owed \subseteq table

Init ==
    /\ inserted = 0 /\ table = {}
    /\ stamp = [r \in Row |-> 0]
    /\ source = [r \in Row |-> All]
    /\ fetch = [f \in Fetch |-> Free]
    /\ view = [sensor |-> All, page |-> 1, numPages |-> 1]
    /\ walk = NoWalk

-----------------------------------------------------------------------------
(* The table *)

\* A report is stamped now; a heartbeat timeout repeats an older timestamp.
Insert(t, s) ==
    /\ inserted < MaxRows
    /\ inserted' = inserted + 1
    /\ table' = table \cup {inserted'}
    /\ stamp' = [stamp EXCEPT ![inserted'] = t]
    /\ source' = [source EXCEPT ![inserted'] = s]
    /\ UNCHANGED <<fetch, view, walk>>

\* Retention deletes by timestamp; of the rows that are there by then it need
\* not be the oldest.  What is known of rows that are gone is forgotten, and a
\* walk is not held to rows older than one that is deleted under it.
Delete(t) ==
    LET gone == {r \in table : stamp[r] = t}
    IN /\ gone # {}
       /\ table' = table \ gone
       /\ stamp' = [r \in Row |-> IF r \in gone THEN 0 ELSE stamp[r]]
       /\ source' = [r \in Row |-> IF r \in gone THEN All ELSE source[r]]
       /\ fetch' = [f \in Fetch |-> [fetch[f] EXCEPT !.rows = @ \ gone]]
       /\ walk' = [walk EXCEPT !.owed = {r \in @ : stamp[r] > t}]
       /\ UNCHANGED <<inserted, view>>

-----------------------------------------------------------------------------
(* handleChange *)

Ask(f, sensor, page) ==
    /\ fetch[f].pc = "free"
    /\ fetch' = [fetch EXCEPT ![f] = [Free EXCEPT !.pc = "select", !.sensor = sensor,
                                                  !.page = page]]
    /\ view' = [view EXCEPT !.sensor = sensor, !.page = page]

\* A walk begins with a first page, owing the rows that are there then, and goes
\* on with the next one.
BeginWalk(f, sensor) ==
    walk' = [on |-> TRUE, page |-> 1, fetch |-> {f}, owed |-> Of(sensor)]

Answered == walk.on /\ walk.fetch = {}

\* Another sensor starts at its first page, the same one, which is picked again
\* after the blank choice, stays where it is.
PickSensor(f, s) ==
    LET page == IF s = view.sensor THEN view.page ELSE 1
    IN /\ Ask(f, s, page)
       /\ IF page = 1 THEN BeginWalk(f, s) ELSE walk' = NoWalk
       /\ UNCHANGED tableVars

\* A single page cannot be picked.
PickPage(f, p) ==
    /\ view.numPages > 1
    /\ p \in 1 .. view.numPages
    /\ Ask(f, view.sensor, p)
    /\ \/ p = 1 /\ BeginWalk(f, view.sensor)
       \/ /\ p > 1 /\ Answered /\ p = walk.page + 1
          /\ walk' = [walk EXCEPT !.page = p, !.fetch = {f}]
       \/ /\ p > 1 /\ ~(Answered /\ p = walk.page + 1)
          /\ walk' = NoWalk
    /\ UNCHANGED tableVars

-----------------------------------------------------------------------------
(* GetSensorStatus *)

Smaller(a, b) == IF a < b THEN a ELSE b

\* Mutant: the oldest rows come first.
FirstRowsOldest(R, n) ==
    {A \in SUBSET R : /\ Cardinality(A) = Smaller(n, Cardinality(R))
                      /\ \A a \in A, b \in R \ A : stamp[a] <= stamp[b]}

\* Mutant: rows tied with the last one come along.
FirstRowsWithTies(R, n) ==
    {{r \in R : Cardinality({q \in R : stamp[q] > stamp[r]}) < n}}

\* The sets that the first n rows may be.
FirstRows(R, n) ==
    {A \in SUBSET R : /\ Cardinality(A) = Smaller(n, Cardinality(R))
                      /\ \A a \in A, b \in R \ A : stamp[a] >= stamp[b]}

NumPages(count) == (count + Limit - 1) \div Limit

\* LIMIT and OFFSET.
Select(f) ==
    /\ fetch[f].pc = "select"
    /\ LET R == Of(fetch[f].sensor)
           offset == Limit * (fetch[f].page - 1)
       IN \E A \in FirstRows(R, offset), B \in FirstRows(R, offset + Limit) :
            /\ A \subseteq B
            /\ fetch' = [fetch EXCEPT ![f].pc = "count", ![f].page = 1, ![f].rows = B \ A,
                                      ![f].null = (A = B)]
    /\ UNCHANGED <<tableVars, view, walk>>

Count(f) ==
    /\ fetch[f].pc = "count"
    /\ fetch' = [fetch EXCEPT ![f] =
            [Free EXCEPT !.pc = "reply", !.rows = fetch[f].rows, !.null = fetch[f].null,
                         !.numPages = NumPages(Cardinality(Of(fetch[f].sensor)))]]
    /\ UNCHANGED <<tableVars, view, walk>>

-----------------------------------------------------------------------------
(* The reply *)

\* A reply to an earlier question ends a walk.
Reply(f, v) ==
    /\ fetch' = [fetch EXCEPT ![f] = Free]
    /\ view' = v
    /\ walk' = IF f \in walk.fetch
               THEN [walk EXCEPT !.fetch = {}, !.owed = @ \ fetch[f].rows]
               ELSE NoWalk
    /\ UNCHANGED tableVars

\* Without rows the messages are null, which the page fails on: it stays as it is.
TakeReply(f) ==
    /\ fetch[f].pc = "reply"
    /\ Reply(f, IF fetch[f].null THEN view
                ELSE [view EXCEPT !.numPages = fetch[f].numPages])

\* An error of the fetch, the handler or Postgres leaves the page as it is and
\* the walk without an answer.
FetchFails(f) ==
    /\ fetch[f].pc # "free"
    /\ fetch' = [fetch EXCEPT ![f] = Free]
    /\ walk' = IF f \in walk.fetch THEN NoWalk ELSE walk
    /\ UNCHANGED <<tableVars, view>>

Next ==
    \/ \E t \in Stamp, s \in Source : Insert(t, s)
    \/ \E t \in Stamp : Delete(t)
    \/ \E f \in Fetch :
        \/ \E s \in Choice : PickSensor(f, s)
        \/ \E p \in Row : PickPage(f, p)
        \/ Select(f) \/ Count(f) \/ TakeReply(f) \/ FetchFails(f)

Spec == Init /\ [][Next]_vars

-----------------------------------------------------------------------------
(* Properties *)

Tied(r) == \E q \in table \ {r} : stamp[q] = stamp[r]

\* A user who goes through the pages one after the other, up to the last one the
\* page offers, has seen every row that was there from the beginning to the end,
\* whatever was inserted and deleted meanwhile; but for a row that shares its
\* timestamp with another and one of which a newer row was deleted
\* (postgres.go:62-113, ReportPage.js:56-96).
WalkMissesNothing ==
    (Answered /\ walk.page >= view.numPages) => \A r \in walk.owed : Tied(r)
=============================================================================
