-------------------------------- MODULE Pages --------------------------------
(***************************************************************************)
(* The two pages the frontend keeps up to date: the home page over the     *)
(* WebSocket connection and the report by fetches.  They share no state,   *)
(* so a behaviour follows one of them, named by `path', and leaves the     *)
(* other alone.                                                            *)
(***************************************************************************)
EXTENDS Dashboard

CONSTANTS MaxRows, Stamp, Source, All, Fetch, Limit   \* of Report

VARIABLES path, inserted, table, stamp, source, fetch, view, walk

R == INSTANCE Report

ASSUME PagesAssumption == R!ReportAssumption

reportVars == <<inserted, table, stamp, source, fetch, view, walk>>
pagesVars == <<path, vars, reportVars>>

PagesInit ==
    /\ path \in {"/", "/report"}
    /\ Init
    /\ path = "/report" => stored = 0
    /\ R!Init

PagesNext ==
    \/ path = "/" /\ Next /\ UNCHANGED <<path, reportVars>>
    \/ path = "/report" /\ R!Next /\ UNCHANGED <<path, vars>>

PagesSpec == PagesInit /\ [][PagesNext]_pagesVars

\* Type correctness of both pages.
PagesTypeOK == TypeOK /\ R!TypeOK

\* Going through the pages of the report one after the other shows every row that
\* is there from the beginning to the end, but for rows that share a timestamp and
\* rows of which a newer one was deleted (postgres.go:62-113,
\* ReportPage.js:56-96).
WalkMissesNothing == R!WalkMissesNothing
=============================================================================
