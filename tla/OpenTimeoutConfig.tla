-------------------------- MODULE OpenTimeoutConfig --------------------------
(***************************************************************************)
(* How an open timeout set in the dashboard reaches the timers: the POST   *)
(* handlers write Postgres and then send on sensorConfigChan, a goroutine  *)
(* of runServer receives from it into sensorConfigMap, which the status    *)
(* handler reads when it starts a timer.                                   *)
(*                                                                         *)
(* Every request is a goroutine of its own, so several can be between      *)
(* their write and their send.  The receiving goroutine receives once.     *)
(***************************************************************************)
EXTENDS Naturals, Sequences

CONSTANTS
    Source,     \* the sensors' names
    Request,    \* the POST requests to /api/sensor/openTimeout
    Minutes,    \* the timeouts they carry
    Capacity,   \* the capacity of sensorConfigChan
    SelectsBreakOff,   \* may the connection break off amid the rows of a select?
    None        \* no row, no map entry

MinOpenTimeoutMinutes == 1
MaxOpenTimeoutMinutes == 60

ASSUME ConfigAssumption ==
    /\ Minutes \subseteq Nat
    /\ Capacity \in Nat
    /\ SelectsBreakOff \in BOOLEAN
    /\ None \notin Nat

VARIABLES
    sensorconfig,      \* the table: minutes of each sensor, or None
    sensorConfigMap,   \* the map in the server's memory
    sensorConfigChan,  \* the channel's buffer
    consumer,          \* has the receiving goroutine returned?
    request,           \* the state of each request
    stored,            \* the minutes the table held since the process started
    skipped            \* the sensors whose row the map lacks since it was loaded

vars == <<sensorconfig, sensorConfigMap, sensorConfigChan, consumer, request, stored,
          skipped>>

Valid == MinOpenTimeoutMinutes..MaxOpenTimeoutMinutes
Config == [source : Source, minutes : Nat]
New == [pc |-> "new", source |-> None, minutes |-> None]

\* Type correctness; every timeout that got past the handler's check is between
\* one and sixty minutes wherever it is kept, in a row, in the channel or in the
\* map (web.go:232-237).
TypeOK ==
    /\ sensorconfig \in [Source -> Valid \cup {None}]
    /\ sensorConfigMap \in [Source -> Valid \cup {None}]
    /\ sensorConfigChan \in Seq([source : Source, minutes : Valid])
    /\ consumer \in {"receiving", "returned"}
    /\ request \in [Request -> [pc : {"new", "store", "send", "answered", "rejected", "failed"},
                                source : Source \cup {None}, minutes : Nat \cup {None}]]
    /\ stored \in [Source -> SUBSET (Valid \cup {None})]
    /\ skipped \subseteq Source

\* What a select may leave out: nothing, or any of the rows there are.
LeftOut(table) ==
    IF SelectsBreakOff THEN SUBSET {s \in Source : table[s] # None} ELSE {{}}

\* The map read from the table but for the rows of left.  A sensor without an
\* entry has its timers run with the default.
Loaded(table, left) == [s \in Source |-> IF s \in left THEN None ELSE table[s]]

\* runServer fills the map from the table before it serves requests.  rows.Err is
\* not asked: a connection that breaks off passes for the end of the table.
Load(table) ==
    /\ \E left \in LeftOut(table) :
        /\ sensorConfigMap' = Loaded(table, left)
        /\ skipped' = left
    /\ sensorConfigChan' = <<>>
    /\ consumer' = "receiving"
    /\ stored' = [s \in Source |-> {table[s]}]

Init ==
    /\ sensorconfig \in [Source -> (Minutes \cap Valid) \cup {None}]
    /\ skipped \in LeftOut(sensorconfig)
    /\ sensorConfigMap = Loaded(sensorconfig, skipped)
    /\ sensorConfigChan = <<>>
    /\ consumer = "receiving"
    /\ request = [r \in Request |-> New]
    /\ stored = [s \in Source |-> {sensorconfig[s]}]

\* Mutant: the upper bound is one too high.
PostOffByOne(r, s, m) ==
    /\ request[r].pc = "new"
    /\ request' = [request EXCEPT ![r] =
        [pc |-> IF m < MinOpenTimeoutMinutes \/ m > MaxOpenTimeoutMinutes + 1
                THEN "rejected" ELSE "store",
         source |-> s, minutes |-> m]]
    /\ UNCHANGED <<sensorconfig, sensorConfigMap, sensorConfigChan, consumer, stored, skipped>>

\* sensorOpenTimeoutHandler checks the range.
Post(r, s, m) ==
    /\ request[r].pc = "new"
    /\ request' = [request EXCEPT ![r] =
        [pc |-> IF m < MinOpenTimeoutMinutes \/ m > MaxOpenTimeoutMinutes
                THEN "rejected" ELSE "store",
         source |-> s, minutes |-> m]]
    /\ UNCHANGED <<sensorconfig, sensorConfigMap, sensorConfigChan, consumer, stored, skipped>>

Upsert(r) ==
    /\ sensorconfig' = [sensorconfig EXCEPT ![request[r].source] = request[r].minutes]
    /\ stored' = [stored EXCEPT ![request[r].source] = @ \cup {request[r].minutes}]

\* WriteSensorConfig upserts the row ...
Store(r) ==
    /\ request[r].pc = "store"
    /\ Upsert(r)
    /\ request' = [request EXCEPT ![r].pc = "send"]
    /\ UNCHANGED <<sensorConfigMap, sensorConfigChan, consumer, skipped>>

\* Mutant: the update is sent although the row was not written.
StoreFailsAndSends(r) ==
    /\ request[r].pc = "store"
    /\ request' = [request EXCEPT ![r].pc = "send"]
    /\ UNCHANGED <<sensorconfig, sensorConfigMap, sensorConfigChan, consumer, stored, skipped>>

StoreFails(r) ==
    /\ request[r].pc = "store"
    /\ Upsert(r) \/ UNCHANGED <<sensorconfig, stored>>
    /\ request' = [request EXCEPT ![r].pc = "failed"]
    /\ UNCHANGED <<sensorConfigMap, sensorConfigChan, consumer, skipped>>

\* Mutant: the channel has no buffer, a send waits for the receiver.
SendUnbuffered(r) ==
    /\ request[r].pc = "send"
    /\ consumer = "receiving" /\ sensorConfigChan = <<>>
    /\ sensorConfigChan' = Append(sensorConfigChan,
                              [source |-> request[r].source, minutes |-> request[r].minutes])
    /\ request' = [request EXCEPT ![r].pc = "answered"]
    /\ UNCHANGED <<sensorconfig, sensorConfigMap, consumer, stored, skipped>>

\* Mutant: an update that finds the buffer in use is dropped.
SendOrDrop(r) ==
    /\ request[r].pc = "send"
    /\ sensorConfigChan' = IF sensorConfigChan = <<>>
          THEN <<[source |-> request[r].source, minutes |-> request[r].minutes]>>
          ELSE sensorConfigChan
    /\ request' = [request EXCEPT ![r].pc = "answered"]
    /\ UNCHANGED <<sensorconfig, sensorConfigMap, consumer, stored, skipped>>

\* ... and sends it, which blocks while the buffer is full.
Send(r) ==
    /\ request[r].pc = "send"
    /\ Len(sensorConfigChan) < Capacity
    /\ sensorConfigChan' = Append(sensorConfigChan,
                              [source |-> request[r].source, minutes |-> request[r].minutes])
    /\ request' = [request EXCEPT ![r].pc = "answered"]
    /\ UNCHANGED <<sensorconfig, sensorConfigMap, consumer, stored, skipped>>

\* The goroutine receives one update, stores it in the map and returns.
Receive ==
    /\ consumer = "receiving"
    /\ sensorConfigChan # <<>>
    /\ LET cfg == Head(sensorConfigChan)
       IN /\ sensorConfigMap' = [sensorConfigMap EXCEPT ![cfg.source] = cfg.minutes]
          /\ skipped' = skipped \ {cfg.source}
    /\ sensorConfigChan' = Tail(sensorConfigChan)
    /\ consumer' = "returned"
    /\ UNCHANGED <<sensorconfig, request, stored>>

\* The process is replaced; requests it was serving are lost.
Restart ==
    /\ Load(sensorconfig)
    /\ request' = [r \in Request |-> IF request[r].pc \in {"store", "send"}
                                     THEN [request[r] EXCEPT !.pc = "failed"]
                                     ELSE request[r]]
    /\ UNCHANGED sensorconfig

Next ==
    \/ \E r \in Request, s \in Source, m \in Minutes : Post(r, s, m)
    \/ \E r \in Request : Store(r) \/ StoreFails(r) \/ Send(r)
    \/ Receive
    \/ Restart

Spec == Init /\ [][Next]_vars

\* Goroutines that are not blocked run.
FairSpec ==
    /\ Spec
    /\ \A r \in Request : WF_vars(Store(r)) /\ WF_vars(Send(r))
    /\ WF_vars(Receive)

-----------------------------------------------------------------------------
(* Properties *)

\* Timers never run with a timeout that was not in the table since the process
\* started: an update is sent only after it is stored, and one left in the
\* channel dies with the process.  Where the select at startup broke off before a
\* sensor's row, its timers run with the default until an update is received
\* (postgres.go:207-236, server.go:102-115).
TimersUseStored ==
    \A s \in Source :
        IF s \in skipped THEN sensorConfigMap[s] = None
                        ELSE sensorConfigMap[s] \in stored[s]

\* No send can proceed until the server is restarted: the goroutine has received
\* its one update and the buffer is full.
ChannelStuck == consumer = "returned" /\ Len(sensorConfigChan) = Capacity

\* Every accepted request is answered, unless the channel is stuck: as many
\* updates of this process as the buffer holds, and one more, were sent before
\* (postgres.go:214, server.go:113).
PostsAreAnswered ==
    \A r \in Request :
        (request[r].pc = "store")
        ~> (request[r].pc \in {"answered", "failed"} \/ ChannelStuck)

\* As long as the goroutine has not returned, a timeout that differs between the
\* table and the timers' map is on its way, in the channel or in a request about
\* to send it, was stored by a request that was told of an error, or is a row the
\* select at startup broke off before (server.go:102-115, postgres.go:207-236).
StaleOnlyInFlight ==
    consumer = "receiving" =>
        \A s \in Source \ skipped : sensorConfigMap[s] # sensorconfig[s] =>
            \/ \E i \in DOMAIN sensorConfigChan : sensorConfigChan[i].source = s
            \/ \E r \in Request : /\ request[r].source = s
                                  /\ request[r].pc \in {"send", "failed"}

\* An update a request has stored reaches the timers' map unless the row changes
\* again: the goroutine is there to "receive updates to sensorconfig from
\* postgres" (server.go:111-115).
UpdatesReachTimers ==
    \A r \in Request, s \in Source, m \in Minutes :
        (request[r] = [pc |-> "send", source |-> s, minutes |-> m])
        ~> (sensorConfigMap[s] = m \/ sensorconfig[s] # m)
=============================================================================
