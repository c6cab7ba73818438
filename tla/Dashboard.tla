------------------------------ MODULE Dashboard ------------------------------
(***************************************************************************)
(* The home page and the one WebSocket connection the server keeps         *)
(* (socket.go, SendMessage in web.go, HomePage.js, Sensor.js), for one     *)
(* sensor.  serveWs puts a new connection in the place of the last one and *)
(* writes the stored statuses to it; whoever stores a status, the MQTT     *)
(* handler or a heartbeat timeout, then writes it to the connection.       *)
(*                                                                         *)
(* A status is the number of the report that stored it.  The library's     *)
(* NextWriter ends the message of a writer that is still open, so what is  *)
(* written to that one later is lost, and it panics when two goroutines    *)
(* flush at the same time.                                                 *)
(***************************************************************************)
EXTENDS Integers, Sequences

CONSTANTS
    Conn,        \* the connections that pages open, each once
    Updater,     \* the goroutines that store statuses
    None,        \* no connection, no writer
    MaxVersion   \* bounds the statuses stored

ASSUME DashboardAssumption ==
    /\ None \notin Conn \cup Updater
    /\ Conn \cap Updater = {}
    /\ MaxVersion \in Nat \ {0}

VARIABLES
    stored,      \* the status in Redis; 0 stands for a missing key
    socketConn,  \* the server's connection
    link,        \* is each connection "new", "open" or "broken"?
    writer,      \* who holds the open writer of each connection
    wire,        \* the messages on their way over each connection
    handler,     \* the serveWs call of each connection
    updater,     \* each goroutine that stores: its step, status and connection
    page,        \* what the page of each connection has been told
    disturbed,   \* connections on whose way the stored status went astray
    unserved     \* connections whose own list was not written or lacks the sensor

served == <<handler, unserved>>
vars == <<stored, socketConn, link, writer, wire, served, updater, page, disturbed>>

Status == 0 .. MaxVersion
Message == [kind : {"list", "status"}, status : Status]
Idle == [pc |-> "idle", status |-> 0, conn |-> None]
At(pc, status, conn) == [pc |-> pc, status |-> status, conn |-> conn]

\* Type correctness; the list of a page is kept apart from later updates.
TypeOK ==
    /\ stored \in Status
    /\ socketConn \in Conn \cup {None}
    /\ link \in [Conn -> {"new", "open", "broken"}]
    /\ writer \in [Conn -> Conn \cup Updater \cup {None}]
    /\ wire \in [Conn -> Seq(Message)]
    /\ handler \in [Conn -> [pc : {"idle", "keys", "get", "nextWriter", "write"},
                             status : Status, conn : Conn \cup {None}]]
    /\ updater \in [Updater -> [pc : {"idle", "send", "write"},
                                status : Status, conn : Conn \cup {None}]]
    /\ page \in [Conn -> [listed : BOOLEAN, list : Status, update : Status]]
    /\ disturbed \subseteq Conn
    /\ unserved \subseteq Conn

Init ==
    /\ stored \in 0 .. 1
    /\ socketConn = None
    /\ link = [c \in Conn |-> "new"]
    /\ writer = [c \in Conn |-> None]
    /\ wire = [c \in Conn |-> <<>>]
    /\ handler = [c \in Conn |-> Idle]
    /\ updater = [u \in Updater |-> Idle]
    /\ page = [c \in Conn |-> [listed |-> FALSE, list |-> 0, update |-> 0]]
    /\ disturbed = {}
    /\ unserved = {}

\* NextWriter on c, which ends the message of the writer that is open.
OpenWriter(w, c) == writer' = [writer EXCEPT ![c] = w]

\* Write and Close: the message gets through when the writer is still open.
Flush(w, c, m) ==
    IF writer[c] = w /\ link[c] = "open"
    THEN wire' = [wire EXCEPT ![c] = Append(@, m)]
    ELSE UNCHANGED wire

-----------------------------------------------------------------------------
(* serveWs *)

\* Mutant: the list is read first and the connection published afterwards.
ConnectAfterRead(c) ==
    /\ link[c] = "new"
    /\ link' = [link EXCEPT ![c] = "open"]
    /\ socketConn' = c
    /\ \E s \in IF stored = 0 THEN {0} ELSE 1 .. stored :
        handler' = [handler EXCEPT ![c] = At("nextWriter", s, None)]
    /\ UNCHANGED <<stored, writer, wire, updater, page, disturbed, unserved>>

\* Upgrade; the connection takes the place of the last one.
Connect(c) ==
    /\ link[c] = "new"
    /\ link' = [link EXCEPT ![c] = "open"]
    /\ socketConn' = c
    /\ handler' = [handler EXCEPT ![c] = At("keys", 0, None)]
    /\ UNCHANGED <<stored, writer, wire, updater, page, disturbed, unserved>>

\* ReadAllState lists the keys: a missing one, or an error, which is dropped,
\* makes an empty list.
ReadKeys(c) ==
    /\ handler[c].pc = "keys"
    /\ \/ stored # 0 /\ handler' = [handler EXCEPT ![c] = At("get", 0, None)]
                     /\ UNCHANGED unserved
       \/ handler' = [handler EXCEPT ![c] = At("nextWriter", 0, None)]
          /\ unserved' = IF stored = 0 THEN unserved ELSE unserved \cup {c}
    /\ UNCHANGED <<stored, socketConn, link, writer, wire, updater, page, disturbed>>

\* It reads the status; an error here or in ReadAllArming ends the handler.
ReadStatus(c) ==
    /\ handler[c].pc = "get"
    /\ handler' = [handler EXCEPT ![c] = At("nextWriter", stored, None)]
    /\ UNCHANGED <<stored, socketConn, link, writer, wire, updater, page, disturbed, unserved>>

ReadFails(c) ==
    /\ handler[c].pc \in {"get", "nextWriter"}
    /\ handler' = [handler EXCEPT ![c] = Idle]
    /\ unserved' = unserved \cup {c}
    /\ UNCHANGED <<stored, socketConn, link, writer, wire, updater, page, disturbed>>

\* The writer is taken from the connection of the moment, whoever opened it.
ListNextWriter(c) ==
    /\ handler[c].pc = "nextWriter"
    /\ socketConn \in Conn
    /\ handler' = [handler EXCEPT ![c] = At("write", @.status, socketConn)]
    /\ OpenWriter(c, socketConn)
    /\ unserved' = IF socketConn = c THEN unserved ELSE unserved \cup {c}
    /\ UNCHANGED <<stored, socketConn, link, wire, updater, page, disturbed>>

WriteList(c) ==
    /\ handler[c].pc = "write"
    /\ LET d == handler[c].conn
       IN /\ Flush(c, d, [kind |-> "list", status |-> handler[c].status])
          /\ unserved' = IF writer[d] = c THEN unserved ELSE unserved \cup {c}
    /\ handler' = [handler EXCEPT ![c] = Idle]
    /\ UNCHANGED <<stored, socketConn, link, writer, updater, page, disturbed>>

-----------------------------------------------------------------------------
(* WriteState and SendMessage *)

\* The first status of a sensor is stored and not sent: a list whose keys were read
\* before lacks the sensor for good.
StoreFirst(u) ==
    /\ updater[u].pc = "idle"
    /\ stored = 0 /\ stored < MaxVersion
    /\ stored' = 1
    /\ disturbed' = {c \in Conn : link[c] # "new" /\ handler[c].pc # "keys"}
    /\ UNCHANGED <<socketConn, link, writer, wire, served, updater, page>>

Store(u) ==
    /\ updater[u].pc = "idle"
    /\ stored > 0 /\ stored < MaxVersion
    /\ stored' = stored + 1
    /\ updater' = [updater EXCEPT ![u] = At("send", stored', None)]
    /\ disturbed' = {}
    /\ UNCHANGED <<socketConn, link, writer, wire, served, page>>

SendNextWriter(u) ==
    /\ updater[u].pc = "send"
    /\ \/ /\ socketConn = None
          /\ updater' = [updater EXCEPT ![u] = Idle]
          /\ UNCHANGED writer
       \/ /\ socketConn \in Conn
          /\ updater' = [updater EXCEPT ![u] = At("write", @.status, socketConn)]
          /\ OpenWriter(u, socketConn)
    /\ UNCHANGED <<stored, socketConn, link, wire, served, page, disturbed>>

WriteStatus(u) ==
    /\ updater[u].pc = "write"
    /\ LET c == updater[u].conn
           s == updater[u].status
       IN /\ Flush(u, c, [kind |-> "status", status |-> s])
          /\ disturbed' = disturbed \cup {d \in {c} : writer[d] # u /\ s = stored}
    /\ updater' = [updater EXCEPT ![u] = Idle]
    /\ UNCHANGED <<stored, socketConn, link, writer, served, page>>

Writing(c) ==
    {d \in Conn : handler[d] = At("write", handler[d].status, c)}
        \cup {u \in Updater : updater[u] = At("write", updater[u].status, c)}

\* Two goroutines flush at the same time: the library panics, which ends the
\* process, and the pages are left with broken connections.
ConcurrentFlushPanics ==
    /\ \E c \in Conn : \E v, w \in Writing(c) : v # w
    /\ socketConn' = None
    /\ link' = [c \in Conn |-> IF link[c] = "open" THEN "broken" ELSE link[c]]
    /\ writer' = [c \in Conn |-> None]
    /\ handler' = [c \in Conn |-> Idle]
    /\ updater' = [u \in Updater |-> Idle]
    /\ UNCHANGED <<stored, wire, page, disturbed, unserved>>

-----------------------------------------------------------------------------
(* The page *)

\* The browser is closed or loses the connection, which it never opens again.
Break(c) ==
    /\ link[c] = "open"
    /\ link' = [link EXCEPT ![c] = "broken"]
    /\ UNCHANGED <<stored, socketConn, writer, wire, served, updater, page, disturbed>>

\* The sensor is on the page when its list has it.
Mounted(c) == page[c].listed /\ page[c].list # 0

\* An update goes before the list; the list shows nothing that it lacks.
Shown(p) == IF p.list # 0 /\ p.update # 0 THEN p.update ELSE p.list

\* The list is taken as it comes; one that lacks the sensor unmounts it, and one
\* that is newer than what the page was told is not shown.
ReceiveList(c) ==
    /\ wire[c] # <<>> /\ Head(wire[c]).kind = "list"
    /\ LET s == Head(wire[c]).status
           p == [listed |-> TRUE, list |-> s, update |-> IF s = 0 THEN 0 ELSE page[c].update]
           passedOver == stored \in {s, Shown(page[c])} /\ Shown(p) # stored
       IN /\ page' = [page EXCEPT ![c] = p]
          /\ disturbed' = IF passedOver THEN disturbed \cup {c} ELSE disturbed
    /\ wire' = [wire EXCEPT ![c] = Tail(@)]
    /\ UNCHANGED <<stored, socketConn, link, writer, served, updater>>

\* Each sensor on the page listens for its own updates; before the list there
\* is none to listen.
ReceiveStatus(c) ==
    /\ wire[c] # <<>> /\ Head(wire[c]).kind = "status"
    /\ LET s == Head(wire[c]).status
           astray == IF Mounted(c) THEN s # stored /\ Shown(page[c]) = stored
                     ELSE s = stored
       IN /\ page' = IF Mounted(c) THEN [page EXCEPT ![c].update = s] ELSE page
          /\ disturbed' = IF astray THEN disturbed \cup {c} ELSE disturbed
    /\ wire' = [wire EXCEPT ![c] = Tail(@)]
    /\ UNCHANGED <<stored, socketConn, link, writer, served, updater>>

\* Every minute the page copies what the list said where no update has come.
MinuteTick(c) ==
    /\ Mounted(c) /\ page[c].update = 0
    /\ page' = [page EXCEPT ![c].update = page[c].list]
    /\ UNCHANGED <<stored, socketConn, link, writer, wire, served, updater, disturbed>>

Next ==
    \/ \E c \in Conn :
        \/ Connect(c) \/ ReadKeys(c) \/ ReadStatus(c) \/ ReadFails(c)
        \/ ListNextWriter(c) \/ WriteList(c)
        \/ Break(c) \/ ReceiveList(c) \/ ReceiveStatus(c) \/ MinuteTick(c)
    \/ \E u \in Updater : StoreFirst(u) \/ Store(u) \/ SendNextWriter(u) \/ WriteStatus(u)
    \/ ConcurrentFlushPanics

Spec == Init /\ [][Next]_vars

-----------------------------------------------------------------------------
(* Properties *)

Calm(c) ==
    /\ wire[c] = <<>>
    /\ \A d \in Conn : handler[d].pc = "idle"
    /\ \A u \in Updater : updater[u].pc = "idle"

\* When nothing is under way, the page of the newest connection shows the stored
\* status, unless its own list did not reach it whole (an error, of which that of
\* KEYS is dropped, or another connection or writer in its place) or that very
\* status went astray: it was the sensor's first, which is never sent, and the list
\* was read before; it reached a page that lacked the sensor, having had no list or
\* one without it; it was lost to another writer; it was followed by an older
\* status or list; or it came in a list the page passed over.  No later status
\* slips between the reading of the list and the connection (socket.go:24-66,
\* web.go:264-302, server.go:432-439, HomePage.js:67-73).
PageShowsStored ==
    \A c \in Conn :
        (socketConn = c /\ link[c] = "open" /\ Calm(c) /\ c \notin unserved)
        => (Shown(page[c]) = stored \/ c \in disturbed)
=============================================================================
