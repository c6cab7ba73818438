----------------------------- MODULE PagesProofs -----------------------------
(***************************************************************************)
(* Proofs about the two pages: what the home page shows, for any           *)
(* connections, goroutines and statuses, and what a walk through the       *)
(* report's pages shows, for any rows, sensors, fetches and limit.         *)
(***************************************************************************)
EXTENDS Pages, FiniteSetTheorems, SequenceTheorems, TLAPS

-----------------------------------------------------------------------------
(* The home page: types *)

HandlerRecord == [pc : {"idle", "keys", "get", "nextWriter", "write"},
                  status : Status, conn : Conn \cup {None}]
UpdaterRecord == [pc : {"idle", "send", "write"}, status : Status, conn : Conn \cup {None}]
PageRecord == [listed : BOOLEAN, list : Status, update : Status]

Types ==
    /\ stored \in Status
    /\ socketConn \in Conn \cup {None}
    /\ link \in [Conn -> {"new", "open", "broken"}]
    /\ writer \in [Conn -> Conn \cup Updater \cup {None}]
    /\ wire \in [Conn -> Seq(Message)]
    /\ handler \in [Conn -> HandlerRecord]
    /\ \A c \in Conn : handler[c].pc = "write" => handler[c].conn \in Conn
    /\ updater \in [Updater -> UpdaterRecord]
    /\ \A u \in Updater : updater[u].pc = "write" => updater[u].conn \in Conn
    /\ page \in [Conn -> PageRecord]
    /\ disturbed \subseteq Conn
    /\ unserved \subseteq Conn

LEMMA TypesGiveTypeOK == Types => TypeOK
  BY DEF TypeOK, Types, HandlerRecord, UpdaterRecord, PageRecord

LEMMA Numbers == Status \subseteq Nat /\ 0 \in Status /\ 1 \in Status
  BY DashboardAssumption DEF Status

\* Idle and busy goroutines are records of their types.
LEMMA AtType ==
  ASSUME NEW pc, NEW s \in Status, NEW c \in Conn \cup {None}
  PROVE  /\ At(pc, s, c).pc = pc /\ At(pc, s, c).status = s /\ At(pc, s, c).conn = c
         /\ pc \in {"idle", "keys", "get", "nextWriter", "write"} =>
              At(pc, s, c) \in HandlerRecord
         /\ pc \in {"idle", "send", "write"} => At(pc, s, c) \in UpdaterRecord
  BY DEF At, HandlerRecord, UpdaterRecord

LEMMA IdleType ==
    Idle.pc = "idle" /\ Idle \in HandlerRecord /\ Idle \in UpdaterRecord
  BY Numbers DEF Idle, HandlerRecord, UpdaterRecord

LEMMA InitTypes == PagesInit => Types
<1> SUFFICES ASSUME PagesInit PROVE Types
  OBVIOUS
<1> USE DashboardAssumption, Numbers DEF PagesInit, Init
<1>1. stored \in Status
  BY DEF Status
<1>2. page \in [Conn -> PageRecord]
  BY DEF PageRecord
<1> QED
  BY <1>1, <1>2, IdleType DEF Types

\* What Flush does to the wires.
LEMMA FlushType ==
  ASSUME Types, NEW w, NEW c \in Conn, NEW k \in {"list", "status"}, NEW s \in Status,
         Flush(w, c, [kind |-> k, status |-> s])
  PROVE  wire' \in [Conn -> Seq(Message)]
<1> DEFINE m == [kind |-> k, status |-> s]
<1>1. m \in Message
  BY DEF Message
<1>2. wire \in [Conn -> Seq(Message)] /\ wire[c] \in Seq(Message)
  BY DEF Types
<1>3. wire' = [wire EXCEPT ![c] = Append(@, m)] \/ wire' = wire
  BY DEF Flush
<1> HIDE DEF m
<1>4. Append(wire[c], m) \in Seq(Message)
  BY <1>1, <1>2
<1> QED
  BY <1>2, <1>3, <1>4

\* What an update does to the pages.
LEMMA PageUpdate ==
  ASSUME Types, NEW c \in Conn, NEW s \in Status
  PROVE  [page EXCEPT ![c].update = s] \in [Conn -> PageRecord]
<1>1. [page[c] EXCEPT !.update = s] \in PageRecord
  BY DEF Types, PageRecord
<1> QED
  BY <1>1 DEF Types

\* The message that comes first, and those behind it.
LEMMA HeadType ==
  ASSUME Types, NEW c \in Conn, wire[c] # <<>>
  PROVE  Head(wire[c]).status \in Status /\ Tail(wire[c]) \in Seq(Message)
<1>1. wire[c] \in Seq(Message)
  BY DEF Types
<1>2. Head(wire[c]) \in Message /\ Tail(wire[c]) \in Seq(Message)
  BY <1>1
<1> QED
  BY <1>2 DEF Message

LEMMA TypeStep == Types /\ [Next]_vars => Types'
<1> SUFFICES ASSUME Types, [Next]_vars
             PROVE  Types'
  OBVIOUS
<1> USE Numbers DEF Types
<1>1. ASSUME NEW c \in Conn, Connect(c) \/ ReadKeys(c) \/ ReadStatus(c) \/ ReadFails(c)
      PROVE  Types'
  <2>1. CASE Connect(c)
    BY <2>1, AtType DEF Connect
  <2>2. CASE ReadKeys(c)
    <3>1. PICK h \in HandlerRecord : h.pc # "write" /\ handler' = [handler EXCEPT ![c] = h]
      BY <2>2, AtType DEF ReadKeys
    <3>2. unserved' \subseteq Conn
      BY <2>2 DEF ReadKeys
    <3> QED
      BY <2>2, <3>1, <3>2 DEF ReadKeys
  <2>3. CASE ReadStatus(c)
    BY <2>3, AtType DEF ReadStatus
  <2>4. CASE ReadFails(c)
    BY <2>4, IdleType DEF ReadFails
  <2> QED
    BY <1>1, <2>1, <2>2, <2>3, <2>4
<1>2. ASSUME NEW c \in Conn, ListNextWriter(c)
      PROVE  Types'
  <2>1. handler[c].status \in Status
    BY DEF HandlerRecord
  <2>2. PICK h \in HandlerRecord : h.conn \in Conn /\ handler' = [handler EXCEPT ![c] = h]
    <3> DEFINE h == At("write", handler[c].status, socketConn)
    <3>1. socketConn \in Conn /\ handler' = [handler EXCEPT ![c] = h]
      BY <1>2 DEF ListNextWriter
    <3>2. h \in HandlerRecord /\ h.conn = socketConn
      BY <2>1, <3>1 DEF At, HandlerRecord
    <3> QED
      BY <3>1, <3>2
  <2>3. writer' \in [Conn -> Conn \cup Updater \cup {None}] /\ unserved' \subseteq Conn
    <3>1. socketConn \in Conn /\ writer' = [writer EXCEPT ![socketConn] = c]
      BY <1>2 DEF ListNextWriter, OpenWriter
    <3> QED
      BY <1>2, <3>1 DEF ListNextWriter
  <2> QED
    <3>1. handler' \in [Conn -> HandlerRecord]
      BY <2>2
    <3>2. \A d \in Conn : handler'[d].pc = "write" => handler'[d].conn \in Conn
      BY <2>2
    <3> QED
      BY <1>2, <2>3, <3>1, <3>2 DEF ListNextWriter
<1>3. ASSUME NEW c \in Conn, WriteList(c)
      PROVE  Types'
  <2>1. handler[c].status \in Status
    BY DEF HandlerRecord
  <2>2. handler[c].conn \in Conn
    BY <1>3 DEF WriteList
  <2>3. wire' \in [Conn -> Seq(Message)]
    BY <1>3, <2>1, <2>2, FlushType DEF WriteList
  <2> QED
    BY <1>3, <2>3, IdleType DEF WriteList
<1>4. ASSUME NEW c \in Conn, Break(c)
      PROVE  Types'
  BY <1>4 DEF Break, served
<1>5. ASSUME NEW c \in Conn, ReceiveList(c)
      PROVE  Types'
  <2>1. Head(wire[c]).status \in Status /\ Tail(wire[c]) \in Seq(Message)
    BY <1>5, HeadType DEF ReceiveList
  <2>2. PICK p \in PageRecord : page' = [page EXCEPT ![c] = p]
    <3> DEFINE p == [listed |-> TRUE, list |-> Head(wire[c]).status,
                     update |-> IF Head(wire[c]).status = 0 THEN 0 ELSE page[c].update]
    <3>1. page[c].update \in Status
      BY DEF PageRecord
    <3>2. p \in PageRecord
      BY <2>1, <3>1 DEF PageRecord
    <3>3. page' = [page EXCEPT ![c] = p]
      BY <1>5 DEF ReceiveList
    <3> QED
      BY <3>2, <3>3
  <2>3. disturbed' \subseteq Conn /\ wire' = [wire EXCEPT ![c] = Tail(@)]
    BY <1>5 DEF ReceiveList
  <2> QED
    <3>1. page' \in [Conn -> PageRecord] /\ wire' \in [Conn -> Seq(Message)]
      BY <2>1, <2>2, <2>3
    <3> QED
      BY <1>5, <2>3, <3>1 DEF ReceiveList, served
<1>6. ASSUME NEW c \in Conn, ReceiveStatus(c)
      PROVE  Types'
  <2>1. Head(wire[c]).status \in Status /\ Tail(wire[c]) \in Seq(Message)
    BY <1>6, HeadType DEF ReceiveStatus
  <2>2. page' \in [Conn -> PageRecord]
    BY <1>6, <2>1, PageUpdate DEF ReceiveStatus
  <2>3. disturbed' \subseteq Conn /\ wire' = [wire EXCEPT ![c] = Tail(@)]
    BY <1>6 DEF ReceiveStatus
  <2> QED
    BY <1>6, <2>1, <2>2, <2>3 DEF ReceiveStatus, served
<1>7. ASSUME NEW c \in Conn, MinuteTick(c)
      PROVE  Types'
  <2>1. page[c].list \in Status
    BY DEF PageRecord
  <2>2. page' \in [Conn -> PageRecord]
    BY <1>7, <2>1, PageUpdate DEF MinuteTick
  <2> QED
    BY <1>7, <2>2 DEF MinuteTick, served
<1>8. ASSUME NEW u \in Updater, StoreFirst(u)
      PROVE  Types'
  BY <1>8 DEF StoreFirst, served
<1>9. ASSUME NEW u \in Updater, Store(u)
      PROVE  Types'
  <2>1. stored' \in Status
    BY <1>9, DashboardAssumption DEF Store, Status
  <2>2. updater' = [updater EXCEPT ![u] = At("send", stored', None)]
    BY <1>9 DEF Store
  <2>3. /\ At("send", stored', None) \in UpdaterRecord
        /\ At("send", stored', None).pc = "send"
    BY <2>1, AtType
  <2> QED
    BY <1>9, <2>1, <2>2, <2>3 DEF Store, served
<1>10. ASSUME NEW u \in Updater, SendNextWriter(u) \/ WriteStatus(u)
       PROVE  Types'
  <2>1. updater[u].status \in Status
    BY DEF UpdaterRecord
  <2>2. CASE SendNextWriter(u)
    <3>1. PICK v \in UpdaterRecord : /\ v.pc = "write" => v.conn \in Conn
                                    /\ updater' = [updater EXCEPT ![u] = v]
      <4> DEFINE v == At("write", updater[u].status, socketConn)
      <4>1. CASE socketConn \in Conn /\ updater' = [updater EXCEPT ![u] = v]
        <5>1. v \in UpdaterRecord /\ v.conn = socketConn
          BY <2>1, <4>1 DEF At, UpdaterRecord
        <5> QED
          BY <4>1, <5>1
      <4>2. CASE updater' = [updater EXCEPT ![u] = Idle]
        BY <4>2, IdleType
      <4> QED
        BY <2>2, <4>1, <4>2 DEF SendNextWriter
    <3>2. writer' \in [Conn -> Conn \cup Updater \cup {None}]
      BY <2>2 DEF SendNextWriter, OpenWriter
    <3> QED
      BY <2>2, <3>1, <3>2 DEF SendNextWriter, served
  <2>3. CASE WriteStatus(u)
    <3>1. updater[u].conn \in Conn
      BY <2>3 DEF WriteStatus
    <3>2. wire' \in [Conn -> Seq(Message)]
      BY <2>1, <2>3, <3>1, FlushType DEF WriteStatus
    <3>3. disturbed' \subseteq Conn /\ updater' = [updater EXCEPT ![u] = Idle]
      BY <2>3, <3>1 DEF WriteStatus
    <3> QED
      BY <2>3, <3>2, <3>3, IdleType DEF WriteStatus, served
  <2> QED
    BY <1>10, <2>2, <2>3
<1>11. CASE ConcurrentFlushPanics
  BY <1>11, IdleType DEF ConcurrentFlushPanics
<1>12. CASE UNCHANGED vars
  BY <1>12 DEF vars, served
<1> QED
  BY <1>1, <1>2, <1>3, <1>4, <1>5, <1>6, <1>7, <1>8, <1>9, <1>10, <1>11, <1>12 DEF Next

-----------------------------------------------------------------------------
(* The home page: the stored status is on its way *)

\* An update carries a status that was stored.
SentInv ==
    /\ \A u \in Updater : updater[u].pc # "idle" => updater[u].status # 0
    /\ \A c \in Conn : \A i \in 1 .. Len(wire[c]) :
        wire[c][i].kind = "status" => wire[c][i].status # 0

\* The list of c will carry the stored status, or does.
Listing(c) ==
    \/ handler[c].pc \in {"keys", "get"}
    \/ handler[c].pc = "nextWriter" /\ handler[c].status = stored
    \/ handler[c].pc = "write" /\ handler[c].conn = c /\ handler[c].status = stored

\* An update with the stored status is about to be written to c.
Updating(c) ==
    \E u \in Updater :
        /\ updater[u].status = stored
        /\ updater[u].pc = "send" \/ (updater[u].pc = "write" /\ updater[u].conn = c)

OnWire(c) == \E i \in 1 .. Len(wire[c]) : wire[c][i].status = stored

Carried(c) == Listing(c) \/ Updating(c) \/ OnWire(c) \/ Shown(page[c]) = stored

Served(c) == socketConn = c /\ link[c] = "open" /\ c \notin unserved

CarryInv == \A c \in Conn : Served(c) => c \in disturbed \/ Carried(c)

HomeInv == Types /\ SentInv /\ CarryInv

LEMMA InitHome == PagesInit => HomeInv
<1> SUFFICES ASSUME PagesInit PROVE HomeInv
  OBVIOUS
<1>1. SentInv
  BY DEF PagesInit, Init, SentInv, Idle
<1>2. CarryInv
  BY DashboardAssumption DEF PagesInit, Init, CarryInv, Served
<1> QED
  BY <1>1, <1>2, InitTypes DEF HomeInv

\* What stays on a wire that a message is appended to or taken from.
LEMMA Appended ==
  ASSUME NEW q \in Seq(Message), NEW m \in Message
  PROVE  /\ Len(Append(q, m)) = Len(q) + 1
         /\ \A i \in 1 .. Len(q) : Append(q, m)[i] = q[i]
         /\ Append(q, m)[Len(q) + 1] = m
  OBVIOUS

LEMMA Taken ==
  ASSUME NEW q \in Seq(Message), q # <<>>
  PROVE  /\ Len(Tail(q)) = Len(q) - 1 /\ Len(q) \in Nat \ {0}
         /\ Head(q) = q[1] /\ Head(q) \in Message
         /\ \A i \in 2 .. Len(q) : i - 1 \in 1 .. Len(Tail(q)) /\ Tail(q)[i - 1] = q[i]
         /\ \A i \in 1 .. Len(Tail(q)) : i + 1 \in 1 .. Len(q) /\ Tail(q)[i] = q[i + 1]
  OBVIOUS

\* A written message is on the wire, and so are those before it.
LEMMA Written ==
  ASSUME Types, NEW w, NEW d \in Conn, NEW m \in Message, Flush(w, d, m),
         stored' = stored
  PROVE  /\ \A c \in Conn : OnWire(c) => OnWire(c)'
         /\ writer[d] = w /\ link[d] = "open" /\ m.status = stored => OnWire(d)'
         /\ \A c \in Conn : \A i \in 1 .. Len(wire'[c]) :
                \/ i \in 1 .. Len(wire[c]) /\ wire'[c][i] = wire[c][i]
                \/ wire'[c][i] = m
<1>1. wire \in [Conn -> Seq(Message)] /\ wire[d] \in Seq(Message) /\ Len(wire[d]) \in Nat
  BY DEF Types
<1>2. CASE writer[d] = w /\ link[d] = "open"
  <2>1. wire' = [wire EXCEPT ![d] = Append(@, m)]
    BY <1>2 DEF Flush
  <2>2. wire'[d] = Append(wire[d], m) /\ \A c \in Conn \ {d} : wire'[c] = wire[c]
    BY <1>1, <2>1
  <2>3. /\ Len(wire'[d]) = Len(wire[d]) + 1
        /\ \A i \in 1 .. Len(wire[d]) : wire'[d][i] = wire[d][i]
        /\ wire'[d][Len(wire[d]) + 1] = m
    BY <1>1, <2>2, Appended
  <2>4. OnWire(d) => OnWire(d)'
    BY <1>1, <2>3 DEF OnWire
  <2>5. m.status = stored => OnWire(d)'
    BY <1>1, <2>3 DEF OnWire
  <2>6. \A i \in 1 .. Len(wire'[d]) : i \in 1 .. Len(wire[d]) \/ i = Len(wire[d]) + 1
    BY <1>1, <2>3
  <2> QED
    BY <2>2, <2>3, <2>4, <2>5, <2>6 DEF OnWire
<1>3. CASE ~(writer[d] = w /\ link[d] = "open")
  BY <1>3 DEF Flush, OnWire
<1> QED
  BY <1>2, <1>3

LEMMA Received ==
  ASSUME Types, NEW d \in Conn, wire[d] # <<>>, wire' = [wire EXCEPT ![d] = Tail(@)],
         stored' = stored
  PROVE  /\ \A c \in Conn : OnWire(c) =>
                OnWire(c)' \/ (c = d /\ Head(wire[d]).status = stored)
         /\ \A c \in Conn : \A i \in 1 .. Len(wire'[c]) :
                \E j \in 1 .. Len(wire[c]) : wire'[c][i] = wire[c][j]
<1>1. wire \in [Conn -> Seq(Message)] /\ wire[d] \in Seq(Message)
  BY DEF Types
<1>2. wire'[d] = Tail(wire[d]) /\ \A c \in Conn \ {d} : wire'[c] = wire[c]
  BY <1>1
<1>3. OnWire(d) => OnWire(d)' \/ Head(wire[d]).status = stored
  <2> SUFFICES ASSUME NEW i \in 1 .. Len(wire[d]), wire[d][i].status = stored, i # 1
               PROVE  OnWire(d)'
    BY <1>1, Taken DEF OnWire
  <2>1. i \in 2 .. Len(wire[d])
    BY <1>1
  <2>2. i - 1 \in 1 .. Len(Tail(wire[d])) /\ Tail(wire[d])[i - 1] = wire[d][i]
    BY <1>1, <2>1, Taken
  <2>3. i - 1 \in 1 .. Len(wire'[d]) /\ wire'[d][i - 1].status = stored'
    BY <1>2, <2>2
  <2> QED
    BY <2>3 DEF OnWire
<1>4. \A i \in 1 .. Len(wire'[d]) :
        i + 1 \in 1 .. Len(wire[d]) /\ wire'[d][i] = wire[d][i + 1]
  BY <1>1, <1>2, Taken
<1>5. \A c \in Conn : \A i \in 1 .. Len(wire'[c]) :
        \E j \in 1 .. Len(wire[c]) : wire'[c][i] = wire[c][j]
  <2> SUFFICES ASSUME NEW c \in Conn, NEW i \in 1 .. Len(wire'[c])
               PROVE  \E j \in 1 .. Len(wire[c]) : wire'[c][i] = wire[c][j]
    OBVIOUS
  <2>1. CASE c = d
    BY <1>4, <2>1
  <2>2. CASE c # d
    BY <1>2, <2>2
  <2> QED
    BY <2>1, <2>2
<1>6. \A c \in Conn \ {d} : OnWire(c) => OnWire(c)'
  BY <1>2 DEF OnWire
<1> QED
  BY <1>3, <1>5, <1>6

LEMMA SentStep == HomeInv /\ [Next]_vars => SentInv'
<1> SUFFICES ASSUME HomeInv, [Next]_vars
             PROVE  SentInv'
  OBVIOUS
<1> USE Numbers DEF HomeInv, SentInv
<1>1. CASE UNCHANGED <<updater, wire>>
  BY <1>1
<1>2. ASSUME NEW c \in Conn,
             \/ Connect(c) \/ ReadKeys(c) \/ ReadStatus(c) \/ ReadFails(c)
             \/ ListNextWriter(c) \/ Break(c) \/ MinuteTick(c)
      PROVE  SentInv'
  BY <1>1, <1>2 DEF Connect, ReadKeys, ReadStatus, ReadFails, ListNextWriter, Break, MinuteTick
<1>3. ASSUME NEW c \in Conn, WriteList(c)
      PROVE  SentInv'
  <2>1. handler[c].status \in Status /\ handler[c].conn \in Conn
    BY <1>3 DEF WriteList, Types, HandlerRecord
  <2>2. /\ Flush(c, handler[c].conn, [kind |-> "list", status |-> handler[c].status])
        /\ UNCHANGED <<stored, updater>>
    BY <1>3 DEF WriteList
  <2>3. \A d \in Conn : \A i \in 1 .. Len(wire'[d]) :
          \/ i \in 1 .. Len(wire[d]) /\ wire'[d][i] = wire[d][i]
          \/ wire'[d][i].kind = "list"
    <3> DEFINE m == [kind |-> "list", status |-> handler[c].status]
    <3>1. m \in Message /\ m.kind = "list" /\ Flush(c, handler[c].conn, m)
      BY <2>1, <2>2 DEF Message
    <3> HIDE DEF m
    <3> QED
      BY <2>1, <2>2, <3>1, Written
  <2> QED
    BY <2>2, <2>3
<1>4. ASSUME NEW c \in Conn, ReceiveList(c) \/ ReceiveStatus(c)
      PROVE  SentInv'
  <2>1. /\ wire[c] # <<>> /\ wire' = [wire EXCEPT ![c] = Tail(@)]
        /\ UNCHANGED <<stored, updater>>
    BY <1>4 DEF ReceiveList, ReceiveStatus
  <2> QED
    BY <2>1, Received
<1>5. ASSUME NEW u \in Updater, StoreFirst(u) \/ Store(u)
      PROVE  SentInv'
  <2>1. CASE StoreFirst(u)
    BY <1>1, <2>1 DEF StoreFirst
  <2>2. CASE Store(u)
    <3>1. /\ stored > 0 /\ stored' = stored + 1 /\ UNCHANGED wire
          /\ updater' = [updater EXCEPT ![u] = At("send", stored', None)]
      BY <2>2 DEF Store
    <3>2. stored' # 0 /\ At("send", stored', None).status = stored'
      BY <3>1 DEF At, Types
    <3> QED
      BY <3>1, <3>2 DEF Types
  <2> QED
    BY <1>5, <2>1, <2>2
<1>6. ASSUME NEW u \in Updater, SendNextWriter(u)
      PROVE  SentInv'
  <2>1. updater[u].status # 0
    BY <1>6 DEF SendNextWriter
  <2>2. UNCHANGED wire
    BY <1>6 DEF SendNextWriter
  <2>3. CASE updater' = [updater EXCEPT ![u] = At("write", @.status, socketConn)]
    BY <2>1, <2>2, <2>3 DEF At, Types
  <2>4. CASE updater' = [updater EXCEPT ![u] = Idle]
    BY <2>2, <2>4, IdleType DEF Types
  <2> QED
    BY <1>6, <2>3, <2>4 DEF SendNextWriter
<1>7. ASSUME NEW u \in Updater, WriteStatus(u)
      PROVE  SentInv'
  <2>1. /\ updater[u].status \in Status /\ updater[u].conn \in Conn
        /\ updater[u].status # 0
    BY <1>7 DEF WriteStatus, Types, UpdaterRecord
  <2>2. /\ Flush(u, updater[u].conn, [kind |-> "status", status |-> updater[u].status])
        /\ updater' = [updater EXCEPT ![u] = Idle] /\ UNCHANGED stored
    BY <1>7 DEF WriteStatus
  <2>3. \A v \in Updater : updater'[v].pc # "idle" => updater'[v].status # 0
    BY <2>2, IdleType DEF Types
  <2>4. \A d \in Conn : \A i \in 1 .. Len(wire'[d]) :
          \/ i \in 1 .. Len(wire[d]) /\ wire'[d][i] = wire[d][i]
          \/ wire'[d][i].status = updater[u].status
    <3> DEFINE m == [kind |-> "status", status |-> updater[u].status]
    <3>1. m \in Message /\ m.status = updater[u].status /\ Flush(u, updater[u].conn, m)
      BY <2>1, <2>2 DEF Message
    <3> HIDE DEF m
    <3> QED
      BY <2>1, <2>2, <3>1, Written
  <2> QED
    BY <2>1, <2>3, <2>4
<1>8. CASE ConcurrentFlushPanics
  BY <1>8, IdleType DEF ConcurrentFlushPanics
<1>9. CASE UNCHANGED vars
  BY <1>1, <1>9 DEF vars
<1> QED
  BY <1>2, <1>3, <1>4, <1>5, <1>6, <1>7, <1>8, <1>9 DEF Next

\* A step that stores nothing and takes nothing off the way to c keeps what is
\* on it.
LEMMA Kept ==
  ASSUME NEW c \in Conn, stored' = stored, Carried(c),
         Listing(c) => Listing(c)', Updating(c) => Updating(c)',
         OnWire(c) => OnWire(c)', Shown(page[c]) = stored => Shown(page'[c]) = stored
  PROVE  Carried(c)'
  BY DEF Carried

\* A list is a message.
LEMMA ListFlush ==
  ASSUME Types, NEW d \in Conn, WriteList(d)
  PROVE  \E m \in Message : /\ m.status = handler[d].status
                             /\ Flush(d, handler[d].conn, m)
                             /\ handler[d].conn \in Conn
<1> DEFINE m == [kind |-> "list", status |-> handler[d].status]
<1>1. m \in Message
  BY DEF Types, HandlerRecord, Message
<1>2. Flush(d, handler[d].conn, m) /\ handler[d].conn \in Conn
  BY DEF WriteList, Types
<1> QED
  BY <1>1, <1>2

LEMMA UpdateFlush ==
  ASSUME Types, NEW u \in Updater, WriteStatus(u)
  PROVE  \E m \in Message : /\ m.status = updater[u].status
                             /\ Flush(u, updater[u].conn, m)
                             /\ updater[u].conn \in Conn
<1> DEFINE m == [kind |-> "status", status |-> updater[u].status]
<1>1. m \in Message
  BY DEF Types, UpdaterRecord, Message
<1>2. Flush(u, updater[u].conn, m) /\ updater[u].conn \in Conn
  BY DEF WriteStatus, Types
<1> QED
  BY <1>1, <1>2

\* The steps of serveWs.
LEMMA HandlerCarries ==
  ASSUME HomeInv, NEW d \in Conn,
         Connect(d) \/ ReadKeys(d) \/ ReadStatus(d) \/ ReadFails(d)
           \/ ListNextWriter(d) \/ WriteList(d),
         NEW c \in Conn, Served(c)', c \notin disturbed'
  PROVE  Carried(c)'
<1> USE DEF HomeInv, Types
<1>1. CASE Connect(d)
  <2>1. c = d /\ handler' = [handler EXCEPT ![d] = At("keys", 0, None)]
    BY <1>1 DEF Connect, Served
  <2>2. handler'[c].pc = "keys"
    BY <2>1 DEF At
  <2> QED
    BY <2>2 DEF Carried, Listing
<1> SUFFICES ASSUME ~Connect(d) PROVE Carried(c)'
  BY <1>1
<1>2. /\ UNCHANGED <<stored, socketConn, link, updater, page, disturbed>>
      /\ unserved \subseteq unserved'
  BY DEF ReadKeys, ReadStatus, ReadFails, ListNextWriter, WriteList
<1>3. Served(c) /\ c \notin disturbed /\ Carried(c)
  BY <1>2 DEF Served, CarryInv
<1>4. /\ Updating(c) => Updating(c)'
      /\ Shown(page[c]) = stored => Shown(page'[c]) = stored
  BY <1>2 DEF Updating
<1>5. OnWire(c) => OnWire(c)'
  <2>1. CASE UNCHANGED wire
    BY <1>2, <2>1 DEF OnWire
  <2>2. CASE WriteList(d)
    BY <1>2, <2>2, ListFlush, Written DEF WriteList
  <2> QED
    BY <2>1, <2>2 DEF ReadKeys, ReadStatus, ReadFails, ListNextWriter
<1>6. Listing(c) => Carried(c)'
  <2>1. CASE c # d
    <3>1. handler'[c] = handler[c]
      BY <2>1 DEF ReadKeys, ReadStatus, ReadFails, ListNextWriter, WriteList
    <3> QED
      BY <1>2, <3>1 DEF Listing, Carried
  <2>2. CASE c = d /\ ReadKeys(d)
    <3>1. CASE handler' = [handler EXCEPT ![d] = At("get", 0, None)]
      BY <2>2, <3>1 DEF At, Carried, Listing
    <3>2. CASE handler' = [handler EXCEPT ![d] = At("nextWriter", 0, None)] /\ stored = 0
      BY <1>2, <2>2, <3>2 DEF At, Carried, Listing
    <3> QED
      BY <1>2, <2>2, <3>1, <3>2 DEF ReadKeys, Served
  <2>3. CASE c = d /\ ReadStatus(d)
    <3>1. handler'[d] = At("nextWriter", stored, None)
      BY <2>3 DEF ReadStatus
    <3> QED
      BY <1>2, <2>3, <3>1 DEF At, Carried, Listing
  <2>4. CASE c = d /\ ReadFails(d)
    BY <2>4 DEF ReadFails, Served
  <2>5. CASE c = d /\ ListNextWriter(d)
    <3>1. handler[d].pc = "nextWriter" /\ socketConn = d
      BY <1>3, <2>5 DEF ListNextWriter, Served
    <3>2. handler'[d] = At("write", handler[d].status, d)
      BY <2>5, <3>1 DEF ListNextWriter
    <3> QED
      BY <1>2, <2>5, <3>1, <3>2 DEF At, Carried, Listing
  <2>6. CASE c = d /\ WriteList(d)
    <3>1. handler[d].pc = "write" /\ writer[handler[d].conn] = d
      BY <1>2, <2>6 DEF WriteList, Served
    <3>2. ASSUME handler[d].conn = d, handler[d].status = stored
          PROVE  OnWire(d)'
      <4>1. PICK m \in Message : m.status = stored /\ Flush(d, d, m)
        BY <2>6, <3>2, ListFlush
      <4>2. writer[d] = d /\ link[d] = "open"
        BY <1>3, <2>6, <3>1, <3>2 DEF Served
      <4> QED
        BY <1>2, <4>1, <4>2, Written
    <3> QED
      BY <2>6, <3>1, <3>2 DEF Listing, Carried
  <2> QED
    BY <2>1, <2>2, <2>3, <2>4, <2>5, <2>6
<1> QED
  BY <1>2, <1>3, <1>4, <1>5, <1>6 DEF Carried

\* The steps of the goroutines that store statuses.
LEMMA UpdaterCarries ==
  ASSUME HomeInv, NEW u \in Updater,
         StoreFirst(u) \/ Store(u) \/ SendNextWriter(u) \/ WriteStatus(u),
         NEW c \in Conn, Served(c)', c \notin disturbed'
  PROVE  Carried(c)'
<1> USE DEF HomeInv, Types
<1>1. CASE StoreFirst(u)
  <2>1. link'[c] = "open" /\ UNCHANGED <<link, handler>>
        /\ c \notin {e \in Conn : link[e] # "new" /\ handler[e].pc # "keys"}
    BY <1>1 DEF StoreFirst, Served, served
  <2> QED
    BY <2>1 DEF Carried, Listing
<1>2. CASE Store(u)
  <2>1. updater'[u] = At("send", stored', None)
    BY <1>2 DEF Store
  <2>2. updater'[u].pc = "send" /\ updater'[u].status = stored'
    BY <2>1 DEF At
  <2> QED
    BY <2>2 DEF Carried, Updating
<1> SUFFICES ASSUME SendNextWriter(u) \/ WriteStatus(u)
             PROVE  Carried(c)'
  BY <1>1, <1>2
<1>3. UNCHANGED <<stored, socketConn, link, served, page>> /\ disturbed \subseteq disturbed'
  BY DEF SendNextWriter, WriteStatus
<1>4. Served(c) /\ c \notin disturbed /\ Carried(c)
  BY <1>3 DEF Served, CarryInv, served
<1>5. /\ Listing(c) => Listing(c)'
      /\ Shown(page[c]) = stored => Shown(page'[c]) = stored
  BY <1>3 DEF Listing, served
<1>6. OnWire(c) => OnWire(c)'
  <2>1. CASE SendNextWriter(u)
    BY <1>3, <2>1 DEF OnWire, SendNextWriter
  <2>2. CASE WriteStatus(u)
    BY <1>3, <2>2, UpdateFlush, Written
  <2> QED
    BY <2>1, <2>2
<1>7. Updating(c) => Carried(c)'
  <2> SUFFICES ASSUME NEW v \in Updater, updater[v].status = stored,
                      updater[v].pc = "send" \/ (updater[v].pc = "write" /\ updater[v].conn = c)
               PROVE  Carried(c)'
    BY DEF Updating
  <2>1. CASE v # u
    <3>1. updater'[v] = updater[v]
      BY <2>1 DEF SendNextWriter, WriteStatus
    <3> QED
      BY <1>3, <3>1 DEF Carried, Updating
  <2>2. CASE v = u /\ SendNextWriter(u)
    <3>1. socketConn = c /\ c # None
      BY <1>4, DashboardAssumption DEF Served
    <3>2. updater'[u] = At("write", updater[u].status, c)
      BY <2>2, <3>1 DEF SendNextWriter
    <3>3. updater'[u].pc = "write" /\ updater'[u].conn = c /\ updater'[u].status = stored'
      BY <1>3, <2>2, <3>2 DEF At
    <3> QED
      BY <3>3 DEF Carried, Updating
  <2>3. CASE v = u /\ WriteStatus(u)
    <3>1. updater[u].conn = c /\ writer[c] = u /\ link[c] = "open"
      <4>1. updater[u].pc = "write" /\ updater[u].conn = c /\ updater[u].status = stored
        BY <2>3 DEF WriteStatus
      <4>2. \A e \in {c} : writer[e] # u => e \in disturbed'
        BY <2>3, <4>1 DEF WriteStatus
      <4>3. writer[c] = u
        BY <4>2
      <4> QED
        BY <1>4, <4>1, <4>3 DEF Served
    <3>2. PICK m \in Message : m.status = stored /\ Flush(u, c, m)
      <4>1. updater[u].status = stored
        BY <2>3
      <4>2. PICK m \in Message : m.status = updater[u].status /\ Flush(u, updater[u].conn, m)
        BY <2>3, UpdateFlush
      <4> QED
        BY <3>1, <4>1, <4>2
    <3>3. stored' = stored
      BY <1>3
    <3>4. OnWire(c)'
      <4> HIDE DEF Types, HomeInv
      <4>1. Types
        BY DEF HomeInv
      <4> QED
        BY <3>1, <3>2, <3>3, <4>1, Written
    <3> QED
      BY <3>4 DEF Carried
  <2> QED
    BY <2>1, <2>2, <2>3
<1> QED
  BY <1>3, <1>4, <1>5, <1>6, <1>7 DEF Carried

\* The steps of the page and the connection.
LEMMA PageCarries ==
  ASSUME HomeInv, NEW d \in Conn,
         Break(d) \/ ReceiveList(d) \/ ReceiveStatus(d) \/ MinuteTick(d),
         NEW c \in Conn, Served(c)', c \notin disturbed'
  PROVE  Carried(c)'
<1> USE DEF HomeInv, Types
<1>1. /\ UNCHANGED <<stored, socketConn, handler, unserved, updater>>
      /\ disturbed \subseteq disturbed'
      /\ link'[c] = "open" => link[c] = "open"
  BY DEF Break, ReceiveList, ReceiveStatus, MinuteTick, served
<1>2. Served(c) /\ c \notin disturbed /\ Carried(c)
  BY <1>1 DEF Served, CarryInv
<1>3. (Listing(c) => Listing(c)') /\ (Updating(c) => Updating(c)')
  BY <1>1 DEF Listing, Updating
<1>4. CASE Break(d)
  BY <1>1, <1>2, <1>3, <1>4 DEF Break, Carried, OnWire
<1>5. CASE MinuteTick(d)
  <2>1. page' = [page EXCEPT ![d].update = page[d].list] /\ UNCHANGED wire
    BY <1>5 DEF MinuteTick
  <2>2. page[d].list # 0 /\ page[d].update = 0
    BY <1>5 DEF MinuteTick, Mounted
  <2>3. page[d] \in PageRecord
    OBVIOUS
  <2>4. page'[d].list = page[d].list /\ page'[d].update = page[d].list
    BY <2>1, <2>3 DEF PageRecord
  <2>5. Shown(page'[d]) = Shown(page[d])
    BY <2>2, <2>4 DEF Shown
  <2>6. Shown(page'[c]) = Shown(page[c])
    BY <2>1, <2>5
  <2> QED
    BY <1>1, <1>2, <1>3, <2>1, <2>6 DEF Carried, OnWire
<1> SUFFICES ASSUME ReceiveList(d) \/ ReceiveStatus(d)
             PROVE  Carried(c)'
  BY <1>4, <1>5
<1>6. wire[d] # <<>> /\ wire' = [wire EXCEPT ![d] = Tail(@)]
  BY DEF ReceiveList, ReceiveStatus
<1>7. OnWire(c) => OnWire(c)' \/ (c = d /\ Head(wire[d]).status = stored)
  BY <1>1, <1>6, Received
<1>8. CASE c # d
  <2>1. page'[c] = page[c]
    BY <1>8 DEF ReceiveList, ReceiveStatus
  <2> QED
    BY <1>1, <1>2, <1>3, <1>7, <1>8, <2>1 DEF Carried
<1>9. CASE c = d
  <2> SUFFICES ASSUME Head(wire[d]).status = stored \/ Shown(page[d]) = stored
               PROVE  Shown(page'[d]) = stored
    BY <1>1, <1>2, <1>3, <1>7, <1>9 DEF Carried
  <2>1. CASE ReceiveList(d)
    <3> DEFINE s == Head(wire[d]).status
               p == [listed |-> TRUE, list |-> s, update |-> IF s = 0 THEN 0 ELSE page[d].update]
    <3>1. /\ page' = [page EXCEPT ![d] = p]
          /\ stored \in {s, Shown(page[d])} /\ Shown(p) # stored => d \in disturbed'
      BY <2>1 DEF ReceiveList
    <3> HIDE DEF p
    <3>2. page'[d] = p
      BY <3>1
    <3> QED
      BY <1>9, <3>1, <3>2
  <2>2. CASE ReceiveStatus(d) /\ ~Mounted(d)
    <3>1. page' = page /\ Head(wire[d]).status # stored
      BY <1>9, <2>2 DEF ReceiveStatus
    <3> QED
      BY <3>1
  <2>3. CASE ReceiveStatus(d) /\ Mounted(d)
    <3>1. /\ page' = [page EXCEPT ![d].update = Head(wire[d]).status]
          /\ Head(wire[d]).status = stored
      BY <1>9, <2>3 DEF ReceiveStatus
    <3>2. page[d] \in PageRecord /\ page[d].list # 0
      BY <2>3 DEF Mounted
    <3>3. page'[d].update = stored /\ page'[d].list = page[d].list
      BY <3>1, <3>2 DEF PageRecord
    <3>4. Head(wire[d]).status # 0
      <4>1. Head(wire[d]) = wire[d][1] /\ Len(wire[d]) \in Nat \ {0}
        BY <1>6, Taken
      <4>2. Head(wire[d]).kind = "status"
        BY <2>3 DEF ReceiveStatus
      <4> QED
        BY <4>1, <4>2 DEF SentInv
    <3> QED
      BY <3>1, <3>2, <3>3, <3>4 DEF Shown
  <2> QED
    BY <2>1, <2>2, <2>3
<1> QED
  BY <1>8, <1>9

LEMMA HomeStep == HomeInv /\ [Next]_vars => HomeInv'
<1> SUFFICES ASSUME HomeInv, [Next]_vars
             PROVE  HomeInv'
  OBVIOUS
<1>1. Types' /\ SentInv'
  BY TypeStep, SentStep DEF HomeInv
<1>2. ASSUME NEW c \in Conn, Served(c)', c \notin disturbed'
      PROVE  Carried(c)'
  <2>1. CASE ConcurrentFlushPanics
    BY <1>2, <2>1, DashboardAssumption DEF ConcurrentFlushPanics, Served
  <2>2. CASE UNCHANGED vars
    <3>1. Served(c) /\ c \notin disturbed /\ Carried(c)
      BY <1>2, <2>2 DEF vars, served, Served, HomeInv, CarryInv
    <3> QED
      BY <2>2, <3>1 DEF vars, served, Carried, Listing, Updating, OnWire
  <2> QED
    BY <1>2, <2>1, <2>2, HandlerCarries, UpdaterCarries, PageCarries DEF Next
<1> QED
  BY <1>1, <1>2 DEF HomeInv, CarryInv

LEMMA HomePart == [PagesNext]_pagesVars => [Next]_vars
  BY DEF PagesNext, pagesVars

LEMMA HomeInvAlways == PagesSpec => []HomeInv
<1>1. HomeInv /\ [PagesNext]_pagesVars => HomeInv'
  BY HomeStep, HomePart
<1> QED
  BY <1>1, InitHome, PTL DEF PagesSpec

\* When nothing is under way the newest page shows the stored status, for any number
\* of pages, of goroutines and of statuses, unless its list did not reach it whole,
\* or the status was the sensor's first and not in the list, reached a page without
\* the sensor, was lost to another writer, was followed by an older status or list,
\* or came in a list passed over (socket.go:24-66, web.go:264-302,
\* server.go:432-439, HomePage.js:67-73).
THEOREM PageShowsStoredAlways == PagesSpec => []PageShowsStored
<1>1. HomeInv => PageShowsStored
  <2> SUFFICES ASSUME HomeInv, NEW c \in Conn, Served(c), Calm(c), c \notin disturbed
               PROVE  Shown(page[c]) = stored
    BY DEF PageShowsStored, Served
  <2>1. ~Listing(c) /\ ~Updating(c) /\ ~OnWire(c)
    BY DEF Calm, Listing, Updating, OnWire
  <2> QED
    BY <2>1 DEF HomeInv, CarryInv, Carried
<1> QED
  BY <1>1, HomeInvAlways, PTL

-----------------------------------------------------------------------------
(* The report: types *)

FetchRecord == [pc : {"free", "select", "count", "reply"}, sensor : R!Choice,
                page : Nat \ {0}, rows : SUBSET R!Row, null : BOOLEAN, numPages : Nat]
ViewRecord == [sensor : R!Choice, page : Nat \ {0}, numPages : Nat]
WalkRecord == [on : BOOLEAN, page : Nat, fetch : SUBSET Fetch, owed : SUBSET R!Row]

ReportTypes ==
    /\ inserted \in 0 .. MaxRows /\ table \subseteq 1 .. inserted
    /\ stamp \in [R!Row -> Stamp \cup {0}] /\ source \in [R!Row -> R!Choice]
    /\ fetch \in [Fetch -> FetchRecord]
    /\ view \in ViewRecord
    /\ walk \in WalkRecord /\ walk.owed \subseteq table
    /\ \A f \in Fetch : fetch[f].rows \subseteq table /\ Cardinality(fetch[f].rows) <= Limit

LEMMA Bounds == MaxRows \in Nat /\ Limit \in Nat \ {0} /\ Stamp \subseteq Nat
  BY PagesAssumption DEF R!ReportAssumption

\* The instance counts as the library does.
LEMMA Counting == \A S : R!Cardinality(S) = Cardinality(S)
  BY DEF R!Cardinality, Cardinality

\* Every set of rows is finite, and a larger one has no fewer of them.
LEMMA Rows ==
  ASSUME NEW B \in SUBSET R!Row, NEW A \in SUBSET B
  PROVE  /\ IsFiniteSet(A) /\ IsFiniteSet(B)
         /\ Cardinality(A) \in Nat /\ Cardinality(B) \in Nat
         /\ Cardinality(A) <= Cardinality(B)
         /\ Cardinality(A) = Cardinality(B) => A = B
         /\ Cardinality(B \ A) = Cardinality(B) - Cardinality(A)
<1>1. IsFiniteSet(1 .. MaxRows)
  BY Bounds, FS_Interval
<1>2. IsFiniteSet(B)
  BY <1>1, FS_Subset DEF R!Row
<1>3. /\ IsFiniteSet(A) /\ Cardinality(A) <= Cardinality(B)
      /\ Cardinality(A) = Cardinality(B) => A = B
  BY <1>2, FS_Subset
<1>4. Cardinality(B \ A) = Cardinality(B) - Cardinality(B \cap A)
  BY <1>2, <1>3, FS_Difference
<1>5. B \cap A = A
  OBVIOUS
<1> QED
  BY <1>2, <1>3, <1>4, <1>5, FS_CardinalityType

LEMMA Selections ==
  ASSUME NEW S \in SUBSET R!Row, NEW n \in Nat, NEW A \in R!FirstRows(S, n)
  PROVE  /\ A \subseteq S
         /\ Cardinality(A) <= n /\ Cardinality(A) <= Cardinality(S)
         /\ A # S => Cardinality(A) = n
         /\ \A a \in A, b \in S \ A : stamp[a] >= stamp[b]
<1>1. /\ A \subseteq S /\ Cardinality(A) = R!Smaller(n, Cardinality(S))
      /\ \A a \in A, b \in S \ A : stamp[a] >= stamp[b]
  BY Counting DEF R!FirstRows
<1>2. Cardinality(A) \in Nat /\ Cardinality(S) \in Nat /\ (Cardinality(A) = Cardinality(S) => A = S)
  BY <1>1, Rows
<1> QED
  BY <1>1, <1>2 DEF R!Smaller

LEMMA PageSize ==
  ASSUME NEW S \in SUBSET R!Row, NEW n \in Nat,
         NEW A \in R!FirstRows(S, n), NEW B \in R!FirstRows(S, n + Limit), A \subseteq B
  PROVE  B \ A \subseteq S /\ Cardinality(B \ A) <= Limit
<1>1. /\ B \subseteq S /\ Cardinality(B) <= n + Limit /\ Cardinality(B) <= Cardinality(S)
      /\ A \subseteq S /\ (A # S => Cardinality(A) = n)
  BY Bounds, Selections
<1>2. /\ Cardinality(B \ A) = Cardinality(B) - Cardinality(A)
      /\ Cardinality(A) \in Nat /\ Cardinality(B) \in Nat /\ Cardinality(S) \in Nat
  BY <1>1, Rows
<1> QED
  BY <1>1, <1>2, Bounds

\* The pages offered hold all the rows.
LEMMA PagesHoldRows ==
  ASSUME NEW count \in Nat
  PROVE  /\ R!NumPages(count) \in Nat
         /\ \A p \in Nat : count > Limit * p => R!NumPages(count) > p
<1> DEFINE d == (count + Limit - 1) \div Limit
           m == (count + Limit - 1) % Limit
<1>1. d \in Nat /\ m \in 0 .. Limit - 1 /\ count + Limit - 1 = Limit * d + m
  BY Bounds
<1>2. R!NumPages(count) = d
  BY DEF R!NumPages
<1> HIDE DEF d, m
<1>3. ASSUME NEW p \in Nat, d <= p
      PROVE  count <= Limit * p
  <2>1. Limit * (p - d) >= 0 /\ Limit * (p - d) = Limit * p - Limit * d
    BY <1>1, <1>3, Bounds
  <2>2. Limit * d \in Nat /\ Limit * p \in Nat /\ count <= Limit * d
    BY <1>1, Bounds
  <2> QED
    BY <2>1, <2>2
<1>4. \A p \in Nat : count > Limit * p => d > p
  <2> SUFFICES ASSUME NEW p \in Nat, count > Limit * p
               PROVE  d > p
    OBVIOUS
  <2>1. Limit * p \in Nat
    BY Bounds
  <2> QED
    BY <1>1, <1>3, <2>1
<1> QED
  BY <1>1, <1>2, <1>4

LEMMA FreeType == R!Free \in FetchRecord /\ R!Free.pc = "free" /\ R!Free.rows = {}
  BY Bounds DEF R!Free, FetchRecord, R!Choice

LEMMA NoWalkType == R!NoWalk \in WalkRecord /\ R!NoWalk.owed = {} /\ R!NoWalk.on = FALSE
  BY DEF R!NoWalk, WalkRecord

LEMMA NoRows == Cardinality({}) = 0
  BY FS_EmptySet

LEMMA InitReportTypes == PagesInit => ReportTypes
<1> SUFFICES ASSUME PagesInit PROVE ReportTypes
  OBVIOUS
<1> USE Bounds DEF PagesInit, R!Init
<1>1. view \in ViewRecord
  BY DEF ViewRecord, R!Choice
<1>2. stamp \in [R!Row -> Stamp \cup {0}] /\ source \in [R!Row -> R!Choice]
  BY DEF R!Choice
<1>3. fetch \in [Fetch -> FetchRecord] /\ walk \in WalkRecord /\ walk.owed = {}
  BY FreeType, NoWalkType
<1>4. \A f \in Fetch : fetch[f].rows \subseteq table /\ Cardinality(fetch[f].rows) <= Limit
  BY FreeType, NoRows
<1> QED
  BY <1>1, <1>2, <1>3, <1>4 DEF ReportTypes

\* A question, an answer and a reply are records of their types.
LEMMA AskType ==
  ASSUME ReportTypes, NEW f \in Fetch, NEW s \in R!Choice, NEW p \in Nat \ {0},
         R!Ask(f, s, p)
  PROVE  /\ fetch' \in [Fetch -> FetchRecord] /\ view' \in ViewRecord
         /\ view'.sensor = s /\ view'.page = p /\ view'.numPages = view.numPages
         /\ fetch'[f].pc = "select" /\ fetch'[f].sensor = s /\ fetch'[f].page = p
         /\ fetch'[f].rows = {}
         /\ \A g \in Fetch \ {f} : fetch'[g] = fetch[g]
<1> DEFINE new == [R!Free EXCEPT !.pc = "select", !.sensor = s, !.page = p]
<1>1. /\ new \in FetchRecord /\ new.pc = "select" /\ new.sensor = s /\ new.page = p
      /\ new.rows = {}
  BY FreeType DEF FetchRecord, R!Free
<1>2. fetch' = [fetch EXCEPT ![f] = new] /\ view' = [view EXCEPT !.sensor = s, !.page = p]
  BY DEF R!Ask
<1> HIDE DEF new
<1> QED
  BY <1>1, <1>2 DEF ReportTypes, ViewRecord

\* The questions under way that a pick leaves alone, and the new one without rows.
LEMMA AskRows ==
  ASSUME ReportTypes, NEW f \in Fetch, NEW s \in R!Choice, NEW p \in Nat \ {0},
         R!Ask(f, s, p), UNCHANGED table
  PROVE  \A g \in Fetch : fetch'[g].rows \subseteq table' /\ Cardinality(fetch'[g].rows) <= Limit
<1>1. \A g \in Fetch : fetch'[g].rows = fetch[g].rows \/ fetch'[g].rows = {}
  BY AskType
<1> SUFFICES ASSUME NEW g \in Fetch
             PROVE  fetch'[g].rows \subseteq table' /\ Cardinality(fetch'[g].rows) <= Limit
  OBVIOUS
<1>2. CASE fetch'[g].rows = fetch[g].rows
  <2>1. fetch[g].rows \subseteq table /\ Cardinality(fetch[g].rows) <= Limit
    BY DEF ReportTypes
  <2> QED
    BY <1>2, <2>1
<1>3. CASE fetch'[g].rows = {}
  BY <1>3, NoRows, Bounds
<1> QED
  BY <1>1, <1>2, <1>3

LEMMA OfRows ==
  ASSUME ReportTypes, NEW s
  PROVE  R!Of(s) \subseteq table /\ R!Of(s) \in SUBSET R!Row /\ table \subseteq R!Row
<1>1. inserted \in 0 .. MaxRows /\ table \subseteq 1 .. inserted
  BY DEF ReportTypes
<1>2. table \subseteq R!Row
  BY <1>1, Bounds DEF R!Row
<1>3. R!Of(s) \subseteq table
  BY DEF R!Of
<1> QED
  BY <1>2, <1>3

LEMMA AnswerType ==
  ASSUME NEW r \in FetchRecord, NEW rows \in SUBSET R!Row, NEW empty \in BOOLEAN
  PROVE  [r EXCEPT !.pc = "count", !.page = 1, !.rows = rows, !.null = empty] \in FetchRecord
<1> DEFINE a == [r EXCEPT !.pc = "count"]
           b == [a EXCEPT !.page = 1]
           c == [b EXCEPT !.rows = rows]
           d == [c EXCEPT !.null = empty]
<1>1. a \in FetchRecord
  BY DEF FetchRecord
<1> HIDE DEF a
<1>2. b \in FetchRecord
  BY <1>1 DEF FetchRecord
<1> HIDE DEF b
<1>3. c \in FetchRecord
  BY <1>2 DEF FetchRecord
<1> HIDE DEF c
<1>4. d \in FetchRecord
  BY <1>3, Zenon DEF FetchRecord
<1>5. d = [r EXCEPT !.pc = "count", !.page = 1, !.rows = rows, !.null = empty]
  BY DEF a, b, c
<1> QED
  BY <1>4, <1>5

LEMMA SelectType ==
  ASSUME ReportTypes, NEW f \in Fetch, R!Select(f)
  PROVE  \E A, B \in SUBSET R!Row :
            LET R0 == R!Of(fetch[f].sensor)
                offset == Limit * (fetch[f].page - 1)
            IN /\ A \in R!FirstRows(R0, offset) /\ B \in R!FirstRows(R0, offset + Limit)
               /\ A \subseteq B /\ B \subseteq R0 /\ Cardinality(B \ A) <= Limit
               /\ offset \in Nat
               /\ fetch' \in [Fetch -> FetchRecord]
               /\ fetch'[f].pc = "count" /\ fetch'[f].sensor = fetch[f].sensor
               /\ fetch'[f].rows = B \ A /\ fetch'[f].null = (A = B)
               /\ \A g \in Fetch \ {f} : fetch'[g] = fetch[g]
<1> DEFINE R0 == R!Of(fetch[f].sensor)
           offset == Limit * (fetch[f].page - 1)
<1>1. fetch[f] \in FetchRecord /\ fetch \in [Fetch -> FetchRecord]
  BY DEF ReportTypes
<1>2. offset \in Nat
  BY <1>1, Bounds DEF FetchRecord
<1>3. PICK A \in R!FirstRows(R0, offset), B \in R!FirstRows(R0, offset + Limit) :
        /\ A \subseteq B
        /\ fetch' = [fetch EXCEPT ![f].pc = "count", ![f].page = 1, ![f].rows = B \ A,
                                  ![f].null = (A = B)]
  BY DEF R!Select
<1>4. R0 \in SUBSET R!Row
  BY OfRows
<1> HIDE DEF R0, offset
<1>5. A \subseteq R0 /\ B \subseteq R0 /\ Cardinality(B \ A) <= Limit
  BY <1>2, <1>3, <1>4, Bounds, PageSize, Selections
<1> DEFINE empty == (A = B)
           new == [fetch[f] EXCEPT !.pc = "count", !.page = 1, !.rows = B \ A, !.null = empty]
<1>6. fetch' = [fetch EXCEPT ![f] = new]
  BY <1>1, <1>3
<1>7. /\ new \in FetchRecord /\ new.pc = "count" /\ new.sensor = fetch[f].sensor
      /\ new.rows = B \ A /\ new.null = empty
  <2>1. empty \in BOOLEAN /\ B \ A \in SUBSET R!Row
    BY <1>4, <1>5
  <2> HIDE DEF empty
  <2>2. new \in FetchRecord
    BY <1>1, <2>1, AnswerType
  <2>3. new.pc = "count" /\ new.sensor = fetch[f].sensor /\ new.rows = B \ A
    BY <1>1 DEF FetchRecord
  <2>4. new.null = empty
    BY <1>1, Zenon DEF FetchRecord
  <2> QED
    BY <2>2, <2>3, <2>4
<1> HIDE DEF new
<1>8. /\ fetch' \in [Fetch -> FetchRecord] /\ fetch'[f] = new
      /\ \A g \in Fetch \ {f} : fetch'[g] = fetch[g]
  BY <1>1, <1>6, <1>7
<1> QED
  BY <1>2, <1>3, <1>4, <1>5, <1>7, <1>8 DEF R0, offset

LEMMA CountType ==
  ASSUME ReportTypes, NEW f \in Fetch, R!Count(f)
  PROVE  /\ fetch' \in [Fetch -> FetchRecord] /\ fetch'[f].pc = "reply"
         /\ fetch'[f].rows = fetch[f].rows /\ fetch'[f].null = fetch[f].null
         /\ fetch'[f].numPages = R!NumPages(Cardinality(R!Of(fetch[f].sensor)))
         /\ \A g \in Fetch \ {f} : fetch'[g] = fetch[g]
<1> DEFINE n == R!NumPages(Cardinality(R!Of(fetch[f].sensor)))
           new == [R!Free EXCEPT !.pc = "reply", !.rows = fetch[f].rows,
                                 !.null = fetch[f].null, !.numPages = n]
<1>1. fetch[f] \in FetchRecord /\ fetch \in [Fetch -> FetchRecord]
  BY DEF ReportTypes
<1>2. n \in Nat
  BY OfRows, Rows, PagesHoldRows
<1>3. fetch' = [fetch EXCEPT ![f] = new]
  BY Counting DEF R!Count
<1> HIDE DEF n
<1>4. /\ new \in FetchRecord /\ new.pc = "reply" /\ new.rows = fetch[f].rows
      /\ new.null = fetch[f].null /\ new.numPages = n
  BY <1>1, <1>2, FreeType DEF FetchRecord, R!Free
<1> HIDE DEF new
<1> QED
  BY <1>1, <1>3, <1>4 DEF n

\* A walk that goes on.
LEMMA StepType ==
  ASSUME ReportTypes, NEW f \in Fetch, NEW p \in Nat
  PROVE  LET w == [walk EXCEPT !.page = p, !.fetch = {f}]
         IN /\ w \in WalkRecord /\ w.owed = walk.owed /\ w.on = walk.on
            /\ w.page = p /\ w.fetch = {f}
<1>1. walk \in WalkRecord
  BY DEF ReportTypes
<1> DEFINE a == [walk EXCEPT !.page = p]
           w == [a EXCEPT !.fetch = {f}]
<1>2. a \in WalkRecord /\ a.page = p /\ a.owed = walk.owed /\ a.fetch = walk.fetch
  BY <1>1 DEF WalkRecord
<1>3. a.on = walk.on
  BY <1>1, Zenon DEF WalkRecord
<1>4. [walk EXCEPT !.page = p, !.fetch = {f}] = w
  OBVIOUS
<1> HIDE DEF a
<1>5. w \in WalkRecord /\ w.fetch = {f} /\ w.page = p /\ w.owed = walk.owed
  BY <1>2 DEF WalkRecord
<1>6. w.on = walk.on
  BY <1>2, <1>3, Zenon DEF WalkRecord
<1> QED
  BY <1>4, <1>5, <1>6

\* A walk that owes fewer rows, without or with its answer.
LEMMA OwedType ==
  ASSUME ReportTypes, NEW O \in SUBSET walk.owed
  PROVE  LET less == [walk EXCEPT !.owed = O]
             w == [walk EXCEPT !.fetch = {}, !.owed = O]
         IN /\ less \in WalkRecord /\ less.owed = O /\ less.on = walk.on
            /\ less.page = walk.page /\ less.fetch = walk.fetch
            /\ w \in WalkRecord /\ w.owed = O /\ w.on = walk.on
            /\ w.page = walk.page /\ w.fetch = {}
<1>1. walk \in WalkRecord /\ O \in SUBSET R!Row
  BY DEF ReportTypes, WalkRecord
<1> DEFINE less == [walk EXCEPT !.owed = O]
           w == [less EXCEPT !.fetch = {}]
<1>2. /\ less \in WalkRecord /\ less.owed = O
      /\ less.page = walk.page /\ less.fetch = walk.fetch
  BY <1>1 DEF WalkRecord
<1>3. less.on = walk.on
  BY <1>1, Zenon DEF WalkRecord
<1>4. [walk EXCEPT !.fetch = {}, !.owed = O] = w
  OBVIOUS
<1> HIDE DEF less
<1>5. w \in WalkRecord /\ w.fetch = {} /\ w.page = walk.page /\ w.owed = O
  BY <1>2 DEF WalkRecord
<1>6. w.on = walk.on
  BY <1>2, <1>3, Zenon DEF WalkRecord
<1> QED
  BY <1>2, <1>3, <1>4, <1>5, <1>6 DEF less

LEMMA BeginType ==
  ASSUME ReportTypes, NEW f \in Fetch, NEW s, R!BeginWalk(f, s), UNCHANGED table
  PROVE  /\ walk' \in WalkRecord /\ walk'.owed \subseteq table'
         /\ walk'.owed = R!Of(s) /\ walk'.page = 1 /\ walk'.fetch = {f}
<1>1. R!Of(s) \in SUBSET R!Row /\ R!Of(s) \subseteq table
  BY OfRows
<1>2. walk' = [on |-> TRUE, page |-> 1, fetch |-> {f}, owed |-> R!Of(s)]
  BY DEF R!BeginWalk
<1> QED
  BY <1>1, <1>2 DEF WalkRecord

\* What a report adds.
LEMMA InsertType ==
  ASSUME ReportTypes, NEW t \in Stamp, NEW s \in Source, R!Insert(t, s)
  PROVE  /\ inserted' \in 0 .. MaxRows /\ table' \subseteq 1 .. inserted'
         /\ stamp' \in [R!Row -> Stamp \cup {0}] /\ source' \in [R!Row -> R!Choice]
         /\ table \subseteq table' /\ UNCHANGED <<fetch, view, walk>>
         /\ \A r \in table : stamp'[r] = stamp[r] /\ source'[r] = source[r]
<1>1. /\ inserted \in 0 .. MaxRows /\ table \subseteq 1 .. inserted
      /\ stamp \in [R!Row -> Stamp \cup {0}] /\ source \in [R!Row -> R!Choice]
  BY DEF ReportTypes
<1>2. /\ inserted < MaxRows /\ inserted' = inserted + 1 /\ table' = table \cup {inserted'}
      /\ stamp' = [stamp EXCEPT ![inserted'] = t]
      /\ source' = [source EXCEPT ![inserted'] = s]
      /\ UNCHANGED <<fetch, view, walk>>
  BY DEF R!Insert
<1>3. inserted' \in 0 .. MaxRows /\ table' \subseteq 1 .. inserted' /\ inserted' \notin table
  BY <1>1, <1>2, Bounds
<1>4. \A r \in table : stamp'[r] = stamp[r] /\ source'[r] = source[r]
  BY <1>1, <1>2, <1>3, OfRows
<1> QED
  BY <1>1, <1>2, <1>3, <1>4 DEF R!Choice

\* What retention takes away.
LEMMA DeleteType ==
  ASSUME ReportTypes, NEW t \in Stamp, R!Delete(t)
  PROVE  /\ UNCHANGED <<inserted, view>> /\ table' \subseteq table
         /\ stamp' \in [R!Row -> Stamp \cup {0}] /\ source' \in [R!Row -> R!Choice]
         /\ \A r \in table : stamp[r] # t =>
                r \in table' /\ stamp'[r] = stamp[r] /\ source'[r] = source[r]
         /\ \A r \in table : stamp[r] = t => r \notin table'
         /\ fetch' \in [Fetch -> FetchRecord]
         /\ \A f \in Fetch :
                /\ fetch'[f].pc = fetch[f].pc /\ fetch'[f].sensor = fetch[f].sensor
                /\ fetch'[f].page = fetch[f].page /\ fetch'[f].null = fetch[f].null
                /\ fetch'[f].numPages = fetch[f].numPages
                /\ fetch'[f].rows = {r \in fetch[f].rows : stamp[r] # t}
         /\ walk' = [walk EXCEPT !.owed = {r \in @ : stamp[r] > t}]
<1> DEFINE gone == {r \in table : stamp[r] = t}
<1>1. /\ UNCHANGED <<inserted, view>> /\ table' = table \ gone
      /\ stamp' = [r \in R!Row |-> IF r \in gone THEN 0 ELSE stamp[r]]
      /\ source' = [r \in R!Row |-> IF r \in gone THEN All ELSE source[r]]
      /\ fetch' = [f \in Fetch |-> [fetch[f] EXCEPT !.rows = @ \ gone]]
      /\ walk' = [walk EXCEPT !.owed = {r \in @ : stamp[r] > t}]
  BY DEF R!Delete
<1>2. table \subseteq R!Row
  BY OfRows
<1>3. /\ stamp \in [R!Row -> Stamp \cup {0}] /\ source \in [R!Row -> R!Choice]
      /\ fetch \in [Fetch -> FetchRecord]
      /\ \A f \in Fetch : fetch[f].rows \subseteq table
  BY DEF ReportTypes
<1>4. /\ stamp' \in [R!Row -> Stamp \cup {0}] /\ source' \in [R!Row -> R!Choice]
      /\ \A r \in table : stamp[r] # t =>
                r \in table' /\ stamp'[r] = stamp[r] /\ source'[r] = source[r]
      /\ \A r \in table : stamp[r] = t => r \notin table'
  BY <1>1, <1>2, <1>3 DEF R!Choice
<1>5. ASSUME NEW f \in Fetch
      PROVE  /\ fetch'[f] \in FetchRecord
             /\ fetch'[f].pc = fetch[f].pc /\ fetch'[f].sensor = fetch[f].sensor
             /\ fetch'[f].page = fetch[f].page /\ fetch'[f].null = fetch[f].null
             /\ fetch'[f].numPages = fetch[f].numPages
             /\ fetch'[f].rows = {r \in fetch[f].rows : stamp[r] # t}
  <2> DEFINE keep == fetch[f].rows \ gone
  <2>1. keep = {r \in fetch[f].rows : stamp[r] # t}
    BY <1>3
  <2>2. fetch'[f] = [fetch[f] EXCEPT !.rows = keep]
    BY <1>1
  <2>3. fetch[f] \in FetchRecord /\ keep \in SUBSET R!Row
    BY <1>3 DEF FetchRecord
  <2> HIDE DEF keep
  <2>4. fetch'[f].null = fetch[f].null
    BY <2>2, <2>3, Zenon DEF FetchRecord
  <2>5. /\ fetch'[f] \in FetchRecord /\ fetch'[f].rows = keep
        /\ fetch'[f].pc = fetch[f].pc /\ fetch'[f].sensor = fetch[f].sensor
        /\ fetch'[f].page = fetch[f].page /\ fetch'[f].numPages = fetch[f].numPages
    BY <2>2, <2>3 DEF FetchRecord
  <2> QED
    BY <2>1, <2>4, <2>5
<1>6. fetch' \in [Fetch -> FetchRecord]
  BY <1>1, <1>5
<1> HIDE DEF gone
<1> QED
  BY <1>1, <1>4, <1>5, <1>6 DEF gone

LEMMA ReportTypeStep == ReportTypes /\ [R!Next]_reportVars => ReportTypes'
<1> SUFFICES ASSUME ReportTypes, [R!Next]_reportVars
             PROVE  ReportTypes'
  OBVIOUS
<1>1. ASSUME NEW t \in Stamp, NEW s \in Source, R!Insert(t, s)
      PROVE  ReportTypes'
  BY <1>1, InsertType DEF ReportTypes
<1>2. ASSUME NEW t \in Stamp, R!Delete(t)
      PROVE  ReportTypes'
  <2>1. /\ walk' = [walk EXCEPT !.owed = {r \in @ : stamp[r] > t}]
        /\ table' \subseteq table
        /\ \A r \in table : stamp[r] # t => r \in table'
    BY <1>2, DeleteType
  <2> DEFINE O == {r \in walk.owed : stamp[r] > t}
  <2>2. walk.owed \subseteq table /\ O \subseteq walk.owed
    BY DEF ReportTypes
  <2>3. O \subseteq table'
    <3> SUFFICES ASSUME NEW r \in walk.owed, stamp[r] > t PROVE r \in table'
      OBVIOUS
    <3>1. stamp[r] # t
      BY Bounds
    <3> QED
      BY <2>1, <2>2, <3>1
  <2>4. walk' \in WalkRecord /\ walk'.owed = O
    <3>1. walk' = [walk EXCEPT !.owed = O]
      BY <2>1
    <3> QED
      BY <2>2, <3>1, OwedType
  <2>5. ASSUME NEW f \in Fetch
        PROVE  fetch'[f].rows \subseteq table' /\ Cardinality(fetch'[f].rows) <= Limit
    <3>1. fetch'[f].rows \subseteq fetch[f].rows /\ fetch'[f].rows \subseteq table'
      BY <1>2, DeleteType DEF ReportTypes
    <3>2. fetch[f].rows \in SUBSET R!Row /\ Cardinality(fetch[f].rows) <= Limit
      BY DEF ReportTypes, FetchRecord
    <3>3. /\ Cardinality(fetch'[f].rows) <= Cardinality(fetch[f].rows)
          /\ Cardinality(fetch'[f].rows) \in Nat /\ Cardinality(fetch[f].rows) \in Nat
      BY <3>1, <3>2, Rows
    <3> QED
      BY <3>1, <3>2, <3>3, Bounds
  <2>6. /\ inserted' = inserted /\ view' = view
        /\ stamp' \in [R!Row -> Stamp \cup {0}] /\ source' \in [R!Row -> R!Choice]
        /\ fetch' \in [Fetch -> FetchRecord]
    BY <1>2, DeleteType
  <2> QED
    BY <2>1, <2>3, <2>4, <2>5, <2>6 DEF ReportTypes
<1>3. ASSUME NEW f \in Fetch, NEW s \in R!Choice, R!PickSensor(f, s)
      PROVE  ReportTypes'
  <2>1. PICK p \in Nat \ {0} : R!Ask(f, s, p)
    BY <1>3 DEF R!PickSensor, ReportTypes, ViewRecord
  <2>2. UNCHANGED <<inserted, table, stamp, source>> /\ (R!BeginWalk(f, s) \/ walk' = R!NoWalk)
    BY <1>3 DEF R!PickSensor, R!tableVars
  <2>3. walk' \in WalkRecord /\ walk'.owed \subseteq table'
    BY <2>2, BeginType, NoWalkType
  <2> QED
    BY <2>1, <2>2, <2>3, AskType, AskRows DEF ReportTypes
<1>4. ASSUME NEW f \in Fetch, NEW p \in R!Row, R!PickPage(f, p)
      PROVE  ReportTypes'
  <2>1. p \in Nat \ {0} /\ R!Ask(f, view.sensor, p) /\ view.sensor \in R!Choice
    BY <1>4, Bounds DEF R!PickPage, ReportTypes, ViewRecord, R!Row
  <2>2. /\ UNCHANGED <<inserted, table, stamp, source>>
        /\ \/ R!BeginWalk(f, view.sensor) \/ walk' = R!NoWalk
           \/ walk' = [walk EXCEPT !.page = p, !.fetch = {f}]
    BY <1>4 DEF R!PickPage, R!tableVars
  <2>3. walk' \in WalkRecord /\ walk'.owed \subseteq table'
    <3>1. CASE walk' = [walk EXCEPT !.page = p, !.fetch = {f}]
      <4>1. walk.owed \subseteq table
        BY DEF ReportTypes
      <4> QED
        BY <2>1, <2>2, <3>1, <4>1, StepType
    <3> QED
      BY <2>2, <3>1, BeginType, NoWalkType
  <2> QED
    BY <2>1, <2>2, <2>3, AskType, AskRows DEF ReportTypes
<1>5. ASSUME NEW f \in Fetch, R!Select(f) \/ R!Count(f)
      PROVE  ReportTypes'
  <2>1. UNCHANGED <<inserted, table, stamp, source, view, walk>>
    BY <1>5 DEF R!Select, R!Count, R!tableVars
  <2>2. /\ fetch' \in [Fetch -> FetchRecord]
        /\ fetch'[f].rows \subseteq table /\ Cardinality(fetch'[f].rows) <= Limit
        /\ \A g \in Fetch \ {f} : fetch'[g] = fetch[g]
    <3>1. CASE R!Select(f)
      <4>1. R!Of(fetch[f].sensor) \subseteq table
        BY OfRows
      <4> QED
        BY <3>1, <4>1, SelectType
    <3>2. CASE R!Count(f)
      BY <3>2, CountType DEF ReportTypes
    <3> QED
      BY <1>5, <3>1, <3>2
  <2>3. \A g \in Fetch : fetch'[g].rows \subseteq table' /\ Cardinality(fetch'[g].rows) <= Limit
    BY <2>1, <2>2 DEF ReportTypes
  <2> QED
    BY <2>1, <2>2, <2>3 DEF ReportTypes
<1>6. ASSUME NEW f \in Fetch, R!TakeReply(f) \/ R!FetchFails(f)
      PROVE  ReportTypes'
  <2>1. /\ UNCHANGED <<inserted, table, stamp, source>>
        /\ fetch' = [fetch EXCEPT ![f] = R!Free]
    BY <1>6 DEF R!TakeReply, R!Reply, R!FetchFails, R!tableVars
  <2>2. fetch' \in [Fetch -> FetchRecord]
    BY <2>1, FreeType DEF ReportTypes
  <2>3. \A g \in Fetch : fetch'[g].rows \subseteq table' /\ Cardinality(fetch'[g].rows) <= Limit
    <3> SUFFICES ASSUME NEW g \in Fetch
                 PROVE  fetch'[g].rows \subseteq table' /\ Cardinality(fetch'[g].rows) <= Limit
      OBVIOUS
    <3>1. CASE g # f
      <4>1. fetch'[g] = fetch[g]
        BY <2>1, <3>1 DEF ReportTypes
      <4>2. fetch[g].rows \subseteq table /\ Cardinality(fetch[g].rows) <= Limit
        BY DEF ReportTypes
      <4> QED
        BY <2>1, <4>1, <4>2
    <3>2. CASE g = f
      <4>1. fetch'[g].rows = {}
        BY <2>1, <3>2, FreeType DEF ReportTypes
      <4> QED
        BY <4>1, NoRows, Bounds
    <3> QED
      BY <3>1, <3>2
  <2>4. view' \in ViewRecord
    <3>1. \/ view' = view \/ view' = [view EXCEPT !.numPages = fetch[f].numPages]
      BY <1>6 DEF R!TakeReply, R!Reply, R!FetchFails
    <3>2. view \in ViewRecord /\ fetch[f].numPages \in Nat
      BY DEF ReportTypes, FetchRecord
    <3> QED
      BY <3>1, <3>2 DEF ViewRecord
  <2>5. walk' \in WalkRecord /\ walk'.owed \subseteq table'
    <3>1. \/ walk' = walk \/ walk' = R!NoWalk
          \/ walk' = [walk EXCEPT !.fetch = {}, !.owed = walk.owed \ fetch[f].rows]
      BY <1>6 DEF R!TakeReply, R!Reply, R!FetchFails
    <3>2. walk.owed \ fetch[f].rows \in SUBSET walk.owed /\ walk.owed \subseteq table
      BY DEF ReportTypes
    <3>3. CASE walk' = [walk EXCEPT !.fetch = {}, !.owed = walk.owed \ fetch[f].rows]
      BY <2>1, <3>2, <3>3, OwedType
    <3>4. CASE walk' = walk
      BY <2>1, <3>4 DEF ReportTypes
    <3>5. CASE walk' = R!NoWalk
      BY <3>5, NoWalkType
    <3> QED
      BY <3>1, <3>3, <3>4, <3>5
  <2> QED
    BY <2>1, <2>2, <2>3, <2>4, <2>5 DEF ReportTypes
<1>7. CASE UNCHANGED reportVars
  BY <1>7 DEF reportVars, ReportTypes
<1> QED
  BY <1>1, <1>2, <1>3, <1>4, <1>5, <1>6, <1>7 DEF R!Next

\* Type correctness of both pages: the fetches never hold more rows than a page
\* has, and a walk owes only rows of the table.
THEOREM PagesTypeCorrect == PagesSpec => []PagesTypeOK
<1>1. ReportTypes => R!TypeOK
  <2> SUFFICES ASSUME ReportTypes PROVE R!TypeOK
    OBVIOUS
  <2>1. \A f \in Fetch : R!Cardinality(fetch[f].rows) <= Limit
    BY Counting DEF ReportTypes
  <2>2. \A f \in Fetch : /\ fetch[f].pc \in {"free", "select", "count", "reply"}
                         /\ fetch[f].sensor \in R!Choice /\ fetch[f].page \in Nat \ {0}
    BY DEF ReportTypes, FetchRecord
  <2>3. /\ view.sensor \in R!Choice /\ view.page \in Nat \ {0} /\ view.numPages \in Nat
        /\ walk.fetch \subseteq Fetch /\ walk.owed \subseteq table
    BY DEF ReportTypes, ViewRecord, WalkRecord
  <2> QED
    BY <2>1, <2>2, <2>3 DEF ReportTypes, R!TypeOK
<1>2. HomeInv => TypeOK
  BY TypesGiveTypeOK DEF HomeInv
<1>3. [PagesNext]_pagesVars => [R!Next]_reportVars
  BY DEF PagesNext, pagesVars
<1>4. ReportTypes /\ [PagesNext]_pagesVars => ReportTypes'
  BY <1>3, ReportTypeStep
<1>5. PagesSpec => []ReportTypes
  BY <1>4, InitReportTypes, PTL DEF PagesSpec
<1>6. HomeInv /\ ReportTypes => PagesTypeOK
  BY <1>1, <1>2 DEF PagesTypeOK
<1> QED
  BY <1>5, <1>6, HomeInvAlways, PTL

-----------------------------------------------------------------------------
(* The report: the rows a walk still owes are on the pages ahead *)

\* The rows owed whose place among the others is determined.
Owed == {r \in walk.owed : ~R!Tied(r)}

Newer(r) == {q \in R!Of(view.sensor) : stamp[q] > stamp[r]}
Rank(r) == Cardinality(Newer(r))

\* r is on a page behind the p-th.
Behind(r, p) == Rank(r) >= Limit * p

\* What is so of the fetch that the walk waits for.
FetchInv(f) ==
    /\ walk.fetch = {f} /\ fetch[f].pc \in {"select", "count", "reply"}
    /\ fetch[f].pc \in {"select", "count"} => fetch[f].sensor = view.sensor
    /\ fetch[f].pc = "select" =>
         /\ fetch[f].page = walk.page
         /\ \A r \in Owed : Behind(r, walk.page - 1)
    /\ fetch[f].pc \in {"count", "reply"} =>
         \A r \in Owed : r \in fetch[f].rows \/ (~fetch[f].null /\ Behind(r, walk.page))
    /\ fetch[f].pc = "reply" =>
         \A r \in Owed : r \in fetch[f].rows \/ fetch[f].numPages > walk.page

WalkInv ==
    walk.on =>
        /\ walk.page \in Nat \ {0}
        /\ walk.owed \subseteq R!Of(view.sensor)
        /\ walk.fetch = {} =>
             \A r \in Owed : Behind(r, walk.page) /\ view.numPages > walk.page
        /\ \A f \in walk.fetch : FetchInv(f)

ReportInv == ReportTypes /\ WalkInv

LEMMA Stamps == ReportTypes => \A r \in R!Row : stamp[r] \in Nat
<1> SUFFICES ASSUME ReportTypes, NEW r \in R!Row PROVE stamp[r] \in Nat
  OBVIOUS
<1>1. stamp[r] \in Stamp \cup {0}
  BY DEF ReportTypes
<1>2. Stamp \cup {0} \subseteq Nat
  BY Bounds
<1> QED
  BY <1>1, <1>2, Zenon

\* The rank of a row decides whether it is among the first n.
LEMMA FirstByRank ==
  ASSUME ReportTypes, NEW S \in SUBSET R!Row, NEW n \in Nat,
         NEW A \in R!FirstRows(S, n), NEW r \in S,
         \A q \in S \ {r} : stamp[q] # stamp[r]
  PROVE  r \notin A <=> Cardinality({q \in S : stamp[q] > stamp[r]}) >= n
<1> DEFINE N == {q \in S : stamp[q] > stamp[r]}
<1>1. /\ A \subseteq S /\ Cardinality(A) <= n /\ (A # S => Cardinality(A) = n)
      /\ \A a \in A, b \in S \ A : stamp[a] >= stamp[b]
  BY Selections
<1>2. \A q \in S : stamp[q] \in Nat
  BY Stamps
<1>3. N \in SUBSET R!Row /\ A \in SUBSET R!Row
  BY <1>1
<1>4. Cardinality(N) \in Nat /\ Cardinality(A) \in Nat
  BY <1>3, Rows
<1>5. ASSUME r \notin A
      PROVE  Cardinality(N) >= n
  <2>1. A \subseteq N
    <3> SUFFICES ASSUME NEW a \in A PROVE a \in N
      OBVIOUS
    <3>1. a \in S /\ a # r /\ r \in S \ A
      BY <1>1, <1>5
    <3>2. stamp[a] >= stamp[r] /\ stamp[a] # stamp[r]
      BY <1>1, <3>1
    <3>3. stamp[a] \in Nat /\ stamp[r] \in Nat
      BY <1>2, <3>1
    <3> QED
      BY <3>1, <3>2, <3>3
  <2>2. Cardinality(A) <= Cardinality(N)
    BY <1>3, <2>1, Rows
  <2>3. Cardinality(A) = n
    BY <1>1, <1>5
  <2> QED
    BY <2>2, <2>3
<1>6. ASSUME r \in A
      PROVE  Cardinality(N) < n
  <2>1. N \subseteq A \ {r}
    <3> SUFFICES ASSUME NEW b \in N PROVE b \in A \ {r}
      OBVIOUS
    <3>1. stamp[b] > stamp[r] /\ stamp[b] \in Nat /\ stamp[r] \in Nat /\ b \in S
      BY <1>2
    <3>2. ~(stamp[r] >= stamp[b])
      BY <3>1
    <3> QED
      BY <1>1, <1>6, <3>1, <3>2
  <2>2. /\ Cardinality(N) <= Cardinality(A)
        /\ Cardinality(N) = Cardinality(A) => N = A
    BY <1>3, <2>1, Rows
  <2>3. N # A
    BY <1>6, <2>1
  <2> QED
    BY <1>1, <1>4, <2>2, <2>3
<1> QED
  BY <1>4, <1>5, <1>6

\* A row behind page p is counted by that page's end.
LEMMA CountedBehind ==
  ASSUME ReportTypes, NEW r \in R!Of(view.sensor), NEW p \in Nat, Behind(r, p)
  PROVE  R!NumPages(Cardinality(R!Of(view.sensor))) > p
<1> DEFINE S == R!Of(view.sensor)
           N == Newer(r)
<1>1. S \in SUBSET R!Row /\ N \in SUBSET S /\ r \in S
  BY OfRows DEF Newer
<1>2. stamp[r] \in Nat
  BY <1>1, Stamps
<1>3. N # S
  BY <1>1, <1>2 DEF Newer
<1>4. /\ Cardinality(N) \in Nat /\ Cardinality(S) \in Nat
      /\ Cardinality(N) <= Cardinality(S) /\ Cardinality(N) # Cardinality(S)
  BY <1>1, <1>3, Rows
<1>5. Cardinality(N) >= Limit * p
  BY DEF Behind, Rank
<1>6. Limit * p \in Nat
  BY Bounds
<1> HIDE DEF S, N
<1>7. Cardinality(S) > Limit * p
  BY <1>4, <1>5, <1>6
<1> QED
  BY <1>4, <1>7, PagesHoldRows DEF S

LEMMA InitWalk == PagesInit => WalkInv
  BY NoWalkType DEF PagesInit, R!Init, WalkInv

LEMMA NoWalkInv == walk' = R!NoWalk => WalkInv'
  BY NoWalkType DEF WalkInv

\* A report and a deletion leave the rows that are still owed where they were, or
\* push them back.
LEMMA TableKeeps ==
  ASSUME ReportInv, walk.on,
         \/ \E t \in Stamp, s \in Source : R!Insert(t, s)
         \/ \E t \in Stamp : R!Delete(t)
  PROVE  /\ view' = view
         /\ walk'.on = walk.on /\ walk'.page = walk.page /\ walk'.fetch = walk.fetch
         /\ walk'.owed \subseteq walk.owed
         /\ walk'.owed \subseteq R!Of(view.sensor)'
         /\ Owed' \subseteq Owed
         /\ \A r \in Owed' : Newer(r) \subseteq Newer(r)'
         /\ \A f \in Fetch :
                /\ fetch'[f].pc = fetch[f].pc /\ fetch'[f].sensor = fetch[f].sensor
                /\ fetch'[f].page = fetch[f].page /\ fetch'[f].null = fetch[f].null
                /\ fetch'[f].numPages = fetch[f].numPages
                /\ \A r \in Owed' : r \in fetch[f].rows => r \in fetch'[f].rows
<1>1. walk.owed \subseteq R!Of(view.sensor) /\ R!Of(view.sensor) \subseteq table
  BY OfRows DEF ReportInv, WalkInv
<1>2. \A r \in table : stamp[r] \in Nat
  BY OfRows, Stamps DEF ReportInv
<1>3. CASE \E t \in Stamp, s \in Source : R!Insert(t, s)
  <2>1. /\ table \subseteq table' /\ UNCHANGED <<fetch, view, walk>>
        /\ \A r \in table : stamp'[r] = stamp[r] /\ source'[r] = source[r]
    BY <1>3, InsertType DEF ReportInv
  <2>2. R!Of(view.sensor) \subseteq R!Of(view.sensor)'
    BY <2>1 DEF R!Of
  <2>3. Owed' \subseteq Owed
    BY <1>1, <2>1 DEF Owed, R!Tied
  <2>4. \A r \in Owed' : Newer(r) \subseteq Newer(r)'
    BY <1>1, <2>1, <2>2 DEF Owed, Newer
  <2> QED
    BY <1>1, <2>1, <2>2, <2>3, <2>4
<1>4. CASE \E t \in Stamp : R!Delete(t)
  <2>1. PICK t \in Stamp : R!Delete(t)
    BY <1>4
  <2> DEFINE O == {r \in walk.owed : stamp[r] > t}
  <2>2. /\ view' = view /\ table' \subseteq table /\ walk' = [walk EXCEPT !.owed = O]
        /\ \A r \in table : stamp[r] # t =>
                  r \in table' /\ stamp'[r] = stamp[r] /\ source'[r] = source[r]
    BY <2>1, DeleteType DEF ReportInv
  <2>3. /\ walk'.on = walk.on /\ walk'.page = walk.page /\ walk'.fetch = walk.fetch
        /\ walk'.owed = O /\ O \subseteq walk.owed
    BY <2>2, OwedType DEF ReportInv
  <2>4. t \in Nat
    BY Bounds
  <2>5. \A r \in O : r \in table /\ stamp[r] # t
    BY <1>1, <1>2, <2>4
  <2>6. O \subseteq R!Of(view.sensor)'
    BY <1>1, <2>2, <2>5 DEF R!Of
  <2>7. Owed' \subseteq Owed
    BY <1>1, <2>2, <2>3, <2>5 DEF Owed, R!Tied
  <2>8. \A r \in Owed' : Newer(r) \subseteq Newer(r)'
    <3> SUFFICES ASSUME NEW r \in Owed', NEW q \in Newer(r) PROVE q \in Newer(r)'
      OBVIOUS
    <3>1. r \in O /\ r \in table /\ stamp[r] > t /\ stamp'[r] = stamp[r]
      BY <2>2, <2>3, <2>5 DEF Owed
    <3>2. q \in R!Of(view.sensor) /\ q \in table /\ stamp[q] > stamp[r]
      BY <1>1 DEF Newer
    <3>3. stamp[q] # t
      BY <1>2, <2>4, <3>1, <3>2
    <3>4. q \in table' /\ stamp'[q] = stamp[q] /\ source'[q] = source[q]
      BY <2>2, <3>2, <3>3
    <3>5. q \in R!Of(view.sensor)'
      BY <2>2, <3>2, <3>4 DEF R!Of
    <3> QED
      BY <3>1, <3>2, <3>4, <3>5 DEF Newer
  <2>9. ASSUME NEW f \in Fetch
        PROVE  /\ fetch'[f].pc = fetch[f].pc /\ fetch'[f].sensor = fetch[f].sensor
               /\ fetch'[f].page = fetch[f].page /\ fetch'[f].null = fetch[f].null
               /\ fetch'[f].numPages = fetch[f].numPages
               /\ fetch'[f].rows = {r \in fetch[f].rows : stamp[r] # t}
    BY <2>1, DeleteType DEF ReportInv
  <2>10. \A r \in Owed' : stamp[r] # t
    BY <2>3, <2>5 DEF Owed
  <2> HIDE DEF O
  <2> QED
    BY <2>2, <2>3, <2>6, <2>7, <2>8, <2>9, <2>10
<1> QED
  BY <1>3, <1>4

\* What the rank of a row is in the next state.
LEMMA RankTypeNext ==
  ASSUME ReportTypes', NEW r
  PROVE  Newer(r)' \in SUBSET R!Row /\ Rank(r)' \in Nat
<1>1. inserted' \in 0 .. MaxRows /\ table' \subseteq 1 .. inserted'
  BY DEF ReportTypes
<1>2. table' \subseteq R!Row
  BY <1>1, Bounds DEF R!Row
<1>3. Newer(r)' \in SUBSET R!Row
  BY <1>2 DEF Newer, R!Of
<1> QED
  BY <1>3, Rows DEF Rank

LEMMA TableWalk ==
  ASSUME ReportInv, ReportTypes',
         \/ \E t \in Stamp, s \in Source : R!Insert(t, s)
         \/ \E t \in Stamp : R!Delete(t)
  PROVE  WalkInv'
<1> SUFFICES ASSUME walk.on
             PROVE  WalkInv'
  <2>1. ASSUME NEW t \in Stamp, NEW s \in Source, R!Insert(t, s)
        PROVE  walk' = walk
    BY <2>1 DEF R!Insert
  <2>2. ASSUME NEW t \in Stamp, R!Delete(t)
        PROVE  walk'.on = walk.on
    <3>1. walk' = [walk EXCEPT !.owed = {r \in @ : stamp[r] > t}]
      BY <2>2, DeleteType DEF ReportInv
    <3> QED
      BY <3>1, OwedType DEF ReportInv
  <2> QED
    BY <2>1, <2>2 DEF WalkInv
<1>1. ASSUME NEW r \in Owed', NEW p \in Nat, Behind(r, p)
      PROVE  Behind(r, p)'
  <2>1. Newer(r) \subseteq Newer(r)'
    BY TableKeeps
  <2>2. Newer(r)' \in SUBSET R!Row
    BY RankTypeNext
  <2>3. /\ Cardinality(Newer(r)) <= Cardinality(Newer(r)')
        /\ Cardinality(Newer(r)) \in Nat /\ Cardinality(Newer(r)') \in Nat
    BY <2>1, <2>2, Rows
  <2>4. Limit * p \in Nat
    BY Bounds
  <2> QED
    BY <1>1, <2>3, <2>4 DEF Behind, Rank
<1>2. walk.page \in Nat \ {0} /\ walk.page - 1 \in Nat
  BY DEF ReportInv, WalkInv
<1>3. /\ view' = view /\ walk'.page = walk.page /\ walk'.fetch = walk.fetch
      /\ walk'.owed \subseteq R!Of(view.sensor)' /\ Owed' \subseteq Owed
  BY TableKeeps
<1>4. walk'.fetch = {} =>
        \A r \in Owed' : Behind(r, walk.page)' /\ view'.numPages > walk'.page
  BY <1>1, <1>2, <1>3 DEF ReportInv, WalkInv
<1>5. ASSUME NEW f \in walk'.fetch
      PROVE  FetchInv(f)'
  <2>1. f \in Fetch /\ FetchInv(f)
    BY <1>3, <1>5 DEF ReportInv, WalkInv, ReportTypes, WalkRecord
  <2>2. /\ fetch'[f].pc = fetch[f].pc /\ fetch'[f].sensor = fetch[f].sensor
        /\ fetch'[f].page = fetch[f].page /\ fetch'[f].null = fetch[f].null
        /\ fetch'[f].numPages = fetch[f].numPages
        /\ \A r \in Owed' : r \in fetch[f].rows => r \in fetch'[f].rows
    BY <2>1, TableKeeps
  <2> QED
    BY <1>1, <1>2, <1>3, <2>1, <2>2 DEF FetchInv
<1> QED
  BY <1>2, <1>3, <1>4, <1>5 DEF WalkInv

\* What a step that leaves the table alone does to the rows owed.
LEMMA SameTable ==
  ASSUME UNCHANGED <<table, stamp, source>>
  PROVE  /\ walk'.owed \subseteq walk.owed => Owed' \subseteq Owed
         /\ view'.sensor = view.sensor =>
              /\ R!Of(view.sensor)' = R!Of(view.sensor)
              /\ \A r, p : Behind(r, p)' <=> Behind(r, p)
<1>1. \A r : R!Tied(r)' <=> R!Tied(r)
  BY DEF R!Tied
<1>2. walk'.owed \subseteq walk.owed => Owed' \subseteq Owed
  BY <1>1 DEF Owed
<1>3. ASSUME view'.sensor = view.sensor
      PROVE  /\ R!Of(view.sensor)' = R!Of(view.sensor)
             /\ \A r, p : Behind(r, p)' <=> Behind(r, p)
  <2>1. R!Of(view.sensor)' = R!Of(view.sensor)
    BY <1>3 DEF R!Of
  <2>2. \A r : Newer(r)' = Newer(r)
    BY <2>1 DEF Newer
  <2> QED
    BY <2>1, <2>2 DEF Behind, Rank
<1> QED
  BY <1>2, <1>3

LEMMA BeginInv ==
  ASSUME ReportInv, ReportTypes', NEW f \in Fetch, NEW s \in R!Choice,
         R!Ask(f, s, 1), R!BeginWalk(f, s), UNCHANGED <<table, stamp, source>>
  PROVE  WalkInv'
<1>1. walk'.owed = R!Of(s) /\ walk'.page = 1 /\ walk'.fetch = {f}
  BY BeginType DEF ReportInv
<1>2. /\ view'.sensor = s /\ fetch'[f].pc = "select" /\ fetch'[f].sensor = s
      /\ fetch'[f].page = 1
  BY AskType DEF ReportInv
<1>3. walk'.owed \subseteq R!Of(view.sensor)'
  BY <1>1, <1>2 DEF R!Of
<1>4. \A r \in Owed' : Behind(r, walk.page - 1)'
  <2> SUFFICES ASSUME NEW r \in Owed' PROVE Behind(r, walk.page - 1)'
    OBVIOUS
  <2>1. Rank(r)' \in Nat
    BY RankTypeNext
  <2> QED
    BY <1>1, <2>1, Bounds DEF Behind
<1>5. FetchInv(f)'
  BY <1>1, <1>2, <1>4 DEF FetchInv
<1> QED
  BY <1>1, <1>3, <1>5 DEF WalkInv

LEMMA PickWalk ==
  ASSUME ReportInv, ReportTypes', NEW f \in Fetch,
         \/ \E s \in R!Choice : R!PickSensor(f, s)
         \/ \E p \in R!Row : R!PickPage(f, p)
  PROVE  WalkInv'
<1>1. CASE \E s \in R!Choice : R!PickSensor(f, s)
  <2>1. PICK s \in R!Choice : R!PickSensor(f, s)
    BY <1>1
  <2>2. \/ R!Ask(f, s, 1) /\ R!BeginWalk(f, s)
        \/ walk' = R!NoWalk
    BY <2>1 DEF R!PickSensor
  <2>3. UNCHANGED <<table, stamp, source>>
    BY <2>1 DEF R!PickSensor, R!tableVars
  <2> QED
    BY <2>2, <2>3, BeginInv, NoWalkInv
<1>2. CASE \E p \in R!Row : R!PickPage(f, p)
  <2>1. PICK p \in R!Row : R!PickPage(f, p)
    BY <1>2
  <2>2. R!Ask(f, view.sensor, p) /\ UNCHANGED <<table, stamp, source>>
    BY <2>1 DEF R!PickPage, R!tableVars
  <2>3. view.sensor \in R!Choice /\ p \in Nat \ {0}
    BY Bounds DEF ReportInv, ReportTypes, ViewRecord, R!Row
  <2>4. CASE p = 1 /\ R!BeginWalk(f, view.sensor)
    BY <2>2, <2>3, <2>4, BeginInv
  <2>5. CASE walk' = R!NoWalk
    BY <2>5, NoWalkInv
  <2>6. CASE /\ R!Answered /\ p = walk.page + 1
             /\ walk' = [walk EXCEPT !.page = p, !.fetch = {f}]
    <3>1. /\ walk'.owed = walk.owed /\ walk'.page = p /\ walk'.fetch = {f}
      BY <2>3, <2>6, StepType DEF ReportInv
    <3>2. /\ view'.sensor = view.sensor /\ fetch'[f].pc = "select"
          /\ fetch'[f].sensor = view.sensor /\ fetch'[f].page = p
      BY <2>2, <2>3, AskType DEF ReportInv
    <3>3. walk.on /\ walk.fetch = {} /\ walk.page \in Nat
      BY <2>6 DEF R!Answered, ReportInv, ReportTypes, WalkRecord
    <3>4. /\ walk.owed \subseteq R!Of(view.sensor)
          /\ \A r \in Owed : Behind(r, walk.page)
      BY <3>3 DEF ReportInv, WalkInv
    <3>5. Owed' \subseteq Owed
      BY <2>2, <3>1, SameTable
    <3>6. \A r \in Owed' : Behind(r, walk.page - 1)'
      <4> SUFFICES ASSUME NEW r \in Owed' PROVE Behind(r, walk.page - 1)'
        OBVIOUS
      <4>1. Behind(r, walk.page)
        BY <3>4, <3>5
      <4>2. Rank(r)' = Rank(r)
        BY <2>2, <3>2 DEF Rank, Newer, R!Of
      <4>3. walk'.page - 1 = walk.page
        BY <2>6, <3>1, <3>3
      <4> QED
        BY <4>1, <4>2, <4>3 DEF Behind
    <3>7. FetchInv(f)'
      BY <3>1, <3>2, <3>6 DEF FetchInv
    <3>8. walk'.owed \subseteq R!Of(view.sensor)' /\ walk'.page \in Nat \ {0}
      BY <2>2, <2>3, <3>1, <3>2, <3>4, SameTable
    <3> QED
      BY <3>1, <3>7, <3>8 DEF WalkInv
  <2> QED
    BY <2>1, <2>4, <2>5, <2>6 DEF R!PickPage
<1> QED
  BY <1>1, <1>2

\* The walk is as it was when its fetch is.
LEMMA SameWalk ==
  ASSUME ReportInv, UNCHANGED <<table, stamp, source, view, walk>>,
         \A f \in walk.fetch : fetch'[f] = fetch[f]
  PROVE  WalkInv'
<1> SUFFICES ASSUME walk.on
             PROVE  WalkInv'
  BY DEF WalkInv
<1>1. /\ walk.page \in Nat \ {0} /\ walk.owed \subseteq R!Of(view.sensor)
      /\ walk.fetch = {} => \A r \in Owed : Behind(r, walk.page) /\ view.numPages > walk.page
      /\ \A f \in walk.fetch : FetchInv(f)
  BY DEF ReportInv, WalkInv
<1>2. Owed' = Owed /\ \A r, p : Behind(r, p)' <=> Behind(r, p)
  BY SameTable DEF Owed, R!Tied
<1>3. walk'.owed \subseteq R!Of(view.sensor)'
  BY <1>1, SameTable
<1>4. ASSUME NEW f \in walk.fetch
      PROVE  FetchInv(f)'
  <2>1. fetch'[f] = fetch[f] /\ FetchInv(f)
    BY <1>1
  <2> QED
    BY <1>2, <2>1 DEF FetchInv
<1>5. walk'.fetch = {} =>
        \A r \in Owed' : Behind(r, walk.page)' /\ view'.numPages > walk'.page
  BY <1>1, <1>2
<1> QED
  BY <1>1, <1>3, <1>4, <1>5 DEF WalkInv

\* The selected page holds every row that is not behind it.
LEMMA SelectWalk ==
  ASSUME ReportInv, NEW f \in Fetch, R!Select(f)
  PROVE  WalkInv'
<1>1. /\ UNCHANGED <<table, stamp, source, view, walk>>
      /\ fetch[f].pc = "select" /\ \A g \in Fetch \ {f} : fetch'[g] = fetch[g]
      /\ walk.fetch \subseteq Fetch
  BY SelectType DEF ReportInv, ReportTypes, WalkRecord, R!Select, R!tableVars
<1>2. CASE f \notin walk.fetch
  BY <1>1, <1>2, SameWalk
<1>3. CASE f \in walk.fetch /\ walk.on
  <2> DEFINE S == R!Of(view.sensor)
             offset == Limit * (walk.page - 1)
  <2>1. /\ walk.fetch = {f} /\ fetch[f].sensor = view.sensor /\ fetch[f].page = walk.page
        /\ \A r \in Owed : Behind(r, walk.page - 1)
        /\ walk.owed \subseteq S /\ walk.page \in Nat \ {0}
    BY <1>1, <1>3 DEF ReportInv, WalkInv, FetchInv
  <2>2. PICK A, B \in SUBSET R!Row :
          /\ A \in R!FirstRows(S, offset) /\ B \in R!FirstRows(S, offset + Limit)
          /\ offset \in Nat
          /\ fetch'[f].pc = "count" /\ fetch'[f].sensor = view.sensor
          /\ fetch'[f].rows = B \ A /\ fetch'[f].null = (A = B)
    BY <2>1, SelectType DEF ReportInv
  <2>3. offset + Limit = Limit * walk.page /\ offset + Limit \in Nat
    BY <2>1, <2>2, Bounds
  <2>4. ASSUME NEW r \in Owed
        PROVE  r \in B \ A \/ (A # B /\ Behind(r, walk.page))
    <3>1. r \in S /\ S \in SUBSET R!Row /\ \A q \in S \ {r} : stamp[q] # stamp[r]
      BY <2>1, OfRows DEF Owed, R!Tied, ReportInv
    <3>2. Rank(r) = Cardinality({q \in S : stamp[q] > stamp[r]}) /\ Rank(r) >= offset
      BY <2>1 DEF Rank, Newer, Behind
    <3> HIDE DEF S, offset
    <3>3. r \notin A
      BY <2>2, <3>1, <3>2, FirstByRank DEF ReportInv
    <3>4. r \notin B => Rank(r) >= offset + Limit
      BY <2>2, <2>3, <3>1, <3>2, FirstByRank DEF ReportInv
    <3>5. A # B
      <4> SUFFICES ASSUME A = B PROVE FALSE
        OBVIOUS
      <4>1. Cardinality(A) = offset /\ Cardinality(A) = offset + Limit
        BY <2>2, <2>3, <3>1, <3>3, Selections
      <4> QED
        BY <2>2, <4>1, Bounds
    <3> QED
      BY <2>3, <3>3, <3>4, <3>5 DEF Behind
  <2>5. Owed' \subseteq Owed /\ \A r, p : Behind(r, p)' <=> Behind(r, p)
    BY <1>1, SameTable
  <2>6. ASSUME NEW r \in Owed', r \notin fetch'[f].rows
        PROVE  ~fetch'[f].null /\ Behind(r, walk.page)'
    <3>1. A # B /\ Behind(r, walk.page)
      BY <2>2, <2>4, <2>5, <2>6
    <3>2. ~fetch'[f].null
      BY <2>2, <3>1
    <3> QED
      BY <1>1, <2>5, <3>1, <3>2
  <2>7. FetchInv(f)'
    BY <1>1, <2>1, <2>2, <2>6 DEF FetchInv
  <2>8. walk'.owed \subseteq R!Of(view.sensor)'
    BY <1>1, <2>1, SameTable
  <2> QED
    BY <1>1, <2>1, <2>7, <2>8 DEF WalkInv
<1> QED
  BY <1>1, <1>2, <1>3 DEF WalkInv

\* The number of pages counts a page for each row that is still behind.
LEMMA CountWalk ==
  ASSUME ReportInv, NEW f \in Fetch, R!Count(f)
  PROVE  WalkInv'
<1>1. /\ UNCHANGED <<table, stamp, source, view, walk>>
      /\ fetch[f].pc = "count" /\ \A g \in Fetch \ {f} : fetch'[g] = fetch[g]
      /\ walk.fetch \subseteq Fetch
  BY CountType DEF ReportInv, ReportTypes, WalkRecord, R!Count, R!tableVars
<1>2. CASE f \notin walk.fetch
  BY <1>1, <1>2, SameWalk
<1>3. CASE f \in walk.fetch /\ walk.on
  <2>1. /\ walk.fetch = {f} /\ fetch[f].sensor = view.sensor
        /\ \A r \in Owed :
              r \in fetch[f].rows \/ (~fetch[f].null /\ Behind(r, walk.page))
        /\ walk.owed \subseteq R!Of(view.sensor) /\ walk.page \in Nat \ {0}
    BY <1>1, <1>3 DEF ReportInv, WalkInv, FetchInv
  <2>2. /\ fetch'[f].pc = "reply" /\ fetch'[f].rows = fetch[f].rows
        /\ fetch'[f].null = fetch[f].null
        /\ fetch'[f].numPages = R!NumPages(Cardinality(R!Of(view.sensor)))
    BY <2>1, CountType DEF ReportInv
  <2>3. Owed' \subseteq Owed /\ \A r, p : Behind(r, p)' <=> Behind(r, p)
    BY <1>1, SameTable
  <2>4. ASSUME NEW r \in Owed
        PROVE  r \in fetch[f].rows \/ fetch'[f].numPages > walk.page
    <3>1. r \in R!Of(view.sensor)
      BY <2>1 DEF Owed
    <3> QED
      BY <2>1, <2>2, <3>1, CountedBehind DEF ReportInv
  <2>5. ASSUME NEW r \in Owed', r \notin fetch'[f].rows
        PROVE  ~fetch'[f].null /\ Behind(r, walk.page)'
    <3>1. ~fetch[f].null /\ Behind(r, walk.page)
      BY <2>1, <2>2, <2>3, <2>5
    <3>2. ~fetch'[f].null
      BY <2>2, <3>1
    <3> QED
      BY <1>1, <2>3, <3>1, <3>2
  <2>6. FetchInv(f)'
    BY <1>1, <2>1, <2>2, <2>3, <2>4, <2>5 DEF FetchInv
  <2>7. walk'.owed \subseteq R!Of(view.sensor)'
    BY <1>1, <2>1, SameTable
  <2> QED
    BY <1>1, <2>1, <2>6, <2>7 DEF WalkInv
<1> QED
  BY <1>1, <1>2, <1>3 DEF WalkInv

\* The answer takes away the rows it shows and offers the page of the others.
LEMMA ReplyWalk ==
  ASSUME ReportInv, NEW f \in Fetch, R!TakeReply(f)
  PROVE  WalkInv'
<1>1. /\ UNCHANGED <<table, stamp, source>> /\ fetch[f].pc = "reply"
      /\ IF f \in walk.fetch
         THEN walk' = [walk EXCEPT !.fetch = {}, !.owed = walk.owed \ fetch[f].rows]
         ELSE walk' = R!NoWalk
      /\ view' = IF fetch[f].null THEN view
                 ELSE [view EXCEPT !.numPages = fetch[f].numPages]
  BY DEF R!TakeReply, R!Reply, R!tableVars
<1>2. CASE f \notin walk.fetch
  BY <1>1, <1>2, NoWalkInv
<1>3. CASE f \in walk.fetch
  <2>1. /\ walk'.owed = walk.owed \ fetch[f].rows /\ walk'.on = walk.on
        /\ walk'.page = walk.page /\ walk'.fetch = {}
    <3> DEFINE O == walk.owed \ fetch[f].rows
    <3>1. O \in SUBSET walk.owed /\ ReportTypes
      BY DEF ReportInv
    <3>2. walk' = [walk EXCEPT !.fetch = {}, !.owed = O]
      BY <1>1, <1>3
    <3> HIDE DEF O
    <3>3. walk'.owed = O /\ walk'.page = walk.page /\ walk'.fetch = {}
      BY <3>1, <3>2, OwedType
    <3>4. walk'.on = walk.on
      BY <3>1, <3>2, OwedType, Zenon
    <3> QED
      BY <3>3, <3>4 DEF O
  <2> SUFFICES ASSUME walk.on
               PROVE  WalkInv'
    BY <2>1 DEF WalkInv
  <2>2. /\ \A r \in Owed :
              r \in fetch[f].rows \/ (~fetch[f].null /\ Behind(r, walk.page))
        /\ \A r \in Owed : r \in fetch[f].rows \/ fetch[f].numPages > walk.page
        /\ walk.owed \subseteq R!Of(view.sensor) /\ walk.page \in Nat \ {0}
    BY <1>1, <1>3 DEF ReportInv, WalkInv, FetchInv
  <2>3. view'.sensor = view.sensor /\ (~fetch[f].null => view'.numPages = fetch[f].numPages)
    BY <1>1 DEF ReportInv, ReportTypes, ViewRecord
  <2>4. Owed' \subseteq Owed /\ \A r \in Owed' : r \notin fetch[f].rows
    BY <1>1, <2>1, SameTable DEF Owed
  <2>5. \A r, p : Behind(r, p)' <=> Behind(r, p)
    BY <1>1, <2>3, SameTable
  <2>6. \A r \in Owed' : Behind(r, walk.page)' /\ view'.numPages > walk'.page
    BY <2>1, <2>2, <2>3, <2>4, <2>5
  <2>7. walk'.owed \subseteq R!Of(view.sensor)'
    BY <1>1, <2>1, <2>2, <2>3, SameTable
  <2> QED
    BY <2>1, <2>2, <2>6, <2>7 DEF WalkInv
<1> QED
  BY <1>2, <1>3

LEMMA FailWalk ==
  ASSUME ReportInv, NEW f \in Fetch, R!FetchFails(f)
  PROVE  WalkInv'
<1>1. /\ UNCHANGED <<table, stamp, source, view>>
      /\ fetch' = [fetch EXCEPT ![f] = R!Free]
      /\ walk' = IF f \in walk.fetch THEN R!NoWalk ELSE walk
  BY DEF R!FetchFails, R!tableVars
<1>2. CASE f \in walk.fetch
  BY <1>1, <1>2, NoWalkInv
<1>3. CASE f \notin walk.fetch
  <2>1. \A g \in walk.fetch : fetch'[g] = fetch[g]
    BY <1>1, <1>3 DEF ReportInv, ReportTypes, WalkRecord
  <2> QED
    BY <1>1, <1>3, <2>1, SameWalk
<1> QED
  BY <1>2, <1>3

LEMMA ReportStep == ReportInv /\ [R!Next]_reportVars => ReportInv'
<1> SUFFICES ASSUME ReportInv, [R!Next]_reportVars
             PROVE  ReportInv'
  OBVIOUS
<1>1. ReportTypes'
  BY ReportTypeStep DEF ReportInv
<1>2. ASSUME UNCHANGED reportVars
      PROVE  WalkInv'
  BY <1>2, SameWalk DEF reportVars
<1>3. ASSUME R!Next
      PROVE  WalkInv'
  BY <1>1, <1>3, TableWalk, PickWalk, SelectWalk, CountWalk, ReplyWalk, FailWalk DEF R!Next
<1> QED
  BY <1>1, <1>2, <1>3 DEF ReportInv

\* A walk through the report's pages to the last one offered has shown every row
\* that was there from the beginning to the end, but for rows that share a
\* timestamp and rows of which a newer one was deleted; for any table, any sensors,
\* fetches and size of a page (postgres.go:62-113, ReportPage.js:56-96).
THEOREM WalkMissesNothingAlways == PagesSpec => []WalkMissesNothing
<1>1. [PagesNext]_pagesVars => [R!Next]_reportVars
  BY DEF PagesNext, pagesVars
<1>2. ReportInv /\ [PagesNext]_pagesVars => ReportInv'
  BY <1>1, ReportStep
<1>3. PagesInit => ReportInv
  BY InitReportTypes, InitWalk DEF ReportInv
<1>4. ReportInv => WalkMissesNothing
  <2> SUFFICES ASSUME ReportInv, R!Answered, walk.page >= view.numPages, NEW r \in walk.owed
               PROVE  R!Tied(r)
    BY DEF WalkMissesNothing, R!WalkMissesNothing
  <2>1. walk.on /\ walk.fetch = {}
    BY DEF R!Answered
  <2>2. walk.page \in Nat /\ view.numPages \in Nat
    BY DEF ReportInv, ReportTypes, WalkRecord, ViewRecord
  <2>3. r \in Owed => view.numPages > walk.page
    BY <2>1 DEF ReportInv, WalkInv
  <2> QED
    BY <2>2, <2>3 DEF Owed
<1> QED
  BY <1>2, <1>3, <1>4, PTL DEF PagesSpec
=============================================================================
