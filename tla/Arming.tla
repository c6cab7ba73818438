-------------------------------- MODULE Arming --------------------------------
(***************************************************************************)
(* Arming sensors from the dashboard (sensorArmingHandler in cmd/web.go):  *)
(* a request sets one sensor, toggles one, or sets all that have an arming *)
(* key.  Every request is a goroutine; it tells Home Assistant before it   *)
(* writes Redis, one sensor after another, and no lock is held.  What      *)
(* overlapping requests do to one sensor is anybody's guess; `overlapped'  *)
(* and `torn', which are history, keep track of what it concerns.          *)
(***************************************************************************)
EXTENDS Naturals

CONSTANTS
    Sensor,       \* the sensors' names
    Request,      \* the POST requests to /api/sensor/arming
    Faulty,       \* the services whose calls may return an error
    Text,         \* the strings a request may carry in `armed'
    None          \* no arming key, nothing told to Home Assistant

Service == {"redis", "ha"}
Empty == ""

ASSUME ArmingAssumption ==
    /\ Faulty \subseteq Service
    /\ {Empty, "true", "false"} \subseteq Text
    /\ None \notin Sensor \cup Text

VARIABLES
    arming,      \* the value of each sensor's arming key
    ha,          \* what Home Assistant was told last about each sensor
    request,     \* the state of each request
    overlapped,  \* the requests that ran while another did
    torn         \* sensors whose last publish or write met an error or an overlap

vars == <<arming, ha, request, overlapped, torn>>

RequestPC == {"new", "read", "readAll", "publish", "write", "success", "error"}
Done == {"success", "error"}
Switch == {"true", "false"}

\* misread: a read met an error, which the handler ignores.
New == [pc |-> "new", kind |-> "none", source |-> None, armed |-> None,
        misread |-> FALSE, todo |-> {}]

\* Type correctness of the keys and of the requests.  A body's `armed' is written
\* as it is; but a toggle writes one of two values, and only a request for all can
\* write the empty string, which makes one for a sensor a toggle (web.go:132-162).
TypeOK ==
    /\ arming \in [Sensor -> Text \cup {None}]
    /\ ha \in [Sensor -> Text \cup {None}]
    /\ request \in [Request -> [pc : RequestPC, kind : {"none", "set", "toggle", "all"},
                                source : Sensor \cup {None}, armed : Text \cup {None},
                                misread : BOOLEAN, todo : SUBSET Sensor]]
    /\ \A r \in Request : request[r].pc \in {"publish", "write"} =>
        /\ request[r].armed \in Text
        /\ request[r].kind = "toggle" => request[r].armed \in Switch
        /\ request[r].kind = "set" => request[r].armed # Empty
    /\ overlapped \subseteq Request
    /\ torn \subseteq Sensor

\* The server may start over a Redis that knows some sensors.  Home Assistant
\* remembers what it was told.
Init ==
    /\ arming \in [Sensor -> Text \cup {None}]
    /\ ha = arming
    /\ request = [r \in Request |-> New]
    /\ overlapped = {}
    /\ torn = {}

-----------------------------------------------------------------------------
At(r, pc) == request[r].pc = pc
Goto(r, pc) == request' = [request EXCEPT ![r].pc = pc]

Active == {r \in Request : request[r].pc \notin {"new"} \cup Done}

Begin(r) ==
    /\ At(r, "new")
    /\ overlapped' = overlapped \cup Active \cup (IF Active = {} THEN {} ELSE {r})
    /\ UNCHANGED <<arming, ha, torn>>

\* {source: s, armed: a}: `armed' is specified, whatever it says.
Set(r, s, a) ==
    /\ Begin(r)
    /\ a # Empty
    /\ request' = [request EXCEPT ![r] =
        [New EXCEPT !.pc = "publish", !.kind = "set", !.source = s, !.armed = a]]

\* {source: s}: a toggle, as `armed' is empty.
Toggle(r, s) ==
    /\ Begin(r)
    /\ request' = [request EXCEPT ![r] =
        [New EXCEPT !.pc = "read", !.kind = "toggle", !.source = s]]

\* {source: "all", armed: a}; here an empty `armed' is a value like others.
SetAll(r, a) ==
    /\ Begin(r)
    /\ request' = [request EXCEPT ![r] =
        [New EXCEPT !.pc = "readAll", !.kind = "all", !.armed = a]]

\* Mutant: a missing key counts as armed.
OppositeOfKnown(v) == IF v = "false" THEN "true" ELSE "false"

Opposite(v) == IF v \in {None, Empty, "false"} THEN "true" ELSE "false"

\* Mutant: the value read is kept as it is.
ReadArmingUnswitched(r) ==
    /\ At(r, "read")
    /\ request' = [request EXCEPT ![r].armed = arming[request[r].source], ![r].pc = "publish"]
    /\ UNCHANGED <<arming, ha, overlapped, torn>>

\* The error of the read is ignored: it counts as a missing key.
ReadArming(r) ==
    /\ At(r, "read")
    /\ \E misread \in {FALSE, "redis" \in Faulty} :
        LET armedString == IF misread THEN None ELSE arming[request[r].source]
        IN request' = [request EXCEPT ![r].armed = Opposite(armedString),
                                      ![r].misread = misread, ![r].pc = "publish"]
    /\ UNCHANGED <<arming, ha, overlapped, torn>>

\* The sensors that have a key now are visited one by one, in any order.
ReadAllArming(r) ==
    /\ At(r, "readAll")
    /\ LET keys == {s \in Sensor : arming[s] # None}
       IN request' = [request EXCEPT ![r].todo = keys,
                        ![r].pc = IF keys = {} THEN "success" ELSE "publish",
                        ![r].source = None]
    /\ UNCHANGED <<arming, ha, overlapped, torn>>

\* The error of KEYS is dropped: it counts as no keys, and the request succeeds.
MissAllArming(r) ==
    /\ At(r, "readAll")
    /\ "redis" \in Faulty
    /\ request' = [request EXCEPT ![r].misread = TRUE, ![r].pc = "success"]
    /\ UNCHANGED <<arming, ha, overlapped, torn>>

\* The error of a GET ends the request.
ReadAllArmingFails(r) ==
    /\ At(r, "readAll")
    /\ "redis" \in Faulty
    /\ Goto(r, "error")
    /\ UNCHANGED <<arming, ha, overlapped, torn>>

\* The sensor a request publishes and writes next.
Target(r, s) == IF request[r].kind = "all" THEN s \in request[r].todo ELSE s = request[r].source

\* Mutant: Home Assistant is told only of sensors that get armed.
PublishHASensorArmingOnly(r, s) ==
    /\ At(r, "publish")
    /\ Target(r, s)
    /\ request' = [request EXCEPT ![r].pc = "write", ![r].source = s]
    /\ ha' = IF request[r].armed = "true" THEN [ha EXCEPT ![s] = "true"] ELSE ha
    /\ torn' = IF r \in overlapped THEN torn \cup {s} ELSE torn \ {s}
    /\ UNCHANGED <<arming, overlapped>>

\* An error of the publish is only logged.
PublishHASensorArming(r, s) ==
    /\ At(r, "publish")
    /\ Target(r, s)
    /\ request' = [request EXCEPT ![r].pc = "write", ![r].source = s]
    /\ \/ /\ ha' = [ha EXCEPT ![s] = request[r].armed]
          /\ torn' = IF r \in overlapped THEN torn \cup {s} ELSE torn \ {s}
       \/ /\ "ha" \in Faulty
          /\ ha' \in {ha, [ha EXCEPT ![s] = request[r].armed]}
          /\ torn' = torn \cup {s}
    /\ UNCHANGED <<arming, overlapped>>

\* Mutant: the loop over all sensors ends after the first.
WriteArmingOfFirst(r) ==
    /\ At(r, "write")
    /\ arming' = [arming EXCEPT ![request[r].source] = request[r].armed]
    /\ request' = [request EXCEPT ![r].todo = {}, ![r].pc = "success"]
    /\ torn' = torn \cup {request[q].source : q \in {r} \cap overlapped}
    /\ UNCHANGED <<ha, overlapped>>

WriteArming(r) ==
    /\ At(r, "write")
    /\ LET s == request[r].source
           left == request[r].todo \ {s}
       IN /\ arming' = [arming EXCEPT ![s] = request[r].armed]
          /\ request' = [request EXCEPT ![r].todo = left,
                                        ![r].pc = IF left = {} THEN "success" ELSE "publish"]
    /\ torn' = torn \cup {request[q].source : q \in {r} \cap overlapped}
    /\ UNCHANGED <<ha, overlapped>>

\* The request ends with an error, and what it did before stays done.
WriteArmingFails(r) ==
    /\ At(r, "write")
    /\ "redis" \in Faulty
    /\ LET s == request[r].source
       IN /\ arming' \in {arming, [arming EXCEPT ![s] = request[r].armed]}
          /\ torn' = torn \cup {s}
    /\ Goto(r, "error")
    /\ UNCHANGED <<ha, overlapped>>

Next ==
    \E r \in Request :
        \/ \E s \in Sensor, a \in Text : Set(r, s, a)
        \/ \E s \in Sensor : Toggle(r, s)
        \/ \E a \in Text : SetAll(r, a)
        \/ ReadArming(r) \/ ReadAllArming(r) \/ MissAllArming(r) \/ ReadAllArmingFails(r)
        \/ \E s \in Sensor : PublishHASensorArming(r, s)
        \/ WriteArming(r) \/ WriteArmingFails(r)

Spec == Init /\ [][Next]_vars

-----------------------------------------------------------------------------
(* Properties *)

\* A sensor is armed for alerts unless its key is missing, empty or "false".
IsArmed(v) == v \notin {None, Empty, "false"}

\* Home Assistant was told last what Redis holds of every sensor that no request is
\* changing and whose last publish and write met no error and no other request,
\* whatever failed or overlapped before (web.go:132-179).
HAFollowsRedis ==
    \A s \in Sensor \ torn :
        (\A r \in Request : request[r].source = s => request[r].pc \in Done \cup {"publish"})
        => ha[s] = arming[s]

\* A request for all that reports success, that no other request overlapped and
\* that could list the keys has left every sensor with a key at its value
\* (web.go:125-150).  One whose KEYS failed reports success having written none
\* (redis.go:72).
AllMeansAll ==
    [][\A r \in Request :
        (/\ request[r].kind = "all" /\ ~request'[r].misread /\ r \notin overlapped
         /\ request[r].pc # "success" /\ request'[r].pc = "success")
        => \A s \in Sensor : arming'[s] \in {None, request[r].armed}]_vars

\* A toggle whose read did not fail and that no other request overlapped writes
\* the opposite of what it finds in Redis: "this is a toggle api call, switch
\* value" (web.go:154).
ToggleSwitches ==
    [][\A r \in Request :
        (/\ request[r].kind = "toggle" /\ ~request[r].misread /\ r \notin overlapped
         /\ request[r].pc = "write" /\ request'[r].pc = "success")
        => IsArmed(arming'[request[r].source]) # IsArmed(arming[request[r].source])]_vars
===============================================================================
