------------------------------ MODULE StartGuard ------------------------------
(***************************************************************************)
(* The start of the server's container (entrypoint.sh): a guard asks       *)
(* 1Password how much of each quota is left (op-limit-check, op.go) and,   *)
(* when one is used up, serves a maintenance page until that quota is      *)
(* reset; `op run' then reads the secrets, which draws on the quotas, and   *)
(* starts the server.  The script goes on whatever the guard ends with,    *)
(* a maintenance page that cannot be served among it.                      *)
(*                                                                         *)
(* 1Password and the platform that starts the container again whenever it  *)
(* ends are external.  The agents' `op run' draws on the same quotas.      *)
(* Programs states the fairness.                                           *)
(***************************************************************************)
EXTENDS Integers, Sequences, FiniteSetsExt, SequencesExt

CONSTANTS
    Limit,       \* the limit of each quota, in the order of the table
    Period,      \* the ticks after its first use at which each is reset
    Needed,      \* the quotas that `op run' draws on
    MaxOthers    \* bounds the uses by the agents

Quota == DOMAIN Limit

GuardAssumption ==
    /\ Limit \in Seq(Nat \ {0}) /\ Period \in Seq(Nat \ {0})
    /\ Len(Period) = Len(Limit)
    /\ Needed \subseteq Quota
    /\ MaxOthers \in Nat

VARIABLES
    quota,       \* what is left of each quota and when it is reset
    container,   \* "guard", "waiting", "opRun", "serving" or "ended"
    timer,       \* the ticks until the guard's ticker fires
    others,      \* the uses by the agents so far
    excuses      \* why `op run' may fail although the guard has run before it

vars == <<quota, container, timer, others, excuses>>

Pc == {"guard", "waiting", "opRun", "serving", "ended"}
Excuse == {"panic", "early", "behind", "elsewhere", "fatal"}

\* Type correctness; a ticker that is waited for has not fired.
TypeOK ==
    /\ quota \in [Quota -> [left : Nat, reset : Nat]]
    /\ \A q \in Quota : quota[q].left <= Limit[q] /\ quota[q].reset <= Period[q]
    /\ container \in Pc
    /\ timer \in Nat
    /\ others \in 0 .. MaxOthers
    /\ excuses \subseteq Excuse

Init ==
    /\ quota = [q \in Quota |-> [left |-> Limit[q], reset |-> 0]]
    /\ container = "guard"
    /\ timer = 0
    /\ others = 0
    /\ excuses = {}

-----------------------------------------------------------------------------
(* What `op service-account ratelimit' prints *)

Exhausted == {q \in Quota : quota[q].left = 0}

\* A tick is the shortest unit; two make the next longer one.
UnitTicks == [sec |-> 1, min |-> 2]

\* The column RESET: "N/A", a number of units "from now", or something else.
Text(form, parts) == [form |-> form, parts |-> parts]
InSeconds(t) == <<<<t, "sec">>>>
InMinutes(t) == <<<<t \div 2, "min">>>>
InBoth(t) == <<<<t \div 2, "min">>, <<t % 2, "sec">>>>
ResetTexts(t) ==
    {Text("fromNow", p) : p \in {InSeconds(t), InMinutes(t), InBoth(t)}}
        \cup {Text("na", <<>>), Text("other", <<>>)}

\* A line: a quota, a heading or blank line, or a message on standard error of
\* fewer than six words ("short") or more ("prose").
OutputLine(kind, left, text) == [kind |-> kind, left |-> left, text |-> text]
Row(q, text) == OutputLine("row", quota[q].left, text)
NoText == Text("other", <<>>)
Messages == {OutputLine(k, 0, NoText) : k \in {"blank", "short", "prose"}}

\* The table with the given texts for the quotas that are used up, the only ones
\* whose text is parsed, and a message at some place of it.
Outputs(texts) ==
    LET rows == [q \in Quota |-> Row(q, IF q \in Exhausted THEN texts[q] ELSE NoText)]
    IN {InsertAt(rows, i, l) : i \in 1 .. Len(rows) + 1, l \in Messages}

-----------------------------------------------------------------------------
(* op.go *)

\* Mutant: only the first number and its unit are read.
ParseOPResetDurationOfFirst(text) ==
    IF text.form = "na" THEN 0
    ELSE IF text.form = "other" THEN -1
    ELSE text.parts[1][1] * UnitTicks[text.parts[1][2]]

\* Mutant: every number is taken to be one of the longer units.
ParseOPResetDurationInMinutes(text) ==
    IF text.form = "na" THEN 0
    ELSE IF text.form = "other" THEN -1
    ELSE FoldLeft(LAMBDA total, p : total + p[1] * UnitTicks.min, 0, text.parts)

\* parseOPResetDuration; -1 stands for an error.
ParseOPResetDuration(text) ==
    IF text.form = "na" THEN 0
    ELSE IF text.form = "other" THEN -1
    ELSE FoldLeft(LAMBDA total, p : total + p[1] * UnitTicks[p[2]], 0, text.parts)

\* parseRateLimitOutput returns at the first line that is too short or whose
\* fifth field is 0, which a field that is no number counts as.
Decides(line) ==
    \/ line.kind \in {"short", "prose"}
    \/ line.kind = "row" /\ line.left = 0

\* NoLimit, an error (-1), or the time to wait.
NoLimit == -2
ParseRateLimitOutput(lines) ==
    LET deciding == {i \in DOMAIN lines : Decides(lines[i])}
        line == lines[Min(deciding)]
    IN IF deciding = {} THEN NoLimit
       ELSE IF line.kind # "row" THEN -1
       ELSE ParseOPResetDuration(line.text)

-----------------------------------------------------------------------------
(* entrypoint.sh *)

\* What may make the guard wait too short, read off the table it is given: it
\* ends at a message or at a text that names no time, the text is rounded, or a
\* quota behind the first exhausted one is reset later.
ExcusesOf(lines, texts) ==
    LET first == Min(Exhausted)
        panics == \/ \E i \in DOMAIN lines : lines[i].kind \in {"short", "prose"}
                  \/ Exhausted # {} /\ texts[first].form # "fromNow"
        rounded == /\ Exhausted # {}
                   /\ texts[first].parts = InMinutes(quota[first].reset)
                   /\ quota[first].reset % 2 = 1
        later == \E q \in Needed \cap Exhausted : quota[q].reset > quota[first].reset
    IN {x \in Excuse : \/ x = "panic" /\ panics
                       \/ x = "early" /\ rounded
                       \/ x = "behind" /\ later}

\* Without a limit the guard exits at once.  With an error it panics, and so does
\* the ticker of a wait of zero; the script goes on all the same.
LimitCheck ==
    /\ container = "guard"
    /\ \E texts \in [Exhausted -> UNION {ResetTexts(quota[q].reset) : q \in Exhausted}] :
        /\ \A q \in Exhausted : texts[q] \in ResetTexts(quota[q].reset)
        /\ \E lines \in Outputs(texts) :
            LET wait == ParseRateLimitOutput(lines)
            IN /\ \/ wait > 0 /\ container' = "waiting" /\ timer' = wait
                  \/ wait <= 0 /\ container' = "opRun" /\ timer' = 0
               /\ excuses' = ExcusesOf(lines, texts)
    /\ UNCHANGED <<quota, others>>

\* The command itself fails: the guard panics.
LimitCheckFails ==
    /\ container = "guard"
    /\ container' = "opRun"
    /\ excuses' = {"panic"}
    /\ UNCHANGED <<quota, timer, others>>

\* Mutant: the ticker's goroutine ends and not the process.
TickerFiresInVain ==
    /\ container = "waiting" /\ timer = 0
    /\ UNCHANGED vars

\* The ticker fires and the guard exits.
TickerFires ==
    /\ container = "waiting" /\ timer = 0
    /\ container' = "opRun"
    /\ UNCHANGED <<quota, timer, others, excuses>>

\* ListenAndServe fails, at once or later: the guard ends, the quota is still used
\* up and the script goes on all the same.
MaintenanceFails ==
    /\ container = "waiting"
    /\ container' = "opRun"
    /\ timer' = 0
    /\ excuses' = excuses \cup {"fatal"}
    /\ UNCHANGED <<quota, others>>

Use(Q) ==
    quota' = [q \in Quota |->
        IF q \notin Q THEN quota[q]
        ELSE [left |-> quota[q].left - 1,
              reset |-> IF quota[q].reset = 0 THEN Period[q] ELSE quota[q].reset]]

OpRun ==
    /\ container = "opRun"
    /\ Needed \cap Exhausted = {}
    /\ Use(Needed)
    /\ container' = "serving"
    /\ UNCHANGED <<timer, others, excuses>>

\* It is taken to fail for no other reason than the quotas.
OpRunFails ==
    /\ container = "opRun"
    /\ Needed \cap Exhausted # {}
    /\ container' = "ended"
    /\ UNCHANGED <<quota, timer, others, excuses>>

\* The server ends, or the platform ends a container that waits.
ContainerEnds ==
    /\ container \in {"serving", "waiting"}
    /\ container' = "ended"
    /\ timer' = 0
    /\ UNCHANGED <<quota, others, excuses>>

\* The platform starts the container again.
StartAgain ==
    /\ container = "ended"
    /\ container' = "guard"
    /\ UNCHANGED <<quota, timer, others, excuses>>

\* An agent is started by systemd with an `op run' of its own.
AgentStarts ==
    /\ others < MaxOthers
    /\ Needed \cap Exhausted = {}
    /\ Use(Needed)
    /\ others' = others + 1
    /\ excuses' = excuses \cup {"elsewhere"}
    /\ UNCHANGED <<container, timer>>

\* Another command of the operator uses up part of a quota.
UsedByHand(q) ==
    /\ others < MaxOthers
    /\ q \notin Exhausted
    /\ Use({q})
    /\ others' = others + 1
    /\ excuses' = excuses \cup {"elsewhere"}
    /\ UNCHANGED <<container, timer>>

Tick ==
    /\ timer > 0 \/ \E q \in Quota : quota[q].reset > 0
    /\ quota' = [q \in Quota |->
        IF quota[q].reset = 1 THEN [left |-> Limit[q], reset |-> 0]
        ELSE [quota[q] EXCEPT !.reset = IF @ = 0 THEN 0 ELSE @ - 1]]
    /\ timer' = IF timer = 0 THEN 0 ELSE timer - 1
    /\ UNCHANGED <<container, others, excuses>>

Next ==
    \/ LimitCheck \/ LimitCheckFails \/ TickerFires \/ MaintenanceFails \/ OpRun \/ OpRunFails
    \/ ContainerEnds \/ StartAgain \/ AgentStarts \/ Tick
    \/ \E q \in Quota : UsedByHand(q)

Spec == Init /\ [][Next]_vars

-----------------------------------------------------------------------------
(* Properties *)

\* A start that the guard has let through finds the quotas it needs, unless the
\* guard panicked, could not serve the maintenance page, 1Password rounded the
\* time, a quota further down the table is reset later than the one waited for, or
\* the quotas were used meanwhile: the parsed time is the time named and no
\* exhausted quota is missed (op.go:22-60 and 86-143, op-limit-check/main.go:28-39,
\* entrypoint.sh:10-12).
FailedStartsAreExplained ==
    [][(container = "opRun" /\ container' = "ended") => excuses # {}]_vars

\* The guard keeps the server away only while a quota is used up and no longer than
\* until that one is reset, whatever the table, its texts and the messages in it
\* (op.go:22-60 and 86-143, op-limit-check/main.go:28-40).
WaitsOnlyWhileUsedUp ==
    container = "waiting" /\ timer > 0 => \E q \in Exhausted : timer <= quota[q].reset
=============================================================================
