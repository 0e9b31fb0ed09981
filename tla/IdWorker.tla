------------------------------ MODULE IdWorker ------------------------------
(***************************************************************************)
(* RedisIdWorker.nextId: the seconds since BEGIN_TIMESTAMP shifted by      *)
(* COUNT_BITS, or'ed with a counter of the day in Redis.  The clock is the *)
(* LocalDateTime of the calling instance: it may be read long before the   *)
(* counter, differ between instances, and be set back.                     *)
(***************************************************************************)
EXTENDS Naturals, FiniteSets

CONSTANTS
    IdCaller,    \* threads that call nextId
    Horizon,     \* bound: the last second
    DayLength,   \* seconds of a day
    CountRange   \* 2 ^ COUNT_BITS; the counter of a day is bounded by it

ASSUME IdConstants ==
    /\ Horizon \in Nat /\ DayLength \in Nat \ {0} /\ CountRange \in Nat \ {0}

Second == 0..Horizon
Day(t) == t \div DayLength
Days == {Day(t) : t \in Second}
NoSecond == Horizon + 1

VARIABLES
    now,     \* per caller: what LocalDateTime.now() says
    stamp,   \* the second nextId has read
    counter, \* icr:order:{date}
    issued,  \* ids handed out
    calls    \* history: how often

idVars == <<now, stamp, counter, issued, calls>>

IdInit ==
    /\ now \in [IdCaller -> Second]
    /\ stamp = [w \in IdCaller |-> NoSecond]
    /\ counter = [d \in Days |-> 0]
    /\ issued = {} /\ calls = 0

\* Time passes, and may be set back.
Clock(w, t) ==
    /\ now' = [now EXCEPT ![w] = t]
    /\ UNCHANGED <<stamp, counter, issued, calls>>

ReadClock(w) ==
    /\ stamp[w] = NoSecond
    /\ stamp' = [stamp EXCEPT ![w] = now[w]]
    /\ UNCHANGED <<now, counter, issued, calls>>

\* Changed form: the date is formatted from a second look at the clock.
DateNow(w) == Day(now[w])

\* The date of the second that goes into the id.
Date(w) == Day(stamp[w])

\* timestamp << COUNT_BITS | count, as long as the count keeps to its bits.
Id(t, c) == t * CountRange + c

Increment(w) ==
    /\ stamp[w] # NoSecond /\ counter[Date(w)] + 1 < CountRange
    /\ counter' = [counter EXCEPT ![Date(w)] = @ + 1]
    /\ issued' = issued \cup {Id(stamp[w], counter[Date(w)] + 1)}
    /\ calls' = calls + 1
    /\ stamp' = [stamp EXCEPT ![w] = NoSecond]
    /\ UNCHANGED now

IdNext ==
    \E w \in IdCaller : ReadClock(w) \/ Increment(w) \/ \E t \in Second : Clock(w, t)

IdSpec == IdInit /\ [][IdNext]_idVars

-----------------------------------------------------------------------------
IdTypeOK ==
    /\ now \in [IdCaller -> Second] /\ stamp \in [IdCaller -> 0..NoSecond]
    /\ counter \in [Days -> 0..(CountRange - 1)]
    /\ issued \subseteq Nat /\ IsFiniteSet(issued) /\ calls \in Nat

\* No two calls return the same id, whatever the clocks of the instances do, as
\* long as a day's counter keeps to COUNT_BITS: the date of the counter and the
\* second in the id come from one look at the clock.
IdsUnique == Cardinality(issued) = calls
=============================================================================
