------------------------------ MODULE Anomaly ------------------------------
(***************************************************************************)
(* The detector of unusual behaviour: what it learns of each agent, action  *)
(* and kind of resource, how it scores a request against that, and what the *)
(* proxy makes of the score: in block mode before the request is recorded,  *)
(* in alert mode after it.                                                   *)
(*                                                                          *)
(* Time goes in units, PerHour of them an hour; an observation is kept as   *)
(* its age.  A z-score is compared with the threshold in squares, so that   *)
(* every number is whole; the decayed sums are scaled by their denominator. *)
(***************************************************************************)
EXTENDS Integers, FiniteSets, FiniteSetsExt

CONSTANTS
    Goroutines,          \* of requests
    Keys,                \* agent, action, and bucket of the resource
    Sensitive,           \* keys with a pattern of the cold-start backstop
    Habits,              \* [mode, sigma]: the settings; [keys, known, past, floors, pace,
                         \* most, span]: what is asked for, and how often
    PerHour, Day, Window,\* units in an hour, hours in a day, units of the window
    DecayNum, DecayDen,  \* weight of an observation a unit older
    MinActions,          \* below it there is no baseline
    MaxKeys              \* maxDistinctKeys

ConstantsAssumption ==
    /\ {PerHour, Day, Window, DecayNum, DecayDen, MinActions, MaxKeys} \subseteq Nat
    /\ PerHour > 0 /\ Day > 0 /\ Window > PerHour /\ MaxKeys > 0 /\ DecayNum <= DecayDen

VARIABLES
    habit,    \* the settings of this process
    clock,    \* the unit of the day
    seen,     \* [Keys -> [age -> observations]]
    tracked,  \* keys in the store
    idle,     \* units since a key was last seen
    req,      \* each request: where it is, what it read, what became of it
    asked,    \* requests for a key in this unit
    passed,   \* those let through on the baseline the key has, by a rate read in this unit
    units     \* of time so far, unless the pace is steady

vars == <<habit, clock, seen, tracked, idle, req, asked, passed, units>>
store == <<seen, tracked, idle>>

Ages == 0 .. Window
Hour == clock \div PerHour
HourAt(age) == ((clock + PerHour * Day * Window - age) % (PerHour * Day)) \div PerHour
Free == [at |-> "free", key |-> "none", floor |-> "allow", rate |-> 0, hour |-> 0,
         fresh |-> FALSE, verdict |-> "none"]
Never == [a \in Ages |-> 0]

\* SensitivityPresets, squared: 3, 2 and 1.5.
Sigma2 == CASE habit.sigma = "low" -> [num |-> 9, den |-> 1]
            [] habit.sigma = "medium" -> [num |-> 4, den |-> 1]
            [] habit.sigma = "high" -> [num |-> 9, den |-> 4]

\* A baseline as it is after a past of so many requests in every unit.
Init ==
    /\ habit \in Habits /\ clock = 0
    /\ seen = [k \in Keys |-> IF k \in habit.known
                              THEN [a \in Ages |-> IF a = 0 THEN 0 ELSE habit.past] ELSE Never]
    /\ tracked = habit.known
    /\ idle = [k \in Keys |-> 1]
    /\ req = [g \in Goroutines |-> Free]
    /\ asked = [k \in Keys |-> 0] /\ passed = [k \in Keys |-> 0] /\ units = 0
-----------------------------------------------------------------------------
(* The baseline *)

SumOver(f(_)) == MapThenSumSet(f, Ages)
Total(k) == LET Count(a) == seen[k][a] IN SumOver(Count)

\* RecentRate: observations of the last hour.
Rate(k) == LET Count(a) == IF a <= PerHour THEN seen[k][a] ELSE 0 IN SumOver(Count)

Power(b, e) == FoldSet(LAMBDA x, y : y * b, 1, 1 .. e)
Weight(a) == Power(DecayNum, a) * Power(DecayDen, Window - a)
Even == [a \in Ages |-> 1]
Decay == [a \in Ages |-> Weight(a)]
Scale == Power(DecayDen, Window)
Decayed(k) == LET Count(a) == seen[k][a] * Weight(a) IN SumOver(Count)

\* action_frequency: the mean is observations per hour of the window, and so is
\* the variance.
FarFrom(sum, scale, rate) ==
    LET mean == sum * PerHour
        unit == Window * scale
        off  == rate * unit - mean
    IN  sum > 0 /\ off * off * Sigma2.den >= Sigma2.num * mean * unit

\* hour_of_day: the hour as a number, against the mean of the hours seen.
OddHour(k, weight, hour) ==
    LET Once(a)  == seen[k][a] * weight[a]
        First(a) == Once(a) * HourAt(a)
        Second(a) == First(a) * HourAt(a)
        n == SumOver(Once)  s == SumOver(First)
        off == hour * n - s
    IN  n > 0 /\ off # 0 /\ off * off * Sigma2.den >= Sigma2.num * (n * SumOver(Second) - s * s)

\* Any dimension decides, as their greatest does.
Deviates(k, rate, hour) ==
    \/ FarFrom(Total(k), 1, rate) \/ FarFrom(Decayed(k), Scale, rate)
    \/ OddHour(k, Even, hour) \/ OddHour(k, Decay, hour)

Cold(k) == Total(k) < MinActions

\* ScoreAnomaly; a rate of zero at hour zero counts as none given.
Verdict(k, rate, hour, given) ==
    IF Cold(k) THEN IF k \in Sensitive THEN "anomalous" ELSE "insufficient"
    ELSE IF given /\ Deviates(k, rate, hour) THEN "anomalous" ELSE "normal"

\* Observe: a new key may cost an old one its place; what is too old goes.
Observe(k) ==
    /\ \E gone \in IF k \in tracked \/ Cardinality(tracked) < MaxKeys THEN {{}}
                   ELSE {{j} : j \in {i \in tracked : \A o \in tracked : idle[i] >= idle[o]}} :
         /\ tracked' = (tracked \ gone) \cup {k}
         /\ seen' = [j \in Keys |-> IF j = k THEN [seen[k] EXCEPT ![0] = @ + 1]
                                    ELSE IF j \in gone THEN Never ELSE seen[j]]
    /\ idle' = [idle EXCEPT ![k] = 0]
-----------------------------------------------------------------------------
(* A request *)

\* The evaluator has decided; in block mode an allow is scored before it is
\* recorded, and all is observed after it.
Arrive(g) ==
    /\ req[g].at = "free"
    /\ \E k \in habit.keys, floor \in habit.floors :
         /\ asked[k] < habit.most /\ asked' = [asked EXCEPT ![k] = @ + 1]
         /\ req' = [req EXCEPT ![g] = [Free EXCEPT !.key = k, !.floor = floor, !.verdict = floor,
               !.at = IF habit.mode = "block" /\ floor = "allow" THEN "decide" ELSE "observe"]]
    /\ UNCHANGED <<habit, clock, store, passed, units>>

\* Decide reads the rate and observeAnomaly does, each before the baseline is
\* read or changed under another lock.
ReadRate(g) ==
    LET r == req[g]
    IN  /\ r.at \in {"decide", "observe"}
        /\ req' = [req EXCEPT ![g] = [r EXCEPT !.rate = Rate(r.key), !.hour = Hour, !.fresh = TRUE,
                      !.at = IF r.at = "decide" THEN "score" ELSE "learn"]]
        /\ UNCHANGED <<habit, clock, store, asked, passed, units>>

\* Decide: only an allow is made a deny.
Score(g) ==
    LET r == req[g]
        v == Verdict(r.key, r.rate, r.hour, TRUE)
    IN  /\ r.at = "score"
        /\ req' = [req EXCEPT ![g] = [r EXCEPT !.at = "observe",
                      !.verdict = IF v = "anomalous" THEN "deny" ELSE "allow"]]
        /\ passed' = IF v = "normal" /\ r.fresh THEN [passed EXCEPT ![r.key] = @ + 1] ELSE passed
        /\ UNCHANGED <<habit, clock, store, asked, units>>

LearnDenies(g) ==
    LET r == req[g]
    IN  /\ r.at = "learn"
        /\ IF r.verdict = "deny" THEN Observe(r.key) ELSE UNCHANGED store
        /\ req' = [req EXCEPT ![g].at =
              IF habit.mode = "alert" /\ r.verdict = "allow" THEN "judge" ELSE "done"]
        /\ UNCHANGED <<habit, clock, asked, passed, units>>

LearnAllows(g) ==
    LET r == req[g]
    IN  /\ r.at = "learn"
        /\ IF r.verdict = "allow" THEN Observe(r.key) ELSE UNCHANGED store
        /\ req' = [req EXCEPT ![g].at =
              IF habit.mode = "alert" /\ r.verdict = "allow" THEN "judge" ELSE "done"]
        /\ UNCHANGED <<habit, clock, asked, passed, units>>

\* Run: everything is learned, a deny too; block mode has scored already.
Learn(g) ==
    LET r == req[g]
    IN  /\ r.at = "learn"
        /\ Observe(r.key)
        /\ req' = [req EXCEPT ![g].at =
              IF habit.mode = "alert" /\ r.verdict = "allow" THEN "judge" ELSE "done"]
        /\ passed' = [k \in Keys |-> IF k \in tracked' THEN passed[k] ELSE 0]
        /\ UNCHANGED <<habit, clock, asked, units>>

\* Run in alert mode: an event, and nothing else.
Judge(g) ==
    LET r == req[g]
        v == Verdict(r.key, r.rate, r.hour, ~(r.hour = 0 /\ r.rate = 0))
    IN  /\ r.at = "judge"
        /\ req' = [req EXCEPT ![g] = [r EXCEPT !.at = "done",
                      !.verdict = IF v = "anomalous" THEN "alert" ELSE r.verdict]]
        /\ UNCHANGED <<habit, clock, store, asked, passed, units>>

Leave(g) ==
    /\ req[g].at = "done"
    /\ req' = [req EXCEPT ![g] = Free]
    /\ UNCHANGED <<habit, clock, store, asked, passed, units>>

\* A unit of time.  At a steady pace every key has been asked for as often as
\* ever, and answered, before the next.
Pass ==
    /\ habit.pace => \A k \in habit.keys : asked[k] = habit.most
    /\ habit.pace => \A g \in Goroutines : req[g] = Free
    /\ IF habit.pace THEN UNCHANGED units ELSE units < habit.span /\ units' = units + 1
    /\ clock' = (clock + 1) % (PerHour * Day)
    /\ seen' = [k \in Keys |-> [a \in Ages |-> IF a = 0 THEN 0 ELSE seen[k][a - 1]]]
    /\ idle' = [k \in Keys |-> IF idle[k] > Window THEN idle[k] ELSE idle[k] + 1]
    /\ asked' = [k \in Keys |-> 0] /\ passed' = [k \in Keys |-> 0]
    /\ req' = [g \in Goroutines |-> [req[g] EXCEPT !.fresh = FALSE]]
    /\ UNCHANGED <<habit, tracked>>

Work(g) == ReadRate(g) \/ Score(g) \/ Learn(g) \/ Judge(g) \/ Leave(g)

Next == Pass \/ \E g \in Goroutines : Arrive(g) \/ Work(g)

\* A request that has arrived goes on.  An agent at a steady pace asks, which is
\* no promise of the proxy's but what the property is about.
Fairness ==
    /\ \A g \in Goroutines : WF_vars(Work(g)) /\ WF_vars(habit.pace /\ Arrive(g))
    /\ WF_vars(habit.pace /\ Pass)

Spec == Init /\ [][Next]_vars /\ Fairness

\* Nothing is enabled, in an instance that does not look at this module.
Rest ==
    /\ habit = [mode |-> "alert", sigma |-> "medium", keys |-> {}, known |-> {}, past |-> 0,
                floors |-> {}, pace |-> FALSE, most |-> 0, span |-> 0]
    /\ clock = 0 /\ seen = [k \in Keys |-> Never] /\ tracked = {} /\ idle = [k \in Keys |-> 1]
    /\ req = [g \in Goroutines |-> Free]
    /\ asked = [k \in Keys |-> 0] /\ passed = [k \in Keys |-> 0] /\ units = 0
-----------------------------------------------------------------------------
TypeOK ==
    /\ habit \in Habits /\ clock \in 0 .. PerHour * Day - 1
    /\ tracked \subseteq Keys /\ Cardinality(tracked) <= MaxKeys
    /\ \A k \in Keys : \A a \in Ages : seen[k][a] \in Nat

TooOften(k, rate) ==
    \/ rate * Window > Total(k) * PerHour /\ FarFrom(Total(k), 1, rate)
    \/ rate * Window * Scale > Decayed(k) * PerHour /\ FarFrom(Decayed(k), Scale, rate)

\* A burst is held.  However requests overlap between reading the rate, scoring
\* and learning, no more requests for a key with a baseline are let through in a
\* unit than the rate that counts as a deviation, and the others in flight.
BurstIsHeld ==
    habit.mode = "block" =>
        \A k \in Keys : ~TooOften(k, passed[k] - Cardinality(Goroutines))

\* Block mode forgives an agent at a steady pace, from its first request on: in
\* the end it is let through and stays so.
SteadyIsAllowed ==
    (habit.pace /\ habit.mode = "block") => <>[](\A g \in Goroutines : req[g].verdict # "deny")
-----------------------------------------------------------------------------
(* What the code does not do: MCLearningLimits.cfg *)

\* A key with a baseline is judged by it: another key's first request may take
\* its place.
BaselineIsKept ==
    [][\A k \in Keys : (k \in tracked /\ ~Cold(k) /\ clock' = clock) => k \in tracked']_vars

\* A request that comes after a quiet hour is not unusual for that.
QuietIsFine ==
    \A g \in Goroutines : req[g].at = "observe" /\ req[g].verdict = "deny" /\ req[g].floor = "allow"
                          => req[g].rate > 0

\* Both modes judge a sample alike.
ModesAgree ==
    \A g \in Goroutines :
        req[g].at = "judge" => (Verdict(req[g].key, req[g].rate, req[g].hour, TRUE) =
            Verdict(req[g].key, req[g].rate, req[g].hour, ~(req[g].hour = 0 /\ req[g].rate = 0)))
=============================================================================
