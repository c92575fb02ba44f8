---- MODULE Clock ----
(***************************************************************************)
(* The clock: trap.c's tick, which counts in an unsigned integer and wakes *)
(* every sleeper, and sysproc.c's sys_sleep, which compares differences.   *)
(***************************************************************************)
EXTENDS Integers

CONSTANTS Sleepers, TICKS,      \* ticks counts modulo TICKS (2^32)
          Naps,                 \* the arguments of sleep
          MaxLate               \* ticks that pass while a woken process is not run

ASSUME ClockAssumption == /\ TICKS \in Nat \ {0, 1} /\ MaxLate \in Nat
                          /\ \A n \in Naps : n \in Nat /\ n + MaxLate < TICKS

VARIABLES now,      \* ticks
          nap,      \* where each process is: in user space, at the loop's test, or asleep
          ticks0, naptime, doomed,      \* its call's ticks0 and n, and its p->killed
          late,     \* the ticks since it was woken
          age       \* the ticks since it called (at most TICKS)

napVars == <<nap, ticks0, naptime, late, age>>
clockVars == <<now, napVars, doomed>>

ClockInit == /\ now = TICKS - 2
             /\ nap = [p \in Sleepers |-> "user"] /\ doomed = [p \in Sleepers |-> FALSE]
             /\ ticks0 = [p \in Sleepers |-> 0] /\ naptime = [p \in Sleepers |-> 0]
             /\ late = [p \in Sleepers |-> 0] /\ age = [p \in Sleepers |-> 0]

Older(a) == IF a < TICKS THEN a + 1 ELSE a
\* The timer interrupt of CPU 0.
tick == /\ \A p \in Sleepers : nap[p] = "test" => late[p] < MaxLate
        /\ now' = (now + 1) % TICKS
        /\ nap' = [p \in Sleepers |-> IF nap[p] = "asleep" THEN "test" ELSE nap[p]]
        /\ late' = [p \in Sleepers |-> IF nap[p] = "test" THEN late[p] + 1 ELSE late[p]]
        /\ age' = [p \in Sleepers |-> IF nap[p] = "user" THEN age[p] ELSE Older(age[p])]
        /\ UNCHANGED <<ticks0, naptime, doomed>>

sys_sleep(p, n) == /\ nap[p] = "user" /\ ~doomed[p]
                   /\ nap' = [nap EXCEPT ![p] = "test"]
                   /\ ticks0' = [ticks0 EXCEPT ![p] = now] /\ naptime' = [naptime EXCEPT ![p] = n]
                   /\ UNCHANGED <<now, doomed, late, age>>

NotYet_Early(t, t0, n) == ((t - t0) % TICKS) + 1 < n
NotYet(t, t0, n) == (t - t0) % TICKS < n
\* The loop's test, with tickslock held: sleep ...
sys_sleep_wait(p) == /\ nap[p] = "test" /\ NotYet(now, ticks0[p], naptime[p]) /\ ~doomed[p]
                     /\ nap' = [nap EXCEPT ![p] = "asleep"] /\ late' = [late EXCEPT ![p] = 0]
                     /\ UNCHANGED <<now, ticks0, naptime, doomed, age>>
\* ... or return, 0 or -1.
sys_sleep_return(p) ==
    /\ nap[p] = "test" /\ (~NotYet(now, ticks0[p], naptime[p]) \/ doomed[p])
    /\ nap' = [nap EXCEPT ![p] = "user"]
    /\ ticks0' = [ticks0 EXCEPT ![p] = 0] /\ naptime' = [naptime EXCEPT ![p] = 0]
    /\ late' = [late EXCEPT ![p] = 0] /\ age' = [age EXCEPT ![p] = 0]
    /\ UNCHANGED <<now, doomed>>

clock_kill(p) == /\ ~doomed[p]
                 /\ doomed' = [doomed EXCEPT ![p] = TRUE]
                 /\ nap' = [nap EXCEPT ![p] = IF @ = "asleep" THEN "test" ELSE @]
                 /\ UNCHANGED <<now, ticks0, naptime, late, age>>

ClockNext == \/ tick
             \/ \E p \in Sleepers : \/ \E n \in Naps : sys_sleep(p, n)
                                    \/ sys_sleep_wait(p) \/ sys_sleep_return(p) \/ clock_kill(p)

\* sysproc.c:67-74: sleep(n) returns to a process that was not killed only
\* after n ticks, also when ticks wraps around to 0 in between.
SleepsLongEnough ==
    [][\A p \in Sleepers : nap[p] = "test" /\ nap'[p] = "user" /\ ~doomed[p]
          => age[p] >= naptime[p]]_clockVars

\* sysproc.c:67-74, trap.c:55-56: nobody is asleep when their time is over:
\* each tick wakes every sleeper, and who sleeps again still has to.
WokenInTime == \A p \in Sleepers : nap[p] = "asleep" => age[p] < naptime[p]

\* sysproc.c:67-74: sleep(n) lasts for n ticks, and a sleeper is up by then.
SleepsExactly == SleepsLongEnough /\ []WokenInTime
====
