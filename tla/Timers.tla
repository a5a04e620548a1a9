------------------------------- MODULE Timers -------------------------------
(***************************************************************************)
(* The timers of platoon: the alarms of the Clock (runtime/clock.rs), the  *)
(* futures that set them (Sleep, Interval and Timeout of time.rs), and the *)
(* wait in epoll_wait that the earliest alarm bounds (sys.rs).             *)
(*                                                                         *)
(* The thread runs user code, which polls, resets and drops timers, or is  *)
(* inside Clock::park.  Time passes in both.  The wakers of the alarms are *)
(* those of tasks, and a timer may move from task to task.                 *)
(*                                                                         *)
(* Instants are counted in units of which a millisecond has MS, since the  *)
(* time to the next alarm is converted to whole milliseconds.              *)
(***************************************************************************)
EXTENDS Integers, FiniteSetsExt

CONSTANTS
  Timers,      \* the timers that a program creates
  Tasks,       \* the tasks that poll them
  None,        \* no task, no alarm
  Instants,    \* the instants that time passes through (bound)
  MS,          \* units in a millisecond
  PERIOD,      \* the period of every Interval, in units
  C_INT        \* c_int holds -C_INT .. C_INT - 1 (2^31)

ASSUME TimersAssumption ==
  /\ Instants \subseteq Nat
  /\ None \notin Nat /\ None \notin Tasks
  /\ MS \in Nat \ {0}
  /\ PERIOD \in Nat
  /\ C_INT \in Nat \ {0}

VARIABLES
  now,         \* Instant::now()
  kind,        \* of a timer: "none" before it is made and after its drop
  deadline,    \* Sleep.deadline
  id,          \* Sleep.alarm.0, or None
  waker,       \* Sleep.alarm.1, or None
  alarms,      \* Shared.alarms: from (at, id) to a waker
  next_alarm,  \* Shared.next_alarm
  pc,          \* "run", or inside the poller: "parked" by Clock::park,
               \* "polling" by Clock::park_timeout
  wakers,      \* the expired alarms taken by the current park
  start,       \* when the current park began, or None
  timeout,     \* its timeout in milliseconds, endless if negative
  unused,      \* timers not made yet
  waiting,     \* history: the task suspended on a timer
  heard,       \* history: the tasks woken for a timer since its last poll
  failed,      \* history: park has returned an error
  panicked     \* history: the timers on which an operation panicked

sleepVars == <<kind, deadline, id, waker, unused>>
clockVars == <<alarms, next_alarm>>
parkVars == <<pc, wakers, start, timeout, failed>>
vars == <<now, kind, deadline, id, waker, unused, alarms, next_alarm, pc,
          wakers, start, timeout, failed, waiting, heard, panicked>>

Keys == Instants \X Nat

TypeOK ==
  /\ now \in Instants
  /\ kind \in [Timers -> {"none", "sleep", "interval", "timeout"}]
  /\ deadline \in [Timers -> Instants]
  /\ id \in [Timers -> Nat \union {None}]
  /\ waker \in [Timers -> Tasks \union {None}]
  /\ DOMAIN alarms \subseteq Keys
  /\ alarms \in [DOMAIN alarms -> Tasks]
  /\ next_alarm \in Nat
  /\ pc \in {"run", "parked", "polling"}
  /\ wakers \subseteq (Keys \X Tasks)
  /\ start \in Instants \union {None}
  /\ timeout \in Int
  /\ unused \subseteq Timers
  /\ waiting \in [Timers -> Tasks \union {None}]
  /\ heard \subseteq (Timers \X Tasks)
  /\ failed \in BOOLEAN
  /\ panicked \subseteq Timers

Init ==
  /\ now \in {i \in Instants : \A j \in Instants : i <= j}
  /\ kind = [s \in Timers |-> "none"]
  /\ deadline = [s \in Timers |-> now]
  /\ id = [s \in Timers |-> None]
  /\ waker = [s \in Timers |-> None]
  /\ alarms = [k \in {} |-> None]
  /\ next_alarm = 0
  /\ pc = "run"
  /\ wakers = {}
  /\ start = None
  /\ timeout = 0
  /\ unused = Timers
  /\ waiting = [s \in Timers |-> None]
  /\ heard = {}
  /\ failed = FALSE
  /\ panicked = {}

-----------------------------------------------------------------------------
(* The operations of the Clock                                             *)

Key(s) == <<deadline[s], id[s]>>

InsertKey(as, k, w) ==
  [l \in DOMAIN as \union {k} |-> IF l = k THEN w ELSE as[l]]

RemoveKey(as, k) == Restrict(as, DOMAIN as \ {k})

\* Mutant of InsertAlarm: the alarm is given the waker remembered before.
InsertAlarmOldWaker(s, t) ==
  /\ alarms' = InsertKey(alarms, <<deadline[s], next_alarm>>, waker[s])
  /\ next_alarm' = next_alarm + 1
  /\ id' = [id EXCEPT ![s] = next_alarm]
  /\ waker' = [waker EXCEPT ![s] = t]

\* insert_alarm, and the Sleep that remembers its id and waker.
InsertAlarm(s, t) ==
  /\ alarms' = InsertKey(alarms, <<deadline[s], next_alarm>>, t)
  /\ next_alarm' = next_alarm + 1
  /\ id' = [id EXCEPT ![s] = next_alarm]
  /\ waker' = [waker EXCEPT ![s] = t]

\* Mutant of ResetSleep: the alarm at the old deadline is not removed.
ResetSleepKeep(s, d) ==
  LET lost == id[s] # None /\ Key(s) \notin DOMAIN alarms
  IN  /\ panicked' = IF lost THEN panicked \union {s} ELSE panicked
      /\ deadline' = IF lost THEN deadline ELSE [deadline EXCEPT ![s] = d]
      /\ alarms' = IF lost \/ id[s] = None THEN alarms
                   ELSE InsertKey(alarms, <<d, id[s]>>, alarms[Key(s)])

\* Sleep::reset: an alarm that was set is moved, if it is still there;
\* otherwise the unwrap of reset_alarm panics and nothing changes.
ResetSleep(s, d) ==
  LET lost == id[s] # None /\ Key(s) \notin DOMAIN alarms
  IN  /\ panicked' = IF lost THEN panicked \union {s} ELSE panicked
      /\ deadline' = IF lost THEN deadline ELSE [deadline EXCEPT ![s] = d]
      /\ alarms' = IF lost \/ id[s] = None THEN alarms
                   ELSE InsertKey(RemoveKey(alarms, Key(s)), <<d, id[s]>>,
                                  alarms[Key(s)])

\* replace_alarm_waker, which panics if the alarm is gone, and the Sleep that
\* remembers the waker.
ReplaceWaker(s, t) ==
  IF Key(s) \in DOMAIN alarms
    THEN /\ alarms' = [alarms EXCEPT ![Key(s)] = t]
         /\ waker' = [waker EXCEPT ![s] = t]
         /\ UNCHANGED panicked
    ELSE panicked' = panicked \union {s} /\ UNCHANGED <<alarms, waker>>

\* Mutant of PendingSleep: the alarm keeps the waker of the task that polled
\* the Sleep first.
PendingSleepKeep(s, t) ==
  /\ IF id[s] = None
       THEN InsertAlarm(s, t)
       ELSE UNCHANGED <<alarms, next_alarm, id, waker>>
  /\ UNCHANGED panicked

\* What a poll of Sleep by `t' does before its deadline.
PendingSleep(s, t) ==
  IF id[s] = None
    THEN InsertAlarm(s, t) /\ UNCHANGED panicked
    ELSE IF waker[s] = t
      THEN UNCHANGED <<alarms, next_alarm, id, waker, panicked>>
      ELSE ReplaceWaker(s, t) /\ UNCHANGED <<next_alarm, id>>

\* Mutant of Expired: alarms are taken within the last millisecond.
ExpiredEarly == {k \in DOMAIN alarms : k[1] < now + MS}

\* The alarms that split_off leaves in `ready'.
Expired == {k \in DOMAIN alarms : k[1] <= now}

\* `as c_int'
ToCInt(n) == ((n + C_INT) % (2 * C_INT)) - C_INT

\* Mutant of ParkTimeout: the last of the alarms bounds the wait.
ParkTimeoutLast ==
  IF Expired # {} THEN 0
  ELSE IF DOMAIN alarms = {} THEN -1
  ELSE ToCInt((Max({k[1] : k \in DOMAIN alarms}) - now) \div MS)

\* Mutant of ParkTimeout: the alarms do not bound the wait.
ParkTimeoutForever == IF Expired # {} THEN 0 ELSE -1

\* extend_with_expired, and the timeout that becomes of it in epoll_wait:
\* none of the alarms has expired and they bound the wait, or some have and
\* there is no wait, or there are none.  The time left is cut to whole
\* milliseconds.
ParkTimeout ==
  IF Expired # {} THEN 0
  ELSE IF DOMAIN alarms = {} THEN -1
  ELSE ToCInt((Min({k[1] : k \in DOMAIN alarms}) - now) \div MS)

-----------------------------------------------------------------------------
(* What tasks do                                                           *)

Alive(s) == kind[s] # "none"

\* The timer is polled or dropped: earlier wake-ups are answered.
Unheard(s) == heard' = {h \in heard : h[1] # s}

\* A Sleep without an alarm, alone or inside an Interval or a Timeout.
Create(s, k, d) ==
  /\ pc = "run"
  /\ s \in unused
  /\ unused' = unused \ {s}
  /\ kind' = [kind EXCEPT ![s] = k]
  /\ deadline' = [deadline EXCEPT ![s] = d]
  /\ UNCHANGED <<now, id, waker, clockVars, parkVars, waiting, heard, panicked>>

\* sleep, sleep_until
SleepUntil(s, d) == Create(s, "sleep", d)

\* interval, interval_at
IntervalAt(s, d) == Create(s, "interval", d)

\* timeout, timeout_at
TimeoutAt(s, d) == Create(s, "timeout", d)

\* Sleep::poll, and Timeout::poll when its future is pending.
PollPending(s, t) ==
  /\ pc = "run"
  /\ Alive(s)
  /\ now < deadline[s]
  /\ PendingSleep(s, t)
  /\ waiting' = [waiting EXCEPT ![s] = t]
  /\ Unheard(s)
  /\ UNCHANGED <<now, kind, deadline, unused, parkVars>>

PollReady(s) ==
  /\ pc = "run"
  /\ kind[s] \in {"sleep", "timeout"}
  /\ now >= deadline[s]
  /\ waiting' = [waiting EXCEPT ![s] = None]
  /\ Unheard(s)
  /\ UNCHANGED <<now, sleepVars, clockVars, parkVars, panicked>>

\* Interval::tick at its deadline: the Sleep starts again from now.
TickReady(s) ==
  /\ pc = "run"
  /\ kind[s] = "interval"
  /\ now >= deadline[s]
  /\ now + PERIOD \in Instants
  /\ ResetSleep(s, now + PERIOD)
  /\ waiting' = [waiting EXCEPT ![s] = None]
  /\ Unheard(s)
  /\ UNCHANGED <<now, kind, id, waker, unused, next_alarm, parkVars>>

\* Timeout::poll when its future is ready: the Sleep is not looked at.
FutureReady(s) ==
  /\ pc = "run"
  /\ kind[s] = "timeout"
  /\ waiting' = [waiting EXCEPT ![s] = None]
  /\ Unheard(s)
  /\ UNCHANGED <<now, sleepVars, clockVars, parkVars, panicked>>

\* Sleep::reset, called by the owner of the Sleep.
Reset(s, d) ==
  /\ pc = "run"
  /\ kind[s] = "sleep"
  /\ ResetSleep(s, d)
  /\ UNCHANGED <<now, kind, id, waker, unused, next_alarm, parkVars, waiting,
                 heard>>

\* Drop for Sleep
DropTimer(s) ==
  /\ pc = "run"
  /\ Alive(s)
  /\ kind' = [kind EXCEPT ![s] = "none"]
  /\ alarms' = IF id[s] # None THEN RemoveKey(alarms, Key(s)) ELSE alarms
  /\ waiting' = [waiting EXCEPT ![s] = None]
  /\ Unheard(s)
  /\ UNCHANGED <<now, deadline, id, waker, unused, next_alarm, parkVars,
                 panicked>>

-----------------------------------------------------------------------------
(* Parking and the passing of time                                         *)

\* Clock::park when the executor has nothing to run.  Clock::park_timeout is
\* only called with Duration::ZERO, so that its timeout is always zero.
Park(idle) ==
  /\ pc = "run"
  /\ pc' = IF idle THEN "parked" ELSE "polling"
  /\ wakers' = {<<k, alarms[k]>> : k \in Expired}
  /\ alarms' = Restrict(alarms, DOMAIN alarms \ Expired)
  /\ start' = now
  /\ timeout' = IF idle THEN ParkTimeout ELSE 0
  /\ UNCHANGED <<now, sleepVars, next_alarm, failed, waiting, heard, panicked>>

\* When epoll_wait returns if nothing happens.
WaitEnd == start + timeout * MS

TimedOut == pc # "run" /\ timeout >= 0 /\ now >= WaitEnd

\* The parker returns, with or without an error.
LeavePark ==
  /\ pc # "run"
  /\ pc' = "run"
  /\ wakers' = {}
  /\ start' = None
  /\ timeout' = 0

\* The wakers are woken after the poll: those of a timer are found by its id.
Unpark ==
  /\ LeavePark
  /\ heard' = heard \union
                {h \in Timers \X Tasks :
                   \E x \in wakers : x[1][2] = id[h[1]] /\ x[2] = h[2]}
  /\ UNCHANGED <<now, sleepVars, clockVars, failed, waiting, panicked>>

\* epoll_wait returns after its timeout.
TimeUp == TimedOut /\ Unpark

\* epoll_wait returns earlier, for an event or a signal.
Interrupted == ~TimedOut /\ Unpark

\* epoll_wait or epoll_ctl fails: block_on panics with the wakers in hand.
ParkFailed ==
  /\ LeavePark
  /\ failed' = TRUE
  /\ UNCHANGED <<now, sleepVars, clockVars, waiting, heard, panicked>>

TimePasses ==
  /\ \E i \in Instants : i > now /\ now' = i
  /\ UNCHANGED <<sleepVars, clockVars, parkVars, waiting, heard, panicked>>

Next ==
  \/ \E s \in Timers :
       \/ \E d \in Instants :
            SleepUntil(s, d) \/ IntervalAt(s, d) \/ TimeoutAt(s, d) \/ Reset(s, d)
       \/ \E t \in Tasks : PollPending(s, t)
       \/ PollReady(s) \/ TickReady(s) \/ FutureReady(s) \/ DropTimer(s)
  \/ \E idle \in BOOLEAN : Park(idle)
  \/ TimeUp \/ Interrupted \/ ParkFailed \/ TimePasses

Spec == Init /\ [][Next]_vars

-----------------------------------------------------------------------------
(* Properties                                                              *)

\* Sleep::poll never panics: where it replaces the waker of its alarm, the
\* alarm is still set, whatever resets, moves and parks came before.
PollNeverPanics ==
  \A s \in Timers :
    Alive(s) /\ id[s] # None /\ now < deadline[s] => Key(s) \in DOMAIN alarms

\* The task suspended on a timer is the one that its alarm will wake, or it
\* has been woken since, or its waker is in hand.  (An error of park drops
\* the wakers in hand.)
NoLostTimer ==
  \A s \in Timers :
    waiting[s] # None /\ ~failed =>
      \/ Key(s) \in DOMAIN alarms /\ alarms[Key(s)] = waiting[s]
      \/ <<Key(s), waiting[s]>> \in wakers
      \/ <<s, waiting[s]>> \in heard

\* An alarm is never left behind by its timer, at an old deadline or after
\* its drop.
NoOrphanAlarm ==
  \A k \in DOMAIN alarms : \E s \in Timers : Alive(s) /\ k = Key(s)

\* The time from the beginning of the park to an alarm fits into the c_int of
\* milliseconds that epoll_wait takes, 24.8 days.
Near(k) == k[1] - start <= (C_INT - 1) * MS

SomeNear == \E k \in DOMAIN alarms : Near(k)

\* "Just park until the next timer or IO event": a wait that ends is over
\* before a millisecond has passed since the first alarm, and it does end if
\* the alarm is near.  An idle thread sleeps that long, too: nothing ends its
\* wait a millisecond or more before every alarm.  (Neither side says whether
\* the last millisecond is rounded up or down.)
ParkedInTime ==
  /\ pc # "run" =>
       \A k \in DOMAIN alarms : /\ timeout >= 0 => WaitEnd < k[1] + MS
                                /\ Near(k) => timeout >= 0
  /\ pc = "parked" /\ wakers = {} /\ SomeNear =>
       \E k \in DOMAIN alarms : k[1] < WaitEnd + MS

\* What the comment in extend_with_expired says: the wait of an idle thread is
\* rounded up to 1ms, and when it ends an alarm has expired.  The code rounds
\* down, so this does not hold.
ParkRoundedUp ==
  pc = "parked" /\ wakers = {} /\ SomeNear =>
    \E k \in DOMAIN alarms : k[1] <= WaitEnd

\* Interval::tick returns at every interval.  It never panics, however many
\* ticks there were before.
TickNeverPanics == \A s \in Timers : kind[s] = "interval" => s \notin panicked

\* Time passes and epoll_wait keeps to its timeout.
Fairness == WF_vars(TimePasses) /\ WF_vars(TimeUp)

\* As long as the executor comes back to the parker, a task suspended on a
\* timer is woken, or it is no longer suspended on it: a sleep ends.  This
\* fails where the timeout does not fit into a c_int and becomes negative.
SleepsEnd ==
  []<>(pc # "run") /\ []~failed =>
    \A s \in Timers :
      waiting[s] # None ~> waiting[s] = None \/ <<s, waiting[s]>> \in heard

\* The same for programs that never park with all of their alarms out of the
\* reach of a c_int.
TimersServed ==
  [](pc # "run" /\ DOMAIN alarms # {} => SomeNear) => SleepsEnd

-----------------------------------------------------------------------------
(* The inductive invariant                                                 *)

\* Alarm ids are given out once.
IdInv ==
  /\ \A s \in Timers : id[s] # None => id[s] < next_alarm
  /\ \A r, s \in Timers : id[s] # None /\ id[r] = id[s] => r = s
  /\ \A s \in unused : kind[s] = "none" /\ id[s] = None

\* The Sleep remembers the waker of its alarm, which is what spares it from
\* replacing the waker at every poll.
WakerInv ==
  /\ pc = "run" => wakers = {}
  /\ \A s \in Timers :
       /\ id[s] # None /\ Key(s) \in DOMAIN alarms => alarms[Key(s)] = waker[s]
       /\ waiting[s] # None => Alive(s) /\ id[s] # None /\ waker[s] = waiting[s]

IInv ==
  /\ TypeOK
  /\ IdInv
  /\ WakerInv
  /\ PollNeverPanics
  /\ NoLostTimer
  /\ NoOrphanAlarm
=============================================================================
