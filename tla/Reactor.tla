------------------------------ MODULE Reactor ------------------------------
(***************************************************************************)
(* I/O readiness: the reactor (runtime/reactor.rs), the retry loops of     *)
(* Async (net/mod.rs), the TCP operations made from them (net/tcp.rs) and  *)
(* the two system pollers (sys.rs).                                        *)
(*                                                                         *)
(* A task is in at most one I/O call, op[t].  A call of the kind           *)
(*   "do_io"    accept, peek: tries the system call, then waits in         *)
(*              poll_ready, where the next poll resumes it;                *)
(*   "poll_io"  poll_read, poll_write, poll_accept, poll_peek: every poll  *)
(*              starts with the system call;                               *)
(*   "connect"  TcpStream::connect: only waits in poll_ready.              *)
(* A system call and the poll_ready that follows it are separate steps.    *)
(*                                                                         *)
(* The kernel is external.  `armed' holds the interests that the poller    *)
(* reports, once, when they are ready.  Whether a socket is ready is the   *)
(* choice of the outside world whenever the poller or a system call looks. *)
(* The slab key of a source is the socket itself: no user code runs        *)
(* between the system poller's return and the dispatch of its events, so   *)
(* no key is reused in between.                                            *)
(***************************************************************************)
EXTENDS Naturals, FiniteSets

CONSTANTS
  Tasks,      \* tasks, the main future among them
  Sockets,    \* sockets that may be open at a time
  None,       \* no task
  Calls,      \* the calls that tasks make: pairs of an interest and a kind
  Backends,   \* the pollers of sys.rs: "epoll", "kqueue" or both
  MaxEvents   \* capacity of the `events' vector (1024)

Directions == {"Read", "Write"}

\* source.reader and source.writer of every source.
Interests == Sockets \X Directions

Of(x) == {x} \X Directions

NoOp == [at |-> "none", kind |-> "none", on |-> None]

Kinds == {"do_io", "poll_io", "connect"}

Ops == [at : {"try", "register", "suspended"}, kind : Kinds, on : Interests]

ASSUME ReactorAssumption ==
  /\ None \notin Tasks
  /\ None \notin Interests
  /\ Calls \subseteq Interests \X Kinds
  /\ Backends \subseteq {"epoll", "kqueue"}
  /\ MaxEvents \in Nat \ {0}

VARIABLES
  open,      \* sockets owned by an Async, each with a Source in the slab
  poller,    \* Interest.poller: the task whose waker is stored, or None
  woke,      \* the interests whose Interest.woke is set
  parked,    \* the thread is inside Reactor::poll
  events,    \* Shared.events, what is not yet dispatched; an event is the
             \* set of the interests it is about, all of one socket
  wakers,    \* the wakers collected by Reactor::poll
  op,        \* the I/O call of a task
  running,   \* the task being polled, or None
  woken,     \* tasks that are due to be polled
  armed,     \* external: interests that the system poller reports
  settled,   \* external: sockets whose connection attempt is over
  failed,    \* history: sockets whose last update_interest failed, or
             \* whose event was dropped
  stranded   \* history: tasks whose waker was dropped with `wakers'

sourceVars == <<open, poller, woke>>
batchVars == <<parked, events, wakers>>
kernelVars == <<armed, settled>>
faultVars == <<failed, stranded>>
vars == <<open, poller, woke, parked, events, wakers, op, running, woken,
          armed, settled, failed, stranded>>

TypeOK ==
  /\ open \subseteq Sockets
  /\ poller \in [Interests -> Tasks \union {None}]
  /\ woke \subseteq Interests
  /\ parked \in BOOLEAN
  /\ events \subseteq SUBSET Interests
  /\ wakers \subseteq Tasks
  /\ op \in [Tasks -> Ops \union {NoOp}]
  /\ running \in Tasks \union {None}
  /\ woken \subseteq Tasks
  /\ armed \subseteq Interests
  /\ settled \subseteq Sockets
  /\ failed \subseteq Sockets
  /\ stranded \subseteq Tasks

Init ==
  /\ open = {}
  /\ poller = [i \in Interests |-> None]
  /\ woke = {}
  /\ parked = FALSE
  /\ events = {}
  /\ wakers = {}
  /\ op = [t \in Tasks |-> NoOp]
  /\ running = None
  /\ woken = Tasks
  /\ armed = {}
  /\ settled = {}
  /\ failed = {}
  /\ stranded = {}

-----------------------------------------------------------------------------
(* Sources                                                                 *)

InUse(x) == \E t \in Tasks : op[t] # NoOp /\ op[t].on \in Of(x)

\* Mutant of Interested: one direction replaces the other.
InterestedOne(x, p) ==
  LET polled == {i \in Of(x) : p[i] # None}
  IN  IF polled = {} THEN {} ELSE {CHOOSE i \in polled : TRUE}

\* What Reactor::update_interest asks the poller to report of x: the
\* directions that have a waker, given the stored wakers p.
Interested(x, p) == {i \in Of(x) : p[i] # None}

\* Poller::update succeeds: the new interests of x replace the old ones.
UpdateInterest(x, p) ==
  /\ armed' = (armed \ Of(x)) \union Interested(x, p)
  /\ failed' = failed \ {x}

\* Poller::update fails.  epoll leaves the interests as they were; kqueue
\* may have applied the change of either filter, or of both.
UpdateFails(x, p) ==
  \E changed \in SUBSET Of(x) :
    /\ changed # {} => "kqueue" \in Backends
    /\ armed' = (armed \ changed) \union (changed \intersect Interested(x, p))

\* Reactor::insert_source, with both interests at their default.  When the
\* poller refuses the socket nothing is inserted.
InsertSource(x, st) ==
  /\ x \notin open
  /\ open' = open \union {x}
  /\ settled' = settled \union st
  /\ UNCHANGED <<poller, woke, armed, failed>>

\* Mutant of RemoveSource: the readiness flags outlive the source.
RemoveSourceKeep(x) ==
  /\ open' = open \ {x}
  /\ poller' = [i \in Interests |-> IF i \in Of(x) THEN None ELSE poller[i]]
  /\ woke' = woke
  /\ armed' = armed \ Of(x)
  /\ settled' = settled \ {x}
  /\ failed' = failed \ {x}

\* Reactor::remove_source, from the drop of an Async or from into_sys: the
\* stored wakers go with the source, the poller forgets the socket.
RemoveSource(x) ==
  /\ open' = open \ {x}
  /\ poller' = [i \in Interests |-> IF i \in Of(x) THEN None ELSE poller[i]]
  /\ woke' = woke \ Of(x)
  /\ armed' = armed \ Of(x)
  /\ settled' = settled \ {x}
  /\ failed' = failed \ {x}

-----------------------------------------------------------------------------
(* The poll of a task                                                      *)

\* block_on is between two polls, and the wakers of its last park are woken.
Idle == running = None /\ ~parked /\ wakers = {}

Resumed(o) ==
  IF o = NoOp THEN NoOp
  ELSE [o EXCEPT !.at = IF o.kind = "poll_io" THEN "try" ELSE "register"]

\* The executor polls t, which polls the call it waits for.
PollTask(t) ==
  /\ Idle
  /\ t \in woken
  /\ running' = t
  /\ woken' = woken \ {t}
  /\ op' = [op EXCEPT ![t] = Resumed(@)]
  /\ stranded' = stranded \ {t}
  /\ UNCHANGED <<sourceVars, batchVars, kernelVars, failed>>

\* The executor polls t, which drops the call: another branch of a select,
\* or a timeout, was ready first.  The future of a connect owns its stream.
PollCancel(t) ==
  /\ Idle
  /\ t \in woken
  /\ op[t] # NoOp
  /\ running' = t
  /\ woken' = woken \ {t}
  /\ op' = [op EXCEPT ![t] = NoOp]
  /\ stranded' = stranded \ {t}
  /\ IF op[t].kind = "connect" THEN RemoveSource(op[t].on[1])
     ELSE UNCHANGED <<sourceVars, kernelVars, failed>>
  /\ UNCHANGED batchVars

\* The poll of t returns.
EndPoll(t) ==
  /\ running = t
  /\ op[t].at \in {"none", "suspended"}
  /\ running' = None
  /\ UNCHANGED <<sourceVars, batchVars, kernelVars, faultVars, op, woken>>

\* TcpListener::bind and from_std.
Open(t, x) ==
  /\ running = t
  /\ op[t] = NoOp
  /\ InsertSource(x, {x})
  /\ UNCHANGED <<batchVars, op, running, woken, stranded>>

\* Drop of a stream or a listener, and into_std.
Close(t, x) ==
  /\ running = t
  /\ x \in open
  /\ ~InUse(x)
  /\ RemoveSource(x)
  /\ UNCHANGED <<batchVars, op, running, woken, stranded>>

\* A read, write, accept or peek begins.
StartIo(t, i, k) ==
  /\ running = t
  /\ op[t] = NoOp
  /\ <<i, k>> \in Calls /\ k # "connect"
  /\ i[1] \in open
  /\ \A u \in Tasks : op[u].kind = "connect" => op[u].on \notin Of(i[1])
  /\ op' = [op EXCEPT ![t] = [at |-> "try", kind |-> k, on |-> i]]
  /\ UNCHANGED <<sourceVars, batchVars, kernelVars, faultVars, running, woken>>

\* TcpStream::connect: sys::connect has started, the stream is registered.
StartConnect(t, x) ==
  /\ running = t
  /\ op[t] = NoOp
  /\ <<<<x, "Write">>, "connect">> \in Calls
  /\ InsertSource(x, {})
  /\ op' = [op EXCEPT ![t] =
              [at |-> "register", kind |-> "connect", on |-> <<x, "Write">>]]
  /\ UNCHANGED <<batchVars, running, woken, stranded>>

\* f(self.sys()) would block.
WouldBlock(t) ==
  /\ running = t
  /\ op[t].at = "try"
  /\ op' = [op EXCEPT ![t].at = "register"]
  /\ UNCHANGED <<sourceVars, batchVars, kernelVars, faultVars, running, woken>>

\* f(self.sys()) returns a result.  The accept of a connection registers it
\* as a source of its own.
IoDone(t) ==
  /\ running = t
  /\ op[t].at = "try"
  /\ op' = [op EXCEPT ![t] = NoOp]
  /\ \/ UNCHANGED <<open, settled>>
     \/ \E y \in Sockets \ open :
          /\ op[t].on[2] = "Read"
          /\ open' = open \union {y}
          /\ settled' = settled \union {y}
  /\ UNCHANGED <<poller, woke, armed, batchVars, faultVars, running, woken>>

-----------------------------------------------------------------------------
(* Reactor::poll_ready                                                     *)

\* interest.woke is set: poll_ready returns Ready and the system call is
\* tried again.  A connect is over; if take_error finds an error the stream
\* is dropped.
ReadyIo(t) ==
  /\ op[t].kind # "connect"
  /\ woke' = woke \ {op[t].on}
  /\ op' = [op EXCEPT ![t].at = "try"]
  /\ UNCHANGED <<open, poller, kernelVars, failed>>

ReadyConnect(t) ==
  /\ op[t].kind = "connect"
  /\ op' = [op EXCEPT ![t] = NoOp]
  /\ \/ woke' = woke \ {op[t].on} /\ UNCHANGED <<open, poller, kernelVars, failed>>
     \/ RemoveSource(op[t].on[1])

PollReadyWoke(t) ==
  /\ running = t
  /\ op[t].at = "register"
  /\ op[t].on \in woke
  /\ ReadyIo(t) \/ ReadyConnect(t)
  /\ UNCHANGED <<batchVars, running, woken, stranded>>

\* Mutant of Replaced: the replaced waker is dropped.
ReplacedDropped(i) == {}

\* The waker that poll_ready finds in the interest, and wakes.
Replaced(i) == {poller[i]} \ {None}

\* A waker is stored already: it is replaced and woken.  The source is not
\* updated, since a stored waker means that it is armed.
PollReadyReplace(t) ==
  LET i == op[t].on
  IN  /\ running = t
      /\ op[t].at = "register"
      /\ i \notin woke
      /\ poller[i] # None
      /\ poller' = [poller EXCEPT ![i] = t]
      /\ woken' = woken \union Replaced(i)
      /\ op' = [op EXCEPT ![t].at = "suspended"]
      /\ UNCHANGED <<open, woke, batchVars, kernelVars, faultVars, running>>

\* No waker is stored: the source is armed.
PollReadyArm(t) ==
  LET i == op[t].on
  IN  /\ running = t
      /\ op[t].at = "register"
      /\ i \notin woke
      /\ poller[i] = None
      /\ poller' = [poller EXCEPT ![i] = t]
      /\ op' = [op EXCEPT ![t].at = "suspended"]
      /\ UpdateInterest(i[1], poller')
      /\ UNCHANGED <<open, woke, batchVars, settled, stranded,
                     running, woken>>

\* update_interest fails: the call returns the error, the waker stays.
PollReadyFails(t) ==
  LET i == op[t].on
  IN  /\ running = t
      /\ op[t].at = "register"
      /\ i \notin woke
      /\ poller[i] = None
      /\ op' = [op EXCEPT ![t] = NoOp]
      /\ IF op[t].kind = "connect" THEN RemoveSource(i[1])
         ELSE /\ poller' = [poller EXCEPT ![i] = t]
              /\ UpdateFails(i[1], poller')
              /\ failed' = failed \union {i[1]}
              /\ UNCHANGED <<open, woke, settled>>
      /\ UNCHANGED <<batchVars, stranded, running, woken>>

-----------------------------------------------------------------------------
(* Reactor::poll                                                           *)

\* park or park_timeout is called.  Whether and when is up to block_on.
Park ==
  /\ Idle
  /\ parked' = TRUE
  /\ UNCHANGED <<sourceVars, events, wakers, op, running, woken, kernelVars,
                 faultVars>>

\* The poller returns without events: its timeout is over, or a signal
\* interrupted it.  (If it fails block_on panics, with no wakers in hand.)
WaitEmpty ==
  /\ parked
  /\ events = {}
  /\ parked' = FALSE
  /\ UNCHANGED <<sourceVars, events, wakers, op, running, woken, kernelVars,
                 faultVars>>

\* What the poller may report: a socket that is being connected is neither
\* readable nor writable.
Reportable == {i \in armed : i[1] \in settled}

\* epoll_wait: an event tells all that is ready of one socket, and
\* EPOLLONESHOT disarms the socket as a whole.
EpollWait(R) ==
  /\ "epoll" \in Backends
  /\ parked /\ events = {}
  /\ R # {} /\ R \subseteq Reportable
  /\ events' = {R \intersect Of(i[1]) : i \in R}
  /\ Cardinality(events') <= MaxEvents
  /\ armed' = armed \ UNION {Of(i[1]) : i \in R}
  /\ UNCHANGED <<sourceVars, parked, wakers, op, running, woken, settled,
                 faultVars>>

\* kevent: an event is about one filter, and EV_ONESHOT removes that filter.
\* The end of a stream (EV_EOF) on the read filter counts as writable too.
KqueueWait(R, eof) ==
  /\ "kqueue" \in Backends
  /\ parked /\ events = {}
  /\ R # {} /\ R \subseteq Reportable
  /\ events' = {IF i \in eof THEN Of(i[1]) ELSE {i} : i \in R}
  /\ Cardinality(R) <= MaxEvents
  /\ armed' = armed \ R
  /\ UNCHANGED <<sourceVars, parked, wakers, op, running, woken, settled,
                 faultVars>>

\* Mutant of Take: the wake-up leaves no trace in the interest.
TakeUnmarked(e) ==
  /\ poller' = [i \in Interests |-> IF i \in e THEN None ELSE poller[i]]
  /\ UNCHANGED woke

\* Interest::take on the interests that the event is about.
Take(e) ==
  /\ poller' = [i \in Interests |-> IF i \in e THEN None ELSE poller[i]]
  /\ woke' = woke \union e

\* Mutant of TakenWakers: a waker is pushed whether there is one or not.
TakenWakersAll(e) == {poller[i] : i \in e}

TakenWakers(e) == {poller[i] : i \in e} \ {None}

\* An event of x is dispatched.  Interests of x that still have a waker are
\* armed again.  After the last event Reactor::poll returns.
Dispatch(e, x) ==
  /\ e \in events
  /\ e \subseteq Of(x)
  /\ events' = events \ {e}
  /\ parked' = (events' # {})
  /\ Take(e)
  /\ wakers' = wakers \union TakenWakers(e)
  /\ IF Interested(x, poller') # {} THEN UpdateInterest(x, poller')
     ELSE UNCHANGED <<armed, failed>>
  /\ UNCHANGED <<open, settled, op, running, woken, stranded>>

\* update_interest fails in the middle of the batch: Reactor::poll returns,
\* the rest of the events and all wakers are dropped, block_on panics.
DispatchFails(e, x) ==
  /\ e \in events
  /\ e \subseteq Of(x)
  /\ Take(e)
  /\ Interested(x, poller') # {}
  /\ UpdateFails(x, poller')
  /\ events' = {}
  /\ parked' = FALSE
  /\ wakers' = {}
  /\ failed' = failed \union {i[1] : i \in UNION events}
  /\ stranded' = stranded \union wakers \union TakenWakers(e)
  /\ UNCHANGED <<open, settled, op, running, woken>>

\* The executor wakes what Reactor::poll collected.
WakeBatch(t) ==
  /\ ~parked
  /\ t \in wakers
  /\ wakers' = wakers \ {t}
  /\ woken' = woken \union {t}
  /\ UNCHANGED <<sourceVars, parked, events, op, running, kernelVars, faultVars>>

-----------------------------------------------------------------------------
(* The world outside                                                       *)

\* A task is woken for another reason: a timer, a channel, a join handle.
Notify(t) ==
  /\ ~parked
  /\ t \notin woken
  /\ woken' = woken \union {t}
  /\ UNCHANGED <<sourceVars, batchVars, op, running, kernelVars, faultVars>>

\* A connection attempt succeeds or fails.
Settle(x) ==
  /\ x \in open \ settled
  /\ settled' = settled \union {x}
  /\ UNCHANGED <<sourceVars, batchVars, op, running, woken, armed, faultVars>>

-----------------------------------------------------------------------------
PollReady(t) == PollReadyWoke(t) \/ PollReadyReplace(t) \/ PollReadyArm(t)

\* What a poll that has begun goes through until its call is suspended or
\* over.
CallStep(t) == WouldBlock(t) \/ IoDone(t) \/ PollReady(t)

UserStep(t) ==
  \/ PollCancel(t)
  \/ \E x \in Sockets : Open(t, x) \/ Close(t, x) \/ StartConnect(t, x)
  \/ \E c \in Calls : StartIo(t, c[1], c[2])

\* The poller returns events.
Wait ==
  \E R \in SUBSET Reportable :
    EpollWait(R) \/ \E eof \in SUBSET {i \in R : i[2] = "Read"} : KqueueWait(R, eof)

DispatchStep ==
  \/ \E e \in events, x \in Sockets : Dispatch(e, x)
  \/ \E t \in wakers : WakeBatch(t)

FaultStep ==
  \/ \E t \in Tasks : PollReadyFails(t)
  \/ \E e \in events, x \in Sockets : DispatchFails(e, x)

WorldStep ==
  \/ \E t \in Tasks : Notify(t)
  \/ \E x \in Sockets : Settle(x)

Next ==
  \/ \E t \in Tasks : PollTask(t) \/ CallStep(t) \/ EndPoll(t) \/ UserStep(t)
  \/ Park \/ Wait \/ WaitEmpty
  \/ DispatchStep
  \/ FaultStep
  \/ WorldStep

Spec == Init /\ [][Next]_vars

\* The interests that some call waits for.
Awaited == {c[1] : c \in Calls}

\* Polls return, a woken task is polled (the run queue is first in, first
\* out), what is collected is woken, connection attempts end, and a parker
\* that is called again and again reports an armed interest in the end: the
\* peer does its part.  That the parker is called is not assumed: block_on
\* passes it over for as long as the main future is woken.
Fairness ==
  /\ \A t \in Tasks : SF_vars(PollTask(t))
  /\ WF_vars(\E t \in Tasks : CallStep(t)) /\ SF_vars(\E t \in Tasks : EndPoll(t))
  /\ WF_vars(DispatchStep)
  /\ \A x \in Sockets : WF_vars(Settle(x))
  /\ \A i \in Awaited : SF_vars(Wait /\ i \in UNION events')

FairSpec == Spec /\ Fairness

-----------------------------------------------------------------------------
(* Properties                                                              *)

\* The event of a socket is being dispatched.
InHand(x) == \E e \in events : e \intersect Of(x) # {}

\* A stored waker means that the poller will report the interest: the case
\* of poll_ready that replaces a waker relies on it and does not arm.  Only a
\* failed update can break it, and the next one that succeeds repairs it.
StoredMeansArmed ==
  \A i \in Interests :
    /\ poller[i] # None
    /\ i[1] \notin failed
    => i \in armed \/ InHand(i[1])

\* A suspended call is not forgotten: its task is due to be polled, or its
\* waker is stored in an armed interest or on its way, whoever else polled,
\* replaced or cancelled on the same socket before.
NoLostReadiness ==
  \A t \in Tasks :
    /\ op[t].at = "suspended"
    /\ t \notin stranded
    /\ op[t].on[1] \notin failed
    => \/ t \in woken \union wakers
       \/ poller[op[t].on] = t /\ (op[t].on \in armed \/ InHand(op[t].on[1]))

\* No caller holds a stream whose connection attempt is not over: readiness
\* that connect takes for the end of the attempt is not left over from
\* another source or another direction.
ConnectedWhenReturned ==
  \A x \in open :
    x \in settled \/ \E t \in Tasks : op[t].kind = "connect" /\ op[t].on[1] = x

\* A socket that keeps becoming ready serves those who wait for it: one of the
\* calls suspended on an interest tries its system call again, or all of
\* them are over.  Which one is not promised: a call that begins in between
\* may take the readiness and leave the suspended ones to wait for the next.
SomeRetried ==
  \A i \in Awaited :
    (\E t \in Tasks : op[t].at = "suspended" /\ op[t].on = i)
      ~> \/ \E t \in Tasks : op[t].at = "try" /\ op[t].on = i
         \/ \A t \in Tasks : op[t].on # i
         \/ i[1] \in failed \/ stranded # {}

\* As long as block_on goes round, through the parker and back, sockets serve
\* those who wait for them.
Retried == []<>parked /\ []<>~parked => SomeRetried

-----------------------------------------------------------------------------
(* The inductive invariant                                                 *)

\* User code does not run inside Reactor::poll, and events are there only
\* inside.  No event is about nothing.
PhaseInv ==
  /\ running # None => ~parked
  /\ events # {} => parked
  /\ \A e \in events : e # {}

\* A call is on an open socket; the future of a connect has it for itself
\* and makes no system call but the first.
UseInv ==
  /\ \A t \in Tasks : op[t] # NoOp => op[t].on[1] \in open
  /\ \A t, u \in Tasks :
       /\ op[t].kind = "connect"
       /\ op[u] # NoOp
       /\ op[u].on[1] = op[t].on[1]
       => u = t
  /\ \A t \in Tasks : op[t].at = "try" => op[t].kind # "connect"

\* What was reported, or is about to be, is about a settled socket.
SettledInv ==
  /\ \A i \in woke : i[1] \in settled
  /\ \A e \in events : \A i \in e : i[1] \in settled

\* The waker of a suspended call is stored or on its way, also when the
\* source is not armed because an update failed.
WakerInv ==
  \A t \in Tasks :
    op[t].at = "suspended" /\ t \notin stranded
      => t \in woken \union wakers \/ poller[op[t].on] = t

IInv ==
  /\ TypeOK
  /\ PhaseInv
  /\ UseInv
  /\ SettledInv
  /\ StoredMeansArmed
  /\ WakerInv
  /\ ConnectedWhenReturned
=============================================================================
