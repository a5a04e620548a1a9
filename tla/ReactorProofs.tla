--------------------------- MODULE ReactorProofs ---------------------------
(***************************************************************************)
(* Proofs about Reactor, for any number of tasks and sockets, any set of   *)
(* calls and either system poller: the inductive invariant IInv and what   *)
(* follows from it.                                                        *)
(***************************************************************************)
EXTENDS Reactor, TLAPS

-----------------------------------------------------------------------------
(* Interests and calls                                                     *)

\* The interests of a socket are those whose first component it is.
LEMMA OfSocket ==
  ASSUME NEW x \in Sockets
  PROVE  /\ \A i : i \in Of(x) <=> i \in Interests /\ i[1] = x
         /\ <<x, "Write">> \in Of(x)
  BY DEF Of, Interests, Directions

\* Every interest belongs to a socket.
LEMMA InterestSocket ==
  ASSUME NEW i \in Interests
  PROVE  /\ i[1] \in Sockets
         /\ i \in Of(i[1])
         /\ i # None
  BY ReactorAssumption DEF Of, Interests, Directions

\* The components of a call.
LEMMA OpParts ==
  ASSUME NEW o \in Ops \union {NoOp}
  PROVE  /\ o # NoOp <=> o \in Ops
         /\ o \in Ops => /\ o.at \in {"try", "register", "suspended"}
                         /\ o.kind \in Kinds
                         /\ o.on \in Interests
                         /\ o.on[1] \in Sockets
         /\ o = NoOp => o.at = "none" /\ o.kind = "none" /\ o.on = None
         /\ Resumed(o) \in Ops \union {NoOp}
         /\ Resumed(o) = NoOp <=> o = NoOp
         /\ Resumed(o).on = o.on /\ Resumed(o).kind = o.kind
         /\ Resumed(o).at # "suspended"
         /\ Resumed(o).at = "try" => Resumed(o).kind # "connect"
  <1>1. o \in Ops => o # NoOp /\ o.at \in {"try", "register", "suspended"}
                     /\ o.kind \in Kinds /\ o.on \in Interests
    BY DEF Ops, NoOp
  <1>2. CASE o = NoOp
    BY <1>1, <1>2 DEF Resumed, NoOp
  <1>3. CASE o \in Ops
    <2>1. PICK at, kind, on :
            /\ at \in {"try", "register", "suspended"}
            /\ kind \in Kinds /\ on \in Interests
            /\ o = [at |-> at, kind |-> kind, on |-> on]
      BY <1>3 DEF Ops
    <2>2. on[1] \in Sockets
      BY <2>1, InterestSocket
    <2>3. Resumed(o) = [at |-> IF kind = "poll_io" THEN "try" ELSE "register",
                        kind |-> kind, on |-> on]
      BY <1>1, <1>3, <2>1 DEF Resumed
    <2> QED
      BY <1>1, <1>3, <2>1, <2>2, <2>3 DEF Ops, NoOp
  <1> QED
    BY <1>2, <1>3

\* What the type invariant says of the call of one task.
LEMMA CallFacts ==
  ASSUME TypeOK, NEW t \in Tasks
  PROVE  /\ op[t] \in Ops \union {NoOp}
         /\ op[t] # NoOp <=> op[t] \in Ops
         /\ op[t] # NoOp => /\ op[t].at \in {"try", "register", "suspended"}
                            /\ op[t].kind \in Kinds
                            /\ op[t].on \in Interests
                            /\ op[t].on[1] \in Sockets
         /\ op[t] = NoOp => op[t].at = "none" /\ op[t].kind = "none"
                            /\ op[t].on = None
  <1>1. op[t] \in Ops \union {NoOp}
    BY DEF TypeOK
  <1> QED
    BY <1>1, OpParts

\* Moving a call on keeps its kind and its interest.
LEMMA MoveOn ==
  ASSUME NEW o \in Ops, NEW a \in {"try", "register", "suspended"}
  PROVE  /\ [o EXCEPT !.at = a] \in Ops
         /\ [o EXCEPT !.at = a].at = a
         /\ [o EXCEPT !.at = a].kind = o.kind
         /\ [o EXCEPT !.at = a].on = o.on
  BY DEF Ops

-----------------------------------------------------------------------------
(* Type correctness                                                        *)

\* Storing a waker.
LEMMA StoreType ==
  ASSUME poller \in [Interests -> Tasks \union {None}],
         NEW i \in Interests, NEW t \in Tasks
  PROVE  [poller EXCEPT ![i] = t] \in [Interests -> Tasks \union {None}]
  OBVIOUS

\* Both outcomes of Poller::update leave a set of interests.
LEMMA UpdateType ==
  ASSUME armed \subseteq Interests, failed \subseteq Sockets,
         NEW x \in Sockets, NEW p
  PROVE  /\ UpdateInterest(x, p) =>
              armed' \subseteq Interests /\ failed' \subseteq Sockets
         /\ UpdateFails(x, p) => armed' \subseteq Interests
  <1>1. Of(x) \subseteq Interests /\ Interested(x, p) \subseteq Interests
    BY OfSocket DEF Interested
  <1> QED
    BY <1>1 DEF UpdateInterest, UpdateFails

\* insert_source and remove_source keep the types.
LEMMA SourceType ==
  ASSUME TypeOK, NEW x \in Sockets
  PROVE  /\ \A st \in SUBSET Sockets : InsertSource(x, st) =>
              /\ open' \subseteq Sockets
              /\ poller' \in [Interests -> Tasks \union {None}]
              /\ woke' \subseteq Interests
              /\ armed' \subseteq Interests
              /\ settled' \subseteq Sockets
              /\ failed' \subseteq Sockets
         /\ RemoveSource(x) =>
              /\ open' \subseteq Sockets
              /\ poller' \in [Interests -> Tasks \union {None}]
              /\ woke' \subseteq Interests
              /\ armed' \subseteq Interests
              /\ settled' \subseteq Sockets
              /\ failed' \subseteq Sockets
  <1>1. \A st \in SUBSET Sockets : InsertSource(x, st) =>
          /\ open' \subseteq Sockets
          /\ poller' \in [Interests -> Tasks \union {None}]
          /\ woke' \subseteq Interests
          /\ armed' \subseteq Interests
          /\ settled' \subseteq Sockets
          /\ failed' \subseteq Sockets
    BY DEF TypeOK, InsertSource
  <1>2. RemoveSource(x) => poller' \in [Interests -> Tasks \union {None}]
    BY DEF TypeOK, RemoveSource
  <1>3. RemoveSource(x) =>
          /\ open' \subseteq Sockets
          /\ woke' \subseteq Interests
          /\ armed' \subseteq Interests
          /\ settled' \subseteq Sockets
          /\ failed' \subseteq Sockets
    BY DEF TypeOK, RemoveSource
  <1> QED
    BY <1>1, <1>2, <1>3

\* Interest::take leaves wakers or None in the interests, and hands over
\* wakers only.
LEMMA TakeType ==
  ASSUME TypeOK, NEW e \in events
  PROVE  /\ Take(e) => /\ poller' \in [Interests -> Tasks \union {None}]
                       /\ woke' \subseteq Interests
         /\ TakenWakers(e) \subseteq Tasks
  <1>1. e \subseteq Interests
    BY DEF TypeOK
  <1>2. Take(e) => poller' \in [Interests -> Tasks \union {None}]
    BY DEF TypeOK, Take
  <1>3. Take(e) => woke' \subseteq Interests
    BY <1>1 DEF TypeOK, Take
  <1>4. TakenWakers(e) \subseteq Tasks
    BY <1>1 DEF TypeOK, TakenWakers
  <1> QED
    BY <1>2, <1>3, <1>4

\* Every step keeps the types.
LEMMA TypeStep ==
  ASSUME TypeOK, [Next]_vars
  PROVE  TypeOK'
  <1>1. ASSUME NEW t \in Tasks, PollTask(t)
        PROVE  TypeOK'
    <2>1. Resumed(op[t]) \in Ops \union {NoOp}
      BY CallFacts, OpParts
    <2> QED
      BY <1>1, <2>1 DEF TypeOK, PollTask, sourceVars, batchVars, kernelVars
  <1>2. ASSUME NEW t \in Tasks, PollCancel(t)
        PROVE  TypeOK'
    <2>1. op[t].on[1] \in Sockets
      BY <1>2, CallFacts DEF PollCancel
    <2>2. /\ open' \subseteq Sockets
          /\ poller' \in [Interests -> Tasks \union {None}]
          /\ woke' \subseteq Interests
          /\ armed' \subseteq Interests
          /\ settled' \subseteq Sockets
          /\ failed' \subseteq Sockets
      BY <1>2, <2>1, SourceType DEF TypeOK, PollCancel, sourceVars, kernelVars
    <2> QED
      BY <1>2, <2>2 DEF TypeOK, PollCancel, batchVars
  <1>3. ASSUME NEW t \in Tasks, EndPoll(t)
        PROVE  TypeOK'
    BY <1>3 DEF TypeOK, EndPoll, sourceVars, batchVars, kernelVars, faultVars
  <1>4. ASSUME NEW t \in Tasks, NEW x \in Sockets, Open(t, x)
        PROVE  TypeOK'
    <2>1. {x} \in SUBSET Sockets
      OBVIOUS
    <2> QED
      BY <1>4, <2>1, SourceType DEF TypeOK, Open, batchVars
  <1>5. ASSUME NEW t \in Tasks, NEW x \in Sockets, Close(t, x)
        PROVE  TypeOK'
    BY <1>5, SourceType DEF TypeOK, Close, batchVars
  <1>6. ASSUME NEW t \in Tasks, NEW c \in Calls, StartIo(t, c[1], c[2])
        PROVE  TypeOK'
    <2>1. [at |-> "try", kind |-> c[2], on |-> c[1]] \in Ops
      BY ReactorAssumption DEF Ops
    <2> QED
      BY <1>6, <2>1
      DEF TypeOK, StartIo, sourceVars, batchVars, kernelVars, faultVars
  <1>7. ASSUME NEW t \in Tasks, NEW x \in Sockets, StartConnect(t, x)
        PROVE  TypeOK'
    <2>1. [at |-> "register", kind |-> "connect", on |-> <<x, "Write">>] \in Ops
      BY OfSocket DEF Ops, Kinds
    <2>2. {} \in SUBSET Sockets
      OBVIOUS
    <2> QED
      BY <1>7, <2>1, <2>2, SourceType DEF TypeOK, StartConnect, batchVars
  <1>8. ASSUME NEW t \in Tasks, WouldBlock(t)
        PROVE  TypeOK'
    <2>1. op[t] \in Ops
      BY <1>8, CallFacts DEF WouldBlock
    <2>2. op' \in [Tasks -> Ops \union {NoOp}]
      BY <1>8, <2>1, MoveOn DEF TypeOK, WouldBlock
    <2> QED
      BY <1>8, <2>2
      DEF TypeOK, WouldBlock, sourceVars, batchVars, kernelVars, faultVars
  <1>9. ASSUME NEW t \in Tasks, IoDone(t)
        PROVE  TypeOK'
    BY <1>9 DEF TypeOK, IoDone, batchVars, faultVars
  <1>10. ASSUME NEW t \in Tasks, PollReadyWoke(t)
         PROVE  TypeOK'
    <2>1. op[t] \in Ops /\ op[t].on \in Interests /\ op[t].on[1] \in Sockets
      BY <1>10, CallFacts DEF PollReadyWoke
    <2>2. CASE ReadyIo(t)
      <3>1. op' \in [Tasks -> Ops \union {NoOp}]
        BY <2>1, <2>2, MoveOn DEF TypeOK, ReadyIo
      <3> QED
        BY <1>10, <2>2, <3>1 DEF TypeOK, PollReadyWoke, ReadyIo, batchVars, kernelVars
    <2>3. CASE ReadyConnect(t)
      <3>1. /\ open' \subseteq Sockets
            /\ poller' \in [Interests -> Tasks \union {None}]
            /\ woke' \subseteq Interests
            /\ armed' \subseteq Interests
            /\ settled' \subseteq Sockets
            /\ failed' \subseteq Sockets
        BY <2>1, <2>3, SourceType DEF TypeOK, ReadyConnect, kernelVars
      <3> QED
        BY <1>10, <2>3, <3>1 DEF TypeOK, PollReadyWoke, ReadyConnect, batchVars
    <2> QED
      BY <1>10, <2>2, <2>3 DEF PollReadyWoke
  <1>11. ASSUME NEW t \in Tasks, PollReadyReplace(t)
         PROVE  TypeOK'
    <2>1. op[t] \in Ops /\ op[t].on \in Interests
      BY <1>11, CallFacts DEF PollReadyReplace
    <2>2. op' \in [Tasks -> Ops \union {NoOp}]
      BY <1>11, <2>1, MoveOn DEF TypeOK, PollReadyReplace
    <2>3. Replaced(op[t].on) \subseteq Tasks
      BY <2>1 DEF TypeOK, Replaced
    <2>4. poller' \in [Interests -> Tasks \union {None}]
      BY <1>11, <2>1, StoreType DEF TypeOK, PollReadyReplace
    <2> QED
      BY <1>11, <2>2, <2>3, <2>4
      DEF TypeOK, PollReadyReplace, batchVars, kernelVars, faultVars
  <1>12. ASSUME NEW t \in Tasks, PollReadyArm(t)
         PROVE  TypeOK'
    <2>1. op[t] \in Ops /\ op[t].on \in Interests /\ op[t].on[1] \in Sockets
      BY <1>12, CallFacts DEF PollReadyArm
    <2>2. op' \in [Tasks -> Ops \union {NoOp}]
      BY <1>12, <2>1, MoveOn DEF TypeOK, PollReadyArm
    <2>3. poller' \in [Interests -> Tasks \union {None}]
      BY <1>12, <2>1, StoreType DEF TypeOK, PollReadyArm
    <2>4. UpdateInterest(op[t].on[1], poller')
      BY <1>12 DEF PollReadyArm
    <2>5. armed' \subseteq Interests /\ failed' \subseteq Sockets
      BY <2>1, <2>4, UpdateType DEF TypeOK
    <2> QED
      BY <1>12, <2>2, <2>3, <2>5 DEF TypeOK, PollReadyArm, batchVars
  <1>13. ASSUME NEW t \in Tasks, PollReadyFails(t)
         PROVE  TypeOK'
    <2>1. op[t] \in Ops /\ op[t].on \in Interests /\ op[t].on[1] \in Sockets
      BY <1>13, CallFacts DEF PollReadyFails
    <2>2. op' \in [Tasks -> Ops \union {NoOp}]
      BY <1>13 DEF TypeOK, PollReadyFails
    <2>3. CASE op[t].kind = "connect"
      BY <1>13, <2>1, <2>2, <2>3, SourceType DEF TypeOK, PollReadyFails, batchVars
    <2>4. CASE op[t].kind # "connect"
      <3>1. poller' \in [Interests -> Tasks \union {None}]
        BY <1>13, <2>1, <2>4, StoreType DEF TypeOK, PollReadyFails
      <3>2. UpdateFails(op[t].on[1], poller')
        BY <1>13, <2>4 DEF PollReadyFails
      <3>3. armed' \subseteq Interests
        BY <2>1, <3>2, UpdateType DEF TypeOK
      <3> QED
        BY <1>13, <2>1, <2>2, <2>4, <3>1, <3>3 DEF TypeOK, PollReadyFails, batchVars
    <2> QED
      BY <2>3, <2>4
  <1>14. ASSUME NEW R \in SUBSET Reportable, EpollWait(R)
         PROVE  TypeOK'
    <2>1. R \subseteq Interests
      BY DEF TypeOK, Reportable
    <2>2. events' \subseteq SUBSET Interests
      BY <1>14, <2>1 DEF EpollWait
    <2> QED
      BY <1>14, <2>2 DEF TypeOK, EpollWait, sourceVars, faultVars
  <1>15. ASSUME NEW R \in SUBSET Reportable, NEW eof, KqueueWait(R, eof)
         PROVE  TypeOK'
    <2>1. R \subseteq Interests
      BY DEF TypeOK, Reportable
    <2>2. \A i \in R : Of(i[1]) \subseteq Interests
      BY <2>1, InterestSocket, OfSocket
    <2>3. events' \subseteq SUBSET Interests
      BY <1>15, <2>1, <2>2 DEF KqueueWait
    <2> QED
      BY <1>15, <2>3 DEF TypeOK, KqueueWait, sourceVars, faultVars
  <1>16. ASSUME NEW e \in events, NEW x \in Sockets, Dispatch(e, x)
         PROVE  TypeOK'
    <2>1. /\ poller' \in [Interests -> Tasks \union {None}]
          /\ woke' \subseteq Interests
          /\ TakenWakers(e) \subseteq Tasks
      BY <1>16, TakeType DEF Dispatch
    <2>2. armed' \subseteq Interests /\ failed' \subseteq Sockets
      <3>1. UpdateInterest(x, poller') \/ UNCHANGED <<armed, failed>>
        BY <1>16 DEF Dispatch
      <3> QED
        BY <3>1, UpdateType DEF TypeOK
    <2> QED
      BY <1>16, <2>1, <2>2 DEF TypeOK, Dispatch
  <1>17. ASSUME NEW e \in events, NEW x \in Sockets, DispatchFails(e, x)
         PROVE  TypeOK'
    <2>1. /\ poller' \in [Interests -> Tasks \union {None}]
          /\ woke' \subseteq Interests
          /\ TakenWakers(e) \subseteq Tasks
      BY <1>17, TakeType DEF DispatchFails
    <2>2. armed' \subseteq Interests
      <3>1. UpdateFails(x, poller')
        BY <1>17 DEF DispatchFails
      <3> QED
        BY <3>1, UpdateType DEF TypeOK
    <2>3. failed' \subseteq Sockets
      <3>1. UNION events \subseteq Interests
        BY DEF TypeOK
      <3>2. {i[1] : i \in UNION events} \subseteq Sockets
        BY <3>1, InterestSocket
      <3> QED
        BY <1>17, <3>2 DEF TypeOK, DispatchFails
    <2> QED
      BY <1>17, <2>1, <2>2, <2>3 DEF TypeOK, DispatchFails
  <1>18. ASSUME NEW t \in Tasks, WakeBatch(t) \/ Notify(t)
         PROVE  TypeOK'
    BY <1>18 DEF TypeOK, WakeBatch, Notify, sourceVars, batchVars, kernelVars, faultVars
  <1>19. ASSUME NEW x \in Sockets, Settle(x)
         PROVE  TypeOK'
    BY <1>19 DEF TypeOK, Settle, sourceVars, batchVars, faultVars
  <1>20. CASE Park \/ WaitEmpty
    BY <1>20 DEF TypeOK, Park, WaitEmpty, sourceVars, kernelVars, faultVars
  <1>21. CASE UNCHANGED vars
    BY <1>21 DEF TypeOK, vars
  <1> QED
    BY <1>1, <1>2, <1>3, <1>4, <1>5, <1>6, <1>7, <1>8, <1>9, <1>10, <1>11,
       <1>12, <1>13, <1>14, <1>15, <1>16, <1>17, <1>18, <1>19, <1>20, <1>21
    DEF Next, CallStep, PollReady, UserStep, Wait, DispatchStep, FaultStep,
        WorldStep, TypeOK

-----------------------------------------------------------------------------
(* The phases of the loop                                                  *)

\* User code stays out of Reactor::poll, and events are about something.
LEMMA PhaseStep ==
  ASSUME TypeOK, PhaseInv, [Next]_vars
  PROVE  PhaseInv'
  <1>1. CASE UNCHANGED <<parked, events, running>>
    BY <1>1 DEF PhaseInv
  <1>2. ASSUME NEW t \in Tasks, PollTask(t) \/ PollCancel(t) \/ EndPoll(t)
        PROVE  PhaseInv'
    BY <1>2 DEF PhaseInv, PollTask, PollCancel, EndPoll, Idle, batchVars
  <1>3. ASSUME NEW t \in Tasks,
               CallStep(t) \/ PollReadyFails(t) \/ WakeBatch(t) \/ Notify(t)
        PROVE  UNCHANGED <<parked, events, running>>
    BY <1>3 DEF CallStep, WouldBlock, IoDone, PollReady, PollReadyWoke,
         PollReadyReplace, PollReadyArm, PollReadyFails, WakeBatch, Notify,
         batchVars
  <1>4. ASSUME NEW t \in Tasks, NEW x \in Sockets,
               Open(t, x) \/ Close(t, x) \/ StartConnect(t, x)
        PROVE  UNCHANGED <<parked, events, running>>
    BY <1>4 DEF Open, Close, StartConnect, batchVars
  <1>5. ASSUME NEW t \in Tasks, NEW c \in Calls, StartIo(t, c[1], c[2])
        PROVE  UNCHANGED <<parked, events, running>>
    BY <1>5 DEF StartIo, batchVars
  <1>6. ASSUME NEW R \in SUBSET Reportable, EpollWait(R)
        PROVE  PhaseInv'
    <2>1. \A i \in R : i \in Of(i[1])
      BY InterestSocket DEF TypeOK, Reportable
    <2> QED
      BY <1>6, <2>1 DEF PhaseInv, EpollWait
  <1>7. ASSUME NEW R \in SUBSET Reportable, NEW eof, KqueueWait(R, eof)
        PROVE  PhaseInv'
    <2>1. \A i \in R : i \in Of(i[1])
      BY InterestSocket DEF TypeOK, Reportable
    <2> QED
      BY <1>7, <2>1 DEF PhaseInv, KqueueWait
  <1>8. ASSUME NEW e \in events, NEW x \in Sockets,
               Dispatch(e, x) \/ DispatchFails(e, x)
        PROVE  PhaseInv'
    BY <1>8 DEF PhaseInv, Dispatch, DispatchFails
  <1>9. ASSUME NEW x \in Sockets, Settle(x)
        PROVE  UNCHANGED <<parked, events, running>>
    BY <1>9 DEF Settle, batchVars
  <1>10. CASE Park \/ WaitEmpty
    BY <1>10 DEF PhaseInv, Park, WaitEmpty, Idle
  <1>11. CASE UNCHANGED vars
    BY <1>11, <1>1 DEF vars
  <1> QED
    BY <1>1, <1>2, <1>3, <1>4, <1>5, <1>6, <1>7, <1>8, <1>9, <1>10, <1>11
    DEF Next, UserStep, Wait, DispatchStep, FaultStep, WorldStep, TypeOK

-----------------------------------------------------------------------------
(* Who uses a socket                                                       *)

\* A step that leaves every call, or takes it on with its kind and interest,
\* and closes nothing.
LEMMA UseKept ==
  ASSUME UseInv,
         open \subseteq open',
         \A u \in Tasks :
           \/ op'[u] = NoOp
           \/ /\ op[u] # NoOp
              /\ op'[u].kind = op[u].kind
              /\ op'[u].on = op[u].on
              /\ op'[u].at = "try" => op'[u].kind # "connect"
  PROVE  UseInv'
  BY DEF UseInv, NoOp

\* The future of a connect owns its stream: no other call is on it.
LEMMA ConnectAlone ==
  ASSUME TypeOK, UseInv, NEW t \in Tasks, op[t].kind = "connect"
  PROVE  /\ op[t] # NoOp
         /\ op[t].on[1] \in Sockets
         /\ \A u \in Tasks \ {t} : op[u] # NoOp => op[u].on[1] # op[t].on[1]
  <1>1. op[t] # NoOp /\ op[t].on[1] \in Sockets
    BY CallFacts
  <1> QED
    BY <1>1 DEF UseInv

\* Calls stay on open sockets, and a connect keeps its stream for itself.
LEMMA UseStep ==
  ASSUME TypeOK, UseInv, [Next]_vars
  PROVE  UseInv'
  <1> op \in [Tasks -> Ops \union {NoOp}] /\ wakers \subseteq Tasks
    BY DEF TypeOK
  <1>1. ASSUME NEW t \in Tasks, PollTask(t)
        PROVE  UseInv'
    <2>1. \A u \in Tasks : op'[u] = IF u = t THEN Resumed(op[t]) ELSE op[u]
      BY <1>1 DEF PollTask
    <2>2. \A u \in Tasks : op[u].at = "try" => op[u].kind # "connect"
      BY DEF UseInv
    <2> QED
      BY <1>1, <2>1, <2>2, OpParts, UseKept DEF PollTask, sourceVars
  <1>2. ASSUME NEW t \in Tasks, PollCancel(t)
        PROVE  UseInv'
    <2>1. \A u \in Tasks : op'[u] = IF u = t THEN NoOp ELSE op[u]
      BY <1>2 DEF PollCancel
    <2>2. CASE op[t].kind = "connect"
      <3>1. open' = open \ {op[t].on[1]}
        BY <1>2, <2>2 DEF PollCancel, RemoveSource
      <3>2. \A u \in Tasks :
              op'[u] = NoOp \/ (op'[u] = op[u] /\ op[u].on[1] # op[t].on[1])
        BY <2>1, <2>2, ConnectAlone
      <3> QED
        BY <3>1, <3>2 DEF UseInv, NoOp
    <2>3. CASE op[t].kind # "connect"
      <3>1. open' = open
        BY <1>2, <2>3 DEF PollCancel, sourceVars
      <3> QED
        BY <2>1, <3>1, UseKept DEF UseInv
    <2> QED
      BY <2>2, <2>3
  <1>3. ASSUME NEW t \in Tasks, NEW x \in Sockets, Close(t, x)
        PROVE  UseInv'
    <2>1. \A u \in Tasks : op[u] # NoOp => op[u].on[1] # x
      BY <1>3, OfSocket, CallFacts DEF Close, InUse
    <2>2. open' = open \ {x} /\ op' = op
      BY <1>3 DEF Close, RemoveSource
    <2>3. \A u \in Tasks : op'[u] = NoOp \/ (op'[u] = op[u] /\ op[u].on[1] # x)
      BY <2>1, <2>2
    <2> QED
      BY <2>2, <2>3 DEF UseInv, NoOp
  <1>4. ASSUME NEW t \in Tasks, NEW x \in Sockets, Open(t, x)
        PROVE  UseInv'
    BY <1>4 DEF UseInv, Open, InsertSource
  <1>5. ASSUME NEW t \in Tasks, NEW c \in Calls, StartIo(t, c[1], c[2])
        PROVE  UseInv'
    <2>1. c[1] \in Interests /\ c[1][1] \in Sockets
      BY ReactorAssumption, InterestSocket
    <2>2. \A u \in Tasks : op[u].kind = "connect" => op[u].on[1] # c[1][1]
      BY <1>5, <2>1, OfSocket, CallFacts DEF StartIo
    <2>3. /\ op'[t].at = "try" /\ op'[t].kind = c[2] /\ op'[t].on = c[1]
          /\ op'[t].kind # "connect" /\ op'[t].on[1] \in open'
          /\ \A u \in Tasks \ {t} : op'[u] = op[u]
          /\ open' = open
      BY <1>5 DEF StartIo, sourceVars
    <2> QED
      BY <2>2, <2>3 DEF UseInv
  <1>6. ASSUME NEW t \in Tasks, NEW x \in Sockets, StartConnect(t, x)
        PROVE  UseInv'
    <2>1. \A u \in Tasks : op[u] # NoOp => op[u].on[1] # x
      BY <1>6 DEF UseInv, StartConnect, InsertSource
    <2>2. /\ op'[t].at = "register" /\ op'[t].on[1] = x /\ x \in open'
          /\ \A u \in Tasks \ {t} : op'[u] = op[u]
          /\ open \subseteq open'
      BY <1>6 DEF StartConnect, InsertSource
    <2>3. \A u \in Tasks : op[u].kind = "connect" => op[u].on[1] # x
      BY <2>1, CallFacts
    <2> QED
      BY <2>1, <2>2, <2>3 DEF UseInv
  <1>7. ASSUME NEW t \in Tasks, WouldBlock(t) \/ PollReadyReplace(t) \/ PollReadyArm(t)
        PROVE  UseInv'
    <2>1. op[t] \in Ops
      BY <1>7, CallFacts DEF WouldBlock, PollReadyReplace, PollReadyArm
    <2>2. PICK a \in {"register", "suspended"} :
            op' = [op EXCEPT ![t].at = a]
      BY <1>7 DEF WouldBlock, PollReadyReplace, PollReadyArm
    <2>3. \A u \in Tasks : op'[u] = IF u = t THEN [op[t] EXCEPT !.at = a] ELSE op[u]
      BY <2>2
    <2>4. \A u \in Tasks : op[u].at = "try" => op[u].kind # "connect"
      BY DEF UseInv
    <2>5. open' = open
      BY <1>7 DEF WouldBlock, PollReadyReplace, PollReadyArm, sourceVars
    <2>6. \A u \in Tasks :
            \/ op'[u] = NoOp
            \/ /\ op[u] # NoOp
               /\ op'[u].kind = op[u].kind
               /\ op'[u].on = op[u].on
               /\ op'[u].at = "try" => op'[u].kind # "connect"
      <3>1. /\ op[t] # NoOp
            /\ op'[t].at = a /\ op'[t].kind = op[t].kind /\ op'[t].on = op[t].on
        BY <2>1, <2>2, <2>3, MoveOn, CallFacts
      <3> QED
        BY <2>2, <2>3, <2>4, <3>1
    <2> QED
      BY <2>5, <2>6, UseKept
  <1>8. ASSUME NEW t \in Tasks, IoDone(t)
        PROVE  UseInv'
    <2>1. open \subseteq open' /\ \A u \in Tasks : op'[u] = IF u = t THEN NoOp ELSE op[u]
      BY <1>8 DEF IoDone
    <2> QED
      BY <2>1, UseKept DEF UseInv
  <1>9. ASSUME NEW t \in Tasks, PollReadyWoke(t)
        PROVE  UseInv'
    <2>1. CASE ReadyIo(t)
      <3>1. op[t] \in Ops
        BY <1>9, CallFacts DEF PollReadyWoke
      <3>2. \A u \in Tasks : op'[u] = IF u = t THEN [op[t] EXCEPT !.at = "try"] ELSE op[u]
        BY <2>1 DEF ReadyIo
      <3>3. \A u \in Tasks : op[u].at = "try" => op[u].kind # "connect"
        BY DEF UseInv
      <3> QED
        BY <2>1, <3>1, <3>2, <3>3, MoveOn, CallFacts, UseKept DEF ReadyIo
    <2>2. CASE ReadyConnect(t)
      <3>1. /\ op[t].kind = "connect"
            /\ \A u \in Tasks : op'[u] = IF u = t THEN NoOp ELSE op[u]
            /\ open' = open \/ open' = open \ {op[t].on[1]}
        BY <2>2 DEF ReadyConnect, RemoveSource
      <3>2. CASE open' = open
        BY <3>1, <3>2, UseKept DEF UseInv
      <3>3. CASE open' = open \ {op[t].on[1]}
        <4>1. \A u \in Tasks :
                op'[u] = NoOp \/ (op'[u] = op[u] /\ op[u].on[1] # op[t].on[1])
          BY <3>1, ConnectAlone
        <4> QED
          BY <3>3, <4>1 DEF UseInv, NoOp
      <3> QED
        BY <3>1, <3>2, <3>3
    <2> QED
      BY <1>9, <2>1, <2>2 DEF PollReadyWoke
  <1>10. ASSUME NEW t \in Tasks, PollReadyFails(t)
         PROVE  UseInv'
    <2>1. \A u \in Tasks : op'[u] = IF u = t THEN NoOp ELSE op[u]
      BY <1>10 DEF PollReadyFails
    <2>2. CASE op[t].kind = "connect"
      <3>1. open' = open \ {op[t].on[1]}
        BY <1>10, <2>2 DEF PollReadyFails, RemoveSource
      <3>2. \A u \in Tasks :
              op'[u] = NoOp \/ (op'[u] = op[u] /\ op[u].on[1] # op[t].on[1])
        BY <2>1, <2>2, ConnectAlone
      <3> QED
        BY <3>1, <3>2 DEF UseInv, NoOp
    <2>3. CASE op[t].kind # "connect"
      <3>1. open' = open
        BY <1>10, <2>3 DEF PollReadyFails
      <3> QED
        BY <2>1, <3>1, UseKept DEF UseInv
    <2> QED
      BY <2>2, <2>3
  <1>11. CASE UNCHANGED <<open, op>>
    BY <1>11 DEF UseInv
  <1>12. ASSUME NEW t \in Tasks, EndPoll(t) \/ WakeBatch(t) \/ Notify(t)
         PROVE  UNCHANGED <<open, op>>
    BY <1>12 DEF EndPoll, WakeBatch, Notify, sourceVars
  <1>13. Wait => UNCHANGED <<open, op>>
    BY DEF Wait, EpollWait, KqueueWait, sourceVars
  <1>14. ASSUME NEW e \in events, NEW x \in Sockets,
                Dispatch(e, x) \/ DispatchFails(e, x)
         PROVE  UNCHANGED <<open, op>>
    BY <1>14 DEF Dispatch, DispatchFails
  <1>15. ASSUME NEW x \in Sockets, Settle(x)
         PROVE  UNCHANGED <<open, op>>
    BY <1>15 DEF Settle, sourceVars
  <1>16. Park \/ WaitEmpty => UNCHANGED <<open, op>>
    BY DEF Park, WaitEmpty, sourceVars
  <1>17. CASE UNCHANGED vars
    BY <1>17, <1>11 DEF vars
  <1> QED
    BY <1>1, <1>2, <1>3, <1>4, <1>5, <1>6, <1>7, <1>8, <1>9, <1>10, <1>11,
       <1>12, <1>13, <1>14, <1>15, <1>16, <1>17
    DEF Next, CallStep, PollReady, UserStep, DispatchStep, FaultStep, WorldStep

-----------------------------------------------------------------------------
(* What was reported                                                       *)

\* A step outside Reactor::poll that closes x, with its flags.
LEMMA SettledClosed ==
  ASSUME TypeOK, SettledInv, NEW x \in Sockets, RemoveSource(x), events = {},
         events' = events
  PROVE  SettledInv'
  <1>1. \A i \in woke : i \in Interests
    BY DEF TypeOK
  <1> QED
    BY <1>1, OfSocket DEF SettledInv, RemoveSource

\* Readiness that is recorded is that of a settled socket.
LEMMA SettledStep ==
  ASSUME TypeOK, PhaseInv, SettledInv, [Next]_vars
  PROVE  SettledInv'
  <1> wakers \subseteq Tasks /\ None \notin Tasks
    BY ReactorAssumption DEF TypeOK
  <1>1. ASSUME settled \subseteq settled', events' \subseteq events,
               woke' \subseteq woke
        PROVE  SettledInv'
    BY <1>1 DEF SettledInv
  <1>2. ASSUME NEW t \in Tasks, PollCancel(t)
        PROVE  SettledInv'
    <2>1. op[t].on[1] \in Sockets
      BY <1>2, CallFacts DEF PollCancel
    <2>2. events = {} /\ events' = events
      BY <1>2 DEF PollCancel, Idle, PhaseInv, batchVars
    <2> QED
      BY <1>1, <1>2, <2>1, <2>2, SettledClosed
      DEF PollCancel, sourceVars, kernelVars
  <1>3. ASSUME NEW t \in Tasks, NEW x \in Sockets, Close(t, x)
        PROVE  SettledInv'
    BY <1>3, SettledClosed DEF Close, PhaseInv, batchVars
  <1>4. ASSUME NEW t \in Tasks, PollReadyWoke(t)
        PROVE  SettledInv'
    <2>1. op[t].on[1] \in Sockets /\ events = {} /\ events' = events
      BY <1>4, CallFacts DEF PollReadyWoke, PhaseInv, batchVars
    <2> QED
      BY <1>1, <1>4, <2>1, SettledClosed
      DEF PollReadyWoke, ReadyIo, ReadyConnect, kernelVars
  <1>5. ASSUME NEW t \in Tasks, PollReadyFails(t)
        PROVE  SettledInv'
    <2>1. op[t].on[1] \in Sockets /\ events = {} /\ events' = events
      BY <1>5, CallFacts DEF PollReadyFails, PhaseInv, batchVars
    <2> QED
      BY <1>1, <1>5, <2>1, SettledClosed DEF PollReadyFails
  <1>6. ASSUME NEW R \in SUBSET Reportable, EpollWait(R)
        PROVE  SettledInv'
    <2>1. \A e \in events' : \A i \in e : i[1] \in settled
      BY <1>6 DEF EpollWait, Reportable
    <2> QED
      BY <1>6, <2>1 DEF SettledInv, EpollWait, sourceVars
  <1>7. ASSUME NEW R \in SUBSET Reportable, NEW eof, KqueueWait(R, eof)
        PROVE  SettledInv'
    <2>1. \A i \in R : i \in Interests /\ i[1] \in settled
      BY DEF TypeOK, Reportable
    <2>2. \A i \in R : \A j \in Of(i[1]) : j[1] \in settled
      BY <2>1, InterestSocket, OfSocket
    <2>3. \A e \in events' : \A i \in e : i[1] \in settled
      BY <1>7, <2>1, <2>2 DEF KqueueWait
    <2> QED
      BY <1>7, <2>3 DEF SettledInv, KqueueWait, sourceVars
  <1>8. ASSUME NEW e \in events, NEW x \in Sockets,
               Dispatch(e, x) \/ DispatchFails(e, x)
        PROVE  SettledInv'
    BY <1>8 DEF SettledInv, Dispatch, DispatchFails, Take
  <1>9. ASSUME NEW t \in Tasks,
               \/ PollTask(t) \/ EndPoll(t) \/ WakeBatch(t) \/ Notify(t)
               \/ WouldBlock(t) \/ IoDone(t) \/ PollReadyReplace(t)
               \/ PollReadyArm(t)
        PROVE  SettledInv'
    BY <1>1, <1>9 DEF PollTask, EndPoll, WakeBatch, Notify, WouldBlock, IoDone,
         PollReadyReplace, PollReadyArm, sourceVars, batchVars, kernelVars
  <1>10. ASSUME NEW t \in Tasks, NEW x \in Sockets,
                Open(t, x) \/ StartConnect(t, x)
         PROVE  SettledInv'
    BY <1>1, <1>10 DEF Open, StartConnect, InsertSource, batchVars
  <1>11. ASSUME NEW t \in Tasks, NEW c \in Calls, StartIo(t, c[1], c[2])
         PROVE  SettledInv'
    BY <1>1, <1>11 DEF StartIo, sourceVars, batchVars, kernelVars
  <1>12. ASSUME NEW x \in Sockets, Settle(x)
         PROVE  SettledInv'
    BY <1>1, <1>12 DEF Settle, sourceVars, batchVars
  <1>13. CASE Park \/ WaitEmpty
    BY <1>1, <1>13 DEF Park, WaitEmpty, sourceVars, kernelVars
  <1>14. CASE UNCHANGED vars
    BY <1>1, <1>14 DEF vars
  <1> QED
    BY <1>2, <1>3, <1>4, <1>5, <1>6, <1>7, <1>8, <1>9, <1>10, <1>11, <1>12,
       <1>13, <1>14
    DEF Next, CallStep, PollReady, UserStep, Wait, DispatchStep, FaultStep,
        WorldStep

-----------------------------------------------------------------------------
(* Stored wakers and armed interests                                       *)

\* Closing x takes its wakers along.
LEMMA ArmedClosed ==
  ASSUME TypeOK, StoredMeansArmed, NEW x \in Sockets, RemoveSource(x),
         events' = events
  PROVE  StoredMeansArmed'
  <1> SUFFICES ASSUME NEW i \in Interests, poller'[i] # None, i[1] \notin failed'
               PROVE  i \in armed' \/ InHand(i[1])'
    BY DEF StoredMeansArmed
  <1>1. i \notin Of(x) /\ poller[i] # None
    BY DEF RemoveSource
  <1>2. i[1] # x
    BY <1>1, OfSocket
  <1>3. i \in armed \/ InHand(i[1])
    BY <1>1, <1>2 DEF StoredMeansArmed, RemoveSource
  <1> QED
    BY <1>1, <1>3 DEF RemoveSource, InHand

\* An update of x that succeeds arms what has a waker.
LEMMA ArmedUpdated ==
  ASSUME TypeOK, NEW x \in Sockets, UpdateInterest(x, poller'),
         NEW i \in Interests, poller'[i] # None
  PROVE  /\ i[1] = x => i \in armed'
         /\ i[1] # x => (i \in armed' <=> i \in armed)
         /\ i[1] # x => (i[1] \in failed' <=> i[1] \in failed)
  BY OfSocket DEF UpdateInterest, Interested

\* A stored waker means an armed interest, whatever happens.
LEMMA ArmedStep ==
  ASSUME TypeOK, PhaseInv, StoredMeansArmed, [Next]_vars
  PROVE  StoredMeansArmed'
  <1> wakers \subseteq Tasks /\ None \notin Tasks
    BY ReactorAssumption DEF TypeOK
  <1>1. ASSUME UNCHANGED <<poller, failed, armed, events>>
        PROVE  StoredMeansArmed'
    BY <1>1 DEF StoredMeansArmed, InHand
  <1>2. ASSUME NEW t \in Tasks, PollCancel(t)
        PROVE  StoredMeansArmed'
    <2>1. op[t].on[1] \in Sockets /\ events' = events
      BY <1>2, CallFacts DEF PollCancel, batchVars
    <2> QED
      BY <1>1, <1>2, <2>1, ArmedClosed DEF PollCancel, sourceVars, kernelVars
  <1>3. ASSUME NEW t \in Tasks, NEW x \in Sockets, Close(t, x)
        PROVE  StoredMeansArmed'
    BY <1>3, ArmedClosed DEF Close, batchVars
  <1>4. ASSUME NEW t \in Tasks, PollReadyWoke(t)
        PROVE  StoredMeansArmed'
    <2>1. op[t].on[1] \in Sockets /\ events' = events
      BY <1>4, CallFacts DEF PollReadyWoke, batchVars
    <2> QED
      BY <1>1, <1>4, <2>1, ArmedClosed
      DEF PollReadyWoke, ReadyIo, ReadyConnect, kernelVars
  <1>5. ASSUME NEW t \in Tasks, PollReadyReplace(t)
        PROVE  StoredMeansArmed'
    <2>1. \A i \in Interests : poller'[i] # None => poller[i] # None
      BY <1>5 DEF TypeOK, PollReadyReplace
    <2> QED
      BY <1>5, <2>1
      DEF PollReadyReplace, StoredMeansArmed, InHand, batchVars, kernelVars, faultVars
  <1>6. ASSUME NEW t \in Tasks, PollReadyArm(t)
        PROVE  StoredMeansArmed'
    <2> SUFFICES ASSUME NEW i \in Interests, poller'[i] # None, i[1] \notin failed'
                 PROVE  i \in armed' \/ InHand(i[1])'
      BY DEF StoredMeansArmed
    <2>1. op[t].on \in Interests /\ op[t].on[1] \in Sockets
      BY <1>6, CallFacts DEF PollReadyArm
    <2>2. /\ UpdateInterest(op[t].on[1], poller')
          /\ poller' = [poller EXCEPT ![op[t].on] = t]
          /\ events' = events
      BY <1>6 DEF PollReadyArm, batchVars
    <2>3. CASE i[1] = op[t].on[1]
      BY <2>1, <2>2, <2>3, ArmedUpdated
    <2>4. CASE i[1] # op[t].on[1]
      <3>1. poller[i] # None
        BY <2>1, <2>2, <2>4 DEF TypeOK
      <3>2. i \in armed \/ InHand(i[1])
        BY <2>1, <2>2, <2>4, <3>1, ArmedUpdated DEF StoredMeansArmed
      <3> QED
        BY <2>1, <2>2, <2>4, <3>2, ArmedUpdated DEF InHand
    <2> QED
      BY <2>3, <2>4
  <1>7. ASSUME NEW t \in Tasks, PollReadyFails(t)
        PROVE  StoredMeansArmed'
    <2>1. op[t].on \in Interests /\ op[t].on[1] \in Sockets /\ events' = events
      BY <1>7, CallFacts DEF PollReadyFails, batchVars
    <2>2. CASE op[t].kind = "connect"
      BY <1>7, <2>1, <2>2, ArmedClosed DEF PollReadyFails
    <2>3. CASE op[t].kind # "connect"
      <3>1. /\ UpdateFails(op[t].on[1], poller')
            /\ poller' = [poller EXCEPT ![op[t].on] = t]
            /\ failed' = failed \union {op[t].on[1]}
        BY <1>7, <2>3 DEF PollReadyFails
      <3> SUFFICES ASSUME NEW i \in Interests, poller'[i] # None, i[1] \notin failed'
                   PROVE  i \in armed' \/ InHand(i[1])'
        BY DEF StoredMeansArmed
      <3>2. poller[i] # None /\ i[1] \notin failed /\ i \notin Of(op[t].on[1])
        <4>1. i[1] \notin failed /\ i[1] # op[t].on[1]
          BY <3>1
        <4>2. poller[i] = poller'[i]
          BY <2>1, <3>1, <4>1 DEF TypeOK
        <4> QED
          BY <2>1, <4>1, <4>2, OfSocket
      <3>3. i \in armed \/ InHand(i[1])
        BY <3>2 DEF StoredMeansArmed
      <3> QED
        BY <2>1, <3>1, <3>2, <3>3 DEF UpdateFails, InHand
    <2> QED
      BY <2>2, <2>3
  <1>8. ASSUME NEW R \in SUBSET Reportable, EpollWait(R)
        PROVE  StoredMeansArmed'
    <2> SUFFICES ASSUME NEW i \in Interests, poller'[i] # None, i[1] \notin failed'
                 PROVE  i \in armed' \/ InHand(i[1])'
      BY DEF StoredMeansArmed
    <2>1. /\ events = {}
          /\ poller' = poller /\ failed' = failed
          /\ events' = {R \intersect Of(j[1]) : j \in R}
          /\ armed' = armed \ UNION {Of(j[1]) : j \in R}
      BY <1>8 DEF EpollWait, sourceVars, faultVars
    <2>2. i \in armed
      BY <2>1 DEF StoredMeansArmed, InHand
    <2>3. CASE \E j \in R : i \in Of(j[1])
      <3>1. PICK j \in R : i \in Of(j[1])
        BY <2>3
      <3>2. j \in Interests
        BY DEF TypeOK, Reportable
      <3>3. i[1] = j[1] /\ j \in Of(i[1])
        BY <3>1, <3>2, InterestSocket, OfSocket
      <3>4. R \intersect Of(j[1]) \in events' /\ j \in R \intersect Of(j[1])
        BY <2>1, <3>3
      <3> QED
        BY <3>3, <3>4 DEF InHand
    <2> QED
      BY <2>1, <2>2, <2>3
  <1>9. ASSUME NEW R \in SUBSET Reportable, NEW eof, KqueueWait(R, eof)
        PROVE  StoredMeansArmed'
    <2> SUFFICES ASSUME NEW i \in Interests, poller'[i] # None, i[1] \notin failed'
                 PROVE  i \in armed' \/ InHand(i[1])'
      BY DEF StoredMeansArmed
    <2>1. /\ events = {}
          /\ poller' = poller /\ failed' = failed
          /\ events' = {IF j \in eof THEN Of(j[1]) ELSE {j} : j \in R}
          /\ armed' = armed \ R
      BY <1>9 DEF KqueueWait, sourceVars, faultVars
    <2>2. i \in armed
      BY <2>1 DEF StoredMeansArmed, InHand
    <2>3. CASE i \in R
      <3>1. i \in Of(i[1])
        BY InterestSocket
      <3>2. (IF i \in eof THEN Of(i[1]) ELSE {i}) \in events'
        BY <2>1, <2>3
      <3> QED
        BY <3>1, <3>2 DEF InHand
    <2> QED
      BY <2>1, <2>2, <2>3
  <1>10. ASSUME NEW e \in events, NEW x \in Sockets, Dispatch(e, x)
         PROVE  StoredMeansArmed'
    <2> SUFFICES ASSUME NEW i \in Interests, poller'[i] # None, i[1] \notin failed'
                 PROVE  i \in armed' \/ InHand(i[1])'
      BY DEF StoredMeansArmed
    <2>1. /\ e \subseteq Of(x)
          /\ events' = events \ {e}
          /\ poller' = [j \in Interests |-> IF j \in e THEN None ELSE poller[j]]
          /\ IF Interested(x, poller') # {} THEN UpdateInterest(x, poller')
             ELSE UNCHANGED <<armed, failed>>
      BY <1>10 DEF Dispatch, Take
    <2>2. poller[i] # None
      BY <2>1
    <2>3. CASE i[1] = x
      <3>1. i \in Interested(x, poller')
        BY <2>3, OfSocket DEF Interested
      <3> QED
        BY <2>1, <2>3, <3>1, ArmedUpdated
    <2>4. CASE i[1] # x
      <3>1. i \in armed' <=> i \in armed
        BY <2>1, <2>4, ArmedUpdated
      <3>2. i[1] \notin failed
        BY <2>1, <2>4, ArmedUpdated
      <3>3. i \in armed \/ InHand(i[1])
        BY <2>2, <3>2 DEF StoredMeansArmed
      <3>4. e \intersect Of(i[1]) = {}
        BY <2>1, <2>4, InterestSocket, OfSocket
      <3> QED
        BY <2>1, <3>1, <3>3, <3>4 DEF InHand
    <2> QED
      BY <2>3, <2>4
  <1>11. ASSUME NEW e \in events, NEW x \in Sockets, DispatchFails(e, x)
         PROVE  StoredMeansArmed'
    <2> SUFFICES ASSUME NEW i \in Interests, poller'[i] # None, i[1] \notin failed'
                 PROVE  i \in armed'
      BY DEF StoredMeansArmed
    <2>1. /\ e \subseteq Of(x)
          /\ poller' = [j \in Interests |-> IF j \in e THEN None ELSE poller[j]]
          /\ UpdateFails(x, poller')
          /\ failed' = failed \union {j[1] : j \in UNION events}
      BY <1>11 DEF DispatchFails, Take
    <2>2. poller[i] # None /\ i[1] \notin failed
      BY <2>1
    <2>3. x \in failed'
      <3>1. PICK j : j \in e
        BY DEF PhaseInv
      <3>2. j \in UNION events /\ j[1] = x
        BY <2>1, <3>1, OfSocket
      <3> QED
        BY <2>1, <3>2
    <2>4. ~InHand(i[1])
      <3> SUFFICES ASSUME NEW d \in events, NEW j \in d, j \in Of(i[1])
                   PROVE  FALSE
        BY DEF InHand
      <3>1. j[1] = i[1]
        BY InterestSocket, OfSocket
      <3> QED
        BY <2>1, <3>1
    <2>5. i \in armed
      BY <2>2, <2>4 DEF StoredMeansArmed
    <2>6. i \notin Of(x)
      BY <2>3, OfSocket
    <2> QED
      BY <2>1, <2>5, <2>6 DEF UpdateFails
  <1>12. ASSUME NEW t \in Tasks,
                \/ PollTask(t) \/ EndPoll(t) \/ WakeBatch(t) \/ Notify(t)
                \/ WouldBlock(t) \/ IoDone(t)
         PROVE  StoredMeansArmed'
    BY <1>1, <1>12 DEF PollTask, EndPoll, WakeBatch, Notify, WouldBlock, IoDone,
         sourceVars, batchVars, kernelVars, faultVars
  <1>13. ASSUME NEW t \in Tasks, NEW x \in Sockets,
                Open(t, x) \/ StartConnect(t, x)
         PROVE  StoredMeansArmed'
    BY <1>1, <1>13 DEF Open, StartConnect, InsertSource, batchVars
  <1>14. ASSUME NEW t \in Tasks, NEW c \in Calls, StartIo(t, c[1], c[2])
         PROVE  StoredMeansArmed'
    BY <1>1, <1>14 DEF StartIo, sourceVars, batchVars, kernelVars, faultVars
  <1>15. ASSUME NEW x \in Sockets, Settle(x)
         PROVE  StoredMeansArmed'
    BY <1>1, <1>15 DEF Settle, sourceVars, batchVars, faultVars
  <1>16. CASE Park \/ WaitEmpty
    BY <1>1, <1>16 DEF Park, WaitEmpty, sourceVars, kernelVars, faultVars
  <1>17. CASE UNCHANGED vars
    BY <1>1, <1>17 DEF vars
  <1> QED
    BY <1>2, <1>3, <1>4, <1>5, <1>6, <1>7, <1>8, <1>9, <1>10, <1>11, <1>12,
       <1>13, <1>14, <1>15, <1>16, <1>17
    DEF Next, CallStep, PollReady, UserStep, Wait, DispatchStep, FaultStep,
        WorldStep

-----------------------------------------------------------------------------
(* Wakers                                                                  *)

\* A step that leaves the calls and their wakers in place, or wakes more.
LEMMA WakerKept ==
  ASSUME WakerInv,
         woken \union wakers \subseteq woken' \union wakers',
         stranded' = stranded,
         poller' = poller,
         \A u \in Tasks : op'[u].at # "suspended" \/ op'[u] = op[u]
  PROVE  WakerInv'
  BY DEF WakerInv

\* A step that ends the only call on x and closes x.
LEMMA WakerClosed ==
  ASSUME TypeOK, WakerInv, NEW t \in Tasks, NEW x \in Sockets, RemoveSource(x),
         op' = [op EXCEPT ![t] = NoOp],
         \A u \in Tasks \ {t} : op[u] # NoOp => op[u].on[1] # x,
         woken \ {t} \subseteq woken',
         wakers' = wakers,
         stranded \ {t} \subseteq stranded'
  PROVE  WakerInv'
  <1> SUFFICES ASSUME NEW u \in Tasks, op'[u].at = "suspended", u \notin stranded'
               PROVE  u \in woken' \union wakers' \/ poller'[op'[u].on] = u
    BY DEF WakerInv
  <1>1. u # t /\ op'[u] = op[u]
    BY DEF TypeOK, NoOp
  <1>2. op[u].on \in Interests /\ op[u].on[1] # x
    BY <1>1, CallFacts
  <1>3. op[u].on \notin Of(x)
    BY <1>2, OfSocket
  <1>4. u \in woken \union wakers \/ poller[op[u].on] = u
    BY <1>1 DEF WakerInv
  <1> QED
    BY <1>1, <1>2, <1>3, <1>4 DEF RemoveSource

\* The waker of a suspended call is stored, on its way, or was stranded.
LEMMA WakerStep ==
  ASSUME TypeOK, UseInv, WakerInv, [Next]_vars
  PROVE  WakerInv'
  <1> op \in [Tasks -> Ops \union {NoOp}] /\ wakers \subseteq Tasks
      /\ None \notin Tasks
    BY ReactorAssumption DEF TypeOK
  <1>1. ASSUME NEW t \in Tasks, PollTask(t)
        PROVE  WakerInv'
    <2>1. \A u \in Tasks : op'[u] = IF u = t THEN Resumed(op[t]) ELSE op[u]
      BY <1>1 DEF PollTask
    <2>2. op'[t].at # "suspended"
      BY <2>1, OpParts
    <2> QED
      BY <1>1, <2>1, <2>2 DEF WakerInv, PollTask, sourceVars, batchVars
  <1>2. ASSUME NEW t \in Tasks, PollCancel(t)
        PROVE  WakerInv'
    <2>1. CASE op[t].kind = "connect"
      BY <1>2, <2>1, ConnectAlone, WakerClosed DEF PollCancel, batchVars
    <2>2. CASE op[t].kind # "connect"
      <3>1. op'[t].at # "suspended" /\ \A u \in Tasks \ {t} : op'[u] = op[u]
        BY <1>2 DEF PollCancel, NoOp
      <3> QED
        BY <1>2, <2>2, <3>1 DEF WakerInv, PollCancel, sourceVars, batchVars
    <2> QED
      BY <2>1, <2>2
  <1>3. ASSUME NEW t \in Tasks, NEW x \in Sockets, Close(t, x)
        PROVE  WakerInv'
    <2>1. \A u \in Tasks : op[u] # NoOp => op[u].on \notin Of(x)
      BY <1>3 DEF Close, InUse
    <2>2. \A u \in Tasks : op[u].at = "suspended" => poller'[op[u].on] = poller[op[u].on]
      BY <1>3, <2>1, CallFacts DEF Close, RemoveSource
    <2> QED
      BY <1>3, <2>2 DEF WakerInv, Close, batchVars
  <1>4. ASSUME NEW t \in Tasks, NEW x \in Sockets,
               Open(t, x) \/ StartConnect(t, x)
        PROVE  WakerInv'
    <2>1. \A u \in Tasks : op'[u].at # "suspended" \/ op'[u] = op[u]
      BY <1>4 DEF Open, StartConnect
    <2> QED
      BY <1>4, <2>1, WakerKept DEF Open, StartConnect, InsertSource, batchVars
  <1>5. ASSUME NEW t \in Tasks, NEW c \in Calls, StartIo(t, c[1], c[2])
        PROVE  WakerInv'
    <2>1. \A u \in Tasks : op'[u].at # "suspended" \/ op'[u] = op[u]
      BY <1>5 DEF StartIo
    <2> QED
      BY <1>5, <2>1, WakerKept DEF StartIo, sourceVars, batchVars, faultVars
  <1>6. ASSUME NEW t \in Tasks, WouldBlock(t) \/ IoDone(t)
        PROVE  WakerInv'
    <2>1. op[t] \in Ops
      BY <1>6, CallFacts DEF WouldBlock, IoDone
    <2>2. \A u \in Tasks \ {t} : op'[u] = op[u]
      BY <1>6 DEF WouldBlock, IoDone
    <2>3. WouldBlock(t) => op'[t].at # "suspended"
      BY <2>1, MoveOn DEF WouldBlock
    <2>4. IoDone(t) => op'[t].at # "suspended"
      BY DEF IoDone, NoOp
    <2> QED
      BY <1>6, <2>2, <2>3, <2>4, WakerKept DEF WouldBlock, IoDone, sourceVars, batchVars, faultVars
  <1>7. ASSUME NEW t \in Tasks, PollReadyWoke(t)
        PROVE  WakerInv'
    <2>1. op[t] \in Ops /\ UNCHANGED <<wakers, woken, stranded>>
      BY <1>7, CallFacts DEF PollReadyWoke, batchVars
    <2>2. CASE ReadyIo(t)
      <3>1. \A u \in Tasks : op'[u].at # "suspended" \/ op'[u] = op[u]
        BY <2>1, <2>2, MoveOn DEF ReadyIo
      <3> QED
        BY <2>1, <2>2, <3>1, WakerKept DEF ReadyIo
    <2>3. CASE ReadyConnect(t)
      <3>1. op[t].kind = "connect" /\ op' = [op EXCEPT ![t] = NoOp]
        BY <2>3 DEF ReadyConnect
      <3>2. \A u \in Tasks : op'[u].at # "suspended" \/ op'[u] = op[u]
        BY <3>1 DEF NoOp
      <3>3. CASE poller' = poller
        BY <2>1, <3>2, <3>3, WakerKept
      <3>4. CASE RemoveSource(op[t].on[1])
        <4>1. /\ op[t].on[1] \in Sockets
              /\ \A u \in Tasks \ {t} : op[u] # NoOp => op[u].on[1] # op[t].on[1]
          BY <3>1, ConnectAlone
        <4>2. woken \ {t} \subseteq woken' /\ stranded \ {t} \subseteq stranded'
          BY <2>1
        <4> QED
          BY <2>1, <3>1, <3>4, <4>1, <4>2, WakerClosed
      <3> QED
        BY <2>3, <3>3, <3>4 DEF ReadyConnect
    <2> QED
      BY <1>7, <2>2, <2>3 DEF PollReadyWoke
  <1>8. ASSUME NEW t \in Tasks, PollReadyReplace(t) \/ PollReadyArm(t)
        PROVE  WakerInv'
    <2> SUFFICES ASSUME NEW u \in Tasks, op'[u].at = "suspended", u \notin stranded'
                 PROVE  u \in woken' \union wakers' \/ poller'[op'[u].on] = u
      BY DEF WakerInv
    <2>1. op[t] \in Ops /\ op[t].on \in Interests
      BY <1>8, CallFacts DEF PollReadyReplace, PollReadyArm
    <2>2. /\ poller' = [poller EXCEPT ![op[t].on] = t]
          /\ op' = [op EXCEPT ![t].at = "suspended"]
          /\ poller[op[t].on] \in woken' \union {None}
          /\ woken \subseteq woken'
          /\ wakers' = wakers /\ stranded' = stranded
      BY <1>8 DEF PollReadyReplace, PollReadyArm, Replaced, batchVars, faultVars
    <2>3. CASE u = t
      <3>1. op'[t].on = op[t].on
        BY <2>1, <2>2, MoveOn
      <3> QED
        BY <2>1, <2>2, <2>3, <3>1 DEF TypeOK
    <2>4. CASE u # t
      <3>1. op'[u] = op[u]
        BY <2>2, <2>4
      <3>2. op[u].on \in Interests
        BY <3>1, CallFacts
      <3>3. u \in woken \union wakers \/ poller[op[u].on] = u
        BY <2>2, <3>1 DEF WakerInv
      <3> QED
        BY <2>1, <2>2, <2>4, <3>1, <3>2, <3>3 DEF TypeOK
    <2> QED
      BY <2>3, <2>4
  <1>9. ASSUME NEW t \in Tasks, PollReadyFails(t)
        PROVE  WakerInv'
    <2>1. op[t].on \in Interests
      BY <1>9, CallFacts DEF PollReadyFails
    <2>2. CASE op[t].kind = "connect"
      <3>1. /\ op[t].on[1] \in Sockets
            /\ \A u \in Tasks \ {t} : op[u] # NoOp => op[u].on[1] # op[t].on[1]
        BY <2>2, ConnectAlone
      <3>2. /\ RemoveSource(op[t].on[1])
            /\ op' = [op EXCEPT ![t] = NoOp]
            /\ wakers' = wakers
            /\ woken \ {t} \subseteq woken' /\ stranded \ {t} \subseteq stranded'
        BY <1>9, <2>2 DEF PollReadyFails, batchVars
      <3> QED
        BY <3>1, <3>2, WakerClosed
    <2>3. CASE op[t].kind # "connect"
      <3> SUFFICES ASSUME NEW u \in Tasks, op'[u].at = "suspended", u \notin stranded'
                   PROVE  u \in woken' \union wakers' \/ poller'[op'[u].on] = u
        BY DEF WakerInv
      <3>1. /\ poller[op[t].on] = None
            /\ poller' = [poller EXCEPT ![op[t].on] = t]
            /\ op' = [op EXCEPT ![t] = NoOp]
            /\ UNCHANGED <<woken, wakers, stranded>>
        BY <1>9, <2>3 DEF PollReadyFails, batchVars
      <3>2. u # t /\ op'[u] = op[u]
        BY <3>1 DEF NoOp
      <3>3. u \in woken \union wakers \/ poller[op[u].on] = u
        BY <3>1, <3>2 DEF WakerInv
      <3>4. op[u].on \in Interests
        BY <3>2, CallFacts
      <3> QED
        BY <2>1, <3>1, <3>2, <3>3, <3>4 DEF TypeOK
    <2> QED
      BY <2>2, <2>3
  <1>10. ASSUME NEW e \in events, NEW x \in Sockets,
                Dispatch(e, x) \/ DispatchFails(e, x)
         PROVE  WakerInv'
    <2> SUFFICES ASSUME NEW u \in Tasks, op'[u].at = "suspended", u \notin stranded'
                 PROVE  u \in woken' \union wakers' \/ poller'[op'[u].on] = u
      BY DEF WakerInv
    <2>1. /\ op' = op /\ woken' = woken /\ stranded \subseteq stranded'
          /\ poller' = [i \in Interests |-> IF i \in e THEN None ELSE poller[i]]
          /\ wakers \union TakenWakers(e) \subseteq wakers' \union stranded'
      BY <1>10 DEF Dispatch, DispatchFails, Take
    <2>2. op[u].on \in Interests
      BY <2>1, CallFacts
    <2>3. u \in woken \union wakers \/ poller[op[u].on] = u
      BY <2>1 DEF WakerInv
    <2>4. CASE poller[op[u].on] = u /\ op[u].on \in e
      <3>1. u \in TakenWakers(e)
        BY <2>4 DEF TakenWakers
      <3> QED
        BY <2>1, <3>1
    <2> QED
      BY <2>1, <2>2, <2>3, <2>4
  <1>11. ASSUME NEW t \in Tasks, EndPoll(t) \/ WakeBatch(t) \/ Notify(t)
         PROVE  WakerInv'
    BY <1>11, WakerKept
    DEF EndPoll, WakeBatch, Notify, sourceVars, batchVars, faultVars
  <1>12. Wait => WakerInv'
    BY WakerKept DEF Wait, EpollWait, KqueueWait, sourceVars, faultVars
  <1>13. ASSUME NEW x \in Sockets, Settle(x)
         PROVE  WakerInv'
    BY <1>13, WakerKept DEF Settle, sourceVars, batchVars, faultVars
  <1>14. CASE Park \/ WaitEmpty
    BY <1>14, WakerKept DEF Park, WaitEmpty, sourceVars, faultVars
  <1>15. CASE UNCHANGED vars
    BY <1>15, WakerKept DEF vars
  <1> QED
    BY <1>1, <1>2, <1>3, <1>4, <1>5, <1>6, <1>7, <1>8, <1>9, <1>10, <1>11,
       <1>12, <1>13, <1>14, <1>15
    DEF Next, CallStep, PollReady, UserStep, DispatchStep, FaultStep, WorldStep

-----------------------------------------------------------------------------
(* Connections                                                             *)

\* Closing x, when the call of t was the connect of x or no connect ends.
LEMMA ConnectedClosed ==
  ASSUME ConnectedWhenReturned, NEW x,
         open' = open \ {x},
         settled' = settled \ {x},
         \A u \in Tasks : op[u].kind = "connect" =>
           op[u].on[1] = x \/ op'[u] = op[u]
  PROVE  ConnectedWhenReturned'
  BY DEF ConnectedWhenReturned

\* A step that settles what it opens and ends no connect.
LEMMA ConnectedKept ==
  ASSUME ConnectedWhenReturned,
         settled \subseteq settled',
         open' \subseteq open \union settled',
         \A u \in Tasks : op[u].kind = "connect" =>
           op'[u].kind = "connect" /\ op'[u].on = op[u].on
  PROVE  ConnectedWhenReturned'
  BY DEF ConnectedWhenReturned

\* connect returns a stream only when its attempt is over.
LEMMA ConnectedStep ==
  ASSUME TypeOK, UseInv, SettledInv, ConnectedWhenReturned, [Next]_vars
  PROVE  ConnectedWhenReturned'
  <1> op \in [Tasks -> Ops \union {NoOp}] /\ wakers \subseteq Tasks
    BY DEF TypeOK
  <1>1. ASSUME NEW t \in Tasks, PollTask(t)
        PROVE  ConnectedWhenReturned'
    <2>1. \A u \in Tasks : op'[u] = IF u = t THEN Resumed(op[t]) ELSE op[u]
      BY <1>1 DEF PollTask
    <2>2. op'[t].kind = op[t].kind /\ op'[t].on = op[t].on
      BY <2>1, OpParts
    <2> QED
      BY <1>1, <2>1, <2>2, ConnectedKept DEF PollTask, sourceVars, kernelVars
  <1>2. ASSUME NEW t \in Tasks, PollCancel(t)
        PROVE  ConnectedWhenReturned'
    <2>1. \A u \in Tasks \ {t} : op'[u] = op[u]
      BY <1>2 DEF PollCancel
    <2>2. CASE op[t].kind = "connect"
      <3>1. /\ open' = open \ {op[t].on[1]}
            /\ settled' = settled \ {op[t].on[1]}
        BY <1>2, <2>2 DEF PollCancel, RemoveSource
      <3> QED
        BY <2>1, <3>1, ConnectedClosed
    <2>3. CASE op[t].kind # "connect"
      BY <1>2, <2>1, <2>3, ConnectedKept DEF PollCancel, sourceVars, kernelVars
    <2> QED
      BY <2>2, <2>3
  <1>3. ASSUME NEW t \in Tasks, NEW x \in Sockets, Close(t, x)
        PROVE  ConnectedWhenReturned'
    BY <1>3, ConnectedClosed DEF Close, RemoveSource
  <1>4. ASSUME NEW t \in Tasks, NEW x \in Sockets, Open(t, x)
        PROVE  ConnectedWhenReturned'
    BY <1>4, ConnectedKept DEF Open, InsertSource
  <1>5. ASSUME NEW t \in Tasks, NEW x \in Sockets, StartConnect(t, x)
        PROVE  ConnectedWhenReturned'
    <2>1. /\ open' = open \union {x} /\ settled \subseteq settled'
          /\ op'[t].kind = "connect" /\ op'[t].on[1] = x
          /\ \A u \in Tasks \ {t} : op'[u] = op[u]
      BY <1>5 DEF StartConnect, InsertSource
    <2>2. op[t].kind # "connect"
      BY <1>5 DEF StartConnect, NoOp
    <2> QED
      BY <2>1, <2>2 DEF ConnectedWhenReturned
  <1>6. ASSUME NEW t \in Tasks, NEW c \in Calls, StartIo(t, c[1], c[2])
        PROVE  ConnectedWhenReturned'
    <2>1. op[t].kind # "connect" /\ \A u \in Tasks \ {t} : op'[u] = op[u]
      BY <1>6 DEF StartIo, NoOp
    <2> QED
      BY <1>6, <2>1, ConnectedKept DEF StartIo, sourceVars, kernelVars
  <1>7. ASSUME NEW t \in Tasks, IoDone(t)
        PROVE  ConnectedWhenReturned'
    <2>1. op[t].kind # "connect" /\ \A u \in Tasks \ {t} : op'[u] = op[u]
      BY <1>7 DEF IoDone, UseInv
    <2>2. settled \subseteq settled' /\ open' \subseteq open \union settled'
      BY <1>7 DEF IoDone
    <2> QED
      BY <2>1, <2>2, ConnectedKept
  <1>8. ASSUME NEW t \in Tasks, WouldBlock(t) \/ PollReadyReplace(t) \/ PollReadyArm(t)
        PROVE  ConnectedWhenReturned'
    <2>1. op[t] \in Ops
      BY <1>8, CallFacts DEF WouldBlock, PollReadyReplace, PollReadyArm
    <2>2. PICK a \in {"register", "suspended"} : op' = [op EXCEPT ![t].at = a]
      BY <1>8 DEF WouldBlock, PollReadyReplace, PollReadyArm
    <2>3. op'[t].kind = op[t].kind /\ op'[t].on = op[t].on
      BY <2>1, <2>2, MoveOn
    <2>4. \A u \in Tasks \ {t} : op'[u] = op[u]
      BY <2>2
    <2>5. UNCHANGED <<open, settled>>
      BY <1>8 DEF WouldBlock, PollReadyReplace, PollReadyArm, sourceVars, kernelVars
    <2> QED
      BY <2>3, <2>4, <2>5, ConnectedKept
  <1>9. ASSUME NEW t \in Tasks, PollReadyWoke(t)
        PROVE  ConnectedWhenReturned'
    <2>1. CASE ReadyIo(t)
      <3>1. op[t].kind # "connect" /\ \A u \in Tasks \ {t} : op'[u] = op[u]
        BY <2>1 DEF ReadyIo
      <3> QED
        BY <2>1, <3>1, ConnectedKept DEF ReadyIo, kernelVars
    <2>2. CASE ReadyConnect(t)
      <3>1. \A u \in Tasks \ {t} : op'[u] = op[u]
        BY <2>2 DEF ReadyConnect
      <3>2. op[t].on[1] \in settled
        BY <1>9 DEF PollReadyWoke, SettledInv
      <3>3. CASE UNCHANGED <<open, kernelVars>>
        BY <3>1, <3>2, <3>3 DEF ConnectedWhenReturned, kernelVars
      <3>4. CASE RemoveSource(op[t].on[1])
        <4>1. /\ open' = open \ {op[t].on[1]}
              /\ settled' = settled \ {op[t].on[1]}
          BY <3>4 DEF RemoveSource
        <4> QED
          BY <3>1, <4>1, ConnectedClosed
      <3> QED
        BY <2>2, <3>3, <3>4 DEF ReadyConnect
    <2> QED
      BY <1>9, <2>1, <2>2 DEF PollReadyWoke
  <1>10. ASSUME NEW t \in Tasks, PollReadyFails(t)
         PROVE  ConnectedWhenReturned'
    <2>1. \A u \in Tasks \ {t} : op'[u] = op[u]
      BY <1>10 DEF PollReadyFails
    <2>2. CASE op[t].kind = "connect"
      <3>1. /\ open' = open \ {op[t].on[1]}
            /\ settled' = settled \ {op[t].on[1]}
        BY <1>10, <2>2 DEF PollReadyFails, RemoveSource
      <3> QED
        BY <2>1, <3>1, ConnectedClosed
    <2>3. CASE op[t].kind # "connect"
      BY <1>10, <2>1, <2>3, ConnectedKept DEF PollReadyFails
    <2> QED
      BY <2>2, <2>3
  <1>11. ASSUME NEW t \in Tasks, EndPoll(t) \/ WakeBatch(t) \/ Notify(t)
         PROVE  ConnectedWhenReturned'
    BY <1>11, ConnectedKept DEF EndPoll, WakeBatch, Notify, sourceVars, kernelVars
  <1>12. Wait => ConnectedWhenReturned'
    BY ConnectedKept DEF Wait, EpollWait, KqueueWait, sourceVars
  <1>13. ASSUME NEW e \in events, NEW x \in Sockets,
                Dispatch(e, x) \/ DispatchFails(e, x)
         PROVE  ConnectedWhenReturned'
    BY <1>13, ConnectedKept DEF Dispatch, DispatchFails
  <1>14. ASSUME NEW x \in Sockets, Settle(x)
         PROVE  ConnectedWhenReturned'
    BY <1>14, ConnectedKept DEF Settle, sourceVars
  <1>15. CASE Park \/ WaitEmpty
    BY <1>15, ConnectedKept DEF Park, WaitEmpty, sourceVars, kernelVars
  <1>16. CASE UNCHANGED vars
    BY <1>16, ConnectedKept DEF vars
  <1> QED
    BY <1>1, <1>2, <1>3, <1>4, <1>5, <1>6, <1>7, <1>8, <1>9, <1>10, <1>11,
       <1>12, <1>13, <1>14, <1>15, <1>16
    DEF Next, CallStep, PollReady, UserStep, DispatchStep, FaultStep, WorldStep

-----------------------------------------------------------------------------
(* The theorems                                                            *)

\* IInv holds before the first task is polled.
LEMMA InitInv == Init => IInv
  <1> SUFFICES ASSUME Init PROVE IInv
    OBVIOUS
  <1>1. TypeOK
    BY DEF Init, TypeOK
  <1>2. \A t \in Tasks : op[t] = NoOp /\ op[t].at = "none" /\ op[t].kind = "none"
    BY DEF Init, NoOp
  <1>3. PhaseInv /\ UseInv /\ SettledInv /\ WakerInv
    BY <1>2 DEF Init, PhaseInv, UseInv, SettledInv, WakerInv
  <1>4. StoredMeansArmed /\ ConnectedWhenReturned
    BY DEF Init, StoredMeansArmed, ConnectedWhenReturned
  <1> QED
    BY <1>1, <1>3, <1>4 DEF IInv

\* IInv is inductive: it holds in every state of every behaviour.
THEOREM Invariance == Spec => []IInv
  <1>1. IInv /\ [Next]_vars => IInv'
    BY TypeStep, PhaseStep, UseStep, SettledStep, ArmedStep, WakerStep,
       ConnectedStep DEF IInv
  <1> QED
    BY <1>1, InitInv, PTL DEF Spec

\* Sources, events and calls keep their types: Interest::take pushes a waker
\* only if there is one.
THEOREM TypeCorrect == Spec => []TypeOK
  <1>1. IInv => TypeOK
    BY DEF IInv
  <1> QED
    BY <1>1, Invariance, PTL

\* A waker stored by poll_ready is in an armed interest, or the event that
\* disarmed it is being dispatched, unless an update of the source failed.
THEOREM StoredIsArmed == Spec => []StoredMeansArmed
  <1>1. IInv => StoredMeansArmed
    BY DEF IInv
  <1> QED
    BY <1>1, Invariance, PTL

\* A task suspended in poll_ready is woken already, or its waker is where the
\* next event of the socket finds it, whichever tasks share the socket.
THEOREM ReadinessKept == Spec => []NoLostReadiness
  <1>1. IInv => NoLostReadiness
    <2> SUFFICES ASSUME IInv, NEW t \in Tasks, op[t].at = "suspended",
                        t \notin stranded, op[t].on[1] \notin failed,
                        t \notin woken \union wakers
                 PROVE  /\ poller[op[t].on] = t
                        /\ op[t].on \in armed \/ InHand(op[t].on[1])
      BY DEF NoLostReadiness
    <2>1. poller[op[t].on] = t
      BY DEF IInv, WakerInv
    <2>2. op[t].on \in Interests /\ t # None
      BY CallFacts, ReactorAssumption DEF IInv
    <2> QED
      BY <2>1, <2>2 DEF IInv, StoredMeansArmed
  <1> QED
    BY <1>1, Invariance, PTL

\* TcpStream::connect returns no stream whose connection attempt is not over,
\* also when the slab key was that of another source before.
THEOREM ConnectWaits == Spec => []ConnectedWhenReturned
  <1>1. IInv => ConnectedWhenReturned
    BY DEF IInv
  <1> QED
    BY <1>1, Invariance, PTL
=============================================================================
