---------------------------- MODULE OneshotProofs ---------------------------
(***************************************************************************)
(* Proofs about Oneshot, for every set of tasks.                           *)
(***************************************************************************)
EXTENDS Oneshot, TLAPS

LEMMA InitIInv == Init => IInv
<1> SUFFICES ASSUME Init PROVE IInv
  OBVIOUS
<1> USE DEF Init
<1>1. TypeOK
  BY DEF TypeOK
<1>2. MessageKept /\ ClosedIsFinal
  BY DEF MessageKept, ClosedIsFinal
<1>3. HalvesInv /\ ReceiverWoken /\ SenderWoken
  BY DEF HalvesInv, ReceiverWoken, SenderWoken
<1>4. CompleteMeansPeerGone /\ NoWakerRetained
  BY DEF CompleteMeansPeerGone, NoWakerRetained
<1> QED BY <1>1, <1>2, <1>3, <1>4 DEF IInv

-----------------------------------------------------------------------------
(* The actions                                                             *)

\* The message is accepted only while the receiver is there, and the Sender
\* is dropped in the same step.
LEMMA SendIInv ==
  ASSUME IInv, Send
  PROVE  IInv'
<1> USE OneshotAssumption DEF Send, DropSender, rxHistory, IInv, TypeOK, HalvesInv
<1>1. TypeOK'
  OBVIOUS
<1>2. HalvesInv'
  BY DEF CompleteMeansPeerGone, HalvesInv
<1>3. MessageKept'
  BY DEF CompleteMeansPeerGone, MessageKept
<1>4. ClosedIsFinal'
  BY DEF MessageKept, CompleteMeansPeerGone, ClosedIsFinal
<1>5. ReceiverWoken'
  BY DEF CompleteMeansPeerGone, ReceiverWoken
<1>6. SenderWoken'
  BY DEF CompleteMeansPeerGone, SenderWoken
<1>7. CompleteMeansPeerGone'
  BY DEF CompleteMeansPeerGone
<1>8. NoWakerRetained'
  BY DEF CompleteMeansPeerGone, NoWakerRetained
<1> QED BY <1>1, <1>2, <1>3, <1>4, <1>5, <1>6, <1>7, <1>8

\* The Sender goes without a message.
LEMMA SenderGoneIInv ==
  ASSUME IInv, SenderGone
  PROVE  IInv'
<1> USE OneshotAssumption DEF SenderGone, DropSender, rxHistory, IInv, TypeOK, HalvesInv
<1>1. TypeOK'
  OBVIOUS
<1>2. HalvesInv'
  BY DEF CompleteMeansPeerGone, HalvesInv
<1>3. MessageKept'
  BY DEF CompleteMeansPeerGone, MessageKept
<1>4. ClosedIsFinal'
  BY DEF MessageKept, CompleteMeansPeerGone, ClosedIsFinal
<1>5. ReceiverWoken'
  BY DEF CompleteMeansPeerGone, ReceiverWoken
<1>6. SenderWoken'
  BY DEF CompleteMeansPeerGone, SenderWoken
<1>7. CompleteMeansPeerGone'
  BY DEF CompleteMeansPeerGone
<1>8. NoWakerRetained'
  BY DEF CompleteMeansPeerGone, NoWakerRetained
<1> QED BY <1>1, <1>2, <1>3, <1>4, <1>5, <1>6, <1>7, <1>8

\* A waker is left only while the channel is not complete.
LEMMA PollClosedIInv ==
  ASSUME NEW t \in Tasks, IInv, PollClosed(t)
  PROVE  IInv'
<1> USE OneshotAssumption DEF PollClosed, rxHistory, IInv, TypeOK, HalvesInv
<1>1. TypeOK'
  OBVIOUS
<1>2. HalvesInv'
  BY DEF CompleteMeansPeerGone, HalvesInv
<1>3. MessageKept'
  BY DEF CompleteMeansPeerGone, MessageKept
<1>4. ClosedIsFinal'
  BY DEF MessageKept, CompleteMeansPeerGone, ClosedIsFinal
<1>5. ReceiverWoken'
  BY DEF CompleteMeansPeerGone, ReceiverWoken
<1>6. SenderWoken'
  BY DEF CompleteMeansPeerGone, SenderWoken
<1>7. CompleteMeansPeerGone'
  BY DEF CompleteMeansPeerGone
<1>8. NoWakerRetained'
  BY DEF CompleteMeansPeerGone, NoWakerRetained
<1> QED BY <1>1, <1>2, <1>3, <1>4, <1>5, <1>6, <1>7, <1>8

\* A message that was sent stays receivable.
LEMMA CloseIInv ==
  ASSUME IInv, Close
  PROVE  IInv'
<1> USE OneshotAssumption DEF Close, Hangup, IInv, TypeOK, HalvesInv
<1>1. TypeOK'
  OBVIOUS
<1>2. HalvesInv'
  BY DEF CompleteMeansPeerGone, HalvesInv
<1>3. MessageKept'
  BY DEF CompleteMeansPeerGone, MessageKept
<1>4. ClosedIsFinal'
  BY DEF MessageKept, CompleteMeansPeerGone, ClosedIsFinal
<1>5. ReceiverWoken'
  BY DEF CompleteMeansPeerGone, ReceiverWoken
<1>6. SenderWoken'
  BY DEF CompleteMeansPeerGone, SenderWoken
<1>7. CompleteMeansPeerGone'
  BY DEF CompleteMeansPeerGone
<1>8. NoWakerRetained'
  BY DEF CompleteMeansPeerGone, NoWakerRetained
<1> QED BY <1>1, <1>2, <1>3, <1>4, <1>5, <1>6, <1>7, <1>8

\* Both wakers are taken out.
LEMMA DropReceiverIInv ==
  ASSUME IInv, DropReceiver
  PROVE  IInv'
<1> USE OneshotAssumption DEF DropReceiver, Hangup, IInv, TypeOK, HalvesInv
<1>1. TypeOK'
  OBVIOUS
<1>2. HalvesInv'
  BY DEF CompleteMeansPeerGone, HalvesInv
<1>3. MessageKept'
  BY DEF CompleteMeansPeerGone, MessageKept
<1>4. ClosedIsFinal'
  BY DEF MessageKept, CompleteMeansPeerGone, ClosedIsFinal
<1>5. ReceiverWoken'
  BY DEF CompleteMeansPeerGone, ReceiverWoken
<1>6. SenderWoken'
  BY DEF CompleteMeansPeerGone, SenderWoken
<1>7. CompleteMeansPeerGone'
  BY DEF CompleteMeansPeerGone
<1>8. NoWakerRetained'
  BY DEF CompleteMeansPeerGone, NoWakerRetained
<1> QED BY <1>1, <1>2, <1>3, <1>4, <1>5, <1>6, <1>7, <1>8

\* The message is taken out, so that it is received once.
LEMMA ReceiveIInv ==
  ASSUME IInv, Receive
  PROVE  IInv'
<1> USE OneshotAssumption DEF Receive, TakeMessage, IInv, TypeOK, HalvesInv
<1>1. TypeOK'
  <2>1. received' \in Nat
    OBVIOUS
  <2>2. sawClosed' \in BOOLEAN /\ message' \in BOOLEAN
    OBVIOUS
  <2> QED BY <2>1, <2>2
<1>2. HalvesInv'
  BY DEF CompleteMeansPeerGone, HalvesInv
<1>3. MessageKept'
  BY DEF CompleteMeansPeerGone, MessageKept
<1>4. ClosedIsFinal'
  BY DEF MessageKept, CompleteMeansPeerGone, ClosedIsFinal
<1>5. ReceiverWoken'
  BY DEF CompleteMeansPeerGone, ReceiverWoken
<1>6. SenderWoken'
  BY DEF CompleteMeansPeerGone, SenderWoken
<1>7. CompleteMeansPeerGone'
  BY DEF CompleteMeansPeerGone
<1>8. NoWakerRetained'
  BY DEF CompleteMeansPeerGone, NoWakerRetained
<1> QED BY <1>1, <1>2, <1>3, <1>4, <1>5, <1>6, <1>7, <1>8

\* Neither half is gone, so the Sender's drop will find the waker.
LEMMA ReceivePendingIInv ==
  ASSUME NEW t \in Tasks, IInv, ReceivePending(t)
  PROVE  IInv'
<1> USE OneshotAssumption DEF ReceivePending, IInv, TypeOK, HalvesInv
<1>1. TypeOK'
  OBVIOUS
<1>2. HalvesInv'
  BY DEF CompleteMeansPeerGone, HalvesInv
<1>3. MessageKept'
  BY DEF CompleteMeansPeerGone, MessageKept
<1>4. ClosedIsFinal'
  BY DEF MessageKept, CompleteMeansPeerGone, ClosedIsFinal
<1>5. ReceiverWoken'
  BY DEF CompleteMeansPeerGone, ReceiverWoken
<1>6. SenderWoken'
  BY DEF CompleteMeansPeerGone, SenderWoken
<1>7. CompleteMeansPeerGone'
  BY DEF CompleteMeansPeerGone
<1>8. NoWakerRetained'
  BY DEF CompleteMeansPeerGone, NoWakerRetained
<1> QED BY <1>1, <1>2, <1>3, <1>4, <1>5, <1>6, <1>7, <1>8
-----------------------------------------------------------------------------
(* Theorems                                                                *)

LEMMA NextIInv == IInv /\ [Next]_vars => IInv'
<1> SUFFICES ASSUME IInv, [Next]_vars PROVE IInv'
  OBVIOUS
<1>1. CASE Next
  BY <1>1, SendIInv, SenderGoneIInv, PollClosedIInv, CloseIInv, DropReceiverIInv,
     ReceiveIInv, ReceivePendingIInv DEF Next
<1>2. CASE UNCHANGED vars
  BY <1>2 DEF vars, IInv, TypeOK, HalvesInv, MessageKept, ClosedIsFinal,
              ReceiverWoken, SenderWoken, CompleteMeansPeerGone, NoWakerRetained
<1> QED BY <1>1, <1>2

\* IInv holds in every reachable state of a oneshot channel.
THEOREM Invariance == Spec => []IInv
  BY InitIInv, NextIInv, PTL DEF Spec

\* A message that send accepted is received at most once and is not lost while
\* its receiver lives.
THEOREM MessageDelivered == Spec => []MessageKept
<1>1. IInv => MessageKept
  BY DEF IInv
<1> QED BY <1>1, Invariance, PTL

\* A Receiver does not sleep through a message or the end of its Sender.
THEOREM ReceiverServed == Spec => []ReceiverWoken
<1>1. IInv => ReceiverWoken
  BY DEF IInv
<1> QED BY <1>1, Invariance, PTL

\* The one flag tells either half that its peer is gone, and nothing else.
THEOREM CompleteSound == Spec => []CompleteMeansPeerGone
<1>1. IInv => CompleteMeansPeerGone
  BY DEF IInv
<1> QED BY <1>1, Invariance, PTL

\* A receiver that was told Closed misses nothing: no send succeeds later.
THEOREM ClosedMissesNothing == Spec => []ClosedIsFinal
<1>1. IInv => ClosedIsFinal
  BY DEF IInv
<1> QED BY <1>1, Invariance, PTL

\* A Sender does not sleep in poll_closed through the end of its Receiver.
THEOREM SenderServed == Spec => []SenderWoken
<1>1. IInv => SenderWoken
  BY DEF IInv
<1> QED BY <1>1, Invariance, PTL

\* A channel keeps no waker once one of its halves is gone.
THEOREM WakersReleased == Spec => []NoWakerRetained
<1>1. IInv => NoWakerRetained
  BY DEF IInv
<1> QED BY <1>1, Invariance, PTL

\* The slots of the channel hold what the code takes them to hold: no unwrap
\* of an empty slot.
THEOREM TypeCorrect == Spec => []TypeOK
<1>1. IInv => TypeOK
  BY DEF IInv
<1> QED BY <1>1, Invariance, PTL
=============================================================================
