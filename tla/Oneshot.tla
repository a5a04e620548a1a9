------------------------------ MODULE Oneshot -------------------------------
(***************************************************************************)
(* The oneshot channel of platoon (sync/oneshot.rs): a message slot, one   *)
(* flag `complete' that either half sets, and the waker of the task that   *)
(* waits on each half.  The halves move between tasks, which may poll them *)
(* any number of times, close the channel, or drop their half, in every    *)
(* order.                                                                  *)
(***************************************************************************)
EXTENDS Naturals

CONSTANTS
  Tasks,   \* the tasks that own the halves of the channel
  None     \* no task, no waker

ASSUME OneshotAssumption == None \notin Tasks

VARIABLES
  complete,   \* Shared.complete
  message,    \* whether Shared.message holds the message
  sender,     \* Shared.sender: waker of the task in poll_closed
  receiver,   \* Shared.receiver: waker of the task that awaits the message
  tx,         \* whether the Sender is alive
  rx,         \* whether the Receiver is alive
  sent,       \* history: what send returned, "no" before it is called
  received,   \* history: how often the message was handed out
  sawClosed,  \* history: the receiver was told Closed
  rxClosed,   \* history: the receiver was closed or dropped
  txWaits,    \* history: the task suspended on the Sender
  rxWaits,    \* history: the task suspended on the Receiver
  txHeard,    \* history: the tasks woken for the Sender since its last poll
  rxHeard     \* history: the tasks woken for the Receiver since its last poll

vars == <<complete, message, sender, receiver, tx, rx, sent, received,
          sawClosed, rxClosed, txWaits, rxWaits, txHeard, rxHeard>>
rxHistory == <<received, sawClosed, rxClosed, rxWaits>>

TypeOK ==
  /\ complete \in BOOLEAN /\ message \in BOOLEAN
  /\ sender \in Tasks \union {None} /\ receiver \in Tasks \union {None}
  /\ tx \in BOOLEAN /\ rx \in BOOLEAN
  /\ sent \in {"no", "ok", "err"}
  /\ received \in Nat
  /\ sawClosed \in BOOLEAN /\ rxClosed \in BOOLEAN
  /\ txWaits \in Tasks \union {None} /\ rxWaits \in Tasks \union {None}
  /\ txHeard \subseteq Tasks /\ rxHeard \subseteq Tasks

\* channel()
Init ==
  /\ complete = FALSE /\ message = FALSE
  /\ sender = None /\ receiver = None
  /\ tx = TRUE /\ rx = TRUE
  /\ sent = "no" /\ received = 0
  /\ sawClosed = FALSE /\ rxClosed = FALSE
  /\ txWaits = None /\ rxWaits = None
  /\ txHeard = {} /\ rxHeard = {}

-----------------------------------------------------------------------------
(* The sender                                                              *)

\* Mutant of DropSender: the waker of the receiver is not taken out.
DropSenderNoWake ==
  /\ tx' = FALSE
  /\ complete' = TRUE
  /\ sender' = None
  /\ txWaits' = None /\ txHeard' = {}
  /\ UNCHANGED <<receiver, rxHeard>>

\* Mutant of DropSender: whether a receiver waits is not looked at.
DropSenderUnwrap ==
  /\ tx' = FALSE
  /\ complete' = TRUE
  /\ rxHeard' = rxHeard \union {receiver}
  /\ receiver' = None
  /\ sender' = None
  /\ txWaits' = None /\ txHeard' = {}

\* Drop for Sender
DropSender ==
  /\ tx' = FALSE
  /\ complete' = TRUE
  /\ rxHeard' = rxHeard \union ({receiver} \ {None})
  /\ receiver' = None
  /\ sender' = None
  /\ txWaits' = None /\ txHeard' = {}

\* Mutant of Send: `complete' is not looked at.
SendBlindly ==
  /\ tx
  /\ message' = TRUE
  /\ sent' = "ok"
  /\ DropSender
  /\ UNCHANGED <<rx, rxHistory>>

\* Sender::send consumes the Sender, which is dropped when it returns.
Send ==
  /\ tx
  /\ message' = (message \/ ~complete)
  /\ sent' = IF complete THEN "err" ELSE "ok"
  /\ DropSender
  /\ UNCHANGED <<rx, rxHistory>>

\* The Sender is dropped without a message.
SenderGone ==
  /\ tx
  /\ DropSender
  /\ UNCHANGED <<message, sent, rx, rxHistory>>

\* Sender::poll_closed
PollClosed(t) ==
  /\ tx
  /\ sender' = IF complete THEN sender ELSE t
  /\ txWaits' = IF complete THEN None ELSE t
  /\ txHeard' = {}
  /\ UNCHANGED <<complete, message, receiver, tx, rx, sent, rxHistory, rxHeard>>

-----------------------------------------------------------------------------
(* The receiver                                                            *)

\* Mutant of Hangup: the waker of the sender stays where it is.
HangupNoWake ==
  /\ complete' = TRUE
  /\ rxClosed' = TRUE
  /\ rxWaits' = None /\ rxHeard' = {}
  /\ UNCHANGED <<sender, txHeard>>

\* What close and the drop of a Receiver have in common.
Hangup ==
  /\ complete' = TRUE
  /\ rxClosed' = TRUE
  /\ txHeard' = txHeard \union ({sender} \ {None})
  /\ sender' = None
  /\ rxWaits' = None /\ rxHeard' = {}

\* Receiver::close
Close ==
  /\ rx
  /\ Hangup
  /\ UNCHANGED <<message, receiver, tx, rx, sent, received, sawClosed, txWaits>>

\* Drop for Receiver; an unread message goes with the Shared.
DropReceiver ==
  /\ rx
  /\ rx' = FALSE
  /\ receiver' = None
  /\ Hangup
  /\ UNCHANGED <<message, tx, sent, received, sawClosed, txWaits>>

\* Mutant of TakeMessage: the message is copied, not taken.
TakeMessageCopy ==
  /\ received' = IF message THEN received + 1 ELSE received
  /\ sawClosed' = (sawClosed \/ ~message)
  /\ UNCHANGED message

\* The message, or Closed.
TakeMessage ==
  /\ received' = IF message THEN received + 1 ELSE received
  /\ sawClosed' = (sawClosed \/ ~message)
  /\ message' = FALSE

\* poll or try_recv of a channel that is complete.
Receive ==
  /\ rx
  /\ complete
  /\ TakeMessage
  /\ rxWaits' = None /\ rxHeard' = {}
  /\ UNCHANGED <<complete, sender, receiver, tx, rx, sent, rxClosed, txWaits,
                 txHeard>>

\* poll of a channel that is not.
ReceivePending(t) ==
  /\ rx
  /\ ~complete
  /\ receiver' = t
  /\ rxWaits' = t /\ rxHeard' = {}
  /\ UNCHANGED <<complete, message, sender, tx, rx, sent, received, sawClosed,
                 rxClosed, txWaits, txHeard>>

Next ==
  \/ Send \/ SenderGone \/ Close \/ DropReceiver \/ Receive
  \/ \E t \in Tasks : PollClosed(t) \/ ReceivePending(t)

Spec == Init /\ [][Next]_vars

-----------------------------------------------------------------------------
(* Properties                                                              *)

\* A message that send accepted is in the channel, or was received exactly
\* once, or its receiver is gone; one that was refused, or never sent, is
\* never received.
MessageKept ==
  /\ received + (IF message THEN 1 ELSE 0) = IF sent = "ok" THEN 1 ELSE 0
  /\ sent = "err" => rxClosed

\* A receiver that is told Closed with nothing received misses nothing: no
\* send before or after succeeds.
ClosedIsFinal == sawClosed /\ received = 0 => sent # "ok"

\* The task that awaits the message is registered until the sender is gone,
\* and woken then.
ReceiverWoken ==
  rxWaits # None =>
    IF complete THEN rxWaits \in rxHeard ELSE receiver = rxWaits

\* The task that waits for the receiver to close is registered until it does,
\* and woken then.
SenderWoken ==
  txWaits # None =>
    IF complete THEN txWaits \in txHeard ELSE sender = txWaits

\* No waker stays in a channel for an event that has happened: it would keep
\* its task alive, and the task the channel.
NoWakerRetained ==
  /\ ~tx => sender = None /\ receiver = None
  /\ ~rx => sender = None /\ receiver = None

-----------------------------------------------------------------------------
(* The inductive invariant                                                 *)

\* `complete' serves both halves: while the Sender is there it means that the
\* receiver hung up (is_closed), and while the receiver has not, it means
\* that the Sender is gone.
CompleteMeansPeerGone == complete <=> rxClosed \/ ~tx

HalvesInv ==
  /\ tx => sent = "no"
  /\ ~rx => rxClosed
  /\ rxWaits # None => rx
  /\ txWaits # None => tx
  /\ sawClosed => complete
  /\ complete => sender = None

IInv ==
  /\ TypeOK
  /\ HalvesInv
  /\ MessageKept
  /\ ClosedIsFinal
  /\ ReceiverWoken
  /\ SenderWoken
  /\ CompleteMeansPeerGone
  /\ NoWakerRetained
=============================================================================
