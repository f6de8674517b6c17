---------------------------- MODULE NotifyManager ----------------------------
(***************************************************************************)
(* createNotifyManager: batch, schedule and flush, in one thread.  A       *)
(* callback scheduled in a batch waits in the queue until the outermost    *)
(* batch ends, in whatever way; the queue, or a callback scheduled alone,  *)
(* then waits in a timer.  A callback may schedule and batch itself.       *)
(***************************************************************************)
EXTENDS Integers, SequencesExt

CONSTANTS
    Callbacks,  \* each scheduled at most once
    Depth       \* how deep batches nest (a bound)

ASSUME NotifyAssumption == Depth \in Nat

VARIABLES
    transactions, queue,
    timers,     \* what scheduleMicrotask has left to do, in order
    running,    \* what is left of the batch that is being called
    called,     \* history: the callbacks called
    lost        \* history: callbacks of a batch that an exception cut off

notifyVars == <<transactions, queue, timers, running, called, lost>>

NotifyInit ==
    /\ transactions = 0
    /\ queue = <<>> /\ timers = <<>> /\ running = <<>>
    /\ called = {} /\ lost = {}

\* What was scheduled and not called, in the order it will be.
Waiting == running \o FlattenSeq(timers) \o queue

\* The queue as one timer, if there is anything in it.
Flush == queue' = <<>> /\ timers' = IF queue = <<>> THEN timers ELSE Append(timers, queue)

BatchBegin ==
    /\ transactions < Depth
    /\ transactions' = transactions + 1
    /\ UNCHANGED <<queue, timers, running, called, lost>>

\* The batch's callback returned, or threw what the code around it caught.
BatchEnd ==
    /\ transactions > 0
    /\ transactions' = transactions - 1
    /\ IF transactions = 1 THEN Flush ELSE UNCHANGED <<queue, timers>>
    /\ UNCHANGED <<running, called, lost>>

\* An exception nobody caught: every open batch ends in its finally, and so does the
\* forEach over the batch that is being called.
Forgotten == UNCHANGED <<queue, timers>>
InFinally == Flush
Throw ==
    /\ transactions > 0 \/ running # <<>>
    /\ transactions' = 0
    /\ InFinally
    /\ running' = <<>>
    /\ lost' = lost \union Range(running)
    /\ UNCHANGED called

InInnerBatch == transactions > 1
InBatch == transactions > 0

Schedule(c) ==
    /\ c \notin Range(Waiting) \union called \union lost
    /\ IF InBatch THEN queue' = Append(queue, c) /\ UNCHANGED timers
       ELSE timers' = Append(timers, <<c>>) /\ UNCHANGED queue
    /\ UNCHANGED <<transactions, running, called, lost>>

\* A timer fires when the thread is idle, and calls its first callback.
Fire ==
    /\ transactions = 0 /\ running = <<>> /\ timers # <<>>
    /\ called' = called \union {Head(Head(timers))}
    /\ running' = Tail(Head(timers))
    /\ timers' = Tail(timers)
    /\ UNCHANGED <<transactions, queue, lost>>

\* The callback returned; the forEach calls the next.
CallNext ==
    /\ transactions = 0 /\ running # <<>>
    /\ called' = called \union {Head(running)}
    /\ running' = Tail(running)
    /\ UNCHANGED <<transactions, queue, timers, lost>>

NotifyNext ==
    \/ BatchBegin \/ BatchEnd \/ Throw \/ Fire \/ CallNext
    \/ \E c \in Callbacks : Schedule(c)

\* Synchronous code ends, however many inner batches it opens, and the event loop comes
\* back to the timers after each task.
NotifyFairness ==
    /\ WF_notifyVars(BatchEnd) /\ SF_notifyVars(transactions = 1 /\ BatchEnd)
    /\ SF_notifyVars(Fire) /\ SF_notifyVars(CallNext)

NotifySpec == NotifyInit /\ [][NotifyNext]_notifyVars

-----------------------------------------------------------------------------
(* Properties *)

(* Types; and outside a batch nothing waits in the queue. *)
NotifyTypeOK ==
    /\ transactions \in 0..Depth
    /\ queue \in Seq(Callbacks) /\ timers \in Seq(Seq(Callbacks)) /\ running \in Seq(Callbacks)
    /\ called \subseteq Callbacks /\ lost \subseteq Callbacks
    /\ transactions = 0 => queue = <<>>

Promised ==
    INSTANCE Notifications WITH promised <- Waiting

(* Every callback scheduled is called once, in the order of scheduling, or  *)
(* given up behind one that threw, however batches nest, whatever throws:   *)
(* nothing stays in the queue, nothing overtakes.                           *)
ImplementsNotifications == Promised!Spec

=============================================================================
