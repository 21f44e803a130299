-------------------------- MODULE MPQueueAbstract --------------------------
(***************************************************************************)
(* What a Multiprocessing Services queue promises the game: a first-in     *)
(* first-out list of messages that threads block on.  No mutex, no         *)
(* condition variable, no slices: a waiter either receives the head, or    *)
(* gives up, and gives up only if the queue is empty and it has a reason   *)
(* to (the queue is gone, its time is up, or it was told to stop).         *)
(***************************************************************************)
EXTENDS Sequences

CONSTANTS Thread, Queue, Message, None

VARIABLES
  state,   \* "none", "live" or "deleted", for each queue
  content, \* the messages in a queue
  waits,   \* the queue a thread is blocked on, or None
  mayLeave \* the blocked threads that may give up a live queue

avars == <<state, content, waits, mayLeave>>

AInit ==
  /\ state = [q \in Queue |-> "none"]
  /\ content = [q \in Queue |-> <<>>]
  /\ waits = [t \in Thread |-> None]
  /\ mayLeave = {}

Create(q) ==
  /\ state[q] = "none"
  /\ state' = [state EXCEPT ![q] = "live"]
  /\ UNCHANGED <<content, waits, mayLeave>>

(* A termination notice may still reach a deleted queue.                   *)
Post(q) ==
  /\ state[q] # "none"
  /\ \E m \in Message : content' = [content EXCEPT ![q] = Append(@, m)]
  /\ UNCHANGED <<state, waits, mayLeave>>

Delete(q) ==
  /\ state[q] # "none"
  /\ state' = [state EXCEPT ![q] = "deleted"]
  /\ content' = [content EXCEPT ![q] = <<>>]
  /\ UNCHANGED <<waits, mayLeave>>

Block(t, q) ==
  /\ waits[t] = None
  /\ state[q] = "live"
  /\ waits' = [waits EXCEPT ![t] = q]
  /\ mayLeave' \in {mayLeave, mayLeave \cup {t}}
  /\ UNCHANGED <<state, content>>

(* Time passes, or the thread is told to stop.                             *)
GetReason(t) ==
  /\ t \notin mayLeave
  /\ mayLeave' = mayLeave \cup {t}
  /\ UNCHANGED <<state, content, waits>>

Receive(t) ==
  /\ waits[t] # None
  /\ content[waits[t]] # <<>>
  /\ content' = [content EXCEPT ![waits[t]] = Tail(@)]
  /\ waits' = [waits EXCEPT ![t] = None]
  /\ mayLeave' = mayLeave \ {t}
  /\ UNCHANGED state

GiveUp(t) ==
  /\ waits[t] # None
  /\ content[waits[t]] = <<>>
  /\ t \in mayLeave \/ state[waits[t]] = "deleted"
  /\ waits' = [waits EXCEPT ![t] = None]
  /\ mayLeave' = mayLeave \ {t}
  /\ UNCHANGED <<state, content>>

ANext ==
  \/ \E q \in Queue : Create(q) \/ Post(q) \/ Delete(q)
  \/ \E t \in Thread :
       Receive(t) \/ GiveUp(t) \/ GetReason(t) \/ \E q \in Queue : Block(t, q)

ASpec == AInit /\ [][ANext]_avars

(* A thread with something to receive or a reason to give up unblocks.     *)
AFairSpec == ASpec /\ \A t \in Thread : WF_avars(Receive(t) \/ GiveUp(t))
=============================================================================
