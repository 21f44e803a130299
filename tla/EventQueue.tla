------------------------------ MODULE EventQueue ------------------------------
(***************************************************************************)
(* Events and the event queue of src/hle/events.c.                         *)
(*                                                                         *)
(* An event counts the references to it.  The queue is a ring under        *)
(* queue_lock that keeps a reference of its own to what is posted on it,   *)
(* drops what does not fit, and gives its reference to the caller that     *)
(* pulls an event, from anywhere in the ring.                              *)
(***************************************************************************)
EXTENDS Naturals, Sequences, FiniteSets

CONSTANTS Threads,
          Events,     \* addresses calloc gives hle_event
          NoEvent,    \* a NULL EventRef
          Kinds,      \* event classes and kinds
          QUEUE_SIZE,
          MaxRefs     \* bound: references a thread keeps to one event

(* There is room for an event, and NULL is the address of none.            *)
QueueConstants ==
  /\ QUEUE_SIZE \in Nat \ {0} /\ MaxRefs \in Nat \ {0}
  /\ IsFiniteSet(Threads) /\ Kinds # {} /\ NoEvent \notin Events

VARIABLES
  rc,          \* hle_event.rc; 0 for an event that is not allocated
  kind,        \* hle_event.event_class and kind
  queue,       \* the ring
  queue_head, queue_count,
  refs,        \* history: the references a thread has to let go
  releases     \* what hle_post_event_owned is about to release

vars == <<rc, kind, queue, queue_head, queue_count, refs, releases>>
ring == <<queue, queue_head, queue_count>>

Slots == 0..QUEUE_SIZE - 1

Init ==
  /\ rc = [e \in Events |-> 0]
  /\ kind = [e \in Events |-> CHOOSE k \in Kinds : TRUE]
  /\ queue = [i \in Slots |-> NoEvent]
  /\ queue_head = 0
  /\ queue_count = 0
  /\ refs = [t \in Threads |-> [e \in Events |-> 0]]
  /\ releases = [t \in Threads |-> NoEvent]

Idle(t) == releases[t] = NoEvent

CreateEvent(t, e, k) ==
  /\ Idle(t)
  /\ rc[e] = 0
  /\ rc' = [rc EXCEPT ![e] = 1]
  /\ kind' = [kind EXCEPT ![e] = k]
  /\ refs' = [refs EXCEPT ![t][e] = 1]
  /\ UNCHANGED <<ring, releases>>

RetainEvent(t, e) ==
  /\ Idle(t)
  /\ refs[t][e] \in 1..MaxRefs - 1
  /\ rc' = [rc EXCEPT ![e] = @ + 1]
  /\ refs' = [refs EXCEPT ![t][e] = @ + 1]
  /\ UNCHANGED <<kind, ring, releases>>

(* The event is freed with its last reference.                             *)
ReleaseEvent(t, e) ==
  /\ Idle(t)
  /\ refs[t][e] > 0
  /\ rc' = [rc EXCEPT ![e] = @ - 1]
  /\ refs' = [refs EXCEPT ![t][e] = @ - 1]
  /\ UNCHANGED <<kind, ring, releases>>

-----------------------------------------------------------------------------
(* A full queue drops the event.                                           *)
hle_post_event(e) ==
  IF queue_count < QUEUE_SIZE
  THEN /\ queue' = [queue EXCEPT ![(queue_head + queue_count) % QUEUE_SIZE] = e]
       /\ rc' = [rc EXCEPT ![e] = @ + 1]
       /\ queue_count' = queue_count + 1
       /\ UNCHANGED queue_head
  ELSE UNCHANGED <<rc, ring>>

Posts(t, e) ==
  /\ Idle(t)
  /\ refs[t][e] > 0
  /\ hle_post_event(e)
  /\ UNCHANGED <<kind, refs, releases>>

(* Posts, and then releases the caller's reference: another thread may     *)
(* have pulled the event, and released it, in between.                     *)
hle_post_event_owned(t, e) ==
  /\ Idle(t)
  /\ refs[t][e] > 0
  /\ hle_post_event(e)
  /\ releases' = [releases EXCEPT ![t] = e]
  /\ UNCHANGED <<kind, refs>>

ReleasesOwned(t) ==
  LET e == releases[t]
  IN /\ e # NoEvent
     /\ rc' = [rc EXCEPT ![e] = @ - 1]
     /\ refs' = [refs EXCEPT ![t][e] = @ - 1]
     /\ releases' = [releases EXCEPT ![t] = NoEvent]
     /\ UNCHANGED <<kind, ring>>

-----------------------------------------------------------------------------
At(i) == (queue_head + i) % QUEUE_SIZE

(* The place of the first event of those kinds; none for no kind: all.     *)
matches(i, kinds) == kinds = {} \/ kind[queue[At(i)]] \in kinds
FirstMatch(kinds) ==
  {i \in 0..queue_count - 1 :
     matches(i, kinds) /\ \A j \in 0..i - 1 : ~matches(j, kinds)}

(* Faulty variant: the head moves on, whichever event was taken.           *)
Pulled_Unshifted(i) ==
  /\ queue_head' = (queue_head + 1) % QUEUE_SIZE
  /\ queue_count' = queue_count - 1
  /\ UNCHANGED queue

(* The events before the one that is pulled move up one slot.              *)
Pulled(i) ==
  /\ queue' = [s \in Slots |->
       IF \E k \in 1..i : s = At(k)
       THEN queue[At((CHOOSE k \in 1..i : s = At(k)) - 1)] ELSE queue[s]]
  /\ queue_head' = (queue_head + 1) % QUEUE_SIZE
  /\ queue_count' = queue_count - 1

(* find_queued, pulling: the queue's reference becomes the caller's.       *)
find_queued(t, kinds) ==
  /\ Idle(t)
  /\ \E i \in FirstMatch(kinds) :
       /\ refs[t][queue[At(i)]] < MaxRefs
       /\ refs' = [refs EXCEPT ![t][queue[At(i)]] = @ + 1]
       /\ Pulled(i)
  /\ UNCHANGED <<rc, kind, releases>>

InQueue(e) == Cardinality({i \in 0..queue_count - 1 : queue[At(i)] = e})

(* Faulty variant: what is flushed is not released.                        *)
FlushEvents_Leaking(t) ==
  /\ Idle(t)
  /\ queue_head' = (queue_head + queue_count) % QUEUE_SIZE
  /\ queue_count' = 0
  /\ UNCHANGED <<rc, queue, kind, refs, releases>>

FlushEvents(t) ==
  /\ Idle(t)
  /\ rc' = [e \in Events |-> rc[e] - InQueue(e)]
  /\ queue_head' = (queue_head + queue_count) % QUEUE_SIZE
  /\ queue_count' = 0
  /\ UNCHANGED <<queue, kind, refs, releases>>

-----------------------------------------------------------------------------
Next == \E t \in Threads :
  \/ \E e \in Events :
       \/ \E k \in Kinds : CreateEvent(t, e, k)
       \/ RetainEvent(t, e) \/ ReleaseEvent(t, e)
       \/ Posts(t, e) \/ hle_post_event_owned(t, e)
  \/ ReleasesOwned(t)
  \/ \E kinds \in SUBSET Kinds : find_queued(t, kinds)
  \/ FlushEvents(t)

Spec == Init /\ [][Next]_vars

-----------------------------------------------------------------------------
(* Every variable has its type, and the ring never holds more than fits.   *)
TypeOK ==
  /\ rc \in [Events -> Nat]
  /\ kind \in [Events -> Kinds]
  /\ queue \in [Slots -> Events \cup {NoEvent}]
  /\ queue_head \in Slots
  /\ queue_count \in 0..QUEUE_SIZE
  /\ refs \in [Threads -> [Events -> 0..MaxRefs]]
  /\ releases \in [Threads -> Events \cup {NoEvent}]

(* An event's count is the number of references to it: the queue's, one    *)
(* for every time it is queued, and the threads', the first, the second... *)
(* of each.  So no event in the queue or in a thread's hands is freed, and *)
(* none is kept for ever.                                                  *)
Held(e) == {x \in Threads \X (1..MaxRefs) : x[2] <= refs[x[1]][e]}
CountsAreExact == \A e \in Events : rc[e] = InQueue(e) + Cardinality(Held(e))

(* The ring is a queue of which any one may be pulled: a step adds one     *)
(* event behind, empties it, or takes one out, gives that one to a thread  *)
(* and leaves the order of the others.  Events of one kind come out in the *)
(* order they were posted.                                                 *)
Queued == [i \in 1..queue_count |-> queue[At(i - 1)]]
Without(s, i) == SubSeq(s, 1, i - 1) \o SubSeq(s, i + 1, Len(s))
Takes(q, r) ==
  \E i \in DOMAIN q, t \in Threads :
     /\ r = Without(q, i)
     /\ refs'[t][q[i]] = refs[t][q[i]] + 1
     /\ \A j \in 1..i - 1 : kind[q[j]] # kind[q[i]]
QueueStep ==
  LET q == Queued r == Queued'
  IN \/ r = q
     \/ r = <<>> /\ refs' = refs
     \/ Takes(q, r)
     \/ Len(r) \in 1..QUEUE_SIZE /\ q = SubSeq(r, 1, Len(r) - 1)
QueueKeepsOrder == [][QueueStep]_vars
=============================================================================
