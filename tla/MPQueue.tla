------------------------------ MODULE MPQueue ------------------------------
(***************************************************************************)
(* Multiprocessing Services of src/hle/mp.c: tasks and message queues.     *)
(*                                                                         *)
(* A task is a pthread that runs its entry point under sigsetjmp.  It      *)
(* stops cooperatively: MPTerminateTask only writes the task's record, and *)
(* the task itself looks at the flag at MP calls and once per wait slice.  *)
(* A queue is a mutex, a condition variable and a list of messages.        *)
(*                                                                         *)
(* A critical section of a queue's mutex is one step; what the code reads  *)
(* before it takes the mutex (the magic number) is a step of its own, and  *)
(* so is each of the two unlocked writes of MPTerminateTask.               *)
(***************************************************************************)
EXTENDS Naturals, Sequences, TLC

CONSTANTS Tasks,      \* the tasks MPCreateTask may start
          MainTask,   \* main_task: any thread without a current_task
          Queues,     \* the records MPCreateQueue may allocate
          NoQueue,    \* a NULL mp_queue*
          Statuses,   \* exit statuses the game passes
          Unset,      \* the zero calloc leaves in exit_status
          Durations,  \* the Durations the game waits for
          MaxPosts    \* bound: messages ever posted on one queue

ASSUME MainIsNoTask == MainTask \notin Tasks
ASSUME NullIsNoQueue == NoQueue \notin Queues
ASSUME UnsetIsNoStatus == Unset \notin Statuses
ASSUME BoundIsNat == MaxPosts \in Nat
ASSUME KnownDurations ==
  Durations \subseteq {"kDurationImmediate", "finite", "kDurationForever"}

Threads == Tasks \cup {MainTask}
TaskSymmetry == Permutations(Tasks)

VARIABLES
  life,       \* a queue: "none" before MPCreateQueue, "live" while its magic
              \* is kMagicQueue, "deleted" once deleted = 1 and magic = 0
  msgs,       \* a queue's messages, head first
  pc,         \* where a thread is
  call,       \* the MP call a thread is inside
  terminate,  \* mp_task.terminate
  exitStatus, \* mp_task.exit_status
  status,     \* task_main's local status, once the entry point is left
  notify,     \* mp_task.notify
  sent,       \* history: every message posted on a queue
  removed     \* history: every message taken from it or freed with it

queueVars == <<life, msgs, sent, removed>>
taskVars == <<terminate, exitStatus, status, notify>>
vars == <<life, msgs, pc, call, terminate, exitStatus, status, notify, sent,
          removed>>

(* A message: who posted it, and whether it is a termination notice.  Its  *)
(* place in sent[q] is its identity.                                       *)
Messages == [from : Threads, n : 1..MaxPosts, notice : BOOLEAN]

(* deadline_after(): where the deadline lies, seen from now.               *)
Deadlines == {"passed", "ahead", "never"}
deadline_after(duration) ==
  CASE duration = "kDurationImmediate" -> "passed"
    [] duration = "finite" -> "ahead"
    [] OTHER -> "never"

Calls == [op : {"none", "wait", "post", "delete", "delay", "terminate"},
          q : Queues \cup {NoQueue}, deadline : Deadlines,
          target : Threads]

NewCall(t, op, q, deadline, target) ==
  [op |-> op, q |-> q, deadline |-> deadline, target |-> target]
NoCall(t) == [op |-> "none", q |-> NoQueue, deadline |-> "never", target |-> t]

Init ==
  /\ life = [q \in Queues |-> "none"]
  /\ msgs = [q \in Queues |-> <<>>]
  /\ pc = [t \in Threads |-> IF t = MainTask THEN "running" ELSE "absent"]
  /\ call = [t \in Threads |-> NoCall(t)]
  /\ terminate = [t \in Threads |-> FALSE]
  /\ exitStatus = [t \in Threads |-> Unset]
  /\ status = [t \in Threads |-> Unset]
  /\ notify = [t \in Threads |-> NoQueue]
  /\ sent = [q \in Queues |-> <<>>]
  /\ removed = [q \in Queues |-> <<>>]

-----------------------------------------------------------------------------
(* Control of one thread.                                                  *)

(* The thread enters an MP call and goes on to the object's mutex.         *)
Enter(t, c) ==
  /\ pc[t] = "running"
  /\ pc' = [pc EXCEPT ![t] = "locking"]
  /\ call' = [call EXCEPT ![t] = c]

(* The thread's MP call returns to the game.  A call that is refused, for   *)
(* the magic number of a deleted queue or for naming main_task, leaves no   *)
(* trace but its error and is no step here.                                 *)
Return(t) ==
  /\ pc' = [pc EXCEPT ![t] = "running"]
  /\ call' = [call EXCEPT ![t] = NoCall(t)]

(* siglongjmp to task_main, whose status is then the task's exit_status.   *)
Leave(t) ==
  /\ pc' = [pc EXCEPT ![t] = "left"]
  /\ call' = [call EXCEPT ![t] = NoCall(t)]
  /\ status' = [status EXCEPT ![t] = exitStatus[t]]
  /\ UNCHANGED <<terminate, exitStatus, notify>>

-----------------------------------------------------------------------------
(* Queues.                                                                 *)

MPCreateQueue(t, q) ==
  /\ pc[t] = "running"
  /\ life[q] = "none"
  /\ life' = [life EXCEPT ![q] = "live"]
  /\ UNCHANGED <<pc, call, msgs, sent, removed, taskVars>>

(* pthread_cond_signal wakes one of the threads asleep on the queue.       *)
Asleep(q) == {s \in Threads : pc[s] = "asleep" /\ call[s].q = q}
Signalled(q) ==
  {IF Asleep(q) = {} THEN pc ELSE [pc EXCEPT ![s] = "locking"] :
      s \in IF Asleep(q) = {} THEN Threads ELSE Asleep(q)}
Broadcast(q) == [s \in Threads |-> IF s \in Asleep(q) THEN "locking" ELSE pc[s]]

(* Faulty variant: the new message goes in front of the list.              *)
queue_post_AtHead(q, t, notice) ==
  LET m == [from |-> t, n |-> Len(sent[q]) + 1, notice |-> notice]
  IN /\ Len(sent[q]) < MaxPosts
     /\ msgs' = [msgs EXCEPT ![q] = <<m>> \o @]
     /\ sent' = [sent EXCEPT ![q] = Append(@, m)]
     /\ UNCHANGED <<life, removed>>

(* queue_post appends and signals, whatever the state of the queue: the    *)
(* caller checks the magic number before it calls, or does not check it.   *)
queue_post(q, t, notice) ==
  LET m == [from |-> t, n |-> Len(sent[q]) + 1, notice |-> notice]
  IN /\ Len(sent[q]) < MaxPosts
     /\ msgs' = [msgs EXCEPT ![q] = Append(@, m)]
     /\ sent' = [sent EXCEPT ![q] = Append(@, m)]
     /\ UNCHANGED <<life, removed>>

MPNotifyQueue(t, q) ==
  /\ life[q] = "live"
  /\ Enter(t, NewCall(t, "post", q, "never", t))
  /\ UNCHANGED <<queueVars, taskVars>>

NotifyPosts(t) ==
  /\ pc[t] = "locking" /\ call[t].op = "post"
  /\ queue_post(call[t].q, t, FALSE)
  /\ \E woken \in Signalled(call[t].q) : pc' = [woken EXCEPT ![t] = "running"]
  /\ call' = [call EXCEPT ![t] = NoCall(t)]
  /\ UNCHANGED taskVars

MPDeleteQueue(t, q) ==
  /\ life[q] = "live"
  /\ Enter(t, NewCall(t, "delete", q, "never", t))
  /\ UNCHANGED <<queueVars, taskVars>>

(* Two deletions that both saw the magic number both come here.            *)
DeleteQueue(t) ==
  LET q == call[t].q
  IN /\ pc[t] = "locking" /\ call[t].op = "delete"
     /\ life' = [life EXCEPT ![q] = "deleted"]
     /\ msgs' = [msgs EXCEPT ![q] = <<>>]
     /\ removed' = [removed EXCEPT ![q] = @ \o msgs[q]]
     /\ pc' = [Broadcast(q) EXCEPT ![t] = "running"]
     /\ call' = [call EXCEPT ![t] = NoCall(t)]
     /\ UNCHANGED <<sent, taskVars>>

(* The wait: a loop whose body runs with the mutex held.                   *)
MPWaitOnQueue(t, q, duration) ==
  /\ life[q] = "live"
  /\ Enter(t, NewCall(t, "wait", q, deadline_after(duration), t))
  /\ UNCHANGED <<queueVars, taskVars>>

InWaitLoop(t) == pc[t] = "locking" /\ call[t].op = "wait"
Empty(t) == msgs[call[t].q] = <<>>

WaitTakes(t) ==
  LET q == call[t].q
  IN /\ InWaitLoop(t)
     /\ ~Empty(t)
     /\ msgs' = [msgs EXCEPT ![q] = Tail(@)]
     /\ removed' = [removed EXCEPT ![q] = Append(@, Head(msgs[q]))]
     /\ Return(t)
     /\ UNCHANGED <<life, sent, taskVars>>

WaitFindsDeleted(t) ==
  /\ InWaitLoop(t)
  /\ Empty(t)
  /\ life[call[t].q] = "deleted"
  /\ Return(t)
  /\ UNCHANGED <<queueVars, taskVars>>

WaitLeaves(t) ==
  /\ InWaitLoop(t)
  /\ Empty(t)
  /\ life[call[t].q] # "deleted"
  /\ terminate[t]
  /\ Leave(t)
  /\ UNCHANGED queueVars

(* Faulty variant: the deadline is looked at before the list is.           *)
WaitTimesOut_Hasty(t) ==
  /\ InWaitLoop(t)
  /\ call[t].deadline = "passed"
  /\ Return(t)
  /\ UNCHANGED <<queueVars, taskVars>>

(* wait_slice with the deadline behind it.                                 *)
WaitTimesOut(t) ==
  /\ InWaitLoop(t)
  /\ Empty(t)
  /\ life[call[t].q] # "deleted"
  /\ ~terminate[t]
  /\ call[t].deadline = "passed"
  /\ Return(t)
  /\ UNCHANGED <<queueVars, taskVars>>

(* wait_slice with time left: pthread_cond_timedwait lets go of the mutex. *)
WaitSleeps(t) ==
  /\ InWaitLoop(t)
  /\ Empty(t)
  /\ life[call[t].q] # "deleted"
  /\ ~terminate[t]
  /\ call[t].deadline # "passed"
  /\ pc' = [pc EXCEPT ![t] = "asleep"]
  /\ UNCHANGED <<call, queueVars, taskVars>>

(* Faulty variant: an endless wait sleeps until it is signalled.           *)
SliceEnds_OnlyTimed(t) ==
  /\ pc[t] = "asleep"
  /\ call[t].deadline # "never"
  /\ pc' = [pc EXCEPT ![t] = "locking"]
  /\ UNCHANGED <<call, queueVars, taskVars>>

(* The slice of kWaitSliceNs, or what is left of the wait, runs out.       *)
SliceEnds(t) ==
  /\ pc[t] = "asleep"
  /\ pc' = [pc EXCEPT ![t] = "locking"]
  /\ UNCHANGED <<call, queueVars, taskVars>>

DeadlinePasses(t) ==
  /\ pc[t] \in {"locking", "asleep", "delaying"}
  /\ call[t].deadline = "ahead"
  /\ call' = [call EXCEPT ![t].deadline = "passed"]
  /\ UNCHANGED <<pc, queueVars, taskVars>>

-----------------------------------------------------------------------------
(* Tasks.                                                                  *)

(* The thread starts at once, before MPCreateTask has stored its ID; the   *)
(* task can hand out its own ID (MPCurrentTaskID), so it may be named from *)
(* here on.  A pthread_create that fails leaves nothing behind.            *)
MPCreateTask(t, new, queue) ==
  /\ pc[t] = "running"
  /\ pc[new] = "absent"
  /\ pc' = [pc EXCEPT ![new] = "running"]
  /\ notify' = [notify EXCEPT ![new] = queue]
  /\ UNCHANGED <<call, terminate, exitStatus, status, queueVars>>

(* Faulty variant: main_task may be named too.                             *)
MPTerminateTask_Any(t, target, s) ==
  /\ pc[target] # "absent"
  /\ Enter(t, NewCall(t, "terminate", NoQueue, "never", target))
  /\ exitStatus' = [exitStatus EXCEPT ![target] = s]
  /\ UNCHANGED <<terminate, status, notify, queueVars>>

(* MPTerminateTask writes exit_status and then the flag.  main_task cannot *)
(* be told to stop: it never called sigsetjmp.                             *)
MPTerminateTask(t, target, s) ==
  /\ target # MainTask
  /\ pc[target] # "absent"
  /\ Enter(t, NewCall(t, "terminate", NoQueue, "never", target))
  /\ exitStatus' = [exitStatus EXCEPT ![target] = s]
  /\ UNCHANGED <<terminate, status, notify, queueVars>>

TerminateSetsFlag(t) ==
  LET target == call[t].target
  IN /\ pc[t] = "locking" /\ call[t].op = "terminate"
     /\ terminate' = [terminate EXCEPT ![target] = TRUE]
     /\ IF target = t
        THEN /\ pc' = [pc EXCEPT ![t] = "exiting"]
             /\ call' = [call EXCEPT ![t] = NoCall(t)]
        ELSE Return(t)
     /\ UNCHANGED <<exitStatus, status, notify, queueVars>>

(* Faulty variant: MPExit posts the notice itself, and task_main again.    *)
MPExit_Reports(t, s) ==
  /\ pc[t] = "running"
  /\ notify[t] # NoQueue
  /\ queue_post(notify[t], t, TRUE)
  /\ exitStatus' = [exitStatus EXCEPT ![t] = s]
  /\ pc' = [pc EXCEPT ![t] = "exiting"]
  /\ UNCHANGED <<call, terminate, status, notify>>

MPExit(t, s) ==
  /\ pc[t] = "running"
  /\ exitStatus' = [exitStatus EXCEPT ![t] = s]
  /\ pc' = [pc EXCEPT ![t] = "exiting"]
  /\ UNCHANGED <<call, terminate, status, notify, queueVars>>

(* The siglongjmp of MPExit, or of a task that terminated itself.          *)
ExitJumps(t) ==
  /\ pc[t] = "exiting"
  /\ Leave(t)
  /\ UNCHANGED queueVars

(* MPYield, or any other bare checkpoint, of a task told to stop.          *)
checkpoint(t) ==
  /\ pc[t] = "running"
  /\ terminate[t]
  /\ Leave(t)
  /\ UNCHANGED queueVars

MPDelayUntil(t) ==
  /\ pc[t] = "running"
  /\ pc' = [pc EXCEPT ![t] = "delaying"]
  /\ call' = [call EXCEPT ![t] = NewCall(t, "delay", NoQueue, "ahead", t)]
  /\ UNCHANGED <<queueVars, taskVars>>

DelayLeaves(t) ==
  /\ pc[t] = "delaying"
  /\ terminate[t]
  /\ Leave(t)
  /\ UNCHANGED queueVars

DelayEnds(t) ==
  /\ pc[t] = "delaying"
  /\ ~terminate[t]
  /\ call[t].deadline = "passed"
  /\ Return(t)
  /\ UNCHANGED <<queueVars, taskVars>>

(* The entry point returns: its value is the status, told to stop or not.  *)
EntryReturns(t, s) ==
  /\ pc[t] = "running"
  /\ pc' = [pc EXCEPT ![t] = "left"]
  /\ status' = [status EXCEPT ![t] = s]
  /\ UNCHANGED <<call, terminate, exitStatus, notify, queueVars>>

(* task_main's end: the notice goes to the notify queue, deleted or not.   *)
ReportsEnd(t) ==
  /\ pc[t] = "left"
  /\ notify[t] # NoQueue
  /\ queue_post(notify[t], t, TRUE)
  /\ \E woken \in Signalled(notify[t]) : pc' = [woken EXCEPT ![t] = "ended"]
  /\ UNCHANGED <<call, taskVars>>

EndsUnreported(t) ==
  /\ pc[t] = "left"
  /\ notify[t] = NoQueue
  /\ pc' = [pc EXCEPT ![t] = "ended"]
  /\ UNCHANGED <<call, queueVars, taskVars>>

-----------------------------------------------------------------------------
WaitStep(t) ==
  \/ WaitTakes(t) \/ WaitFindsDeleted(t) \/ WaitLeaves(t)
  \/ WaitTimesOut(t) \/ WaitSleeps(t)

QueueCall(t, q) ==
  \/ MPCreateQueue(t, q) \/ MPNotifyQueue(t, q)
  \/ MPDeleteQueue(t, q)
  \/ \E duration \in Durations : MPWaitOnQueue(t, q, duration)

(* What a thread does of its own accord once it is inside a call.          *)
Proceeds(t) ==
  \/ NotifyPosts(t) \/ DeleteQueue(t) \/ WaitStep(t) \/ SliceEnds(t)
  \/ TerminateSetsFlag(t) \/ DelayEnds(t)

TaskCall(t) ==
  \/ \E new \in Tasks,
        queue \in {q \in Queues : life[q] # "none"} \cup {NoQueue} :
          MPCreateTask(t, new, queue)
  \/ \E target \in Threads, s \in Statuses : MPTerminateTask(t, target, s)
  \/ MPDelayUntil(t)

(* What only a task does: current_task is NULL in any other thread.        *)
TaskEnds(t) ==
  \/ \E s \in Statuses : MPExit(t, s) \/ EntryReturns(t, s)
  \/ checkpoint(t)

LeavesTask(t) ==
  ExitJumps(t) \/ DelayLeaves(t) \/ ReportsEnd(t) \/ EndsUnreported(t)

Next ==
  \/ \E t \in Threads :
        \/ \E q \in Queues : QueueCall(t, q)
        \/ Proceeds(t) \/ DeadlinePasses(t) \/ TaskCall(t)
  \/ \E t \in Tasks : TaskEnds(t) \/ LeavesTask(t)

(* A thread inside a call keeps running, mutexes are granted in the end,   *)
(* slices run out and time passes.  Nothing makes the game call.           *)
Fairness ==
  /\ \A t \in Threads : WF_vars(Proceeds(t)) /\ WF_vars(DeadlinePasses(t))
  /\ \A t \in Tasks : WF_vars(LeavesTask(t))

Spec == Init /\ [][Next]_vars
FairSpec == Spec /\ Fairness
-----------------------------------------------------------------------------
(* Properties.                                                             *)

Places == {"absent", "running", "locking", "asleep", "delaying", "exiting",
           "left", "ended"}

Types ==
  /\ life \in [Queues -> {"none", "live", "deleted"}]
  /\ msgs \in [Queues -> Seq(Messages)]
  /\ pc \in [Threads -> Places]
  /\ call \in [Threads -> Calls]
  /\ terminate \in [Threads -> BOOLEAN]
  /\ exitStatus \in [Threads -> Statuses \cup {Unset}]
  /\ status \in [Threads -> Statuses \cup {Unset}]
  /\ notify \in [Threads -> Queues \cup {NoQueue}]
  /\ sent \in [Queues -> Seq(Messages)]
  /\ removed \in [Queues -> Seq(Messages)]

CallFits(t) ==
  /\ pc[t] \in {"locking", "asleep", "delaying"} <=> call[t].op # "none"
  /\ pc[t] = "asleep" => call[t].op = "wait"
  /\ pc[t] = "delaying" <=> call[t].op = "delay"
  /\ call[t].op \in {"wait", "post", "delete"} => call[t].q # NoQueue
  /\ call[t].op = "terminate" => call[t].target # MainTask

MainNeverLeaves ==
  /\ ~terminate[MainTask]
  /\ pc[MainTask] \notin {"absent", "exiting", "left", "ended"}

(* Every variable has its type, a thread is inside a call exactly when its *)
(* place says so, and main_task, which never called sigsetjmp, is never    *)
(* told to stop.                                                           *)
TypeOK == Types /\ (\A t \in Threads : CallFits(t)) /\ MainNeverLeaves

Waiting(t) == pc[t] \in {"locking", "asleep"} /\ call[t].op = "wait"

(* First in, first out, nothing lost and nothing twice: the messages that  *)
(* left a queue, to a waiter or freed by MPDeleteQueue, followed by those   *)
(* still in it, are the messages posted, whoever posts, waits, times out,  *)
(* is terminated or deletes the queue meanwhile.                           *)
NothingLost == \A q \in Queues : sent[q] = removed[q] \o msgs[q]

(* A task told to stop before it left reports the status it was given,     *)
(* never the zero of calloc, though MPTerminateTask holds no lock.         *)
StatusWasGiven ==
  \A t \in Tasks : pc[t] \in {"left", "ended"} => status[t] # Unset

(* However a task ends (return, MPExit, a checkpoint, a wait cut short),   *)
(* its notify queue receives one termination notice, once it has ended.    *)
IsNotice(t, q, i) == sent[q][i].from = t /\ sent[q][i].notice
OneNotice ==
  \A t \in Tasks :
     /\ \A p, q \in Queues : \A i \in DOMAIN sent[p], j \in DOMAIN sent[q] :
          IsNotice(t, p, i) /\ IsNotice(t, q, j)
             => p = notify[t] /\ q = notify[t] /\ i = j
     /\ (\E q \in Queues : \E i \in DOMAIN sent[q] : IsNotice(t, q, i))
          <=> pc[t] = "ended" /\ notify[t] # NoQueue

(* Both, of every task that ends.                                          *)
EndsAreTold == StatusWasGiven /\ OneNotice

(* A wait on a live queue that comes back without a message found the      *)
(* queue empty at that moment and its deadline behind it: a message never  *)
(* stays behind because a deadline passed while the waiter slept.          *)
EmptyHandedStep ==
  \A t \in Threads :
    LET q == call[t].q
    IN Waiting(t) /\ pc'[t] = "running" /\ removed' = removed
         /\ life[q] = "live"
       => msgs[q] = <<>> /\ call[t].deadline = "passed"
EmptyHandedOnlyWhenEmpty == [][EmptyHandedStep]_vars

(* The sliced wait, the signals and the unlocked checks implement a plain  *)
(* blocking queue: a thread is blocked from its check of the magic number  *)
(* until it returns or leaves.                                             *)
BlockedOn == [t \in Threads |-> IF Waiting(t) THEN call[t].q ELSE NoQueue]
MayGiveUp ==
  {t \in Threads : Waiting(t) /\ (call[t].deadline = "passed" \/ terminate[t])}

Abstract == INSTANCE MPQueueAbstract WITH
  Thread <- Threads, Queue <- Queues, Message <- Messages, None <- NoQueue,
  state <- life, content <- msgs, waits <- BlockedOn, mayLeave <- MayGiveUp

(* Every step is a step of the blocking queue, or none of its business,    *)
(* and with the fairness of FairSpec it unblocks whoever it should: a task *)
(* told to stop too, though MPTerminateTask signals nothing.               *)
ImplementsFairQueue == Abstract!AFairSpec
=============================================================================
