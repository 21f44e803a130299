--------------------------- MODULE MPQueueProofs ---------------------------
(* Theorems about MPQueue, for any tasks, queues, statuses and bound.      *)
EXTENDS MPQueue, SequenceTheorems, TLAPS

(* The main thread and the tasks are threads.                              *)
LEMMA MainIsThread == MainTask \in Threads /\ Tasks \subseteq Threads
  BY DEF Threads

(* deadline_after makes one of the three deadlines.                        *)
LEMMA DeadlineAfter ==
  ASSUME NEW duration PROVE deadline_after(duration) \in Deadlines
  BY DEF deadline_after, Deadlines

(* The records Enter, Return and Leave store are calls.                    *)
LEMMA CallRecords ==
  ASSUME Types, NEW t \in Threads
  PROVE  /\ NoCall(t) \in Calls
         /\ \A op \in {"wait", "post", "delete", "delay", "terminate"},
               q \in Queues \cup {NoQueue}, d \in Deadlines, u \in Threads :
                  /\ NewCall(t, op, q, d, u) \in Calls
                  /\ NewCall(t, op, q, d, u).op = op
                  /\ NewCall(t, op, q, d, u).q = q
                  /\ NewCall(t, op, q, d, u).deadline = d
                  /\ NewCall(t, op, q, d, u).target = u
  BY DEF Types, NoCall, NewCall, Calls, Deadlines

(* A signal or a broadcast moves sleepers of the queue, and only them.     *)
LEMMA SignalledPlaces ==
  ASSUME Types, NEW q, NEW woken \in Signalled(q)
  PROVE  /\ woken \in [Threads -> Places]
         /\ \A s \in Threads :
               woken[s] = pc[s] \/ (pc[s] = "asleep" /\ woken[s] = "locking")
  BY DEF Signalled, Asleep, Types, Places

(* A broadcast sends sleepers to the lock and moves nobody else.           *)
LEMMA BroadcastPlaces ==
  ASSUME Types, NEW q
  PROVE  /\ Broadcast(q) \in [Threads -> Places]
         /\ \A s \in Threads :
               \/ Broadcast(q)[s] = pc[s]
               \/ pc[s] = "asleep" /\ Broadcast(q)[s] = "locking"
  BY DEF Broadcast, Asleep, Types, Places

(* A post appends one message to the list and to the history.              *)
LEMMA PostTypes ==
  ASSUME Types, NEW q \in Queues, NEW t \in Threads, NEW notice \in BOOLEAN,
         queue_post(q, t, notice)
  PROVE  /\ life' \in [Queues -> {"none", "live", "deleted"}]
         /\ msgs' \in [Queues -> Seq(Messages)]
         /\ sent' \in [Queues -> Seq(Messages)]
         /\ removed' \in [Queues -> Seq(Messages)]
<1> DEFINE m == [from |-> t, n |-> Len(sent[q]) + 1, notice |-> notice]
<1>1. m \in Messages
  BY BoundIsNat DEF Types, queue_post, Messages
<1> QED
  BY <1>1 DEF Types, queue_post

(* TypeOK is inductive.                                                    *)
THEOREM TypeCorrect == Spec => []TypeOK
<1>1. Init => TypeOK
  <2>1. ASSUME Init, NEW t \in Threads PROVE CallFits(t)
    BY <2>1 DEF Init, CallFits, NoCall
  <2>2. ASSUME NEW t \in Threads PROVE NoCall(t) \in Calls
    BY DEF NoCall, Calls, Deadlines
  <2>3. Init => Types
    BY <2>2 DEF Init, Types, Places
  <2>4. Init => MainNeverLeaves
    BY DEF Init, MainNeverLeaves, Threads
  <2> QED
    BY <2>1, <2>3, <2>4 DEF TypeOK
<1>2. TypeOK /\ [Next]_vars => TypeOK'
  <2> SUFFICES ASSUME TypeOK, [Next]_vars PROVE TypeOK'
    OBVIOUS
  <2>0. Types /\ (\A u \in Threads : CallFits(u)) /\ MainNeverLeaves
    BY DEF TypeOK
  <2> USE <2>0
  <2>1. ASSUME NEW t \in Threads, NEW q \in Queues,
              MPCreateQueue(t, q)
       PROVE  TypeOK'
    <3>1. Types'
      BY <2>1, CallRecords
        DEF MPCreateQueue, taskVars, Types, Places, Calls, CallFits
    <3>2. ASSUME NEW u \in Threads PROVE CallFits(u)'
      BY <2>1, CallRecords, MainIsThread, NullIsNoQueue
        DEF MPCreateQueue, taskVars, Types, CallFits, NoCall, Calls
    <3>3. MainNeverLeaves'
      BY <2>1, CallRecords, MainIsThread
        DEF MPCreateQueue, taskVars, Types, Calls, CallFits, MainNeverLeaves
    <3> QED
      BY <3>1, <3>2, <3>3 DEF TypeOK
  <2>2. ASSUME NEW t \in Threads, NEW q \in Queues,
              MPNotifyQueue(t, q)
       PROVE  TypeOK'
    <3>0. /\ NewCall(t, "post", q, "never", t) \in Calls
          /\ NewCall(t, "post", q, "never", t).op = "post"
          /\ NewCall(t, "post", q, "never", t).q = q
          /\ NewCall(t, "post", q, "never", t).target = t
      BY CallRecords DEF Deadlines, NewCall
    <3>1. Types'
      BY <2>2, <3>0
        DEF MPNotifyQueue, Enter, queueVars, taskVars, Types, Places
    <3>2. ASSUME NEW u \in Threads PROVE CallFits(u)'
      BY <2>2, <3>0, MainIsThread, NullIsNoQueue
        DEF MPNotifyQueue, Enter, queueVars, taskVars, Types, CallFits, NoCall,
          Calls
    <3>3. MainNeverLeaves'
      BY <2>2, <3>0, MainIsThread
        DEF MPNotifyQueue, Enter, queueVars, taskVars, Types, Calls, CallFits,
          MainNeverLeaves
    <3> QED
      BY <3>1, <3>2, <3>3 DEF TypeOK
  <2>3. ASSUME NEW t \in Threads, NEW q \in Queues,
              MPDeleteQueue(t, q)
       PROVE  TypeOK'
    <3>0. /\ NewCall(t, "delete", q, "never", t) \in Calls
          /\ NewCall(t, "delete", q, "never", t).op = "delete"
          /\ NewCall(t, "delete", q, "never", t).q = q
          /\ NewCall(t, "delete", q, "never", t).target = t
      BY CallRecords DEF Deadlines, NewCall
    <3>1. Types'
      BY <2>3, <3>0
        DEF MPDeleteQueue, Enter, queueVars, taskVars, Types, Places
    <3>2. ASSUME NEW u \in Threads PROVE CallFits(u)'
      BY <2>3, <3>0, MainIsThread, NullIsNoQueue
        DEF MPDeleteQueue, Enter, queueVars, taskVars, Types, CallFits, NoCall,
          Calls
    <3>3. MainNeverLeaves'
      BY <2>3, <3>0, MainIsThread
        DEF MPDeleteQueue, Enter, queueVars, taskVars, Types, Calls, CallFits,
          MainNeverLeaves
    <3> QED
      BY <3>1, <3>2, <3>3 DEF TypeOK
  <2>4. ASSUME NEW t \in Threads, NEW q \in Queues, NEW duration \in Durations,
              MPWaitOnQueue(t, q, duration)
       PROVE  TypeOK'
    <3>0. /\ NewCall(t, "wait", q, deadline_after(duration), t) \in Calls
          /\ NewCall(t, "wait", q, deadline_after(duration), t).op = "wait"
          /\ NewCall(t, "wait", q, deadline_after(duration), t).q = q
          /\ NewCall(t, "wait", q, deadline_after(duration), t).target = t
      BY CallRecords, DeadlineAfter DEF Deadlines, NewCall
    <3>1. Types'
      BY <2>4, <3>0
        DEF MPWaitOnQueue, Enter, queueVars, taskVars, Types, Places
    <3>2. ASSUME NEW u \in Threads PROVE CallFits(u)'
      BY <2>4, <3>0, MainIsThread, NullIsNoQueue
        DEF MPWaitOnQueue, Enter, queueVars, taskVars, Types, CallFits, NoCall,
          Calls
    <3>3. MainNeverLeaves'
      BY <2>4, <3>0, MainIsThread
        DEF MPWaitOnQueue, Enter, queueVars, taskVars, Types, Calls, CallFits,
          MainNeverLeaves
    <3> QED
      BY <3>1, <3>2, <3>3 DEF TypeOK
  <2>5. ASSUME NEW t \in Threads,
              NotifyPosts(t)
       PROVE  TypeOK'
    <3>0. call[t].q \in Queues /\ NoCall(t) \in Calls
      BY <2>5, CallRecords DEF NotifyPosts, Types, CallFits, Calls
    <3>a. pc' \in [Threads -> Places]
      BY <2>5, <3>0, SignalledPlaces DEF NotifyPosts, Places
    <3>1. Types'
      BY <2>5, <3>0, <3>a, PostTypes DEF NotifyPosts, taskVars, Types, Places
    <3>2. ASSUME NEW u \in Threads PROVE CallFits(u)'
      BY <2>5, CallRecords, SignalledPlaces, MainIsThread, NullIsNoQueue
        DEF NotifyPosts, taskVars, Types, CallFits, NoCall, Calls
    <3>3. MainNeverLeaves'
      BY <2>5, CallRecords, SignalledPlaces, MainIsThread
        DEF NotifyPosts, taskVars, Types, Calls, CallFits, MainNeverLeaves
    <3> QED
      BY <3>1, <3>2, <3>3 DEF TypeOK
  <2>6. ASSUME NEW t \in Threads,
              DeleteQueue(t)
       PROVE  TypeOK'
    <3>1. Types'
      BY <2>6, CallRecords, BroadcastPlaces, SMTT(30)
        DEF DeleteQueue, taskVars, Types, Places, Calls, CallFits
    <3>2. ASSUME NEW u \in Threads PROVE CallFits(u)'
      BY <2>6, CallRecords, BroadcastPlaces, MainIsThread, NullIsNoQueue
        DEF DeleteQueue, taskVars, Types, CallFits, NoCall, Calls
    <3>3. MainNeverLeaves'
      BY <2>6, CallRecords, BroadcastPlaces, MainIsThread
        DEF DeleteQueue, taskVars, Types, Calls, CallFits, MainNeverLeaves
    <3> QED
      BY <3>1, <3>2, <3>3 DEF TypeOK
  <2>7. ASSUME NEW t \in Threads,
              WaitTakes(t)
       PROVE  TypeOK'
    <3>1. Types'
      BY <2>7, CallRecords
        DEF WaitTakes, InWaitLoop, Empty, Return, taskVars, Types, Places,
          Calls, CallFits
    <3>2. ASSUME NEW u \in Threads PROVE CallFits(u)'
      BY <2>7, CallRecords, MainIsThread, NullIsNoQueue
        DEF WaitTakes, InWaitLoop, Empty, Return, taskVars, Types, CallFits,
          NoCall, Calls
    <3>3. MainNeverLeaves'
      BY <2>7, CallRecords, MainIsThread
        DEF WaitTakes, InWaitLoop, Empty, Return, taskVars, Types, Calls,
          CallFits, MainNeverLeaves
    <3> QED
      BY <3>1, <3>2, <3>3 DEF TypeOK
  <2>8. ASSUME NEW t \in Threads,
              WaitFindsDeleted(t)
       PROVE  TypeOK'
    <3>1. Types'
      BY <2>8, CallRecords
        DEF WaitFindsDeleted, InWaitLoop, Return, queueVars, taskVars, Types,
          Places, Calls, CallFits
    <3>2. ASSUME NEW u \in Threads PROVE CallFits(u)'
      BY <2>8, CallRecords, MainIsThread, NullIsNoQueue
        DEF WaitFindsDeleted, InWaitLoop, Return, queueVars, taskVars, Types,
          CallFits, NoCall, Calls
    <3>3. MainNeverLeaves'
      BY <2>8, CallRecords, MainIsThread
        DEF WaitFindsDeleted, InWaitLoop, Return, queueVars, taskVars, Types,
          Calls, CallFits, MainNeverLeaves
    <3> QED
      BY <3>1, <3>2, <3>3 DEF TypeOK
  <2>9. ASSUME NEW t \in Threads,
              WaitLeaves(t)
       PROVE  TypeOK'
    <3>1. Types'
      BY <2>9, CallRecords
        DEF WaitLeaves, InWaitLoop, Leave, queueVars, Types, Places, Calls,
          CallFits
    <3>2. ASSUME NEW u \in Threads PROVE CallFits(u)'
      BY <2>9, CallRecords, MainIsThread, NullIsNoQueue
        DEF WaitLeaves, InWaitLoop, Leave, queueVars, Types, CallFits, NoCall,
          Calls
    <3>3. MainNeverLeaves'
      BY <2>9, CallRecords, MainIsThread
        DEF WaitLeaves, InWaitLoop, Leave, queueVars, Types, Calls, CallFits,
          MainNeverLeaves
    <3> QED
      BY <3>1, <3>2, <3>3 DEF TypeOK
  <2>10. ASSUME NEW t \in Threads,
              WaitTimesOut(t)
       PROVE  TypeOK'
    <3>1. Types'
      BY <2>10, CallRecords
        DEF WaitTimesOut, InWaitLoop, Return, queueVars, taskVars, Types,
          Places, Calls, CallFits
    <3>2. ASSUME NEW u \in Threads PROVE CallFits(u)'
      BY <2>10, CallRecords, MainIsThread, NullIsNoQueue
        DEF WaitTimesOut, InWaitLoop, Return, queueVars, taskVars, Types,
          CallFits, NoCall, Calls
    <3>3. MainNeverLeaves'
      BY <2>10, CallRecords, MainIsThread
        DEF WaitTimesOut, InWaitLoop, Return, queueVars, taskVars, Types,
          Calls, CallFits, MainNeverLeaves
    <3> QED
      BY <3>1, <3>2, <3>3 DEF TypeOK
  <2>11. ASSUME NEW t \in Threads,
              WaitSleeps(t)
       PROVE  TypeOK'
    <3>1. Types'
      BY <2>11, CallRecords
        DEF WaitSleeps, InWaitLoop, queueVars, taskVars, Types, Places, Calls,
          CallFits
    <3>2. ASSUME NEW u \in Threads PROVE CallFits(u)'
      BY <2>11, CallRecords, MainIsThread, NullIsNoQueue
        DEF WaitSleeps, InWaitLoop, queueVars, taskVars, Types, CallFits,
          NoCall, Calls
    <3>3. MainNeverLeaves'
      BY <2>11, CallRecords, MainIsThread
        DEF WaitSleeps, InWaitLoop, queueVars, taskVars, Types, Calls,
          CallFits, MainNeverLeaves
    <3> QED
      BY <3>1, <3>2, <3>3 DEF TypeOK
  <2>12. ASSUME NEW t \in Threads,
              SliceEnds(t)
       PROVE  TypeOK'
    <3>1. Types'
      BY <2>12, CallRecords
        DEF SliceEnds, queueVars, taskVars, Types, Places, Calls, CallFits
    <3>2. ASSUME NEW u \in Threads PROVE CallFits(u)'
      BY <2>12, CallRecords, MainIsThread, NullIsNoQueue
        DEF SliceEnds, queueVars, taskVars, Types, CallFits, NoCall, Calls
    <3>3. MainNeverLeaves'
      BY <2>12, CallRecords, MainIsThread
        DEF SliceEnds, queueVars, taskVars, Types, Calls, CallFits,
          MainNeverLeaves
    <3> QED
      BY <3>1, <3>2, <3>3 DEF TypeOK
  <2>13. ASSUME NEW t \in Threads,
              DeadlinePasses(t)
       PROVE  TypeOK'
    <3>0. [call[t] EXCEPT !.deadline = "passed"] \in Calls
      <4>1. call[t] \in Calls
        BY DEF Types
      <4> QED
        BY <4>1 DEF Calls, Deadlines
    <3>1. Types'
      BY <2>13, <3>0 DEF DeadlinePasses, queueVars, taskVars, Types, Places
    <3>2. ASSUME NEW u \in Threads PROVE CallFits(u)'
      BY <2>13, CallRecords, MainIsThread, NullIsNoQueue
        DEF DeadlinePasses, queueVars, taskVars, Types, CallFits, NoCall, Calls
    <3>3. MainNeverLeaves'
      BY <2>13, CallRecords, MainIsThread
        DEF DeadlinePasses, queueVars, taskVars, Types, Calls, CallFits,
          MainNeverLeaves
    <3> QED
      BY <3>1, <3>2, <3>3 DEF TypeOK
  <2>14. ASSUME NEW t \in Threads, NEW new \in Tasks, NEW queue \in Queues \cup {NoQueue},
              MPCreateTask(t, new, queue)
       PROVE  TypeOK'
    <3>1. Types'
      BY <2>14, CallRecords, MainIsThread
        DEF MPCreateTask, queueVars, Types, Places, Calls, CallFits
    <3>2. ASSUME NEW u \in Threads PROVE CallFits(u)'
      BY <2>14, CallRecords, MainIsNoTask, MainIsThread, NullIsNoQueue
        DEF MPCreateTask, queueVars, Types, CallFits, NoCall, Calls
    <3>3. MainNeverLeaves'
      BY <2>14, CallRecords, MainIsNoTask, MainIsThread
        DEF MPCreateTask, queueVars, Types, Calls, CallFits, MainNeverLeaves
    <3> QED
      BY <3>1, <3>2, <3>3 DEF TypeOK
  <2>15. ASSUME NEW t \in Threads, NEW target \in Threads, NEW s \in Statuses,
              MPTerminateTask(t, target, s)
       PROVE  TypeOK'
    <3>0. /\ NewCall(t, "terminate", NoQueue, "never", target) \in Calls
          /\ NewCall(t, "terminate", NoQueue, "never", target).op = "terminate"
          /\ NewCall(t, "terminate", NoQueue, "never", target).q = NoQueue
          /\ NewCall(t, "terminate", NoQueue, "never", target).target = target
      BY CallRecords DEF Deadlines, NewCall
    <3>1. Types'
      BY <2>15, <3>0 DEF MPTerminateTask, Enter, queueVars, Types, Places
    <3>2. ASSUME NEW u \in Threads PROVE CallFits(u)'
      BY <2>15, <3>0, MainIsThread, NullIsNoQueue
        DEF MPTerminateTask, Enter, queueVars, Types, CallFits, NoCall, Calls,
          MainNeverLeaves
    <3>3. MainNeverLeaves'
      BY <2>15, <3>0, MainIsThread
        DEF MPTerminateTask, Enter, queueVars, Types, Calls, CallFits,
          MainNeverLeaves
    <3> QED
      BY <3>1, <3>2, <3>3 DEF TypeOK
  <2>16. ASSUME NEW t \in Threads,
              TerminateSetsFlag(t)
       PROVE  TypeOK'
    <3>0. NoCall(t) \in Calls /\ call[t].target \in Threads
      BY CallRecords DEF Types, Calls
    <3>1. Types'
      BY <2>16, <3>0 DEF TerminateSetsFlag, Return, queueVars, Types, Places
    <3>2. ASSUME NEW u \in Threads PROVE CallFits(u)'
      BY <2>16, <3>0, MainIsThread, NullIsNoQueue, SMTT(30)
        DEF TerminateSetsFlag, Return, queueVars, Types, CallFits, NoCall,
          Calls
    <3>3. MainNeverLeaves'
      BY <2>16, <3>0, MainIsThread
        DEF TerminateSetsFlag, Return, queueVars, Types, Calls, CallFits,
          MainNeverLeaves
    <3> QED
      BY <3>1, <3>2, <3>3 DEF TypeOK
  <2>17. ASSUME NEW t \in Threads,
              MPDelayUntil(t)
       PROVE  TypeOK'
    <3>0. /\ NewCall(t, "delay", NoQueue, "ahead", t) \in Calls
          /\ NewCall(t, "delay", NoQueue, "ahead", t).op = "delay"
          /\ NewCall(t, "delay", NoQueue, "ahead", t).q = NoQueue
          /\ NewCall(t, "delay", NoQueue, "ahead", t).target = t
      BY CallRecords DEF Deadlines, NewCall
    <3>1. Types'
      BY <2>17, <3>0 DEF MPDelayUntil, queueVars, taskVars, Types, Places
    <3>2. ASSUME NEW u \in Threads PROVE CallFits(u)'
      BY <2>17, <3>0, MainIsThread, NullIsNoQueue
        DEF MPDelayUntil, queueVars, taskVars, Types, CallFits, NoCall, Calls
    <3>3. MainNeverLeaves'
      BY <2>17, <3>0, MainIsThread
        DEF MPDelayUntil, queueVars, taskVars, Types, Calls, CallFits,
          MainNeverLeaves
    <3> QED
      BY <3>1, <3>2, <3>3 DEF TypeOK
  <2>18. ASSUME NEW t \in Threads,
              DelayEnds(t)
       PROVE  TypeOK'
    <3>1. Types'
      BY <2>18, CallRecords
        DEF DelayEnds, Return, queueVars, taskVars, Types, Places, Calls,
          CallFits
    <3>2. ASSUME NEW u \in Threads PROVE CallFits(u)'
      BY <2>18, CallRecords, MainIsThread, NullIsNoQueue
        DEF DelayEnds, Return, queueVars, taskVars, Types, CallFits, NoCall,
          Calls
    <3>3. MainNeverLeaves'
      BY <2>18, CallRecords, MainIsThread
        DEF DelayEnds, Return, queueVars, taskVars, Types, Calls, CallFits,
          MainNeverLeaves
    <3> QED
      BY <3>1, <3>2, <3>3 DEF TypeOK
  <2>19. ASSUME NEW t \in Tasks, NEW s \in Statuses,
              MPExit(t, s)
       PROVE  TypeOK'
    <3>1. Types'
      BY <2>19, CallRecords, MainIsThread
        DEF MPExit, queueVars, Types, Places, Calls, CallFits
    <3>2. ASSUME NEW u \in Threads PROVE CallFits(u)'
      BY <2>19, CallRecords, MainIsNoTask, MainIsThread, NullIsNoQueue
        DEF MPExit, queueVars, Types, CallFits, NoCall, Calls
    <3>3. MainNeverLeaves'
      BY <2>19, CallRecords, MainIsNoTask, MainIsThread
        DEF MPExit, queueVars, Types, Calls, CallFits, MainNeverLeaves
    <3> QED
      BY <3>1, <3>2, <3>3 DEF TypeOK
  <2>20. ASSUME NEW t \in Tasks, NEW s \in Statuses,
              EntryReturns(t, s)
       PROVE  TypeOK'
    <3>1. Types'
      BY <2>20, CallRecords, MainIsThread
        DEF EntryReturns, queueVars, Types, Places, Calls, CallFits
    <3>2. ASSUME NEW u \in Threads PROVE CallFits(u)'
      BY <2>20, CallRecords, MainIsNoTask, MainIsThread, NullIsNoQueue
        DEF EntryReturns, queueVars, Types, CallFits, NoCall, Calls
    <3>3. MainNeverLeaves'
      BY <2>20, CallRecords, MainIsNoTask, MainIsThread
        DEF EntryReturns, queueVars, Types, Calls, CallFits, MainNeverLeaves
    <3> QED
      BY <3>1, <3>2, <3>3 DEF TypeOK
  <2>21. ASSUME NEW t \in Tasks,
              checkpoint(t)
       PROVE  TypeOK'
    <3>1. Types'
      BY <2>21, CallRecords, MainIsThread
        DEF checkpoint, Leave, queueVars, Types, Places, Calls, CallFits
    <3>2. ASSUME NEW u \in Threads PROVE CallFits(u)'
      BY <2>21, CallRecords, MainIsNoTask, MainIsThread, NullIsNoQueue
        DEF checkpoint, Leave, queueVars, Types, CallFits, NoCall, Calls
    <3>3. MainNeverLeaves'
      BY <2>21, CallRecords, MainIsNoTask, MainIsThread
        DEF checkpoint, Leave, queueVars, Types, Calls, CallFits,
          MainNeverLeaves
    <3> QED
      BY <3>1, <3>2, <3>3 DEF TypeOK
  <2>22. ASSUME NEW t \in Tasks,
              ExitJumps(t)
       PROVE  TypeOK'
    <3>1. Types'
      BY <2>22, CallRecords, MainIsThread
        DEF ExitJumps, Leave, queueVars, Types, Places, Calls, CallFits
    <3>2. ASSUME NEW u \in Threads PROVE CallFits(u)'
      BY <2>22, CallRecords, MainIsNoTask, MainIsThread, NullIsNoQueue
        DEF ExitJumps, Leave, queueVars, Types, CallFits, NoCall, Calls
    <3>3. MainNeverLeaves'
      BY <2>22, CallRecords, MainIsNoTask, MainIsThread
        DEF ExitJumps, Leave, queueVars, Types, Calls, CallFits,
          MainNeverLeaves
    <3> QED
      BY <3>1, <3>2, <3>3 DEF TypeOK
  <2>23. ASSUME NEW t \in Tasks,
              DelayLeaves(t)
       PROVE  TypeOK'
    <3>1. Types'
      BY <2>23, CallRecords, MainIsThread
        DEF DelayLeaves, Leave, queueVars, Types, Places, Calls, CallFits
    <3>2. ASSUME NEW u \in Threads PROVE CallFits(u)'
      BY <2>23, CallRecords, MainIsNoTask, MainIsThread, NullIsNoQueue
        DEF DelayLeaves, Leave, queueVars, Types, CallFits, NoCall, Calls
    <3>3. MainNeverLeaves'
      BY <2>23, CallRecords, MainIsNoTask, MainIsThread
        DEF DelayLeaves, Leave, queueVars, Types, Calls, CallFits,
          MainNeverLeaves
    <3> QED
      BY <3>1, <3>2, <3>3 DEF TypeOK
  <2>24. ASSUME NEW t \in Tasks,
              ReportsEnd(t)
       PROVE  TypeOK'
    <3>0. notify[t] \in Queues
      BY <2>24, MainIsThread DEF ReportsEnd, Types
    <3>a. pc' \in [Threads -> Places]
      <4>1. PICK woken \in Signalled(notify[t]) : pc' = [woken EXCEPT ![t] = "ended"]
        BY <2>24 DEF ReportsEnd
      <4>2. woken \in [Threads -> Places]
        BY SignalledPlaces
      <4> QED
        BY <4>1, <4>2 DEF Places
    <3>1. Types'
      BY <2>24, <3>0, <3>a, PostTypes, MainIsThread
        DEF ReportsEnd, taskVars, Types, Places
    <3>2. ASSUME NEW u \in Threads PROVE CallFits(u)'
      BY <2>24, CallRecords, SignalledPlaces, MainIsNoTask, MainIsThread,
         NullIsNoQueue
        DEF ReportsEnd, taskVars, Types, CallFits, NoCall, Calls
    <3>3. MainNeverLeaves'
      BY <2>24, CallRecords, SignalledPlaces, MainIsNoTask, MainIsThread
        DEF ReportsEnd, taskVars, Types, Calls, CallFits, MainNeverLeaves
    <3> QED
      BY <3>1, <3>2, <3>3 DEF TypeOK
  <2>25. ASSUME NEW t \in Tasks,
              EndsUnreported(t)
       PROVE  TypeOK'
    <3>1. Types'
      BY <2>25, CallRecords, MainIsThread
        DEF EndsUnreported, queueVars, taskVars, Types, Places, Calls, CallFits
    <3>2. ASSUME NEW u \in Threads PROVE CallFits(u)'
      BY <2>25, CallRecords, MainIsNoTask, MainIsThread, NullIsNoQueue
        DEF EndsUnreported, queueVars, taskVars, Types, CallFits, NoCall, Calls
    <3>3. MainNeverLeaves'
      BY <2>25, CallRecords, MainIsNoTask, MainIsThread
        DEF EndsUnreported, queueVars, taskVars, Types, Calls, CallFits,
          MainNeverLeaves
    <3> QED
      BY <3>1, <3>2, <3>3 DEF TypeOK
  <2>26. CASE UNCHANGED vars
    BY <2>26 DEF TypeOK, Types, CallFits, MainNeverLeaves, vars
  <2> QED
    BY <2>1, <2>2, <2>3, <2>4, <2>5, <2>6, <2>7, <2>8, <2>9, <2>10, <2>11,
       <2>12, <2>13, <2>14, <2>15, <2>16, <2>17, <2>18, <2>19, <2>20, <2>21,
       <2>22, <2>23, <2>24, <2>25, <2>26
    DEF Next, QueueCall, Proceeds, WaitStep, TaskCall, TaskEnds, LeavesTask
<1> QED
  BY <1>1, <1>2, PTL DEF Spec

(* Which steps move messages: posts, deletions and receipts.               *)
LEMMA MessagesMove ==
  ASSUME [Next]_vars
  PROVE  \/ UNCHANGED <<msgs, sent, removed>>
         \/ \E t \in Threads :
              \/ NotifyPosts(t) \/ DeleteQueue(t) \/ WaitTakes(t)
              \/ t \in Tasks /\ ReportsEnd(t)
  BY MainIsThread
    DEF Next, QueueCall, Proceeds, WaitStep, TaskCall, TaskEnds, LeavesTask,
      vars, queueVars, taskVars, MPCreateQueue, MPNotifyQueue, MPDeleteQueue,
      MPWaitOnQueue, WaitFindsDeleted, WaitLeaves, WaitTimesOut, WaitSleeps,
      SliceEnds, DeadlinePasses, MPCreateTask, MPTerminateTask,
      TerminateSetsFlag, MPDelayUntil, DelayEnds, MPExit, EntryReturns,
      checkpoint, ExitJumps, DelayLeaves, EndsUnreported

(* A thread inside a queue call names a queue that was created.            *)
LEMMA CallQueue ==
  ASSUME TypeOK, NEW t \in Threads, call[t].op \in {"wait", "post", "delete"}
  PROVE  call[t].q \in Queues
  BY DEF TypeOK, Types, CallFits, Calls

(* Concatenation of message lists is associative.                          *)
LEMMA Associative ==
  \A a, b, c \in Seq(Messages) : (a \o b) \o c = a \o (b \o c)
  BY ConcatAssociative

(* A post adds to what was sent what it adds to the list.                  *)
LEMMA PostKeepsOrder ==
  ASSUME Types, NothingLost, NEW q \in Queues, NEW t \in Threads,
         NEW notice \in BOOLEAN, queue_post(q, t, notice)
  PROVE  NothingLost'
<1> DEFINE m == [from |-> t, n |-> Len(sent[q]) + 1, notice |-> notice]
<1>1. m \in Messages
  BY BoundIsNat DEF Types, queue_post, Messages
<1>2. Append(removed[q] \o msgs[q], m) = removed[q] \o Append(msgs[q], m)
  <2>1. /\ removed[q] \in Seq(Messages) /\ msgs[q] \in Seq(Messages)
        /\ removed[q] \o msgs[q] \in Seq(Messages)
        /\ <<m>> \in Seq(Messages)
    BY <1>1, ConcatProperties DEF Types
  <2> HIDE DEF m
  <2>2. (removed[q] \o msgs[q]) \o <<m>> = removed[q] \o (msgs[q] \o <<m>>)
    BY <2>1, Associative
  <2> QED
    BY <1>1, <2>1, <2>2, AppendIsConcat
<1>3. /\ msgs' = [msgs EXCEPT ![q] = Append(@, m)]
      /\ sent' = [sent EXCEPT ![q] = Append(@, m)]
      /\ removed' = removed
  BY DEF queue_post
<1> HIDE DEF m
<1> QED
  BY <1>2, <1>3 DEF Types, NothingLost

(* No message is lost, duplicated or overtaken: NothingLost is inductive   *)
(* relative to TypeOK.                                                     *)
THEOREM NothingIsLost == Spec => []NothingLost
<1>1. Init => NothingLost
  BY DEF Init, NothingLost
<1>2. TypeOK /\ NothingLost /\ [Next]_vars => NothingLost'
  <2> SUFFICES ASSUME TypeOK, NothingLost, [Next]_vars PROVE NothingLost'
    OBVIOUS
  <2>0. Types
    BY DEF TypeOK
  <2>1. CASE UNCHANGED <<msgs, sent, removed>>
    BY <2>1 DEF NothingLost
  <2>2. ASSUME NEW t \in Threads, NotifyPosts(t) PROVE NothingLost'
    <3>1. call[t].q \in Queues
      BY <2>2, CallQueue DEF NotifyPosts
    <3> QED
      BY <2>0, <2>2, <3>1, PostKeepsOrder DEF NotifyPosts
  <2>3. ASSUME NEW t \in Tasks, ReportsEnd(t) PROVE NothingLost'
    <3>1. notify[t] \in Queues
      BY <2>0, <2>3, MainIsThread DEF ReportsEnd, Types
    <3> QED
      BY <2>0, <2>3, <3>1, MainIsThread, PostKeepsOrder DEF ReportsEnd
  <2>4. ASSUME NEW t \in Threads, DeleteQueue(t) PROVE NothingLost'
    <3> DEFINE q == call[t].q
    <3>1. q \in Queues
      BY <2>4, CallQueue DEF DeleteQueue
    <3>2. (removed[q] \o msgs[q]) \o <<>> = removed[q] \o msgs[q]
      BY <2>0, <3>1 DEF Types
    <3> QED
      BY <2>0, <2>4, <3>1, <3>2 DEF DeleteQueue, NothingLost, Types
  <2>5. ASSUME NEW t \in Threads, WaitTakes(t) PROVE NothingLost'
    <3> DEFINE q == call[t].q
    <3>1. q \in Queues /\ msgs[q] # <<>>
      BY <2>5, CallQueue DEF WaitTakes, InWaitLoop, Empty
    <3>2. Append(removed[q], Head(msgs[q])) \o Tail(msgs[q])
            = removed[q] \o msgs[q]
      <4> DEFINE h == Head(msgs[q])
                 l == Tail(msgs[q])
      <4>1. /\ removed[q] \in Seq(Messages) /\ msgs[q] \in Seq(Messages)
            /\ h \in Messages /\ l \in Seq(Messages)
            /\ <<h>> \in Seq(Messages)
        BY <2>0, <3>1, HeadTailProperties DEF Types
      <4>2. msgs[q] = <<h>> \o l
        BY <3>1, <4>1
      <4> HIDE DEF h, l
      <4>3. (removed[q] \o <<h>>) \o l = removed[q] \o (<<h>> \o l)
        BY <4>1, Associative, ZenonT(60)
      <4>4. Append(removed[q], h) = removed[q] \o <<h>>
        BY <4>1, AppendIsConcat
      <4> QED
        BY <4>2, <4>3, <4>4 DEF h, l
    <3>3. /\ msgs' = [msgs EXCEPT ![q] = Tail(@)]
          /\ removed' = [removed EXCEPT ![q] = Append(@, Head(msgs[q]))]
          /\ sent' = sent
      BY <2>5 DEF WaitTakes
    <3> HIDE DEF q
    <3> QED
      BY <2>0, <3>1, <3>2, <3>3 DEF NothingLost, Types
  <2> QED
    BY MessagesMove, <2>1, <2>2, <2>3, <2>4, <2>5
<1> QED
  BY <1>1, <1>2, TypeCorrect, PTL DEF Spec

(* A waiter comes back to the game by its own three ways out.              *)
LEMMA WaysBack ==
  ASSUME TypeOK, [Next]_vars, NEW t \in Threads, Waiting(t), pc'[t] = "running"
  PROVE  WaitTakes(t) \/ WaitFindsDeleted(t) \/ WaitTimesOut(t)
<1> DEFINE Back == WaitTakes(t) \/ WaitFindsDeleted(t) \/ WaitTimesOut(t)
<1>0. /\ Types
      /\ pc[t] \in {"locking", "asleep"} /\ call[t].op = "wait"
  BY DEF TypeOK, Waiting
<1> USE <1>0
<1>1. ASSUME NEW s \in Threads, NEW q \in Queues,
           MPCreateQueue(s, q)
      PROVE  Back
  BY <1>1 DEF MPCreateQueue, Types
<1>2. ASSUME NEW s \in Threads, NEW q \in Queues,
           MPNotifyQueue(s, q)
      PROVE  Back
  BY <1>2 DEF MPNotifyQueue, Enter, Types
<1>3. ASSUME NEW s \in Threads, NEW q \in Queues,
           MPDeleteQueue(s, q)
      PROVE  Back
  BY <1>3 DEF MPDeleteQueue, Enter, Types
<1>4. ASSUME NEW s \in Threads, NEW q \in Queues, NEW duration \in Durations,
           MPWaitOnQueue(s, q, duration)
      PROVE  Back
  BY <1>4 DEF MPWaitOnQueue, Enter, Types
<1>5. ASSUME NEW s \in Threads,
           NotifyPosts(s)
      PROVE  Back
  <2>1. PICK woken \in Signalled(call[s].q) : pc' = [woken EXCEPT ![s] = "running"]
    BY <1>5 DEF NotifyPosts
  <2>2. woken \in [Threads -> Places] /\ woken[t] # "running"
    BY SignalledPlaces
  <2> QED
    BY <1>5, <2>1, <2>2 DEF NotifyPosts
<1>6. ASSUME NEW s \in Threads,
           DeleteQueue(s)
      PROVE  Back
  BY <1>6, BroadcastPlaces DEF DeleteQueue, Types
<1>7. ASSUME NEW s \in Threads,
           WaitTakes(s)
      PROVE  Back
  <2>1. CASE s = t
    BY <1>7, <2>1
  <2>2. CASE s # t
    BY <1>7, <2>2 DEF WaitTakes, InWaitLoop, Empty, Return, Types
  <2> QED
    BY <2>1, <2>2
<1>8. ASSUME NEW s \in Threads,
           WaitFindsDeleted(s)
      PROVE  Back
  <2>1. CASE s = t
    BY <1>8, <2>1
  <2>2. CASE s # t
    BY <1>8, <2>2 DEF WaitFindsDeleted, InWaitLoop, Return, Types
  <2> QED
    BY <2>1, <2>2
<1>9. ASSUME NEW s \in Threads,
           WaitLeaves(s)
      PROVE  Back
  BY <1>9 DEF WaitLeaves, InWaitLoop, Leave, Types
<1>10. ASSUME NEW s \in Threads,
           WaitTimesOut(s)
      PROVE  Back
  <2>1. CASE s = t
    BY <1>10, <2>1
  <2>2. CASE s # t
    BY <1>10, <2>2 DEF WaitTimesOut, InWaitLoop, Return, Types
  <2> QED
    BY <2>1, <2>2
<1>11. ASSUME NEW s \in Threads,
           WaitSleeps(s)
      PROVE  Back
  BY <1>11 DEF WaitSleeps, InWaitLoop, Types
<1>12. ASSUME NEW s \in Threads,
           SliceEnds(s)
      PROVE  Back
  BY <1>12 DEF SliceEnds, Types
<1>13. ASSUME NEW s \in Threads,
           DeadlinePasses(s)
      PROVE  Back
  BY <1>13 DEF DeadlinePasses, Types
<1>14. ASSUME NEW s \in Threads, NEW new \in Tasks, NEW queue \in Queues \cup {NoQueue},
           MPCreateTask(s, new, queue)
      PROVE  Back
  BY <1>14 DEF MPCreateTask, Types
<1>15. ASSUME NEW s \in Threads, NEW target \in Threads, NEW x \in Statuses,
           MPTerminateTask(s, target, x)
      PROVE  Back
  BY <1>15 DEF MPTerminateTask, Enter, Types
<1>16. ASSUME NEW s \in Threads,
           TerminateSetsFlag(s)
      PROVE  Back
  BY <1>16 DEF TerminateSetsFlag, Return, Types
<1>17. ASSUME NEW s \in Threads,
           MPDelayUntil(s)
      PROVE  Back
  BY <1>17 DEF MPDelayUntil, Types
<1>18. ASSUME NEW s \in Threads,
           DelayEnds(s)
      PROVE  Back
  BY <1>18 DEF DelayEnds, Return, Types
<1>19. ASSUME NEW s \in Tasks, NEW x \in Statuses,
           MPExit(s, x)
      PROVE  Back
  BY <1>19, MainIsThread DEF MPExit, Types
<1>20. ASSUME NEW s \in Tasks, NEW x \in Statuses,
           EntryReturns(s, x)
      PROVE  Back
  BY <1>20, MainIsThread DEF EntryReturns, Types
<1>21. ASSUME NEW s \in Tasks,
           checkpoint(s)
      PROVE  Back
  BY <1>21, MainIsThread DEF checkpoint, Leave, Types
<1>22. ASSUME NEW s \in Tasks,
           ExitJumps(s)
      PROVE  Back
  BY <1>22, MainIsThread DEF ExitJumps, Leave, Types
<1>23. ASSUME NEW s \in Tasks,
           DelayLeaves(s)
      PROVE  Back
  BY <1>23, MainIsThread DEF DelayLeaves, Leave, Types
<1>24. ASSUME NEW s \in Tasks,
           ReportsEnd(s)
      PROVE  Back
  <2>1. PICK woken \in Signalled(notify[s]) : pc' = [woken EXCEPT ![s] = "ended"]
    BY <1>24 DEF ReportsEnd
  <2>2. woken \in [Threads -> Places] /\ woken[t] # "running"
    BY SignalledPlaces
  <2> QED
    BY <1>24, <2>1, <2>2 DEF ReportsEnd
<1>25. ASSUME NEW s \in Tasks,
           EndsUnreported(s)
      PROVE  Back
  BY <1>25, MainIsThread DEF EndsUnreported, Types
<1>26. CASE UNCHANGED vars
  BY <1>26 DEF vars
<1> QED
  BY <1>1, <1>2, <1>3, <1>4, <1>5, <1>6, <1>7, <1>8, <1>9, <1>10, <1>11,
     <1>12, <1>13, <1>14, <1>15, <1>16, <1>17, <1>18, <1>19, <1>20, <1>21,
     <1>22, <1>23, <1>24, <1>25, <1>26
    DEF Next, QueueCall, Proceeds, WaitStep, TaskCall, TaskEnds, LeavesTask

(* A wait on a live queue comes back empty-handed only from an empty queue *)
(* with its deadline passed, in any state of the type.                     *)
LEMMA EmptyHandedOnStep ==
  ASSUME TypeOK, [Next]_vars PROVE EmptyHandedStep
<1> SUFFICES ASSUME NEW t \in Threads, Waiting(t), pc'[t] = "running",
                    removed' = removed, life[call[t].q] = "live"
             PROVE  msgs[call[t].q] = <<>> /\ call[t].deadline = "passed"
  BY DEF EmptyHandedStep
<1>0. Types
  BY DEF TypeOK
<1>1. CASE WaitTimesOut(t)
  BY <1>1 DEF WaitTimesOut, Empty
<1>2. CASE WaitTakes(t)
  <2>1. call[t].q \in Queues
    BY <1>2, CallQueue DEF WaitTakes, InWaitLoop
  <2>2. removed'[call[t].q] # removed[call[t].q]
    <3> DEFINE r == removed[call[t].q]
    <3>1. Len(Append(r, Head(msgs[call[t].q]))) = Len(r) + 1 /\ Len(r) \in Nat
      BY <1>0, <2>1 DEF Types
    <3> QED
      BY <1>0, <1>2, <2>1, <3>1 DEF WaitTakes, Types
  <2> QED
    BY <2>2
<1>3. CASE WaitFindsDeleted(t)
  BY <1>3 DEF WaitFindsDeleted
<1> QED
  BY <1>1, <1>2, <1>3, WaysBack

(* The action property: a message never stays behind a wait that ended.    *)
THEOREM EmptyHandedIsHonest == Spec => EmptyHandedOnlyWhenEmpty
<1>1. TypeOK /\ [Next]_vars => [EmptyHandedStep]_vars
  BY EmptyHandedOnStep
<1> QED
  BY <1>1, TypeCorrect, PTL DEF Spec, EmptyHandedOnlyWhenEmpty

-----------------------------------------------------------------------------
(* What StatusWasGiven rests on: whoever is told to stop, is about to be,  *)
(* or is on the way out by MPExit, was given a status, and never loses it. *)
StatusIsKept ==
  \A t \in Threads :
    /\ terminate[t] \/ pc[t] = "exiting" => exitStatus[t] # Unset
    /\ call[t].op = "terminate" => exitStatus[call[t].target] # Unset
    /\ t \in Tasks /\ pc[t] \in {"left", "ended"} => status[t] # Unset

(* The steps of Next, one by one.                                          *)
LEMMA Steps ==
  ASSUME [Next]_vars
  PROVE  \/ UNCHANGED vars
         \/ \E t \in Threads :
              \/ \E q \in Queues : \/ MPCreateQueue(t, q) \/ MPNotifyQueue(t, q)
                                   \/ MPDeleteQueue(t, q)
                                   \/ \E duration \in Durations : MPWaitOnQueue(t, q, duration)
              \/ NotifyPosts(t) \/ DeleteQueue(t) \/ WaitTakes(t) \/ WaitFindsDeleted(t)
              \/ WaitLeaves(t) \/ WaitTimesOut(t) \/ WaitSleeps(t) \/ SliceEnds(t)
              \/ TerminateSetsFlag(t) \/ DelayEnds(t) \/ DeadlinePasses(t) \/ MPDelayUntil(t)
              \/ \E new \in Tasks, queue \in Queues \cup {NoQueue} :
                   MPCreateTask(t, new, queue) /\ (queue = NoQueue \/ life[queue] # "none")
              \/ \E target \in Threads, s \in Statuses : MPTerminateTask(t, target, s)
         \/ \E t \in Tasks :
              \/ \E s \in Statuses : MPExit(t, s) \/ EntryReturns(t, s)
              \/ checkpoint(t) \/ ExitJumps(t) \/ DelayLeaves(t) \/ ReportsEnd(t)
              \/ EndsUnreported(t)
  BY DEF Next, QueueCall, Proceeds, WaitStep, TaskCall, TaskEnds, LeavesTask

(* Every step keeps the status of whoever was given one.                   *)
LEMMA StatusIsKeptOnStep ==
  ASSUME TypeOK, StatusIsKept, [Next]_vars PROVE StatusIsKept'
<1>0. /\ Types /\ (\A u \in Threads : CallFits(u)) /\ Unset \notin Statuses
      /\ Tasks \subseteq Threads
  BY UnsetIsNoStatus, MainIsThread DEF TypeOK
<1> USE <1>0 DEF StatusIsKept, Types
<1>1. ASSUME NEW t \in Threads, NEW q \in Queues,
            MPCreateQueue(t, q)
       PROVE  StatusIsKept'
  BY <1>1 DEF MPCreateQueue, taskVars, NoCall, NewCall, Calls, CallFits
<1>2. ASSUME NEW t \in Threads, NEW q \in Queues,
            MPNotifyQueue(t, q)
       PROVE  StatusIsKept'
  BY <1>2 DEF MPNotifyQueue, Enter, queueVars, taskVars, NoCall, NewCall,
    Calls, CallFits
<1>3. ASSUME NEW t \in Threads, NEW q \in Queues,
            MPDeleteQueue(t, q)
       PROVE  StatusIsKept'
  BY <1>3 DEF MPDeleteQueue, Enter, queueVars, taskVars, NoCall, NewCall,
    Calls, CallFits
<1>4. ASSUME NEW t \in Threads, NEW q \in Queues, NEW duration \in Durations,
            MPWaitOnQueue(t, q, duration)
       PROVE  StatusIsKept'
  BY <1>4 DEF MPWaitOnQueue, Enter, queueVars, taskVars, NoCall, NewCall,
    Calls, CallFits
<1>5. ASSUME NEW t \in Threads,
            NotifyPosts(t)
       PROVE  StatusIsKept'
  BY <1>5, SignalledPlaces DEF NotifyPosts, queue_post, taskVars, NoCall,
    NewCall, Calls, CallFits
<1>6. ASSUME NEW t \in Threads,
            DeleteQueue(t)
       PROVE  StatusIsKept'
  BY <1>6, BroadcastPlaces DEF DeleteQueue, taskVars, NoCall, NewCall, Calls,
    CallFits
<1>7. ASSUME NEW t \in Threads,
            WaitTakes(t)
       PROVE  StatusIsKept'
  BY <1>7 DEF WaitTakes, InWaitLoop, Return, taskVars, NoCall, NewCall, Calls,
    CallFits
<1>8. ASSUME NEW t \in Threads,
            WaitFindsDeleted(t)
       PROVE  StatusIsKept'
  BY <1>8 DEF WaitFindsDeleted, InWaitLoop, Return, queueVars, taskVars,
    NoCall, NewCall, Calls, CallFits
<1>9. ASSUME NEW t \in Threads,
            WaitLeaves(t)
       PROVE  StatusIsKept'
  BY <1>9 DEF WaitLeaves, InWaitLoop, Leave, queueVars, NoCall, NewCall,
    Calls, CallFits
<1>10. ASSUME NEW t \in Threads,
            WaitTimesOut(t)
       PROVE  StatusIsKept'
  BY <1>10 DEF WaitTimesOut, InWaitLoop, Return, queueVars, taskVars, NoCall,
    NewCall, Calls, CallFits
<1>11. ASSUME NEW t \in Threads,
            WaitSleeps(t)
       PROVE  StatusIsKept'
  BY <1>11 DEF WaitSleeps, InWaitLoop, queueVars, taskVars, NoCall, NewCall,
    Calls, CallFits
<1>12. ASSUME NEW t \in Threads,
            SliceEnds(t)
       PROVE  StatusIsKept'
  BY <1>12 DEF SliceEnds, queueVars, taskVars, NoCall, NewCall, Calls,
    CallFits
<1>13. ASSUME NEW t \in Threads,
            TerminateSetsFlag(t)
       PROVE  StatusIsKept'
  <2> DEFINE target == call[t].target
  <2>1. /\ target \in Threads /\ call[t].op = "terminate" /\ exitStatus' = exitStatus
        /\ status' = status /\ exitStatus[target] # Unset
        /\ terminate' = [terminate EXCEPT ![target] = TRUE]
        /\ call' = [call EXCEPT ![t] = NoCall(t)] /\ NoCall(t).op # "terminate"
    BY <1>13 DEF TerminateSetsFlag, Return, Calls, NoCall
  <2>2. \A u \in Threads :
          pc'[u] = pc[u] \/ pc'[u] = "running" \/ (pc'[u] = "exiting" /\ u = target)
    BY <1>13 DEF TerminateSetsFlag, Return
  <2> HIDE DEF target
  <2> QED
    BY <2>1, <2>2
<1>14. ASSUME NEW t \in Threads,
            DelayEnds(t)
       PROVE  StatusIsKept'
  BY <1>14 DEF DelayEnds, Return, queueVars, taskVars, NoCall, NewCall, Calls,
    CallFits
<1>15. ASSUME NEW t \in Threads,
            DeadlinePasses(t)
       PROVE  StatusIsKept'
  BY <1>15 DEF DeadlinePasses, queueVars, taskVars, NoCall, NewCall, Calls,
    CallFits
<1>16. ASSUME NEW t \in Threads, NEW new \in Tasks, NEW queue \in Queues \cup {NoQueue},
            MPCreateTask(t, new, queue)
       PROVE  StatusIsKept'
  BY <1>16 DEF MPCreateTask, queueVars, NoCall, NewCall, Calls, CallFits
<1>17. ASSUME NEW t \in Threads, NEW target \in Threads, NEW s \in Statuses,
            MPTerminateTask(t, target, s)
       PROVE  StatusIsKept'
  BY <1>17 DEF MPTerminateTask, Enter, queueVars, NoCall, NewCall, Calls,
    CallFits
<1>18. ASSUME NEW t \in Threads,
            MPDelayUntil(t)
       PROVE  StatusIsKept'
  BY <1>18 DEF MPDelayUntil, queueVars, taskVars, NoCall, NewCall, Calls,
    CallFits
<1>19. ASSUME NEW t \in Tasks, NEW s \in Statuses,
            MPExit(t, s)
       PROVE  StatusIsKept'
  BY <1>19 DEF MPExit, queueVars, NoCall, NewCall, Calls, CallFits
<1>20. ASSUME NEW t \in Tasks, NEW s \in Statuses,
            EntryReturns(t, s)
       PROVE  StatusIsKept'
  BY <1>20 DEF EntryReturns, queueVars, NoCall, NewCall, Calls, CallFits
<1>21. ASSUME NEW t \in Tasks,
            checkpoint(t)
       PROVE  StatusIsKept'
  BY <1>21 DEF checkpoint, Leave, queueVars, NoCall, NewCall, Calls, CallFits
<1>22. ASSUME NEW t \in Tasks,
            ExitJumps(t)
       PROVE  StatusIsKept'
  BY <1>22 DEF ExitJumps, Leave, queueVars, NoCall, NewCall, Calls, CallFits
<1>23. ASSUME NEW t \in Tasks,
            DelayLeaves(t)
       PROVE  StatusIsKept'
  BY <1>23 DEF DelayLeaves, Leave, queueVars, NoCall, NewCall, Calls, CallFits
<1>24. ASSUME NEW t \in Tasks,
            ReportsEnd(t)
       PROVE  StatusIsKept'
  BY <1>24, SignalledPlaces DEF ReportsEnd, queue_post, taskVars, NoCall,
    NewCall, Calls, CallFits
<1>25. ASSUME NEW t \in Tasks,
            EndsUnreported(t)
       PROVE  StatusIsKept'
  BY <1>25 DEF EndsUnreported, queueVars, taskVars, NoCall, NewCall, Calls,
    CallFits
<1>26. CASE UNCHANGED vars
  BY <1>26 DEF vars
<1> QED
  BY Steps, <1>1, <1>2, <1>3, <1>4, <1>5, <1>6, <1>7, <1>8, <1>9, <1>10,
    <1>11, <1>12, <1>13, <1>14, <1>15, <1>16, <1>17, <1>18, <1>19, <1>20,
    <1>21, <1>22, <1>23, <1>24, <1>25, <1>26

(* What every step but a post, an end and a task's creation leaves alone.  *)
NoticesStay ==
  /\ sent' = sent
  /\ \A t \in Tasks : pc'[t] = "ended" <=> pc[t] = "ended"
  /\ \A t \in Tasks : \/ notify'[t] = notify[t]
                      \/ pc[t] = "absent" /\ pc'[t] = "running"

(* Such a step keeps what OneNotice says.                                  *)
LEMMA NoticesStayOneNotice ==
  ASSUME OneNotice, NoticesStay PROVE OneNotice'
  BY DEF OneNotice, NoticesStay, IsNotice

(* A post adds one message, and changes no other.                          *)
LEMMA PostedNotices ==
  ASSUME Types, NEW q \in Queues, NEW t \in Threads, NEW notice \in BOOLEAN,
         queue_post(q, t, notice), NEW u \in Threads, NEW p \in Queues, NEW i
  PROVE  i \in DOMAIN sent'[p] /\ IsNotice(u, p, i)'
           <=> \/ i \in DOMAIN sent[p] /\ IsNotice(u, p, i)
               \/ p = q /\ i = Len(sent[q]) + 1 /\ u = t /\ notice
<1>1. CASE p # q
  <2>1. sent'[p] = sent[p]
    BY <1>1 DEF queue_post, Types
  <2> QED
    BY <1>1, <2>1 DEF IsNotice
<1>2. CASE p = q
  <2> DEFINE m == [from |-> t, n |-> Len(sent[q]) + 1, notice |-> notice]
  <2>3. sent[q] \in Seq(Messages)
    BY DEF Types
  <2>1. m \in Messages
    BY <2>3, BoundIsNat DEF queue_post, Messages
  <2>2. sent'[q] = Append(sent[q], m) /\ m.from = t /\ m.notice = notice
    BY DEF queue_post, Types
  <2> HIDE DEF m
  <2> QED
    BY <1>2, <2>1, <2>2, <2>3 DEF IsNotice
<1> QED
  BY <1>1, <1>2

(* One notice for each end: every step keeps it.                           *)
LEMMA OneNoticeOnStep ==
  ASSUME TypeOK, OneNotice, [Next]_vars PROVE OneNotice'
<1>0. /\ Types /\ (\A u \in Threads : CallFits(u)) /\ Tasks \subseteq Threads
  BY MainIsThread DEF TypeOK
<1> USE <1>0
<1>1. ASSUME NEW t \in Threads, NEW q \in Queues,
            MPCreateQueue(t, q)
       PROVE  NoticesStay
  BY <1>1 DEF MPCreateQueue, taskVars, NoCall, NewCall, NoticesStay, Types
<1>2. ASSUME NEW t \in Threads, NEW q \in Queues,
            MPNotifyQueue(t, q)
       PROVE  NoticesStay
  BY <1>2 DEF MPNotifyQueue, Enter, queueVars, taskVars, NoCall, NewCall,
    NoticesStay, Types
<1>3. ASSUME NEW t \in Threads, NEW q \in Queues,
            MPDeleteQueue(t, q)
       PROVE  NoticesStay
  BY <1>3 DEF MPDeleteQueue, Enter, queueVars, taskVars, NoCall, NewCall,
    NoticesStay, Types
<1>4. ASSUME NEW t \in Threads, NEW q \in Queues, NEW duration \in Durations,
            MPWaitOnQueue(t, q, duration)
       PROVE  NoticesStay
  BY <1>4 DEF MPWaitOnQueue, Enter, queueVars, taskVars, NoCall, NewCall,
    NoticesStay, Types
<1>5. ASSUME NEW t \in Threads,
            NotifyPosts(t)
       PROVE  OneNotice'
  <2>1. /\ call[t].q \in Queues /\ queue_post(call[t].q, t, FALSE)
        /\ notify' = notify
    BY <1>5 DEF NotifyPosts, taskVars, CallFits, Types, Calls
  <2>3. PICK woken \in Signalled(call[t].q) : pc' = [woken EXCEPT ![t] = "running"]
    BY <1>5 DEF NotifyPosts
  <2>4. pc[t] = "locking"
    BY <1>5 DEF NotifyPosts
  <2>5. \A u \in Tasks : pc'[u] = "ended" <=> pc[u] = "ended"
    BY <2>3, <2>4, SignalledPlaces
  <2>2. ASSUME NEW u \in Tasks, NEW p \in Queues, NEW i
        PROVE  i \in DOMAIN sent'[p] /\ IsNotice(u, p, i)'
                 <=> i \in DOMAIN sent[p] /\ IsNotice(u, p, i)
    BY <2>1, PostedNotices
  <2> QED
    BY <2>1, <2>2, <2>5 DEF OneNotice
<1>6. ASSUME NEW t \in Threads,
            DeleteQueue(t)
       PROVE  NoticesStay
  BY <1>6, BroadcastPlaces DEF DeleteQueue, taskVars, NoCall, NewCall,
    NoticesStay, Types
<1>7. ASSUME NEW t \in Threads,
            WaitTakes(t)
       PROVE  NoticesStay
  BY <1>7 DEF WaitTakes, InWaitLoop, Return, taskVars, NoCall, NewCall,
    NoticesStay, Types
<1>8. ASSUME NEW t \in Threads,
            WaitFindsDeleted(t)
       PROVE  NoticesStay
  BY <1>8 DEF WaitFindsDeleted, InWaitLoop, Return, queueVars, taskVars,
    NoCall, NewCall, NoticesStay, Types
<1>9. ASSUME NEW t \in Threads,
            WaitLeaves(t)
       PROVE  NoticesStay
  BY <1>9 DEF WaitLeaves, InWaitLoop, Leave, queueVars, NoCall, NewCall,
    NoticesStay, Types
<1>10. ASSUME NEW t \in Threads,
            WaitTimesOut(t)
       PROVE  NoticesStay
  BY <1>10 DEF WaitTimesOut, InWaitLoop, Return, queueVars, taskVars, NoCall,
    NewCall, NoticesStay, Types
<1>11. ASSUME NEW t \in Threads,
            WaitSleeps(t)
       PROVE  NoticesStay
  BY <1>11 DEF WaitSleeps, InWaitLoop, queueVars, taskVars, NoCall, NewCall,
    NoticesStay, Types
<1>12. ASSUME NEW t \in Threads,
            SliceEnds(t)
       PROVE  NoticesStay
  BY <1>12 DEF SliceEnds, queueVars, taskVars, NoCall, NewCall, NoticesStay,
    Types
<1>13. ASSUME NEW t \in Threads,
            TerminateSetsFlag(t)
       PROVE  NoticesStay
  BY <1>13 DEF TerminateSetsFlag, Return, queueVars, NoCall, NewCall,
    NoticesStay, Types
<1>14. ASSUME NEW t \in Threads,
            DelayEnds(t)
       PROVE  NoticesStay
  BY <1>14 DEF DelayEnds, Return, queueVars, taskVars, NoCall, NewCall,
    NoticesStay, Types
<1>15. ASSUME NEW t \in Threads,
            DeadlinePasses(t)
       PROVE  NoticesStay
  BY <1>15 DEF DeadlinePasses, queueVars, taskVars, NoCall, NewCall,
    NoticesStay, Types
<1>16. ASSUME NEW t \in Threads, NEW new \in Tasks, NEW queue \in Queues \cup {NoQueue},
            MPCreateTask(t, new, queue)
       PROVE  NoticesStay
  BY <1>16 DEF MPCreateTask, queueVars, NoCall, NewCall, NoticesStay, Types
<1>17. ASSUME NEW t \in Threads, NEW target \in Threads, NEW s \in Statuses,
            MPTerminateTask(t, target, s)
       PROVE  NoticesStay
  BY <1>17 DEF MPTerminateTask, Enter, queueVars, NoCall, NewCall,
    NoticesStay, Types
<1>18. ASSUME NEW t \in Threads,
            MPDelayUntil(t)
       PROVE  NoticesStay
  BY <1>18 DEF MPDelayUntil, queueVars, taskVars, NoCall, NewCall,
    NoticesStay, Types
<1>19. ASSUME NEW t \in Tasks, NEW s \in Statuses,
            MPExit(t, s)
       PROVE  NoticesStay
  BY <1>19 DEF MPExit, queueVars, NoCall, NewCall, NoticesStay, Types
<1>20. ASSUME NEW t \in Tasks, NEW s \in Statuses,
            EntryReturns(t, s)
       PROVE  NoticesStay
  BY <1>20 DEF EntryReturns, queueVars, NoCall, NewCall, NoticesStay, Types
<1>21. ASSUME NEW t \in Tasks,
            checkpoint(t)
       PROVE  NoticesStay
  BY <1>21 DEF checkpoint, Leave, queueVars, NoCall, NewCall, NoticesStay,
    Types
<1>22. ASSUME NEW t \in Tasks,
            ExitJumps(t)
       PROVE  NoticesStay
  BY <1>22 DEF ExitJumps, Leave, queueVars, NoCall, NewCall, NoticesStay,
    Types
<1>23. ASSUME NEW t \in Tasks,
            DelayLeaves(t)
       PROVE  NoticesStay
  BY <1>23 DEF DelayLeaves, Leave, queueVars, NoCall, NewCall, NoticesStay,
    Types
<1>24. ASSUME NEW t \in Tasks,
            ReportsEnd(t)
       PROVE  OneNotice'
  <2>1. /\ notify[t] \in Queues /\ queue_post(notify[t], t, TRUE)
        /\ notify' = notify /\ pc[t] = "left"
    BY <1>24 DEF ReportsEnd, taskVars, Types
  <2>6. PICK woken \in Signalled(notify[t]) : pc' = [woken EXCEPT ![t] = "ended"]
    BY <1>24 DEF ReportsEnd
  <2>7. /\ pc'[t] = "ended"
        /\ \A u \in Tasks \ {t} : pc'[u] = "ended" <=> pc[u] = "ended"
    BY <2>6, SignalledPlaces
  <2>2. ASSUME NEW u \in Tasks, NEW p \in Queues, NEW i
        PROVE  i \in DOMAIN sent'[p] /\ IsNotice(u, p, i)'
                 <=> \/ i \in DOMAIN sent[p] /\ IsNotice(u, p, i)
                     \/ p = notify[t] /\ i = Len(sent[notify[t]]) + 1 /\ u = t
    BY <2>1, PostedNotices, ZenonT(60)
  <2>3. ASSUME NEW p \in Queues, NEW i \in DOMAIN sent[p]
        PROVE  ~IsNotice(t, p, i)
    BY <2>1 DEF OneNotice
  <2>8. notify[t] \in Queues
    BY <2>1
  <2>4. \E p \in Queues : \E i \in DOMAIN sent'[p] : IsNotice(t, p, i)'
    BY <2>2, <2>8
  <2>5. NoQueue # notify[t]
    BY <2>1, NullIsNoQueue
  <2> QED
    BY <2>1, <2>2, <2>3, <2>4, <2>5, <2>7 DEF OneNotice
<1>25. ASSUME NEW t \in Tasks,
            EndsUnreported(t)
       PROVE  OneNotice'
  <2>1. /\ notify[t] = NoQueue /\ notify' = notify /\ sent' = sent
        /\ \A u \in Tasks \ {t} : pc'[u] = pc[u]
    BY <1>25 DEF EndsUnreported, queueVars, taskVars, Types
  <2>2. pc[t] = "left" /\ pc'[t] = "ended"
    BY <1>25 DEF EndsUnreported, Types
  <2>3. ASSUME NEW u \in Tasks, NEW p \in Queues, NEW i
        PROVE  IsNotice(u, p, i)' <=> IsNotice(u, p, i)
    BY <2>1 DEF IsNotice
  <2> QED
    BY <2>1, <2>2, <2>3 DEF OneNotice
<1>26. CASE UNCHANGED vars
  BY <1>26 DEF vars, OneNotice, IsNotice
<1> QED
  BY Steps, NoticesStayOneNotice, <1>1, <1>2, <1>3, <1>4, <1>5, <1>6, <1>7,
    <1>8, <1>9, <1>10, <1>11, <1>12, <1>13, <1>14, <1>15, <1>16, <1>17, <1>18,
    <1>19, <1>20, <1>21, <1>22, <1>23, <1>24, <1>25, <1>26

(* EndsAreTold: a task that is out of its entry point has the status its   *)
(* creator is told, and its end is posted once, to the queue its creator   *)
(* named and to no other, by the time it has ended (mp.c, task_main).      *)
THEOREM EndsTold == Spec => []EndsAreTold
<1>1. Init => StatusIsKept /\ OneNotice
  <2>1. Init => StatusIsKept
    BY MainIsThread DEF Init, StatusIsKept, NoCall
  <2>2. Init => OneNotice
    BY MainIsThread, MainIsNoTask DEF Init, OneNotice, IsNotice
  <2> QED
    BY <2>1, <2>2
<1>2. TypeOK /\ StatusIsKept /\ OneNotice /\ [Next]_vars => (StatusIsKept /\ OneNotice)'
  BY StatusIsKeptOnStep, OneNoticeOnStep
<1>3. StatusIsKept /\ OneNotice => EndsAreTold
  BY MainIsThread DEF EndsAreTold, StatusWasGiven, StatusIsKept
<1> QED
  BY <1>1, <1>2, <1>3, TypeCorrect, PTL DEF Spec

-----------------------------------------------------------------------------
(* MPQueue implements the blocking queue of MPQueueAbstract: the mutex,    *)
(* the condition variable, the slices and the tasks of mp.c are invisible  *)
(* to whoever only counts messages and blocked threads.                    *)

(* Whoever names a queue names one that has been created: a queue is freed *)
(* of its messages, and never goes back to not being there.                *)
QueuesExist ==
  /\ \A t \in Threads : call[t].q # NoQueue => life[call[t].q] # "none"
  /\ \A t \in Threads : notify[t] # NoQueue => life[notify[t]] # "none"

(* A step keeps every queue that is there.                                 *)
LEMMA QueuesStay ==
  ASSUME TypeOK, [Next]_vars
  PROVE  \A q \in Queues : life[q] # "none" => life'[q] # "none"
<1>0. Types
  BY DEF TypeOK
<1>1. \/ life' = life
      \/ \E q \in Queues, new \in {"live", "deleted"} :
            life' = [life EXCEPT ![q] = new]
  <2> USE <1>0
  <2>1. ASSUME NEW t \in Threads, DeleteQueue(t)
        PROVE  \E q \in Queues, new \in {"live", "deleted"} :
                  life' = [life EXCEPT ![q] = new]
    BY <2>1 DEF DeleteQueue, TypeOK, CallFits, Types, Calls
  <2> QED
    BY Steps, <2>1, ZenonT(60) DEF vars, MPCreateQueue, MPNotifyQueue, MPDeleteQueue,
      MPWaitOnQueue, NotifyPosts, WaitTakes, WaitFindsDeleted, WaitLeaves,
      WaitTimesOut, WaitSleeps, SliceEnds, TerminateSetsFlag, DelayEnds,
      DeadlinePasses, MPCreateTask, MPTerminateTask, MPDelayUntil, MPExit,
      EntryReturns, checkpoint, ExitJumps, DelayLeaves, ReportsEnd,
      EndsUnreported, Enter, InWaitLoop, Leave, Return, queueVars,
      queue_post, taskVars
<1> QED
  BY <1>0, <1>1 DEF Types

(* A call or a task comes to name a queue only when the queue is there.    *)
LEMMA NamesAreOfQueues ==
  ASSUME TypeOK, [Next]_vars, NEW u \in Threads
  PROVE  /\ call'[u].q \in {NoQueue, call[u].q} \/ life[call'[u].q] # "none"
         /\ notify'[u] \in {NoQueue, notify[u]} \/ life[notify'[u]] # "none"
<1>0. Types /\ Tasks \subseteq Threads
  BY MainIsThread DEF TypeOK
<1>1. notify'[u] \in {NoQueue, notify[u]} \/ life[notify'[u]] # "none"
  <2>1. \/ notify' = notify
        \/ \E new \in Tasks, queue \in Queues \cup {NoQueue} :
              /\ notify' = [notify EXCEPT ![new] = queue]
              /\ queue = NoQueue \/ life[queue] # "none"
    BY Steps, ZenonT(60) DEF vars, DeleteQueue, MPCreateQueue, MPNotifyQueue,
      MPDeleteQueue, MPWaitOnQueue, NotifyPosts, WaitTakes,
      WaitFindsDeleted, WaitLeaves, WaitTimesOut, WaitSleeps, SliceEnds,
      TerminateSetsFlag, DelayEnds, DeadlinePasses, MPCreateTask,
      MPTerminateTask, MPDelayUntil, MPExit, EntryReturns, checkpoint,
      ExitJumps, DelayLeaves, ReportsEnd, EndsUnreported, Enter, InWaitLoop,
      Leave, Return, queueVars, queue_post, taskVars
  <2> QED
    BY <1>0, <2>1 DEF Types
<1> USE <1>0 DEF Types
<1>2. ASSUME NEW t \in Threads, NEW q \in Queues,
            MPCreateQueue(t, q)
       PROVE  call'[u].q \in {NoQueue, call[u].q} \/ life[call'[u].q] # "none"
  BY <1>2 DEF MPCreateQueue, taskVars, NoCall, NewCall, Calls
<1>3. ASSUME NEW t \in Threads, NEW q \in Queues,
            MPNotifyQueue(t, q)
       PROVE  call'[u].q \in {NoQueue, call[u].q} \/ life[call'[u].q] # "none"
  BY <1>3 DEF MPNotifyQueue, Enter, queueVars, taskVars, NoCall, NewCall,
    Calls
<1>4. ASSUME NEW t \in Threads, NEW q \in Queues,
            MPDeleteQueue(t, q)
       PROVE  call'[u].q \in {NoQueue, call[u].q} \/ life[call'[u].q] # "none"
  BY <1>4 DEF MPDeleteQueue, Enter, queueVars, taskVars, NoCall, NewCall,
    Calls
<1>5. ASSUME NEW t \in Threads, NEW q \in Queues, NEW duration \in Durations,
            MPWaitOnQueue(t, q, duration)
       PROVE  call'[u].q \in {NoQueue, call[u].q} \/ life[call'[u].q] # "none"
  BY <1>5 DEF MPWaitOnQueue, Enter, queueVars, taskVars, NoCall, NewCall,
    Calls
<1>6. ASSUME NEW t \in Threads,
            NotifyPosts(t)
       PROVE  call'[u].q \in {NoQueue, call[u].q} \/ life[call'[u].q] # "none"
  BY <1>6 DEF NotifyPosts, queue_post, taskVars, NoCall, NewCall, Calls
<1>7. ASSUME NEW t \in Threads,
            DeleteQueue(t)
       PROVE  call'[u].q \in {NoQueue, call[u].q} \/ life[call'[u].q] # "none"
  BY <1>7 DEF DeleteQueue, taskVars, NoCall, NewCall, Calls
<1>8. ASSUME NEW t \in Threads,
            WaitTakes(t)
       PROVE  call'[u].q \in {NoQueue, call[u].q} \/ life[call'[u].q] # "none"
  BY <1>8 DEF WaitTakes, InWaitLoop, Return, taskVars, NoCall, NewCall, Calls
<1>9. ASSUME NEW t \in Threads,
            WaitFindsDeleted(t)
       PROVE  call'[u].q \in {NoQueue, call[u].q} \/ life[call'[u].q] # "none"
  BY <1>9 DEF WaitFindsDeleted, InWaitLoop, Return, queueVars, taskVars,
    NoCall, NewCall, Calls
<1>10. ASSUME NEW t \in Threads,
            WaitLeaves(t)
       PROVE  call'[u].q \in {NoQueue, call[u].q} \/ life[call'[u].q] # "none"
  BY <1>10 DEF WaitLeaves, InWaitLoop, Leave, queueVars, NoCall, NewCall,
    Calls
<1>11. ASSUME NEW t \in Threads,
            WaitTimesOut(t)
       PROVE  call'[u].q \in {NoQueue, call[u].q} \/ life[call'[u].q] # "none"
  BY <1>11 DEF WaitTimesOut, InWaitLoop, Return, queueVars, taskVars, NoCall,
    NewCall, Calls
<1>12. ASSUME NEW t \in Threads,
            WaitSleeps(t)
       PROVE  call'[u].q \in {NoQueue, call[u].q} \/ life[call'[u].q] # "none"
  BY <1>12 DEF WaitSleeps, InWaitLoop, queueVars, taskVars, NoCall, NewCall,
    Calls
<1>13. ASSUME NEW t \in Threads,
            SliceEnds(t)
       PROVE  call'[u].q \in {NoQueue, call[u].q} \/ life[call'[u].q] # "none"
  BY <1>13 DEF SliceEnds, queueVars, taskVars, NoCall, NewCall, Calls
<1>14. ASSUME NEW t \in Threads,
            TerminateSetsFlag(t)
       PROVE  call'[u].q \in {NoQueue, call[u].q} \/ life[call'[u].q] # "none"
  <2>1. call' = [call EXCEPT ![t] = NoCall(t)]
    BY <1>14 DEF TerminateSetsFlag, Return
  <2> QED
    BY <2>1 DEF NoCall
<1>15. ASSUME NEW t \in Threads,
            DelayEnds(t)
       PROVE  call'[u].q \in {NoQueue, call[u].q} \/ life[call'[u].q] # "none"
  BY <1>15 DEF DelayEnds, Return, queueVars, taskVars, NoCall, NewCall, Calls
<1>16. ASSUME NEW t \in Threads,
            DeadlinePasses(t)
       PROVE  call'[u].q \in {NoQueue, call[u].q} \/ life[call'[u].q] # "none"
  BY <1>16 DEF DeadlinePasses, queueVars, taskVars, NoCall, NewCall, Calls
<1>17. ASSUME NEW t \in Threads, NEW new \in Tasks, NEW queue \in Queues \cup {NoQueue},
            MPCreateTask(t, new, queue)
       PROVE  call'[u].q \in {NoQueue, call[u].q} \/ life[call'[u].q] # "none"
  BY <1>17 DEF MPCreateTask, queueVars, NoCall, NewCall, Calls
<1>18. ASSUME NEW t \in Threads, NEW target \in Threads, NEW s \in Statuses,
            MPTerminateTask(t, target, s)
       PROVE  call'[u].q \in {NoQueue, call[u].q} \/ life[call'[u].q] # "none"
  BY <1>18 DEF MPTerminateTask, Enter, queueVars, NoCall, NewCall, Calls
<1>19. ASSUME NEW t \in Threads,
            MPDelayUntil(t)
       PROVE  call'[u].q \in {NoQueue, call[u].q} \/ life[call'[u].q] # "none"
  BY <1>19 DEF MPDelayUntil, queueVars, taskVars, NoCall, NewCall, Calls
<1>20. ASSUME NEW t \in Tasks, NEW s \in Statuses,
            MPExit(t, s)
       PROVE  call'[u].q \in {NoQueue, call[u].q} \/ life[call'[u].q] # "none"
  BY <1>20 DEF MPExit, queueVars, NoCall, NewCall, Calls
<1>21. ASSUME NEW t \in Tasks, NEW s \in Statuses,
            EntryReturns(t, s)
       PROVE  call'[u].q \in {NoQueue, call[u].q} \/ life[call'[u].q] # "none"
  BY <1>21 DEF EntryReturns, queueVars, NoCall, NewCall, Calls
<1>22. ASSUME NEW t \in Tasks,
            checkpoint(t)
       PROVE  call'[u].q \in {NoQueue, call[u].q} \/ life[call'[u].q] # "none"
  BY <1>22 DEF checkpoint, Leave, queueVars, NoCall, NewCall, Calls
<1>23. ASSUME NEW t \in Tasks,
            ExitJumps(t)
       PROVE  call'[u].q \in {NoQueue, call[u].q} \/ life[call'[u].q] # "none"
  BY <1>23 DEF ExitJumps, Leave, queueVars, NoCall, NewCall, Calls
<1>24. ASSUME NEW t \in Tasks,
            DelayLeaves(t)
       PROVE  call'[u].q \in {NoQueue, call[u].q} \/ life[call'[u].q] # "none"
  BY <1>24 DEF DelayLeaves, Leave, queueVars, NoCall, NewCall, Calls
<1>25. ASSUME NEW t \in Tasks,
            ReportsEnd(t)
       PROVE  call'[u].q \in {NoQueue, call[u].q} \/ life[call'[u].q] # "none"
  BY <1>25 DEF ReportsEnd, queue_post, taskVars, NoCall, NewCall, Calls
<1>26. ASSUME NEW t \in Tasks,
            EndsUnreported(t)
       PROVE  call'[u].q \in {NoQueue, call[u].q} \/ life[call'[u].q] # "none"
  BY <1>26 DEF EndsUnreported, queueVars, taskVars, NoCall, NewCall, Calls
<1>27. CASE UNCHANGED vars
  BY <1>27 DEF vars
<1> QED
  BY Steps, <1>1, <1>2, <1>3, <1>4, <1>5, <1>6, <1>7, <1>8, <1>9, <1>10,
    <1>11, <1>12, <1>13, <1>14, <1>15, <1>16, <1>17, <1>18, <1>19, <1>20,
    <1>21, <1>22, <1>23, <1>24, <1>25, <1>26, <1>27

(* So every name stays the name of a queue that is or was there.           *)
LEMMA QueuesExistOnStep ==
  ASSUME TypeOK, TypeOK', QueuesExist, [Next]_vars PROVE QueuesExist'
<1>0. /\ \A u \in Threads : call'[u].q \in Queues \cup {NoQueue}
      /\ \A u \in Threads : notify'[u] \in Queues \cup {NoQueue}
      /\ \A q \in Queues : life[q] # "none" => life'[q] # "none"
  BY QueuesStay DEF TypeOK, Types, Calls
<1> QED
  BY <1>0, NamesAreOfQueues DEF QueuesExist

(* What a thread waits for, and whether it may give up, told from its call *)
(* alone: in a typed state its place says nothing more.                    *)
WaitsOn(t) == IF call[t].op = "wait" THEN call[t].q ELSE NoQueue
HasReason(t) ==
  call[t].op = "wait" /\ (call[t].deadline = "passed" \/ terminate[t])

CallsSay ==
  /\ BlockedOn = [t \in Threads |-> WaitsOn(t)]
  /\ MayGiveUp = {t \in Threads : HasReason(t)}

(* CallsSay holds in every typed state.                                    *)
LEMMA CallsTell == TypeOK => CallsSay
<1> SUFFICES ASSUME TypeOK PROVE CallsSay
  OBVIOUS
<1>1. \A t \in Threads : Waiting(t) <=> call[t].op = "wait"
  BY DEF TypeOK, CallFits, Waiting
<1>2. \A t \in Threads : HasReason(t)
        <=> Waiting(t) /\ (call[t].deadline = "passed" \/ terminate[t])
  BY <1>1 DEF HasReason
<1> QED
  BY <1>1, <1>2 DEF CallsSay, BlockedOn, MayGiveUp, WaitsOn

(* A step that changes what at most one thread waits for changes that      *)
(* thread's entry of the mapped functions.                                 *)
LEMMA OneWaiterChanges ==
  ASSUME TypeOK, TypeOK', NEW t \in Threads,
         \A u \in Threads \ {t} : /\ WaitsOn(u)' = WaitsOn(u)
                                  /\ HasReason(u)' <=> HasReason(u)
  PROVE  /\ BlockedOn' = [BlockedOn EXCEPT ![t] = WaitsOn(t)']
         /\ MayGiveUp' = {u \in Threads  :
                          IF u = t THEN HasReason(t)' ELSE u \in MayGiveUp}
<1>1. CallsSay /\ CallsSay'
  BY CallsTell, PTL
<1> QED
  BY <1>1 DEF CallsSay


(* A post appends one of the messages.                                     *)
LEMMA PostedMessage ==
  ASSUME Types, NEW q \in Queues, NEW t \in Threads, NEW notice \in BOOLEAN,
         queue_post(q, t, notice)
  PROVE  \E m \in Messages : msgs' = [msgs EXCEPT ![q] = Append(@, m)]
<1> DEFINE m == [from |-> t, n |-> Len(sent[q]) + 1, notice |-> notice]
<1>1. m \in Messages
  BY BoundIsNat DEF Types, queue_post, Messages
<1> QED
  BY <1>1 DEF queue_post

(* Each step of mp.c is one step of the abstract queue, or none of its     *)
(* business.                                                               *)
LEMMA StepMaps ==
  ASSUME TypeOK, TypeOK', QueuesExist, [Next]_vars
  PROVE  [Abstract!ANext]_(Abstract!avars)
<1>0. /\ Types /\ (\A u \in Threads : CallFits(u)) /\ Tasks \subseteq Threads
      /\ CallsSay /\ CallsSay'
  <2>1. CallsSay /\ CallsSay'
    BY CallsTell, PTL
  <2> QED
    BY <2>1, MainIsThread DEF TypeOK
<1> USE <1>0 DEF Types
<1>1. ASSUME NEW t \in Threads, NEW q \in Queues,
            MPCreateQueue(t, q)
       PROVE  [Abstract!ANext]_(Abstract!avars)
  <2>1. \A u \in Threads :
          WaitsOn(u)' = WaitsOn(u) /\ (HasReason(u)' <=> HasReason(u))
    BY <1>1 DEF MPCreateQueue, taskVars, NoCall, NewCall, Calls, CallFits,
      WaitsOn, HasReason
  <2>2. BlockedOn' = BlockedOn /\ MayGiveUp' = MayGiveUp
    BY <2>1 DEF CallsSay
  <2>9. Abstract!Create(q)
    BY <1>1, <2>2 DEF MPCreateQueue, taskVars, NoCall, NewCall, Calls,
      CallFits, Abstract!Create
  <2> QED
    BY <2>9 DEF Abstract!ANext
<1>2. ASSUME NEW t \in Threads, NEW q \in Queues,
            MPNotifyQueue(t, q)
       PROVE  [Abstract!ANext]_(Abstract!avars)
  <2>1. \A u \in Threads :
          WaitsOn(u)' = WaitsOn(u) /\ (HasReason(u)' <=> HasReason(u))
    BY <1>2 DEF MPNotifyQueue, Enter, queueVars, taskVars, NoCall, NewCall,
      Calls, CallFits, WaitsOn, HasReason
  <2>2. BlockedOn' = BlockedOn /\ MayGiveUp' = MayGiveUp
    BY <2>1 DEF CallsSay
  <2> QED
    BY <1>2, <2>2 DEF MPNotifyQueue, Enter, queueVars, taskVars, NoCall,
      NewCall, Calls, CallFits, Abstract!avars
<1>3. ASSUME NEW t \in Threads, NEW q \in Queues,
            MPDeleteQueue(t, q)
       PROVE  [Abstract!ANext]_(Abstract!avars)
  <2>1. \A u \in Threads :
          WaitsOn(u)' = WaitsOn(u) /\ (HasReason(u)' <=> HasReason(u))
    BY <1>3 DEF MPDeleteQueue, Enter, queueVars, taskVars, NoCall, NewCall,
      Calls, CallFits, WaitsOn, HasReason
  <2>2. BlockedOn' = BlockedOn /\ MayGiveUp' = MayGiveUp
    BY <2>1 DEF CallsSay
  <2> QED
    BY <1>3, <2>2 DEF MPDeleteQueue, Enter, queueVars, taskVars, NoCall,
      NewCall, Calls, CallFits, Abstract!avars
<1>4. ASSUME NEW t \in Threads, NEW q \in Queues, NEW duration \in Durations,
            MPWaitOnQueue(t, q, duration)
       PROVE  [Abstract!ANext]_(Abstract!avars)
  <2>1. \A u \in Threads \ {t} :
          WaitsOn(u)' = WaitsOn(u) /\ (HasReason(u)' <=> HasReason(u))
    BY <1>4 DEF MPWaitOnQueue, Enter, queueVars, taskVars, NoCall, NewCall,
      Calls, CallFits, WaitsOn, HasReason
  <2>2. /\ BlockedOn' = [BlockedOn EXCEPT ![t] = WaitsOn(t)']
        /\ MayGiveUp' = {u \in Threads  :
                          IF u = t THEN HasReason(t)' ELSE u \in MayGiveUp}
    BY <2>1, OneWaiterChanges
  <2>3. /\ life[q] = "live" /\ life' = life /\ msgs' = msgs
        /\ call[t].op = "none" /\ WaitsOn(t)' = q
    BY <1>4 DEF MPWaitOnQueue, Enter, queueVars, NewCall, CallFits, Calls, WaitsOn
  <2>4. BlockedOn[t] = NoQueue /\ t \notin MayGiveUp
    BY <2>3 DEF CallsSay, WaitsOn, HasReason
  <2>5. MayGiveUp' \in {MayGiveUp, MayGiveUp \cup {t}}
    BY <2>2, <2>4 DEF CallsSay
  <2>9. Abstract!Block(t, q)
    BY <2>2, <2>3, <2>4, <2>5 DEF Abstract!Block
  <2> QED
    BY <2>9 DEF Abstract!ANext
<1>5. ASSUME NEW t \in Threads,
            NotifyPosts(t)
       PROVE  [Abstract!ANext]_(Abstract!avars)
  <2>1. \A u \in Threads :
          WaitsOn(u)' = WaitsOn(u) /\ (HasReason(u)' <=> HasReason(u))
    BY <1>5 DEF NotifyPosts, queue_post, taskVars, NoCall, NewCall, Calls,
      CallFits, WaitsOn, HasReason
  <2>2. BlockedOn' = BlockedOn /\ MayGiveUp' = MayGiveUp
    BY <2>1 DEF CallsSay
  <2>3. /\ call[t].q \in Queues /\ queue_post(call[t].q, t, FALSE)
    BY <1>5 DEF NotifyPosts, CallFits, Calls
  <2>4. life[call[t].q] # "none"
    BY <2>3, NullIsNoQueue DEF QueuesExist
  <2>5. \E m \in Messages : msgs' = [msgs EXCEPT ![call[t].q] = Append(@, m)]
    BY <2>3, <1>0, PostedMessage
  <2>6. life' = life
    BY <2>3 DEF queue_post
  <2>9. Abstract!Post(call[t].q)
    BY <2>2, <2>4, <2>5, <2>6 DEF Abstract!Post
  <2> QED
    BY <2>9, <2>3 DEF Abstract!ANext
<1>6. ASSUME NEW t \in Threads,
            DeleteQueue(t)
       PROVE  [Abstract!ANext]_(Abstract!avars)
  <2>1. \A u \in Threads :
          WaitsOn(u)' = WaitsOn(u) /\ (HasReason(u)' <=> HasReason(u))
    BY <1>6 DEF DeleteQueue, taskVars, NoCall, NewCall, Calls, CallFits,
      WaitsOn, HasReason
  <2>2. BlockedOn' = BlockedOn /\ MayGiveUp' = MayGiveUp
    BY <2>1 DEF CallsSay
  <2>3. /\ call[t].q \in Queues /\ life' = [life EXCEPT ![call[t].q] = "deleted"]
        /\ msgs' = [msgs EXCEPT ![call[t].q] = <<>>]
    BY <1>6 DEF DeleteQueue, CallFits, Calls
  <2>4. life[call[t].q] # "none"
    BY <2>3, NullIsNoQueue DEF QueuesExist
  <2>9. Abstract!Delete(call[t].q)
    BY <2>2, <2>3, <2>4 DEF Abstract!Delete
  <2> QED
    BY <2>9, <2>3 DEF Abstract!ANext
<1>7. ASSUME NEW t \in Threads,
            WaitTakes(t)
       PROVE  [Abstract!ANext]_(Abstract!avars)
  <2>1. \A u \in Threads \ {t} :
          WaitsOn(u)' = WaitsOn(u) /\ (HasReason(u)' <=> HasReason(u))
    BY <1>7 DEF WaitTakes, InWaitLoop, Return, taskVars, NoCall, NewCall,
      Calls, CallFits, WaitsOn, HasReason
  <2>2. /\ BlockedOn' = [BlockedOn EXCEPT ![t] = WaitsOn(t)']
        /\ MayGiveUp' = {u \in Threads  :
                          IF u = t THEN HasReason(t)' ELSE u \in MayGiveUp}
    BY <2>1, OneWaiterChanges
  <2>3. /\ call[t].op = "wait" /\ call[t].q \in Queues /\ msgs[call[t].q] # <<>>
        /\ msgs' = [msgs EXCEPT ![call[t].q] = Tail(@)] /\ life' = life
        /\ WaitsOn(t)' = NoQueue /\ ~HasReason(t)'
    BY <1>7 DEF WaitTakes, InWaitLoop, Empty, Return, NoCall, Calls, CallFits,
      WaitsOn, HasReason
  <2>4. BlockedOn[t] = call[t].q /\ call[t].q # NoQueue
    BY <2>3, NullIsNoQueue DEF CallsSay, WaitsOn
  <2>5. BlockedOn' = [BlockedOn EXCEPT ![t] = NoQueue] /\ MayGiveUp' = MayGiveUp \ {t}
    BY <2>2, <2>3 DEF CallsSay
  <2>9. Abstract!Receive(t)
    BY <2>3, <2>4, <2>5 DEF Abstract!Receive
  <2> QED
    BY <2>9 DEF Abstract!ANext
<1>8. ASSUME NEW t \in Threads,
            WaitFindsDeleted(t)
       PROVE  [Abstract!ANext]_(Abstract!avars)
  <2>1. \A u \in Threads \ {t} :
          WaitsOn(u)' = WaitsOn(u) /\ (HasReason(u)' <=> HasReason(u))
    BY <1>8 DEF WaitFindsDeleted, InWaitLoop, Return, queueVars, taskVars,
      NoCall, NewCall, Calls, CallFits, WaitsOn, HasReason
  <2>2. /\ BlockedOn' = [BlockedOn EXCEPT ![t] = WaitsOn(t)']
        /\ MayGiveUp' = {u \in Threads  :
                          IF u = t THEN HasReason(t)' ELSE u \in MayGiveUp}
    BY <2>1, OneWaiterChanges
  <2>3. /\ call[t].op = "wait" /\ call[t].q \in Queues /\ msgs[call[t].q] = <<>>
        /\ msgs' = msgs /\ life' = life
        /\ life[call[t].q] = "deleted"
        /\ WaitsOn(t)' = NoQueue /\ ~HasReason(t)'
    BY <1>8 DEF WaitFindsDeleted, InWaitLoop, Empty, Return, NoCall, Calls,
      CallFits, WaitsOn, HasReason, queueVars
  <2>4. BlockedOn[t] = call[t].q /\ call[t].q # NoQueue
    BY <2>3, NullIsNoQueue DEF CallsSay, WaitsOn
  <2>5. BlockedOn' = [BlockedOn EXCEPT ![t] = NoQueue] /\ MayGiveUp' = MayGiveUp \ {t}
    BY <2>2, <2>3 DEF CallsSay
  <2>6. t \in MayGiveUp \/ life[BlockedOn[t]] = "deleted"
    BY <2>3, <2>4 DEF CallsSay, HasReason
  <2>9. Abstract!GiveUp(t)
    BY <2>3, <2>4, <2>5, <2>6 DEF Abstract!GiveUp
  <2> QED
    BY <2>9 DEF Abstract!ANext
<1>9. ASSUME NEW t \in Threads,
            WaitLeaves(t)
       PROVE  [Abstract!ANext]_(Abstract!avars)
  <2>1. \A u \in Threads \ {t} :
          WaitsOn(u)' = WaitsOn(u) /\ (HasReason(u)' <=> HasReason(u))
    BY <1>9 DEF WaitLeaves, InWaitLoop, Leave, queueVars, NoCall, NewCall,
      Calls, CallFits, WaitsOn, HasReason
  <2>2. /\ BlockedOn' = [BlockedOn EXCEPT ![t] = WaitsOn(t)']
        /\ MayGiveUp' = {u \in Threads  :
                          IF u = t THEN HasReason(t)' ELSE u \in MayGiveUp}
    BY <2>1, OneWaiterChanges
  <2>3. /\ call[t].op = "wait" /\ call[t].q \in Queues /\ msgs[call[t].q] = <<>>
        /\ msgs' = msgs /\ life' = life
        /\ terminate[t]
        /\ WaitsOn(t)' = NoQueue /\ ~HasReason(t)'
    BY <1>9 DEF WaitLeaves, InWaitLoop, Empty, Leave, NoCall, Calls,
      CallFits, WaitsOn, HasReason, queueVars
  <2>4. BlockedOn[t] = call[t].q /\ call[t].q # NoQueue
    BY <2>3, NullIsNoQueue DEF CallsSay, WaitsOn
  <2>5. BlockedOn' = [BlockedOn EXCEPT ![t] = NoQueue] /\ MayGiveUp' = MayGiveUp \ {t}
    BY <2>2, <2>3 DEF CallsSay
  <2>6. t \in MayGiveUp \/ life[BlockedOn[t]] = "deleted"
    BY <2>3, <2>4 DEF CallsSay, HasReason
  <2>9. Abstract!GiveUp(t)
    BY <2>3, <2>4, <2>5, <2>6 DEF Abstract!GiveUp
  <2> QED
    BY <2>9 DEF Abstract!ANext
<1>10. ASSUME NEW t \in Threads,
            WaitTimesOut(t)
       PROVE  [Abstract!ANext]_(Abstract!avars)
  <2>1. \A u \in Threads \ {t} :
          WaitsOn(u)' = WaitsOn(u) /\ (HasReason(u)' <=> HasReason(u))
    BY <1>10 DEF WaitTimesOut, InWaitLoop, Return, queueVars, taskVars,
      NoCall, NewCall, Calls, CallFits, WaitsOn, HasReason
  <2>2. /\ BlockedOn' = [BlockedOn EXCEPT ![t] = WaitsOn(t)']
        /\ MayGiveUp' = {u \in Threads  :
                          IF u = t THEN HasReason(t)' ELSE u \in MayGiveUp}
    BY <2>1, OneWaiterChanges
  <2>3. /\ call[t].op = "wait" /\ call[t].q \in Queues /\ msgs[call[t].q] = <<>>
        /\ msgs' = msgs /\ life' = life
        /\ call[t].deadline = "passed"
        /\ WaitsOn(t)' = NoQueue /\ ~HasReason(t)'
    BY <1>10 DEF WaitTimesOut, InWaitLoop, Empty, Return, NoCall, Calls,
      CallFits, WaitsOn, HasReason, queueVars
  <2>4. BlockedOn[t] = call[t].q /\ call[t].q # NoQueue
    BY <2>3, NullIsNoQueue DEF CallsSay, WaitsOn
  <2>5. BlockedOn' = [BlockedOn EXCEPT ![t] = NoQueue] /\ MayGiveUp' = MayGiveUp \ {t}
    BY <2>2, <2>3 DEF CallsSay
  <2>6. t \in MayGiveUp \/ life[BlockedOn[t]] = "deleted"
    BY <2>3, <2>4 DEF CallsSay, HasReason
  <2>9. Abstract!GiveUp(t)
    BY <2>3, <2>4, <2>5, <2>6 DEF Abstract!GiveUp
  <2> QED
    BY <2>9 DEF Abstract!ANext
<1>11. ASSUME NEW t \in Threads,
            WaitSleeps(t)
       PROVE  [Abstract!ANext]_(Abstract!avars)
  <2>1. \A u \in Threads :
          WaitsOn(u)' = WaitsOn(u) /\ (HasReason(u)' <=> HasReason(u))
    BY <1>11 DEF WaitSleeps, InWaitLoop, queueVars, taskVars, NoCall, NewCall,
      Calls, CallFits, WaitsOn, HasReason
  <2>2. BlockedOn' = BlockedOn /\ MayGiveUp' = MayGiveUp
    BY <2>1 DEF CallsSay
  <2> QED
    BY <1>11, <2>2 DEF WaitSleeps, InWaitLoop, queueVars, taskVars, NoCall,
      NewCall, Calls, CallFits, Abstract!avars
<1>12. ASSUME NEW t \in Threads,
            SliceEnds(t)
       PROVE  [Abstract!ANext]_(Abstract!avars)
  <2>1. \A u \in Threads :
          WaitsOn(u)' = WaitsOn(u) /\ (HasReason(u)' <=> HasReason(u))
    BY <1>12 DEF SliceEnds, queueVars, taskVars, NoCall, NewCall, Calls,
      CallFits, WaitsOn, HasReason
  <2>2. BlockedOn' = BlockedOn /\ MayGiveUp' = MayGiveUp
    BY <2>1 DEF CallsSay
  <2> QED
    BY <1>12, <2>2 DEF SliceEnds, queueVars, taskVars, NoCall, NewCall, Calls,
      CallFits, Abstract!avars
<1>13. ASSUME NEW t \in Threads,
            TerminateSetsFlag(t)
       PROVE  [Abstract!ANext]_(Abstract!avars)
  <2> DEFINE target == call[t].target
  <2>1. /\ target \in Threads /\ call' = [call EXCEPT ![t] = NoCall(t)]
        /\ terminate' = [terminate EXCEPT ![target] = TRUE]
        /\ life' = life /\ msgs' = msgs /\ call[t].op = "terminate"
    BY <1>13 DEF TerminateSetsFlag, Return, queueVars, Calls
  <2>2. \A u \in Threads : WaitsOn(u)' = WaitsOn(u)
    BY <2>1 DEF WaitsOn, NoCall
  <2>3. \A u \in Threads : /\ HasReason(u)' => HasReason(u) \/ u = target
                           /\ HasReason(u) => HasReason(u)'
    <3> HIDE DEF target
    <3> QED
      BY <2>1 DEF HasReason, NoCall
  <2>4. BlockedOn' = BlockedOn
    BY <2>2 DEF CallsSay
  <2>5. MayGiveUp' = MayGiveUp \/ (target \notin MayGiveUp /\ MayGiveUp' = MayGiveUp \cup {target})
    <3> HIDE DEF target
    <3> QED
      BY <2>1, <2>3 DEF CallsSay
  <2>9. Abstract!GetReason(call[t].target) \/ UNCHANGED Abstract!avars
    BY <2>1, <2>4, <2>5 DEF Abstract!GetReason, Abstract!avars
  <2> QED
    BY <2>9, <2>1 DEF Abstract!ANext
<1>14. ASSUME NEW t \in Threads,
            DelayEnds(t)
       PROVE  [Abstract!ANext]_(Abstract!avars)
  <2>1. \A u \in Threads :
          WaitsOn(u)' = WaitsOn(u) /\ (HasReason(u)' <=> HasReason(u))
    BY <1>14 DEF DelayEnds, Return, queueVars, taskVars, NoCall, NewCall,
      Calls, CallFits, WaitsOn, HasReason
  <2>2. BlockedOn' = BlockedOn /\ MayGiveUp' = MayGiveUp
    BY <2>1 DEF CallsSay
  <2> QED
    BY <1>14, <2>2 DEF DelayEnds, Return, queueVars, taskVars, NoCall,
      NewCall, Calls, CallFits, Abstract!avars
<1>15. ASSUME NEW t \in Threads,
            DeadlinePasses(t)
       PROVE  [Abstract!ANext]_(Abstract!avars)
  <2>1. \A u \in Threads \ {t} :
          WaitsOn(u)' = WaitsOn(u) /\ (HasReason(u)' <=> HasReason(u))
    BY <1>15 DEF DeadlinePasses, queueVars, taskVars, NoCall, NewCall, Calls,
      CallFits, WaitsOn, HasReason
  <2>2. /\ BlockedOn' = [BlockedOn EXCEPT ![t] = WaitsOn(t)']
        /\ MayGiveUp' = {u \in Threads  :
                          IF u = t THEN HasReason(t)' ELSE u \in MayGiveUp}
    BY <2>1, OneWaiterChanges
  <2>9. Abstract!GetReason(t) \/ UNCHANGED Abstract!avars
    BY <1>15, <2>2, NullIsNoQueue DEF DeadlinePasses, queueVars, taskVars,
      NoCall, NewCall, Calls, CallFits, WaitsOn, HasReason, CallsSay,
      Abstract!GetReason, Abstract!avars
  <2> QED
    BY <2>9 DEF Abstract!ANext
<1>16. ASSUME NEW t \in Threads, NEW new \in Tasks, NEW queue \in Queues \cup {NoQueue},
            MPCreateTask(t, new, queue)
       PROVE  [Abstract!ANext]_(Abstract!avars)
  <2>1. \A u \in Threads :
          WaitsOn(u)' = WaitsOn(u) /\ (HasReason(u)' <=> HasReason(u))
    BY <1>16 DEF MPCreateTask, queueVars, NoCall, NewCall, Calls, CallFits,
      WaitsOn, HasReason
  <2>2. BlockedOn' = BlockedOn /\ MayGiveUp' = MayGiveUp
    BY <2>1 DEF CallsSay
  <2> QED
    BY <1>16, <2>2 DEF MPCreateTask, queueVars, NoCall, NewCall, Calls,
      CallFits, Abstract!avars
<1>17. ASSUME NEW t \in Threads, NEW target \in Threads, NEW s \in Statuses,
            MPTerminateTask(t, target, s)
       PROVE  [Abstract!ANext]_(Abstract!avars)
  <2>1. \A u \in Threads :
          WaitsOn(u)' = WaitsOn(u) /\ (HasReason(u)' <=> HasReason(u))
    BY <1>17 DEF MPTerminateTask, Enter, queueVars, NoCall, NewCall, Calls,
      CallFits, WaitsOn, HasReason
  <2>2. BlockedOn' = BlockedOn /\ MayGiveUp' = MayGiveUp
    BY <2>1 DEF CallsSay
  <2> QED
    BY <1>17, <2>2 DEF MPTerminateTask, Enter, queueVars, NoCall, NewCall,
      Calls, CallFits, Abstract!avars
<1>18. ASSUME NEW t \in Threads,
            MPDelayUntil(t)
       PROVE  [Abstract!ANext]_(Abstract!avars)
  <2>1. \A u \in Threads :
          WaitsOn(u)' = WaitsOn(u) /\ (HasReason(u)' <=> HasReason(u))
    BY <1>18 DEF MPDelayUntil, queueVars, taskVars, NoCall, NewCall, Calls,
      CallFits, WaitsOn, HasReason
  <2>2. BlockedOn' = BlockedOn /\ MayGiveUp' = MayGiveUp
    BY <2>1 DEF CallsSay
  <2> QED
    BY <1>18, <2>2 DEF MPDelayUntil, queueVars, taskVars, NoCall, NewCall,
      Calls, CallFits, Abstract!avars
<1>19. ASSUME NEW t \in Tasks, NEW s \in Statuses,
            MPExit(t, s)
       PROVE  [Abstract!ANext]_(Abstract!avars)
  <2>1. \A u \in Threads :
          WaitsOn(u)' = WaitsOn(u) /\ (HasReason(u)' <=> HasReason(u))
    BY <1>19 DEF MPExit, queueVars, NoCall, NewCall, Calls, CallFits, WaitsOn,
      HasReason
  <2>2. BlockedOn' = BlockedOn /\ MayGiveUp' = MayGiveUp
    BY <2>1 DEF CallsSay
  <2> QED
    BY <1>19, <2>2 DEF MPExit, queueVars, NoCall, NewCall, Calls, CallFits,
      Abstract!avars
<1>20. ASSUME NEW t \in Tasks, NEW s \in Statuses,
            EntryReturns(t, s)
       PROVE  [Abstract!ANext]_(Abstract!avars)
  <2>1. \A u \in Threads :
          WaitsOn(u)' = WaitsOn(u) /\ (HasReason(u)' <=> HasReason(u))
    BY <1>20 DEF EntryReturns, queueVars, NoCall, NewCall, Calls, CallFits,
      WaitsOn, HasReason
  <2>2. BlockedOn' = BlockedOn /\ MayGiveUp' = MayGiveUp
    BY <2>1 DEF CallsSay
  <2> QED
    BY <1>20, <2>2 DEF EntryReturns, queueVars, NoCall, NewCall, Calls,
      CallFits, Abstract!avars
<1>21. ASSUME NEW t \in Tasks,
            checkpoint(t)
       PROVE  [Abstract!ANext]_(Abstract!avars)
  <2>1. \A u \in Threads :
          WaitsOn(u)' = WaitsOn(u) /\ (HasReason(u)' <=> HasReason(u))
    BY <1>21 DEF checkpoint, Leave, queueVars, NoCall, NewCall, Calls,
      CallFits, WaitsOn, HasReason
  <2>2. BlockedOn' = BlockedOn /\ MayGiveUp' = MayGiveUp
    BY <2>1 DEF CallsSay
  <2> QED
    BY <1>21, <2>2 DEF checkpoint, Leave, queueVars, NoCall, NewCall, Calls,
      CallFits, Abstract!avars
<1>22. ASSUME NEW t \in Tasks,
            ExitJumps(t)
       PROVE  [Abstract!ANext]_(Abstract!avars)
  <2>1. \A u \in Threads :
          WaitsOn(u)' = WaitsOn(u) /\ (HasReason(u)' <=> HasReason(u))
    BY <1>22 DEF ExitJumps, Leave, queueVars, NoCall, NewCall, Calls,
      CallFits, WaitsOn, HasReason
  <2>2. BlockedOn' = BlockedOn /\ MayGiveUp' = MayGiveUp
    BY <2>1 DEF CallsSay
  <2> QED
    BY <1>22, <2>2 DEF ExitJumps, Leave, queueVars, NoCall, NewCall, Calls,
      CallFits, Abstract!avars
<1>23. ASSUME NEW t \in Tasks,
            DelayLeaves(t)
       PROVE  [Abstract!ANext]_(Abstract!avars)
  <2>1. \A u \in Threads :
          WaitsOn(u)' = WaitsOn(u) /\ (HasReason(u)' <=> HasReason(u))
    BY <1>23 DEF DelayLeaves, Leave, queueVars, NoCall, NewCall, Calls,
      CallFits, WaitsOn, HasReason
  <2>2. BlockedOn' = BlockedOn /\ MayGiveUp' = MayGiveUp
    BY <2>1 DEF CallsSay
  <2> QED
    BY <1>23, <2>2 DEF DelayLeaves, Leave, queueVars, NoCall, NewCall, Calls,
      CallFits, Abstract!avars
<1>24. ASSUME NEW t \in Tasks,
            ReportsEnd(t)
       PROVE  [Abstract!ANext]_(Abstract!avars)
  <2>1. \A u \in Threads :
          WaitsOn(u)' = WaitsOn(u) /\ (HasReason(u)' <=> HasReason(u))
    BY <1>24 DEF ReportsEnd, queue_post, taskVars, NoCall, NewCall, Calls,
      CallFits, WaitsOn, HasReason
  <2>2. BlockedOn' = BlockedOn /\ MayGiveUp' = MayGiveUp
    BY <2>1 DEF CallsSay
  <2>3. /\ notify[t] \in Queues /\ queue_post(notify[t], t, TRUE)
    BY <1>24 DEF ReportsEnd, CallFits, Calls
  <2>4. life[notify[t]] # "none"
    BY <2>3, NullIsNoQueue DEF QueuesExist
  <2>5. \E m \in Messages : msgs' = [msgs EXCEPT ![notify[t]] = Append(@, m)]
    BY <2>3, <1>0, PostedMessage
  <2>6. life' = life
    BY <2>3 DEF queue_post
  <2>9. Abstract!Post(notify[t])
    BY <2>2, <2>4, <2>5, <2>6 DEF Abstract!Post
  <2> QED
    BY <2>9, <2>3 DEF Abstract!ANext
<1>25. ASSUME NEW t \in Tasks,
            EndsUnreported(t)
       PROVE  [Abstract!ANext]_(Abstract!avars)
  <2>1. \A u \in Threads :
          WaitsOn(u)' = WaitsOn(u) /\ (HasReason(u)' <=> HasReason(u))
    BY <1>25 DEF EndsUnreported, queueVars, taskVars, NoCall, NewCall, Calls,
      CallFits, WaitsOn, HasReason
  <2>2. BlockedOn' = BlockedOn /\ MayGiveUp' = MayGiveUp
    BY <2>1 DEF CallsSay
  <2> QED
    BY <1>25, <2>2 DEF EndsUnreported, queueVars, taskVars, NoCall, NewCall,
      Calls, CallFits, Abstract!avars
<1>26. CASE UNCHANGED vars
  BY <1>26 DEF vars, Abstract!avars, BlockedOn, MayGiveUp, Waiting
<1> QED
  BY Steps, <1>1, <1>2, <1>3, <1>4, <1>5, <1>6, <1>7, <1>8, <1>9, <1>10,
    <1>11, <1>12, <1>13, <1>14, <1>15, <1>16, <1>17, <1>18, <1>19, <1>20,
    <1>21, <1>22, <1>23, <1>24, <1>25, <1>26

(* The invariant the mapping rests on, in every reachable state.           *)
LEMMA QueuesAlwaysExist == Spec => []QueuesExist
<1>1. Init => QueuesExist
  BY DEF Init, QueuesExist, NoCall
<1>2. TypeOK /\ TypeOK' /\ QueuesExist /\ [Next]_vars => QueuesExist'
  BY QueuesExistOnStep
<1> QED
  BY <1>1, <1>2, TypeCorrect, PTL DEF Spec

(* The tasks, mutexes, slices and signals of mp.c implement the blocking   *)
(* queue: no message is received that was not posted or out of its turn,   *)
(* and nobody gives up a queue that still holds something, or without a    *)
(* reason to.                                                              *)
THEOREM ImplementsQueue == Spec => Abstract!ASpec
<1>1. Init => Abstract!AInit
  <2>1. Init => \A t \in Threads : ~Waiting(t)
    BY DEF Init, Waiting, NoCall
  <2> QED
    BY <2>1 DEF Init, Abstract!AInit, BlockedOn, MayGiveUp
<1>2. /\ TypeOK /\ TypeOK' /\ QueuesExist /\ [Next]_vars
      => [Abstract!ANext]_(Abstract!avars)
  BY StepMaps
<1> QED
  BY <1>1, <1>2, TypeCorrect, QueuesAlwaysExist, PTL DEF Spec, Abstract!ASpec
=============================================================================
