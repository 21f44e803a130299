---------------------------- MODULE SoundManager ----------------------------
(***************************************************************************)
(* Sound Manager channels of src/hle/sound.c.                              *)
(*                                                                         *)
(* One recursive lock, the clock's, guards every channel.  The mixer holds *)
(* it for a whole pass, in which it runs callbacks of the game; so does a  *)
(* game thread in whose SndDoImmediate a callback runs.  A callback calls  *)
(* back into the library under the lock already held.  `stack` is what the *)
(* lock's holder is in the middle of; with it empty the lock is free, and  *)
(* a call that runs no callback and does not wait is one step.             *)
(***************************************************************************)
EXTENDS Naturals, Sequences, FiniteSets, Functions, Lists

CONSTANTS Ids,       \* addresses calloc gives struct channel
          Records,   \* SndChannel records
          Games,     \* the game's threads
          Mixer,     \* SDL's audio thread, or silent_clock's
          NoOne,     \* no holder of the lock
          Capacity,  \* kQueueCapacity
          PassLimit, \* kCommandsPerPass
          Length,    \* bound: passes a buffer lasts
          Nesting    \* bound: callbacks inside callbacks

ASSUME MixerIsNoGame == Mixer \notin Games /\ NoOne \notin Games \cup {Mixer}
ASSUME SoundBounds ==
  Capacity \in Nat \ {0} /\ PassLimit \in Nat \ {0} /\ Length \in Nat \ {0}

Threads == Games \cup {Mixer}

(* A waitCmd takes its time as a bufferCmd does; the rest do nothing.      *)
Commands == {"bufferCmd", "callBackCmd"}

VARIABLES
  chain,  \* the list `channels`, newest first
  ch,     \* struct channel, for each address in use
  records, \* the SndChannel records allocated
  holder, \* who holds the clock's lock
  stack,  \* what the holder is in the middle of, outermost first
  pc,     \* a thread: "game", or waiting in "draining" or "filling"
  want,   \* the record and command a waiting thread waits with
  fault   \* history: freed memory was touched

vars == <<chain, ch, records, holder, stack, pc, want, fault>>

NoWait == [rec |-> "none", cmd |-> "none"]

Init ==
  /\ chain = <<>>
  /\ ch = <<>>
  /\ records = {}
  /\ holder = NoOne
  /\ stack = <<>>
  /\ pc = [t \in Threads |-> "game"]
  /\ want = [t \in Threads |-> NoWait]
  /\ fault = FALSE

Top == stack[Len(stack)]
Mixing == stack # <<>> /\ stack[1].kind = "pass"

(* The code of the game may call: its thread finds the lock free, or it is *)
(* a callback run by the thread that holds the lock.                       *)
CanCall(t) ==
  /\ pc[t] = "game"
  /\ \/ t \in Games /\ holder = NoOne
     \/ holder = t /\ Top.kind = "callback"

(* Faulty variant: the disposed flag is not looked at.                     *)
Found_Disposed(r) == {c \in Range(chain) : ch[c].rec = r}

(* find_channel: the newest channel of that record not disposed of.        *)
Found(r) == {c \in Range(chain) : ch[c].rec = r /\ ~ch[c].disposed}
playing_or_queued(c) == ch[c].playing > 0 \/ ch[c].queue # <<>>

-----------------------------------------------------------------------------
(* The game's own memory.                                                  *)

AllocatesRecord(r) ==
  /\ r \notin records
  /\ records' = records \cup {r}
  /\ UNCHANGED <<chain, ch, holder, stack, pc, want, fault>>

(* The game frees its record once SndDisposeChannel has returned for it.   *)
FreesRecord(t, r) ==
  /\ CanCall(t)
  /\ r \in records
  /\ Found(r) = {}
  /\ \A c \in Range(chain) : ch[c].rec = r => ~ch[c].owned
  /\ records' = records \ {r}
  /\ UNCHANGED <<chain, ch, holder, stack, pc, want, fault>>

-----------------------------------------------------------------------------
(* Disposal.                                                               *)

(* free_disposed: what is left of the list and the channels, and the       *)
(* records that go with those freed.                                       *)
free_disposed(cs, list) ==
  LET gone == {c \in Range(list) : cs[c].disposed /\ cs[c].callbacks = 0}
  IN [chain |-> Without(list, gone),
      ch |-> [c \in Range(list) \ gone |-> cs[c]],
      records |-> {cs[c].rec : c \in {c \in gone : cs[c].owned}}]

FreeDisposed(cs, list) ==
  LET left == free_disposed(cs, list)
  IN /\ chain' = left.chain
     /\ ch' = left.ch
     /\ records' = records \ left.records

(* The end of SndDisposeChannel.                                           *)
Disposes(c) ==
  LET cs == [ch EXCEPT ![c].disposed = TRUE, ![c].queue = <<>>,
                       ![c].playing = 0]
  IN IF Mixing THEN ch' = cs /\ UNCHANGED <<chain, records>>
               ELSE FreeDisposed(cs, chain)

SndDisposeChannel(t, r, quiet) ==
  /\ CanCall(t)
  /\ \E c \in Found(r) :
       IF ~quiet /\ ~Mixing /\ playing_or_queued(c)
       THEN /\ pc' = [pc EXCEPT ![t] = "draining"]
            /\ want' = [want EXCEPT ![t] = [rec |-> r, cmd |-> "none"]]
            /\ UNCHANGED <<chain, ch, records>>
       ELSE Disposes(c) /\ UNCHANGED <<pc, want>>
  /\ UNCHANGED <<holder, stack, fault>>

(* A waiting thread wakes every kPollInterval and looks again; one that    *)
(* waits inside a callback holds the lock all along.                       *)
Polls(t, place) == pc[t] = place /\ holder \in {NoOne, t}
StopsWaiting(t) ==
  /\ pc' = [pc EXCEPT ![t] = "game"]
  /\ want' = [want EXCEPT ![t] = NoWait]

(* The channel is gone, or has finished, or kMaxWait is over.              *)
DisposeEnds(t, late) ==
  /\ Polls(t, "draining")
  /\ LET found == Found(want[t].rec)
     IN \/ /\ found = {}
           /\ UNCHANGED <<chain, ch, records>>
        \/ \E c \in found :
             /\ late \/ ~playing_or_queued(c)
             /\ Disposes(c)
  /\ StopsWaiting(t)
  /\ UNCHANGED <<holder, stack, fault>>

-----------------------------------------------------------------------------
(* Channels and their queues.                                              *)

Fresh(r, owned) ==
  [rec |-> r, owned |-> owned, queue |-> <<>>, paused |-> FALSE, callbacks |-> 0,
   disposed |-> FALSE, playing |-> 0]

(* The game passes a record of its own, or NULL for one that calloc makes. *)
SndNewChannel(t, r, owned) ==
  /\ CanCall(t)
  /\ IF owned THEN r \notin records ELSE r \in records /\ Found(r) = {}
  /\ \A c \in Range(chain) : ch[c].rec = r => ~ch[c].owned
  /\ \E c \in Ids \ Range(chain) :
       /\ chain' = <<c>> \o chain
       /\ ch' = [x \in DOMAIN ch \cup {c} |->
                   IF x = c THEN Fresh(r, owned) ELSE ch[x]]
  /\ records' = records \cup {r}
  /\ UNCHANGED <<holder, stack, pc, want, fault>>

(* One more command at the end of the ring, kept as a sequence here.       *)
Enqueued(c, cmd) == [ch EXCEPT ![c].queue = Append(@, cmd)]

SndDoCommand(t, r, cmd, no_wait) ==
  /\ CanCall(t)
  /\ \E c \in Found(r) :
       \/ /\ Len(ch[c].queue) < Capacity
          /\ ch' = Enqueued(c, cmd)
          /\ UNCHANGED <<pc, want>>
       \/ /\ Len(ch[c].queue) = Capacity /\ ~no_wait /\ ~Mixing
          /\ pc' = [pc EXCEPT ![t] = "filling"]
          /\ want' = [want EXCEPT ![t] = [rec |-> r, cmd |-> cmd]]
          /\ UNCHANGED ch
  /\ UNCHANGED <<chain, records, holder, stack, fault>>

(* Faulty variant: the command is queued when the wait is over.          *)
CommandEnds_Unchecked(t, late) ==
  /\ Polls(t, "filling")
  /\ LET found == Found(want[t].rec)
     IN \/ found = {} /\ UNCHANGED ch
        \/ \E c \in found :
             /\ late \/ Len(ch[c].queue) < Capacity
             /\ ch' = Enqueued(c, want[t].cmd)
  /\ StopsWaiting(t)
  /\ UNCHANGED <<chain, records, holder, stack, fault>>

(* Room at last; or badChannel; or queueFull once kMaxWait is over.        *)
CommandEnds(t, late) ==
  /\ Polls(t, "filling")
  /\ LET found == Found(want[t].rec)
     IN \/ found = {} /\ UNCHANGED ch
        \/ \E c \in found :
             \/ Len(ch[c].queue) < Capacity /\ ch' = Enqueued(c, want[t].cmd)
             \/ Len(ch[c].queue) = Capacity /\ late /\ UNCHANGED ch
  /\ StopsWaiting(t)
  /\ UNCHANGED <<chain, records, holder, stack, fault>>

(* SndDoImmediate with a command that only writes the channel.             *)
SndDoImmediate(t, r) ==
  /\ CanCall(t)
  /\ \E c \in Found(r) :
       ch' \in {[ch EXCEPT ![c].playing = Length],     \* bufferCmd
                [ch EXCEPT ![c].playing = 0],          \* quietCmd
                [ch EXCEPT ![c].queue = <<>>],         \* flushCmd
                [ch EXCEPT ![c].paused = TRUE],        \* pauseCmd
                [ch EXCEPT ![c].paused = FALSE]}       \* resumeCmd
  /\ UNCHANGED <<chain, records, holder, stack, pc, want, fault>>

(* run_callback, up to the game's code.  The record is read first.         *)
RunsCallback(c, cs, frames, queued) ==
  /\ ch' = [cs EXCEPT ![c].callbacks = @ + 1]
  /\ stack' = Append(frames, [kind |-> "callback", c |-> c, queued |-> queued,
                              commands |-> 0])
  /\ fault' = (fault \/ cs[c].rec \notin records)

Callbacks == {i \in DOMAIN stack : stack[i].kind = "callback"}

ImmediateCallback(t, r) ==
  /\ CanCall(t)
  /\ \A i \in Callbacks : i < Nesting
  /\ \E c \in Found(r) : RunsCallback(c, ch, stack, FALSE)
  /\ holder' = t
  /\ UNCHANGED <<chain, records, pc, want>>

(* Faulty variant: cmdInProgress is cleared whether or not the callback    *)
(* disposed of its channel.                                                *)
CallbackReturns_Clearing(t) ==
  /\ holder = t /\ pc[t] = "game"
  /\ Top.kind = "callback"
  /\ LET c == Top.c
     IN /\ fault' = (fault \/ c \notin DOMAIN ch
                       \/ (Top.queued /\ ch[c].rec \notin records))
        /\ ch' = IF c \in DOMAIN ch THEN [ch EXCEPT ![c].callbacks = @ - 1]
                                    ELSE ch
  /\ stack' = SubSeq(stack, 1, Len(stack) - 1)
  /\ holder' = IF Len(stack) = 1 THEN NoOne ELSE t
  /\ UNCHANGED <<chain, records, pc, want>>

(* The callback returns; a queued one then clears its cmdInProgress, in a  *)
(* record the game may have freed.                                         *)
CallbackReturns(t) ==
  /\ holder = t /\ pc[t] = "game"
  /\ Top.kind = "callback"
  /\ LET c == Top.c
     IN /\ fault' = (fault \/ c \notin DOMAIN ch
                       \/ (Top.queued /\ ~ch[c].disposed /\ ch[c].rec \notin records))
        /\ ch' = IF c \in DOMAIN ch THEN [ch EXCEPT ![c].callbacks = @ - 1]
                                    ELSE ch
  /\ stack' = SubSeq(stack, 1, Len(stack) - 1)
  /\ holder' = IF Len(stack) = 1 THEN NoOne ELSE t
  /\ UNCHANGED <<chain, records, pc, want>>

-----------------------------------------------------------------------------
(* The mixer's pass.                                                       *)

PassAt(c) == [kind |-> "pass", c |-> c, queued |-> FALSE, commands |-> 0]

mix ==
  /\ holder = NoOne
  /\ chain # <<>>
  /\ holder' = Mixer
  /\ stack' = <<PassAt(chain[1])>>
  /\ UNCHANGED <<chain, ch, records, pc, want, fault>>

InPass == stack # <<>> /\ Top.kind = "pass"

(* mix_channel has more of this pass to fill for the channel.              *)
Channel == Top.c
Fills == InPass /\ ~ch[Channel].disposed
Commandable ==
  ch[Channel].queue # <<>> /\ ~ch[Channel].paused /\ Top.commands < PassLimit

(* A sound that ends in this pass lets the queue go on in it.              *)
SoundEnds ==
  /\ Fills
  /\ ch[Channel].playing = 1
  /\ ch' = [ch EXCEPT ![Channel].playing = 0]
  /\ UNCHANGED <<chain, records, holder, stack, pc, want, fault>>

(* The head of the queue is taken out before it runs.                      *)
Dequeued == [ch EXCEPT ![Channel].queue = Tail(@)]

RunsQueued ==
  LET cmd == Head(ch[Channel].queue)
      counted == [stack EXCEPT ![Len(stack)].commands = @ + 1]
  IN /\ Fills
     /\ ch[Channel].playing = 0
     /\ Commandable
     /\ IF cmd = "callBackCmd"
        THEN RunsCallback(Channel, Dequeued, counted, TRUE)
        ELSE /\ ch' = [Dequeued EXCEPT ![Channel].playing =
                         IF cmd = "bufferCmd" THEN Length ELSE 0]
             /\ fault' = (fault \/ ch[Channel].rec \notin records)
             /\ stack' = counted
     /\ UNCHANGED <<chain, records, holder, pc, want>>

(* The channel has had its part of the pass: it plays on, has nothing it   *)
(* may run, or was disposed of.  Then comes the next, or the pass ends and *)
(* what was disposed of during it is freed.                                *)
ChannelDone ==
  /\ InPass
  /\ \/ ch[Channel].disposed
     \/ ch[Channel].playing > 1
     \/ ch[Channel].playing = 0 /\ ~Commandable
  /\ LET played == [ch EXCEPT ![Channel].playing = IF @ > 1 THEN @ - 1 ELSE @]
         i == CHOOSE i \in DOMAIN chain : chain[i] = Channel
     IN IF i < Len(chain)
        THEN /\ stack' = <<PassAt(chain[i + 1])>>
             /\ ch' = played
             /\ UNCHANGED <<chain, records, holder>>
        ELSE /\ stack' = <<>>
             /\ holder' = NoOne
             /\ FreeDisposed(played, chain)
  /\ UNCHANGED <<pc, want, fault>>

-----------------------------------------------------------------------------
Pass == SoundEnds \/ RunsQueued \/ ChannelDone

Calls(t, r) ==
  \/ \E owned \in BOOLEAN : SndNewChannel(t, r, owned)
  \/ \E quiet \in BOOLEAN : SndDisposeChannel(t, r, quiet)
  \/ \E cmd \in Commands, no_wait \in BOOLEAN : SndDoCommand(t, r, cmd, no_wait)
  \/ SndDoImmediate(t, r) \/ ImmediateCallback(t, r)
  \/ FreesRecord(t, r)

Ends(t) == \E late \in BOOLEAN : DisposeEnds(t, late) \/ CommandEnds(t, late)

Next ==
  \/ \E r \in Records : AllocatesRecord(r) \/ \E t \in Threads : Calls(t, r)
  \/ \E t \in Threads : CallbackReturns(t) \/ Ends(t)
  \/ mix \/ Pass

Spec == Init /\ [][Next]_vars

-----------------------------------------------------------------------------
(* Properties.                                                             *)

ChannelType ==
  [rec : Records, owned : BOOLEAN, queue : Seq(Commands), paused : BOOLEAN,
   callbacks : Nat, disposed : BOOLEAN, playing : 0..Length]

(* The list holds exactly the channels in use, no queue holds more than    *)
(* fits, and the lock is held when something is under way.                 *)
TypeOK ==
  /\ Range(chain) = DOMAIN ch /\ DOMAIN ch \subseteq Ids
  /\ \A i, j \in DOMAIN chain : chain[i] = chain[j] => i = j
  /\ \A c \in DOMAIN ch : ch[c] \in ChannelType /\ Len(ch[c].queue) <= Capacity
  /\ records \subseteq Records
  /\ holder \in Threads \cup {NoOne}
  /\ holder = NoOne <=> stack = <<>>
  /\ pc \in [Threads -> {"game", "draining", "filling"}]

(* Whatever callbacks do - dispose of their own channel or another's, make *)
(* new ones, run callbacks in turn - no one returns into a channel that    *)
(* was freed, and no record is touched that the game has freed since       *)
(* SndDisposeChannel returned.                                             *)
NothingFreedInUse ==
  /\ ~fault
  /\ \A i \in DOMAIN stack : stack[i].c \in DOMAIN ch

(* Once SndDisposeChannel has marked a channel, no callback of it starts   *)
(* and nothing plays on it until it is freed.                              *)
SilenceStep ==
  \A c \in DOMAIN ch \cap DOMAIN ch' :
    ch[c].disposed /\ ch'[c].disposed
      => ch'[c].callbacks <= ch[c].callbacks /\ ch'[c].playing = 0
           /\ ch'[c].queue = <<>>
DisposedStaysSilent == [][SilenceStep]_vars
=============================================================================
