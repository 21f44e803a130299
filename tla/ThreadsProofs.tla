--------------------------- MODULE ThreadsProofs ---------------------------
(* Theorems about SoundManager, for any channels, records, threads and     *)
(* limits, and however deep callbacks are nested; and about DarwinThreads  *)
(* as MCThreads instantiates it, for any finite set of threads, and any    *)
(* bounds.                                                                 *)
EXTENDS MCThreads

-----------------------------------------------------------------------------
(* The inductive invariant.                                                *)

Frame == [kind : {"pass", "callback"}, c : Ids, queued : BOOLEAN, commands : Nat]
Running(st, c) == {i \in DOMAIN st : st[i].kind = "callback" /\ st[i].c = c}

ListOK ==
  /\ chain \in Seq(Ids)
  /\ \A i, j \in DOMAIN chain : chain[i] = chain[j] => i = j
  /\ Range(chain) = DOMAIN ch

(* A disposed channel has nothing to play.                                 *)
ChannelOK(s) ==
  /\ s \in ChannelType /\ Len(s.queue) <= Capacity
  /\ s.disposed => s.playing = 0 /\ s.queue = <<>>
ChannelsOK == ch = [c \in DOMAIN ch |-> ch[c]] /\ \A c \in DOMAIN ch : ChannelOK(ch[c])

(* The record of a channel in use is allocated, and will not be freed with *)
(* another channel.                                                        *)
RecordsOK ==
  /\ records \subseteq Records
  /\ \A c \in DOMAIN ch : ~ch[c].disposed => ch[c].rec \in records
  /\ \A c, d \in DOMAIN ch :
       ch[c].owned /\ ~ch[d].disposed /\ ch[c].rec = ch[d].rec => c = d

(* A pass is the outermost thing on the stack, and a channel counts the    *)
(* callbacks that run for it.                                              *)
StackOK ==
  /\ stack \in Seq(Frame)
  /\ \A i \in DOMAIN stack : stack[i].kind = "pass" => i = 1
  /\ \A i \in DOMAIN stack : stack[i].c \in DOMAIN ch
  /\ \A c \in DOMAIN ch : ch[c].callbacks = Cardinality(Running(stack, c))

ThreadsOK ==
  /\ holder \in Threads \cup {NoOne}
  /\ holder = NoOne <=> stack = <<>>
  /\ pc \in [Threads -> {"game", "draining", "filling"}]
  /\ want \in [Threads -> [rec : Records \cup {"none"}, cmd : Commands \cup {"none"}]]
  /\ \A t \in Threads : pc[t] = "filling" => want[t].cmd \in Commands

SoundInv ==
  ListOK /\ ChannelsOK /\ RecordsOK /\ StackOK /\ ThreadsOK /\ ~fault

(* What it needs of the stack when the channels stay: the same frames run. *)
SameFrames ==
  /\ stack' \in Seq(Frame) /\ Len(stack') = Len(stack)
  /\ \A i \in DOMAIN stack : stack'[i].kind = stack[i].kind /\ stack'[i].c = stack[i].c

Goal == SoundInv' /\ SilenceStep

(* A command changes a channel that is not disposed of.                    *)
LEMMA Plays ==
  ASSUME SoundInv, NEW c \in DOMAIN ch, NEW s, ~ch[c].disposed, ChannelOK(s),
         s.rec = ch[c].rec, s.owned = ch[c].owned, s.callbacks = ch[c].callbacks,
         ~s.disposed, ch' = [ch EXCEPT ![c] = s],
         chain' = chain, records' = records, SameFrames, ThreadsOK',
         fault' = (fault \/ ch[c].rec \notin records) \/ fault' = fault
  PROVE  Goal
<1> USE DEF SoundInv
<1>1. /\ DOMAIN ch' = DOMAIN ch /\ ch'[c] = s
      /\ \A d \in DOMAIN ch \ {c} : ch'[d] = ch[d]
  BY DEF ChannelsOK
<1>2. \A d \in DOMAIN ch :
        /\ ch'[d].rec = ch[d].rec /\ ch'[d].owned = ch[d].owned
        /\ ch'[d].callbacks = ch[d].callbacks
        /\ ch'[d].disposed <=> ch[d].disposed
  BY <1>1
<1>3. ListOK'
  BY <1>1 DEF ListOK
<1>4. ChannelsOK'
  BY <1>1 DEF ChannelsOK
<1>5. RecordsOK'
  BY <1>1, <1>2 DEF RecordsOK
<1>6. StackOK'
  <2>1. DOMAIN stack' = DOMAIN stack
    BY DEF SameFrames, StackOK
  <2>2. \A d \in DOMAIN ch : Running(stack', d) = Running(stack, d)
    BY <2>1 DEF SameFrames, Running
  <2> QED
    BY <1>1, <1>2, <2>1, <2>2 DEF StackOK, SameFrames
<1>7. ~fault'
  BY DEF RecordsOK
<1>8. SilenceStep
  BY <1>1, <1>2 DEF SilenceStep, ChannelsOK, ChannelOK, ChannelType
<1> QED
  BY <1>3, <1>4, <1>5, <1>6, <1>7, <1>8 DEF Goal

(* A step that leaves the channels, the records and what runs alone.       *)
LEMMA LeavesAlone ==
  ASSUME SoundInv, UNCHANGED <<chain, ch, records, stack, fault>>, ThreadsOK'
  PROVE  Goal
BY DEF SoundInv, ListOK, ChannelsOK, ChannelOK, RecordsOK, StackOK, Goal, SilenceStep,
  ChannelType, Running

(* What free_disposed leaves.                                              *)
Gone(cs) == {c \in DOMAIN cs : cs[c].disposed /\ cs[c].callbacks = 0}

(* free_disposed frees the channels nobody calls back, and no other.       *)
LEMMA Freeing ==
  ASSUME ListOK, NEW cs, DOMAIN cs = DOMAIN ch, FreeDisposed(cs, chain)
  PROVE  /\ ListOK'
         /\ ch' = [c \in DOMAIN cs \ Gone(cs) |-> cs[c]]
         /\ records' = records \ {cs[c].rec : c \in {d \in Gone(cs) : cs[d].owned}}
<1>1. Range(chain) = DOMAIN cs
  BY DEF ListOK
<1>2. /\ chain' = Without(chain, Gone(cs))
      /\ ch' = [c \in DOMAIN cs \ Gone(cs) |-> cs[c]]
      /\ records' = records \ {cs[c].rec : c \in {d \in Gone(cs) : cs[d].owned}}
  BY <1>1 DEF FreeDisposed, free_disposed, Gone
<1>3. /\ chain' \in Seq(Ids)
      /\ Range(chain') = Range(chain) \ Gone(cs)
      /\ \A i, j \in DOMAIN chain' : chain'[i] = chain'[j] => i = j
  BY <1>2, WithoutGone DEF ListOK
<1> QED
  BY <1>1, <1>2, <1>3 DEF ListOK

(* Freeing is safe, for channels cs that differ from ch in what is         *)
(* disposed of: a channel that a callback runs for stays, and no record    *)
(* of a channel in use goes.                                               *)
LEMMA FreeingIsSafe ==
  ASSUME SoundInv, NEW cs, DOMAIN cs = DOMAIN ch, NEW st \in Seq(Frame),
         \A c \in DOMAIN ch :
            /\ ChannelOK(cs[c])
            /\ cs[c].rec = ch[c].rec /\ cs[c].owned = ch[c].owned
            /\ cs[c].callbacks = ch[c].callbacks
            /\ ch[c].disposed => cs[c].disposed,
         FreeDisposed(cs, chain),
         stack' = stack \/ stack' = <<>>,
         \A i \in DOMAIN stack' : stack[i].kind = "callback",
         stack' = <<>> => \A c \in DOMAIN ch : ch[c].callbacks = 0,
         ThreadsOK', fault' = fault
  PROVE  Goal
<1> USE DEF SoundInv
<1>1. /\ ListOK' /\ ch' = [c \in DOMAIN cs \ Gone(cs) |-> cs[c]]
      /\ records' = records \ {cs[c].rec : c \in {d \in Gone(cs) : cs[d].owned}}
  BY Freeing
<1>2. /\ DOMAIN ch' = DOMAIN ch \ Gone(cs)
      /\ \A c \in DOMAIN ch' : ch'[c] = cs[c]
  BY <1>1
<1>3. ChannelsOK'
  BY <1>1, <1>2 DEF ChannelsOK
<1>4. RecordsOK'
  <2>1. ASSUME NEW c \in DOMAIN ch', ~ch'[c].disposed
        PROVE  ch'[c].rec \in records'
    <3>1. c \in DOMAIN ch /\ ~ch[c].disposed /\ ~cs[c].disposed /\ ch'[c] = cs[c]
      BY <1>2, <2>1
    <3>2. ch[c].rec \in records /\ cs[c].rec = ch[c].rec
      BY <3>1 DEF RecordsOK
    <3>3. ASSUME NEW d \in Gone(cs), cs[d].owned
          PROVE  cs[d].rec # cs[c].rec
      <4>1. d \in DOMAIN ch /\ cs[d].disposed /\ ch[d].owned /\ cs[d].rec = ch[d].rec
        BY <3>3 DEF Gone
      <4> QED
        BY <3>1, <3>2, <4>1 DEF RecordsOK
    <3> QED
      BY <1>1, <3>1, <3>2, <3>3
  <2>2. \A c, d \in DOMAIN ch' :
          ch'[c].owned /\ ~ch'[d].disposed /\ ch'[c].rec = ch'[d].rec => c = d
    BY <1>2 DEF RecordsOK
  <2>3. records' \subseteq Records
    BY <1>1 DEF RecordsOK
  <2> QED
    BY <2>1, <2>2, <2>3 DEF RecordsOK
<1>5. StackOK'
  <2>1. CASE stack' = <<>>
    <3>1. stack' \in Seq(Frame) /\ DOMAIN stack' = {}
      BY <2>1
    <3>2. \A c \in DOMAIN ch' : Running(stack', c) = {}
      BY <3>1 DEF Running
    <3>3. \A c \in DOMAIN ch' : ch'[c].callbacks = 0
      BY <1>2, <2>1
    <3> QED
      BY <3>1, <3>2, <3>3, FS_EmptySet DEF StackOK
  <2>2. CASE stack' = stack
    <3>1. ASSUME NEW i \in DOMAIN stack
          PROVE  stack[i].c \in DOMAIN ch'
      <4> DEFINE c == stack[i].c
      <4>1. c \in DOMAIN ch /\ i \in Running(stack, c)
        BY <2>2 DEF StackOK, Running
      <4>2. ch[c].callbacks # 0
        <5>1. IsFiniteSet(Running(stack, c))
          <6>1. Running(stack, c) \subseteq 1..Len(stack)
            BY DEF Running, StackOK
          <6> QED
            BY <6>1, FS_Interval, FS_Subset DEF StackOK
        <5>2. Cardinality(Running(stack, c)) # 0
          BY <4>1, <5>1, FS_EmptySet
        <5> QED
          BY <4>1, <5>2 DEF StackOK
      <4>3. c \notin Gone(cs)
        BY <4>1, <4>2 DEF Gone
      <4> QED
        BY <4>1, <4>3, <1>2
    <3>2. \A c \in DOMAIN ch' : ch'[c].callbacks = ch[c].callbacks /\ c \in DOMAIN ch
      BY <1>2
    <3> QED
      BY <2>2, <3>1, <3>2 DEF StackOK, Running
  <2> QED
    BY <2>1, <2>2
<1>6. ~fault'
  OBVIOUS
<1>7. SilenceStep
  <2>1. \A c \in DOMAIN ch' : /\ c \in DOMAIN ch /\ ChannelOK(ch'[c])
                              /\ ch'[c].callbacks = ch[c].callbacks
                              /\ ch'[c].callbacks \in Nat
    BY <1>2 DEF ChannelOK, ChannelType
  <2> QED
    BY <2>1 DEF SilenceStep, ChannelOK
<1> QED
  BY <1>1, <1>3, <1>4, <1>5, <1>6, <1>7 DEF Goal

(* With no pass on the stack every frame is a callback's.                  *)
LEMMA OnlyCallbacks ==
  ASSUME StackOK, ~Mixing
  PROVE  \A i \in DOMAIN stack : stack[i].kind = "callback"
<1> SUFFICES ASSUME NEW i \in DOMAIN stack
             PROVE  stack[i].kind = "callback"
  OBVIOUS
<1>1. stack[i].kind \in {"pass", "callback"}
  <2>1. stack[i] \in Frame
    BY DEF StackOK
  <2> QED
    BY <2>1 DEF Frame
<1>2. stack[i].kind = "pass" => i = 1 /\ stack # <<>>
  BY DEF StackOK
<1> QED
  BY <1>1, <1>2 DEF Mixing

(* The end of SndDisposeChannel, whoever calls it and whenever.            *)
LEMMA Disposing ==
  ASSUME SoundInv, NEW c \in DOMAIN ch, Disposes(c), ThreadsOK',
         UNCHANGED <<stack, fault>>
  PROVE  Goal
<1> USE DEF SoundInv
<1> DEFINE s == [ch[c] EXCEPT !.disposed = TRUE, !.queue = <<>>, !.playing = 0]
           cs == [ch EXCEPT ![c] = s]
<1>1. ChannelOK(ch[c])
  BY DEF ChannelsOK
<1>2. /\ ChannelOK(s) /\ s.rec = ch[c].rec /\ s.owned = ch[c].owned
      /\ s.callbacks = ch[c].callbacks /\ s.disposed
  <2>1. s \in ChannelType
    <3>1. ch[c] \in ChannelType
      BY <1>1 DEF ChannelOK
    <3>2. TRUE \in BOOLEAN /\ <<>> \in Seq(Commands) /\ 0 \in 0..Length
      BY SoundBounds
    <3> QED
      BY <3>1, <3>2 DEF ChannelType
  <2> QED
    BY <1>1, <2>1, SoundBounds DEF ChannelOK, ChannelType
<1>3. cs = [ch EXCEPT ![c].disposed = TRUE, ![c].queue = <<>>, ![c].playing = 0]
  BY DEF ChannelsOK
<1> HIDE DEF s
<1>4. /\ DOMAIN cs = DOMAIN ch /\ cs[c] = s
      /\ \A d \in DOMAIN ch \ {c} : cs[d] = ch[d]
      /\ cs = [d \in DOMAIN ch |-> cs[d]]
  BY DEF ChannelsOK
<1>5. \A d \in DOMAIN ch :
        /\ ChannelOK(cs[d])
        /\ cs[d].rec = ch[d].rec /\ cs[d].owned = ch[d].owned
        /\ cs[d].callbacks = ch[d].callbacks
        /\ ch[d].disposed => cs[d].disposed
  BY <1>2, <1>4 DEF ChannelsOK
<1>6. IF Mixing THEN ch' = cs /\ UNCHANGED <<chain, records>>
                ELSE FreeDisposed(cs, chain)
  BY <1>3 DEF Disposes
<1> HIDE DEF cs
<1>7. CASE Mixing
  <2>1. ch' = cs /\ chain' = chain /\ records' = records
    BY <1>6, <1>7
  <2>2. ListOK'
    BY <2>1, <1>4 DEF ListOK
  <2>3. ChannelsOK'
    BY <2>1, <1>4, <1>5 DEF ChannelsOK
  <2>4. RecordsOK'
    BY <2>1, <1>4, <1>5 DEF RecordsOK
  <2>5. StackOK'
    BY <2>1, <1>4, <1>5 DEF StackOK, Running
  <2>6. SilenceStep
    BY <2>1, <1>4, <1>5 DEF SilenceStep, ChannelOK, ChannelType
  <2> QED
    BY <2>2, <2>3, <2>4, <2>5, <2>6 DEF Goal
<1>8. CASE ~Mixing
  <2>1. FreeDisposed(cs, chain)
    BY <1>6, <1>8
  <2>2. \A i \in DOMAIN stack : stack[i].kind = "callback"
    BY <1>8, OnlyCallbacks
  <2>3. stack = <<>> => \A d \in DOMAIN ch : ch[d].callbacks = 0
    <3> HAVE stack = <<>>
    <3>1. \A d \in DOMAIN ch : Running(stack, d) = {}
      BY DEF Running
    <3> QED
      BY <3>1, FS_EmptySet DEF StackOK
  <2> QED
    BY <2>1, <2>2, <2>3, <1>4, <1>5, FreeingIsSafe DEF StackOK
<1> QED
  BY <1>7, <1>8

-----------------------------------------------------------------------------
(* Callbacks and passes.                                                   *)

(* What runs for a channel is finite, and none of it on an empty stack.    *)
LEMMA RunningIsFinite ==
  ASSUME NEW S, NEW st \in Seq(S), NEW c
  PROVE  IsFiniteSet(Running(st, c)) /\ Running(<<>>, c) = {}
<1>1. Running(st, c) \subseteq 1..Len(st)
  BY DEF Running
<1>2. Running(<<>>, c) = {}
  BY DEF Running
<1> QED
  BY <1>1, <1>2, FS_Interval, FS_Subset

(* A callback starts for a channel not disposed of, with the command that  *)
(* asked for it taken from the queue.                                      *)
LEMMA CallbackStarts ==
  ASSUME SoundInv, NEW c \in DOMAIN ch, NEW s, ~ch[c].disposed, ChannelOK(s),
         s.rec = ch[c].rec, s.owned = ch[c].owned, s.callbacks = ch[c].callbacks,
         ~s.disposed,
         NEW st \in Seq(Frame), Len(st) = Len(stack),
         \A i \in DOMAIN stack : st[i].kind = stack[i].kind /\ st[i].c = stack[i].c,
         NEW queued \in BOOLEAN, RunsCallback(c, [ch EXCEPT ![c] = s], st, queued),
         UNCHANGED <<chain, records>>, ThreadsOK'
  PROVE  Goal
<1> USE DEF SoundInv
<1> DEFINE new == [s EXCEPT !.callbacks = @ + 1]
           frame == [kind |-> "callback", c |-> c, queued |-> queued, commands |-> 0]
           n == Len(stack) + 1
<1>1. /\ ch' = [ch EXCEPT ![c] = new]
      /\ stack' = Append(st, frame)
      /\ fault' = (fault \/ s.rec \notin records)
  BY DEF RunsCallback, ChannelsOK
<1>2. /\ ChannelOK(new) /\ new.rec = s.rec /\ new.owned = s.owned
      /\ new.callbacks = ch[c].callbacks + 1 /\ new.callbacks \in Nat
      /\ ~new.disposed
  <2>1. s \in ChannelType /\ s.callbacks \in Nat /\ s.callbacks + 1 \in Nat
    BY DEF ChannelOK, ChannelType
  <2>2. new \in ChannelType
    BY <2>1 DEF ChannelType
  <2> QED
    BY <2>1, <2>2 DEF ChannelOK, ChannelType
<1>3. frame \in Frame /\ frame.kind = "callback" /\ frame.c = c /\ n \in Nat
  <2>1. c \in Ids
    BY DEF ListOK, Range
  <2> QED
    BY <2>1 DEF Frame, StackOK
<1> HIDE DEF new, frame
<1>4. /\ DOMAIN ch' = DOMAIN ch /\ ch'[c] = new
      /\ \A d \in DOMAIN ch \ {c} : ch'[d] = ch[d]
      /\ ch' = [d \in DOMAIN ch' |-> ch'[d]]
  BY <1>1 DEF ChannelsOK
<1>5. /\ stack' \in Seq(Frame) /\ DOMAIN stack' = DOMAIN stack \cup {n}
      /\ n \notin DOMAIN stack /\ stack'[n] = frame
      /\ \A i \in DOMAIN stack :
           stack'[i].kind = stack[i].kind /\ stack'[i].c = stack[i].c
  BY <1>1, <1>3 DEF StackOK
<1> HIDE DEF n
<1>6. ListOK'
  BY <1>4 DEF ListOK
<1>7. ChannelsOK'
  BY <1>2, <1>4 DEF ChannelsOK
<1>8. RecordsOK'
  BY <1>2, <1>4 DEF RecordsOK
<1>9. StackOK'
  <2>1. \A d \in DOMAIN ch \ {c} : Running(stack', d) = Running(stack, d)
    BY <1>3, <1>5 DEF Running
  <2>2. Running(stack', c) = Running(stack, c) \cup {n} /\ n \notin Running(stack, c)
    BY <1>3, <1>5 DEF Running
  <2>3. IsFiniteSet(Running(stack, c))
    BY RunningIsFinite DEF StackOK
  <2>4. Cardinality(Running(stack', c)) = Cardinality(Running(stack, c)) + 1
    BY <2>2, <2>3, FS_AddElement
  <2>5. \A d \in DOMAIN ch' : ch'[d].callbacks = Cardinality(Running(stack', d))
    BY <2>1, <2>4, <1>2, <1>4 DEF StackOK
  <2>6. \A i \in DOMAIN stack' : stack'[i].kind = "pass" => i = 1
    BY <1>3, <1>5 DEF StackOK
  <2>7. \A i \in DOMAIN stack' : stack'[i].c \in DOMAIN ch'
    BY <1>3, <1>4, <1>5 DEF StackOK
  <2> QED
    BY <2>5, <2>6, <2>7, <1>5 DEF StackOK
<1>10. ~fault'
  BY <1>1 DEF RecordsOK
<1>11. SilenceStep
  <2>1. \A d \in DOMAIN ch :
          /\ ch[d].callbacks \in Nat
          /\ ch[d].disposed => ch[d].playing = 0 /\ ch[d].queue = <<>>
    BY DEF ChannelsOK, ChannelOK, ChannelType
  <2>2. \A d \in DOMAIN ch : ch[d].disposed => ch'[d] = ch[d]
    BY <1>4
  <2> QED
    BY <2>1, <2>2 DEF SilenceStep
<1> QED
  BY <1>6, <1>7, <1>8, <1>9, <1>10, <1>11 DEF Goal

(* A callback returns into a channel that is still there.                  *)
LEMMA CallbackEnds ==
  ASSUME SoundInv, NEW t \in Threads, CallbackReturns(t)
  PROVE  Goal
<1> USE DEF SoundInv
<1> DEFINE c == Top.c
           n == Len(stack)
           new == [ch[c] EXCEPT !.callbacks = @ - 1]
<1>1. n \in Nat /\ n > 0 /\ DOMAIN stack = 1..n /\ stack[n].kind = "callback"
      /\ stack[n].c = c /\ c \in DOMAIN ch
  <2>1. stack # <<>>
    BY MixerIsNoGame DEF CallbackReturns, ThreadsOK, Threads
  <2>2. n \in Nat /\ n > 0 /\ DOMAIN stack = 1..n
    BY <2>1 DEF StackOK
  <2> QED
    BY <2>2 DEF StackOK, Top, CallbackReturns
<1>2. /\ fault' = (fault \/ (Top.queued /\ ~ch[c].disposed /\ ch[c].rec \notin records))
      /\ ch' = [ch EXCEPT ![c] = new]
      /\ stack' = SubSeq(stack, 1, n - 1)
      /\ holder' = IF n = 1 THEN NoOne ELSE t
      /\ UNCHANGED <<chain, records, pc, want>>
  BY <1>1 DEF CallbackReturns, ChannelsOK
<1>3. Running(stack, c) # {} /\ n \in Running(stack, c)
  BY <1>1 DEF Running
<1>4. /\ IsFiniteSet(Running(stack, c)) /\ ch[c].callbacks = Cardinality(Running(stack, c))
      /\ ch[c].callbacks \in Nat /\ ch[c].callbacks # 0
  BY <1>1, <1>3, RunningIsFinite, FS_EmptySet, FS_CardinalityType DEF StackOK
<1>5. /\ ChannelOK(new) /\ new.rec = ch[c].rec /\ new.owned = ch[c].owned
      /\ new.callbacks = ch[c].callbacks - 1 /\ new.disposed = ch[c].disposed
  <2>1. ch[c] \in ChannelType /\ ch[c].callbacks - 1 \in Nat /\ ChannelOK(ch[c])
    BY <1>1, <1>4 DEF ChannelsOK, ChannelOK
  <2>2. new \in ChannelType
    BY <2>1 DEF ChannelType
  <2> QED
    BY <2>1, <2>2 DEF ChannelOK, ChannelType
<1> HIDE DEF new, c
<1>6. /\ DOMAIN ch' = DOMAIN ch /\ ch'[c] = new
      /\ \A d \in DOMAIN ch \ {c} : ch'[d] = ch[d]
      /\ ch' = [d \in DOMAIN ch' |-> ch'[d]]
  BY <1>1, <1>2 DEF ChannelsOK
<1>7. /\ stack' \in Seq(Frame) /\ DOMAIN stack' = DOMAIN stack \ {n}
      /\ \A i \in DOMAIN stack' : stack'[i] = stack[i]
      /\ stack' = <<>> <=> n = 1
  BY <1>1, <1>2 DEF StackOK
<1> HIDE DEF n
<1>8. ListOK'
  BY <1>2, <1>6 DEF ListOK
<1>9. ChannelsOK'
  BY <1>5, <1>6 DEF ChannelsOK
<1>10. RecordsOK'
  BY <1>2, <1>5, <1>6 DEF RecordsOK
<1>11. StackOK'
  <2>1. \A d \in DOMAIN ch \ {c} : Running(stack', d) = Running(stack, d)
    BY <1>1, <1>7 DEF Running
  <2>2. Running(stack', c) = Running(stack, c) \ {n}
    BY <1>1, <1>7 DEF Running
  <2>3. Cardinality(Running(stack', c)) = Cardinality(Running(stack, c)) - 1
    BY <2>2, <1>3, <1>4, FS_RemoveElement
  <2>4. \A d \in DOMAIN ch' : ch'[d].callbacks = Cardinality(Running(stack', d))
    BY <2>1, <2>3, <1>4, <1>5, <1>6 DEF StackOK
  <2> QED
    BY <2>4, <1>6, <1>7 DEF StackOK
<1>12. ThreadsOK'
  BY <1>2, <1>7, MixerIsNoGame DEF ThreadsOK, Threads
<1>13. ~fault'
  BY <1>1, <1>2 DEF RecordsOK
<1>14. SilenceStep
  BY <1>4, <1>5, <1>6 DEF SilenceStep, ChannelsOK, ChannelOK, ChannelType
<1> QED
  BY <1>8, <1>9, <1>10, <1>11, <1>12, <1>13, <1>14 DEF Goal

(* A channel is made at an address that none has.                          *)
LEMMA NewChannel ==
  ASSUME SoundInv, NEW t \in Threads, NEW r \in Records, NEW owned \in BOOLEAN,
         SndNewChannel(t, r, owned)
  PROVE  Goal
<1> USE DEF SoundInv
<1>1. PICK c \in Ids \ Range(chain) :
        /\ chain' = <<c>> \o chain
        /\ ch' = [x \in DOMAIN ch \cup {c} |-> IF x = c THEN Fresh(r, owned) ELSE ch[x]]
  BY DEF SndNewChannel
<1>2. /\ IF owned THEN r \notin records ELSE r \in records /\ Found(r) = {}
      /\ \A d \in DOMAIN ch : ch[d].rec = r => ~ch[d].owned
      /\ records' = records \cup {r}
      /\ UNCHANGED <<holder, stack, pc, want, fault>>
  BY DEF SndNewChannel, ListOK
<1> DEFINE s == Fresh(r, owned)
<1>3. ChannelOK(s) /\ s.rec = r /\ s.owned = owned /\ s.callbacks = 0 /\ ~s.disposed
  <2>1. <<>> \in Seq(Commands) /\ 0 \in 0..Length /\ Capacity \in Nat
    BY SoundBounds
  <2> QED
    BY <2>1 DEF Fresh, ChannelOK, ChannelType
<1>4. /\ c \notin DOMAIN ch /\ DOMAIN ch' = DOMAIN ch \cup {c} /\ ch'[c] = s
      /\ \A d \in DOMAIN ch : ch'[d] = ch[d]
      /\ ch' = [d \in DOMAIN ch' |-> ch'[d]]
  BY <1>1 DEF ListOK
<1> HIDE DEF s
<1>5. ListOK'
  <2>1. /\ chain' \in Seq(Ids) /\ DOMAIN chain' = 1..Len(chain) + 1
        /\ chain'[1] = c
        /\ \A i \in DOMAIN chain' : i # 1 => i - 1 \in DOMAIN chain /\ chain'[i] = chain[i - 1]
        /\ \A i \in DOMAIN chain : i + 1 \in DOMAIN chain' /\ chain'[i + 1] = chain[i]
        /\ 1 \in DOMAIN chain' /\ \A i \in DOMAIN chain' : i \in Nat
    BY <1>1 DEF ListOK
  <2>2. Range(chain') = Range(chain) \cup {c}
    <3>1. \A x \in Range(chain') : x \in Range(chain) \cup {c}
      BY <2>1 DEF Range
    <3>2. \A x \in Range(chain) \cup {c} : x \in Range(chain')
      BY <2>1 DEF Range
    <3> QED
      BY <3>1, <3>2
  <2>3. \A i, j \in DOMAIN chain' : chain'[i] = chain'[j] => i = j
    <3> TAKE i, j \in DOMAIN chain'
    <3>1. \A k \in DOMAIN chain : chain[k] # c
      BY <1>1 DEF Range
    <3>2. CASE i = 1 \/ j = 1
      BY <2>1, <3>1, <3>2
    <3>3. CASE i # 1 /\ j # 1
      <4>1. chain'[i] = chain'[j] => i - 1 = j - 1
        BY <2>1, <3>3 DEF ListOK
      <4> QED
        BY <2>1, <4>1
    <3> QED
      BY <3>2, <3>3
  <2> QED
    BY <2>1, <2>2, <2>3, <1>4 DEF ListOK
<1>6. ChannelsOK'
  BY <1>3, <1>4 DEF ChannelsOK
<1>7. RecordsOK'
  BY <1>2, <1>3, <1>4 DEF RecordsOK
<1>8. StackOK'
  <2>1. Running(stack, c) = {}
    BY <1>4 DEF Running, StackOK
  <2> QED
    BY <2>1, <1>2, <1>3, <1>4, FS_EmptySet DEF StackOK
<1>9. ThreadsOK'
  BY <1>2 DEF ThreadsOK
<1>10. SilenceStep
  BY <1>4 DEF SilenceStep, ChannelsOK, ChannelOK, ChannelType
<1> QED
  BY <1>2, <1>5, <1>6, <1>7, <1>8, <1>9, <1>10 DEF Goal

(* In a pass outside of a callback nothing else is on the stack.           *)
LEMMA PassAlone ==
  ASSUME SoundInv, InPass
  PROVE  /\ Len(stack) = 1 /\ DOMAIN stack = {1} /\ stack[1] = Top
         /\ Channel \in DOMAIN ch /\ Channel \in Ids /\ Top.commands \in Nat
         /\ ChannelOK(ch[Channel])
         /\ \A c \in DOMAIN ch : ch[c].callbacks = 0
<1> USE DEF SoundInv
<1>1. Len(stack) = 1 /\ stack[1] = Top /\ stack[1].kind = "pass"
  <2>1. Len(stack) \in DOMAIN stack
    BY DEF StackOK, InPass
  <2> QED
    BY <2>1 DEF StackOK, InPass, Top
<1>2. DOMAIN stack = {1}
  BY <1>1 DEF StackOK
<1>3. Channel \in DOMAIN ch /\ stack[1] \in Frame
  <2>1. ASSUME NEW i \in DOMAIN stack
        PROVE  stack[i] \in Frame /\ stack[i].c \in DOMAIN ch
    BY DEF StackOK
  <2>2. 1 \in DOMAIN stack
    BY <1>2
  <2> QED
    BY <1>1, <2>1, <2>2 DEF Channel
<1>4. Channel \in Ids /\ Top.commands \in Nat
  BY <1>1, <1>3 DEF Frame, Channel
<1>5. \A c \in DOMAIN ch : Running(stack, c) = {}
  BY <1>1, <1>2 DEF Running
<1>6. \A c \in DOMAIN ch : ch[c].callbacks = 0
  BY <1>5, FS_EmptySet DEF StackOK
<1> QED
  BY <1>1, <1>2, <1>3, <1>4, <1>6 DEF ChannelsOK

(* A frame of a pass, over a channel of the list, can be the whole stack   *)
(* while no callback runs.                                                 *)
LEMMA OnlyPass ==
  ASSUME NEW c \in DOMAIN ch', c \in Ids, stack' = <<PassAt(c)>>,
         \A d \in DOMAIN ch' : ch'[d].callbacks = 0
  PROVE  StackOK'
<1>1. PassAt(c) \in Frame /\ PassAt(c).kind = "pass" /\ PassAt(c).c = c
  BY DEF PassAt, Frame
<1>2. /\ stack' \in Seq(Frame) /\ DOMAIN stack' = {1} /\ stack'[1] = PassAt(c)
  BY <1>1
<1>3. \A d \in DOMAIN ch' : Running(stack', d) = {}
  BY <1>1, <1>2 DEF Running
<1> QED
  BY <1>1, <1>2, <1>3, FS_EmptySet DEF StackOK

(* The mixer's pass starts at the head of the list,                        *)
LEMMA PassStarts ==
  ASSUME SoundInv, mix
  PROVE  Goal
<1> USE DEF SoundInv
<1>1. /\ stack = <<>> /\ holder' = Mixer /\ stack' = <<PassAt(chain[1])>>
      /\ UNCHANGED <<chain, ch, records, pc, want, fault>>
  BY DEF mix, ThreadsOK
<1>2. chain[1] \in DOMAIN ch /\ chain[1] \in Ids
  <2>1. 1 \in DOMAIN chain
    BY DEF mix, ListOK
  <2> QED
    BY <2>1 DEF ListOK, Range
<1>3. \A d \in DOMAIN ch : ch[d].callbacks = 0
  <2>1. \A d \in DOMAIN ch : Running(stack, d) = {}
    BY <1>1, RunningIsFinite DEF StackOK
  <2> QED
    BY <2>1, FS_EmptySet DEF StackOK
<1>4. StackOK'
  BY <1>1, <1>2, <1>3, OnlyPass
<1>5. ThreadsOK'
  BY <1>1, MixerIsNoGame DEF ThreadsOK, Threads
<1>6. ListOK' /\ ChannelsOK' /\ RecordsOK' /\ SilenceStep
  BY <1>1 DEF ListOK, ChannelsOK, ChannelOK, ChannelType, RecordsOK, SilenceStep
<1> QED
  BY <1>1, <1>4, <1>5, <1>6 DEF Goal

(* and goes on to the next channel, or ends and frees what was disposed of *)
(* during it.                                                              *)
LEMMA PassMoves ==
  ASSUME SoundInv, ChannelDone
  PROVE  Goal
<1> USE DEF SoundInv
<1> DEFINE left == IF ch[Channel].playing > 1 THEN ch[Channel].playing - 1
                                              ELSE ch[Channel].playing
           new == [ch[Channel] EXCEPT !.playing = left]
           played == [ch EXCEPT ![Channel] = new]
           i == CHOOSE i \in DOMAIN chain : chain[i] = Channel
<1>1. InPass
  BY DEF ChannelDone
<1>2. played = [ch EXCEPT ![Channel].playing = IF @ > 1 THEN @ - 1 ELSE @]
  BY <1>1, PassAlone DEF ChannelsOK
<1>3. /\ ChannelOK(new) /\ new.rec = ch[Channel].rec
      /\ new.owned = ch[Channel].owned /\ new.callbacks = 0
      /\ new.disposed = ch[Channel].disposed
  <2>1. /\ ch[Channel] \in ChannelType /\ ChannelOK(ch[Channel])
        /\ ch[Channel].callbacks = 0
    BY <1>1, PassAlone DEF ChannelOK
  <2>2. left \in 0..Length /\ (ch[Channel].playing = 0 => left = 0)
    BY <2>1, SoundBounds DEF ChannelType
  <2> HIDE DEF left
  <2>3. new \in ChannelType
    BY <2>1, <2>2 DEF ChannelType
  <2> QED
    BY <2>1, <2>2, <2>3 DEF ChannelOK, ChannelType
<1> HIDE DEF new
<1>4. /\ DOMAIN played = DOMAIN ch /\ played[Channel] = new
      /\ \A d \in DOMAIN ch \ {Channel} : played[d] = ch[d]
      /\ played = [d \in DOMAIN ch |-> played[d]]
  BY <1>1, PassAlone DEF ChannelsOK
<1> HIDE DEF played
<1>5. \A d \in DOMAIN ch :
        /\ ChannelOK(played[d])
        /\ played[d].rec = ch[d].rec /\ played[d].owned = ch[d].owned
        /\ played[d].callbacks = ch[d].callbacks /\ ch[d].callbacks = 0
        /\ played[d].disposed = ch[d].disposed
  BY <1>1, <1>3, <1>4, PassAlone DEF ChannelsOK
<1>6. /\ IF i < Len(chain)
         THEN /\ stack' = <<PassAt(chain[i + 1])>>
              /\ ch' = played
              /\ UNCHANGED <<chain, records, holder>>
         ELSE /\ stack' = <<>>
              /\ holder' = NoOne
              /\ FreeDisposed(played, chain)
      /\ UNCHANGED <<pc, want, fault>>
  BY <1>2 DEF ChannelDone
<1>7. i \in DOMAIN chain
  <2>1. \E k \in DOMAIN chain : chain[k] = Channel
    BY <1>1, PassAlone DEF ListOK, Range
  <2> QED
    BY <2>1
<1> HIDE DEF i
<1>8. CASE i < Len(chain)
  <2>1. /\ stack' = <<PassAt(chain[i + 1])>> /\ ch' = played
        /\ UNCHANGED <<chain, records, holder, pc, want, fault>>
    BY <1>6, <1>8
  <2>2. chain[i + 1] \in DOMAIN ch /\ chain[i + 1] \in Ids
    <3>1. i + 1 \in DOMAIN chain
      BY <1>7, <1>8 DEF ListOK
    <3> QED
      BY <3>1 DEF ListOK, Range
  <2>3. StackOK'
    BY <2>1, <2>2, <1>4, <1>5, OnlyPass
  <2>4. ListOK' /\ ChannelsOK'
    BY <2>1, <1>4, <1>5 DEF ListOK, ChannelsOK
  <2>5. RecordsOK'
    BY <2>1, <1>4, <1>5 DEF RecordsOK
  <2>6. ThreadsOK'
    <3>1. stack # <<>>
      BY <1>1 DEF InPass
    <3> QED
      BY <2>1, <3>1 DEF ThreadsOK
  <2>7. SilenceStep
    BY <2>1, <1>4, <1>5 DEF SilenceStep, ChannelOK
  <2> QED
    BY <2>1, <2>3, <2>4, <2>5, <2>6, <2>7 DEF Goal
<1>9. CASE ~(i < Len(chain))
  <2>1. /\ stack' = <<>> /\ holder' = NoOne /\ FreeDisposed(played, chain)
        /\ UNCHANGED <<pc, want, fault>>
    BY <1>6, <1>9
  <2>2. ThreadsOK'
    BY <2>1 DEF ThreadsOK
  <2>3. \A k \in DOMAIN stack' : stack[k].kind = "callback"
    BY <2>1
  <2> QED
    BY <2>1, <2>2, <2>3, <1>4, <1>5, FreeingIsSafe DEF StackOK
<1> QED
  BY <1>8, <1>9

(* The head of the queue is taken out and run, or a sound ends.            *)
LEMMA PassRuns ==
  ASSUME SoundInv, SoundEnds \/ RunsQueued
  PROVE  Goal
<1> USE DEF SoundInv
<1> DEFINE c == Channel
           rest == [ch[c] EXCEPT !.queue = Tail(@)]
           counted == [stack EXCEPT ![Len(stack)].commands = @ + 1]
<1>1. /\ InPass /\ ~ch[c].disposed
      /\ UNCHANGED <<chain, records, holder, pc, want>>
  BY DEF SoundEnds, RunsQueued, Fills
<1>2. /\ c \in DOMAIN ch /\ ChannelOK(ch[c]) /\ ch[c] \in ChannelType
      /\ Len(stack) = 1 /\ DOMAIN stack = {1} /\ stack[1] = Top
      /\ Top.commands \in Nat
  BY <1>1, PassAlone DEF ChannelOK
<1>3. /\ counted \in Seq(Frame) /\ Len(counted) = Len(stack)
      /\ \A i \in DOMAIN stack :
           counted[i].kind = stack[i].kind /\ counted[i].c = stack[i].c
  <2> DEFINE f == [stack[1] EXCEPT !.commands = @ + 1]
  <2>1. f \in Frame /\ f.kind = stack[1].kind /\ f.c = stack[1].c
    <3>1. stack[1] \in Frame
      <4>1. ASSUME NEW i \in DOMAIN stack
            PROVE  stack[i] \in Frame
        BY DEF StackOK
      <4>2. 1 \in DOMAIN stack
        BY <1>2
      <4> QED
        BY <4>1, <4>2
    <3> QED
      BY <3>1 DEF Frame
  <2>2. counted = [stack EXCEPT ![1] = f]
    BY <1>2
  <2> HIDE DEF f
  <2> QED
    BY <1>2, <2>1, <2>2 DEF StackOK
<1>4. CASE SoundEnds
  <2> DEFINE s == [ch[c] EXCEPT !.playing = 0]
  <2>1. ch' = [ch EXCEPT ![c] = s] /\ UNCHANGED <<stack, fault>>
    BY <1>2, <1>4 DEF SoundEnds, ChannelsOK
  <2>2. /\ ChannelOK(s) /\ s.rec = ch[c].rec /\ s.owned = ch[c].owned
        /\ s.callbacks = ch[c].callbacks /\ ~s.disposed
    <3>1. 0 \in 0..Length
      BY SoundBounds
    <3> QED
      BY <1>1, <1>2, <3>1 DEF ChannelOK, ChannelType
  <2> HIDE DEF s
  <2>3. ThreadsOK'
    BY <1>1, <2>1 DEF ThreadsOK
  <2>4. SameFrames
    BY <2>1 DEF SameFrames, StackOK
  <2> QED
    BY <1>1, <1>2, <2>1, <2>2, <2>3, <2>4, Plays
<1>5. CASE RunsQueued
  <2> DEFINE cmd == Head(ch[c].queue)
  <2>1. ch[c].queue # <<>> /\ ch[c].queue \in Seq(Commands)
    BY <1>2, <1>5 DEF RunsQueued, Commandable, ChannelType
  <2>2. /\ Tail(ch[c].queue) \in Seq(Commands) /\ Len(Tail(ch[c].queue)) <= Capacity
        /\ cmd \in Commands
    BY <1>2, <2>1, SoundBounds DEF ChannelOK
  <2>3. /\ ChannelOK(rest) /\ rest \in ChannelType /\ rest.rec = ch[c].rec
        /\ rest.owned = ch[c].owned
        /\ rest.callbacks = ch[c].callbacks /\ ~rest.disposed
    BY <1>1, <1>2, <2>2 DEF ChannelOK, ChannelType
  <2>4. Dequeued = [ch EXCEPT ![c] = rest]
    BY <1>2 DEF Dequeued, ChannelsOK
  <2>5. IF cmd = "callBackCmd"
        THEN RunsCallback(c, Dequeued, counted, TRUE)
        ELSE /\ ch' = [Dequeued EXCEPT ![c].playing =
                         IF cmd = "bufferCmd" THEN Length ELSE 0]
             /\ fault' = (fault \/ ch[c].rec \notin records)
             /\ stack' = counted
    BY <1>5 DEF RunsQueued
  <2>6. stack # <<>> /\ counted # <<>>
    BY <1>1, <1>2, <1>3 DEF InPass
  <2> HIDE DEF rest, counted
  <2>7. CASE cmd = "callBackCmd"
    <3>1. RunsCallback(c, [ch EXCEPT ![c] = rest], counted, TRUE)
      BY <2>4, <2>5, <2>7
    <3>2. stack' # <<>>
      BY <3>1, <1>3 DEF RunsCallback
    <3>3. ThreadsOK'
      BY <1>1, <2>6, <3>2 DEF ThreadsOK
    <3> QED
      BY <1>1, <1>2, <1>3, <2>3, <3>1, <3>3, CallbackStarts
  <2>8. CASE cmd # "callBackCmd"
    <3> DEFINE s == [rest EXCEPT !.playing = IF cmd = "bufferCmd" THEN Length ELSE 0]
    <3>1. ch' = [ch EXCEPT ![c] = s]
      BY <1>2, <2>4, <2>5, <2>8 DEF ChannelsOK
    <3>2. /\ ChannelOK(s) /\ s.rec = ch[c].rec /\ s.owned = ch[c].owned
          /\ s.callbacks = ch[c].callbacks /\ ~s.disposed
      <4>1. (IF cmd = "bufferCmd" THEN Length ELSE 0) \in 0..Length
        BY SoundBounds
      <4> QED
        BY <2>3, <4>1 DEF ChannelOK, ChannelType
    <3> HIDE DEF s
    <3>3. fault' = (fault \/ ch[c].rec \notin records) /\ stack' = counted
      BY <2>5, <2>8
    <3>4. SameFrames
      BY <3>3, <1>3 DEF SameFrames
    <3>5. ThreadsOK'
      BY <1>1, <2>6, <3>3 DEF ThreadsOK
    <3> QED
      BY <1>1, <1>2, <3>1, <3>2, <3>3, <3>4, <3>5, Plays
  <2> QED
    BY <2>7, <2>8
<1> QED
  BY <1>4, <1>5

-----------------------------------------------------------------------------
(* The game's calls.                                                       *)

(* What find_channel finds is in use.                                      *)
LEMMA FoundChannels ==
  ASSUME SoundInv, NEW r, NEW c \in Found(r)
  PROVE  /\ c \in DOMAIN ch /\ ch[c].rec = r /\ ~ch[c].disposed
         /\ ch[c] \in ChannelType /\ ChannelOK(ch[c])
BY DEF SoundInv, ListOK, ChannelsOK, ChannelOK, Found

(* The game's records come and go; none goes that a channel uses.          *)
LEMMA GameRecords ==
  ASSUME SoundInv, NEW r \in Records, NEW t \in Threads,
         AllocatesRecord(r) \/ FreesRecord(t, r)
  PROVE  Goal
<1> USE DEF SoundInv
<1>1. /\ UNCHANGED <<chain, ch, holder, stack, pc, want, fault>>
      /\ \/ records' = records \cup {r}
         \/ records' = records \ {r} /\ Found(r) = {}
  BY DEF AllocatesRecord, FreesRecord
<1>2. \A c \in DOMAIN ch : ~ch[c].disposed => ch[c].rec \in records'
  BY <1>1 DEF RecordsOK, ListOK, Found
<1>3. RecordsOK'
  BY <1>1, <1>2 DEF RecordsOK
<1>4. ListOK' /\ StackOK' /\ ThreadsOK'
  BY <1>1 DEF ListOK, StackOK, ThreadsOK, Running
<1>6. ChannelsOK'
  BY <1>1 DEF ChannelsOK
<1>5. SilenceStep
  BY <1>1 DEF SilenceStep, ChannelsOK, ChannelOK, ChannelType
<1> QED
  BY <1>1, <1>3, <1>4, <1>5, <1>6 DEF Goal

(* SndDisposeChannel waits, or disposes at once or at last.                *)
LEMMA DisposeSteps ==
  ASSUME SoundInv, NEW t \in Threads, NEW r \in Records \cup {"none"}, NEW flag \in BOOLEAN,
         SndDisposeChannel(t, r, flag) \/ DisposeEnds(t, flag)
  PROVE  Goal
<1> USE DEF SoundInv
<1>1. UNCHANGED <<holder, stack, fault>>
  BY DEF SndDisposeChannel, DisposeEnds
<1>2. ThreadsOK'
  <2>1. NoWait \in [rec : Records \cup {"none"}, cmd : Commands \cup {"none"}]
    BY DEF NoWait
  <2>2. [rec |-> r, cmd |-> "none"] \in
          [rec : Records \cup {"none"}, cmd : Commands \cup {"none"}]
    OBVIOUS
  <2>3. /\ \/ pc' = pc /\ want' = want
           \/ /\ pc' = [pc EXCEPT ![t] = "draining"]
              /\ want' = [want EXCEPT ![t] = [rec |-> r, cmd |-> "none"]]
           \/ /\ pc' = [pc EXCEPT ![t] = "game"]
              /\ want' = [want EXCEPT ![t] = NoWait]
    BY DEF SndDisposeChannel, DisposeEnds, StopsWaiting
  <2> QED
    BY <1>1, <2>1, <2>2, <2>3 DEF ThreadsOK
<1>3. \/ UNCHANGED <<chain, ch, records>>
      \/ \E q : \E c \in Found(q) : Disposes(c)
  BY DEF SndDisposeChannel, DisposeEnds
<1>4. CASE UNCHANGED <<chain, ch, records>>
  BY <1>1, <1>2, <1>4, LeavesAlone
<1>5. ASSUME NEW q, NEW c \in Found(q), Disposes(c)
      PROVE  Goal
  BY <1>1, <1>2, <1>5, FoundChannels, Disposing
<1> QED
  BY <1>3, <1>4, <1>5

(* A command at the end of the queue of a channel with room in it.         *)
LEMMA Queues ==
  ASSUME SoundInv, NEW r, NEW c \in Found(r), NEW cmd \in Commands,
         Len(ch[c].queue) < Capacity, ch' = Enqueued(c, cmd),
         UNCHANGED <<chain, records, stack, fault>>, ThreadsOK'
  PROVE  Goal
<1> DEFINE s == [ch[c] EXCEPT !.queue = Append(@, cmd)]
<1>1. /\ c \in DOMAIN ch /\ ch[c] \in ChannelType /\ ChannelOK(ch[c])
      /\ ~ch[c].disposed
  BY FoundChannels
<1>2. ch' = [ch EXCEPT ![c] = s]
  BY <1>1 DEF Enqueued, SoundInv, ChannelsOK
<1>3. /\ ChannelOK(s) /\ s.rec = ch[c].rec /\ s.owned = ch[c].owned
      /\ s.callbacks = ch[c].callbacks /\ ~s.disposed
  <2>1. /\ Append(ch[c].queue, cmd) \in Seq(Commands)
        /\ Len(Append(ch[c].queue, cmd)) <= Capacity
    BY <1>1, SoundBounds DEF ChannelType
  <2> QED
    BY <1>1, <2>1 DEF ChannelOK, ChannelType
<1> HIDE DEF s
<1>4. SameFrames
  BY DEF SoundInv, StackOK, SameFrames
<1> QED
  BY <1>1, <1>2, <1>3, <1>4, Plays

(* SndDoCommand waits, or queues its command at once, at last or never.    *)
LEMMA CommandSteps ==
  ASSUME SoundInv, NEW t \in Threads, NEW r \in Records \cup {"none"}, NEW cmd \in Commands,
         NEW flag \in BOOLEAN, SndDoCommand(t, r, cmd, flag) \/ CommandEnds(t, flag)
  PROVE  Goal
<1> USE DEF SoundInv
<1>1. UNCHANGED <<chain, records, holder, stack, fault>>
  BY DEF SndDoCommand, CommandEnds
<1>2. ThreadsOK'
  <2>1. NoWait \in [rec : Records \cup {"none"}, cmd : Commands \cup {"none"}]
    BY DEF NoWait
  <2> DEFINE w == [rec |-> r, cmd |-> cmd]
  <2>2. w \in [rec : Records \cup {"none"}, cmd : Commands \cup {"none"}]
        /\ w.cmd \in Commands
    OBVIOUS
  <2>3. \/ pc' = pc /\ want' = want
        \/ /\ pc' = [pc EXCEPT ![t] = "filling"]
           /\ want' = [want EXCEPT ![t] = w]
        \/ /\ pc' = [pc EXCEPT ![t] = "game"]
           /\ want' = [want EXCEPT ![t] = NoWait]
    BY DEF SndDoCommand, CommandEnds, StopsWaiting
  <2> HIDE DEF w
  <2> QED
    BY <1>1, <2>1, <2>2, <2>3 DEF ThreadsOK
<1>3. \/ ch' = ch
      \/ \E q, x : \E c \in Found(q) : /\ x \in Commands
                                       /\ Len(ch[c].queue) < Capacity
                                       /\ ch' = Enqueued(c, x)
  <2>1. CASE SndDoCommand(t, r, cmd, flag)
    BY <2>1 DEF SndDoCommand
  <2>2. CASE CommandEnds(t, flag)
    <3>1. want[t].cmd \in Commands
      BY <2>2 DEF CommandEnds, Polls, ThreadsOK
    <3> QED
      BY <2>2, <3>1 DEF CommandEnds
  <2> QED
    BY <2>1, <2>2
<1>4. CASE ch' = ch
  BY <1>1, <1>2, <1>4, LeavesAlone
<1>5. ASSUME NEW q, NEW x \in Commands, NEW c \in Found(q),
             Len(ch[c].queue) < Capacity, ch' = Enqueued(c, x)
      PROVE  Goal
  BY <1>1, <1>2, <1>5, Queues
<1> QED
  BY <1>3, <1>4, <1>5

(* SndDoImmediate writes a channel not disposed of, or starts a callback.  *)
LEMMA ImmediateSteps ==
  ASSUME SoundInv, NEW t \in Threads, NEW r \in Records,
         SndDoImmediate(t, r) \/ ImmediateCallback(t, r)
  PROVE  Goal
<1> USE DEF SoundInv
<1>1. ASSUME SndDoImmediate(t, r)
      PROVE  Goal
  <2>1. UNCHANGED <<chain, records, holder, stack, pc, want, fault>>
    BY <1>1 DEF SndDoImmediate
  <2>2. PICK c \in Found(r) :
          ch' \in {[ch EXCEPT ![c].playing = Length], [ch EXCEPT ![c].playing = 0],
                   [ch EXCEPT ![c].queue = <<>>], [ch EXCEPT ![c].paused = TRUE],
                   [ch EXCEPT ![c].paused = FALSE]}
    BY <1>1 DEF SndDoImmediate
  <2>3. /\ c \in DOMAIN ch /\ ch[c] \in ChannelType /\ ChannelOK(ch[c])
        /\ ~ch[c].disposed
    BY FoundChannels
  <2>4. PICK s \in {[ch[c] EXCEPT !.playing = Length], [ch[c] EXCEPT !.playing = 0],
                    [ch[c] EXCEPT !.queue = <<>>], [ch[c] EXCEPT !.paused = TRUE],
                    [ch[c] EXCEPT !.paused = FALSE]} :
          ch' = [ch EXCEPT ![c] = s]
    BY <2>2, <2>3 DEF ChannelsOK
  <2>5. /\ ChannelOK(s) /\ s.rec = ch[c].rec /\ s.owned = ch[c].owned
        /\ s.callbacks = ch[c].callbacks /\ ~s.disposed
    <3>1. /\ 0 \in 0..Length /\ Length \in 0..Length /\ Capacity >= 0
          /\ <<>> \in Seq(Commands) /\ Len(<<>>) = 0
      BY SoundBounds
    <3> QED
      BY <2>3, <2>4, <3>1 DEF ChannelOK, ChannelType
  <2>6. SameFrames
    BY <2>1 DEF StackOK, SameFrames
  <2>7. ThreadsOK'
    BY <2>1 DEF ThreadsOK
  <2> QED
    BY <2>1, <2>3, <2>4, <2>5, <2>6, <2>7, Plays
<1>2. ASSUME ImmediateCallback(t, r)
      PROVE  Goal
  <2>1. PICK c \in Found(r) : RunsCallback(c, ch, stack, FALSE)
    BY <1>2 DEF ImmediateCallback
  <2>2. UNCHANGED <<chain, records, pc, want>> /\ holder' = t
    BY <1>2 DEF ImmediateCallback
  <2>3. c \in DOMAIN ch /\ ChannelOK(ch[c]) /\ ~ch[c].disposed
    BY FoundChannels
  <2>4. ch = [ch EXCEPT ![c] = ch[c]]
    BY <2>3 DEF ChannelsOK
  <2>5. ThreadsOK'
    <3>1. stack' # <<>>
      BY <2>1 DEF RunsCallback, StackOK
    <3> QED
      BY <2>2, <3>1, MixerIsNoGame DEF ThreadsOK, Threads
  <2>6. RunsCallback(c, [ch EXCEPT ![c] = ch[c]], stack, FALSE)
    BY <2>1, <2>4
  <2> QED
    BY <2>2, <2>3, <2>5, <2>6, CallbackStarts DEF StackOK
<1> QED
  BY <1>1, <1>2

-----------------------------------------------------------------------------
(* The invariant holds at first,                                           *)
LEMMA SoundAtFirst == Init => SoundInv
<1> SUFFICES ASSUME Init PROVE SoundInv
  OBVIOUS
<1>1. DOMAIN ch = {} /\ DOMAIN chain = {} /\ DOMAIN stack = {} /\ Range(chain) = {}
  BY DEF Init, Range
<1>2. ListOK
  BY <1>1 DEF Init, ListOK
<1>3. ChannelsOK
  BY <1>1 DEF Init, ChannelsOK
<1>4. RecordsOK /\ StackOK
  BY <1>1 DEF Init, RecordsOK, StackOK
<1>5. ThreadsOK
  BY DEF Init, ThreadsOK, NoWait
<1> QED
  BY <1>2, <1>3, <1>4, <1>5 DEF SoundInv, Init

(* and each step keeps it, and what is disposed of silent.                 *)
LEMMA SoundSteps ==
  ASSUME SoundInv, [Next]_vars
  PROVE  SoundInv' /\ SilenceStep
<1>1. ASSUME NEW r \in Records, NEW t \in Threads, Calls(t, r)
      PROVE  Goal
  BY <1>1, NewChannel, DisposeSteps, CommandSteps, ImmediateSteps, GameRecords DEF Calls
<1>2. ASSUME NEW r \in Records, AllocatesRecord(r)
      PROVE  Goal
  <2>1. Mixer \in Threads
    BY DEF Threads
  <2> QED
    BY <1>2, <2>1, GameRecords
<1>3. ASSUME NEW t \in Threads, CallbackReturns(t)
      PROVE  Goal
  BY <1>3, CallbackEnds
<1>4. ASSUME NEW t \in Threads, Ends(t)
      PROVE  Goal
  <2>1. PICK late \in BOOLEAN : DisposeEnds(t, late) \/ CommandEnds(t, late)
    BY <1>4 DEF Ends
  <2>2. CASE DisposeEnds(t, late)
    BY <2>2, DisposeSteps
  <2>3. CASE CommandEnds(t, late)
    <3>1. "bufferCmd" \in Commands
      BY DEF Commands
    <3> QED
      BY <2>3, <3>1, CommandSteps
  <2> QED
    BY <2>1, <2>2, <2>3
<1>5. ASSUME mix \/ Pass
      PROVE  Goal
  BY <1>5, PassStarts, PassRuns, PassMoves DEF Pass
<1>6. ASSUME UNCHANGED vars
      PROVE  Goal
  <2>1. ThreadsOK'
    BY <1>6 DEF vars, SoundInv, ThreadsOK
  <2> QED
    BY <1>6, <2>1, LeavesAlone DEF vars
<1> QED
  BY <1>1, <1>2, <1>3, <1>4, <1>5, <1>6 DEF Next, Goal

(* A channel that a callback runs for is not freed, and no record is       *)
(* touched after the game may have freed it.                               *)
THEOREM NothingIsFreedInUse == Spec => []NothingFreedInUse
<1>1. SoundInv => NothingFreedInUse
  BY DEF SoundInv, StackOK, NothingFreedInUse
<1> QED
  BY <1>1, SoundAtFirst, SoundSteps, PTL DEF Spec

(* Once a channel is disposed of nothing plays on it and no callback       *)
(* starts for it.                                                          *)
THEOREM DisposedIsSilent == Spec => DisposedStaysSilent
<1>1. SoundInv /\ [Next]_vars => [SilenceStep]_vars
  BY SoundSteps
<1> QED
  BY <1>1, SoundAtFirst, SoundSteps, PTL DEF Spec, DisposedStaysSilent

(* Every variable has its type, and the list is that of the channels.      *)
THEOREM TypesAreCorrect == Spec => []TypeOK
<1>1. SoundInv => TypeOK
  BY DEF SoundInv, ListOK, ChannelsOK, ChannelOK, RecordsOK, ThreadsOK, TypeOK, Range
<1> QED
  BY <1>1, SoundAtFirst, SoundSteps, PTL DEF Spec

-----------------------------------------------------------------------------
(* Condition variables.                                                    *)

(* A step of the parts is one of the conditions, or leaves them alone.     *)
LEMMA ConditionSteps ==
  /\ PartInit => D!Init
  /\ [PartNext]_partVars => [D!Next]_darwinVars
<1>1. PartInit => D!Init
  BY DEF PartInit
<1>2. [PartNext]_partVars => [D!Next]_darwinVars
  BY DEF PartNext, partVars
<1> QED
  BY <1>1, <1>2

(* What keeps the conditions apart: the one in the variable is live, each  *)
(* other live one is in the hands of the one thread that is about to       *)
(* publish it, and those that sleep or signal use the one in the variable. *)
CondInv ==
  /\ \A h \in D!Conds : heap[h] = "unused" <=> h > made
  /\ cond # D!NULL => heap[cond] = "live"
  /\ \A t \in Waiters : at[t] = "publishes" =>
       use[t] \in D!Conds /\ heap[use[t]] = "live" /\ use[t] # cond
  /\ \A s, t \in Waiters :
       at[s] = "publishes" /\ at[t] = "publishes" /\ use[s] = use[t] => s = t
  /\ \A t \in Waiters : at[t] \in {"has", "sleeps"} =>
       use[t] = cond /\ cond # D!NULL
  /\ \A h \in D!Conds : heap[h] = "live" =>
       h = cond \/ \E t \in Waiters : at[t] = "publishes" /\ use[t] = h

(* Every step keeps the types, and the conditions apart.                   *)
LEMMA ConditionsOnStep ==
  ASSUME D!TypeOK, CondInv, [D!Next]_darwinVars
  PROVE  D!TypeOK' /\ CondInv'
<1> USE ConditionBounds DEF D!TypeOK, CondInv, D!Conds, D!NULL
<1>1. ASSUME NEW t \in Waiters, D!Begins(t)
      PROVE  D!TypeOK' /\ CondInv'
  BY <1>1 DEF D!Begins, D!Goes, D!conditions
<1>2. ASSUME NEW t \in Waiters, D!Inside(t)
      PROVE  D!TypeOK' /\ CondInv'
  <2>1. /\ UNCHANGED <<static, cond, heap, made, wanted, use>>
        /\ word' \in {"darwin", "free", "held"} /\ items' \in 0..MaxItems
    BY <1>2 DEF D!Inside, D!conditions
  <2>2. PICK place \in {"cond_of", "idle"} : at' = [at EXCEPT ![t] = place]
    BY <1>2 DEF D!Inside, D!Goes
  <2> QED
    BY <1>2, <2>1, <2>2 DEF D!Inside
<1>3. ASSUME NEW t \in Waiters, D!SeesSignature(t)
      PROVE  D!TypeOK' /\ CondInv'
  BY <1>3 DEF D!SeesSignature, D!Goes, D!conditions
<1>4. ASSUME NEW t \in Waiters, D!convert_darwin_mutex(t)
      PROVE  D!TypeOK' /\ CondInv'
  BY <1>4 DEF D!convert_darwin_mutex, D!Goes, D!conditions
<1>5. ASSUME NEW t \in Waiters, D!Locks(t)
      PROVE  D!TypeOK' /\ CondInv'
  BY <1>5 DEF D!Locks, D!Goes, D!conditions
<1>6. ASSUME NEW t \in Waiters, D!cond_of(t)
      PROVE  D!TypeOK' /\ CondInv'
  <2>1. CASE cond # D!NULL
    <3>1. /\ at[t] = "cond_of"
          /\ use' = [use EXCEPT ![t] = cond]
          /\ at' = [at EXCEPT ![t] = "has"]
          /\ UNCHANGED <<static, word, cond, heap, made, items, wanted>>
      BY <1>6, <2>1 DEF D!cond_of, D!Goes
    <3>2. /\ at' \in [Waiters -> {"idle", "lock", "converts", "locks", "inside",
                                "cond_of", "publishes", "has", "sleeps"}]
          /\ use' \in [Waiters -> D!Conds \cup {D!NULL}]
      BY <3>1
    <3>3. \A s \in Waiters \ {t} : at'[s] = at[s] /\ use'[s] = use[s]
      BY <3>1
    <3>4. at'[t] = "has" /\ use'[t] = cond
      BY <3>1
    <3> QED
      BY <3>1, <3>2, <3>3, <3>4, <2>1
  <2>2. CASE cond = D!NULL
    <3> DEFINE n == made + 1
    <3>1. /\ at[t] = "cond_of" /\ made < MaxConds /\ made' = n
          /\ heap' = [heap EXCEPT ![n] = "live"]
          /\ use' = [use EXCEPT ![t] = n]
          /\ at' = [at EXCEPT ![t] = "publishes"]
          /\ UNCHANGED <<static, word, cond, items, wanted>>
      BY <1>6, <2>2 DEF D!cond_of, D!Makes, D!Goes
    <3>2. n \in D!Conds /\ n > made /\ n \in Nat /\ heap[n] = "unused" /\ n # D!NULL
      BY <3>1
    <3>3. \A s \in Waiters : at[s] = "publishes" => use[s] # n
      BY <3>2
    <3> HIDE DEF n
    <3>4. D!TypeOK'
      BY <3>1, <3>2
    <3>5. \A h \in D!Conds : heap'[h] = "unused" <=> h > made'
      BY <3>1, <3>2 DEF n
    <3>6. \A s \in Waiters : at'[s] = "publishes" =>
            use'[s] \in D!Conds /\ heap'[use'[s]] = "live" /\ use'[s] # cond'
      BY <3>1, <3>2, <2>2
    <3>7. \A r, s \in Waiters :
            at'[r] = "publishes" /\ at'[s] = "publishes" /\ use'[r] = use'[s] => r = s
      BY <3>1, <3>2, <3>3
    <3>8. \A s \in Waiters : at'[s] \notin {"has", "sleeps"}
      BY <3>1, <2>2
    <3>9. \A h \in D!Conds : heap'[h] = "live" =>
            h = cond' \/ \E s \in Waiters : at'[s] = "publishes" /\ use'[s] = h
      <4> TAKE h \in D!Conds
      <4> HAVE heap'[h] = "live"
      <4>1. CASE h = n
        <5>1. at'[t] = "publishes" /\ use'[t] = n
          BY <3>1
        <5> QED
          BY <5>1, <4>1
      <4>2. CASE h # n
        <5>1. heap[h] = "live"
          BY <3>1, <4>2
        <5>2. PICK s \in Waiters : at[s] = "publishes" /\ use[s] = h
          BY <5>1, <2>2
        <5>3. at'[s] = "publishes" /\ use'[s] = h
          BY <5>2, <3>1
        <5> QED
          BY <5>3
      <4> QED
        BY <4>1, <4>2
    <3> QED
      BY <3>1, <3>4, <3>5, <3>6, <3>7, <3>8, <3>9, <2>2
  <2> QED
    BY <2>1, <2>2
<1>7. ASSUME NEW t \in Waiters, D!PublishesCond(t)
      PROVE  D!TypeOK' /\ CondInv'
  BY <1>7, SMTT(30) DEF D!PublishesCond, D!Freed, D!Goes, D!conditions
<1>8. ASSUME NEW t \in Waiters, D!Sleeps(t)
      PROVE  D!TypeOK' /\ CondInv'
  BY <1>8 DEF D!Sleeps, D!Goes, D!conditions
<1>9. ASSUME NEW t \in Waiters, D!Signals(t)
      PROVE  D!TypeOK' /\ CondInv'
  BY <1>9 DEF D!Signals, D!Sleepers, D!Goes, D!conditions
<1>10. ASSUME NEW t \in Waiters, D!TimesOut(t)
      PROVE  D!TypeOK' /\ CondInv'
  BY <1>10 DEF D!TimesOut, D!Goes, D!conditions
<1>11. CASE D!cond_destroy
  BY <1>11 DEF D!cond_destroy, D!Unused, D!Freed
<1>12. CASE D!cond_init
  BY <1>12 DEF D!cond_init, D!Unused, D!Makes
<1>13. CASE UNCHANGED darwinVars
  BY <1>13 DEF darwinVars
<1> QED
  BY <1>1, <1>2, <1>3, <1>4, <1>5, <1>6, <1>7, <1>8, <1>9, <1>10, <1>11,
    <1>12, <1>13 DEF D!Next

(* What the mutex of pthread_mutex_init does: it excludes, a thread that   *)
(* lets go of it to sleep has found no item, and only one that wants an    *)
(* item sleeps.                                                            *)
Holds(t) == \/ at[t] = "inside"
            \/ at[t] \in {"cond_of", "publishes", "has"} /\ wanted[t] = "take"
Excludes ==
  /\ \A t \in Waiters : at[t] = "sleeps" => wanted[t] = "take"
  /\ ~static =>
       /\ word # "darwin"
       /\ \A t \in Waiters : at[t] # "converts"
       /\ word = "free" => \A t \in Waiters : ~Holds(t)
       /\ \A s, t \in Waiters : Holds(s) /\ Holds(t) => s = t
       /\ \A t \in Waiters : Holds(t) /\ at[t] # "inside" => items = 0

(* Every step keeps the mutex one that excludes.                           *)
LEMMA ExclusionOnStep ==
  ASSUME D!TypeOK, Excludes, [D!Next]_darwinVars
  PROVE  Excludes'
<1> USE ConditionBounds DEF D!TypeOK, Excludes, Holds
<1>1. ASSUME NEW t \in Waiters, D!Begins(t)
      PROVE  Excludes'
  BY <1>1 DEF D!Begins, D!Goes, D!conditions
<1>2. ASSUME NEW t \in Waiters, D!Inside(t)
      PROVE  Excludes'
  BY <1>2 DEF D!Inside, D!Goes, D!conditions
<1>3. ASSUME NEW t \in Waiters, D!SeesSignature(t)
      PROVE  Excludes'
  BY <1>3 DEF D!SeesSignature, D!Goes, D!conditions
<1>4. ASSUME NEW t \in Waiters, D!convert_darwin_mutex(t)
      PROVE  Excludes'
  BY <1>4 DEF D!convert_darwin_mutex, D!Goes, D!conditions
<1>5. ASSUME NEW t \in Waiters, D!Locks(t)
      PROVE  Excludes'
  BY <1>5 DEF D!Locks, D!Goes, D!conditions
<1>6. ASSUME NEW t \in Waiters, D!cond_of(t)
      PROVE  Excludes'
  BY <1>6 DEF D!cond_of, D!Goes
<1>7. ASSUME NEW t \in Waiters, D!PublishesCond(t)
      PROVE  Excludes'
  BY <1>7 DEF D!PublishesCond, D!Goes
<1>8. ASSUME NEW t \in Waiters, D!Sleeps(t)
      PROVE  Excludes'
  BY <1>8 DEF D!Sleeps, D!Goes, D!conditions
<1>9. ASSUME NEW t \in Waiters, D!Signals(t)
      PROVE  Excludes'
  BY <1>9 DEF D!Signals, D!Sleepers, D!conditions
<1>10. ASSUME NEW t \in Waiters, D!TimesOut(t)
      PROVE  Excludes'
  BY <1>10 DEF D!TimesOut, D!Goes, D!conditions
<1>11. CASE D!cond_destroy
  BY <1>11 DEF D!cond_destroy
<1>12. CASE D!cond_init
  BY <1>12 DEF D!cond_init
<1>13. CASE UNCHANGED darwinVars
  BY <1>13 DEF darwinVars
<1> QED
  BY <1>1, <1>2, <1>3, <1>4, <1>5, <1>6, <1>7, <1>8, <1>9, <1>10, <1>11,
    <1>12, <1>13 DEF D!Next

(* The instance counts as this module does.                                *)
LEMMA SameNumber == \A S : D!Cardinality(S) = Cardinality(S)
BY DEF D!Cardinality, Cardinality

(* The threads that will see to an item, and their number.                 *)
Seeing == D!Coming \cup D!Awake

(* They are some of the threads, before a step and after it.               *)
LEMMA SeeingIsFinite == IsFiniteSet(Seeing) /\ IsFiniteSet(Seeing')
<1>1. Seeing \subseteq Waiters /\ Seeing' \subseteq Waiters
  BY DEF Seeing, D!Coming, D!Awake
<1> QED
  BY <1>1, WaitersAreFinite, FS_Subset

(* A step that leaves as many items, or fewer, and sends none of those     *)
(* threads away keeps their number sufficient.                             *)
LEMMA NoneSentAway ==
  ASSUME D!TypeOK, D!NoLostWakeup, items' \in Nat, items' <= items, static' = static,
         Seeing \subseteq Seeing',
         \A t \in Waiters : at'[t] = "sleeps" => at[t] = "sleeps"
  PROVE  D!NoLostWakeup'
<1>1. Cardinality(Seeing) <= Cardinality(Seeing')
  BY SeeingIsFinite, FS_Subset
<1>2. Cardinality(Seeing) \in Nat /\ Cardinality(Seeing') \in Nat
  BY SeeingIsFinite, FS_CardinalityType
<1> QED
  BY <1>1, <1>2, ConditionBounds, SameNumber DEF D!NoLostWakeup, Seeing, D!TypeOK

(* With no item there is nothing to see to.                                *)
LEMMA NothingToSeeTo ==
  ASSUME items' = 0
  PROVE  D!NoLostWakeup'
<1>1. Cardinality(Seeing') \in Nat
  BY SeeingIsFinite, FS_CardinalityType
<1> QED
  BY <1>1, SameNumber DEF D!NoLostWakeup, Seeing

(* A signal wakes one for the one that leaves: all who sleep do so on the  *)
(* condition signalled.                                                    *)
LEMMA WakeupsOnSignal ==
  ASSUME D!TypeOK, CondInv, Excludes, D!NoLostWakeup, NEW t \in Waiters, D!Signals(t)
  PROVE  D!NoLostWakeup'
<1>1. PICK woken \in SUBSET D!Sleepers(use[t]) :
        /\ woken = {} => D!Sleepers(use[t]) = {}
        /\ at' = [s \in Waiters |-> IF s = t THEN "idle"
                                    ELSE IF s \in woken THEN "locks" ELSE at[s]]
  BY DEF D!Signals
<1>2. /\ at[t] = "has" /\ wanted[t] = "give"
      /\ items' = items /\ static' = static /\ wanted' = wanted /\ use' = use
  BY DEF D!Signals
<1>3. \A s \in Waiters : at[s] = "sleeps" => s \in D!Sleepers(use[t])
  BY <1>2 DEF CondInv, D!Sleepers
<1>4. CASE woken = {}
  <2>1. \A s \in Waiters : at'[s] # "sleeps"
    BY <1>1, <1>3, <1>4
  <2> QED
    BY <2>1 DEF D!NoLostWakeup
<1>5. CASE woken # {}
  <2>1. PICK s \in woken : TRUE
    BY <1>5
  <2>2. s \in Waiters /\ at[s] = "sleeps" /\ wanted[s] = "take" /\ s # t
    BY <2>1, <1>1, <1>2 DEF D!Sleepers, Excludes
  <2>3. t \in Seeing /\ s \notin Seeing
    BY <1>2, <2>2 DEF Seeing, D!Coming, D!Awake
  <2>4. (Seeing \ {t}) \cup {s} \subseteq Seeing'
    <3>1. at'[s] = "locks"
      BY <1>1, <2>1, <2>2
    <3>2. s \in Seeing'
      BY <3>1, <1>2, <2>2 DEF Seeing, D!Awake
    <3>3. ASSUME NEW r \in Seeing, r # t
          PROVE  r \in Seeing'
      <4>1. r \in Waiters /\ at[r] # "sleeps"
        BY DEF Seeing, D!Coming, D!Awake
      <4>2. r \notin woken
        BY <4>1, <1>1 DEF D!Sleepers
      <4>3. at'[r] = at[r]
        BY <4>1, <4>2, <3>3, <1>1
      <4> QED
        BY <4>1, <4>3, <1>2 DEF Seeing, D!Coming, D!Awake
    <3> QED
      BY <3>2, <3>3
  <2> DEFINE others == Seeing \ {t}
             after == others \cup {s}
  <2>5. IsFiniteSet(others) /\ Cardinality(others) = Cardinality(Seeing) - 1
    BY <2>3, SeeingIsFinite, FS_RemoveElement
  <2>6. Cardinality(after) = Cardinality(others) + 1 /\ IsFiniteSet(after)
    BY <2>3, <2>5, FS_AddElement
  <2>7. Cardinality(after) <= Cardinality(Seeing')
    BY <2>4, SeeingIsFinite, FS_Subset
  <2>8. /\ Cardinality(Seeing) \in Nat /\ Cardinality(Seeing') \in Nat
        /\ Cardinality(others) \in Nat /\ Cardinality(after) \in Nat
    BY <2>5, <2>6, SeeingIsFinite, FS_CardinalityType
  <2>9. Cardinality(Seeing) <= Cardinality(Seeing')
    <3> HIDE DEF others, after
    <3> QED
      BY <2>5, <2>6, <2>7, <2>8
  <2>10. \E r \in Waiters : at[r] = "sleeps"
    BY <2>2
  <2>11. ~static => items <= Cardinality(Seeing)
    BY <2>10, SameNumber DEF D!NoLostWakeup, Seeing
  <2>12. items \in Nat
    BY ConditionBounds DEF D!TypeOK
  <2>13. ~static' => items' <= Cardinality(Seeing')
    BY <2>8, <2>9, <2>11, <2>12, <1>2
  <2> QED
    BY <2>13, SameNumber DEF D!NoLostWakeup, Seeing
<1> QED
  BY <1>4, <1>5

(* Inside: who gives sees to the item that it gave, until it has signalled *)
(* it, and who takes an item was one of those that saw to one.             *)
LEMMA WakeupsInside ==
  ASSUME D!TypeOK, Excludes, D!NoLostWakeup, NEW t \in Waiters, D!Inside(t)
  PROVE  D!NoLostWakeup'
<1> USE DEF D!TypeOK, D!Goes
<1>1. /\ at[t] = "inside" /\ static' = static /\ wanted' = wanted
      /\ \A s \in Waiters \ {t} : at'[s] = at[s]
      /\ at'[t] \in {"cond_of", "idle"}
  BY DEF D!Inside
<1>2. items \in Nat /\ Cardinality(Seeing) \in Nat /\ Cardinality(Seeing') \in Nat
  BY ConditionBounds, SeeingIsFinite, FS_CardinalityType
<1>3. ASSUME \E r \in Waiters : at'[r] = "sleeps", ~static
      PROVE  items <= Cardinality(Seeing)
  <2>1. \E r \in Waiters : at[r] = "sleeps"
    BY <1>1, <1>3
  <2> QED
    BY <1>3, <2>1, SameNumber DEF D!NoLostWakeup, Seeing
<1>4. CASE wanted[t] = "give" /\ items' = items + 1 /\ at'[t] = "cond_of"
  <2>1. t \notin Seeing /\ Seeing' = Seeing \cup {t}
    BY <1>1, <1>4 DEF Seeing, D!Coming, D!Awake
  <2>2. Cardinality(Seeing') = Cardinality(Seeing) + 1
    BY <2>1, SeeingIsFinite, FS_AddElement
  <2>3. ASSUME \E r \in Waiters : at'[r] = "sleeps", ~static'
        PROVE  items' <= Cardinality(Seeing')
    BY <1>1, <1>2, <1>3, <1>4, <2>2, <2>3
  <2> QED
    BY <2>3, SameNumber DEF D!NoLostWakeup, Seeing
<1>5. CASE wanted[t] # "give" /\ items > 0 /\ items' = items - 1 /\ at'[t] = "idle"
  <2>1. t \in Seeing /\ Seeing' = Seeing \ {t}
    BY <1>1, <1>5 DEF Seeing, D!Coming, D!Awake
  <2>2. Cardinality(Seeing') = Cardinality(Seeing) - 1
    BY <2>1, SeeingIsFinite, FS_RemoveElement
  <2>3. ASSUME \E r \in Waiters : at'[r] = "sleeps", ~static'
        PROVE  items' <= Cardinality(Seeing')
    BY <1>1, <1>2, <1>3, <1>5, <2>2, <2>3
  <2> QED
    BY <2>3, SameNumber DEF D!NoLostWakeup, Seeing
<1>6. CASE items = 0 /\ items' = items
  BY <1>6, NothingToSeeTo
<1>7. CASE wanted[t] = "give" /\ items' = items /\ at'[t] = "idle"
  <2>1. Seeing' = Seeing
    BY <1>1, <1>7 DEF Seeing, D!Coming, D!Awake
  <2>2. ASSUME \E r \in Waiters : at'[r] = "sleeps", ~static'
        PROVE  items' <= Cardinality(Seeing')
    BY <1>1, <1>2, <1>3, <1>7, <2>1, <2>2
  <2> QED
    BY <2>2, SameNumber DEF D!NoLostWakeup, Seeing
<1> QED
  BY <1>4, <1>5, <1>6, <1>7 DEF D!Inside

(* No other step makes an item, and none but Sleeps makes a thread sleep,  *)
(* which does so only when there is no item.                               *)
LEMMA WakeupsOnStep ==
  ASSUME D!TypeOK, CondInv, Excludes, D!NoLostWakeup, [D!Next]_darwinVars
  PROVE  D!NoLostWakeup'
<1> DEFINE Quiet == /\ items' = items /\ static' = static
                    /\ Seeing \subseteq Seeing'
                    /\ \A t \in Waiters : at'[t] = "sleeps" => at[t] = "sleeps"
<1>1. Quiet => D!NoLostWakeup'
  BY NoneSentAway, ConditionBounds DEF D!TypeOK
<1> USE DEF D!TypeOK, Seeing, D!Coming, D!Awake, D!Goes, D!conditions
<1>2. ASSUME NEW t \in Waiters, D!Begins(t)
      PROVE  Quiet
  BY <1>2 DEF D!Begins
<1>3. ASSUME NEW t \in Waiters, D!SeesSignature(t)
      PROVE  Quiet
  BY <1>3 DEF D!SeesSignature
<1>4. ASSUME NEW t \in Waiters, D!convert_darwin_mutex(t)
      PROVE  Quiet
  BY <1>4 DEF D!convert_darwin_mutex
<1>5. ASSUME NEW t \in Waiters, D!Locks(t)
      PROVE  Quiet
  BY <1>5 DEF D!Locks
<1>6. ASSUME NEW t \in Waiters, D!cond_of(t)
      PROVE  Quiet
  BY <1>6 DEF D!cond_of
<1>7. ASSUME NEW t \in Waiters, D!PublishesCond(t)
      PROVE  Quiet
  BY <1>7 DEF D!PublishesCond
<1>8. ASSUME NEW t \in Waiters, D!TimesOut(t)
      PROVE  Quiet
  BY <1>8 DEF D!TimesOut
<1>9. ASSUME D!cond_destroy \/ D!cond_init \/ UNCHANGED darwinVars
      PROVE  Quiet
  BY <1>9 DEF D!cond_destroy, D!cond_init, darwinVars
<1>10. ASSUME NEW t \in Waiters, D!Sleeps(t)
      PROVE  D!NoLostWakeup'
  <2>1. CASE static
    BY <1>10, <2>1 DEF D!Sleeps, D!NoLostWakeup
  <2>2. CASE ~static
    <3>1. items' = 0
      BY <1>10, <2>2 DEF D!Sleeps, Excludes, Holds
    <3> QED
      BY <3>1, NothingToSeeTo
  <2> QED
    BY <2>1, <2>2
<1> QED
  <2> HIDE DEF Quiet
  <2> QED
    BY <1>1, <1>2, <1>3, <1>4, <1>5, <1>6, <1>7, <1>8, <1>9, <1>10,
      WakeupsOnSignal, WakeupsInside DEF D!Next

ConditionsInv == D!TypeOK /\ CondInv /\ Excludes /\ D!NoLostWakeup

(* All of it holds at first,                                               *)
LEMMA ConditionsAtFirst == D!Init => ConditionsInv
<1> SUFFICES ASSUME D!Init PROVE ConditionsInv
  OBVIOUS
<1>1. D!TypeOK
  BY ConditionBounds DEF D!Init, D!TypeOK, D!Conds, D!NULL
<1>2. CondInv
  BY ConditionBounds DEF D!Init, CondInv, D!Conds, D!NULL
<1>3. Excludes
  BY DEF D!Init, Excludes, Holds
<1>4. D!NoLostWakeup
  BY DEF D!Init, D!NoLostWakeup
<1> QED
  BY <1>1, <1>2, <1>3, <1>4 DEF ConditionsInv

(* and then always.                                                        *)
LEMMA ConditionsKept == PartSpec => []ConditionsInv
<1>1. PartInit => ConditionsInv
  BY ConditionSteps, ConditionsAtFirst
<1>2. ConditionsInv /\ [PartNext]_partVars => ConditionsInv'
  BY ConditionSteps, ConditionsOnStep, ExclusionOnStep, WakeupsOnStep
    DEF ConditionsInv
<1> QED
  BY <1>1, <1>2, PTL DEF PartSpec

(* Darwin's conditions for any number of threads, whoever comes first: all *)
(* meet on one glibc condition, and no wakeup is lost.                     *)
THEOREM Wakeups == PartSpec => []WakeupsArrive
<1>1. ConditionsInv => WakeupsArrive
  BY DEF ConditionsInv, WakeupsArrive, CondInv, D!OneCondition, D!TypeOK
<1> QED
  BY <1>1, ConditionsKept, PTL

(* Both parts keep their types: no condition is freed twice, no queue of a *)
(* channel overflows, and the list is that of the channels in use.         *)
THEOREM PartsAreTyped == PartSpec => []TypesOK
<1>1. PartInit => Init
  BY DEF PartInit
<1>2. [PartNext]_partVars => [Next]_vars
  BY DEF PartNext, partVars, vars
<1>3. SoundInv /\ [PartNext]_partVars => SoundInv'
  BY <1>2, SoundSteps
<1>4. SoundInv => TypeOK
  BY DEF SoundInv, ListOK, ChannelsOK, ChannelOK, RecordsOK, ThreadsOK, TypeOK, Range
<1>5. ConditionsInv => D!TypeOK
  BY DEF ConditionsInv
<1> QED
  BY <1>1, <1>3, <1>4, <1>5, SoundAtFirst, ConditionsKept, PTL DEF PartSpec, TypesOK
=============================================================================
