--------------------------------- MODULE Forks ---------------------------------
(***************************************************************************)
(* Open forks: src/hle/files_forks.c.                                      *)
(*                                                                         *)
(* Reference numbers are places in one table under forks_lock.  A call     *)
(* looks its fork up, lets go of the lock, reads or writes the file by the *)
(* descriptor it found, and looks the number up once more to move the      *)
(* mark.  The kernel, too, gives the lowest free descriptor out again.     *)
(***************************************************************************)
EXTENDS Integers, FiniteSets, FiniteSetsExt

CONSTANTS Threads, Files,
          ReadOnly,     \* files that cannot be opened for writing
          HasResource,  \* files with an AppleDouble companion
          MAX_FORKS,
          Descriptors,  \* those the process may have
          Offsets,      \* positionOffset
          Counts,       \* the bytes a call asks for
          MaxSize       \* bound: the length of a file

Slots == 0..MAX_FORKS - 1
NoFd == -1

VARIABLES
  forks,   \* the table
  fds,     \* the kernel's: what each descriptor is open on
  size,    \* the length of each data fork
  call     \* the call each thread is in, between two critical sections;
           \* history: whether another closed its fork since

vars == <<forks, fds, size, call>>

Nothing == [file |-> "none", resource |-> FALSE]
Unused == [in_use |-> FALSE, fd |-> NoFd, writable |-> FALSE, mark |-> 0, of |-> Nothing]
Idle == [at |-> "idle"]

Init ==
  /\ forks = [i \in Slots |-> Unused]
  /\ fds = [d \in Descriptors |-> Nothing]
  /\ size \in [Files -> 0..MaxSize]
  /\ call = [t \in Threads |-> Idle]

fork_size(f) == IF f.of.resource THEN (IF f.fd = NoFd THEN 0 ELSE MaxSize) ELSE size[f.of.file]

(* The positions a positionMode and an offset name; none is posErr.        *)
Modes == {"fsAtMark", "fsFromStart", "fsFromLEOF", "fsFromMark"}
Position(f, mode, offset) ==
  LET base == CASE mode = "fsFromStart" -> 0
                [] mode = "fsFromLEOF" -> fork_size(f)
                [] OTHER -> f.mark
  IN IF mode = "fsAtMark" THEN f.mark ELSE base + offset

resolve_position(f, mode, offset) == {Position(f, mode, offset)} \cap 0..MaxSize

MayCall(t, i) == call[t].at = "idle" /\ forks[i].in_use

(* Whether the call is on fork i, between two critical sections.           *)
IsOn(c, i) == c.at \in {"read", "write", "moves"} /\ c.fork = i

-----------------------------------------------------------------------------
Free == {d \in Descriptors : fds[d] = Nothing}

(* open_fork, as far as the file is opened.  A resource fork is read from  *)
(* the AppleDouble file, or empty, and not written.                        *)
OpensFile(t, f, resource, writable) ==
  /\ call[t].at = "idle"
  /\ writable => ~resource /\ f \notin ReadOnly
  /\ LET of == [file |-> f, resource |-> resource]
         opened(fd) == [at |-> "opening", fd |-> fd, writable |-> writable, of |-> of]
     IN IF resource /\ f \notin HasResource
        THEN /\ call' = [call EXCEPT ![t] = opened(NoFd)]
             /\ UNCHANGED fds
        ELSE /\ Free # {}
             /\ fds' = [fds EXCEPT ![Min(Free)] = of]
             /\ call' = [call EXCEPT ![t] = opened(Min(Free))]
  /\ UNCHANGED <<forks, size>>

Close(fd, ds) == [d \in Descriptors |-> IF d = fd THEN Nothing ELSE ds[d]]
Unopened == {i \in Slots : ~forks[i].in_use}

Entry(c) ==
  [in_use |-> TRUE, fd |-> c.fd, writable |-> c.writable, mark |-> 0, of |-> c.of]

TooManyOpen(t) == Unopened = {} /\ fds' = Close(call[t].fd, fds)

TakesSlot(t) ==
  /\ call[t].at = "opening"
  /\ \/ /\ TooManyOpen(t)
        /\ UNCHANGED forks
     \/ /\ Unopened # {}
        /\ forks' = [forks EXCEPT ![Min(Unopened)] = Entry(call[t])]
        /\ UNCHANGED fds
  /\ call' = [call EXCEPT ![t] = Idle]
  /\ UNCHANGED size

-----------------------------------------------------------------------------
(* FSReadFork and FSWriteFork, to the first unlock: the call goes on with  *)
(* what the entry said.                                                    *)
Starts(t, i, what, mode, offset, count) ==
  /\ MayCall(t, i)
  /\ what = "write" => forks[i].writable
  /\ \E position \in resolve_position(forks[i], mode, offset) :
       call' = [call EXCEPT ![t] = [at |-> what, fork |-> i, fd |-> forks[i].fd,
                                    of |-> forks[i].of, position |-> position, count |-> count,
                                    closed |-> FALSE]]
  /\ UNCHANGED <<forks, fds, size>>

Least(m, n) == IF m < n THEN m ELSE n
Most(m, n) == IF m > n THEN m ELSE n
Moves(t, done) ==
  call' = [call EXCEPT ![t] = [at |-> "moves", fork |-> @.fork, of |-> @.of,
                                  to |-> @.position + done, closed |-> @.closed]]
(* What the descriptor is open on by now.                                  *)
Under(c) == IF c.fd = NoFd THEN Nothing ELSE fds[c.fd]
LengthOf(of) ==
  IF of = Nothing THEN 0 ELSE IF of.resource THEN MaxSize ELSE size[of.file]

(* Reads to the count or the end; a descriptor that was closed is ioErr.   *)
Reads(t) ==
  LET c == call[t]
  IN /\ c.at = "read"
     /\ IF c.fd # NoFd /\ Under(c) = Nothing
        THEN call' = [call EXCEPT ![t] = Idle]
        ELSE Moves(t, Most(0, Least(c.count, LengthOf(Under(c)) - c.position)))
     /\ UNCHANGED <<forks, fds, size>>

(* Some of the bytes are written, and the mark is to follow them even      *)
(* when the rest cannot be.                                                *)
Writes(t) ==
  LET c == call[t]
      of == Under(c)
  IN /\ c.at = "write"
     /\ \E done \in 0..c.count :
          /\ of = Nothing \/ of.resource => done = 0
          /\ c.position + done <= MaxSize
          /\ Moves(t, done)
          /\ size' = IF done = 0 THEN size
                     ELSE [size EXCEPT ![of.file] = Most(@, c.position + done)]
     /\ UNCHANGED <<forks, fds>>

(* The number may be another fork's by now, or nobody's.                   *)
MovesMark(t) ==
  LET c == call[t]
  IN /\ c.at = "moves"
     /\ forks' = IF forks[c.fork].in_use THEN [forks EXCEPT ![c.fork].mark = c.to] ELSE forks
     /\ call' = [call EXCEPT ![t] = Idle]
     /\ UNCHANGED <<fds, size>>

(* What is left in the entry is never read.  Other threads' calls go on    *)
(* with the descriptor they found.                                         *)
FSCloseFork(t, i) ==
  /\ MayCall(t, i)
  /\ fds' = Close(forks[i].fd, fds)
  /\ forks' = [forks EXCEPT ![i] = Unused]
  /\ call' = [u \in Threads |->
                IF IsOn(call[u], i) THEN [call[u] EXCEPT !.closed = TRUE] ELSE call[u]]
  /\ UNCHANGED size

FSSetForkSize(t, i, mode, offset) ==
  /\ MayCall(t, i) /\ forks[i].writable
  /\ \E to \in resolve_position(forks[i], mode, offset) :
       /\ size' = [size EXCEPT ![forks[i].of.file] = to]
       /\ forks' = [forks EXCEPT ![i].mark = Least(@, to)]
  /\ UNCHANGED <<fds, call>>

(* Past the end of the fork, the mark stops at the end.                    *)
FSSetForkPosition(t, i, mode, offset) ==
  /\ MayCall(t, i)
  /\ \E to \in resolve_position(forks[i], mode, offset) :
       LET mark == Least(to, fork_size(forks[i]))
       IN /\ forks' = [forks EXCEPT ![i].mark = mark]
  /\ UNCHANGED <<fds, size, call>>

-----------------------------------------------------------------------------
CallsFork(t, i) ==
  \/ FSCloseFork(t, i)
  \/ \E mode \in Modes, offset \in Offsets :
       \/ \E what \in {"read", "write"}, count \in Counts : Starts(t, i, what, mode, offset, count)
       \/ FSSetForkSize(t, i, mode, offset) \/ FSSetForkPosition(t, i, mode, offset)

Next == \E t \in Threads :
  \/ \E f \in Files, resource, writable \in BOOLEAN : OpensFile(t, f, resource, writable)
  \/ TakesSlot(t) \/ Reads(t) \/ Writes(t) \/ MovesMark(t)
  \/ \E i \in Slots : CallsFork(t, i)

Spec == Init /\ [][Next]_vars

-----------------------------------------------------------------------------
(* Every variable has its type.                                            *)
Ofs == [file : Files, resource : BOOLEAN] \cup {Nothing}
Fds == Descriptors \cup {NoFd}
Positions == 0..MaxSize
TypeOK ==
  /\ forks \in [Slots -> [in_use : BOOLEAN, fd : Fds, writable : BOOLEAN,
                          mark : Positions, of : Ofs]]
  /\ fds \in [Descriptors -> Ofs]
  /\ size \in [Files -> Positions]
  /\ \A t \in Threads :
       call[t] \in {Idle}
         \cup [at : {"opening"}, fd : Fds, writable : BOOLEAN, of : Ofs]
         \cup [at : {"read", "write"}, fork : Slots, fd : Fds, of : Ofs,
               position : Positions, count : Counts, closed : BOOLEAN]
         \cup [at : {"moves"}, fork : Slots, of : Ofs, to : Positions, closed : BOOLEAN]

(* Every open descriptor is in exactly one place: the table, or the hands  *)
(* of a thread that opens a fork.  None leaks, and none is closed under    *)
(* another fork.                                                           *)
Holders(d) == {<<"fork", i>> : i \in {i \in Slots : forks[i].in_use /\ forks[i].fd = d}}
              \cup {<<"thread", t>> : t \in {t \in Threads : call[t].at = "opening" /\ call[t].fd = d}}
DescriptorsAreHeld ==
  \A d \in Descriptors : Cardinality(Holders(d)) = IF fds[d] = Nothing THEN 0 ELSE 1

(* Whatever other calls are made meanwhile on this fork and on others, a   *)
(* call reads and writes the fork its number was opened for, and moves     *)
(* that fork's mark, although numbers and descriptors are used again: only *)
(* FSCloseFork must not be called on it before it is done.                 *)
CallsReachTheirFork ==
  \A t \in Threads : call[t].at \in {"read", "write", "moves"} /\ ~call[t].closed =>
    /\ call[t].at # "moves" /\ call[t].fd # NoFd => Under(call[t]) = call[t].of
    /\ forks[call[t].fork].in_use /\ forks[call[t].fork].of = call[t].of
=============================================================================
