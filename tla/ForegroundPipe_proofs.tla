----------------------- MODULE ForegroundPipe_proofs -----------------------
(***************************************************************************)
(* What ForegroundPipe promises, proved for every timeout, every capacity  *)
(* of the pipe and every amount of output.                                 *)
(*                                                                         *)
(* The inductive invariant adds to the types where each chunk is           *)
(* (ChunksInOrder), that the command is gone when the loop is left         *)
(* (GoneAtTheEnd), and that pmbootstrap has read nothing for at least as   *)
(* long as it has waited (QuietWhileWaiting).                              *)
(***************************************************************************)
EXTENDS ForegroundPipe, TLAPS

(* The chunks read, followed by those in the pipe, are all that were       *)
(* written: nothing is lost, doubled or reordered on the way.              *)
ChunksInOrder ==
    /\ Len(buffer) + Len(pipe) = written
    /\ \A k \in DOMAIN buffer : buffer[k] = k
    /\ \A k \in DOMAIN pipe : pipe[k] = Len(buffer) + k

GoneAtTheEnd ==
    /\ process = "exited" => "process" \notin stdout
    /\ pc \in {"rest", "returned"} => process = "exited"
    /\ pc = "returned" => last <= Len(buffer)

QuietWhileWaiting ==
    /\ pc = "select" => waited <= quiet
    /\ KilledOnlyWhenSilent

IInv == TypeOK /\ ChunksInOrder /\ GoneAtTheEnd /\ QuietWhileWaiting

-----------------------------------------------------------------------------

(* pmbootstrap starts with an empty buffer, an empty pipe and a command    *)
(* that runs.                                                              *)
LEMMA InitEstablishes == Init => IInv
  BY ConstantsAssumption
     DEF Init, IInv, TypeOK, ChunksInOrder, GoneAtTheEnd, QuietWhileWaiting,
         KilledOnlyWhenSilent, Sigkill

(* Writing appends the next chunk to the pipe.  After the command's end    *)
(* only the daemon can write, so "last" stays what it was.                 *)
LEMMA WritePreserves == ASSUME IInv, NEW who \in {"process", "daemon"}, Write(who)
                        PROVE  IInv'
  <1> USE ConstantsAssumption DEF IInv, TypeOK, Write, arguments
  <1>1. /\ written + 1 \in 1..MaxChunks
        /\ pipe' = Append(pipe, written + 1)
        /\ Len(pipe) \in Nat /\ Len(pipe') = Len(pipe) + 1
        /\ pipe' \in Seq(1..MaxChunks)
        /\ \A k \in 1..Len(pipe) : pipe'[k] = pipe[k]
        /\ pipe'[Len(pipe) + 1] = written + 1
        /\ written' = written + 1 /\ buffer' = buffer
    OBVIOUS
  <1>2. TypeOK'
    BY <1>1
  <1>3. ChunksInOrder'
    <2> HIDE DEF IInv, TypeOK, Write
    <2>0. /\ ChunksInOrder
          /\ Len(buffer) \in Nat /\ written \in Nat
      BY DEF IInv, TypeOK
    <2>1. Len(buffer') + Len(pipe') = written'
      BY <1>1, <2>0 DEF ChunksInOrder
    <2>2. \A k \in DOMAIN buffer' : buffer'[k] = k
      BY <1>1, <2>0 DEF ChunksInOrder
    <2>3. ASSUME NEW k \in DOMAIN pipe' PROVE pipe'[k] = Len(buffer') + k
      <3>1. k \in 1..(Len(pipe) + 1) /\ DOMAIN pipe = 1..Len(pipe)
        BY <1>1 DEF IInv, TypeOK
      <3>2. CASE k \in 1..Len(pipe)
        BY <1>1, <2>0, <3>1, <3>2 DEF ChunksInOrder
      <3>3. CASE k = Len(pipe) + 1
        BY <1>1, <2>0, <3>1, <3>3 DEF ChunksInOrder
      <3> QED BY <1>1, <3>1, <3>2, <3>3
    <2> QED BY <2>1, <2>2, <2>3 DEF ChunksInOrder
  <1>4. GoneAtTheEnd'
    BY DEF GoneAtTheEnd
  <1>5. QuietWhileWaiting'
    BY DEF QuietWhileWaiting, KilledOnlyWhenSilent
  <1> QED BY <1>2, <1>3, <1>4, <1>5

(* The other things the command and its child do leave the chunks alone    *)
(* and never open the pipe for the command again.                          *)
LEMMA CommandPreserves == ASSUME IInv, Fork \/ CloseStdout \/ Exit \/ DaemonExits
                          PROVE  IInv'
  <1> USE DEF IInv, TypeOK, arguments, Fork, CloseStdout, Exit, DaemonExits, Sigkill
  <1>1. TypeOK'
    OBVIOUS
  <1>2. ChunksInOrder'
    BY DEF ChunksInOrder
  <1>3. GoneAtTheEnd'
    BY DEF GoneAtTheEnd
  <1>4. QuietWhileWaiting'
    BY DEF QuietWhileWaiting, KilledOnlyWhenSilent
  <1> QED BY <1>1, <1>2, <1>3, <1>4

(* Waiting: poll() resets the time waited, a tick adds to it and to the    *)
(* time nothing was read alike.                                            *)
LEMMA WaitPreserves == ASSUME IInv, Poll \/ Select \/ Tick
                       PROVE  IInv'
  <1> USE ConstantsAssumption
      DEF IInv, TypeOK, arguments, processes, Poll, Select, Tick
  <1>1. TypeOK'
    <2>1. CASE Poll
      BY <2>1
    <2>2. CASE Select
      <3>1. pc' \in {"ps", "read"}
        BY <2>2
      <3> QED BY <2>2, <3>1
    <2>3. CASE Tick
      BY <2>3
    <2> QED BY <2>1, <2>2, <2>3
  <1>2. ChunksInOrder'
    BY DEF ChunksInOrder
  <1>3. GoneAtTheEnd'
    BY DEF GoneAtTheEnd
  <1>4. QuietWhileWaiting'
    BY DEF QuietWhileWaiting, KilledOnlyWhenSilent, TimedOut
  <1> QED BY <1>1, <1>2, <1>3, <1>4

(* Reading moves the first chunk of the pipe to the end of the buffer.     *)
LEMMA ReadPreserves == ASSUME IInv, ReadChunk
                       PROVE  IInv'
  <1> USE ConstantsAssumption DEF IInv, TypeOK, arguments, processes, ReadChunk
  <1>1. /\ Len(pipe) \in Nat /\ Len(pipe) > 0
        /\ Head(pipe) = pipe[1] /\ pipe[1] \in 1..MaxChunks
        /\ pipe' \in Seq(1..MaxChunks)
        /\ Len(pipe') = Len(pipe) - 1
        /\ \A k \in 1..(Len(pipe) - 1) : pipe'[k] = pipe[k + 1]
    OBVIOUS
  <1>2. /\ Len(buffer') = Len(buffer) + 1
        /\ buffer' \in Seq(1..MaxChunks)
        /\ \A k \in 1..Len(buffer) : buffer'[k] = buffer[k]
        /\ buffer'[Len(buffer) + 1] = pipe[1]
    BY <1>1
  <1>3. TypeOK'
    BY <1>1, <1>2
  <1>4. ChunksInOrder'
    <2> HIDE DEF IInv, TypeOK, ReadChunk
    <2>0. /\ ChunksInOrder
          /\ Len(buffer) \in Nat /\ written \in Nat /\ written' = written
          /\ DOMAIN pipe = 1..Len(pipe) /\ DOMAIN pipe' = 1..Len(pipe')
          /\ DOMAIN buffer = 1..Len(buffer) /\ DOMAIN buffer' = 1..Len(buffer')
      BY <1>1, <1>2 DEF IInv, TypeOK, ReadChunk
    <2>1. pipe[1] = Len(buffer) + 1
      <3>1. 1 \in DOMAIN pipe
        BY <1>1, <2>0
      <3> QED BY <2>0, <3>1 DEF ChunksInOrder
    <2>2. Len(buffer') + Len(pipe') = written'
      <3>1. Len(buffer) + Len(pipe) = written
        BY <2>0 DEF ChunksInOrder
      <3>2. Len(pipe) \in Nat /\ Len(pipe') = Len(pipe) - 1 /\ Len(buffer') = Len(buffer) + 1
        BY <1>1, <1>2
      <3> QED BY <2>0, <3>1, <3>2
    <2>3. ASSUME NEW k \in DOMAIN buffer' PROVE buffer'[k] = k
      <3>1. k \in 1..(Len(buffer) + 1)
        BY <1>2, <2>0
      <3>2. CASE k \in 1..Len(buffer)
        BY <1>2, <2>0, <3>2 DEF ChunksInOrder
      <3>3. CASE k = Len(buffer) + 1
        BY <1>2, <2>1, <3>3
      <3> QED BY <2>0, <3>1, <3>2, <3>3
    <2>4. ASSUME NEW k \in DOMAIN pipe' PROVE pipe'[k] = Len(buffer') + k
      <3>1. k \in 1..(Len(pipe) - 1) /\ k + 1 \in DOMAIN pipe
        BY <1>1, <2>0
      <3>2. pipe'[k] = pipe[k + 1]
        BY <1>1, <3>1
      <3>3. pipe[k + 1] = Len(buffer) + (k + 1)
        BY <2>0, <3>1 DEF ChunksInOrder
      <3> QED BY <1>1, <1>2, <2>0, <3>1, <3>2, <3>3
    <2> QED BY <2>2, <2>3, <2>4 DEF ChunksInOrder
  <1>5. GoneAtTheEnd'
    BY <1>2 DEF GoneAtTheEnd
  <1>6. QuietWhileWaiting'
    BY DEF QuietWhileWaiting, KilledOnlyWhenSilent
  <1> QED BY <1>3, <1>4, <1>5, <1>6

(* An empty pipe means that everything written has been read.              *)
LEMMA NothingToReadPreserves == ASSUME IInv, NothingToRead
                                PROVE  IInv'
  <1> USE DEF IInv, TypeOK, arguments, processes, NothingToRead
  <1>1. TypeOK'
    OBVIOUS
  <1>2. ChunksInOrder'
    BY DEF ChunksInOrder
  <1>3. GoneAtTheEnd'
    BY DEF GoneAtTheEnd, ChunksInOrder
  <1>4. QuietWhileWaiting'
    BY DEF QuietWhileWaiting, KilledOnlyWhenSilent
  <1> QED BY <1>1, <1>2, <1>3, <1>4

(* Killing ends the command and closes its end of the pipe.                *)
LEMMA KillPreserves == ASSUME IInv, Ps \/ Kill \/ KillChildren
                       PROVE  IInv'
  <1> USE DEF IInv, TypeOK, arguments, processes, Ps, Kill, KillChildren, Sigkill
  <1>1. TypeOK'
    OBVIOUS
  <1>2. ChunksInOrder'
    BY DEF ChunksInOrder
  <1>3. GoneAtTheEnd'
    BY DEF GoneAtTheEnd
  <1>4. QuietWhileWaiting'
    BY DEF QuietWhileWaiting, KilledOnlyWhenSilent
  <1> QED BY <1>1, <1>2, <1>3, <1>4

LEMMA NextPreserves == IInv /\ [Next]_vars => IInv'
  <1> SUFFICES ASSUME IInv, [Next]_vars PROVE IInv'
    OBVIOUS
  <1>1. CASE Command
    BY <1>1, WritePreserves, CommandPreserves DEF Command
  <1>2. CASE Pmbootstrap
    BY <1>2, WaitPreserves, ReadPreserves, NothingToReadPreserves, KillPreserves
       DEF Pmbootstrap
  <1>3. CASE Tick
    BY <1>3, WaitPreserves
  <1>4. CASE UNCHANGED vars
    BY <1>4 DEF vars, arguments, processes, IInv, TypeOK, ChunksInOrder, GoneAtTheEnd,
                QuietWhileWaiting, KilledOnlyWhenSilent
  <1> QED BY <1>1, <1>2, <1>3, <1>4 DEF Next

LEMMA Invariance == Spec => []IInv
  BY InitEstablishes, NextPreserves, PTL DEF Spec

-----------------------------------------------------------------------------

(* All variables of foreground_pipe() have their types.                    *)
THEOREM TypeCorrect == Spec => []TypeOK
  <1>1. IInv => TypeOK
    BY DEF IInv
  <1> QED BY <1>1, Invariance, PTL

(* foreground_pipe() returns all output of the command, in order, whatever *)
(* a daemon that shares the pipe does.                                     *)
THEOREM OutputIsComplete == Spec => []OutputComplete
  <1>1. IInv => OutputComplete
    BY DEF IInv, TypeOK, ChunksInOrder, GoneAtTheEnd, OutputComplete
  <1> QED BY <1>1, Invariance, PTL

(* foreground_pipe() only kills a command it has read nothing from for the *)
(* whole timeout.                                                          *)
THEOREM OnlySilentIsKilled == Spec => []KilledOnlyWhenSilent
  <1>1. IInv => KilledOnlyWhenSilent
    BY DEF IInv, QuietWhileWaiting
  <1> QED BY <1>1, Invariance, PTL
=============================================================================
