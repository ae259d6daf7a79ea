---------------------------- MODULE CommandQueue ----------------------------
(***************************************************************************)
(* The multi-producer, single-consumer ring of cpp/scheduler/commandQueue. *)
(* One action per atomic load, store or compare-exchange.  Positions are   *)
(* the 64-bit counters, which no run of the program wraps: they are        *)
(* natural numbers here.  The acquire/release pairs of the code order each *)
(* cell's command with its sequence, so every access below is sequentially *)
(* consistent.                                                             *)
(***************************************************************************)
EXTENDS Naturals, Sequences

CONSTANTS Producers,       \* threads that push
          Commands,        \* the commands they own; each is pushed at most once
          Capacity,        \* the capacity the constructor is asked for
          NoCommand        \* nullptr

ASSUME CapacityAssumption == Capacity \in Nat \ {0}
ASSUME NoCommandAssumption == NoCommand \notin Commands

kMinCapacity == 2

(* The constructor rounds up to a power of two and to at least kMinCapacity. *)
RingSize(capacity) ==
  CHOOSE n \in {2^i : i \in 0..capacity} :
    /\ n >= capacity /\ n >= kMinCapacity
    /\ \A m \in {2^i : i \in 0..capacity} :
         m >= capacity /\ m >= kMinCapacity => n <= m

mCapacity == RingSize(Capacity)
Cells == 0..(mCapacity - 1)

(* There is a power of two above every capacity. *)
ASSUME RingSizeAssumption == mCapacity \in Nat /\ mCapacity >= kMinCapacity

(* position & mMask *)
CellOf(position) == position % mCapacity

VARIABLES sequence,     \* [Cells -> Nat], the cell's sequence number
          command,      \* [Cells -> Commands or NoCommand]
          mEnqueuePos, mDequeuePos,
          pc,           \* [Producers -> where its push() is]
          position,     \* [Producers -> push()'s local position]
          arg,          \* [Producers -> the command being pushed]
          popPc,        \* where the consumer's pop() is
          taken,        \* the commands pop() has returned, in order
          refused       \* the commands a failed push() has destroyed

producerVars == <<pc, position, arg>>
vars == <<sequence, command, mEnqueuePos, mDequeuePos, pc, position, arg,
          popPc, taken, refused>>

-----------------------------------------------------------------------------
Owned == {arg[p] : p \in Producers} \cup {taken[i] : i \in DOMAIN taken}
           \cup {command[c] : c \in Cells} \cup refused

Init == /\ sequence = [c \in Cells |-> c]
        /\ command = [c \in Cells |-> NoCommand]
        /\ mEnqueuePos = 0
        /\ mDequeuePos = 0
        /\ pc = [p \in Producers |-> "idle"]
        /\ position = [p \in Producers |-> 0]
        /\ arg = [p \in Producers |-> NoCommand]
        /\ popPc = "idle"
        /\ taken = <<>>
        /\ refused = {}

(* push(): the first load of the enqueue position. *)
PushBegin(p, c) ==
  /\ pc[p] = "idle"
  /\ c \notin Owned
  /\ arg' = [arg EXCEPT ![p] = c]
  /\ position' = [position EXCEPT ![p] = mEnqueuePos]
  /\ pc' = [pc EXCEPT ![p] = "read"]
  /\ UNCHANGED <<sequence, command, mEnqueuePos, mDequeuePos, popPc, taken, refused>>

PushFull_NoChase(p) ==
  /\ pc[p] = "read"
  /\ sequence[CellOf(position[p])] # position[p]
  /\ refused' = refused \cup {arg[p]}
  /\ arg' = [arg EXCEPT ![p] = NoCommand]
  /\ pc' = [pc EXCEPT ![p] = "idle"]
  /\ UNCHANGED <<sequence, command, mEnqueuePos, mDequeuePos, position, popPc, taken>>

(* The cell still holds a command of the previous lap: the ring is full. *)
PushFull(p) ==
  /\ pc[p] = "read"
  /\ sequence[CellOf(position[p])] < position[p]
  /\ refused' = refused \cup {arg[p]}
  /\ arg' = [arg EXCEPT ![p] = NoCommand]
  /\ pc' = [pc EXCEPT ![p] = "idle"]
  /\ UNCHANGED <<sequence, command, mEnqueuePos, mDequeuePos, position, popPc, taken>>

(* The cell is free for this lap: go on to claim it. *)
PushFree(p) ==
  /\ pc[p] = "read"
  /\ sequence[CellOf(position[p])] = position[p]
  /\ pc' = [pc EXCEPT ![p] = "claim"]
  /\ UNCHANGED <<sequence, command, mEnqueuePos, mDequeuePos, position, arg, popPc, taken,
                 refused>>

(* Another producer moved ahead: chase the new position. *)
PushChase(p) ==
  /\ pc[p] = "read"
  /\ sequence[CellOf(position[p])] > position[p]
  /\ position' = [position EXCEPT ![p] = mEnqueuePos]
  /\ UNCHANGED <<sequence, command, mEnqueuePos, mDequeuePos, pc, arg, popPc, taken,
                 refused>>

PushClaim_Unchecked(p) ==
  /\ pc[p] = "claim"
  /\ mEnqueuePos' = position[p] + 1
  /\ pc' = [pc EXCEPT ![p] = "write"]
  /\ UNCHANGED <<sequence, command, mDequeuePos, position, arg, popPc, taken, refused>>

PushClaim(p) ==
  /\ pc[p] = "claim"
  /\ mEnqueuePos = position[p]
  /\ mEnqueuePos' = mEnqueuePos + 1
  /\ pc' = [pc EXCEPT ![p] = "write"]
  /\ UNCHANGED <<sequence, command, mDequeuePos, position, arg, popPc, taken, refused>>

(* compare_exchange_weak fails, for a lost race or spuriously, and reloads position. *)
PushClaimFails(p) ==
  /\ pc[p] = "claim"
  /\ position' = [position EXCEPT ![p] = mEnqueuePos]
  /\ pc' = [pc EXCEPT ![p] = "read"]
  /\ UNCHANGED <<sequence, command, mEnqueuePos, mDequeuePos, arg, popPc, taken, refused>>

PushWrite(p) ==
  /\ pc[p] = "write"
  /\ command' = [command EXCEPT ![CellOf(position[p])] = arg[p]]
  /\ arg' = [arg EXCEPT ![p] = NoCommand]
  /\ pc' = [pc EXCEPT ![p] = "publish"]
  /\ UNCHANGED <<sequence, mEnqueuePos, mDequeuePos, position, popPc, taken, refused>>

PushPublish_SameSequence(p) ==
  /\ pc[p] = "publish"
  /\ sequence' = [sequence EXCEPT ![CellOf(position[p])] = position[p]]
  /\ pc' = [pc EXCEPT ![p] = "idle"]
  /\ UNCHANGED <<command, mEnqueuePos, mDequeuePos, position, arg, popPc, taken, refused>>

PushPublish(p) ==
  /\ pc[p] = "publish"
  /\ sequence' = [sequence EXCEPT ![CellOf(position[p])] = position[p] + 1]
  /\ pc' = [pc EXCEPT ![p] = "idle"]
  /\ UNCHANGED <<command, mEnqueuePos, mDequeuePos, position, arg, popPc, taken, refused>>

(* pop() finds the oldest position published; it returns nullptr otherwise. *)
PopReady ==
  /\ popPc = "idle"
  /\ sequence[CellOf(mDequeuePos)] = mDequeuePos + 1
  /\ popPc' = "take"
  /\ UNCHANGED <<sequence, command, mEnqueuePos, mDequeuePos, pc, position, arg, taken,
                 refused>>

PopTake ==
  /\ popPc = "take"
  /\ taken' = Append(taken, command[CellOf(mDequeuePos)])
  /\ command' = [command EXCEPT ![CellOf(mDequeuePos)] = NoCommand]
  /\ popPc' = "advance"
  /\ UNCHANGED <<sequence, mEnqueuePos, mDequeuePos, pc, position, arg, refused>>

PopAdvance ==
  /\ popPc = "advance"
  /\ mDequeuePos' = mDequeuePos + 1
  /\ popPc' = "free"
  /\ UNCHANGED <<sequence, command, mEnqueuePos, pc, position, arg, taken, refused>>

(* Hand the cell to the producer that claims it one lap later. *)
PopFree ==
  /\ popPc = "free"
  /\ LET popped == mDequeuePos - 1
     IN  sequence' = [sequence EXCEPT ![CellOf(popped)] = popped + mCapacity]
  /\ popPc' = "idle"
  /\ UNCHANGED <<command, mEnqueuePos, mDequeuePos, pc, position, arg, taken, refused>>

Push(p) == \/ PushFull(p) \/ PushFree(p) \/ PushChase(p) \/ PushClaim(p)
           \/ PushWrite(p) \/ PushPublish(p)
Pop == PopReady \/ PopTake \/ PopAdvance \/ PopFree

Next == \/ \E p \in Producers : \/ \E c \in Commands : PushBegin(p, c)
                                \/ Push(p)
                                \/ PushClaimFails(p)
        \/ Pop

(* Threads that are inside a call are scheduled, and the actor pops again and again. *)
Fairness == /\ \A p \in Producers : WF_vars(PushWrite(p)) /\ WF_vars(PushPublish(p))
            /\ WF_vars(Pop)

Spec == Init /\ [][Next]_vars
FairSpec == Spec /\ Fairness

-----------------------------------------------------------------------------
TypeOK ==
  /\ sequence \in [Cells -> Nat]
  /\ command \in [Cells -> Commands \cup {NoCommand}]
  /\ mEnqueuePos \in Nat
  /\ mDequeuePos \in Nat
  /\ pc \in [Producers -> {"idle", "read", "claim", "write", "publish"}]
  /\ position \in [Producers -> Nat]
  /\ arg \in [Producers -> Commands \cup {NoCommand}]
  /\ popPc \in {"idle", "take", "advance", "free"}
  /\ taken \in Seq(Commands)
  /\ refused \subseteq Commands

(* The cells a thread may touch without synchronisation at this moment. *)
ProducerCells(p) == IF pc[p] \in {"write", "publish"} THEN {CellOf(position[p])} ELSE {}
ConsumerCells == IF popPc = "take" THEN {CellOf(mDequeuePos)} ELSE {}

(***************************************************************************)
(* The sequence protocol grants each cell to one thread at a time, so the  *)
(* plain pointer in it is never raced on (commandQueue.h, Cell::command).  *)
(***************************************************************************)
ExclusiveCells ==
  /\ \A p, q \in Producers : p # q => ProducerCells(p) \cap ProducerCells(q) = {}
  /\ \A p \in Producers : ProducerCells(p) \cap ConsumerCells = {}

(***************************************************************************)
(* The refinement: positions not yet taken are the line, a position's      *)
(* command is still with its producer until it is written to the cell.     *)
(***************************************************************************)
FirstUntaken == IF popPc = "advance" THEN mDequeuePos + 1 ELSE mDequeuePos

CommandAt(at) ==
  IF \E p \in Producers : pc[p] = "write" /\ position[p] = at
  THEN arg[CHOOSE p \in Producers : pc[p] = "write" /\ position[p] = at]
  ELSE command[CellOf(at)]

(* An entry is ready once its cell's sequence has passed its position. *)
Entry(at) == [cmd |-> CommandAt(at), ready |-> sequence[CellOf(at)] = at + 1]
Line == [i \in 1..(mEnqueuePos - FirstUntaken) |-> Entry(FirstUntaken + i - 1)]
Held == popPc \in {"advance", "free"}

Fifo == INSTANCE BoundedFifo WITH Slots <- mCapacity, line <- Line, held <- Held

(* The ring implements the bounded line: FIFO by claim, no loss, no duplicate, no    *)
(* command visible ahead of an older claim, and no spurious "full" (push and pop).   *)
ImplementsBoundedFifo == Fifo!Spec

(* Every command a push() accepted is handed to the actor (pop, push's publication). *)
AcceptedIsDelivered ==
  \A c \in Commands : c \in Fifo!Waiting ~> \E i \in DOMAIN taken : taken[i] = c
=============================================================================
