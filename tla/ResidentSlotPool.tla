--------------------------- MODULE ResidentSlotPool ---------------------------
(***************************************************************************)
(* cpp/runtime/state/residentSlotPool: a fixed set of resident rows handed *)
(* out as references [slot, epoch].  Releasing a row advances its epoch    *)
(* before the row can be handed out again, so that whoever still holds the *)
(* old reference can be told from the new owner.  A pool is a value, a     *)
(* record of the class's three members; the modules that own one keep it   *)
(* in a variable.                                                          *)
(***************************************************************************)
EXTENDS Naturals, Sequences

CONSTANT Capacity

ASSUME PoolCapacityAssumption == Capacity \in Nat

Slots == 0..(Capacity - 1)

Refs == [slot : Slots, epoch : Nat \ {0}]

Pools == [epochs : [Slots -> Nat \ {0}],
          occupied : SUBSET Slots,
          free : Seq(Slots)]

(* reset(): the free list is a stack with slot 0 on top. *)
Reset == [epochs |-> [s \in Slots |-> 1],
          occupied |-> {},
          free |-> [i \in 1..Capacity |-> Capacity - i]]

Available(pool) == Len(pool.free)

(* The reference acquire() returns, and the pool it leaves behind. *)
Acquired(pool) == LET slot == pool.free[Len(pool.free)]
                  IN  [slot |-> slot, epoch |-> pool.epochs[slot]]

AfterAcquire(pool) ==
  [epochs |-> pool.epochs,
   occupied |-> pool.occupied \cup {Acquired(pool).slot},
   free |-> SubSeq(pool.free, 1, Len(pool.free) - 1)]

Contains(pool, ref) == /\ ref.slot \in Slots
                       /\ ref.slot \in pool.occupied
                       /\ pool.epochs[ref.slot] = ref.epoch

SlotsOf(refs) == {refs[i].slot : i \in DOMAIN refs}

AfterRelease_SameEpoch(pool, refs) ==
  [pool EXCEPT !.occupied = @ \ SlotsOf(refs),
               !.free = @ \o [i \in DOMAIN refs |-> refs[i].slot]]

(* What release(), called for each of these references in turn, makes of a pool that *)
(* contains them all.                                                                *)
AfterRelease(pool, refs) ==
  [epochs |-> [s \in Slots |-> IF s \in SlotsOf(refs) THEN pool.epochs[s] + 1
                               ELSE pool.epochs[s]],
   occupied |-> pool.occupied \ SlotsOf(refs),
   free |-> pool.free \o [i \in DOMAIN refs |-> refs[i].slot]]

(* The free list and the occupancy marks describe the same partition of the slots. *)
Consistent(pool) ==
  /\ {pool.free[i] : i \in DOMAIN pool.free} = Slots \ pool.occupied
  /\ \A i, j \in DOMAIN pool.free : i # j => pool.free[i] # pool.free[j]
=============================================================================
