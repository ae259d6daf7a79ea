---------------------------- MODULE BoundedFifo ----------------------------
(***************************************************************************)
(* What cpp/scheduler/commandQueue.h promises the threads that use it: a   *)
(* bounded line of commands.  A push joins the end of the line or is       *)
(* refused, and only a full line refuses; the single consumer takes the    *)
(* oldest command, once its producer has published it.  A command that has *)
(* been published therefore never overtakes an older claim, is delivered   *)
(* at most once, and is never lost.                                        *)
(***************************************************************************)
EXTENDS Naturals, Sequences

CONSTANTS Commands,   \* the commands producers own
          Slots       \* places in the line

VARIABLES line,       \* the claims, oldest first: [cmd, ready]
          held,       \* the consumer has taken a command but not yet freed its place
          taken,      \* the commands delivered, in order
          refused     \* the commands destroyed on the producer

vars == <<line, held, taken, refused>>

-----------------------------------------------------------------------------
Waiting == {line[i].cmd : i \in DOMAIN line}
Delivered == {taken[i] : i \in DOMAIN taken}
Occupied == Len(line) + (IF held THEN 1 ELSE 0)
Fresh(c) == c \notin Waiting \cup Delivered \cup refused

Init == /\ line = <<>>
        /\ held = FALSE
        /\ taken = <<>>
        /\ refused = {}

(* A producer takes the last place in the line. *)
Claim(c) == /\ Fresh(c)
            /\ Occupied < Slots
            /\ line' = Append(line, [cmd |-> c, ready |-> FALSE])
            /\ UNCHANGED <<held, taken, refused>>

(* push() returns false: every place is taken. *)
Refuse(c) == /\ Fresh(c)
             /\ Occupied = Slots
             /\ refused' = refused \cup {c}
             /\ UNCHANGED <<line, held, taken>>

Publish(i) == /\ ~line[i].ready
              /\ line' = [line EXCEPT ![i].ready = TRUE]
              /\ UNCHANGED <<held, taken, refused>>

(* pop() takes the oldest claim, and nothing behind a claim not yet published. *)
Take == /\ line # <<>>
        /\ Head(line).ready
        /\ ~held
        /\ taken' = Append(taken, Head(line).cmd)
        /\ line' = Tail(line)
        /\ held' = TRUE
        /\ UNCHANGED refused

Free == /\ held
        /\ held' = FALSE
        /\ UNCHANGED <<line, taken, refused>>

Next == \/ \E c \in Commands : Claim(c) \/ Refuse(c)
        \/ \E i \in DOMAIN line : Publish(i)
        \/ Take
        \/ Free

Spec == Init /\ [][Next]_vars
=============================================================================
