------------------------------ MODULE FifoMutex ------------------------------
(***************************************************************************)
(* What spin_lock and spin_unlock (lib/sbi/riscv_locks.c) promise their    *)
(* callers: one holder at a time, and callers served in the order in which *)
(* they asked.  The harts that hold or wait for the lock stand in a queue, *)
(* one to a place; the one in the first place is the holder.               *)
(***************************************************************************)
EXTENDS Sequences

CONSTANT Harts

VARIABLE queue   \* a sequence of places, each the set of harts in it

Init == queue = << >>

(* A hart asks for the lock, or takes a free one with trylock.             *)
Ask(h) ==
  /\ \A i \in DOMAIN queue : h \notin queue[i]
  /\ queue' = Append(queue, {h})

(* Only the holder leaves.                                                 *)
Release(h) ==
  /\ queue # << >>
  /\ Head(queue) = {h}
  /\ queue' = Tail(queue)

Next == \E h \in Harts : Ask(h) \/ Release(h)

Spec == Init /\ [][Next]_queue
=============================================================================
