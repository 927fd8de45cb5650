------------------------------- MODULE Fifo --------------------------------
(* What a closable FIFO queue promises to the goroutines that take from it: *)
(* items leave in the order in which they came, each to one taker, and a    *)
(* taker comes back with nothing only when the queue is closed and empty.   *)
EXTENDS Sequences

CONSTANTS
    Takers,
    Items,
    None

VARIABLES
    items,      \* the items in the queue, oldest first
    closed,
    got         \* what each taker's last call returned

fifoVars == <<items, closed, got>>

FifoInit ==
    /\ items = <<>>
    /\ closed = FALSE
    /\ got = [t \in Takers |-> None]

Put(v) ==
    /\ ~closed
    /\ items' = Append(items, v)
    /\ UNCHANGED <<closed, got>>

Take(t) ==
    /\ items # <<>>
    /\ got' = [got EXCEPT ![t] = Head(items)]
    /\ items' = Tail(items)
    /\ UNCHANGED closed

TakeNothing(t) ==
    /\ closed /\ items = <<>>
    /\ got' = [got EXCEPT ![t] = None]
    /\ UNCHANGED <<items, closed>>

CloseFifo ==
    /\ closed' = TRUE
    /\ UNCHANGED <<items, got>>

FifoNext ==
    \/ CloseFifo
    \/ \E v \in Items : Put(v)
    \/ \E t \in Takers : Take(t) \/ TakeNothing(t)

FifoSpec == FifoInit /\ [][FifoNext]_fifoVars
============================================================================
