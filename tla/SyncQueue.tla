----------------------------- MODULE SyncQueue -----------------------------
(* broker/queue/sync_queue.go: the FIFO of a transient queue, a buffer with  *)
(* a mutex and a condition variable.  Every critical section is one step;    *)
(* Cond.Wait ends one step and the wake-up begins another, in which the      *)
(* goroutine takes the mutex again like any other caller.                    *)
EXTENDS Naturals, Sequences, FiniteSets, Functions

CONSTANTS
    Poppers,    \* goroutines that call pop
    Items,      \* 1..n, pushed in this order
    None        \* Go's nil

VARIABLES
    buffer,     \* contents of the eapache queue
    closed,
    waiting,    \* goroutines in Cond.Wait, longest waiting first
    pc,         \* of each popper: "ready", "popping" or "waiting"
    got,        \* what the last call of each popper returned
    pushed      \* history: number of calls of push

syncVars == <<buffer, closed, waiting, pc, got, pushed>>

SyncTypeOK ==
    /\ buffer \in Seq(Items)
    /\ closed \in BOOLEAN
    /\ Range(waiting) = {p \in Poppers : pc[p] = "waiting"} /\ IsInjective(waiting)
    /\ pc \in [Poppers -> {"ready", "popping", "waiting"}]
    /\ got \in [Poppers -> Items \cup {None}]
    /\ pushed \in 0..Cardinality(Items)

SyncInit ==
    /\ buffer = <<>>
    /\ closed = FALSE
    /\ waiting = <<>>
    /\ pc = [p \in Poppers |-> "ready"]
    /\ got = [p \in Poppers |-> None]
    /\ pushed = 0

\* Cond.Signal: the goroutine that has waited longest runs again.  It stays in
\* pop, outside of the critical section.
Signal ==
    /\ waiting' = IF waiting = <<>> THEN waiting ELSE Tail(waiting)
    /\ pc' = IF waiting = <<>> THEN pc ELSE [pc EXCEPT ![Head(waiting)] = "popping"]

NoSignal == UNCHANGED <<waiting, pc>>

\* Faulty variant: push does not signal.
PushSilently ==
    /\ pushed' = pushed + 1
    /\ buffer' = IF closed THEN buffer ELSE Append(buffer, pushed')
    /\ NoSignal
    /\ UNCHANGED <<closed, got>>

Push ==
    /\ pushed' = pushed + 1
    /\ buffer' = IF closed THEN buffer ELSE Append(buffer, pushed')
    /\ IF closed THEN NoSignal ELSE Signal
    /\ UNCHANGED <<closed, got>>

Close ==
    /\ ~closed
    /\ closed' = TRUE
    /\ Signal
    /\ UNCHANGED <<buffer, got, pushed>>

CallPop(p) ==
    /\ pc[p] = "ready"
    /\ pc' = [pc EXCEPT ![p] = "popping"]
    /\ UNCHANGED <<buffer, closed, waiting, got, pushed>>

\* for buffer.Length() == 0 && !p.closed { c.Wait() }
PopWaits(p) ==
    /\ pc[p] = "popping"
    /\ buffer = <<>> /\ ~closed
    /\ pc' = [pc EXCEPT ![p] = "waiting"]
    /\ waiting' = Append(waiting, p)
    /\ UNCHANGED <<buffer, closed, got, pushed>>

\* Faulty variant: takes the last item in place of the first.
PopNewest(p) ==
    /\ pc[p] = "popping"
    /\ buffer # <<>> \/ closed
    /\ got' = [got EXCEPT ![p] = IF buffer = <<>> THEN None ELSE buffer[Len(buffer)]]
    /\ buffer' = IF buffer = <<>> THEN buffer ELSE SubSeq(buffer, 1, Len(buffer) - 1)
    /\ pc' = [pc EXCEPT ![p] = "ready"]
    /\ UNCHANGED <<closed, waiting, pushed>>

PopReturns(p) ==
    /\ pc[p] = "popping"
    /\ buffer # <<>> \/ closed
    /\ got' = [got EXCEPT ![p] = IF buffer = <<>> THEN None ELSE Head(buffer)]
    /\ buffer' = IF buffer = <<>> THEN buffer ELSE Tail(buffer)
    /\ pc' = [pc EXCEPT ![p] = "ready"]
    /\ UNCHANGED <<closed, waiting, pushed>>

\* tryPop never waits; on a closed, empty queue it returns nil and true.
TryPop(p) ==
    /\ pc[p] = "ready"
    /\ buffer # <<>> \/ closed
    /\ got' = [got EXCEPT ![p] = IF buffer = <<>> THEN None ELSE Head(buffer)]
    /\ buffer' = IF buffer = <<>> THEN buffer ELSE Tail(buffer)
    /\ UNCHANGED <<closed, waiting, pc, pushed>>

SyncNext ==
    \/ pushed + 1 \in Items /\ Push
    \/ Close
    \/ \E p \in Poppers : CallPop(p) \/ PopWaits(p) \/ PopReturns(p) \/ TryPop(p)

\* The Go scheduler runs every goroutine that is inside pop and not parked.
SyncFairness == \A p \in Poppers : WF_syncVars(PopWaits(p) \/ PopReturns(p))

SyncSpec == SyncInit /\ [][SyncNext]_syncVars /\ SyncFairness

---------------------------------------------------------------------------
(* Properties *)

F == INSTANCE Fifo WITH Takers <- Poppers, items <- buffer

\* The queue is a FIFO: items leave in the order of their push, each to one
\* popper, and pop returns nil only from a closed and empty queue, even when
\* another goroutine takes the item that a woken one was woken for.
ImplementsFifo == F!FifoSpec

\* No wake-up is lost: an item does not stay in the queue for ever while some
\* goroutine is in pop, whoever else takes items in between.
ItemsTaken ==
    \A p \in Poppers :
        (buffer # <<>> /\ pc[p] # "ready") ~> (buffer = <<>> \/ pc[p] = "ready")

-----------------------------------------------------------------------------
(* What the code does not keep: TLC has a counterexample to each, see the   *)
(* known disagreements in the README.                                       *)

\* As the comment of close says, pop returns without blocking after close.
PopReturnsAfterClose ==
    \A p \in Poppers : (closed /\ pc[p] # "ready") ~> (pc[p] = "ready")
============================================================================
