-------------------------- MODULE PersistentQueue --------------------------
(* broker/queue with the MongoDB plugin: the queue of a client with a          *)
(* persistent session.  The session manager pushes messages, the session takes *)
(* them one by one, every operation goes to a database that may be away, and   *)
(* the broker may crash, or panic, between any two of them.  The client has    *)
(* one connection at a time; Broker has two that share a queue.                *)
EXTENDS Naturals, Sequences, Functions

CONSTANTS
    Messages,       \* a set of numbers: messages in the order of their publication
    Outages,        \* bound: times that the database becomes unreachable
    Crashes         \* bound: crashes of the broker

\* Messages are numbered in the order of their publication.
ASSUME MessagesAssumption == Messages \subseteq Nat

VARIABLES
    store,          \* the collection of the client
    up,             \* the database can be reached
    outages, crashes,
    known,          \* the queue object is in the table of the queue service
    observed,       \* its observer is set
    leaving,        \* the event about the end of a session is on its way
    pusher,         \* the session manager: "idle", "notify"
    session,        \* "off", "wait", "busy", "stuck", "length", "front", "pop"
    alive,          \* the connection to the client works
    offered,        \* history: messages for which Pushback was called
    stored,         \* history: messages that were inserted
    sent            \* history: messages written to the client

memory == <<known, observed, leaving, pusher>>
queueVars == <<store, up, outages, crashes, memory, session, alive, offered, stored, sent>>

PersistentInit ==
    /\ store = <<>>
    /\ up = TRUE /\ outages = 0 /\ crashes = 0
    /\ known = FALSE /\ observed = FALSE /\ leaving = FALSE
    /\ pusher = "idle" /\ session = "off" /\ alive = FALSE
    /\ offered = {} /\ stored = {} /\ sent = <<>>

Outage ==
    /\ up => outages < Outages
    /\ up' = ~up
    /\ outages' = IF up THEN outages + 1 ELSE outages
    /\ UNCHANGED <<store, crashes, memory, session, alive, offered, stored, sent>>

\* The collection outlives the broker.
Restarts ==
    /\ known' = FALSE /\ observed' = FALSE /\ leaving' = FALSE
    /\ pusher' = "idle" /\ session' = "off" /\ alive' = FALSE

Crash ==
    /\ crashes < Crashes
    /\ crashes' = crashes + 1
    /\ Restarts
    /\ UNCHANGED <<store, up, outages, offered, stored, sent>>

\* The connection breaks.
Break ==
    /\ alive /\ alive' = FALSE
    /\ UNCHANGED <<store, up, outages, crashes, memory, session, offered, stored, sent>>

-----------------------------------------------------------------------------
(* The session manager.                                                       *)

\* Pushback inserts, without a look at the error, and notifies the observer.  A
\* session that has closed its channel and is still the observer ends the process.
Pushback(m) ==
    /\ known /\ pusher = "idle" /\ m \notin offered /\ \A n \in offered : n < m
    /\ offered' = offered \cup {m}
    /\ IF up THEN store' = Append(store, m) /\ stored' = stored \cup {m}
             ELSE UNCHANGED <<store, stored>>
    /\ IF observed /\ session = "off"
       THEN Restarts
       ELSE /\ pusher' = IF observed THEN "notify" ELSE "idle"
            /\ UNCHANGED <<known, observed, leaving, session, alive>>
    /\ UNCHANGED <<up, outages, crashes, sent>>

\* DataAvailable waits until the session takes the signal.
DataAvailable ==
    /\ pusher = "notify" /\ session = "wait"
    /\ pusher' = "idle" /\ session' = "length"
    /\ UNCHANGED <<store, up, outages, crashes, known, observed, leaving, alive, offered,
                   stored, sent>>

\* onSessionDestroy takes the observer of the queue away, whichever session it is.
ClearObserver ==
    /\ leaving /\ pusher = "idle"
    /\ observed' = FALSE /\ leaving' = FALSE
    /\ UNCHANGED <<store, up, outages, crashes, known, pusher, session, alive, offered,
                   stored, sent>>

-----------------------------------------------------------------------------
(* The session.                                                               *)

\* handleConnect finds the queue, or makes a new one on the same collection, which
\* takes a dial; it registers the session as the observer and ends by sending what
\* is stored (availableAll).
Connect ==
    /\ session = "off" /\ (known \/ up)
    /\ known' = TRUE /\ observed' = TRUE /\ session' = "length" /\ alive' = TRUE
    /\ UNCHANGED <<store, up, outages, crashes, leaving, pusher, offered, stored, sent>>

\* disconnect, after a DISCONNECT or an error: the end of the session is announced
\* and availableChan is closed, which ends the process when DataAvailable is waiting
\* on it.
Disconnect ==
    /\ session = "wait" /\ ~leaving
    /\ IF pusher = "notify"
       THEN Restarts
       ELSE /\ session' = "off" /\ leaving' = TRUE /\ alive' = FALSE
            /\ UNCHANGED <<known, observed, pusher>>
    /\ UNCHANGED <<store, up, outages, crashes, offered, stored, sent>>

\* The main loop handles a packet of the client, and tells the event service.
Handle ==
    /\ session = "wait" /\ alive
    /\ session' = "busy"
    /\ UNCHANGED <<store, up, outages, crashes, memory, alive, offered, stored, sent>>

HandleDone ==
    /\ session = "busy"
    /\ session' = "wait"
    /\ UNCHANGED <<store, up, outages, crashes, memory, alive, offered, stored, sent>>

\* The event goroutine waits for the session manager, which waits for this session:
\* the circular wait of Broker.
HandleForever ==
    /\ session = "busy" /\ pusher = "notify"
    /\ session' = "stuck"
    /\ UNCHANGED <<store, up, outages, crashes, memory, alive, offered, stored, sent>>

\* Faulty variant: the last message is left in the queue.
LengthAboveOne ==
    /\ session = "length"
    /\ session' = IF up /\ Len(store) > 1 THEN "front" ELSE "wait"
    /\ UNCHANGED <<store, up, outages, crashes, memory, alive, offered, stored, sent>>

\* The length is -1 when the database is away.
Length ==
    /\ session = "length"
    /\ session' = IF up /\ store # <<>> THEN "front" ELSE "wait"
    /\ UNCHANGED <<store, up, outages, crashes, memory, alive, offered, stored, sent>>

\* Faulty variant: the error of sendPublish is not looked at.
FrontUnchecked ==
    /\ session = "front"
    /\ session' = IF up THEN "pop" ELSE "length"
    /\ sent' = IF up /\ alive THEN Append(sent, Head(store)) ELSE sent
    /\ UNCHANGED <<store, up, outages, crashes, memory, alive, offered, stored>>

\* Front and sendPublish.  Without a message, or when it cannot be written, the loop
\* goes on.
FrontAndSend ==
    /\ session = "front"
    /\ IF up /\ alive
       THEN sent' = Append(sent, Head(store)) /\ session' = "pop"
       ELSE session' = "length" /\ UNCHANGED sent
    /\ UNCHANGED <<store, up, outages, crashes, memory, alive, offered, stored>>

\* Pop looks for the first message again and removes it; either may fail.
Pop ==
    /\ session = "pop"
    /\ store' = IF up /\ store # <<>> THEN Tail(store) ELSE store
    /\ session' = "length"
    /\ UNCHANGED <<up, outages, crashes, memory, alive, offered, stored, sent>>

-----------------------------------------------------------------------------
SessionStep == HandleDone \/ Length \/ FrontAndSend \/ Pop

PersistentNext ==
    \/ \E m \in Messages : Pushback(m)
    \/ DataAvailable \/ ClearObserver
    \/ Connect \/ Disconnect \/ Handle \/ HandleForever \/ SessionStep
    \/ Break \/ Outage \/ Crash

\* The goroutine of the session runs; a signal that is offered again and again to a
\* main loop that also has packets to handle is taken, as select chooses at random.
PersistentSpec ==
    /\ PersistentInit /\ [][PersistentNext]_queueVars
    /\ SF_queueVars(DataAvailable) /\ WF_queueVars(SessionStep)

-----------------------------------------------------------------------------
(* Properties.                                                                *)

\* Front and Pop are two operations: whatever fails between them, database or
\* connection, and wherever the broker crashes, a stored message stays in the
\* collection until it was written.
KeptUntilSent == \A m \in stored : m \in Range(store) \/ m \in Range(sent)

\* Messages reach the client in the order of their publication, except that one
\* message may be sent again after a failure or a crash.
SentInOrder == \A i, j \in DOMAIN sent : i < j => sent[i] <= sent[j]

\* Both: the collection is an at-least-once queue in the order of publication.
StoredSentInOrder == KeptUntilSent /\ SentInOrder

\* handleConnect and handleDataAvailableNotification: once the database answers, a
\* session that connects or is notified writes everything that is stored, also what
\* was stored while the client was away and what an earlier loop left behind because
\* it could not read the length, unless the session ends or is stuck.
SignalDrains ==
    \A m \in Messages :
        []((m \in stored /\ (pusher = "notify" \/ session = "length") /\ []up)
              => <>(m \in Range(sent) \/ session = "stuck" \/ ~alive))

-----------------------------------------------------------------------------
(* What the code does not keep: TLC has a counterexample to each, see the   *)
(* known disagreements in the README.                                       *)

\* DataAvailable is "called when queue have data to deal with": what is stored for a
\* client that stays connected is sent to it.
StoredIsSent ==
    \A m \in Messages :
        (m \in stored /\ alive) ~> (m \in Range(sent) \/ session = "stuck" \/ ~alive)

\* Pushback "push message at tail of queue": a message is in the collection, or was
\* sent, once Pushback was called for it.
PushedIsStored == offered = stored
=============================================================================
