------------------------- MODULE SubscriptionTable -------------------------
(* What the topic tree promises to the session manager when no filter has a *)
(* wildcard: a table of subscriptions by topic and client, in which a       *)
(* publication reaches every subscriber of its topic.  SessionManager works *)
(* on this table; TopicTree is the tree that the code keeps.                *)
CONSTANTS
    Clients,
    Topics,
    None

VARIABLES
    table,      \* the subscribers of each topic
    last        \* what the last step published and whom it was queued for

tableVars == <<table, last>>

TableInit ==
    /\ table = [t \in Topics |-> {}]
    /\ last = None

TableSubscribe(c, t) ==
    /\ table' = [table EXCEPT ![t] = @ \cup {c}]
    /\ last' = None

TableUnsubscribe(c, t) ==
    /\ table' = [table EXCEPT ![t] = @ \ {c}]
    /\ last' = None

TablePublish(t) ==
    /\ last' = [topic |-> t, to |-> table[t]]
    /\ UNCHANGED table

TableNext ==
    \/ \E t \in Topics : TablePublish(t)
    \/ \E c \in Clients, t \in Topics : TableSubscribe(c, t) \/ TableUnsubscribe(c, t)

TableSpec == TableInit /\ [][TableNext]_tableVars
============================================================================
