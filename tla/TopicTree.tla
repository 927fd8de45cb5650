----------------------------- MODULE TopicTree -----------------------------
(* broker/sessionmgr/topic_tree_simple.go: the tree of topic levels, the     *)
(* subscriptions at its nodes and the list of topics per client.  A node is  *)
(* named by the path of levels that leads to it.  Each operation runs under  *)
(* the mutex of the tree, so it is one step.                                 *)
EXTENDS Naturals, Sequences, FiniteSets, SequencesExt

CONSTANTS
    Clients,
    Filters,    \* topics of SUBSCRIBE packets, split at "/" into levels
    Names,      \* topics of PUBLISH packets, split likewise
    MaxTopics,  \* bound: entries in the topic list of a client
    None        \* Go's nil

VARIABLES
    nodes,      \* paths of the existing nodes; <<>> is the root
    subs,       \* node.subs: the clients subscribed at each filter's node
    topics,     \* simpleTopicTree.topics
    last        \* history: what the last step published, and for whom

treeVars == <<nodes, subs, topics, last>>

\* strings.Split(topic, "/") of the topics of clients: all paths in the tree.
Paths == UNION {{SubSeq(f, 1, i) : i \in 0..Len(f)} : f \in Filters}

TreeTypeOK ==
    /\ nodes \subseteq Paths
    /\ \A n \in nodes : n = <<>> \/ Front(n) \in nodes
    /\ subs \in [Filters -> SUBSET Clients]
    /\ \A c \in Clients : topics[c] \in BoundedSeq(Filters, MaxTopics)
    /\ last \in [topic: Names, to: SUBSET Clients] \cup {None}

TreeInit ==
    /\ nodes = {<<>>}
    /\ subs = [f \in Filters |-> {}]
    /\ topics = [c \in Clients |-> <<>>]
    /\ last = None

Children(n) == {m \in nodes : m # <<>> /\ Front(m) = n}

\* Faulty variant: adds the node of the last level only.
AddLastNode(c, f) ==
    /\ Len(topics[c]) < MaxTopics
    /\ nodes' = nodes \cup {f}
    /\ subs' = [subs EXCEPT ![f] = @ \cup {c}]
    /\ topics' = [topics EXCEPT ![c] = Append(@, f)]
    /\ last' = None

\* addNode for every level in turn: all prefixes of the filter exist then.
AddSubscription(c, f) ==
    /\ Len(topics[c]) < MaxTopics
    /\ nodes' = nodes \cup {SubSeq(f, 1, i) : i \in 1..Len(f)}
    /\ subs' = [subs EXCEPT ![f] = @ \cup {c}]
    /\ topics' = [topics EXCEPT ![c] = Append(@, f)]
    /\ last' = None

\* list = append(list[:i], list[i+1:]...) moves the elements behind the first
\* occurrence down in the array, but p.topics keeps the slice of the old length.
CloseUp(list, f) ==
    [j \in DOMAIN list |->
        IF j < Len(list) /\ (\E i \in 1..j : list[i] = f) THEN list[j + 1] ELSE list[j]]

\* Without a node or a subscription of the client the call fails and changes nothing.
RemoveSubscription(c, f) ==
    /\ f \in nodes /\ c \in subs[f]
    /\ subs' = [subs EXCEPT ![f] = @ \ {c}]
    /\ topics' = [topics EXCEPT ![c] = CloseUp(@, f)]
    /\ last' = None
    /\ UNCHANGED nodes

Fits(level, levels) == level \in {Head(levels), "+"}

\* Faulty variant: returns the child of the first level.
SearchShallow(n, levels) ==
    LET hits == {m \in Children(n) : Fits(Last(m), levels)}
    IN  IF hits = {} THEN {None} ELSE hits

\* The nodes that searchNode may return, None for nil.  It ranges over a map of
\* children in any order and follows the first one that fits, for good.
RECURSIVE SearchNode(_, _)
SearchNode(n, levels) ==
    LET hits == {m \in Children(n) :
                    \/ Fits(Last(m), levels)
                    \/ Last(m) = "#" /\ Children(m) # {}}
    IN  IF hits = {} THEN {None}
        ELSE UNION {IF ~Fits(Last(m), levels) \/ Len(levels) = 1
                    THEN {m} ELSE SearchNode(m, Tail(levels)) : m \in hits}

\* Clients in whose queues the message is put; a node inside the tree at which
\* no filter ends has no subscriptions.
Subscribers(n) ==
    IF n \in Filters THEN subs[n] ELSE {}

AddMessage(name) ==
    \E n \in SearchNode(<<>>, name) :
        /\ last' = [topic |-> name, to |-> Subscribers(n)]
        /\ UNCHANGED <<nodes, subs, topics>>

TreeNext ==
    \/ \E name \in Names : AddMessage(name)
    \/ \E c \in Clients, f \in Filters :
          AddSubscription(c, f) \/ RemoveSubscription(c, f)

TreeSpec == TreeInit /\ [][TreeNext]_treeVars

---------------------------------------------------------------------------
(* Properties *)

\* The meaning of a filter: "+" stands for one level, a final "#" for the rest.
Matches(f, name) ==
    \/ Len(f) = Len(name) /\ \A i \in DOMAIN f : f[i] \in {name[i], "+"}
    \/ /\ Last(f) = "#" /\ Len(f) <= Len(name) + 1
       /\ \A i \in 1..(Len(f) - 1) : f[i] \in {name[i], "+"}

Due(name) == UNION {subs[f] : f \in {g \in Filters : Matches(g, name)}}

\* addMessage queues a message only for clients that have a subscription whose
\* filter matches the topic at that moment, whatever way searchNode takes
\* through the wildcard nodes and whatever subscriptions came and went before.
RoutedToMatching ==
    [][last' # None => last'.to \subseteq Due(last'.topic)]_treeVars

\* Every subscription in the tree is in the topic list of its client, which
\* onSessionDestroy relies on, although removeSubscription closes up the list
\* in place and never shortens it.
SubscriptionsListed ==
    \A c \in Clients, f \in Filters :
        c \in subs[f] => Contains(topics[c], f)

Table == INSTANCE SubscriptionTable WITH Topics <- Filters, table <- subs

\* Without wildcards the tree implements the plain table of subscriptions that
\* SessionManager uses in its place: a publication reaches exactly the
\* subscribers of its topic.
ImplementsTable == Table!TableSpec

-----------------------------------------------------------------------------
(* What the code does not keep: TLC has a counterexample to each, see the   *)
(* known disagreements in the README.                                       *)

\* addMessage finds every client with a matching subscription and writes the
\* message to its queue, as topic_tree.go describes it.
AllSubscribersServed ==
    [][last' # None => last'.to = Due(last'.topic)]_treeVars
============================================================================
