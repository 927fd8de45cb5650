---------------------------- MODULE MCStructures ----------------------------
(* The data structures of the broker, each from its own initial states:   *)
(* `part` names the one that runs, the others keep their initial values.  *)
(* All but the topic tree are extended, not instantiated, so that the       *)
(* properties checked here are the ones proved of them.                     *)
EXTENDS SyncQueue, PersistentQueue, Inflight, AuthService, PacketCodec, LruCache

VARIABLES
    part,
    nodes, subs, topics, last,                                      \* TopicTree
    plainNodes, plainSubs, plainTopics, plainLast                   \* without wildcards

WildTree == INSTANCE TopicTree WITH
    Clients <- {"c1", "c2"}, MaxTopics <- 2,
    Filters <- {<<"a", "b">>, <<"+", "b">>, <<"a">>, <<"#">>, <<"#", "b">>},
    Names <- {<<"a">>, <<"a", "b">>, <<"c", "b">>}

PlainNames == {<<"a">>, <<"a", "b">>, <<"c", "b">>}

PlainTree == INSTANCE TopicTree WITH
    Clients <- {"c1", "c2"}, MaxTopics <- 3, Filters <- PlainNames, Names <- PlainNames,
    nodes <- plainNodes, subs <- plainSubs, topics <- plainTopics, last <- plainLast

\* With topics of 0 or 3 bytes the remaining length of a PUBLISH meets
\* 127, 128, 129, 16383, 16384, 2097151, 2097152, 268435455 and 268435456.
BoundaryPayloads == {0, 1} \cup {128 ^ k - d : k \in 1..4, d \in 1..8}

\* The devices "b" and "a/b" of the product "p", and "b" of the product "p/a".
SlashedDevices ==
    {<<<<"p">>, <<"b">>>>, <<<<"p">>, <<"a", "b">>>>, <<<<"p", "a">>, <<"b">>>>}

\* Services post topic flavors; in the part "auth" secrets change while sessions
\* authenticate.
Flavor == INSTANCE AuthService WITH
    MaxSecrets <- 0, Failures <- 0, Posts <- {{"t1"}, {"t1", "t2"}}

---------------------------------------------------------------------------

wildVars == <<nodes, subs, topics, last>>
plainVars == <<plainNodes, plainSubs, plainTopics, plainLast>>
vars == <<part, wildVars, plainVars, syncVars, inflightVars, codecVars, lruVars, queueVars,
          authVars>>

Init ==
    /\ part \in {"wild", "plain", "sync", "flight", "codec", "lru", "queue", "auth",
                "flavor"}
    /\ WildTree!TreeInit /\ PlainTree!TreeInit
    /\ SyncInit /\ InflightInit /\ CodecInit
    /\ LruInit /\ PersistentInit /\ AuthInit

\* The part that runs takes a step; every other stands still.
Next ==
    /\ UNCHANGED part
    /\ IF part = "wild" THEN WildTree!TreeNext ELSE UNCHANGED wildVars
    /\ IF part = "plain" THEN PlainTree!TreeNext ELSE UNCHANGED plainVars
    /\ IF part = "sync" THEN SyncNext ELSE UNCHANGED syncVars
    /\ IF part = "flight" THEN InflightNext ELSE UNCHANGED inflightVars
    /\ IF part = "codec" THEN CodecNext ELSE UNCHANGED codecVars
    /\ IF part = "lru" THEN LruNext ELSE UNCHANGED lruVars
    /\ IF part = "queue" THEN PersistentNext ELSE UNCHANGED queueVars
    /\ CASE part = "auth" -> AuthNext
         [] part = "flavor" -> Flavor!AuthNext
         [] OTHER -> UNCHANGED authVars

\* A caller of Pop that can go on does; so does the goroutine of a persistent session,
\* which does not for ever prefer packets to the signal of the session manager.
Fairness ==
    /\ SyncFairness
    /\ SF_queueVars(part = "queue" /\ DataAvailable)
    /\ WF_queueVars(part = "queue" /\ SessionStep)

Spec == Init /\ [][Next]_vars /\ Fairness

---------------------------------------------------------------------------
(* Properties of the parts; the modules of the parts say more about each.   *)
(* ImplementsFifo and ItemsTaken come from SyncQueue, StoredSentInOrder and *)
(* SignalDrains from PersistentQueue, RetainListHolds from Inflight,        *)
(* KeyFitsName from AuthService, RoundTrip from PacketCodec and             *)
(* CacheIsLru from LruCache.                                                *)

\* addMessage queues a message only for clients with a matching subscription,
\* wildcards and removed subscriptions included.
RoutedToMatching == WildTree!RoutedToMatching

\* Without wildcards the tree routes like a plain table of subscriptions.
ImplementsTable == PlainTree!ImplementsTable
============================================================================
