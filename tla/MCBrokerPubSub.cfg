CONSTANTS
    c1 = c1
    c2 = c2
    c3 = c3
    alice = alice
    bob = bob
    news = news
    sport = sport
    gossip = gossip
    None = None
    Conns = {c1, c2}
    Clients = {alice, bob}
    Topics = {news}
    Script <- PubSubScript
    Flaky = {c1}
SPECIFICATION Spec
INVARIANTS CleanSessionDelivery CleanSessionOrder
CHECK_DEADLOCK FALSE
