CONSTANTS
    c1 = c1
    c2 = c2
    c3 = c3
    alice = alice
    bob = bob
    news = news
    sport = sport
    gossip = gossip
    None = None
    Conns = {c1, c2, c3}
    Clients = {alice, bob}
    Topics = {news}
    Script <- TakeoverScript
    Flaky = {}
SPECIFICATION Spec
INVARIANTS PersistentMessageSent
CHECK_DEADLOCK FALSE
