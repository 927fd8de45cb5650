CONSTANTS
    c1 = c1
    c2 = c2
    c3 = c3
    alice = alice
    bob = bob
    news = news
    sport = sport
    gossip = gossip
    None = None
    Conns = {c1}
    Clients = {alice}
    Topics = {news, sport, gossip}
    Script <- LeaveScript
    Flaky = {}
SPECIFICATION Spec
INVARIANTS OnlyConnectionsEnd
CHECK_DEADLOCK FALSE
