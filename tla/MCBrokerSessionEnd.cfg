CONSTANTS
    c1 = c1
    c2 = c2
    c3 = c3
    alice = alice
    bob = bob
    news = news
    sport = sport
    gossip = gossip
    None = None
    Conns = {c1}
    Clients = {alice}
    Topics = {news, sport}
    Script <- SessionEndScript
    Flaky = {c1}
SPECIFICATION FairSpec
INVARIANTS EndAnnouncedOnce
PROPERTIES BrokenConnectionEnds
CHECK_DEADLOCK FALSE
