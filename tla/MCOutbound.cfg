SPECIFICATION FairSpec
CONSTANTS
    agent = agent
    peer = peer
    m1 = m1
    m2 = m2
    c1 = c1
    c2 = c2
    Agents = {agent, peer}
    s1 = s1
    s2 = s2
    Sessions = {s1, s2}
    NoAgent = NoAgent
    NoSession = NoSession
    Observers = {agent}
    Messages <- MCMessages
    agentOf <- MCAgentOf
    Calls = {c1, c2}
    Scenes <- MCScenes
    Endpoints = {peer}
    Silent = {}
    MAX_RETRIES = 2
    MAX_OUTBOX_PER_AGENT = 1
    EvictCount = 1
    BatchSize = 2
    MaxStops = 1
INVARIANTS
    TypeOK
    
PROPERTIES
    KeepsPromise
    ReachedWhileOnline
CHECK_DEADLOCK FALSE
