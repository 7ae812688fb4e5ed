SPECIFICATION HnswSpec
CONSTANTS
    Id = {3, 5, 9}
    Vec = {u, v}
    Query = {q}
    Score <- MCScore
    MaxK = 2
    MaxElements = 2
    Model = {m1, m2}
    Earlier <- MCEarlier
    NoFile = NoFile
    NoIndex = NoIndex
    q = q
    u = u
    v = v
    m1 = m1
    m2 = m2
INVARIANT BackendsAgree
INVARIANT LoadsOneSave
PROPERTY ImplementsVectorMap
