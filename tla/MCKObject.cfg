CONSTANTS
    n1 = n1
    n2 = n2
    n3 = n3
    i1 = i1
    i2 = i2
    Null = Null
    Nodes <- ThreeNodes
    Ids <- TwoIds
    CallersReappend = FALSE
SPECIFICATION Spec
INVARIANTS ListIntact
PROPERTIES WalkEnds WalkMakesProgress ImplementsSequence
