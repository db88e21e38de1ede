CONSTANTS
    a = a
    b = b
    w1 = w1
    w2 = w2
    Users <- TwoUsers
    Workers <- TwoWorkers
    Things <- All
    Kind <- Kinds
    Owners <- OwnersOf
    UserRatings <- GivenTo
    Liked <- LikedBefore
    MaxRates = 3
    Author = a
    Handlers = {"rate", "view", "comment", "destroy", "recalculate"}
    Given = {"like", "report"}
    MaxHandlers = 3
    Objects <- TwoUsers
    PerPage = 1
    MaxNews = 3
    MaxVisits = 1
    MaxFailures = 1
SPECIFICATION AppSpec
CHECK_DEADLOCK FALSE
SYMMETRY SymmetricWorkers
INVARIANTS
    ScoresAgree
    CountersBalance
    
PROPERTY RepairsAlone
