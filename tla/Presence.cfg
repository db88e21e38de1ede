SPECIFICATION PresenceSpec
CONSTANTS
    u1 = u1
    u2 = u2
    c1 = c1
    c2 = c2
    c3 = c3
    Users <- MCUsers
    Conns <- MCConns
SYMMETRY Symmetry
INVARIANTS
    NeverOvercounted
    ExactUnlessRefused
    
