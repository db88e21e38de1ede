SPECIFICATION FairSpec
CONSTANTS
    a = a
    b = b
    w1 = w1
    w2 = w2
    k1 = k1
    k2 = k2
    x = x
    y = y
    Users <- MCUsers
    Owner = b
    Contents <- TwoTexts
    Web = {}
    Crons = {k1}
    MaxMessages = 2
    MaxCrashes = 1
PROPERTY EventuallyNotified
INVARIANTS
    MailedOnce
    
