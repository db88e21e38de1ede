SPECIFICATION TabsSpec
CONSTANTS
    Tabs = {t1, t2}
    Workers = {w1, w2}
    Sent = {"new_comment_commented_request"}
    Changed = {"comments", "recomments"}
    MaxSaves = 3
    NumTexts = 3
    MaxOthers = 2
    MaxDrops = 2
    MaxReloads = 1
    MaxFailures = 1
CHECK_DEADLOCK FALSE
INVARIANTS
    AsChosen
    
 
