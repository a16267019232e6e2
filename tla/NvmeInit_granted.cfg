SPECIFICATION Spec
CONSTANTS
    Processors = 2
    Active <- OneSet
    PageIds = 4
    W16 = 16
    Replies = {1}
    Headers = {"memory"}
INVARIANT
    QpairsInitialised
