SPECIFICATION FairQueueSpec
CONSTANTS
    Jobs = {j1}
    Consumers = {c1}
    Capacity = 1
    Waits = {TRUE}
    Nobody = Nobody
    Empty = Empty
    Nothing = Nothing
PROPERTY TimedDequeueReturns
