CONSTANTS
    Priorities = {1, 2, 3}
    Tags = {1, 2}
    MaxSize = 7
SPECIFICATION HeapSpec
INVARIANT IsPriorityQueue
