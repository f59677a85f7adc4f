CONSTANTS
    u = u
    s1 = s1
    s2 = s2
    UserEvents = {u}
    Posters = {p}
    Subscribers = {s1, s2}
    Wants <- MCWants
    K_QUEUE_LEN = 2
    K_MAX_SUBSCRIBERS = 2
    MaxPosts = 2
    MaxLives = 2
SPECIFICATION LiveSpec
INVARIANTS SubscriptionKept DeliveredToAll
PROPERTIES EventsDrain StopHeard
CHECK_DEADLOCK FALSE
