\* The worker takes the job before the upload commits.
CONSTANTS
    Queue = "arq"
    MaxTries = 3
    RetryOnRaise = TRUE
    Faults = FALSE
    LostReplies = FALSE
    ReplyFirst = FALSE
SPECIFICATION FairSpec
PROPERTIES
    PollingEnds
