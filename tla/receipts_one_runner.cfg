\* Jobs are retried, workers die; the queue never loses a reply.
CONSTANTS
    Queue = "arq"
    MaxTries = 3
    RetryOnRaise = TRUE
    Faults = TRUE
    LostReplies = FALSE
    ReplyFirst = FALSE
SPECIFICATION Spec
INVARIANTS
    TypeOK
    ExtractedIffJson
    OneSuccessLogged
    RowsHaveFiles
PROPERTIES
    ExtractedIsFinal
