SPECIFICATION FeedbackSpec
CONSTANTS
    agent = agent
    user = user
    m1 = m1
    m2 = m2
    Message = {m1, m2}
    Recipient = {agent}
    To <- ToAgent
    Rank <- Ranks
    Sender <- Senders
    Unhurried = TRUE
    MaxAttempts = 1
    MaxBusy = 1
    MaxCrashes = 1
    MaxRestarts = 2
    MaxPending = 2
    MaxFaults = 2
INVARIANTS
    FeedbackInv
PROPERTIES
    QueuePromise
    MailboxesDrain
    ChildComesBack
CHECK_DEADLOCK FALSE
