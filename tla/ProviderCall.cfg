\* The shipped policy in ticks of about 0.8 seconds: three attempts, a budget
\* between two and three timeouts; timers up to two ticks late.
SPECIFICATION FairSpec
CONSTANTS
    MaxAttempts = 3
    Timeout = 4
    Budget = 10
    InitialDelay = 1
    MaxDelay = 3
    Multiplier = 2
    JitterPercent = 50
    Slack = 2
INVARIANTS TypeOK WithinBudget AbandonedIsAborted Evidenced
PROPERTY Answered
CHECK_DEADLOCK FALSE
