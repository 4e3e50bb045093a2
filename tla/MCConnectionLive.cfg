SPECIFICATION LiveSpec
CONSTANTS
    Out = {1}
    Mail <- MCLiveMail
    Areas <- MCAreas
    Inbox = "inbox"
    AreaOf <- MCLiveAreaOf
    Subject <- MCLiveSubject
    Owed = {1}
    Silent = {}
    ImmediateOut = {}
    ImmediateMail = {1}
    Unsendable = {}
    Elsewhere = {}
    MaxFaults = 1
    MaxInterrupts = 1
PROPERTIES
    SessionEnds
    QueueDrains
    MailboxDrains
    BulletinsRetrieved
