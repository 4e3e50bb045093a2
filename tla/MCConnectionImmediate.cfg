SPECIFICATION Spec
CONSTANTS
    Out <- MCOut
    Mail <- MCLiveMail
    Areas <- MCAreas
    Inbox = "inbox"
    AreaOf <- MCLiveAreaOf
    Subject <- MCLiveSubject
    Owed = {1}
    Silent = {}
    ImmediateOut <- MCImmediateOut
    ImmediateMail = {1}
    Unsendable = {}
    Elsewhere = {}
    MaxFaults = 1
    MaxInterrupts = 1
INVARIANT
    ImmediateMessagesSelected
