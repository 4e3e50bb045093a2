SPECIFICATION Spec
CONSTANTS
    Out <- MCOut
    Mail <- MCMail
    Areas <- MCAreas
    Inbox = "inbox"
    AreaOf <- MCAreaOf
    Subject <- MCSubject
    Owed <- MCOwed
    Silent <- MCSilent
    ImmediateOut <- MCImmediateOut
    ImmediateMail <- MCImmediateMail
    Unsendable = {2}
    Elsewhere <- MCElsewhere
    MaxFaults = 1
    MaxInterrupts = 1
INVARIANTS
    ReceiptBeforeKill
    RepeatedOnlyAfterFault
    BulletinRetrievedOnce
    OneMoreAfterInterrupt
    FlagsSurvive
PROPERTIES
    OutgoingCustody
    IncomingCustody
    ImmediateOnly
    ImplementsChecks
    CheckedOnlyWhenRetrieved
