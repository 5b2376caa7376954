SPECIFICATION FairSpec
CONSTANTS
    Sessions = {s1}
    inbox = inbox
    drafts = drafts
    Folders = {inbox, drafts}
    MaxUid <- MoveMax
    StartUid <- MoveStart
    Modes = {FALSE}
    OtherImapd = FALSE
    NoFolder = NoFolder
INVARIANTS
    QuietViewCurrent
    ExpungeIsTrue
PROPERTY IdleCatchesUp
