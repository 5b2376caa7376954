SPECIFICATION Spec
CONSTANTS
    Sessions = {s1, s2}
    inbox = inbox
    drafts = drafts
    Folders = {inbox}
    MaxUid <- SharedMax
    StartUid <- SharedStart
    Modes = {TRUE, FALSE}
    OtherImapd = TRUE
    NoFolder = NoFolder
SYMMETRY Symm
INVARIANTS
    SelectSound
    FlagsQueued
    ExpungeAnswers
