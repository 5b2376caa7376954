--------------------------- MODULE MCImapSessions ---------------------------
EXTENDS ImapSessions, TLC

CONSTANTS inbox, drafts

\* Sessions that share a folder into which one message is delivered.
SharedStart == (inbox :> 0)
SharedMax == (inbox :> 1)

\* A session that moves between two folders with messages of the same UID.
MoveStart == (inbox :> 1) @@ (drafts :> 1)
MoveMax == (inbox :> 2) @@ (drafts :> 1)

Symm == Permutations(Sessions)
=============================================================================
