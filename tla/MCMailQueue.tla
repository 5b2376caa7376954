---------------------------- MODULE MCMailQueue ----------------------------
EXTENDS MailQueue, TLC

CONSTANTS m1, m2, w1, w2

\* Every mail takes all memory.
LargeMails == [m \in Mails |-> Units]

\* One mail takes all memory, the others a block.
MixedMails == [m \in Mails |-> IF m = m1 THEN Units ELSE 1]

=============================================================================
