SPECIFICATION Spec
CONSTANTS
  m1 = m1 m2 = m2 w1 = w1 w2 = w2
  Mails = {m1, m2}
  NoMail = NoMail
  Workers = {w1}
  MinWorkers = {w1}
  Size <- MixedMails
  Units = 2
  MaxId = 3
  QueueLimit = 1
  MaxSmtpRestarts = 1
  MaxRestarts = 1
  Faults = {"fclose", "read", "save"}
INVARIANT MemoryBounded
INVARIANT AckedNotLost
INVARIANT AtMostOnce
INVARIANT PartialNeverHandled
