SPECIFICATION FairSpec
CONSTANTS
  m1 = m1 m2 = m2 w1 = w1 w2 = w2
  Mails = {m1, m2}
  NoMail = NoMail
  Workers = {w1, w2}
  MinWorkers = {w1}
  Size <- LargeMails
  Units = 1
  MaxId = 2
  QueueLimit = 1
  MaxSmtpRestarts = 1
  MaxRestarts = 0
  Faults = {}
PROPERTY QueueDrains
