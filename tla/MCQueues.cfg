SPECIFICATION MCSpec
CONSTANTS
  w1 = w1
  w2 = w2
  mail = mail
  push = push
  personal = personal
  desk = desk
  phone = phone
  Own = Own
  Events <- OneEvent
  Workers <- TwoWorkers
  BatchLimit = 1
  MaxFaults = 2
  MaxInterventions = 1
  DirectEvents <- TwoEvents
  Dispatchers <- TwoWorkers
  DirectLimit = 2
  MaxDirectFaults = 2
  Mails <- OneMail
  MailSweeps <- TwoWorkers
  MailTries = 2
  MailLimit = 1
  MaxMailFaults = 2
  MaxMailActs = 2
  Pushes <- BothPushes
  Personal <- OnePersonal
  Devices <- TwoDevices
  PushSweeps <- TwoWorkers
  PushTries = 2
  PushLimit = 1
  MaxPushFaults = 1
  MaxPushActs = 1
INVARIANT QueueTypeOK
PROPERTIES
  ImplementsEventDelivery
  ImplementsDirectQueue
  ImplementsMailQueue
  ImplementsPushQueue
CHECK_DEADLOCK FALSE
