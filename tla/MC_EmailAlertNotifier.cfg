SPECIFICATION TurnSpec
CONSTANTS
  u1 = u1
  u2 = u2
  Cities = {"houilles"}
  Users <- MCUsers
  NAlerts = 2
  NAds = 2
  Alerts <- MCAlerts
  AdItems <- MCAdItems
  OldAds = {{}, {1, 2}}
  MaxWorks = 1
  MaxDay = 2
  MaxChanges = 1
  Failures = TRUE
INVARIANTS TypeOK MailedWanted NoDuplicatesInMail 
 
