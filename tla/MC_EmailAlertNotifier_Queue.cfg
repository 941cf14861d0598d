SPECIFICATION FairSpec
CONSTANTS
  u1 = u1
  u2 = u2
  Cities = {"houilles", "puteaux"}
  Users <- MCUsers
  NAlerts = 1
  NAds = 1
  Alerts <- MCAlerts
  AdItems <- MCAdItems
  OldAds = {{}}
  MaxWorks = 2
  MaxDay = 2
  MaxChanges = 1
  Failures = FALSE
PROPERTIES AcceptedIsServed
