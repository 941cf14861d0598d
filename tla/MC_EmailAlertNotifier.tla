----------------------- MODULE MC_EmailAlertNotifier -----------------------
(* Small instances of EmailAlertNotifier: an alert with an upper bound on the price for each of
   two users, and two ads of one city, of which the cheaper may declare the other a duplicate. *)
EXTENDS EmailAlertNotifier

CONSTANTS u1, u2

Flat == [PROPERTY_TYPE |-> "Appartement", SEARCH_TYPE |-> "For sale"]
AlertOf(u, max) ==
  Merge(Flat, [CITY |-> "houilles", USERID |-> u, ROOMS |-> 2,
               PRICE_MIN |-> 1, PRICE_MAX |-> max, AREA_MIN |-> 1, AREA_MAX |-> 9])
AdOf(price, others) ==
  Merge(Flat, [CITY |-> "houilles", ROOMS |-> 2, PRICE |-> price, SURFACE |-> 5, DUPLICATES |-> others])

MCUsers   == {u1, u2}
MCAlerts  == {AlertOf(u1, 3), AlertOf(u2, 1)}
MCAdItems == {AdOf(1, {2}), AdOf(3, {})}

=============================================================================
