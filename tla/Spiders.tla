------------------------------ MODULE Spiders ------------------------------
(***************************************************************************)
(* What the spiders of the scraped sites write in the document of an ad:   *)
(* the attributes each looks for in its site's pages, all of them texts.   *)
(* The spiders of the other sites pass on the JSON of the site itself.     *)
(***************************************************************************)
Logicimmo == {"PRICE", "SURFACE", "ROOMS"}
Foncia ==
  {"PRICE", "SURFACE", "ROOMS", "CELLAR", "CONSTRUCTION_YEAR", "FLOOR", "PARKING", "BALCONY",
   "LIFT", "TYPE_OF_HEATING", "BEDROOMS", "LAND_SURFACE", "AD_TEXT_DESCRIPTION"}
Guyhoquet ==
  {"PRICE", "SURFACE", "ROOMS", "CELLAR", "FLOOR", "PARKING", "LIFT", "TYPE_OF_HEATING",
   "CONSTRUCTION_YEAR"}
Century21 ==
  {"PRICE", "SURFACE", "ROOMS", "CONSTRUCTION_YEAR", "TYPE_OF_HEATING", "LAND_SURFACE",
   "PARKING", "AD_TEXT_DESCRIPTION"}
Arthurimmo ==
  {"PRICE", "SURFACE", "ROOMS", "CELLAR", "FLOOR", "CONSTRUCTION_YEAR", "PARKING", "BALCONY",
   "TYPE_OF_HEATING", "BEDROOMS", "LAND_SURFACE", "AD_TEXT_DESCRIPTION"}
Eraimmo ==
  {"PRICE", "SURFACE", "ROOMS", "CELLAR", "PARKING", "LIFT", "BEDROOMS", "LAND_SURFACE",
   "AD_TEXT_DESCRIPTION"}
Pap == {"PRICE", "SURFACE", "ROOMS", "BEDROOMS", "LAND_SURFACE", "AD_TEXT_DESCRIPTION"}
Iadfrance ==
  {"PRICE", "SURFACE", "ROOMS", "CONSTRUCTION_YEAR", "BEDROOMS", "LAND_SURFACE",
   "AD_TEXT_DESCRIPTION"}
Paruvendu ==
  {"PRICE", "SURFACE", "ROOMS", "PARKING", "BEDROOMS", "FLOOR", "LAND_SURFACE",
   "TYPE_OF_HEATING", "CELLAR", "AD_TEXT_DESCRIPTION"}
Avendrealouer ==
  {"PRICE", "SURFACE", "ROOMS", "CONSTRUCTION_YEAR", "FLOOR", "PARKING", "LIFT",
   "TYPE_OF_HEATING", "CELLAR", "BEDROOMS", "LAND_SURFACE", "AD_TEXT_DESCRIPTION"}
Nestenn ==
  {"PRICE", "SURFACE", "ROOMS", "LIFT", "CELLAR", "FLOOR", "PARKING", "BEDROOMS",
   "AD_TEXT_DESCRIPTION"}
Agenceprincipale ==
  {"PRICE", "SURFACE", "ROOMS", "BEDROOMS", "TYPE_OF_HEATING", "CONSTRUCTION_YEAR", "LIFT",
   "FLOOR", "LAND_SURFACE", "PARKING", "AD_TEXT_DESCRIPTION"}
Lefigaroimmobilier ==
  {"PRICE", "SURFACE", "ROOMS", "LAND_SURFACE", "BEDROOMS", "TYPE_OF_HEATING", "FLOOR",
   "LIFT", "CELLAR", "PARKING", "AD_TEXT_DESCRIPTION"}
Etreproprio == {"PRICE", "SURFACE", "ROOMS", "AD_TEXT_DESCRIPTION"}
Efficity ==
  {"PRICE", "SURFACE", "ROOMS", "BALCONY", "BEDROOMS", "PARKING", "TYPE_OF_HEATING", "LIFT",
   "CONSTRUCTION_YEAR", "AD_TEXT_DESCRIPTION"}
Fnaim ==
  {"PRICE", "SURFACE", "ROOMS", "PARKING", "FLOOR", "CONSTRUCTION_YEAR", "BEDROOMS", "CELLAR",
   "TYPE_OF_HEATING", "LIFT", "BALCONY", "AD_TEXT_DESCRIPTION"}

(* By ANNOUNCE_SOURCE. *)
Extracted ==
  [ logicimmo |-> Logicimmo, foncia |-> Foncia, guyhoquet |-> Guyhoquet,
    century21 |-> Century21, arthurimmo |-> Arthurimmo, eraimmo |-> Eraimmo, pap |-> Pap,
    iadfrance |-> Iadfrance, paruvendu |-> Paruvendu, avendrealouer |-> Avendrealouer,
    nestenn |-> Nestenn, agenceprincipale |-> Agenceprincipale,
    lefigaroimmobilier |-> Lefigaroimmobilier, etreproprio |-> Etreproprio,
    efficity |-> Efficity, fnaim |-> Fnaim ]
=============================================================================
