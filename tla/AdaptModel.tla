----------------------------- MODULE AdaptModel -----------------------------
(***************************************************************************)
(* adapt_model: the ads of a city, each a document in the format of its    *)
(* site, become the items of the summary table, and those that resemble    *)
(* one another name each other as duplicates.                              *)
(*                                                                         *)
(* A reader is the sequence of its readings of a document's members.  What *)
(* matters of a member is whether it is there, has the type and the shape  *)
(* the reader counts on, and which attribute it sets: a member of another  *)
(* type than the one asked fails an assertion of rapidjson and ends the    *)
(* whole run, since the build keeps assertions.                            *)
(***************************************************************************)
EXTENDS Integers, FiniteSets, Sequences, SequencesExt, TLC

CONSTANTS
  Ids,         \* the IDs of the ads
  Pages,       \* the crawled ads there may be: functions from IDs to records
  Neighbours   \* the values TF_SIMILAR_ANNOUNCE may have: functions from Ids to SUBSET Ids

VARIABLES
  pages,       \* the crawled ads: what the site says, its source and the attributes compared
  similar,     \* TF_SIMILAR_ANNOUNCE of each ad
  summary,     \* the summary table: the items stored, by ID
  adapt        \* the run: the ads read, those known to the summary, those left

adaptVars == <<pages, similar, summary, adapt>>

Texts  == {"good", "bare"}                 \* bare: without the separator a reader cuts at
States == Texts \cup {"absent", "null", "array"}

-----------------------------------------------------------------------------
Get(member, attr) ==
  [member |-> member, attr |-> attr, sets |-> Texts, skips |-> {"absent"}, returns |-> {}]
Text(attr) == Get(attr, attr)

(* Nothing is set when the separator is not found. *)
Split(member, attr) ==
  [Get(member, attr) EXCEPT !.sets = {"good"}, !.skips = {"absent", "bare"}]

(* substr throws when the text is too short. *)
Cut(member, attr) == [Get(member, attr) EXCEPT !.sets = {"good"}]

NotNull(member, attr)  == [Get(member, attr) EXCEPT !.skips = {"absent", "null"}]
IfString(member, attr) == [Get(member, attr) EXCEPT !.skips = {"absent", "null", "array"}]
NotArray(member, attr) == [Get(member, attr) EXCEPT !.returns = {"array"}]

TextsOf(attrs) == [i \in DOMAIN attrs |-> Text(attrs[i])]

(* A criterion of seloger is named by its category and its order.  2450 is the balcony. *)
ReadSelogerJSON ==
  << Get("infos_acquereur/prix", "PRICE"),
     Get("1/2430", "CELLAR"), Get("1/2410", "LIFT"), Split("1/2450", "LIFT"),
     Cut("2/2090", "SURFACE"), Split("2/2092", "CONSTRUCTION_YEAR"), Cut("2/2096", "FLOOR"),
     Split("2/2140", "ROOMS"), Split("2/2165", "BEDROOMS"), Get("3/2540", "TYPE_OF_HEATING"),
     Split("4/2430", "PARKING"), Split("4/2470", "BOX"), Get("4/3250", "LAND_SURFACE") >>

ReadLeboncoinJSON ==
  << Get("price", "PRICE"), Get("square", "SURFACE"), Get("rooms", "ROOMS"),
     Get("body", "AD_TEXT_DESCRIPTION") >>

ReadLogicImmoJSON == TextsOf(<<"PRICE", "SURFACE", "ROOMS">>)

(* The price, surface or rooms of a new programme are arrays. *)
ReadBienIciJSON ==
  << NotArray("price", "PRICE"), NotArray("surfaceArea", "SURFACE"),
     NotArray("roomsQuantity", "ROOMS"), Get("floor", "FLOOR"), Get("hasCellar", "CELLAR"),
     Get("blurInfo", "LOCATION"), Get("heating", "TYPE_OF_HEATING"),
     Get("bedroomsQuantity", "BEDROOMS"), Get("landSurfaceArea", "LAND_SURFACE"),
     Get("parkingPlacesQuantity", "PARKING"), Get("yearOfConstruction", "CONSTRUCTION_YEAR"),
     Get("description", "AD_TEXT_DESCRIPTION") >>

ReadLaForetJSON ==
  << NotNull("rooms", "ROOMS"), NotNull("surface", "SURFACE"), NotNull("floor", "FLOOR"),
     NotNull("price", "PRICE"), NotNull("has_lift", "LIFT"), NotNull("lat,lng", "LOCATION"),
     IfString("heating_nature", "TYPE_OF_HEATING"), NotNull("parkings", "PARKING"),
     NotNull("year_of_construction", "CONSTRUCTION_YEAR"), NotNull("cellars", "CELLAR"),
     NotNull("bedrooms", "BEDROOMS"), NotNull("surface_ground", "LAND_SURFACE"),
     Get("description", "AD_TEXT_DESCRIPTION") >>

ReadOrpiJSON ==
  << Get("price", "PRICE"), Get("surface", "SURFACE"), Get("nbRooms", "ROOMS"),
     Get("constructionYear", "CONSTRUCTION_YEAR"), Get("cellar", "CELLAR"),
     Get("nbParkingSpaces", "PARKING"), Get("storyLocation", "FLOOR"), Get("elevator", "LIFT"),
     Get("latitude,longitude", "LOCATION"), Get("nbBedrooms", "BEDROOMS"),
     Split("lotSurface", "LAND_SURFACE"), Get("longAd", "AD_TEXT_DESCRIPTION") >>

(* All but the first two are members of properties. *)
ReadStephanePlazaImoJSON ==
  << Get("price", "PRICE"), Get("lat,lon", "LOCATION"),
     Get("anneeConstruction", "CONSTRUCTION_YEAR"), Get("lift", "LIFT"), Get("floor", "FLOOR"),
     Get("heating-mode", "TYPE_OF_HEATING"), Get("room", "ROOMS"), Split("surface", "SURFACE"),
     Get("cellar", "CELLAR"), Get("parking-spot", "PARKING"), Get("bedroom", "BEDROOMS"),
     Split("surface-land", "LAND_SURFACE"), Get("description", "AD_TEXT_DESCRIPTION") >>

ReadFonciaJSON ==
  << Split("SURFACE", "SURFACE"), Split("LAND_SURFACE", "LAND_SURFACE") >> \o
  TextsOf(<<"PRICE", "ROOMS", "CONSTRUCTION_YEAR", "CELLAR", "PARKING", "FLOOR", "LIFT",
           "TYPE_OF_HEATING", "BALCONY", "BEDROOMS", "AD_TEXT_DESCRIPTION">>)

ReadGuyHoquetJSON ==
  << Split("PRICE", "PRICE"), Split("SURFACE", "SURFACE") >> \o
  TextsOf(<<"ROOMS", "CONSTRUCTION_YEAR", "CELLAR", "PARKING", "FLOOR", "LIFT",
           "TYPE_OF_HEATING">>)

ReadCentury21JSON ==
  TextsOf(<<"PRICE", "SURFACE", "ROOMS", "CONSTRUCTION_YEAR", "TYPE_OF_HEATING", "PARKING",
           "AD_TEXT_DESCRIPTION">>)

(* A heating of blanks only makes substr throw. *)
ReadArthurImmoJSON ==
  << Cut("TYPE_OF_HEATING", "TYPE_OF_HEATING") >> \o
  TextsOf(<<"PRICE", "SURFACE", "ROOMS", "CONSTRUCTION_YEAR", "CELLAR", "FLOOR", "PARKING",
           "BALCONY", "LAND_SURFACE", "AD_TEXT_DESCRIPTION">>)

ReadEraImmoJSON ==
  << Split("SURFACE", "SURFACE") >> \o
  TextsOf(<<"PRICE", "ROOMS", "CELLAR", "PARKING", "LIFT", "BEDROOMS", "LAND_SURFACE",
           "AD_TEXT_DESCRIPTION">>)

ReadPapJSON ==
  TextsOf(<<"PRICE", "SURFACE", "ROOMS", "BEDROOMS", "LAND_SURFACE", "AD_TEXT_DESCRIPTION">>)

ReadIadFranceJSON ==
  << Split("SURFACE", "SURFACE"), Split("LAND_SURFACE", "LAND_SURFACE") >> \o
  TextsOf(<<"PRICE", "ROOMS", "CONSTRUCTION_YEAR", "BEDROOMS", "AD_TEXT_DESCRIPTION">>)

ReadParuVenduJSON ==
  TextsOf(<<"PRICE", "SURFACE", "ROOMS", "FLOOR", "PARKING", "BEDROOMS", "TYPE_OF_HEATING",
           "CELLAR", "LAND_SURFACE", "AD_TEXT_DESCRIPTION">>)

ReadAvendreAlouerJSON ==
  TextsOf(<<"PRICE", "SURFACE", "ROOMS", "CELLAR", "PARKING", "LIFT", "FLOOR",
           "CONSTRUCTION_YEAR", "TYPE_OF_HEATING", "BEDROOMS", "LAND_SURFACE",
           "AD_TEXT_DESCRIPTION">>)

(* Seeded fault: the floor is not read. *)
ReadNestennWithoutFloor ==
  TextsOf(<<"PRICE", "SURFACE", "ROOMS", "CELLAR", "PARKING", "LIFT", "BEDROOMS",
            "AD_TEXT_DESCRIPTION">>)
ReadNestennJSON ==
  TextsOf(<<"PRICE", "SURFACE", "ROOMS", "CELLAR", "PARKING", "LIFT", "FLOOR", "BEDROOMS",
           "AD_TEXT_DESCRIPTION">>)

ReadAgencePrincipaleJSON ==
  TextsOf(<<"PRICE", "SURFACE", "ROOMS", "PARKING", "LIFT", "FLOOR", "BEDROOMS",
           "TYPE_OF_HEATING", "CONSTRUCTION_YEAR", "LAND_SURFACE", "AD_TEXT_DESCRIPTION">>)

ReadLeFigaroImmobilierJSON ==
  TextsOf(<<"PRICE", "SURFACE", "ROOMS", "PARKING", "LIFT", "FLOOR", "BEDROOMS",
           "TYPE_OF_HEATING", "LAND_SURFACE", "AD_TEXT_DESCRIPTION">>)

ReadEtreProprioJSON == TextsOf(<<"PRICE", "SURFACE", "ROOMS", "AD_TEXT_DESCRIPTION">>)

ReadEfficityJSON ==
  TextsOf(<<"PRICE", "SURFACE", "ROOMS", "PARKING", "LIFT", "CONSTRUCTION_YEAR",
           "TYPE_OF_HEATING", "BEDROOMS", "BALCONY", "AD_TEXT_DESCRIPTION">>)

ReadFnaimJSON ==
  TextsOf(<<"PRICE", "SURFACE", "ROOMS", "CELLAR", "PARKING", "LIFT", "BALCONY", "FLOOR",
           "CONSTRUCTION_YEAR", "TYPE_OF_HEATING", "BEDROOMS", "LAND_SURFACE",
           "AD_TEXT_DESCRIPTION">>)

ReaderBySources ==
  [ seloger |-> ReadSelogerJSON, leboncoin |-> ReadLeboncoinJSON, bienici |-> ReadBienIciJSON,
    laforet |-> ReadLaForetJSON, orpi |-> ReadOrpiJSON,
    stephaneplazaimo |-> ReadStephanePlazaImoJSON, foncia |-> ReadFonciaJSON,
    century21 |-> ReadCentury21JSON, guyhoquet |-> ReadGuyHoquetJSON,
    arthurimmo |-> ReadArthurImmoJSON, logicimmo |-> ReadLogicImmoJSON,
    eraimmo |-> ReadEraImmoJSON, pap |-> ReadPapJSON, iadfrance |-> ReadIadFranceJSON,
    paruvendu |-> ReadParuVenduJSON, avendrealouer |-> ReadAvendreAlouerJSON,
    nestenn |-> ReadNestennJSON, agenceprincipale |-> ReadAgencePrincipaleJSON,
    lefigaroimmobilier |-> ReadLeFigaroImmobilierJSON, etreproprio |-> ReadEtreProprioJSON,
    efficity |-> ReadEfficityJSON, fnaim |-> ReadFnaimJSON ]

(* Words of the description that set an attribute. *)
DescribedSources == {"century21", "eraimmo", "iadfrance", "etreproprio", "efficity"}
PopulateValuesExtractFromDescription(page, fields) ==
  IF page.source \in DescribedSources /\ "AD_TEXT_DESCRIPTION" \in fields THEN page.mentions
  ELSE {}

(* One reading: the attribute is set, the member skipped, the reader left or the run aborted. *)
StateOf(page, member) == IF member \in DOMAIN page.doc THEN page.doc[member] ELSE "absent"
ReadMember(page, so_far, reading) ==
  LET state == StateOf(page, reading.member)
  IN  IF so_far.end # "reading" THEN so_far
      ELSE IF state \in reading.sets THEN [so_far EXCEPT !.fields = @ \cup {reading.attr}]
      ELSE IF state \in reading.skips THEN so_far
      ELSE [so_far EXCEPT !.end = IF state \in reading.returns THEN "returned" ELSE "aborted"]

(* A source without a reader and a document that is not JSON set nothing. *)
Format(page) ==
  IF page.source \notin DOMAIN ReaderBySources \/ ~page.parses
  THEN [fields |-> {}, end |-> "returned"]
  ELSE LET read == FoldLeft(LAMBDA so_far, reading : ReadMember(page, so_far, reading),
                            [fields |-> {}, end |-> "reading"], ReaderBySources[page.source])
       IN  IF read.end # "reading" THEN read
           ELSE [read EXCEPT !.fields = @ \cup {"SOURCE_LOGO"} \cup
                                          PopulateValuesExtractFromDescription(page, @)]

Formatted == [page \in UNION {Range(ads) : ads \in Pages} |-> Format(page)]

-----------------------------------------------------------------------------
(* The comparison of two ads.  Surfaces are in hundredths of a square metre. *)
Difference(a, b) == IF a > b THEN a - b ELSE b - a
Compared == {"PRICE", "SURFACE", "ROOMS"}
Alike(left, right, perMille, hundredths) ==
  /\ left # right
  /\ Compared \subseteq Formatted[pages[left]].fields
  /\ Compared \subseteq Formatted[pages[right]].fields
  /\ Difference(pages[left].price, pages[right].price) * 1000 <= perMille * pages[left].price
  /\ Difference(pages[left].surface, pages[right].surface) < hundredths
  /\ pages[left].rooms = pages[right].rooms
  /\ pages[left].type = pages[right].type
  /\ pages[left].search = pages[right].search
IsSimilarAnnounces(left, right) == Alike(left, right, 50, 200)

-----------------------------------------------------------------------------
Idle == [read |-> {}, known |-> {}, left |-> {}]

(* An item without CITY is out of reach of the scans of a city. *)
Listed == {id \in DOMAIN summary : "CITY" \in summary[id].fields}

AdaptInit ==
  /\ pages \in Pages
  /\ similar \in Neighbours
  /\ summary = << >>
  /\ adapt = Idle

(* A scan that fails ends the reading with the ads of the pages before it.  A document that
   aborts the reading ends the run, which has not written anything yet. *)
ReadTableAndFormatEntries(read) == \A id \in read : Formatted[pages[id]].end # "aborted"
ReadSummaryTable(known) == known \subseteq Listed

Start ==
  /\ adapt = Idle
  /\ \E read \in SUBSET DOMAIN pages, known \in SUBSET Ids :
       /\ ReadTableAndFormatEntries(read)
       /\ ReadSummaryTable(known)
       /\ adapt' = [read |-> read, known |-> known \cap read, left |-> read]
  /\ UNCHANGED <<pages, similar, summary>>

(* Seeded fault: the ads whose images look alike are not compared. *)
ImageDuplicates(id) == similar[id] \cap adapt.read
(* What CheckSimilarAnnounces sets for an ad the summary is not known to have. *)
CheckedDuplicates(id) ==
  {other \in similar[id] \cap adapt.read : IsSimilarAnnounces(id, other)}
CheckSimilarAnnounces(id) ==
  [fields     |-> Formatted[pages[id]].fields \cup {"CITY"},
   DUPLICATES |-> CheckedDuplicates(id),
   SOURCES    |-> {pages[other].source : other \in CheckedDuplicates(id) \cup {id}}]

(* An item is written whole, and the others are left. *)
Write(id, item) ==
  summary' = [other \in DOMAIN summary \cup {id} |-> IF other = id THEN item ELSE summary[other]]
Ghost == [fields |-> {}, DUPLICATES |-> {}, SOURCES |-> {}]

(* An item is put only where there is none; the update of a removed one creates it anew. *)
PutTargetTable(id) ==
  /\ id \in adapt.left
  /\ adapt' = IF adapt.left = {id} THEN Idle ELSE [adapt EXCEPT !.left = @ \ {id}]
  /\ \/ UNCHANGED summary
     \/ /\ id \notin DOMAIN summary
        /\ Write(id, IF id \in adapt.known THEN Ghost ELSE CheckSimilarAnnounces(id))
  /\ UNCHANGED <<pages, similar>>

(* The purge, and the withdrawal of a deposit. *)
RemoveAd(id) ==
  /\ id \in DOMAIN summary
  /\ summary' = Restrict(summary, DOMAIN summary \ {id})
  /\ UNCHANGED <<pages, similar, adapt>>
=============================================================================
