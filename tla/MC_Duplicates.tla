--------------------------- MODULE MC_Duplicates ---------------------------
(* Small instances of Duplicates: three ads that resemble one another more or less, or one
   ad of any site with a document that deviates in one member. *)
EXTENDS Duplicates

MCIds == 1..3
MCTypes == << "Maison", "Appartement" >>

Page(source, doc, price, surface, rooms, search) ==
  [source |-> source, parses |-> TRUE, doc |-> doc, mentions |-> {"PARKING"}, price |-> price,
   surface |-> surface, rooms |-> rooms, type |-> "Appartement", search |-> search]
Whole(source) == [attr \in Extracted[source] |-> "good"]
Ad(source, price, surface, rooms, search) ==
  Page(source, Whole(source), price, surface, rooms, search)

(* The ads of three sites: the price of each is within 0.1 % of the one before, then
   within 5 %, then the surface, the rooms and the search differ. *)
Profiles(source) ==
  << Ad(source, 100000, 5000, 3, "For sale"), Ad(source, 100090, 5000, 3, "For sale"),
     Ad(source, 100180, 5000, 3, "For sale"), Ad(source, 104000, 5050, 3, "For sale"),
     Ad(source, 100000, 5000, 4, "For sale"), Ad(source, 100000, 5000, 3, "For rent") >>
Sites == << "pap", "century21", "fnaim" >>
Resembling ==
  { [id \in MCIds |-> Profiles(Sites[id])[choice[id]]] :
      choice \in {<<1, 1, 1>>, <<1, 2, 3>>, <<1, 1, 6>>, <<4, 2, 1>>, <<5, 1, 1>>, <<1, 1, 4>>} }

(* One ad of any site, with a member of its document in another state. *)
Members(source) == {reading.member : reading \in Range(ReaderBySources[source])}
Document(source) == [member \in Members(source) |-> "good"]
Lone(doc, source) == << Page(source, doc, 100000, 5000, 3, "For sale") >>
Deviating ==
  {Lone(Whole(source), source) : source \in DOMAIN Extracted} \cup
  UNION { { Lone([Document(source) EXCEPT ![member] = state], source) :
              member \in Members(source), state \in States } : source \in DOMAIN ReaderBySources }
  \cup {Lone(<< >>, "unknown"), << [Lone(<< >>, "pap")[1] EXCEPT !.parses = FALSE] >>}

MCPages == Resembling \cup Deviating
MCNeighbours == {[id \in MCIds |-> MCIds \ {id}], [id \in MCIds |-> {}]}
=============================================================================
