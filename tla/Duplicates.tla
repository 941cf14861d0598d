----------------------------- MODULE Duplicates -----------------------------
(***************************************************************************)
(* duplicates_fix beside adapt_model, and what a search then shows: the    *)
(* ads of each type are sorted, each run of ads that resemble its first    *)
(* one name one another as duplicates, and an answer leaves out the ads    *)
(* that are duplicates of one it has.  The script of the crawl runs        *)
(* adapt_model and then duplicates_fix; ads leave the table at any time.   *)
(***************************************************************************)
EXTENDS AdaptModel, Spiders

CONSTANTS
  Types,              \* the property types, in the order of main
  PriceTolerance,     \* price_max_error_percentage, per thousand
  SurfaceTolerance    \* surface_max_error_percentage, in hundredths of a square metre

(* The tolerances are configured; the source's are 1 and 100, its configuration's 1 and 2.  The
   types are those main lists.  Prices, surfaces and rooms are not negative, and a document that is
   not JSON has no members. *)
ASSUME TolerancesAssumption == PriceTolerance \in 0..24 /\ SurfaceTolerance \in 1..100
ASSUME TypesAssumption ==
  Types \in Seq(STRING) /\ \A i, j \in 1..Len(Types) : i # j => Types[i] # Types[j]
ASSUME PagesAssumption ==
  \A ads \in Pages :
    /\ IsFiniteSet(DOMAIN ads)
    /\ \A id \in DOMAIN ads :
         /\ {ads[id].price, ads[id].surface, ads[id].rooms} \subseteq Nat
         /\ ads[id].parses \/ DOMAIN ads[id].doc = {}

VARIABLES
  fix,        \* the run: types left, SOURCES read and groups found for the first, ads left
  settled     \* history: the ads the last run scanned, but for those whose update failed

vars == <<adaptVars, fix, settled>>

Resting == [types |-> << >>, SOURCES |-> << >>, groups |-> {}, left |-> {}]

-----------------------------------------------------------------------------
IsSimilar_v2(left, right) == Alike(left, right, PriceTolerance, SurfaceTolerance)

(* An attribute that is not there counts as 0. *)
SortKey(id) ==
  LET Number(attr, value) == IF attr \in summary[id].fields THEN value ELSE 0
  IN  << Number("PRICE", pages[id].price), Number("ROOMS", pages[id].rooms),
         Number("SURFACE", pages[id].surface) >>
(* Seeded fault: the rooms are left out of the order. *)
ComparePriceSurface(left, right) ==
  LET l == SortKey(left)
      r == SortKey(right)
  IN  l[1] < r[1] \/ (l[1] = r[1] /\ l[3] < r[3])
Compare(left, right) ==
  LET l == SortKey(left)
      r == SortKey(right)
  IN  \E i \in 1..3 : l[i] < r[i] /\ \A j \in 1..(i - 1) : l[j] = r[j]

(* Ads that compare equal come in any order. *)
Sorted(ads) ==
  {order \in SetToSeqs(ads) :
     \A i, j \in DOMAIN order : i < j => ~Compare(order[j], order[i])}

(* The ads after a first one are its duplicates as long as they resemble it. *)
LastSimilar(order, it) ==
  Max({last \in it..Len(order) : \A k \in (it + 1)..last : IsSimilar_v2(order[it], order[k])})
Runs(order) ==
  LET groups[it \in 1..(Len(order) + 1)] ==
        IF it > Len(order) THEN {}
        ELSE LET last == LastSimilar(order, it)
             IN  {{order[k] : k \in it..last}} \cup groups[last + 1]
  IN  groups
updateDuplicates(order) == {group \in Runs(order)[1] : Cardinality(group) > 1}

-----------------------------------------------------------------------------
Main ==
  /\ adapt = Idle
  /\ fix.types = << >>
  /\ fix' = [Resting EXCEPT !.types = Types]
  /\ settled' = {}
  /\ UNCHANGED adaptVars

(* The type is done when no update is left. *)
Leaving(run) == IF run.left = {} THEN [Resting EXCEPT !.types = Tail(run.types)] ELSE run

(* The scan of one type, the sort and the groups.  A scan that fails ends the reading. *)
readTable ==
  /\ fix.types # << >>
  /\ fix.left = {}
  /\ \E ads \in SUBSET {id \in Listed : pages[id].type = Head(fix.types)} :
       \E order \in Sorted(ads) :
         LET groups == updateDuplicates(order)
         IN  /\ fix' = Leaving([types   |-> fix.types,
                                SOURCES |-> [id \in UNION groups |-> summary[id].SOURCES],
                                groups  |-> groups,
                                left    |-> UNION groups])
             /\ settled' = settled \cup ads
  /\ UNCHANGED adaptVars

(* Seeded fault: the sources of the group replace those read. *)
GroupSources(id) ==
  LET others == (CHOOSE group \in fix.groups : id \in group) \ {id}
  IN  [DUPLICATES |-> others, SOURCES |-> {pages[other].source : other \in others}]
(* DUPLICATES is not among the attributes read, so the group replaces what was there. *)
updateGroupOfDuplicates(id) ==
  LET others == (CHOOSE group \in fix.groups : id \in group) \ {id}
  IN  [DUPLICATES |-> others,
       SOURCES    |-> fix.SOURCES[id] \cup {pages[other].source : other \in others}]

(* The update of an ad that has left creates an item of the two attributes alone. *)
updateTable(id) ==
  /\ id \in fix.left
  /\ fix' = Leaving([fix EXCEPT !.left = @ \ {id}])
  /\ \/ LET item == IF id \in DOMAIN summary THEN summary[id] ELSE Ghost
            group == updateGroupOfDuplicates(id)
        IN  Write(id, [item EXCEPT !.DUPLICATES = group.DUPLICATES, !.SOURCES = group.SOURCES])
        /\ UNCHANGED settled
     \/ settled' = settled \ {id} /\ UNCHANGED summary
  /\ UNCHANGED <<pages, similar, adapt>>

-----------------------------------------------------------------------------
(* The two programs of the script, one after the other. *)
AdaptStep ==
  /\ fix.types = << >>
  /\ Start \/ \E id \in Ids : PutTargetTable(id)
  /\ UNCHANGED <<fix, settled>>

Removed(id) == RemoveAd(id) /\ settled' = settled \ {id} /\ UNCHANGED fix

Init == AdaptInit /\ fix = Resting /\ settled = {}
Next ==
  \/ AdaptStep
  \/ Main
  \/ readTable
  \/ \E id \in Ids : updateTable(id) \/ Removed(id)
Spec == Init /\ [][Next]_vars

-----------------------------------------------------------------------------
(* The answer to a search: an ad is left out when one before it names it. *)
buildJsonString(results) ==
  FoldLeft(LAMBDA answer, id :
             IF id \in answer.provided THEN answer
             ELSE [shown    |-> answer.shown \cup {id},
                   provided |-> answer.provided \cup {id} \cup summary[id].DUPLICATES],
           [shown |-> {}, provided |-> {}], results).shown

(* The scan of a search meets the ads its criteria want in any order. *)
Answers == {buildJsonString(results) : results \in UNION {SetToSeqs(ads) : ads \in SUBSET Listed}}

-----------------------------------------------------------------------------
(* Two ads that agree in all that is compared, and that nothing splits: no ad of another search,
   and none without one of their attributes, which the sort takes for 0. *)
Key(id) == <<pages[id].price, pages[id].surface, pages[id].rooms, pages[id].type>>
Identical(a, b) ==
  /\ a # b
  /\ Key(a) = Key(b) /\ 0 \notin {pages[a].price, pages[a].surface, pages[a].rooms}
  /\ \A id \in DOMAIN pages : Key(id) = Key(a) => pages[id].search = pages[a].search
  /\ \A id \in {a, b} : Compared \subseteq Formatted[pages[id]].fields

(* After a run of duplicates_fix, no search shows two of the ads it dealt with that agree in
   price, surface, rooms, type and search, whatever the order the table gives them in and
   whatever the runs before left, unless another ad comes between them in the sort (main and
   updateDuplicates of duplicates_fix, buildJsonString of DBaccess). *)
IdenticalShownOnce ==
  fix.types = << >> =>
    \A a, b \in settled : Identical(a, b) => \A shown \in Answers : ~({a, b} \subseteq shown)

(* An ad is hidden behind another only if the two agree in rooms, type and search, and their
   prices are within 5 % and their surfaces within 2 square metres: what a run that was cut
   short or whose ads were removed leaves behind never names an unrelated ad
   (CheckSimilarAnnounces, updateDuplicates). *)
Resemble(a, b) ==
  LET Differ(x, y) == Max({x, y}) - Min({x, y})
  IN  /\ Differ(pages[a].price, pages[b].price) * 20 <= Max({pages[a].price, pages[b].price})
      /\ Differ(pages[a].surface, pages[b].surface) < 200
      /\ <<pages[a].rooms, pages[a].type, pages[a].search>>
           = <<pages[b].rooms, pages[b].type, pages[b].search>>
HiddenResembles ==
  \A id \in DOMAIN summary : \A other \in summary[id].DUPLICATES : Resemble(id, other)

(* The sources an ad is shown with include its own and that of each ad it hides, through
   every mix of puts, updates, failures and removals (CheckSimilarAnnounces and
   updateGroupOfDuplicates). *)
SourcesShown ==
  \A id \in Listed :
    {pages[ad].source : ad \in summary[id].DUPLICATES \cup {id}} \subseteq summary[id].SOURCES

(* What the spider of a site extracts reaches the summary: the reader of adapt_model and the
   spider agree on the attributes, but for three that no reader looks for. *)
Unread ==
  [century21 |-> {"LAND_SURFACE"}, arthurimmo |-> {"BEDROOMS"}, lefigaroimmobilier |-> {"CELLAR"}]
FieldsKept ==
  \A id \in Listed : pages[id].source \in DOMAIN Extracted =>
    LET lost == IF pages[id].source \in DOMAIN Unread THEN Unread[pages[id].source] ELSE {}
    IN  {attr \in Extracted[pages[id].source] \ lost : StateOf(pages[id], attr) = "good"}
          \subseteq summary[id].fields
=============================================================================
