--------------------------- MODULE MemoListProofs ---------------------------
(***************************************************************************)
(* Proofs about the filters of the browser, the filter engine of the       *)
(* server and the lists of memos, for any rows, tags, conditions, limits,  *)
(* histories and numbers of requests and changes.                          *)
(***************************************************************************)
EXTENDS BrowseFilters, MemoList, ListLemmas, FiniteSetTheorems, SequenceTheorems, TLAPS

----------------------------------------------------------------------------
(* The filters and the address.                                            *)

(* Every location is a record of a path, a parameter and where it came     *)
(* from, and the history of the tab is never empty.                        *)
IsLocation(l) == l = Location(l.path, l.param, l.from)

HistoryType(places) == /\ \A l \in places : IsLocation(l)
                       /\ entries \in Seq(places) /\ Len(entries) > 0

Places == IsLocation(page) /\ \E places : HistoryType(places)

(* The two refs agree: the text last taken from or given to the address    *)
(* says the rendered filters, and nothing is queued beside them.           *)
RefsAgree ==
  /\ parseFilterQuery(lastUrl) = filters
  /\ lastStore = stringifyFilters(filters)
  /\ ~pending => queued = filters

(* The address has just been written: only its own rendering is left.      *)
Written == Router.path = page.path /\ Router.param = lastUrl

(* How far the page is from having settled: not at all, by one rendering,  *)
(* by two.                                                                 *)
OneLeft ==
  IF pending
  THEN /\ Router.path = page.path /\ Router.from = page.from
       /\ IF stringifyFilters(queued) \in {lastUrl, lastStore} THEN Router = page ELSE page.param = stringifyFilters(queued)
  ELSE Written /\ lastUrl = stringifyFilters(filters)

TwoLeft ==
  /\ pending
  /\ Written /\ Router.from = page.from
  /\ stringifyFilters(queued) \notin {lastUrl, lastStore}

Rank ==
  /\ renders \in 0..4
  /\ renders >= 1 => (~pending \/ OneLeft \/ TwoLeft)
  /\ renders >= 2 => (Settled \/ OneLeft \/ TwoLeft)
  /\ renders >= 3 => (Settled \/ OneLeft)
  /\ renders >= 4 => Settled

(* Where the page is on its way to what the last click asked for.          *)
(* The click changed the filters, and they wait to be rendered.            *)
Changing == pending /\ page = Router /\ queued = intent /\ parseFilterQuery(page.param) = filters

(* They are rendered and written into the address.                         *)
Writing == ~pending /\ filters = intent /\ Written /\ lastUrl = stringifyFilters(intent)

(* The click led somewhere else, or the page has arrived.                  *)
Moving == ~pending /\ parseFilterQuery(page.param) = filters /\ parseFilterQuery(Router.param) = intent

(* The page has arrived with the filters it left, which its address was    *)
(* given meanwhile; those it asks for wait to be rendered.                 *)
Arriving ==
  /\ pending /\ queued = intent /\ parseFilterQuery(page.param) = intent
  /\ Written /\ Router.from = page.from /\ intent # filters

Phases == ~hasty => Changing \/ Writing \/ Moving \/ Arriving

BrowseInv == Places /\ RefsAgree /\ Rank /\ Phases

(* Two texts written by stringifyFilters are the same only when their      *)
(* filters are.                                                            *)
LEMMA TextsDiffer ==
  /\ \A fs, gs : stringifyFilters(fs) = stringifyFilters(gs) => fs = gs
  /\ \A fs : parseFilterQuery(stringifyFilters(fs)) = fs
BY DEF stringifyFilters, parseFilterQuery

(* A location is what it was made of.                                      *)
LEMMA LocationIs ==
  ASSUME NEW p, NEW q, NEW f
  PROVE  /\ Location(p, q, f).path = p /\ Location(p, q, f).param = q /\ Location(p, q, f).from = f
         /\ IsLocation(Location(p, q, f))
BY DEF Location, IsLocation

(* The last location of a history that a navigation has made longer, a     *)
(* step back has made shorter, or the filters have been written into.      *)
LEMMA HistoryStep ==
  ASSUME NEW places, NEW s \in Seq(places), Len(s) > 0, \A l \in places : IsLocation(l)
  PROVE  /\ Last(s) \in places
         /\ \A l : IsLocation(l) =>
              /\ Append(s, l) \in Seq(places \cup {l}) /\ Len(Append(s, l)) > 0
              /\ Last(Append(s, l)) = l
              /\ [s EXCEPT ![Len(s)] = l] \in Seq(places \cup {l}) /\ Len([s EXCEPT ![Len(s)] = l]) > 0
              /\ Last([s EXCEPT ![Len(s)] = l]) = l
              /\ \A k \in places \cup {l} : IsLocation(k)
         /\ Len(s) > 1 => /\ Front(s) \in Seq(places) /\ Len(Front(s)) > 0
                          /\ Last(Front(s)) = s[Len(s) - 1]
                          /\ s[Len(s) - 1] \in places
BY DEF Last, Front

(* A location that is pushed is the last one.                              *)
LEMMA HistoryPush ==
  ASSUME NEW places, NEW s \in Seq(places), Len(s) > 0, \A l \in places : IsLocation(l),
         NEW l, IsLocation(l)
  PROVE  /\ Append(s, l) \in Seq(places \cup {l}) /\ Len(Append(s, l)) > 0
         /\ Last(Append(s, l)) = l
         /\ \A k \in places \cup {l} : IsLocation(k)
BY DEF Last

(* A rendering writes the filters into the address exactly when no ref     *)
(* remembers their text, and keeps every entry but the last.               *)
LEMMA SyncStep ==
  ASSUME Places, NEW fs, NEW url, NEW store, NEW from, SyncToUrl(fs, url, store, from)
  PROVE  /\ stringifyFilters(fs) \in {url, store} => entries' = entries /\ lastUrl' = url /\ lastStore' = store
         /\ stringifyFilters(fs) \notin {url, store} =>
              /\ lastUrl' = stringifyFilters(fs) /\ lastStore' = stringifyFilters(fs)
              /\ Router' = Location(Router.path, stringifyFilters(fs), from)
         /\ \E places : HistoryType(places)'
<1>1. PICK places : HistoryType(places)  BY DEF Places
<1>. DEFINE here == Location(Router.path, stringifyFilters(fs), from)
<1>2. IsLocation(here)  BY LocationIs
<1>3. /\ [entries EXCEPT ![Len(entries)] = here] \in Seq(places \cup {here})
      /\ Len([entries EXCEPT ![Len(entries)] = here]) > 0
      /\ Last([entries EXCEPT ![Len(entries)] = here]) = here
      /\ \A k \in places \cup {here} : IsLocation(k)
  <2>. HIDE DEF here
  <2>1. entries \in Seq(places) /\ Len(entries) > 0 /\ \A l \in places : IsLocation(l)  BY <1>1 DEF HistoryType
  <2>. QED  BY <2>1, <1>2, HistoryStep
<1>4. CASE stringifyFilters(fs) \in {url, store}
  <2>1. entries' = entries /\ lastUrl' = url /\ lastStore' = store  BY <1>4 DEF SyncToUrl
  <2>2. HistoryType(places)'  BY <2>1, <1>1 DEF HistoryType, IsLocation, Location
  <2>. QED  BY <2>1, <2>2, <1>4
<1>5. CASE stringifyFilters(fs) \notin {url, store}
  <2>1. /\ lastUrl' = stringifyFilters(fs) /\ lastStore' = stringifyFilters(fs)
        /\ entries' = [entries EXCEPT ![Len(entries)] = Location(@.path, stringifyFilters(fs), from)]
    BY <1>5 DEF SyncToUrl
  <2>2. entries' = [entries EXCEPT ![Len(entries)] = here]  BY <2>1 DEF Router, Last
  <2>3. Router' = here  BY <2>2, <1>3 DEF Router
  <2>4. PICK longer : longer = places \cup {here}  OBVIOUS
  <2>5. HistoryType(longer)'
    <3>. HIDE DEF here
    <3>. QED  BY <2>2, <2>4, <1>3 DEF HistoryType, IsLocation, Location
  <2>. QED  BY <2>1, <2>3, <2>5, <1>5
<1>. QED  BY <1>4, <1>5

(* The locations reached by the steps: the one rendered and the router's.  *)
LEMMA PlacesAre ==
  ASSUME Places
  PROVE  IsLocation(page) /\ IsLocation(Router)
<1>1. PICK places : HistoryType(places)  BY DEF Places
<1>2. Last(entries) \in places  BY <1>1, HistoryStep DEF HistoryType
<1>. QED  BY <1>1, <1>2 DEF Places, HistoryType, Router

(* Locations with the same fields are the same.                            *)
LEMMA SameLocation ==
  ASSUME NEW k, NEW l, IsLocation(k), IsLocation(l), k.path = l.path, k.param = l.param, k.from = l.from
  PROVE  k = l
BY DEF IsLocation

(* A click puts the count of renderings back, and the page that has        *)
(* settled in step with its address is the one it is measured from.        *)
LEMMA RankOfClick ==
  ASSUME renders' = 0
  PROVE  Rank'
BY DEF Rank

(* The change of the filters is rendered.                                  *)
LEMMA RenderFiltersKeeps ==
  ASSUME BrowseInv, RenderFilters
  PROVE  BrowseInv'
<1>. USE TextsDiffer
<1>0. Places /\ IsLocation(page) /\ IsLocation(Router)  BY PlacesAre DEF BrowseInv
<1>1. /\ pending /\ filters' = queued /\ pending' = FALSE /\ renders' = renders + 1
      /\ page' = page /\ queued' = queued /\ intent' = intent /\ hasty' = hasty
  BY DEF RenderFilters
<1>2. SyncToUrl(queued, lastUrl, lastStore, page.from)  BY DEF RenderFilters
<1>. DEFINE text == stringifyFilters(queued)
            there == Location(Router.path, text, page.from)
<1>3. there.path = Router.path /\ there.param = text /\ there.from = page.from /\ IsLocation(there)  BY LocationIs
<1>4. /\ text \in {lastUrl, lastStore} => entries' = entries /\ lastUrl' = lastUrl /\ lastStore' = lastStore /\ Router' = Router
      /\ text \notin {lastUrl, lastStore} => lastUrl' = text /\ lastStore' = text /\ Router' = there
      /\ \E places : HistoryType(places)'
  <2>1. /\ text \in {lastUrl, lastStore} => entries' = entries /\ lastUrl' = lastUrl /\ lastStore' = lastStore
        /\ text \notin {lastUrl, lastStore} => lastUrl' = text /\ lastStore' = text /\ Router' = there
        /\ \E places : HistoryType(places)'
    BY <1>0, <1>2, SyncStep
  <2>2. entries' = entries => Router' = Router  BY DEF Router
  <2>. QED  BY <2>1, <2>2
<1>5. Places'  BY <1>0, <1>1, <1>4 DEF Places, IsLocation, Location
<1>6. RefsAgree'
  <2>1. parseFilterQuery(lastUrl) = filters /\ lastStore = stringifyFilters(filters)  BY DEF BrowseInv, RefsAgree
  <2>2. CASE text \in {lastUrl, lastStore}
    <3>1. queued = filters  BY <2>1, <2>2
    <3>. QED  BY <1>1, <1>4, <2>1, <2>2, <3>1 DEF RefsAgree
  <2>3. CASE text \notin {lastUrl, lastStore}
    BY <1>1, <1>4, <2>3 DEF RefsAgree
  <2>. QED  BY <2>2, <2>3
<1>7. OneLeft => Settled'
  <2>. SUFFICES ASSUME OneLeft  PROVE Settled'  OBVIOUS
  <2>1. /\ Router.path = page.path /\ Router.from = page.from
        /\ IF text \in {lastUrl, lastStore} THEN Router = page ELSE page.param = text
    BY <1>1 DEF OneLeft
  <2>2. text \notin {lastUrl, lastStore} => there = page  BY <2>1, <1>0, <1>3, SameLocation
  <2>. QED  BY <1>1, <1>4, <2>1, <2>2 DEF Settled
<1>8. TwoLeft => OneLeft'
  <2>. SUFFICES ASSUME TwoLeft  PROVE OneLeft'  OBVIOUS
  <2>1. Router.path = page.path /\ text \notin {lastUrl, lastStore}  BY DEF TwoLeft, Written
  <2>. QED  BY <1>1, <1>3, <1>4, <2>1 DEF OneLeft, Written
<1>9. Rank'
  <2>1. ~Settled  BY <1>1 DEF Settled
  <2>2. /\ renders \in 0..4
        /\ renders >= 1 => (OneLeft \/ TwoLeft)
        /\ renders >= 2 => (OneLeft \/ TwoLeft)
        /\ renders >= 3 => OneLeft
        /\ renders >= 4 => FALSE
    BY <2>1, <1>1 DEF BrowseInv, Rank
  <2>3. /\ renders' \in 0..4
        /\ ~pending'
        /\ renders' >= 2 => (Settled \/ OneLeft)'
        /\ renders' >= 4 => Settled'
    BY <1>1, <1>7, <1>8, <2>2
  <2>4. renders' >= 3 => (Settled \/ OneLeft)'  BY <2>3
  <2>. QED  BY <2>3, <2>4 DEF Rank
<1>10. Phases'
  <2>. SUFFICES ASSUME ~hasty  PROVE Writing' \/ Moving'
    BY <1>1 DEF Phases
  <2>1. Changing \/ Arriving  BY <1>1 DEF BrowseInv, Phases, Writing, Moving
  <2>2. CASE Changing
    <3>1. page = Router /\ queued = intent /\ parseFilterQuery(page.param) = filters  BY <2>2 DEF Changing
    <3>2. CASE text \in {lastUrl, lastStore}
      <4>1. queued = filters  BY <3>2 DEF BrowseInv, RefsAgree
      <4>. QED  BY <1>1, <1>4, <3>1, <3>2, <4>1 DEF Moving
    <3>3. CASE text \notin {lastUrl, lastStore}
      BY <1>1, <1>3, <1>4, <3>1, <3>3 DEF Writing, Written
    <3>. QED  BY <3>2, <3>3
  <2>3. CASE Arriving
    <3>1. queued = intent /\ Router.path = page.path /\ intent # filters  BY <2>3 DEF Arriving, Written
    <3>2. text \notin {lastUrl, lastStore}  BY <3>1 DEF BrowseInv, RefsAgree
    <3>. QED  BY <1>1, <1>3, <1>4, <3>1, <3>2 DEF Writing, Written
  <2>. QED  BY <2>1, <2>2, <2>3
<1>. QED  BY <1>5, <1>6, <1>9, <1>10 DEF BrowseInv

(* A navigation is rendered, and the three effects run.                    *)
LEMMA RenderRouteKeeps ==
  ASSUME BrowseInv, RenderRoute
  PROVE  BrowseInv'
<1>. USE TextsDiffer
<1>. DEFINE goal == parseFilterQuery(Router.param)
            text == stringifyFilters(filters)
            there == Location(Router.path, text, Router.from)
            moved == Clears(Router) \/ Adopts(Router)
            url == IF Adopts(Router) THEN Router.param ELSE lastUrl
            store == IF Adopts(Router) THEN stringifyFilters(goal) ELSE lastStore
<1>0. Places /\ IsLocation(page) /\ IsLocation(Router)  BY PlacesAre DEF BrowseInv
<1>1. /\ ~pending /\ page # Router /\ page' = Router /\ pending' = moved /\ filters' = filters
      /\ queued' = IF moved THEN goal ELSE queued
      /\ renders' = renders + 1 /\ intent' = intent /\ hasty' = hasty
  BY DEF RenderRoute
<1>2. there.path = Router.path /\ there.param = text /\ there.from = Router.from /\ IsLocation(there)  BY LocationIs
<1>3. parseFilterQuery(lastUrl) = filters /\ lastStore = text /\ queued = filters
  BY <1>1 DEF BrowseInv, RefsAgree
<1>4. /\ Adopts(Router) /\ goal # filters => lastUrl' = text /\ lastStore' = text /\ Router' = there
      /\ ~(Adopts(Router) /\ goal # filters) => Router' = Router /\ lastUrl' = url /\ lastStore' = text
      /\ \E places : HistoryType(places)'
  <2>1. CASE Router.param # page.param \/ Router.from # page.from
    <3>1. SyncToUrl(filters, url, store, Router.from)  BY <2>1 DEF RenderRoute
    <3>2. /\ text \in {url, store} => entries' = entries /\ lastUrl' = url /\ lastStore' = store
          /\ text \notin {url, store} => lastUrl' = text /\ lastStore' = text /\ Router' = there
          /\ \E places : HistoryType(places)'
      <4>. HIDE DEF url, store
      <4>. QED  BY <1>0, <3>1, SyncStep
    <3>3. entries' = entries => Router' = Router  BY DEF Router
    <3>4. (text \in {url, store}) <=> ~(Adopts(Router) /\ goal # filters)  BY <1>3
    <3>5. ~(Adopts(Router) /\ goal # filters) => store = text  BY <1>3
    <3>. HIDE DEF url, store, there, text
    <3>. QED  BY <3>2, <3>3, <3>4, <3>5
  <2>2. CASE ~(Router.param # page.param \/ Router.from # page.from)
    <3>1. lastUrl' = lastUrl /\ lastStore' = lastStore /\ entries' = entries  BY <2>2 DEF RenderRoute
    <3>2. ~Adopts(Router)  BY <2>2 DEF Adopts
    <3>3. Router' = Router  BY <3>1 DEF Router
    <3>4. \E places : HistoryType(places)'
      <4>1. PICK places : HistoryType(places)  BY <1>0 DEF Places
      <4>. QED  BY <3>1, <4>1 DEF HistoryType, IsLocation, Location
    <3>. QED  BY <1>3, <3>1, <3>2, <3>3, <3>4
  <2>. QED  BY <2>1, <2>2
<1>5. Places'  BY <1>0, <1>1, <1>4 DEF Places, IsLocation, Location
<1>6. RefsAgree'
  <2>1. parseFilterQuery(lastUrl') = filters /\ lastStore' = text
    <3>1. CASE Adopts(Router) /\ goal # filters  BY <1>4, <3>1
    <3>2. CASE ~(Adopts(Router) /\ goal # filters)
      <4>1. lastUrl' = url /\ lastStore' = text  BY <1>4, <3>2
      <4>2. parseFilterQuery(url) = filters  BY <1>3, <3>2
      <4>. QED  BY <4>1, <4>2
    <3>. QED  BY <3>1, <3>2
  <2>2. ~pending' => queued' = filters  BY <1>1, <1>3
  <2>. QED  BY <1>1, <2>1, <2>2 DEF RefsAgree
(* What the effects leave: both texts disagree and the filters wait, or    *)
(* one more rendering settles the page.                                    *)
<1>7. TwoLeft' \/ OneLeft' \/ Settled'
  <2>1. CASE Adopts(Router) /\ goal # filters
    <3>1. /\ pending' /\ queued' = goal /\ Router'.path = page'.path /\ Router'.param = lastUrl'
          /\ Router'.from = page'.from /\ lastUrl' = text /\ lastStore' = text
      BY <1>1, <1>2, <1>4, <2>1
    <3>2. stringifyFilters(queued') \notin {lastUrl', lastStore'}  BY <3>1, <2>1
    <3>3. TwoLeft'  BY <3>1, <3>2 DEF TwoLeft, Written
    <3>. QED  BY <3>3
  <2>2. CASE ~(Adopts(Router) /\ goal # filters) /\ moved
    <3>1. pending' /\ queued' = goal /\ Router' = Router /\ page' = Router /\ lastUrl' = url /\ lastStore' = text
      BY <1>1, <1>4, <2>2
    <3>2. CASE Adopts(Router)
      <4>1. stringifyFilters(queued') = lastStore'  BY <3>1, <3>2, <2>2
      <4>2. OneLeft'  BY <3>1, <4>1 DEF OneLeft
      <4>. QED  BY <4>2
    <3>3. CASE ~Adopts(Router)
      <4>1. Router.param = NoParam  BY <2>2, <3>3 DEF Clears
      <4>2. stringifyFilters(queued') = page'.param  BY <3>1, <4>1 DEF NoParam
      <4>3. OneLeft'  BY <3>1, <4>2 DEF OneLeft
      <4>. QED  BY <4>3
    <3>. QED  BY <3>2, <3>3
  <2>3. CASE ~moved
    <3>1. ~pending' /\ page' = Router /\ Router' = Router  BY <1>1, <1>4, <2>3
    <3>. QED  BY <3>1 DEF Settled
  <2>. QED  BY <2>1, <2>2, <2>3
<1>8. OneLeft => Settled'
  <2>. SUFFICES ASSUME OneLeft  PROVE Settled'  OBVIOUS
  <2>1. Router.path = page.path /\ Router.param = lastUrl /\ lastUrl = text  BY <1>1 DEF OneLeft, Written
  <2>2. ~moved  BY <2>1 DEF Clears, Adopts
  <2>. QED  BY <1>1, <1>4, <2>2 DEF Settled
<1>9. Rank'
  <2>1. ~Settled /\ ~TwoLeft  BY <1>1 DEF Settled, TwoLeft
  <2>2. renders \in 0..4 /\ (renders >= 2 => OneLeft) /\ (renders >= 4 => FALSE)
    BY <2>1 DEF BrowseInv, Rank
  <2>3. renders' \in 0..4 /\ (renders' >= 3 => Settled')  BY <1>1, <1>8, <2>2
  <2>4. Settled' => ~pending'  BY DEF Settled
  <2>. QED  BY <1>7, <2>3, <2>4 DEF Rank
<1>10. Phases'
  <2>. SUFFICES ASSUME ~hasty  PROVE Changing' \/ Writing' \/ Moving' \/ Arriving'
    BY <1>1 DEF Phases
  <2>1. Writing \/ Moving  BY <1>1 DEF BrowseInv, Phases, Changing, Arriving
  <2>2. CASE Writing
    <3>1. filters = intent /\ Router.path = page.path /\ Router.param = lastUrl /\ lastUrl = text
      BY <2>2 DEF Writing, Written
    <3>2. ~moved  BY <3>1 DEF Clears, Adopts
    <3>3. ~pending' /\ page' = Router /\ Router' = Router /\ filters' = filters /\ intent' = intent  BY <1>1, <1>4, <3>2
    <3>4. Moving'  BY <3>1, <3>3 DEF Moving
    <3>. QED  BY <3>4
  <2>3. CASE Moving
    <3>1. parseFilterQuery(page.param) = filters /\ goal = intent  BY <2>3 DEF Moving
    <3>2. CASE Adopts(Router) /\ goal # filters
      <4>1. /\ pending' /\ queued' = goal /\ page' = Router /\ filters' = filters /\ intent' = intent
            /\ lastUrl' = text /\ Router' = there
        BY <1>1, <1>4, <3>2
      <4>2. Arriving'  BY <1>2, <3>1, <3>2, <4>1 DEF Arriving, Written
      <4>. QED  BY <4>2
    <3>3. CASE ~(Adopts(Router) /\ goal # filters)
      <4>1. goal = filters
        <5>1. ~Adopts(Router) => goal = filters  BY <1>3, <3>1 DEF Adopts
        <5>. QED  BY <5>1, <3>3
      <4>2. /\ pending' = moved /\ queued' = goal /\ page' = Router /\ filters' = filters /\ intent' = intent
            /\ Router' = Router
        BY <1>1, <1>3, <1>4, <3>3, <4>1
      <4>3. CASE moved
        <5>1. Changing'  BY <3>1, <4>1, <4>2, <4>3 DEF Changing
        <5>. QED  BY <5>1
      <4>4. CASE ~moved
        <5>1. Moving'  BY <3>1, <4>1, <4>2, <4>4 DEF Moving
        <5>. QED  BY <5>1
      <4>. QED  BY <4>3, <4>4
    <3>. QED  BY <3>2, <3>3
  <2>. QED  BY <2>1, <2>2, <2>3
<1>. QED  BY <1>5, <1>6, <1>9, <1>10 DEF BrowseInv

(* A handler that changes the filters of a page.                           *)
LEMMA UpdateKeeps ==
  ASSUME BrowseInv, NEW changed, NEW wanted, Update(changed, wanted),
         queued = filters => changed = wanted
  PROVE  BrowseInv'
<1>1. /\ queued' = changed /\ pending' = TRUE /\ renders' = 0 /\ intent' = wanted /\ hasty' = ~InStep
      /\ page' = page /\ entries' = entries /\ filters' = filters /\ lastUrl' = lastUrl /\ lastStore' = lastStore
  BY DEF Update, Click
<1>2. Router' = Router  BY <1>1 DEF Router
<1>3. Places'
  <2>1. PICK places : HistoryType(places)  BY DEF BrowseInv, Places
  <2>2. HistoryType(places)'  BY <1>1, <2>1 DEF HistoryType, IsLocation, Location
  <2>. QED  BY <1>1, <2>2 DEF BrowseInv, Places, IsLocation, Location
<1>4. RefsAgree'  BY <1>1 DEF BrowseInv, RefsAgree
<1>5. Rank'  BY <1>1, RankOfClick
<1>6. Phases'
  <2>. SUFFICES ASSUME InStep  PROVE Changing'  BY <1>1 DEF Phases
  <2>1. queued = filters  BY DEF InStep, Settled, BrowseInv, RefsAgree
  <2>. QED  BY <1>1, <1>2, <2>1 DEF InStep, Settled, Changing
<1>. QED  BY <1>3, <1>4, <1>5, <1>6 DEF BrowseInv

(* A navigation, or a step back: only the router moves.                    *)
LEMMA MoveKeeps ==
  ASSUME BrowseInv, NEW location, Router' = location, Click(parseFilterQuery(location.param)),
         UNCHANGED <<page, filters, queued, pending, lastUrl, lastStore>>,
         \E places : HistoryType(places)'
  PROVE  BrowseInv'
<1>1. /\ renders' = 0 /\ intent' = parseFilterQuery(location.param) /\ hasty' = ~InStep
      /\ page' = page /\ filters' = filters /\ queued' = queued /\ pending' = pending
      /\ lastUrl' = lastUrl /\ lastStore' = lastStore
  BY DEF Click
<1>2. Places'  BY <1>1 DEF BrowseInv, Places, IsLocation, Location
<1>3. RefsAgree'  BY <1>1 DEF BrowseInv, RefsAgree
<1>4. Rank'  BY <1>1, RankOfClick
<1>5. Phases'
  <2>. SUFFICES ASSUME InStep  PROVE Moving'  BY <1>1 DEF Phases
  <2>. QED  BY <1>1 DEF InStep, Settled, Moving
<1>. QED  BY <1>2, <1>3, <1>4, <1>5 DEF BrowseInv

LEMMA NavigateKeeps ==
  ASSUME BrowseInv, NEW location, IsLocation(location), Navigate(location)
  PROVE  BrowseInv'
<1>1. PICK places : HistoryType(places)  BY DEF BrowseInv, Places
<1>2. entries' = Append(entries, location)  BY DEF Navigate
<1>3. /\ Append(entries, location) \in Seq(places \cup {location}) /\ Len(Append(entries, location)) > 0
      /\ Last(Append(entries, location)) = location
      /\ \A k \in places \cup {location} : IsLocation(k)
  <2>1. entries \in Seq(places) /\ Len(entries) > 0 /\ \A l \in places : IsLocation(l)  BY <1>1 DEF HistoryType
  <2>. QED  BY <2>1, HistoryPush
<1>4. Router' = location  BY <1>2, <1>3 DEF Router
<1>5. PICK longer : longer = places \cup {location}  OBVIOUS
<1>6. HistoryType(longer)'  BY <1>2, <1>3, <1>5 DEF HistoryType, IsLocation, Location
<1>. QED  BY <1>4, <1>6, MoveKeeps DEF Navigate

(* The browser's back button.                                              *)
LEMMA GoBackKeeps ==
  ASSUME BrowseInv, GoBack
  PROVE  BrowseInv'
<1>1. PICK places : HistoryType(places)  BY DEF BrowseInv, Places
<1>2. entries' = Front(entries) /\ Len(entries) > 1  BY DEF GoBack
<1>3. PICK location : location = entries[Len(entries) - 1]  OBVIOUS
<1>4. Front(entries) \in Seq(places) /\ Len(Front(entries)) > 0 /\ Last(Front(entries)) = location
  <2>1. entries \in Seq(places) /\ Len(entries) > 0 /\ \A l \in places : IsLocation(l)  BY <1>1 DEF HistoryType
  <2>. QED  BY <2>1, <1>2, <1>3, HistoryStep
<1>5. Router' = location  BY <1>2, <1>4 DEF Router
<1>6. HistoryType(places)'  BY <1>1, <1>2, <1>4 DEF HistoryType, IsLocation, Location
<1>. QED  BY <1>3, <1>5, <1>6, MoveKeeps DEF GoBack

(* An address is typed or reloaded.                                        *)
LEMMA OpenAddressKeeps ==
  ASSUME BrowseInv, NEW location, IsLocation(location), OpenAddress(location)
  PROVE  BrowseInv'
<1>. DEFINE goal == parseFilterQuery(location.param)
<1>1. /\ entries' = Append(entries, location) /\ page' = location /\ filters' = goal /\ queued' = goal
      /\ pending' \in BOOLEAN /\ lastUrl' = location.param /\ lastStore' = stringifyFilters(goal)
      /\ renders' = 0 /\ intent' = goal
  BY DEF OpenAddress, Click
<1>2. PICK places : HistoryType(places)  BY DEF BrowseInv, Places
<1>3. /\ Append(entries, location) \in Seq(places \cup {location}) /\ Len(Append(entries, location)) > 0
      /\ Last(Append(entries, location)) = location
      /\ \A k \in places \cup {location} : IsLocation(k)
  <2>1. entries \in Seq(places) /\ Len(entries) > 0 /\ \A l \in places : IsLocation(l)  BY <1>2 DEF HistoryType
  <2>. QED  BY <2>1, HistoryStep
<1>4. Router' = location  BY <1>1, <1>3 DEF Router
<1>5. Places'
  <2>1. PICK longer : longer = places \cup {location}  OBVIOUS
  <2>2. HistoryType(longer)'  BY <1>1, <1>3, <2>1 DEF HistoryType, IsLocation, Location
  <2>. QED  BY <1>1, <2>2 DEF Places, IsLocation, Location
<1>6. RefsAgree'  BY <1>1, TextsDiffer DEF RefsAgree
<1>7. Rank'  BY <1>1, RankOfClick
<1>8. Phases'
  <2>1. CASE pending'  BY <1>1, <1>4, <2>1 DEF Phases, Changing
  <2>2. CASE ~pending'  BY <1>1, <1>4, <2>2 DEF Phases, Moving
  <2>. QED  BY <2>1, <2>2
<1>. QED  BY <1>5, <1>6, <1>7, <1>8 DEF BrowseInv

(* The filters with which the application may be opened.                   *)
LEMMA BrowseInitOk == BrowseInit => BrowseInv
<1>. SUFFICES ASSUME BrowseInit  PROVE BrowseInv  OBVIOUS
<1>. USE TextsDiffer
<1>1. PICK param \in TypedParams :
        /\ page = Location("home", param, NoFrom) /\ entries = <<page>>
        /\ filters = parseFilterQuery(param) /\ queued = filters /\ pending = (param # NoParam)
        /\ lastUrl = param /\ lastStore = stringifyFilters(filters) /\ renders = 0 /\ intent = filters
  BY DEF BrowseInit
<1>2. IsLocation(page) /\ page.param = param  BY <1>1, LocationIs
<1>3. Router = page  BY <1>1 DEF Router, Last
<1>4. Places
  <2>1. entries \in Seq({page}) /\ Len(entries) > 0  BY <1>1
  <2>2. HistoryType({page})  BY <2>1, <1>2 DEF HistoryType
  <2>. QED  BY <1>2, <2>2 DEF Places
<1>5. RefsAgree  BY <1>1 DEF RefsAgree
<1>6. Rank  BY <1>1 DEF Rank
<1>7. Phases
  <2>1. CASE pending  BY <1>1, <1>2, <1>3, <2>1 DEF Phases, Changing
  <2>2. CASE ~pending  BY <1>1, <1>2, <1>3, <2>2 DEF Phases, Moving
  <2>. QED  BY <1>1, <2>1, <2>2
<1>. QED  BY <1>4, <1>5, <1>6, <1>7 DEF BrowseInv

(* Every step keeps the invariant.  The handlers that change the filters   *)
(* compute what is queued and what was asked for in the same way.          *)
LEMMA BrowseStep == BrowseInv /\ [BrowseNext]_browseVars => BrowseInv'
<1>. SUFFICES ASSUME BrowseInv, [BrowseNext]_browseVars  PROVE BrowseInv'  OBVIOUS
<1>1. CASE RenderFilters  BY <1>1, RenderFiltersKeeps
<1>2. CASE RenderRoute  BY <1>2, RenderRouteKeeps
<1>3. ASSUME NEW t \in FilterTags, TagClicked(t)  PROVE BrowseInv'
  <2>. DEFINE f == Filter("tagSearch", t)
              toggle(fs) == IF TagActive(t) THEN removeFilter(fs, f) ELSE addFilter(fs, f)
  <2>1. Update(toggle(queued), toggle(filters))  BY <1>3 DEF TagClicked
  <2>. HIDE DEF toggle
  <2>. QED  BY <2>1, UpdateKeeps
<1>4. ASSUME NEW t \in FilterTags, TagFollowed(t)  PROVE BrowseInv'
  <2>1. \E path, says : Navigate(Location(path, stringifyFilters(says), NoFrom))  BY <1>4 DEF TagFollowed
  <2>. QED  BY <2>1, NavigateKeeps, LocationIs
<1>5. ASSUME NEW words, SearchEntered(words)  PROVE BrowseInv'
  <2>. DEFINE add(fs) == FoldLeft(LAMBDA acc, w : addFilter(acc, Filter("contentSearch", w)), fs, words)
  <2>1. Update(add(queued), add(filters))  BY <1>5 DEF SearchEntered
  <2>. HIDE DEF add
  <2>. QED  BY <2>1, UpdateKeeps
<1>6. ASSUME NEW f, ChipRemoved(f)  PROVE BrowseInv'
  <2>1. Update(removeFilter(queued, f), removeFilter(filters, f))  BY <1>6 DEF ChipRemoved
  <2>. QED  BY <2>1, UpdateKeeps
<1>7. ASSUME NEW s \in Shortcuts, ShortcutClicked(s)  PROVE BrowseInv'
  <2>1. CASE shortcut = s
    <3>1. Click(filters) /\ UNCHANGED <<page, entries, filters, queued, pending, lastUrl, lastStore>>
      BY <1>7, <2>1 DEF ShortcutClicked
    <3>2. /\ Router' = Router /\ renders' = 0 /\ intent' = filters /\ hasty' = ~InStep
          /\ page' = page /\ filters' = filters /\ queued' = queued /\ pending' = pending
          /\ lastUrl' = lastUrl /\ lastStore' = lastStore
      BY <3>1 DEF Router, Click
    <3>3. Places'
      <4>1. PICK places : HistoryType(places)  BY DEF BrowseInv, Places
      <4>2. HistoryType(places)'  BY <3>1, <4>1 DEF HistoryType, IsLocation, Location
      <4>. QED  BY <3>2, <4>2 DEF BrowseInv, Places, IsLocation, Location
    <3>4. RefsAgree'  BY <3>2 DEF BrowseInv, RefsAgree
    <3>5. Rank'  BY <3>2, RankOfClick
    <3>6. Phases'
      <4>. SUFFICES ASSUME InStep  PROVE Moving'  BY <3>2 DEF Phases
      <4>. QED  BY <3>2 DEF InStep, Settled, Moving
    <3>. QED  BY <3>3, <3>4, <3>5, <3>6 DEF BrowseInv
  <2>2. CASE shortcut # s
    <3>. DEFINE others(fs) == SelectSeq(fs, LAMBDA f : f.factor # "contentSearch")
    <3>1. Update(others(queued), others(filters))  BY <1>7, <2>2 DEF ShortcutClicked
    <3>. HIDE DEF others
    <3>. QED  BY <3>1, UpdateKeeps
  <2>. QED  BY <2>1, <2>2
<1>8. ASSUME NEW d \in Days, DayClicked(d)  PROVE BrowseInv'
  BY <1>8, NavigateKeeps, LocationIs DEF DayClicked
<1>9. ASSUME NEW path, LinkClicked(path)  PROVE BrowseInv'
  BY <1>9, NavigateKeeps, LocationIs DEF LinkClicked
<1>10. CASE MemoOpened
  BY <1>10, NavigateKeeps, LocationIs DEF MemoOpened
<1>11. CASE GoBack  BY <1>11, GoBackKeeps
<1>12. ASSUME NEW param, OpenAddress(Location("home", param, NoFrom))  PROVE BrowseInv'
  <2>1. PICK location : location = Location("home", param, NoFrom)  OBVIOUS
  <2>. QED  BY <1>12, <2>1, OpenAddressKeeps, LocationIs
<1>13. CASE UNCHANGED browseVars
  <2>1. /\ Router' = Router /\ renders' = renders /\ intent' = intent /\ hasty' = hasty
        /\ page' = page /\ filters' = filters /\ queued' = queued /\ pending' = pending
        /\ lastUrl' = lastUrl /\ lastStore' = lastStore /\ entries' = entries
    BY <1>13 DEF browseVars, Router
  <2>2. Places'
    <3>1. PICK places : HistoryType(places)  BY DEF BrowseInv, Places
    <3>2. HistoryType(places)'  BY <2>1, <3>1 DEF HistoryType, IsLocation, Location
    <3>. QED  BY <2>1, <3>2 DEF BrowseInv, Places, IsLocation, Location
  <2>3. RefsAgree'  BY <2>1 DEF BrowseInv, RefsAgree
  <2>4. Rank'  BY <2>1 DEF BrowseInv, Rank, OneLeft, TwoLeft, Settled, Written
  <2>5. Phases'  BY <2>1 DEF BrowseInv, Phases, Changing, Writing, Moving, Arriving, Written
  <2>. QED  BY <2>2, <2>3, <2>4, <2>5 DEF BrowseInv
<1>. QED
  BY <1>1, <1>2, <1>3, <1>4, <1>5, <1>6, <1>7, <1>8, <1>9, <1>10, <1>11, <1>12, <1>13 DEF BrowseNext

(* After a click the page settles within four renderings; then the address *)
(* says what the filters are, and, unless the click came before the one    *)
(* before it was through, they are the filters it asked for                *)
(* (MemoFilterContext.tsx, RootLayout.tsx).                                *)
THEOREM FiltersFollowTheClicks == BrowseSpec => []FiltersFollowClicks
<1>1. BrowseInv => FiltersFollowClicks
  <2>. SUFFICES ASSUME BrowseInv  PROVE FiltersFollowClicks  OBVIOUS
  <2>1. renders <= 4  BY DEF BrowseInv, Rank
  <2>2. ASSUME Settled, ~hasty  PROVE InStep /\ filters = intent
    <3>1. Writing \/ Moving  BY <2>2 DEF BrowseInv, Phases, Settled, Changing, Arriving
    <3>2. CASE Writing
      BY <2>2, <3>2, TextsDiffer DEF Settled, Writing, Written, InStep
    <3>3. CASE Moving
      BY <2>2, <3>3 DEF Settled, Moving, InStep
    <3>. QED  BY <3>1, <3>2, <3>3
  <2>. QED  BY <2>1, <2>2 DEF FiltersFollowClicks
<1>. QED  BY <1>1, BrowseInitOk, BrowseStep, PTL DEF BrowseSpec

----------------------------------------------------------------------------
(* The filter engine.                                                      *)

Truths == {"T", "F", "N"}
FragmentType == [means : SUBSET Ids, sql : [Ids -> Truths], holes : Seq(Nat), trivial : BOOLEAN, unsat : BOOLEAN]
WhereType == [sql : [Ids -> Truths], means : SUBSET Ids, holes : Seq(Nat), args : Nat]

FilterType ==
  /\ stack \in Seq(FragmentType)
  /\ args \in Nat
  /\ where \in WhereType
  /\ loose \in BOOLEAN /\ dropped \in BOOLEAN

(* A constant has no placeholders and answers the same for every row.      *)
ConstantSays(c) ==
  /\ c.trivial => c.holes = <<>> /\ \A r \in Ids : c.sql[r] = "T"
  /\ c.unsat => c.holes = <<>> /\ \A r \in Ids : c.sql[r] = "F"

FilterInv ==
  /\ FilterType
  /\ SelectsByMeaning
  /\ \A i \in DOMAIN stack : ConstantSays(stack[i])
  /\ ArgumentsInOrder

(* n numbers after a.                                                      *)
Block(a, n) == [i \in 1..n |-> a + i]

LEMMA BlockFacts ==
  ASSUME NEW a \in Nat, NEW n \in Nat
  PROVE  /\ Block(a, n) \in Seq(Nat) /\ Len(Block(a, n)) = n
         /\ \A i \in 1..n : Block(a, n)[i] = a + i
<1>1. \A i \in 1..n : a + i \in Nat  OBVIOUS
<1>2. Block(a, n) \in [1..n -> Nat]  BY <1>1 DEF Block
<1>3. Block(a, n) \in Seq(Nat)  BY <1>2
<1>4. Len(Block(a, n)) = n  BY <1>2, <1>3
<1>. QED  BY <1>3, <1>4 DEF Block

LEMMA NoBlock == \A a : Block(a, 0) = <<>>
<1>. SUFFICES ASSUME NEW a  PROVE Block(a, 0) = <<>>  OBVIOUS
<1>1. 1..0 = {}  OBVIOUS
<1>. QED  BY <1>1 DEF Block

LEMMA BlocksJoin ==
  ASSUME NEW a \in Nat, NEW n \in Nat, NEW m \in Nat
  PROVE  Block(a, n) \o Block(a + n, m) = Block(a, n + m)
<1>1. /\ Block(a, n) \in Seq(Nat) /\ Len(Block(a, n)) = n
      /\ \A i \in 1..n : Block(a, n)[i] = a + i
  BY BlockFacts
<1>2. /\ Block(a + n, m) \in Seq(Nat) /\ Len(Block(a + n, m)) = m
      /\ \A i \in 1..m : Block(a + n, m)[i] = a + n + i
  BY a + n \in Nat, BlockFacts
<1>3. /\ Block(a, n + m) \in Seq(Nat) /\ Len(Block(a, n + m)) = n + m
      /\ \A i \in 1..(n + m) : Block(a, n + m)[i] = a + i
  BY n + m \in Nat, BlockFacts
<1>4. PICK s, t, u : s = Block(a, n) /\ t = Block(a + n, m) /\ u = Block(a, n + m)  OBVIOUS
<1>5. /\ s \in Seq(Nat) /\ Len(s) = n /\ \A i \in 1..n : s[i] = a + i
      /\ t \in Seq(Nat) /\ Len(t) = m /\ \A i \in 1..m : t[i] = a + n + i
      /\ u \in Seq(Nat) /\ Len(u) = n + m /\ \A i \in 1..(n + m) : u[i] = a + i
  BY <1>1, <1>2, <1>3, <1>4
<1>6. /\ s \o t \in Seq(Nat) /\ Len(s \o t) = n + m
      /\ \A i \in 1..(n + m) : (s \o t)[i] = IF i <= n THEN s[i] ELSE t[i - n]
  <2>1. s \in Seq(Nat) /\ t \in Seq(Nat) /\ Len(s) = n /\ Len(t) = m  BY <1>5
  <2>. QED  BY <2>1, ConcatProperties
<1>7. ASSUME NEW i \in 1..(n + m)  PROVE (s \o t)[i] = u[i]
  <2>0. (s \o t)[i] = IF i <= n THEN s[i] ELSE t[i - n]  BY <1>6
  <2>1. CASE i <= n
    <3>1. i \in 1..n  BY <2>1
    <3>2. s[i] = u[i]  BY <1>5, <3>1
    <3>. QED  BY <2>0, <2>1, <3>2
  <2>2. CASE ~(i <= n)
    <3>1. i - n \in 1..m  BY <2>2
    <3>2. t[i - n] = a + n + (i - n)  BY <3>1, <1>5
    <3>3. t[i - n] = u[i]  BY <1>5, <3>2
    <3>. QED  BY <2>0, <2>2, <3>3
  <2>. QED  BY <2>1, <2>2
<1>8. s \o t = u
  <2>1. u \in Seq(Nat) /\ Len(u) = n + m  BY <1>5
  <2>2. s \o t \in Seq(Nat) /\ Len(s \o t) = n + m  BY <1>6
  <2>. QED  BY <2>1, <2>2, <1>7, SeqEqual
<1>. QED  BY <1>4, <1>8

(* Placeholders are counted after the ones before them.                    *)
LEMMA HolesAre ==
  ASSUME FilterType, NEW n \in Nat
  PROVE  Holes(n) = Block(where.args + args, n) /\ where.args \in Nat
BY DEF Holes, Block, FilterType, WhereType

(* The clause's arguments and the fragments' in terms of blocks.           *)
LEMMA InOrderIs ==
  ASSUME FilterType
  PROVE  ArgumentsInOrder <=> (~dropped => where.holes = Block(0, where.args) /\ Fragments = Block(where.args, args))
<1>1. where.args \in Nat /\ args \in Nat  BY DEF FilterType, WhereType
<1>2. Holes(0) = <<>>  BY HolesAre, NoBlock
<1>3. [i \in 1..where.args |-> i] = Block(0, where.args)
  <2>1. \A i \in 1..where.args : i = 0 + i  BY <1>1
  <2>. QED  BY <2>1 DEF Block
<1>4. Block(where.args, args) \in Seq(Nat)  BY <1>1, BlockFacts
<1>5. Holes(0) \o [i \in 1..args |-> where.args + i] = Block(where.args, args)
  <2>1. [i \in 1..args |-> where.args + i] = Block(where.args, args)  BY DEF Block
  <2>2. PICK s : s = Block(where.args, args)  OBVIOUS
  <2>3. <<>> \o s = s  BY <1>4, <2>2, ConcatEmptySeq
  <2>. QED  BY <1>2, <2>1, <2>2, <2>3
<1>. QED  BY <1>3, <1>5 DEF ArgumentsInOrder

(* The placeholders of a stack of fragments.                               *)
HolesOf(s) == [i \in DOMAIN s |-> s[i].holes]

LEMMA HolesOfType ==
  ASSUME NEW s \in Seq(FragmentType)
  PROVE  HolesOf(s) \in Seq(Seq(Nat)) /\ Len(HolesOf(s)) = Len(s)
<1>1. \A c \in FragmentType : c.holes \in Seq(Nat)  BY DEF FragmentType
<1>2. DOMAIN s = 1..Len(s) /\ Len(s) \in Nat /\ \A i \in 1..Len(s) : s[i] \in FragmentType
  BY LenProperties, ElementOfSeq
<1>3. HolesOf(s) \in [1..Len(s) -> Seq(Nat)]  BY <1>1, <1>2 DEF HolesOf
<1>4. HolesOf(s) \in Seq(Seq(Nat))  BY <1>2, <1>3
<1>5. DOMAIN HolesOf(s) = 1..Len(HolesOf(s)) /\ Len(HolesOf(s)) \in Nat  BY <1>4, LenProperties
<1>. QED  BY <1>2, <1>3, <1>4, <1>5

LEMMA HolesOfAppend ==
  ASSUME NEW s \in Seq(FragmentType), NEW c \in FragmentType
  PROVE  FlattenSeq(HolesOf(Append(s, c))) = FlattenSeq(HolesOf(s)) \o c.holes
<1>1. PICK h : h = HolesOf(s)  OBVIOUS
<1>2. h \in Seq(Seq(Nat)) /\ Len(h) = Len(s) /\ \A i \in 1..Len(s) : h[i] = s[i].holes
  <2>1. DOMAIN s = 1..Len(s)  BY LenProperties
  <2>2. \A i \in 1..Len(s) : h[i] = s[i].holes  BY <1>1, <2>1 DEF HolesOf
  <2>. QED  BY <1>1, <2>2, HolesOfType
<1>3. PICK l : l = Append(s, c)  OBVIOUS
<1>4. l \in Seq(FragmentType) /\ Len(l) = Len(s) + 1 /\ l[Len(s) + 1] = c /\ \A i \in 1..Len(s) : l[i] = s[i]
  <2>1. \A i \in 1..Len(s) : Append(s, c)[i] = s[i]  BY AppendProperties
  <2>. QED  BY <1>3, <2>1, AppendProperties
<1>5. PICK k : k = HolesOf(l)  OBVIOUS
<1>6. k \in Seq(Seq(Nat)) /\ Len(k) = Len(s) + 1 /\ \A i \in 1..(Len(s) + 1) : k[i] = l[i].holes
  <2>1. DOMAIN l = 1..(Len(s) + 1)  BY <1>4, LenProperties
  <2>2. \A i \in 1..(Len(s) + 1) : k[i] = l[i].holes  BY <1>5, <2>1 DEF HolesOf
  <2>3. l \in Seq(FragmentType) /\ Len(l) = Len(s) + 1  BY <1>4
  <2>. QED  BY <1>5, <2>2, <2>3, HolesOfType
<1>7. c.holes \in Seq(Nat)  BY DEF FragmentType
<1>8. Append(h, c.holes) \in Seq(Seq(Nat)) /\ Len(Append(h, c.holes)) = Len(s) + 1  BY <1>2, <1>7
<1>9. ASSUME NEW i \in 1..(Len(s) + 1)  PROVE k[i] = Append(h, c.holes)[i]
  <2>0. Len(s) \in Nat  BY LenProperties
  <2>1. h \in Seq(Seq(Nat)) /\ Len(h) = Len(s)  BY <1>2
  <2>2. \A j \in 1..Len(s) : Append(h, c.holes)[j] = h[j]  BY <2>1, <1>7, AppendProperties
  <2>3. Append(h, c.holes)[Len(s) + 1] = c.holes  BY <2>1, <1>7, AppendProperties
  <2>4. k[i] = l[i].holes  BY <1>6
  <2>5. CASE i \in 1..Len(s)
    <3>1. l[i] = s[i] /\ h[i] = s[i].holes  BY <1>2, <1>4, <2>5
    <3>. QED  BY <2>2, <2>4, <2>5, <3>1
  <2>6. CASE i = Len(s) + 1  BY <1>4, <2>3, <2>4, <2>6
  <2>7. i \in 1..Len(s) \/ i = Len(s) + 1  BY <2>0
  <2>. QED  BY <2>5, <2>6, <2>7
<1>10. k = Append(h, c.holes)
  <2>1. k \in Seq(Seq(Nat)) /\ Len(k) = Len(s) + 1  BY <1>6
  <2>. QED  BY <2>1, <1>8, <1>9, SeqEqual
<1>11. FlattenSeq(Append(h, c.holes)) = FlattenSeq(h) \o c.holes  BY <1>2, <1>7, FlattenAppend
<1>. QED  BY <1>1, <1>3, <1>5, <1>10, <1>11

(* What the answers of SQL's connectives say.                              *)
LEMMA SqlFacts ==
  /\ \A b \in BOOLEAN : SqlOf(b) \in Truths /\ (SqlOf(b) = "T" => b) /\ (SqlOf(b) = "F" => ~b) /\ SqlOf(b) # "N"
  /\ \A x \in Truths : SqlNot(x) \in Truths /\ (SqlNot(x) = "T" <=> x = "F") /\ (SqlNot(x) = "F" <=> x = "T")
  /\ \A x, y \in Truths :
       /\ SqlAnd(x, y) \in Truths /\ SqlOr(x, y) \in Truths
       /\ SqlAnd(x, y) = "T" <=> (x = "T" /\ y = "T")
       /\ SqlAnd(x, y) = "F" <=> (x = "F" \/ y = "F")
       /\ SqlOr(x, y) = "T" <=> (x = "T" \/ y = "T")
       /\ SqlOr(x, y) = "F" <=> (x = "F" /\ y = "F")
       /\ SqlAnd(x, y) = "N" => (x = "N" \/ y = "N")
       /\ SqlOr(x, y) = "N" => (x = "N" \/ y = "N")
<1>1. \A b \in BOOLEAN : SqlOf(b) \in Truths /\ (SqlOf(b) = "T" => b) /\ (SqlOf(b) = "F" => ~b) /\ SqlOf(b) # "N"
  BY DEF SqlOf, Truths
<1>2. \A x \in Truths : SqlNot(x) \in Truths /\ (SqlNot(x) = "T" <=> x = "F") /\ (SqlNot(x) = "F" <=> x = "T")
  BY DEF SqlNot, Truths
<1>3. ASSUME NEW x \in Truths, NEW y \in Truths
      PROVE  /\ SqlAnd(x, y) \in Truths /\ SqlOr(x, y) \in Truths
             /\ SqlAnd(x, y) = "T" <=> (x = "T" /\ y = "T")
             /\ SqlAnd(x, y) = "F" <=> (x = "F" \/ y = "F")
             /\ SqlOr(x, y) = "T" <=> (x = "T" \/ y = "T")
             /\ SqlOr(x, y) = "F" <=> (x = "F" /\ y = "F")
             /\ SqlAnd(x, y) = "N" => (x = "N" \/ y = "N")
             /\ SqlOr(x, y) = "N" => (x = "N" \/ y = "N")
  <2>1. /\ SqlAnd(x, y) = IF x = "F" \/ y = "F" THEN "F" ELSE IF x = "N" \/ y = "N" THEN "N" ELSE "T"
        /\ SqlOr(x, y) = IF x = "T" \/ y = "T" THEN "T" ELSE IF x = "N" \/ y = "N" THEN "N" ELSE "F"
    BY DEF SqlAnd, SqlOr
  <2>2. x \in {"T", "F", "N"} /\ y \in {"T", "F", "N"}  BY DEF Truths
  <2>. QED  BY <2>1, <2>2 DEF Truths
<1>. QED  BY <1>1, <1>2, <1>3

(* What a step does to a stack whose top is replaced: all the lists are    *)
(* those of before, and the new fragment.                                  *)
LEMMA NewTop ==
  ASSUME FilterInv, NEW rest \in Seq(FragmentType), NEW c \in FragmentType,
         \A i \in 1..Len(rest) : \E j \in DOMAIN stack : rest[i] = stack[j],
         stack' = Append(rest, c), args' \in Nat, where' = where, dropped' \in BOOLEAN, loose' \in BOOLEAN, loose => loose',
         \A r \in Ids : /\ c.sql[r] = "T" => r \in c.means
                        /\ c.sql[r] = "F" => r \notin c.means
                        /\ c.sql[r] = "N" => loose',
         ConstantSays(c),
         ~dropped' => ~dropped /\ FlattenSeq(HolesOf(rest)) \o c.holes = Block(where.args, args')
  PROVE  FilterInv'
<1>1. stack' \in Seq(FragmentType) /\ Len(stack') = Len(rest) + 1 /\ Len(rest) \in Nat
  BY AppendProperties, LenProperties
<1>2. FilterType'  BY <1>1 DEF FilterInv, FilterType
<1>3. Agrees(where)'
  <2>1. Agrees(where)  BY DEF FilterInv, SelectsByMeaning
  <2>. QED  BY <2>1 DEF Agrees
<1>4. ASSUME NEW i \in DOMAIN stack'  PROVE Agrees(stack[i])' /\ ConstantSays(stack[i])'
  <2>0. i \in 1..Len(rest) \/ i = Len(rest) + 1
    <3>1. DOMAIN stack' = 1..(Len(rest) + 1)  BY <1>1, LenProperties
    <3>. QED  BY <1>1, <3>1
  <2>1. CASE i \in 1..Len(rest)
    <3>1. stack'[i] = rest[i]  BY <2>1, AppendProperties
    <3>2. PICK j \in DOMAIN stack : rest[i] = stack[j]  BY <2>1
    <3>3. Agrees(stack[j]) /\ ConstantSays(stack[j])  BY DEF FilterInv, SelectsByMeaning
    <3>4. stack'[i] = stack[j]  BY <3>1, <3>2
    <3>. QED  BY <3>3, <3>4 DEF Agrees, ConstantSays
  <2>2. CASE i = Len(rest) + 1
    <3>1. stack'[i] = c  BY <2>2, AppendProperties
    <3>. QED  BY <3>1 DEF Agrees, ConstantSays
  <2>. QED  BY <2>0, <2>1, <2>2
<1>5. ArgumentsInOrder'
  <2>. SUFFICES ASSUME ~dropped'  PROVE (where.holes = Block(0, where.args) /\ Fragments = Block(where.args, args))'
    <3>1. FilterType' => (ArgumentsInOrder' <=> (~dropped' => (where.holes = Block(0, where.args) /\ Fragments = Block(where.args, args))'))
      BY InOrderIs, PTL
    <3>. QED  BY <1>2, <3>1
  <2>1. where.holes = Block(0, where.args)  BY InOrderIs DEF FilterInv
  <2>2. FlattenSeq(HolesOf(stack')) = FlattenSeq(HolesOf(rest)) \o c.holes  BY HolesOfAppend
  <2>3. Fragments' = FlattenSeq(HolesOf(stack'))  BY DEF Fragments, HolesOf
  <2>. QED  BY <2>1, <2>2, <2>3 DEF Block
<1>. QED  BY <1>2, <1>3, <1>4, <1>5 DEF FilterInv, SelectsByMeaning

(* A leaf: its placeholders are the next ones.                             *)
LEMMA PushKeeps ==
  ASSUME FilterInv, NEW c \in FragmentType, NEW n \in Nat, NEW null \in BOOLEAN, Push(c, n, null),
         c.holes = Holes(n), ConstantSays(c),
         \A r \in Ids : /\ c.sql[r] = "T" => r \in c.means
                        /\ c.sql[r] = "F" => r \notin c.means
                        /\ c.sql[r] = "N" => null
  PROVE  FilterInv'
<1>1. /\ stack' = Append(stack, c) /\ args' = args + n /\ loose' = (loose \/ null)
      /\ where' = where /\ dropped' = dropped
  BY DEF Push
<1>2. FilterType  BY DEF FilterInv
<1>3. stack \in Seq(FragmentType) /\ args \in Nat /\ where.args \in Nat /\ loose \in BOOLEAN /\ dropped \in BOOLEAN
  BY <1>2 DEF FilterType, WhereType
<1>4. Holes(n) = Block(where.args + args, n)  BY <1>2, HolesAre
<1>5. ~dropped => FlattenSeq(HolesOf(stack)) \o c.holes = Block(where.args, args')
  <2>. SUFFICES ASSUME ~dropped  PROVE FlattenSeq(HolesOf(stack)) \o c.holes = Block(where.args, args')  OBVIOUS
  <2>1. Fragments = Block(where.args, args)  BY <1>2, InOrderIs DEF FilterInv
  <2>2. Fragments = FlattenSeq(HolesOf(stack))  BY DEF Fragments, HolesOf
  <2>3. Block(where.args, args) \o Block(where.args + args, n) = Block(where.args, args + n)  BY <1>3, BlocksJoin
  <2>. QED  BY <1>1, <1>4, <2>1, <2>2, <2>3
<1>6. \A i \in 1..Len(stack) : \E j \in DOMAIN stack : stack[i] = stack[j]  BY <1>3
<1>7. \A r \in Ids : /\ c.sql[r] = "T" => r \in c.means
                     /\ c.sql[r] = "F" => r \notin c.means
                     /\ c.sql[r] = "N" => loose'
  BY <1>1
<1>8. args' \in Nat /\ dropped' \in BOOLEAN /\ loose' \in BOOLEAN /\ (loose => loose')  BY <1>1, <1>3
<1>. QED  BY <1>1, <1>3, <1>5, <1>6, <1>7, <1>8, NewTop

LEMMA HolesType ==
  ASSUME FilterType, NEW n \in Nat
  PROVE  Holes(n) \in Seq(Nat)
<1>1. where.args + args \in Nat  BY DEF FilterType, WhereType
<1>. QED  BY <1>1, HolesAre, BlockFacts

(* A fragment that is no constant.                                         *)
LEMMA ResultIs ==
  ASSUME NEW means \in SUBSET Ids, NEW sql \in [Ids -> Truths], NEW holes \in Seq(Nat)
  PROVE  /\ Result(means, sql, holes) \in FragmentType
         /\ ConstantSays(Result(means, sql, holes))
         /\ Result(means, sql, holes).means = means /\ Result(means, sql, holes).sql = sql
         /\ Result(means, sql, holes).holes = holes
BY DEF Result, FragmentType, ConstantSays

(* The answers of a leaf: NULL for some rows, else what the leaf means.    *)
LEMMA AnswersAre ==
  ASSUME NEW means, NEW null
  PROVE  /\ Answers(means, null) \in [Ids -> Truths]
         /\ \A r \in Ids : /\ Answers(means, null)[r] = "T" => r \in means
                           /\ Answers(means, null)[r] = "F" => r \notin means
                           /\ Answers(means, null)[r] = "N" <=> r \in null
<1>1. \A r \in Ids : SqlOf(r \in means) \in Truths  BY DEF SqlOf, Truths
<1>2. Answers(means, null) \in [Ids -> Truths]  BY <1>1 DEF Answers, Truths
<1>3. \A r \in Ids : Answers(means, null)[r] = IF r \in null THEN "N" ELSE SqlOf(r \in means)  BY DEF Answers
<1>4. \A r \in Ids : /\ SqlOf(r \in means) = "T" => r \in means
                     /\ SqlOf(r \in means) = "F" => r \notin means
                     /\ SqlOf(r \in means) # "N"
  BY DEF SqlOf
<1>. QED  BY <1>2, <1>3, <1>4

LEMMA LeafKeeps ==
  ASSUME FilterInv, NEW means \in SUBSET Ids, NEW n \in Nat, Leaf(means, n)
  PROVE  FilterInv'
<1>1. PICK c : c = Result(means, Answers(means, {}), Holes(n))  OBVIOUS
<1>2. Holes(n) \in Seq(Nat)  BY HolesType DEF FilterInv
<1>3. /\ Answers(means, {}) \in [Ids -> Truths]
      /\ \A r \in Ids : /\ Answers(means, {})[r] = "T" => r \in means
                        /\ Answers(means, {})[r] = "F" => r \notin means
                        /\ Answers(means, {})[r] # "N"
  BY AnswersAre
<1>4. c \in FragmentType /\ ConstantSays(c) /\ c.means = means /\ c.sql = Answers(means, {}) /\ c.holes = Holes(n)
  BY <1>1, <1>2, <1>3, ResultIs
<1>5. Push(c, n, FALSE)  BY <1>1 DEF Leaf
<1>. QED  BY <1>3, <1>4, <1>5, PushKeeps

LEMMA LooseLeafKeeps ==
  ASSUME FilterInv, NEW means \in SUBSET Ids, NEW null, NEW n \in Nat, LooseLeaf(means, null, n)
  PROVE  FilterInv'
<1>1. PICK c : c = Result(means, Answers(means, null), Holes(n))  OBVIOUS
<1>2. Holes(n) \in Seq(Nat)  BY HolesType DEF FilterInv
<1>3. /\ Answers(means, null) \in [Ids -> Truths]
      /\ \A r \in Ids : /\ Answers(means, null)[r] = "T" => r \in means
                        /\ Answers(means, null)[r] = "F" => r \notin means
  BY AnswersAre
<1>4. c \in FragmentType /\ ConstantSays(c) /\ c.means = means /\ c.sql = Answers(means, null) /\ c.holes = Holes(n)
  BY <1>1, <1>2, <1>3, ResultIs
<1>5. Push(c, n, TRUE)  BY <1>1 DEF LooseLeaf
<1>. QED  BY <1>3, <1>4, <1>5, PushKeeps

(* The fragments that say always and never.                                *)
LEMMA ConstantsAre ==
  /\ Always \in FragmentType /\ Never \in FragmentType
  /\ ConstantSays(Always) /\ ConstantSays(Never)
  /\ Always.means = Ids /\ Always.holes = <<>> /\ \A r \in Ids : Always.sql[r] = "T"
  /\ Never.means = {} /\ Never.holes = <<>> /\ \A r \in Ids : Never.sql[r] = "F"
<1>1. PICK yes, no : yes = [r \in Ids |-> "T"] /\ no = [r \in Ids |-> "F"]  OBVIOUS
<1>2. /\ yes \in [Ids -> Truths] /\ no \in [Ids -> Truths] /\ <<>> \in Seq(Nat)
      /\ \A r \in Ids : yes[r] = "T" /\ no[r] = "F"
  BY <1>1 DEF Truths
<1>3. PICK a, n : a = Result(Ids, yes, <<>>) /\ n = Result({}, no, <<>>)  OBVIOUS
<1>4. /\ a \in FragmentType /\ a.means = Ids /\ a.sql = yes /\ a.holes = <<>> /\ a.unsat = FALSE
      /\ n \in FragmentType /\ n.means = {} /\ n.sql = no /\ n.holes = <<>> /\ n.trivial = FALSE
  <2>1. PICK e, all, none : e = <<>> /\ all = Ids /\ none = {}  OBVIOUS
  <2>5. e \in Seq(Nat) /\ all \in SUBSET Ids /\ none \in SUBSET Ids  BY <1>2, <2>1
  <2>6. a = Result(all, yes, e) /\ n = Result(none, no, e)  BY <1>3, <2>1
  <2>7. yes \in [Ids -> Truths] /\ no \in [Ids -> Truths]  BY <1>2
  <2>2. a \in FragmentType /\ a.means = all /\ a.sql = yes /\ a.holes = e
    <3>1. /\ Result(all, yes, e) \in FragmentType /\ Result(all, yes, e).means = all
          /\ Result(all, yes, e).sql = yes /\ Result(all, yes, e).holes = e
      BY <2>5, <2>7, ResultIs
    <3>. QED  BY <3>1, <2>6
  <2>3. n \in FragmentType /\ n.means = none /\ n.sql = no /\ n.holes = e
    <3>1. /\ Result(none, no, e) \in FragmentType /\ Result(none, no, e).means = none
          /\ Result(none, no, e).sql = no /\ Result(none, no, e).holes = e
      BY <2>5, <2>7, ResultIs
    <3>. QED  BY <3>1, <2>6
  <2>4. a.unsat = FALSE /\ n.trivial = FALSE  BY <1>3 DEF Result
  <2>. QED  BY <2>1, <2>2, <2>3, <2>4
<1>5. Always = [a EXCEPT !.trivial = TRUE] /\ Never = [n EXCEPT !.unsat = TRUE]  BY <1>1, <1>3 DEF Always, Never
<1>6. Always \in FragmentType  BY <1>4, <1>5 DEF FragmentType
<1>7. Always.means = Ids /\ Always.sql = yes /\ Always.holes = <<>>  BY <1>4, <1>5 DEF FragmentType
<1>8. Always.unsat = a.unsat  BY <1>4, <1>5 DEF FragmentType
<1>9. Never \in FragmentType  BY <1>4, <1>5 DEF FragmentType
<1>10. Never.means = {} /\ Never.sql = no /\ Never.holes = <<>>  BY <1>4, <1>5 DEF FragmentType
<1>11. Never.trivial = n.trivial  BY <1>4, <1>5 DEF FragmentType
<1>. QED  BY <1>2, <1>4, <1>6, <1>7, <1>8, <1>9, <1>10, <1>11 DEF ConstantSays

LEMMA ConstantKeeps ==
  ASSUME FilterInv, NEW b \in BOOLEAN, ConstantCondition(b)
  PROVE  FilterInv'
<1>1. PICK c : c = IF b THEN Always ELSE Never  OBVIOUS
<1>2. PICK n, no : n = 0 /\ no = FALSE  OBVIOUS
<1>3. Push(c, n, no)  BY <1>1, <1>2 DEF ConstantCondition
<1>4. Holes(n) = <<>> /\ n \in Nat  BY <1>2, HolesAre, NoBlock DEF FilterInv
<1>5. c \in FragmentType /\ ConstantSays(c) /\ c.holes = <<>>
  BY <1>1, ConstantsAre
<1>6. \A r \in Ids : /\ c.sql[r] = "T" => r \in c.means
                     /\ c.sql[r] = "F" => r \notin c.means
                     /\ c.sql[r] = "N" => no
  <2>1. CASE b  BY <1>1, <2>1, ConstantsAre
  <2>2. CASE ~b  BY <1>1, <2>2, ConstantsAre
  <2>. QED  BY <2>1, <2>2
<1>. QED  BY <1>2, <1>3, <1>4, <1>5, <1>6, PushKeeps

(* tags.exists(...): a missing list has no tag the condition holds for, so *)
(* the fragment may turn NULL into false.                                  *)
LEMMA ListComprehensionKeeps ==
  ASSUME FilterInv, NEW kind, NEW v, renderListComprehension(kind, v)
  PROVE  FilterInv'
<1>1. PICK means, n, c :
        /\ means \in SUBSET Ids /\ n \in Nat /\ means \cap NoTags = {}
        /\ c = Result(means, wrapWithNullCheck(Answers(means, NoTags)), Holes(n))
        /\ Push(c, n, FALSE)
  <2>. DEFINE holds(t) == CASE kind = "==" -> t = v
                            [] kind = "startsWith" -> IsPrefix(v, t)
                            [] kind = "endsWith" -> IsSuffix(v, t)
                            [] kind = "contains" -> \E i \in 0..Len(t) : IsPrefix(v, SubSeq(t, i + 1, Len(t)))
              them == {r \in Ids : \E t \in RowOf[r].tags : holds(t)}
              count == IF kind = "startsWith" THEN 2 ELSE 1
  <2>1. Push(Result(them, wrapWithNullCheck(Answers(them, NoTags)), Holes(count)), count, FALSE)
    BY DEF renderListComprehension
  <2>2. count \in Nat  OBVIOUS
  <2>3. them \in SUBSET Ids /\ them \cap NoTags = {}
    <3>. HIDE DEF holds
    <3>. QED  BY DEF NoTags
  <2>. HIDE DEF them, count
  <2>. QED  BY <2>1, <2>2, <2>3
<1>2. PICK sql : sql = Answers(means, NoTags)  OBVIOUS
<1>3. /\ sql \in [Ids -> Truths]
      /\ \A r \in Ids : /\ sql[r] = "T" => r \in means
                        /\ sql[r] = "F" => r \notin means
                        /\ sql[r] = "N" <=> r \in NoTags
  BY <1>2, AnswersAre
<1>4. PICK checked : checked = wrapWithNullCheck(sql)  OBVIOUS
<1>5. \A r \in Ids : SqlOf(r \notin NoTags) = IF r \notin NoTags THEN "T" ELSE "F"  BY DEF SqlOf
<1>6. /\ \A r \in Ids : checked[r] = SqlAnd(sql[r], SqlOf(r \notin NoTags))
      /\ DOMAIN checked = Ids /\ checked = [r \in Ids |-> checked[r]]
  BY <1>4 DEF wrapWithNullCheck
<1>7. ASSUME NEW r \in Ids
      PROVE  checked[r] \in Truths /\ (checked[r] = "T" => r \in means) /\ (checked[r] = "F" => r \notin means) /\ checked[r] # "N"
  <2>1. checked[r] = SqlAnd(sql[r], IF r \notin NoTags THEN "T" ELSE "F")  BY <1>5, <1>6
  <2>2. CASE r \in NoTags
    <3>0. checked[r] = SqlAnd(sql[r], "F")  BY <2>1, <2>2
    <3>1. checked[r] = "F"  BY <3>0, <1>3, SqlFacts DEF Truths
    <3>2. r \notin means  BY <1>1, <2>2
    <3>. QED  BY <3>1, <3>2 DEF Truths
  <2>3. CASE r \notin NoTags
    <3>1. sql[r] \in {"T", "F"}  BY <1>3, <2>3 DEF Truths
    <3>2. checked[r] = sql[r]  BY <2>1, <2>3, <3>1 DEF SqlAnd
    <3>. QED  BY <1>3, <3>1, <3>2 DEF Truths
  <2>. QED  BY <2>2, <2>3
<1>8. checked \in [Ids -> Truths]  BY <1>6, <1>7
<1>9. Holes(n) \in Seq(Nat)  BY <1>1, HolesType DEF FilterInv
<1>10. c \in FragmentType /\ ConstantSays(c) /\ c.means = means /\ c.sql = checked /\ c.holes = Holes(n)
  BY <1>1, <1>2, <1>4, <1>8, <1>9, ResultIs
<1>. QED  BY <1>1, <1>7, <1>10, PushKeeps

(* What a fragment's answers say, and when it may answer NULL.             *)
Says(c, mayBeNull) ==
  \A r \in Ids : /\ c.sql[r] = "T" => r \in c.means
                 /\ c.sql[r] = "F" => r \notin c.means
                 /\ c.sql[r] = "N" => mayBeNull

(* The fragment a renderer makes, with the meaning of the expression.      *)
LEMMA WithMeaning ==
  ASSUME NEW c \in FragmentType, NEW means \in SUBSET Ids, ConstantSays(c)
  PROVE  /\ [c EXCEPT !.means = means] \in FragmentType /\ ConstantSays([c EXCEPT !.means = means])
         /\ [c EXCEPT !.means = means].means = means /\ [c EXCEPT !.means = means].sql = c.sql
         /\ [c EXCEPT !.means = means].holes = c.holes
<1>1. PICK d : d = [c EXCEPT !.means = means]  OBVIOUS
<1>2. d \in FragmentType /\ d.means = means /\ d.sql = c.sql /\ d.holes = c.holes /\ d.trivial = c.trivial /\ d.unsat = c.unsat
  BY <1>1 DEF FragmentType
<1>3. ConstantSays(d)  BY <1>2 DEF ConstantSays
<1>. QED  BY <1>1, <1>2, <1>3

LEMMA NotIs ==
  ASSUME NEW c \in FragmentType, ConstantSays(c), NEW mayBeNull, Says(c, mayBeNull)
  PROVE  /\ renderNot(c) \in FragmentType /\ ConstantSays(renderNot(c)) /\ renderNot(c).holes = c.holes
         /\ \A r \in Ids : /\ renderNot(c).sql[r] = "T" => r \notin c.means
                           /\ renderNot(c).sql[r] = "F" => r \in c.means
                           /\ renderNot(c).sql[r] = "N" => mayBeNull
<1>0. c.trivial \in BOOLEAN /\ c.unsat \in BOOLEAN /\ c.means \in SUBSET Ids /\ c.sql \in [Ids -> Truths] /\ c.holes \in Seq(Nat)
  BY DEF FragmentType
<1>1. CASE c.trivial
  <2>1. renderNot(c) = Never  BY <1>1 DEF renderNot
  <2>2. c.holes = <<>> /\ \A r \in Ids : r \in c.means  BY <1>1 DEF ConstantSays, Says
  <2>. QED  BY <2>1, <2>2, ConstantsAre
<1>2. CASE ~c.trivial /\ c.unsat
  <2>1. renderNot(c) = Always  BY <1>2 DEF renderNot
  <2>2. c.holes = <<>> /\ \A r \in Ids : r \notin c.means  BY <1>2 DEF ConstantSays, Says
  <2>. QED  BY <2>1, <2>2, ConstantsAre
<1>3. CASE ~c.trivial /\ ~c.unsat
  <2>1. PICK means, sql, holes : means = Ids \ c.means /\ sql = [r \in Ids |-> SqlNot(c.sql[r])] /\ holes = c.holes  OBVIOUS
  <2>2. renderNot(c) = Result(means, sql, holes)  BY <1>3, <2>1 DEF renderNot
  <2>3. \A r \in Ids : /\ sql[r] \in Truths /\ c.sql[r] \in Truths
                       /\ sql[r] = "T" <=> c.sql[r] = "F"
                       /\ sql[r] = "F" <=> c.sql[r] = "T"
    BY <1>0, <2>1, SqlFacts
  <2>4. means \in SUBSET Ids /\ sql \in [Ids -> Truths] /\ holes \in Seq(Nat)
    <3>1. DOMAIN sql = Ids /\ sql = [r \in Ids |-> sql[r]]  BY <2>1
    <3>. QED  BY <1>0, <2>1, <2>3, <3>1
  <2>5. /\ Result(means, sql, holes) \in FragmentType /\ ConstantSays(Result(means, sql, holes))
        /\ Result(means, sql, holes).sql = sql /\ Result(means, sql, holes).holes = holes
    BY <2>4, ResultIs
  <2>6. ASSUME NEW r \in Ids
        PROVE  /\ sql[r] = "T" => r \notin c.means
               /\ sql[r] = "F" => r \in c.means
               /\ sql[r] = "N" => mayBeNull
    <3>1. sql[r] = "N" => c.sql[r] = "N"  BY <2>3 DEF Truths
    <3>. QED  BY <2>3, <3>1 DEF Says
  <2>. QED  BY <2>1, <2>2, <2>5, <2>6
<1>. QED  BY <1>0, <1>1, <1>2, <1>3

LEMMA AndIs ==
  ASSUME NEW a \in FragmentType, ConstantSays(a), NEW b \in FragmentType, ConstantSays(b),
         NEW mayBeNull, Says(a, mayBeNull), Says(b, mayBeNull)
  PROVE  /\ combineAnd(a, b) \in FragmentType /\ ConstantSays(combineAnd(a, b))
         /\ \A r \in Ids : /\ combineAnd(a, b).sql[r] = "T" => r \in a.means \cap b.means
                           /\ combineAnd(a, b).sql[r] = "F" => r \notin a.means \cap b.means
                           /\ combineAnd(a, b).sql[r] = "N" => mayBeNull
         /\ Len(combineAnd(a, b).holes) < Len(a.holes) + Len(b.holes) \/ combineAnd(a, b).holes = a.holes \o b.holes
<1>0. /\ a.trivial \in BOOLEAN /\ a.unsat \in BOOLEAN /\ a.means \in SUBSET Ids /\ a.sql \in [Ids -> Truths] /\ a.holes \in Seq(Nat)
      /\ b.trivial \in BOOLEAN /\ b.unsat \in BOOLEAN /\ b.means \in SUBSET Ids /\ b.sql \in [Ids -> Truths] /\ b.holes \in Seq(Nat)
  BY DEF FragmentType
<1>h. PICK ah, bh : ah = a.holes /\ bh = b.holes  OBVIOUS
<1>01. /\ ah \in Seq(Nat) /\ bh \in Seq(Nat) /\ Len(ah) \in Nat /\ Len(bh) \in Nat
       /\ <<>> \o bh = bh /\ ah \o <<>> = ah /\ Len(<<>>) = 0
       /\ Len(ah) = 0 => ah = <<>>
       /\ Len(bh) = 0 => bh = <<>>
  <2>1. ah \in Seq(Nat) /\ bh \in Seq(Nat)  BY <1>0, <1>h
  <2>. QED  BY <2>1, ConcatEmptySeq, LenProperties, EmptySeq
<1>1. CASE a.unsat \/ b.unsat
  <2>1. combineAnd(a, b) = Never  BY <1>1 DEF combineAnd
  <2>2. \A r \in Ids : r \notin a.means \cap b.means  BY <1>1 DEF ConstantSays, Says
  <2>3. Len(<<>>) < Len(ah) + Len(bh) \/ <<>> = ah \o bh
    <3>1. CASE Len(ah) + Len(bh) = 0
      <4>1. Len(ah) = 0 /\ Len(bh) = 0  BY <1>01, <3>1
      <4>. QED  BY <1>01, <4>1
    <3>2. CASE Len(ah) + Len(bh) # 0  BY <1>01, <3>2
    <3>. QED  BY <3>1, <3>2
  <2>4. /\ Never \in FragmentType /\ ConstantSays(Never) /\ Never.holes = <<>> /\ \A r \in Ids : Never.sql[r] = "F"
    BY ConstantsAre
  <2>. QED  BY <1>h, <2>1, <2>2, <2>3, <2>4
<1>2. CASE ~a.unsat /\ ~b.unsat /\ a.trivial
  <2>1. combineAnd(a, b) = b  BY <1>2 DEF combineAnd
  <2>2. ah = <<>> /\ \A r \in Ids : r \in a.means  BY <1>h, <1>2 DEF ConstantSays, Says
  <2>3. bh = ah \o bh  BY <1>01, <2>2
  <2>4. b.holes = a.holes \o b.holes  BY <1>h, <2>3
  <2>5. \A r \in Ids : /\ b.sql[r] = "T" => r \in a.means \cap b.means
                       /\ b.sql[r] = "F" => r \notin a.means \cap b.means
                       /\ b.sql[r] = "N" => mayBeNull
    BY <2>2 DEF Says
  <2>. QED  BY <2>1, <2>4, <2>5
<1>3. CASE ~a.unsat /\ ~b.unsat /\ ~a.trivial /\ b.trivial
  <2>1. combineAnd(a, b) = a  BY <1>3 DEF combineAnd
  <2>2. bh = <<>> /\ \A r \in Ids : r \in b.means  BY <1>h, <1>3 DEF ConstantSays, Says
  <2>3. ah = ah \o bh  BY <1>01, <2>2
  <2>4. a.holes = a.holes \o b.holes  BY <1>h, <2>3
  <2>5. \A r \in Ids : /\ a.sql[r] = "T" => r \in a.means \cap b.means
                       /\ a.sql[r] = "F" => r \notin a.means \cap b.means
                       /\ a.sql[r] = "N" => mayBeNull
    BY <2>2 DEF Says
  <2>. QED  BY <2>1, <2>4, <2>5
<1>4. CASE ~a.unsat /\ ~b.unsat /\ ~a.trivial /\ ~b.trivial
  <2>1. PICK means, sql, holes :
          means = a.means \cap b.means /\ sql = [r \in Ids |-> SqlAnd(a.sql[r], b.sql[r])] /\ holes = a.holes \o b.holes
    OBVIOUS
  <2>2. combineAnd(a, b) = Result(means, sql, holes)  BY <1>4, <2>1 DEF combineAnd
  <2>3. ASSUME NEW r \in Ids
        PROVE  /\ sql[r] \in Truths
               /\ sql[r] = "T" <=> (a.sql[r] = "T" /\ b.sql[r] = "T")
               /\ sql[r] = "F" <=> (a.sql[r] = "F" \/ b.sql[r] = "F")
               /\ sql[r] = "N" => (a.sql[r] = "N" \/ b.sql[r] = "N")
    <3>1. a.sql[r] \in Truths /\ b.sql[r] \in Truths /\ sql[r] = SqlAnd(a.sql[r], b.sql[r])  BY <1>0, <2>1
    <3>. QED  BY <3>1, SqlFacts
  <2>4. means \in SUBSET Ids /\ sql \in [Ids -> Truths] /\ holes \in Seq(Nat)
    <3>1. DOMAIN sql = Ids /\ sql = [r \in Ids |-> sql[r]]  BY <2>1
    <3>2. sql \in [Ids -> Truths]  BY <2>3, <3>1
    <3>3. ah \o bh \in Seq(Nat)  BY <1>01, ConcatProperties
    <3>. QED  BY <1>0, <1>h, <2>1, <3>2, <3>3
  <2>5. /\ Result(means, sql, holes) \in FragmentType /\ ConstantSays(Result(means, sql, holes))
        /\ Result(means, sql, holes).sql = sql /\ Result(means, sql, holes).holes = holes
    BY <2>4, ResultIs
  <2>6. \A r \in Ids : /\ sql[r] = "T" => r \in a.means \cap b.means
                       /\ sql[r] = "F" => r \notin a.means \cap b.means
                       /\ sql[r] = "N" => mayBeNull
    BY <2>3 DEF Says
  <2>. QED  BY <2>1, <2>2, <2>5, <2>6
<1>. QED  BY <1>0, <1>1, <1>2, <1>3, <1>4

LEMMA OrIs ==
  ASSUME NEW a \in FragmentType, ConstantSays(a), NEW b \in FragmentType, ConstantSays(b),
         NEW mayBeNull, Says(a, mayBeNull), Says(b, mayBeNull)
  PROVE  /\ combineOr(a, b) \in FragmentType /\ ConstantSays(combineOr(a, b))
         /\ \A r \in Ids : /\ combineOr(a, b).sql[r] = "T" => r \in a.means \cup b.means
                           /\ combineOr(a, b).sql[r] = "F" => r \notin a.means \cup b.means
                           /\ combineOr(a, b).sql[r] = "N" => mayBeNull
         /\ Len(combineOr(a, b).holes) < Len(a.holes) + Len(b.holes) \/ combineOr(a, b).holes = a.holes \o b.holes
<1>0. /\ a.trivial \in BOOLEAN /\ a.unsat \in BOOLEAN /\ a.means \in SUBSET Ids /\ a.sql \in [Ids -> Truths] /\ a.holes \in Seq(Nat)
      /\ b.trivial \in BOOLEAN /\ b.unsat \in BOOLEAN /\ b.means \in SUBSET Ids /\ b.sql \in [Ids -> Truths] /\ b.holes \in Seq(Nat)
  BY DEF FragmentType
<1>h. PICK ah, bh : ah = a.holes /\ bh = b.holes  OBVIOUS
<1>01. /\ ah \in Seq(Nat) /\ bh \in Seq(Nat) /\ Len(ah) \in Nat /\ Len(bh) \in Nat
       /\ <<>> \o bh = bh /\ ah \o <<>> = ah /\ Len(<<>>) = 0
       /\ Len(ah) = 0 => ah = <<>>
       /\ Len(bh) = 0 => bh = <<>>
  <2>1. ah \in Seq(Nat) /\ bh \in Seq(Nat)  BY <1>0, <1>h
  <2>. QED  BY <2>1, ConcatEmptySeq, LenProperties, EmptySeq
<1>1. CASE a.trivial \/ b.trivial
  <2>1. combineOr(a, b) = Always  BY <1>1 DEF combineOr
  <2>2. \A r \in Ids : r \in a.means \cup b.means  BY <1>1 DEF ConstantSays, Says
  <2>3. Len(<<>>) < Len(ah) + Len(bh) \/ <<>> = ah \o bh
    <3>1. CASE Len(ah) + Len(bh) = 0
      <4>1. Len(ah) = 0 /\ Len(bh) = 0  BY <1>01, <3>1
      <4>. QED  BY <1>01, <4>1
    <3>2. CASE Len(ah) + Len(bh) # 0  BY <1>01, <3>2
    <3>. QED  BY <3>1, <3>2
  <2>4. /\ Always \in FragmentType /\ ConstantSays(Always) /\ Always.holes = <<>> /\ \A r \in Ids : Always.sql[r] = "T"
    BY ConstantsAre
  <2>. QED  BY <1>h, <2>1, <2>2, <2>3, <2>4
<1>2. CASE ~a.trivial /\ ~b.trivial /\ a.unsat
  <2>1. combineOr(a, b) = b  BY <1>2 DEF combineOr
  <2>2. ah = <<>> /\ \A r \in Ids : r \notin a.means  BY <1>h, <1>2 DEF ConstantSays, Says
  <2>3. bh = ah \o bh  BY <1>01, <2>2
  <2>4. b.holes = a.holes \o b.holes  BY <1>h, <2>3
  <2>5. \A r \in Ids : /\ b.sql[r] = "T" => r \in a.means \cup b.means
                       /\ b.sql[r] = "F" => r \notin a.means \cup b.means
                       /\ b.sql[r] = "N" => mayBeNull
    BY <2>2 DEF Says
  <2>. QED  BY <2>1, <2>4, <2>5
<1>3. CASE ~a.trivial /\ ~b.trivial /\ ~a.unsat /\ b.unsat
  <2>1. combineOr(a, b) = a  BY <1>3 DEF combineOr
  <2>2. bh = <<>> /\ \A r \in Ids : r \notin b.means  BY <1>h, <1>3 DEF ConstantSays, Says
  <2>3. ah = ah \o bh  BY <1>01, <2>2
  <2>4. a.holes = a.holes \o b.holes  BY <1>h, <2>3
  <2>5. \A r \in Ids : /\ a.sql[r] = "T" => r \in a.means \cup b.means
                       /\ a.sql[r] = "F" => r \notin a.means \cup b.means
                       /\ a.sql[r] = "N" => mayBeNull
    BY <2>2 DEF Says
  <2>. QED  BY <2>1, <2>4, <2>5
<1>4. CASE ~a.trivial /\ ~b.trivial /\ ~a.unsat /\ ~b.unsat
  <2>1. PICK means, sql, holes :
          means = a.means \cup b.means /\ sql = [r \in Ids |-> SqlOr(a.sql[r], b.sql[r])] /\ holes = a.holes \o b.holes
    OBVIOUS
  <2>2. combineOr(a, b) = Result(means, sql, holes)  BY <1>4, <2>1 DEF combineOr
  <2>3. ASSUME NEW r \in Ids
        PROVE  /\ sql[r] \in Truths
               /\ sql[r] = "T" <=> (a.sql[r] = "T" \/ b.sql[r] = "T")
               /\ sql[r] = "F" <=> (a.sql[r] = "F" /\ b.sql[r] = "F")
               /\ sql[r] = "N" => (a.sql[r] = "N" \/ b.sql[r] = "N")
    <3>1. a.sql[r] \in Truths /\ b.sql[r] \in Truths /\ sql[r] = SqlOr(a.sql[r], b.sql[r])  BY <1>0, <2>1
    <3>. QED  BY <3>1, SqlFacts
  <2>4. means \in SUBSET Ids /\ sql \in [Ids -> Truths] /\ holes \in Seq(Nat)
    <3>1. DOMAIN sql = Ids /\ sql = [r \in Ids |-> sql[r]]  BY <2>1
    <3>2. sql \in [Ids -> Truths]  BY <2>3, <3>1
    <3>3. ah \o bh \in Seq(Nat)  BY <1>01, ConcatProperties
    <3>. QED  BY <1>0, <1>h, <2>1, <3>2, <3>3
  <2>5. /\ Result(means, sql, holes) \in FragmentType /\ ConstantSays(Result(means, sql, holes))
        /\ Result(means, sql, holes).sql = sql /\ Result(means, sql, holes).holes = holes
    BY <2>4, ResultIs
  <2>6. \A r \in Ids : /\ sql[r] = "T" => r \in a.means \cup b.means
                       /\ sql[r] = "F" => r \notin a.means \cup b.means
                       /\ sql[r] = "N" => mayBeNull
    BY <2>3 DEF Says
  <2>. QED  BY <2>1, <2>2, <2>5, <2>6
<1>. QED  BY <1>0, <1>1, <1>2, <1>3, <1>4

(* The fragments of a stack, each with what is known of it.                *)
LEMMA StackHas ==
  ASSUME FilterInv, NEW i \in 1..Len(stack)
  PROVE  stack[i] \in FragmentType /\ ConstantSays(stack[i]) /\ Says(stack[i], loose)
<1>1. stack \in Seq(FragmentType)  BY DEF FilterInv, FilterType
<1>2. DOMAIN stack = 1..Len(stack)  BY <1>1, LenProperties
<1>3. stack[i] \in FragmentType  BY <1>1, ElementOfSeq
<1>. QED  BY <1>2, <1>3 DEF FilterInv, SelectsByMeaning, Agrees, Says

(* The placeholders of the stack are those of its top after the rest's.    *)
LEMMA TopHoles ==
  ASSUME NEW s \in Seq(FragmentType), Len(s) >= 1
  PROVE  FlattenSeq(HolesOf(s)) = FlattenSeq(HolesOf(SubSeq(s, 1, Len(s) - 1))) \o s[Len(s)].holes
<1>1. PICK t, x : t = SubSeq(s, 1, Len(s) - 1) /\ x = s[Len(s)]  OBVIOUS
<1>2. t \in Seq(FragmentType) /\ x \in FragmentType /\ s = Append(t, x)  BY <1>1, SplitLast
<1>. QED  BY <1>1, <1>2, HolesOfAppend

LEMMA FlatHolesType ==
  ASSUME NEW s \in Seq(FragmentType)
  PROVE  FlattenSeq(HolesOf(s)) \in Seq(Nat)
BY HolesOfType, FlattenType

LEMMA NotKeeps ==
  ASSUME FilterInv, renderNotCondition
  PROVE  FilterInv'
<1>0. stack \in Seq(FragmentType) /\ Len(stack) >= 1 /\ Len(stack) \in Nat /\ args \in Nat /\ loose \in BOOLEAN /\ dropped \in BOOLEAN
  BY LenProperties DEF renderNotCondition, FilterInv, FilterType
<1>1. PICK n \in Nat : n = Len(stack) /\ n >= 1  BY <1>0
<1>2. PICK top, rest, c : /\ top = stack[n] /\ rest = SubSeq(stack, 1, n - 1)
                          /\ c = [renderNot(top) EXCEPT !.means = Ids \ top.means]
  OBVIOUS
<1>3. /\ stack' = rest \o <<c>> /\ args' = args /\ loose' = loose /\ where' = where /\ dropped' = dropped
  BY <1>1, <1>2 DEF renderNotCondition, Top
<1>4. top \in FragmentType /\ ConstantSays(top) /\ Says(top, loose)
  <2>1. n \in 1..Len(stack)  BY <1>1
  <2>. QED  BY <1>2, <2>1, StackHas
<1>5. /\ rest \in Seq(FragmentType) /\ Len(rest) = n - 1 /\ \A i \in 1..(n - 1) : rest[i] = stack[i]
  BY <1>0, <1>1, <1>2, SplitLast
<1>6. /\ renderNot(top) \in FragmentType /\ ConstantSays(renderNot(top)) /\ renderNot(top).holes = top.holes
      /\ \A r \in Ids : /\ renderNot(top).sql[r] = "T" => r \notin top.means
                        /\ renderNot(top).sql[r] = "F" => r \in top.means
                        /\ renderNot(top).sql[r] = "N" => loose
  BY <1>4, NotIs
<1>7. /\ c \in FragmentType /\ ConstantSays(c) /\ c.means = Ids \ top.means /\ c.sql = renderNot(top).sql
      /\ c.holes = top.holes
  <2>1. PICK d, means : d = renderNot(top) /\ means = Ids \ top.means  OBVIOUS
  <2>2. d \in FragmentType /\ ConstantSays(d) /\ means \in SUBSET Ids  BY <1>6, <2>1
  <2>. QED  BY <1>2, <1>6, <2>1, <2>2, WithMeaning
<1>8. stack' = Append(rest, c)  BY <1>3, <1>5, <1>7, AppendIsConcat
<1>9. \A i \in 1..Len(rest) : \E j \in DOMAIN stack : rest[i] = stack[j]
  <2>1. DOMAIN stack = 1..n  BY <1>0, <1>1, LenProperties
  <2>. QED  BY <1>1, <1>5, <2>1
<1>10. ~dropped' => ~dropped /\ FlattenSeq(HolesOf(rest)) \o c.holes = Block(where.args, args')
  <2>. SUFFICES ASSUME ~dropped  PROVE FlattenSeq(HolesOf(rest)) \o c.holes = Block(where.args, args)
    BY <1>3
  <2>1. Fragments = Block(where.args, args)  BY InOrderIs DEF FilterInv
  <2>2. Fragments = FlattenSeq(HolesOf(stack))  BY DEF Fragments, HolesOf
  <2>3. FlattenSeq(HolesOf(stack)) = FlattenSeq(HolesOf(rest)) \o top.holes  BY <1>0, <1>1, <1>2, TopHoles
  <2>. QED  BY <1>7, <2>1, <2>2, <2>3
<1>11. \A r \in Ids : /\ c.sql[r] = "T" => r \in c.means
                      /\ c.sql[r] = "F" => r \notin c.means
                      /\ c.sql[r] = "N" => loose'
  BY <1>3, <1>6, <1>7
<1>. QED  BY <1>0, <1>3, <1>5, <1>7, <1>8, <1>9, <1>10, <1>11, NewTop

LEMMA LogicalKeeps ==
  ASSUME FilterInv, NEW op \in {"AND", "OR"}, renderLogicalCondition(op)
  PROVE  FilterInv'
<1>0. stack \in Seq(FragmentType) /\ Len(stack) >= 2 /\ Len(stack) \in Nat /\ args \in Nat /\ loose \in BOOLEAN /\ dropped \in BOOLEAN
  BY LenProperties DEF renderLogicalCondition, FilterInv, FilterType
<1>1. PICK n \in Nat : n = Len(stack) /\ n >= 2  BY <1>0
<1>2. PICK a, b, more, rest : /\ b = stack[n] /\ a = stack[n - 1]
                              /\ more = SubSeq(stack, 1, n - 1) /\ rest = SubSeq(stack, 1, n - 2)
  OBVIOUS
<1>3. PICK d, means : /\ d = IF op = "AND" THEN combineAnd(a, b) ELSE combineOr(a, b)
                      /\ means = IF op = "AND" THEN a.means \cap b.means ELSE a.means \cup b.means
  OBVIOUS
<1>4. PICK c : c = [d EXCEPT !.means = means]  OBVIOUS
<1>5. /\ stack' = rest \o <<c>> /\ args' = args /\ loose' = loose /\ where' = where
      /\ dropped' = (dropped \/ Len(d.holes) < Len(a.holes) + Len(b.holes))
  BY <1>1, <1>2, <1>3, <1>4 DEF renderLogicalCondition, Top, Second
<1>6. /\ a \in FragmentType /\ ConstantSays(a) /\ Says(a, loose)
      /\ b \in FragmentType /\ ConstantSays(b) /\ Says(b, loose)
  <2>1. n \in 1..Len(stack) /\ n - 1 \in 1..Len(stack)  BY <1>1
  <2>. QED  BY <1>2, <2>1, StackHas
<1>7. /\ d \in FragmentType /\ ConstantSays(d)
      /\ \A r \in Ids : /\ d.sql[r] = "T" => r \in means
                        /\ d.sql[r] = "F" => r \notin means
                        /\ d.sql[r] = "N" => loose
      /\ Len(d.holes) < Len(a.holes) + Len(b.holes) \/ d.holes = a.holes \o b.holes
  <2>1. CASE op = "AND"
    <3>1. d = combineAnd(a, b) /\ means = a.means \cap b.means  BY <1>3, <2>1
    <3>2. /\ combineAnd(a, b) \in FragmentType /\ ConstantSays(combineAnd(a, b))
          /\ \A r \in Ids : /\ combineAnd(a, b).sql[r] = "T" => r \in a.means \cap b.means
                            /\ combineAnd(a, b).sql[r] = "F" => r \notin a.means \cap b.means
                            /\ combineAnd(a, b).sql[r] = "N" => loose
          /\ Len(combineAnd(a, b).holes) < Len(a.holes) + Len(b.holes) \/ combineAnd(a, b).holes = a.holes \o b.holes
      BY <1>6, AndIs
    <3>. QED  BY <3>1, <3>2
  <2>2. CASE op = "OR"
    <3>1. d = combineOr(a, b) /\ means = a.means \cup b.means  BY <1>3, <2>2
    <3>2. /\ combineOr(a, b) \in FragmentType /\ ConstantSays(combineOr(a, b))
          /\ \A r \in Ids : /\ combineOr(a, b).sql[r] = "T" => r \in a.means \cup b.means
                            /\ combineOr(a, b).sql[r] = "F" => r \notin a.means \cup b.means
                            /\ combineOr(a, b).sql[r] = "N" => loose
          /\ Len(combineOr(a, b).holes) < Len(a.holes) + Len(b.holes) \/ combineOr(a, b).holes = a.holes \o b.holes
      BY <1>6, OrIs
    <3>. QED  BY <3>1, <3>2
  <2>. QED  BY <2>1, <2>2
<1>8. /\ c \in FragmentType /\ ConstantSays(c) /\ c.means = means /\ c.sql = d.sql /\ c.holes = d.holes
  <2>1. a.means \in SUBSET Ids /\ b.means \in SUBSET Ids  BY <1>6 DEF FragmentType
  <2>2. means \in SUBSET Ids  BY <1>3, <2>1
  <2>. QED  BY <1>4, <1>7, <2>2, WithMeaning
<1>9. /\ more \in Seq(FragmentType) /\ Len(more) = n - 1 /\ \A i \in 1..(n - 1) : more[i] = stack[i]
  BY <1>0, <1>1, <1>2, SplitLast
<1>10. more[n - 1] = a /\ SubSeq(more, 1, Len(more) - 1) = rest
  <2>1. \A i \in 1..(n - 2) : more[i] = stack[i]  BY <1>1, <1>9
  <2>2. n - 2 = (n - 1) - 1 /\ n - 1 \in 1..(n - 1)  BY <1>1
  <2>3. more[n - 1] = a  BY <1>2, <1>9, <2>2
  <2>4. SubSeq(more, 1, n - 2) = SubSeq(stack, 1, n - 2)
    <3>1. /\ SubSeq(more, 1, n - 2) \in Seq(FragmentType)
          /\ Len(SubSeq(more, 1, n - 2)) = IF 1 <= n - 2 THEN n - 2 - 1 + 1 ELSE 0
          /\ \A i \in 1..(n - 2 - 1 + 1) : SubSeq(more, 1, n - 2)[i] = more[1 + i - 1]
      <4>1. \A i \in 1..(n - 2) : more[i] \in FragmentType  BY <1>1, <1>9, ElementOfSeq
      <4>. QED  BY <1>1, <4>1, SubSeqProperties
    <3>2. /\ SubSeq(stack, 1, n - 2) \in Seq(FragmentType)
          /\ Len(SubSeq(stack, 1, n - 2)) = IF 1 <= n - 2 THEN n - 2 - 1 + 1 ELSE 0
          /\ \A i \in 1..(n - 2 - 1 + 1) : SubSeq(stack, 1, n - 2)[i] = stack[1 + i - 1]
      <4>1. \A i \in 1..(n - 2) : stack[i] \in FragmentType  BY <1>0, <1>1, ElementOfSeq
      <4>. QED  BY <1>1, <4>1, SubSeqProperties
    <3>3. PICK s, t : s = SubSeq(more, 1, n - 2) /\ t = SubSeq(stack, 1, n - 2)  OBVIOUS
    <3>4. Len(s) = Len(t) /\ Len(s) = IF 1 <= n - 2 THEN n - 2 - 1 + 1 ELSE 0  BY <3>1, <3>2, <3>3
    <3>5. ASSUME NEW i \in 1..Len(s)  PROVE s[i] = t[i]
      <4>1. i \in 1..(n - 2 - 1 + 1) /\ 1 + i - 1 = i /\ i \in 1..(n - 2)  BY <1>1, <3>4
      <4>2. s[i] = more[i] /\ t[i] = stack[i]  BY <3>1, <3>2, <3>3, <4>1
      <4>. QED  BY <2>1, <4>1, <4>2
    <3>6. s \in Seq(FragmentType) /\ t \in Seq(FragmentType)  BY <3>1, <3>2, <3>3
    <3>. QED  BY <3>3, <3>4, <3>5, <3>6, SeqEqual
  <2>. QED  BY <1>2, <1>9, <2>2, <2>3, <2>4
<1>11. rest \in Seq(FragmentType) /\ Len(rest) = n - 2 /\ \A i \in 1..(n - 2) : rest[i] = stack[i]
  <2>1. more \in Seq(FragmentType) /\ Len(more) >= 1 /\ Len(more) = n - 1 /\ Len(more) - 1 = n - 2  BY <1>1, <1>9
  <2>2. /\ SubSeq(more, 1, Len(more) - 1) \in Seq(FragmentType)
        /\ Len(SubSeq(more, 1, Len(more) - 1)) = Len(more) - 1
        /\ \A i \in 1..(Len(more) - 1) : SubSeq(more, 1, Len(more) - 1)[i] = more[i]
    BY <2>1, SplitLast
  <2>3. \A i \in 1..(n - 2) : more[i] = stack[i]  BY <1>1, <1>9
  <2>. QED  BY <1>10, <2>1, <2>2, <2>3
<1>12. stack' = Append(rest, c)  BY <1>5, <1>8, <1>11, AppendIsConcat
<1>13. \A i \in 1..Len(rest) : \E j \in DOMAIN stack : rest[i] = stack[j]
  <2>1. DOMAIN stack = 1..n  BY <1>0, <1>1, LenProperties
  <2>. TAKE i \in 1..Len(rest)
  <2>2. i \in 1..(n - 2) /\ i \in DOMAIN stack  BY <1>1, <1>11, <2>1
  <2>3. rest[i] = stack[i]  BY <1>11, <2>2
  <2>. QED  BY <2>2, <2>3
<1>14. ~dropped' => ~dropped /\ FlattenSeq(HolesOf(rest)) \o c.holes = Block(where.args, args')
  <2>. SUFFICES ASSUME ~dropped, ~(Len(d.holes) < Len(a.holes) + Len(b.holes))
               PROVE  FlattenSeq(HolesOf(rest)) \o c.holes = Block(where.args, args)
    BY <1>5
  <2>1. Fragments = Block(where.args, args)  BY InOrderIs DEF FilterInv
  <2>2. Fragments = FlattenSeq(HolesOf(stack))  BY DEF Fragments, HolesOf
  <2>3. FlattenSeq(HolesOf(stack)) = FlattenSeq(HolesOf(more)) \o b.holes
    <3>1. Len(stack) >= 1  BY <1>1
    <3>2. FlattenSeq(HolesOf(stack)) = FlattenSeq(HolesOf(SubSeq(stack, 1, Len(stack) - 1))) \o stack[Len(stack)].holes
      BY <1>0, <3>1, TopHoles
    <3>. QED  BY <1>1, <1>2, <3>2
  <2>4. FlattenSeq(HolesOf(more)) = FlattenSeq(HolesOf(rest)) \o a.holes
    <3>1. more \in Seq(FragmentType) /\ Len(more) >= 1 /\ more[Len(more)] = a  BY <1>1, <1>9, <1>10
    <3>. QED  BY <1>10, <3>1, TopHoles
  <2>5. c.holes = a.holes \o b.holes  BY <1>7, <1>8
  <2>6. PICK f, ah, bh : f = FlattenSeq(HolesOf(rest)) /\ ah = a.holes /\ bh = b.holes  OBVIOUS
  <2>7. f \in Seq(Nat) /\ ah \in Seq(Nat) /\ bh \in Seq(Nat)
    <3>1. a.holes \in Seq(Nat) /\ b.holes \in Seq(Nat)  BY <1>6 DEF FragmentType
    <3>. QED  BY <1>11, <2>6, <3>1, FlatHolesType
  <2>8. (f \o ah) \o bh = f \o (ah \o bh)  BY <2>7, ConcatAssociative
  <2>. QED  BY <2>1, <2>2, <2>3, <2>4, <2>5, <2>6, <2>8
<1>15. \A r \in Ids : /\ c.sql[r] = "T" => r \in c.means
                      /\ c.sql[r] = "F" => r \notin c.means
                      /\ c.sql[r] = "N" => loose'
  BY <1>5, <1>7, <1>8
<1>16. dropped' \in BOOLEAN /\ loose' \in BOOLEAN /\ (loose => loose') /\ args' \in Nat  BY <1>0, <1>5
<1>. QED  BY <1>5, <1>8, <1>11, <1>12, <1>13, <1>14, <1>15, <1>16, NewTop

(* Every kind of leaf.                                                     *)
LEMMA RenderLeafKeeps ==
  ASSUME FilterInv, RenderLeaf
  PROVE  FilterInv'
<1>0. 0 \in Nat /\ 1 \in Nat  OBVIOUS
<1>h. ASSUME NEW S, IsFiniteSet(S), NEW values \in SUBSET S  PROVE Cardinality(values) \in Nat /\ 2 * Cardinality(values) \in Nat
  <2>1. IsFiniteSet(values)  BY <1>h, FS_Subset
  <2>. QED  BY <2>1, FS_CardinalityType
<1>1. ASSUME NEW b \in BOOLEAN, ConstantCondition(b)  PROVE FilterInv'
  BY <1>1, ConstantKeeps
<1>2. ASSUME NEW f, renderFieldPredicate(f)  PROVE FilterInv'
  BY <1>0, <1>2, LeafKeeps DEF renderFieldPredicate
<1>3. ASSUME NEW op, NEW b, renderBoolColumnComparison(op, b)  PROVE FilterInv'
  BY <1>0, <1>3, LeafKeeps DEF renderBoolColumnComparison
<1>4. ASSUME NEW f, NEW op, NEW b, renderJSONBoolComparison(f, op, b)  PROVE FilterInv'
  <2>1. PICK means : means = {r \in Ids : Compare(RowOf[r][f], op, b)}  OBVIOUS
  <2>2. means \in SUBSET Ids  BY <2>1
  <2>3. Leaf(means, 0) \/ LooseLeaf(means, Missing(f), IF dialect = "postgres" THEN 1 ELSE 0)
    BY <1>4, <2>1 DEF renderJSONBoolComparison
  <2>4. PICK n, zero, null : n = (IF dialect = "postgres" THEN 1 ELSE 0) /\ zero = 0 /\ null = Missing(f)  OBVIOUS
  <2>5. n \in Nat /\ zero \in Nat  BY <2>4
  <2>6. Leaf(means, zero) \/ LooseLeaf(means, null, n)  BY <2>3, <2>4
  <2>. QED  BY <2>2, <2>5, <2>6, LeafKeeps, LooseLeafKeeps
<1>5. ASSUME NEW f, NEW op, NEW v, renderScalarComparison(f, op, v)  PROVE FilterInv'
  <2>1. PICK means, null, n : /\ means = {r \in Ids : Compare(RowOf[r][f], op, v)}
                              /\ null = {r \in Ids : ~RowOf[r].known} /\ n = 1
    OBVIOUS
  <2>2. means \in SUBSET Ids /\ n \in Nat  BY <2>1
  <2>3. Leaf(means, n) \/ LooseLeaf(means, null, n)  BY <1>5, <2>1 DEF renderScalarComparison
  <2>. QED  BY <2>2, <2>3, LeafKeeps, LooseLeafKeeps
<1>6. ASSUME NEW op, NEW n, renderFunctionComparison(op, n)  PROVE FilterInv'
  <2>1. PICK means, k : means = {r \in Ids : Compare(Cardinality(RowOf[r].tags), op, n)} /\ k = 1  OBVIOUS
  <2>2. means \in SUBSET Ids /\ k \in Nat  BY <2>1
  <2>3. Leaf(means, k)  BY <1>6, <2>1 DEF renderFunctionComparison
  <2>. QED  BY <2>2, <2>3, LeafKeeps
<1>7. ASSUME NEW values \in SUBSET Tags, renderTagInList(values)  PROVE FilterInv'
  <2>1. PICK means, null, k : /\ means = {r \in Ids : \E t \in RowOf[r].tags, v \in values : IsPrefix(v, t)}
                              /\ null = NoTags /\ k = 2 * Cardinality(values)
    OBVIOUS
  <2>2. means \in SUBSET Ids  BY <2>1
  <2>3. k \in Nat  BY <1>h, <2>1, FilterAssumption
  <2>4. LooseLeaf(means, null, k)  BY <1>7, <2>1 DEF renderTagInList
  <2>. QED  BY <2>2, <2>3, <2>4, LooseLeafKeeps
<1>8. ASSUME NEW values \in SUBSET Visibilities, renderScalarInCondition(values)  PROVE FilterInv'
  <2>1. PICK means, k : means = {r \in Ids : RowOf[r].visibility \in values} /\ k = Cardinality(values)  OBVIOUS
  <2>2. means \in SUBSET Ids  BY <2>1
  <2>3. k \in Nat  BY <1>h, <2>1, FilterAssumption
  <2>4. Leaf(means, k)  BY <1>8, <2>1 DEF renderScalarInCondition
  <2>. QED  BY <2>2, <2>3, <2>4, LeafKeeps
<1>9. ASSUME NEW t, renderElementInCondition(t)  PROVE FilterInv'
  <2>1. PICK means, null, k : means = {r \in Ids : t \in RowOf[r].tags} /\ null = NoTags /\ k = 1  OBVIOUS
  <2>2. means \in SUBSET Ids /\ k \in Nat  BY <2>1
  <2>3. LooseLeaf(means, null, k)  BY <1>9, <2>1 DEF renderElementInCondition
  <2>. QED  BY <2>2, <2>3, LooseLeafKeeps
<1>10. ASSUME NEW w, renderContainsCondition(w)  PROVE FilterInv'
  <2>1. PICK means, k : means = {r \in Ids : w \in RowOf[r].words} /\ k = 1  OBVIOUS
  <2>2. means \in SUBSET Ids /\ k \in Nat  BY <2>1
  <2>3. Leaf(means, k)  BY <1>10, <2>1 DEF renderContainsCondition
  <2>. QED  BY <2>2, <2>3, LeafKeeps
<1>11. ASSUME NEW kind, NEW t, renderListComprehension(kind, t)  PROVE FilterInv'
  BY <1>11, ListComprehensionKeeps
<1>. QED
  BY <1>1, <1>2, <1>3, <1>4, <1>5, <1>6, <1>7, <1>8, <1>9, <1>10, <1>11 DEF RenderLeaf

(* An empty stack with the clause of before, or none.                      *)
LEMMA EmptyStack ==
  ASSUME stack = <<>>, args = 0, where \in WhereType, loose \in BOOLEAN, dropped \in BOOLEAN, Agrees(where),
         ~dropped => where.holes = Block(0, where.args)
  PROVE  FilterInv
<1>1. stack \in Seq(FragmentType) /\ DOMAIN stack = {}  OBVIOUS
<1>2. FilterType  BY <1>1 DEF FilterType
<1>3. Fragments = <<>>
  <2>1. [i \in DOMAIN stack |-> stack[i].holes] = <<>>  BY <1>1
  <2>. QED  BY <2>1, FlattenEmpty DEF Fragments
<1>4. Block(where.args, args) = <<>>  BY NoBlock
<1>5. ArgumentsInOrder  BY <1>2, <1>3, <1>4, InOrderIs
<1>. QED  BY <1>1, <1>2, <1>5 DEF FilterInv, SelectsByMeaning

(* The filter becomes part of the clause.                                  *)
LEMMA AppendKeeps ==
  ASSUME FilterInv, AppendConditions
  PROVE  FilterInv'
<1>0. /\ stack \in Seq(FragmentType) /\ Len(stack) = 1 /\ args \in Nat /\ loose \in BOOLEAN /\ dropped \in BOOLEAN
      /\ where.sql \in [Ids -> Truths] /\ where.means \in SUBSET Ids /\ where.holes \in Seq(Nat) /\ where.args \in Nat
      /\ where \in WhereType /\ Agrees(where)
  BY DEF AppendConditions, FilterInv, FilterType, WhereType, SelectsByMeaning
<1>1. PICK top : top = stack[1]  OBVIOUS
<1>2. Top = top /\ stack' = <<>> /\ args' = 0 /\ loose' = loose /\ dropped' = dropped
  BY <1>0, <1>1 DEF AppendConditions, Top
<1>3. top \in FragmentType /\ ConstantSays(top) /\ Says(top, loose)
  <2>1. 1 \in 1..Len(stack)  BY <1>0
  <2>. QED  BY <1>1, <2>1, StackHas
<1>4. top.sql \in [Ids -> Truths] /\ top.means \in SUBSET Ids /\ top.holes \in Seq(Nat) /\ top.trivial \in BOOLEAN
  BY <1>3 DEF FragmentType
<1>5. ~dropped => where.holes = Block(0, where.args) /\ top.holes = Block(where.args, args)
  <2>. SUFFICES ASSUME ~dropped  PROVE where.holes = Block(0, where.args) /\ top.holes = Block(where.args, args)  OBVIOUS
  <2>1. where.holes = Block(0, where.args) /\ Fragments = Block(where.args, args)  BY InOrderIs DEF FilterInv
  <2>2. Fragments = FlattenSeq(HolesOf(stack))  BY DEF Fragments, HolesOf
  <2>3. stack = Append(<<>>, top)  BY <1>0, <1>1
  <2>4. <<>> \in Seq(FragmentType)  OBVIOUS
  <2>5. FlattenSeq(HolesOf(stack)) = FlattenSeq(HolesOf(<<>>)) \o top.holes
    <3>1. PICK e : e = <<>>  OBVIOUS
    <3>2. FlattenSeq(HolesOf(Append(e, top))) = FlattenSeq(HolesOf(e)) \o top.holes  BY <1>3, <2>4, <3>1, HolesOfAppend
    <3>. QED  BY <2>3, <3>1, <3>2
  <2>6. HolesOf(<<>>) = <<>>  BY DEF HolesOf
  <2>7. PICK h : h = top.holes  OBVIOUS
  <2>8. <<>> \o h = h  BY <1>4, <2>7, ConcatEmptySeq
  <2>. QED  BY <2>1, <2>2, <2>5, <2>6, <2>7, <2>8, FlattenEmpty
<1>6. where' \in WhereType /\ Agrees(where)' /\ (~dropped' => (where.holes = Block(0, where.args))')
  <2>1. CASE top.trivial
    <3>1. where' = [where EXCEPT !.means = where.means \cap top.means]  BY <1>2, <2>1 DEF AppendConditions
    <3>2. /\ where' \in WhereType /\ where'.sql = where.sql /\ where'.means = where.means \cap top.means
          /\ where'.holes = where.holes /\ where'.args = where.args
      BY <1>0, <1>4, <3>1 DEF WhereType
    <3>3. \A r \in Ids : r \in top.means  BY <1>3, <2>1 DEF ConstantSays, Says
    <3>4. Agrees(where)'  BY <1>0, <1>2, <3>2, <3>3 DEF Agrees
    <3>. QED  BY <1>2, <1>5, <3>2, <3>4 DEF Block
  <2>2. CASE ~top.trivial
    <3>1. PICK sql, means, holes, n : /\ sql = [r \in Ids |-> SqlAnd(where.sql[r], top.sql[r])] /\ means = where.means \cap top.means
                                      /\ holes = where.holes \o top.holes /\ n = where.args + args
      OBVIOUS
    <3>2. where' = [sql |-> sql, means |-> means, holes |-> holes, args |-> n]  BY <1>2, <2>2, <3>1 DEF AppendConditions
    <3>3. ASSUME NEW r \in Ids
          PROVE  /\ sql[r] \in Truths
                 /\ sql[r] = "T" <=> (where.sql[r] = "T" /\ top.sql[r] = "T")
                 /\ sql[r] = "F" <=> (where.sql[r] = "F" \/ top.sql[r] = "F")
                 /\ sql[r] = "N" => (where.sql[r] = "N" \/ top.sql[r] = "N")
      <4>1. where.sql[r] \in Truths /\ top.sql[r] \in Truths /\ sql[r] = SqlAnd(where.sql[r], top.sql[r])
        BY <1>0, <1>4, <3>1
      <4>. QED  BY <4>1, SqlFacts
    <3>4. sql \in [Ids -> Truths]
      <4>1. DOMAIN sql = Ids /\ sql = [r \in Ids |-> sql[r]]  BY <3>1
      <4>. QED  BY <3>3, <4>1
    <3>5. holes \in Seq(Nat)
      <4>1. PICK a, b : a = where.holes /\ b = top.holes  OBVIOUS
      <4>2. a \o b \in Seq(Nat)  BY <1>0, <1>4, <4>1, ConcatProperties
      <4>. QED  BY <3>1, <4>1, <4>2
    <3>6. means \in SUBSET Ids /\ n \in Nat  BY <1>0, <3>1
    <3>7. where' \in WhereType  BY <3>2, <3>4, <3>5, <3>6 DEF WhereType
    <3>8. where'.sql = sql /\ where'.means = means /\ where'.holes = holes /\ where'.args = n  BY <3>2
    <3>9. Agrees(where)'  BY <1>0, <1>2, <1>3, <3>1, <3>3, <3>8 DEF Agrees, Says
    <3>10. ~dropped => holes = Block(0, n)
      <4>. SUFFICES ASSUME ~dropped  PROVE holes = Block(0, n)  OBVIOUS
      <4>1. Block(0, where.args) \o Block(0 + where.args, args) = Block(0, where.args + args)  BY <1>0, BlocksJoin
      <4>2. 0 + where.args = where.args  BY <1>0
      <4>. QED  BY <1>5, <3>1, <4>1, <4>2
    <3>. QED  BY <1>2, <3>7, <3>8, <3>9, <3>10 DEF Block
  <2>. QED  BY <1>4, <2>1, <2>2
<1>7. (stack = <<>> /\ args = 0 /\ where \in WhereType /\ loose \in BOOLEAN /\ dropped \in BOOLEAN /\ Agrees(where)
       /\ (~dropped => where.holes = Block(0, where.args)) => FilterInv)'
  BY EmptyStack, PTL
<1>8. (~dropped => where.holes = Block(0, where.args))'  BY <1>6
<1>9. WhereType' = WhereType  BY DEF WhereType
<1>. QED  BY <1>0, <1>2, <1>6, <1>7, <1>8, <1>9

LEMMA FilterInitOk == FilterInit => FilterInv
<1>. SUFFICES ASSUME FilterInit  PROVE FilterInv  OBVIOUS
<1>1. PICK all : all = [r \in Ids |-> "T"]  OBVIOUS
<1>2. where = [sql |-> all, means |-> Ids, holes |-> <<>>, args |-> 0]  BY <1>1 DEF FilterInit
<1>3. all \in [Ids -> Truths] /\ \A r \in Ids : all[r] = "T"  BY <1>1 DEF Truths
<1>4. where \in WhereType  BY <1>2, <1>3 DEF WhereType
<1>5. Agrees(where)  BY <1>2, <1>3 DEF Agrees
<1>6. where.holes = Block(0, where.args)  BY <1>2, NoBlock
<1>. QED  BY <1>4, <1>5, <1>6, EmptyStack DEF FilterInit

(* Every step of the engine, and of what follows it without touching it.   *)
LEMMA FilterStep == FilterInv /\ [FilterNext]_filterVars => FilterInv'
<1>. SUFFICES ASSUME FilterInv, [FilterNext]_filterVars  PROVE FilterInv'  OBVIOUS
<1>1. CASE UNCHANGED <<stack, args, where, loose, dropped>>
  <2>1. stack' = stack /\ args' = args /\ where' = where /\ loose' = loose /\ dropped' = dropped  BY <1>1
  <2>. QED  BY <2>1 DEF FilterInv, FilterType, SelectsByMeaning, Agrees, ConstantSays, ArgumentsInOrder, Fragments, Holes,
                        FragmentType, WhereType
<1>2. UNCHANGED filterVars => UNCHANGED <<stack, args, where, loose, dropped>>  BY DEF filterVars
<1>3. Reject \/ NextFilter => UNCHANGED <<stack, args, where, loose, dropped>>  BY DEF Reject, NextFilter
<1>. QED
  BY <1>1, <1>2, <1>3, RenderLeafKeeps, NotKeeps, LogicalKeeps, AppendKeeps DEF FilterNext

(* However conditions are nested and negated, in every dialect and for     *)
(* several filters one after the other, the clause selects only memos the  *)
(* filters are true of, leaves out only memos they are false of unless a   *)
(* leaf may answer NULL, and its placeholders are its arguments in order   *)
(* (internal/filter/render.go, Render and AppendConditions).               *)
THEOREM QueriesMeanTheirFilters == FilterSpec => []QueryMeansFilter
<1>1. FilterInv => QueryMeansFilter  BY DEF FilterInv, QueryMeansFilter
<1>. QED  BY <1>1, FilterInitOk, FilterStep, PTL DEF FilterSpec

----------------------------------------------------------------------------
(* The pages of a list.                                                    *)

PageType == [rows : Seq(Ids), next : Nat]
ListType == [pages : Seq(PageType), ins : SUBSET Ids, del : BOOLEAN]
QueryType == query \in [limit : Nat, pinned : BOOLEAN, asc : BOOLEAN]

(* The order of the query, as a set of pairs.                              *)
InFront == {p \in Ids \X Ids : Before(p[1], p[2])}

(* What a list shows, how far into the order it has read, and the rows it  *)
(* could show.                                                             *)
Seen(l) == Range(Rows(l))
Reach(l) == Len(l.pages) * query.limit
There(S) == {r \in S : RowOf[r].known}

(* What pages tell of the rows S that the query selects now.               *)
PagesOk(l, S) ==
  /\ l.pages # <<>> => Last(l.pages).next \in {0, Reach(l)}
  /\ l.ins = {} => /\ IsInjective(Rows(l))
                   /\ \A r \in Seen(l) \cap S : Place(InFront, S, r) < Reach(l)
  /\ ~l.del => /\ Seen(l) \subseteq S
               /\ \A r \in There(S) \ l.ins : Complete(l) \/ Place(InFront, S, r) < Reach(l) => r \in Seen(l)
               /\ \A r \in There(S) \ l.ins, s \in Seen(l) : Before(r, s) => r \in Seen(l)
  /\ ~l.del /\ l.ins = {} => Rows(l) = Ordered(Seen(l))

PagesInv ==
  /\ db \subseteq Ids /\ QueryType
  /\ shown \in ListType /\ refetch \in ListType
  /\ IF query = NoQuery THEN shown = Nothing /\ refetch = Nothing ELSE query.limit # 0
  /\ PagesOk(shown, Selected) /\ PagesOk(refetch, Selected)

(* The rows are finitely many, and the query puts them into a strict order.*)
LEMMA RowsFinite == \A S \in SUBSET Ids : IsFiniteSet(S)
BY ListAssumption, FS_Subset

LEMMA FrontIs == \A r, s \in Ids : <<r, s>> \in InFront <=> Before(r, s)
BY DEF InFront

LEMMA BeforeOrders ==
  ASSUME QueryType
  PROVE  \A S \in SUBSET Ids : IsOrder(InFront, S)
<1>1. /\ query.pinned \in BOOLEAN /\ query.asc \in BOOLEAN
      /\ \A r \in Ids : r \in Nat /\ RowOf[r].created_ts \in Nat /\ RowOf[r].pinned \in BOOLEAN
  BY ListAssumption, FilterAssumption DEF QueryType
<1>2. \A r \in Ids : ~Before(r, r)  BY <1>1 DEF Before
<1>3. \A r, s \in Ids : r = s \/ Before(r, s) \/ Before(s, r)  BY <1>1 DEF Before
<1>4. \A r, s, t \in Ids : Before(r, s) /\ Before(s, t) => Before(r, t)  BY <1>1 DEF Before
<1>. QED  BY <1>2, <1>3, <1>4, FrontIs DEF IsOrder

(* Ordered sorts.                                                          *)
LEMMA OrderedSorts ==
  ASSUME QueryType, NEW S \in SUBSET Ids
  PROVE  Sorted(InFront, S, Ordered(S))
<1>1. IsFiniteSet(S) /\ IsOrder(InFront, S)  BY RowsFinite, BeforeOrders
<1>2. \A r \in S : {s \in S : Before(s, r)} = Ahead(InFront, S, r)  BY FrontIs DEF Ahead
<1>3. \A r \in S : Cardinality({s \in S : Before(s, r)}) = Place(InFront, S, r)  BY <1>2 DEF Place
<1>4. PICK q : q = Ordered(S)  OBVIOUS
<1>5. q = [i \in 1..Cardinality(S) |-> CHOOSE r \in S : Cardinality({s \in S : Before(s, r)}) = i - 1]
  BY <1>4 DEF Ordered
<1>6. ASSUME NEW i \in 1..Cardinality(S)  PROVE q[i] \in S /\ Place(InFront, S, q[i]) = i - 1
  <2>1. Cardinality(S) \in Nat  BY <1>1, FS_CardinalityType
  <2>2. i - 1 \in 0..(Cardinality(S) - 1)  BY <2>1
  <2>3. PICK k : k = i - 1  OBVIOUS
  <2>4. \E r \in S : Place(InFront, S, r) = k  BY <1>1, <2>2, <2>3, PlaceTaken
  <2>5. \E r \in S : Cardinality({s \in S : Before(s, r)}) = i - 1  BY <1>3, <2>3, <2>4
  <2>6. q[i] = CHOOSE r \in S : Cardinality({s \in S : Before(s, r)}) = i - 1  BY <1>5
  <2>7. q[i] \in S /\ Cardinality({s \in S : Before(s, q[i])}) = i - 1  BY <2>5, <2>6
  <2>. QED  BY <2>7, <1>3
<1>7. q = [i \in 1..Cardinality(S) |-> q[i]]
  <2>. DEFINE at(i) == CHOOSE r \in S : Cardinality({s \in S : Before(s, r)}) = i - 1
  <2>1. q = [i \in 1..Cardinality(S) |-> at(i)]  BY <1>5
  <2>. HIDE DEF at
  <2>. QED  BY <2>1
<1>8. Sorted(InFront, S, q)  BY <1>1, <1>6, <1>7, SortedByPlace
<1>. QED  BY <1>4, <1>8

(* One got: the known rows among the next ones, and whether there are more.*)
Section(offset) ==
  {r \in There(Selected) : offset <= Place(InFront, Selected, r) /\ Place(InFront, Selected, r) < offset + query.limit}

LEMMA PageIs ==
  ASSUME QueryType, query.limit # 0, db \subseteq Ids, NEW offset \in Nat
  PROVE  /\ ListMemos(offset).rows = Ordered(Section(offset))
         /\ ListMemos(offset).next = IF Cardinality(Selected) > offset + query.limit THEN offset + query.limit ELSE 0
         /\ ListMemos(offset) = [rows |-> ListMemos(offset).rows, next |-> ListMemos(offset).next]
<1>1. Selected \in SUBSET Ids /\ query.limit \in Nat \ {0}  BY DEF Selected, QueryType
<1>2. PICK S : S = Selected  OBVIOUS
<1>3. IsFiniteSet(S) /\ IsOrder(InFront, S) /\ Sorted(InFront, S, Ordered(S)) /\ S \in SUBSET Ids
  BY <1>1, <1>2, RowsFinite, BeforeOrders, OrderedSorts
<1>4. PICK all : all = Ordered(S)  OBVIOUS
<1>5. PICK n \in Nat : n = Len(all) /\ n = Cardinality(S)
  BY <1>3, <1>4, FS_CardinalityType DEF Sorted
<1>6. PICK limit \in Nat \ {0} : limit = query.limit  BY <1>1
<1>7. PICK b : b = Min({offset + limit + 1, n})  OBVIOUS
<1>8. b = IF n < offset + limit + 1 THEN n ELSE offset + limit + 1
  <2>1. \E x \in {offset + limit + 1, n} : \A y \in {offset + limit + 1, n} : x <= y  OBVIOUS
  <2>2. b \in {offset + limit + 1, n} /\ \A y \in {offset + limit + 1, n} : b <= y  BY <1>7, <2>1 DEF Min
  <2>. QED  BY <2>2
<1>9. b \in Nat /\ b <= n  BY <1>8
<1>10. PICK found : found = SubSeq(all, offset + 1, b)  OBVIOUS
<1>11. /\ found \in Seq(S) /\ Len(found) = IF offset < b THEN b - offset ELSE 0
       /\ Range(found) = {r \in S : offset <= Place(InFront, S, r) /\ Place(InFront, S, r) < b}
  <2>1. Sorted(InFront, S, all) /\ b <= Len(all)  BY <1>3, <1>4, <1>5, <1>9
  <2>2. /\ SubSeq(all, offset + 1, b) \in Seq(S)
        /\ Len(SubSeq(all, offset + 1, b)) = IF offset < b THEN b - offset ELSE 0
        /\ Range(SubSeq(all, offset + 1, b)) = Covered(InFront, S, offset, b)
    BY <1>3, <1>9, <2>1, SortedSection
  <2>. QED  BY <1>10, <2>2 DEF Covered
<1>12. PICK more \in BOOLEAN : more <=> Len(found) = limit + 1  OBVIOUS
<1>13. more <=> n > offset + limit  BY <1>8, <1>11, <1>12
<1>14. PICK answered : answered = SubSeq(found, 1, IF more THEN limit ELSE Len(found))  OBVIOUS
<1>15. Range(answered) = {r \in S : offset <= Place(InFront, S, r) /\ Place(InFront, S, r) < offset + limit}
  <2>1. \A r \in S : Place(InFront, S, r) \in Nat /\ Place(InFront, S, r) < n  BY <1>3, <1>5, PlaceType
  <2>2. CASE ~more
    <3>1. answered = found  BY <1>11, <1>14, <2>2, SubSeqFull
    <3>2. b = n /\ n <= offset + limit  BY <1>8, <1>13, <2>2
    <3>. QED  BY <1>11, <2>1, <3>1, <3>2
  <2>3. CASE more
    <3>1. b = offset + limit + 1 /\ b <= n  BY <1>8, <1>13, <2>3
    <3>2. all \in Seq(S) /\ Len(all) = n  BY <1>3, <1>4, <1>5 DEF Sorted
    <3>3. SubSeq(SubSeq(all, offset + 1, b), 1, limit) = SubSeq(all, offset + 1 + 1 - 1, offset + 1 + limit - 1)
      <4>1. /\ offset + 1 \in 1..Len(all) /\ b \in 1..Len(all)
            /\ 1 \in 1..(b - (offset + 1) + 1) /\ limit \in 1..(b - (offset + 1) + 1)
        BY <3>1, <3>2
      <4>. QED  BY <3>2, <4>1, SubSeqOfSubSeq
    <3>4. offset + 1 + 1 - 1 = offset + 1 /\ offset + 1 + limit - 1 = offset + limit  OBVIOUS
    <3>5. answered = SubSeq(all, offset + 1, offset + limit)  BY <1>10, <1>14, <2>3, <3>3, <3>4
    <3>6. PICK end \in Nat : end = offset + limit  OBVIOUS
    <3>7. end <= Len(all) /\ Sorted(InFront, S, all)  BY <1>3, <1>4, <3>1, <3>2, <3>6
    <3>8. Range(SubSeq(all, offset + 1, end)) = Covered(InFront, S, offset, end)
      BY <1>3, <3>7, SortedSection
    <3>. QED  BY <3>5, <3>6, <3>8 DEF Covered
  <2>. QED  BY <2>2, <2>3
<1>16. ListMemos(offset) = [rows |-> Ordered({r \in Range(answered) : RowOf[r].known}),
                            next |-> IF more THEN NextOffset(offset) ELSE 0]
  BY <1>2, <1>4, <1>5, <1>6, <1>7, <1>10, <1>12, <1>14 DEF ListMemos
<1>17. {r \in Range(answered) : RowOf[r].known} = Section(offset)
  BY <1>2, <1>6, <1>15 DEF Section, There
<1>18. Cardinality(Selected) > offset + query.limit <=> more  BY <1>2, <1>5, <1>6, <1>13
<1>19. ListMemos(offset) = [rows |-> Ordered(Section(offset)), next |-> IF more THEN offset + query.limit ELSE 0]
  BY <1>16, <1>17 DEF NextOffset
<1>. QED  BY <1>18, <1>19

(* What a list shows with one more got.                                   *)
RowsOfPages(pages) == FlattenSeq([i \in DOMAIN pages |-> pages[i].rows])

LEMMA RowsAre ==
  ASSUME NEW l \in ListType
  PROVE  Rows(l) \in Seq(Ids) /\ Seen(l) \subseteq Ids
<1>1. l.pages \in Seq(PageType)  BY DEF ListType
<1>2. PICK ss : ss = [i \in DOMAIN l.pages |-> l.pages[i].rows]  OBVIOUS
<1>3. ss \in Seq(Seq(Ids))
  <2>1. \A i \in DOMAIN l.pages : l.pages[i] \in PageType  BY <1>1
  <2>2. \A i \in DOMAIN l.pages : l.pages[i].rows \in Seq(Ids)  BY <2>1 DEF PageType
  <2>3. DOMAIN l.pages = 1..Len(l.pages) /\ Len(l.pages) \in Nat  BY <1>1, LenProperties
  <2>. QED  BY <1>2, <2>2, <2>3
<1>4. Rows(l) \in Seq(Ids)  BY <1>2, <1>3, FlattenType DEF Rows
<1>. QED  BY <1>4, ElementOfSeq, LenProperties DEF Seen, Range

LEMMA RowsOfMore ==
  ASSUME NEW l \in ListType, NEW got \in PageType, NEW k, k = [l EXCEPT !.pages = Append(@, got)]
  PROVE  /\ k \in ListType /\ k.ins = l.ins /\ k.del = l.del
         /\ k.pages # <<>> /\ Last(k.pages) = got /\ Len(k.pages) = Len(l.pages) + 1
         /\ Rows(k) = Rows(l) \o got.rows
<1>1. l.pages \in Seq(PageType) /\ k.pages = Append(l.pages, got) /\ k.ins = l.ins /\ k.del = l.del
  BY DEF ListType
<1>2. k \in ListType
  <2>1. Append(l.pages, got) \in Seq(PageType)  BY <1>1, AppendProperties
  <2>2. l.ins \in SUBSET Ids /\ l.del \in BOOLEAN /\ l = [pages |-> l.pages, ins |-> l.ins, del |-> l.del]  BY DEF ListType
  <2>3. k = [pages |-> Append(l.pages, got), ins |-> l.ins, del |-> l.del]  BY <2>2
  <2>. QED  BY <2>1, <2>2, <2>3 DEF ListType
<1>3. PICK p \in Seq(PageType) : p = l.pages  BY <1>1
<1>4. /\ Append(p, got) \in Seq(PageType) /\ Len(Append(p, got)) = Len(p) + 1 /\ Len(p) \in Nat
      /\ \A i \in 1..Len(p) : Append(p, got)[i] = p[i]
      /\ Append(p, got)[Len(p) + 1] = got
  BY <1>3, AppendProperties, LenProperties
<1>5. PICK ss : ss = [i \in DOMAIN p |-> p[i].rows]  OBVIOUS
<1>6. DOMAIN p = 1..Len(p) /\ \A i \in 1..Len(p) : p[i].rows \in Seq(Ids)
  <2>1. DOMAIN p = 1..Len(p) /\ \A i \in 1..Len(p) : p[i] \in PageType  BY LenProperties, ElementOfSeq
  <2>. QED  BY <2>1 DEF PageType
<1>7. ss \in Seq(Seq(Ids)) /\ Len(ss) = Len(p)
  <2>1. ss \in [1..Len(p) -> Seq(Ids)]  BY <1>5, <1>6
  <2>2. ss \in Seq(Seq(Ids))  BY <1>4, <2>1
  <2>. QED  BY <1>4, <2>1, <2>2, LenProperties
<1>8. got.rows \in Seq(Ids)  BY DEF PageType
<1>9. PICK tt : tt = [i \in DOMAIN Append(p, got) |-> Append(p, got)[i].rows]  OBVIOUS
<1>10. DOMAIN Append(p, got) = 1..(Len(p) + 1)  BY <1>4, LenProperties
<1>11. PICK t \in Seq(Ids) : t = got.rows  BY <1>8
<1>12. /\ Append(ss, t) \in Seq(Seq(Ids)) /\ Len(Append(ss, t)) = Len(p) + 1
       /\ \A i \in 1..Len(p) : Append(ss, t)[i] = ss[i]
       /\ Append(ss, t)[Len(p) + 1] = t
  BY <1>7, AppendProperties
<1>13. tt \in Seq(Seq(Ids)) /\ Len(tt) = Len(p) + 1
  <2>1. \A i \in 1..(Len(p) + 1) : Append(p, got)[i].rows \in Seq(Ids)
    <3>1. \A i \in 1..(Len(p) + 1) : i \in 1..Len(p) \/ i = Len(p) + 1  BY <1>4
    <3>. QED  BY <3>1, <1>4, <1>6, <1>8
  <2>2. tt \in [1..(Len(p) + 1) -> Seq(Ids)]  BY <1>9, <1>10, <2>1
  <2>3. Len(p) + 1 \in Nat  BY <1>4
  <2>4. tt \in Seq(Seq(Ids))  BY <2>2, <2>3
  <2>. QED  BY <2>2, <2>3, <2>4, LenProperties
<1>14. tt = Append(ss, t)
  <2>1. ASSUME NEW i \in 1..(Len(p) + 1)  PROVE tt[i] = Append(ss, t)[i]
    <3>1. tt[i] = Append(p, got)[i].rows  BY <1>9, <1>10
    <3>2. CASE i \in 1..Len(p)  BY <3>1, <3>2, <1>4, <1>5, <1>6, <1>12
    <3>3. CASE i = Len(p) + 1  BY <3>1, <3>3, <1>4, <1>11, <1>12
    <3>4. i \in 1..Len(p) \/ i = Len(p) + 1  BY <1>4
    <3>. QED  BY <3>2, <3>3, <3>4
  <2>2. \A i \in 1..Len(tt) : tt[i] = Append(ss, t)[i]  BY <2>1, <1>13
  <2>. QED  BY <2>2, <1>12, <1>13, SeqEqual
<1>15. Rows(k) = FlattenSeq(ss) \o t
  <2>0. Rows(k) = RowsOfPages(k.pages)  BY DEF Rows, RowsOfPages
  <2>1. RowsOfPages(Append(p, got)) = FlattenSeq(tt)  BY <1>9 DEF RowsOfPages
  <2>2. k.pages = Append(p, got)  BY <1>1, <1>3
  <2>3. Rows(k) = FlattenSeq(Append(ss, t))  BY <2>0, <2>1, <2>2, <1>14
  <2>. QED  BY <2>3, <1>7, FlattenAppend
<1>16. Rows(l) = FlattenSeq(ss)  BY <1>3, <1>5 DEF Rows
<1>17. Append(p, got) # <<>> /\ Last(Append(p, got)) = got
  <2>1. Len(<<>>) = 0  OBVIOUS
  <2>. QED  BY <2>1, <1>4 DEF Last
<1>. QED  BY <1>1, <1>2, <1>3, <1>4, <1>11, <1>15, <1>16, <1>17

(* A got shows the section of the order that follows what has been read,  *)
(* so that the pages stay what they are said to be.                        *)
LEMMA LoadKeeps ==
  ASSUME db \subseteq Ids, QueryType, query.limit # 0, NEW l \in ListType, PagesOk(l, Selected),
         l.pages = <<>> \/ HasNext(l)
  PROVE  Load(l, Reach(l)) \in ListType /\ PagesOk(Load(l, Reach(l)), Selected)
<1>1. Selected \in SUBSET Ids /\ query.limit \in Nat /\ Len(l.pages) \in Nat /\ l.pages \in Seq(PageType)
  BY DEF Selected, QueryType, ListType
<1>2. PICK offset \in Nat : offset = Reach(l)  BY <1>1 DEF Reach
<1>3. PICK S \in SUBSET Ids : S = Selected  BY <1>1
<1>4. IsFiniteSet(S) /\ IsOrder(InFront, S) /\ Cardinality(S) \in Nat
  BY RowsFinite, BeforeOrders, FS_CardinalityType
<1>5. PICK got : got = ListMemos(offset)  OBVIOUS
<1>6. PICK B : B = Section(offset)  OBVIOUS
<1>7. /\ got.rows = Ordered(B)
      /\ got.next = IF Cardinality(S) > offset + query.limit THEN offset + query.limit ELSE 0
      /\ got = [rows |-> got.rows, next |-> got.next]
  BY <1>3, <1>5, <1>6, PageIs
<1>8. B = {r \in There(S) : offset <= Place(InFront, S, r) /\ Place(InFront, S, r) < offset + query.limit}
  BY <1>3, <1>6 DEF Section
<1>9. B \in SUBSET S /\ B \in SUBSET Ids  BY <1>8 DEF There
<1>10. Sorted(InFront, B, got.rows)  BY <1>7, <1>9, OrderedSorts
<1>11. IsFiniteSet(B) /\ IsOrder(InFront, B)  BY <1>9, RowsFinite, BeforeOrders
<1>12. Range(got.rows) = B /\ IsInjective(got.rows)  BY <1>10, <1>11, SortedShows
<1>13. got.rows \in Seq(Ids)  BY <1>9, <1>10 DEF Sorted
<1>14. got \in PageType  BY <1>1, <1>7, <1>13 DEF PageType
<1>15. PICK k : k = Load(l, offset)  OBVIOUS
<1>16. k = [l EXCEPT !.pages = Append(@, got)]  BY <1>5, <1>15 DEF Load
<1>17. /\ k \in ListType /\ k.ins = l.ins /\ k.del = l.del
       /\ k.pages # <<>> /\ Last(k.pages) = got /\ Len(k.pages) = Len(l.pages) + 1
       /\ Rows(k) = Rows(l) \o got.rows
  BY <1>14, <1>16, RowsOfMore
<1>18. PICK A : A = Seen(l)  OBVIOUS
<1>19. A \in SUBSET Ids /\ Rows(l) \in Seq(Ids)  BY <1>18, RowsAre
<1>20. Seen(k) = A \cup B
  BY <1>12, <1>13, <1>17, <1>18, <1>19, ConcatShows DEF Seen
<1>21. PICK end \in Nat : end = offset + query.limit  BY <1>1
<1>22. Reach(k) = end
  <2>1. \A m, n \in Nat : (m + 1) * n = m * n + n  OBVIOUS
  <2>. QED  BY <2>1, <1>1, <1>2, <1>17, <1>21 DEF Reach
<1>23. \A r \in S : Place(InFront, S, r) \in Nat /\ Place(InFront, S, r) < Cardinality(S)  BY <1>4, PlaceType
<1>24. Complete(k) <=> Cardinality(S) <= end
  <2>1. Complete(k) <=> got.next = 0  BY <1>17 DEF Complete, HasNext
  <2>2. Cardinality(S) > end => end # 0  
    <3>1. query.limit # 0  OBVIOUS
    <3>. QED  BY <3>1, <1>1, <1>21
  <2>. QED  BY <2>1, <2>2, <1>4, <1>7, <1>21
<1>25. ~Complete(l)  BY DEF Complete
<1>26. PagesOk(k, S)
  <2>1. Last(k.pages).next \in {0, Reach(k)}  BY <1>7, <1>17, <1>21, <1>22
  <2>2. ASSUME k.ins = {}
        PROVE  IsInjective(Rows(k)) /\ \A r \in Seen(k) \cap S : Place(InFront, S, r) < Reach(k)
    <3>1. IsInjective(Rows(l)) /\ \A r \in A \cap S : Place(InFront, S, r) < offset
      BY <2>2, <1>2, <1>3, <1>17, <1>18 DEF PagesOk
    <3>2. A \cap B = {}
      <4>1. \A r \in B : r \in S /\ offset <= Place(InFront, S, r)  BY <1>8, <1>9
      <4>. QED  BY <3>1, <4>1, <1>23
    <3>3. IsInjective(Rows(l) \o got.rows)
      <4>1. Range(Rows(l)) = A  BY <1>18 DEF Seen
      <4>. QED  BY <4>1, <3>1, <3>2, <1>12, <1>13, <1>19, ConcatShows
    <3>4. ASSUME NEW r \in (A \cup B) \cap S  PROVE Place(InFront, S, r) < end
      <4>1. offset <= end  BY <1>1, <1>21
      <4>2. r \in B => Place(InFront, S, r) < end  BY <1>8, <1>21
      <4>3. r \in A => Place(InFront, S, r) < end  BY <3>1, <4>1, <1>23
      <4>. QED  BY <4>2, <4>3
    <3>. QED  BY <3>3, <3>4, <1>17, <1>20, <1>22
  <2>3. ASSUME ~k.del
        PROVE  /\ Seen(k) \subseteq S
               /\ \A r \in There(S) \ k.ins : Complete(k) \/ Place(InFront, S, r) < Reach(k) => r \in Seen(k)
               /\ \A r \in There(S) \ k.ins, s \in Seen(k) : Before(r, s) => r \in Seen(k)
    <3>1. /\ A \subseteq S
          /\ \A r \in There(S) \ k.ins : Place(InFront, S, r) < offset => r \in A
          /\ \A r \in There(S) \ k.ins, s \in A : Before(r, s) => r \in A
      BY <2>3, <1>2, <1>3, <1>17, <1>18 DEF PagesOk
    <3>2. ASSUME NEW r \in There(S) \ k.ins, Complete(k) \/ Place(InFront, S, r) < end  PROVE r \in A \cup B
      <4>1. r \in S  BY DEF There
      <4>2. Place(InFront, S, r) \in Nat /\ Place(InFront, S, r) < end
        BY <4>1, <3>2, <1>4, <1>23, <1>24
      <4>3. Place(InFront, S, r) < offset \/ offset <= Place(InFront, S, r)  BY <4>2
      <4>. QED  BY <3>1, <4>2, <4>3, <1>8, <1>21
    <3>3. ASSUME NEW r \in There(S) \ k.ins, NEW s \in A \cup B, Before(r, s)  PROVE r \in A \cup B
      <4>1. r \in S /\ r \in Ids  BY DEF There
      <4>2. CASE s \in A  BY <4>2, <3>1, <3>3
      <4>3. CASE s \in B
        <5>1. s \in S /\ s \in Ids /\ Place(InFront, S, s) < end  BY <4>3, <1>8, <1>9, <1>21
        <5>2. <<r, s>> \in InFront  BY <4>1, <5>1, <3>3, FrontIs
        <5>3. Place(InFront, S, r) < Place(InFront, S, s)
          <6>1. S \in SUBSET S  OBVIOUS
          <6>. QED  BY <6>1, <4>1, <5>1, <5>2, <1>4, PlaceLess
        <5>4. Place(InFront, S, r) < end  BY <5>1, <5>3, <4>1, <1>23
        <5>. QED  BY <5>4, <3>2
      <4>. QED  BY <4>2, <4>3
    <3>. QED  BY <3>1, <3>2, <3>3, <1>9, <1>20, <1>22
  <2>4. ASSUME ~k.del, k.ins = {}
        PROVE  Rows(k) = Ordered(Seen(k))
    <3>1. /\ Rows(l) = Ordered(A) /\ A \subseteq S
          /\ \A r \in A \cap S : Place(InFront, S, r) < offset
      BY <2>4, <1>2, <1>3, <1>17, <1>18 DEF PagesOk
    <3>2. Sorted(InFront, A, Rows(l))  BY <3>1, <1>19, OrderedSorts
    <3>3. ASSUME NEW x \in A, NEW y \in B  PROVE <<x, y>> \in InFront
      <4>1. x \in S /\ y \in S  BY <3>1, <1>9
      <4>2. Place(InFront, S, x) < offset /\ offset <= Place(InFront, S, y)  BY <4>1, <3>1, <1>8
      <4>3. <<y, x>> \in InFront => Place(InFront, S, y) < Place(InFront, S, x)
        <5>1. S \in SUBSET S  OBVIOUS
        <5>. QED  BY <5>1, <4>1, <1>4, PlaceLess
      <4>4. x # y /\ <<y, x>> \notin InFront  BY <4>1, <4>2, <4>3, <1>23
      <4>. QED  BY <4>1, <4>4, <1>4 DEF IsOrder
    <3>4. A \cup B \in SUBSET Ids /\ IsFiniteSet(A)  BY <1>9, <1>19, RowsFinite
    <3>5. IsOrder(InFront, A \cup B) /\ IsFiniteSet(A \cup B)  BY <3>4, BeforeOrders, RowsFinite
    <3>6. Sorted(InFront, A \cup B, Rows(l) \o got.rows)
      BY <3>2, <3>3, <3>4, <3>5, <1>10, <1>11, SortedJoin
    <3>7. Sorted(InFront, A \cup B, Ordered(A \cup B))  BY <3>4, OrderedSorts
    <3>8. Rows(l) \o got.rows = Ordered(A \cup B)  BY <3>5, <3>6, <3>7, SortedUnique
    <3>. QED  BY <3>8, <1>17, <1>20
  <2>. QED  BY <2>1, <2>2, <2>3, <2>4 DEF PagesOk
<1>. QED  BY <1>2, <1>3, <1>15, <1>17, <1>26

(* No got yet.                                                            *)
LEMMA NoPages ==
  ASSUME QueryType, NEW l \in ListType, l.pages = <<>>, NEW S \in SUBSET Ids
  PROVE  PagesOk(l, S) /\ Reach(l) = 0
<1>1. Rows(l) = <<>>
  <2>1. Rows(l) = RowsOfPages(l.pages)  BY DEF Rows, RowsOfPages
  <2>2. [i \in DOMAIN <<>> |-> <<>>[i].rows] = <<>>  OBVIOUS
  <2>3. RowsOfPages(<<>>) = <<>>  BY <2>2, FlattenEmpty DEF RowsOfPages
  <2>. QED  BY <2>1, <2>3
<1>2. Seen(l) = {} /\ IsInjective(Rows(l))  BY <1>1 DEF Seen, Range, IsInjective
<1>3. Reach(l) = 0  BY DEF Reach, QueryType
<1>4. \A r \in S : Place(InFront, S, r) \in Nat  BY RowsFinite, PlaceType
<1>5. ~Complete(l)  BY DEF Complete
<1>6. Ordered({}) = <<>>
  <2>1. {} \in SUBSET Ids  OBVIOUS
  <2>2. Ordered({}) \in Seq({}) /\ Len(Ordered({})) = 0  BY <2>1, OrderedSorts, FS_EmptySet DEF Sorted
  <2>. QED  BY <2>2, EmptySeq
<1>. QED  BY <1>1, <1>2, <1>3, <1>4, <1>5, <1>6 DEF PagesOk, There

(* A memo created after the first got: it may push others further down.   *)
LEMMA CreateKeeps ==
  ASSUME QueryType, NEW l \in ListType, NEW S \in SUBSET Ids, PagesOk(l, S),
         NEW r \in Ids, NEW T \in SUBSET Ids, S \subseteq T, T \subseteq S \cup {r}
  PROVE  /\ [l EXCEPT !.ins = @ \cup {r}] \in ListType
         /\ PagesOk([l EXCEPT !.ins = @ \cup {r}], T)
<1>1. PICK k : k = [l EXCEPT !.ins = @ \cup {r}]  OBVIOUS
<1>2. k \in ListType /\ k.pages = l.pages /\ k.ins = l.ins \cup {r} /\ k.del = l.del  BY <1>1 DEF ListType
<1>3. Rows(k) = Rows(l) /\ Seen(k) = Seen(l) /\ Reach(k) = Reach(l) /\ (Complete(k) <=> Complete(l))
  BY <1>2 DEF Rows, Seen, Reach, Complete, HasNext
<1>4. \A x \in S : Place(InFront, S, x) <= Place(InFront, T, x)
                   /\ Place(InFront, S, x) \in Nat /\ Place(InFront, T, x) \in Nat
  BY RowsFinite, PlaceOfFewer, PlaceType
<1>5. Reach(l) \in Nat  BY DEF Reach, QueryType, ListType
<1>6. k.ins # {}  BY <1>2
<1>7. \A x \in There(T) \ k.ins : x \in There(S) \ l.ins /\ x \in S  BY <1>2 DEF There
<1>8. ASSUME ~k.del
      PROVE  /\ Seen(k) \subseteq T
             /\ \A x \in There(T) \ k.ins : Complete(k) \/ Place(InFront, T, x) < Reach(k) => x \in Seen(k)
             /\ \A x \in There(T) \ k.ins, s \in Seen(k) : Before(x, s) => x \in Seen(k)
  <2>1. /\ Seen(l) \subseteq S
        /\ \A x \in There(S) \ l.ins : Complete(l) \/ Place(InFront, S, x) < Reach(l) => x \in Seen(l)
        /\ \A x \in There(S) \ l.ins, s \in Seen(l) : Before(x, s) => x \in Seen(l)
    BY <1>2, <1>8 DEF PagesOk
  <2>2. ASSUME NEW x \in There(T) \ k.ins, Complete(k) \/ Place(InFront, T, x) < Reach(k)  PROVE x \in Seen(k)
    BY <2>1, <2>2, <1>3, <1>4, <1>5, <1>7
  <2>. QED  BY <2>1, <2>2, <1>3, <1>7
<1>9. k.pages # <<>> => Last(k.pages).next \in {0, Reach(k)}  BY <1>2, <1>3 DEF PagesOk
<1>10. PagesOk(k, T)  BY <1>6, <1>8, <1>9 DEF PagesOk
<1>. QED  BY <1>1, <1>2, <1>10

(* A memo deleted after the first got: it may pull others further up.     *)
LEMMA DeleteKeeps ==
  ASSUME QueryType, NEW l \in ListType, NEW S \in SUBSET Ids, PagesOk(l, S),
         NEW T \in SUBSET S
  PROVE  /\ [l EXCEPT !.del = TRUE] \in ListType
         /\ PagesOk([l EXCEPT !.del = TRUE], T)
<1>1. PICK k : k = [l EXCEPT !.del = TRUE]  OBVIOUS
<1>2. k \in ListType /\ k.pages = l.pages /\ k.ins = l.ins /\ k.del = TRUE  BY <1>1 DEF ListType
<1>3. Rows(k) = Rows(l) /\ Seen(k) = Seen(l) /\ Reach(k) = Reach(l)
  BY <1>2 DEF Rows, Seen, Reach
<1>4. \A x \in T : Place(InFront, T, x) <= Place(InFront, S, x)
                   /\ Place(InFront, S, x) \in Nat /\ Place(InFront, T, x) \in Nat
  <2>1. T \in SUBSET Ids  OBVIOUS
  <2>. QED  BY <2>1, RowsFinite, PlaceOfFewer, PlaceType
<1>5. Reach(l) \in Nat  BY DEF Reach, QueryType, ListType
<1>6. ASSUME k.ins = {}
      PROVE  IsInjective(Rows(k)) /\ \A x \in Seen(k) \cap T : Place(InFront, T, x) < Reach(k)
  <2>1. IsInjective(Rows(l)) /\ \A x \in Seen(l) \cap S : Place(InFront, S, x) < Reach(l)
    BY <1>2, <1>6 DEF PagesOk
  <2>. QED  BY <2>1, <1>3, <1>4, <1>5
<1>7. k.pages # <<>> => Last(k.pages).next \in {0, Reach(k)}  BY <1>2, <1>3 DEF PagesOk
<1>8. PagesOk(k, T)  BY <1>2, <1>6, <1>7 DEF PagesOk
<1>. QED  BY <1>1, <1>2, <1>8

(* The order of a list does not change.                                    *)
LEMMA SameQuery ==
  ASSUME query' = query, NEW l, NEW S
  PROVE  PagesOk(l, S)' <=> PagesOk(l, S)
BY DEF PagesOk, Seen, Reach, There, InFront, Before, Ordered, Rows, Complete, HasNext, Place, Ahead

(* The lists after a step.                                                 *)
LEMMA Lists ==
  ASSUME NEW k, k = shown', NEW l, l = refetch', NEW S, S = Selected', PagesOk(k, S)', PagesOk(l, S)'
  PROVE  PagesOk(shown, Selected)' /\ PagesOk(refetch, Selected)'
<1>1. PagesOk(shown, Selected)'
  BY DEF PagesOk, Seen, Reach, There, InFront, Before, Ordered, Rows, Complete, HasNext, Place, Ahead
<1>2. PagesOk(refetch, Selected)'
  BY DEF PagesOk, Seen, Reach, There, InFront, Before, Ordered, Rows, Complete, HasNext, Place, Ahead
<1>. QED  BY <1>1, <1>2

(* A step that leaves the query alone, from what holds of the lists and    *)
(* the rows after it.                                                      *)
LEMMA ListsAfter ==
  ASSUME query' = query, QueryType, query # NoQuery, query.limit # 0, db' \subseteq Ids,
         NEW k \in ListType, k = shown', NEW l \in ListType, l = refetch',
         NEW S, S = Selected', PagesOk(k, S), PagesOk(l, S)
  PROVE  PagesInv'
<1>1. PagesOk(k, S)' /\ PagesOk(l, S)'  BY SameQuery
<1>2. PagesOk(shown, Selected)' /\ PagesOk(refetch, Selected)'
  BY <1>1, Lists
<1>3. QueryType' /\ shown' \in ListType' /\ refetch' \in ListType'  BY DEF QueryType, ListType, PageType
<1>. QED  BY <1>2, <1>3 DEF PagesInv

LEMMA NothingOk == ASSUME QueryType, NEW S \in SUBSET Ids PROVE Nothing \in ListType /\ PagesOk(Nothing, S) /\ Reach(Nothing) = 0
<1>1. Nothing \in ListType  BY DEF Nothing, ListType
<1>2. Nothing.pages = <<>>  BY DEF Nothing
<1>3. PICK l \in ListType : l = Nothing  BY <1>1
<1>4. PagesOk(l, S) /\ Reach(l) = 0  BY <1>2, <1>3, NoPages
<1>. QED  BY <1>1, <1>3, <1>4

LEMMA NothingOkNext ==
  (QueryType => \A S \in SUBSET Ids : Nothing \in ListType /\ PagesOk(Nothing, S))'
<1>1. QueryType => \A S \in SUBSET Ids : Nothing \in ListType /\ PagesOk(Nothing, S)  BY NothingOk
<1>. QED  BY <1>1, PTL

LEMMA PagesInitOk == ListInit => PagesInv
<1>. SUFFICES ASSUME ListInit  PROVE PagesInv  OBVIOUS
<1>1. db \subseteq Ids /\ QueryType /\ query = NoQuery /\ shown = Nothing /\ refetch = Nothing
  BY DEF ListInit, NoQuery, QueryType
<1>2. Selected \in SUBSET Ids  BY <1>1 DEF Selected
<1>. QED  BY <1>1, <1>2, NothingOk DEF PagesInv

(* One step of the list.                                                   *)
LEMMA PagesStep == PagesInv /\ [ListNext]_<<filterVars, listVars>> => PagesInv'
<1>. SUFFICES ASSUME PagesInv, [ListNext]_<<filterVars, listVars>>  PROVE PagesInv'  OBVIOUS
<1>0. /\ db \subseteq Ids /\ QueryType
      /\ shown \in ListType /\ refetch \in ListType
      /\ query = NoQuery => shown = Nothing /\ refetch = Nothing
      /\ query # NoQuery => query.limit # 0
      /\ PagesOk(shown, Selected) /\ PagesOk(refetch, Selected)
      /\ Selected \in SUBSET Ids
  BY DEF PagesInv, Selected
<1>a. (where' = where /\ db' = db) => Selected' = Selected  BY DEF Selected
<1>b. filterVars' = filterVars => where' = where  BY DEF filterVars
<1>c. Nothing.pages = <<>>  BY DEF Nothing
(* Nothing but the filter changes, or nothing at all, before there is a list.*)
<1>1. ASSUME query = NoQuery, UNCHANGED listVars  PROVE PagesInv'
  <2>1. db' \subseteq Ids /\ QueryType' /\ query' = NoQuery /\ shown' = Nothing /\ refetch' = Nothing
    BY <1>0, <1>1 DEF listVars, QueryType
  <2>2. Selected' \in SUBSET Ids  BY <2>1 DEF Selected
  <2>3. PICK S \in SUBSET Ids : S = Selected'  BY <2>2
  <2>4. Nothing \in ListType /\ PagesOk(Nothing, S)  BY <1>0, NothingOk
  <2>5. query' = query  BY <2>1, <1>1
  <2>6. PICK l \in ListType : l = Nothing  BY <2>4
  <2>7. PagesOk(l, S)'  BY <2>4, <2>5, <2>6, SameQuery
  <2>8. PagesOk(shown, Selected)' /\ PagesOk(refetch, Selected)'
    BY <2>1, <2>3, <2>6, <2>7, Lists
  <2>9. Nothing \in ListType'  BY <2>4 DEF ListType, PageType
  <2>. QED  BY <2>1, <2>8, <2>9 DEF PagesInv
<1>2. ASSUME query # NoQuery, UNCHANGED <<filterVars, listVars>>  PROVE PagesInv'
  <2>1. query' = query /\ shown' = shown /\ refetch' = refetch /\ db' = db /\ Selected' = Selected
    BY <1>2, <1>a, <1>b DEF listVars
  <2>. QED  BY <2>1, <1>0, <1>2, ListsAfter
<1>3. ASSUME NEW memos \in SUBSET Ids, NEW limit \in Limits, NEW byPinned \in BOOLEAN, NEW asc \in BOOLEAN,
             Open(memos, limit, byPinned, asc)
      PROVE  PagesInv'
  <2>1. /\ query' = [limit |-> limit, pinned |-> byPinned, asc |-> asc] /\ db' = memos
        /\ shown' = Nothing /\ refetch' = Nothing
    BY <1>0, <1>3 DEF Open
  <2>2. limit \in Nat \ {0}  BY ListAssumption
  <2>3. db' \subseteq Ids /\ QueryType' /\ query' # NoQuery /\ query'.limit # 0
    BY <2>1, <2>2 DEF QueryType, NoQuery
  <2>4. Selected' \in SUBSET Ids  BY <2>3 DEF Selected
  <2>5. (QueryType => \A S \in SUBSET Ids : Nothing \in ListType /\ PagesOk(Nothing, S))'  BY NothingOkNext
  <2>6. PICK S \in SUBSET Ids : S = Selected'  BY <2>4
  <2>7. Nothing \in ListType' /\ PagesOk(Nothing, S)'  BY <2>3, <2>5, <2>6
  <2>8. PICK l : l = Nothing  OBVIOUS
  <2>9. PagesOk(l, S)'  BY <2>7, <2>8
  <2>10. PagesOk(shown, Selected)' /\ PagesOk(refetch, Selected)'
    BY <2>1, <2>6, <2>8, <2>9, Lists
  <2>. QED  BY <2>1, <2>3, <2>7, <2>10 DEF PagesInv
<1>4. ASSUME FetchFirst  PROVE PagesInv'
  <2>1. /\ query # NoQuery /\ shown = Nothing /\ shown' = Load(Nothing, 0)
        /\ db' = db /\ query' = query /\ refetch' = refetch /\ filterVars' = filterVars
    BY <1>4 DEF FetchFirst
  <2>2. Selected' = Selected  BY <2>1, <1>a, <1>b
  <2>3. Reach(Nothing) = 0  BY <1>0, NothingOk
  <2>4. Load(Nothing, Reach(Nothing)) \in ListType /\ PagesOk(Load(Nothing, Reach(Nothing)), Selected)
    BY <2>1, <1>0, <1>c, LoadKeeps
  <2>5. Load(Nothing, 0) \in ListType /\ PagesOk(Load(Nothing, 0), Selected)  BY <2>3, <2>4
  <2>. QED  BY <2>1, <2>2, <2>5, <1>0, ListsAfter
<1>5. ASSUME FetchNextPage  PROVE PagesInv'
  <2>1. /\ HasNext(shown) /\ shown' = Load(shown, Last(shown.pages).next) /\ refetch' = Nothing
        /\ db' = db /\ query' = query /\ filterVars' = filterVars
    BY <1>5 DEF FetchNextPage
  <2>2. Selected' = Selected  BY <2>1, <1>a, <1>b
  <2>3. shown.pages # <<>> /\ Last(shown.pages).next = Reach(shown)  BY <2>1, <1>0 DEF HasNext, PagesOk
  <2>4. query # NoQuery /\ query.limit # 0  BY <2>3, <1>0, <1>c
  <2>5. Load(shown, Reach(shown)) \in ListType /\ PagesOk(Load(shown, Reach(shown)), Selected)
    BY <2>1, <2>4, <1>0, LoadKeeps
  <2>6. shown' \in ListType /\ PagesOk(shown', Selected)  BY <2>1, <2>3, <2>5
  <2>7. Nothing \in ListType /\ PagesOk(Nothing, Selected)  BY <1>0, NothingOk
  <2>. QED  BY <2>1, <2>2, <2>4, <2>6, <2>7, <1>0, ListsAfter
<1>6. ASSUME StartRefetch  PROVE PagesInv'
  <2>1. /\ shown.pages # <<>> /\ refetch' = Load(Nothing, 0)
        /\ db' = db /\ query' = query /\ shown' = shown /\ filterVars' = filterVars
    BY <1>6 DEF StartRefetch
  <2>2. Selected' = Selected /\ query # NoQuery /\ query.limit # 0  BY <2>1, <1>0, <1>a, <1>b, <1>c
  <2>3. Nothing \in ListType /\ PagesOk(Nothing, Selected) /\ Reach(Nothing) = 0  BY <1>0, NothingOk
  <2>4. Load(Nothing, Reach(Nothing)) \in ListType /\ PagesOk(Load(Nothing, Reach(Nothing)), Selected)
    BY <2>2, <2>3, <1>0, <1>c, LoadKeeps
  <2>5. Load(Nothing, 0) \in ListType /\ PagesOk(Load(Nothing, 0), Selected)  BY <2>3, <2>4
  <2>. QED  BY <2>1, <2>2, <2>5, <1>0, ListsAfter
<1>7. ASSUME RefetchNext  PROVE PagesInv'
  <2>1. /\ HasNext(refetch) /\ refetch' = Load(refetch, Last(refetch.pages).next)
        /\ db' = db /\ query' = query /\ shown' = shown /\ filterVars' = filterVars
    BY <1>7 DEF RefetchNext
  <2>2. Selected' = Selected  BY <2>1, <1>a, <1>b
  <2>3. refetch.pages # <<>> /\ Last(refetch.pages).next = Reach(refetch)  BY <2>1, <1>0 DEF HasNext, PagesOk
  <2>4. query # NoQuery /\ query.limit # 0  BY <2>3, <1>0, <1>c
  <2>5. Load(refetch, Reach(refetch)) \in ListType /\ PagesOk(Load(refetch, Reach(refetch)), Selected)
    BY <2>1, <2>4, <1>0, LoadKeeps
  <2>6. refetch' \in ListType /\ PagesOk(refetch', Selected)  BY <2>1, <2>3, <2>5
  <2>. QED  BY <2>1, <2>2, <2>4, <2>6, <1>0, ListsAfter
<1>8. ASSUME RefetchDone  PROVE PagesInv'
  <2>1. /\ refetch.pages # <<>> /\ shown' = refetch /\ refetch' = Nothing
        /\ db' = db /\ query' = query /\ filterVars' = filterVars
    BY <1>8 DEF RefetchDone
  <2>2. Selected' = Selected /\ query # NoQuery /\ query.limit # 0  BY <2>1, <1>0, <1>a, <1>b, <1>c
  <2>3. Nothing \in ListType /\ PagesOk(Nothing, Selected)  BY <1>0, NothingOk
  <2>. QED  BY <2>1, <2>2, <2>3, <1>0, ListsAfter
<1>9. ASSUME NEW r \in Ids, CreateMemo(r)  PROVE PagesInv'
  <2>1. /\ query # NoQuery /\ db' = db \cup {r} /\ query' = query /\ filterVars' = filterVars
        /\ shown' = IF shown.pages = <<>> THEN shown ELSE [shown EXCEPT !.ins = @ \cup {r}]
        /\ refetch' = IF refetch.pages = <<>> THEN refetch ELSE [refetch EXCEPT !.ins = @ \cup {r}]
    BY <1>9 DEF CreateMemo
  <2>2. PICK T : T = Selected'  OBVIOUS
  <2>3. db' \subseteq Ids /\ T \in SUBSET Ids /\ Selected \subseteq T /\ T \subseteq Selected \cup {r}
    BY <2>1, <2>2, <1>0, <1>b DEF Selected
  <2>4. ASSUME NEW l \in ListType, PagesOk(l, Selected),
               NEW k, k = IF l.pages = <<>> THEN l ELSE [l EXCEPT !.ins = @ \cup {r}]
        PROVE  k \in ListType /\ PagesOk(k, T)
    <3>1. CASE l.pages = <<>>  BY <3>1, <2>3, <2>4, <1>0, NoPages
    <3>2. CASE l.pages # <<>>
      <4>1. [l EXCEPT !.ins = @ \cup {r}] \in ListType /\ PagesOk([l EXCEPT !.ins = @ \cup {r}], T)
        BY <2>3, <2>4, <1>0, CreateKeeps
      <4>. QED  BY <3>2, <4>1, <2>4
    <3>. QED  BY <3>1, <3>2
  <2>5. shown' \in ListType /\ PagesOk(shown', T)  BY <2>1, <2>4, <1>0
  <2>6. refetch' \in ListType /\ PagesOk(refetch', T)  BY <2>1, <2>4, <1>0
  <2>. QED  BY <2>1, <2>2, <2>3, <2>5, <2>6, <1>0, ListsAfter
<1>10. ASSUME NEW r \in Ids, DeleteMemo(r)  PROVE PagesInv'
  <2>1. /\ query # NoQuery /\ db' = db \ {r} /\ query' = query /\ filterVars' = filterVars
        /\ shown' = IF shown.pages = <<>> THEN shown ELSE [shown EXCEPT !.del = TRUE]
        /\ refetch' = IF refetch.pages = <<>> THEN refetch ELSE [refetch EXCEPT !.del = TRUE]
    BY <1>10 DEF DeleteMemo
  <2>2. PICK T : T = Selected'  OBVIOUS
  <2>3. db' \subseteq Ids /\ T \in SUBSET Ids /\ T \in SUBSET Selected
    BY <2>1, <2>2, <1>0, <1>b DEF Selected
  <2>4. ASSUME NEW l \in ListType, PagesOk(l, Selected),
               NEW k, k = IF l.pages = <<>> THEN l ELSE [l EXCEPT !.del = TRUE]
        PROVE  k \in ListType /\ PagesOk(k, T)
    <3>1. CASE l.pages = <<>>  BY <3>1, <2>3, <2>4, <1>0, NoPages
    <3>2. CASE l.pages # <<>>
      <4>1. [l EXCEPT !.del = TRUE] \in ListType /\ PagesOk([l EXCEPT !.del = TRUE], T)
        BY <2>3, <2>4, <1>0, DeleteKeeps
      <4>. QED  BY <3>2, <4>1, <2>4
    <3>. QED  BY <3>1, <3>2
  <2>5. shown' \in ListType /\ PagesOk(shown', T)  BY <2>1, <2>4, <1>0
  <2>6. refetch' \in ListType /\ PagesOk(refetch', T)  BY <2>1, <2>4, <1>0
  <2>. QED  BY <2>1, <2>2, <2>3, <2>5, <2>6, <1>0, ListsAfter
<1>. QED  BY <1>1, <1>2, <1>3, <1>4, <1>5, <1>6, <1>7, <1>8, <1>9, <1>10 DEF ListNext, listVars

(* What the pages show follows.                                            *)
LEMMA PagesTell == PagesInv => PagesFaithful
<1>. SUFFICES ASSUME NEW l \in ListType, PagesOk(l, Selected)  PROVE Faithful(l)
  BY DEF PagesInv, PagesFaithful
<1>1. Range(Rows(l)) = Seen(l) /\ {r \in Selected : RowOf[r].known} = There(Selected)  BY DEF Seen, There
<1>. QED  BY <1>1 DEF Faithful, PagesOk

(* Scrolling shows every memo of the list exactly once and in order while  *)
(* nothing changes; memos created meanwhile may repeat a memo but hide     *)
(* none, deleted ones may hide a memo but repeat none; and a refetch       *)
(* starts afresh (ListMemos, useInfiniteMemos).                            *)
THEOREM PagesShowTheList == ListSpec => []PagesFaithful
<1>1. ListInit => PagesInv  BY PagesInitOk
<1>2. PagesInv /\ [ListNext]_<<filterVars, listVars>> => PagesInv'  BY PagesStep
<1>3. PagesInv => PagesFaithful  BY PagesTell
<1>. QED  BY <1>1, <1>2, <1>3, PTL DEF ListSpec
=============================================================================
