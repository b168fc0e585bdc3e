--------------------------- MODULE BrowseFilters ---------------------------
(***************************************************************************)
(* The filters of the memo lists live twice: as state of                   *)
(* MemoFilterProvider and as the "filter" parameter of the address.  Two   *)
(* effects and two refs keep them in step, a third effect (RootLayout)     *)
(* empties the filters when a page without the parameter is opened.        *)
(*                                                                         *)
(* A navigation changes the router at once and the page later, when its    *)
(* transition is rendered; a change of the filters is rendered first.  All *)
(* effects of one rendering run together and see the filters it rendered,  *)
(* not the ones an effect before them has just set.                        *)
(***************************************************************************)
EXTENDS Naturals, SequencesExt

CONSTANTS FilterTags, Days, SearchWords, \* values of the three factors
          Shortcuts,
          MaxClicks                      \* clicks, links, addresses and steps back

VARIABLES page,       \* the location React rendered last
          entries,    \* the history of the tab; its last location is the router's
          filters,    \* the filters of the last rendering
          queued,     \* the filters after the updates React has queued
          pending,    \* some update is queued
          lastUrl,    \* lastSyncedUrlRef
          lastStore,  \* lastSyncedStoreRef
          shortcut,   \* the chosen shortcut
          clicks,
          renders,    \* history: renderings since the last click
          intent,     \* history: the filters the last click asked for
          hasty       \* history: that click came before the page had settled

browseVars == <<page, entries, filters, queued, pending, lastUrl, lastStore, shortcut, clicks, renders, intent, hasty>>

NoShortcut == "none"

Filter(factor, value) == [factor |-> factor, value |-> value]

(* The parameter's text: what it says, and whether it is written the way   *)
(* stringifyFilters writes it (an address may be typed by hand).           *)
stringifyFilters(fs) == [says |-> fs, canonical |-> TRUE]
parseFilterQuery(param) == param.says
NoParam == stringifyFilters(<<>>)

(* A location; a memo's page remembers the list it was opened from.        *)
Location(path, param, from) == [param |-> param, path |-> path, from |-> from]
NoFrom == <<>>
Router == Last(entries)

Settled == ~pending /\ page = Router
InStep == Settled /\ parseFilterQuery(page.param) = filters

----------------------------------------------------------------------------
(* The provider.                                                           *)

addFilter(fs, f) == IF f \in ToSet(fs) THEN fs ELSE Append(fs, f)

removeFilter(fs, f) == SelectSeq(fs, LAMBDA g : g # f)

(* Mutant: the text just written is not remembered as the address's.       *)
SyncForgetsUrl(fs, url, store, from) ==
  LET text == stringifyFilters(fs)
      writes == text \notin {url, store}
  IN  /\ lastStore' = IF writes THEN text ELSE store
      /\ lastUrl' = url
      /\ entries' = IF writes THEN [entries EXCEPT ![Len(entries)] = Location(@.path, text, from)] ELSE entries

(* The effect that writes the filters into the address: the router's       *)
(* location is replaced, with the state of the rendered one.               *)
SyncToUrl(fs, url, store, from) ==
  LET text == stringifyFilters(fs)
      writes == text \notin {url, store}
  IN  /\ lastStore' = IF writes THEN text ELSE store
      /\ lastUrl' = IF writes THEN text ELSE url
      /\ entries' = IF writes THEN [entries EXCEPT ![Len(entries)] = Location(@.path, text, from)] ELSE entries

(* A change of the filters is rendered.                                    *)
RenderFilters ==
  /\ pending
  /\ filters' = queued
  /\ pending' = FALSE
  /\ SyncToUrl(queued, lastUrl, lastStore, page.from)
  /\ renders' = renders + 1
  /\ UNCHANGED <<page, queued, shortcut, clicks, intent, hasty>>

(* RootLayout: a change of the page without a filter parameter.            *)
Clears(new) == new.path # page.path /\ new.param = NoParam

(* The effect that takes the filters from the address.                     *)
Adopts(new) == new.param # page.param /\ new.param # lastUrl

(* A navigation is rendered, and the three effects run.                    *)
RenderRoute ==
  /\ ~pending
  /\ page # Router
  /\ page' = Router
  /\ queued' = IF Clears(Router) \/ Adopts(Router) THEN parseFilterQuery(Router.param) ELSE queued
  /\ pending' = (Clears(Router) \/ Adopts(Router))
  /\ LET url == IF Adopts(Router) THEN Router.param ELSE lastUrl
         store == IF Adopts(Router) THEN stringifyFilters(parseFilterQuery(Router.param)) ELSE lastStore
     IN  IF Router.param # page.param \/ Router.from # page.from
         THEN SyncToUrl(filters, url, store, Router.from)
         ELSE UNCHANGED <<lastUrl, lastStore, entries>>
  /\ renders' = renders + 1
  /\ UNCHANGED <<filters, shortcut, clicks, intent, hasty>>

----------------------------------------------------------------------------
(* What the user does.                                                     *)

Click(wanted) ==
  /\ clicks < MaxClicks
  /\ clicks' = clicks + 1
  /\ renders' = 0
  /\ intent' = wanted
  /\ hasty' = ~InStep

(* A handler that only changes the filters: it queues an update, which     *)
(* works on the filters as they are then.                                  *)
Update(changed, wanted) ==
  /\ queued' = changed
  /\ pending' = TRUE
  /\ Click(wanted)
  /\ UNCHANGED <<page, entries, filters, lastUrl, lastStore>>

OnList == page.path # "memo"

(* Whether a tag is active is read from the rendered filters.              *)
TagActive(t) == Filter("tagSearch", t) \in ToSet(filters)

(* A tag of the tag list, the tag tree or a memo in a list.                *)
TagClicked(t) ==
  LET f == Filter("tagSearch", t)
      toggle(fs) == IF TagActive(t) THEN removeFilter(fs, f) ELSE addFilter(fs, f)
  IN  OnList /\ Update(toggle(queued), toggle(filters)) /\ UNCHANGED shortcut

(* Enter in the search bar adds every word.                                *)
SearchEntered(words) ==
  LET add(fs) == FoldLeft(LAMBDA acc, w : addFilter(acc, Filter("contentSearch", w)), fs, words)
  IN  OnList /\ Update(add(queued), add(filters)) /\ UNCHANGED shortcut

(* The cross of a filter shown above the list.                             *)
ChipRemoved(f) ==
  LET remove(fs) == removeFilter(fs, f)
  IN  OnList /\ f \in ToSet(filters) /\ Update(remove(queued), remove(filters)) /\ UNCHANGED shortcut

(* A shortcut is chosen: a search is dropped.  Choosing it again only      *)
(* unsets it.                                                              *)
ShortcutClicked(s) ==
  /\ page.path = "home"
  /\ IF shortcut = s
     THEN /\ shortcut' = NoShortcut
          /\ Click(filters)
          /\ UNCHANGED <<page, entries, filters, queued, pending, lastUrl, lastStore>>
     ELSE LET others(fs) == SelectSeq(fs, LAMBDA f : f.factor # "contentSearch")
          IN  shortcut' = s /\ Update(others(queued), others(filters))

Navigate(location) ==
  /\ entries' = Append(entries, location)
  /\ Click(parseFilterQuery(location.param))
  /\ UNCHANGED <<page, filters, queued, pending, lastUrl, lastStore, shortcut>>

DayParam(d) == stringifyFilters(<<Filter("displayTime", d)>>)

(* A day of the calendar.                                                  *)
DayClicked(d) == OnList /\ Navigate(Location(page.path, DayParam(d), NoFrom))

(* A link of the navigation.                                               *)
LinkClicked(path) == Navigate(Location(path, NoParam, NoFrom))

(* A memo is opened from the list.                                         *)
MemoOpened == OnList /\ Navigate(Location("memo", NoParam, <<page.path, page.param>>))

(* A tag on a memo's page leads back to the list it was opened from, with  *)
(* that list's filters and the tag.                                        *)
TagFollowed(t) ==
  LET parent == IF page.from = NoFrom THEN <<"home", NoParam>> ELSE page.from
      inherited == parseFilterQuery(parent[2])
      source == inherited \o SelectSeq(filters, LAMBDA f : f \notin ToSet(inherited))
      f == Filter("tagSearch", t)
      next == IF f \in ToSet(source) THEN removeFilter(source, f) ELSE Append(source, f)
  IN  ~OnList /\ Navigate(Location(parent[1], stringifyFilters(next), NoFrom))

(* The browser's back button.                                              *)
GoBack ==
  /\ Len(entries) > 1
  /\ entries' = Front(entries)
  /\ Click(parseFilterQuery(entries[Len(entries) - 1].param))
  /\ UNCHANGED <<page, filters, queued, pending, lastUrl, lastStore, shortcut>>

(* An address is typed or reloaded: the application starts anew, and the   *)
(* first rendering's effects run.                                          *)
OpenAddress(location) ==
  /\ entries' = Append(entries, location)
  /\ page' = location
  /\ filters' = parseFilterQuery(location.param)
  /\ queued' = parseFilterQuery(location.param)
  /\ pending' = (location.param # NoParam)
  /\ lastUrl' = location.param
  /\ lastStore' = stringifyFilters(parseFilterQuery(location.param))
  /\ shortcut' = NoShortcut
  /\ Click(parseFilterQuery(location.param))

----------------------------------------------------------------------------
TypedParams == {NoParam} \cup {[says |-> <<Filter("tagSearch", t)>>, canonical |-> c] : t \in FilterTags, c \in BOOLEAN}

BrowseInit ==
  \E param \in TypedParams :
    /\ page = Location("home", param, NoFrom)
    /\ entries = <<page>>
    /\ filters = parseFilterQuery(param)
    /\ queued = filters
    /\ pending = (param # NoParam)
    /\ lastUrl = param
    /\ lastStore = stringifyFilters(filters)
    /\ shortcut = NoShortcut
    /\ clicks = 0
    /\ renders = 0
    /\ intent = filters
    /\ hasty = FALSE

BrowseNext ==
  \/ RenderFilters
  \/ RenderRoute
  \/ \E t \in FilterTags : TagClicked(t) \/ TagFollowed(t)
  \/ \E words \in SetToSeqs(SearchWords) : SearchEntered(words)
  \/ \E f \in ToSet(filters) : ChipRemoved(f)
  \/ \E s \in Shortcuts : ShortcutClicked(s)
  \/ \E d \in Days : DayClicked(d)
  \/ \E path \in {"home", "explore"} : LinkClicked(path)
  \/ MemoOpened
  \/ GoBack
  \/ \E param \in TypedParams : OpenAddress(Location("home", param, NoFrom))

BrowseSpec == BrowseInit /\ [][BrowseNext]_browseVars

----------------------------------------------------------------------------
(* After a click the page settles within a few renderings; then the        *)
(* address says what the filters are, and, unless the click came before    *)
(* the one before it was through, they are the filters it asked for        *)
(* (MemoFilterContext.tsx, RootLayout.tsx).                                *)
FiltersFollowClicks ==
  /\ renders <= 4
  /\ Settled /\ ~hasty => InStep /\ filters = intent
=============================================================================
