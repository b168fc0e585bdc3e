---------------------------- MODULE NoteLocation ----------------------------
(***************************************************************************)
(* The location dialog of the note editor.  A place is chosen on the map,  *)
(* by typing coordinates or by the device, whose answer may come late.  A  *)
(* second after the last choice the place is looked up, and the name that  *)
(* comes back is written into the form, over what is there.  Answers are   *)
(* kept, by place.                                                         *)
(*                                                                         *)
(* A name is <<"street", s>> or, for a place the service does not know,    *)
(* <<"point", p>>; <<"typed">> is the user's own; <<>> is none.  Place 0   *)
(* is none.                                                                *)
(***************************************************************************)
EXTENDS Naturals, FiniteSets

CONSTANTS
  Streets,     \* the street of each place: several places may share one
  MaxChoices,  \* bound on places chosen, by the user or the device
  MaxVisits    \* bound on openings of the dialog

VARIABLES
  dialog,        \* locationDialogOpen
  position,      \* useLocation: state.position
  placeholder,   \* useLocation: state.placeholder
  inputs,        \* useLocation: whose coordinates the two fields show
  initialized,   \* locationInitialized
  timer,         \* the debounce timer is running
  debounced,     \* debouncedPosition
  displayName,   \* the answer for debounced, if there is one
  lookups,       \* places being looked up
  names,         \* the query cache: place -> name
  asked,         \* the device was asked for its position this many times
  location,      \* state.metadata.location of the note
  choices, visits,
  typedName      \* history: the name in the form is the user's own

locationVars == <<dialog, position, placeholder, inputs, initialized, timer, debounced, displayName,
                  lookups, names, asked, location, choices, visits, typedName>>

Places == DOMAIN Streets
NoName == <<>>
NoLocation == [position |-> 0, placeholder |-> NoName]
NamesOf(p) == {<<"street", Streets[p]>>, <<"point", p>>}

ASSUME LocationAssumption ==
  /\ Places \subseteq Nat \ {0}
  /\ MaxChoices \in Nat /\ MaxVisits \in Nat
-----------------------------------------------------------------------------
(* The form.                                                               *)

\* handlePositionChange: a new point, also one equal to the last, starts the
\* timer again.
PositionChange(p) ==
  /\ choices < MaxChoices
  /\ choices' = choices + 1
  /\ position' = p
  /\ inputs' = "position"
  /\ initialized' = TRUE
  /\ timer' = TRUE
  /\ UNCHANGED <<placeholder, debounced, displayName, lookups, names, location, typedName>>

ClickMap(p) ==
  /\ dialog
  /\ PositionChange(p)
  /\ UNCHANGED <<dialog, asked, visits>>

\* getCurrentPosition answers, whatever happened to the dialog meanwhile.
DeviceAnswers(p) ==
  /\ asked > 0
  /\ asked' = asked - 1
  /\ PositionChange(p)
  /\ UNCHANGED <<dialog, visits>>

DeviceRefuses ==
  /\ asked > 0
  /\ asked' = asked - 1
  /\ UNCHANGED <<dialog, position, placeholder, inputs, initialized, timer, debounced, displayName,
                 lookups, names, location, choices, visits, typedName>>

\* updateCoordinate: a valid number moves a place that is there.
TypeCoordinate(p) ==
  /\ dialog /\ position # 0
  /\ choices < MaxChoices
  /\ choices' = choices + 1
  /\ position' = p
  /\ inputs' = "position"
  /\ timer' = TRUE
  /\ UNCHANGED <<dialog, placeholder, initialized, debounced, displayName, lookups, names, asked,
                 location, visits, typedName>>

\* Without a place, or out of range, it stays in its field.
TypeNumber ==
  /\ dialog /\ inputs # "typed"
  /\ inputs' = "typed"
  /\ UNCHANGED <<dialog, position, placeholder, initialized, timer, debounced, displayName, lookups,
                 names, asked, location, choices, visits, typedName>>

TypeName ==
  /\ dialog /\ position # 0
  /\ placeholder' = <<"typed">>
  /\ typedName' = TRUE
  /\ UNCHANGED <<dialog, position, inputs, initialized, timer, debounced, displayName, lookups, names,
                 asked, location, choices, visits>>
-----------------------------------------------------------------------------
(* The name of the place.                                                  *)

\* The effect on displayName: a new name is written over the one in the form.
ShowName(n) ==
  /\ displayName' = n
  /\ IF n # displayName /\ n # NoName
     THEN placeholder' = n /\ typedName' = FALSE
     ELSE UNCHANGED <<placeholder, typedName>>

\* useDebouncedEffect and useReverseGeocoding: a name that is known is shown
\* at once, another is asked for.
DebounceFires ==
  /\ timer
  /\ timer' = FALSE
  /\ debounced' = position
  /\ ShowName(IF position = 0 THEN NoName ELSE names[position])
  /\ lookups' = IF position # 0 /\ names[position] = NoName THEN lookups \union {position} ELSE lookups
  /\ UNCHANGED <<dialog, position, inputs, initialized, names, asked, location, choices, visits>>

\* The name shown once the answer for p is in.
AnyAnswer(p, n) == n
\* An answer for a place that was left is only kept.
AnswerFor(p, n) == IF debounced = p THEN n ELSE displayName

\* A failed request is answered with the coordinates, and is not repeated.
LookupAnswers(p) ==
  /\ p \in lookups
  /\ lookups' = lookups \ {p}
  /\ \E n \in NamesOf(p) :
       /\ names' = [names EXCEPT ![p] = n]
       /\ ShowName(AnswerFor(p, n))
  /\ UNCHANGED <<dialog, position, inputs, initialized, timer, debounced, asked, location, choices,
                 visits>>
-----------------------------------------------------------------------------
(* Opening and closing the dialog; the note.                               *)

\* handleLocationClick asks the device when nothing was chosen yet.
OpenDialog ==
  /\ ~dialog /\ visits < MaxVisits
  /\ dialog' = TRUE
  /\ visits' = visits + 1
  /\ asked' = IF location = NoLocation /\ ~initialized THEN asked + 1 ELSE asked
  /\ UNCHANGED <<position, placeholder, inputs, initialized, timer, debounced, displayName, lookups,
                 names, location, choices, typedName>>

\* getLocation needs both.
ConfirmLocation ==
  /\ dialog /\ position # 0 /\ placeholder # NoName
  /\ location' = [position |-> position, placeholder |-> placeholder]
  /\ dialog' = FALSE
  /\ UNCHANGED <<position, placeholder, inputs, initialized, timer, debounced, displayName, lookups,
                 names, asked, choices, visits, typedName>>

\* reset empties the form; the timer starts again when a place was chosen.
CancelLocation ==
  /\ dialog
  /\ dialog' = FALSE
  /\ position' = 0 /\ placeholder' = NoName /\ inputs' = "empty"
  /\ initialized' = FALSE
  /\ timer' = (timer \/ position # 0)
  /\ typedName' = FALSE
  /\ UNCHANGED <<debounced, displayName, lookups, names, asked, location, choices, visits>>

\* Escape or a click outside keeps the form.
DismissDialog ==
  /\ dialog
  /\ dialog' = FALSE
  /\ UNCHANGED <<position, placeholder, inputs, initialized, timer, debounced, displayName, lookups,
                 names, asked, location, choices, visits, typedName>>

\* The cross beside the location, or a save, which resets the editor: the form
\* of the dialog keeps what it had.
LocationRemoved ==
  /\ ~dialog /\ location # NoLocation
  /\ location' = NoLocation
  /\ UNCHANGED <<dialog, position, placeholder, inputs, initialized, timer, debounced, displayName,
                 lookups, names, asked, choices, visits, typedName>>
-----------------------------------------------------------------------------
\* The menu is mounted before the note is loaded: its form is empty even if the
\* note has a location.
LocationInit ==
  /\ dialog = FALSE
  /\ position = 0 /\ placeholder = NoName /\ inputs = "empty"
  /\ initialized = FALSE
  /\ timer = TRUE
  /\ debounced = 0 /\ displayName = NoName
  /\ lookups = {} /\ names = [p \in Places |-> NoName]
  /\ asked = 0
  /\ location \in {NoLocation} \union {[position |-> p, placeholder |-> <<"typed">>] : p \in Places}
  /\ choices = 0 /\ visits = 0
  /\ typedName = FALSE

LocationNext ==
  \/ OpenDialog \/ ConfirmLocation \/ CancelLocation \/ DismissDialog \/ LocationRemoved
  \/ \E p \in Places : ClickMap(p) \/ TypeCoordinate(p) \/ DeviceAnswers(p) \/ LookupAnswers(p)
  \/ DeviceRefuses \/ TypeNumber \/ TypeName
  \/ DebounceFires

LocationSpec == LocationInit /\ [][LocationNext]_locationVars
-----------------------------------------------------------------------------
(***************************************************************************)
(* Once the form has settled - no timer and no lookup of its place - the   *)
(* name in it is the user's own or belongs to the place in it, in whatever *)
(* order places were chosen, left and looked up; it is never the name of a *)
(* place that was left.  It may be missing: a form that was cancelled and  *)
(* filled again with a place of the same name within a second gets none.   *)
(***************************************************************************)
NameOfPlace ==
  ~timer /\ position # 0 /\ position \notin lookups /\ ~typedName
  => placeholder \in NamesOf(position) \union {NoName}
=============================================================================
