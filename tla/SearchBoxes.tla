------------------------------ MODULE SearchBoxes ------------------------------
(***************************************************************************)
(* The two search boxes that wait for a pause in the typing: the command       *)
(* palette in the header, whose results are those of a cached query, and the   *)
(* box of the order register, which keeps its search in the URL.              *)
(***************************************************************************)
CONSTANTS
  Texts,  \* what can be typed
  NoText  \* nothing, or too little to search for

ASSUME SearchAssumption == NoText \in Texts

VARIABLES
  paletteOpen,
  input, search, \* the text of the palette's box, and the one searched for
  inputTimer,    \* input is searched for when the timer ends
  found,         \* texts whose results are cached
  fetching,      \* texts that are being searched for
  searchInput, searchFromUrl, \* the same of the order register
  urlTimer,
  navigation,    \* searches of the URLs that the router is on its way to
  opened         \* history: the text in the box, and the one whose result was opened

paletteVars == <<paletteOpen, input, search, inputTimer, found, fetching, opened>>
registerVars == <<searchInput, searchFromUrl, urlTimer, navigation>>
searchVars == <<paletteVars, registerVars>>

SearchInit ==
  /\ paletteOpen = FALSE /\ input = NoText /\ search = NoText /\ inputTimer = FALSE
  /\ found = {} /\ fetching = {} /\ opened = [typed |-> NoText, of |-> NoText]
  /\ searchInput = NoText /\ searchFromUrl = NoText /\ urlTimer = FALSE /\ navigation = {}

-----------------------------------------------------------------------------
(* The command palette.                                                      *)

SearchEnabled == paletteOpen /\ search # NoText
Current == SearchEnabled /\ input = search
LoadingFetching == search \in fetching
Loading == ~Current \/ search \in fetching

\* A text is searched for when its queries become enabled and it has no results, or
\* stale ones.
Asks(open, text) ==
  LET wanted == IF open THEN {text} \ {NoText} ELSE {}
  IN \E again \in {{}, wanted} : fetching' = fetching \cup (wanted \ found) \cup again

TogglePalette ==
  /\ paletteOpen' = ~paletteOpen /\ Asks(paletteOpen', search)
  /\ UNCHANGED <<input, search, inputTimer, found, opened, registerVars>>
TypeText(t) ==
  /\ paletteOpen /\ t # input /\ input' = t /\ inputTimer' = TRUE
  /\ UNCHANGED <<paletteOpen, search, found, fetching, opened, registerVars>>
InputSettles ==
  /\ inputTimer /\ inputTimer' = FALSE
  /\ search' = input /\ Asks(paletteOpen, search')
  /\ UNCHANGED <<paletteOpen, input, found, opened, registerVars>>
Found(t) ==
  /\ t \in fetching /\ fetching' = fetching \ {t} /\ found' = found \cup {t}
  /\ UNCHANGED <<paletteOpen, input, search, inputTimer, opened, registerVars>>

Opens ==
  /\ opened' = [typed |-> input, of |-> search]
  /\ UNCHANGED <<search, found, fetching, registerVars>>
\* A link closes the palette and empties its box.
OpenResult ==
  /\ Current /\ search \in found /\ Opens
  /\ paletteOpen' = FALSE /\ input' = NoText /\ inputTimer' = TRUE
\* Enter opens the first result.
OpenFirst ==
  /\ paletteOpen /\ ~Loading /\ search \in found /\ Opens
  /\ paletteOpen' = FALSE /\ input' = NoText /\ inputTimer' = TRUE

-----------------------------------------------------------------------------
(* The order register.                                                       *)

\* The effects after a change of the box or of the URL: the URL's search goes into the
\* box if it has changed, and a timer runs if the two differ.
Effects(typed) ==
  /\ searchInput' = IF searchFromUrl' # searchFromUrl THEN searchFromUrl' ELSE typed
  /\ urlTimer' = (searchInput' # searchFromUrl')

TypeSearch(t) ==
  /\ t # searchInput /\ UNCHANGED <<searchFromUrl, navigation, paletteVars>>
  /\ Effects(t)
SearchSettles ==
  /\ urlTimer /\ urlTimer' = FALSE
  /\ navigation' = navigation \cup {searchInput}
  /\ UNCHANGED <<searchInput, searchFromUrl, paletteVars>>
UrlChanges(t) ==
  /\ searchFromUrl' = t /\ UNCHANGED paletteVars
  /\ Effects(searchInput)
\* The router has got there, or the user goes back and forth or follows a link.
Navigated(t) == t \in navigation /\ navigation' = navigation \ {t} /\ UrlChanges(t)
GoBack(t)    == t # searchFromUrl /\ UNCHANGED navigation /\ UrlChanges(t)

SearchNext ==
  \/ TogglePalette \/ InputSettles \/ OpenResult \/ OpenFirst \/ SearchSettles
  \/ \E t \in Texts : TypeText(t) \/ Found(t) \/ TypeSearch(t) \/ Navigated(t) \/ GoBack(t)

SearchSpec == SearchInit /\ [][SearchNext]_searchVars

-----------------------------------------------------------------------------
(* Properties.                                                              *)

\* The result that a link or Enter opens is one of the text in the box, not of what
\* was typed before; and the register rests on the search its box shows.
ListsWhatIsTyped ==
  /\ opened.typed = opened.of
  /\ ~urlTimer /\ navigation = {} => searchInput = searchFromUrl
=============================================================================
