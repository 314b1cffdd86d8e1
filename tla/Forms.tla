--------------------------------- MODULE Forms ---------------------------------
(***************************************************************************)
(* A form of the web client in its drawer: what the user has typed into it,  *)
(* the save under way, and the answers, fetches, page changes and reloads     *)
(* that come between.  A behaviour follows one of the five drawers.           *)
(*                                                                         *)
(* What is typed is a set of entries.  A form holds the entries it was reset  *)
(* to (base, not dirty) and those typed since.  Receipts, adjustments and new *)
(* orders are sent by useCommandMutation, the rest by a plain mutation.       *)
(***************************************************************************)
EXTENDS Naturals

CONSTANTS
  Records,    \* orders, products or partners that exist
  New,        \* the record a form is about to create, or has just created
  None,
  MaxEntries, \* bound: entries the user types
  MaxSaves    \* bound: saves and retries

ASSUME FormsAssumption ==
  /\ New \notin Records /\ None \notin Records /\ MaxEntries \in Nat /\ MaxSaves \in Nat
  /\ \A row \in SUBSET (0 .. MaxEntries) : row # None

VARIABLES
  drawer,  \* the drawer followed
  at,      \* the page: the list, a record, or the form; orders keep it in the URL
  fields,  \* what the form holds
  image,   \* the image selected for a product
  save,    \* the request under way
  hook,    \* state of useCommandMutation
  content, \* rows of the server
  detail,  \* rows the client has cached, None if it has not
  entries, saves,
  typedIn, \* history: the record on the form when an entry was typed
  written, \* history: the entries that were saved, with the record they went to
  givenUp, \* history: entries the user has left behind, asked or not
  exposed  \* history: entries that the forms do not protect, see NothingLost

formVars == <<drawer, at, fields, image, save, hook, content, detail, entries, saves,
              typedIn, written, givenUp, exposed>>
history  == <<entries, saves, typedIn, written, givenUp, exposed>>

Rows     == {"product", "partner"}             \* opened from the rows of a list
ByIntent == {"order", "receipt", "adjustment"} \* created by useCommandMutation

Place(kind, rec) == [kind |-> kind, rec |-> rec, copy |-> {}]
ListPage == Place("list", None)
Blank    == [base |-> {}, typed |-> {}, conflict |-> FALSE]
NoIntent == [intent |-> {}, variables |-> {}, restored |-> {}, unknown |-> FALSE, expired |-> FALSE]
NoSave   == [pc |-> "idle", to |-> None, holds |-> {}, image |-> {}, keyed |-> FALSE]

FormInit ==
  /\ drawer \in Rows \cup ByIntent
  /\ at = ListPage /\ fields = Blank /\ image = {} /\ save = NoSave /\ hook = NoIntent
  /\ content = [r \in Records \cup {New} |-> {}]
  /\ detail = [r \in Records |-> IF drawer = "order" THEN None ELSE {}]
  /\ entries = 0 /\ saves = 0
  /\ typedIn = [e \in 1 .. MaxEntries |-> None]
  /\ written = {} /\ givenUp = {} /\ exposed = {}

Pending == save.pc # "idle"
FormOpen ==
  \/ at.kind = "new"
  \/ at.kind = "edit" /\ (drawer = "order" => detail[at.rec] # None)

\* createLocked and, of the other two commands, outcomeUnknown.
Locked == at.kind = "new" /\ hook.unknown

-----------------------------------------------------------------------------
(* Resets.  An effect of the drawer resets the form when what it depends on   *)
(* has changed, whatever the handler has left in it.                          *)

OrderDepsOnFetch ==
  IF FormOpen
  THEN <<at.kind, at.rec, hook.variables, IF at.kind = "edit" THEN detail[at.rec] ELSE {}>>
  ELSE <<>>
OrderDepsNotOrder == IF FormOpen THEN <<at.kind, hook.variables>> ELSE <<>>
OrderDeps   == IF FormOpen THEN <<at.kind, at.rec, hook.variables>> ELSE <<>>
ProductDeps == <<at.kind, at.rec, at.copy>>
PartnerDeps == <<at.kind, at.rec, at.copy>>
Deps ==
  CASE drawer = "order"   -> OrderDeps
    [] drawer = "product" -> ProductDeps
    [] drawer = "partner" -> PartnerDeps
    [] drawer \in {"receipt", "adjustment"} -> <<>>

OrderDefaults == IF at.kind = "edit" THEN detail[at.rec] ELSE hook.variables
Defaults      == IF drawer = "order" THEN OrderDefaults ELSE at.copy

Rerender(handled) ==
  fields' = IF Deps' \in {Deps, <<>>} THEN handled ELSE [Blank EXCEPT !.base = Defaults']

-----------------------------------------------------------------------------
(* Pages.                                                                   *)

OpenNew ==
  /\ at.kind = "list" /\ at' = Place("new", New) /\ image' = {}
  /\ UNCHANGED <<drawer, save, hook, content, detail, history>>
  /\ Rerender(fields)

OpenOrder(r) ==
  /\ drawer = "order" /\ at.kind = "list" /\ at' = Place("detail", r)
  /\ UNCHANGED <<drawer, image, save, hook, content, detail, history>>
  /\ Rerender(fields)

EditOrder ==
  /\ at.kind = "detail" /\ detail[at.rec] # None /\ at' = Place("edit", at.rec)
  /\ UNCHANGED <<drawer, image, save, hook, content, detail, history>>
  /\ Rerender(fields)

\* The form keeps the row that was clicked.
EditRow(r) ==
  /\ drawer \in Rows /\ at.kind = "list"
  /\ at' = [Place("edit", r) EXCEPT !.copy = detail[r]] /\ image' = {}
  /\ UNCHANGED <<drawer, save, hook, content, detail, history>>
  /\ Rerender(fields)

\* Back, Forward, a link or the command palette leads to a URL of the orders
\* section.  Nothing asks about the text on the form.
Urls == {ListPage, Place("new", New)} \cup {Place(kind, r) : kind \in {"detail", "edit"}, r \in Records}
GoTo(url) ==
  /\ drawer = "order" /\ url # at /\ at' = url
  /\ givenUp' = givenUp \cup fields.typed
  /\ UNCHANGED <<drawer, image, save, hook, content, detail, entries, saves, typedIn, written, exposed>>
  /\ Rerender(fields)

-----------------------------------------------------------------------------
(* The fields, and when they can be typed into.                              *)

OrderFields      == ~Pending /\ ~Locked
ReceiptFields    == ~Pending /\ ~hook.unknown
AdjustmentFields == ~Pending /\ ~hook.unknown
ProductFields    == TRUE
PartnerFields    == TRUE

Enabled ==
  CASE drawer = "order"      -> OrderFields
    [] drawer = "receipt"    -> ReceiptFields
    [] drawer = "adjustment" -> AdjustmentFields
    [] drawer = "product"    -> ProductFields
    [] drawer = "partner"    -> PartnerFields

Entered ==
  /\ FormOpen /\ entries < MaxEntries
  /\ entries' = entries + 1
  /\ typedIn' = [typedIn EXCEPT ![entries'] = at.rec]
  /\ exposed' = IF Pending THEN exposed \cup {entries'} ELSE exposed
  /\ UNCHANGED <<drawer, at, save, hook, content, detail, saves, written>>

TypeInto ==
  /\ Enabled /\ Entered
  /\ fields' = [fields EXCEPT !.typed = @ \cup {entries'}]
  /\ UNCHANGED <<image, givenUp>>

SelectImage == Entered /\ image' = {entries'} /\ givenUp' = givenUp \cup image
ClearImage ==
  /\ image # {} /\ image' = {} /\ givenUp' = givenUp \cup image
  /\ UNCHANGED <<drawer, at, fields, save, hook, content, detail, entries, saves, typedIn,
                 written, exposed>>

\* The file input is disabled while a save is under way, the drop zone is not.
\* A file of another type or size clears the selection.
DropImage ==
  /\ drawer = "product" /\ FormOpen
  /\ (SelectImage /\ UNCHANGED fields) \/ ClearImage
DiscardImage == drawer = "product" /\ FormOpen /\ ~Pending /\ ClearImage

-----------------------------------------------------------------------------
(* Closing, by Escape, the backdrop, the cross or Cancel.                    *)

\* The user agrees to discard unsaved changes; a user who does not changes nothing.
CloseFormSafely(dirty) ==
  /\ image' = {}
  /\ givenUp' = IF dirty THEN givenUp \cup fields.typed \cup image ELSE givenUp
Kept == UNCHANGED <<image, givenUp, hook>>
Reset == [hook EXCEPT !.variables = hook.restored]

CloseTo(place) ==
  /\ FormOpen /\ at' = place
  /\ UNCHANGED <<drawer, save, content, detail, entries, saves, typedIn, written, exposed>>

\* A new order draft whose outcome is unknown stays, and so does a receipt or an
\* adjustment.
OrderClose ==
  /\ drawer = "order" /\ ~Pending
  /\ CloseTo(IF at.kind = "edit" THEN Place("detail", at.rec) ELSE ListPage)
  /\ IF Locked THEN Kept /\ Rerender(fields)
     ELSE CloseFormSafely(fields.typed # {}) /\ UNCHANGED hook /\ Rerender(Blank)
ReceiptClose ==
  /\ drawer = "receipt" /\ ~Pending /\ CloseTo(ListPage)
  /\ IF Locked THEN Kept /\ UNCHANGED fields
     ELSE CloseFormSafely(fields.typed # {}) /\ hook' = Reset /\ fields' = Blank
\* form.reset() goes back to what the form was last reset to.
AdjustmentClose ==
  /\ drawer = "adjustment" /\ ~Pending /\ CloseTo(ListPage)
  /\ IF Locked THEN Kept /\ UNCHANGED fields
     ELSE /\ CloseFormSafely(fields.typed # {}) /\ hook' = Reset
          /\ fields' = [fields EXCEPT !.typed = {}]

\* These can be closed while a save is under way.
ProductDirty == fields.typed # {} \/ image # {}
ProductClose ==
  /\ drawer = "product" /\ CloseTo(ListPage)
  /\ CloseFormSafely(ProductDirty) /\ UNCHANGED hook /\ Rerender(fields)
PartnerClose ==
  /\ drawer = "partner" /\ CloseTo(ListPage)
  /\ CloseFormSafely(fields.typed # {}) /\ UNCHANGED hook /\ Rerender(fields)

-----------------------------------------------------------------------------
(* Saving.                                                                  *)

Holds == fields.base \cup fields.typed
Request(to, holds, keyed) ==
  /\ saves < MaxSaves /\ saves' = saves + 1
  /\ save' = [pc |-> "sent", to |-> to, holds |-> holds, image |-> image, keyed |-> keyed]
Sending ==
  UNCHANGED <<drawer, at, image, content, detail, entries, typedIn, written, givenUp, exposed>>

\* mutate: the saved request goes out again, or is found to be too old for that;
\* without one the form is saved as the request and sent.
Mutate ==
  LET intent == IF hook.intent = {} THEN Holds ELSE hook.intent
  IN \/ /\ intent # {} /\ Request(New, intent, TRUE)
        /\ hook' = [hook EXCEPT !.intent = intent, !.variables = intent]
     \/ /\ hook.intent # {}
        /\ hook' = [hook EXCEPT !.expired = TRUE, !.unknown = TRUE] /\ UNCHANGED <<save, saves>>

OrderSubmit ==
  /\ drawer = "order" /\ FormOpen /\ ~Pending /\ ~Locked /\ Sending
  /\ IF at.kind = "edit" THEN Request(at.rec, Holds, FALSE) /\ UNCHANGED hook ELSE Mutate
  /\ Rerender(fields)
OrderRetry ==
  /\ drawer = "order" /\ FormOpen /\ Locked /\ ~hook.expired /\ ~Pending /\ Sending
  /\ Mutate /\ Rerender(fields)
ReceiptSubmit ==
  /\ drawer = "receipt" /\ FormOpen /\ ~Pending /\ ~hook.expired /\ Sending
  /\ Mutate /\ UNCHANGED fields
AdjustmentSubmit ==
  /\ drawer = "adjustment" /\ FormOpen /\ ~Pending /\ ~hook.expired /\ Sending
  /\ Mutate /\ UNCHANGED fields
ProductSubmit ==
  /\ drawer = "product" /\ FormOpen /\ ~Pending /\ Sending
  /\ at.kind = "new" => Holds # {}
  /\ Request(at.rec, Holds, FALSE) /\ UNCHANGED <<hook, fields>>
PartnerSubmit ==
  /\ drawer = "partner" /\ FormOpen /\ ~Pending /\ Sending
  /\ at.kind = "new" => Holds # {}
  /\ Request(at.rec, Holds, FALSE) /\ UNCHANGED <<hook, fields>>

\* "I verified the outcome".
Resolve ==
  /\ FormOpen /\ Locked /\ hook.expired
  /\ hook' = [intent |-> {}, variables |-> hook.restored, restored |-> hook.restored,
              unknown |-> FALSE, expired |-> FALSE]
  /\ givenUp' = givenUp \cup hook.intent
  /\ UNCHANGED <<drawer, at, image, save, content, detail, entries, saves, typedIn, written, exposed>>
  /\ Rerender(fields)

\* A row that someone else changes holds an entry of theirs; bound: one row does.
Theirs == 0

Execute(images) ==
  /\ content' = [content EXCEPT ![save.to] = save.holds]
  /\ written' = written \cup {<<e, save.to>> : e \in (save.holds \ {Theirs}) \cup images}

\* A product is saved first, and its image with a request of its own.
SaveExecuted ==
  /\ save.pc = "sent"
  /\ \/ Execute(save.image) /\ save' = [save EXCEPT !.pc = "saved"]
     \/ save.image # {} /\ Execute({}) /\ save' = [save EXCEPT !.pc = "imageFailed"]
  /\ UNCHANGED <<drawer, at, fields, image, hook, detail, entries, saves, typedIn, givenUp, exposed>>

SaveFails ==
  /\ \/ save.pc = "sent" /\ save' = [save EXCEPT !.pc = "refused"]
     \/ save.pc \in {"sent", "saved"} /\ save' = [save EXCEPT !.pc = "lost"]
  /\ UNCHANGED <<drawer, at, fields, image, hook, content, detail, history>>

-----------------------------------------------------------------------------
(* Answers.                                                                 *)

\* onFormSaved reads the URL of the moment.  A created order is shown, and not
\* followed any further.
AfterCreate == IF drawer = "order" /\ at.kind = "edit" THEN Place("detail", at.rec) ELSE ListPage
AfterUpdate == Place("detail", IF at.kind = "edit" THEN at.rec ELSE save.to)

CreateSucceeds ==
  /\ save.pc = "saved" /\ save.keyed /\ save' = NoSave
  /\ hook' = [hook EXCEPT !.intent = {}, !.unknown = FALSE, !.expired = FALSE]
  /\ at' = AfterCreate
  /\ UNCHANGED <<drawer, image, content, detail, history>>
  /\ Rerender(IF drawer = "adjustment" THEN [fields EXCEPT !.typed = {}] ELSE Blank)

UpdateSucceeds ==
  /\ save.pc = "saved" /\ drawer = "order" /\ ~save.keyed /\ save' = NoSave
  /\ detail' = [detail EXCEPT ![save.to] = save.holds]
  /\ at' = AfterUpdate
  /\ UNCHANGED <<drawer, image, hook, content, history>>
  /\ Rerender([fields EXCEPT !.conflict = FALSE])

\* The form that is open closes, be it the one that was saved or another.
RowSaved ==
  /\ save.pc = "saved" /\ drawer \in Rows /\ save' = NoSave
  /\ at' = ListPage /\ image' = {}
  /\ UNCHANGED <<drawer, hook, content, detail, history>>
  /\ Rerender(fields)

\* ProductImageSaveError: the saved product is opened, with the image selected now.
ImageFails ==
  /\ save.pc = "imageFailed" /\ save' = NoSave
  /\ at' = [Place("edit", save.to) EXCEPT !.copy = save.holds]
  /\ fields' = [Blank EXCEPT !.base = save.holds]
  /\ UNCHANGED <<drawer, image, hook, content, detail, history>>

\* A refused new order stays on the form as what the form was reset to.
SaveRefused ==
  /\ save.pc = "refused" /\ save' = NoSave
  /\ hook' = IF save.keyed /\ ~hook.unknown THEN [hook EXCEPT !.intent = {}] ELSE hook
  /\ exposed' = IF drawer = "order" /\ save.keyed THEN exposed \cup save.holds ELSE exposed
  /\ \E conflict \in {fields.conflict, drawer = "order" /\ ~save.keyed} :
       fields' = [fields EXCEPT !.conflict = @ \/ conflict]
  /\ UNCHANGED <<drawer, at, image, content, detail, entries, saves, typedIn, written, givenUp>>

SaveLost ==
  /\ save.pc = "lost" /\ save' = NoSave
  /\ hook' = IF save.keyed THEN [hook EXCEPT !.unknown = TRUE] ELSE hook
  /\ UNCHANGED <<drawer, at, fields, image, content, detail, history>>

-----------------------------------------------------------------------------
(* Meanwhile.                                                               *)

Elsewhere(r) ==
  /\ \A q \in Records : Theirs \notin content[q]
  /\ content' = [content EXCEPT ![r] = @ \cup {Theirs}]
  /\ UNCHANGED <<drawer, at, fields, image, save, hook, detail, history>>

\* Lists and the selected order are fetched again for many reasons.
FetchRow(r) ==
  /\ detail[r] # content[r] /\ detail' = [detail EXCEPT ![r] = content[r]]
  /\ UNCHANGED <<drawer, at, image, save, hook, content, history>>
  /\ Rerender(fields)
RowFetched(r) == (drawer = "order" => at.rec = r) /\ FetchRow(r)

\* "Review latest order", after a conflict.
ReviewLatest == drawer = "order" /\ at.kind = "edit" /\ fields.conflict /\ FetchRow(at.rec)

\* A reload asks if the form is dirty, and is final when the user agrees.
UnsavedChangesGuard(dirty) ==
  givenUp' = IF dirty THEN givenUp \cup fields.typed \cup image ELSE givenUp
\* useCommandMutation restores the saved request of this tab.
Restored(expired) ==
  [intent |-> hook.intent, variables |-> hook.intent, restored |-> hook.intent,
   unknown |-> hook.intent # {}, expired |-> expired]
Reload ==
  /\ UnsavedChangesGuard(FormOpen /\ (fields.typed # {} \/ image # {}) /\ ~Locked)
  /\ \/ save.pc = "sent" /\ Execute({})
     \/ UNCHANGED <<content, written>>
  /\ save' = NoSave /\ image' = {}
  /\ at' = IF drawer = "order" THEN at ELSE ListPage
  /\ \E expired \in {FALSE, hook.intent # {}} : hook' = Restored(expired)
  /\ detail' = [r \in Records |-> IF drawer = "order" THEN None ELSE content'[r]]
  /\ fields' = [Blank EXCEPT !.base =
       IF drawer = "order" /\ at.kind # "new" THEN {} ELSE hook.intent]
  /\ UNCHANGED <<drawer, entries, saves, typedIn, exposed>>

FormNext ==
  \/ OpenNew \/ EditOrder \/ TypeInto \/ DropImage \/ DiscardImage
  \/ OrderClose \/ ReceiptClose \/ AdjustmentClose \/ ProductClose \/ PartnerClose
  \/ OrderSubmit \/ OrderRetry \/ ReceiptSubmit \/ AdjustmentSubmit \/ ProductSubmit
  \/ PartnerSubmit \/ Resolve \/ SaveExecuted \/ SaveFails
  \/ CreateSucceeds \/ UpdateSucceeds \/ RowSaved \/ ImageFails \/ SaveRefused \/ SaveLost
  \/ ReviewLatest \/ Reload
  \/ \E r \in Records : OpenOrder(r) \/ EditRow(r) \/ Elsewhere(r) \/ RowFetched(r)
  \/ \E url \in Urls : GoTo(url)

FormSpec == FormInit /\ [][FormNext]_formVars

-----------------------------------------------------------------------------
(* Properties.                                                              *)

\* What a new draft starts with is what useCommandMutation remembers.
Remembered == hook.intent \cup (IF drawer = "order" THEN hook.variables ELSE {})
OnForm     == Holds \cup image \cup save.holds \cup save.image

\* Whatever the user has typed is on the form, in the request under way or in the
\* request remembered, or has been saved, or the user has left it behind: no fetch,
\* answer, retry, conflict or restored request takes it away.  Two kinds of entries
\* are exempt, and exposed: what is typed while a save is under way, which the
\* product and partner forms allow, and a new order that was refused, of which a
\* reload does not ask.
NothingLost ==
  (1 .. entries) \subseteq
    OnForm \cup Remembered \cup {pair[1] : pair \in written} \cup givenUp \cup exposed

\* What is saved goes to the record that was on the form when it was typed, however
\* the user went from record to record in between; again except for what is exposed.
SavedWhereTyped == \A pair \in written : pair[1] \in exposed \/ typedIn[pair[1]] = pair[2]
=============================================================================
