-------------------------------- MODULE MCForms --------------------------------
(* What a user of the web client types, followed in one of its parts: a form      *)
(* (Forms), the lines of one (LineEditor), the import page, the file it reads     *)
(* (ProductCsv) or the search boxes.  The parts that are not followed rest where  *)
(* they start.                                                                 *)
(*                                                                             *)
(* Two records, two entries, two saves and one row changed by someone else: an   *)
(* entry typed on each record, a save and its retry or the save of the other      *)
(* record.  Two products on two lines; three files; names and descriptions of up  *)
(* to three symbols in a file; two texts to search for.                          *)
EXTENDS Forms, LineEditor, ImportWizard, ProductCsv, SearchBoxes, TLC

VARIABLE following

MaxText == 3
Sku(n) == [i \in 1 .. n |-> "w"]
Plain(n) == [sku |-> Sku(n), name |-> <<"w">>, description |-> <<>>]
StoredTexts == {t \in UNION {[1 .. n -> Symbols] : n \in 0 .. MaxText} : Trim(t) = t}
FirstProducts ==
  {[Plain(1) EXCEPT !.name = t, !.description = <<"w">>] : t \in StoredTexts \ {<<>>}}
    \cup {[Plain(1) EXCEPT !.description = t] : t \in StoredTexts}

\* SKUs are unique in one workspace; a file put together by hand may repeat one.
MCCatalogs ==
  {<<p, Plain(2)>> : p \in FirstProducts}
    \cup {<<Plain(1), Plain(2), Plain(1)>>, <<Plain(1), Plain(2), Plain(3), Plain(4)>>}
MCWorkspaces == {{}, {Sku(2)}}

MCInit ==
  /\ following \in {"form", "lines", "import", "file", "search"}
  /\ IF following = "file" THEN CsvInit ELSE CsvStart(<<>>, <<>>, {})
  /\ FormInit /\ LineInit /\ WizardInit /\ SearchInit
  /\ following # "form" => drawer = "order"
  /\ following # "lines" => editor = "order"

MCNext ==
  /\ UNCHANGED following
  /\ \/ following = "form" /\ FormNext /\ UNCHANGED <<lineVars, wizardVars, csvVars, searchVars>>
     \/ following = "lines" /\ LineNext /\ UNCHANGED <<formVars, wizardVars, csvVars, searchVars>>
     \/ following = "import" /\ WizardNext /\ UNCHANGED <<formVars, lineVars, csvVars, searchVars>>
     \/ following = "file" /\ CsvNext /\ UNCHANGED <<formVars, lineVars, wizardVars, searchVars>>
     \/ following = "search" /\ SearchNext /\ UNCHANGED <<formVars, lineVars, wizardVars, csvVars>>

MCSpec == MCInit /\ [][MCNext]_<<following, formVars, lineVars, wizardVars, csvVars, searchVars>>
Alike == Permutations(Records) \cup Permutations(Products)
=============================================================================
