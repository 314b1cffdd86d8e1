----------------------------- MODULE ImportWizard -----------------------------
(***************************************************************************)
(* The import page: a CSV file is selected and read, previewed by the server  *)
(* as an import run, and the run is committed by useCommandMutation.  A file   *)
(* is known by the version it got when it was selected, and a run by the file  *)
(* it is a preview of.                                                       *)
(***************************************************************************)
EXTENDS Integers

CONSTANT MaxFiles \* bound: files selected

ASSUME WizardAssumption == MaxFiles \in Nat

VARIABLES
  fileVersion, \* version of the file selected last; also if it was too large, or none
  reads,       \* files being read
  reading,     \* the page says so
  csv,         \* the text: the file it is of
  previewing,  \* the preview under way: the text sent, and the version it was for
  preview,     \* the run that is shown
  committed,   \* the run whose final result is shown
  commit       \* state of useCommandMutation

wizardVars == <<fileVersion, reads, reading, csv, previewing, preview, committed, commit>>

NoFile  == 0
Earlier == -1 \* a run of before the last reload
NoPreview == [csv |-> NoFile, version |-> NoFile]
NoCommit  == [intent |-> NoFile, pc |-> "idle", unknown |-> FALSE, expired |-> FALSE]

WizardInit ==
  /\ fileVersion = NoFile /\ reads = {} /\ reading = FALSE /\ csv = NoFile
  /\ previewing = NoPreview /\ preview = NoFile /\ committed = NoFile /\ commit = NoCommit

CommitPending == commit.pc # "idle"
CommitLocked  == CommitPending \/ commit.unknown
Previewing    == previewing # NoPreview

-----------------------------------------------------------------------------
(* Selecting and reading a file.                                             *)

SelectFile(readable) ==
  /\ ~CommitLocked /\ fileVersion < MaxFiles
  /\ fileVersion' = fileVersion + 1
  /\ preview' = NoFile /\ committed' = NoFile /\ csv' = NoFile
  /\ reading' = readable
  /\ reads' = IF readable THEN reads \cup {fileVersion'} ELSE reads
  /\ UNCHANGED <<previewing, commit>>

FileRead(version) ==
  /\ version \in reads /\ reads' = reads \ {version}
  /\ IF version = fileVersion
     THEN csv' \in {version, NoFile} /\ reading' = FALSE
     ELSE UNCHANGED <<csv, reading>>
  /\ UNCHANGED <<fileVersion, previewing, preview, committed, commit>>

-----------------------------------------------------------------------------
(* Preview.                                                                  *)

PreviewCsv ==
  /\ csv # NoFile /\ ~reading /\ ~Previewing /\ ~CommitLocked /\ committed = NoFile
  /\ preview' = NoFile
  /\ previewing' = [csv |-> csv, version |-> fileVersion]
  /\ UNCHANGED <<fileVersion, reads, reading, csv, committed, commit>>

PreviewAnsweredLate ==
  /\ Previewing /\ previewing' = NoPreview
  /\ preview' = previewing.csv
  /\ UNCHANGED <<fileVersion, reads, reading, csv, committed, commit>>
PreviewAnswered ==
  /\ Previewing /\ previewing' = NoPreview
  /\ preview' = IF previewing.version = fileVersion THEN previewing.csv ELSE preview
  /\ UNCHANGED <<fileVersion, reads, reading, csv, committed, commit>>
PreviewFails ==
  /\ Previewing /\ previewing' = NoPreview
  /\ UNCHANGED <<fileVersion, reads, reading, csv, preview, committed, commit>>

-----------------------------------------------------------------------------
(* Commit.                                                                   *)

\* mutate: a request whose outcome is unknown goes first, and may be too old.
CommitRun(run) ==
  /\ \/ commit' = [commit EXCEPT !.intent = IF @ = NoFile THEN run ELSE @, !.pc = "sent"]
     \/ commit.intent # NoFile /\ commit' = [commit EXCEPT !.expired = TRUE, !.unknown = TRUE]
  /\ UNCHANGED <<fileVersion, reads, reading, csv, previewing, preview, committed>>

CommitValidRows ==
  /\ preview # NoFile /\ committed = NoFile
  /\ ~CommitPending /\ ~commit.expired /\ ~Previewing
  /\ CommitRun(preview)
RecoverCommit ==
  /\ commit.unknown /\ ~commit.expired /\ ~CommitPending
  /\ CommitRun(commit.intent)

CommitSucceeds ==
  /\ CommitPending /\ commit' = NoCommit
  /\ committed' = commit.intent /\ preview' = commit.intent
  /\ UNCHANGED <<fileVersion, reads, reading, csv, previewing>>
CommitFails ==
  /\ CommitPending
  /\ commit' \in {[commit EXCEPT !.pc = "idle", !.unknown = TRUE],
                  IF commit.unknown THEN [commit EXCEPT !.pc = "idle"] ELSE NoCommit}
  /\ UNCHANGED <<fileVersion, reads, reading, csv, previewing, preview, committed>>

ResolveCommit ==
  /\ commit.expired /\ commit' = NoCommit
  /\ UNCHANGED <<fileVersion, reads, reading, csv, previewing, preview, committed>>

ReloadWizard ==
  /\ fileVersion' = NoFile /\ reads' = {} /\ reading' = FALSE /\ csv' = NoFile
  /\ previewing' = NoPreview /\ preview' = NoFile /\ committed' = NoFile
  /\ IF commit.intent = NoFile THEN commit' = NoCommit
     ELSE \E expired \in BOOLEAN :
            commit' = [intent |-> Earlier, pc |-> "idle", unknown |-> TRUE, expired |-> expired]

WizardNext ==
  \/ \E readable \in BOOLEAN : SelectFile(readable)
  \/ \E version \in reads : FileRead(version)
  \/ PreviewCsv \/ PreviewAnswered \/ PreviewFails
  \/ CommitValidRows \/ RecoverCommit \/ CommitSucceeds \/ CommitFails \/ ResolveCommit
  \/ ReloadWizard

WizardSpec == WizardInit /\ [][WizardNext]_wizardVars

-----------------------------------------------------------------------------
(* Properties.                                                              *)

\* The results on the page are of the file that is selected, or of the commit that
\* has just been recovered; what the commit button sends, and what a request whose
\* outcome is unknown has sent, is the run that is shown.
ShowsTheSelectedFile ==
  /\ csv \in {NoFile, fileVersion}
  /\ preview \in {NoFile, fileVersion, committed}
  /\ committed # NoFile => preview = committed
  /\ commit.intent # NoFile /\ preview # NoFile => preview = commit.intent
=============================================================================
