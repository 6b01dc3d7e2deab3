--------------------------- MODULE WorkbenchProofs ---------------------------
(***************************************************************************)
(* The invariants of the parts hold in the composition: a step of the      *)
(* workbench is a step of the part in focus, so what each part's own       *)
(* theorem says of it (EditingProofs, AnswersProofs) holds of the workbench *)
(* as a whole.                                                             *)
(***************************************************************************)
EXTENDS MCWorkbench, EditingProofs, AnswersProofs

\* The invariants of the parts, each while it is in focus.
EditingInv ==
  /\ focus = "documents" => DocsInv
  /\ focus = "drafts" => DraftsInv
  /\ focus = "switch" => SwitchInv
  /\ focus = "picker" => PickerInv
  /\ focus = "pane" => PaneInv
AnswersInv ==
  /\ focus = "search" => SearchInv
  /\ focus = "palette" => PaletteInv
  /\ focus = "pdf" => PreviewInv
  /\ focus = "markdown" => MInv
  /\ focus = "launcher" => LInv
  /\ focus = "control" => ControlInv
  /\ focus = "hunks" => HunksInv

\* The part in focus starts as it does on its own.
LEMMA PartsStart ==
  ASSUME Init
  PROVE  /\ focus = "documents" => DocumentsInit
         /\ focus = "drafts" => DraftsInit
         /\ focus = "switch" => SwitchInit
         /\ focus = "search" => SearchInit
         /\ focus = "palette" => PaletteInit
         /\ focus = "pdf" => PreviewInit
         /\ focus = "markdown" => MarkdownInit
         /\ focus = "launcher" => LauncherInit
         /\ focus = "picker" => PickerInit
         /\ focus = "pane" => PaneInit
         /\ focus = "control" => ControlInit
         /\ focus = "hunks" => HunksInit
BY DEF Init

\* A step of the workbench is one of the part in focus, and the focus stays.
LEMMA PartsStep ==
  ASSUME [Next]_workbenchVars
  PROVE  /\ focus' = focus
         /\ focus = "documents" => [DocumentsNext]_docVars
         /\ focus = "drafts" => [DraftsNext]_draftVars
         /\ focus = "switch" => [SwitchNext]_switchVars
         /\ focus = "search" => [SearchNext]_searchVars
         /\ focus = "palette" => [PaletteNext]_paletteVars
         /\ focus = "pdf" => [PreviewNext]_previewVars
         /\ focus = "markdown" => [MarkdownNext]_markdownVars
         /\ focus = "launcher" => [LauncherNext]_launcherVars
         /\ focus = "picker" => [PickerNext]_pickerVars
         /\ focus = "pane" => [PaneNext]_paneVars
         /\ focus = "control" => [ControlNext]_controlVars
         /\ focus = "hunks" => [HunksNext]_hunkVars
<1>1. CASE Next
  BY <1>1 DEF Next
<1>2. CASE UNCHANGED workbenchVars
  BY <1>2 DEF workbenchVars, docVars, draftVars, switchVars, searchVars, paletteVars, previewVars,
    markdownVars, launcherVars, pickerVars, paneVars, historyVars, controlVars, hunkVars,
    documentsPart, draftsPart, switchPart, searchPart, palettePart, pdfPart, markdownPart,
    launcherPart, pickerPart, panePart, historyPart, controlPart, hunksPart
<1> QED BY <1>1, <1>2

\* The assumptions on the constants of the parts.
LEMMA PartsAssume ==
  /\ DocumentsAssumption /\ DocsAssumption /\ SwitchAssumption
  /\ SearchAssumption /\ PaletteAssumption /\ PreviewAssumption /\ MarkdownAssumption
BY DocumentsAssumption, DocsAssumption, SwitchAssumption, SearchAssumption, PaletteAssumption,
   PreviewAssumption, MarkdownAssumption

\* At first the part in focus has its invariant.
LEMMA EditingStarts == Init => EditingInv
BY PartsStart, PartsAssume, DocsInits, DraftsInits, SwitchInits, PickerInits, PaneInits
DEF EditingInv

\* Every step keeps it.
LEMMA EditingSteps == ASSUME EditingInv, [Next]_workbenchVars PROVE EditingInv'
<1>1. focus = "documents" => DocsInv'
  BY PartsStep, PartsAssume, DocsSteps DEF EditingInv
<1>2. focus = "drafts" => DraftsInv'
  BY PartsStep, PartsAssume, DraftsSteps DEF EditingInv
<1>3. focus = "switch" => SwitchInv'
  BY PartsStep, PartsAssume, SwitchSteps DEF EditingInv
<1>4. focus = "picker" => PickerInv'
  BY PartsStep, PickerSteps DEF EditingInv
<1>5. focus = "pane" => PaneInv'
  BY PartsStep, PaneSteps DEF EditingInv
<1> QED BY <1>1, <1>2, <1>3, <1>4, <1>5, PartsStep DEF EditingInv

\* At first the part in focus has its invariant.
LEMMA AnswersStart == Init => AnswersInv
BY PartsStart, PartsAssume, SearchInits, PaletteInits, PreviewInits, InitMInv, InitLInv,
  ControlInits, HunksInits DEF AnswersInv

\* Every step keeps it.
LEMMA AnswersStep == ASSUME AnswersInv, [Next]_workbenchVars PROVE AnswersInv'
<1>1. focus = "search" => SearchInv'
  BY PartsStep, PartsAssume, SearchSteps DEF AnswersInv
<1>2. focus = "palette" => PaletteInv'
  BY PartsStep, PartsAssume, PaletteSteps DEF AnswersInv
<1>3. focus = "pdf" => PreviewInv'
  BY PartsStep, PartsAssume, PreviewSteps, PreviewStutters DEF AnswersInv
<1>4. focus = "markdown" => MInv'
  BY PartsStep, PartsAssume, NextMInv DEF AnswersInv
<1>5. focus = "launcher" => LInv'
  BY PartsStep, NextLInv DEF AnswersInv
<1>6. focus = "control" => ControlInv'
  BY PartsStep, ControlSteps DEF AnswersInv
<1>7. focus = "hunks" => HunksInv'
  BY PartsStep, HunksSteps DEF AnswersInv
<1> QED BY <1>1, <1>2, <1>3, <1>4, <1>5, <1>6, <1>7, PartsStep DEF AnswersInv

\* What was typed into a file is in its draft or has been in the file, and what was typed
\* into a document without a file is in the journal once its backup has arrived, or the
\* user was told (GitnaReviewUI.tsx, useUntitledDocuments, drafts/journal.go): for any files,
\* texts, documents and bounds.
THEOREM TypedIsNotLost == Spec => []NothingTypedIsLost
<1>1. EditingInv => NothingTypedIsLost
  BY PartsAssume, DocsImply, DraftsImply DEF EditingInv, NothingTypedIsLost
<1>2. EditingInv /\ [Next]_workbenchVars => EditingInv'
  BY EditingSteps
<1> QED BY <1>1, <1>2, EditingStarts, PTL DEF Spec

\* The address, the history's entry and the workbench are of one folder (main.tsx), for any
\* folders and moves.
THEOREM AddressFollowsWorkbench == Spec => []AddressMatchesWorkbench
<1>1. EditingInv => AddressMatchesWorkbench
  BY PartsAssume, SwitchImplies DEF EditingInv, AddressMatchesWorkbench
<1>2. EditingInv /\ [Next]_workbenchVars => EditingInv'
  BY EditingSteps
<1> QED BY <1>1, <1>2, EditingStarts, PTL DEF Spec

\* What is shown is what was asked for: search results, palette, PDF, Markdown preview and
\* the launched release, for any queries, matches, texts, views, launchers and bounds.
THEOREM AnswersAreOfQueries == Spec => []AnswersMatchQueries
<1>1. AnswersInv => AnswersMatchQueries
  BY PartsAssume, SearchImplies, PaletteImplies, PreviewImplies, MarkdownImplies, LauncherImplies
  DEF AnswersInv, AnswersMatchQueries
<1>2. AnswersInv /\ [Next]_workbenchVars => AnswersInv'
  BY AnswersStep
<1> QED BY <1>1, <1>2, AnswersStart, PTL DEF Spec

\* At rest the lists of Source Control show the repository or an error, and a folder that was
\* removed is not offered again (repository.tsx, SourceControlWorkflow.tsx, DiffsHubHeader.tsx),
\* for any files, folders, sessions of operations and bounds.
THEOREM ListsAreSettled == Spec => []ListsSettle
<1>1. EditingInv /\ AnswersInv => ListsSettle
  BY ControlImplies, PickerImplies DEF EditingInv, AnswersInv, ListsSettle
<1>2. EditingInv /\ AnswersInv /\ [Next]_workbenchVars => EditingInv' /\ AnswersInv'
  BY EditingSteps, AnswersStep
<1> QED BY <1>1, <1>2, EditingStarts, AnswersStart, PTL DEF Spec

\* No step takes a backup back, drops a stash, an untracked file or an unmerged branch that
\* nobody was asked about, applies another hunk than the one that was shown, or moves the
\* graph's tab stop to another commit, for any documents, files, hunks, histories and bounds.
THEOREM NothingGoesUnasked == Spec => NothingIsTakenAway
<1>1. ASSUME EditingInv, AnswersInv, [Next]_workbenchVars
      PROVE  /\ focus = "drafts" => BackupAdvances
             /\ focus = "control" => LostOnlyAsAsked
             /\ focus = "hunks" => AppliedAsShown
             /\ focus = "pane" => ActiveIsKept
  <2>1. focus = "drafts" => BackupAdvances
    BY <1>1, PartsStep, PartsAssume, BackupsAdvance DEF EditingInv
  <2>2. focus = "control" => LostOnlyAsAsked
    BY <1>1, PartsStep, ControlSteps DEF AnswersInv
  <2>3. focus = "hunks" => AppliedAsShown
    BY <1>1, PartsStep, HunksStepAsShown DEF AnswersInv
  <2>4. focus = "pane" => ActiveIsKept
    BY <1>1, PartsStep, PaneSteps DEF EditingInv
  <2> QED BY <2>1, <2>2, <2>3, <2>4
<1>2. EditingInv /\ AnswersInv /\ [Next]_workbenchVars => EditingInv' /\ AnswersInv'
  BY EditingSteps, AnswersStep
<1> QED BY <1>1, <1>2, EditingStarts, AnswersStart, PTL DEF Spec, NothingIsTakenAway

=============================================================================
