--------------------------- MODULE MarkdownPreview --------------------------
(***************************************************************************)
(* The preview of a Markdown document: the pause after the last edit, the      *)
(* effect that asks for a parse, the client of the parser's worker with one    *)
(* running and one pending revision, and what the preview shows                *)
(* (MarkdownWorkbench.tsx, markdownWorkerClient.ts).                           *)
(*                                                                         *)
(* A text is a number, and a tree is the text it was parsed from.  The limit on *)
(* the size and the resources of the rendered tree are left out.              *)
(***************************************************************************)
EXTENDS Naturals, FiniteSets

CONSTANTS
  MarkdownTexts,     \* texts the document may have
  MaxMarkdownActs,   \* bound on edits and on hiding and showing the preview
  MaxMarkdownFaults  \* bound on parses that fail and workers that crash

NoText == 0

ASSUME MarkdownAssumption == MarkdownTexts \subseteq Nat \ {NoText}

NoJob == [text |-> NoText, effect |-> 0]
NoWorker == [at |-> "none", running |-> NoJob, pending |-> NoJob]

VARIABLES
  source,       \* the text, whether the preview is active, the pause under way
  preview,      \* useParsedMarkdown: the debounced text, the effect, its state
  parser,       \* the client in client.current
  markdownActs  \* bounds

markdownVars == <<source, preview, parser, markdownActs>>

(***************************************************************************)
(* The worker's client                                                     *)
(***************************************************************************)

\* parse: the latest revision waits, an older one that waits is given up.
Parse(w, job) ==
  IF w.running = NoJob THEN [w EXCEPT !.at = "open", !.running = job]
  ELSE [w EXCEPT !.pending = job]

(***************************************************************************)
(* The effect                                                              *)
(***************************************************************************)

Failing(p) == [p EXCEPT !.value = p.text, !.tree = NoText, !.error = TRUE]

\* A new effect for what a rendering has changed; it asks for a parse of the text
\* unless that is what the state is of.  A client that is disposed refuses it.
Effect(p, active, w) ==
  LET q == [p EXCEPT !.effect = @ + 1]
  IN  IF ~active \/ q.value = q.text THEN preview' = q /\ parser' = w
      ELSE IF w.at = "disposed" THEN preview' = Failing(q) /\ parser' = NoWorker
      ELSE preview' = q /\ parser' = Parse(w, [text |-> q.text, effect |-> q.effect])

MayAct == markdownActs.acts < MaxMarkdownActs /\ markdownActs' = [markdownActs EXCEPT !.acts = @ + 1]

Edit(t) ==
  /\ MayAct /\ t # source.text
  /\ source' = [source EXCEPT !.text = t, !.pause = source.active]
  /\ UNCHANGED <<preview, parser>>

PauseEnds ==
  /\ source.pause /\ source' = [source EXCEPT !.pause = FALSE]
  /\ IF preview.text = source.text THEN UNCHANGED <<preview, parser>>
     ELSE Effect([preview EXCEPT !.text = source.text], source.active, parser)
  /\ UNCHANGED markdownActs

\* Shown again, the preview takes the current text at once; hidden, it disposes of
\* its client.
Activate ==
  /\ MayAct
  /\ source' = [source EXCEPT !.active = ~@, !.pause = ~source.active]
  /\ Effect([preview EXCEPT !.text = IF source.active THEN @ ELSE source.text],
            ~source.active, NoWorker)

(***************************************************************************)
(* Answers                                                                 *)
(***************************************************************************)

IsCurrent(job) == job # NoJob /\ job.effect = preview.effect

\* The next revision is sent; an answer that its effect still waits for is shown.
ParseEnds ==
  /\ parser.running # NoJob
  /\ parser' = [parser EXCEPT !.running = parser.pending, !.pending = NoJob]
  /\ preview' = IF IsCurrent(parser.running)
                THEN [preview EXCEPT !.value = parser.running.text, !.tree = parser.running.text,
                                     !.error = FALSE, !.effect = @ + 1]
                ELSE preview
  /\ UNCHANGED <<source, markdownActs>>

Fault == markdownActs.faults < MaxMarkdownFaults /\ markdownActs' = [markdownActs EXCEPT !.faults = @ + 1]

\* A text that cannot be parsed: its effect disposes of the client.
ParseFails ==
  /\ parser.running # NoJob /\ Fault
  /\ IF IsCurrent(parser.running)
     THEN preview' = [Failing(preview) EXCEPT !.effect = @ + 1] /\ parser' = NoWorker
     ELSE /\ parser' = [parser EXCEPT !.running = parser.pending, !.pending = NoJob]
          /\ UNCHANGED preview
  /\ UNCHANGED source

\* A worker that crashes disposes of its client; a job that is waited for fails and
\* lets go of it.
WorkerCrashes ==
  /\ parser.at = "open" /\ Fault
  /\ IF IsCurrent(parser.running) \/ IsCurrent(parser.pending)
     THEN preview' = [Failing(preview) EXCEPT !.effect = @ + 1] /\ parser' = NoWorker
     ELSE parser' = [NoWorker EXCEPT !.at = "disposed"] /\ UNCHANGED preview
  /\ UNCHANGED source

(***************************************************************************)
(* The specification                                                       *)
(***************************************************************************)

\* The preview has just been opened on a document.
MarkdownInit ==
  /\ source \in [text : MarkdownTexts, active : {TRUE}, pause : {TRUE}]
  /\ preview = [text |-> source.text, effect |-> 1, value |-> NoText, tree |-> NoText, error |-> FALSE]
  /\ parser = [NoWorker EXCEPT !.at = "open", !.running = [text |-> source.text, effect |-> 1]]
  /\ markdownActs = [acts |-> 0, faults |-> 0]

MarkdownNext ==
  \/ (\E t \in MarkdownTexts : Edit(t)) \/ PauseEnds \/ Activate
  \/ ParseEnds \/ ParseFails \/ WorkerCrashes

(***************************************************************************)
(* What must hold                                                          *)
(***************************************************************************)

\* The tree is of the text that the state says; and an active preview that says
\* "Rendering" has an edit to wait for or a parse under way, so that at rest it
\* shows the text of the document, or that the text could not be parsed.
PreviewIsOfText ==
  /\ preview.tree # NoText => preview.tree = preview.value
  /\ source.active /\ ~source.pause /\ parser.running = NoJob => preview.value = source.text

=============================================================================
