---------------------------- MODULE DraftBackups ----------------------------
(***************************************************************************)
(* Backups of untitled documents: the document store of the page            *)
(* (documents.ts), the timers that send backups (GitnaReviewUI.tsx), the     *)
(* server's journal with its revisions (internal/drafts/journal.go), and     *)
(* recovery after the page or the backend has gone (repository.tsx).         *)
(*                                                                         *)
(* Requests of a page are answered in any order, and reach the journal even  *)
(* when the page that sent them is gone.                                     *)
(***************************************************************************)
EXTENDS Naturals, FiniteSets

CONSTANTS
  Docs,         \* identities of documents, used one after another
  DraftTexts,   \* 0 is the empty document
  MaxRecords,   \* the journal's limit
  MaxEdits,     \* bound on edits
  MaxReloads    \* bound on new pages

\* Identities are counted from one; 0 stands for none.
ASSUME DocsAssumption == Docs \subseteq Nat \ {0}

VARIABLES
  documents,    \* the page's untitled documents
  timers,       \* backups waiting for their timer
  requests,     \* puts and deletes on the way to the server
  journal,      \* the records on disk
  recovery,     \* the recovery dialog's list
  used          \* identities used, edits, pages; what the user was told

draftVars == <<documents, timers, requests, journal, recovery, used>>

Absent == [rev |-> 0, text |-> 0, saved |-> 0, source |-> 0, sourceRev |-> 0, open |-> FALSE]
NoRecord == [rev |-> 0, text |-> 0, kept |-> FALSE]
IsDirty(d) == d.open /\ d.text # d.saved

\* The effect on the list of documents: every dirty one gets a new timer.
Timed(ds) ==
  [i \in Docs |-> IF IsDirty(ds[i]) THEN [rev |-> ds[i].rev, text |-> ds[i].text, kept |-> TRUE]
                  ELSE NoRecord]

Become(ds) == documents' = ds /\ timers' = Timed(ds)

NewDocument ==
  /\ used.ids + 1 \in Docs
  /\ used' = [used EXCEPT !.ids = @ + 1]
  /\ Become([documents EXCEPT ![used.ids + 1] = [Absent EXCEPT !.open = TRUE]])
  /\ UNCHANGED <<requests, journal, recovery>>

\* updateContent.
EditDocument(i, text) ==
  /\ documents[i].open /\ documents[i].text # text /\ used.edits < MaxEdits
  /\ used' = [used EXCEPT !.edits = @ + 1, !.told[i] = FALSE]
  /\ Become([documents EXCEPT ![i].text = text, ![i].rev = @ + 1])
  /\ UNCHANGED <<requests, journal, recovery>>

TimerFires(i) ==
  /\ timers[i].kept
  /\ requests' = requests \union
       {[kind |-> "put", id |-> i, rev |-> timers[i].rev, text |-> timers[i].text]}
  /\ timers' = [timers EXCEPT ![i] = NoRecord]
  /\ UNCHANGED <<documents, journal, recovery, used>>

(***************************************************************************)
(* The journal                                                             *)
(***************************************************************************)

Stale(record, r) == record.kept /\ (r.rev < record.rev
                                    \/ (r.rev = record.rev /\ r.text # record.text))

Full == Cardinality({i \in Docs : journal[i].kept}) >= MaxRecords

\* Put: a draft of a page that is still there may be refused, and says so.
PutArrives(r) ==
  /\ r \in requests /\ r.kind = "put"
  /\ requests' = requests \ {r}
  /\ IF Stale(journal[r.id], r) \/ (Full /\ ~journal[r.id].kept)
     THEN /\ used' = [used EXCEPT !.told[r.id] = TRUE]
          /\ UNCHANGED journal
     ELSE /\ journal' = [journal EXCEPT ![r.id] = [rev |-> r.rev, text |-> r.text, kept |-> TRUE]]
          /\ UNCHANGED used
  /\ UNCHANGED <<documents, timers, recovery>>

\* A request that never reaches the server.
PutLost(r) ==
  /\ r \in requests /\ r.kind = "put"
  /\ requests' = requests \ {r}
  /\ used' = [used EXCEPT !.told[r.id] = TRUE]
  /\ UNCHANGED <<documents, timers, journal, recovery>>

\* Delete, of exactly the expected revision.
Deletable(r) == journal[r.id].kept /\ journal[r.id].rev = r.rev
Deleted(r) == [journal EXCEPT ![r.id] = NoRecord]
Delete(kind, id, rev, for) == [kind |-> kind, id |-> id, rev |-> rev, text |-> for]

\* The two deletes of discardUntitledDocument, for the document they close.
Discards(r) == r.kind \in {"discard", "again"}

(***************************************************************************)
(* Discarding and saving a document                                        *)
(***************************************************************************)

BackupOf(i) ==
  IF documents[i].source = 0 THEN [id |-> i, rev |-> documents[i].rev]
  ELSE [id |-> documents[i].source, rev |-> documents[i].sourceRev]

\* discardUntitledDocument begins with the backup the document came from, or
\* with its own.
DiscardDocument(i) ==
  /\ documents[i].open
  /\ \A r \in requests : Discards(r) => r.text # i
  /\ requests' = requests \union {Delete("discard", BackupOf(i).id, BackupOf(i).rev, i)}
  /\ UNCHANGED <<documents, timers, journal, recovery, used>>

\* A missing backup is as good as a deleted one, the first time.  After an error the
\* document stays.
DiscardAnswered(r) ==
  /\ r \in requests /\ Discards(r)
  /\ \/ /\ Deletable(r) \/ (r.kind = "discard" /\ ~journal[r.id].kept)
        /\ journal' = Deleted(r)
        /\ Become([documents EXCEPT ![r.text] = Absent])
        /\ UNCHANGED used
     \/ /\ journal' \in {journal, IF Deletable(r) THEN Deleted(r) ELSE journal}
        /\ used' = [used EXCEPT !.told = [@ EXCEPT ![r.id] = TRUE, ![r.text] = TRUE]]
        /\ UNCHANGED <<documents, timers>>
  /\ requests' = requests \ {r}
  /\ UNCHANGED recovery

\* A backup of another revision is looked up, and deleted as it was then.
DiscardLooks(r) ==
  /\ r \in requests /\ r.kind = "discard"
  /\ journal[r.id].kept /\ ~Deletable(r)
  /\ requests' = (requests \ {r}) \union {Delete("again", r.id, journal[r.id].rev, r.text)}
  /\ UNCHANGED <<documents, timers, journal, recovery, used>>

\* saveUntitledDocument once the file exists: the document has a path, and if
\* nothing was typed since, its backups are deleted.
SaveDocument(i, newer) ==
  /\ documents[i].open
  /\ newer => IsDirty(documents[i])
  /\ requests' = IF newer THEN requests ELSE requests \union
       ({Delete("saved", BackupOf(i).id, BackupOf(i).rev, i)}
        \union (IF documents[i].source = 0 THEN {}
                ELSE {Delete("saved", i, documents[i].rev, i)}))
  /\ Become([documents EXCEPT ![i] = Absent])
  /\ UNCHANGED <<journal, recovery, used>>

SavedDeletes(r) ==
  /\ r \in requests /\ r.kind \in {"saved", "drop"}
  /\ requests' = requests \ {r}
  /\ journal' \in {journal, IF Deletable(r) THEN Deleted(r) ELSE journal}
  /\ recovery' = IF r.kind = "drop" /\ Deletable(r) /\ journal' # journal
                 THEN [recovery EXCEPT ![r.id] = NoRecord] ELSE recovery
  /\ UNCHANGED <<documents, timers, used>>

\* A clean tab closes without a question.
CloseClean(i) ==
  /\ documents[i].open /\ ~IsDirty(documents[i])
  /\ Become([documents EXCEPT ![i] = Absent])
  /\ UNCHANGED <<requests, journal, recovery, used>>

(***************************************************************************)
(* Recovery                                                                *)
(***************************************************************************)

\* The page goes away with its documents and timers; a new one reads the list.
NewPage ==
  /\ used.pages < MaxReloads
  /\ used' = [used EXCEPT !.pages = @ + 1, !.told = [i \in Docs |-> FALSE]]
  /\ Become([i \in Docs |-> Absent])
  /\ requests' = {r \in requests : r.kind = "put"}
  /\ recovery' = journal
  /\ UNCHANGED journal

\* restoreDraft: a copy, clean until it is edited, that remembers its backup.
RestoreDraft(i) ==
  /\ recovery[i].kept /\ used.ids + 1 \in Docs
  /\ used' = [used EXCEPT !.ids = @ + 1]
  /\ Become([documents EXCEPT ![used.ids + 1] =
       [rev |-> 0, text |-> recovery[i].text, saved |-> recovery[i].text,
        source |-> i, sourceRev |-> recovery[i].rev, open |-> TRUE]])
  /\ recovery' = [recovery EXCEPT ![i] = NoRecord]
  /\ UNCHANGED <<requests, journal>>

\* Discard backup, in the dialog.
DropBackup(i) ==
  /\ recovery[i].kept
  /\ requests' = requests \union {Delete("drop", i, recovery[i].rev, 0)}
  /\ UNCHANGED <<documents, timers, journal, recovery, used>>

DraftsInit ==
  /\ documents = [i \in Docs |-> Absent] /\ timers = [i \in Docs |-> NoRecord]
  /\ requests = {} /\ journal = [i \in Docs |-> NoRecord]
  /\ recovery = [i \in Docs |-> NoRecord]
  /\ used = [ids |-> 0, edits |-> 0, pages |-> 0, told |-> [i \in Docs |-> FALSE]]

DraftsNext ==
  \/ NewDocument \/ NewPage
  \/ \E i \in Docs : \/ TimerFires(i) \/ DiscardDocument(i) \/ CloseClean(i) \/ RestoreDraft(i)
                     \/ DropBackup(i)
                     \/ \E t \in DraftTexts : EditDocument(i, t)
                     \/ \E newer \in BOOLEAN : SaveDocument(i, newer)
  \/ \E r \in requests : PutArrives(r) \/ PutLost(r) \/ DiscardAnswered(r) \/ DiscardLooks(r) \/ SavedDeletes(r)

(***************************************************************************)
(* What must hold                                                          *)
(***************************************************************************)

\* A dirty document whose timer has run and whose requests have arrived is in
\* the journal as it is on the screen, unless the user was told otherwise.
DirtyIsBackedUp ==
  \A i \in Docs :
    /\ IsDirty(documents[i]) /\ ~timers[i].kept /\ ~used.told[i]
    /\ \A r \in requests : r.id # i /\ (Discards(r) => r.text # i)
    => journal[i].kept /\ journal[i].text = documents[i].text

\* A backup that stays never goes back to an older revision, whatever the order
\* in which the requests arrive, and one revision has one content (Put).
BackupAdvances ==
  \A i \in Docs : journal[i].kept /\ journal'[i].kept =>
    /\ journal'[i].rev >= journal[i].rev
    /\ journal'[i].rev = journal[i].rev => journal'[i] = journal[i]

=============================================================================
