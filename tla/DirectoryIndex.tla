---------------------------- MODULE DirectoryIndex --------------------------
(***************************************************************************)
(* The sorted listings of an ordinary folder's directories                    *)
(* (internal/app/folder_directory_index.go): a page builds the listing of its  *)
(* directory or joins the build under way, reads its part of the file, and the  *)
(* least used listings make room for others.                                  *)
(*                                                                         *)
(* A step is a section under the cache's lock, or what is done without it.  A  *)
(* listing is the state of the folder it was scanned from; its order, the        *)
(* cursor and the entries' children are left out.                             *)
(***************************************************************************)
EXTENDS Naturals, FiniteSets

CONSTANTS
  Directories,      \* the directories that are listed
  Pages,            \* requests for a page; a listing has the number of the one that began it
  CacheLimit,       \* directoryIndexCacheLimit
  MaxFolderChanges, \* bound on changes of the folder
  MaxContextEnds    \* bound on requests whose context ends and scans that fail

NoListing == 0

VARIABLES
  directoryCache,   \* the listing of every directory, the count of invalidations
  listingsOf,       \* the listings that were ever begun
  listingFiles,     \* the temporary files there are
  pagesOf,          \* the requests
  folderActs        \* the folder's changes, those the cache has heard of; bounds

directoryVars == <<directoryCache, listingsOf, listingFiles, pagesOf, folderActs>>

Cached(d) == directoryCache.entries[d]
Entries(entries) == {d \in Directories : entries[d] # NoListing}

(***************************************************************************)
(* Room                                                                    *)
(***************************************************************************)

\* evictLocked: the least used listing that is ready and not being read goes, and
\* another one while there are too many.
Evictable(entries, listings, current) ==
  {d \in Entries(entries) :
     LET l == listings[entries[d]]
     IN  entries[d] # current /\ l.at = "ready" /\ l.file /\ l.readers = 0}

Evict(entries, listings, current) ==
  LET excess == Cardinality(Entries(entries)) - CacheLimit
      ds     == Evictable(entries, listings, current)
      gone   == IF Cardinality(ds) <= excess THEN ds
                ELSE CHOOSE s \in SUBSET ds : Cardinality(s) = excess /\
                       \A d \in s, o \in ds \ s :
                         listings[entries[d]].used <= listings[entries[o]].used
  IN  IF Cardinality(Entries(entries)) <= CacheLimit THEN {} ELSE gone

\* The entries without what makes room, and the files of that.
MakeRoom(entries, listings, files, current) ==
  LET gone == Evict(entries, listings, current)
  IN  /\ directoryCache' = [directoryCache EXCEPT !.entries =
                             [d \in Directories |-> IF d \in gone THEN NoListing ELSE entries[d]]]
      /\ listingFiles' = files \ {entries[d] : d \in gone}
      /\ listingsOf' = listings

(***************************************************************************)
(* A page                                                                  *)
(***************************************************************************)

NewPage(live) == [at |-> "none", of |-> NoListing, entry |-> NoListing, live |-> live, since |-> 0]
Answered(q) == pagesOf' = [pagesOf EXCEPT ![q] = [NewPage(@.live) EXCEPT !.at = "done"]]

\* A listing that is there or on its way is used; otherwise one is begun, with the
\* context of this request.  Requests are numbered as they come.
Ask(q, d) ==
  /\ pagesOf[q].at = "none" /\ \A p \in Pages : p < q => pagesOf[p].at # "none"
  /\ folderActs' = [folderActs EXCEPT !.clock = @ + 1]
  /\ LET e == IF Cached(d) = NoListing THEN q ELSE Cached(d)
     IN  /\ listingsOf' = IF Cached(d) # NoListing THEN [listingsOf EXCEPT ![e].used = folderActs.clock]
                          ELSE [listingsOf EXCEPT ![q] =
                                 [@ EXCEPT !.at = "scan", !.of = d, !.used = folderActs.clock,
                                           !.cacheID = directoryCache.cacheID]]
         /\ directoryCache' = [directoryCache EXCEPT !.entries[d] = e]
         /\ pagesOf' = [pagesOf EXCEPT ![q] = [@ EXCEPT !.at = "wait", !.of = d, !.entry = e,
                                                         !.since = folderActs.heard]]
  /\ UNCHANGED listingFiles

ContextEnds(q) ==
  /\ pagesOf[q].live /\ pagesOf[q].at \notin {"none", "done"} /\ folderActs.ended < MaxContextEnds
  /\ folderActs' = [folderActs EXCEPT !.ended = @ + 1]
  /\ pagesOf' = [pagesOf EXCEPT ![q].live = FALSE]
  /\ UNCHANGED <<directoryCache, listingsOf, listingFiles>>

GivesUp(q) ==
  /\ pagesOf[q].at = "wait" /\ ~pagesOf[q].live /\ Answered(q)
  /\ UNCHANGED <<directoryCache, listingsOf, listingFiles, folderActs>>

\* A listing that is no longer the directory's is not used; one that failed goes.
Wakes(q) ==
  LET e == pagesOf[q].entry
      d == pagesOf[q].of
  IN  /\ pagesOf[q].at = "wait" /\ listingsOf[e].at = "ready"
      /\ IF Cached(d) # e
         THEN Answered(q) /\ UNCHANGED <<directoryCache, listingsOf>>
         ELSE IF listingsOf[e].err
         THEN /\ Answered(q) /\ UNCHANGED listingsOf
              /\ directoryCache' = [directoryCache EXCEPT !.entries[d] = NoListing]
         ELSE /\ pagesOf' = [pagesOf EXCEPT ![q].at = "read"] /\ UNCHANGED directoryCache
              /\ listingsOf' = [listingsOf EXCEPT ![e].readers = @ + 1]
      /\ UNCHANGED <<listingFiles, folderActs>>

\* The page is read, or could not be, and the entries' children with it; the last
\* reader of a listing that was dropped removes its file.
Reads(q) ==
  LET e == pagesOf[q].entry
      listings == [listingsOf EXCEPT ![e].readers = @ - 1]
      last == listings[e].invalidated /\ listings[e].readers = 0
  IN  /\ pagesOf[q].at = "read" /\ Answered(q)
      /\ MakeRoom(directoryCache.entries, listings,
                  IF last THEN listingFiles \ {e} ELSE listingFiles, NoListing)
      /\ UNCHANGED folderActs

(***************************************************************************)
(* A build                                                                 *)
(***************************************************************************)

\* The directory is scanned and its listing is written, unless the context of the
\* request that began it has ended, or the disk fails.
Scanned(e) ==
  /\ listingsOf[e].at = "scan" /\ UNCHANGED <<directoryCache, pagesOf>>
  /\ \/ /\ pagesOf[e].live
        /\ listingsOf' = [listingsOf EXCEPT ![e].at = "publish", ![e].file = TRUE,
                                             ![e].state = folderActs.changes]
        /\ listingFiles' = listingFiles \union {e}
        /\ UNCHANGED folderActs
     \/ /\ ~pagesOf[e].live \/ folderActs.ended < MaxContextEnds
        /\ listingsOf' = [listingsOf EXCEPT ![e].at = "publish", ![e].err = TRUE]
        /\ folderActs' = [folderActs EXCEPT !.ended = IF pagesOf[e].live THEN @ + 1 ELSE @]
        /\ UNCHANGED listingFiles

\* A build that was overtaken by an invalidation, or by another, leaves nothing.
Published(e) ==
  /\ listingsOf[e].at = "publish" /\ UNCHANGED <<pagesOf, folderActs>>
  /\ IF directoryCache.cacheID # listingsOf[e].cacheID \/ Cached(listingsOf[e].of) # e
     THEN /\ listingFiles' = listingFiles \ {e}
          /\ listingsOf' = [listingsOf EXCEPT ![e].at = "ready", ![e].err = TRUE, ![e].file = FALSE]
          /\ UNCHANGED directoryCache
     ELSE MakeRoom(directoryCache.entries, [listingsOf EXCEPT ![e].at = "ready"], listingFiles, e)

(***************************************************************************)
(* Invalidation                                                            *)
(***************************************************************************)

FolderChanges ==
  /\ folderActs.changes < MaxFolderChanges
  /\ folderActs' = [folderActs EXCEPT !.changes = @ + 1]
  /\ UNCHANGED <<directoryCache, listingsOf, listingFiles, pagesOf>>

\* The watcher, or an operation on the folder, drops every listing; what is being
\* built or read loses its file later.
Invalidate ==
  LET dropped == {Cached(d) : d \in Entries(directoryCache.entries)}
      ready   == {e \in dropped : listingsOf[e].at = "ready" /\ listingsOf[e].file}
      unread  == {e \in ready : listingsOf[e].readers = 0}
  IN  /\ folderActs.heard < folderActs.changes
      /\ folderActs' = [folderActs EXCEPT !.heard = folderActs.changes]
      /\ directoryCache' = [entries |-> [d \in Directories |-> NoListing],
                            cacheID |-> directoryCache.cacheID + 1]
      /\ listingFiles' = listingFiles \ unread
      /\ listingsOf' = [e \in Pages |-> IF e \in ready \ unread
                                        THEN [listingsOf[e] EXCEPT !.invalidated = TRUE]
                                        ELSE listingsOf[e]]
      /\ UNCHANGED pagesOf

(***************************************************************************)
(* The specification                                                       *)
(***************************************************************************)

DirectoryInit ==
  /\ directoryCache = [entries |-> [d \in Directories |-> NoListing], cacheID |-> 0]
  /\ listingsOf = [e \in Pages |-> [at |-> "none", of |-> NoListing, state |-> 0, file |-> FALSE,
       err |-> FALSE, used |-> 0, cacheID |-> 0, readers |-> 0, invalidated |-> FALSE]]
  /\ listingFiles = {}
  /\ pagesOf = [q \in Pages |-> NewPage(TRUE)]
  /\ folderActs = [changes |-> 0, heard |-> 0, clock |-> 1, ended |-> 0]

DirectoryNext ==
  \/ \E q \in Pages : (\E d \in Directories : Ask(q, d)) \/ ContextEnds(q) \/ GivesUp(q)
                      \/ Wakes(q) \/ Reads(q) \/ Scanned(q) \/ Published(q)
  \/ FolderChanges \/ Invalidate

(***************************************************************************)
(* What must hold                                                          *)
(***************************************************************************)

\* A page is read from a file that is there, of its own directory, as the folder was
\* after the last change that the cache had heard of when it was asked for; and when
\* nothing is under way, the files that are there are those of the cached listings,
\* no more than the cache may hold.
PagesAreCurrent ==
  /\ \A q \in Pages : pagesOf[q].at = "read" =>
       LET e == pagesOf[q].entry
       IN  e \in listingFiles /\ listingsOf[e].of = pagesOf[q].of
           /\ listingsOf[e].state >= pagesOf[q].since
  /\ (\A q \in Pages : pagesOf[q].at \in {"none", "done"} /\ listingsOf[q].at \in {"none", "ready"})
     => /\ listingFiles \subseteq {Cached(d) : d \in Directories}
        /\ Cardinality(listingFiles) <= CacheLimit

=============================================================================
