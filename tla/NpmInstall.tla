----------------------------- MODULE NpmInstall -----------------------------
(***************************************************************************)
(* The npm launcher: a process that finds no executable of its version in the  *)
(* cache downloads the release, verifies it, extracts it in a directory of its *)
(* own, copies the notices beside the destination and renames the executable   *)
(* into place (install.mjs, gitna.js).  Several launchers may do so at once,   *)
(* and each may be killed at any step.                                        *)
(*                                                                         *)
(* An archive is the release's or it is something else; the notices are one    *)
(* file, which a copy replaces (it removes the old file first).               *)
(***************************************************************************)
EXTENDS Naturals

CONSTANTS
  Launchers,    \* processes
  MaxLaunches   \* bound on how often they are started

VARIABLES
  cache,      \* the executable and the notices of the version, who copies them
  launchers   \* each process: its step, its archive, what it extracted and started

launcherVars == <<cache, launchers>>

Fresh == [at |-> "down", archive |-> "none", extracted |-> "none", ok |-> TRUE, started |-> "none"]

At(l, step) == launchers[l].at = step
Go(l, step) == launchers' = [launchers EXCEPT ![l].at = step]
Count == cache.launches < MaxLaunches

(***************************************************************************)
(* ensureBinary                                                            *)
(***************************************************************************)

Launch(l) ==
  /\ launchers[l].at = "down" /\ Count
  /\ cache' = [cache EXCEPT !.launches = @ + 1]
  /\ launchers' = [launchers EXCEPT ![l] =
       [Fresh EXCEPT !.at = IF cache.executable = "none" THEN "download" ELSE "return"]]

\* The checksums and the archive; three attempts may all fail.
Downloaded(l) ==
  /\ At(l, "download") /\ UNCHANGED cache
  /\ \/ \E a \in {"release", "other"} :
          launchers' = [launchers EXCEPT ![l].at = "verify", ![l].archive = a]
     \/ Go(l, "down")

Verified(l) ==
  /\ At(l, "verify") /\ UNCHANGED cache
  /\ Go(l, IF launchers[l].archive = "release" THEN "extract" ELSE "down")

\* tar or PowerShell writes the files one after the other, and may fail.
ExtractionStarts(l) ==
  /\ At(l, "extract") /\ UNCHANGED cache
  /\ launchers' = [launchers EXCEPT ![l].at = "extracting", ![l].extracted = "part"]

ExtractionEnds(l) ==
  /\ At(l, "extracting") /\ UNCHANGED cache
  /\ \/ launchers' = [launchers EXCEPT ![l].at = "copy", ![l].extracted = launchers[l].archive]
     \/ launchers' = [launchers EXCEPT ![l].at = "clean", ![l].ok = FALSE]

\* The old notices are removed, unless another launcher has just done so.
CopyStarts(l) ==
  /\ At(l, "copy")
  /\ \/ /\ cache' = [cache EXCEPT !.notices = "part", !.copier = l]
        /\ Go(l, "copying")
     \/ /\ cache.notices = "part" /\ UNCHANGED cache
        /\ launchers' = [launchers EXCEPT ![l].at = "clean", ![l].ok = FALSE]

\* A copy that another launcher has removed meanwhile ends in a file without a name.
CopyEnds(l) ==
  /\ At(l, "copying") /\ Go(l, "rename")
  /\ cache' = IF cache.copier = l THEN [cache EXCEPT !.notices = "whole"] ELSE cache

\* An executable that is there is replaced; or the system refuses, as Windows may
\* while it runs, with a code that the launcher expects or with another one.
Renamed(l) ==
  /\ At(l, "rename")
  /\ \/ cache' = [cache EXCEPT !.executable = launchers[l].extracted] /\ Go(l, "clean")
     \/ cache.executable # "none" /\ Go(l, "compare") /\ UNCHANGED cache
     \/ /\ cache.executable # "none" /\ UNCHANGED cache
        /\ launchers' = [launchers EXCEPT ![l].at = "clean", ![l].ok = FALSE]

Compared(l) ==
  /\ At(l, "compare") /\ UNCHANGED cache
  /\ launchers' = [launchers EXCEPT ![l].at = "clean",
                                    ![l].ok = cache.executable = launchers[l].extracted]

\* finally: the directory of its own goes away; a failure is reported.
Cleaned(l) ==
  /\ At(l, "clean") /\ UNCHANGED cache
  /\ launchers' = [launchers EXCEPT ![l].at = IF launchers[l].ok THEN "return" ELSE "down",
                                    ![l].extracted = "none"]

\* gitna.js starts what is at the destination.
Started(l) ==
  /\ At(l, "return") /\ UNCHANGED cache
  /\ launchers' = [launchers EXCEPT ![l].at = "running", ![l].started = cache.executable]

Exits(l) == At(l, "running") /\ Go(l, "down") /\ UNCHANGED cache

\* Nothing is cleaned up; notices that are being copied stay as they are.
Killed(l) ==
  /\ launchers[l].at \notin {"down", "running"} /\ Go(l, "down")
  /\ cache' = [cache EXCEPT !.torn = @ \/ At(l, "copying")]

(***************************************************************************)
(* The specification                                                       *)
(***************************************************************************)

LauncherInit ==
  /\ cache = [executable |-> "none", notices |-> "none", copier |-> 0, torn |-> FALSE, launches |-> 0]
  /\ launchers = [l \in Launchers |-> Fresh]

LauncherNext ==
  \E l \in Launchers :
    \/ Launch(l) \/ Downloaded(l) \/ Verified(l) \/ ExtractionStarts(l) \/ ExtractionEnds(l)
    \/ CopyStarts(l) \/ CopyEnds(l) \/ Renamed(l) \/ Compared(l) \/ Cleaned(l)
    \/ Started(l) \/ Exits(l) \/ Killed(l)

(***************************************************************************)
(* What must hold                                                          *)
(***************************************************************************)

\* A launcher starts the whole executable of the release and nothing else, and
\* finds no fault with what another one has installed.  An executable in the cache
\* has its notices beside it, unless a launcher is replacing them or was killed
\* while it did.
StartsTheRelease ==
  /\ \A l \in Launchers :
       /\ At(l, "running") => launchers[l].started = "release"
       /\ At(l, "compare") => cache.executable = launchers[l].extracted
  /\ cache.executable # "none" =>
       \/ cache.notices = "whole" \/ cache.torn \/ \E l \in Launchers : At(l, "copying")

=============================================================================
