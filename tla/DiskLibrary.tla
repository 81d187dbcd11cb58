---------------------------- MODULE DiskLibrary ----------------------------
(***************************************************************************)
(* The disk images of EmulatorViewModel.swift: what is attached to the     *)
(* drives, the catalog and its versions, and the downloads, which pass     *)
(* from URLSession to the main thread, to a background queue and back.     *)
(*                                                                         *)
(* The Disks directory holds the images of the catalog and those the user  *)
(* makes or downloads from a URL (Mine); Imported stands for an image      *)
(* elsewhere.  Steps of the main thread are blocks and user events; blocks *)
(* of different tasks come in any order, since what posted them can be     *)
(* delayed before posting.                                                 *)
(* Addresses of the catalog are taken to be valid.                         *)
(***************************************************************************)
EXTENDS Naturals, FiniteSets, SequencesExt

CONSTANTS Catalog,      \* images of the catalog
          Drives,
          DefaultDisk,  \* the first image of the catalog with that default drive
          Attempts,     \* tries of a download (3)
          MaxTasks,     \* bound: downloads
          OwnDrives     \* bound: drives the user puts images of his own in

ASSUME DiskLibraryAssumption ==
    /\ Attempts \in Nat \ {0} /\ MaxTasks \in Nat /\ OwnDrives \subseteq Drives
    /\ DefaultDisk \in [Drives -> Catalog \cup {"nothing"}]
    /\ {"nothing", "mine", "imported"} \cap Catalog = {}

VARIABLES
    slot,       \* floppyAPath .. isoPath
    manifest,   \* manifestDrives
    shows,      \* downloadStates
    pending,    \* pendingAttachments
    auto,       \* autoDownloading
    files,      \* images in the Disks directory
    resolved,   \* bookmarksResolved
    fetching,   \* whether the catalog is under way
    tasks,      \* the downloads from the catalog
    url         \* the download from a URL

library == <<slot, manifest, shows, pending, auto, files, resolved,
             fetching, tasks, url>>

Nothing == "nothing"
Mine == "mine"
Imported == "imported"
Task == 1 .. MaxTasks
NoTask == [file |-> Nothing, left |-> 0, pc |-> "unused"]
NoUrl == [pc |-> "none"]

LibraryInit ==
    /\ slot = [d \in Drives |-> Nothing] /\ manifest = {}
    /\ shows = [f \in Catalog |-> "notDownloaded"]
    /\ pending = [f \in Catalog |-> Nothing] /\ auto = {}
    /\ files = {} /\ resolved = FALSE
    /\ fetching = TRUE
    /\ tasks = [t \in Task |-> NoTask] /\ url = NoUrl

Begun == {t \in Task : tasks[t].pc # "unused"}

\* The downloads of the images of a set begin.
Downloads(fs) ==
    LET order == SetToSeq(fs)
        n     == Cardinality(Begun)
    IN  [t \in Task |-> IF t \in n + 1 .. n + Len(order)
                        THEN [file |-> order[t - n], left |-> Attempts, pc |-> "net"]
                        ELSE tasks[t]]

Room(fs) == Cardinality(Begun) + Cardinality(fs) <= MaxTasks

-----------------------------------------------------------------------------
(* The settings.  (While a session runs they are not shown.) *)

Download(f) ==
    /\ shows[f] \in {"notDownloaded", "error"} /\ Room({f})
    /\ shows' = [shows EXCEPT ![f] = "downloading"]
    /\ tasks' = Downloads({f})
    /\ UNCHANGED <<slot, manifest, pending, auto, files, resolved, fetching, url>>

UseCatalogDisk(f, d) ==
    /\ \/ /\ f \in files
          /\ slot' = [slot EXCEPT ![d] = f] /\ manifest' = manifest \cup {d}
          /\ UNCHANGED <<shows, pending, tasks>>
       \/ /\ f \notin files /\ Room({f})
          /\ pending' = [pending EXCEPT ![f] = d]
          /\ shows' = [shows EXCEPT ![f] = "downloading"]
          /\ tasks' = Downloads({f})
          /\ UNCHANGED <<slot, manifest>>
    /\ UNCHANGED <<auto, files, resolved, fetching, url>>

\* Every drive the image is attached to lets go of it.
DeleteCatalogDisk(f) ==
    /\ shows[f] = "downloaded"
    /\ files' = files \ {f}
    /\ shows' = [shows EXCEPT ![f] = "notDownloaded"]
    /\ slot' = [d \in Drives |-> IF slot[d] = f THEN Nothing ELSE slot[d]]
    /\ manifest' = {d \in manifest : slot[d] # f}
    /\ UNCHANGED <<pending, auto, resolved, fetching, tasks, url>>

RemoveDisk(d) ==
    /\ slot[d] # Nothing
    /\ slot' = [slot EXCEPT ![d] = Nothing] /\ manifest' = manifest \ {d}
    /\ UNCHANGED <<shows, pending, auto, files, resolved, fetching, tasks, url>>

SetDiskPath(d) ==
    /\ slot' = [slot EXCEPT ![d] = Imported]
    /\ UNCHANGED <<manifest, shows, pending, auto, files, resolved, fetching,
                   tasks, url>>

CreateBlank(d) ==
    /\ files' = files \cup {Mine}
    /\ slot' = [slot EXCEPT ![d] = Mine]
    /\ UNCHANGED <<manifest, shows, pending, auto, resolved, fetching, tasks,
                   url>>

-----------------------------------------------------------------------------
(* The catalog. *)

FetchDiskCatalog ==
    /\ fetching' = TRUE
    /\ UNCHANGED <<slot, manifest, shows, pending, auto, files, resolved,
                   tasks, url>>

\* With no drive in use the default images are attached, downloaded first if
\* need be: slots, manifest, shows and files are what they were before.
AutoAttach(slots, drives, states, there) ==
    LET wanted == {d \in Drives : /\ resolved' /\ DefaultDisk[d] # Nothing
                                  /\ \A e \in Drives : slots[e] = Nothing}
        ready  == {d \in wanted : DefaultDisk[d] \in there}
        absent == {DefaultDisk[d] : d \in wanted \ ready}
    IN  /\ Room(absent)
        /\ slot' = [d \in Drives |-> IF d \in ready THEN DefaultDisk[d] ELSE slots[d]]
        /\ manifest' = drives \cup ready
        /\ auto' = auto \cup absent
        /\ pending' = [f \in Catalog |-> IF f \in absent
                         THEN CHOOSE d \in wanted : DefaultDisk[d] = f ELSE pending[f]]
        /\ shows' = [f \in Catalog |-> IF f \in absent THEN "downloading" ELSE states[f]]
        /\ tasks' = Downloads(absent)

\* Bookmarks of imported images are resolved in the background.
BookmarksResolved ==
    /\ ~resolved /\ resolved' = TRUE
    /\ \E ds \in SUBSET OwnDrives :
         AutoAttach([d \in Drives |-> IF d \in ds THEN Imported ELSE slot[d]],
                    manifest, shows, files)
    /\ UNCHANGED <<files, fetching, url>>

Refreshed(states, there) ==
    [f \in Catalog |-> IF f \in there THEN "downloaded" ELSE states[f]]

\* The fetch has failed, or brings the version there is.
CatalogIsTheSame ==
    /\ fetching /\ fetching' = FALSE
    /\ UNCHANGED <<files, resolved, url>>
    /\ AutoAttach(slot, manifest, Refreshed(shows, files), files)

\* A new version: every image in the directory goes, and the drives let go.
\* (deleteAllDownloadedDisks sees no difference between the catalog's and Mine.)
CatalogIsNew ==
    /\ fetching /\ fetching' = FALSE
    /\ files' = {}
    /\ UNCHANGED <<resolved, url>>
    /\ AutoAttach([d \in Drives |-> IF slot[d] \in {Nothing, Imported} THEN slot[d] ELSE Nothing],
                  {},
                  [f \in Catalog |-> IF f \in files THEN "notDownloaded" ELSE shows[f]],
                  {})

-----------------------------------------------------------------------------
(* A download. *)

Step(t, pc) == tasks' = [tasks EXCEPT ![t] = IF pc = "over" THEN [NoTask EXCEPT !.pc = pc]
                                             ELSE [@ EXCEPT !.pc = pc]]
Waits(f) == pending[f] # Nothing \/ f \in auto \/ shows[f] = "downloading"

\* The completion handler stages the file, if one has come and can be moved.
Answered(t) ==
    /\ tasks[t].pc = "net"
    /\ \E pc \in {"failed", "staged", "unstaged"} : Step(t, pc)
    /\ UNCHANGED <<slot, manifest, shows, pending, auto, files, resolved,
                   fetching, url>>

\* Downloads the app began by itself are not tried again and fail silently.
Failed(t) ==
    LET f      == tasks[t].file
        isAuto == f \in auto
        again  == tasks[t].left > 1 /\ ~isAuto
    IN  /\ tasks[t].pc = "failed"
        /\ Step(t, IF again THEN "retry" ELSE "over")
        /\ IF again THEN UNCHANGED <<shows, pending, auto>>
           ELSE /\ auto' = auto \ {f}
                /\ shows' = [shows EXCEPT ![f] = IF isAuto THEN "notDownloaded" ELSE "error"]
                /\ pending' = [pending EXCEPT ![f] = Nothing]
        /\ UNCHANGED <<slot, manifest, files, resolved, fetching, url>>

Staged(t) ==
    LET f == tasks[t].file IN
    /\ auto' = auto \ {f}
    /\ \/ /\ tasks[t].pc = "staged" /\ Step(t, "check")
          /\ shows' = [shows EXCEPT ![f] = "downloading"] /\ UNCHANGED pending
       \/ /\ tasks[t].pc = "unstaged" /\ tasks[t].left > 1 /\ Step(t, "retry")
          /\ UNCHANGED <<shows, pending>>
       \/ /\ tasks[t].pc = "unstaged" /\ tasks[t].left = 1 /\ Step(t, "over")
          /\ shows' = [shows EXCEPT ![f] = "error"]
          /\ pending' = [pending EXCEPT ![f] = Nothing]
    /\ UNCHANGED <<slot, manifest, files, resolved, fetching, url>>

Retry(t) ==
    /\ tasks[t].pc = "retry"
    /\ tasks' = [tasks EXCEPT ![t].pc = "net", ![t].left = @ - 1]
    /\ shows' = [shows EXCEPT ![tasks[t].file] = "downloading"]
    /\ UNCHANGED <<slot, manifest, pending, auto, files, resolved, fetching, url>>

\* In the background: the digest and the archive are looked at ...
Check(t) ==
    /\ tasks[t].pc = "check"
    /\ \E pc \in {"bad", "clear"} : Step(t, pc)
    /\ UNCHANGED <<slot, manifest, shows, pending, auto, files, resolved,
                   fetching, url>>

\* ... an earlier image is removed, though a session may have it mapped ...
RemoveOld(t) ==
    /\ tasks[t].pc = "clear" /\ Step(t, "move")
    /\ files' = files \ {tasks[t].file}
    /\ UNCHANGED <<slot, manifest, shows, pending, auto, resolved, fetching, url>>

\* ... and the new one moved there, unless another has come meanwhile.
MoveNew(t) ==
    /\ tasks[t].pc = "move"
    /\ \/ tasks[t].file \notin files /\ Step(t, "moved") /\ files' = files \cup {tasks[t].file}
       \/ Step(t, "bad") /\ UNCHANGED files
    /\ UNCHANGED <<slot, manifest, shows, pending, auto, resolved, fetching, url>>

\* Bug: the drive goes on waiting for an image that could not be used.
RejectedKeepsPending(t) ==
    /\ tasks[t].pc = "bad" /\ Step(t, "over")
    /\ shows' = [shows EXCEPT ![tasks[t].file] = "error"]
    /\ UNCHANGED <<slot, manifest, pending, auto, files, resolved, fetching, url>>

Rejected(t) ==
    /\ tasks[t].pc = "bad" /\ Step(t, "over")
    /\ shows' = [shows EXCEPT ![tasks[t].file] = "error"]
    /\ pending' = [pending EXCEPT ![tasks[t].file] = Nothing]
    /\ UNCHANGED <<slot, manifest, auto, files, resolved, fetching, url>>

\* Bug: the drive is attached and not entered in the manifest.
DownloadedUntracked(t) ==
    LET f == tasks[t].file
        d == pending[f]
    IN  /\ tasks[t].pc = "moved" /\ Step(t, "over")
        /\ shows' = [shows EXCEPT ![f] = "downloaded"]
        /\ pending' = [pending EXCEPT ![f] = Nothing]
        /\ slot' = IF d = Nothing THEN slot ELSE [slot EXCEPT ![d] = f]
        /\ UNCHANGED <<manifest, auto, files, resolved, fetching, url>>

Downloaded(t) ==
    LET f == tasks[t].file
        d == pending[f]
    IN  /\ tasks[t].pc = "moved" /\ Step(t, "over")
        /\ shows' = [shows EXCEPT ![f] = "downloaded"]
        /\ pending' = [pending EXCEPT ![f] = Nothing]
        /\ slot' = IF d = Nothing THEN slot ELSE [slot EXCEPT ![d] = f]
        /\ manifest' = manifest \cup ({d} \ {Nothing})
        /\ UNCHANGED <<auto, files, resolved, fetching, url>>

TaskRuns(t) == \/ Answered(t) \/ Failed(t) \/ Staged(t) \/ Retry(t) \/ Check(t)
               \/ RemoveOld(t) \/ MoveNew(t) \/ Rejected(t) \/ Downloaded(t)

-----------------------------------------------------------------------------
(* A download from a URL. *)

DownloadFromUrl(d) ==
    /\ url = NoUrl
    /\ url' = [pc |-> "net", drive |-> d]
    /\ UNCHANGED <<slot, manifest, shows, pending, auto, files, resolved,
                   fetching, tasks>>

\* A failure is shown.  Else the completion handler posts a block to the main
\* thread; the file it is given is deleted when it returns.
UrlAnswered ==
    /\ url.pc = "net"
    /\ url' \in {NoUrl, [pc |-> "posted", drive |-> url.drive, temp |-> TRUE]}
    /\ UNCHANGED <<slot, manifest, shows, pending, auto, files, resolved,
                   fetching, tasks>>

UrlHandlerReturned ==
    /\ url.pc = "posted" /\ url.temp
    /\ url' = [url EXCEPT !.temp = FALSE]
    /\ UNCHANGED <<slot, manifest, shows, pending, auto, files, resolved,
                   fetching, tasks>>

UrlDownloaded ==
    /\ url.pc = "posted"
    /\ files' = IF url.temp THEN files \cup {Mine} ELSE files \ {Mine}
    /\ slot' = IF url.temp THEN [slot EXCEPT ![url.drive] = Mine] ELSE slot
    /\ url' = NoUrl
    /\ UNCHANGED <<manifest, shows, pending, auto, resolved, fetching, tasks>>

-----------------------------------------------------------------------------
LibraryNext ==
    \/ \E f \in Catalog : \/ Download(f) \/ DeleteCatalogDisk(f)
                          \/ \E d \in Drives : UseCatalogDisk(f, d)
    \/ \E d \in Drives : RemoveDisk(d)
    \/ \E d \in OwnDrives : SetDiskPath(d) \/ CreateBlank(d) \/ DownloadFromUrl(d)
    \/ FetchDiskCatalog \/ BookmarksResolved \/ CatalogIsTheSame \/ CatalogIsNew
    \/ \E t \in Task : TaskRuns(t)
    \/ UrlAnswered \/ UrlHandlerReturned \/ UrlDownloaded

\* URLSession answers or times out; the queues run.
LibraryFairness == \A t \in Task : WF_library(TaskRuns(t))

LibrarySpec == LibraryInit /\ [][LibraryNext]_library /\ LibraryFairness

-----------------------------------------------------------------------------
\* An image of the catalog is attached only to a drive of the manifest, so that
\* the user is warned when the guest writes to it: however its download, the
\* user's choices and a new catalog overlap.
CatalogDisksAreTracked ==
    \A d \in Drives : slot[d] \in Catalog => d \in manifest

\* Nothing waits for ever: no drive for an image, no image for its download.
\* Requests for the same image overlap, and the first to end answers for all.
WaitsEnd == \A f \in Catalog : Waits(f) ~> ~Waits(f)

\* EmulatorViewModel.swift:926 tells the user "Downloaded disks have been
\* cleared and will be redownloaded".  An image the user made or fetched, which
\* is not in the catalog, is not deleted by the catalog.
OwnImagesStay ==
    [][fetching /\ ~fetching' => files \cap {Mine} \subseteq files']_library

=============================================================================
