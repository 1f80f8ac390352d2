------------------------------ MODULE LocalFiles ------------------------------
(***************************************************************************)
(* The files of a local destination (crates/lr-store/src/local.rs, with    *)
(* the confined path resolution of lr-unsafe/src/beneath.rs).  Workers     *)
(* publish an image under a new name, replace the catalog, list and read,  *)
(* or delete an image.                                                     *)
(*                                                                         *)
(* Nothing is reached by its path: every operation opens the directory     *)
(* that holds the name without following a symlink and works on that       *)
(* descriptor, while others who may write below the destination root move  *)
(* directories away and put symlinks in their place.                       *)
(*                                                                         *)
(* The kernel writes data and directories back when it wants to, and the   *)
(* machine may lose power.  A rename is atomic on disk.                    *)
(***************************************************************************)
EXTENDS Naturals, FiniteSets

CONSTANTS Worker,       \* each works once
          Dir,          \* directories that may be made
          MaxLosses,    \* bound on power losses
          MaxSwaps      \* bound on what others do to the directory's name

Outside == "outside"    \* the directory a planted symlink leads to
Empty == "empty"        \* no such file

ASSUME FilesAssumption ==
          /\ Dir \cap {Outside, "absent", "link"} = {}
          /\ Empty \notin Worker
          /\ Worker \cap {"image", "catalog"} = {}
          /\ MaxLosses \in Nat /\ MaxSwaps \in Nat

\* The published names, and each worker's temporary file, named by the worker:
\* `temp_name` is random.
FinalName == {"image", "catalog"}
FileName == FinalName \cup Worker

VARIABLES
  task,        \* what each worker does: publish_new, replace, read or delete
  exclusive,   \* the file system has RENAME_NOREPLACE
  place,       \* what the directory's name is: a directory, "link" or "absent"
  made, kept,  \* directories that exist, and those whose own entry is on disk
  inCore,      \* what every directory holds, as system calls see it
  onDisk,      \* and what a power loss leaves of its published names: nobody
               \* comes back for an orphaned temporary file
  whole,       \* contents a reader gets complete
  stable,      \* contents on stable storage
  stage,       \* where each worker is
  tmpDir, finDir,  \* the directories it pinned for the two names
  got,         \* the content a reader opened
  gone,        \* contents deleted or replaced: history only
  losses, swaps

filesVars == <<task, exclusive, place, made, kept, inCore, onDisk, whole, stable,
               stage, tmpDir, finDir, got, gone, losses, swaps>>
disk == <<onDisk, stable, kept>>
given == <<task, exclusive>>

\* Stages that look for the directory holding a name, and those that then work
\* in it.  From "write" on a publisher has a temporary file to discard.
Finding == {"find create", "find tmp", "find final", "find discard", "find listed",
            "find read", "find delete"}
Tracked == {"write", "find tmp", "make final", "find final", "sync", "rename",
            "check", "rename over", "sync dir"}
Working == {"make", "create", "discard", "list", "open", "unlink"} \cup Finding \cup Tracked
Finished == {"synced", "ended", "dead"}
Stage == {"begin"} \cup Working \cup Finished

Task == {"publish_new", "replace", "read image", "read catalog", "delete"}
Final(w) == IF task[w] \in {"replace", "read catalog"} THEN "catalog" ELSE "image"

NoFiles == [n \in FileName |-> Empty]
Published(d) == [n \in FinalName |-> inCore[d][n]]

\* The set lock keeps a second publisher away where the file system cannot
\* (SetLock).  Nothing is there yet.
FilesInit ==
  /\ task \in [Worker -> Task]
  /\ exclusive \in BOOLEAN
  /\ ~ exclusive => \A v, w \in Worker :
                      task[v] = "publish_new" /\ task[w] = "publish_new" => v = w
  /\ place = "absent" /\ made = {} /\ kept = {}
  /\ inCore = [d \in Dir \cup {Outside} |-> NoFiles]
  /\ onDisk = [d \in Dir |-> [n \in FinalName |-> Empty]]
  /\ whole = {} /\ stable = {}
  /\ stage = [w \in Worker |-> "begin"]
  /\ tmpDir = [w \in Worker |-> Outside] /\ finDir = [w \in Worker |-> Outside]
  /\ got = [w \in Worker |-> Empty]
  /\ gone = {}
  /\ losses = 0 /\ swaps = 0

-----------------------------------------------------------------------------
(***************************************************************************)
(* Reaching a directory.                                                   *)
(***************************************************************************)
Reaches(w, next) == stage' = [stage EXCEPT ![w] = next]

\* Where an error takes a worker: the job's guard deletes a temporary file.
OnError(s) == IF s \in Tracked THEN "find discard" ELSE "ended"

\* A worker begins the operation it came for.
Begin(w) ==
  /\ stage[w] = "begin"
  /\ Reaches(w, CASE task[w] \in {"publish_new", "replace"} -> "make"
                  [] task[w] \in {"read image", "read catalog"} -> "find listed"
                  [] OTHER -> "find delete")
  /\ UNCHANGED <<given, place, made, inCore, disk, whole, tmpDir, finDir, got, gone,
                 losses, swaps>>

\* `mkdir_in`: a name that exists, be it a symlink, is left alone.
Make(w) ==
  /\ stage[w] \in {"make", "make final"}
  /\ Reaches(w, IF stage[w] = "make" THEN "find create" ELSE "find final")
  /\ \/ place # "absent" /\ UNCHANGED <<place, made>>
     \/ /\ place = "absent" /\ Dir \ made # {}
        /\ place' = CHOOSE d \in Dir \ made : TRUE
        /\ made' = made \cup {place'}
  /\ UNCHANGED <<given, inCore, disk, whole, tmpDir, finDir, got, gone, losses, swaps>>

AfterFind(s) ==
  CASE s = "find create"  -> "create"
    [] s = "find tmp"     -> "make final"
    [] s = "find final"   -> "sync"
    [] s = "find discard" -> "discard"
    [] s = "find listed"  -> "list"
    [] s = "find read"    -> "open"
    [] OTHER              -> "unlink"

\* The directory is pinned for the temporary or for the final name.
Pins(w, d) ==
  IF stage[w] \in {"find create", "find tmp", "find discard"}
  THEN tmpDir' = [tmpDir EXCEPT ![w] = d] /\ UNCHANGED finDir
  ELSE finDir' = [finDir EXCEPT ![w] = d] /\ UNCHANGED tmpDir

\* Mutant: the path is opened as it stands, through a symlink too.
OpenDirFollowing(w) ==
  /\ stage[w] \in Finding
  /\ place # "absent"
  /\ Pins(w, IF place = "link" THEN Outside ELSE place)
  /\ Reaches(w, AfterFind(stage[w]))
  /\ UNCHANGED <<given, place, made, inCore, disk, whole, got, gone, losses, swaps>>

\* `open_dir_beneath`: only a directory is opened.
OpenDir(w) ==
  /\ stage[w] \in Finding
  /\ place \in Dir
  /\ Pins(w, place)
  /\ Reaches(w, AfterFind(stage[w]))
  /\ UNCHANGED <<given, place, made, inCore, disk, whole, got, gone, losses, swaps>>

\* A symlink is refused, a missing directory is "no such set" or an empty list.
OpenRefused(w) ==
  /\ stage[w] \in Finding
  /\ place \in {"link", "absent"}
  /\ Reaches(w, OnError(stage[w]))
  /\ UNCHANGED <<given, place, made, inCore, disk, whole, tmpDir, finDir, got, gone,
                 losses, swaps>>

-----------------------------------------------------------------------------
(***************************************************************************)
(* Publication.                                                            *)
(***************************************************************************)
\* `create_tmp`: O_EXCL in the pinned directory.
CreateTmp(w) ==
  /\ stage[w] = "create"
  /\ inCore[tmpDir[w]][w] = Empty
  /\ inCore' = [inCore EXCEPT ![tmpDir[w]][w] = w]
  /\ Reaches(w, "write")
  /\ UNCHANGED <<given, place, made, disk, whole, tmpDir, finDir, got, gone, losses, swaps>>

\* The image or the catalog is written out.
WriteOut(w) ==
  /\ stage[w] = "write"
  /\ whole' = whole \cup {w}
  /\ Reaches(w, "find tmp")
  /\ UNCHANGED <<given, place, made, inCore, disk, tmpDir, finDir, got, gone, losses, swaps>>

There(w) == inCore[tmpDir[w]][w] = w

AfterSync(w) ==
  IF task[w] = "replace" THEN "rename over" ELSE IF exclusive THEN "rename" ELSE "check"

\* Mutant: the file is renamed into place before it is flushed.
SyncSkipped(w) ==
  /\ stage[w] = "sync"
  /\ There(w)
  /\ Reaches(w, AfterSync(w))
  /\ UNCHANGED <<given, place, made, inCore, disk, whole, tmpDir, finDir, got, gone,
                 losses, swaps>>

\* `publish` flushes the temporary file first.
SyncFile(w) ==
  /\ stage[w] = "sync"
  /\ There(w)
  /\ stable' = stable \cup {w}
  /\ Reaches(w, AfterSync(w))
  /\ UNCHANGED <<given, place, made, kept, inCore, onDisk, whole, tmpDir, finDir, got,
                 gone, losses, swaps>>

Moved(w) ==
  LET taken == [inCore EXCEPT ![tmpDir[w]][w] = Empty]
  IN  [taken EXCEPT ![finDir[w]][Final(w)] = w]

Occupied(w) == inCore[finDir[w]][Final(w)] # Empty

\* `rename_noreplace` where the file system knows RENAME_NOREPLACE.
RenameNew(w) ==
  /\ stage[w] = "rename"
  /\ There(w) /\ ~ Occupied(w)
  /\ inCore' = Moved(w)
  /\ Reaches(w, "sync dir")
  /\ UNCHANGED <<given, place, made, disk, whole, tmpDir, finDir, got, gone, losses, swaps>>

\* And where it does not (NFS, CIFS): the name is looked up, then renamed over.
CheckFree(w) ==
  /\ stage[w] = "check"
  /\ ~ Occupied(w)
  /\ Reaches(w, "rename over")
  /\ UNCHANGED <<given, place, made, inCore, disk, whole, tmpDir, finDir, got, gone,
                 losses, swaps>>

\* The name is taken, or the temporary file is not where it was.
RenameRefuses(w) ==
  /\ \/ stage[w] \in {"rename", "check"} /\ Occupied(w)
     \/ stage[w] \in {"sync", "rename", "rename over"} /\ ~ There(w)
     \/ stage[w] = "create" /\ inCore[tmpDir[w]][w] # Empty
  /\ Reaches(w, OnError(stage[w]))
  /\ UNCHANGED <<given, place, made, inCore, disk, whole, tmpDir, finDir, got, gone,
                 losses, swaps>>

\* rename(2): `replace`, and the fallback above.
RenameOver(w) ==
  /\ stage[w] = "rename over"
  /\ There(w)
  /\ inCore' = Moved(w)
  /\ gone' = gone \cup ({inCore[finDir[w]][Final(w)]} \ {Empty})
  /\ Reaches(w, "sync dir")
  /\ UNCHANGED <<given, place, made, disk, whole, tmpDir, finDir, got, losses, swaps>>

\* The directory is flushed, and the publication is `Synced`.
SyncDir(w) ==
  /\ stage[w] = "sync dir"
  /\ onDisk' = [onDisk EXCEPT ![finDir[w]] = Published(finDir[w])]
  /\ Reaches(w, "synced")
  /\ UNCHANGED <<given, place, made, kept, inCore, whole, stable, tmpDir, finDir, got,
                 gone, losses, swaps>>

\* Any system call of an operation may fail.
Fails(w) ==
  /\ stage[w] \in Working
  /\ Reaches(w, OnError(stage[w]))
  /\ UNCHANGED <<given, place, made, inCore, disk, whole, tmpDir, finDir, got, gone,
                 losses, swaps>>

\* `TempGuard::drop`
DiscardTmp(w) ==
  /\ stage[w] = "discard"
  /\ inCore' = [inCore EXCEPT ![tmpDir[w]][w] = Empty]
  /\ Reaches(w, "ended")
  /\ UNCHANGED <<given, place, made, disk, whole, tmpDir, finDir, got, gone, losses, swaps>>

-----------------------------------------------------------------------------
(***************************************************************************)
(* Listing, reading, deleting.                                             *)
(***************************************************************************)
\* `list`: the name is among the directory's regular files, or not.
List(w) ==
  /\ stage[w] = "list"
  /\ Reaches(w, IF Occupied(w) THEN "find read" ELSE "ended")
  /\ UNCHANGED <<given, place, made, inCore, disk, whole, tmpDir, finDir, got, gone,
                 losses, swaps>>

\* `open_ro`: by then the name may be gone, or hold another file.
OpenRo(w) ==
  /\ stage[w] = "open"
  /\ got' = [got EXCEPT ![w] = inCore[finDir[w]][Final(w)]]
  /\ Reaches(w, "ended")
  /\ UNCHANGED <<given, place, made, inCore, disk, whole, tmpDir, finDir, gone, losses, swaps>>

\* `delete`
Unlink(w) ==
  /\ stage[w] = "unlink"
  /\ Occupied(w)
  /\ gone' = gone \cup {inCore[finDir[w]][Final(w)]}
  /\ inCore' = [inCore EXCEPT ![finDir[w]][Final(w)] = Empty]
  /\ Reaches(w, "ended")
  /\ UNCHANGED <<given, place, made, disk, whole, tmpDir, finDir, got, losses, swaps>>

-----------------------------------------------------------------------------
(***************************************************************************)
(* The kernel, the power and the others.  A process that is killed is one  *)
(* that takes no further step.                                             *)
(***************************************************************************)
\* The kernel writes a directory, a directory's own entry, or a file back.
WriteBack ==
  /\ \/ /\ \E d \in made : onDisk' = [onDisk EXCEPT ![d] = Published(d)]
        /\ UNCHANGED <<kept, stable>>
     \/ (\E d \in made : kept' = kept \cup {d}) /\ UNCHANGED <<onDisk, stable>>
     \/ (\E w \in whole : stable' = stable \cup {w}) /\ UNCHANGED <<onDisk, kept>>
  /\ UNCHANGED <<given, place, made, inCore, whole, stage, tmpDir, finDir, got, gone,
                 losses, swaps>>

\* Whoever was at work is gone, and what was not written back is lost, a
\* directory whose own entry was not included.
PowerLoss ==
  /\ losses < MaxLosses
  /\ losses' = losses + 1
  /\ made' = kept
  /\ place' = IF place \in Dir \ kept THEN "absent" ELSE place
  /\ inCore' = [d \in Dir \cup {Outside} |-> [n \in FileName |->
                  IF d \in kept /\ n \in FinalName THEN onDisk[d][n] ELSE Empty]]
  /\ onDisk' = [d \in Dir |-> [n \in FinalName |-> inCore'[d][n]]]
  /\ whole' = stable
  /\ stage' = [w \in Worker |-> IF stage[w] \in Working THEN "dead" ELSE stage[w]]
  /\ finDir' = [w \in Worker |-> IF finDir[w] \in kept THEN finDir[w] ELSE Outside]
  /\ UNCHANGED <<given, kept, stable, tmpDir, got, gone, swaps>>

\* Somebody who may write there moves the directory away, puts a symlink in
\* its place, or puts a directory back.
Swap ==
  /\ swaps < MaxSwaps
  /\ swaps' = swaps + 1
  /\ place' \in (made \cup {"absent", "link"}) \ {place}
  /\ UNCHANGED <<given, made, inCore, disk, whole, stage, tmpDir, finDir, got, gone, losses>>

Works(w) ==
  \/ Begin(w) \/ Make(w) \/ OpenDir(w) \/ OpenRefused(w)
  \/ CreateTmp(w) \/ WriteOut(w) \/ SyncFile(w)
  \/ RenameNew(w) \/ CheckFree(w) \/ RenameRefuses(w) \/ RenameOver(w) \/ SyncDir(w)
  \/ Fails(w) \/ DiscardTmp(w) \/ List(w) \/ OpenRo(w) \/ Unlink(w)

FilesNext == (\E w \in Worker : Works(w)) \/ WriteBack \/ PowerLoss \/ Swap

FilesSpec == FilesInit /\ [][FilesNext]_filesVars

-----------------------------------------------------------------------------
(***************************************************************************)
(* Properties.                                                             *)
(***************************************************************************)
\* "A crash can never leave a partial file that looks complete" (local.rs:5):
\* what has a published name is on stable storage entirely, before and after a
\* power loss, and so is what a reader opened.
NoTornFile ==
  /\ \A d \in Dir, n \in FinalName : inCore[d][n] \in (whole \cap stable) \cup {Empty}
  /\ \A w \in Worker : got[w] \in (whole \cap stable) \cup {Empty}

\* A publication that returned `Synced` stays until it is deleted or replaced,
\* also through a power loss, as long as the directory itself does: nobody
\* flushes the entry of a directory that was only just made.
SyncedStays ==
  \A w \in Worker :
    stage[w] = "synced" /\ w \notin gone /\ finDir[w] \in Dir
      => inCore[finDir[w]][Final(w)] = w

\* Two publishers of one name never replace each other's image, and no
\* operation lands in a directory that a planted symlink leads to.
OnlyItsOwnFiles ==
  /\ \A v \in gone : task[v] = "replace" \/ \E w \in Worker : task[w] = "delete"
  /\ inCore[Outside] = NoFiles

\* A local destination's files are safe: no reader gets a torn file, a file that
\* was reported Synced stays where it is whatever the power does, and operations
\* touch only what is theirs (publish_new, replace, delete).
FilesAreSafe == NoTornFile /\ SyncedStays /\ OnlyItsOwnFiles
===============================================================================
