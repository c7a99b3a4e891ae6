----------------------------- MODULE SecretFile -----------------------------
(***************************************************************************)
(* Writing a secret file (crates/secret_file/src/write.rs): concurrent     *)
(* calls of `write` for one path, each replacing the file by a rename or   *)
(* writing it in place, another process swapping the entry at the path,    *)
(* I/O errors, and a crash of the machine.                                 *)
(*                                                                         *)
(* The file system is external: a file's data reaches the disk when it is  *)
(* synced, a directory entry when its directory is. After a crash, data    *)
(* that was not synced may be there, missing or partly written, and the    *)
(* directory may be as it was at any time since it was last synced.        *)
(***************************************************************************)
EXTENDS Integers, Sequences, FiniteSets

CONSTANTS
  Writer,        \* concurrent calls of write, each with its own contents
  FileSystems    \* what the path is on, see FileSystem

VARIABLES
  fs,        \* the file system
  parent,    \* the directory of the path: "missing", "created" or "durable"
  entry,     \* the entry at the path: an inode, Absent or Link
  onDisk,    \* the entries the path may have after a crash
  inode,     \* [data, disk] of each inode
  temps,     \* the writers whose temp file is beside the path
  call,      \* [step, existing, inPlace, opened] of each call
  placed,    \* the writers whose contents got to the path, in order
  inPlaceOf, \* inodes that were written in place
  swapped,   \* another process replaced the entry
  crashed

fileVars == <<fs, parent, entry, onDisk, inode, temps, call, placed, inPlaceOf,
              swapped, crashed>>

Absent == "absent"
Link == "link"        \* a symlink to the inode Target
Original == "original"
Target == "target"
Torn == "torn"        \* contents written in part

\* What decides how a file is written. `found`: the entry at first; `identity`:
\* whether a new file can be given the owner, mode and access control of the
\* existing one; `sticky`: the writer may replace the file in its directory;
\* `rename`: "busy" for a bind mount; `dirSync`: syncing the directory works,
\* is not supported, or fails.
FileSystem ==
  [parent : {"missing", "durable"}, found : {Absent, Link, Original}, hardLinked : BOOLEAN, ownerOnlyDir : BOOLEAN,
   dirWritable : BOOLEAN, fileWritable : BOOLEAN,
   identity : {"kept", "not permitted", "error"}, sticky : BOOLEAN,
   rename : {"ok", "busy"}, dirSync : {"ok", "unsupported", "error"}]

\* A directory that is missing holds nothing; a new file can be given the owner,
\* mode and access control of one this program made.
ASSUME FilesAssumption ==
  /\ Writer \cap {Absent, Link, Original, Target, Torn} = {}
  /\ \A f \in FileSystems :
       /\ f \in FileSystem
       /\ f.parent = "missing" => f.found = Absent
       /\ f.found # Original => f.identity = "kept"

Inodes == {Original, Target} \cup Writer   \* a writer's temp file is its own

FileInit ==
  /\ fs \in FileSystems
  /\ parent = fs.parent
  /\ entry = fs.found
  /\ onDisk = {fs.found}
  /\ inode = [i \in Inodes |-> [data |-> i, disk |-> i]]
  /\ temps = {}
  /\ call = [w \in Writer |-> [step |-> "find parent", existing |-> Absent,
                               inPlace |-> FALSE, opened |-> Absent]]
  /\ placed = <<>>
  /\ inPlaceOf = {}
  /\ swapped = FALSE
  /\ crashed = FALSE

----------------------------------------------------------------------------
(* A call *)

GoTo(w, step) == call' = [call EXCEPT ![w].step = step]

\* TempPath::drop removes the temp file, however the call ends.
DropTemp(w) == temps' = temps \ {w}

\* Ends, or goes on without its temp file.
Without(w, step) == GoTo(w, step) /\ DropTemp(w)

\* Mutant: opening is enough, whatever was opened.
SameFileAny(opened, existing) == TRUE

SameFile(opened, existing) == opened = existing

\* create_dir_all: a directory found missing is created, and the directory that
\* holds it synced.
FindParent(w) ==
  /\ call[w].step = "find parent"
  /\ GoTo(w, IF parent = "missing" THEN "create parent" ELSE "stat")
  /\ UNCHANGED <<fs, parent, entry, onDisk, inode, temps, placed, inPlaceOf, swapped, crashed>>

CreateParent(w) ==
  /\ call[w].step = "create parent"
  /\ GoTo(w, "sync parent")
  /\ parent' = IF parent = "missing" THEN "created" ELSE parent
  /\ UNCHANGED <<fs, entry, onDisk, inode, temps, placed, inPlaceOf, swapped, crashed>>

SyncParent(w) ==
  /\ call[w].step = "sync parent"
  /\ GoTo(w, IF fs.dirSync = "error" THEN "error" ELSE "stat")
  /\ parent' = IF fs.dirSync = "ok" THEN "durable" ELSE parent
  /\ UNCHANGED <<fs, entry, onDisk, inode, temps, placed, inPlaceOf, swapped, crashed>>

\* write_file: the entry itself, not what a link leads to. Only a regular file
\* is kept or written in place.
Stat(w) ==
  /\ call[w].step = "stat"
  /\ LET regular == entry \notin {Absent, Link}
         linked == entry = Original /\ fs.hardLinked
     IN call' = [call EXCEPT ![w] =
          [step |-> IF regular /\ linked /\ fs.ownerOnlyDir THEN "open linked"
                    ELSE "create temp",
           existing |-> IF regular THEN entry ELSE Absent,
           inPlace |-> regular /\ (linked => fs.ownerOnlyDir),
           opened |-> Absent]]
  /\ UNCHANGED <<fs, parent, entry, onDisk, inode, temps, placed, inPlaceOf, swapped, crashed>>

\* replace, create_temp: create_new, so the file is nobody else's.
CreateTemp(w) ==
  /\ call[w].step = "create temp"
  /\ IF fs.dirWritable
     THEN /\ GoTo(w, "copy identity")
          /\ temps' = temps \cup {w}
          /\ inode' = [inode EXCEPT ![w] = [data |-> Torn, disk |-> Torn]]
     ELSE /\ GoTo(w, IF call[w].inPlace THEN "open" ELSE "error")
          /\ UNCHANGED <<temps, inode>>
  /\ UNCHANGED <<fs, parent, entry, onDisk, placed, inPlaceOf, swapped, crashed>>

\* copy_identity, not_permitted, sticky_permits_in_place
CopyIdentity(w) ==
  /\ call[w].step = "copy identity"
  /\ CASE call[w].existing = Absent \/ fs.identity = "kept" ->
            GoTo(w, "write temp") /\ UNCHANGED temps
       [] OTHER ->
            Without(w, IF fs.identity = "not permitted" /\ call[w].inPlace /\ fs.sticky
                       THEN "open" ELSE "error")
  /\ UNCHANGED <<fs, parent, entry, onDisk, inode, placed, inPlaceOf, swapped, crashed>>

WriteTemp(w) ==
  /\ call[w].step = "write temp"
  /\ \/ GoTo(w, "sync temp") /\ inode' = [inode EXCEPT ![w].data = w] /\ UNCHANGED temps
     \/ Without(w, "error") /\ UNCHANGED inode                       \* eg. no space
  /\ UNCHANGED <<fs, parent, entry, onDisk, placed, inPlaceOf, swapped, crashed>>

\* Mutant: the rename makes them visible first.
RenameUnsynced(w) ==
  /\ call[w].step = "sync temp"
  /\ GoTo(w, "rename")
  /\ UNCHANGED <<fs, parent, entry, onDisk, inode, temps, placed, inPlaceOf, swapped, crashed>>

\* The contents have to be on disk before the rename makes them visible.
SyncTemp(w) ==
  /\ call[w].step = "sync temp"
  /\ GoTo(w, "rename")
  /\ inode' = [inode EXCEPT ![w].disk = inode[w].data]
  /\ UNCHANGED <<fs, parent, entry, onDisk, temps, placed, inPlaceOf, swapped, crashed>>

Rename(w) ==
  /\ call[w].step = "rename"
  /\ IF fs.rename = "busy" /\ entry = Original
     THEN /\ Without(w, IF call[w].inPlace THEN "open" ELSE "error")
          /\ UNCHANGED <<entry, onDisk, placed>>
     ELSE /\ Without(w, "sync dir")
          /\ entry' = w
          /\ onDisk' = onDisk \cup {w}
          /\ placed' = Append(placed, w)
  /\ UNCHANGED <<fs, parent, inode, inPlaceOf, swapped, crashed>>

\* Mutant: no sync of the directory.
SyncDirNot(w) ==
  /\ call[w].step = "sync dir"
  /\ GoTo(w, "ok")
  /\ UNCHANGED <<fs, parent, entry, onDisk, inode, temps, placed, inPlaceOf, swapped, crashed>>

\* sync_dir: the rename is only durable once its directory is synced.
SyncDir(w) ==
  /\ call[w].step = "sync dir"
  /\ GoTo(w, IF fs.dirSync = "error" THEN "error" ELSE "ok")
  /\ onDisk' = IF fs.dirSync = "ok" THEN {entry} ELSE onDisk
  /\ UNCHANGED <<fs, parent, entry, inode, temps, placed, inPlaceOf, swapped, crashed>>

\* write_in_place: opening follows a link, so the file opened is compared with
\* the file checked before. A hard linked file that can't be opened for writing
\* is replaced after all.
OpenInPlace(w) ==
  /\ call[w].step \in {"open", "open linked"}
  /\ LET opened == IF entry = Link THEN Target ELSE entry
         denied == opened = Original /\ ~fs.fileWritable
     IN CASE opened = Absent -> GoTo(w, "error")
          [] denied /\ call[w].step = "open linked" ->
               call' = [call EXCEPT ![w].step = "create temp", ![w].inPlace = FALSE]
          [] denied /\ call[w].step = "open" -> GoTo(w, "error")
          [] ~denied /\ opened # Absent /\ ~SameFile(opened, call[w].existing) ->
               GoTo(w, "error")
          [] ~denied /\ opened # Absent /\ SameFile(opened, call[w].existing) ->
               call' = [call EXCEPT ![w].step = "write in place", ![w].opened = opened]
  /\ UNCHANGED <<fs, parent, entry, onDisk, inode, temps, placed, inPlaceOf, swapped, crashed>>

\* Not atomic: the file holds part of the contents until it is truncated.
WriteInPlace(w) ==
  /\ call[w].step = "write in place"
  /\ inode' = [inode EXCEPT ![call[w].opened].data = Torn]
  /\ inPlaceOf' = inPlaceOf \cup {call[w].opened}
  /\ \/ GoTo(w, "truncate")
     \/ GoTo(w, "error")
  /\ UNCHANGED <<fs, parent, entry, onDisk, temps, placed, swapped, crashed>>

\* set_len and sync_all
TruncateInPlace(w) ==
  /\ call[w].step = "truncate"
  /\ inode' = [inode EXCEPT ![call[w].opened] = [data |-> w, disk |-> w]]
  /\ GoTo(w, "ok")
  /\ placed' = Append(placed, w)
  /\ UNCHANGED <<fs, parent, entry, onDisk, temps, inPlaceOf, swapped, crashed>>

WriterStep(w) ==
  ~crashed /\ \/ FindParent(w) \/ CreateParent(w) \/ SyncParent(w)
              \/ Stat(w) \/ CreateTemp(w) \/ CopyIdentity(w) \/ WriteTemp(w)
              \/ SyncTemp(w) \/ Rename(w) \/ SyncDir(w)
              \/ OpenInPlace(w) \/ WriteInPlace(w) \/ TruncateInPlace(w)

----------------------------------------------------------------------------
(* The environment *)

\* Another process puts a link in the place of the entry.
Swap ==
  /\ ~crashed /\ ~swapped /\ parent # "missing"
  /\ swapped' = TRUE
  /\ entry' = Link
  /\ onDisk' = onDisk \cup {Link}
  /\ UNCHANGED <<fs, parent, inode, temps, call, placed, inPlaceOf, crashed>>

Crash ==
  /\ ~crashed
  /\ crashed' = TRUE
  /\ entry' \in onDisk \cup (IF parent = "created" THEN {Absent} ELSE {})
  /\ LET unsynced == {i \in Inodes : inode[i].data # inode[i].disk}
     IN \E left \in [unsynced -> {"whole", "partly", "lost"}] :
          inode' = [i \in Inodes |->
            IF i \notin unsynced \/ (i \in unsynced /\ left[i] = "whole") THEN inode[i]
            ELSE [inode[i] EXCEPT !.data =
                    IF left[i] = "partly" THEN Torn ELSE inode[i].disk]]
  /\ UNCHANGED <<fs, parent, onDisk, temps, call, placed, inPlaceOf, swapped>>

FileNext == (\E w \in Writer : WriterStep(w)) \/ Swap \/ Crash

FileSpec == FileInit /\ [][FileNext]_fileVars

----------------------------------------------------------------------------
(* Properties *)

Ended(w) == call[w].step \in {"ok", "error"}
Positions(w) == {k \in 1..Len(placed) : placed[k] = w}

\* "readers never see a partially written file": what the path holds is always
\* written in full, also after a crash, unless the file itself had to be written
\* in place; and a call that ended left no temp file beside it.
ReadersSeeWholeFiles ==
  /\ entry \in Inodes \ inPlaceOf => inode[entry].data # Torn
  /\ \A w \in Writer : Ended(w) => w \notin temps

\* "once this returns Ok the new file survives a crash": after a crash the path
\* has the contents of every call that returned Ok, or contents a later write
\* put over them. Where directories can be synced, and nobody else replaced the
\* entry. A call that finds the directory another one just created does not sync
\* what holds it: until the other did, a crash can lose the directory.
OkSurvivesCrash ==
  crashed /\ fs.dirSync # "unsupported" /\ ~swapped
    /\ ~(\E w \in Writer : call[w].step = "sync parent") =>
    \A w \in Writer : call[w].step = "ok" =>
      /\ entry \in Inodes
      /\ \/ \E v \in Writer : /\ inode[entry].data = v
                              /\ \E j \in Positions(v), k \in Positions(w) : j >= k
         \/ entry \in inPlaceOf /\ \E v \in Writer : call[v].step \in {"truncate", "error"}

\* "a symlink at the path is not followed": the file a link leads to is never
\* written, also when the link is put there between the check and the write.
LinkIsNotFollowed == inode[Target].data = Target

\* A write replaces its own path as a whole: nothing torn is ever seen there,
\* nothing beside or behind it is touched, and once it returned Ok a crash does
\* not undo it.
WritesSurvive == ReadersSeeWholeFiles /\ LinkIsNotFollowed /\ OkSurvivesCrash
=============================================================================
