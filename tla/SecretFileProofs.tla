-------------------------- MODULE SecretFileProofs --------------------------
(***************************************************************************)
(* Proofs about secret files, for any number of writers and any file       *)
(* system: what `write` promises of its path holds at every step and after *)
(* a crash at any of them.                                                 *)
(*                                                                         *)
(* A crash ends a behaviour, so the invariant is in two halves: before it, *)
(* Running, and after it, WritesSurvive itself. Running says what is true  *)
(* of every file that can be seen at the path (Files), and, until another  *)
(* process swaps the entry, that every call writes the path the same way:  *)
(* all in place (AllInPlace) or all by a rename (AllRename).               *)
(***************************************************************************)
EXTENDS SecretFile, SequenceTheorems, TLAPS

CallFields == {"step", "existing", "inPlace", "opened"}

Early == {"find parent", "create parent", "sync parent", "stat"}
WithTemp == {"copy identity", "write temp", "sync temp", "rename"}
InPlaceSteps == {"open", "open linked", "write in place", "truncate"}
Final == {"sync dir", "ok", "error"}
Steps == Early \cup {"create temp"} \cup WithTemp \cup InPlaceSteps \cup Final

Shape ==
  /\ fs \in FileSystems
  /\ parent = "missing" => fs.parent = "missing"
  /\ DOMAIN call = Writer
  /\ \A w \in Writer : DOMAIN call[w] = CallFields /\ call[w].step \in Steps
  /\ DOMAIN inode = Inodes
  /\ \A i \in Inodes : DOMAIN inode[i] = {"data", "disk"}
  /\ placed \in Seq(Writer)

----------------------------------------------------------------------------
(* What can be seen at the path *)

Intact(x) == inode[x].data = x /\ inode[x].disk = x

\* A writer's file whose call is past the rename: nobody writes it but in place.
Settled(x) == x \in Writer /\ call[x].step \in Final /\ (x \notin inPlaceOf => Intact(x))

Visible(x) == x \in {Absent, Link, Original} \/ Settled(x)

OwnFile(w) ==
  LET c == call[w]
  IN /\ Visible(c.existing) /\ c.existing # Link
     /\ c.step \in {"write in place", "truncate"} =>
          Visible(c.opened) /\ c.opened \notin {Absent, Link}
     /\ c.step = "truncate" => c.opened \in inPlaceOf
     /\ w \in temps => c.step \in WithTemp
     /\ c.step = "sync temp" => inode[w].data = w
     /\ c.step = "rename" => Intact(w)

Files ==
  /\ Visible(entry)
  /\ \A x \in onDisk : Visible(x)
  /\ \A w \in Writer : OwnFile(w)
  /\ Original \notin inPlaceOf => Intact(Original)
  /\ \A x \in inPlaceOf : x = Original \/ (x \in Writer /\ call[x].step \in Final)
  /\ Intact(Target)

----------------------------------------------------------------------------
(* How the path is written *)

\* The existing file has to be kept: linked and trusted, or its directory, its
\* identity or a mount does not let it be replaced.
InPlaceMode ==
  /\ fs.found = Original
  /\ \/ fs.hardLinked /\ fs.ownerOnlyDir /\ fs.fileWritable
     \/ /\ ~fs.hardLinked
        /\ ~fs.dirWritable \/ fs.identity = "not permitted" \/ fs.rename = "busy"

LastPlaced == placed[Len(placed)]
IsPlaced(w) == \E k \in DOMAIN placed : placed[k] = w
AtOrAfter(x, w) == \E j, k \in DOMAIN placed : placed[j] = x /\ placed[k] = w /\ j >= k

\* No call gets to rename over the file.
CallInPlace(w) ==
  LET c == call[w]
  IN /\ c.step # "sync dir"
     /\ c.step \in {"create temp"} \cup WithTemp => ~fs.hardLinked
     /\ c.step \in WithTemp => fs.dirWritable
     /\ c.step \in WithTemp \ {"copy identity"} => fs.identity = "kept"
     /\ c.step \in {"create temp"} \cup WithTemp \cup InPlaceSteps => c.existing = Original
     /\ c.step \in {"write in place", "truncate"} => c.opened = Original
     /\ c.step = "ok" => IsPlaced(w)

AllInPlace ==
  /\ entry = Original /\ onDisk = {Original} /\ parent = "durable"
  /\ \A w \in Writer : CallInPlace(w)
  /\ placed # <<>> => Original \in inPlaceOf
  /\ placed # <<>> /\ (\A w \in Writer : call[w].step \notin {"truncate", "error"}) =>
       inode[Original].data = LastPlaced /\ inode[Original].disk = LastPlaced

\* No call gets to write an existing file.
CallRenames(w) ==
  LET c == call[w]
  IN /\ c.step \notin {"open", "write in place", "truncate"}
     /\ c.step = "open linked" => c.existing = Original /\ ~fs.fileWritable
     /\ c.step \in WithTemp => fs.dirWritable
     /\ c.step \in WithTemp \ {"copy identity"} => fs.identity = "kept"
     /\ c.step \in {"create temp"} \cup WithTemp =>
          /\ c.existing = Absent => fs.found # Original /\ ~c.inPlace
          /\ c.existing = Original => fs.found = Original /\ (c.inPlace => ~fs.hardLinked)
          /\ c.existing \in Writer => placed # <<>>
     /\ c.step \in {"sync dir", "ok"} => IsPlaced(w)
     /\ c.step = "ok" => fs.dirSync # "error"
     /\ c.step = "ok" /\ fs.dirSync = "ok" => \A x \in onDisk : AtOrAfter(x, w)

AllRename ==
  /\ entry = IF placed = <<>> THEN fs.found ELSE LastPlaced
  /\ inPlaceOf = {}
  /\ placed # <<>> => fs.dirWritable /\ fs.identity = "kept"
  /\ parent = "created" /\ fs.dirSync = "ok" => \E w \in Writer : call[w].step = "sync parent"
  /\ \A w \in Writer : CallRenames(w)

OneWay == ~swapped => IF InPlaceMode THEN AllInPlace ELSE AllRename

Running == Shape /\ Files /\ OneWay

FilesInv == IF crashed THEN WritesSurvive ELSE Running

----------------------------------------------------------------------------
(* Frames *)

\* Only w's call goes on.
OneCall(w) ==
  /\ DOMAIN call' = Writer
  /\ DOMAIN call'[w] = CallFields /\ call'[w].step \in Steps
  /\ \A v \in Writer : v # w => call'[v] = call[v]

LEMMA GoesTo ==
  ASSUME Shape, NEW w \in Writer, NEW s \in Steps, GoTo(w, s)
  PROVE  /\ OneCall(w) /\ call'[w].step = s
         /\ call'[w].existing = call[w].existing /\ call'[w].inPlace = call[w].inPlace
         /\ call'[w].opened = call[w].opened
BY DEF Shape, GoTo, OneCall, CallFields

LEMMA ShapeFrame ==
  ASSUME Shape, NEW w \in Writer, OneCall(w), fs' = fs, parent' = "missing" => parent = "missing",
         inode' = inode \/ (DOMAIN inode' = Inodes /\
                            \A i \in Inodes : DOMAIN inode'[i] = {"data", "disk"}),
         placed' = placed \/ placed' = Append(placed, w)
  PROVE  Shape'
<1>1. \A v \in Writer : DOMAIN call'[v] = CallFields /\ call'[v].step \in Steps
  BY DEF Shape, OneCall
<1>2. placed' \in Seq(Writer)
  BY AppendProperties DEF Shape
<1>3. DOMAIN inode' = Inodes /\ \A i \in Inodes : DOMAIN inode'[i] = {"data", "disk"}
  BY DEF Shape
<1> QED BY <1>1, <1>2, <1>3 DEF Shape, OneCall, Inodes

\* A file that may be written in place.
Replaceable(x) == x = Original \/ (x \in Writer /\ call[x].step \in Final)

\* What a step of w may change of files: its own temp file, or in place.
FilesChange(w) ==
  /\ call[w].step \in Final => call'[w].step \in Final
  /\ inPlaceOf \subseteq inPlaceOf'
  /\ \A x \in inPlaceOf' : x \in inPlaceOf \/ Replaceable(x)
  /\ \A i \in Inodes : \/ inode'[i] = inode[i]
                       \/ i = w /\ call[w].step \notin Final
                       \/ i \in inPlaceOf' /\ Replaceable(i)

LEMMA StaysVisible ==
  ASSUME Shape, NEW w \in Writer, OneCall(w), FilesChange(w), NEW x, Visible(x)
  PROVE  Visible(x)'
<1>1. CASE x \in {Absent, Link, Original}
  BY <1>1 DEF Visible
<1>2. CASE Settled(x)
  <2>1. x \in Writer /\ x \in Inodes /\ call[x].step \in Final
    BY <1>2 DEF Settled, Inodes
  <2>2. call'[x].step \in Final
    BY <2>1 DEF OneCall, FilesChange
  <2>3. x \notin inPlaceOf' => inode'[x] = inode[x] /\ x \notin inPlaceOf
    BY <2>1 DEF FilesChange
  <2>4. x \notin inPlaceOf' => Intact(x)'
    BY <1>2, <2>3 DEF Settled, Intact
  <2> QED BY <2>1, <2>2, <2>4 DEF Visible, Settled
<1> QED BY <1>1, <1>2 DEF Visible

LEMMA FilesFrame ==
  ASSUME Shape, Files, NEW w \in Writer, OneCall(w), FilesChange(w),
         entry' = entry \/ Visible(entry)', \A x \in onDisk' : x \in onDisk \/ Visible(x)',
         temps' \subseteq temps \cup {w}, OwnFile(w)'
  PROVE  Files'
<1>0. Original \in Inodes /\ Target \in Inodes /\ Original # w /\ Target # w /\ Target # Original
      /\ Target \notin Writer
  BY FilesAssumption DEF Inodes, Original, Target
<1>1. Visible(entry)'
  <2>1. CASE entry' = entry
    <3>1. PICK x : x = entry
      OBVIOUS
    <3>2. Visible(x)'
      BY <3>1, StaysVisible DEF Files
    <3> QED BY <2>1, <3>1, <3>2 DEF Visible, Settled, Intact
  <2> QED BY <2>1
<1>2. \A x \in onDisk' : Visible(x)'
  BY StaysVisible DEF Files
<1>3. ASSUME NEW v \in Writer, v # w PROVE OwnFile(v)'
  <2>1. OwnFile(v) /\ call'[v] = call[v]
    BY <1>3 DEF Files, OneCall
  <2>2. PICK old, open : old = call[v].existing /\ open = call[v].opened
    OBVIOUS
  <2>3. Visible(old)' /\ old # Link
    BY <2>1, <2>2, StaysVisible DEF OwnFile
  <2>4. call[v].step \in {"write in place", "truncate"} => Visible(open)' /\ open \notin {Absent, Link}
    BY <2>1, <2>2, StaysVisible DEF OwnFile
  <2>5. call[v].step \in {"sync temp", "rename"} => inode'[v] = inode[v]
    <3>1. call[v].step \in {"sync temp", "rename"} => ~Replaceable(v) /\ v \in Inodes /\ v # w
      BY <1>3, FilesAssumption DEF Replaceable, Final, Inodes
    <3> QED BY <3>1 DEF FilesChange
  <2>6. v \in temps' => v \in temps
    BY <1>3
  <2> HIDE DEF Absent, Link
  <2>7. Visible(call[v].existing)'
    BY <2>1, <2>2, <2>3 DEF Visible, Settled, Intact
  <2>8. call[v].step \in {"write in place", "truncate"} => Visible(call[v].opened)'
    BY <2>1, <2>2, <2>4 DEF Visible, Settled, Intact
  <2>9. inPlaceOf \subseteq inPlaceOf'
    BY DEF FilesChange
  <2> QED BY <2>1, <2>2, <2>3, <2>4, <2>5, <2>6, <2>7, <2>8, <2>9 DEF OwnFile, Intact
<1>4. Original \notin inPlaceOf' => Intact(Original)'
  <2>1. Original \notin inPlaceOf' => inode'[Original] = inode[Original] /\ Original \notin inPlaceOf
    BY <1>0 DEF FilesChange
  <2> QED BY <2>1 DEF Files, Intact
<1>5. \A x \in inPlaceOf' : x = Original \/ (x \in Writer /\ call'[x].step \in Final)
  BY DEF Files, FilesChange, Replaceable, OneCall
<1>6. Intact(Target)'
  <2>1. ~Replaceable(Target)
    BY <1>0 DEF Replaceable
  <2>2. inode'[Target] = inode[Target]
    BY <1>0, <2>1 DEF FilesChange
  <2> QED BY <2>2 DEF Files, Intact
<1> QED BY <1>1, <1>2, <1>3, <1>4, <1>5, <1>6 DEF Files

\* What another writer's contents at the path change.
LEMMA Appended ==
  ASSUME Shape, NEW w \in Writer, placed' = Append(placed, w)
  PROVE  /\ \A v : IsPlaced(v) => IsPlaced(v)'
         /\ \A x, v : AtOrAfter(x, v) => AtOrAfter(x, v)'
         /\ IsPlaced(w)' /\ LastPlaced' = w /\ placed' # <<>>
         /\ \A v : IsPlaced(v)' => AtOrAfter(w, v)'
<1>1. /\ placed \in Seq(Writer) /\ placed' \in Seq(Writer) /\ Len(placed') = Len(placed) + 1
      /\ Len(placed) \in Nat
      /\ \A i \in 1..Len(placed) : placed'[i] = placed[i]
      /\ placed'[Len(placed')] = w /\ placed' # <<>>
  BY AppendProperties DEF Shape
<1>2. /\ DOMAIN placed = 1..Len(placed) /\ DOMAIN placed' = 1..Len(placed')
      /\ Len(placed') \in DOMAIN placed' /\ \A k \in DOMAIN placed' : Len(placed') >= k
      /\ DOMAIN placed \subseteq DOMAIN placed' /\ \A i \in DOMAIN placed : placed'[i] = placed[i]
  BY <1>1
<1>3. \A v : IsPlaced(v) => IsPlaced(v)'
  BY <1>2 DEF IsPlaced
<1>4. \A x, v : AtOrAfter(x, v) => AtOrAfter(x, v)'
  BY <1>2 DEF AtOrAfter
<1>5. IsPlaced(w)' /\ LastPlaced' = w
  BY <1>1, <1>2 DEF IsPlaced, LastPlaced
<1>6. \A v : IsPlaced(v)' => AtOrAfter(w, v)'
  BY <1>1, <1>2 DEF IsPlaced, AtOrAfter
<1> QED BY <1>1, <1>3, <1>4, <1>5, <1>6

LEMMA LastIsLast ==
  ASSUME Shape, placed # <<>>
  PROVE  LastPlaced \in Writer /\ \A v : IsPlaced(v) => AtOrAfter(LastPlaced, v)
<1>1. placed \in Seq(Writer) /\ Len(placed) \in Nat /\ DOMAIN placed = 1..Len(placed)
  BY DEF Shape
<1>2. Len(placed) \in DOMAIN placed /\ \A k \in DOMAIN placed : Len(placed) >= k
  BY <1>1
<1> QED BY <1>1, <1>2 DEF LastPlaced, IsPlaced, AtOrAfter

LEMMA OthersInPlace ==
  ASSUME Shape, NEW w \in Writer, OneCall(w), fs' = fs, inPlaceOf \subseteq inPlaceOf',
         placed' = placed \/ placed' = Append(placed, w),
         \A v \in Writer : CallInPlace(v), CallInPlace(w)'
  PROVE  \A v \in Writer : CallInPlace(v)'
<1> SUFFICES ASSUME NEW v \in Writer, v # w PROVE CallInPlace(v)'
  BY Zenon
<1>1. CallInPlace(v) /\ call'[v] = call[v]
  BY DEF OneCall
<1>2. IsPlaced(v) => IsPlaced(v)'
  <2>1. CASE placed' = placed
    BY <2>1 DEF IsPlaced
  <2>2. CASE placed' = Append(placed, w)
    BY <2>2, Appended
  <2> QED BY <2>1, <2>2
<1> QED BY <1>1, <1>2 DEF CallInPlace

LEMMA OthersRename ==
  ASSUME Shape, NEW w \in Writer, OneCall(w), fs' = fs,
         placed' = placed \/ placed' = Append(placed, w),
         \A x \in onDisk' : \/ x \in onDisk
                            \/ \A v \in Writer : IsPlaced(v) => AtOrAfter(x, v)',
         \A v \in Writer : CallRenames(v), CallRenames(w)'
  PROVE  \A v \in Writer : CallRenames(v)'
<1> SUFFICES ASSUME NEW v \in Writer, v # w PROVE CallRenames(v)'
  BY Zenon
<1>1. CallRenames(v) /\ call'[v] = call[v]
  BY DEF OneCall
<1>2. /\ IsPlaced(v) => IsPlaced(v)'
      /\ \A x : AtOrAfter(x, v) => AtOrAfter(x, v)'
      /\ placed # <<>> => placed' # <<>>
  <2>1. CASE placed' = placed
    BY <2>1 DEF IsPlaced, AtOrAfter
  <2>2. CASE placed' = Append(placed, w)
    BY <2>2, Appended
  <2> QED BY <2>1, <2>2
<1>3. call[v].step = "ok" /\ fs.dirSync = "ok" => \A x \in onDisk' : AtOrAfter(x, v)'
  BY <1>1, <1>2 DEF CallRenames
<1> QED BY <1>1, <1>2, <1>3 DEF CallRenames

\* A step of w that leaves the path, and the file found there, alone.
LEMMA OneWayFrame ==
  ASSUME Shape, OneWay, NEW w \in Writer, OneCall(w),
         UNCHANGED <<fs, entry, onDisk, placed, inPlaceOf, swapped>>,
         inode'[Original] = inode[Original], call[w].step \notin {"truncate", "error"},
         parent' = parent \/ fs.parent = "missing" \/ parent' = "durable",
         parent' = "created" => call[w].step # "sync parent" \/ fs.dirSync # "ok",
         parent' = "created" => parent = "created" \/ call'[w].step = "sync parent",
         ~swapped /\ InPlaceMode => CallInPlace(w)',
         ~swapped /\ ~InPlaceMode => CallRenames(w)'
  PROVE  OneWay'
<1>1. InPlaceMode' = InPlaceMode
  BY DEF InPlaceMode
<1>2. ASSUME ~swapped, InPlaceMode PROVE AllInPlace'
  <2>1. AllInPlace
    BY <1>2 DEF OneWay
  <2>2. \A v \in Writer : CallInPlace(v)'
    BY <1>2, <2>1, OthersInPlace DEF AllInPlace
  <2>3. fs.parent = "durable"
    BY <1>2, FilesAssumption DEF Shape, InPlaceMode, FileSystem, Absent, Original
  <2>4. (\A v \in Writer : call'[v].step \notin {"truncate", "error"}) =>
          \A v \in Writer : call[v].step \notin {"truncate", "error"}
    BY DEF OneCall
  <2> QED BY <2>1, <2>2, <2>3, <2>4 DEF AllInPlace, LastPlaced
<1>3. ASSUME ~swapped, ~InPlaceMode PROVE AllRename'
  <2>1. AllRename
    BY <1>3 DEF OneWay
  <2>2. \A v \in Writer : CallRenames(v)'
    BY <1>3, <2>1, OthersRename DEF AllRename
  <2>3. parent' = "created" /\ fs.dirSync = "ok" => \E v \in Writer : call'[v].step = "sync parent"
    <3> SUFFICES ASSUME parent' = "created", fs.dirSync = "ok"
                 PROVE  \E v \in Writer : call'[v].step = "sync parent"
      OBVIOUS
    <3>1. CASE call'[w].step = "sync parent"
      BY <3>1
    <3>2. CASE parent = "created"
      <4>1. PICK v \in Writer : call[v].step = "sync parent"
        BY <2>1, <3>2 DEF AllRename
      <4>2. v # w
        BY <4>1
      <4> QED BY <4>1, <4>2 DEF OneCall
    <3> QED BY <3>1, <3>2
  <2> QED BY <2>1, <2>2, <2>3 DEF AllRename, LastPlaced
<1> QED BY <1>1, <1>2, <1>3 DEF OneWay

----------------------------------------------------------------------------
(* Steps that write nothing *)

LEMMA QuietStep ==
  ASSUME Running, NEW w \in Writer, OneCall(w),
         UNCHANGED <<fs, entry, onDisk, inode, placed, inPlaceOf, swapped>>,
         call[w].step \notin Final \cup {"truncate"},
         temps' \subseteq temps, w \in temps' => call'[w].step \in WithTemp,
         parent' = "missing" => parent = "missing",
         parent' = parent \/ fs.parent = "missing" \/ parent' = "durable",
         parent' = "created" => call[w].step # "sync parent" \/ fs.dirSync # "ok",
         parent' = "created" => parent = "created" \/ call'[w].step = "sync parent",
         Visible(call'[w].existing), call'[w].existing # Link,
         call'[w].step = "write in place" =>
           Visible(call'[w].opened) /\ call'[w].opened \notin {Absent, Link},
         call'[w].step \notin {"sync temp", "rename", "truncate"},
         ~swapped /\ InPlaceMode => CallInPlace(w)',
         ~swapped /\ ~InPlaceMode => CallRenames(w)'
  PROVE  Running'
<1> USE DEF Running
<1>1. FilesChange(w)
  BY DEF FilesChange
<1>2. OwnFile(w)'
  <2>1. PICK old, open : old = call'[w].existing /\ open = call'[w].opened
    OBVIOUS
  <2>2. Visible(old)' /\ (call'[w].step = "write in place" => Visible(open)')
    BY <1>1, <2>1, StaysVisible
  <2>3. Visible(call[w].existing)' /\ (call'[w].step = "write in place" => Visible(call[w].opened)')
    BY <2>1, <2>2 DEF Visible, Settled, Intact
  <2> QED BY <2>3 DEF OwnFile
<1>3. Files'
  BY <1>1, <1>2, FilesFrame
<1>4. Shape'
  BY ShapeFrame
<1>5. OneWay'
  BY OneWayFrame DEF Final
<1> QED BY <1>3, <1>4, <1>5

LEMMA EarlyKeeps ==
  ASSUME Running, NEW w \in Writer, FindParent(w) \/ CreateParent(w) \/ SyncParent(w)
  PROVE  Running'
<1>0. /\ Shape /\ call[w].step \in {"find parent", "create parent", "sync parent"}
      /\ UNCHANGED <<fs, entry, onDisk, inode, placed, inPlaceOf, swapped, temps>>
  BY DEF Running, FindParent, CreateParent, SyncParent
<1>1. PICK s \in {"create parent", "sync parent", "stat", "error"} :
        /\ GoTo(w, s)
        /\ s = "error" => call[w].step = "sync parent"
        /\ CreateParent(w) => s = "sync parent"
  BY DEF FindParent, CreateParent, SyncParent
<1>2. s \in Steps
  BY <1>1 DEF Steps, Early, Final
<1>3. /\ OneCall(w) /\ call'[w].step = s
      /\ call'[w].existing = call[w].existing /\ call'[w].inPlace = call[w].inPlace
      /\ call'[w].opened = call[w].opened
  BY <1>0, <1>1, <1>2, GoesTo
<1>4. OwnFile(w) /\ w \notin temps
  BY <1>0 DEF Running, Files, OwnFile, WithTemp
<1>5. /\ parent' = "missing" => parent = "missing"
      /\ parent' = parent \/ fs.parent = "missing" \/ parent' = "durable"
      /\ parent' = "created" => call[w].step # "sync parent" \/ fs.dirSync # "ok"
      /\ parent' = "created" => parent = "created" \/ call'[w].step = "sync parent"
  <2>1. CASE FindParent(w)
    BY <2>1 DEF FindParent
  <2>2. CASE CreateParent(w)
    BY <1>0, <1>1, <1>3, <2>2 DEF CreateParent, Shape
  <2>3. CASE SyncParent(w)
    BY <1>1, <1>3, <2>3 DEF SyncParent
  <2> QED BY <2>1, <2>2, <2>3
<1>6. CallInPlace(w)' /\ CallRenames(w)'
  BY <1>1, <1>3 DEF CallInPlace, CallRenames, WithTemp, InPlaceSteps
<1> QED BY <1>0, <1>1, <1>3, <1>4, <1>5, <1>6, QuietStep DEF OwnFile, Final, WithTemp

LEMMA StatKeeps ==
  ASSUME Running, NEW w \in Writer, Stat(w)
  PROVE  Running'
<1> DEFINE regular == entry \notin {Absent, Link}
           linked == entry = Original /\ fs.hardLinked
           s == IF regular /\ linked /\ fs.ownerOnlyDir THEN "open linked" ELSE "create temp"
           old == IF regular THEN entry ELSE Absent
<1>0. /\ Shape /\ call[w].step = "stat"
      /\ UNCHANGED <<fs, parent, entry, onDisk, inode, placed, inPlaceOf, swapped, temps>>
  BY DEF Running, Stat
<1>1. PICK b \in BOOLEAN : b = (regular /\ (linked => fs.ownerOnlyDir))
  BY Zenon
<1>2. call' = [call EXCEPT ![w] = [step |-> s, existing |-> old, inPlace |-> b, opened |-> Absent]]
  BY <1>1, Zenon DEF Stat
<1>3. (b => regular /\ (linked => fs.ownerOnlyDir)) /\ (b \in BOOLEAN)
  BY <1>1, Zenon
<1>4. s \in Steps /\ s \in {"open linked", "create temp"}
  BY DEF Steps, InPlaceSteps
<1>5. /\ OneCall(w) /\ call'[w].step = s
      /\ call'[w].existing = old /\ call'[w].inPlace = b
  <2> HIDE DEF s, old
  <2> QED BY <1>0, <1>2, <1>4 DEF OneCall, Shape, CallFields
<1>6. OwnFile(w) /\ w \notin temps /\ Visible(entry)
  BY <1>0 DEF Running, Files, OwnFile, WithTemp
<1>7. Visible(old) /\ old # Link
  BY <1>6 DEF Visible, Absent, Link
<1>8. ASSUME ~swapped, InPlaceMode PROVE CallInPlace(w)'
  <2>1. entry = Original /\ regular /\ (fs.hardLinked => fs.ownerOnlyDir)
    BY <1>8 DEF Running, OneWay, AllInPlace, InPlaceMode, Original, Absent, Link
  <2>2. old = Original /\ (s = "create temp" => ~fs.hardLinked)
    BY <2>1
  <2> HIDE DEF s, old
  <2> QED BY <1>0, <1>4, <1>5, <2>2 DEF CallInPlace, WithTemp, InPlaceSteps
<1>9. ASSUME ~swapped, ~InPlaceMode PROVE CallRenames(w)'
  <2>1. entry = IF placed = <<>> THEN fs.found ELSE LastPlaced
    BY <1>9 DEF Running, OneWay, AllRename
  <2>2. placed # <<>> => entry \in Writer
    BY <1>0, <2>1, LastIsLast
  <2>3. Writer \cap {Absent, Link, Original} = {} /\ Absent # Original /\ Link # Original
    BY FilesAssumption DEF Absent, Link, Original
  <2>4. fs.found \notin Writer
    BY <1>0, <2>3, FilesAssumption DEF Shape, FileSystem
  <2>5. /\ old = Absent => fs.found # Original /\ ~b
        /\ old = Original => fs.found = Original /\ entry = Original
        /\ old \in Writer => placed # <<>>
    BY <1>3, <2>1, <2>2, <2>3, <2>4
  <2>6. /\ s = "open linked" => old = Original /\ ~fs.fileWritable
        /\ s = "create temp" /\ old = Original /\ b => ~fs.hardLinked
    BY <1>3, <1>9, <2>3, <2>5 DEF InPlaceMode
  <2> HIDE DEF s, old
  <2> QED BY <1>0, <1>4, <1>5, <2>5, <2>6 DEF CallRenames, WithTemp
<1> HIDE DEF s, old
<1> QED BY <1>0, <1>4, <1>5, <1>6, <1>7, <1>8, <1>9, QuietStep DEF Final

\* A call that goes on, or ends, without a temp file.
LEMMA GoesOn ==
  ASSUME Running, NEW w \in Writer, NEW s \in {"open", "error", "write temp"}, GoTo(w, s),
         UNCHANGED <<fs, parent, entry, onDisk, inode, placed, inPlaceOf, swapped>>,
         call[w].step \notin Final \cup {"truncate", "sync parent"},
         temps' \subseteq temps, w \in temps' => s = "write temp",
         s = "open" /\ ~swapped => InPlaceMode /\ call[w].existing = Original,
         s = "write temp" /\ ~swapped =>
           /\ call[w].step = "copy identity"
           /\ call[w].existing = Absent \/ fs.identity = "kept"
  PROVE  Running'
<1>0. Shape /\ s \in Steps
  BY DEF Running, Steps, InPlaceSteps, WithTemp, Final
<1>1. /\ OneCall(w) /\ call'[w].step = s
      /\ call'[w].existing = call[w].existing /\ call'[w].inPlace = call[w].inPlace
      /\ call'[w].opened = call[w].opened
  BY <1>0, GoesTo
<1>2. OwnFile(w)
  BY DEF Running, Files
<1>3. ASSUME ~swapped, InPlaceMode PROVE CallInPlace(w)'
  <2>1. CallInPlace(w)
    BY <1>3 DEF Running, OneWay, AllInPlace
  <2>2. CASE s = "write temp"
    <3>1. call[w].existing = Original /\ fs.identity = "kept"
      BY <1>3, <2>1, <2>2 DEF CallInPlace, WithTemp, Original, Absent
    <3> QED BY <1>1, <1>3, <2>1, <2>2, <3>1 DEF CallInPlace, WithTemp
  <2>3. CASE s = "open"
    BY <1>1, <1>3, <2>3 DEF CallInPlace, WithTemp, InPlaceSteps
  <2>4. CASE s = "error"
    BY <1>1, <2>4 DEF CallInPlace, WithTemp, InPlaceSteps
  <2> QED BY <2>2, <2>3, <2>4
<1>4. ASSUME ~swapped, ~InPlaceMode PROVE CallRenames(w)'
  <2>1. CallRenames(w)
    BY <1>4 DEF Running, OneWay, AllRename
  <2>2. CASE s = "write temp"
    <3>1. fs.identity = "kept"
      BY <1>0, <1>4, <2>1, <2>2, FilesAssumption DEF CallRenames, WithTemp, Shape
    <3> QED BY <1>1, <1>4, <2>1, <2>2, <3>1 DEF CallRenames, WithTemp
  <2>3. CASE s = "error"
    BY <1>1, <2>3 DEF CallRenames, WithTemp, InPlaceSteps
  <2> QED BY <1>4, <2>2, <2>3
<1> QED BY <1>0, <1>1, <1>2, <1>3, <1>4, QuietStep DEF OwnFile, Final, WithTemp

LEMMA CopyIdentityKeeps ==
  ASSUME Running, NEW w \in Writer, CopyIdentity(w)
  PROVE  Running'
<1>0. /\ Shape /\ call[w].step = "copy identity"
      /\ UNCHANGED <<fs, parent, entry, onDisk, inode, placed, inPlaceOf, swapped>>
  BY DEF Running, CopyIdentity
<1>1. CASE call[w].existing = Absent \/ fs.identity = "kept"
  <2>1. GoTo(w, "write temp") /\ temps' = temps
    BY <1>1 DEF CopyIdentity
  <2> QED BY <1>0, <1>1, <2>1, GoesOn DEF Final
<1>2. CASE ~(call[w].existing = Absent \/ fs.identity = "kept")
  <2>1. PICK s \in {"open", "error"} :
          /\ GoTo(w, s) /\ temps' = temps \ {w}
          /\ s = "open" => fs.identity = "not permitted" /\ call[w].inPlace
    BY <1>2 DEF CopyIdentity, Without, DropTemp
  <2>2. ASSUME s = "open", ~swapped PROVE InPlaceMode /\ call[w].existing = Original
    <3>1. CASE InPlaceMode
      <4>1. CallInPlace(w)
        BY <2>2, <3>1 DEF Running, OneWay, AllInPlace
      <4> QED BY <1>0, <3>1, <4>1 DEF CallInPlace, WithTemp
    <3>2. CASE ~InPlaceMode
      <4>1. CallRenames(w) /\ (placed # <<>> => fs.identity = "kept")
        BY <2>2, <3>2 DEF Running, OneWay, AllRename
      <4>2. call[w].existing \in {Original} \cup Writer
        BY <1>2 DEF Running, Files, OwnFile, Visible, Settled
      <4>3. call[w].existing = Original /\ fs.found = Original /\ ~fs.hardLinked
        BY <1>0, <2>1, <2>2, <4>1, <4>2 DEF CallRenames, WithTemp
      <4> QED BY <2>1, <2>2, <3>2, <4>3 DEF InPlaceMode
    <3> QED BY <3>1, <3>2
  <2> QED BY <1>0, <2>1, <2>2, GoesOn DEF Final
<1> QED BY <1>1, <1>2

LEMMA OpenInPlaceKeeps ==
  ASSUME Running, NEW w \in Writer, OpenInPlace(w)
  PROVE  Running'
<1> DEFINE opened == IF entry = Link THEN Target ELSE entry
           denied == opened = Original /\ ~fs.fileWritable
<1>0. /\ Shape /\ call[w].step \in {"open", "open linked"}
      /\ UNCHANGED <<fs, parent, entry, onDisk, inode, placed, inPlaceOf, swapped, temps>>
  BY DEF Running, OpenInPlace
<1>1. OwnFile(w) /\ w \notin temps /\ Target # Original /\ Original \notin {Absent, Link}
  BY <1>0 DEF Running, Files, OwnFile, WithTemp, Target, Original, Absent, Link
<1>2. ASSUME ~swapped PROVE IF InPlaceMode THEN CallInPlace(w) ELSE CallRenames(w)
  BY <1>2 DEF Running, OneWay, AllInPlace, AllRename
<1>3. CASE GoTo(w, "error")
  BY <1>0, <1>1, <1>3, GoesOn DEF Final
<1>4. CASE /\ denied /\ call[w].step = "open linked"
           /\ call' = [call EXCEPT ![w].step = "create temp", ![w].inPlace = FALSE]
  <2>0. PICK no : no = FALSE
    BY Zenon
  <2>1. call' = [call EXCEPT ![w].step = "create temp", ![w].inPlace = no]
    BY <1>4, <2>0, Zenon
  <2>2. /\ OneCall(w) /\ call'[w].step = "create temp" /\ call'[w].existing = call[w].existing
        /\ call'[w].inPlace = no
    BY <1>0, <2>1 DEF OneCall, Shape, CallFields, Steps
  <2>3. ~call'[w].inPlace
    BY <2>0, <2>2, Zenon
  <2>4. ASSUME ~swapped, InPlaceMode PROVE CallInPlace(w)'
    <3>1. ~fs.hardLinked /\ call[w].existing = Original
      BY <1>0, <1>2, <1>4, <2>4 DEF InPlaceMode, CallInPlace, InPlaceSteps
    <3> QED BY <1>0, <2>2, <3>1 DEF CallInPlace, WithTemp
  <2>5. ASSUME ~swapped, ~InPlaceMode PROVE CallRenames(w)'
    <3>1. call[w].existing = Original
      BY <1>2, <1>4, <2>5 DEF CallRenames
    <3>2. entry = Original
      BY <1>1, <1>4
    <3>3. fs.found = Original
      <4>1. entry = IF placed = <<>> THEN fs.found ELSE LastPlaced
        BY <2>5 DEF Running, OneWay, AllRename
      <4>2. Original \notin Writer
        BY FilesAssumption
      <4> QED BY <1>0, <3>2, <4>1, <4>2, LastIsLast
    <3>4. Original \notin Writer
      BY FilesAssumption
    <3> QED BY <1>0, <1>1, <2>2, <2>3, <3>1, <3>3, <3>4 DEF CallRenames, WithTemp
  <2> QED BY <1>0, <1>1, <2>2, <2>4, <2>5, QuietStep DEF OwnFile, Final
<1>5. CASE /\ ~denied /\ opened # Absent /\ opened = call[w].existing
           /\ call' = [call EXCEPT ![w].step = "write in place", ![w].opened = opened]
  <2>1. /\ OneCall(w) /\ call'[w].step = "write in place" /\ call'[w].existing = call[w].existing
        /\ call'[w].opened = opened
    <3> HIDE DEF opened
    <3> QED BY <1>0, <1>5 DEF OneCall, Shape, CallFields, Steps, InPlaceSteps
  <2>2. Visible(opened) /\ opened \notin {Absent, Link}
    BY <1>1, <1>5 DEF OwnFile
  <2>3. ASSUME ~swapped, InPlaceMode PROVE CallInPlace(w)'
    <3>1. call[w].existing = Original
      BY <1>0, <1>2, <2>3 DEF CallInPlace, InPlaceSteps
    <3> QED BY <1>0, <1>5, <2>1, <3>1 DEF CallInPlace, WithTemp
  <2>4. ASSUME ~swapped, ~InPlaceMode PROVE FALSE
    <3>1. call[w].step = "open linked" /\ call[w].existing = Original /\ ~fs.fileWritable
      BY <1>0, <1>2, <2>4 DEF CallRenames
    <3> QED BY <1>5, <3>1
  <2> HIDE DEF opened
  <2> QED BY <1>0, <1>1, <2>1, <2>2, <2>3, <2>4, QuietStep DEF OwnFile, Final
<1> QED BY <1>0, <1>3, <1>4, <1>5 DEF OpenInPlace, SameFile

----------------------------------------------------------------------------
(* The temp file *)

LEMMA TempStep ==
  ASSUME Running, NEW w \in Writer, NEW s, GoTo(w, s),
         UNCHANGED <<fs, parent, entry, onDisk, placed, inPlaceOf, swapped>>,
         <<call[w].step, s>> \in {<<"create temp", "copy identity">>,
                                  <<"write temp", "sync temp">>, <<"sync temp", "rename">>},
         s = "copy identity" => fs.dirWritable,
         temps' \subseteq temps \cup {w},
         DOMAIN inode' = Inodes, DOMAIN inode'[w] = {"data", "disk"},
         \A i \in Inodes : i # w => inode'[i] = inode[i],
         s = "sync temp" => inode'[w].data = w,
         s = "rename" => Intact(w)'
  PROVE  Running'
<1>0. Shape /\ s \in Steps /\ s \in WithTemp
  BY DEF Running, Steps, WithTemp
<1>1. /\ OneCall(w) /\ call'[w].step = s
      /\ call'[w].existing = call[w].existing /\ call'[w].inPlace = call[w].inPlace
      /\ call'[w].opened = call[w].opened
  BY <1>0, GoesTo
<1>2. FilesChange(w) /\ call[w].step \notin Final \cup {"truncate", "error", "sync parent"}
  BY DEF FilesChange, Final
<1>3. OwnFile(w)'
  <2>1. PICK old : old = call[w].existing
    OBVIOUS
  <2>2. Visible(old)' /\ old # Link
    BY <1>0, <1>1, <1>2, <2>1, StaysVisible DEF Running, Files, OwnFile
  <2>3. Visible(call[w].existing)'
    BY <1>1, <2>1, <2>2 DEF Visible, Settled, Intact
  <2>4. s \notin {"write in place", "truncate"}
    OBVIOUS
  <2> QED BY <1>0, <1>1, <2>1, <2>2, <2>3, <2>4 DEF OwnFile
<1>4. Files'
  BY <1>0, <1>1, <1>2, <1>3, FilesFrame DEF Running
<1>5. Shape'
  <2>1. \A i \in Inodes : DOMAIN inode'[i] = {"data", "disk"}
    BY <1>0 DEF Shape
  <2> QED BY <1>0, <1>1, <2>1, ShapeFrame
<1>6. Original \in Inodes /\ Original # w
  BY FilesAssumption DEF Inodes
<1>7. ASSUME ~swapped, InPlaceMode PROVE CallInPlace(w)'
  <2>1. CallInPlace(w)
    BY <1>7 DEF Running, OneWay, AllInPlace
  <2> QED BY <1>1, <2>1 DEF CallInPlace, WithTemp
<1>8. ASSUME ~swapped, ~InPlaceMode PROVE CallRenames(w)'
  <2>1. CallRenames(w)
    BY <1>8 DEF Running, OneWay, AllRename
  <2> QED BY <1>1, <2>1 DEF CallRenames, WithTemp
<1>9. OneWay'
  BY <1>0, <1>1, <1>2, <1>6, <1>7, <1>8, OneWayFrame DEF Running
<1> QED BY <1>4, <1>5, <1>9 DEF Running

LEMMA CreateTempKeeps ==
  ASSUME Running, NEW w \in Writer, CreateTemp(w)
  PROVE  Running'
<1>0. /\ Shape /\ call[w].step = "create temp" /\ w \in Inodes /\ w \notin temps
      /\ UNCHANGED <<fs, parent, entry, onDisk, placed, inPlaceOf, swapped>>
  BY DEF Running, Files, OwnFile, WithTemp, CreateTemp, Inodes
<1>1. CASE fs.dirWritable
  <2>1. /\ GoTo(w, "copy identity") /\ temps' = temps \cup {w}
        /\ inode' = [inode EXCEPT ![w] = [data |-> Torn, disk |-> Torn]]
    BY <1>1 DEF CreateTemp
  <2>2. /\ DOMAIN inode' = Inodes /\ DOMAIN inode'[w] = {"data", "disk"}
        /\ \A i \in Inodes : i # w => inode'[i] = inode[i]
    BY <1>0, <2>1 DEF Shape
  <2> QED BY <1>0, <1>1, <2>1, <2>2, TempStep
<1>2. CASE ~fs.dirWritable
  <2>1. PICK s \in {"open", "error"} : GoTo(w, s) /\ (s = "open" => call[w].inPlace)
    BY <1>2 DEF CreateTemp
  <2>2. UNCHANGED <<temps, inode>>
    BY <1>2 DEF CreateTemp
  <2>3. ASSUME s = "open", ~swapped PROVE InPlaceMode /\ call[w].existing = Original
    <3>1. CASE InPlaceMode
      <4>1. CallInPlace(w)
        BY <2>3, <3>1 DEF Running, OneWay, AllInPlace
      <4> QED BY <1>0, <3>1, <4>1 DEF CallInPlace
    <3>2. CASE ~InPlaceMode
      <4>1. CallRenames(w) /\ (placed # <<>> => fs.dirWritable)
        BY <2>3, <3>2 DEF Running, OneWay, AllRename
      <4>2. call[w].existing \in {Original, Absent} \cup Writer
        BY DEF Running, Files, OwnFile, Visible, Settled
      <4>3. call[w].existing = Original /\ fs.found = Original /\ ~fs.hardLinked
        BY <1>0, <1>2, <2>1, <2>3, <4>1, <4>2 DEF CallRenames
      <4> QED BY <1>2, <3>2, <4>3 DEF InPlaceMode
    <3> QED BY <3>1, <3>2
  <2> QED BY <1>0, <2>1, <2>2, <2>3, GoesOn DEF Final
<1> QED BY <1>1, <1>2

LEMMA WriteTempKeeps ==
  ASSUME Running, NEW w \in Writer, WriteTemp(w)
  PROVE  Running'
<1>0. /\ Shape /\ call[w].step = "write temp" /\ w \in Inodes
      /\ UNCHANGED <<fs, parent, entry, onDisk, placed, inPlaceOf, swapped>>
  BY DEF Running, WriteTemp, Inodes
<1>1. CASE GoTo(w, "sync temp") /\ inode' = [inode EXCEPT ![w].data = w] /\ UNCHANGED temps
  <2>1. /\ DOMAIN inode' = Inodes /\ DOMAIN inode'[w] = {"data", "disk"} /\ inode'[w].data = w
        /\ \A i \in Inodes : i # w => inode'[i] = inode[i]
    BY <1>0, <1>1 DEF Shape
  <2> QED BY <1>0, <1>1, <2>1, TempStep
<1>2. CASE Without(w, "error") /\ UNCHANGED inode
  BY <1>0, <1>2, GoesOn DEF Without, DropTemp, Final
<1> QED BY <1>1, <1>2 DEF WriteTemp

LEMMA SyncTempKeeps ==
  ASSUME Running, NEW w \in Writer, SyncTemp(w)
  PROVE  Running'
<1>0. /\ Shape /\ call[w].step = "sync temp" /\ w \in Inodes /\ inode[w].data = w
      /\ GoTo(w, "rename")
      /\ UNCHANGED <<fs, parent, entry, onDisk, placed, inPlaceOf, swapped, temps>>
  BY DEF Running, Files, OwnFile, SyncTemp, Inodes
<1>1. /\ DOMAIN inode' = Inodes /\ DOMAIN inode'[w] = {"data", "disk"}
      /\ inode'[w].data = w /\ inode'[w].disk = w
      /\ \A i \in Inodes : i # w => inode'[i] = inode[i]
  BY <1>0 DEF Shape, SyncTemp
<1> QED BY <1>0, <1>1, TempStep DEF Intact

----------------------------------------------------------------------------
(* Steps that change the path *)

LEMMA RenameKeeps ==
  ASSUME Running, NEW w \in Writer, Rename(w)
  PROVE  Running'
<1>0. /\ Shape /\ call[w].step = "rename" /\ OwnFile(w) /\ Intact(w)
      /\ UNCHANGED <<fs, parent, inode, inPlaceOf, swapped>>
  BY DEF Running, Files, OwnFile, Rename
<1>1. ASSUME ~swapped PROVE IF InPlaceMode THEN CallInPlace(w) ELSE CallRenames(w)
  BY <1>1 DEF Running, OneWay, AllInPlace, AllRename
<1>2. CASE fs.rename = "busy" /\ entry = Original
  <2>1. PICK s \in {"open", "error"} :
          /\ GoTo(w, s) /\ temps' = temps \ {w} /\ (s = "open" => call[w].inPlace)
          /\ UNCHANGED <<entry, onDisk, placed>>
    BY <1>2 DEF Rename, Without, DropTemp
  <2>2. ASSUME s = "open", ~swapped PROVE InPlaceMode /\ call[w].existing = Original
    <3>1. CASE InPlaceMode
      BY <1>0, <1>1, <2>2, <3>1 DEF CallInPlace, WithTemp
    <3>2. CASE ~InPlaceMode
      <4>1. CallRenames(w) /\ entry = IF placed = <<>> THEN fs.found ELSE LastPlaced
        BY <1>1, <2>2, <3>2 DEF Running, OneWay, AllRename
      <4>2. placed = <<>>
        BY <1>0, <1>2, <4>1, LastIsLast, FilesAssumption
      <4>3. call[w].existing \in {Original, Absent} \cup Writer
        BY <1>0 DEF OwnFile, Visible, Settled
      <4>4. call[w].existing = Original /\ fs.found = Original /\ ~fs.hardLinked
        BY <1>0, <2>1, <2>2, <4>1, <4>2, <4>3 DEF CallRenames, WithTemp
      <4> QED BY <1>2, <3>2, <4>4 DEF InPlaceMode
    <3> QED BY <3>1, <3>2
  <2> QED BY <1>0, <2>1, <2>2, GoesOn DEF Final
<1>3. CASE ~(fs.rename = "busy" /\ entry = Original)
  <2>1. /\ GoTo(w, "sync dir") /\ temps' = temps \ {w} /\ entry' = w
        /\ onDisk' = onDisk \cup {w} /\ placed' = Append(placed, w)
    BY <1>3 DEF Rename, Without, DropTemp
  <2>2. /\ OneCall(w) /\ call'[w].step = "sync dir" /\ "sync dir" \in Final
        /\ call'[w].existing = call[w].existing /\ call'[w].inPlace = call[w].inPlace
        /\ call'[w].opened = call[w].opened
    BY <1>0, <2>1, GoesTo DEF Steps, Final
  <2>3. FilesChange(w) /\ call[w].step \notin Final
    BY <1>0 DEF FilesChange, Final
  <2>4. Visible(w)'
    BY <1>0, <2>2 DEF Visible, Settled, Intact
  <2>5. OwnFile(w)'
    <3>1. PICK old : old = call[w].existing
      OBVIOUS
    <3>2. Visible(old)' /\ old # Link
      BY <1>0, <2>2, <2>3, <3>1, StaysVisible DEF OwnFile
    <3>3. Visible(call[w].existing)'
      BY <2>2, <3>1, <3>2 DEF Visible, Settled, Intact
    <3> QED BY <2>1, <2>2, <3>1, <3>2, <3>3 DEF OwnFile
  <2>6. Files'
    <3>1. Visible(entry)'
      BY <2>1, <2>4 DEF Visible, Settled, Intact
    <3> QED BY <1>0, <2>1, <2>2, <2>3, <2>4, <2>5, <3>1, FilesFrame DEF Running
  <2>7. Shape'
    BY <1>0, <2>1, <2>2, ShapeFrame
  <2>8. ASSUME ~swapped PROVE ~InPlaceMode /\ AllRename'
    <3>1. ~InPlaceMode
      <4> SUFFICES ASSUME InPlaceMode PROVE FALSE
        OBVIOUS
      <4>1. ~fs.hardLinked /\ fs.dirWritable /\ fs.identity = "kept" /\ entry = Original
        BY <1>0, <1>1, <2>8 DEF CallInPlace, WithTemp, Running, OneWay, AllInPlace
      <4> QED BY <1>3, <4>1 DEF InPlaceMode
    <3>2. AllRename /\ CallRenames(w)
      BY <1>1, <2>8, <3>1 DEF Running, OneWay
    <3>3. /\ \A v : IsPlaced(v) => AtOrAfter(w, v)'
          /\ IsPlaced(w)' /\ LastPlaced' = w /\ placed' # <<>>
      BY <1>0, <2>1, Appended
    <3>4. CallRenames(w)'
      BY <1>0, <2>2, <3>3 DEF CallRenames, WithTemp
    <3>5. \A v \in Writer : CallRenames(v)'
      BY <1>0, <2>1, <2>2, <3>2, <3>3, <3>4, OthersRename DEF AllRename
    <3>6. fs.dirWritable /\ fs.identity = "kept"
      BY <1>0, <3>2 DEF CallRenames, WithTemp
    <3>7. parent = "created" /\ fs.dirSync = "ok" => \E v \in Writer : call'[v].step = "sync parent"
      BY <1>0, <2>2, <3>2 DEF AllRename, OneCall
    <3> QED BY <1>0, <2>1, <3>1, <3>2, <3>3, <3>5, <3>6, <3>7 DEF AllRename
  <2>9. OneWay'
    BY <1>0, <2>8 DEF OneWay, InPlaceMode
  <2> QED BY <2>6, <2>7, <2>9 DEF Running
<1> QED BY <1>2, <1>3

LEMMA SyncDirKeeps ==
  ASSUME Running, NEW w \in Writer, SyncDir(w)
  PROVE  Running'
<1>0. /\ Shape /\ call[w].step = "sync dir" /\ OwnFile(w) /\ w \notin temps
      /\ UNCHANGED <<fs, parent, entry, inode, temps, placed, inPlaceOf, swapped>>
      /\ onDisk' = IF fs.dirSync = "ok" THEN {entry} ELSE onDisk
  BY DEF Running, Files, OwnFile, SyncDir, WithTemp
<1>1. PICK s \in {"error", "ok"} : GoTo(w, s) /\ (s = "ok" => fs.dirSync # "error")
  BY DEF SyncDir
<1>2. /\ OneCall(w) /\ call'[w].step = s /\ s \in Final
      /\ call'[w].existing = call[w].existing /\ call'[w].inPlace = call[w].inPlace
      /\ call'[w].opened = call[w].opened
  BY <1>0, <1>1, GoesTo DEF Steps, Final
<1>3. FilesChange(w)
  BY <1>0, <1>2 DEF FilesChange
<1>4. OwnFile(w)'
  <2>1. PICK old : old = call[w].existing
    OBVIOUS
  <2>2. Visible(old)' /\ old # Link
    BY <1>0, <1>2, <1>3, <2>1, StaysVisible DEF OwnFile
  <2>3. Visible(call[w].existing)'
    BY <1>2, <2>1, <2>2 DEF Visible, Settled, Intact
  <2> QED BY <1>0, <1>2, <2>1, <2>2, <2>3 DEF OwnFile
<1>5. Files'
  <2>1. \A x \in onDisk' : x \in onDisk \/ Visible(x)'
    BY <1>0, <1>2, <1>3, StaysVisible DEF Running, Files
  <2> QED BY <1>0, <1>2, <1>3, <1>4, <2>1, FilesFrame DEF Running
<1>6. Shape'
  BY <1>0, <1>2, ShapeFrame
<1>7. ASSUME ~swapped PROVE ~InPlaceMode /\ AllRename'
  <2>1. ~InPlaceMode
    BY <1>0, <1>7 DEF Running, OneWay, AllInPlace, CallInPlace
  <2>2. AllRename /\ CallRenames(w) /\ IsPlaced(w) /\ placed # <<>>
    <3>1. AllRename /\ CallRenames(w) /\ IsPlaced(w)
      BY <1>0, <1>7, <2>1 DEF Running, OneWay, AllRename, CallRenames
    <3>2. placed # <<>>
      BY <3>1 DEF IsPlaced
    <3> QED BY <3>1, <3>2
  <2>3. entry = LastPlaced /\ \A v : IsPlaced(v) => AtOrAfter(entry, v)
    BY <1>0, <2>2, LastIsLast DEF AllRename
  <2>4. /\ \A x, v : AtOrAfter(x, v)' <=> AtOrAfter(x, v)
        /\ IsPlaced(w)' <=> IsPlaced(w)
    BY <1>0 DEF AtOrAfter, IsPlaced
  <2>5. \A x \in onDisk' : x \in onDisk \/ \A v \in Writer : IsPlaced(v) => AtOrAfter(x, v)'
    BY <1>0, <2>3, <2>4
  <2>6. fs.dirSync = "ok" => \A x \in onDisk' : AtOrAfter(x, w)'
    BY <1>0, <2>2, <2>3, <2>4
  <2>7. CallRenames(w)'
    BY <1>0, <1>1, <1>2, <2>2, <2>4, <2>6 DEF CallRenames, WithTemp
  <2>8. \A v \in Writer : CallRenames(v)'
    BY <1>0, <1>2, <2>2, <2>5, <2>7, OthersRename DEF AllRename
  <2>9. parent = "created" /\ fs.dirSync = "ok" => \E v \in Writer : call'[v].step = "sync parent"
    BY <1>0, <1>2, <2>2 DEF AllRename, OneCall
  <2> QED BY <1>0, <2>1, <2>2, <2>8, <2>9 DEF AllRename, LastPlaced
<1>8. OneWay'
  BY <1>0, <1>7 DEF OneWay, InPlaceMode
<1> QED BY <1>5, <1>6, <1>8 DEF Running

\* A step of w that writes, in place, the file that it opened.
LEMMA InPlaceStep ==
  ASSUME Running, NEW w \in Writer, NEW s \in {"truncate", "error", "ok"}, GoTo(w, s),
         call[w].step \in {"write in place", "truncate"},
         UNCHANGED <<fs, parent, entry, onDisk, temps, swapped>>,
         inPlaceOf' = inPlaceOf \cup {call[w].opened},
         DOMAIN inode' = Inodes, \A i \in Inodes : DOMAIN inode'[i] = {"data", "disk"},
         \A i \in Inodes : i # call[w].opened => inode'[i] = inode[i],
         IF s = "ok"
           THEN /\ placed' = Append(placed, w)
                /\ inode'[call[w].opened].data = w /\ inode'[call[w].opened].disk = w
           ELSE placed' = placed
  PROVE  Running'
<1>0. Shape /\ s \in Steps /\ OwnFile(w) /\ w \notin temps
  BY DEF Running, Files, OwnFile, Steps, InPlaceSteps, WithTemp, Final
<1>1. /\ OneCall(w) /\ call'[w].step = s
      /\ call'[w].existing = call[w].existing /\ call'[w].inPlace = call[w].inPlace
      /\ call'[w].opened = call[w].opened
  BY <1>0, GoesTo
<1>2. Replaceable(call[w].opened) /\ call[w].step \notin Final
  BY <1>0 DEF OwnFile, Visible, Settled, Replaceable, Final
<1>3. FilesChange(w)
  BY <1>2 DEF FilesChange
<1>4. OwnFile(w)'
  <2>1. PICK old, open : old = call[w].existing /\ open = call[w].opened
    OBVIOUS
  <2>2. Visible(old)' /\ Visible(open)' /\ old # Link /\ open \notin {Absent, Link}
    BY <1>0, <1>1, <1>3, <2>1, StaysVisible DEF OwnFile
  <2>3. Visible(call[w].existing)' /\ Visible(call[w].opened)'
    BY <1>1, <2>1, <2>2 DEF Visible, Settled, Intact
  <2> QED BY <1>0, <1>1, <2>1, <2>2, <2>3 DEF OwnFile
<1>5. Files'
  BY <1>0, <1>1, <1>3, <1>4, FilesFrame DEF Running
<1>6. Shape'
  BY <1>0, <1>1, ShapeFrame
<1>7. ASSUME ~swapped PROVE InPlaceMode /\ AllInPlace'
  <2>1. InPlaceMode
    BY <1>7 DEF Running, OneWay, AllRename, CallRenames
  <2>2. AllInPlace /\ CallInPlace(w) /\ call[w].opened = Original
    BY <1>7, <2>1 DEF Running, OneWay, AllInPlace, CallInPlace
  <2>3. placed' # placed => /\ IsPlaced(w)' /\ LastPlaced' = w
                            /\ placed' = Append(placed, w)
    BY <1>0, Appended
  <2>4. CallInPlace(w)'
    <3>1. s = "ok" => IsPlaced(w)'
      BY <1>0, Appended
    <3>2. s = "truncate" => call[w].existing = Original
      BY <2>2 DEF CallInPlace, InPlaceSteps
    <3> QED BY <1>1, <2>2, <3>1, <3>2 DEF CallInPlace, WithTemp, InPlaceSteps
  <2>5. \A v \in Writer : CallInPlace(v)'
    BY <1>0, <1>1, <2>2, <2>4, OthersInPlace DEF AllInPlace
  <2>6. (\A v \in Writer : call'[v].step \notin {"truncate", "error"}) =>
          inode'[Original].data = LastPlaced' /\ inode'[Original].disk = LastPlaced'
    <3> SUFFICES ASSUME \A v \in Writer : call'[v].step \notin {"truncate", "error"}
                 PROVE  inode'[Original].data = LastPlaced' /\ inode'[Original].disk = LastPlaced'
      OBVIOUS
    <3>1. s = "ok"
      BY <1>1
    <3>2. LastPlaced' = w
      BY <1>0, <3>1, Appended
    <3> QED BY <2>2, <3>1, <3>2
  <2> QED BY <2>1, <2>2, <2>5, <2>6 DEF AllInPlace
<1>8. OneWay'
  BY <1>7 DEF OneWay, InPlaceMode
<1> QED BY <1>5, <1>6, <1>8 DEF Running

LEMMA WriteInPlaceKeeps ==
  ASSUME Running, NEW w \in Writer, WriteInPlace(w) \/ TruncateInPlace(w)
  PROVE  Running'
<1>0. Shape /\ OwnFile(w)
  BY DEF Running, Files
<1>1. CASE WriteInPlace(w)
  <2>1. PICK s \in {"truncate", "error"} : GoTo(w, s)
    BY <1>1 DEF WriteInPlace
  <2>2. /\ call[w].step = "write in place" /\ inPlaceOf' = inPlaceOf \cup {call[w].opened}
        /\ UNCHANGED <<fs, parent, entry, onDisk, temps, placed, swapped>>
        /\ inode' = [inode EXCEPT ![call[w].opened].data = Torn]
    BY <1>1 DEF WriteInPlace
  <2>3. /\ DOMAIN inode' = Inodes /\ \A i \in Inodes : DOMAIN inode'[i] = {"data", "disk"}
        /\ \A i \in Inodes : i # call[w].opened => inode'[i] = inode[i]
    BY <1>0, <2>2 DEF Shape
  <2> QED BY <2>1, <2>2, <2>3, InPlaceStep
<1>2. CASE TruncateInPlace(w)
  <2>1. /\ call[w].step = "truncate" /\ GoTo(w, "ok") /\ placed' = Append(placed, w)
        /\ UNCHANGED <<fs, parent, entry, onDisk, temps, inPlaceOf, swapped>>
        /\ inode' = [inode EXCEPT ![call[w].opened] = [data |-> w, disk |-> w]]
    BY <1>2 DEF TruncateInPlace
  <2>2. call[w].opened \in inPlaceOf /\ call[w].opened \in Inodes
    BY <1>0, <2>1 DEF OwnFile, Visible, Settled, Inodes
  <2>3. /\ DOMAIN inode' = Inodes /\ \A i \in Inodes : DOMAIN inode'[i] = {"data", "disk"}
        /\ \A i \in Inodes : i # call[w].opened => inode'[i] = inode[i]
        /\ inode'[call[w].opened].data = w /\ inode'[call[w].opened].disk = w
    BY <1>0, <2>1, <2>2 DEF Shape
  <2>4. inPlaceOf' = inPlaceOf \cup {call[w].opened}
    BY <2>1, <2>2
  <2> QED BY <2>1, <2>3, <2>4, InPlaceStep
<1> QED BY <1>1, <1>2

LEMMA SwapKeeps ==
  ASSUME Running, Swap
  PROVE  Running'
<1>0. /\ swapped' /\ entry' = Link /\ onDisk' = onDisk \cup {Link}
      /\ UNCHANGED <<fs, parent, inode, temps, call, placed, inPlaceOf>>
  BY DEF Swap
<1>1. \A x : Visible(x) => Visible(x)'
  BY <1>0 DEF Visible, Settled, Intact
<1>2. Visible(Link)'
  BY DEF Visible
<1>3. \A w \in Writer : OwnFile(w)'
  BY <1>0 DEF Running, Files, OwnFile, Visible, Settled, Intact
<1>4. Files'
  <2>1. Visible(entry)' /\ \A x \in onDisk' : Visible(x)'
    BY <1>0, <1>1, <1>2 DEF Running, Files, Visible
  <2> QED BY <1>0, <1>3, <2>1 DEF Running, Files, Intact
<1>5. Shape' /\ OneWay'
  BY <1>0 DEF Running, Shape, OneWay, Inodes
<1> QED BY <1>4, <1>5 DEF Running

----------------------------------------------------------------------------
(* The start, a crash, and the theorem *)

LEMMA FilesInit ==
  ASSUME FileInit
  PROVE  ~crashed /\ Running
<1> USE FilesAssumption
<1>0. PICK no : no = FALSE
  BY Zenon
<1>1. call = [w \in Writer |-> [step |-> "find parent", existing |-> Absent,
                                inPlace |-> no, opened |-> Absent]]
  BY <1>0, Zenon DEF FileInit
<1>2. /\ DOMAIN call = Writer
      /\ \A w \in Writer : /\ DOMAIN call[w] = CallFields /\ call[w].step = "find parent"
                           /\ call[w].existing = Absent
  BY <1>1 DEF CallFields
<1>3. /\ DOMAIN inode = Inodes
      /\ \A i \in Inodes : DOMAIN inode[i] = {"data", "disk"} /\ Intact(i)
  BY DEF FileInit, Intact
<1>4. /\ fs \in FileSystems /\ parent = fs.parent /\ entry = fs.found /\ onDisk = {fs.found}
      /\ temps = {} /\ placed = <<>> /\ inPlaceOf = {} /\ ~crashed
      /\ fs.found \in {Absent, Link, Original} /\ fs.parent \in {"missing", "durable"}
      /\ fs.parent = "missing" => fs.found = Absent
  BY DEF FileInit, FileSystem
<1>5. Shape
  <2>1. placed \in Seq(Writer)
    BY <1>4
  <2>2. \A w \in Writer : call[w].step \in Steps
    BY <1>2 DEF Steps, Early
  <2> QED BY <1>2, <1>3, <1>4, <2>1, <2>2 DEF Shape
<1>6. Files
  <2>1. \A w \in Writer : OwnFile(w)
    BY <1>2, <1>4 DEF OwnFile, Visible, Absent, Link
  <2>2. Visible(entry) /\ \A x \in onDisk : Visible(x)
    BY <1>4 DEF Visible
  <2> QED BY <1>3, <1>4, <2>1, <2>2 DEF Files, Inodes
<1>7. CASE InPlaceMode
  <2>1. fs.found = Original /\ parent = "durable"
    BY <1>4, <1>7 DEF InPlaceMode, Original, Absent
  <2>2. \A w \in Writer : CallInPlace(w)
    BY <1>2 DEF CallInPlace, WithTemp, InPlaceSteps
  <2> QED BY <1>4, <1>5, <1>6, <1>7, <2>1, <2>2 DEF Running, OneWay, AllInPlace
<1>8. CASE ~InPlaceMode
  <2>1. \A w \in Writer : CallRenames(w)
    BY <1>2 DEF CallRenames, WithTemp
  <2>2. parent # "created"
    BY <1>4
  <2> QED BY <1>4, <1>5, <1>6, <1>8, <2>1, <2>2 DEF Running, OneWay, AllRename
<1> QED BY <1>7, <1>8

LEMMA InPlacedOrder ==
  ASSUME Shape
  PROVE  /\ \A w : IsPlaced(w) => placed # <<>>
         /\ \A v, w : AtOrAfter(v, w) =>
              v \in Writer /\ \E j \in Positions(v), k \in Positions(w) : j >= k
<1>1. placed \in Seq(Writer) /\ Len(placed) \in Nat /\ DOMAIN placed = 1..Len(placed)
  BY DEF Shape
<1>2. \A k \in DOMAIN placed : placed[k] \in Writer
  BY <1>1, ElementOfSeq
<1>3. \A w : IsPlaced(w) => placed # <<>>
  BY <1>1 DEF IsPlaced
<1>4. ASSUME NEW v, NEW w, AtOrAfter(v, w)
      PROVE  v \in Writer /\ \E j \in Positions(v), k \in Positions(w) : j >= k
  <2>1. PICK j \in DOMAIN placed, k \in DOMAIN placed : placed[j] = v /\ placed[k] = w /\ j >= k
    BY <1>4 DEF AtOrAfter
  <2>2. j \in Positions(v) /\ k \in Positions(w)
    BY <1>1, <2>1 DEF Positions
  <2> QED BY <1>2, <2>1, <2>2
<1> QED BY <1>3, <1>4

LEMMA WholeAtThePath ==
  ASSUME Shape, Files
  PROVE  ReadersSeeWholeFiles /\ LinkIsNotFollowed
<1> USE FilesAssumption
<1>1. entry \in Inodes \ inPlaceOf => Intact(entry) /\ entry # Torn
  BY DEF Files, Visible, Settled, Inodes, Absent, Link, Target, Original, Torn
<1>2. \A w \in Writer : Ended(w) => w \notin temps
  BY DEF Files, OwnFile, WithTemp, Ended
<1> QED BY <1>1, <1>2 DEF Files, ReadersSeeWholeFiles, LinkIsNotFollowed, Intact

\* A crash loses no data that was synced.
LEMMA SyncedSurvives ==
  ASSUME Shape, Crash, NEW x \in Inodes, inode[x].data = inode[x].disk
  PROVE  inode'[x] = inode[x]
BY DEF Crash, Shape

LEMMA CrashSurvives ==
  ASSUME Running, Crash
  PROVE  WritesSurvive'
<1> USE FilesAssumption
<1>0. /\ Shape /\ Files /\ fs \in FileSystems
      /\ entry' \in onDisk \/ (entry' = Absent /\ parent = "created")
      /\ UNCHANGED <<fs, parent, onDisk, temps, call, placed, inPlaceOf, swapped>>
  BY DEF Running, Shape, Crash
<1>1. \A x \in Inodes : Intact(x) => inode'[x] = inode[x]
  BY <1>0, SyncedSurvives DEF Intact
<1>2. ReadersSeeWholeFiles'
  <2>1. Visible(entry')
    BY <1>0 DEF Files, Visible
  <2>2. ASSUME entry' \in Inodes \ inPlaceOf PROVE Intact(entry') /\ entry' # Torn
    BY <1>0, <2>1, <2>2
    DEF Files, Visible, Settled, Inodes, Absent, Link, Target, Original, Torn
  <2>3. entry' \in Inodes \ inPlaceOf => inode'[entry'].data # Torn
    BY <1>1, <2>2 DEF Intact
  <2>4. \A w \in Writer : Ended(w)' => w \notin temps'
    BY <1>0 DEF Files, OwnFile, WithTemp, Ended
  <2> QED BY <1>0, <2>3, <2>4 DEF ReadersSeeWholeFiles, Inodes
<1>3. LinkIsNotFollowed'
  BY <1>0, <1>1 DEF LinkIsNotFollowed, Files, Inodes, Intact
<1>4. OkSurvivesCrash'
  <2> SUFFICES ASSUME fs.dirSync # "unsupported", ~swapped,
                      ~(\E v \in Writer : call[v].step = "sync parent"),
                      NEW w \in Writer, call[w].step = "ok"
               PROVE  /\ entry' \in Inodes
                      /\ \/ \E v \in Writer : /\ inode'[entry'].data = v
                                              /\ AtOrAfter(v, w)
                         \/ /\ entry' \in inPlaceOf
                            /\ \E v \in Writer : call[v].step \in {"truncate", "error"}
    <3>1. \A u, v : AtOrAfter(v, u) => \E j \in Positions(v), k \in Positions(u) : j >= k
      BY <1>0, InPlacedOrder
    <3>2. \A v : Positions(v)' = Positions(v)
      BY <1>0 DEF Positions
    <3> QED BY <1>0, <3>1, <3>2 DEF OkSurvivesCrash, Inodes
  <2>1. CASE InPlaceMode
    <3>1. AllInPlace
      BY <2>1 DEF Running, OneWay
    <3>2. entry' = Original /\ Original \in Inodes
      BY <1>0, <3>1 DEF AllInPlace, Inodes
    <3>3. IsPlaced(w) /\ placed # <<>>
      BY <1>0, <3>1, InPlacedOrder DEF AllInPlace, CallInPlace
    <3>4. CASE \E v \in Writer : call[v].step \in {"truncate", "error"}
      BY <3>1, <3>2, <3>3, <3>4 DEF AllInPlace
    <3>5. CASE \A v \in Writer : call[v].step \notin {"truncate", "error"}
      <4>1. inode[Original].data = LastPlaced /\ inode[Original].disk = LastPlaced
        BY <3>1, <3>3, <3>5 DEF AllInPlace
      <4>2. inode'[Original].data = LastPlaced
        BY <1>0, <3>2, <4>1, SyncedSurvives
      <4>3. LastPlaced \in Writer /\ AtOrAfter(LastPlaced, w)
        BY <1>0, <3>3, LastIsLast
      <4> QED BY <3>2, <4>2, <4>3
    <3> QED BY <3>4, <3>5
  <2>2. CASE ~InPlaceMode
    <3>1. AllRename
      BY <2>2 DEF Running, OneWay
    <3>2. fs.dirSync = "ok"
      BY <1>0, <3>1 DEF AllRename, CallRenames, FileSystem
    <3>3. entry' \in onDisk
      BY <1>0, <3>1, <3>2 DEF AllRename
    <3>4. AtOrAfter(entry', w)
      BY <3>1, <3>2, <3>3 DEF AllRename, CallRenames
    <3>5. entry' \in Writer
      BY <1>0, <3>4, InPlacedOrder
    <3>6. Intact(entry')
      BY <1>0, <3>1, <3>3, <3>5
      DEF AllRename, Files, Visible, Settled, Absent, Link, Original
    <3>7. entry' \in Inodes /\ inode'[entry'].data = entry'
      BY <1>1, <3>5, <3>6 DEF Inodes, Intact
    <3> QED BY <3>4, <3>5, <3>7
  <2> QED BY <2>1, <2>2
<1> QED BY <1>2, <1>3, <1>4 DEF WritesSurvive

\* What `write` says of its path, for any number of concurrent calls, any file
\* system, and a crash or a swapped entry between any two steps: nothing torn is
\* seen unless the file had to be written in place, a link is not followed, no
\* temp file stays, and what a call that returned Ok wrote survives.
THEOREM SecretsSurvive == FileSpec => []WritesSurvive
<1>1. FileInit => FilesInv
  BY FilesInit DEF FilesInv
<1>2. FilesInv /\ [FileNext]_fileVars => FilesInv'
  <2> SUFFICES ASSUME FilesInv, [FileNext]_fileVars PROVE FilesInv'
    OBVIOUS
  <2>1. CASE UNCHANGED fileVars
    <3>1. crashed' = crashed
      BY <2>1 DEF fileVars
    <3>2. CASE crashed
      <4>1. WritesSurvive'
        BY <2>1, <3>2 DEF FilesInv, WritesSurvive, ReadersSeeWholeFiles, LinkIsNotFollowed,
                          OkSurvivesCrash, Ended, Positions, fileVars, Inodes
      <4> QED BY <3>1, <3>2, <4>1 DEF FilesInv
    <3>3. CASE ~crashed
      <4>1. Shape'
        BY <2>1, <3>3 DEF FilesInv, Running, Shape, fileVars, Inodes
      <4>2. Files'
        BY <2>1, <3>3 DEF FilesInv, Running, Files, OwnFile, Visible, Settled, Intact, fileVars
      <4>3. OneWay'
        <5>0. UNCHANGED <<fs, parent, entry, onDisk, inode, call, placed, inPlaceOf, swapped>>
          BY <2>1 DEF fileVars
        <5>1. InPlaceMode' = InPlaceMode /\ LastPlaced' = LastPlaced
          BY <5>0 DEF InPlaceMode, LastPlaced
        <5>2. ASSUME NEW w \in Writer
              PROVE  /\ CallInPlace(w) => CallInPlace(w)'
                     /\ CallRenames(w) => CallRenames(w)'
          <6>1. IsPlaced(w)' = IsPlaced(w) /\ \A x : AtOrAfter(x, w)' = AtOrAfter(x, w)
            BY <5>0 DEF IsPlaced, AtOrAfter
          <6>2. CallInPlace(w) => CallInPlace(w)'
            BY <5>0, <6>1 DEF CallInPlace
          <6>3. CallRenames(w) => CallRenames(w)'
            BY <5>0, <6>1 DEF CallRenames
          <6> QED BY <6>2, <6>3
        <5>3. AllInPlace => AllInPlace'
          BY <5>0, <5>1, <5>2 DEF AllInPlace
        <5>4. AllRename => AllRename'
          BY <5>0, <5>1, <5>2 DEF AllRename
        <5> QED BY <3>3, <5>0, <5>1, <5>3, <5>4 DEF FilesInv, Running, OneWay
      <4> QED BY <3>1, <3>3, <4>1, <4>2, <4>3 DEF FilesInv, Running
    <3> QED BY <3>2, <3>3
  <2>2. ASSUME NEW w \in Writer, WriterStep(w) PROVE FilesInv'
    <3>1. ~crashed /\ Running
      BY <2>2 DEF WriterStep, FilesInv
    <3>2. /\ FindParent(w) \/ CreateParent(w) \/ SyncParent(w)
             \/ Stat(w) \/ CreateTemp(w) \/ CopyIdentity(w) \/ WriteTemp(w)
             \/ SyncTemp(w) \/ Rename(w) \/ SyncDir(w)
             \/ OpenInPlace(w) \/ WriteInPlace(w) \/ TruncateInPlace(w)
          /\ crashed' = crashed
      BY <2>2 DEF WriterStep, FindParent, CreateParent, SyncParent, Stat, CreateTemp,
                  CopyIdentity, WriteTemp, SyncTemp, Rename, SyncDir, OpenInPlace,
                  WriteInPlace, TruncateInPlace
    <3>3. Running'
      BY <3>1, <3>2, EarlyKeeps, StatKeeps, CreateTempKeeps, CopyIdentityKeeps,
         WriteTempKeeps, SyncTempKeeps, RenameKeeps, SyncDirKeeps, OpenInPlaceKeeps,
         WriteInPlaceKeeps
    <3> QED BY <3>1, <3>2, <3>3 DEF FilesInv
  <2>3. CASE Swap
    BY <2>3, SwapKeeps DEF FilesInv, Swap
  <2>4. CASE Crash
    BY <2>4, CrashSurvives DEF FilesInv, Crash
  <2> QED BY <2>1, <2>2, <2>3, <2>4 DEF FileNext
<1>3. FilesInv => WritesSurvive
  BY WholeAtThePath DEF FilesInv, Running, WritesSurvive, OkSurvivesCrash
<1> QED BY <1>1, <1>2, <1>3, PTL DEF FileSpec
=============================================================================
